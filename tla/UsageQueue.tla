----------------------------- MODULE UsageQueue -----------------------------
(***************************************************************************)
(* The queue of usage records (sdk/cliproxy/usage): requests publish, one  *)
(* worker hands each record to the registered plugins, Stop closes the     *)
(* queue.  Publish adds with the mutex held and signals after releasing    *)
(* it, and so does Stop: the worker may run in between.                    *)
(*                                                                         *)
(* The n-th record accepted is n, and so is the n-th plugin registered:    *)
(* plugins are only appended, so that the copy dispatch makes of the list  *)
(* is a prefix of it.  A plugin that panics has been handed its record.    *)
(***************************************************************************)
EXTENDS Naturals, Sequences

CONSTANTS Publishers,
          RecordLimit, PluginLimit   \* bounds: records published, plugins registered

ASSUME UsageAssumption == RecordLimit \in Nat /\ PluginLimit \in Nat

VARIABLES usage,       \* Manager.queue
          closed,      \* Manager.closed
          plugins,     \* how many are registered
          worker,      \* run: copied plugins, of which invoked ones have had the record
          publisher,   \* who has added a record and has yet to signal
          stopper,     \* Stop
          accepted,    \* history: records added so far
          handled,     \* history: what each plugin has been handed
          since        \* history: the record before the first a plugin is due

usageVars == <<usage, closed, plugins, worker, publisher, stopper, accepted, handled, since>>
----------------------------------------------------------------------------
Workers == [pc : {"none", "check", "waiting", "dispatch", "invoke", "ended"},
            record : Nat, copied : Nat, invoked : Nat]

UsageTypeOK ==
  /\ usage \in Seq(Nat) /\ closed \in BOOLEAN /\ plugins \in 0..PluginLimit
  /\ worker \in Workers
  /\ publisher \in [Publishers -> {"idle", "signal"}]
  /\ stopper \in {"idle", "broadcast", "done"}
  /\ accepted \in Nat
  /\ handled \in [1..PluginLimit -> Seq(Nat)] /\ since \in [1..PluginLimit -> Nat]

UsageInit ==
  /\ usage = <<>> /\ closed = FALSE /\ plugins = 0
  /\ worker = [pc |-> "none", record |-> 0, copied |-> 0, invoked |-> 0]
  /\ publisher = [p \in Publishers |-> "idle"]
  /\ stopper = "idle" /\ accepted = 0
  /\ handled = [j \in 1..PluginLimit |-> <<>>]
  /\ since = [j \in 1..PluginLimit |-> 0]

\* Records the worker has taken.
Taken == accepted - Len(usage)

\* Start, which Publish calls too: the worker is started once.
Started == [worker EXCEPT !.pc = IF @ = "none" THEN "check" ELSE @]
Woken == [worker EXCEPT !.pc = IF @ = "waiting" THEN "check" ELSE @]

StartWorker ==
  /\ worker.pc = "none"
  /\ worker' = Started
  /\ UNCHANGED <<usage, closed, plugins, publisher, stopper, accepted, handled, since>>

RegisterPlugin ==
  /\ plugins < PluginLimit
  /\ plugins' = plugins + 1
  /\ since' = [since EXCEPT ![plugins + 1] = IF worker.pc = "dispatch" THEN Taken - 1 ELSE Taken]
  /\ UNCHANGED <<usage, closed, worker, publisher, stopper, accepted, handled>>

PublishRecord(p) ==
  /\ publisher[p] = "idle" /\ accepted < RecordLimit
  /\ worker' = Started
  /\ IF closed
       THEN UNCHANGED <<usage, publisher, accepted>>
       ELSE /\ accepted' = accepted + 1
            /\ usage' = Append(usage, accepted + 1)
            /\ publisher' = [publisher EXCEPT ![p] = "signal"]
  /\ UNCHANGED <<closed, plugins, stopper, handled, since>>

SignalRecord(p) ==
  /\ publisher[p] = "signal"
  /\ publisher' = [publisher EXCEPT ![p] = "idle"]
  /\ worker' = Woken
  /\ UNCHANGED <<usage, closed, plugins, stopper, accepted, handled, since>>

CloseQueue ==
  /\ stopper = "idle"
  /\ closed' = TRUE /\ stopper' = "broadcast"
  /\ UNCHANGED <<usage, plugins, worker, publisher, accepted, handled, since>>

\* Faulty variant: Stop does not wake the worker.
BroadcastNothing ==
  /\ stopper = "broadcast"
  /\ stopper' = "done"
  /\ UNCHANGED <<usage, closed, plugins, worker, publisher, accepted, handled, since>>

BroadcastClose ==
  /\ stopper = "broadcast"
  /\ stopper' = "done" /\ worker' = Woken
  /\ UNCHANGED <<usage, closed, plugins, publisher, accepted, handled, since>>
----------------------------------------------------------------------------
(* run: wait, or end, or take a record; dispatch; safeInvoke.              *)

WaitForRecord ==
  /\ worker.pc = "check" /\ usage = <<>> /\ ~closed
  /\ worker' = [worker EXCEPT !.pc = "waiting"]
  /\ UNCHANGED <<usage, closed, plugins, publisher, stopper, accepted, handled, since>>

EndWorker ==
  /\ worker.pc = "check" /\ usage = <<>> /\ closed
  /\ worker' = [worker EXCEPT !.pc = "ended"]
  /\ UNCHANGED <<usage, closed, plugins, publisher, stopper, accepted, handled, since>>

TakeRecord ==
  /\ worker.pc = "check" /\ usage # <<>>
  /\ worker' = [worker EXCEPT !.pc = "dispatch", !.record = Head(usage)]
  /\ usage' = Tail(usage)
  /\ UNCHANGED <<closed, plugins, publisher, stopper, accepted, handled, since>>

CopyPlugins ==
  /\ worker.pc = "dispatch"
  /\ worker' = [worker EXCEPT !.pc = IF plugins = 0 THEN "check" ELSE "invoke",
                              !.copied = plugins, !.invoked = 0]
  /\ UNCHANGED <<usage, closed, plugins, publisher, stopper, accepted, handled, since>>

\* Faulty variant: the list is iterated, not a copy of it.
InvokeWhateverIsThere ==
  /\ worker.pc = "invoke"
  /\ LET j == worker.invoked + 1
     IN  /\ handled' = [handled EXCEPT ![j] = Append(@, worker.record)]
         /\ worker' = [worker EXCEPT !.pc = IF j = plugins THEN "check" ELSE "invoke",
                                     !.invoked = j]
  /\ UNCHANGED <<usage, closed, plugins, publisher, stopper, accepted, since>>

InvokePlugin ==
  /\ worker.pc = "invoke"
  /\ LET j == worker.invoked + 1
     IN  /\ handled' = [handled EXCEPT ![j] = Append(@, worker.record)]
         /\ worker' = [worker EXCEPT !.pc = IF j = worker.copied THEN "check" ELSE "invoke",
                                     !.invoked = j]
  /\ UNCHANGED <<usage, closed, plugins, publisher, stopper, accepted, since>>

WorkerStep == WaitForRecord \/ EndWorker \/ TakeRecord \/ CopyPlugins \/ InvokePlugin

UsageNext ==
  \/ StartWorker \/ RegisterPlugin \/ CloseQueue \/ BroadcastClose
  \/ \E p \in Publishers : PublishRecord(p) \/ SignalRecord(p)
  \/ WorkerStep

UsageSpec == UsageInit /\ [][UsageNext]_usageVars

\* Goroutines that can go on do, and a plugin returns.
UsageFairness ==
  /\ WF_usageVars(WorkerStep) /\ WF_usageVars(BroadcastClose)
  /\ \A p \in Publishers : WF_usageVars(SignalRecord(p))

FairUsageSpec == UsageSpec /\ UsageFairness
----------------------------------------------------------------------------
(* Properties.                                                             *)

\* Plugin j has yet to be handed the record the worker has taken last.
StillDue(j) ==
  \/ worker.pc = "dispatch"
  \/ worker.pc = "invoke" /\ worker.invoked < j /\ j <= worker.copied

(***************************************************************************)
(* Each plugin is handed every record taken since it was registered, each  *)
(* once and in the order of their acceptance, whatever publishes and       *)
(* registers meanwhile, and whether or not the queue has been closed.      *)
(***************************************************************************)
HandledInOrder ==
  \A j \in 1..plugins :
    /\ \A i \in 1..Len(handled[j]) : handled[j][i] = since[j] + i
    /\ since[j] + Len(handled[j]) = IF StillDue(j) THEN Taken - 1 ELSE Taken

(***************************************************************************)
(* manager.go:82: "Stop stops the dispatcher and drains the queue."  After *)
(* Stop the worker, if one was started, ends with every record accepted    *)
(* handed out.                                                             *)
(***************************************************************************)
StopDrains == (closed /\ worker.pc # "none") ~> (worker.pc = "ended" /\ usage = <<>>)
=============================================================================
