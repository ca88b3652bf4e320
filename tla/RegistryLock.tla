---------------------------- MODULE RegistryLock ----------------------------
(***************************************************************************)
(* The mutex of the model registry (internal/registry/model_registry.go),  *)
(* a sync.RWMutex, as its callers take it: writers are the operations that *)
(* change the registry; readers call GetFirstAvailableModel, which keeps a *)
(* read lock while it calls GetAvailableModels and GetModelCount, and each *)
(* of those takes one more.                                                *)
(*                                                                         *)
(* sync.RWMutex lets no new reader in once a writer waits in Lock.         *)
(***************************************************************************)
EXTENDS Naturals

CONSTANTS Readers, Writers

VARIABLES pc,         \* where each goroutine is in its call
          reads,      \* read locks each reader holds
          waiting,    \* the writer inside Lock that waits for readers to leave
          writing     \* the writer that holds the lock

lockVars == <<pc, reads, waiting, writing>>

NoWriter == "none"

LockTypeOK ==
  /\ pc \in [Readers \cup Writers -> {"idle", "list", "listing", "count", "counting", "return",
                                      "lock", "locked"}]
  /\ reads \in [Readers -> 0..2]
  /\ waiting \in Writers \cup {NoWriter}
  /\ writing \in Writers \cup {NoWriter}

LockInit ==
  /\ pc = [t \in Readers \cup Writers |-> "idle"]
  /\ reads = [t \in Readers |-> 0]
  /\ waiting = NoWriter
  /\ writing = NoWriter
----------------------------------------------------------------------------
Goto(t, from, to) == pc[t] = from /\ pc' = [pc EXCEPT ![t] = to]

RLock(t) ==
  /\ waiting = NoWriter /\ writing = NoWriter
  /\ reads' = [reads EXCEPT ![t] = @ + 1]
  /\ UNCHANGED <<waiting, writing>>

RUnlock(t) ==
  /\ reads' = [reads EXCEPT ![t] = @ - 1]
  /\ UNCHANGED <<waiting, writing>>

\* GetFirstAvailableModel: lock, list the models, and then look at their
\* counts one by one until one has clients left.
BeginFirst(t) == Goto(t, "idle", "list") /\ RLock(t)
BeginListing(t) == Goto(t, "list", "listing") /\ RLock(t)
EndListing(t) == (Goto(t, "listing", "count") \/ Goto(t, "listing", "return")) /\ RUnlock(t)
BeginCount(t) == Goto(t, "count", "counting") /\ RLock(t)
EndCount(t) == (Goto(t, "counting", "count") \/ Goto(t, "counting", "return")) /\ RUnlock(t)
ReturnFirst(t) == Goto(t, "return", "idle") /\ RUnlock(t)

ReaderStep(t) ==
  \/ BeginListing(t) \/ EndListing(t)
  \/ BeginCount(t) \/ EndCount(t)
  \/ ReturnFirst(t)

\* A writer announces itself, waits for the readers, works, and unlocks.
Lock(w) ==
  /\ Goto(w, "idle", "lock")
  /\ waiting = NoWriter /\ writing = NoWriter
  /\ waiting' = w
  /\ UNCHANGED <<reads, writing>>

Locked(w) ==
  /\ Goto(w, "lock", "locked")
  /\ \A t \in Readers : reads[t] = 0
  /\ waiting' = NoWriter /\ writing' = w
  /\ UNCHANGED reads

Unlock(w) ==
  /\ Goto(w, "locked", "idle")
  /\ writing' = NoWriter
  /\ UNCHANGED <<reads, waiting>>

LockNext ==
  \/ \E t \in Readers : BeginFirst(t) \/ ReaderStep(t)
  \/ \E w \in Writers : Lock(w) \/ Locked(w) \/ Unlock(w)

\* A call that has begun goes on whenever it can; models to look at run out.
LockSpec ==
  /\ LockInit /\ [][LockNext]_lockVars
  /\ \A t \in Readers : WF_lockVars(ReaderStep(t)) /\ SF_lockVars(Goto(t, "counting", "return") /\ RUnlock(t))
  /\ \A w \in Writers : WF_lockVars(Locked(w) \/ Unlock(w))
----------------------------------------------------------------------------
(* Properties.                                                             *)

\* GetFirstAvailableModel "returns the first available model for the given
\* handler type" (model_registry.go): a call that has taken the lock returns.
CallsReturn ==
  \A t \in Readers : (pc[t] # "idle") ~> (pc[t] = "idle")
============================================================================
