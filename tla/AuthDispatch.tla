---------------------------- MODULE AuthDispatch ----------------------------
(***************************************************************************)
(* The update dispatcher of the watcher (internal/watcher/dispatcher.go),  *)
(* from the goroutines that find out what the auths are to the consumer in *)
(* the service.                                                            *)
(*                                                                         *)
(*   refreshers  run refreshAuthState: the goroutine of file events, the   *)
(*               one of Start, and one per reload of the configuration;    *)
(*   relays      push the auth of a websocket provider when it connects    *)
(*               and disconnects (dispatchRuntimeAuthUpdate);              *)
(*   the loop    moves pending updates into the bounded queue;             *)
(*   the consumer takes them out (consumeAuthUpdates, service.go).         *)
(*                                                                         *)
(* clientsMutex guards runtime and current, dispatchMu guards pending and  *)
(* order.  A refresher holds neither between its snapshot and the diff,    *)
(* nor between the diff and the dispatch.  A snapshot may find anything in *)
(* the configuration and the directory: when and why they change is the    *)
(* subject of FileWatch.                                                   *)
(***************************************************************************)
EXTENDS Naturals, Sequences, FiniteSets, SequencesExt

CONSTANTS FileAuths, RuntimeAuths,   \* auths of files and configuration; of websockets
          AuthContents,              \* what an auth can be
          Gone,                      \* no such auth; in an update: delete
          Refreshers,
          QueueSize,                 \* capacity of the channel, 256
          RefreshLimit, RelayLimit   \* bounds: refreshes and relay updates made

AuthIds == FileAuths \cup RuntimeAuths
AuthStates == AuthContents \cup {Gone}

ASSUME DispatchAssumption ==
  /\ FileAuths \cap RuntimeAuths = {} /\ IsFiniteSet(AuthIds)
  /\ Gone \notin AuthContents
  /\ QueueSize \in Nat \ {0}
  /\ RefreshLimit \in [Refreshers -> Nat] /\ RelayLimit \in Nat

VARIABLES runtime,      \* runtimeAuths
          current,      \* currentAuths
          refreshers, relays,
          pending,      \* pendingUpdates
          order,        \* pendingOrder
          loop,         \* dispatchLoop
          queue,        \* the channel of the service
          consumer,     \* consumeAuthUpdates: in its select, draining the queue, or over
          applied,      \* what the consumer has made of each auth
          stop,         \* stopDispatch
          heldTwice,    \* history: auths for which two goroutines held updates at once
          forgotten     \* history: auths dropped from current, not found again since

dispatchVars == <<runtime, current, refreshers, relays, pending, order, loop, queue,
                  consumer, applied, stop, heldTwice, forgotten>>
----------------------------------------------------------------------------
Update == [id : AuthIds, auth : AuthStates]

\* Updates of one dispatch: at most one for each auth.
Updates == UNION {[S -> AuthStates] : S \in SUBSET AuthIds}
NoUpdates == [i \in {} |-> Gone]

Refresher ==
  [ pc      : {"idle", "reload", "diff", "dispatch"},
    found   : [FileAuths -> AuthStates],
    updates : Updates,
    left    : Nat ]

Relay == [ updates : Updates, left : 0..RelayLimit ]

Loop ==
  [ pc    : {"idle", "waiting", "woken", "sending", "ended"},
    batch : Seq(Update) ]

DispatchTypeOK ==
  /\ runtime \in [RuntimeAuths -> AuthStates]
  /\ current \in [AuthIds -> AuthStates]
  /\ refreshers \in [Refreshers -> Refresher]
  /\ relays \in [RuntimeAuths -> Relay]
  /\ pending \in Updates
  /\ order \in Seq(AuthIds) /\ IsInjective(order) /\ ToSet(order) = DOMAIN pending
  /\ loop \in Loop
  /\ queue \in Seq(Update) /\ Len(queue) <= QueueSize
  /\ consumer \in {"select", "drain", "ended"}
  /\ applied \in [AuthIds -> AuthStates]
  /\ stop \in {"no", "cancelled", "cleared", "detached"}
  /\ heldTwice \subseteq AuthIds /\ forgotten \subseteq AuthIds

NothingFound == [i \in FileAuths |-> Gone]

\* The service has set its queue, and the loop waits for updates.
DispatchInit ==
  /\ runtime = [i \in RuntimeAuths |-> Gone]
  /\ current = [i \in AuthIds |-> Gone]
  /\ refreshers = [t \in Refreshers |->
        [pc |-> "idle", found |-> NothingFound, updates |-> NoUpdates, left |-> RefreshLimit[t]]]
  /\ relays = [i \in RuntimeAuths |-> [updates |-> NoUpdates, left |-> RelayLimit]]
  /\ pending = NoUpdates /\ order = <<>>
  /\ loop = [pc |-> "waiting", batch |-> <<>>]
  /\ queue = <<>> /\ consumer = "select"
  /\ applied = [i \in AuthIds |-> Gone]
  /\ stop = "no"
  /\ heldTwice = {} /\ forgotten = {}

Cancelled == stop # "no"          \* ctx.Err() # nil
Attached == stop # "detached"     \* authQueue # nil
----------------------------------------------------------------------------
\* The auths for which someone has worked out an update and not yet
\* dispatched it.
HeldUpdates == UNION ({DOMAIN refreshers[t].updates : t \in Refreshers}
               \cup {DOMAIN relays[i].updates : i \in RuntimeAuths})

\* dispatchAuthUpdates under dispatchMu, with the auths that do not wait yet
\* in the order `first`: a newer update takes the place of one that waits.
Merge(us, first) ==
  /\ order' = order \o first
  /\ pending' = [i \in DOMAIN pending \cup DOMAIN us |->
                   IF i \in DOMAIN us THEN us[i] ELSE pending[i]]
  /\ loop' = [loop EXCEPT !.pc = IF @ = "waiting" THEN "woken" ELSE @]

\* Faulty variant: an auth that waits is put in the order again.
DispatchAgain(us) ==
  \/ ~Attached /\ UNCHANGED <<pending, order, loop>>
  \/ Attached /\ \E first \in SetToSeqs(DOMAIN us) : Merge(us, first)

\* dispatchAuthUpdates; without a queue the updates are dropped.
DispatchAuthUpdates(us) ==
  \/ ~Attached /\ UNCHANGED <<pending, order, loop>>
  \/ Attached /\ \E first \in SetToSeqs(DOMAIN us \ DOMAIN pending) : Merge(us, first)
----------------------------------------------------------------------------
(* refreshAuthState.                                                       *)

\* reloadClients after a change of the excluded models of some providers:
\* their auths are dropped from current, to be found again.
Forget(t) ==
  /\ refreshers[t].pc = "idle" /\ refreshers[t].left > 0
  /\ \E drop \in SUBSET {i \in AuthIds : current[i] # Gone} \ {{}} :
       /\ current' = [i \in AuthIds |-> IF i \in drop THEN Gone ELSE current[i]]
       /\ forgotten' = forgotten \cup drop
  /\ refreshers' = [refreshers EXCEPT ![t].pc = "reload"]
  /\ UNCHANGED <<runtime, relays, pending, order, loop, queue, consumer, applied, stop, heldTwice>>

\* SnapshotCoreAuths, without a lock.
Snapshot(t) ==
  /\ refreshers[t].pc \in {"idle", "reload"} /\ refreshers[t].left > 0
  /\ \E found \in [FileAuths -> AuthStates] :
       refreshers' = [refreshers EXCEPT ![t].pc = "diff", ![t].found = found,
                                        ![t].left = @ - 1]
  /\ UNCHANGED <<runtime, current, relays, pending, order, loop, queue, consumer, applied, stop,
                 heldTwice, forgotten>>

Known(found) == [i \in AuthIds |-> IF i \in FileAuths THEN found[i] ELSE runtime[i]]

\* Faulty variant: auths that are no longer found are overlooked.
ChangedFound(new, force) == {i \in AuthIds : new[i] # Gone /\ (force \/ new[i] # current[i])}

\* What prepareAuthUpdatesLocked reports of the new state.
Changed(new, force) ==
  {i \in AuthIds : IF force THEN new[i] # Gone \/ current[i] # Gone ELSE new[i] # current[i]}

\* The part of refreshAuthState under clientsMutex.
PrepareAuthUpdates(t) ==
  /\ refreshers[t].pc = "diff"
  /\ LET new == Known(refreshers[t].found)
     IN /\ current' = new
        /\ forgotten' = {i \in forgotten : new[i] = Gone}
        /\ \E force \in BOOLEAN :
             LET ids == IF Attached THEN Changed(new, force) ELSE {}
             IN /\ refreshers' = [refreshers EXCEPT
                     ![t].pc = IF ids = {} THEN "idle" ELSE "dispatch",
                     ![t].found = NothingFound,
                     ![t].updates = [i \in ids |-> new[i]]]
                /\ heldTwice' = heldTwice \cup (ids \cap HeldUpdates)
  /\ UNCHANGED <<runtime, relays, pending, order, loop, queue, consumer, applied, stop>>

Dispatch(t) ==
  /\ refreshers[t].pc = "dispatch"
  /\ DispatchAuthUpdates(refreshers[t].updates)
  /\ refreshers' = [refreshers EXCEPT ![t].pc = "idle", ![t].updates = NoUpdates]
  /\ UNCHANGED <<runtime, current, relays, queue, consumer, applied, stop, heldTwice, forgotten>>
----------------------------------------------------------------------------
(* dispatchRuntimeAuthUpdate.  A websocket session connects before it can  *)
(* disconnect, in one goroutine.                                           *)

RelayUpdate(i) ==
  /\ relays[i].updates = NoUpdates /\ relays[i].left > 0
  /\ \E auth \in IF runtime[i] = Gone THEN AuthContents ELSE {Gone} :
       /\ runtime' = [runtime EXCEPT ![i] = auth]
       /\ current' = [current EXCEPT ![i] = auth]
       /\ relays' = [relays EXCEPT ![i].updates = [j \in {i} |-> auth], ![i].left = @ - 1]
  /\ heldTwice' = heldTwice \cup ({i} \cap HeldUpdates)
  /\ forgotten' = forgotten \ {i}
  /\ UNCHANGED <<refreshers, pending, order, loop, queue, consumer, applied, stop>>

RelayDispatch(i) ==
  /\ relays[i].updates # NoUpdates
  /\ DispatchAuthUpdates(relays[i].updates)
  /\ relays' = [relays EXCEPT ![i].updates = NoUpdates]
  /\ UNCHANGED <<runtime, current, refreshers, queue, consumer, applied, stop, heldTwice, forgotten>>
----------------------------------------------------------------------------
(* dispatchLoop and nextPendingBatch.                                      *)

Wait ==
  /\ loop.pc \in {"idle", "woken"} /\ order = <<>> /\ ~Cancelled
  /\ loop' = [loop EXCEPT !.pc = "waiting"]
  /\ UNCHANGED <<pending, order, queue>>

\* Context cancelled: seen before and after Wait, not when updates wait.
LeaveWait ==
  /\ loop.pc = "woken" \/ (loop.pc = "idle" /\ order = <<>>)
  /\ Cancelled
  /\ loop' = [loop EXCEPT !.pc = "ended"]
  /\ UNCHANGED <<pending, order, queue>>

TakeBatch ==
  /\ loop.pc = "idle" \/ (loop.pc = "woken" /\ ~Cancelled)
  /\ order # <<>>
  /\ loop' = [pc |-> "sending",
              batch |-> [k \in 1..Len(order) |-> [id |-> order[k], auth |-> pending[order[k]]]]]
  /\ pending' = NoUpdates /\ order' = <<>>
  /\ UNCHANGED queue

\* Faulty variant: a full queue loses the update.
SendOrDrop ==
  /\ loop.pc = "sending"
  /\ queue' = IF Len(queue) < QueueSize THEN Append(queue, Head(loop.batch)) ELSE queue
  /\ loop' = [pc |-> IF Len(loop.batch) = 1 THEN "idle" ELSE "sending", batch |-> Tail(loop.batch)]
  /\ UNCHANGED <<pending, order>>

Send ==
  /\ loop.pc = "sending" /\ Len(queue) < QueueSize
  /\ queue' = Append(queue, Head(loop.batch))
  /\ loop' = [pc |-> IF Len(loop.batch) = 1 THEN "idle" ELSE "sending", batch |-> Tail(loop.batch)]
  /\ UNCHANGED <<pending, order>>

\* Faulty variant: the context is looked at between two sends only.
LeaveUnblocked ==
  /\ loop.pc = "sending" /\ Cancelled /\ Len(queue) < QueueSize
  /\ loop' = [pc |-> "ended", batch |-> <<>>]
  /\ UNCHANGED <<pending, order, queue>>

\* The rest of the batch is lost, by the select on ctx.Done or because
\* getAuthQueue finds none.
LeaveSend ==
  /\ loop.pc = "sending" /\ Cancelled
  /\ loop' = [pc |-> "ended", batch |-> <<>>]
  /\ UNCHANGED <<pending, order, queue>>

LoopStep ==
  /\ Wait \/ LeaveWait \/ TakeBatch \/ Send \/ LeaveSend
  /\ UNCHANGED <<runtime, current, refreshers, relays, consumer, applied, stop, heldTwice, forgotten>>

----------------------------------------------------------------------------
(* consumeAuthUpdates, in the service.                                     *)

\* The next update is taken and applied, and then those that follow it.
ConsumeUpdate ==
  /\ consumer # "ended" /\ queue # <<>>
  /\ applied' = [applied EXCEPT ![Head(queue).id] = Head(queue).auth]
  /\ queue' = Tail(queue)
  /\ consumer' = "drain"
  /\ UNCHANGED <<runtime, current, refreshers, relays, pending, order, loop, stop, heldTwice,
                 forgotten>>

ConsumerDrained ==
  /\ consumer = "drain" /\ queue = <<>>
  /\ consumer' = "select"
  /\ UNCHANGED <<runtime, current, refreshers, relays, pending, order, loop, queue, applied, stop,
                 heldTwice, forgotten>>

\* Its context is the service's, which ends before the watcher is stopped when
\* Run is cancelled, and by authQueueStop after it otherwise.
ConsumerEnds ==
  /\ consumer = "select"
  /\ consumer' = "ended"
  /\ UNCHANGED <<runtime, current, refreshers, relays, pending, order, loop, queue, applied, stop,
                 heldTwice, forgotten>>

ConsumerStep == ConsumeUpdate \/ ConsumerDrained
----------------------------------------------------------------------------
(* stopDispatch: cancel the context, clear what is pending and wake the    *)
(* loop, take the queue away.                                              *)

StopCancel ==
  /\ stop = "no" /\ stop' = "cancelled"
  /\ UNCHANGED <<pending, order, loop>>

StopClear ==
  /\ stop = "cancelled" /\ stop' = "cleared"
  /\ pending' = NoUpdates /\ order' = <<>>
  /\ loop' = [loop EXCEPT !.pc = IF @ = "waiting" THEN "woken" ELSE @]

StopDetach ==
  /\ stop = "cleared" /\ stop' = "detached"
  /\ UNCHANGED <<pending, order, loop>>

StopStep ==
  /\ StopCancel \/ StopClear \/ StopDetach
  /\ UNCHANGED <<runtime, current, refreshers, relays, queue, consumer, applied, heldTwice, forgotten>>
----------------------------------------------------------------------------
DispatchNext ==
  \/ \E t \in Refreshers : Forget(t) \/ Snapshot(t) \/ PrepareAuthUpdates(t) \/ Dispatch(t)
  \/ \E i \in RuntimeAuths : RelayUpdate(i) \/ RelayDispatch(i)
  \/ LoopStep \/ ConsumerStep \/ ConsumerEnds \/ StopStep

DispatchSpec == DispatchInit /\ [][DispatchNext]_dispatchVars

\* The loop runs whenever it can, the consumer until its context ends; a stop
\* that has begun ends.  Nobody is made to refresh, to relay or to stop.
DispatchFairness ==
  /\ WF_dispatchVars(LoopStep)
  /\ WF_dispatchVars(ConsumerStep)
  /\ WF_dispatchVars(StopStep /\ stop # "no")

FairDispatchSpec == DispatchSpec /\ DispatchFairness
----------------------------------------------------------------------------
(* Properties.                                                             *)

\* What a sequence of updates says of auth i.
StatesOf(i, updates) ==
  LET of[n \in 0..Len(updates)] ==
        IF n = 0 THEN <<>>
        ELSE IF updates[n].id = i THEN Append(of[n - 1], updates[n].auth) ELSE of[n - 1]
  IN of[Len(updates)]

\* The updates of auth i on their way to the consumer, oldest first.
OnTheWay(i) ==
  StatesOf(i, queue \o loop.batch) \o (IF i \in DOMAIN pending THEN <<pending[i]>> ELSE <<>>)

\* Nobody promises delivery any more: the watcher or the consumer is stopped.
DeliveryOver == Cancelled \/ consumer = "ended"

Mail == INSTANCE UpdateMail WITH Ids <- AuthIds, States <- AuthStates,
          owed <- [i \in AuthIds |-> OnTheWay(i)], given <- applied, closed <- DeliveryOver

\* The pending map, the batch in the loop's hands and the bounded channel are
\* together one mailbox per auth: the dispatcher "batches, deduplicates, and
\* delivers auth updates to registered consumers" (dispatcher.go), in order
\* for each auth; a newer update replaces only one that waits, nothing else is
\* dropped, and whatever is on its way is delivered unless the watcher or
\* the consumer is stopped.
ImplementsMail == Mail!FairMailSpec

\* What the consumer will have made of auth i when nothing is on its way.
Outcome(i) == IF OnTheWay(i) = <<>> THEN applied[i] ELSE Last(OnTheWay(i))

\* The consumer comes to agree with currentAuths about every auth nobody holds
\* an update for: diffing against currentAuths loses nothing.  Two exceptions
\* are in the code: an auth for which two goroutines held updates at once, since
\* they may dispatch in the other order; and one that a reload dropped from
\* currentAuths, while it has not been found again.
ConsumerFollows ==
  stop = "no" =>
    \A i \in AuthIds \ (HeldUpdates \cup heldTwice \cup forgotten) : Outcome(i) = current[i]

\* A stop ends the dispatch loop, whether it waits for updates, has just been
\* woken, or is blocked on a full queue that nobody empties any more because the
\* consumer has gone with the context of the service.
StopEndsLoop == (stop # "no") ~> (loop.pc = "ended")
=============================================================================
