------------------------- MODULE AuthLifecycleProofs -------------------------
(***************************************************************************)
(* An auth taken out of service is not picked, for any auths, models and   *)
(* requests, any number of refreshes and management calls, and one         *)
(* consumer of updates.  (A second one could be about to register the auth *)
(* for an earlier update.)  What disables the auth in the manager may be   *)
(* undone by whoever holds an older copy, so the argument is about the     *)
(* registry: only a consumer registers, and it holds no update for an auth *)
(* it has withdrawn.                                                       *)
(*                                                                         *)
(* And, for any number of consumers: what was proved of the registry and   *)
(* of backoffs by themselves holds of the whole system.                    *)
(***************************************************************************)
EXTENDS AuthLifecycle, AuthManagerProofs

\* Locals of goroutines are records with these fields; what they hold does
\* not matter here.
RequestShape(q) == {"pc", "auth"} \subseteq DOMAIN q
UpdaterShape(w) == {"pc", "kind", "auth"} \subseteq DOMAIN w

Shapes ==
  /\ reqs = [r \in Requests |-> reqs[r]] /\ \A r \in Requests : RequestShape(reqs[r])
  /\ updaters = [u \in Updaters |-> updaters[u]] /\ \A u \in Updaters : UpdaterShape(updaters[u])
  /\ clientModels \in [Clients -> ModelList]

\* Only updates of consumers get to the registry.
AppliesOnly ==
  \A u \in Updaters :
    /\ updaters[u].pc = "register" => updaters[u].kind = "apply"
    /\ updaters[u].pc = "read" => updaters[u].kind = "remove"
    /\ updaters[u].pc \in {"update", "register"} /\ updaters[u].kind = "apply" => u \in Consumers
    /\ updaters[u].pc # "idle" => updaters[u].auth \in Auths

NothingHeldFor(a) ==
  \A u \in Updaters :
    updaters[u].pc \in {"update", "register"} /\ updaters[u].kind = "apply" => updaters[u].auth # a

WithdrawnOut ==
  \A a \in withdrawn : a \in Auths /\ clientModels[a] = EmptyList /\ NothingHeldFor(a)

LifecycleInv == Shapes /\ AppliesOnly /\ WithdrawnOut
----------------------------------------------------------------------------
LEMMA ListsTyped == EmptyList \in ModelList /\ \A a \in Clients : OfferedLists[a] \in ModelList
  BY RegistryAssumption, ManagerAssumption DEF EmptyList, ModelList

LEMMA InitLifecycle == LifecycleInit => LifecycleInv
<1> SUFFICES ASSUME LifecycleInit PROVE LifecycleInv
  OBVIOUS
<1>1. Shapes
  <2>1. clientModels \in [Clients -> ModelList]
    BY ListsTyped DEF LifecycleInit, ManagerInit, Auths
  <2> QED
    BY <2>1 DEF LifecycleInit, ManagerInit, Shapes, RequestShape, UpdaterShape, NewRequest, IdleUpdater
<1>2. AppliesOnly
  BY DEF LifecycleInit, AppliesOnly, IdleUpdater
<1> QED
  BY <1>1, <1>2 DEF LifecycleInit, LifecycleInv, WithdrawnOut

\* What leaves the registry's lists, the updaters and the history alone keeps
\* the invariant if requests keep their shape.
LEMMA ElsewhereStep ==
  ASSUME LifecycleInv, UNCHANGED <<clientModels, updaters, withdrawn>>,
         reqs' = [r \in Requests |-> reqs'[r]], \A r \in Requests : RequestShape(reqs'[r])
  PROVE  LifecycleInv'
BY DEF LifecycleInv, Shapes, AppliesOnly, WithdrawnOut, NothingHeldFor, UpdaterShape, RequestShape

LEMMA RequestStepInv ==
  ASSUME LifecycleInv, NEW r \in Requests, RequestStep(r) \/ Cancelled(r),
         UNCHANGED <<refreshers, updaters, withdrawn>>
  PROVE  LifecycleInv'
<1>1. UNCHANGED clientModels
  BY DEF RequestStep, Cancelled, PickNext, PickFails, ExecuteEnds, StreamOpens, StreamEnds,
         MarkResult, MarkQuota, MarkSuspension, Retry, GiveUp, NextAttempt, registryVars,
         ClearModelQuotaExceeded, SetModelQuotaExceeded, ResumeClientModel, SuspendClientModel,
         UpdateMark
<1> SUFFICES reqs' = [q \in Requests |-> reqs'[q]] /\ \A q \in Requests : RequestShape(reqs'[q])
  BY <1>1, ElsewhereStep
<1>2. reqs = [q \in Requests |-> reqs[q]] /\ \A q \in Requests : RequestShape(reqs[q])
  BY DEF LifecycleInv, Shapes
<1>3. SUFFICES \E w : RequestShape(w) /\ reqs' = [reqs EXCEPT ![r] = w]
  <2> SUFFICES ASSUME NEW w, RequestShape(w), reqs' = [reqs EXCEPT ![r] = w]
               PROVE  reqs' = [q \in Requests |-> reqs'[q]] /\ \A q \in Requests : RequestShape(reqs'[q])
    OBVIOUS
  <2>1. reqs' = [q \in Requests |-> IF q = r THEN w ELSE reqs[q]]
    BY <1>2
  <2>2. \A q \in Requests : reqs'[q] = IF q = r THEN w ELSE reqs[q]
    BY <2>1
  <2> QED
    BY <1>2, <2>1, <2>2 DEF RequestShape
<1>4. \A how : RequestShape(EndedRequest(how))
  BY DEF RequestShape, EndedRequest, NewRequest
<1>5. RequestShape([reqs[r] EXCEPT !.pc = "pick", !.last = reqs[r].outcome.kind, !.outcome = NoOutcome])
  BY <1>2 DEF RequestShape
<1>6. CASE AfterResult(r) \/ GiveUp(r) \/ Cancelled(r)
  BY <1>4, <1>5, <1>6 DEF AfterResult, GiveUp, Cancelled
<1>7. CASE MarkResult(r) \/ MarkQuota(r)
  <2>1. CASE reqs' = [reqs EXCEPT ![r].pc = "quota"]
    <3> WITNESS [reqs[r] EXCEPT !.pc = "quota"]
    <3> QED
      BY <1>2, <2>1 DEF RequestShape
  <2>2. CASE reqs' = [reqs EXCEPT ![r].pc = "suspend"]
    <3> WITNESS [reqs[r] EXCEPT !.pc = "suspend"]
    <3> QED
      BY <1>2, <2>2 DEF RequestShape
  <2> QED
    BY <1>6, <1>7, <2>1, <2>2 DEF MarkResult, MarkQuota
<1>8. CASE PickNext(r)
  <2>1. PICK a : reqs' = [reqs EXCEPT ![r].pc = "exec", ![r].auth = a, ![r].tried = @ \cup {a}]
    BY <1>8 DEF PickNext
  <2> WITNESS [reqs[r] EXCEPT !.pc = "exec", !.auth = a, !.tried = @ \cup {a}]
  <2> QED
    BY <1>2, <2>1 DEF RequestShape
<1>9. CASE PickFails(r)
  <2> WITNESS [reqs[r] EXCEPT !.pc = "decide", !.last = IF @ = "none" THEN PickError(r) ELSE @]
  <2> QED
    BY <1>2, <1>9 DEF PickFails, RequestShape
<1>10. CASE ExecuteEnds(r) \/ StreamEnds(r)
  <2>1. PICK o : reqs' = [reqs EXCEPT ![r].pc = "mark", ![r].outcome = o]
    BY <1>10 DEF ExecuteEnds, StreamEnds
  <2> WITNESS [reqs[r] EXCEPT !.pc = "mark", !.outcome = o]
  <2> QED
    BY <1>2, <2>1 DEF RequestShape
<1>11. CASE StreamOpens(r)
  <2> WITNESS [reqs[r] EXCEPT !.pc = "streaming", !.open = TRUE]
  <2> QED
    BY <1>2, <1>11 DEF StreamOpens, RequestShape
<1>12. CASE Retry(r)
  <2> WITNESS [reqs[r] EXCEPT !.pc = "wait", !.wait = ClosestCooldownWait(r)]
  <2> QED
    BY <1>2, <1>12 DEF Retry, RequestShape
<1>13. CASE NextAttempt(r)
  <2> WITNESS [reqs[r] EXCEPT !.pc = "pick", !.wait = NoTime, !.tried = {}, !.last = "none", !.attempt = @ + 1]
  <2> QED
    BY <1>2, <1>13 DEF NextAttempt, RequestShape
<1> QED
  BY <1>6, <1>7, <1>8, <1>9, <1>10, <1>11, <1>12, <1>13 DEF RequestStep, MarkSuspension

LEMMA RefreshStepInv ==
  ASSUME LifecycleInv, NEW f \in Refreshers,
         RefreshStep(f) \/ \E a \in Auths : RefreshMark(f, a)
  PROVE  LifecycleInv'
<1>1. UNCHANGED <<clientModels, updaters, withdrawn, reqs>>
  BY DEF RefreshStep, RefreshMark, RefreshRead, RefreshClone, RefreshOk, RefreshFails,
         RefreshCancelled, managerVars, registryVars
<1> QED
  BY <1>1, ElsewhereStep DEF LifecycleInv, Shapes

LEMMA TickInv == LifecycleInv /\ LifecycleTick => LifecycleInv'
<1> SUFFICES ASSUME LifecycleInv, LifecycleTick PROVE LifecycleInv'
  OBVIOUS
<1>1. UNCHANGED <<clientModels, withdrawn>>
  BY DEF LifecycleTick, Tick, AgeQuotaMarks
<1>2. reqs' = [q \in Requests |-> reqs'[q]] /\ \A q \in Requests : RequestShape(reqs'[q])
  BY DEF LifecycleTick, Tick, LifecycleInv, Shapes, RequestShape
<1>3. \A u \in Updaters : updaters'[u] = [updaters[u] EXCEPT !.copy = ElapseAuth(@)]
  BY DEF LifecycleTick
<1>4. /\ updaters' = [u \in Updaters |-> updaters'[u]]
      /\ \A u \in Updaters : /\ UpdaterShape(updaters'[u])
                             /\ updaters'[u].pc = updaters[u].pc
                             /\ updaters'[u].kind = updaters[u].kind
                             /\ updaters'[u].auth = updaters[u].auth
  BY <1>3 DEF LifecycleTick, LifecycleInv, Shapes, UpdaterShape
<1> QED
  BY <1>1, <1>2, <1>4 DEF LifecycleInv, Shapes, AppliesOnly, WithdrawnOut, NothingHeldFor

\* An updater that comes to hold no update to apply.
LEMMA UpdaterStep ==
  ASSUME LifecycleInv, NEW u \in Updaters, NEW w, UNCHANGED <<clientModels, reqs, withdrawn>>,
         updaters' = [updaters EXCEPT ![u] = w], UpdaterShape(w),
         \/ w.pc = "idle"
         \/ w.pc = "update" /\ w.kind # "apply" /\ w.auth \in Auths
         \/ /\ w.pc = "register" /\ w.kind = "apply" /\ w.auth = updaters[u].auth
            /\ updaters[u].pc = "update" /\ updaters[u].kind = "apply"
  PROVE  LifecycleInv'
<1>1. \A v \in Updaters : updaters'[v] = IF v = u THEN w ELSE updaters[v]
  BY DEF LifecycleInv, Shapes
<1>2. Shapes'
  BY <1>1 DEF LifecycleInv, Shapes
<1>3. AppliesOnly'
  BY <1>1 DEF LifecycleInv, AppliesOnly
<1>4. WithdrawnOut'
  BY <1>1 DEF LifecycleInv, WithdrawnOut, NothingHeldFor
<1> QED
  BY <1>2, <1>3, <1>4 DEF LifecycleInv

LEMMA HandlerStepInv ==
  ASSUME LifecycleInv, NEW u \in Updaters, RemoveRead(u) \/ PatchRead(u) \/ UploadRead(u) \/ UpdateApply(u)
  PROVE  LifecycleInv'
<1>1. UpdaterShape(updaters[u]) /\ updaters = [v \in Updaters |-> updaters[v]]
  BY DEF LifecycleInv, Shapes
<1>2. UNCHANGED <<clientModels, reqs, withdrawn>>
  BY DEF RemoveRead, PatchRead, UploadRead, UpdateApply, managerVars, registryVars
<1>3. CASE RemoveRead(u)
  <2>1. updaters[u].auth \in Auths /\ updaters[u].kind # "apply"
    BY <1>3 DEF RemoveRead, LifecycleInv, AppliesOnly
  <2>2. CASE auths[updaters[u].auth].present
    <3> DEFINE w == [updaters[u] EXCEPT !.pc = "update", !.copy = Disabled(auths[updaters[u].auth])]
    <3>1. /\ updaters' = [updaters EXCEPT ![u] = w] /\ UpdaterShape(w)
          /\ w.pc = "update" /\ w.kind = updaters[u].kind /\ w.auth = updaters[u].auth
      BY <1>1, <1>3, <2>2 DEF RemoveRead, UpdaterShape
    <3> HIDE DEF w
    <3> QED
      BY <1>2, <2>1, <3>1, UpdaterStep
  <2>3. CASE ~auths[updaters[u].auth].present
    <3>1. updaters' = [updaters EXCEPT ![u] = IdleUpdater(updaters[u].left)]
      BY <1>1, <1>3, <2>3 DEF RemoveRead
    <3> QED
      BY <1>2, <3>1, UpdaterStep DEF IdleUpdater, UpdaterShape
  <2> QED
    BY <2>2, <2>3
<1>4. CASE PatchRead(u)
  <2>0. PICK kind \in {"disable", "enable"}, a \in Auths : \E auth : Prepares(u, kind, a, auth)
    BY <1>4 DEF PatchRead
  <2>1. PICK auth : Prepares(u, kind, a, auth)
    BY <2>0
  <2> QED
    BY <1>1, <1>2, <2>1, UpdaterStep DEF Prepares, UpdaterShape
<1>5. CASE UploadRead(u)
  <2>0. PICK a \in Auths : \E auth : Prepares(u, "upload", a, auth)
    BY <1>5 DEF UploadRead
  <2>1. PICK auth : Prepares(u, "upload", a, auth)
    BY <2>0
  <2> QED
    BY <1>1, <1>2, <2>1, UpdaterStep DEF Prepares, UpdaterShape
<1>6. CASE UpdateApply(u)
  <2>1. CASE updaters[u].kind = "apply"
    <3> DEFINE w == [updaters[u] EXCEPT !.pc = "register"]
    <3>1. /\ updaters' = [updaters EXCEPT ![u] = w] /\ UpdaterShape(w) /\ updaters[u].pc = "update"
          /\ w.pc = "register" /\ w.kind = "apply" /\ w.auth = updaters[u].auth
      BY <1>1, <1>6, <2>1 DEF UpdateApply, UpdaterShape
    <3> HIDE DEF w
    <3> QED
      BY <1>2, <2>1, <3>1, UpdaterStep
  <2>2. CASE updaters[u].kind # "apply"
    <3>1. updaters' = [updaters EXCEPT ![u] = IdleUpdater(updaters[u].left)]
      BY <1>1, <1>6, <2>2 DEF UpdateApply
    <3> QED
      BY <1>2, <3>1, UpdaterStep DEF IdleUpdater, UpdaterShape
  <2> QED
    BY <2>1, <2>2
<1> QED
  BY <1>3, <1>4, <1>5, <1>6

\* Steps of the one consumer.
LEMMA ConsumerStepInv ==
  ASSUME LifecycleInv, NEW u \in Updaters, Consumers = {u},
         ApplyRead(u) \/ ApplyRegister(u) \/ RemoveUnregister(u)
  PROVE  LifecycleInv'
<1>1. /\ updaters = [v \in Updaters |-> updaters[v]] /\ \A v \in Updaters : UpdaterShape(updaters[v])
      /\ reqs = [r \in Requests |-> reqs[r]] /\ \A r \in Requests : RequestShape(reqs[r])
      /\ clientModels \in [Clients -> ModelList]
  BY DEF LifecycleInv, Shapes
<1>2. \A v \in Updaters \ {u} : updaters[v].pc \in {"update", "register"} => updaters[v].kind # "apply"
  BY DEF LifecycleInv, AppliesOnly
<1>3. ASSUME NEW w, UpdaterShape(w), updaters' = [updaters EXCEPT ![u] = w], UNCHANGED reqs,
             clientModels' \in [Clients -> ModelList],
             w.pc = "register" => w.kind = "apply", w.pc = "read" => w.kind = "remove",
             w.pc # "idle" => w.auth \in Auths,
             \A a \in withdrawn' : /\ a \in Auths /\ clientModels'[a] = EmptyList
                                   /\ w.pc \in {"update", "register"} /\ w.kind = "apply" => w.auth # a
      PROVE  LifecycleInv'
  <2>1. \A v \in Updaters : updaters'[v] = IF v = u THEN w ELSE updaters[v]
    BY <1>1, <1>3
  <2>2. Shapes'
    BY <1>1, <1>3, <2>1 DEF Shapes
  <2>3. AppliesOnly'
    BY <1>3, <2>1 DEF AppliesOnly, LifecycleInv
  <2>4. WithdrawnOut'
    BY <1>2, <1>3, <2>1 DEF WithdrawnOut, NothingHeldFor
  <2> QED
    BY <2>2, <2>3, <2>4 DEF LifecycleInv
<1>4. CASE ApplyRead(u)
  <2>0. PICK a \in Auths : \E auth : Prepares(u, "apply", a, auth) /\ withdrawn' = withdrawn \ {a}
    BY <1>4 DEF ApplyRead
  <2>1. PICK auth : Prepares(u, "apply", a, auth) /\ withdrawn' = withdrawn \ {a}
    BY <2>0
  <2>2. UNCHANGED <<clientModels, reqs>>
    BY <1>4 DEF ApplyRead, managerVars, registryVars
  <2> DEFINE w == [pc |-> "update", kind |-> "apply", auth |-> a, copy |-> auth, left |-> updaters[u].left - 1]
  <2>3. updaters' = [updaters EXCEPT ![u] = w] /\ UpdaterShape(w)
    BY <2>1 DEF Prepares, UpdaterShape
  <2>4. w.pc = "update" /\ w.kind = "apply" /\ w.auth = a
    OBVIOUS
  <2>5. \A b \in withdrawn' : b \in Auths /\ clientModels'[b] = EmptyList /\ b # a
    BY <2>1, <2>2 DEF LifecycleInv, WithdrawnOut
  <2> HIDE DEF w
  <2> QED
    BY <1>1, <1>3, <2>1, <2>2, <2>3, <2>4, <2>5
<1>5. CASE ApplyRegister(u)
  <2> DEFINE a == updaters[u].auth
             w == IdleUpdater(updaters[u].left)
  <2>1. /\ a \in Auths /\ a \notin withdrawn /\ updaters' = [updaters EXCEPT ![u] = w] /\ UNCHANGED reqs
        /\ UpdaterShape(w) /\ w.pc = "idle"
    BY <1>5 DEF ApplyRegister, LifecycleInv, AppliesOnly, WithdrawnOut, NothingHeldFor, IdleUpdater,
                UpdaterShape
  <2>2. CASE updaters[u].copy.disabled
    <3>1. clientModels' = [clientModels EXCEPT ![a] = EmptyList] /\ withdrawn' = withdrawn \cup {a}
      BY <1>5, <2>2 DEF ApplyRegister, UnregisterClient
    <3>2. \A b \in withdrawn' : b \in Auths /\ clientModels'[b] = EmptyList
      BY <1>1, <2>1, <3>1 DEF LifecycleInv, WithdrawnOut, Auths
    <3> HIDE DEF w, a
    <3> QED
      BY <1>1, <1>3, <2>1, <3>1, <3>2, ListsTyped
  <2>3. CASE ~updaters[u].copy.disabled
    <3>1. PICK list \in ModelList : clientModels' = [clientModels EXCEPT ![a] = list] /\ withdrawn' = withdrawn
      BY <1>5, <2>1, <2>3, ListsTyped DEF ApplyRegister, RegisterClient, UnregisterClient, Auths
    <3>2. \A b \in withdrawn' : b \in Auths /\ clientModels'[b] = EmptyList
      BY <1>1, <2>1, <3>1 DEF LifecycleInv, WithdrawnOut, Auths
    <3> HIDE DEF w, a
    <3> QED
      BY <1>1, <1>3, <2>1, <3>1, <3>2
  <2> QED
    BY <2>2, <2>3
<1>6. CASE RemoveUnregister(u)
  <2>1. PICK a \in Auths :
          /\ UnregisterClient(a) /\ withdrawn' = withdrawn \cup {a}
          /\ updaters' = [updaters EXCEPT
               ![u] = [IdleUpdater(@.left - 1) EXCEPT !.pc = "read", !.kind = "remove", !.auth = a]]
    BY <1>6 DEF RemoveUnregister
  <2> DEFINE w == [IdleUpdater(updaters[u].left - 1) EXCEPT !.pc = "read", !.kind = "remove", !.auth = a]
  <2>2. /\ updaters' = [updaters EXCEPT ![u] = w] /\ UpdaterShape(w)
        /\ w.pc = "read" /\ w.kind = "remove" /\ w.auth = a
    BY <2>1 DEF IdleUpdater, UpdaterShape
  <2>3. /\ clientModels' = [clientModels EXCEPT ![a] = EmptyList] /\ UNCHANGED reqs
        /\ clientModels' \in [Clients -> ModelList]
    BY <1>1, <1>6, <2>1, ListsTyped DEF UnregisterClient, RemoveUnregister
  <2>4. \A b \in withdrawn' : b \in Auths /\ clientModels'[b] = EmptyList
    BY <1>1, <2>1, <2>3 DEF LifecycleInv, WithdrawnOut, Auths
  <2> HIDE DEF w
  <2> QED
    BY <1>3, <2>1, <2>2, <2>3, <2>4
<1> QED
  BY <1>4, <1>5, <1>6
----------------------------------------------------------------------------
LEMMA NextLifecycle ==
  ASSUME NEW c, Consumers = {c}, LifecycleInv, [LifecycleNext]_lifecycleVars
  PROVE  LifecycleInv'
<1>1. ASSUME NEW r \in Requests, RequestStep(r) \/ Cancelled(r), UNCHANGED <<refreshers, updaters, withdrawn>>
      PROVE  LifecycleInv'
  BY <1>1, RequestStepInv
<1>2. ASSUME NEW f \in Refreshers, RefreshStep(f) \/ \E a \in Auths : RefreshMark(f, a)
      PROVE  LifecycleInv'
  BY <1>2, RefreshStepInv
<1>3. ASSUME NEW u \in Updaters, UpdateStep(u) PROVE LifecycleInv'
  <2>1. CASE RemoveRead(u) \/ PatchRead(u) \/ UploadRead(u) \/ UpdateApply(u)
    BY <2>1, HandlerStepInv
  <2>2. CASE ApplyRead(u) \/ ApplyRegister(u) \/ RemoveUnregister(u)
    <3>1. u = c
      BY <2>2 DEF ApplyRead, ApplyRegister, RemoveUnregister, LifecycleInv, AppliesOnly
    <3> QED
      BY <2>2, <3>1, ConsumerStepInv
  <2> QED
    BY <1>3, <2>1, <2>2 DEF UpdateStep
<1>4. CASE UNCHANGED lifecycleVars
  <2>1. UNCHANGED <<clientModels, updaters, withdrawn, reqs>>
    BY <1>4 DEF lifecycleVars, managerVars, registryVars
  <2> QED
    BY <2>1, ElsewhereStep DEF LifecycleInv, Shapes
<1> QED
  BY <1>1, <1>2, <1>3, <1>4, TickInv DEF LifecycleNext

\* The step that picks asks the registry.
LEMMA PickAsksRegistry ==
  ASSUME LifecycleInv, [LifecycleNext]_lifecycleVars,
         NEW r \in Requests, reqs[r].pc = "pick", reqs'[r].pc = "exec"
  PROVE  reqs'[r].auth \notin withdrawn
<1>1. reqs = [q \in Requests |-> reqs[q]] /\ \A q \in Requests : RequestShape(reqs[q])
  BY DEF LifecycleInv, Shapes
<1>2. reqs' # reqs
  OBVIOUS
<1>3. ~LifecycleTick
  BY <1>1 DEF LifecycleTick, Tick, RequestShape
<1>4. PICK q \in Requests : RequestStep(q) \/ Cancelled(q)
  BY <1>2, <1>3 DEF LifecycleNext, RefreshStep, RefreshMark, RefreshRead, RefreshClone, RefreshOk,
       RefreshFails, RefreshCancelled, UpdateStep, ApplyRead, ApplyRegister, RemoveUnregister,
       RemoveRead, PatchRead, UploadRead, UpdateApply, managerVars, lifecycleVars
<1>5. q = r
  BY <1>1, <1>4 DEF RequestStep, Cancelled, PickNext, PickFails, ExecuteEnds, StreamOpens, StreamEnds,
         MarkResult, MarkQuota, MarkSuspension, Retry, GiveUp, NextAttempt, AfterResult
<1>6. PickNext(r)
  BY <1>1, <1>4, <1>5 DEF RequestStep, Cancelled, PickFails, ExecuteEnds, StreamOpens, StreamEnds,
         MarkResult, MarkQuota, MarkSuspension, Retry, GiveUp, NextAttempt, RequestShape, Ended
<1>7. PICK a \in Selectable(r) : reqs'[r].auth = a
  BY <1>1, <1>6 DEF PickNext, RequestShape
<1>8. a \in Candidates(r)
  BY <1>7 DEF Selectable, BestOf, Usable
<1>9. a \in Auths /\ clientModels[a][WantModel[r]] > 0 /\ WantModel[r] \in Models
  BY <1>8, ManagerAssumption DEF Candidates, ClientSupportsModel
<1> QED
  BY <1>7, <1>9 DEF LifecycleInv, WithdrawnOut, EmptyList

\* An auth that the consumer of updates took out of service (service.go
\* applyCoreAuthRemoval and registerModelsForAuth) is given to no request until
\* an update brings it back, whatever refreshes and management calls store.
THEOREM WithdrawnStaysOut ==
  ASSUME NEW c, Consumers = {c}
  PROVE  LifecycleSpec => WithdrawnNotPicked
<1>1. LifecycleInv /\ [LifecycleNext]_lifecycleVars =>
        [\A r \in Requests :
           reqs[r].pc = "pick" /\ reqs'[r].pc = "exec" => reqs'[r].auth \notin withdrawn]_lifecycleVars
  BY PickAsksRegistry
<1>2. LifecycleInv /\ [LifecycleNext]_lifecycleVars => LifecycleInv'
  BY NextLifecycle
<1> QED
  BY InitLifecycle, <1>1, <1>2, PTL DEF LifecycleSpec, WithdrawnNotPicked
----------------------------------------------------------------------------
(* The registry in the whole system: whatever requests, refreshes, updates *)
(* and management calls do, they change it by its own operations, on       *)
(* clients and lists it may be given.  So everything proved of the         *)
(* registry by itself holds of it here.                                    *)

RefresherOK(w) ==
  /\ w \in Refresher /\ AuthBounded(w.copy)
  /\ w.pc # "idle" => w.auth \in Auths

UpdaterOK(w) ==
  /\ w \in Updater /\ AuthBounded(w.copy)
  /\ w.pc # "idle" => w.auth \in Auths

AuthsBounded == auths \in [Auths -> Auth] /\ \A a \in Auths : AuthBounded(auths[a])
RefreshersOK ==
  refreshers \in [Refreshers -> Refresher] /\ \A f \in Refreshers : RefresherOK(refreshers[f])
UpdatersOK == updaters \in [Updaters -> Updater] /\ \A u \in Updaters : UpdaterOK(updaters[u])

SystemInv ==
  /\ RegistryInv /\ RequestsOK /\ AuthsBounded /\ RefreshersOK /\ UpdatersOK
  /\ withdrawn \subseteq Auths

RegistryStep == RegistryNext \/ UNCHANGED registryVars

LEMMA NewAuthBounded ==
  /\ \A disabled \in BOOLEAN : AuthBounded(FreshAuth(disabled))
  /\ AuthBounded(NoAuth)
<1>1. NoState \in ModelState /\ NoState.level = 0 /\ NoState.recover = NoTime
  BY DEF NoState, ModelState, Time
<1>2. StateBounded(NoState)
  BY <1>1, ManagerAssumption DEF StateBounded, NoTime
<1>3. ASSUME NEW auth \in Auth, auth.states = [m \in Models |-> NoState]
      PROVE  AuthBounded(auth)
  BY <1>2, <1>3 DEF AuthBounded
<1>4. ASSUME NEW disabled \in BOOLEAN
      PROVE  /\ FreshAuth(disabled) \in Auth
             /\ FreshAuth(disabled).states = [m \in Models |-> NoState]
  BY <1>1 DEF FreshAuth, Auth, Time, Statuses
<1>5. NoAuth \in Auth /\ NoAuth.states = [m \in Models |-> NoState]
  BY <1>1 DEF NoAuth, FreshAuth, Auth, Time, Statuses
<1> QED
  BY <1>3, <1>4, <1>5

\* An auth that differs in its own fields only.
LEMMA SameStatesBounded ==
  ASSUME NEW auth, AuthBounded(auth), NEW new \in Auth, new.states = auth.states
  PROVE  AuthBounded(new)
  BY DEF AuthBounded

LEMMA EditedBounded ==
  ASSUME NEW auth, AuthBounded(auth), NEW t \in Time
  PROVE  /\ AuthBounded([auth EXCEPT !.refreshAfter = t])
         /\ AuthBounded(Disabled(auth)) /\ AuthBounded(Enabled(auth))
<1>1. auth \in Auth
  BY DEF AuthBounded
<1>2. /\ [auth EXCEPT !.refreshAfter = t] \in Auth
      /\ [auth EXCEPT !.refreshAfter = t].states = auth.states
  BY <1>1 DEF Auth
<1>3. /\ Disabled(auth) \in Auth /\ Disabled(auth).states = auth.states
      /\ Enabled(auth) \in Auth /\ Enabled(auth).states = auth.states
  BY <1>1 DEF Auth, Disabled, Enabled, Statuses
<1> QED
  BY <1>2, <1>3, SameStatesBounded

\* A copy is given the model states of another auth.
LEMMA MixedBounded ==
  ASSUME NEW auth, AuthBounded(auth), NEW other, AuthBounded(other)
  PROVE  AuthBounded([auth EXCEPT !.states = other.states])
<1>1. auth \in Auth /\ other.states \in [Models -> ModelState]
  BY DEF AuthBounded, Auth
<1>2. /\ [auth EXCEPT !.states = other.states] \in Auth
      /\ [auth EXCEPT !.states = other.states].states = other.states
  BY <1>1 DEF Auth
<1> QED
  BY <1>2 DEF AuthBounded

LEMMA LoadedRegistry == ManagerInit => RegistryInv
<1> SUFFICES ASSUME ManagerInit PROVE RegistryInv
  OBVIOUS
<1>1. clientModels \in [Clients -> ModelList]
  BY ListsTyped DEF ManagerInit, Auths
<1>2. clientProviders \in [Clients -> Providers \cup {NoProvider}]
  BY ManagerAssumption DEF ManagerInit, Auths
<1>3. ASSUME NEW m \in Models, NEW who \in SUBSET Clients
      PROVE  Cardinality(Listings(m, who)) \in Nat
  <2>1. IsFiniteSet(who) /\ IsFiniteSet(1..MaxCopies)
    BY FS_Interval, FS_Subset, RegistryAssumption
  <2>2. IsFiniteSet(who \X (1..MaxCopies))
    BY <2>1, FS_Product
  <2>3. Listings(m, who) \in SUBSET (who \X (1..MaxCopies))
    BY DEF Listings
  <2> QED
    BY <2>2, <2>3, FS_Subset, FS_CardinalityType
<1>4. ASSUME NEW m \in Models
      PROVE  /\ models[m] \in Registration
             /\ models[m].count = Cardinality(Listings(m, Clients))
             /\ \A p \in Providers : models[m].providers[p] = Cardinality(Listings(m, ClientsOf(p)))
  <2> DEFINE count == Cardinality(Listings(m, Clients))
             shares == [p \in Providers |-> Cardinality(Listings(m, ClientsOf(p)))]
  <2>1. count \in Nat
    BY <1>3
  <2>2. shares \in [Providers -> Nat]
    BY <1>3 DEF ClientsOf
  <2>3. models[m] = [NoRegistration EXCEPT !.count = count, !.providers = shares]
    BY DEF ManagerInit
  <2>5. \A p \in Providers : shares[p] = Cardinality(Listings(m, ClientsOf(p)))
    OBVIOUS
  <2>6. count = Cardinality(Listings(m, Clients))
    OBVIOUS
  <2> HIDE DEF count, shares
  <2>4. models[m] \in Registration /\ models[m].count = count /\ models[m].providers = shares
    BY <2>1, <2>2, <2>3, NoRegistrationFacts DEF Registration
  <2> QED
    BY <2>4, <2>5, <2>6
<1>5. models = [m \in Models |-> models[m]]
  BY DEF ManagerInit
<1>6. models \in [Models -> Registration]
  BY <1>4, <1>5
<1> QED
  BY <1>1, <1>2, <1>4, <1>6 DEF RegistryInv, RegistryTypeOK, CountExact, ProvidersExact

LEMMA InitSystem == LifecycleInit => SystemInv
<1> SUFFICES ASSUME LifecycleInit PROVE SystemInv
  OBVIOUS
<1>1. RegistryInv
  BY LoadedRegistry DEF LifecycleInit
<1>2. RequestsOK
  BY NewRequestOK DEF LifecycleInit, ManagerInit, RequestsOK, RequestOK
<1>3. AuthsBounded
  <2>1. \A a \in Auths : AuthBounded(auths[a])
    BY NewAuthBounded DEF LifecycleInit, ManagerInit
  <2> QED
    BY <2>1 DEF LifecycleInit, ManagerInit, AuthsBounded, AuthBounded
<1>4. NoAuth \in Auth /\ AuthBounded(NoAuth)
  BY NewAuthBounded DEF AuthBounded
<1>5. RefreshersOK
  <2>1. RefresherOK(IdleRefresher)
    BY <1>4 DEF RefresherOK, IdleRefresher, Refresher
  <2> QED
    BY <2>1 DEF LifecycleInit, RefreshersOK, RefresherOK
<1>6. UpdatersOK
  <2>1. \A u \in Updaters : UpdaterOK(IdleUpdater(UpdateLimit[u]))
    BY <1>4, LifecycleAssumption DEF UpdaterOK, IdleUpdater, Updater
  <2> QED
    BY <2>1 DEF LifecycleInit, UpdatersOK, UpdaterOK
<1> QED
  BY <1>1, <1>2, <1>3, <1>5, <1>6 DEF SystemInv, LifecycleInit

----------------------------------------------------------------------------
(* Steps of requests.                                                      *)

\* A mark on one model is one of the operations of the registry.
LEMMA RequestUsesRegistry ==
  ASSUME SystemInv, NEW r \in Requests, RequestStep(r) \/ Cancelled(r)
  PROVE  RegistryStep
<1>1. RequestOK(reqs[r]) /\ WantModel[r] \in Models
  BY ManagerAssumption DEF SystemInv, RequestsOK
<1>2. CASE MarkQuota(r)
  <2>1. reqs[r].auth \in Clients
    BY <1>1, <1>2 DEF MarkQuota, RequestOK, Auths
  <2> QED
    BY <1>1, <1>2, <2>1 DEF MarkQuota, RegistryStep, RegistryNext
<1>3. CASE MarkSuspension(r)
  <2>1. reqs[r].auth \in Clients
    BY <1>1, <1>3 DEF MarkSuspension, RequestOK, Auths
  <2> QED
    BY <1>1, <1>3, <2>1 DEF MarkSuspension, RegistryStep, RegistryNext
<1>4. CASE ~MarkQuota(r) /\ ~MarkSuspension(r)
  <2>1. UNCHANGED registryVars
    BY <1>4 DEF RequestStep, Cancelled, PickNext, PickFails, ExecuteEnds, StreamOpens, StreamEnds,
         MarkResult, Retry, GiveUp, NextAttempt
  <2> QED
    BY <2>1 DEF RegistryStep
<1> QED
  BY <1>2, <1>3, <1>4

LEMMA RequestKeepsBounded ==
  ASSUME SystemInv, NEW r \in Requests, RequestStep(r) \/ Cancelled(r)
  PROVE  AuthsBounded'
<1>1. CASE auths' = auths
  BY <1>1 DEF SystemInv, AuthsBounded
<1>2. CASE MarkResult(r) /\ auths' # auths
  <2> DEFINE b == reqs[r].auth
             new == RecordResult(auths[b], WantModel[r], reqs[r].outcome, b \in NoCooling)
  <2>1. auths' = [auths EXCEPT ![b] = new]
    BY <1>2 DEF MarkResult
  <2>2. /\ b \in Auths /\ AuthBounded(auths[b]) /\ WantModel[r] \in Models
        /\ reqs[r].outcome \in Outcome /\ (b \in NoCooling) \in BOOLEAN
    BY <1>2, ManagerAssumption DEF SystemInv, AuthsBounded, RequestsOK, RequestOK, MarkResult
  <2>3. AuthBounded(new)
    BY <2>2, RecordBounded
  <2> HIDE DEF new
  <2> QED
    BY <2>1, <2>2, <2>3 DEF SystemInv, AuthsBounded, AuthBounded
<1>3. auths' = auths \/ MarkResult(r)
  BY DEF RequestStep, Cancelled, PickNext, PickFails, ExecuteEnds, StreamOpens, StreamEnds,
         MarkQuota, MarkSuspension, Retry, GiveUp, NextAttempt
<1> QED
  BY <1>1, <1>2, <1>3

LEMMA RequestKeepsSystem ==
  ASSUME SystemInv, NEW r \in Requests, RequestStep(r) \/ Cancelled(r),
         UNCHANGED <<refreshers, updaters, withdrawn>>
  PROVE  SystemInv' /\ RegistryStep
<1>1. RegistryStep
  BY RequestUsesRegistry
<1>2. RegistryInv'
  BY <1>1, NextInv DEF RegistryStep, SystemInv
<1>3. RequestsOK'
  BY RequestStepKeepsRequests DEF SystemInv, AuthsBounded
<1>4. AuthsBounded'
  BY RequestKeepsBounded
<1> QED
  BY <1>1, <1>2, <1>3, <1>4 DEF SystemInv, RefreshersOK, UpdatersOK

----------------------------------------------------------------------------
(* Steps of refreshes.                                                     *)

LEMMA OneRefresher ==
  ASSUME RefreshersOK, NEW f \in Refreshers, NEW w, RefresherOK(w),
         refreshers' = [refreshers EXCEPT ![f] = w]
  PROVE  RefreshersOK'
  BY DEF RefreshersOK, RefresherOK

LEMMA OneAuth ==
  ASSUME AuthsBounded, NEW a \in Auths, NEW auth, AuthBounded(auth),
         auths' = [auths EXCEPT ![a] = auth]
  PROVE  AuthsBounded'
  BY DEF AuthsBounded, AuthBounded

LEMMA IdleGoroutines ==
  /\ RefresherOK(IdleRefresher)
  /\ \A left \in Nat : UpdaterOK(IdleUpdater(left))
<1>1. NoAuth \in Auth /\ AuthBounded(NoAuth)
  BY NewAuthBounded DEF AuthBounded
<1>2. RefresherOK(IdleRefresher)
  BY <1>1 DEF RefresherOK, IdleRefresher, Refresher
<1>3. \A left \in Nat : UpdaterOK(IdleUpdater(left))
  BY <1>1 DEF UpdaterOK, IdleUpdater, Updater
<1> QED
  BY <1>2, <1>3

\* A clone in progress goes on with the states of the replaced auth.
LEMMA ReplacedOK ==
  ASSUME RefreshersOK, AuthsBounded, NEW a \in Auths
  PROVE  /\ Replaced(a, refreshers) \in [Refreshers -> Refresher]
         /\ \A f \in Refreshers : RefresherOK(Replaced(a, refreshers)[f])
<1>1. ASSUME NEW f \in Refreshers PROVE RefresherOK(Replaced(a, refreshers)[f])
  <2> DEFINE old == refreshers[f]
             copy == [old.copy EXCEPT !.states = auths[a].states]
  <2>1. RefresherOK(old) /\ AuthBounded(auths[a])
    BY DEF RefreshersOK, AuthsBounded
  <2>2. AuthBounded(copy) /\ copy \in Auth
    BY <2>1, MixedBounded DEF RefresherOK, AuthBounded
  <2>3. Replaced(a, refreshers)[f] = IF old.auth = a /\ old.shared
                                       THEN [old EXCEPT !.copy = copy, !.shared = FALSE] ELSE old
    BY DEF Replaced
  <2> HIDE DEF old, copy
  <2>4. RefresherOK([old EXCEPT !.copy = copy, !.shared = FALSE])
    BY <2>1, <2>2 DEF RefresherOK, Refresher
  <2> QED
    BY <2>1, <2>3, <2>4
<1>2. Replaced(a, refreshers) = [f \in Refreshers |-> Replaced(a, refreshers)[f]]
  BY DEF Replaced
<1> QED
  BY <1>1, <1>2 DEF RefresherOK

LEMMA RefreshKeepsSystem ==
  ASSUME SystemInv, NEW f \in Refreshers, RefreshStep(f) \/ \E a \in Auths : RefreshMark(f, a)
  PROVE  SystemInv' /\ UNCHANGED registryVars
<1>0. PICK old : old = refreshers[f]
  OBVIOUS
<1>1. RefresherOK(old) /\ RefreshersOK /\ AuthsBounded /\ \A a \in Auths : AuthBounded(auths[a])
      /\ refreshers \in [Refreshers -> Refresher] /\ auths \in [Auths -> Auth]
  BY <1>0 DEF SystemInv, RefreshersOK, AuthsBounded
<1>2. UNCHANGED <<registryVars, reqs, updaters, withdrawn>>
  BY DEF RefreshStep, RefreshMark, RefreshRead, RefreshClone, RefreshOk, RefreshFails,
         RefreshCancelled, managerVars
<1> SUFFICES AuthsBounded' /\ RefreshersOK'
  BY <1>2, NextInv DEF SystemInv, RequestsOK, UpdatersOK, registryVars
<1>3. RefreshPending \in Time /\ RefreshFailure \in Time /\ NoTime \in Time
  BY LifecycleAssumption DEF Time
<1>4. ASSUME NEW a \in Auths, RefreshMark(f, a) PROVE AuthsBounded' /\ RefreshersOK'
  <2> DEFINE auth == [auths[a] EXCEPT !.refreshAfter = RefreshPending]
             w == [old EXCEPT !.pc = "read", !.auth = a]
  <2>1. AuthBounded(auth)
    BY <1>1, <1>3, EditedBounded
  <2>2. RefresherOK(w)
    BY <1>1 DEF RefresherOK, Refresher
  <2>3. auths' = [auths EXCEPT ![a] = auth] /\ refreshers' = [refreshers EXCEPT ![f] = w]
    BY <1>0, <1>4 DEF RefreshMark
  <2> HIDE DEF auth, w
  <2> QED
    BY <1>1, <2>1, <2>2, <2>3, OneAuth, OneRefresher
<1>5. CASE RefreshRead(f)
  <2> DEFINE w == [old EXCEPT !.pc = "clone", !.shared = TRUE, !.copy = auths[old.auth]]
  <2>0. old.pc = "read"
    BY <1>0, <1>5 DEF RefreshRead
  <2>1. old.auth \in Auths /\ AuthBounded(auths[old.auth]) /\ auths[old.auth] \in Auth
    BY <1>1, <2>0 DEF RefresherOK
  <2>2. RefresherOK(w)
    BY <1>1, <2>1 DEF RefresherOK, Refresher
  <2>3. auths' = auths /\ refreshers' = [refreshers EXCEPT ![f] = w]
    BY <1>0, <1>5 DEF RefreshRead, managerVars
  <2> HIDE DEF w
  <2> QED
    BY <1>1, <2>2, <2>3, OneRefresher DEF AuthsBounded
<1>6. CASE RefreshClone(f)
  <2> DEFINE copy == [old.copy EXCEPT !.states = IF old.shared THEN auths[old.auth].states ELSE old.copy.states]
             w == [old EXCEPT !.pc = "exec", !.shared = FALSE, !.copy = copy]
  <2>0. old.pc = "clone"
    BY <1>0, <1>6 DEF RefreshClone
  <2>1. old.auth \in Auths /\ AuthBounded(auths[old.auth]) /\ AuthBounded(old.copy)
    BY <1>1, <2>0 DEF RefresherOK
  <2>2. AuthBounded(copy)
    BY <2>1, MixedBounded
  <2>3. auths' = auths /\ refreshers' = [refreshers EXCEPT ![f] = w]
    BY <1>0, <1>6 DEF RefreshClone, managerVars
  <2> HIDE DEF copy
  <2>4. RefresherOK(w)
    BY <1>1, <2>1, <2>2 DEF RefresherOK, Refresher, AuthBounded
  <2> HIDE DEF w
  <2> QED
    BY <1>1, <2>3, <2>4, OneRefresher DEF AuthsBounded
<1>7. CASE RefreshOk(f)
  <2> DEFINE a == old.auth
             auth == [old.copy EXCEPT !.refreshAfter = NoTime]
             rs == Replaced(a, refreshers)
  <2>0. old.pc = "exec"
    BY <1>0, <1>7 DEF RefreshOk
  <2>1. a \in Auths
    BY <1>1, <2>0 DEF RefresherOK
  <2>2. AuthBounded(auth)
    BY <1>1, <1>3, EditedBounded DEF RefresherOK
  <2>3. auths' = [auths EXCEPT ![a] = auth] /\ refreshers' = [rs EXCEPT ![f] = IdleRefresher]
    BY <1>0, <1>7 DEF RefreshOk, Update
  <2>4. rs \in [Refreshers -> Refresher] /\ \A g \in Refreshers : RefresherOK(rs[g])
    BY <1>1, <2>1, ReplacedOK
  <2> HIDE DEF a, auth, rs
  <2>5. RefresherOK(IdleRefresher) /\ IdleRefresher \in Refresher
    BY IdleGoroutines DEF RefresherOK
  <2>6. RefreshersOK'
    BY <2>3, <2>4, <2>5 DEF RefreshersOK
  <2> QED
    BY <1>1, <2>1, <2>2, <2>3, <2>6, OneAuth
<1>8. CASE RefreshFails(f)
  <2> DEFINE auth == [auths[old.auth] EXCEPT !.refreshAfter = RefreshFailure]
  <2>0. old.pc = "exec"
    BY <1>0, <1>8 DEF RefreshFails
  <2>1. old.auth \in Auths
    BY <1>1, <2>0 DEF RefresherOK
  <2>2. AuthBounded(auth)
    BY <1>1, <1>3, <2>1, EditedBounded
  <2>3. auths' = [auths EXCEPT ![old.auth] = auth] /\ refreshers' = [refreshers EXCEPT ![f] = IdleRefresher]
    BY <1>0, <1>8 DEF RefreshFails
  <2> HIDE DEF auth
  <2> QED
    BY <1>1, <2>1, <2>2, <2>3, IdleGoroutines, OneAuth, OneRefresher
<1>9. CASE RefreshCancelled(f)
  BY <1>1, <1>9, IdleGoroutines, OneRefresher DEF RefreshCancelled, managerVars, AuthsBounded
<1> QED
  BY <1>4, <1>5, <1>6, <1>7, <1>8, <1>9 DEF RefreshStep

----------------------------------------------------------------------------
(* Steps of consumers and management handlers.                             *)

LEMMA OneUpdater ==
  ASSUME UpdatersOK, NEW u \in Updaters, NEW w, UpdaterOK(w),
         updaters' = [updaters EXCEPT ![u] = w]
  PROVE  UpdatersOK'
  BY DEF UpdatersOK, UpdaterOK

\* What an updater needs of the system to go on.
LEMMA UpdaterFacts ==
  ASSUME SystemInv, NEW u \in Updaters
  PROVE  /\ UpdaterOK(updaters[u]) /\ updaters[u].left \in Nat
         /\ updaters \in [Updaters -> Updater]
         /\ \A a \in Auths : AuthBounded(auths[a]) /\ auths[a] \in Auth
         /\ UpdatersOK /\ RegistryInv /\ RefreshersOK /\ AuthsBounded
         /\ RequestsOK /\ withdrawn \subseteq Auths
  BY DEF SystemInv, UpdatersOK, UpdaterOK, Updater, AuthsBounded, AuthBounded

LEMMA RebuiltBounded ==
  ASSUME SystemInv, NEW a \in Auths, NEW disabled \in BOOLEAN
  PROVE  AuthBounded(Rebuilt(a, disabled))
<1>1. auths[a].refreshAfter \in Time
  BY DEF SystemInv, AuthsBounded, Auth
<1> QED
  BY <1>1, NewAuthBounded, EditedBounded DEF Rebuilt

\* An updater that has made the auth it will write.
LEMMA PreparesKeeps ==
  ASSUME SystemInv, NEW u \in Updaters, Free(u), NEW a \in Auths, NEW auth, AuthBounded(auth),
         NEW kind \in {"apply", "enable", "disable", "upload"}, Prepares(u, kind, a, auth)
  PROVE  UpdatersOK'
<1> DEFINE w == [pc |-> "update", kind |-> kind, auth |-> a, copy |-> auth,
                 left |-> updaters[u].left - 1]
<1>1. updaters[u].left - 1 \in Nat
  BY UpdaterFacts DEF Free
<1>2. UpdaterOK(w)
  BY <1>1 DEF UpdaterOK, Updater, AuthBounded
<1>3. updaters' = [updaters EXCEPT ![u] = w]
  BY DEF Prepares
<1> HIDE DEF w
<1> QED
  BY <1>2, <1>3, OneUpdater, UpdaterFacts

LEMMA UpdateKeepsSystem ==
  ASSUME SystemInv, NEW u \in Updaters, UpdateStep(u)
  PROVE  SystemInv' /\ RegistryStep
<1>0. PICK old : old = updaters[u]
  OBVIOUS
<1>1. /\ UpdaterOK(old) /\ old.left \in Nat /\ updaters \in [Updaters -> Updater]
      /\ \A a \in Auths : AuthBounded(auths[a]) /\ auths[a] \in Auth
      /\ UpdatersOK /\ RegistryInv /\ RefreshersOK /\ AuthsBounded
      /\ RequestsOK /\ withdrawn \subseteq Auths
  BY <1>0, UpdaterFacts
\* Only the updaters change.
<1>2. ASSUME UNCHANGED <<registryVars, auths, reqs, refreshers>>, UpdatersOK',
             withdrawn' \subseteq Auths
      PROVE  SystemInv' /\ RegistryStep
  BY <1>1, <1>2, NextInv
  DEF SystemInv, RequestsOK, AuthsBounded, RefreshersOK, registryVars, RegistryStep
\* A registry operation, and the updater goes on.
<1>3. ASSUME RegistryNext, UNCHANGED <<auths, reqs, refreshers>>, UpdatersOK',
             withdrawn' \subseteq Auths
      PROVE  SystemInv' /\ RegistryStep
  BY <1>1, <1>3, NextInv DEF SystemInv, RequestsOK, AuthsBounded, RefreshersOK, RegistryStep
<1>4. CASE ApplyRead(u)
  <2>0. PICK a \in Auths, disabled \in BOOLEAN :
          /\ Prepares(u, "apply", a, Rebuilt(a, disabled))
          /\ withdrawn' = withdrawn \ {a}
    BY <1>4 DEF ApplyRead
  <2>1. UpdatersOK'
    BY <1>4, <2>0, RebuiltBounded, PreparesKeeps DEF ApplyRead
  <2> QED
    BY <1>1, <1>2, <1>4, <2>0, <2>1 DEF ApplyRead, managerVars
<1>5. CASE ApplyRegister(u)
  <2>1. /\ old.pc = "register" /\ updaters' = [updaters EXCEPT ![u] = IdleUpdater(old.left)]
        /\ UNCHANGED <<auths, reqs, refreshers>>
    BY <1>0, <1>5 DEF ApplyRegister
  <2>2. old.auth \in Clients
    BY <1>1, <2>1 DEF UpdaterOK, Auths
  <2>3. UpdatersOK'
    BY <1>1, <2>1, IdleGoroutines, OneUpdater
  <2>4. CASE UnregisterClient(old.auth) /\ withdrawn' = withdrawn \cup {old.auth}
    <3>1. RegistryNext
      BY <2>2, <2>4 DEF RegistryNext
    <3>2. withdrawn' \subseteq Auths
      BY <1>1, <2>2, <2>4 DEF Auths
    <3> QED
      BY <1>3, <2>1, <2>3, <3>1, <3>2
  <2>5. CASE /\ RegisterClient(old.auth, ProviderOf[old.auth], OfferedLists[old.auth])
             /\ UNCHANGED withdrawn
    <3>1. ProviderOf[old.auth] \in Providers /\ OfferedLists[old.auth] \in Lists
      BY <2>2, ManagerAssumption
    <3>2. RegistryNext
      BY <2>2, <2>5, <3>1 DEF RegistryNext
    <3> QED
      BY <1>1, <1>3, <2>1, <2>3, <2>5, <3>2
  <2> QED
    BY <1>0, <1>5, <2>4, <2>5 DEF ApplyRegister
<1>6. CASE RemoveUnregister(u)
  <2>1. PICK a \in Auths :
          /\ UnregisterClient(a)
          /\ updaters' = [updaters EXCEPT
               ![u] = [IdleUpdater(old.left - 1) EXCEPT !.pc = "read", !.kind = "remove", !.auth = a]]
          /\ withdrawn' = withdrawn \cup {a}
    BY <1>0, <1>6 DEF RemoveUnregister
  <2> DEFINE w == [IdleUpdater(old.left - 1) EXCEPT !.pc = "read", !.kind = "remove", !.auth = a]
  <2>2. old.left - 1 \in Nat
    BY <1>0, <1>1, <1>6 DEF RemoveUnregister, Free
  <2>3. UpdaterOK(w)
    <3>1. UpdaterOK(IdleUpdater(old.left - 1))
      BY <2>2, IdleGoroutines
    <3> QED
      BY <3>1 DEF UpdaterOK, Updater
  <2>4. UpdatersOK'
    <3>1. updaters' = [updaters EXCEPT ![u] = w]
      BY <2>1
    <3> HIDE DEF w
    <3> QED
      BY <1>1, <2>3, <3>1, OneUpdater
  <2>5. RegistryNext /\ withdrawn' \subseteq Auths
    BY <1>1, <2>1 DEF RegistryNext, Auths
  <2>6. UNCHANGED <<auths, reqs, refreshers>>
    BY <1>6 DEF RemoveUnregister
  <2> QED
    BY <1>3, <2>4, <2>5, <2>6
<1>7. CASE RemoveRead(u)
  <2>1. old.auth \in Auths
    <3>1. old.pc = "read"
      BY <1>0, <1>7 DEF RemoveRead
    <3> QED
      BY <1>1, <3>1 DEF UpdaterOK
  <2> DEFINE w == [old EXCEPT !.pc = "update", !.copy = Disabled(auths[old.auth])]
  <2>2. UpdaterOK(w)
    <3>1. AuthBounded(Disabled(auths[old.auth]))
      BY <1>1, <2>1, EditedBounded DEF Time
    <3> QED
      BY <1>1, <2>1, <3>1 DEF UpdaterOK, Updater, AuthBounded
  <2>3. \/ updaters' = [updaters EXCEPT ![u] = w]
        \/ updaters' = [updaters EXCEPT ![u] = IdleUpdater(old.left)]
    BY <1>0, <1>7 DEF RemoveRead
  <2> HIDE DEF w
  <2>4. UpdatersOK'
    BY <1>1, <2>2, <2>3, IdleGoroutines, OneUpdater
  <2> QED
    BY <1>1, <1>2, <1>7, <2>4 DEF RemoveRead, managerVars
<1>8. CASE PatchRead(u)
  <2>0. PICK a \in Auths : \/ Prepares(u, "disable", a, Disabled(auths[a]))
                           \/ Prepares(u, "enable", a, Enabled(auths[a]))
    BY <1>8 DEF PatchRead
  <2>1. AuthBounded(Disabled(auths[a])) /\ AuthBounded(Enabled(auths[a]))
    BY <1>1, EditedBounded DEF Time
  <2>2. UpdatersOK'
    BY <1>8, <2>0, <2>1, PreparesKeeps DEF PatchRead
  <2> QED
    BY <1>1, <1>2, <1>8, <2>2 DEF PatchRead, managerVars
<1>9. CASE UploadRead(u)
  <2>0. PICK a \in Auths : Prepares(u, "upload", a, Rebuilt(a, FALSE))
    BY <1>9 DEF UploadRead
  <2>1. UpdatersOK'
    BY <1>9, <2>0, RebuiltBounded, PreparesKeeps DEF UploadRead
  <2> QED
    BY <1>1, <1>2, <1>9, <2>1 DEF UploadRead, managerVars
<1>10. CASE UpdateApply(u)
  <2>1. /\ old.pc = "update" /\ auths' = [auths EXCEPT ![old.auth] = old.copy]
        /\ refreshers' = Replaced(old.auth, refreshers)
        /\ UNCHANGED <<reqs, registryVars, withdrawn>>
    BY <1>0, <1>10 DEF UpdateApply, Update
  <2>2. old.auth \in Auths /\ AuthBounded(old.copy)
    BY <1>1, <2>1 DEF UpdaterOK
  <2>3. AuthsBounded'
    BY <1>1, <2>1, <2>2, OneAuth
  <2>4. RefreshersOK'
    BY <1>1, <2>1, <2>2, ReplacedOK DEF RefreshersOK
  <2> DEFINE w == [old EXCEPT !.pc = "register"]
  <2>5. UpdaterOK(w)
    BY <1>1, <2>2 DEF UpdaterOK, Updater
  <2>6. \/ updaters' = [updaters EXCEPT ![u] = w]
        \/ updaters' = [updaters EXCEPT ![u] = IdleUpdater(old.left)]
    BY <1>0, <1>10 DEF UpdateApply
  <2> HIDE DEF w
  <2>7. UpdatersOK'
    BY <1>1, <2>5, <2>6, IdleGoroutines, OneUpdater
  <2> QED
    BY <1>1, <2>1, <2>3, <2>4, <2>7, NextInv DEF SystemInv, RequestsOK, RegistryStep, registryVars
<1> QED
  BY <1>4, <1>5, <1>6, <1>7, <1>8, <1>9, <1>10 DEF UpdateStep

----------------------------------------------------------------------------
LEMMA TickKeepsSystem ==
  ASSUME SystemInv, LifecycleTick
  PROVE  SystemInv' /\ RegistryStep
<1>1. Tick /\ RegistryNext /\ UNCHANGED withdrawn
  BY DEF LifecycleTick, Tick, RegistryNext
<1>2. RegistryInv'
  BY <1>1, NextInv DEF SystemInv
<1>3. RequestsOK'
  BY <1>1, TickKeepsRequests DEF SystemInv
<1>4. AuthsBounded'
  <2>1. \A a \in Auths : AuthBounded(auths'[a])
    BY <1>1, ElapseBounded DEF Tick, SystemInv, AuthsBounded
  <2>2. auths' = [a \in Auths |-> auths'[a]]
    BY <1>1 DEF Tick
  <2> QED
    BY <2>1, <2>2 DEF AuthsBounded, AuthBounded
<1>5. RefreshersOK'
  <2>1. ASSUME NEW w, RefresherOK(w) PROVE RefresherOK([w EXCEPT !.copy = ElapseAuth(w.copy)])
    <3>1. AuthBounded(ElapseAuth(w.copy))
      BY <2>1, ElapseBounded DEF RefresherOK
    <3> QED
      BY <2>1, <3>1 DEF RefresherOK, Refresher, AuthBounded
  <2>2. refreshers' = [f \in Refreshers |-> [refreshers[f] EXCEPT !.copy = ElapseAuth(@)]]
    BY DEF LifecycleTick
  <2>3. \A f \in Refreshers : RefresherOK(refreshers'[f])
    BY <2>1, <2>2 DEF SystemInv, RefreshersOK
  <2>4. refreshers' = [f \in Refreshers |-> refreshers'[f]]
    BY <2>2
  <2> QED
    BY <2>3, <2>4 DEF RefreshersOK, RefresherOK
<1>6. UpdatersOK'
  <2>1. ASSUME NEW w, UpdaterOK(w) PROVE UpdaterOK([w EXCEPT !.copy = ElapseAuth(w.copy)])
    <3>1. AuthBounded(ElapseAuth(w.copy))
      BY <2>1, ElapseBounded DEF UpdaterOK
    <3> QED
      BY <2>1, <3>1 DEF UpdaterOK, Updater, AuthBounded
  <2>2. updaters' = [u \in Updaters |-> [updaters[u] EXCEPT !.copy = ElapseAuth(@)]]
    BY DEF LifecycleTick
  <2>3. \A u \in Updaters : UpdaterOK(updaters'[u])
    BY <2>1, <2>2 DEF SystemInv, UpdatersOK
  <2>4. updaters' = [u \in Updaters |-> updaters'[u]]
    BY <2>2
  <2> QED
    BY <2>3, <2>4 DEF UpdatersOK, UpdaterOK
<1> QED
  BY <1>1, <1>2, <1>3, <1>4, <1>5, <1>6 DEF SystemInv, RegistryStep

LEMMA SystemStep ==
  ASSUME SystemInv, [LifecycleNext]_lifecycleVars
  PROVE  SystemInv' /\ RegistryStep
<1>1. CASE UNCHANGED lifecycleVars
  BY <1>1, NextInv DEF lifecycleVars, managerVars, registryVars, SystemInv, RequestsOK, AuthsBounded,
     RefreshersOK, UpdatersOK, RegistryStep
<1>2. ASSUME NEW r \in Requests, RequestStep(r) \/ Cancelled(r), UNCHANGED <<refreshers, updaters, withdrawn>>
      PROVE  SystemInv' /\ RegistryStep
  BY <1>2, RequestKeepsSystem
<1>3. ASSUME NEW f \in Refreshers, RefreshStep(f) \/ \E a \in Auths : RefreshMark(f, a)
      PROVE  SystemInv' /\ RegistryStep
  BY <1>3, RefreshKeepsSystem DEF RegistryStep
<1>4. ASSUME NEW u \in Updaters, UpdateStep(u)
      PROVE  SystemInv' /\ RegistryStep
  BY <1>4, UpdateKeepsSystem
<1> QED
  BY <1>1, <1>2, <1>3, <1>4, TickKeepsSystem DEF LifecycleNext

LEMMA SystemHoldsInv == LifecycleSpec => []SystemInv
<1>1. SystemInv /\ [LifecycleNext]_lifecycleVars => SystemInv'
  BY SystemStep
<1> QED
  BY <1>1, InitSystem, PTL DEF LifecycleSpec

\* Every auth, request, token refresh and update under way is well formed at
\* any moment: the copies that refreshAuth, the consumers (service.go) and the
\* management handlers (auth_files.go) hold and write back are whole auths.
THEOREM LifecycleTypes == LifecycleSpec => []LifecycleTypeOK
<1>1. SystemInv => LifecycleTypeOK
  BY DEF SystemInv, LifecycleTypeOK, ManagerTypeOK, RegistryInv, RequestsOK, AuthsBounded,
         RefreshersOK, UpdatersOK
<1> QED
  BY <1>1, SystemHoldsInv, PTL

\* The registry's counters stay exact when the manager, the refreshes, the
\* consumers and the management handlers all run, however their steps
\* interleave: a late mark, removal or registration never miscounts.
THEOREM SystemCountsExact == LifecycleSpec => [](CountExact /\ ProvidersExact)
<1>1. SystemInv => CountExact /\ ProvidersExact
  BY DEF SystemInv, RegistryInv
<1> QED
  BY <1>1, SystemHoldsInv, PTL

\* A stale copy written back over a newer auth never carries a backoff past
\* the level that reaches the maximum, nor a cooldown longer than allowed.
THEOREM SystemBoundsBackoff == LifecycleSpec => []BackoffsBounded
<1>1. SystemInv => BackoffsBounded
  BY BoundedStates DEF SystemInv, AuthsBounded, AuthBounded, BackoffsBounded
<1> QED
  BY <1>1, SystemHoldsInv, PTL

\* Every step of the whole system is a step of the registry or leaves it
\* alone: no marking, update or removal touches it but by its operations.
THEOREM SystemUsesRegistry == LifecycleSpec => [][RegistryNext]_registryVars
<1>1. SystemInv /\ [LifecycleNext]_lifecycleVars => [RegistryNext]_registryVars
  BY SystemStep DEF RegistryStep
<1> QED
  BY <1>1, SystemHoldsInv, PTL DEF LifecycleSpec

\* Where the manager calls the registry late, for an auth that has left or a
\* model it no longer offers, the marks of a client still go with its listing.
THEOREM SystemMarksLeave == LifecycleSpec => MarksLeaveWithClient
<1>1. SystemInv /\ [LifecycleNext]_lifecycleVars =>
        [\A c \in Clients, m \in Models :
           ClientSupportsModel(c, m) /\ ~ClientSupportsModel(c, m)' =>
             models'[m].quota[c] = NoMark /\ models'[m].suspended[c] = NotSuspended]_registryVars
  BY SystemStep, MarksLeaveStep DEF RegistryStep, SystemInv
<1> QED
  BY <1>1, SystemHoldsInv, PTL DEF LifecycleSpec, MarksLeaveWithClient

\* Running out of quota everywhere hides no model, and under exact marks every
\* model with a client free to serve it is listed, also while auths are taken
\* out of service and brought back.
THEOREM SystemListings == LifecycleSpec => [](QuotaNeverHides /\ ListedWhenMarksExact)
<1>1. SystemInv => QuotaNeverHides /\ ListedWhenMarksExact
  BY CountsList, CountsHideNothing DEF SystemInv
<1> QED
  BY <1>1, SystemHoldsInv, PTL
=============================================================================
