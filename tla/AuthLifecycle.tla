--------------------------- MODULE AuthLifecycle ---------------------------
(***************************************************************************)
(* Everything else that writes Manager.auths while requests are served:    *)
(*                                                                         *)
(*   - the goroutines of refreshAuth (conductor.go), one per token refresh;*)
(*   - consumers, which apply the auth updates of the watcher to the       *)
(*     manager and the registry (service.go); consumeAuthUpdates is one,   *)
(*     a saturated queue makes emitAuthUpdate another;                     *)
(*   - handlers of the management API (auth_files.go).                     *)
(*                                                                         *)
(* All of them read a copy of an auth, let go of the lock, and later write *)
(* a whole auth back with Manager.Update: each is a sequence of steps.     *)
(***************************************************************************)
EXTENDS AuthManager

CONSTANTS Refreshers, Consumers, Handlers,   \* goroutines of each kind
          RefreshPending,                    \* refreshPendingBackoff
          RefreshFailure,                    \* refreshFailureBackoff
          UpdateLimit                        \* bound: updates one goroutine applies

Updaters == Consumers \cup Handlers

ASSUME LifecycleAssumption ==
  /\ Consumers \cap Handlers = {}
  /\ RefreshPending \in Nat \ {0} /\ RefreshFailure \in Nat \ {0}
  /\ UpdateLimit \in [Updaters -> Nat]

VARIABLES refreshers, updaters,
          withdrawn      \* history: auths consumers last took from the registry

lifecycleVars == <<managerVars, refreshers, updaters, withdrawn>>
----------------------------------------------------------------------------
Refresher ==
  [ pc     : {"idle", "read", "clone", "exec"},
    auth   : Auths \cup {"none"},
    copy   : Auth,
    shared : BOOLEAN ]    \* copy still shares ModelStates with the manager's auth

Updater ==
  [ pc   : {"idle", "read", "update", "register"},
    kind : {"none", "apply", "remove", "enable", "disable", "upload"},
    auth : Auths \cup {"none"},
    copy : Auth,
    left : Nat ]

LifecycleTypeOK ==
  /\ ManagerTypeOK
  /\ refreshers \in [Refreshers -> Refresher]
  /\ updaters \in [Updaters -> Updater]
  /\ withdrawn \subseteq Auths

IdleRefresher == [pc |-> "idle", auth |-> "none", copy |-> NoAuth, shared |-> FALSE]
IdleUpdater(left) ==
  [pc |-> "idle", kind |-> "none", auth |-> "none", copy |-> NoAuth, left |-> left]

LifecycleInit ==
  /\ ManagerInit
  /\ refreshers = [f \in Refreshers |-> IdleRefresher]
  /\ updaters = [u \in Updaters |-> IdleUpdater(UpdateLimit[u])]
  /\ withdrawn = {}
----------------------------------------------------------------------------
\* Manager.Update and Register: the auth is replaced as a whole.  A clone in
\* progress goes on reading the model states of the object it replaces.
Replaced(a, rs) ==
  [f \in Refreshers |->
     IF rs[f].auth = a /\ rs[f].shared
       THEN [rs[f] EXCEPT !.copy.states = auths[a].states, !.shared = FALSE]
       ELSE rs[f]]

Update(a, auth) == auths' = [auths EXCEPT ![a] = auth]
----------------------------------------------------------------------------
(* Token refresh.  Any auth may be due: its lead time, interval and expiry *)
(* are left out.                                                           *)

\* Faulty variant: a refresh time that has passed is not told from one to come.
RefreshUnset(a) ==
  auths[a].present /\ ~auths[a].disabled /\ auths[a].refreshAfter = NoTime

RefreshDue(a) ==
  auths[a].present /\ ~auths[a].disabled /\ ~(auths[a].refreshAfter > 0)

\* checkRefreshes up to markRefreshPending, which starts the goroutine.
RefreshMark(f, a) ==
  /\ refreshers[f].pc = "idle" /\ RefreshDue(a)
  /\ auths' = [auths EXCEPT ![a].refreshAfter = RefreshPending]
  /\ refreshers' = [refreshers EXCEPT ![f].pc = "read", ![f].auth = a]
  /\ UNCHANGED <<reqs, registryVars, updaters, withdrawn>>

\* The auth is looked up under the lock and cloned after it is released: the
\* fields are copied at one moment ...
RefreshRead(f) ==
  /\ refreshers[f].pc = "read"
  /\ refreshers' = [refreshers EXCEPT ![f].pc = "clone", ![f].shared = TRUE,
                                      ![f].copy = auths[refreshers[f].auth]]
  /\ UNCHANGED <<managerVars, updaters, withdrawn>>

\* ... and the model states at a later one, with whatever results the auth
\* has been given in between.
RefreshClone(f) ==
  /\ refreshers[f].pc = "clone"
  /\ refreshers' = [refreshers EXCEPT ![f].pc = "exec", ![f].shared = FALSE,
        ![f].copy.states = IF refreshers[f].shared
                             THEN auths[refreshers[f].auth].states ELSE @]
  /\ UNCHANGED <<managerVars, updaters, withdrawn>>

\* The refreshed copy is stored.
RefreshOk(f) ==
  LET a == refreshers[f].auth
  IN /\ refreshers[f].pc = "exec"
     /\ Update(a, [refreshers[f].copy EXCEPT !.refreshAfter = NoTime])
     /\ refreshers' = [Replaced(a, refreshers) EXCEPT ![f] = IdleRefresher]
     /\ UNCHANGED <<reqs, registryVars, updaters, withdrawn>>

RefreshFails(f) ==
  /\ refreshers[f].pc = "exec"
  /\ auths' = [auths EXCEPT ![refreshers[f].auth].refreshAfter = RefreshFailure]
  /\ refreshers' = [refreshers EXCEPT ![f] = IdleRefresher]
  /\ UNCHANGED <<reqs, registryVars, updaters, withdrawn>>

\* The refresh loop is stopped or started anew.
RefreshCancelled(f) ==
  /\ refreshers[f].pc = "exec"
  /\ refreshers' = [refreshers EXCEPT ![f] = IdleRefresher]
  /\ UNCHANGED <<managerVars, updaters, withdrawn>>
----------------------------------------------------------------------------
(* Updates.                                                                *)

Free(u) == updaters[u].pc = "idle" /\ updaters[u].left > 0

\* GetByID has returned, and the auth to be written is made of what it found.
Prepares(u, kind, a, auth) ==
  updaters' = [updaters EXCEPT
     ![u] = [pc |-> "update", kind |-> kind, auth |-> a, copy |-> auth, left |-> @.left - 1]]

\* An auth built anew keeps the refresh time of the one it replaces.
Rebuilt(a, disabled) == [FreshAuth(disabled) EXCEPT !.refreshAfter = auths[a].refreshAfter]

Disabled(auth) == [auth EXCEPT !.disabled = TRUE, !.status = "disabled"]
Enabled(auth) == [auth EXCEPT !.disabled = FALSE, !.status = "active"]

\* applyCoreAuthAddOrUpdate for an auth file with this disabled flag.
ApplyRead(u) ==
  /\ u \in Consumers /\ Free(u)
  /\ \E a \in Auths, disabled \in BOOLEAN :
       /\ Prepares(u, "apply", a, Rebuilt(a, disabled))
       /\ withdrawn' = withdrawn \ {a}
  /\ UNCHANGED <<managerVars, refreshers>>

\* registerModelsForAuth, by the update's own disabled flag.
ApplyRegister(u) ==
  LET a == updaters[u].auth
  IN /\ updaters[u].pc = "register"
     /\ IF updaters[u].copy.disabled
          THEN UnregisterClient(a) /\ withdrawn' = withdrawn \cup {a}
          ELSE RegisterClient(a, ProviderOf[a], OfferedLists[a]) /\ UNCHANGED withdrawn
     /\ updaters' = [updaters EXCEPT ![u] = IdleUpdater(@.left)]
     /\ UNCHANGED <<auths, reqs, refreshers>>

\* applyCoreAuthRemoval: first the registry, then the auth is disabled.
RemoveUnregister(u) ==
  /\ u \in Consumers /\ Free(u)
  /\ \E a \in Auths :
       /\ UnregisterClient(a)
       /\ updaters' = [updaters EXCEPT
            ![u] = [IdleUpdater(@.left - 1) EXCEPT !.pc = "read", !.kind = "remove", !.auth = a]]
       /\ withdrawn' = withdrawn \cup {a}
  /\ UNCHANGED <<auths, reqs, refreshers>>

RemoveRead(u) ==
  LET a == updaters[u].auth
  IN /\ updaters[u].pc = "read"
     /\ updaters' = [updaters EXCEPT
          ![u] = IF auths[a].present
                   THEN [@ EXCEPT !.pc = "update", !.copy = Disabled(auths[a])]
                   ELSE IdleUpdater(@.left)]
     /\ UNCHANGED <<managerVars, refreshers, withdrawn>>

\* PatchAuthFileStatus, and disableAuth for a deleted file.
PatchRead(u) ==
  /\ u \in Handlers /\ Free(u)
  /\ \E a \in Auths :
       /\ auths[a].present
       /\ \/ Prepares(u, "disable", a, Disabled(auths[a]))
          \/ Prepares(u, "enable", a, Enabled(auths[a]))
  /\ UNCHANGED <<managerVars, refreshers, withdrawn>>

\* registerAuthFromFile for an uploaded file, whatever its disabled flag.
UploadRead(u) ==
  /\ u \in Handlers /\ Free(u)
  /\ \E a \in Auths : Prepares(u, "upload", a, Rebuilt(a, FALSE))
  /\ UNCHANGED <<managerVars, refreshers, withdrawn>>

UpdateApply(u) ==
  LET a == updaters[u].auth
  IN /\ updaters[u].pc = "update"
     /\ Update(a, updaters[u].copy)
     /\ refreshers' = Replaced(a, refreshers)
     /\ updaters' = [updaters EXCEPT
          ![u] = IF updaters[u].kind = "apply" THEN [@ EXCEPT !.pc = "register"]
                 ELSE IdleUpdater(@.left)]
     /\ UNCHANGED <<reqs, registryVars, withdrawn>>
----------------------------------------------------------------------------
\* The clock also runs for the copies.
LifecycleTick ==
  /\ Tick
  /\ refreshers' = [f \in Refreshers |-> [refreshers[f] EXCEPT !.copy = ElapseAuth(@)]]
  /\ updaters' = [u \in Updaters |-> [updaters[u] EXCEPT !.copy = ElapseAuth(@)]]
  /\ UNCHANGED withdrawn

RefreshStep(f) ==
  RefreshRead(f) \/ RefreshClone(f) \/ RefreshOk(f) \/ RefreshFails(f) \/ RefreshCancelled(f)

UpdateStep(u) ==
  \/ ApplyRead(u) \/ ApplyRegister(u)
  \/ RemoveUnregister(u) \/ RemoveRead(u)
  \/ PatchRead(u) \/ UploadRead(u)
  \/ UpdateApply(u)

LifecycleNext ==
  \/ \E r \in Requests :
       /\ RequestStep(r) \/ Cancelled(r)
       /\ UNCHANGED <<refreshers, updaters, withdrawn>>
  \/ LifecycleTick
  \/ \E f \in Refreshers : RefreshStep(f) \/ \E a \in Auths : RefreshMark(f, a)
  \/ \E u \in Updaters : UpdateStep(u)

LifecycleSpec == LifecycleInit /\ [][LifecycleNext]_lifecycleVars

\* Refresh calls return, the refresh loop comes back to every auth that is
\* due, and updates under way are finished.
LifecycleFairness ==
  /\ WF_lifecycleVars(LifecycleTick)
  /\ \A f \in Refreshers : WF_lifecycleVars(RefreshStep(f))
  /\ \A a \in Auths : WF_lifecycleVars(\E f \in Refreshers : RefreshMark(f, a))
  /\ \A u \in Updaters : WF_lifecycleVars(RemoveRead(u) \/ UpdateApply(u) \/ ApplyRegister(u))

FairLifecycleSpec == LifecycleSpec /\ LifecycleFairness
----------------------------------------------------------------------------
(* Properties.                                                             *)

\* Once a consumer has taken an auth out of service, no request is given it
\* until an update brings it back, even though a refresh or a management call
\* that read the auth before may enable it again in the manager.
WithdrawnNotPicked ==
  [][\A r \in Requests :
       reqs[r].pc = "pick" /\ reqs'[r].pc = "exec" => reqs'[r].auth \notin withdrawn
    ]_lifecycleVars

\* Refreshing never ends for good: whatever failures, cancellations and
\* concurrent updates there are, no NextRefreshAfter keeps an enabled auth
\* from being refreshed again.
RefreshGoesOn ==
  \A a \in Auths : []<>(auths[a].disabled \/ \E f \in Refreshers : refreshers[f].auth = a)

\* Disabled indicates the auth is intentionally disabled by operator
\* (types.go): it stays disabled until an update that enables it is applied.
DisabledUntilEnabled ==
  [][\A a \in Auths : auths[a].disabled /\ ~auths'[a].disabled =>
       \E u \in Updaters : UpdateApply(u) /\ updaters[u].auth = a
    ]_lifecycleVars
============================================================================
