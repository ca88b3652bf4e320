---------------------------- MODULE AuthManager ----------------------------
(***************************************************************************)
(* The auth manager (sdk/cliproxy/auth/conductor.go) serving requests      *)
(* concurrently: pick an auth, execute, record the result, try the next    *)
(* auth, wait for the closest cooldown and start over.  Manager.mu guards  *)
(* `auths`; it is held during a pick and during the locked part of         *)
(* MarkResult, and free while the upstream executes.  The registry has its *)
(* own lock and MarkResult calls it after releasing the manager's: first   *)
(* the quota mark, then the suspension, each a step of its own.            *)
(*                                                                         *)
(* An auth is a client of the registry under its own ID, so Clients is the *)
(* set of auths.  Whichever usable auth of the best priority a selector    *)
(* takes (round robin or fill first), the choice made here covers it.      *)
(***************************************************************************)
EXTENDS ModelRegistry

CONSTANTS Requests, Streams,          \* client requests; those that stream
          WantModel, WantProviders,   \* what each request asks for
          ProviderOf, Priority,       \* auth attributes
          RetryLimit,                 \* request-retry, or the auth's override
          MaxWait,                    \* max-retry-interval
          NoCooling,                  \* auths with cooldowns disabled
          Loaded,                     \* auths found in the store at start-up
          OfferedLists,               \* auth -> model list it registers
          OutcomeKinds,               \* bound: outcomes an execution may have
          TransientCooldown, AccessCooldown, NotFoundCooldown,
          QuotaBackoffBase, QuotaBackoffMax, RetryAfters

INSTANCE AuthState WITH ModelIds <- Models

Auths == Clients

ASSUME ManagerAssumption ==
  /\ IsFiniteSet(Models)
  /\ Streams \subseteq Requests
  /\ WantModel \in [Requests -> Models]
  /\ WantProviders \in [Requests -> SUBSET Providers]
  /\ ProviderOf \in [Clients -> Providers]
  /\ Priority \in [Clients -> Int]
  /\ RetryLimit \in [Clients -> Nat]
  /\ MaxWait \in Nat
  /\ NoCooling \subseteq Clients
  /\ Loaded \subseteq Clients
  /\ OfferedLists \in [Clients -> Lists]
  /\ OutcomeKinds \subseteq Failures \cup {"ok"}
  /\ Reasons = {"quota", "unauthorized", "payment_required", "not_found"}
  /\ {TransientCooldown, AccessCooldown, NotFoundCooldown} \subseteq Nat \ {0}
  /\ {QuotaBackoffBase, QuotaBackoffMax} \subseteq Nat \ {0}
  /\ RetryAfters \subseteq Nat

VARIABLES auths,    \* Manager.auths
          reqs      \* the goroutines that run Execute or ExecuteStream

managerVars == <<auths, reqs, registryVars>>
----------------------------------------------------------------------------
NoOutcome == [kind |-> "none", retryAfter |-> NoTime]
PickErrors == {"auth_not_found", "auth_unavailable", "model_cooldown"}
Ended == {"done", "failed", "cancelled"}

Request ==
  [ pc      : {"pick", "exec", "streaming", "mark", "quota", "suspend", "decide", "wait"}
              \cup Ended,
    auth    : Auths \cup {"none"},       \* the auth executing or last executed
    tried   : SUBSET Auths,              \* tried in this pass
    attempt : Nat,
    last    : {"none"} \cup Failures \cup PickErrors,   \* lastErr
    outcome : Outcome \cup {NoOutcome},  \* of the execution being recorded
    open    : BOOLEAN,                   \* the caller holds the stream
    wait    : Time ]                     \* timer of waitForCooldown

ManagerTypeOK ==
  /\ RegistryTypeOK
  /\ auths \in [Auths -> Auth]
  /\ reqs \in [Requests -> Request]

NewRequest ==
  [pc |-> "pick", auth |-> "none", tried |-> {}, attempt |-> 0,
   last |-> "none", outcome |-> NoOutcome, open |-> FALSE, wait |-> NoTime]

\* A request that is over keeps none of its local variables.
EndedRequest(how) == [NewRequest EXCEPT !.pc = how]

\* Start-up is over: the loaded auths are enabled and registered.
ManagerInit ==
  /\ auths = [a \in Auths |-> IF a \in Loaded THEN FreshAuth(FALSE) ELSE NoAuth]
  /\ reqs = [r \in Requests |-> NewRequest]
  /\ clientModels = [a \in Auths |-> IF a \in Loaded THEN OfferedLists[a] ELSE EmptyList]
  /\ clientProviders = [a \in Auths |-> IF Registered(a) THEN ProviderOf[a] ELSE NoProvider]
  /\ models = [m \in Models |-> [NoRegistration EXCEPT
        !.count = Cardinality(Listings(m, Clients)),
        !.providers = [p \in Providers |-> Cardinality(Listings(m, ClientsOf(p)))]]]
----------------------------------------------------------------------------
(* Picking an auth: pickNextMixed and the selectors.                       *)

Serves(r, a) == auths[a].present /\ ProviderOf[a] \in WantProviders[r]

\* Faulty variant: the registry is not asked.
CandidatesUnregistered(r) ==
  {a \in Auths \ reqs[r].tried : Serves(r, a) /\ ~auths[a].disabled}

Candidates(r) ==
  {a \in Auths \ reqs[r].tried :
     Serves(r, a) /\ ~auths[a].disabled /\ ClientSupportsModel(a, WantModel[r])}

Usable(r) == {a \in Candidates(r) : ~IsAuthBlockedForModel(auths[a], WantModel[r])}

BestOf(S) == {a \in S : \A b \in S : Priority[b] <= Priority[a]}

Selectable(r) == BestOf(Usable(r))

\* Every candidate is blocked by its quota: the selector's modelCooldownError.
AllOverQuota(r) ==
  \A a \in Candidates(r) : ~IsDisabled(auths[a]) /\ auths[a].states[WantModel[r]].exceeded

PickError(r) ==
  IF Candidates(r) = {} THEN "auth_not_found"
  ELSE IF AllOverQuota(r) THEN "model_cooldown" ELSE "auth_unavailable"

PickNext(r) ==
  /\ reqs[r].pc = "pick"
  /\ \E a \in Selectable(r) :
       reqs' = [reqs EXCEPT ![r].pc = "exec", ![r].auth = a, ![r].tried = @ \cup {a}]
  /\ UNCHANGED <<auths, registryVars>>

\* The pass ends with the error of its last execution, or of the pick.
PickFails(r) ==
  /\ reqs[r].pc = "pick"
  /\ Usable(r) = {}
  /\ reqs' = [reqs EXCEPT ![r].pc = "decide",
                          ![r].last = IF @ = "none" THEN PickError(r) ELSE @]
  /\ UNCHANGED <<auths, registryVars>>
----------------------------------------------------------------------------
(* Executing: the upstream answers whenever and however it likes.          *)

Outcomes(kinds, afters) ==
  {o \in Outcome : /\ o.kind \in kinds
                   /\ o.retryAfter # NoTime => o.kind = "quota" /\ o.retryAfter \in afters}

Opens(r) == r \in Streams /\ ~reqs[r].open

\* An execution that needs recording: a plain one that ended, or a stream
\* that could not be opened.
ExecuteEnds(r) ==
  /\ reqs[r].pc = "exec"
  /\ \E o \in Outcomes(IF Opens(r) THEN OutcomeKinds \ {"ok"} ELSE OutcomeKinds, RetryAfters) :
       reqs' = [reqs EXCEPT ![r].pc = "mark", ![r].outcome = o]
  /\ UNCHANGED <<auths, registryVars>>

\* The caller gets the channel; a goroutine forwards chunks from then on.
StreamOpens(r) ==
  /\ reqs[r].pc = "exec" /\ Opens(r)
  /\ reqs' = [reqs EXCEPT ![r].pc = "streaming", ![r].open = TRUE]
  /\ UNCHANGED <<auths, registryVars>>

\* The first chunk with an error, or the end of a stream without one.  The
\* Retry-After of a chunk's error is not looked at.
StreamEnds(r) ==
  /\ reqs[r].pc = "streaming"
  /\ \E o \in Outcomes(OutcomeKinds, {}) :
       reqs' = [reqs EXCEPT ![r].pc = "mark", ![r].outcome = o]
  /\ UNCHANGED <<auths, registryVars>>

\* The client went away: an execution that fails for it is not recorded, and
\* a wait is given up.
Cancelled(r) ==
  /\ reqs[r].pc \in {"exec", "wait"}
  /\ reqs' = [reqs EXCEPT ![r] = EndedRequest("cancelled")]
  /\ UNCHANGED <<auths, registryVars>>
----------------------------------------------------------------------------
(* MarkResult.                                                             *)

Succeeded(r) == reqs[r].outcome.kind = "ok"

\* The goroutine goes on: a stream or a success is over, a failed execution
\* makes room for the next pick of the same pass.
AfterResult(r) ==
  reqs' = [reqs EXCEPT ![r] =
    IF reqs[r].open \/ Succeeded(r) THEN EndedRequest("done")
    ELSE [@ EXCEPT !.pc = "pick", !.last = reqs[r].outcome.kind, !.outcome = NoOutcome]]

\* The locked part.  An auth that is gone gets no state and no registry call.
MarkResult(r) ==
  LET a == reqs[r].auth
  IN /\ reqs[r].pc = "mark"
     /\ IF auths[a].present
          THEN /\ auths' = [auths EXCEPT ![a] =
                     RecordResult(@, WantModel[r], reqs[r].outcome, a \in NoCooling)]
               /\ reqs' = [reqs EXCEPT ![r].pc = "quota"]
          ELSE /\ AfterResult(r)
               /\ UNCHANGED auths
     /\ UNCHANGED registryVars

\* ClearModelQuotaExceeded or SetModelQuotaExceeded.
MarkQuota(r) ==
  /\ reqs[r].pc = "quota"
  /\ IF Succeeded(r) THEN ClearModelQuotaExceeded(reqs[r].auth, WantModel[r])
     ELSE IF reqs[r].outcome.kind = "quota"
       THEN SetModelQuotaExceeded(reqs[r].auth, WantModel[r])
     ELSE UNCHANGED registryVars
  /\ reqs' = [reqs EXCEPT ![r].pc = "suspend"]
  /\ UNCHANGED auths

\* ResumeClientModel or SuspendClientModel, and back to the caller.
MarkSuspension(r) ==
  LET kind == reqs[r].outcome.kind
  IN /\ reqs[r].pc = "suspend"
     /\ IF Succeeded(r) THEN ResumeClientModel(reqs[r].auth, WantModel[r])
        ELSE IF kind \in Reasons
          THEN SuspendClientModel(reqs[r].auth, WantModel[r], kind)
        ELSE UNCHANGED registryVars
     /\ AfterResult(r)
     /\ UNCHANGED auths
----------------------------------------------------------------------------
(* Retrying: shouldRetryAfterError, closestCooldownWait, waitForCooldown.  *)

\* Auths whose cooldown this request may wait for; neither the registry nor
\* the auths already tried are looked at.
Awaitable(r) ==
  {a \in Auths : /\ Serves(r, a)
                 /\ reqs[r].attempt < RetryLimit[a]
                 /\ ~IsDisabled(auths[a])
                 /\ CoolingFor(auths[a], WantModel[r])}

ClosestCooldownWait(r) == Earliest({BlockedUntil(auths[a], WantModel[r]) : a \in Awaitable(r)})

ShouldRetry(r) == MaxWait > 0 /\ Awaitable(r) # {} /\ ClosestCooldownWait(r) <= MaxWait

Retry(r) ==
  /\ reqs[r].pc = "decide" /\ ShouldRetry(r)
  /\ reqs' = [reqs EXCEPT ![r].pc = "wait", ![r].wait = ClosestCooldownWait(r)]
  /\ UNCHANGED <<auths, registryVars>>

GiveUp(r) ==
  /\ reqs[r].pc = "decide" /\ ~ShouldRetry(r)
  /\ reqs' = [reqs EXCEPT ![r] = EndedRequest("failed")]
  /\ UNCHANGED <<auths, registryVars>>

\* Faulty variant: attempts are not counted.
NextAttemptUncounted(r) ==
  /\ reqs[r].pc = "wait" /\ reqs[r].wait = 0
  /\ reqs' = [reqs EXCEPT ![r].pc = "pick", ![r].wait = NoTime, ![r].tried = {},
                          ![r].last = "none"]
  /\ UNCHANGED <<auths, registryVars>>

\* The timer fires: a new pass, over all auths again.
NextAttempt(r) ==
  /\ reqs[r].pc = "wait" /\ reqs[r].wait = 0
  /\ reqs' = [reqs EXCEPT ![r].pc = "pick", ![r].wait = NoTime, ![r].tried = {},
                          ![r].last = "none", ![r].attempt = @ + 1]
  /\ UNCHANGED <<auths, registryVars>>
----------------------------------------------------------------------------
\* One tick of the clock, for every timer there is.
Tick ==
  /\ auths' = [a \in Auths |-> ElapseAuth(auths[a])]
  /\ reqs' = [r \in Requests |-> [reqs[r] EXCEPT !.wait = Elapse(@)]]
  /\ AgeQuotaMarks

RequestStep(r) ==
  \/ PickNext(r) \/ PickFails(r)
  \/ ExecuteEnds(r) \/ StreamOpens(r) \/ StreamEnds(r)
  \/ MarkResult(r) \/ MarkQuota(r) \/ MarkSuspension(r)
  \/ Retry(r) \/ GiveUp(r) \/ NextAttempt(r)

ManagerNext == Tick \/ \E r \in Requests : RequestStep(r) \/ Cancelled(r)

ManagerSpec == ManagerInit /\ [][ManagerNext]_managerVars

\* The Go scheduler runs every runnable goroutine, the clock advances, and an
\* upstream call returns in the end (its transport times out).
ManagerFairness ==
  /\ WF_managerVars(Tick)
  /\ \A r \in Requests : WF_managerVars(RequestStep(r))

FairManagerSpec == ManagerSpec /\ ManagerFairness
----------------------------------------------------------------------------
(* Properties.                                                             *)

\* The auth-level availability, retry time, quota and backoff that management
\* shows are those of its models, after any interleaving of their results.
AggregatesExact == \A a \in Auths : AggregateExact(auths[a])

\* Concurrent 429 answers for one model raise its backoff one level each;
\* they never push it past the level that reaches the maximum cooldown.
BackoffsBounded == \A a \in Auths : BackoffBounded(auths[a])

\* While only results change an auth, it is in error exactly while one of
\* its models is: a success of one model does not clear another's error, and
\* the last error cleared makes it active again.
StatusTellsErrors ==
  \A a \in Auths : auths[a].status = IF HasModelError(auths[a]) THEN "error" ELSE "active"

\* NextRetryAfter "defines the per-model retry time" (types.go): a cooldown
\* lasts until it has run out or a later result for the same model replaces
\* it.  Results of other models, retries and the aggregation leave it alone.
CooldownEndsForAReason ==
  [][\A a \in Auths, m \in Models :
       CoolingFor(auths[a], m) /\ ~CoolingFor(auths[a], m)' =>
         \/ Tick
         \/ \E r \in Requests : MarkResult(r) /\ reqs[r].auth = a /\ WantModel[r] = m
    ]_managerVars

\* Once every call of MarkResult has returned, a pair is suspended in the
\* registry only if the manager holds an error for it: ResumeClientModel
\* "clears a previous suspension so the client counts toward availability
\* again" (model_registry.go).
SuspendedOnlyInError ==
  (\A r \in Requests : reqs[r].pc \notin {"quota", "suspend"}) =>
    \A a \in Auths, m \in Models :
      models[m].suspended[a] # NotSuspended => auths[a].states[m].failed

\* Every request ends, whatever mixture of failures, cooldowns and retries it
\* meets: with a response, with an error, or because its client left.
RequestsTerminate == \A r \in Requests : <>(reqs[r].pc \in Ended)
============================================================================
