----------------------------- MODULE AuthState -----------------------------
(***************************************************************************)
(* The availability state of one auth (sdk/cliproxy/auth/types.go) and the *)
(* pure functions of conductor.go and selector.go that read and change it: *)
(* the effect of an execution result, the aggregation over the auth's      *)
(* models, and the test that keeps a cooling auth away from requests.      *)
(*                                                                         *)
(* A time.Time is kept relative to the clock: NoTime is the zero time, 0   *)
(* any instant that has passed, n > 0 an instant n ticks ahead.  Texts     *)
(* (messages, reasons, timestamps of record) are left out.  A model state  *)
(* has StatusError exactly while it has a LastError, so `failed` stands    *)
(* for both.                                                               *)
(***************************************************************************)
EXTENDS Integers

CONSTANTS ModelIds,           \* models an auth may hold a state for
          TransientCooldown,  \* 408 and 5xx: one minute
          AccessCooldown,     \* 401, 402 and 403: thirty minutes
          NotFoundCooldown,   \* 404: twelve hours
          QuotaBackoffBase,   \* quotaBackoffBase: one second
          QuotaBackoffMax,    \* quotaBackoffMax: thirty minutes
          RetryAfters         \* Retry-After values an upstream may send

----------------------------------------------------------------------------
NoTime == -1
Time == Nat \cup {NoTime}

\* Faulty variant: the zero time elapses too.
ElapseAlways(t) == IF t = 0 THEN t ELSE t - 1

Elapse(t) == IF t > 0 THEN t - 1 ELSE t

\* The earliest of a set of times, the zero time left aside.
Earliest(times) ==
  IF times \subseteq {NoTime} THEN NoTime
  ELSE CHOOSE t \in times \ {NoTime} : \A u \in times \ {NoTime} : t <= u

Statuses == {"active", "error", "disabled"}

ModelState ==
  [ known       : BOOLEAN,     \* present in Auth.ModelStates
    unavailable : BOOLEAN,
    failed      : BOOLEAN,     \* StatusError, with LastError
    next        : Time,        \* NextRetryAfter
    exceeded    : BOOLEAN,     \* Quota.Exceeded
    recover     : Time,        \* Quota.NextRecoverAt
    level       : Nat ]        \* Quota.BackoffLevel

Auth ==
  [ present      : BOOLEAN,    \* in Manager.auths
    disabled     : BOOLEAN,
    status       : Statuses,
    unavailable  : BOOLEAN,
    next         : Time,
    exceeded     : BOOLEAN,
    recover      : Time,
    level        : Nat,
    refreshAfter : Time,       \* NextRefreshAfter
    states       : [ModelIds -> ModelState] ]

NoState ==
  [known |-> FALSE, unavailable |-> FALSE, failed |-> FALSE, next |-> NoTime,
   exceeded |-> FALSE, recover |-> NoTime, level |-> 0]

\* ensureModelState for a model without one, and resetModelState.
FreshState == [NoState EXCEPT !.known = TRUE]

\* An auth as a synthesizer builds it, without any runtime state.
FreshAuth(disabled) ==
  [present |-> TRUE, disabled |-> disabled,
   status |-> IF disabled THEN "disabled" ELSE "active",
   unavailable |-> FALSE, next |-> NoTime, exceeded |-> FALSE, recover |-> NoTime,
   level |-> 0, refreshAfter |-> NoTime, states |-> [m \in ModelIds |-> NoState]]

NoAuth == [FreshAuth(FALSE) EXCEPT !.present = FALSE]

KnownModels(auth) == {m \in ModelIds : auth.states[m].known}

ElapseState(state) == [state EXCEPT !.next = Elapse(@), !.recover = Elapse(@)]

ElapseAuth(auth) ==
  [auth EXCEPT !.next = Elapse(@), !.recover = Elapse(@), !.refreshAfter = Elapse(@),
     !.states = [m \in ModelIds |-> ElapseState(auth.states[m])]]
----------------------------------------------------------------------------
(* Results.  An outcome is what the manager learns from one execution.     *)

Failures == {"unauthorized", "payment_required", "not_found", "quota", "transient", "other"}
Outcome == [kind : Failures \cup {"ok"}, retryAfter : RetryAfters \cup {NoTime}]

\* Faulty variant: the level grows past the maximum cooldown.
NextQuotaCooldownUncapped(level, disableCooling) ==
  LET cooldown == QuotaBackoffBase * 2^level
  IN IF disableCooling THEN [cooldown |-> 0, level |-> level]
     ELSE [cooldown |-> IF cooldown >= QuotaBackoffMax THEN QuotaBackoffMax ELSE cooldown,
           level |-> IF level < 5 THEN level + 1 ELSE level]

\* nextQuotaCooldown: [cooldown, level], the cooldown 0 when it is disabled.
NextQuotaCooldown(level, disableCooling) ==
  LET cooldown == QuotaBackoffBase * 2^level
  IN IF disableCooling THEN [cooldown |-> 0, level |-> level]
     ELSE IF cooldown >= QuotaBackoffMax THEN [cooldown |-> QuotaBackoffMax, level |-> level]
     ELSE [cooldown |-> cooldown, level |-> level + 1]

\* The model state after a failed execution; noCooling is
\* quotaCooldownDisabledForAuth.
FailState(state, outcome, noCooling) ==
  LET base    == [(IF state.known THEN state ELSE FreshState)
                    EXCEPT !.unavailable = TRUE, !.failed = TRUE]
      backoff == NextQuotaCooldown(base.level, noCooling)
      until   == IF outcome.retryAfter # NoTime THEN outcome.retryAfter
                 ELSE IF backoff.cooldown > 0 THEN backoff.cooldown ELSE NoTime
      level   == IF outcome.retryAfter # NoTime THEN base.level ELSE backoff.level
  IN CASE outcome.kind \in {"unauthorized", "payment_required"} ->
            [base EXCEPT !.next = AccessCooldown]
       [] outcome.kind = "not_found" -> [base EXCEPT !.next = NotFoundCooldown]
       [] outcome.kind = "quota" ->
            [base EXCEPT !.next = until, !.exceeded = TRUE, !.recover = until, !.level = level]
       [] outcome.kind = "transient" ->
            [base EXCEPT !.next = IF noCooling THEN NoTime ELSE TransientCooldown]
       [] OTHER -> [base EXCEPT !.next = NoTime]

\* Faulty variant: a cooldown ends one tick early.
EndCooldownEarly(state) ==
  IF state.unavailable /\ state.next \in {0, 1}
    THEN [state EXCEPT !.unavailable = FALSE, !.next = NoTime]
    ELSE state

\* updateAggregatedAvailability first lets run-out cooldowns end ...
EndCooldown(state) ==
  IF state.unavailable /\ state.next = 0
    THEN [state EXCEPT !.unavailable = FALSE, !.next = NoTime]
    ELSE state

\* ... and then derives the auth's own fields from its model states.
UpdateAggregatedAvailability(auth) ==
  LET states == [m \in ModelIds |-> EndCooldown(auth.states[m])]
      known  == KnownModels(auth)
      over   == {m \in known : states[m].exceeded}
      down   == \A m \in known : states[m].unavailable
  IN IF known = {} THEN auth
     ELSE [auth EXCEPT
        !.states      = states,
        !.unavailable = down,
        !.next        = IF down THEN Earliest({states[m].next : m \in known}) ELSE NoTime,
        !.exceeded    = over # {},
        !.recover     = Earliest({states[m].recover : m \in over}),
        !.level       = IF over = {} THEN 0
                        ELSE CHOOSE l \in {states[m].level : m \in over} :
                               \A m \in over : states[m].level <= l]

HasModelError(auth) == \E m \in KnownModels(auth) : auth.states[m].failed

\* Faulty variants: a success leaves the auth's own fields as they were, or
\* makes the auth active while another model is in error.
RecordResultUnaggregated(auth, m, outcome, noCooling) ==
  IF outcome.kind # "ok"
    THEN UpdateAggregatedAvailability(
           [auth EXCEPT !.states[m] = FailState(@, outcome, noCooling), !.status = "error"])
    ELSE [auth EXCEPT !.states[m] = FreshState,
            !.status = IF HasModelError([auth EXCEPT !.states[m] = FreshState]) THEN @ ELSE "active"]

RecordResultActive(auth, m, outcome, noCooling) ==
  IF outcome.kind # "ok"
    THEN UpdateAggregatedAvailability(
           [auth EXCEPT !.states[m] = FailState(@, outcome, noCooling), !.status = "error"])
    ELSE UpdateAggregatedAvailability([auth EXCEPT !.states[m] = FreshState, !.status = "active"])

\* The part of MarkResult under the manager's lock, for a result with a model.
RecordResult(auth, m, outcome, noCooling) ==
  LET reset  == UpdateAggregatedAvailability([auth EXCEPT !.states[m] = FreshState])
      failed == [auth EXCEPT !.states[m] = FailState(@, outcome, noCooling),
                             !.status = "error"]
  IN IF outcome.kind # "ok" THEN UpdateAggregatedAvailability(failed)
     ELSE IF HasModelError(reset) THEN reset
     ELSE [reset EXCEPT !.status = "active"]
----------------------------------------------------------------------------
(* Selection.                                                              *)

IsDisabled(auth) == auth.disabled \/ auth.status = "disabled"

\* The cooldown of one model has not run out.
CoolingFor(auth, m) == auth.states[m].unavailable /\ auth.states[m].next > 0

\* isAuthBlockedForModel, and the time it reports for a cooldown.
IsAuthBlockedForModel(auth, m) == IsDisabled(auth) \/ CoolingFor(auth, m)

BlockedUntil(auth, m) ==
  IF auth.states[m].recover > 0 THEN auth.states[m].recover ELSE auth.states[m].next
----------------------------------------------------------------------------
(* Properties of one auth.                                                 *)

\* The auth-level fields agree with the model states they summarise: the auth
\* is unavailable when all its models are, until the earliest of them recovers.
AggregateExact(auth) ==
  LET known == KnownModels(auth)
      over  == {m \in known : auth.states[m].exceeded}
  IN /\ auth.unavailable <=> known # {} /\ \A m \in known : auth.states[m].unavailable
     /\ auth.unavailable => auth.next = Earliest({auth.states[m].next : m \in known})
     /\ auth.exceeded <=> over # {}
     /\ auth.recover = Earliest({auth.states[m].recover : m \in over})
     /\ \A m \in over : auth.states[m].level <= auth.level

\* The backoff exponent stops at the first cooldown that reaches the maximum
\* and no quota cooldown is longer than the longer of QuotaBackoffMax and what
\* the upstream asked for.
BackoffBounded(auth) ==
  \A m \in ModelIds :
    /\ auth.states[m].level > 0 =>
         QuotaBackoffBase * 2^(auth.states[m].level - 1) < QuotaBackoffMax
    /\ auth.states[m].recover > QuotaBackoffMax =>
         \E t \in RetryAfters : auth.states[m].recover <= t
============================================================================
