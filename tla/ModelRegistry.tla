--------------------------- MODULE ModelRegistry ---------------------------
(***************************************************************************)
(* The global model registry (internal/registry/model_registry.go): which  *)
(* client (auth) offers which model, through which provider, and which     *)
(* pairs are marked as over quota or suspended.  Every exported operation  *)
(* takes the registry's mutex for its whole body, so each is one action.   *)
(*                                                                         *)
(* A client's model list is kept raw, with repetitions; the order of the   *)
(* list is irrelevant to the bookkeeping, so it is a bag: a function from  *)
(* models to the number of times the model is listed.  The time of a quota *)
(* mark is kept as its age, cut off at QuotaWindow (5 minutes).  Model     *)
(* descriptions (Info, InfoByProvider, clientModelInfos) are left out.     *)
(***************************************************************************)
EXTENDS Integers, FiniteSets

CONSTANTS Clients,      \* client identifiers: the IDs of auths
          Models,       \* model identifiers
          Providers,    \* non-empty provider identifiers
          NoProvider,   \* the empty provider, an absent key of clientProviders
          Reasons,      \* suspension reasons; "quota" is the cooldown one
          Lists,        \* model lists clients register, as bags
          MaxCopies,    \* bound: how often one list repeats a model
          QuotaWindow   \* quotaExpiredDuration, in ticks

ASSUME RegistryAssumption ==
  /\ IsFiniteSet(Clients)
  /\ NoProvider \notin Providers
  /\ "none" \notin Reasons
  /\ Lists \subseteq [Models -> 0..MaxCopies]
  /\ MaxCopies \in Nat
  /\ QuotaWindow \in Nat

VARIABLES models,           \* r.models: model -> registration
          clientModels,     \* r.clientModels: client -> bag of models
          clientProviders   \* r.clientProviders: client -> provider

registryVars == <<models, clientModels, clientProviders>>
----------------------------------------------------------------------------
Monus(a, b) == IF a > b THEN a - b ELSE 0

NoMark == -1              \* no entry in QuotaExceededClients
NotSuspended == "none"    \* no entry in SuspendedClients

ModelList == [Models -> 0..MaxCopies]
EmptyList == [m \in Models |-> 0]

Registration ==
  [ count     : Nat,
    providers : [Providers -> Nat],                       \* 0 is an absent key
    quota     : [Clients -> {NoMark} \cup (0..QuotaWindow)],
    suspended : [Clients -> Reasons \cup {NotSuspended}] ]

\* A model that is not in r.models: registrations are deleted at count zero.
NoRegistration ==
  [ count     |-> 0,
    providers |-> [p \in Providers |-> 0],
    quota     |-> [c \in Clients |-> NoMark],
    suspended |-> [c \in Clients |-> NotSuspended] ]

Known(m) == models[m].count > 0
Registered(c) == clientModels[c] # EmptyList
ClientSupportsModel(c, m) == clientModels[c][m] > 0

RegistryTypeOK ==
  /\ models \in [Models -> Registration]
  /\ clientModels \in [Clients -> ModelList]
  /\ clientProviders \in [Clients -> Providers \cup {NoProvider}]

RegistryInit ==
  /\ models = [m \in Models |-> NoRegistration]
  /\ clientModels = [c \in Clients |-> EmptyList]
  /\ clientProviders = [c \in Clients |-> NoProvider]
----------------------------------------------------------------------------
(* Registration and removal of clients.                                    *)

\* Providers[p] += k; a client without provider is not counted there.
ProviderPlus(reg, p, k) ==
  [reg EXCEPT !.providers = [q \in Providers |-> IF q = p THEN @[q] + k ELSE @[q]]]

\* Providers[p] -= k, the key deleted when nothing is left.
ProviderMinus(reg, p, k) ==
  [reg EXCEPT !.providers = [q \in Providers |-> IF q = p THEN Monus(@[q], k) ELSE @[q]]]

\* The marks of client c on one model are dropped.
Unmarked(reg, c) ==
  [reg EXCEPT !.quota[c] = NoMark, !.suspended[c] = NotSuspended]

\* addModelRegistration, k times.
AddRegistrations(reg, p, k) == [ProviderPlus(reg, p, k) EXCEPT !.count = @ + k]

\* Faulty variant: the marks of the client stay with the model.
RemoveKeepingMarks(reg, c, p, k) ==
  IF k = 0 THEN reg
  ELSE IF reg.count <= k THEN NoRegistration
  ELSE [ProviderMinus(reg, p, k) EXCEPT !.count = @ - k]

\* removeModelRegistration, k times: the model goes with its last client.
RemoveRegistrations(reg, c, p, k) ==
  IF k = 0 THEN reg
  ELSE IF reg.count <= k THEN NoRegistration
  ELSE [Unmarked(ProviderMinus(reg, p, k), c) EXCEPT !.count = @ - k]

\* Faulty variant: a provider change is not counted for the new provider.
ReconcileWithoutMove(reg, c, op, np, old, new) ==
  LET removed == RemoveRegistrations(reg, c, op, Monus(old, new))
      added   == AddRegistrations(removed, np, Monus(new, old))
  IN IF new = 0 THEN removed ELSE Unmarked(added, c)

\* What RegisterClient does to one model that the known client c listed
\* `old` times under provider op and now lists `new` times under np.
Reconcile(reg, c, op, np, old, new) ==
  LET kept    == IF old < new THEN old ELSE new
      moved   == op # np /\ kept > 0
      left    == IF moved THEN ProviderMinus(reg, op, kept) ELSE reg
      removed == RemoveRegistrations(left, c, op, Monus(old, new))
      added   == AddRegistrations(removed, np, Monus(new, old))
      joined  == IF moved THEN ProviderPlus(added, np, kept) ELSE added
  IN IF new = 0 THEN removed ELSE Unmarked(joined, c)

UnregisterClient(c) ==
  /\ models' = [m \in Models |->
        RemoveRegistrations(models[m], c, clientProviders[c], clientModels[c][m])]
  /\ clientModels' = [clientModels EXCEPT ![c] = EmptyList]
  /\ clientProviders' = [clientProviders EXCEPT ![c] = NoProvider]

\* Faulty variant: a known client is added to like a new one.
RegisterTwice(c, p, list) ==
  \/ /\ list = EmptyList
     /\ UnregisterClient(c)
  \/ /\ list # EmptyList
     /\ models' = [m \in Models |-> AddRegistrations(models[m], p, list[m])]
     /\ clientModels' = [clientModels EXCEPT ![c] = list]
     /\ clientProviders' = [clientProviders EXCEPT ![c] = p]

\* A list without models unregisters the client.  A client seen for the first
\* time is only added to: marks that already carry its name stay.
RegisterClient(c, p, list) ==
  \/ /\ list = EmptyList
     /\ UnregisterClient(c)
  \/ /\ list # EmptyList
     /\ models' = [m \in Models |->
           IF Registered(c)
             THEN Reconcile(models[m], c, clientProviders[c], p, clientModels[c][m], list[m])
             ELSE AddRegistrations(models[m], p, list[m])]
     /\ clientModels' = [clientModels EXCEPT ![c] = list]
     /\ clientProviders' = [clientProviders EXCEPT ![c] = p]
----------------------------------------------------------------------------
(* Marks.  Each checks that the model is known, none that the client offers*)
(* it.                                                                     *)

UpdateMark(m, reg) ==
  /\ models' = IF Known(m) THEN [models EXCEPT ![m] = reg] ELSE models
  /\ UNCHANGED <<clientModels, clientProviders>>

SetModelQuotaExceeded(c, m) == UpdateMark(m, [models[m] EXCEPT !.quota[c] = 0])

ClearModelQuotaExceeded(c, m) == UpdateMark(m, [models[m] EXCEPT !.quota[c] = NoMark])

\* The first reason stands until the pair is resumed.
SuspendClientModel(c, m, reason) ==
  UpdateMark(m, [models[m] EXCEPT !.suspended[c] = IF @ = NotSuspended THEN reason ELSE @])

ResumeClientModel(c, m) == UpdateMark(m, [models[m] EXCEPT !.suspended[c] = NotSuspended])

\* Faulty variant: marks are purged one tick early.
CleanupTooEarly ==
  /\ models' = [m \in Models |-> [models[m] EXCEPT !.quota =
        [c \in Clients |-> IF @[c] >= QuotaWindow - 1 THEN NoMark ELSE @[c]]]]
  /\ UNCHANGED <<clientModels, clientProviders>>

CleanupExpiredQuotas ==
  /\ models' = [m \in Models |-> [models[m] EXCEPT !.quota =
        [c \in Clients |-> IF @[c] >= QuotaWindow THEN NoMark ELSE @[c]]]]
  /\ UNCHANGED <<clientModels, clientProviders>>

\* One tick of wall-clock time: every quota mark grows older.
AgeQuotaMarks ==
  /\ models' = [m \in Models |-> [models[m] EXCEPT !.quota =
        [c \in Clients |-> IF @[c] \in 0..(QuotaWindow - 1) THEN @[c] + 1 ELSE @[c]]]]
  /\ UNCHANGED <<clientModels, clientProviders>>
----------------------------------------------------------------------------
(* Listings.                                                               *)

OverQuota(m) == {c \in Clients : models[m].quota[c] # NoMark /\ models[m].quota[c] < QuotaWindow}
CoolingDown(m) == {c \in Clients : models[m].suspended[c] = "quota"}
Suspended(m) == {c \in Clients : models[m].suspended[c] \notin {"quota", NotSuspended}}

\* Faulty variant: a model whose clients are all over quota is not listed.
AvailableNow(m, who, offered) ==
  LET expired == Cardinality(OverQuota(m) \cap who)
      other   == Cardinality(Suspended(m) \cap who)
  IN offered - expired - other > 0

\* The listing rule shared by GetAvailableModels and its by-provider variant,
\* over the clients `who` that offer the model `offered` times.
Available(m, who, offered) ==
  LET expired == Cardinality(OverQuota(m) \cap who)
      cooling == Cardinality(CoolingDown(m) \cap who)
      other   == Cardinality(Suspended(m) \cap who)
  IN \/ offered - expired - other > 0
     \/ offered > 0 /\ (expired > 0 \/ cooling > 0) /\ other = 0

\* One element per listing of m by a client in `who`.
Listings(m, who) ==
  {l \in who \X (1..MaxCopies) : l[2] <= clientModels[l[1]][m]}

ClientsOf(p) == {c \in Clients : clientProviders[c] = p}

GetAvailableModels == {m \in Models : Known(m) /\ Available(m, Clients, models[m].count)}

\* Faulty variant: the marks of other providers' clients count as well.
ByProviderAllMarks(p) ==
  {m \in Models : Available(m, Clients, Cardinality(Listings(m, ClientsOf(p))))}

GetAvailableModelsByProvider(p) ==
  {m \in Models : Available(m, ClientsOf(p), Cardinality(Listings(m, ClientsOf(p))))}

GetModelCount(m) ==
  Monus(models[m].count,
        Cardinality(OverQuota(m)) + Cardinality(CoolingDown(m) \cup Suspended(m)))

GetModelProviders(m) == {p \in Providers : models[m].providers[p] > 0}
----------------------------------------------------------------------------
RegistryNext ==
  \/ \E c \in Clients, p \in Providers \cup {NoProvider}, list \in Lists :
        RegisterClient(c, p, list)
  \/ \E c \in Clients : UnregisterClient(c)
  \/ \E c \in Clients, m \in Models : SetModelQuotaExceeded(c, m)
  \/ \E c \in Clients, m \in Models : ClearModelQuotaExceeded(c, m)
  \/ \E c \in Clients, m \in Models, reason \in Reasons : SuspendClientModel(c, m, reason)
  \/ \E c \in Clients, m \in Models : ResumeClientModel(c, m)
  \/ CleanupExpiredQuotas
  \/ AgeQuotaMarks

RegistrySpec == RegistryInit /\ [][RegistryNext]_registryVars
----------------------------------------------------------------------------
(* Properties.                                                             *)

\* The count of a model is the number of times the registered clients list
\* it: register, reconcile and unregister add and remove in step, over any
\* history of list and provider changes.
CountExact == \A m \in Models : models[m].count = Cardinality(Listings(m, Clients))

\* The same for each provider's share of the count, which routing
\* (GetModelProviders) and the provider change of RegisterClient rely on.
ProvidersExact ==
  \A m \in Models, p \in Providers :
    models[m].providers[p] = Cardinality(Listings(m, ClientsOf(p)))

\* A model of which no client is suspended for a reason other than quota is
\* never hidden: running out of quota everywhere keeps it in the listing.
QuotaNeverHides ==
  \A m \in Models : Known(m) /\ Suspended(m) = {} => m \in GetAvailableModels

Unimpeded(m, c) ==
  /\ ClientSupportsModel(c, m)
  /\ c \notin OverQuota(m) \cup Suspended(m)

\* What the subtraction in the listing needs: only clients that offer the
\* model are marked, and none carries a quota mark and a suspension at once.
MarksExact(m) ==
  /\ \A c \in OverQuota(m) \cup Suspended(m) : ClientSupportsModel(c, m)
  /\ OverQuota(m) \cap Suspended(m) = {}

\* Under exact marks the listings keep the promise of the doc comment, for
\* all clients together and for the clients of each provider.
ListedWhenMarksExact ==
  \A m \in Models : MarksExact(m) =>
    \A c \in Clients : Unimpeded(m, c) =>
      /\ m \in GetAvailableModels
      /\ clientProviders[c] # NoProvider =>
           m \in GetAvailableModelsByProvider(clientProviders[c])

\* A client that stops offering a model takes its marks along, so that its
\* absence does not keep weighing on the listing of the others.
MarksLeaveWithClient ==
  [][\A c \in Clients, m \in Models :
       ClientSupportsModel(c, m) /\ ~ClientSupportsModel(c, m)' =>
         models'[m].quota[c] = NoMark /\ models'[m].suspended[c] = NotSuspended]_registryVars

\* Purging expired quota marks is invisible: no listing, count or provider
\* changes by it.
CleanupInvisible ==
  [][CleanupExpiredQuotas =>
       /\ GetAvailableModels' = GetAvailableModels
       /\ \A p \in Providers : GetAvailableModelsByProvider(p)' = GetAvailableModelsByProvider(p)
       /\ \A m \in Models : GetModelCount(m)' = GetModelCount(m)]_registryVars
============================================================================
