------------------------- MODULE AuthManagerProofs -------------------------
(***************************************************************************)
(* What the registry and the manager keep, for any clients, models,        *)
(* providers, auths and requests.                                          *)
(*                                                                         *)
(* The registry's counters are exact whatever the history of registrations *)
(* and marks.  A counter is the size of a set of listings: an element      *)
(* <<c, i>> for the i-th listing of the model by client c.  One operation  *)
(* changes the listings of one client, so the argument is that the size of *)
(* such a set changes by exactly what that client's share changes by       *)
(* (TotalReplace).                                                         *)
(*                                                                         *)
(* And whatever the cooldowns and the interleaving of requests, the fields *)
(* of an auth agree with its models, backoffs stay bounded, and a cooldown *)
(* ends for a reason.                                                      *)
(***************************************************************************)
EXTENDS AuthManager, FiniteSetTheorems, TLAPS

\* How often each client lists something.
Weights == [Clients -> 0..MaxCopies]

Entries(f) == {l \in Clients \X (1..MaxCopies) : l[2] <= f[l[1]]}
Total(f) == Cardinality(Entries(f))

\* The listings of model m, and those of them made under provider p.
Offers(m) == [c \in Clients |-> clientModels[c][m]]
Share(m, p) == [c \in Clients |-> IF clientProviders[c] = p THEN clientModels[c][m] ELSE 0]
----------------------------------------------------------------------------
(* Sizes of sets of listings.                                              *)

LEMMA EntriesFinite ==
  ASSUME NEW f \in Weights
  PROVE  IsFiniteSet(Entries(f)) /\ Total(f) \in Nat
<1> DEFINE copies == 1..MaxCopies
<1>0. IsFiniteSet(copies)
  BY FS_Interval, RegistryAssumption
<1>1. IsFiniteSet(Clients \X copies)
  <2> HIDE DEF copies
  <2> QED
    BY <1>0, FS_Product, RegistryAssumption
<1>2. Entries(f) \in SUBSET (Clients \X (1..MaxCopies))
  BY DEF Entries
<1>3. IsFiniteSet(Entries(f))
  BY <1>1, <1>2, FS_Subset
<1> QED
  BY <1>3, FS_CardinalityType DEF Total

LEMMA ColumnSize ==
  ASSUME NEW c, NEW n \in Nat
  PROVE  IsFiniteSet({c} \X (1..n)) /\ Cardinality({c} \X (1..n)) = n
<1>1. IsFiniteSet({c}) /\ Cardinality({c}) = 1
  BY FS_Singleton
<1>2. IsFiniteSet(1..n) /\ Cardinality(1..n) = n
  BY FS_Interval
<1>3. /\ IsFiniteSet({c} \X (1..n))
      /\ Cardinality({c} \X (1..n)) = Cardinality({c}) * Cardinality(1..n)
  BY <1>1, <1>2, FS_Product
<1> QED
  BY <1>1, <1>2, <1>3

LEMMA TotalSplit ==
  ASSUME NEW f \in Weights, NEW c \in Clients
  PROVE  Total(f) = Total([f EXCEPT ![c] = 0]) + f[c]
<1> DEFINE rest == [f EXCEPT ![c] = 0]
           own  == {c} \X (1..f[c])
<1>1. rest \in Weights /\ f[c] \in 0..MaxCopies /\ MaxCopies \in Nat
  BY RegistryAssumption DEF Weights
<1>2. IsFiniteSet(Entries(rest)) /\ Total(rest) \in Nat
  BY <1>1, EntriesFinite
<1>3. IsFiniteSet(own) /\ Cardinality(own) = f[c]
  <2>1. f[c] \in Nat
    BY <1>1
  <2> QED
    BY <2>1, ColumnSize
<1>4. Entries(f) = Entries(rest) \cup own
  <2>1. ASSUME NEW l \in Entries(f) PROVE l \in Entries(rest) \cup own
    <3>1. l \in Clients \X (1..MaxCopies) /\ l[2] <= f[l[1]]
      BY DEF Entries
    <3>2. CASE l[1] = c
      BY <3>1, <3>2, <1>1
    <3>3. CASE l[1] # c
      BY <3>1, <3>3 DEF Entries, Weights
    <3> QED
      BY <3>2, <3>3
  <2>2. ASSUME NEW l \in Entries(rest) PROVE l \in Entries(f)
    <3>1. l \in Clients \X (1..MaxCopies) /\ l[2] <= rest[l[1]]
      BY DEF Entries
    <3>2. l[1] # c
      BY <3>1 DEF Weights
    <3> QED
      BY <3>1, <3>2 DEF Entries, Weights
  <2>3. ASSUME NEW l \in own PROVE l \in Entries(f)
    BY <1>1 DEF Entries
  <2> QED
    BY <2>1, <2>2, <2>3
<1>5. Entries(rest) \cap own = {}
  BY <1>1 DEF Entries, Weights
<1>6. Cardinality(Entries(f)) = Cardinality(Entries(rest)) + Cardinality(own) - Cardinality({})
  <2> HIDE DEF own, rest
  <2>1. Cardinality(Entries(rest) \cup own)
          = Cardinality(Entries(rest)) + Cardinality(own) - Cardinality(Entries(rest) \cap own)
    BY <1>2, <1>3, FS_Union
  <2> QED
    BY <2>1, <1>4, <1>5
<1> QED
  BY <1>2, <1>3, <1>6, <1>1, FS_EmptySet DEF Total

LEMMA TotalReplace ==
  ASSUME NEW f \in Weights, NEW g \in Weights, NEW c \in Clients,
         \A d \in Clients \ {c} : g[d] = f[d]
  PROVE  /\ Total(g) = Total(f) - f[c] + g[c]
         /\ f[c] <= Total(f)
<1>1. [g EXCEPT ![c] = 0] = [f EXCEPT ![c] = 0]
  BY DEF Weights
<1>2. [f EXCEPT ![c] = 0] \in Weights
  BY RegistryAssumption DEF Weights
<1>3. Total([f EXCEPT ![c] = 0]) \in Nat /\ Total(f) \in Nat /\ Total(g) \in Nat
  BY <1>2, EntriesFinite
<1>4. Total(f) = Total([f EXCEPT ![c] = 0]) + f[c] /\ Total(g) = Total([g EXCEPT ![c] = 0]) + g[c]
  BY TotalSplit
<1>5. f[c] \in Int /\ g[c] \in Int
  BY RegistryAssumption DEF Weights
<1> QED
  BY <1>1, <1>3, <1>4, <1>5

LEMMA TotalMonotone ==
  ASSUME NEW f \in Weights, NEW g \in Weights, \A d \in Clients : g[d] <= f[d]
  PROVE  Total(g) <= Total(f)
<1>1. Entries(g) \in SUBSET Entries(f)
  BY RegistryAssumption DEF Entries, Weights
<1> QED
  BY <1>1, EntriesFinite, FS_Subset DEF Total
----------------------------------------------------------------------------
(* What the operations on one registration do to its counters.             *)

LEMMA MonusFacts ==
  ASSUME NEW a \in Nat, NEW b \in Nat
  PROVE  /\ Monus(a, b) \in Nat
         /\ b <= a => Monus(a, b) = a - b
         /\ a <= b => Monus(a, b) = 0
BY DEF Monus

LEMMA NoRegistrationFacts ==
  /\ NoRegistration \in Registration
  /\ NoRegistration.count = 0
  /\ \A q \in Providers : NoRegistration.providers[q] = 0
BY RegistryAssumption DEF NoRegistration, Registration, NoMark, NotSuspended

LEMMA ProviderPlusFacts ==
  ASSUME NEW reg \in Registration, NEW p, NEW k \in Nat
  PROVE  /\ ProviderPlus(reg, p, k) \in Registration
         /\ ProviderPlus(reg, p, k).count = reg.count
         /\ \A q \in Providers : ProviderPlus(reg, p, k).providers[q]
                                   = reg.providers[q] + (IF q = p THEN k ELSE 0)
BY DEF ProviderPlus, Registration

LEMMA ProviderMinusFacts ==
  ASSUME NEW reg \in Registration, NEW p, NEW k \in Nat
  PROVE  /\ ProviderMinus(reg, p, k) \in Registration
         /\ ProviderMinus(reg, p, k).count = reg.count
         /\ \A q \in Providers : ProviderMinus(reg, p, k).providers[q]
                                   = IF q = p THEN Monus(reg.providers[q], k) ELSE reg.providers[q]
BY DEF ProviderMinus, Registration, Monus

LEMMA UnmarkedFacts ==
  ASSUME NEW reg \in Registration, NEW c \in Clients
  PROVE  /\ Unmarked(reg, c) \in Registration
         /\ Unmarked(reg, c).count = reg.count
         /\ Unmarked(reg, c).providers = reg.providers
BY DEF Unmarked, Registration, NoMark, NotSuspended

LEMMA AddFacts ==
  ASSUME NEW reg \in Registration, NEW p, NEW k \in Nat
  PROVE  /\ AddRegistrations(reg, p, k) \in Registration
         /\ AddRegistrations(reg, p, k).count = reg.count + k
         /\ \A q \in Providers : AddRegistrations(reg, p, k).providers[q]
                                   = reg.providers[q] + (IF q = p THEN k ELSE 0)
<1> DEFINE plus == ProviderPlus(reg, p, k)
<1>1. /\ plus \in Registration
      /\ plus.count = reg.count
      /\ \A q \in Providers : plus.providers[q] = reg.providers[q] + (IF q = p THEN k ELSE 0)
  BY ProviderPlusFacts
<1>2. AddRegistrations(reg, p, k) = [plus EXCEPT !.count = plus.count + k]
  BY DEF AddRegistrations
<1> HIDE DEF plus
<1> QED
  BY <1>1, <1>2 DEF Registration

LEMMA RemoveFacts ==
  ASSUME NEW reg \in Registration, NEW c \in Clients, NEW p, NEW k \in Nat
  PROVE  /\ RemoveRegistrations(reg, c, p, k) \in Registration
         /\ RemoveRegistrations(reg, c, p, k).count = Monus(reg.count, k)
         /\ \A q \in Providers : RemoveRegistrations(reg, c, p, k).providers[q]
              = IF k = 0 THEN reg.providers[q]
                ELSE IF reg.count <= k THEN 0
                ELSE IF q = p THEN Monus(reg.providers[q], k) ELSE reg.providers[q]
<1> DEFINE minus == Unmarked(ProviderMinus(reg, p, k), c)
<1>1. /\ minus \in Registration
      /\ minus.count = reg.count
      /\ \A q \in Providers :
            minus.providers[q] = IF q = p THEN Monus(reg.providers[q], k) ELSE reg.providers[q]
  BY ProviderMinusFacts, UnmarkedFacts
<1>2. reg.count \in Nat
  BY DEF Registration
<1>3. CASE k = 0
  BY <1>2, <1>3 DEF RemoveRegistrations, Monus
<1>4. CASE k # 0 /\ reg.count <= k
  BY <1>2, <1>4, NoRegistrationFacts DEF RemoveRegistrations, Monus
<1>5. CASE k # 0 /\ ~(reg.count <= k)
  <2>1. RemoveRegistrations(reg, c, p, k) = [minus EXCEPT !.count = minus.count - k]
    BY <1>5 DEF RemoveRegistrations
  <2> HIDE DEF minus
  <2> QED
    BY <1>1, <1>2, <1>5, <2>1 DEF Registration, Monus
<1> QED
  BY <1>3, <1>4, <1>5

\* A registration counts the `old` listings of one client under provider op.
Covers(reg, op, old) ==
  old <= reg.count /\ \A q \in Providers : q = op => old <= reg.providers[q]

\* The counters of `out` are those of reg with the client's `old` listings
\* under op replaced by `new` ones under np, or all zero with the count.
Replaces(out, reg, op, np, old, new) ==
  /\ out.count = reg.count - old + new
  /\ \A q \in Providers :
       \/ out.count = 0 /\ out.providers[q] = 0
       \/ out.providers[q] = reg.providers[q] - (IF q = op THEN old ELSE 0)
                                              + (IF q = np THEN new ELSE 0)

LEMMA ReconcileFacts ==
  ASSUME NEW reg \in Registration, NEW c \in Clients, NEW op, NEW np,
         NEW old \in Nat, NEW new \in Nat, Covers(reg, op, old)
  PROVE  /\ Reconcile(reg, c, op, np, old, new) \in Registration
         /\ Replaces(Reconcile(reg, c, op, np, old, new), reg, op, np, old, new)
<1> USE DEF Covers
<1> DEFINE kept    == IF old < new THEN old ELSE new
           moved   == op # np /\ kept > 0
           left    == IF moved THEN ProviderMinus(reg, op, kept) ELSE reg
           removed == RemoveRegistrations(left, c, op, Monus(old, new))
           added   == AddRegistrations(removed, np, Monus(new, old))
           joined  == IF moved THEN ProviderPlus(added, np, kept) ELSE added
           out     == IF new = 0 THEN removed ELSE Unmarked(joined, c)
<1>0. out = Reconcile(reg, c, op, np, old, new)
  BY DEF Reconcile
<1>1. /\ reg.count \in Nat /\ kept \in Nat
      /\ \A q \in Providers : reg.providers[q] \in Nat
      /\ Monus(old, new) \in Nat /\ Monus(new, old) \in Nat
  BY MonusFacts DEF Registration
<1>2. /\ left \in Registration /\ left.count = reg.count
      /\ \A q \in Providers : left.providers[q]
            = reg.providers[q] - (IF moved /\ q = op THEN kept ELSE 0)
  <2>1. kept <= old
    OBVIOUS
  <2>2. CASE moved
    <3>1. left = ProviderMinus(reg, op, kept)
      BY <2>2
    <3> HIDE DEF left, kept, moved
    <3>2. /\ left \in Registration /\ left.count = reg.count
          /\ \A q \in Providers : left.providers[q]
                = IF q = op THEN Monus(reg.providers[q], kept) ELSE reg.providers[q]
      BY <1>1, <3>1, ProviderMinusFacts
    <3> QED
      BY <1>1, <2>1, <2>2, <3>2 DEF Monus
  <2>3. CASE ~moved
    BY <1>1, <2>3
  <2> QED
    BY <2>2, <2>3
<1>3. /\ removed \in Registration
      /\ removed.count = Monus(reg.count, Monus(old, new))
      /\ \A q \in Providers : removed.providers[q]
            = IF Monus(old, new) = 0 THEN left.providers[q]
              ELSE IF reg.count <= Monus(old, new) THEN 0
              ELSE IF q = op THEN Monus(left.providers[q], Monus(old, new))
              ELSE left.providers[q]
  <2> HIDE DEF left
  <2> QED
    BY <1>1, <1>2, RemoveFacts
<1>4. /\ added \in Registration
      /\ added.count = removed.count + Monus(new, old)
      /\ \A q \in Providers : added.providers[q]
            = removed.providers[q] + (IF q = np THEN Monus(new, old) ELSE 0)
  <2> HIDE DEF removed
  <2> QED
    BY <1>1, <1>3, AddFacts
<1>5. /\ joined \in Registration
      /\ joined.count = added.count
      /\ \A q \in Providers : joined.providers[q]
            = added.providers[q] + (IF moved /\ q = np THEN kept ELSE 0)
  <2> HIDE DEF added
  <2>1. CASE moved
    BY <1>1, <1>4, <2>1, ProviderPlusFacts
  <2>2. CASE ~moved
    BY <1>4, <2>2 DEF Registration
  <2> QED
    BY <2>1, <2>2
<1>6. CASE new = 0
  <2> HIDE DEF removed, left
  <2>1. kept = 0 /\ ~moved /\ Monus(old, new) = old
    BY <1>6 DEF Monus
  <2>2. out = removed
    BY <1>6
  <2>3. removed.count = reg.count - old
    BY <1>1, <1>3, <2>1 DEF Monus
  <2>4. ASSUME NEW q \in Providers
        PROVE  \/ removed.count = 0 /\ removed.providers[q] = 0
               \/ removed.providers[q] = reg.providers[q] - (IF q = op THEN old ELSE 0)
                                                         + (IF q = np THEN new ELSE 0)
    <3>1. left.providers[q] = reg.providers[q]
      BY <1>1, <1>2, <2>1
    <3>2. q = op => Monus(reg.providers[q], old) = reg.providers[q] - old
      BY <1>1, MonusFacts
    <3> QED
      BY <1>1, <1>3, <1>6, <2>1, <2>3, <3>1, <3>2
  <2> HIDE DEF out
  <2> QED
    BY <1>0, <1>1, <1>3, <1>6, <2>2, <2>3, <2>4 DEF Replaces
<1>7. CASE new # 0
  <2> HIDE DEF joined, added, removed, left
  <2>1. /\ out \in Registration
        /\ out.count = joined.count
        /\ out.providers = joined.providers
    BY <1>5, <1>7, UnmarkedFacts
  <2> HIDE DEF out
  <2>2. CASE old <= new
    <3>1. Monus(old, new) = 0 /\ Monus(new, old) = new - old /\ kept = old
      BY <2>2, MonusFacts
    <3>2. out.count = reg.count - old + new
      <4>1. removed.count = reg.count
        BY <1>1, <1>3, <3>1 DEF Monus
      <4> QED
        BY <1>1, <1>4, <1>5, <2>1, <3>1, <4>1
    <3>3. ASSUME NEW q \in Providers
          PROVE  out.providers[q] = reg.providers[q] - (IF q = op THEN old ELSE 0)
                                                     + (IF q = np THEN new ELSE 0)
      BY <1>1, <1>2, <1>3, <1>4, <1>5, <2>1, <3>1
    <3> QED
      BY <1>0, <2>1, <3>2, <3>3 DEF Replaces
  <2>3. CASE new < old
    <3>1. Monus(old, new) = old - new /\ Monus(new, old) = 0 /\ kept = new
      BY <2>3, MonusFacts
    <3>2. ~(reg.count <= old - new)
      BY <1>1, <1>7
    <3>3. out.count = reg.count - old + new
      <4>1. removed.count = reg.count - (old - new)
        BY <1>1, <1>3, <3>1, <3>2 DEF Monus
      <4> QED
        BY <1>1, <1>4, <1>5, <2>1, <3>1, <4>1
    <3>4. ASSUME NEW q \in Providers
          PROVE  out.providers[q] = reg.providers[q] - (IF q = op THEN old ELSE 0)
                                                     + (IF q = np THEN new ELSE 0)
      <4>1. q = op => Monus(left.providers[q], old - new) = left.providers[q] - (old - new)
        <5>1. q = op => left.providers[q] >= old - new /\ left.providers[q] \in Int
          BY <1>1, <1>2, <2>3, <3>1
        <5> QED
          BY <2>3, <5>1 DEF Monus
      <4> QED
        BY <1>1, <1>2, <1>3, <1>4, <1>5, <1>7, <2>1, <2>3, <3>1, <3>2, <4>1
    <3> QED
      BY <1>0, <2>1, <3>3, <3>4 DEF Replaces
  <2> QED
    BY <2>2, <2>3
<1> QED
  BY <1>6, <1>7
----------------------------------------------------------------------------
(* The inductive invariant.  The counters are only exact together: a model *)
(* whose count reaches zero loses its provider counters as well, which is  *)
(* right only if the shares of the providers sum to no more than the count.*)

RegistryInv == RegistryTypeOK /\ CountExact /\ ProvidersExact

\* The sets the invariant counts, as totals of weights.
Measured ==
  \A m \in Models :
    /\ Offers(m) \in Weights
    /\ Cardinality(Listings(m, Clients)) = Total(Offers(m))
    /\ \A p \in Providers :
         /\ Share(m, p) \in Weights
         /\ Cardinality(Listings(m, ClientsOf(p))) = Total(Share(m, p))
         /\ Total(Share(m, p)) <= Total(Offers(m))

LEMMA OffersFacts == RegistryTypeOK => Measured
<1> SUFFICES ASSUME RegistryTypeOK, NEW m \in Models
             PROVE  /\ Offers(m) \in Weights
                    /\ Cardinality(Listings(m, Clients)) = Total(Offers(m))
                    /\ \A p \in Providers :
                         /\ Share(m, p) \in Weights
                         /\ Cardinality(Listings(m, ClientsOf(p))) = Total(Share(m, p))
                         /\ Total(Share(m, p)) <= Total(Offers(m))
  BY DEF Measured
<1>1. /\ Offers(m) \in Weights
      /\ \A p \in Providers : Share(m, p) \in Weights
  BY RegistryAssumption DEF Offers, Share, Weights, RegistryTypeOK, ModelList
<1>2. Listings(m, Clients) = Entries(Offers(m))
  BY DEF Listings, Entries, Offers
<1>3. ASSUME NEW p \in Providers PROVE Listings(m, ClientsOf(p)) = Entries(Share(m, p))
  BY RegistryAssumption DEF Listings, ClientsOf, Entries, Share, RegistryTypeOK, ModelList
<1>4. ASSUME NEW p \in Providers PROVE Total(Share(m, p)) <= Total(Offers(m))
  <2>1. \A c \in Clients : Share(m, p)[c] <= Offers(m)[c]
    BY RegistryAssumption DEF Share, Offers, RegistryTypeOK, ModelList
  <2> QED
    BY <1>1, <2>1, TotalMonotone
<1> QED
  BY <1>1, <1>2, <1>3, <1>4 DEF Total

\* What the invariant says, and what it gives for one client.
LEMMA InvFacts ==
  ASSUME RegistryInv, NEW m \in Models
  PROVE  /\ models[m] \in Registration
         /\ models[m].count = Total(Offers(m))
         /\ \A q \in Providers : models[m].providers[q] = Total(Share(m, q))
         /\ \A c \in Clients : /\ clientModels[c][m] \in Nat
                               /\ clientModels[c][m] <= models[m].count
         /\ \A c \in Clients, q \in Providers :
              q = clientProviders[c] => clientModels[c][m] <= models[m].providers[q]
<1>1. /\ models[m] \in Registration
      /\ \A c \in Clients : clientModels[c][m] \in Nat
  BY RegistryAssumption DEF RegistryInv, RegistryTypeOK, ModelList
<1>2. /\ Offers(m) \in Weights
      /\ models[m].count = Total(Offers(m))
      /\ \A q \in Providers : /\ Share(m, q) \in Weights
                              /\ models[m].providers[q] = Total(Share(m, q))
  BY OffersFacts DEF RegistryInv, CountExact, ProvidersExact, Measured
<1>3. ASSUME NEW c \in Clients PROVE clientModels[c][m] <= models[m].count
  BY <1>2, TotalReplace DEF Offers
<1>4. ASSUME NEW c \in Clients, NEW q \in Providers, q = clientProviders[c]
      PROVE  clientModels[c][m] <= models[m].providers[q]
  BY <1>2, <1>4, TotalReplace DEF Share
<1> QED
  BY <1>1, <1>2, <1>3, <1>4

\* A step that changes what one client lists, and moves the counters by that.
LEMMA ClientStep ==
  ASSUME RegistryInv, RegistryTypeOK', NEW c \in Clients,
         \A d \in Clients \ {c} : /\ clientModels'[d] = clientModels[d]
                                  /\ clientProviders'[d] = clientProviders[d],
         \A m \in Models : Replaces(models'[m], models[m], clientProviders[c],
                                    clientProviders'[c], clientModels[c][m], clientModels'[c][m])
  PROVE  RegistryInv'
<1> USE DEF Replaces
<1>1. Measured /\ Measured'
  BY OffersFacts, PTL DEF RegistryInv
<1>2. ASSUME NEW m \in Models
      PROVE  models'[m].count = Total(Offers(m)')
  <2>1. Offers(m) \in Weights /\ Offers(m)' \in Weights /\ models[m].count = Total(Offers(m))
    BY <1>1, InvFacts DEF Measured
  <2>2. \A d \in Clients \ {c} : Offers(m)'[d] = Offers(m)[d]
    BY DEF Offers
  <2>3. Total(Offers(m)') = Total(Offers(m)) - Offers(m)[c] + Offers(m)'[c]
    BY <2>1, <2>2, TotalReplace
  <2> QED
    BY <2>1, <2>3 DEF Offers
<1>3. ASSUME NEW m \in Models, NEW q \in Providers
      PROVE  models'[m].providers[q] = Total(Share(m, q)')
  <2>1. /\ Share(m, q) \in Weights /\ Share(m, q)' \in Weights
        /\ models[m].providers[q] = Total(Share(m, q))
        /\ Total(Share(m, q)') <= Total(Offers(m)')
        /\ Total(Share(m, q)') \in Nat
    BY <1>1, InvFacts, EntriesFinite DEF Measured
  <2>2. CASE models'[m].count = 0 /\ models'[m].providers[q] = 0
    BY <1>2, <2>1, <2>2
  <2>3. CASE ~(models'[m].count = 0 /\ models'[m].providers[q] = 0)
    <3>1. \A d \in Clients \ {c} : Share(m, q)'[d] = Share(m, q)[d]
      BY DEF Share
    <3>2. Total(Share(m, q)') = Total(Share(m, q)) - Share(m, q)[c] + Share(m, q)'[c]
      BY <2>1, <3>1, TotalReplace
    <3> QED
      BY <2>1, <2>3, <3>2 DEF Share
  <2> QED
    BY <2>2, <2>3
<1> QED
  BY <1>1, <1>2, <1>3 DEF RegistryInv, CountExact, ProvidersExact, Measured
----------------------------------------------------------------------------
(* Every operation keeps the invariant.                                    *)

LEMMA InitInv == RegistryInit => RegistryInv
<1> SUFFICES ASSUME RegistryInit PROVE RegistryInv
  OBVIOUS
<1>1. RegistryTypeOK
  BY RegistryAssumption, NoRegistrationFacts
  DEF RegistryInit, RegistryTypeOK, EmptyList, ModelList
<1>2. ASSUME NEW m \in Models, NEW who \in SUBSET Clients PROVE Listings(m, who) = {}
  BY RegistryAssumption DEF RegistryInit, Listings, EmptyList
<1>3. ASSUME NEW m \in Models
      PROVE  models[m].count = 0 /\ \A q \in Providers : models[m].providers[q] = 0
  BY NoRegistrationFacts DEF RegistryInit
<1>4. CountExact
  BY <1>2, <1>3, FS_EmptySet DEF CountExact
<1>5. ProvidersExact
  BY <1>2, <1>3, FS_EmptySet DEF ProvidersExact, ClientsOf
<1> QED
  BY <1>1, <1>4, <1>5 DEF RegistryInv

LEMMA UnregisterInv ==
  ASSUME RegistryInv, NEW c \in Clients, UnregisterClient(c)
  PROVE  RegistryInv'
<1> DEFINE gone(m) == RemoveRegistrations(models[m], c, clientProviders[c], clientModels[c][m])
<1>1. ASSUME NEW m \in Models
      PROVE  /\ gone(m) \in Registration
             /\ Replaces(gone(m), models[m], clientProviders[c], NoProvider, clientModels[c][m], 0)
  <2>1. /\ models[m] \in Registration
        /\ clientModels[c][m] \in Nat /\ clientModels[c][m] <= models[m].count
        /\ \A q \in Providers : q = clientProviders[c] => clientModels[c][m] <= models[m].providers[q]
        /\ models[m].count \in Nat
        /\ \A q \in Providers : models[m].providers[q] \in Nat
    BY InvFacts DEF Registration
  <2>2. /\ gone(m) \in Registration
        /\ gone(m).count = Monus(models[m].count, clientModels[c][m])
        /\ \A q \in Providers : gone(m).providers[q]
              = IF clientModels[c][m] = 0 THEN models[m].providers[q]
                ELSE IF models[m].count <= clientModels[c][m] THEN 0
                ELSE IF q = clientProviders[c]
                       THEN Monus(models[m].providers[q], clientModels[c][m])
                ELSE models[m].providers[q]
    BY <2>1, RemoveFacts
  <2> HIDE DEF gone
  <2> QED
    BY <2>1, <2>2 DEF Monus, Replaces
<1>2. models' = [m \in Models |-> gone(m)]
  BY DEF UnregisterClient
<1> HIDE DEF gone
<1>3. /\ clientModels' = [clientModels EXCEPT ![c] = EmptyList]
      /\ clientProviders' = [clientProviders EXCEPT ![c] = NoProvider]
      /\ clientModels \in [Clients -> ModelList]
      /\ clientProviders \in [Clients -> Providers \cup {NoProvider}]
      /\ EmptyList \in ModelList
      /\ \A m \in Models : EmptyList[m] = 0
  BY RegistryAssumption DEF UnregisterClient, RegistryInv, RegistryTypeOK, EmptyList, ModelList
<1>4. RegistryTypeOK'
  BY <1>1, <1>2, <1>3 DEF RegistryTypeOK
<1>5. \A d \in Clients \ {c} : clientModels'[d] = clientModels[d] /\ clientProviders'[d] = clientProviders[d]
  BY <1>3
<1>6. clientProviders'[c] = NoProvider /\ \A m \in Models : clientModels'[c][m] = 0
  BY <1>3
<1> QED
  BY <1>1, <1>2, <1>4, <1>5, <1>6, ClientStep

LEMMA RegisterInv ==
  ASSUME RegistryInv, NEW c \in Clients, NEW p \in Providers \cup {NoProvider},
         NEW list \in Lists, RegisterClient(c, p, list)
  PROVE  RegistryInv'
<1> DEFINE next(m) == IF Registered(c)
                        THEN Reconcile(models[m], c, clientProviders[c], p, clientModels[c][m], list[m])
                        ELSE AddRegistrations(models[m], p, list[m])
<1>1. CASE list = EmptyList /\ UnregisterClient(c)
  BY <1>1, UnregisterInv
<1>2. CASE /\ list # EmptyList
           /\ models' = [m \in Models |-> next(m)]
           /\ clientModels' = [clientModels EXCEPT ![c] = list]
           /\ clientProviders' = [clientProviders EXCEPT ![c] = p]
  <2>1. ASSUME NEW m \in Models
        PROVE  /\ next(m) \in Registration
               /\ Replaces(next(m), models[m], clientProviders[c], p, clientModels[c][m], list[m])
    <3>1. /\ models[m] \in Registration
          /\ clientModels[c][m] \in Nat
          /\ Covers(models[m], clientProviders[c], clientModels[c][m])
          /\ list[m] \in Nat
      BY InvFacts, RegistryAssumption DEF Covers
    <3>2. CASE Registered(c)
      <4>1. next(m) = Reconcile(models[m], c, clientProviders[c], p, clientModels[c][m], list[m])
        BY <3>2
      <4> HIDE DEF next
      <4> QED
        BY <3>1, <4>1, ReconcileFacts
    <3>3. CASE ~Registered(c)
      <4>1. next(m) = AddRegistrations(models[m], p, list[m]) /\ clientModels[c][m] = 0
        BY <3>3 DEF Registered, EmptyList
      <4> HIDE DEF next
      <4> QED
        BY <3>1, <4>1, AddFacts DEF Replaces, Registration
    <3> QED
      BY <3>2, <3>3
  <2> HIDE DEF next
  <2>2. /\ clientModels \in [Clients -> ModelList]
        /\ clientProviders \in [Clients -> Providers \cup {NoProvider}]
        /\ list \in ModelList
    BY RegistryAssumption DEF RegistryInv, RegistryTypeOK, ModelList
  <2>3. RegistryTypeOK'
    BY <1>2, <2>1, <2>2 DEF RegistryTypeOK
  <2>4. \A d \in Clients \ {c} : clientModels'[d] = clientModels[d] /\ clientProviders'[d] = clientProviders[d]
    BY <1>2, <2>2
  <2>5. clientModels'[c] = list /\ clientProviders'[c] = p
    BY <1>2, <2>2
  <2> QED
    BY <1>2, <2>1, <2>3, <2>4, <2>5, ClientStep
<1> QED
  BY <1>1, <1>2 DEF RegisterClient

\* A mark changes no counter and no listing.
LEMMA MarkInv ==
  ASSUME RegistryInv,
         models' \in [Models -> Registration],
         \A m \in Models : /\ models'[m].count = models[m].count
                           /\ models'[m].providers = models[m].providers,
         UNCHANGED <<clientModels, clientProviders>>
  PROVE  RegistryInv'
BY DEF RegistryInv, RegistryTypeOK, CountExact, ProvidersExact, Listings, ClientsOf

LEMMA NextInv == RegistryInv /\ [RegistryNext]_registryVars => RegistryInv'
<1> SUFFICES ASSUME RegistryInv, [RegistryNext]_registryVars PROVE RegistryInv'
  OBVIOUS
<1> USE DEF RegistryInv, RegistryTypeOK
<1>1. CASE \E c \in Clients, p \in Providers \cup {NoProvider}, list \in Lists :
             RegisterClient(c, p, list)
  BY <1>1, RegisterInv
<1>2. CASE \E c \in Clients : UnregisterClient(c)
  BY <1>2, UnregisterInv
<1>3. ASSUME NEW c \in Clients, NEW m \in Models, NEW reg \in Registration,
             UpdateMark(m, reg), reg.count = models[m].count, reg.providers = models[m].providers
      PROVE  RegistryInv'
  BY <1>3, MarkInv DEF UpdateMark
<1>4. CASE \E c \in Clients, m \in Models : SetModelQuotaExceeded(c, m)
  <2>1. PICK c \in Clients, m \in Models : SetModelQuotaExceeded(c, m)
    BY <1>4
  <2>2. models[m] \in Registration /\ 0 \in 0..QuotaWindow
    BY RegistryAssumption
  <2>3. [models[m] EXCEPT !.quota[c] = 0] \in Registration
    BY <2>2 DEF Registration
  <2> QED
    BY <1>3, <2>1, <2>2, <2>3 DEF SetModelQuotaExceeded, Registration
<1>5. CASE \E c \in Clients, m \in Models : ClearModelQuotaExceeded(c, m)
  <2>1. PICK c \in Clients, m \in Models : ClearModelQuotaExceeded(c, m)
    BY <1>5
  <2>2. [models[m] EXCEPT !.quota[c] = NoMark] \in Registration
    BY DEF Registration
  <2> QED
    BY <1>3, <2>1, <2>2 DEF ClearModelQuotaExceeded, Registration
<1>6. CASE \E c \in Clients, m \in Models, reason \in Reasons : SuspendClientModel(c, m, reason)
  <2>1. PICK c \in Clients, m \in Models, reason \in Reasons : SuspendClientModel(c, m, reason)
    BY <1>6
  <2>2. models[m] \in Registration /\ models[m].suspended[c] \in Reasons \cup {NotSuspended}
    BY DEF Registration
  <2>3. [models[m] EXCEPT !.suspended[c] = IF @ = NotSuspended THEN reason ELSE @] \in Registration
    BY <2>2 DEF Registration
  <2> QED
    BY <1>3, <2>1, <2>2, <2>3 DEF SuspendClientModel, Registration
<1>7. CASE \E c \in Clients, m \in Models : ResumeClientModel(c, m)
  <2>1. PICK c \in Clients, m \in Models : ResumeClientModel(c, m)
    BY <1>7
  <2>2. [models[m] EXCEPT !.suspended[c] = NotSuspended] \in Registration
    BY DEF Registration
  <2> QED
    BY <1>3, <2>1, <2>2 DEF ResumeClientModel, Registration
<1>8. CASE CleanupExpiredQuotas
  <2>1. models' \in [Models -> Registration]
    BY <1>8 DEF CleanupExpiredQuotas, Registration
  <2> QED
    BY <1>8, <2>1, MarkInv DEF CleanupExpiredQuotas, Registration
<1>9. CASE AgeQuotaMarks
  <2>1. ASSUME NEW q \in {NoMark} \cup (0..QuotaWindow)
        PROVE  (IF q \in 0..(QuotaWindow - 1) THEN q + 1 ELSE q) \in {NoMark} \cup (0..QuotaWindow)
    BY RegistryAssumption DEF NoMark
  <2>2. models' \in [Models -> Registration]
    BY <1>9, <2>1 DEF AgeQuotaMarks, Registration
  <2> QED
    BY <1>9, <2>2, MarkInv DEF AgeQuotaMarks, Registration
<1>10. CASE UNCHANGED registryVars
  BY <1>10, MarkInv DEF registryVars
<1> QED
  BY <1>1, <1>2, <1>4, <1>5, <1>6, <1>7, <1>8, <1>9, <1>10 DEF RegistryNext

\* A model's count is that of its listings, whatever the clients, models and
\* providers, and however often they register, change their list or provider,
\* and leave.
THEOREM RegistryCountersExact == RegistrySpec => [](RegistryTypeOK /\ CountExact)
<1>1. RegistryInv => RegistryTypeOK /\ CountExact
  BY DEF RegistryInv
<1> QED
  BY <1>1, InitInv, NextInv, PTL DEF RegistrySpec

\* Each provider's share of a count is that of its clients' listings.
THEOREM ProviderCountersExact == RegistrySpec => []ProvidersExact
<1>1. RegistryInv => ProvidersExact
  BY DEF RegistryInv
<1> QED
  BY <1>1, InitInv, NextInv, PTL DEF RegistrySpec
----------------------------------------------------------------------------
(* What follows from exact counters for the listings.                      *)

LEMMA MarksFinite ==
  ASSUME NEW m \in Models
  PROVE  /\ IsFiniteSet(OverQuota(m)) /\ IsFiniteSet(Suspended(m)) /\ IsFiniteSet(CoolingDown(m))
         /\ OverQuota(m) \subseteq Clients /\ Suspended(m) \subseteq Clients
<1>1. /\ OverQuota(m) \in SUBSET Clients
      /\ Suspended(m) \in SUBSET Clients
      /\ CoolingDown(m) \in SUBSET Clients
  BY DEF OverQuota, Suspended, CoolingDown
<1> QED
  BY <1>1, FS_Subset, RegistryAssumption

\* Every client in a set that offers the model adds a listing to it.
LEMMA OfferersCounted ==
  ASSUME RegistryTypeOK, NEW m \in Models, NEW who \in SUBSET Clients
  PROVE  LET offering == {c \in who : ClientSupportsModel(c, m)}
         IN /\ IsFiniteSet(offering)
            /\ Cardinality(Listings(m, who)) \in Nat
            /\ Cardinality(offering) <= Cardinality(Listings(m, who))
<1> DEFINE offering == {c \in who : ClientSupportsModel(c, m)}
           first    == offering \X {1}
<1>1. IsFiniteSet(offering) /\ IsFiniteSet(who)
  <2>1. offering \in SUBSET Clients
    OBVIOUS
  <2> QED
    BY <2>1, FS_Subset, RegistryAssumption
<1>2. IsFiniteSet(first) /\ Cardinality(first) = Cardinality(offering)
  <2>1. IsFiniteSet({1}) /\ Cardinality({1}) = 1
    BY FS_Singleton
  <2>2. Cardinality(offering) \in Nat
    BY <1>1, FS_CardinalityType
  <2> HIDE DEF offering
  <2>3. IsFiniteSet(first) /\ Cardinality(first) = Cardinality(offering) * Cardinality({1})
    BY <1>1, <2>1, FS_Product
  <2> QED
    BY <2>1, <2>2, <2>3
<1>3. IsFiniteSet(Listings(m, who))
  <2>1. IsFiniteSet(1..MaxCopies)
    BY FS_Interval, RegistryAssumption
  <2>2. IsFiniteSet(who \X (1..MaxCopies))
    BY <1>1, <2>1, FS_Product
  <2>3. Listings(m, who) \in SUBSET (who \X (1..MaxCopies))
    BY DEF Listings
  <2> QED
    BY <2>2, <2>3, FS_Subset
<1>4. first \in SUBSET Listings(m, who)
  <2>1. ASSUME NEW c \in offering PROVE <<c, 1>> \in Listings(m, who)
    <3>1. clientModels[c][m] > 0 /\ clientModels[c][m] \in 0..MaxCopies /\ c \in who
      BY DEF ClientSupportsModel, RegistryTypeOK, ModelList
    <3>2. 1 \in 1..MaxCopies
      BY <3>1, RegistryAssumption
    <3> QED
      BY <3>1, <3>2 DEF Listings
  <2> QED
    BY <2>1
<1>5. Cardinality(first) <= Cardinality(Listings(m, who))
  BY <1>3, <1>4, FS_Subset
<1> QED
  BY <1>1, <1>2, <1>3, <1>5, FS_CardinalityType

\* The listing rule, for any group of clients that counts one who is available.
LEMMA UnimpededAvailable ==
  ASSUME RegistryTypeOK, NEW m \in Models, MarksExact(m),
         NEW who \in SUBSET Clients, NEW c \in who, Unimpeded(m, c)
  PROVE  Available(m, who, Cardinality(Listings(m, who)))
<1> DEFINE offering == {d \in who : ClientSupportsModel(d, m)}
           over     == OverQuota(m) \cap who
           other    == Suspended(m) \cap who
<1>1. /\ IsFiniteSet(over) /\ IsFiniteSet(other)
      /\ Cardinality(over) \in Nat /\ Cardinality(other) \in Nat
  BY MarksFinite, FS_Intersection, FS_CardinalityType
<1>2. over \cap other = {} /\ c \notin over \cup other /\ c \in offering
  BY DEF MarksExact, Unimpeded
<1>3. over \cup other \cup {c} \subseteq offering
  BY <1>2 DEF MarksExact
<1>4. /\ IsFiniteSet(over \cup other)
      /\ Cardinality(over \cup other) = Cardinality(over) + Cardinality(other)
  <2>1. /\ IsFiniteSet(over \cup other)
        /\ Cardinality(over \cup other)
             = Cardinality(over) + Cardinality(other) - Cardinality(over \cap other)
    <3> HIDE DEF over, other
    <3> QED
      BY <1>1, FS_Union
  <2>2. Cardinality(over \cap other) = 0
    BY <1>2, FS_EmptySet
  <2> HIDE DEF over, other
  <2> QED
    BY <1>1, <2>1, <2>2
<1>5. Cardinality((over \cup other) \cup {c}) = Cardinality(over) + Cardinality(other) + 1
  <2> HIDE DEF over, other
  <2> QED
    BY <1>2, <1>4, FS_AddElement
<1>6. Cardinality((over \cup other) \cup {c}) <= Cardinality(offering)
  <2>1. IsFiniteSet(offering)
    BY OfferersCounted
  <2> HIDE DEF over, other, offering
  <2> QED
    BY <1>3, <2>1, FS_Subset
<1>7. /\ Cardinality(offering) <= Cardinality(Listings(m, who))
      /\ Cardinality(Listings(m, who)) \in Nat
      /\ Cardinality(offering) \in Nat
  BY OfferersCounted, FS_CardinalityType
<1>8. Cardinality(Listings(m, who)) - Cardinality(over) - Cardinality(other) > 0
  <2> HIDE DEF over, other, offering
  <2> QED
    BY <1>1, <1>5, <1>6, <1>7
<1> QED
  BY <1>8 DEF Available

LEMMA CountsList == RegistryInv => ListedWhenMarksExact
<1> SUFFICES ASSUME RegistryInv, NEW m \in Models, MarksExact(m),
                    NEW c \in Clients, Unimpeded(m, c)
             PROVE  /\ m \in GetAvailableModels
                    /\ clientProviders[c] # NoProvider =>
                         m \in GetAvailableModelsByProvider(clientProviders[c])
  BY DEF ListedWhenMarksExact
<1>1. Available(m, Clients, models[m].count)
  BY UnimpededAvailable DEF RegistryInv, CountExact
<1>2. Known(m)
  <2>1. clientModels[c][m] <= models[m].count /\ clientModels[c][m] \in Nat /\ models[m].count \in Nat
    BY InvFacts DEF Registration
  <2> QED
    BY <2>1 DEF Known, Unimpeded, ClientSupportsModel
<1>3. c \in ClientsOf(clientProviders[c]) /\ ClientsOf(clientProviders[c]) \in SUBSET Clients
  BY DEF ClientsOf
<1>4. Available(m, ClientsOf(clientProviders[c]),
                Cardinality(Listings(m, ClientsOf(clientProviders[c]))))
  BY <1>3, UnimpededAvailable DEF RegistryInv
<1> QED
  BY <1>1, <1>2, <1>4 DEF GetAvailableModels, GetAvailableModelsByProvider

LEMMA CountsHideNothing == RegistryInv => QuotaNeverHides
<1> SUFFICES ASSUME RegistryInv, NEW m \in Models, Known(m), Suspended(m) = {}
             PROVE  m \in GetAvailableModels
  BY DEF QuotaNeverHides
<1> DEFINE expired == Cardinality(OverQuota(m) \cap Clients)
           other   == Cardinality(Suspended(m) \cap Clients)
<1>1. expired \in Nat
  BY MarksFinite, FS_Intersection, FS_CardinalityType
<1>2. other = 0
  BY FS_EmptySet
<1>3. models[m].count \in Nat /\ models[m].count > 0
  BY InvFacts DEF Registration, Known
<1>4. models[m].count - expired - other > 0 \/ expired > 0
  <2> HIDE DEF expired, other
  <2> QED
    BY <1>1, <1>2, <1>3
<1> QED
  BY <1>2, <1>3, <1>4 DEF GetAvailableModels, Available

\* While only clients that offer a model are marked for it, and none twice
\* over, every model with an available client is listed, overall and among
\* the models of that client's provider.
THEOREM AvailableListed == RegistrySpec => []ListedWhenMarksExact
  BY CountsList, InitInv, NextInv, PTL DEF RegistrySpec

\* Running out of quota, on one client or on all of them, hides no model.
THEOREM QuotaHidesNothing == RegistrySpec => []QuotaNeverHides
  BY CountsHideNothing, InitInv, NextInv, PTL DEF RegistrySpec
----------------------------------------------------------------------------
(* Marks leave with the listing they belong to.                            *)

LEMMA RemovedUnmarked ==
  ASSUME NEW reg \in Registration, NEW c \in Clients, NEW p, NEW k \in Nat, k > 0
  PROVE  /\ RemoveRegistrations(reg, c, p, k).quota[c] = NoMark
         /\ RemoveRegistrations(reg, c, p, k).suspended[c] = NotSuspended
<1> DEFINE minus == ProviderMinus(reg, p, k)
<1>1. CASE reg.count <= k
  BY <1>1 DEF RemoveRegistrations, NoRegistration
<1>2. CASE ~(reg.count <= k)
  <2>1. RemoveRegistrations(reg, c, p, k) = [Unmarked(minus, c) EXCEPT !.count = Unmarked(minus, c).count - k]
    BY <1>2 DEF RemoveRegistrations
  <2>2. minus \in Registration
    BY ProviderMinusFacts
  <2> HIDE DEF minus
  <2> QED
    BY <2>1, <2>2 DEF Unmarked, Registration
<1> QED
  BY <1>1, <1>2

LEMMA MarksLeaveStep ==
  ASSUME RegistryInv, RegistryNext, NEW c \in Clients, NEW m \in Models,
         ClientSupportsModel(c, m), ~ClientSupportsModel(c, m)'
  PROVE  models'[m].quota[c] = NoMark /\ models'[m].suspended[c] = NotSuspended
<1>0. /\ models[m] \in Registration
      /\ clientModels \in [Clients -> ModelList]
      /\ clientModels[c][m] \in Nat /\ clientModels[c][m] > 0
      /\ clientModels'[c] # clientModels[c]
  BY InvFacts DEF RegistryInv, RegistryTypeOK, ClientSupportsModel
<1>1. ASSUME NEW d \in Clients, UnregisterClient(d)
      PROVE  models'[m].quota[c] = NoMark /\ models'[m].suspended[c] = NotSuspended
  <2>1. d = c
    BY <1>0, <1>1 DEF UnregisterClient
  <2>2. models'[m] = RemoveRegistrations(models[m], c, clientProviders[c], clientModels[c][m])
    BY <1>1, <2>1 DEF UnregisterClient
  <2> QED
    BY <1>0, <2>2, RemovedUnmarked
<1>2. ASSUME NEW d \in Clients, NEW p \in Providers \cup {NoProvider}, NEW list \in Lists,
             RegisterClient(d, p, list)
      PROVE  models'[m].quota[c] = NoMark /\ models'[m].suspended[c] = NotSuspended
  <2>1. CASE UnregisterClient(d)
    BY <1>1, <2>1
  <2>2. CASE ~UnregisterClient(d)
    <3>1. clientModels' = [clientModels EXCEPT ![d] = list]
      BY <1>2, <2>2 DEF RegisterClient
    <3>2. d = c /\ list[m] = 0
      <4>1. d = c
        BY <1>0, <3>1
      <4>2. clientModels'[c] = list
        BY <1>0, <3>1, <4>1
      <4>3. list[m] \in Nat
        BY RegistryAssumption
      <4> QED
        BY <4>1, <4>2, <4>3 DEF ClientSupportsModel
    <3>3. Registered(c)
      BY <1>0 DEF Registered, EmptyList
    <3>4. models'[m] = Reconcile(models[m], c, clientProviders[c], p, clientModels[c][m], 0)
      BY <1>2, <2>2, <3>2, <3>3 DEF RegisterClient
    <3>5. models'[m] = RemoveRegistrations(models[m], c, clientProviders[c], Monus(clientModels[c][m], 0))
      BY <1>0, <3>4 DEF Reconcile
    <3> QED
      BY <1>0, <3>5, RemovedUnmarked DEF Monus
  <2> QED
    BY <2>1, <2>2
<1>3. CASE UNCHANGED clientModels
  BY <1>0, <1>3
<1> QED
  BY <1>1, <1>2, <1>3
  DEF RegistryNext, SetModelQuotaExceeded, ClearModelQuotaExceeded, SuspendClientModel,
      ResumeClientModel, UpdateMark, CleanupExpiredQuotas, AgeQuotaMarks

\* A client that stops offering a model never leaves a mark of its own behind.
THEOREM MarksLeave == RegistrySpec => MarksLeaveWithClient
<1>1. RegistryInv /\ [RegistryNext]_registryVars =>
        [\A c \in Clients, m \in Models :
           ClientSupportsModel(c, m) /\ ~ClientSupportsModel(c, m)' =>
             models'[m].quota[c] = NoMark /\ models'[m].suspended[c] = NotSuspended]_registryVars
  BY MarksLeaveStep
<1> QED
  BY <1>1, InitInv, NextInv, PTL DEF RegistrySpec, MarksLeaveWithClient
----------------------------------------------------------------------------
(* Cleanup.  A mark it purges has expired, and the listings pass expired   *)
(* marks over already.                                                     *)

\* What a purge leaves of a registration.
LEMMA PurgeLeaves ==
  ASSUME RegistryTypeOK, CleanupExpiredQuotas, NEW m \in Models
  PROVE  /\ models'[m].count = models[m].count
         /\ models'[m].suspended = models[m].suspended
         /\ \A c \in Clients : models'[m].quota[c] =
              IF models[m].quota[c] >= QuotaWindow THEN NoMark ELSE models[m].quota[c]
<1> DEFINE reg == models[m]
           quota == [c \in Clients |-> IF reg.quota[c] >= QuotaWindow THEN NoMark ELSE reg.quota[c]]
<1>1. reg \in Registration
  BY DEF RegistryTypeOK
<1>2. models'[m] = [reg EXCEPT !.quota = quota]
  BY DEF CleanupExpiredQuotas
<1> HIDE DEF reg
<1>3. models'[m].count = reg.count /\ models'[m].suspended = reg.suspended
      /\ models'[m].quota = quota
  <2> HIDE DEF quota
  <2> QED
    BY <1>1, <1>2 DEF Registration
<1> QED
  BY <1>3 DEF reg

LEMMA PurgeUnseen ==
  ASSUME RegistryTypeOK, CleanupExpiredQuotas
  PROVE  \A m \in Models :
           /\ OverQuota(m)' = OverQuota(m) /\ CoolingDown(m)' = CoolingDown(m)
           /\ Suspended(m)' = Suspended(m)
           /\ \A who : Listings(m, who)' = Listings(m, who)
           /\ models'[m].count = models[m].count
<1> SUFFICES ASSUME NEW m \in Models
             PROVE  /\ OverQuota(m)' = OverQuota(m) /\ CoolingDown(m)' = CoolingDown(m)
                    /\ Suspended(m)' = Suspended(m)
                    /\ \A who : Listings(m, who)' = Listings(m, who)
                    /\ models'[m].count = models[m].count
  OBVIOUS
<1>1. \A c \in Clients : models[m].quota[c] \in {NoMark} \cup (0..QuotaWindow)
  BY DEF RegistryTypeOK, Registration
<1>2. OverQuota(m)' = OverQuota(m)
  BY <1>1, PurgeLeaves, RegistryAssumption DEF OverQuota, NoMark
<1>3. CoolingDown(m)' = CoolingDown(m) /\ Suspended(m)' = Suspended(m)
  BY PurgeLeaves DEF CoolingDown, Suspended
<1>4. \A who : Listings(m, who)' = Listings(m, who)
  BY DEF Listings, CleanupExpiredQuotas
<1> QED
  BY <1>2, <1>3, <1>4, PurgeLeaves

LEMMA PurgeStep ==
  ASSUME RegistryInv, CleanupExpiredQuotas
  PROVE  /\ GetAvailableModels' = GetAvailableModels
         /\ \A p \in Providers : GetAvailableModelsByProvider(p)' = GetAvailableModelsByProvider(p)
         /\ \A m \in Models : GetModelCount(m)' = GetModelCount(m)
<1>1. \A m \in Models :
        /\ OverQuota(m)' = OverQuota(m) /\ CoolingDown(m)' = CoolingDown(m)
        /\ Suspended(m)' = Suspended(m)
        /\ \A who : Listings(m, who)' = Listings(m, who)
        /\ models'[m].count = models[m].count
  BY PurgeUnseen DEF RegistryInv
<1>2. \A m \in Models : \A who, offered : Available(m, who, offered)' = Available(m, who, offered)
  BY <1>1 DEF Available
<1>3. \A p \in Providers : ClientsOf(p)' = ClientsOf(p)
  BY DEF ClientsOf, CleanupExpiredQuotas
<1>4. GetAvailableModels' = GetAvailableModels
  BY <1>1, <1>2 DEF GetAvailableModels, Known
<1>5. ASSUME NEW p \in Providers
      PROVE  GetAvailableModelsByProvider(p)' = GetAvailableModelsByProvider(p)
  BY <1>1, <1>2, <1>3 DEF GetAvailableModelsByProvider
<1>6. \A m \in Models : GetModelCount(m)' = GetModelCount(m)
  BY <1>1 DEF GetModelCount
<1> QED
  BY <1>4, <1>5, <1>6

\* The sweep of CleanupExpiredQuotas changes no listing, by provider or not,
\* and no count, whatever the marks are.
THEOREM CleanupUnseen == RegistrySpec => CleanupInvisible
<1>1. RegistryInv /\ [RegistryNext]_registryVars =>
        [CleanupExpiredQuotas =>
           /\ GetAvailableModels' = GetAvailableModels
           /\ \A p \in Providers : GetAvailableModelsByProvider(p)' = GetAvailableModelsByProvider(p)
           /\ \A m \in Models : GetModelCount(m)' = GetModelCount(m)]_registryVars
  BY PurgeStep
<1> QED
  BY <1>1, InitInv, NextInv, PTL DEF RegistrySpec, CleanupInvisible
----------------------------------------------------------------------------
(* The largest of finitely many numbers, and the earliest of finitely many *)
(* times.                                                                  *)

LEMMA LargestExists ==
  ASSUME NEW S, IsFiniteSet(S), S # {}, NEW f, \A x \in S : f[x] \in Int
  PROVE  \E x \in S : \A y \in S : f[y] <= f[x]
<1> DEFINE Above(x) == {y \in S : f[x] <= f[y]}
           T == {X \in SUBSET S : X # {} /\ \A x \in X : Above(x) \subseteq X}
<1>1. T \subseteq FiniteSubsetsOf(S)
  BY FS_Subset DEF FiniteSubsetsOf
<1>2. S \in T
  OBVIOUS
<1>3. PICK X \in T : \A Y \in T : ~ (<<Y, X>> \in StrictSubsetOrdering(S))
  <2>1. IsWellFoundedOn(StrictSubsetOrdering(S), FiniteSubsetsOf(S))
    BY FS_StrictSubsetOrderingWellFounded
  <2>2. T \subseteq FiniteSubsetsOf(S) /\ T # {}
    BY <1>1, <1>2
  <2> HIDE DEF T
  <2>3. QED
    BY <2>1, <2>2, WFMin
<1>4. \A x \in S : Above(x) \in T
  OBVIOUS
<1>5. PICK x \in X : TRUE
  OBVIOUS
<1>6. ASSUME NEW y \in S, ~(f[y] <= f[x]) PROVE FALSE
  <2>1. y \in X /\ Above(y) \subseteq X
    BY <1>6
  <2>2. x \in X /\ x \notin Above(y)
    BY <1>6
  <2>3. <<Above(y), X>> \in StrictSubsetOrdering(S)
    BY <2>1, <2>2 DEF StrictSubsetOrdering
  <2>4. QED
    BY <1>3, <1>4, <2>3
<1>7. QED
  BY <1>5, <1>6

LEMMA SmallestExists ==
  ASSUME NEW S, IsFiniteSet(S), S # {}, NEW f, \A x \in S : f[x] \in Int
  PROVE  \E x \in S : \A y \in S : f[x] <= f[y]
<1> DEFINE g == [x \in S |-> 0 - f[x]]
<1>1. \A x \in S : g[x] \in Int /\ g[x] = 0 - f[x]
  OBVIOUS
<1> HIDE DEF g
<1>2. PICK x \in S : \A y \in S : g[y] <= g[x]
  BY <1>1, LargestExists
<1>3. QED
  BY <1>1, <1>2

\* What Earliest returns: the zero time if there is no other, and the least
\* other one if there is.
LEMMA EarliestFacts ==
  ASSUME NEW K, IsFiniteSet(K), NEW f, \A k \in K : f[k] \in Time
  PROVE  LET e == Earliest({f[k] : k \in K})
         IN /\ e \in Time
            /\ e = NoTime <=> \A k \in K : f[k] = NoTime
            /\ e # NoTime => \E k \in K : f[k] = e
            /\ \A k \in K : f[k] # NoTime => e <= f[k]
<1> DEFINE times == {f[k] : k \in K}
           L == {k \in K : f[k] # NoTime}
<1>1. CASE L = {}
  <2>1. Earliest(times) = NoTime
    BY <1>1 DEF Earliest
  <2>2. QED
    BY <2>1, <1>1 DEF Time
<1>2. CASE L # {}
  <2>1. IsFiniteSet(L) /\ \A k \in L : f[k] \in Nat
    BY FS_Subset DEF Time
  <2>2. PICK k \in L : \A j \in L : f[k] <= f[j]
    BY <1>2, <2>1, SmallestExists
  <2>3. Earliest(times) = CHOOSE t \in times \ {NoTime} : \A u \in times \ {NoTime} : t <= u
    BY <1>2 DEF Earliest
  <2>4. \E t \in times \ {NoTime} : \A u \in times \ {NoTime} : t <= u
    BY <2>2
  <2>5. /\ Earliest(times) \in times \ {NoTime}
        /\ \A u \in times \ {NoTime} : Earliest(times) <= u
    BY <2>3, <2>4
  <2>6. QED
    BY <1>2, <2>1, <2>5
<1>3. QED
  BY <1>1, <1>2

\* The clock moves the earliest time as it moves them all.
LEMMA EarliestElapses ==
  ASSUME NEW K, IsFiniteSet(K), NEW f, \A k \in K : f[k] \in Time
  PROVE  Earliest({Elapse(f[k]) : k \in K}) = Elapse(Earliest({f[k] : k \in K}))
<1> DEFINE g == [k \in K |-> Elapse(f[k])]
           e == Earliest({f[k] : k \in K})
           d == Earliest({g[k] : k \in K})
<1>1. \A k \in K : g[k] = Elapse(f[k]) /\ g[k] \in Time /\ (g[k] = NoTime <=> f[k] = NoTime)
  BY DEF Elapse, Time, NoTime
<1>2. /\ e \in Time
      /\ e = NoTime <=> \A k \in K : f[k] = NoTime
      /\ e # NoTime => \E k \in K : f[k] = e
      /\ \A k \in K : f[k] # NoTime => e <= f[k]
  BY EarliestFacts
<1>3. /\ d \in Time
      /\ d = NoTime <=> \A k \in K : g[k] = NoTime
      /\ d # NoTime => \E k \in K : g[k] = d
      /\ \A k \in K : g[k] # NoTime => d <= g[k]
  <2> HIDE DEF g
  <2>1. QED
    BY <1>1, EarliestFacts
<1>4. {g[k] : k \in K} = {Elapse(f[k]) : k \in K}
  BY <1>1
<1> HIDE DEF g, e, d
<1>5. d = Elapse(e)
  <2>1. CASE e = NoTime
    BY <1>1, <1>2, <1>3, <2>1 DEF Elapse, NoTime
  <2>2. CASE e # NoTime
    <3>1. PICK k \in K : f[k] = e
      BY <1>2, <2>2
    <3>2. PICK j \in K : g[j] = d /\ d # NoTime
      BY <1>1, <1>2, <1>3, <2>2
    <3>3. d <= g[k] /\ e <= f[j]
      BY <1>1, <1>2, <1>3, <2>2, <3>1, <3>2
    <3>4. QED
      BY <1>1, <1>2, <1>3, <3>1, <3>2, <3>3 DEF Elapse, Time, NoTime
  <2>3. QED
    BY <2>1, <2>2
<1>6. QED
  BY <1>4, <1>5 DEF d, e

----------------------------------------------------------------------------
(* One model state, and one auth.                                          *)

\* BackoffBounded, of one model state.
StateBounded(state) ==
  /\ state.level > 0 => QuotaBackoffBase * 2^(state.level - 1) < QuotaBackoffMax
  /\ state.recover > QuotaBackoffMax => \E t \in RetryAfters : state.recover <= t

AuthBounded(auth) == auth \in Auth /\ \A m \in Models : StateBounded(auth.states[m])

LEMMA CooldownFacts ==
  ASSUME NEW level \in Nat, NEW noCooling \in BOOLEAN
  PROVE  LET backoff == NextQuotaCooldown(level, noCooling)
         IN /\ backoff.level \in {level, level + 1}
            /\ backoff.cooldown \in Int /\ backoff.cooldown <= QuotaBackoffMax
            /\ backoff.level = level + 1 => QuotaBackoffBase * 2^level < QuotaBackoffMax
<1> DEFINE cooldown == QuotaBackoffBase * 2^level
<1>1. 2^level \in Int
  OBVIOUS
<1>2. cooldown \in Int /\ QuotaBackoffMax \in Nat
  BY <1>1, ManagerAssumption
<1>3. NextQuotaCooldown(level, noCooling) =
        IF noCooling THEN [cooldown |-> 0, level |-> level]
        ELSE IF cooldown >= QuotaBackoffMax THEN [cooldown |-> QuotaBackoffMax, level |-> level]
        ELSE [cooldown |-> cooldown, level |-> level + 1]
  BY DEF NextQuotaCooldown
<1>4. cooldown = QuotaBackoffBase * 2^level
  OBVIOUS
<1> HIDE DEF cooldown
<1>5. QED
  BY <1>2, <1>3, <1>4

LEMMA FailFacts ==
  ASSUME NEW state \in ModelState, StateBounded(state), NEW outcome \in Outcome,
         outcome.kind # "ok", NEW noCooling \in BOOLEAN
  PROVE  LET new == FailState(state, outcome, noCooling)
         IN new \in ModelState /\ new.known /\ new.failed /\ StateBounded(new)
<1> DEFINE base == [(IF state.known THEN state ELSE FreshState)
                      EXCEPT !.unavailable = TRUE, !.failed = TRUE]
           backoff == NextQuotaCooldown(base.level, noCooling)
           until == IF outcome.retryAfter # NoTime THEN outcome.retryAfter
                    ELSE IF backoff.cooldown > 0 THEN backoff.cooldown ELSE NoTime
           level == IF outcome.retryAfter # NoTime THEN base.level ELSE backoff.level
           new == FailState(state, outcome, noCooling)
<1>1. /\ base \in ModelState /\ base.known /\ base.failed
      /\ StateBounded(base)
  <2>1. FreshState \in ModelState /\ FreshState.known /\ FreshState.level = 0
        /\ FreshState.recover = NoTime
    BY DEF FreshState, NoState, ModelState, Time, NoTime
  <2>2. StateBounded(FreshState)
    BY <2>1, ManagerAssumption DEF StateBounded, NoTime
  <2>3. PICK s \in ModelState : s.known /\ StateBounded(s)
                               /\ s = IF state.known THEN state ELSE FreshState
    BY <2>1, <2>2
  <2>4. base = [s EXCEPT !.unavailable = TRUE, !.failed = TRUE]
    BY <2>3
  <2>5. base \in ModelState /\ base.known /\ base.failed /\ base.level = s.level
        /\ base.recover = s.recover
    BY <2>3, <2>4 DEF ModelState
  <2>6. QED
    BY <2>3, <2>5 DEF StateBounded
<1>2. base.level \in Nat
  BY <1>1 DEF ModelState
<1>3. /\ until \in Time /\ level \in Nat
      /\ level > 0 => QuotaBackoffBase * 2^(level - 1) < QuotaBackoffMax
      /\ until > QuotaBackoffMax => \E t \in RetryAfters : until <= t
  <2>1. /\ backoff.level \in {base.level, base.level + 1}
        /\ backoff.cooldown \in Int /\ backoff.cooldown <= QuotaBackoffMax
        /\ backoff.level = base.level + 1 => QuotaBackoffBase * 2^(base.level) < QuotaBackoffMax
    BY <1>2, CooldownFacts
  <2>2. CASE outcome.retryAfter # NoTime
    BY <1>1, <1>2, <2>2, ManagerAssumption DEF Outcome, Time, StateBounded
  <2>3. CASE outcome.retryAfter = NoTime
    <3>1. until = IF backoff.cooldown > 0 THEN backoff.cooldown ELSE NoTime
      BY <2>3
    <3>2. level = backoff.level
      BY <2>3
    <3> HIDE DEF until, level, backoff, base
    <3>3. QED
      BY <1>1, <1>2, <2>1, <3>1, <3>2, ManagerAssumption DEF Time, NoTime, StateBounded
  <2>4. QED
    BY <2>2, <2>3
<1>4. \/ \E t \in Time : new = [base EXCEPT !.next = t]
      \/ new = [base EXCEPT !.next = until, !.exceeded = TRUE, !.recover = until, !.level = level]
  <2>1. {AccessCooldown, NotFoundCooldown, TransientCooldown, NoTime} \subseteq Time
    BY ManagerAssumption DEF Time
  <2>2. QED
    BY <2>1 DEF FailState, Outcome, Failures
<1> HIDE DEF base, until, level, new
<1>5. ASSUME NEW t \in Time, new = [base EXCEPT !.next = t]
      PROVE  new \in ModelState /\ new.known /\ new.failed /\ StateBounded(new)
  BY <1>1, <1>5 DEF ModelState, StateBounded
<1>6. ASSUME new = [base EXCEPT !.next = until, !.exceeded = TRUE, !.recover = until,
                                !.level = level]
      PROVE  new \in ModelState /\ new.known /\ new.failed /\ StateBounded(new)
  <2>1. new \in ModelState /\ new.known /\ new.failed /\ new.level = level /\ new.recover = until
    BY <1>1, <1>3, <1>6 DEF ModelState
  <2>2. QED
    BY <1>3, <2>1 DEF StateBounded
<1>7. QED
  BY <1>4, <1>5, <1>6 DEF new

LEMMA EndCooldownFacts ==
  ASSUME NEW state \in ModelState
  PROVE  LET new == EndCooldown(state)
         IN /\ new \in ModelState
            /\ new.known = state.known /\ new.failed = state.failed
            /\ new.exceeded = state.exceeded /\ new.recover = state.recover
            /\ new.level = state.level
            /\ state.unavailable /\ state.next > 0 => new.unavailable /\ new.next > 0
<1>1. CASE state.unavailable /\ state.next = 0
  <2>1. EndCooldown(state) = [state EXCEPT !.unavailable = FALSE, !.next = NoTime]
    BY <1>1 DEF EndCooldown
  <2>2. EndCooldown(state) \in ModelState
    BY <2>1 DEF ModelState, Time
  <2>3. QED
    BY <1>1, <2>1, <2>2 DEF ModelState
<1>2. CASE ~(state.unavailable /\ state.next = 0)
  BY <1>2 DEF EndCooldown
<1>3. QED
  BY <1>1, <1>2

LEMMA KnownFinite == ASSUME NEW auth PROVE IsFiniteSet(KnownModels(auth))
  BY FS_Subset, ManagerAssumption DEF KnownModels

\* The aggregation of an auth that has a model state.
LEMMA AggregateFacts ==
  ASSUME NEW auth \in Auth, KnownModels(auth) # {}
  PROVE  LET new == UpdateAggregatedAvailability(auth)
         IN /\ new \in Auth /\ AggregateExact(new)
            /\ new.states = [m \in Models |-> EndCooldown(auth.states[m])]
            /\ KnownModels(new) = KnownModels(auth)
            /\ new.status = auth.status /\ new.disabled = auth.disabled
<1> DEFINE states == [m \in Models |-> EndCooldown(auth.states[m])]
           known == KnownModels(auth)
           over == {m \in known : states[m].exceeded}
           down == \A m \in known : states[m].unavailable
           next == IF down THEN Earliest({states[m].next : m \in known}) ELSE NoTime
           recover == Earliest({states[m].recover : m \in over})
           level == IF over = {} THEN 0
                    ELSE CHOOSE l \in {states[m].level : m \in over} :
                           \A m \in over : states[m].level <= l
           new == UpdateAggregatedAvailability(auth)
<1>1. new = [auth EXCEPT !.states = states, !.unavailable = down, !.next = next,
                         !.exceeded = (over # {}), !.recover = recover, !.level = level]
  BY DEF UpdateAggregatedAvailability
<1>2. /\ states \in [Models -> ModelState]
      /\ \A m \in Models : states[m].known = auth.states[m].known
  BY EndCooldownFacts DEF Auth
<1>3. IsFiniteSet(known) /\ IsFiniteSet(over) /\ known \subseteq Models /\ over \subseteq known
  BY KnownFinite, FS_Subset DEF KnownModels
<1>12. known = KnownModels(auth) /\ states = [m \in Models |-> EndCooldown(auth.states[m])]
  OBVIOUS
<1> HIDE DEF states, known, over
<1>4. next \in Time
  <2> DEFINE f == [m \in known |-> states[m].next]
  <2>1. \A m \in known : f[m] = states[m].next /\ f[m] \in Time
    BY <1>2, <1>3 DEF ModelState
  <2> HIDE DEF f
  <2>2. Earliest({f[m] : m \in known}) \in Time
    BY <1>3, <2>1, EarliestFacts
  <2>3. {f[m] : m \in known} = {states[m].next : m \in known}
    BY <2>1
  <2>4. QED
    BY <2>2, <2>3 DEF Time
<1>5. recover \in Time
  <2> DEFINE f == [m \in over |-> states[m].recover]
  <2>1. \A m \in over : f[m] = states[m].recover /\ f[m] \in Time
    BY <1>2, <1>3 DEF ModelState
  <2> HIDE DEF f
  <2>2. Earliest({f[m] : m \in over}) \in Time
    BY <1>3, <2>1, EarliestFacts
  <2>3. {f[m] : m \in over} = {states[m].recover : m \in over}
    BY <2>1
  <2>4. QED
    BY <2>2, <2>3
<1>6. level \in Nat /\ \A m \in over : states[m].level <= level
  <2>1. CASE over = {}
    BY <2>1
  <2>2. CASE over # {}
    <3> DEFINE f == [m \in over |-> states[m].level]
    <3>1. \A m \in over : f[m] = states[m].level /\ f[m] \in Nat
      BY <1>2, <1>3 DEF ModelState
    <3> HIDE DEF f
    <3>2. PICK m \in over : \A k \in over : f[k] <= f[m]
      BY <1>3, <2>2, <3>1, LargestExists
    <3>3. \E l \in {states[k].level : k \in over} : \A k \in over : states[k].level <= l
      BY <3>1, <3>2
    <3>4. /\ level \in {states[k].level : k \in over}
          /\ \A k \in over : states[k].level <= level
      BY <2>2, <3>3
    <3>5. QED
      BY <3>1, <3>4
  <2>3. QED
    BY <2>1, <2>2
<1> HIDE DEF next, recover, level, down
<1>7. down \in BOOLEAN
  BY DEF down
<1>8. /\ new \in Auth
      /\ new.states = states /\ new.unavailable = down /\ new.next = next
      /\ new.exceeded = (over # {}) /\ new.recover = recover /\ new.level = level
      /\ new.status = auth.status /\ new.disabled = auth.disabled
  BY <1>1, <1>2, <1>4, <1>5, <1>6, <1>7 DEF Auth
<1>9. KnownModels(new) = known
  BY <1>2, <1>8 DEF KnownModels, known
<1>10. AggregateExact(new)
  <2>1. {m \in KnownModels(new) : new.states[m].exceeded} = over
    BY <1>8, <1>9 DEF over
  <2>2. known # {}
    BY DEF known
  <2>3. /\ down <=> \A m \in known : states[m].unavailable
        /\ down => next = Earliest({states[m].next : m \in known})
        /\ recover = Earliest({states[m].recover : m \in over})
    BY DEF down, next, recover
  <2>4. QED
    BY <1>6, <1>8, <1>9, <2>1, <2>2, <2>3 DEF AggregateExact
<1>11. QED
  BY <1>8, <1>9, <1>10 DEF states, known, new

\* What an auth is while only results change it.
StatusExact(auth) == auth.status = IF HasModelError(auth) THEN "error" ELSE "active"
AuthOK(auth) ==
  /\ auth \in Auth
  /\ AggregateExact(auth)
  /\ \A m \in Models : StateBounded(auth.states[m])
  /\ StatusExact(auth)

LEMMA BoundedStates ==
  ASSUME NEW auth, \A m \in Models : StateBounded(auth.states[m])
  PROVE  BackoffBounded(auth)
  BY DEF BackoffBounded, StateBounded

LEMMA NewAuthFacts ==
  AuthOK(FreshAuth(FALSE)) /\ AuthOK(NoAuth)
<1>1. NoState \in ModelState /\ NoState.known = FALSE /\ NoState.level = 0 /\ NoState.recover = NoTime
  BY DEF NoState, ModelState, Time
<1>2. StateBounded(NoState)
  BY <1>1, ManagerAssumption DEF StateBounded, NoTime
<1>3. Earliest({}) = NoTime
  BY DEF Earliest
<1>4. ASSUME NEW auth, auth \in {FreshAuth(FALSE), NoAuth} PROVE AuthOK(auth)
  <2>1. /\ auth \in Auth
        /\ auth.states = [m \in Models |-> NoState]
        /\ auth.unavailable = FALSE /\ auth.exceeded = FALSE /\ auth.recover = NoTime
        /\ auth.status = "active"
    <3>1. \E present \in BOOLEAN :
            auth = [present |-> present, disabled |-> FALSE, status |-> "active",
                    unavailable |-> FALSE, next |-> NoTime, exceeded |-> FALSE,
                    recover |-> NoTime, level |-> 0, refreshAfter |-> NoTime,
                    states |-> [m \in Models |-> NoState]]
      BY <1>4 DEF FreshAuth, NoAuth
    <3>2. QED
      BY <1>1, <3>1 DEF Auth, Time, Statuses
  <2>2. KnownModels(auth) = {}
    BY <1>1, <2>1 DEF KnownModels
  <2>3. AggregateExact(auth)
    <3>1. {m \in KnownModels(auth) : auth.states[m].exceeded} = {}
      BY <2>2
    <3>2. {auth.states[m].recover : m \in {}} = {}
      OBVIOUS
    <3>3. QED
      BY <1>3, <2>1, <2>2, <3>1, <3>2 DEF AggregateExact
  <2>4. QED
    BY <1>2, <2>1, <2>2, <2>3 DEF AuthOK, StatusExact, HasModelError
<1>5. QED
  BY <1>4

\* The auth with a new state for model m and some status, aggregated.
Renewed(auth, m, state, status) ==
  UpdateAggregatedAvailability([auth EXCEPT !.states[m] = state, !.status = status])

\* What a renewal brings about: it leaves the other models in error, and their
\* cooldowns that have not run out.
RenewedTo(auth, m, state, status, result) ==
  /\ result \in Auth /\ AggregateExact(result)
  /\ \A k \in Models : StateBounded(result.states[k])
  /\ result.status = status
  /\ KnownModels(result) = KnownModels(auth) \cup {m}
  /\ result.states[m].failed = state.failed
  /\ \A k \in Models \ {m} : result.states[k].failed = auth.states[k].failed
  /\ \A k \in Models \ {m} : CoolingFor(auth, k) => CoolingFor(result, k)

LEMMA RenewedFacts ==
  ASSUME NEW auth \in Auth, \A k \in Models : StateBounded(auth.states[k]),
         NEW m \in Models, NEW state \in ModelState, state.known = TRUE, StateBounded(state),
         NEW status \in Statuses
  PROVE  RenewedTo(auth, m, state, status, Renewed(auth, m, state, status))
<1> DEFINE given == [auth EXCEPT !.states[m] = state, !.status = status]
           result == UpdateAggregatedAvailability(given)
<1>0. auth.states \in [Models -> ModelState]
  BY DEF Auth
<1>1. /\ given \in Auth /\ given.status = status
      /\ given.states = [auth.states EXCEPT ![m] = state]
  BY <1>0 DEF Auth
<1>2. /\ given.states[m] = state
      /\ \A k \in Models \ {m} : given.states[k] = auth.states[k]
      /\ \A k \in Models : given.states[k] \in ModelState /\ StateBounded(given.states[k])
  BY <1>0, <1>1
<1>3. m \in KnownModels(given) /\ KnownModels(given) = KnownModels(auth) \cup {m}
  BY <1>0, <1>2 DEF KnownModels
<1>4. /\ result \in Auth /\ AggregateExact(result)
      /\ result.states = [k \in Models |-> EndCooldown(given.states[k])]
      /\ KnownModels(result) = KnownModels(given)
      /\ result.status = status
  BY <1>1, <1>3, AggregateFacts
<1>5. \A k \in Models :
        /\ result.states[k].failed = given.states[k].failed
        /\ result.states[k].recover = given.states[k].recover
        /\ result.states[k].level = given.states[k].level
        /\ given.states[k].unavailable /\ given.states[k].next > 0 =>
             result.states[k].unavailable /\ result.states[k].next > 0
  BY <1>2, <1>4, EndCooldownFacts
<1>6. \A k \in Models : StateBounded(result.states[k])
  BY <1>2, <1>5 DEF StateBounded
<1>7. /\ KnownModels(result) = KnownModels(auth) \cup {m}
      /\ result.states[m].failed = state.failed
      /\ \A k \in Models \ {m} : result.states[k].failed = auth.states[k].failed
  BY <1>2, <1>3, <1>4, <1>5
<1>8. \A k \in Models \ {m} : CoolingFor(auth, k) => CoolingFor(result, k)
  BY <1>2, <1>5 DEF CoolingFor
<1>9. QED
  BY <1>4, <1>6, <1>7, <1>8 DEF Renewed, RenewedTo

\* A result keeps the backoffs of an auth bounded, whatever its own fields say.
LEMMA RecordBounded ==
  ASSUME NEW auth, AuthBounded(auth), NEW m \in Models, NEW outcome \in Outcome,
         NEW noCooling \in BOOLEAN
  PROVE  AuthBounded(RecordResult(auth, m, outcome, noCooling))
<1> DEFINE new == RecordResult(auth, m, outcome, noCooling)
<1>1. auth \in Auth /\ auth.states \in [Models -> ModelState]
      /\ \A k \in Models : StateBounded(auth.states[k])
  BY DEF AuthBounded, Auth
<1>2. CASE outcome.kind # "ok"
  <2> DEFINE state == FailState(auth.states[m], outcome, noCooling)
  <2>1. state \in ModelState /\ state.known = TRUE /\ StateBounded(state)
    BY <1>1, <1>2, FailFacts DEF ModelState
  <2>2. new = Renewed(auth, m, state, "error") /\ "error" \in Statuses
    BY <1>2 DEF RecordResult, Renewed, Statuses
  <2> HIDE DEF state, new
  <2>3. RenewedTo(auth, m, state, "error", new)
    BY <1>1, <2>1, <2>2, RenewedFacts
  <2>4. QED
    BY <2>3 DEF RenewedTo, AuthBounded, new
<1>3. CASE outcome.kind = "ok"
  <2> DEFINE reset == UpdateAggregatedAvailability([auth EXCEPT !.states[m] = FreshState])
  <2>1. FreshState \in ModelState /\ FreshState.known = TRUE /\ StateBounded(FreshState)
    <3>1. FreshState \in ModelState /\ FreshState.known = TRUE
          /\ FreshState.level = 0 /\ FreshState.recover = NoTime
      BY DEF FreshState, NoState, ModelState, Time
    <3>2. QED
      BY <3>1, ManagerAssumption DEF StateBounded, NoTime
  <2>2. auth.status \in Statuses /\ reset = Renewed(auth, m, FreshState, auth.status)
    BY <1>1 DEF Auth, Renewed
  <2>3. new = reset \/ new = [reset EXCEPT !.status = "active"]
    BY <1>3 DEF RecordResult
  <2> HIDE DEF reset, new
  <2>4. RenewedTo(auth, m, FreshState, auth.status, reset)
    BY <1>1, <2>1, <2>2, RenewedFacts
  <2>5. reset \in Auth /\ \A k \in Models : StateBounded(reset.states[k])
    BY <2>4 DEF RenewedTo
  <2>6. new \in Auth /\ new.states = reset.states
    BY <2>3, <2>5 DEF Auth, Statuses
  <2>7. QED
    BY <2>5, <2>6 DEF AuthBounded, new
<1>4. QED
  BY <1>2, <1>3

\* A result leaves the auth as it has to be, and of the other models it leaves
\* the cooldowns that have not run out alone.
LEMMA RecordFacts ==
  ASSUME NEW auth, AuthOK(auth), NEW m \in Models, NEW outcome \in Outcome,
         NEW noCooling \in BOOLEAN
  PROVE  LET new == RecordResult(auth, m, outcome, noCooling)
         IN /\ AuthOK(new)
            /\ \A k \in Models \ {m} : CoolingFor(auth, k) => CoolingFor(new, k)
<1> DEFINE new == RecordResult(auth, m, outcome, noCooling)
<1>1. auth \in Auth /\ auth.states \in [Models -> ModelState]
      /\ \A k \in Models : StateBounded(auth.states[k])
  BY DEF AuthOK, Auth
<1>3. CASE outcome.kind # "ok"
  <2> DEFINE state == FailState(auth.states[m], outcome, noCooling)
  <2>1. state \in ModelState /\ state.known = TRUE /\ state.failed = TRUE /\ StateBounded(state)
    BY <1>1, <1>3, FailFacts DEF ModelState
  <2>2. new = Renewed(auth, m, state, "error")
    BY <1>3 DEF RecordResult, Renewed
  <2>3. "error" \in Statuses
    BY DEF Statuses
  <2> HIDE DEF state, new
  <2>4. /\ new \in Auth /\ AggregateExact(new)
        /\ \A k \in Models : StateBounded(new.states[k])
        /\ new.status = "error" /\ HasModelError(new)
        /\ \A k \in Models \ {m} : CoolingFor(auth, k) => CoolingFor(new, k)
    <3>1. RenewedTo(auth, m, state, "error", new)
      BY <1>1, <2>1, <2>2, <2>3, RenewedFacts
    <3>2. m \in KnownModels(new) /\ new.states[m].failed
      BY <2>1, <3>1 DEF RenewedTo
    <3>3. QED
      BY <3>1, <3>2 DEF RenewedTo, HasModelError
  <2>5. QED
    BY <2>4 DEF AuthOK, StatusExact, new
<1>4. CASE outcome.kind = "ok"
  <2> DEFINE reset == UpdateAggregatedAvailability([auth EXCEPT !.states[m] = FreshState])
  <2>1. FreshState \in ModelState /\ FreshState.known = TRUE /\ ~FreshState.failed
        /\ FreshState.level = 0 /\ FreshState.recover = NoTime
    BY DEF FreshState, NoState, ModelState, Time
  <2>2. StateBounded(FreshState)
    BY <2>1, ManagerAssumption DEF StateBounded, NoTime
  <2>3. auth.status \in Statuses /\ reset = Renewed(auth, m, FreshState, auth.status)
    BY <1>1 DEF Auth, Renewed
  <2>4. /\ reset \in Auth /\ AggregateExact(reset)
        /\ \A k \in Models : StateBounded(reset.states[k])
        /\ reset.status = auth.status
        /\ HasModelError(reset) <=> \E k \in KnownModels(auth) \ {m} : auth.states[k].failed
        /\ \A k \in Models \ {m} : CoolingFor(auth, k) => CoolingFor(reset, k)
    <3> HIDE DEF reset
    <3>1. RenewedTo(auth, m, FreshState, auth.status, reset)
      BY <1>1, <2>1, <2>2, <2>3, RenewedFacts
    <3>2. KnownModels(auth) \subseteq Models
      BY DEF KnownModels
    <3>3. HasModelError(reset) <=> \E k \in KnownModels(auth) \ {m} : auth.states[k].failed
      BY <2>1, <3>1, <3>2 DEF RenewedTo, HasModelError
    <3>4. QED
      BY <3>1, <3>3 DEF RenewedTo
  <2>5. new = IF HasModelError(reset) THEN reset ELSE [reset EXCEPT !.status = "active"]
    BY <1>4 DEF RecordResult
  <2>6. HasModelError(reset) => auth.status = "error"
    BY <2>4 DEF AuthOK, StatusExact, HasModelError, KnownModels
  <2> HIDE DEF reset, new
  <2>7. CASE HasModelError(reset)
    BY <2>4, <2>5, <2>6, <2>7 DEF AuthOK, StatusExact, new
  <2>8. CASE ~HasModelError(reset)
    <3>1. /\ new \in Auth /\ new.status = "active"
          /\ new.states = reset.states /\ new.unavailable = reset.unavailable
          /\ new.next = reset.next /\ new.exceeded = reset.exceeded
          /\ new.recover = reset.recover /\ new.level = reset.level
      BY <2>4, <2>5, <2>8 DEF Auth, Statuses
    <3>2. KnownModels(new) = KnownModels(reset)
      BY <3>1 DEF KnownModels
    <3>3. AggregateExact(new)
      BY <2>4, <3>1, <3>2 DEF AggregateExact
    <3>4. ~HasModelError(new)
      BY <2>8, <3>1, <3>2 DEF HasModelError
    <3>5. \A k \in Models \ {m} : CoolingFor(auth, k) => CoolingFor(new, k)
      BY <2>4, <3>1 DEF CoolingFor
    <3>6. QED
      BY <2>4, <3>1, <3>3, <3>4, <3>5 DEF AuthOK, StatusExact, new
  <2>9. QED
    BY <2>7, <2>8
<1>5. QED
  BY <1>3, <1>4

\* What a tick of the clock does to an auth and to its model states.
LEMMA ElapseFields ==
  ASSUME NEW auth \in Auth
  PROVE  LET new == ElapseAuth(auth)
         IN /\ new \in Auth
            /\ new.unavailable = auth.unavailable /\ new.exceeded = auth.exceeded
            /\ new.next = Elapse(auth.next) /\ new.recover = Elapse(auth.recover)
            /\ new.level = auth.level /\ new.status = auth.status
            /\ \A m \in Models :
                 /\ new.states[m].known = auth.states[m].known
                 /\ new.states[m].unavailable = auth.states[m].unavailable
                 /\ new.states[m].failed = auth.states[m].failed
                 /\ new.states[m].exceeded = auth.states[m].exceeded
                 /\ new.states[m].level = auth.states[m].level
                 /\ new.states[m].next = Elapse(auth.states[m].next)
                 /\ new.states[m].recover = Elapse(auth.states[m].recover)
                 /\ auth.states[m].next \in Time /\ auth.states[m].recover \in Time
<1> DEFINE states == [m \in Models |-> ElapseState(auth.states[m])]
           new == ElapseAuth(auth)
<1>1. auth.states \in [Models -> ModelState]
  BY DEF Auth
<1>2. \A t \in Time : Elapse(t) \in Time /\ (Elapse(t) = NoTime <=> t = NoTime) /\ Elapse(t) <= t
  BY DEF Elapse, Time, NoTime
<1>3. ASSUME NEW m \in Models
      PROVE  /\ states[m] \in ModelState
             /\ states[m].known = auth.states[m].known
             /\ states[m].unavailable = auth.states[m].unavailable
             /\ states[m].failed = auth.states[m].failed
             /\ states[m].exceeded = auth.states[m].exceeded
             /\ states[m].level = auth.states[m].level
             /\ states[m].next = Elapse(auth.states[m].next)
             /\ states[m].recover = Elapse(auth.states[m].recover)
             /\ auth.states[m].next \in Time /\ auth.states[m].recover \in Time
  <2> DEFINE state == auth.states[m]
  <2>1. state \in ModelState
    BY <1>1
  <2>2. states[m] = [state EXCEPT !.next = Elapse(state.next), !.recover = Elapse(state.recover)]
    BY DEF ElapseState
  <2> HIDE DEF state, states
  <2>3. state.next \in Time /\ state.recover \in Time
    BY <2>1 DEF ModelState
  <2>4. Elapse(state.next) \in Time /\ Elapse(state.recover) \in Time
    BY <1>2, <2>3
  <2>5. /\ states[m] \in ModelState
        /\ states[m].known = state.known
        /\ states[m].unavailable = state.unavailable
        /\ states[m].failed = state.failed
        /\ states[m].exceeded = state.exceeded
        /\ states[m].level = state.level
        /\ states[m].next = Elapse(state.next)
        /\ states[m].recover = Elapse(state.recover)
    BY <2>1, <2>2, <2>4 DEF ModelState
  <2>6. QED
    BY <2>3, <2>5 DEF state
<1>4. states \in [Models -> ModelState]
  <2> HIDE DEF states
  <2>1. states = [m \in Models |-> states[m]]
    BY DEF states
  <2>2. QED
    BY <1>3, <2>1
<1>5. new = [auth EXCEPT !.next = Elapse(auth.next), !.recover = Elapse(auth.recover),
                         !.refreshAfter = Elapse(auth.refreshAfter), !.states = states]
  BY DEF ElapseAuth
<1>6. /\ new \in Auth /\ new.states = states
      /\ new.unavailable = auth.unavailable /\ new.exceeded = auth.exceeded
      /\ new.next = Elapse(auth.next) /\ new.recover = Elapse(auth.recover)
      /\ new.level = auth.level /\ new.status = auth.status
  <2> HIDE DEF states, new
  <2>1. auth.next \in Time /\ auth.recover \in Time /\ auth.refreshAfter \in Time
    BY <1>1 DEF Auth
  <2>2. Elapse(auth.next) \in Time /\ Elapse(auth.recover) \in Time /\ Elapse(auth.refreshAfter) \in Time
    BY <1>2, <2>1
  <2>3. QED
    BY <1>1, <1>4, <1>5, <2>2 DEF Auth
<1>7. QED
  <2> HIDE DEF states
  <2>1. QED
    BY <1>3, <1>6

LEMMA ElapseTimes ==
  \A t \in Time : Elapse(t) \in Time /\ (Elapse(t) = NoTime <=> t = NoTime) /\ Elapse(t) <= t
  BY DEF Elapse, Time, NoTime

LEMMA ElapseBounded ==
  ASSUME NEW auth, AuthBounded(auth)
  PROVE  AuthBounded(ElapseAuth(auth))
<1> DEFINE new == ElapseAuth(auth)
<1>1. auth \in Auth /\ \A m \in Models : StateBounded(auth.states[m])
  BY DEF AuthBounded
<1>2. new \in Auth
  BY <1>1, ElapseFields
<1>3. ASSUME NEW m \in Models PROVE StateBounded(new.states[m])
  <2> DEFINE old == auth.states[m]
             now == new.states[m]
  <2>1. now.level = old.level /\ now.recover = Elapse(old.recover) /\ old.recover \in Time
    BY <1>1, ElapseFields
  <2>2. now.recover \in Time /\ now.recover <= old.recover
    BY <2>1, ElapseTimes
  <2>3. StateBounded(old)
    BY <1>1
  <2>4. RetryAfters \subseteq Nat /\ QuotaBackoffMax \in Nat
    BY ManagerAssumption
  <2> HIDE DEF old, now
  <2>5. StateBounded(now)
    BY <2>1, <2>2, <2>3, <2>4 DEF StateBounded, Time, NoTime
  <2>6. QED
    BY <2>5 DEF now
<1>4. QED
  BY <1>2, <1>3 DEF AuthBounded

\* A tick of the clock keeps what has to hold of an auth: the earliest retry
\* of its models ticks as its own does.
LEMMA ElapseFacts ==
  ASSUME NEW auth, AuthOK(auth)
  PROVE  AuthOK(ElapseAuth(auth))
<1> DEFINE new == ElapseAuth(auth)
           states == new.states
           known == KnownModels(auth)
           over == {m \in known : auth.states[m].exceeded}
<1>1. auth \in Auth /\ AuthBounded(auth)
  BY DEF AuthOK, AuthBounded
<1>3. ASSUME NEW m \in Models
      PROVE  /\ states[m].known = auth.states[m].known
             /\ states[m].unavailable = auth.states[m].unavailable
             /\ states[m].failed = auth.states[m].failed
             /\ states[m].exceeded = auth.states[m].exceeded
             /\ states[m].level = auth.states[m].level
             /\ states[m].next = Elapse(auth.states[m].next)
             /\ states[m].recover = Elapse(auth.states[m].recover)
             /\ auth.states[m].next \in Time /\ auth.states[m].recover \in Time
  BY <1>1, ElapseFields
<1>6. /\ new \in Auth /\ new.states = states
      /\ new.unavailable = auth.unavailable /\ new.exceeded = auth.exceeded
      /\ new.next = Elapse(auth.next) /\ new.recover = Elapse(auth.recover)
      /\ new.level = auth.level /\ new.status = auth.status
  BY <1>1, ElapseFields
<1> HIDE DEF states, new
<1>7. KnownModels(new) = known
  BY <1>3, <1>6 DEF KnownModels
<1>8. known \subseteq Models /\ IsFiniteSet(known) /\ over \subseteq known /\ IsFiniteSet(over)
  BY KnownFinite, FS_Subset DEF KnownModels
<1>9. Earliest({states[m].next : m \in known}) = Elapse(Earliest({auth.states[m].next : m \in known}))
  <2> DEFINE f == [m \in known |-> auth.states[m].next]
  <2>1. \A m \in known : f[m] = auth.states[m].next /\ f[m] \in Time
    BY <1>3, <1>8
  <2>2. {states[m].next : m \in known} = {Elapse(f[m]) : m \in known}
    <3>1. \A m \in known : states[m].next = Elapse(f[m])
      BY <1>3, <1>8, <2>1
    <3> HIDE DEF f, known
    <3>2. QED
      BY <3>1
  <2>3. {auth.states[m].next : m \in known} = {f[m] : m \in known}
    BY <2>1
  <2> HIDE DEF f, known
  <2>4. IsFiniteSet(known) /\ \A m \in known : f[m] \in Time
    BY <1>8, <2>1
  <2>5. Earliest({Elapse(f[m]) : m \in known}) = Elapse(Earliest({f[m] : m \in known}))
    BY <2>4, EarliestElapses
  <2>6. QED
    BY <2>2, <2>3, <2>5
<1>10. Earliest({states[m].recover : m \in over}) = Elapse(Earliest({auth.states[m].recover : m \in over}))
  <2> DEFINE f == [m \in over |-> auth.states[m].recover]
  <2>1. \A m \in over : f[m] = auth.states[m].recover /\ f[m] \in Time
    BY <1>3, <1>8
  <2>2. {states[m].recover : m \in over} = {Elapse(f[m]) : m \in over}
    <3>1. \A m \in over : states[m].recover = Elapse(f[m])
      BY <1>3, <1>8, <2>1
    <3> HIDE DEF f, over
    <3>2. QED
      BY <3>1
  <2>3. {auth.states[m].recover : m \in over} = {f[m] : m \in over}
    BY <2>1
  <2> HIDE DEF f, over
  <2>4. IsFiniteSet(over) /\ \A m \in over : f[m] \in Time
    BY <1>8, <2>1
  <2>5. Earliest({Elapse(f[m]) : m \in over}) = Elapse(Earliest({f[m] : m \in over}))
    BY <2>4, EarliestElapses
  <2>6. QED
    BY <2>2, <2>3, <2>5
<1>11. AggregateExact(new)
  <2>1. {m \in KnownModels(new) : new.states[m].exceeded} = over
    BY <1>3, <1>6, <1>7, <1>8
  <2>2. /\ auth.unavailable <=> known # {} /\ \A m \in known : auth.states[m].unavailable
        /\ auth.unavailable => auth.next = Earliest({auth.states[m].next : m \in known})
        /\ auth.exceeded <=> over # {}
        /\ auth.recover = Earliest({auth.states[m].recover : m \in over})
        /\ \A m \in over : auth.states[m].level <= auth.level
    BY DEF AuthOK, AggregateExact
  <2> HIDE DEF known, over
  <2>3. /\ new.unavailable <=> known # {} /\ \A m \in known : states[m].unavailable
        /\ new.unavailable => new.next = Earliest({states[m].next : m \in known})
    BY <1>3, <1>6, <1>8, <1>9, <2>2
  <2>4. /\ new.exceeded <=> over # {}
        /\ new.recover = Earliest({states[m].recover : m \in over})
        /\ \A m \in over : states[m].level <= new.level
    BY <1>3, <1>6, <1>8, <1>10, <2>2
  <2>5. QED
    BY <1>6, <1>7, <2>1, <2>3, <2>4 DEF AggregateExact
<1>12. \A m \in Models : StateBounded(new.states[m])
  BY <1>1, ElapseBounded DEF AuthBounded, new
<1>13. StatusExact(new)
  <2>1. HasModelError(new) <=> HasModelError(auth)
    BY <1>3, <1>6, <1>7, <1>8 DEF HasModelError
  <2>2. QED
    BY <1>6, <2>1 DEF AuthOK, StatusExact
<1>14. QED
  BY <1>6, <1>11, <1>12, <1>13 DEF AuthOK, new

----------------------------------------------------------------------------
(* The requests and the auths of the manager.                              *)

\* The locals of a request; an execution has an auth, and one being recorded
\* an outcome.
RequestOK(q) ==
  /\ q \in Request
  /\ q.pc \in {"mark", "quota", "suspend"} => q.outcome \in Outcome
  /\ q.pc \in {"exec", "streaming", "mark", "quota", "suspend"} => q.auth \in Auths

RequestsOK == reqs \in [Requests -> Request] /\ \A r \in Requests : RequestOK(reqs[r])
AuthsOK == auths \in [Auths -> Auth] /\ \A a \in Auths : AuthOK(auths[a])
ManagerInv == RequestsOK /\ AuthsOK

LEMMA WaitIsTime ==
  ASSUME auths \in [Auths -> Auth], NEW r \in Requests
  PROVE  ClosestCooldownWait(r) \in Time
<1> DEFINE f == [a \in Awaitable(r) |-> BlockedUntil(auths[a], WantModel[r])]
<1>1. WantModel[r] \in Models
  BY ManagerAssumption
<1>2. \A a \in Awaitable(r) : BlockedUntil(auths[a], WantModel[r]) \in Time
  <2>1. SUFFICES ASSUME NEW a \in Awaitable(r)
                 PROVE  BlockedUntil(auths[a], WantModel[r]) \in Time
    OBVIOUS
  <2>2. auths[a].states[WantModel[r]] \in ModelState
    BY <1>1 DEF Awaitable, Auth
  <2>3. QED
    BY <2>2 DEF BlockedUntil, ModelState
<1>3. \A a \in Awaitable(r) : f[a] = BlockedUntil(auths[a], WantModel[r]) /\ f[a] \in Time
  BY <1>2
<1>4. IsFiniteSet(Awaitable(r))
  BY FS_Subset, RegistryAssumption DEF Awaitable, Auths
<1> HIDE DEF f
<1>5. Earliest({f[a] : a \in Awaitable(r)}) \in Time
  BY <1>3, <1>4, EarliestFacts
<1>6. {f[a] : a \in Awaitable(r)} = {BlockedUntil(auths[a], WantModel[r]) : a \in Awaitable(r)}
  BY <1>3
<1>7. QED
  BY <1>5, <1>6 DEF ClosestCooldownWait

LEMMA NewRequestOK == RequestOK(NewRequest) /\ \A how \in Ended : RequestOK(EndedRequest(how))
<1>1. NewRequest \in Request /\ NewRequest.pc = "pick"
  BY DEF NewRequest, Request, Time
<1>2. \A how \in Ended : EndedRequest(how) \in Request /\ EndedRequest(how).pc = how
  BY <1>1 DEF EndedRequest, Request
<1>3. QED
  BY <1>1, <1>2 DEF RequestOK, Ended

\* One request changes, to locals of the right kind.
LEMMA OneRequest ==
  ASSUME RequestsOK, NEW r \in Requests, NEW q, RequestOK(q), reqs' = [reqs EXCEPT ![r] = q]
  PROVE  RequestsOK'
BY DEF RequestsOK, RequestOK

\* After a result the request is over or picks again.
LEMMA AfterResultFacts ==
  ASSUME RequestsOK, NEW r \in Requests, reqs[r].outcome \in Outcome, AfterResult(r)
  PROVE  RequestsOK'
<1>1. CASE reqs[r].open \/ Succeeded(r)
  <2>1. reqs' = [reqs EXCEPT ![r] = EndedRequest("done")]
    BY <1>1 DEF AfterResult
  <2>2. RequestOK(EndedRequest("done"))
    BY NewRequestOK DEF Ended
  <2>3. QED
    BY <2>1, <2>2, OneRequest
<1>2. CASE ~(reqs[r].open \/ Succeeded(r))
  <2> DEFINE q == [reqs[r] EXCEPT !.pc = "pick", !.last = reqs[r].outcome.kind,
                                  !.outcome = NoOutcome]
  <2>1. reqs' = [reqs EXCEPT ![r] = q]
    BY <1>2 DEF AfterResult
  <2>2. reqs[r].outcome.kind \in Failures
    BY <1>2 DEF Succeeded, Outcome
  <2>3. reqs[r] \in Request
    BY DEF RequestsOK
  <2>4. q \in Request /\ q.pc = "pick"
    BY <2>2, <2>3 DEF Request
  <2> HIDE DEF q
  <2>5. QED
    BY <2>1, <2>4, OneRequest DEF RequestOK
<1>3. QED
  BY <1>1, <1>2

\* Every step of a request keeps its locals as they have to be.
LEMMA RequestStepKeepsRequests ==
  ASSUME RequestsOK, auths \in [Auths -> Auth], NEW r \in Requests, RequestStep(r) \/ Cancelled(r)
  PROVE  RequestsOK'
<1> DEFINE given == reqs[r]
<1>1. RequestsOK /\ given \in Request /\ given = reqs[r]
      /\ (given.pc \in {"mark", "quota", "suspend"} => given.outcome \in Outcome)
      /\ (given.pc \in {"exec", "streaming", "mark", "quota", "suspend"} => given.auth \in Auths)
  BY DEF RequestsOK, RequestOK
<1> HIDE DEF given
<1>2. CASE PickNext(r)
  <2>1. PICK a \in Selectable(r) :
          reqs' = [reqs EXCEPT ![r].pc = "exec", ![r].auth = a, ![r].tried = @ \cup {a}]
    BY <1>2 DEF PickNext
  <2>2. a \in Auths
    BY DEF Selectable, BestOf, Usable, Candidates
  <2> DEFINE q == [given EXCEPT !.pc = "exec", !.auth = a, !.tried = given.tried \cup {a}]
  <2>3. reqs' = [reqs EXCEPT ![r] = q]
    BY <1>1, <2>1 DEF RequestsOK
  <2>4. RequestOK(q)
    BY <1>1, <2>2 DEF RequestOK, Request
  <2>5. QED
    BY <1>1, <2>3, <2>4, OneRequest
<1>3. CASE PickFails(r)
  <2>1. PICK last \in Failures \cup PickErrors :
          reqs' = [reqs EXCEPT ![r].pc = "decide", ![r].last = last]
    <3>1. PickError(r) \in PickErrors /\ given.last \in {"none"} \cup Failures \cup PickErrors
      BY <1>1 DEF PickError, PickErrors, Request
    <3>2. reqs' = [reqs EXCEPT ![r].pc = "decide",
                               ![r].last = IF given.last = "none" THEN PickError(r) ELSE given.last]
      BY <1>1, <1>3 DEF PickFails
    <3>3. QED
      BY <3>1, <3>2
  <2> DEFINE q == [given EXCEPT !.pc = "decide", !.last = last]
  <2>2. reqs' = [reqs EXCEPT ![r] = q]
    BY <1>1, <2>1 DEF RequestsOK
  <2>3. RequestOK(q)
    BY <1>1 DEF RequestOK, Request
  <2>4. QED
    BY <1>1, <2>2, <2>3, OneRequest
<1>4. CASE ExecuteEnds(r) \/ StreamEnds(r)
  <2>1. given.auth \in Auths
    BY <1>1, <1>4 DEF ExecuteEnds, StreamEnds
  <2>2. PICK o \in Outcome : reqs' = [reqs EXCEPT ![r].pc = "mark", ![r].outcome = o]
    BY <1>4 DEF ExecuteEnds, StreamEnds, Outcomes
  <2> DEFINE q == [given EXCEPT !.pc = "mark", !.outcome = o]
  <2>3. reqs' = [reqs EXCEPT ![r] = q]
    BY <1>1, <2>2 DEF RequestsOK
  <2>4. RequestOK(q)
    BY <1>1, <2>1 DEF RequestOK, Request
  <2>5. QED
    BY <1>1, <2>3, <2>4, OneRequest
<1>5. CASE StreamOpens(r)
  <2> DEFINE q == [given EXCEPT !.pc = "streaming", !.open = TRUE]
  <2>1. reqs' = [reqs EXCEPT ![r] = q] /\ given.auth \in Auths
    BY <1>1, <1>5 DEF RequestsOK, StreamOpens
  <2>2. RequestOK(q)
    BY <1>1, <2>1 DEF RequestOK, Request
  <2>3. QED
    BY <1>1, <2>1, <2>2, OneRequest
<1>6. CASE MarkResult(r)
  <2>1. reqs[r].outcome \in Outcome /\ given.auth \in Auths
    BY <1>1, <1>6 DEF MarkResult
  <2>2. CASE AfterResult(r)
    BY <1>1, <2>1, <2>2, AfterResultFacts
  <2>3. CASE reqs' = [reqs EXCEPT ![r].pc = "quota"]
    <3> DEFINE q == [given EXCEPT !.pc = "quota"]
    <3>1. reqs' = [reqs EXCEPT ![r] = q]
      BY <1>1, <2>3 DEF RequestsOK
    <3>2. RequestOK(q)
      BY <1>1, <2>1 DEF RequestOK, Request
    <3>3. QED
      BY <1>1, <3>1, <3>2, OneRequest
  <2>4. QED
    BY <1>6, <2>2, <2>3 DEF MarkResult
<1>7. CASE MarkQuota(r)
  <2> DEFINE q == [given EXCEPT !.pc = "suspend"]
  <2>1. reqs' = [reqs EXCEPT ![r] = q] /\ given.outcome \in Outcome /\ given.auth \in Auths
    BY <1>1, <1>7 DEF RequestsOK, MarkQuota
  <2>2. RequestOK(q)
    BY <1>1, <2>1 DEF RequestOK, Request
  <2>3. QED
    BY <1>1, <2>1, <2>2, OneRequest
<1>8. CASE MarkSuspension(r)
  BY <1>1, <1>8, AfterResultFacts DEF MarkSuspension
<1>9. CASE Retry(r)
  <2> DEFINE wait == ClosestCooldownWait(r)
             q == [given EXCEPT !.pc = "wait", !.wait = wait]
  <2>1. wait \in Time
    BY WaitIsTime
  <2>2. reqs' = [reqs EXCEPT ![r] = q]
    BY <1>1, <1>9 DEF RequestsOK, Retry
  <2> HIDE DEF wait
  <2>3. RequestOK(q)
    BY <1>1, <2>1 DEF RequestOK, Request
  <2>4. QED
    BY <1>1, <2>2, <2>3, OneRequest
<1>10. CASE NextAttempt(r)
  <2> DEFINE next == given.attempt + 1
             q == [given EXCEPT !.pc = "pick", !.wait = NoTime, !.tried = {},
                                !.last = "none", !.attempt = next]
  <2>1. reqs' = [reqs EXCEPT ![r] = q]
    BY <1>1, <1>10 DEF RequestsOK, NextAttempt
  <2>2. RequestOK(q)
    <3>1. next \in Nat /\ NoTime \in Time
      BY <1>1 DEF Request, Time
    <3> HIDE DEF next
    <3>2. QED
      BY <1>1, <3>1 DEF RequestOK, Request
  <2>3. QED
    BY <1>1, <2>1, <2>2, OneRequest
<1>11. CASE GiveUp(r) \/ Cancelled(r)
  <2>1. PICK how \in Ended : reqs' = [reqs EXCEPT ![r] = EndedRequest(how)]
    BY <1>11 DEF GiveUp, Cancelled, Ended
  <2>2. QED
    BY <1>1, <2>1, NewRequestOK, OneRequest
<1>12. QED
  BY <1>2, <1>3, <1>4, <1>5, <1>6, <1>7, <1>8, <1>9, <1>10, <1>11 DEF RequestStep


\* A result is recorded in the auth it is about, and no step of a request
\* changes an auth in another way.
LEMMA RequestStepKeepsAuths ==
  ASSUME ManagerInv, NEW r \in Requests, RequestStep(r) \/ Cancelled(r)
  PROVE  /\ AuthsOK'
         /\ \A a \in Auths, m \in Models :
              CoolingFor(auths[a], m) /\ ~CoolingFor(auths'[a], m) =>
                MarkResult(r) /\ reqs[r].auth = a /\ WantModel[r] = m
<1>1. CASE auths' = auths
  BY <1>1 DEF ManagerInv, AuthsOK
<1>2. CASE MarkResult(r) /\ auths' # auths
  <2> DEFINE b == reqs[r].auth
             new == RecordResult(auths[b], WantModel[r], reqs[r].outcome, b \in NoCooling)
  <2>1. auths' = [auths EXCEPT ![b] = new] /\ b \in Auths
    BY <1>2 DEF MarkResult, ManagerInv, AuthsOK
  <2>2. /\ AuthOK(auths[b]) /\ WantModel[r] \in Models /\ reqs[r].outcome \in Outcome
        /\ (b \in NoCooling) \in BOOLEAN
    BY <1>2, <2>1, ManagerAssumption
    DEF ManagerInv, AuthsOK, RequestsOK, RequestOK, MarkResult
  <2>3. /\ AuthOK(new)
        /\ \A k \in Models \ {WantModel[r]} : CoolingFor(auths[b], k) => CoolingFor(new, k)
    BY <2>2, RecordFacts
  <2> HIDE DEF new
  <2>4. /\ auths' \in [Auths -> Auth]
        /\ \A a \in Auths : AuthOK(auths'[a])
        /\ auths'[b] = new
        /\ \A a \in Auths \ {b} : auths'[a] = auths[a]
    BY <2>1, <2>3 DEF ManagerInv, AuthsOK, AuthOK
  <2>5. QED
    BY <1>2, <2>3, <2>4 DEF AuthsOK
<1>3. auths' = auths \/ MarkResult(r)
  BY DEF RequestStep, Cancelled, PickNext, PickFails, ExecuteEnds, StreamOpens, StreamEnds,
         MarkQuota, MarkSuspension, Retry, GiveUp, NextAttempt
<1>4. QED
  BY <1>1, <1>2, <1>3

LEMMA TickKeepsRequests == ASSUME RequestsOK, Tick PROVE RequestsOK'
<1>1. \A t \in Time : Elapse(t) \in Time
  BY ElapseTimes
<1>2. ASSUME NEW r \in Requests PROVE RequestOK([reqs[r] EXCEPT !.wait = Elapse(@)])
  <2> DEFINE given == reqs[r]
  <2>1. RequestOK(given)
    BY DEF RequestsOK
  <2> HIDE DEF given
  <2>2. Elapse(given.wait) \in Time
    BY <1>1, <2>1 DEF RequestOK, Request
  <2>3. RequestOK([given EXCEPT !.wait = Elapse(given.wait)])
    BY <2>1, <2>2 DEF RequestOK, Request
  <2>4. QED
    BY <2>3 DEF given
<1>3. \A r \in Requests : reqs'[r] = [reqs[r] EXCEPT !.wait = Elapse(@)]
  BY DEF Tick
<1>4. reqs' = [r \in Requests |-> reqs'[r]]
  BY DEF Tick
<1>5. \A r \in Requests : RequestOK(reqs'[r])
  BY <1>2, <1>3
<1>6. QED
  BY <1>4, <1>5 DEF RequestsOK, RequestOK

LEMMA TickKeepsManagerInv == ASSUME ManagerInv, Tick PROVE ManagerInv'
<1>1. AuthsOK'
  BY ElapseFacts DEF ManagerInv, AuthsOK, AuthOK, Tick
<1>2. RequestsOK'
  BY TickKeepsRequests DEF ManagerInv
<1>3. QED
  BY <1>1, <1>2 DEF ManagerInv

LEMMA ManagerInitInv == ManagerInit => ManagerInv
<1> SUFFICES ASSUME ManagerInit PROVE ManagerInv
  OBVIOUS
<1>1. RequestsOK
  BY NewRequestOK DEF ManagerInit, RequestsOK, RequestOK
<1>2. \A a \in Auths : auths[a] \in {FreshAuth(FALSE), NoAuth}
  BY DEF ManagerInit
<1>3. AuthsOK
  BY <1>2, NewAuthFacts DEF ManagerInit, AuthsOK, AuthOK
<1>4. QED
  BY <1>1, <1>3 DEF ManagerInv

LEMMA ManagerStepInv == ManagerInv /\ [ManagerNext]_managerVars => ManagerInv'
<1> SUFFICES ASSUME ManagerInv, [ManagerNext]_managerVars PROVE ManagerInv'
  OBVIOUS
<1>1. CASE UNCHANGED managerVars
  BY <1>1 DEF managerVars, ManagerInv, RequestsOK, AuthsOK
<1>2. CASE Tick
  BY <1>2, TickKeepsManagerInv
<1>3. ASSUME NEW r \in Requests, RequestStep(r) \/ Cancelled(r) PROVE ManagerInv'
  BY <1>3, RequestStepKeepsRequests, RequestStepKeepsAuths DEF ManagerInv, AuthsOK
<1>4. QED
  BY <1>1, <1>2, <1>3 DEF ManagerNext

LEMMA ManagerHoldsInv == ManagerSpec => []ManagerInv
  BY ManagerInitInv, ManagerStepInv, PTL DEF ManagerSpec

----------------------------------------------------------------------------
(* The theorems.                                                           *)

\* updateAggregatedAvailability leaves the availability, retry time, quota and
\* backoff of every auth in agreement with its models, whatever results arrive
\* in whatever order.
THEOREM ResultsAggregate == ManagerSpec => []AggregatesExact
<1>1. ManagerInv => AggregatesExact
  BY DEF ManagerInv, AuthsOK, AuthOK, AggregatesExact
<1>2. QED
  BY <1>1, ManagerHoldsInv, PTL

\* nextQuotaCooldown: no number of concurrent 429 answers pushes the backoff
\* level past the one that reaches the maximum, and no quota cooldown is
\* longer than the maximum or than what an upstream asked for.
THEOREM ResultsBoundBackoff == ManagerSpec => []BackoffsBounded
<1>1. ManagerInv => BackoffsBounded
  BY BoundedStates DEF ManagerInv, AuthsOK, AuthOK, BackoffsBounded
<1>2. QED
  BY <1>1, ManagerHoldsInv, PTL

\* MarkResult keeps an auth in error exactly while one of its models is.
THEOREM ResultsTellErrors == ManagerSpec => []StatusTellsErrors
<1>1. ManagerInv => StatusTellsErrors
  BY DEF ManagerInv, AuthsOK, AuthOK, StatusExact, StatusTellsErrors
<1>2. QED
  BY <1>1, ManagerHoldsInv, PTL

\* A cooldown ends with the clock or with a later result of MarkResult for the
\* same auth and model; no result of another, no pick, no retry and no
\* aggregation ends it.
THEOREM CooldownsEndForAReason == ManagerSpec => CooldownEndsForAReason
<1> DEFINE A == \A a \in Auths, m \in Models :
                  CoolingFor(auths[a], m) /\ ~CoolingFor(auths[a], m)' =>
                    \/ Tick
                    \/ \E r \in Requests : MarkResult(r) /\ reqs[r].auth = a /\ WantModel[r] = m
<1>1. ManagerInv /\ [ManagerNext]_managerVars => [A]_managerVars
  <2> SUFFICES ASSUME ManagerInv, ManagerNext PROVE A
    OBVIOUS
  <2>1. CASE Tick
    BY <2>1
  <2>2. ASSUME NEW r \in Requests, RequestStep(r) \/ Cancelled(r) PROVE A
    <3>1. \A a \in Auths, m \in Models :
            CoolingFor(auths[a], m) /\ ~CoolingFor(auths'[a], m) =>
              MarkResult(r) /\ reqs[r].auth = a /\ WantModel[r] = m
      BY <2>2, RequestStepKeepsAuths
    <3>2. QED
      BY <3>1 DEF CoolingFor
  <2>3. QED
    BY <2>1, <2>2 DEF ManagerNext
<1>2. QED
  BY <1>1, ManagerHoldsInv, PTL DEF ManagerSpec, CooldownEndsForAReason
=============================================================================
