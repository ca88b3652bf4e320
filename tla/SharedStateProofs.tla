-------------------------- MODULE SharedStateProofs -------------------------
(***************************************************************************)
(* State that goroutines share: the signature cache, the sessions and      *)
(* callback forwarders of logins, the usage queue, and what is kept of a   *)
(* credential.                                                             *)
(***************************************************************************)
EXTENDS SignatureCache, OAuthLogins, UsageQueue, TokenKeeping, SequenceTheorems, TLAPS
----------------------------------------------------------------------------
(* The cache.  A cached signature is found for as long as it lives, for    *)
(* any texts, any number of goroutines that store and fetch, any TTL and   *)
(* any number of buckets.                                                  *)
(*                                                                         *)
(* What goroutines hold is a bucket looked up earlier, so the argument is  *)
(* about buckets no longer in the table: as long as none was deleted with  *)
(* something in it or about to be put in it, they hold nothing that lives, *)
(* and whoever is about to store does so in the one in the table.          *)

\* The bucket in the table has what is due, and the others nothing.
OthersEmpty ==
  \A b \in Buckets, t \in Texts : entries[b][t] = IF b = bucket THEN due[t] ELSE Stale

NothingDue == bucket = NoBucket => \A t \in Texts : due[t] = Stale
StoringHere == \A s \in Storers : storer[s].pc = "store" => storer[s].into = bucket /\ bucket \in Buckets

CacheInv ==
  /\ CacheTypeOK
  /\ bucket <= made
  /\ purger.pc = "delete" => bucket \in Buckets
  /\ \A f \in Fetchers : fetcher[f].pc = "look" => fetcher[f].in \in Buckets
  /\ \A s \in Storers : storer[s].pc = "store" => storer[s].into \in Buckets
  /\ ~undercut => OthersEmpty /\ NothingDue /\ StoringHere
----------------------------------------------------------------------------
LEMMA InitCache == CacheInit => CacheInv
<1> SUFFICES ASSUME CacheInit PROVE CacheInv
  OBVIOUS
<1> USE CacheAssumption
<1>1. Stale \in Ages /\ NoBucket \in 0..BucketLimit /\ NoBucket \notin Buckets
  BY DEF Stale, Ages, NoBucket, Buckets
<1>2. \A s \in Storers : storer[s].pc = "idle"
  BY DEF CacheInit
<1>3. \A f \in Fetchers : fetcher[f].pc = "idle"
  BY DEF CacheInit
<1>4. storer \in [Storers -> [pc : {"idle", "make", "store"}, text : Texts, into : 0..BucketLimit]]
  BY <1>1 DEF CacheInit
<1>5. fetcher \in [Fetchers -> [pc : {"idle", "look"}, text : Texts, in : 0..BucketLimit]]
  BY <1>1 DEF CacheInit
<1>6. /\ purger \in [pc : {"idle", "delete"}] /\ purger.pc = "idle"
      /\ undercut \in BOOLEAN /\ bucket = NoBucket /\ made = 0
  BY DEF CacheInit
<1>7. /\ \A t \in Texts : due[t] = Stale
      /\ \A b \in Buckets, t \in Texts : entries[b][t] = Stale
      /\ due \in [Texts -> Ages] /\ entries \in [Buckets -> [Texts -> Ages]]
  BY <1>1 DEF CacheInit, Bucket
<1>8. CacheTypeOK
  BY <1>1, <1>4, <1>5, <1>6, <1>7 DEF CacheTypeOK, NoBucket
<1>9. OthersEmpty /\ NothingDue /\ StoringHere
  BY <1>1, <1>2, <1>6, <1>7 DEF OthersEmpty, NothingDue, StoringHere
<1> QED
  BY <1>2, <1>3, <1>6, <1>8, <1>9 DEF CacheInv, NoBucket

LEMMA LookUpStep ==
  ASSUME CacheInv, NEW s \in Storers, LookUpToStore(s)
  PROVE  CacheInv'
<1> USE CacheAssumption
<1> PICK t \in Texts :
      storer' = [storer EXCEPT ![s] = [pc |-> IF bucket = NoBucket THEN "make" ELSE "store",
                                       text |-> t, into |-> bucket]]
  BY DEF LookUpToStore
<1>1. bucket \in 0..BucketLimit /\ (bucket # NoBucket => bucket \in Buckets)
  BY DEF CacheInv, CacheTypeOK, Buckets, NoBucket
<1>2. CacheTypeOK'
  BY <1>1 DEF CacheInv, CacheTypeOK, LookUpToStore
<1>3. \A q \in Storers : storer'[q].pc = "store" =>
        \/ storer'[q] = storer[q]
        \/ storer'[q].into = bucket /\ bucket \in Buckets
  BY <1>1 DEF CacheInv, CacheTypeOK
<1> QED
  BY <1>2, <1>3 DEF CacheInv, LookUpToStore, OthersEmpty, NothingDue, StoringHere

LEMMA LoadOrStoreStep ==
  ASSUME CacheInv, NEW s \in Storers, LoadOrStoreBucket(s)
  PROVE  CacheInv'
<1> USE CacheAssumption
<1>1. /\ bucket' \in Buckets /\ made' \in 0..BucketLimit /\ bucket' <= made'
      /\ bucket # NoBucket => bucket' = bucket
      /\ bucket = NoBucket => bucket' = made + 1
      /\ made \in 0..BucketLimit
  BY DEF CacheInv, CacheTypeOK, LoadOrStoreBucket, Buckets, NoBucket
<1>2. storer' = [storer EXCEPT ![s].pc = "store", ![s].into = bucket']
  BY DEF LoadOrStoreBucket
<1>3. CacheTypeOK'
  <2>1. bucket' \in 0..BucketLimit
    BY <1>1 DEF Buckets
  <2>2. storer' \in [Storers -> [pc : {"idle", "make", "store"}, text : Texts, into : 0..BucketLimit]]
    <3>1. storer \in [Storers -> [pc : {"idle", "make", "store"}, text : Texts, into : 0..BucketLimit]]
      BY DEF CacheInv, CacheTypeOK
    <3> QED
      BY <1>2, <2>1, <3>1
  <2> QED
    BY <1>1, <2>2 DEF CacheInv, CacheTypeOK, LoadOrStoreBucket
<1>4. \A q \in Storers : storer'[q].pc = "store" =>
        \/ storer'[q] = storer[q] /\ q # s
        \/ storer'[q].into = bucket'
  BY <1>2 DEF CacheInv, CacheTypeOK
<1>5. ASSUME ~undercut PROVE OthersEmpty' /\ NothingDue' /\ StoringHere'
  <2>1. OthersEmpty /\ NothingDue /\ StoringHere
    BY <1>5 DEF CacheInv
  <2>2. UNCHANGED <<entries, due>>
    BY DEF LoadOrStoreBucket
  <2>3. bucket = NoBucket => \A b \in Buckets, t \in Texts : entries[b][t] = Stale /\ due[t] = Stale
    BY <2>1 DEF OthersEmpty, NothingDue, Buckets, NoBucket
  <2>4. OthersEmpty'
    BY <1>1, <2>1, <2>2, <2>3 DEF OthersEmpty
  <2>5. NothingDue'
    BY <1>1 DEF NothingDue, Buckets, NoBucket
  <2>6. StoringHere'
    BY <1>1, <1>4, <2>1 DEF StoringHere, Buckets, NoBucket
  <2> QED
    BY <2>4, <2>5, <2>6
<1> QED
  BY <1>1, <1>3, <1>4, <1>5 DEF CacheInv, LoadOrStoreBucket

LEMMA StoreStep ==
  ASSUME CacheInv, NEW s \in Storers, StoreSignature(s)
  PROVE  CacheInv'
<1> USE CacheAssumption
<1> DEFINE b == storer[s].into
           x == storer[s].text
<1>1. b \in Buckets /\ x \in Texts /\ 0 \in Ages
  BY DEF CacheInv, CacheTypeOK, StoreSignature, Ages, Stale
<1>2. /\ entries' = [entries EXCEPT ![b][x] = 0] /\ due' = [due EXCEPT ![x] = 0]
      /\ storer' = [storer EXCEPT ![s].pc = "idle", ![s].into = NoBucket]
      /\ UNCHANGED <<bucket, made, fetcher, purger, undercut>>
  BY DEF StoreSignature
<1> HIDE DEF b, x
<1>3. CacheTypeOK'
  <2>1. storer' \in [Storers -> [pc : {"idle", "make", "store"}, text : Texts, into : 0..BucketLimit]]
    <3>1. /\ storer \in [Storers -> [pc : {"idle", "make", "store"}, text : Texts, into : 0..BucketLimit]]
          /\ NoBucket \in 0..BucketLimit
      BY DEF CacheInv, CacheTypeOK, NoBucket
    <3> QED
      BY <1>2, <3>1
  <2>2. entries' \in [Buckets -> [Texts -> Ages]] /\ due' \in [Texts -> Ages]
    BY <1>1, <1>2 DEF CacheInv, CacheTypeOK
  <2> QED
    BY <1>2, <2>1, <2>2 DEF CacheInv, CacheTypeOK
<1>4. \A q \in Storers : storer'[q].pc = "store" => storer'[q] = storer[q] /\ storer[q].pc = "store"
  BY <1>2 DEF CacheInv, CacheTypeOK
<1>5. ASSUME ~undercut PROVE OthersEmpty' /\ NothingDue' /\ StoringHere'
  <2>1. OthersEmpty /\ NothingDue /\ StoringHere /\ b = bucket /\ bucket # NoBucket
    BY <1>1, <1>5 DEF CacheInv, StoringHere, StoreSignature, b, Buckets, NoBucket
  <2>2. OthersEmpty'
    BY <1>1, <1>2, <2>1 DEF OthersEmpty, CacheInv, CacheTypeOK
  <2> QED
    BY <1>2, <1>4, <2>1, <2>2 DEF NothingDue, StoringHere
<1> QED
  BY <1>2, <1>3, <1>4, <1>5 DEF CacheInv

LEMMA FetchStep ==
  ASSUME CacheInv, NEW f \in Fetchers, FetchSignature(f)
  PROVE  CacheInv'
<1> USE CacheAssumption
<1> DEFINE b == fetcher[f].in
           x == fetcher[f].text
           found == entries[b][x] # Stale
<1>1. b \in Buckets /\ x \in Texts /\ 0 \in Ages
  BY DEF CacheInv, CacheTypeOK, FetchSignature, Ages, Stale
<1>2. /\ entries' = [entries EXCEPT ![b][x] = IF found THEN 0 ELSE @]
      /\ due' = [due EXCEPT ![x] = IF found THEN 0 ELSE @]
      /\ fetcher' = [fetcher EXCEPT ![f].pc = "idle", ![f].in = NoBucket]
      /\ UNCHANGED <<bucket, made, storer, purger, undercut>>
  BY DEF FetchSignature
<1> HIDE DEF b, x, found
<1>3. entries' \in [Buckets -> [Texts -> Ages]] /\ due' \in [Texts -> Ages]
  BY <1>1, <1>2 DEF CacheInv, CacheTypeOK
<1>4. fetcher' \in [Fetchers -> [pc : {"idle", "look"}, text : Texts, in : 0..BucketLimit]]
  <2>1. NoBucket \in 0..BucketLimit /\ fetcher \in [Fetchers -> [pc : {"idle", "look"}, text : Texts, in : 0..BucketLimit]]
    BY DEF CacheInv, CacheTypeOK, NoBucket
  <2> QED
    BY <1>2, <2>1
<1>5. CacheTypeOK'
  BY <1>2, <1>3, <1>4 DEF CacheInv, CacheTypeOK
<1>6. \A g \in Fetchers : fetcher'[g].pc = "look" => fetcher'[g] = fetcher[g]
  BY <1>2 DEF CacheInv, CacheTypeOK
<1>7. ASSUME ~undercut PROVE OthersEmpty' /\ NothingDue' /\ StoringHere'
  <2>1. OthersEmpty /\ NothingDue /\ StoringHere
    BY <1>7 DEF CacheInv
  <2>2. found => b = bucket /\ bucket # NoBucket
    BY <2>1, <1>1 DEF OthersEmpty, found, Buckets, NoBucket
  <2>3. CASE found
    <3>1. OthersEmpty'
      BY <1>1, <1>2, <2>1, <2>2, <2>3 DEF OthersEmpty, CacheInv, CacheTypeOK
    <3> QED
      BY <3>1, <1>2, <2>1, <2>2, <2>3 DEF NothingDue, StoringHere
  <2>4. CASE ~found
    <3>1. entries' = entries /\ due' = due
      BY <1>1, <1>2, <2>4 DEF CacheInv, CacheTypeOK
    <3> QED
      BY <3>1, <1>2, <2>1 DEF OthersEmpty, NothingDue, StoringHere
  <2> QED
    BY <2>3, <2>4
<1> QED
  BY <1>2, <1>5, <1>6, <1>7 DEF CacheInv

LEMMA DeleteStep == CacheInv /\ DeleteBucket => CacheInv'
<1> SUFFICES ASSUME CacheInv, DeleteBucket PROVE CacheInv'
  OBVIOUS
<1> USE CacheAssumption
<1>1. bucket \in Buckets /\ bucket' = NoBucket /\ NoBucket \notin Buckets /\ 0 <= made
  BY DEF CacheInv, CacheTypeOK, DeleteBucket, Buckets, NoBucket
<1>2. CacheTypeOK'
  BY DEF CacheInv, CacheTypeOK, DeleteBucket, NoBucket
<1>3. ASSUME ~undercut' PROVE OthersEmpty' /\ NothingDue' /\ StoringHere'
  <2>1. /\ ~undercut /\ UNCHANGED <<entries, due, storer>>
        /\ \A s \in Storers : storer[s].pc # "store"
        /\ \A t \in Texts : entries[bucket][t] = Stale
    BY <1>3 DEF DeleteBucket
  <2>2. OthersEmpty
    BY <2>1 DEF CacheInv
  <2>3. \A t \in Texts : due[t] = Stale
    BY <1>1, <2>1, <2>2 DEF OthersEmpty
  <2> QED
    BY <1>1, <2>1, <2>2, <2>3 DEF OthersEmpty, NothingDue, StoringHere
<1> QED
  BY <1>1, <1>2, <1>3 DEF CacheInv, DeleteBucket, NoBucket

LEMMA TickStep == CacheInv /\ CacheTick => CacheInv'
<1> SUFFICES ASSUME CacheInv, CacheTick PROVE CacheInv'
  OBVIOUS
<1> USE CacheAssumption
<1>1. ASSUME NEW ages \in [Texts -> Ages]
      PROVE  /\ Aged(ages) \in [Texts -> Ages]
             /\ \A t \in Texts : Aged(ages)[t] = IF ages[t] = Stale THEN Stale ELSE ages[t] + 1
  BY DEF Aged, Ages, Stale
<1>2. entries \in [Buckets -> [Texts -> Ages]] /\ due \in [Texts -> Ages]
  BY DEF CacheInv, CacheTypeOK
<1>3. /\ entries' = [b \in Buckets |-> Aged(entries[b])] /\ due' = Aged(due)
      /\ UNCHANGED <<bucket, made, storer, fetcher, purger, undercut>>
  BY DEF CacheTick
<1>4. CacheTypeOK'
  BY <1>1, <1>2, <1>3 DEF CacheInv, CacheTypeOK
<1>5. ASSUME ~undercut PROVE OthersEmpty' /\ NothingDue' /\ StoringHere'
  <2>1. OthersEmpty /\ NothingDue /\ StoringHere
    BY <1>5 DEF CacheInv
  <2>2. ASSUME NEW b \in Buckets, NEW t \in Texts
        PROVE  entries'[b][t] = IF b = bucket THEN due'[t] ELSE Stale
    <3>1. entries'[b][t] = IF entries[b][t] = Stale THEN Stale ELSE entries[b][t] + 1
      BY <1>1, <1>2, <1>3
    <3>2. due'[t] = IF due[t] = Stale THEN Stale ELSE due[t] + 1
      BY <1>1, <1>2, <1>3
    <3> QED
      BY <3>1, <3>2, <2>1 DEF OthersEmpty
  <2>3. NothingDue'
    BY <1>1, <1>2, <1>3, <2>1 DEF NothingDue
  <2> QED
    BY <2>1, <2>2, <2>3, <1>3 DEF OthersEmpty, StoringHere
<1> QED
  BY <1>3, <1>4, <1>5 DEF CacheInv
----------------------------------------------------------------------------
LEMMA NextCache == CacheInv /\ [CacheNext]_cacheVars => CacheInv'
<1> SUFFICES ASSUME CacheInv, [CacheNext]_cacheVars PROVE CacheInv'
  OBVIOUS
<1>1. ASSUME NEW f \in Fetchers, LookUpToFetch(f) PROVE CacheInv'
  <2>1. bucket \in Buckets
    BY <1>1 DEF CacheInv, CacheTypeOK, LookUpToFetch
  <2>2. PICK t \in Texts : fetcher' = [fetcher EXCEPT ![f] = [pc |-> "look", text |-> t, in |-> bucket]]
    BY <1>1 DEF LookUpToFetch
  <2>3. bucket \in 0..BucketLimit
    BY CacheAssumption DEF CacheInv, CacheTypeOK, Buckets, NoBucket
  <2>4. CacheTypeOK'
    BY <1>1, <2>2, <2>3 DEF CacheInv, CacheTypeOK, LookUpToFetch
  <2>5. \A g \in Fetchers : fetcher'[g].pc = "look" => fetcher'[g].in \in Buckets
    BY <2>1, <2>2 DEF CacheInv, CacheTypeOK
  <2> QED
    BY <1>1, <2>4, <2>5 DEF CacheInv, LookUpToFetch, OthersEmpty, NothingDue, StoringHere
<1>2. CASE PurgeBucket
  <2>1. bucket \in Buckets
    BY <1>2 DEF CacheInv, CacheTypeOK, PurgeBucket
  <2>2. purger' \in [pc : {"idle", "delete"}]
    BY <1>2 DEF PurgeBucket
  <2>3. CacheTypeOK'
    BY <1>2, <2>2 DEF CacheInv, CacheTypeOK, PurgeBucket
  <2> QED
    BY <1>2, <2>1, <2>3 DEF CacheInv, PurgeBucket, OthersEmpty, NothingDue, StoringHere
<1>3. CASE UNCHANGED cacheVars
  BY <1>3 DEF cacheVars, CacheInv, CacheTypeOK, OthersEmpty, NothingDue, StoringHere
<1> QED
  BY <1>1, <1>2, <1>3, LookUpStep, LoadOrStoreStep, StoreStep, FetchStep, DeleteStep, TickStep
     DEF CacheNext

\* A signature is found until TTL after it was cached or last found, by
\* CacheSignature and GetCachedSignature (signature_cache.go), unless a bucket
\* was deleted under somebody's hands.
THEOREM CachedSignaturesFound == CacheSpec => [](CacheTypeOK /\ SignaturesFound)
<1>1. CacheInv => CacheTypeOK /\ SignaturesFound
  <2> SUFFICES ASSUME CacheInv PROVE CacheTypeOK /\ SignaturesFound
    OBVIOUS
  <2>1. CacheTypeOK /\ (bucket # NoBucket => bucket \in Buckets)
    BY DEF CacheInv, CacheTypeOK
  <2> QED
    BY <2>1 DEF CacheInv, SignaturesFound, OthersEmpty, NothingDue
<1> QED
  BY InitCache, NextCache, <1>1, PTL DEF CacheSpec
----------------------------------------------------------------------------
(* Logins.  What befalls a login leaves a trace: its session is gone only  *)
(* once it expired or some login saved its token, and its port only once a *)
(* later login of the provider replaced its forwarder; and a token is      *)
(* saved only by a login that goes on to end well.                         *)

\* A token is saved on the way to the end of a login and not before; the
\* sessions tell what came of it.
OutcomeTold(f) ==
  /\ f \in saved => /\ login[f].pc \in {"complete", "endAll", "leave", "stop", "ended"}
                    /\ sessions[f] # "error"
  /\ sessions[f] = "error" => login[f].pc \in {"leave", "stop", "ended"}
  /\ login[f].pc \in {"complete", "endAll"} => f \in saved
  /\ sessions[f] = "unknown" /\ login[f].pc # "new" /\ f \notin expired => saved # {}

\* A login that has its forwarder on the port keeps it until it stops it.
HasForwarder ==
  {"enter", "poll", "read", "remove", "exchange", "fail", "complete", "endAll", "leave"}
PortKept(f) == login[f].web /\ login[f].pc \in HasForwarder => listening = f \/ f \in replaced

FormerKnown(f) == login[f].pc = "unseat" => login[f].former \in Logins

LoginInv ==
  /\ LoginTypeOK
  /\ \A f \in Logins : OutcomeTold(f) /\ PortKept(f) /\ FormerKnown(f)
  /\ \A c \in Callbacks : callback[c].pc \in {"open", "write"} => callback[c].for \in Logins
                                                              /\ callback[c].content \in CallbackContents
----------------------------------------------------------------------------
LEMMA InitLogins == LoginInit => LoginInv
<1> SUFFICES ASSUME LoginInit PROVE LoginInv
  OBVIOUS
<1>1. LoginTypeOK
  BY DEF LoginInit, LoginTypeOK, LoginState, CallbackState, IdleCallback, CallbackContents
<1>2. QED
  BY <1>1 DEF LoginInit, LoginInv, OutcomeTold, PortKept, FormerKnown, HasForwarder, IdleCallback

LEMMA LoginChanges ==
  ASSUME LoginTypeOK, NEW f \in Logins, NEW l \in LoginState, login' = [login EXCEPT ![f] = l]
  PROVE  /\ login' \in [Logins -> LoginState]
         /\ login'[f] = l
         /\ \A g \in Logins \ {f} : login'[g] = login[g]
BY DEF LoginTypeOK

\* A login that only goes on.
LoginOnly(f, pc) ==
  /\ login' \in [Logins -> LoginState]
  /\ login'[f].pc = pc
  /\ login'[f].web = login[f].web /\ login'[f].late = login[f].late
  /\ login'[f].former = login[f].former /\ login'[f].got = login[f].got
  /\ \A g \in Logins \ {f} : login'[g] = login[g]

LEMMA GoesOn ==
  ASSUME LoginTypeOK, NEW f \in Logins, NEW pc, LoginGoes(f, pc),
         pc \in {"enter", "refused", "poll", "read", "remove", "fail", "exchange", "complete",
                 "endAll", "leave", "stop", "ended"}
  PROVE  LoginOnly(f, pc)
<1> DEFINE l == [login[f] EXCEPT !.pc = pc]
<1>1. login[f] \in LoginState /\ login' = [login EXCEPT ![f] = l]
  BY DEF LoginTypeOK, LoginGoes
<1>2. l \in LoginState /\ l.pc = pc /\ l.web = login[f].web /\ l.late = login[f].late
      /\ l.former = login[f].former /\ l.got = login[f].got
  BY <1>1 DEF LoginState
<1> HIDE DEF l
<1>3. /\ login' \in [Logins -> LoginState]
      /\ login'[f] = l
      /\ \A g \in Logins \ {f} : login'[g] = login[g]
  BY <1>1, <1>2, LoginChanges
<1>4. QED
  BY <1>2, <1>3 DEF LoginOnly

\* The invariant without the parts about callbacks, which a step of a login
\* leaves alone.
LEMMA LoginKept ==
  ASSUME LoginInv, UNCHANGED <<provider, callback>>,
         login' \in [Logins -> LoginState], sessions' \in [Logins -> {"unknown", "pending", "error"}],
         forwarders' \in Logins \cup {None}, listening' \in Logins \cup {None},
         file' \in [Logins -> CallbackContents \cup {"none", "torn"}],
         saved' \subseteq Logins, replaced' \subseteq Logins, expired' \subseteq Logins,
         \A f \in Logins : OutcomeTold(f)' /\ PortKept(f)' /\ FormerKnown(f)'
  PROVE  LoginInv'
BY DEF LoginInv, LoginTypeOK

LEMMA RequestKeepsLogins ==
  ASSUME LoginInv, NEW f \in Logins,
         \/ BeginLogin(f) \/ TakeForwarder(f) \/ StopFormer(f) \/ ListenOnPort(f)
         \/ ListenFails(f) \/ EnterForwarder(f)
  PROVE  LoginInv'
<1>1. LoginTypeOK /\ login[f] \in LoginState
      /\ \A g \in Logins : OutcomeTold(g) /\ PortKept(g) /\ FormerKnown(g)
  BY DEF LoginInv, LoginTypeOK
<1>2. CASE BeginLogin(f)
  <2>1. PICK web \in BOOLEAN, pc \in {"exchange", "take", "poll"} :
          login' = [login EXCEPT ![f].web = web, ![f].pc = pc] /\ (pc = "exchange" => ~web)
                                                               /\ (pc = "poll" => ~web)
    BY <1>2 DEF BeginLogin
  <2> DEFINE l == [login[f] EXCEPT !.web = web, !.pc = pc]
  <2>2. /\ login' = [login EXCEPT ![f] = l] /\ sessions' = [sessions EXCEPT ![f] = "pending"]
        /\ login[f].pc = "new"
        /\ UNCHANGED <<provider, forwarders, listening, callback, file, saved, replaced, expired>>
    BY <1>1, <1>2, <2>1 DEF BeginLogin, LoginTypeOK
  <2>3. l \in LoginState /\ l.pc = pc /\ l.web = web
    BY <1>1 DEF LoginState
  <2> HIDE DEF l
  <2>4. /\ login' \in [Logins -> LoginState] /\ login'[f] = l
        /\ \A g \in Logins \ {f} : login'[g] = login[g]
    BY <1>1, <2>2, <2>3, LoginChanges
  <2>5. \A g \in Logins : OutcomeTold(g)' /\ PortKept(g)' /\ FormerKnown(g)'
    BY <1>1, <2>1, <2>2, <2>3, <2>4 DEF OutcomeTold, PortKept, FormerKnown, HasForwarder, LoginTypeOK
  <2>6. QED
    BY <1>1, <2>2, <2>4, <2>5, LoginKept DEF LoginTypeOK
<1>3. CASE TakeForwarder(f)
  <2> DEFINE pc == IF forwarders = None THEN "listen" ELSE "unseat"
             l == [login[f] EXCEPT !.former = forwarders, !.pc = pc]
  <2>1. /\ login' = [login EXCEPT ![f] = l] /\ forwarders' = None /\ login[f].pc = "take"
        /\ UNCHANGED <<provider, sessions, listening, callback, file, saved, replaced, expired>>
    BY <1>1, <1>3 DEF TakeForwarder, LoginTypeOK
  <2>2. pc = IF forwarders = None THEN "listen" ELSE "unseat"
    OBVIOUS
  <2>3. l \in LoginState /\ l.pc = pc /\ l.web = login[f].web /\ l.former = forwarders
    BY <1>1 DEF LoginState, LoginTypeOK
  <2> HIDE DEF l, pc
  <2>4. /\ login' \in [Logins -> LoginState] /\ login'[f] = l
        /\ \A g \in Logins \ {f} : login'[g] = login[g]
    BY <1>1, <2>1, <2>3, LoginChanges
  <2>5. \A g \in Logins : OutcomeTold(g)' /\ PortKept(g)' /\ FormerKnown(g)'
    BY <1>1, <2>1, <2>2, <2>3, <2>4 DEF OutcomeTold, PortKept, FormerKnown, HasForwarder, LoginTypeOK
  <2>6. QED
    BY <1>1, <2>1, <2>4, <2>5, LoginKept DEF LoginTypeOK
<1>4. CASE StopFormer(f)
  <2> DEFINE l == [login[f] EXCEPT !.pc = "listen", !.former = None]
  <2>1. /\ login' = [login EXCEPT ![f] = l] /\ login[f].pc = "unseat"
        /\ listening' = IF listening = login[f].former THEN None ELSE listening
        /\ replaced' = replaced \cup {login[f].former}
        /\ UNCHANGED <<provider, sessions, forwarders, callback, file, saved, expired>>
    BY <1>1, <1>4 DEF StopFormer, LoginTypeOK
  <2>2. login[f].former \in Logins
    BY <1>1, <2>1 DEF FormerKnown
  <2>3. l \in LoginState /\ l.pc = "listen" /\ l.web = login[f].web
    BY <1>1 DEF LoginState
  <2> HIDE DEF l
  <2>4. /\ login' \in [Logins -> LoginState] /\ login'[f] = l
        /\ \A g \in Logins \ {f} : login'[g] = login[g]
    BY <1>1, <2>1, <2>3, LoginChanges
  <2>5. \A g \in Logins : OutcomeTold(g)' /\ PortKept(g)' /\ FormerKnown(g)'
    BY <1>1, <2>1, <2>2, <2>3, <2>4 DEF OutcomeTold, PortKept, FormerKnown, HasForwarder, LoginTypeOK
  <2>6. listening' \in Logins \cup {None} /\ replaced' \subseteq Logins
    BY <1>1, <2>1, <2>2 DEF LoginTypeOK
  <2>7. QED
    BY <1>1, <2>1, <2>4, <2>5, <2>6, LoginKept DEF LoginTypeOK
<1>5. CASE ListenOnPort(f)
  <2>1. /\ login[f].pc = "listen" /\ listening = None /\ listening' = f /\ LoginGoes(f, "enter")
        /\ UNCHANGED <<provider, sessions, forwarders, callback, file, saved, replaced, expired>>
    BY <1>5 DEF ListenOnPort
  <2>2. LoginOnly(f, "enter")
    BY <1>1, <2>1, GoesOn
  <2>3. \A g \in Logins : OutcomeTold(g)' /\ PortKept(g)' /\ FormerKnown(g)'
    BY <1>1, <2>1, <2>2, LoginAssumption
    DEF OutcomeTold, PortKept, FormerKnown, HasForwarder, LoginOnly
  <2>4. QED
    BY <1>1, <2>1, <2>2, <2>3, LoginKept DEF LoginTypeOK, LoginOnly
<1>6. CASE ListenFails(f)
  <2>1. /\ login[f].pc = "listen" /\ LoginGoes(f, "refused")
        /\ UNCHANGED <<provider, sessions, forwarders, listening, callback, file, saved, replaced,
                       expired>>
    BY <1>6 DEF ListenFails
  <2>2. LoginOnly(f, "refused")
    BY <1>1, <2>1, GoesOn
  <2>3. \A g \in Logins : OutcomeTold(g)' /\ PortKept(g)' /\ FormerKnown(g)'
    BY <1>1, <2>1, <2>2 DEF OutcomeTold, PortKept, FormerKnown, HasForwarder, LoginOnly
  <2>4. QED
    BY <1>1, <2>1, <2>2, <2>3, LoginKept DEF LoginTypeOK, LoginOnly
<1>7. CASE EnterForwarder(f)
  <2>1. /\ login[f].pc = "enter" /\ forwarders' = f /\ LoginGoes(f, "poll")
        /\ UNCHANGED <<provider, sessions, listening, callback, file, saved, replaced, expired>>
    BY <1>7 DEF EnterForwarder
  <2>2. LoginOnly(f, "poll")
    BY <1>1, <2>1, GoesOn
  <2>3. \A g \in Logins : OutcomeTold(g)' /\ PortKept(g)' /\ FormerKnown(g)'
    BY <1>1, <2>1, <2>2 DEF OutcomeTold, PortKept, FormerKnown, HasForwarder, LoginOnly
  <2>4. QED
    BY <1>1, <2>1, <2>2, <2>3, LoginKept DEF LoginTypeOK, LoginOnly
<1>8. QED
  BY <1>2, <1>3, <1>4, <1>5, <1>6, <1>7

\* The goroutine up to the outcome.
LEMMA WaitingKeepsLogins ==
  ASSUME LoginInv, NEW f \in Logins,
         PollSession(f) \/ ReadCallbackFile(f) \/ FailLogin(f) \/ ExchangeFails(f) \/ Deadline(f)
  PROVE  LoginInv'
<1>1. LoginTypeOK /\ login[f] \in LoginState
      /\ \A g \in Logins : OutcomeTold(g) /\ PortKept(g) /\ FormerKnown(g)
  BY DEF LoginInv, LoginTypeOK
<1>2. CASE PollSession(f)
  <2>1. /\ login[f].pc = "poll" /\ \E pc \in {"leave", "fail", "read"} : LoginGoes(f, pc)
        /\ UNCHANGED <<provider, sessions, forwarders, listening, callback, file, saved, replaced,
                       expired>>
    BY <1>2 DEF PollSession
  <2>2. PICK pc \in {"leave", "fail", "read"} : LoginOnly(f, pc)
    BY <1>1, <2>1, GoesOn
  <2>3. \A g \in Logins : OutcomeTold(g)' /\ PortKept(g)' /\ FormerKnown(g)'
    BY <1>1, <2>1, <2>2 DEF OutcomeTold, PortKept, FormerKnown, HasForwarder, LoginOnly
  <2>4. QED
    BY <1>1, <2>1, <2>2, <2>3, LoginKept DEF LoginTypeOK, LoginOnly
<1>3. CASE ReadCallbackFile(f)
  <2> DEFINE pc == IF file[f] = "none" THEN "poll" ELSE "remove"
             got == file[f]
             l == [login[f] EXCEPT !.pc = pc, !.got = got]
  <2>1. /\ login' = [login EXCEPT ![f] = l] /\ login[f].pc = "read"
        /\ UNCHANGED <<provider, sessions, forwarders, listening, callback, file, saved, replaced,
                       expired>>
    BY <1>1, <1>3 DEF ReadCallbackFile, LoginTypeOK
  <2>2. pc \in {"poll", "remove"} /\ got \in CallbackContents \cup {"none", "torn"}
    BY <1>1 DEF LoginTypeOK
  <2> HIDE DEF pc, got
  <2>3. l \in LoginState /\ l.pc = pc /\ l.web = login[f].web
    BY <1>1, <2>2 DEF LoginState
  <2> HIDE DEF l
  <2>4. /\ login' \in [Logins -> LoginState] /\ login'[f] = l
        /\ \A g \in Logins \ {f} : login'[g] = login[g]
    BY <1>1, <2>1, <2>3, LoginChanges
  <2>5. \A g \in Logins : OutcomeTold(g)' /\ PortKept(g)' /\ FormerKnown(g)'
    BY <1>1, <2>1, <2>2, <2>3, <2>4 DEF OutcomeTold, PortKept, FormerKnown, HasForwarder
  <2>6. QED
    BY <1>1, <2>1, <2>4, <2>5, LoginKept DEF LoginTypeOK
<1>4. CASE FailLogin(f)
  <2>1. /\ login[f].pc = "fail" /\ LoginGoes(f, "leave")
        /\ sessions' = [sessions EXCEPT ![f] = IF sessions[f] = "unknown" THEN sessions[f] ELSE "error"]
        /\ UNCHANGED <<provider, forwarders, listening, callback, file, saved, replaced, expired>>
    BY <1>4 DEF FailLogin
  <2>2. LoginOnly(f, "leave")
    BY <1>1, <2>1, GoesOn
  <2>3. \A g \in Logins : OutcomeTold(g)' /\ PortKept(g)' /\ FormerKnown(g)'
    BY <1>1, <2>1, <2>2
    DEF OutcomeTold, PortKept, FormerKnown, HasForwarder, LoginOnly, LoginTypeOK
  <2>4. sessions' \in [Logins -> {"unknown", "pending", "error"}]
    BY <1>1, <2>1 DEF LoginTypeOK
  <2>5. QED
    BY <1>1, <2>1, <2>2, <2>3, <2>4, LoginKept DEF LoginTypeOK, LoginOnly
<1>5. CASE ExchangeFails(f)
  <2>1. /\ login[f].pc = "exchange" /\ LoginGoes(f, "fail")
        /\ UNCHANGED <<provider, sessions, forwarders, listening, callback, file, saved, replaced,
                       expired>>
    BY <1>5 DEF ExchangeFails
  <2>2. LoginOnly(f, "fail")
    BY <1>1, <2>1, GoesOn
  <2>3. \A g \in Logins : OutcomeTold(g)' /\ PortKept(g)' /\ FormerKnown(g)'
    BY <1>1, <2>1, <2>2 DEF OutcomeTold, PortKept, FormerKnown, HasForwarder, LoginOnly
  <2>4. QED
    BY <1>1, <2>1, <2>2, <2>3, LoginKept DEF LoginTypeOK, LoginOnly
<1>6. CASE Deadline(f)
  <2> DEFINE l == [login[f] EXCEPT !.late = TRUE]
  <2>1. /\ login' = [login EXCEPT ![f] = l]
        /\ UNCHANGED <<provider, sessions, forwarders, listening, callback, file, saved, replaced,
                       expired>>
    BY <1>1, <1>6 DEF Deadline, LoginTypeOK
  <2>2. l \in LoginState /\ l.pc = login[f].pc /\ l.web = login[f].web /\ l.former = login[f].former
    BY <1>1 DEF LoginState
  <2> HIDE DEF l
  <2>3. /\ login' \in [Logins -> LoginState] /\ login'[f] = l
        /\ \A g \in Logins \ {f} : login'[g] = login[g]
    BY <1>1, <2>1, <2>2, LoginChanges
  <2>4. \A g \in Logins : OutcomeTold(g)' /\ PortKept(g)' /\ FormerKnown(g)'
    BY <1>1, <2>1, <2>2, <2>3 DEF OutcomeTold, PortKept, FormerKnown, HasForwarder
  <2>5. QED
    BY <1>1, <2>1, <2>3, <2>4, LoginKept DEF LoginTypeOK
<1>7. QED
  BY <1>2, <1>3, <1>4, <1>5, <1>6

\* The goroutine from the token to its end, and the end of a session.
LEMMA EndingKeepsLogins ==
  ASSUME LoginInv, NEW f \in Logins,
         \/ SaveToken(f) \/ CompleteLogin(f) \/ CompleteProvider(f) \/ LeavePort(f)
         \/ StopForwarder(f) \/ Expire(f)
  PROVE  LoginInv'
<1>1. LoginTypeOK /\ login[f] \in LoginState
      /\ \A g \in Logins : OutcomeTold(g) /\ PortKept(g) /\ FormerKnown(g)
  BY DEF LoginInv, LoginTypeOK
<1>2. CASE SaveToken(f)
  <2>1. /\ login[f].pc = "exchange" /\ LoginGoes(f, "complete") /\ saved' = saved \cup {f}
        /\ UNCHANGED <<provider, sessions, forwarders, listening, callback, file, replaced, expired>>
    BY <1>2 DEF SaveToken
  <2>2. LoginOnly(f, "complete")
    BY <1>1, <2>1, GoesOn
  <2>3. sessions[f] # "error"
    BY <1>1, <2>1 DEF OutcomeTold
  <2>4. \A g \in Logins : OutcomeTold(g)' /\ PortKept(g)' /\ FormerKnown(g)'
    BY <1>1, <2>1, <2>2, <2>3 DEF OutcomeTold, PortKept, FormerKnown, HasForwarder, LoginOnly
  <2>5. QED
    BY <1>1, <2>1, <2>2, <2>4, LoginKept DEF LoginTypeOK, LoginOnly
<1>3. CASE CompleteLogin(f)
  <2>1. /\ login[f].pc = "complete" /\ \E pc \in {"endAll", "leave"} : LoginGoes(f, pc)
        /\ sessions' = [sessions EXCEPT ![f] = "unknown"]
        /\ UNCHANGED <<provider, forwarders, listening, callback, file, saved, replaced, expired>>
    BY <1>3 DEF CompleteLogin
  <2>2. PICK pc \in {"endAll", "leave"} : LoginOnly(f, pc)
    BY <1>1, <2>1, GoesOn
  <2>3. \A g \in Logins : OutcomeTold(g)' /\ PortKept(g)' /\ FormerKnown(g)'
    BY <1>1, <2>1, <2>2
    DEF OutcomeTold, PortKept, FormerKnown, HasForwarder, LoginOnly, LoginTypeOK
  <2>4. sessions' \in [Logins -> {"unknown", "pending", "error"}]
    BY <1>1, <2>1 DEF LoginTypeOK
  <2>5. QED
    BY <1>1, <2>1, <2>2, <2>3, <2>4, LoginKept DEF LoginTypeOK, LoginOnly
<1>4. CASE CompleteProvider(f)
  <2>1. /\ login[f].pc = "endAll" /\ LoginGoes(f, "leave")
        /\ sessions' = [g \in Logins |-> "unknown"]
        /\ UNCHANGED <<provider, forwarders, listening, callback, file, saved, replaced, expired>>
    BY <1>4 DEF CompleteProvider
  <2>2. LoginOnly(f, "leave")
    BY <1>1, <2>1, GoesOn
  <2>3. saved # {}
    BY <1>1, <2>1 DEF OutcomeTold
  <2>4. \A g \in Logins : OutcomeTold(g)' /\ PortKept(g)' /\ FormerKnown(g)'
    BY <1>1, <2>1, <2>2, <2>3 DEF OutcomeTold, PortKept, FormerKnown, HasForwarder, LoginOnly
  <2>5. sessions' \in [Logins -> {"unknown", "pending", "error"}]
    BY <2>1
  <2>6. QED
    BY <1>1, <2>1, <2>2, <2>4, <2>5, LoginKept DEF LoginTypeOK, LoginOnly
<1>5. CASE LeavePort(f)
  <2> DEFINE pc == IF login[f].web THEN "stop" ELSE "ended"
             l == [login[f] EXCEPT !.pc = pc, !.late = FALSE, !.got = "none"]
  <2>1. /\ login' = [login EXCEPT ![f] = l] /\ login[f].pc = "leave"
        /\ forwarders' = IF forwarders = f THEN None ELSE forwarders
        /\ UNCHANGED <<provider, sessions, listening, callback, file, saved, replaced, expired>>
    BY <1>1, <1>5 DEF LeavePort, LoginTypeOK
  <2>2. pc \in {"stop", "ended"}
    OBVIOUS
  <2> HIDE DEF pc
  <2>3. l \in LoginState /\ l.pc = pc /\ l.web = login[f].web
    BY <1>1, <2>2 DEF LoginState
  <2> HIDE DEF l
  <2>4. /\ login' \in [Logins -> LoginState] /\ login'[f] = l
        /\ \A g \in Logins \ {f} : login'[g] = login[g]
    BY <1>1, <2>1, <2>3, LoginChanges
  <2>5. \A g \in Logins : OutcomeTold(g)' /\ PortKept(g)' /\ FormerKnown(g)'
    BY <1>1, <2>1, <2>2, <2>3, <2>4 DEF OutcomeTold, PortKept, FormerKnown, HasForwarder
  <2>6. QED
    BY <1>1, <2>1, <2>4, <2>5, LoginKept DEF LoginTypeOK
<1>6. CASE StopForwarder(f)
  <2>1. /\ login[f].pc = "stop" /\ LoginGoes(f, "ended")
        /\ listening' = IF listening = f THEN None ELSE listening
        /\ UNCHANGED <<provider, sessions, forwarders, callback, file, saved, replaced, expired>>
    BY <1>6 DEF StopForwarder
  <2>2. LoginOnly(f, "ended")
    BY <1>1, <2>1, GoesOn
  <2>3. \A g \in Logins : OutcomeTold(g)' /\ FormerKnown(g)'
    BY <1>1, <2>1, <2>2 DEF OutcomeTold, FormerKnown, LoginOnly
  <2>4. \A g \in Logins \ {f} : PortKept(g)'
    BY <1>1, <2>1, <2>2 DEF PortKept, LoginOnly
  <2>5. PortKept(f)'
    BY <2>2 DEF PortKept, HasForwarder, LoginOnly
  <2>6. QED
    BY <1>1, <2>1, <2>2, <2>3, <2>4, <2>5, LoginKept DEF LoginTypeOK, LoginOnly
<1>7. CASE Expire(f)
  <2>1. /\ sessions' = [sessions EXCEPT ![f] = "unknown"] /\ expired' = expired \cup {f}
        /\ UNCHANGED <<provider, login, forwarders, listening, callback, file, saved, replaced>>
    BY <1>7 DEF Expire
  <2>2. \A g \in Logins : OutcomeTold(g)' /\ PortKept(g)' /\ FormerKnown(g)'
    BY <1>1, <2>1 DEF OutcomeTold, PortKept, FormerKnown, LoginTypeOK
  <2>3. QED
    BY <1>1, <2>1, <2>2, LoginKept DEF LoginTypeOK
<1>8. QED
  BY <1>2, <1>3, <1>4, <1>5, <1>6, <1>7

\* Callbacks, and the goroutine that takes a callback file away.
LEMMA CallbackKeepsLogins ==
  ASSUME LoginInv,
         \/ \E c \in Callbacks : BringCallback(c) \/ OpenCallbackFile(c) \/ WriteCallbackFile(c)
         \/ \E f \in Logins : RemoveCallbackFile(f)
  PROVE  LoginInv'
<1> DEFINE Underway(c) == callback[c].pc \in {"open", "write"} =>
                            callback[c].for \in Logins /\ callback[c].content \in CallbackContents
<1>1. LoginTypeOK /\ \A g \in Logins : OutcomeTold(g) /\ PortKept(g) /\ FormerKnown(g)
  BY DEF LoginInv
<1>0. \A c \in Callbacks : Underway(c)
  BY DEF LoginInv
<1>2. ASSUME NEW c \in Callbacks, BringCallback(c) \/ OpenCallbackFile(c) \/ WriteCallbackFile(c)
      PROVE  LoginInv'
  <2>1. UNCHANGED <<provider, login, sessions, forwarders, listening, saved, replaced, expired>>
    BY <1>2 DEF BringCallback, OpenCallbackFile, WriteCallbackFile
  <2>2. \A g \in Logins : OutcomeTold(g)' /\ PortKept(g)' /\ FormerKnown(g)'
    BY <1>1, <2>1 DEF OutcomeTold, PortKept, FormerKnown
  <2>3. PICK b \in CallbackState : callback' = [callback EXCEPT ![c] = b] /\
          (b.pc \in {"open", "write"} => b.for \in Logins /\ b.content \in CallbackContents)
    <3>1. callback[c] \in CallbackState
      BY <1>1 DEF LoginTypeOK
    <3>2. CASE BringCallback(c)
      <4>1. PICK f \in Logins, content \in CallbackContents :
              callback' = [callback EXCEPT ![c] = [pc |-> "open", for |-> f, content |-> content]]
        BY <3>2 DEF BringCallback
      <4>2. [pc |-> "open", for |-> f, content |-> content] \in CallbackState
        BY DEF CallbackState
      <4>3. QED
        BY <4>1, <4>2
    <3>3. CASE OpenCallbackFile(c)
      <4> DEFINE b == [callback[c] EXCEPT !.pc = "write"]
      <4>1. callback' = [callback EXCEPT ![c] = b] /\ callback[c].pc = "open"
        BY <1>1, <3>3 DEF OpenCallbackFile, LoginTypeOK
      <4>2. b \in CallbackState /\ b.for = callback[c].for /\ b.content = callback[c].content
        BY <3>1 DEF CallbackState
      <4> HIDE DEF b
      <4>3. QED
        BY <1>0, <4>1, <4>2
    <3>4. CASE WriteCallbackFile(c)
      <4> DEFINE b == [callback[c] EXCEPT !.pc = "done"]
      <4>1. callback' = [callback EXCEPT ![c] = b]
        BY <1>1, <3>4 DEF WriteCallbackFile, LoginTypeOK
      <4>2. b \in CallbackState /\ b.pc = "done"
        BY <3>1 DEF CallbackState
      <4> HIDE DEF b
      <4>3. QED
        BY <4>1, <4>2
    <3>5. QED
      BY <1>2, <3>2, <3>3, <3>4
  <2>4. file' \in [Logins -> CallbackContents \cup {"none", "torn"}]
    BY <1>0, <1>1, <1>2 DEF BringCallback, OpenCallbackFile, WriteCallbackFile, LoginTypeOK
  <2>5. /\ callback' \in [Callbacks -> CallbackState]
        /\ \A d \in Callbacks : Underway(d)'
    BY <1>0, <1>1, <2>3 DEF LoginTypeOK
  <2>6. QED
    BY <1>1, <2>1, <2>2, <2>4, <2>5 DEF LoginInv, LoginTypeOK
<1>3. ASSUME NEW f \in Logins, RemoveCallbackFile(f) PROVE LoginInv'
  <2>1. /\ login[f].pc = "remove" /\ \E pc \in {"exchange", "fail"} : LoginGoes(f, pc)
        /\ file' = [file EXCEPT ![f] = "none"]
        /\ UNCHANGED <<provider, sessions, forwarders, listening, saved, replaced, expired>>
    BY <1>3 DEF RemoveCallbackFile
  <2>2. PICK pc \in {"exchange", "fail"} : LoginOnly(f, pc)
    BY <1>1, <2>1, GoesOn
  <2>3. \A g \in Logins : OutcomeTold(g)' /\ PortKept(g)' /\ FormerKnown(g)'
    BY <1>1, <2>1, <2>2 DEF OutcomeTold, PortKept, FormerKnown, HasForwarder, LoginOnly
  <2>4. ASSUME NEW c \in Callbacks PROVE callback'[c] \in CallbackState /\ Underway(c)'
    <3>1. callback[c] \in CallbackState
      BY <1>1 DEF LoginTypeOK
    <3>2. CASE callback'[c] = callback[c]
      BY <1>0, <3>1, <3>2
    <3>3. CASE callback'[c] = [callback[c] EXCEPT !.pc = "done"]
      BY <3>1, <3>3 DEF CallbackState
    <3>4. QED
      BY <1>3, <3>2, <3>3 DEF RemoveCallbackFile
  <2>5. callback' = [c \in Callbacks |-> callback'[c]]
    BY <1>3 DEF RemoveCallbackFile
  <2>6. callback' \in [Callbacks -> CallbackState]
    BY <2>4, <2>5
  <2>7. file' \in [Logins -> CallbackContents \cup {"none", "torn"}]
    BY <1>1, <2>1 DEF LoginTypeOK
  <2>8. QED
    BY <1>1, <2>1, <2>2, <2>3, <2>4, <2>6, <2>7 DEF LoginInv, LoginTypeOK, LoginOnly
<1>4. QED
  BY <1>2, <1>3

LEMMA NextLogins == LoginInv /\ [LoginNext]_loginVars => LoginInv'
<1> SUFFICES ASSUME LoginInv, [LoginNext]_loginVars PROVE LoginInv'
  OBVIOUS
<1>1. CASE UNCHANGED loginVars
  BY <1>1 DEF LoginInv, LoginTypeOK, OutcomeTold, PortKept, FormerKnown, loginVars
<1>2. ASSUME NEW f \in Logins,
             BeginLogin(f) \/ LoginStep(f) \/ ExchangeFails(f) \/ SaveToken(f) \/ Deadline(f) \/ Expire(f)
      PROVE  LoginInv'
  BY <1>2, RequestKeepsLogins, WaitingKeepsLogins, EndingKeepsLogins, CallbackKeepsLogins DEF LoginStep
<1>3. QED
  BY <1>1, <1>2, CallbackKeepsLogins DEF LoginNext

\* Logins of one provider that run at once do not disturb each other: the
\* status the console polls is true, and no login's end or failure shuts down
\* the forwarder of another.
THEOREM LoginsKeepApart == LoginSpec => []LoginsUndisturbed
<1>1. LoginInv => LoginsUndisturbed
  BY DEF LoginInv, OutcomeTold, PortKept, HasForwarder, LoginsUndisturbed, LoginStatusTrue,
         ForwarderKept, Waiting
<1>2. QED
  BY <1>1, InitLogins, NextLogins, PTL DEF LoginSpec
----------------------------------------------------------------------------
(* The usage queue.  Every plugin is handed every record taken since it    *)
(* was registered, once and in order, for any set of publishers and any    *)
(* number of records and plugins.                                          *)
(*                                                                         *)
(* The records in the queue are the last ones accepted, in order; the      *)
(* worker holds the one before them until its last plugin has had it; and  *)
(* the plugins it has yet to call are among the first ones registered.     *)

QueueOrdered ==
  /\ Len(usage) <= accepted
  /\ \A i \in 1..Len(usage) : usage[i] = Taken + i

WorkerHolds ==
  /\ worker.pc \in {"dispatch", "invoke"} => Taken > 0 /\ worker.record = Taken
  /\ worker.pc = "invoke" => worker.invoked < worker.copied /\ worker.copied <= plugins

\* A plugin not yet registered has been handed nothing.
NoneEarly == \A j \in 1..PluginLimit : j > plugins => handled[j] = <<>>

UsageInv == UsageTypeOK /\ QueueOrdered /\ WorkerHolds /\ NoneEarly /\ HandledInOrder
----------------------------------------------------------------------------
LEMMA InitUsage == UsageInit => UsageInv
<1> SUFFICES ASSUME UsageInit PROVE UsageInv
  OBVIOUS
<1>1. UsageTypeOK
  <2>1. <<>> \in Seq(Nat)
    OBVIOUS
  <2>2. handled \in [1..PluginLimit -> Seq(Nat)]
    BY <2>1 DEF UsageInit
  <2>3. worker \in Workers
    BY DEF UsageInit, Workers
  <2>4. usage \in Seq(Nat) /\ accepted \in Nat /\ plugins \in 0..PluginLimit
    BY <2>1, UsageAssumption DEF UsageInit
  <2>5. /\ publisher \in [Publishers -> {"idle", "signal"}] /\ since \in [1..PluginLimit -> Nat]
        /\ closed \in BOOLEAN /\ stopper \in {"idle", "broadcast", "done"}
    BY DEF UsageInit
  <2> QED
    BY <2>2, <2>3, <2>4, <2>5 DEF UsageTypeOK
<1>2. QueueOrdered
  BY DEF UsageInit, QueueOrdered
<1>3. WorkerHolds /\ NoneEarly
  BY DEF UsageInit, WorkerHolds, NoneEarly
<1>4. HandledInOrder
  BY DEF UsageInit, HandledInOrder
<1> QED
  BY <1>1, <1>2, <1>3, <1>4 DEF UsageInv

\* A step that leaves records, plugins and what was handed out alone, and the
\* worker where a record in its hands is concerned.
LEMMA IdleStep ==
  ASSUME UsageInv, UsageTypeOK',
         UNCHANGED <<usage, plugins, accepted, handled, since>>,
         worker.pc \notin {"dispatch", "invoke"}, worker'.pc \notin {"dispatch", "invoke"}
  PROVE  UsageInv'
BY DEF UsageInv, UsageTypeOK, QueueOrdered, WorkerHolds, NoneEarly, HandledInOrder, StillDue, Taken

LEMMA SameWorkerStep ==
  ASSUME UsageInv, UsageTypeOK',
         UNCHANGED <<usage, plugins, accepted, handled, since, worker>>
  PROVE  UsageInv'
BY DEF UsageInv, UsageTypeOK, QueueOrdered, WorkerHolds, NoneEarly, HandledInOrder, StillDue, Taken

LEMMA StartedFacts ==
  ASSUME UsageTypeOK
  PROVE  /\ Started \in Workers /\ Woken \in Workers
         /\ Started = worker \/ (worker.pc = "none" /\ Started.pc = "check")
         /\ Woken = worker \/ (worker.pc = "waiting" /\ Woken.pc = "check")
BY DEF UsageTypeOK, Workers, Started, Woken
----------------------------------------------------------------------------
LEMMA RegisterStep == UsageInv /\ RegisterPlugin => UsageInv'
<1> SUFFICES ASSUME UsageInv, RegisterPlugin PROVE UsageInv'
  OBVIOUS
<1> USE UsageAssumption
<1>1. Taken \in Nat /\ (worker.pc = "dispatch" => Taken - 1 \in Nat)
  BY DEF UsageInv, UsageTypeOK, QueueOrdered, WorkerHolds, Taken
<1>2. plugins + 1 \in 1..PluginLimit /\ plugins' = plugins + 1
  BY DEF UsageInv, UsageTypeOK, RegisterPlugin
<1>3. UsageTypeOK'
  BY <1>1, <1>2 DEF UsageInv, UsageTypeOK, RegisterPlugin
<1>4. QueueOrdered' /\ WorkerHolds'
  BY <1>2 DEF UsageInv, UsageTypeOK, Workers, RegisterPlugin, QueueOrdered, WorkerHolds, Taken
<1>5. NoneEarly'
  BY <1>2 DEF UsageInv, UsageTypeOK, RegisterPlugin, NoneEarly
<1>6. HandledInOrder'
  <2> SUFFICES ASSUME NEW j \in 1..(plugins + 1)
               PROVE  /\ \A i \in 1..Len(handled'[j]) : handled'[j][i] = since'[j] + i
                      /\ since'[j] + Len(handled'[j]) = IF StillDue(j)' THEN Taken' - 1 ELSE Taken'
    BY <1>2 DEF HandledInOrder
  <2>0. handled' = handled /\ Taken' = Taken /\ (StillDue(j)' <=> StillDue(j))
    BY DEF RegisterPlugin, Taken, StillDue
  <2>1. CASE j \in 1..plugins
    <3>1. since'[j] = since[j]
      BY <2>1, <1>2 DEF RegisterPlugin, UsageInv, UsageTypeOK
    <3> QED
      BY <2>0, <2>1, <3>1 DEF UsageInv, HandledInOrder
  <2>2. CASE j = plugins + 1
    <3>1. handled[j] = <<>>
      BY <2>2, <1>2 DEF UsageInv, UsageTypeOK, NoneEarly
    <3>2. since'[j] = IF worker.pc = "dispatch" THEN Taken - 1 ELSE Taken
      BY <2>2, <1>2 DEF UsageInv, UsageTypeOK, RegisterPlugin
    <3>3. worker.pc = "invoke" => ~StillDue(j)
      BY <2>2 DEF UsageInv, UsageTypeOK, Workers, WorkerHolds, StillDue
    <3>4. StillDue(j) <=> worker.pc = "dispatch"
      BY <3>3 DEF StillDue
    <3> QED
      BY <2>0, <3>1, <3>2, <3>4, <1>1
  <2>3. plugins \in Nat
    BY DEF UsageInv, UsageTypeOK
  <2> QED
    BY <2>1, <2>2, <2>3
<1> QED
  BY <1>3, <1>4, <1>5, <1>6 DEF UsageInv

LEMMA PublishStep ==
  ASSUME UsageInv, NEW p \in Publishers, PublishRecord(p)
  PROVE  UsageInv'
<1> USE UsageAssumption
<1>0. /\ usage \in Seq(Nat) /\ accepted \in Nat /\ worker \in Workers /\ UsageTypeOK
      /\ worker' = Started /\ worker' \in Workers
      /\ UNCHANGED <<closed, plugins, stopper, handled, since>>
  BY StartedFacts DEF UsageInv, UsageTypeOK, PublishRecord
<1>1. CASE closed
  <2>1. UNCHANGED <<usage, publisher, accepted>>
    BY <1>1 DEF PublishRecord
  <2>2. UsageTypeOK'
    BY <1>0, <2>1 DEF UsageInv, UsageTypeOK
  <2>3. CASE worker' = worker
    BY <1>0, <2>1, <2>2, <2>3, SameWorkerStep
  <2>4. CASE worker' # worker
    BY <1>0, <2>1, <2>2, <2>4, StartedFacts, IdleStep
  <2> QED
    BY <2>3, <2>4
<1>2. CASE ~closed
  <2>1. /\ accepted' = accepted + 1 /\ usage' = Append(usage, accepted + 1)
        /\ publisher' = [publisher EXCEPT ![p] = "signal"]
    BY <1>2 DEF PublishRecord
  <2>2. UsageTypeOK'
    BY <1>0, <2>1 DEF UsageInv, UsageTypeOK
  <2>3. /\ Len(usage') = Len(usage) + 1 /\ usage'[Len(usage) + 1] = accepted + 1
        /\ \A i \in 1..Len(usage) : usage'[i] = usage[i]
    BY <1>0, <2>1
  <2>4. Taken' = Taken /\ Taken = accepted - Len(usage)
    BY <1>0, <2>1, <2>3 DEF Taken
  <2>5. QueueOrdered'
    <3>1. Len(usage') <= accepted'
      BY <1>0, <2>1, <2>3 DEF UsageInv, QueueOrdered
    <3>2. ASSUME NEW i \in 1..Len(usage') PROVE usage'[i] = Taken' + i
      <4>1. CASE i \in 1..Len(usage)
        BY <4>1, <2>3, <2>4 DEF UsageInv, QueueOrdered
      <4>2. CASE i = Len(usage) + 1
        BY <4>2, <2>3, <2>4, <1>0
      <4> QED
        BY <4>1, <4>2, <2>3, <1>0
    <3> QED
      BY <3>1, <3>2 DEF QueueOrdered
  <2>6. \/ worker' = worker
        \/ worker.pc \notin {"dispatch", "invoke"} /\ worker'.pc \notin {"dispatch", "invoke"}
    BY <1>0, StartedFacts
  <2>7. WorkerHolds'
    BY <1>0, <2>4, <2>6 DEF UsageInv, WorkerHolds
  <2>8. NoneEarly' /\ HandledInOrder'
    BY <1>0, <2>4, <2>6 DEF UsageInv, NoneEarly, HandledInOrder, StillDue
  <2> QED
    BY <2>2, <2>5, <2>7, <2>8 DEF UsageInv
<1> QED
  BY <1>1, <1>2

LEMMA TakeStep == UsageInv /\ TakeRecord => UsageInv'
<1> SUFFICES ASSUME UsageInv, TakeRecord PROVE UsageInv'
  OBVIOUS
<1> USE UsageAssumption
<1>0. /\ usage \in Seq(Nat) /\ usage # <<>> /\ accepted \in Nat /\ worker \in Workers
      /\ worker.pc = "check" /\ usage' = Tail(usage)
      /\ worker' = [worker EXCEPT !.pc = "dispatch", !.record = Head(usage)]
      /\ UNCHANGED <<closed, plugins, publisher, stopper, accepted, handled, since>>
  BY DEF UsageInv, UsageTypeOK, TakeRecord
<1>1. /\ Len(usage') = Len(usage) - 1 /\ Len(usage) \in Nat /\ Len(usage) > 0
      /\ \A i \in 1..Len(usage') : usage'[i] = usage[i + 1]
      /\ Head(usage) = usage[1] /\ usage[1] \in Nat
  BY <1>0
<1>2. /\ worker'.pc = "dispatch" /\ worker'.record = Head(usage) /\ worker' \in Workers
  BY <1>0, <1>1 DEF Workers
<1>3. UsageTypeOK'
  BY <1>0, <1>2 DEF UsageInv, UsageTypeOK
<1>4. Taken' = Taken + 1 /\ Taken \in Nat
  BY <1>0, <1>1 DEF Taken, UsageInv, QueueOrdered
<1>5. \A i \in 1..Len(usage) : usage[i] = Taken + i
  BY DEF UsageInv, QueueOrdered
<1>6. QueueOrdered'
  <2>1. ASSUME NEW i \in 1..Len(usage') PROVE usage'[i] = Taken' + i
    <3>1. i + 1 \in 1..Len(usage) /\ i \in Nat
      BY <1>1
    <3>2. usage'[i] = usage[i + 1] /\ usage[i + 1] = Taken + (i + 1)
      BY <3>1, <1>1, <1>5
    <3> QED
      BY <3>1, <3>2, <1>4
  <2>2. Len(usage) <= accepted
    BY DEF UsageInv, QueueOrdered
  <2> QED
    BY <2>1, <2>2, <1>0, <1>1 DEF QueueOrdered
<1>7. worker'.record = Taken'
  <2>1. usage[1] = Taken + 1
    BY <1>1, <1>5
  <2> QED
    BY <2>1, <1>1, <1>2, <1>4
<1>8. WorkerHolds'
  BY <1>2, <1>4, <1>7 DEF WorkerHolds
<1>9. NoneEarly'
  BY <1>0 DEF UsageInv, NoneEarly
<1>10. HandledInOrder'
  <2>1. ASSUME NEW j \in 1..plugins PROVE ~StillDue(j) /\ StillDue(j)'
    BY <1>0, <1>2 DEF StillDue
  <2>2. ASSUME NEW j \in 1..plugins
        PROVE /\ \A i \in 1..Len(handled[j]) : handled[j][i] = since[j] + i
              /\ since[j] + Len(handled[j]) = Taken
    BY <2>1 DEF UsageInv, HandledInOrder
  <2>3. Taken' - 1 = Taken
    BY <1>4
  <2>4. plugins' = plugins /\ handled' = handled /\ since' = since
    BY <1>0
  <2> QED
    BY <2>1, <2>2, <2>3, <2>4 DEF HandledInOrder
<1> QED
  BY <1>3, <1>6, <1>8, <1>9, <1>10 DEF UsageInv

LEMMA CopyStep == UsageInv /\ CopyPlugins => UsageInv'
<1> SUFFICES ASSUME UsageInv, CopyPlugins PROVE UsageInv'
  OBVIOUS
<1> USE UsageAssumption
<1>0. /\ worker \in Workers /\ worker.pc = "dispatch" /\ plugins \in 0..PluginLimit
      /\ worker' = [worker EXCEPT !.pc = IF plugins = 0 THEN "check" ELSE "invoke",
                                  !.copied = plugins, !.invoked = 0]
      /\ UNCHANGED <<usage, closed, plugins, publisher, stopper, accepted, handled, since>>
  BY DEF UsageInv, UsageTypeOK, CopyPlugins
<1>1. /\ worker' \in Workers /\ worker'.copied = plugins /\ worker'.invoked = 0
      /\ worker'.record = worker.record
      /\ worker'.pc = IF plugins = 0 THEN "check" ELSE "invoke"
  <2>1. plugins \in Nat
    BY <1>0
  <2>2. CASE plugins = 0
    BY <2>1, <2>2, <1>0 DEF Workers
  <2>3. CASE plugins # 0
    BY <2>1, <2>3, <1>0 DEF Workers
  <2> QED
    BY <2>2, <2>3
<1>2. UsageTypeOK'
  BY <1>0, <1>1 DEF UsageInv, UsageTypeOK
<1>3. Taken' = Taken
  BY <1>0 DEF Taken
<1>4. QueueOrdered' /\ WorkerHolds' /\ NoneEarly'
  BY <1>0, <1>1, <1>3 DEF UsageInv, QueueOrdered, WorkerHolds, NoneEarly
<1>5. ASSUME NEW j \in 1..plugins PROVE StillDue(j) /\ StillDue(j)'
  BY <1>0, <1>1 DEF StillDue
<1>6. HandledInOrder'
  BY <1>0, <1>3, <1>5 DEF UsageInv, HandledInOrder
<1> QED
  BY <1>2, <1>4, <1>6 DEF UsageInv

LEMMA InvokeStep == UsageInv /\ InvokePlugin => UsageInv'
<1> SUFFICES ASSUME UsageInv, InvokePlugin PROVE UsageInv'
  OBVIOUS
<1> USE UsageAssumption
<1> DEFINE j == worker.invoked + 1
<1>0. /\ worker \in Workers /\ worker.pc = "invoke" /\ plugins \in 0..PluginLimit
      /\ handled \in [1..PluginLimit -> Seq(Nat)] /\ since \in [1..PluginLimit -> Nat]
      /\ handled' = [handled EXCEPT ![j] = Append(@, worker.record)]
      /\ worker' = [worker EXCEPT !.pc = IF j = worker.copied THEN "check" ELSE "invoke",
                                  !.invoked = j]
      /\ UNCHANGED <<usage, closed, plugins, publisher, stopper, accepted, since>>
  BY DEF UsageInv, UsageTypeOK, InvokePlugin
<1>1. /\ j \in 1..plugins /\ j <= worker.copied /\ worker.copied <= plugins
      /\ worker.record = Taken /\ Taken \in Nat \ {0} /\ worker.invoked \in Nat
      /\ worker.copied \in Nat
  BY <1>0 DEF UsageInv, UsageTypeOK, Workers, WorkerHolds, QueueOrdered, Taken
<1>2. /\ worker' \in Workers /\ worker'.copied = worker.copied /\ worker'.invoked = j
      /\ worker'.record = worker.record
      /\ worker'.pc = IF j = worker.copied THEN "check" ELSE "invoke"
  <2>1. j \in Nat
    BY <1>1
  <2> HIDE DEF j
  <2>2. CASE j = worker.copied
    BY <2>1, <2>2, <1>0 DEF Workers
  <2>3. CASE j # worker.copied
    BY <2>1, <2>3, <1>0 DEF Workers
  <2> QED
    BY <2>2, <2>3
<1>3. handled'[j] = Append(handled[j], Taken) /\ handled' \in [1..PluginLimit -> Seq(Nat)]
  BY <1>0, <1>1
<1>4. UsageTypeOK'
  BY <1>0, <1>2, <1>3 DEF UsageInv, UsageTypeOK
<1>5. Taken' = Taken
  BY <1>0 DEF Taken
<1>6. QueueOrdered' /\ WorkerHolds'
  BY <1>0, <1>1, <1>2, <1>5 DEF UsageInv, QueueOrdered, WorkerHolds
<1>7. NoneEarly'
  BY <1>0, <1>1 DEF UsageInv, NoneEarly
<1>8. HandledInOrder'
  <2> SUFFICES ASSUME NEW k \in 1..plugins
               PROVE  /\ \A i \in 1..Len(handled'[k]) : handled'[k][i] = since[k] + i
                      /\ since[k] + Len(handled'[k]) = IF StillDue(k)' THEN Taken - 1 ELSE Taken
    <3>1. plugins' = plugins /\ since' = since
      BY <1>0
    <3>2. QED
      BY <1>5, <3>1 DEF HandledInOrder
  <2>1. k \in 1..PluginLimit /\ handled[k] \in Seq(Nat) /\ since[k] \in Nat /\ Len(handled[k]) \in Nat
    BY <1>0
  <2>2. /\ \A i \in 1..Len(handled[k]) : handled[k][i] = since[k] + i
        /\ since[k] + Len(handled[k]) = IF StillDue(k) THEN Taken - 1 ELSE Taken
    BY DEF UsageInv, HandledInOrder
  <2>3. CASE k = j
    <3>1. StillDue(k) /\ ~StillDue(k)'
      BY <2>3, <1>0, <1>1, <1>2 DEF StillDue
    <3>2. Len(handled'[k]) = Len(handled[k]) + 1 /\ handled'[k][Len(handled[k]) + 1] = Taken
      BY <2>1, <2>3, <1>3, <1>1
    <3>3. \A i \in 1..Len(handled[k]) : handled'[k][i] = handled[k][i]
      BY <2>1, <2>3, <1>3, <1>1
    <3>4. since[k] + Len(handled[k]) = Taken - 1
      BY <2>2, <3>1
    <3>5. ASSUME NEW i \in 1..Len(handled'[k]) PROVE handled'[k][i] = since[k] + i
      <4>1. CASE i \in 1..Len(handled[k])
        BY <4>1, <3>3, <2>2
      <4>2. CASE i = Len(handled[k]) + 1
        <5>1. handled'[k][i] = Taken
          BY <4>2, <3>2
        <5>2. since[k] + i = Taken
          <6>1. \A a, n, taken \in Nat : a + n = taken - 1 => a + (n + 1) = taken
            OBVIOUS
          <6>2. Taken \in Nat
            BY <1>1
          <6> QED
            BY <4>2, <3>4, <2>1, <6>1, <6>2, SMTT(30)
        <5> QED
          BY <5>1, <5>2
      <4> QED
        BY <4>1, <4>2, <3>2, <2>1
    <3> QED
      BY <3>1, <3>2, <3>4, <3>5, <2>1, <1>1
  <2>4. CASE k # j
    <3>1. handled'[k] = handled[k]
      BY <2>4, <2>1, <1>0
    <3>2. StillDue(k)' <=> StillDue(k)
      BY <2>4, <1>0, <1>1, <1>2 DEF StillDue
    <3> QED
      BY <3>1, <3>2, <2>2
  <2> QED
    BY <2>3, <2>4
<1> QED
  BY <1>4, <1>6, <1>7, <1>8 DEF UsageInv
----------------------------------------------------------------------------
LEMMA NextUsage == UsageInv /\ [UsageNext]_usageVars => UsageInv'
<1> SUFFICES ASSUME UsageInv, [UsageNext]_usageVars PROVE UsageInv'
  OBVIOUS
<1>0. UsageTypeOK /\ Started \in Workers /\ Woken \in Workers
  BY StartedFacts DEF UsageInv
<1>1. CASE StartWorker
  <2>1. UsageTypeOK' /\ worker' = Started
    BY <1>0, <1>1 DEF StartWorker, UsageTypeOK
  <2> QED
    BY <2>1, <1>0, <1>1, StartedFacts, IdleStep, SameWorkerStep DEF StartWorker
<1>2. CASE RegisterPlugin
  BY <1>2, RegisterStep
<1>3. CASE CloseQueue
  <2>1. UsageTypeOK'
    BY <1>0, <1>3 DEF CloseQueue, UsageTypeOK
  <2> QED
    BY <2>1, <1>3, SameWorkerStep DEF CloseQueue
<1>4. CASE BroadcastClose
  <2>1. UsageTypeOK' /\ worker' = Woken
    BY <1>0, <1>4 DEF BroadcastClose, UsageTypeOK
  <2> QED
    BY <2>1, <1>0, <1>4, StartedFacts, IdleStep, SameWorkerStep DEF BroadcastClose
<1>5. ASSUME NEW p \in Publishers, PublishRecord(p) PROVE UsageInv'
  BY <1>5, PublishStep
<1>6. ASSUME NEW p \in Publishers, SignalRecord(p) PROVE UsageInv'
  <2>1. UsageTypeOK' /\ worker' = Woken
    BY <1>0, <1>6 DEF SignalRecord, UsageTypeOK
  <2> QED
    BY <2>1, <1>0, <1>6, StartedFacts, IdleStep, SameWorkerStep DEF SignalRecord
<1>7. CASE WaitForRecord \/ EndWorker
  <2>1. UsageTypeOK' /\ worker.pc = "check" /\ worker'.pc \in {"waiting", "ended"}
    BY <1>0, <1>7 DEF WaitForRecord, EndWorker, UsageTypeOK, Workers
  <2> QED
    BY <2>1, <1>7, IdleStep DEF WaitForRecord, EndWorker
<1>8. CASE TakeRecord
  BY <1>8, TakeStep
<1>9. CASE CopyPlugins
  BY <1>9, CopyStep
<1>10. CASE InvokePlugin
  BY <1>10, InvokeStep
<1>11. CASE UNCHANGED usageVars
  <2>1. UsageTypeOK'
    BY <1>0, <1>11 DEF usageVars, UsageTypeOK
  <2> QED
    BY <2>1, <1>11, SameWorkerStep DEF usageVars
<1> QED
  BY <1>1, <1>2, <1>3, <1>4, <1>5, <1>6, <1>7, <1>8, <1>9, <1>10, <1>11 DEF UsageNext, WorkerStep

\* Records reach every registered plugin once and in order: dispatch and
\* safeInvoke (usage/manager.go), next to publishers, registrations and Stop.
THEOREM UsageHandledInOrder == UsageSpec => [](UsageTypeOK /\ HandledInOrder)
<1>1. UsageInv => UsageTypeOK /\ HandledInOrder
  BY DEF UsageInv
<1> QED
  BY InitUsage, NextUsage, <1>1, PTL DEF UsageSpec
----------------------------------------------------------------------------
(* What is kept of a credential, for any number of tokens, updates,        *)
(* failures and crashes.                                                   *)

Writing       == \E k \in Kinds : updater[k].pc = "fill"
Deleting      == updater["delete"].pc = "delete"
BucketOrTable == store \in {"object", "postgres"}

\* Every token is one that was issued.
Issued(c) == c.token <= issued
TokensIssued ==
  /\ Issued(managed) /\ Issued(authFile) /\ Issued(head) /\ Issued(remote)
  /\ Issued(watch.seen) /\ Issued(watch.apply)
  /\ \A k \in Kinds : Issued(updater[k].copy)

\* Each kind of update goes its own way, with a credential that exists.
UpdatesKept ==
  /\ Exists(managed)
  /\ \A k \in Kinds :
       /\ updater[k].pc \in {"ask", "info", "adopt"} => k = "refresh"
       /\ updater[k].pc \in {"delete", "disable"} => k = "delete"
       /\ updater[k].pc \notin {"idle", "delete", "disable"} => Exists(updater[k].copy)
       /\ k # "delete" /\ updater[k].pc # "idle" => Full(updater[k].copy)
       /\ updater[k].pc = "ask" => updater[k].left >= 1

\* An upload finds the file unless a delete is under way.
UploadFinds == BucketOrTable /\ StoreLocked => Exists(authFile) \/ Deleting

\* Bucket and table, whatever crosses: the mirror is that of the file or about
\* to be, unless a call failed.
MirrorFollows ==
  BucketOrTable /\ crossed # "crash" /\ failed = 0 => remote = Mirrored \/ StoreLocked \/ Deleting

\* One update at a time, and the watcher is done with the one before.
Before(k) == k # "delete" /\ updater[k].pc \in {"ask", "info", "adopt", "save", "lock"}
Alone ==
  /\ \A j, k \in Kinds : ~NotUpdating(j) /\ ~NotUpdating(k) => j = k
  /\ \A k \in Kinds : Before(k) => ~Watching

\* A delete has removed the file, and saves nothing.
DeleteKept ==
  ~NotUpdating("delete") =>
    /\ authFile = Missing /\ kept = Missing
    /\ updater["delete"].pc \in {"delete", "disable", "save"}
    /\ updater["delete"].pc = "save" => updater["delete"].copy.off

\* The file has what the last update left or what this one is writing.
FileKept ==
  /\ authFile = Torn <=> Writing
  /\ authFile = Torn \/ authFile = Missing \/ Full(authFile)
  /\ \A k \in Kinds : updater[k].pc = "fill" => store = "file" \/ k = "login"
  /\ \A k \in Kinds : updater[k].pc = "upload" => authFile = Written(k)
  /\ ~StoreLocked => authFile.token = kept.token

\* The watcher has seen the file or is about to look; a login's token is new to
\* it and to the repository.
SeenKept ==
  /\ watch.seen # authFile => watch.notice \/ Writing
  /\ watch.seen # Torn
  /\ updater["login"].pc \in {"save", "lock", "fill"} =>
       /\ watch.seen.token < updater["login"].copy.token
       /\ store = "git" => head.token < updater["login"].copy.token

\* The watcher will have the store sync the file.
WillSync == watch.sync \/ (watch.notice /\ watch.seen # authFile) \/ Writing

\* A bucket or a table that is behind will be synced, unless that has failed.
BucketKept ==
  BucketOrTable /\ remote # Mirrored =>
    /\ failed = 0 => WillSync
    /\ failed = 1 => WillSync \/ Deleting

\* What is not committed will be, and what is committed is pushed unless that
\* has failed.
RepositoryKept ==
  store = "git" =>
    /\ head # Torn
    /\ head # authFile => StoreLocked \/ WillSync
    /\ head = authFile /\ failed = 0 => remote = authFile

\* The provider still takes what is in memory, in the file, on its way to either
\* or about to be saved, unless a refresh is about to replace it.
Good(c) == c.token \notin spent
TokensGood ==
  ~dropped =>
    /\ updater["refresh"].pc \notin {"info", "adopt"} => Good(managed)
    /\ \A k \in Kinds :
         updater[k].pc \notin {"idle", "ask", "delete", "disable"} => Good(updater[k].copy)
    /\ updater["refresh"].pc \notin {"info", "adopt", "save", "lock"} => Good(authFile)
    /\ watch.applying => Good(watch.apply)

\* While nothing has crossed.
UncrossedInv ==
  Alone /\ DeleteKept /\ FileKept /\ SeenKept /\ BucketKept /\ RepositoryKept /\ TokensGood

TokenInv ==
  /\ TokenTypeOK /\ TokensIssued /\ UpdatesKept /\ UploadFinds /\ MirrorFollows
  /\ crossed = "no" => UncrossedInv
----------------------------------------------------------------------------
LEMMA ContentFacts ==
  /\ Missing \in Contents /\ Torn \in Contents /\ Missing # Torn
  /\ Missing.token = -1 /\ Torn.token = 0 /\ Missing.off = FALSE /\ Torn.off = FALSE
  /\ \A c \in Contents : /\ c.token \in Int /\ c.off \in BOOLEAN
                        /\ c.token = 0 /\ ~c.off => c = Torn
                        /\ [c EXCEPT !.off = FALSE] \in Contents
                        /\ [c EXCEPT !.off = FALSE].token = c.token
                        /\ [c EXCEPT !.off = TRUE] \in Contents
                        /\ [c EXCEPT !.off = TRUE].token = c.token
                        /\ [c EXCEPT !.off = TRUE].off
<1> USE TokenAssumption DEF Contents, Content, Missing, Torn
<1>1. Missing \in Contents /\ Torn \in Contents /\ Missing # Torn
  OBVIOUS
<1>2. Missing.token = -1 /\ Torn.token = 0 /\ Missing.off = FALSE /\ Torn.off = FALSE
  OBVIOUS
<1>3. ASSUME NEW c \in Contents
      PROVE  /\ c.token \in Int /\ c.off \in BOOLEAN
             /\ c.token = 0 /\ ~c.off => c = Torn
             /\ [c EXCEPT !.off = FALSE] \in Contents
             /\ [c EXCEPT !.off = FALSE].token = c.token
             /\ [c EXCEPT !.off = TRUE] \in Contents
             /\ [c EXCEPT !.off = TRUE].token = c.token
             /\ [c EXCEPT !.off = TRUE].off
  <2>1. c.token \in Int /\ c.off \in BOOLEAN
    OBVIOUS
  <2>2. c.token = 0 /\ ~c.off => c = Torn
    <3>1. c = [token |-> c.token, off |-> c.off]
      OBVIOUS
    <3>2. QED
      BY <2>1, <3>1
  <2>3. /\ [c EXCEPT !.off = FALSE] \in Contents
        /\ [c EXCEPT !.off = FALSE].token = c.token
    OBVIOUS
  <2>4. /\ [c EXCEPT !.off = TRUE] \in Contents
        /\ [c EXCEPT !.off = TRUE].token = c.token
        /\ [c EXCEPT !.off = TRUE].off
    OBVIOUS
  <2>5. QED
    BY <2>1, <2>2, <2>3, <2>4
<1>4. QED
  BY <1>1, <1>2, <1>3

LEMMA TokenTypes == \A c \in Contents : c.token \in Int /\ c.off \in BOOLEAN
  BY DEF Contents

\* One update goes on.
LEMMA OneGoes ==
  ASSUME NEW f \in [Kinds -> Updating], NEW k \in Kinds, NEW u \in Updating
  PROVE  /\ [f EXCEPT ![k] = u] \in [Kinds -> Updating]
         /\ [f EXCEPT ![k] = u][k] = u
         /\ \A j \in Kinds \ {k} : [f EXCEPT ![k] = u][j] = f[j]
  OBVIOUS

LEMMA RestFacts == Rest \in Updating /\ Rest.pc = "idle" /\ Rest.copy = Missing
  BY ContentFacts DEF Rest, Updating

Only(k) == \A j \in Kinds \ {k} : updater'[j] = updater[j]

\* Update k goes on to pc p with the copy c.
UpdateGoesOn(k, p, c) ==
  /\ updater' \in [Kinds -> Updating]
  /\ updater'[k].pc = p /\ updater'[k].copy = c
  /\ Only(k)

LEMMA GoesFacts ==
  ASSUME updater \in [Kinds -> Updating], NEW k \in Kinds,
         NEW p \in {"idle", "ask", "info", "adopt", "save", "lock", "fill", "upload", "delete", "disable"},
         Goes(k, p)
  PROVE  UpdateGoesOn(k, p, updater[k].copy)
<1>1. updater' = [updater EXCEPT ![k].pc = p]
  BY DEF Goes
<1>2. /\ [updater EXCEPT ![k].pc = p] \in [Kinds -> Updating]
      /\ [updater EXCEPT ![k].pc = p][k].pc = p
      /\ [updater EXCEPT ![k].pc = p][k].copy = updater[k].copy
      /\ \A j \in Kinds \ {k} : [updater EXCEPT ![k].pc = p][j] = updater[j]
  BY DEF Updating
<1>3. QED
  BY <1>1, <1>2 DEF UpdateGoesOn, Only

LEMMA RestsFacts ==
  ASSUME updater \in [Kinds -> Updating], NEW k \in Kinds, Rests(k)
  PROVE  UpdateGoesOn(k, "idle", Missing)
  BY OneGoes, RestFacts DEF UpdateGoesOn, Only, Rests

LEMMA BecomesFacts ==
  ASSUME updater \in [Kinds -> Updating], NEW k \in Kinds, NEW u \in Updating,
         updater' = [updater EXCEPT ![k] = u]
  PROVE  UpdateGoesOn(k, u.pc, u.copy)
  BY OneGoes DEF UpdateGoesOn, Only

\* A step of an update that touches neither the file nor its mirrors.
LEMMA AsideKeeps ==
  ASSUME TokenInv, NEW k \in Kinds, Only(k),
         UNCHANGED <<store, authFile, head, remote, watch>>,
         kept' = kept \/ kept' = authFile,
         UNCHANGED failed \/ (store = "git" /\ crossed' # "no"),
         updater[k].pc \notin {"fill", "upload", "delete"},
         updater'[k].pc \notin {"fill", "upload", "delete"},
         crossed' = crossed \/ (crossed = "no" /\ crossed' = "update")
  PROVE  /\ UploadFinds' /\ MirrorFollows'
         /\ crossed' = "no" => FileKept' /\ BucketKept' /\ RepositoryKept'
<1>1. /\ StoreLocked' <=> StoreLocked
      /\ Writing' <=> Writing
      /\ Deleting' <=> Deleting
  BY DEF Only, StoreLocked, Writing, Deleting, Kinds
<1>2. UploadFinds'
  BY <1>1 DEF TokenInv, UploadFinds, BucketOrTable
<1>3. Mirrored' = Mirrored
  BY DEF Mirrored
<1>4. MirrorFollows'
  BY <1>1, <1>3 DEF TokenInv, MirrorFollows, BucketOrTable
<1>5. ASSUME crossed' = "no" PROVE FileKept' /\ BucketKept' /\ RepositoryKept'
  <2>1. UncrossedInv /\ UNCHANGED failed
    BY <1>5 DEF TokenInv
  <2>2. \A j \in Kinds : updater'[j].pc \in {"fill", "upload"} => j # k /\ updater'[j] = updater[j]
    BY DEF Only
  <2>3. FileKept'
    BY <1>1, <2>1, <2>2 DEF UncrossedInv, FileKept, Written
  <2>4. WillSync' <=> WillSync
    BY <1>1 DEF WillSync
  <2>5. BucketKept' /\ RepositoryKept'
    BY <1>1, <1>3, <2>1, <2>4 DEF UncrossedInv, BucketKept, RepositoryKept, BucketOrTable
  <2>6. QED
    BY <2>3, <2>5
<1>6. QED
  BY <1>2, <1>4, <1>5

LEMMA BeginsFacts ==
  ASSUME NEW k, Begins(k)
  PROVE  /\ updater[k].pc = "idle"
         /\ crossed' = crossed \/ (crossed = "no" /\ crossed' = "update")
         /\ crossed' = "no" => crossed = "no" /\ Quiet
  BY DEF Begins, NotUpdating

\* What is known of an update that begins while nothing has crossed.
LEMMA QuietFacts ==
  ASSUME TokenInv, crossed = "no", Quiet
  PROVE  /\ \A k \in Kinds : updater[k].pc = "idle"
         /\ ~Watching /\ ~StoreLocked /\ ~Writing /\ ~Deleting
         /\ watch.seen = authFile /\ authFile.token = kept.token
         /\ store = "git" => head = authFile
         /\ authFile = Missing \/ Full(authFile)
         /\ ~dropped => Good(managed) /\ Good(authFile)
<1>1. /\ \A k \in Kinds : updater[k].pc = "idle"
      /\ ~Watching
  BY DEF Quiet, NotUpdating
<1>2. ~StoreLocked /\ ~Writing /\ ~Deleting
  BY <1>1 DEF StoreLocked, Writing, Deleting, Kinds
<1>3. UncrossedInv
  BY DEF TokenInv
<1>4. watch.seen = authFile
  BY <1>1, <1>2, <1>3 DEF UncrossedInv, SeenKept, Watching
<1>5. authFile.token = kept.token /\ (authFile = Missing \/ Full(authFile))
  BY <1>2, <1>3 DEF UncrossedInv, FileKept
<1>6. store = "git" => head = authFile
  BY <1>1, <1>2, <1>3 DEF UncrossedInv, RepositoryKept, WillSync, Watching
<1>7. ~dropped => Good(managed) /\ Good(authFile)
  BY <1>1, <1>3 DEF UncrossedInv, TokensGood, Kinds
<1>8. QED
  BY <1>1, <1>2, <1>4, <1>5, <1>6, <1>7
----------------------------------------------------------------------------
(* Updates before they come to the file.                                   *)

LEMMA RefreshBeginsKeeps ==
  ASSUME TokenInv, RefreshBegins
  PROVE  TokenInv'
<1>1. UpdateGoesOn("refresh", "ask", managed) /\ updater'["refresh"].left >= 1
  <2>1. [pc |-> "ask", copy |-> managed, left |-> habit.attempts] \in Updating /\ habit.attempts >= 1
    BY DEF TokenInv, TokenTypeOK, Updating, Habits, CodexRefresh, ClaudeRefresh, QwenRefresh,
           IFlowRefresh, IFlowCookieRefresh, AntigravityRefresh, Habit
  <2>2. updater' = [updater EXCEPT !["refresh"] = [pc |-> "ask", copy |-> managed, left |-> habit.attempts]]
    BY DEF RefreshBegins
  <2>3. QED
    BY <2>1, <2>2, BecomesFacts DEF TokenInv, TokenTypeOK, Kinds
<1>2. /\ updater["refresh"].pc = "idle"
      /\ crossed' = crossed \/ (crossed = "no" /\ crossed' = "update")
      /\ crossed' = "no" => crossed = "no" /\ Quiet
  BY BeginsFacts DEF RefreshBegins
<1>3. TokenTypeOK'
  BY <1>1, <1>2, TokenAssumption DEF RefreshBegins, Begins, UpdateGoesOn, TokenInv, TokenTypeOK
<1>4. TokensIssued'
  BY <1>1 DEF RefreshBegins, UpdateGoesOn, Only, TokenInv, TokensIssued, Issued
<1>5. UpdatesKept'
  BY <1>1 DEF RefreshBegins, UpdateGoesOn, Only, TokenInv, UpdatesKept, Exists, Full
<1>6. /\ UploadFinds' /\ MirrorFollows'
      /\ crossed' = "no" => FileKept' /\ BucketKept' /\ RepositoryKept'
  BY <1>1, <1>2, AsideKeeps DEF RefreshBegins, UpdateGoesOn, Kinds
<1>7. ASSUME crossed' = "no" PROVE Alone' /\ DeleteKept' /\ SeenKept' /\ TokensGood'
  <2>1. crossed = "no" /\ Quiet /\ UncrossedInv
    BY <1>2, <1>7 DEF TokenInv
  <2>2. \A j \in Kinds \ {"refresh"} : updater'[j].pc = "idle"
    BY <1>1, <2>1, QuietFacts DEF UpdateGoesOn, Only
  <2>3. Alone'
    BY <2>1, <2>2, QuietFacts DEF Alone, NotUpdating, Before, RefreshBegins, Watching
  <2>4. DeleteKept' /\ SeenKept'
    BY <1>1, <2>1, <2>2, QuietFacts DEF DeleteKept, NotUpdating, SeenKept, Writing, UncrossedInv, Kinds, RefreshBegins,
       UpdateGoesOn
  <2>5. TokensGood'
    BY <1>1, <2>1, <2>2, QuietFacts DEF TokensGood, Good, UncrossedInv, UpdateGoesOn, RefreshBegins, Kinds
  <2>6. QED
    BY <2>3, <2>4, <2>5
<1>8. QED
  BY <1>3, <1>4, <1>5, <1>6, <1>7 DEF TokenInv, UncrossedInv

\* What a request's result and the console save is what is in memory.
LEMMA ResultMarkedKeeps ==
  ASSUME TokenInv, ResultMarked
  PROVE  TokenInv'
<1>1. UpdateGoesOn("result", "save", managed)
  <2>1. [pc |-> "save", copy |-> managed, left |-> 0] \in Updating
    BY DEF TokenInv, TokenTypeOK, Updating
  <2>2. updater' = [updater EXCEPT !["result"] = [pc |-> "save", copy |-> managed, left |-> 0]]
    BY DEF ResultMarked
  <2>3. QED
    BY <2>1, <2>2, BecomesFacts DEF TokenInv, TokenTypeOK, Kinds
<1>2. /\ updater["result"].pc = "idle"
      /\ crossed' = crossed \/ (crossed = "no" /\ crossed' = "update")
      /\ crossed' = "no" => crossed = "no" /\ Quiet
  BY BeginsFacts DEF ResultMarked
<1>3. TokenTypeOK'
  BY <1>1, <1>2, TokenAssumption DEF ResultMarked, Begins, UpdateGoesOn, TokenInv, TokenTypeOK
<1>4. TokensIssued'
  BY <1>1 DEF ResultMarked, UpdateGoesOn, Only, TokenInv, TokensIssued, Issued
<1>5. UpdatesKept'
  BY <1>1 DEF ResultMarked, UpdateGoesOn, Only, TokenInv, UpdatesKept, Exists, Full
<1>6. /\ UploadFinds' /\ MirrorFollows'
      /\ crossed' = "no" => FileKept' /\ BucketKept' /\ RepositoryKept'
  BY <1>1, <1>2, AsideKeeps DEF ResultMarked, UpdateGoesOn, Kinds
<1>7. ASSUME crossed' = "no" PROVE Alone' /\ DeleteKept' /\ SeenKept' /\ TokensGood'
  <2>1. crossed = "no" /\ Quiet /\ UncrossedInv
    BY <1>2, <1>7 DEF TokenInv
  <2>2. \A j \in Kinds \ {"result"} : updater'[j].pc = "idle"
    BY <1>1, <2>1, QuietFacts DEF UpdateGoesOn, Only
  <2>3. Alone'
    BY <2>1, <2>2, QuietFacts DEF Alone, NotUpdating, Before, ResultMarked, Watching
  <2>4. DeleteKept' /\ SeenKept'
    BY <1>1, <2>1, <2>2, QuietFacts DEF DeleteKept, NotUpdating, SeenKept, Writing, UncrossedInv, Kinds, ResultMarked,
       UpdateGoesOn
  <2>5. TokensGood'
    BY <1>1, <2>1, <2>2, QuietFacts DEF TokensGood, Good, UncrossedInv, UpdateGoesOn, ResultMarked, Kinds
  <2>6. QED
    BY <2>3, <2>4, <2>5
<1>8. QED
  BY <1>3, <1>4, <1>5, <1>6, <1>7 DEF TokenInv, UncrossedInv

LEMMA StatusSetKeeps ==
  ASSUME TokenInv, StatusSet
  PROVE  TokenInv'
<1>1. /\ managed' \in Contents /\ managed'.token = managed.token
  BY DEF StatusSet, TokenInv, TokenTypeOK, Contents
<1>2. UpdateGoesOn("status", "save", managed')
  <2>1. [pc |-> "save", copy |-> managed', left |-> 0] \in Updating
    BY <1>1 DEF Updating
  <2>2. updater' = [updater EXCEPT !["status"] = [pc |-> "save", copy |-> managed', left |-> 0]]
    BY DEF StatusSet
  <2>3. QED
    BY <2>1, <2>2, BecomesFacts DEF TokenInv, TokenTypeOK, Kinds
<1>3. /\ updater["status"].pc = "idle"
      /\ crossed' = crossed \/ (crossed = "no" /\ crossed' = "update")
      /\ crossed' = "no" => crossed = "no" /\ Quiet
  BY BeginsFacts DEF StatusSet
<1>4. TokenTypeOK'
  BY <1>1, <1>2, <1>3, TokenAssumption DEF StatusSet, Begins, UpdateGoesOn, TokenInv, TokenTypeOK
<1>5. TokensIssued'
  BY <1>1, <1>2 DEF StatusSet, UpdateGoesOn, Only, TokenInv, TokensIssued, Issued
<1>6. UpdatesKept'
  BY <1>1, <1>2 DEF StatusSet, UpdateGoesOn, Only, TokenInv, UpdatesKept, Exists, Full
<1>7. /\ UploadFinds' /\ MirrorFollows'
      /\ crossed' = "no" => FileKept' /\ BucketKept' /\ RepositoryKept'
  BY <1>2, <1>3, AsideKeeps DEF StatusSet, UpdateGoesOn, Kinds
<1>8. ASSUME crossed' = "no" PROVE Alone' /\ DeleteKept' /\ SeenKept' /\ TokensGood'
  <2>1. crossed = "no" /\ Quiet /\ UncrossedInv
    BY <1>3, <1>8 DEF TokenInv
  <2>2. \A j \in Kinds \ {"status"} : updater'[j].pc = "idle"
    BY <1>2, <2>1, QuietFacts DEF UpdateGoesOn, Only
  <2>3. Alone'
    BY <2>1, <2>2, QuietFacts DEF Alone, NotUpdating, Before, StatusSet, Watching
  <2>4. DeleteKept' /\ SeenKept'
    BY <1>2, <2>1, <2>2, QuietFacts DEF DeleteKept, NotUpdating, SeenKept, Writing, UncrossedInv, Kinds, StatusSet,
       UpdateGoesOn
  <2>5. TokensGood'
    BY <1>1, <1>2, <2>1, <2>2, QuietFacts DEF TokensGood, Good, UncrossedInv, UpdateGoesOn, StatusSet, Kinds
  <2>6. QED
    BY <2>3, <2>4, <2>5
<1>9. QED
  BY <1>4, <1>5, <1>6, <1>7, <1>8 DEF TokenInv, UncrossedInv

\* A login's token is a new one.
LEMMA LoginSavesKeeps ==
  ASSUME TokenInv, LoginSaves
  PROVE  TokenInv'
<1>1. /\ issued' = issued + 1 /\ issued' \in 1..TokenLimit /\ issued \in Nat
  BY TokenAssumption DEF LoginSaves, TokenInv, TokenTypeOK
<1>0. UNCHANGED <<store, habit, spent, managed, authFile, head, remote, watch, kept, failed, dropped,
                   failures, crashes>>
  BY DEF LoginSaves, Content
<1> PICK n \in 1..TokenLimit : n = issued'
  BY <1>1
<1>a. Content(n, FALSE) \in Contents /\ Content(n, FALSE).token = n
  BY TokenAssumption DEF Content, Contents
<1>b. updater' = [updater EXCEPT !["login"] = [pc |-> "save", copy |-> Content(n, FALSE), left |-> 0]]
  BY DEF LoginSaves, Content
<1> PICK new \in Contents :
      /\ new.token = issued'
      /\ updater' = [updater EXCEPT !["login"] = [pc |-> "save", copy |-> new, left |-> 0]]
  BY <1>a, <1>b
<1>2. UpdateGoesOn("login", "save", new)
  <2>1. [pc |-> "save", copy |-> new, left |-> 0] \in Updating
    BY DEF Updating
  <2>2. QED
    BY <2>1, BecomesFacts DEF TokenInv, TokenTypeOK, Kinds
<1>3. /\ updater["login"].pc = "idle"
      /\ crossed' = crossed \/ (crossed = "no" /\ crossed' = "update")
      /\ crossed' = "no" => crossed = "no" /\ Quiet
  BY BeginsFacts DEF LoginSaves
<1>4. TokenTypeOK'
  BY <1>1, <1>2, <1>3, TokenAssumption DEF LoginSaves, Begins, UpdateGoesOn, TokenInv, TokenTypeOK
<1>5. TokensIssued'
  <2>1. \A c \in Contents : Issued(c) => c.token <= issued'
    BY <1>1, TokenTypes DEF Issued
  <2>2. /\ watch.seen \in Contents /\ watch.apply \in Contents
        /\ \A j \in Kinds : updater[j].copy \in Contents
    BY DEF TokenInv, TokenTypeOK, Watch, Updating
  <2>3. QED
    BY <1>0, <1>1, <1>2, <2>1, <2>2 DEF UpdateGoesOn, Only, TokenInv, TokensIssued, Issued, TokenTypeOK
<1>6. UpdatesKept'
  BY <1>0, <1>1, <1>2 DEF UpdateGoesOn, Only, TokenInv, UpdatesKept, Exists, Full
<1>7. /\ UploadFinds' /\ MirrorFollows'
      /\ crossed' = "no" => FileKept' /\ BucketKept' /\ RepositoryKept'
  BY <1>2, <1>3, AsideKeeps DEF LoginSaves, UpdateGoesOn, Kinds
<1>8. ASSUME crossed' = "no" PROVE Alone' /\ DeleteKept' /\ SeenKept' /\ TokensGood'
  <2>1. crossed = "no" /\ Quiet /\ UncrossedInv
    BY <1>3, <1>8 DEF TokenInv
  <2>2. \A j \in Kinds \ {"login"} : updater'[j].pc = "idle"
    BY <1>2, <2>1, QuietFacts DEF UpdateGoesOn, Only
  <2>3. Alone'
    BY <2>1, <2>2, QuietFacts DEF Alone, NotUpdating, Before, LoginSaves, Watching
  <2>4. DeleteKept'
    BY <2>2 DEF DeleteKept, NotUpdating, Kinds
  <2>5. authFile.token < issued' /\ head.token < issued'
    BY <1>1, TokenTypes DEF TokenInv, TokensIssued, Issued, TokenTypeOK
  <2>6. SeenKept'
    BY <1>1, <1>2, <2>1, <2>5, QuietFacts DEF SeenKept, UncrossedInv, LoginSaves, UpdateGoesOn
  <2>7. issued' \notin spent
    BY <1>1 DEF TokenInv, TokenTypeOK
  <2>8. TokensGood'
    BY <1>0, <1>1, <1>2, <2>1, <2>2, <2>7, QuietFacts DEF TokensGood, Good, UncrossedInv, UpdateGoesOn, Kinds
  <2>9. QED
    BY <2>3, <2>4, <2>6, <2>8
<1>9. QED
  BY <1>4, <1>5, <1>6, <1>7, <1>8 DEF TokenInv, UncrossedInv

\* A refresh that asks, or is done, is alone while nothing has crossed.
LEMMA AloneFacts ==
  ASSUME TokenInv, crossed = "no", NEW k \in Kinds, updater[k].pc # "idle"
  PROVE  \A j \in Kinds \ {k} : updater[j].pc = "idle"
  BY DEF TokenInv, UncrossedInv, Alone, NotUpdating

\* A step of an update on its way to the file.
LEMMA AsideUncrossed ==
  ASSUME TokenInv, crossed = "no", NEW k \in Kinds \ {"delete"}, Only(k),
         UNCHANGED <<store, authFile, head, watch>>,
         Before(k), updater'[k].pc \in {"idle", "ask", "info", "adopt", "save", "lock"},
         k = "login" => updater[k].pc \in {"save", "lock"},
         k = "login" => updater'[k].copy = updater[k].copy \/ updater'[k].pc = "idle"
  PROVE  Alone' /\ DeleteKept' /\ SeenKept'
<1>1. UncrossedInv
  BY DEF TokenInv
<1>2. \A j \in Kinds \ {k} : updater[j].pc = "idle" /\ updater'[j].pc = "idle"
  BY AloneFacts DEF Before, Only
<1>3. ~Watching /\ ~Watching'
  BY <1>1 DEF UncrossedInv, Alone, Watching
<1>4. Alone'
  BY <1>2, <1>3 DEF Alone, NotUpdating, Before
<1>5. DeleteKept'
  BY <1>2 DEF DeleteKept, NotUpdating, Kinds
<1>6. ~Writing /\ ~Writing'
  BY <1>2 DEF Writing, Before
<1>7. updater'["login"].pc \in {"save", "lock", "fill"} =>
        updater["login"].pc \in {"save", "lock", "fill"} /\ updater'["login"].copy = updater["login"].copy
  BY <1>2 DEF Kinds, Before
<1>8. SeenKept'
  BY <1>1, <1>6, <1>7 DEF UncrossedInv, SeenKept
<1>9. QED
  BY <1>4, <1>5, <1>8

\* What comes of asking: a new token, another try, or nothing.
LEMMA AskFacts ==
  ASSUME TokenInv, AsksForToken
  PROVE  /\ updater["refresh"].pc = "ask"
         /\ issued' \in 1..TokenLimit /\ issued <= issued' /\ spent \subseteq spent'
         /\ spent' \subseteq 1..issued'
         /\ dropped' \in BOOLEAN /\ failures' \in 0..FailureLimit /\ (dropped => dropped')
         /\ \E p \in {"info", "adopt", "ask", "idle"}, c \in Contents :
              /\ UpdateGoesOn("refresh", p, c)
              /\ p \in {"info", "adopt"} => c.token = issued' /\ issued' \notin spent'
              /\ p = "ask" => c = updater["refresh"].copy /\ updater'["refresh"].left >= 1
              /\ p = "idle" => c = Missing
              /\ p \in {"ask", "idle"} /\ ~dropped' => spent' = spent
<1> DEFINE u == updater["refresh"]
<1>1. /\ u \in Updating /\ u.pc = "ask" /\ u.left >= 1 /\ u.copy.token \in 1..issued
      /\ u.copy \in Contents /\ issued \in 1..TokenLimit /\ spent \subseteq 1..issued
  BY TokenTypes DEF AsksForToken, TokenInv, TokenTypeOK, TokensIssued, Issued, UpdatesKept, Full, Kinds, Updating
<1>2. updater \in [Kinds -> Updating] /\ "refresh" \in Kinds
  BY DEF TokenInv, TokenTypeOK, Kinds
<1>3. dropped \in BOOLEAN /\ failures \in 0..FailureLimit /\ FailureLimit \in Nat
  BY TokenAssumption DEF TokenInv, TokenTypeOK
<1>4. MayFail(TRUE) => failures' \in 0..FailureLimit
  BY <1>3 DEF MayFail
<1>5. ASSUME updater' = [updater EXCEPT !["refresh"] =
                           IF u.left = 1 THEN Rest ELSE [u EXCEPT !.left = @ - 1]]
      PROVE  \E p \in {"ask", "idle"}, c \in Contents :
               /\ UpdateGoesOn("refresh", p, c)
               /\ p = "ask" => c = u.copy /\ updater'["refresh"].left >= 1
               /\ p = "idle" => c = Missing
  <2>1. CASE u.left = 1
    BY <1>2, <1>5, <2>1, BecomesFacts, RestFacts, ContentFacts
  <2>2. CASE u.left # 1
    <3> DEFINE w == [u EXCEPT !.left = @ - 1]
    <3>1. w \in Updating /\ w.pc = "ask" /\ w.copy = u.copy /\ w.left >= 1
      BY <1>1, <2>2 DEF Updating
    <3>2. updater' = [updater EXCEPT !["refresh"] = w]
      BY <1>5, <2>2
    <3> HIDE DEF w, u
    <3>3. UpdateGoesOn("refresh", "ask", u.copy)
      BY <1>2, <3>1, <3>2, BecomesFacts
    <3>4. updater'["refresh"].left >= 1
      BY <1>2, <3>1, <3>2
    <3>5. QED
      BY <1>1, <3>3, <3>4
  <2>3. QED
    BY <2>1, <2>2
<1>6. CASE /\ u.copy.token \notin spent /\ issued < TokenLimit
           /\ issued' = issued + 1
           /\ spent' = (IF habit.rotates THEN spent \cup {u.copy.token} ELSE spent)
           /\ updater' = [updater EXCEPT !["refresh"] =
                               [pc |-> IF habit.info THEN "info" ELSE "adopt", left |-> 0,
                                copy |-> [u.copy EXCEPT !.token = issued']]]
           /\ UNCHANGED <<dropped, failures>>
  <2>0. /\ issued < TokenLimit /\ issued' = issued + 1
        /\ spent' = spent \/ spent' = spent \cup {u.copy.token}
        /\ UNCHANGED <<dropped, failures>>
    BY <1>6
  <2> PICK n \in 1..TokenLimit : n = issued'
    BY <1>1, <2>0, TokenAssumption
  <2> DEFINE c == [u.copy EXCEPT !.token = n]
             p == IF habit.info THEN "info" ELSE "adopt"
             w == [pc |-> p, copy |-> c, left |-> 0]
  <2>1. c \in Contents /\ c.token = n
    BY <1>1, TokenAssumption DEF Contents
  <2>2. w \in Updating /\ w.pc = p /\ w.copy = c
    BY <2>1 DEF Updating
  <2>3. updater' = [updater EXCEPT !["refresh"] = w]
    BY <1>6
  <2> HIDE DEF w
  <2>4. UpdateGoesOn("refresh", p, c)
    BY <1>2, <2>2, <2>3, BecomesFacts, ZenonT(60)
  <2> HIDE DEF c
  <2>5. /\ issued' \notin spent' /\ spent' \subseteq 1..issued' /\ spent \subseteq spent'
        /\ issued' \in 1..TokenLimit /\ issued <= issued'
    <3>1. /\ issued' \in 1..TokenLimit /\ issued <= issued'
          /\ 1..issued \subseteq 1..issued' /\ issued' \in 1..issued' /\ issued' \notin 1..issued
      BY <1>1, <2>0, TokenAssumption
    <3>2. u.copy.token \in 1..issued /\ spent \subseteq 1..issued
      BY <1>1
    <3>3. QED
      BY <2>0, <3>1, <3>2
  <2>6. p \in {"info", "adopt"}
    OBVIOUS
  <2> HIDE DEF p
  <2>7. QED
    BY <1>1, <1>3, <2>0, <2>1, <2>4, <2>5, <2>6
<1>7. CASE /\ issued < TokenLimit /\ issued' = issued + 1
           /\ spent' = (IF habit.rotates THEN spent \cup {u.copy.token} ELSE spent)
           /\ MayFail(TRUE) /\ dropped' = TRUE
           /\ updater' = [updater EXCEPT !["refresh"] =
                               IF u.left = 1 THEN Rest ELSE [u EXCEPT !.left = @ - 1]]
  <2>1. /\ spent' \subseteq 1..issued' /\ spent \subseteq spent'
        /\ issued' \in 1..TokenLimit /\ issued <= issued'
    BY <1>1, <1>7, TokenAssumption
  <2>2. PICK p \in {"ask", "idle"}, c \in Contents :
          /\ UpdateGoesOn("refresh", p, c)
          /\ p = "ask" => c = u.copy /\ updater'["refresh"].left >= 1
          /\ p = "idle" => c = Missing
    BY <1>5, <1>7
  <2>3. /\ updater["refresh"].pc = "ask" /\ dropped' = TRUE /\ dropped' \in BOOLEAN
        /\ failures' \in 0..FailureLimit
    BY <1>1, <1>4, <1>7
  <2>4. QED
    BY <2>1, <2>2, <2>3
<1>8. CASE /\ MayFail(TRUE)
           /\ updater' = [updater EXCEPT !["refresh"] =
                               IF u.left = 1 THEN Rest ELSE [u EXCEPT !.left = @ - 1]]
           /\ UNCHANGED <<issued, spent, dropped>>
  BY <1>1, <1>3, <1>4, <1>5, <1>8
<1>9. CASE Rests("refresh") /\ UNCHANGED <<issued, spent, dropped, failures>>
  BY <1>1, <1>2, <1>3, <1>9, RestsFacts, ContentFacts
<1>10. QED
  BY <1>1, <1>6, <1>7, <1>8, <1>9 DEF AsksForToken

LEMMA AsksForTokenKeeps ==
  ASSUME TokenInv, AsksForToken
  PROVE  TokenInv'
<1>0. UNCHANGED <<store, habit, managed, authFile, head, remote, watch, kept, crossed, failed,
                  updates, crashes>>
  BY DEF AsksForToken
<1>1. PICK p \in {"info", "adopt", "ask", "idle"}, c \in Contents :
        /\ UpdateGoesOn("refresh", p, c)
        /\ p \in {"info", "adopt"} => c.token = issued' /\ issued' \notin spent'
        /\ p = "ask" => c = updater["refresh"].copy /\ updater'["refresh"].left >= 1
        /\ p = "idle" => c = Missing
        /\ p \in {"ask", "idle"} /\ ~dropped' => spent' = spent
  BY AskFacts
<1>2. /\ updater["refresh"].pc = "ask" /\ "refresh" \in Kinds
      /\ issued' \in 1..TokenLimit /\ issued <= issued' /\ issued \in Int
      /\ spent' \subseteq 1..issued' /\ dropped' \in BOOLEAN /\ failures' \in 0..FailureLimit
      /\ dropped => dropped'
  BY AskFacts DEF Kinds, TokenInv, TokenTypeOK
<1>3. TokenTypeOK'
  BY <1>0, <1>1, <1>2 DEF UpdateGoesOn, TokenInv, TokenTypeOK
<1>4. TokensIssued'
  <2>1. \A d \in Contents : Issued(d) => d.token <= issued'
    BY <1>2, TokenTypes DEF Issued
  <2>2. /\ watch.seen \in Contents /\ watch.apply \in Contents
        /\ \A j \in Kinds : updater[j].copy \in Contents
    BY DEF TokenInv, TokenTypeOK, Watch, Updating
  <2>3. c.token <= issued'
    <3>1. CASE p \in {"info", "adopt"}
      BY <1>1, <1>2, <3>1
    <3>2. CASE p = "ask"
      BY <1>1, <1>2, <2>1, <3>2 DEF TokenInv, TokensIssued
    <3>3. CASE p = "idle"
      BY <1>1, <1>2, <3>3, ContentFacts
    <3>4. QED
      BY <3>1, <3>2, <3>3
  <2>4. QED
    BY <1>0, <1>1, <1>2, <2>1, <2>2, <2>3 DEF UpdateGoesOn, Only, TokenInv, TokensIssued, Issued, TokenTypeOK
<1>5. UpdatesKept'
  <2>1. p # "idle" => Full(c)
    BY <1>1, <1>2, TokenTypes DEF Full, TokenInv, UpdatesKept
  <2>2. Full(c) => Exists(c)
    BY TokenTypes DEF Full, Exists
  <2>3. QED
    BY <1>0, <1>1, <1>2, <2>1, <2>2 DEF UpdateGoesOn, Only, TokenInv, UpdatesKept, Exists, Full
<1>6. /\ UploadFinds' /\ MirrorFollows'
      /\ crossed' = "no" => FileKept' /\ BucketKept' /\ RepositoryKept'
  BY <1>0, <1>1, <1>2, AsideKeeps DEF UpdateGoesOn
<1>7. ASSUME crossed' = "no" PROVE Alone' /\ DeleteKept' /\ SeenKept' /\ TokensGood'
  <2>1. crossed = "no" /\ UncrossedInv
    BY <1>0, <1>7 DEF TokenInv
  <2>2. Alone' /\ DeleteKept' /\ SeenKept'
    BY <1>0, <1>1, <1>2, <2>1, AsideUncrossed DEF UpdateGoesOn, Before
  <2>3. \A j \in Kinds \ {"refresh"} : updater'[j].pc = "idle"
    BY <1>1, <1>2, <2>1, AloneFacts DEF UpdateGoesOn, Only
  <2>4. ~watch.applying
    BY <1>2, <2>1 DEF UncrossedInv, Alone, Before, Watching
  <2>5. TokensGood'
    BY <1>0, <1>1, <1>2, <2>1, <2>3, <2>4 DEF TokensGood, Good, UncrossedInv, UpdateGoesOn
  <2>6. QED
    BY <2>2, <2>5
<1>8. QED
  BY <1>3, <1>4, <1>5, <1>6, <1>7 DEF TokenInv, UncrossedInv

LEMMA AsksForUserInfoKeeps ==
  ASSUME TokenInv, AsksForUserInfo
  PROVE  TokenInv'
<1>0. UNCHANGED <<store, habit, issued, spent, managed, authFile, head, remote, watch, kept, crossed,
                  failed, updates, crashes>>
  BY DEF AsksForUserInfo
<1>1. /\ updater["refresh"].pc = "info" /\ "refresh" \in Kinds /\ updater \in [Kinds -> Updating]
      /\ failures' \in 0..FailureLimit
  BY TokenAssumption DEF AsksForUserInfo, MayFail, Kinds, TokenInv, TokenTypeOK
<1>2. \/ UpdateGoesOn("refresh", "idle", Missing) /\ dropped' = TRUE
      \/ UpdateGoesOn("refresh", "adopt", updater["refresh"].copy) /\ UNCHANGED dropped
  BY <1>1, RestsFacts, GoesFacts DEF AsksForUserInfo
<1>3. TokenTypeOK'
  BY <1>0, <1>1, <1>2 DEF UpdateGoesOn, TokenInv, TokenTypeOK
<1>4. TokensIssued'
  BY <1>0, <1>2, ContentFacts DEF UpdateGoesOn, Only, TokenInv, TokensIssued, Issued, TokenTypeOK, Kinds
<1>5. UpdatesKept'
  BY <1>0, <1>1, <1>2 DEF UpdateGoesOn, Only, TokenInv, UpdatesKept, Exists, Full
<1>6. /\ UploadFinds' /\ MirrorFollows'
      /\ crossed' = "no" => FileKept' /\ BucketKept' /\ RepositoryKept'
  BY <1>0, <1>1, <1>2, AsideKeeps DEF UpdateGoesOn
<1>7. ASSUME crossed' = "no" PROVE Alone' /\ DeleteKept' /\ SeenKept' /\ TokensGood'
  <2>1. crossed = "no" /\ UncrossedInv
    BY <1>0, <1>7 DEF TokenInv
  <2>2. Alone' /\ DeleteKept' /\ SeenKept'
    BY <1>0, <1>1, <1>2, <2>1, AsideUncrossed DEF UpdateGoesOn, Before
  <2>3. TokensGood'
    BY <1>0, <1>1, <1>2, <2>1 DEF TokensGood, Good, UncrossedInv, UpdateGoesOn, Only
  <2>4. QED
    BY <2>2, <2>3
<1>8. QED
  BY <1>3, <1>4, <1>5, <1>6, <1>7 DEF TokenInv, UncrossedInv

\* The refreshed credential is in memory.
LEMMA RefreshAdoptedKeeps ==
  ASSUME TokenInv, RefreshAdopted
  PROVE  TokenInv'
<1>0. UNCHANGED <<store, habit, issued, spent, authFile, head, remote, watch, kept, crossed, failed,
                  dropped, updates, failures, crashes>>
  BY DEF RefreshAdopted
<1>1. /\ updater["refresh"].pc = "adopt" /\ "refresh" \in Kinds /\ updater \in [Kinds -> Updating]
      /\ managed' = updater["refresh"].copy
  BY DEF RefreshAdopted, Kinds, TokenInv, TokenTypeOK
<1>2. UpdateGoesOn("refresh", "save", updater["refresh"].copy)
  BY <1>1, GoesFacts DEF RefreshAdopted
<1>3. TokenTypeOK'
  BY <1>0, <1>1, <1>2 DEF UpdateGoesOn, TokenInv, TokenTypeOK, Updating
<1>4. TokensIssued'
  BY <1>0, <1>1, <1>2 DEF UpdateGoesOn, Only, TokenInv, TokensIssued, Issued
<1>5. UpdatesKept'
  BY <1>0, <1>1, <1>2 DEF UpdateGoesOn, Only, TokenInv, UpdatesKept, Exists, Full
<1>6. /\ UploadFinds' /\ MirrorFollows'
      /\ crossed' = "no" => FileKept' /\ BucketKept' /\ RepositoryKept'
  BY <1>0, <1>1, <1>2, AsideKeeps DEF UpdateGoesOn
<1>7. ASSUME crossed' = "no" PROVE Alone' /\ DeleteKept' /\ SeenKept' /\ TokensGood'
  <2>1. crossed = "no" /\ UncrossedInv
    BY <1>0, <1>7 DEF TokenInv
  <2>2. Alone' /\ DeleteKept' /\ SeenKept'
    BY <1>0, <1>1, <1>2, <2>1, AsideUncrossed DEF UpdateGoesOn, Before
  <2>3. TokensGood'
    BY <1>0, <1>1, <1>2, <2>1 DEF TokensGood, Good, UncrossedInv, UpdateGoesOn, Only
  <2>4. QED
    BY <2>2, <2>3
<1>8. QED
  BY <1>3, <1>4, <1>5, <1>6, <1>7 DEF TokenInv, UncrossedInv

\* A save that is given up: the repository is not ready, or a disabled
\* credential is gone.
LEMMA SaveLooksKeeps ==
  ASSUME TokenInv, NEW k \in Kinds, SaveLooks(k)
  PROVE  TokenInv'
<1> DEFINE gone == updater[k].copy.off /\ ~Exists(authFile)
<1>0. UNCHANGED <<store, habit, issued, spent, managed, authFile, head, remote, watch, kept,
                  dropped, updates, crashes>>
  BY DEF SaveLooks
<1>1. updater[k].pc = "save" /\ updater \in [Kinds -> Updating]
  BY DEF SaveLooks, TokenInv, TokenTypeOK
<1>2. PICK ready \in BOOLEAN :
        /\ gone => ready
        /\ RepositoryReady(ready)
        /\ IF gone \/ ~ready THEN Rests(k) ELSE Goes(k, "lock")
        /\ crossed' = (IF ~ready /\ crossed = "no" THEN "update" ELSE crossed)
  BY DEF SaveLooks
<1>3. /\ failed' \in 0..2 /\ failures' \in 0..FailureLimit
      /\ UNCHANGED failed \/ (store = "git" /\ crossed' # "no")
      /\ crossed' = crossed \/ (crossed = "no" /\ crossed' = "update")
      /\ crossed' = "no" => ready /\ crossed = "no"
      /\ crossed' \in {"no", "update", "crash"}
  BY <1>2, TokenAssumption DEF RepositoryReady, MirrorTried, MayFail, TokenInv, TokenTypeOK
<1>4. \/ UpdateGoesOn(k, "idle", Missing) /\ (gone \/ ~ready)
      \/ UpdateGoesOn(k, "lock", updater[k].copy) /\ ~gone /\ ready
  BY <1>1, <1>2, RestsFacts, GoesFacts
<1>5. TokenTypeOK'
  BY <1>0, <1>3, <1>4 DEF UpdateGoesOn, TokenInv, TokenTypeOK
<1>6. TokensIssued'
  BY <1>0, <1>4, ContentFacts DEF UpdateGoesOn, Only, TokenInv, TokensIssued, Issued, TokenTypeOK
<1>7. UpdatesKept'
  BY <1>0, <1>1, <1>4 DEF UpdateGoesOn, Only, TokenInv, UpdatesKept, Exists, Full
<1>8. /\ UploadFinds' /\ MirrorFollows'
      /\ crossed' = "no" => FileKept' /\ BucketKept' /\ RepositoryKept'
  BY <1>0, <1>1, <1>3, <1>4, AsideKeeps DEF UpdateGoesOn
<1>9. ASSUME crossed' = "no" PROVE Alone' /\ DeleteKept' /\ SeenKept' /\ TokensGood'
  <2>1. crossed = "no" /\ UncrossedInv /\ ready
    BY <1>3, <1>9 DEF TokenInv
  <2>2. \A j \in Kinds \ {k} : updater[j].pc = "idle" /\ updater'[j].pc = "idle"
    BY <1>1, <1>4, <2>1, AloneFacts DEF UpdateGoesOn, Only
  <2>3. ASSUME k # "delete" PROVE Alone' /\ DeleteKept' /\ SeenKept'
    BY <1>0, <1>1, <1>4, <2>1, <2>3, AsideUncrossed DEF UpdateGoesOn, Before
  <2>4. ASSUME k = "delete" PROVE Alone' /\ DeleteKept' /\ SeenKept'
    <3>1. updater[k].copy.off /\ authFile = Missing
      BY <1>1, <2>1, <2>4 DEF UncrossedInv, DeleteKept, NotUpdating
    <3>2. updater'[k].pc = "idle"
      BY <1>4, <3>1, ContentFacts DEF Exists, UpdateGoesOn
    <3>3. \A j \in Kinds : updater'[j].pc = "idle"
      BY <2>2, <3>2
    <3>4. Alone' /\ DeleteKept'
      BY <2>4, <3>2, <3>3 DEF Alone, DeleteKept, NotUpdating, Before
    <3>5. ~Writing
      BY <1>1, <2>2 DEF Writing
    <3>6. SeenKept'
      BY <1>0, <2>1, <3>3, <3>5 DEF UncrossedInv, SeenKept, Kinds
    <3>7. QED
      BY <3>4, <3>6
  <2>5. ~Exists(authFile) => Good(authFile)
    BY DEF Exists, Good, TokenInv, TokenTypeOK
  <2>6. TokensGood'
    <3>1. \A j \in Kinds : updater'[j].pc \notin {"idle", "ask", "delete", "disable"} =>
              /\ updater[j].pc \notin {"idle", "ask", "delete", "disable"}
              /\ updater'[j].copy = updater[j].copy
      BY <1>1, <1>4, <2>2 DEF UpdateGoesOn
    <3>2. updater["refresh"].pc \notin {"info", "adopt"}
      BY <1>1, <2>2 DEF Kinds
    <3>3. updater'["refresh"].pc \notin {"info", "adopt", "save", "lock"} =>
            updater["refresh"].pc \notin {"info", "adopt", "save", "lock"} \/ ~Exists(authFile)
      BY <1>4, <2>1, <2>2 DEF Kinds, UpdateGoesOn
    <3>4. QED
      BY <1>0, <2>1, <2>5, <3>1, <3>2, <3>3 DEF TokensGood, Good, UncrossedInv
  <2>7. QED
    BY <2>3, <2>4, <2>6
<1>10. QED
  BY <1>5, <1>6, <1>7, <1>8, <1>9 DEF TokenInv, UncrossedInv

LEMMA WrittenFacts ==
  ASSUME TokenInv, NEW k \in Kinds
  PROVE  Written(k) \in Contents /\ Written(k).token = updater[k].copy.token
<1>1. updater[k].copy \in Contents
  BY DEF TokenInv, TokenTypeOK, Updating
<1>2. QED
  BY <1>1 DEF Written, Contents

\* Nothing new to save.
LEMMA SaveUnneededKeeps ==
  ASSUME TokenInv, NEW k \in Kinds, SaveUnneeded(k)
  PROVE  TokenInv'
<1>0. UNCHANGED <<store, habit, issued, spent, managed, authFile, head, remote, watch, crossed,
                  failed, dropped, updates, failures, crashes>>
  BY DEF SaveUnneeded
<1>1. /\ updater[k].pc = "lock" /\ updater \in [Kinds -> Updating]
      /\ k # "login" /\ authFile = Written(k) /\ kept' = authFile
  BY DEF SaveUnneeded, NothingNew, Leaves, TokenInv, TokenTypeOK
<1>2. UpdateGoesOn(k, "idle", Missing)
  BY <1>1, RestsFacts DEF SaveUnneeded
<1>3. TokenTypeOK'
  BY <1>0, <1>1, <1>2 DEF UpdateGoesOn, TokenInv, TokenTypeOK
<1>4. TokensIssued'
  BY <1>0, <1>2, ContentFacts DEF UpdateGoesOn, Only, TokenInv, TokensIssued, Issued, TokenTypeOK
<1>5. UpdatesKept'
  BY <1>0, <1>1, <1>2 DEF UpdateGoesOn, Only, TokenInv, UpdatesKept, Exists, Full
<1>6. /\ UploadFinds' /\ MirrorFollows'
      /\ crossed' = "no" => FileKept' /\ BucketKept' /\ RepositoryKept'
  BY <1>0, <1>1, <1>2, AsideKeeps DEF UpdateGoesOn
<1>7. ASSUME crossed' = "no" PROVE Alone' /\ DeleteKept' /\ SeenKept' /\ TokensGood'
  <2>1. crossed = "no" /\ UncrossedInv
    BY <1>0, <1>7 DEF TokenInv
  <2>2. k # "delete"
    BY <1>1, <2>1 DEF UncrossedInv, DeleteKept, NotUpdating
  <2>3. Alone' /\ DeleteKept' /\ SeenKept'
    BY <1>0, <1>1, <1>2, <2>1, <2>2, AsideUncrossed DEF UpdateGoesOn, Before
  <2>4. \A j \in Kinds \ {k} : updater[j].pc = "idle" /\ updater'[j].pc = "idle"
    BY <1>1, <1>2, <2>1, AloneFacts DEF UpdateGoesOn, Only
  <2>5. ~dropped => Good(managed) /\ Good(updater[k].copy)
    BY <1>1, <2>1, <2>4 DEF UncrossedInv, TokensGood, Kinds
  <2>6. ~dropped => Good(authFile)
    BY <1>1, <2>5, WrittenFacts DEF Good
  <2>7. TokensGood'
    BY <1>0, <1>2, <2>1, <2>4, <2>5, <2>6 DEF TokensGood, Good, UncrossedInv, UpdateGoesOn, Kinds
  <2>8. QED
    BY <2>3, <2>7
<1>8. QED
  BY <1>3, <1>4, <1>5, <1>6, <1>7 DEF TokenInv, UncrossedInv

\* What a delete goes on to save is disabled.
LEMMA CredentialDisabledKeeps ==
  ASSUME TokenInv, CredentialDisabled
  PROVE  TokenInv'
<1>0. UNCHANGED <<store, habit, issued, spent, authFile, head, remote, watch, kept, crossed, failed,
                  dropped, updates, failures, crashes>>
  BY DEF CredentialDisabled
<1>1. /\ managed' \in Contents /\ managed'.token = managed.token /\ managed'.off
      /\ updater["delete"].pc = "disable"
  BY DEF CredentialDisabled, TokenInv, TokenTypeOK, Contents
<1>2. UpdateGoesOn("delete", "save", managed')
  <2>1. [pc |-> "save", copy |-> managed', left |-> 0] \in Updating
    BY <1>1 DEF Updating
  <2>2. updater' = [updater EXCEPT !["delete"] = [pc |-> "save", copy |-> managed', left |-> 0]]
    BY DEF CredentialDisabled
  <2>3. QED
    BY <2>1, <2>2, BecomesFacts DEF TokenInv, TokenTypeOK, Kinds
<1>3. TokenTypeOK'
  BY <1>0, <1>1, <1>2 DEF UpdateGoesOn, TokenInv, TokenTypeOK
<1>4. TokensIssued'
  BY <1>0, <1>1, <1>2 DEF UpdateGoesOn, Only, TokenInv, TokensIssued, Issued
<1>5. UpdatesKept'
  BY <1>0, <1>1, <1>2 DEF UpdateGoesOn, Only, TokenInv, UpdatesKept, Exists, Full
<1>6. /\ UploadFinds' /\ MirrorFollows'
      /\ crossed' = "no" => FileKept' /\ BucketKept' /\ RepositoryKept'
  BY <1>0, <1>1, <1>2, AsideKeeps DEF UpdateGoesOn, Kinds
<1>7. ASSUME crossed' = "no" PROVE Alone' /\ DeleteKept' /\ SeenKept' /\ TokensGood'
  <2>1. crossed = "no" /\ UncrossedInv
    BY <1>0, <1>7 DEF TokenInv
  <2>2. \A j \in Kinds \ {"delete"} : updater[j].pc = "idle" /\ updater'[j].pc = "idle"
    BY <1>1, <1>2, <2>1, AloneFacts DEF UpdateGoesOn, Only, Kinds
  <2>3. Alone'
    BY <2>2 DEF Alone, NotUpdating, Before
  <2>4. DeleteKept'
    BY <1>0, <1>1, <1>2, <2>1 DEF UncrossedInv, DeleteKept, UpdateGoesOn, NotUpdating
  <2>5. ~Writing
    BY <1>1, <2>2 DEF Writing
  <2>6. SeenKept'
    BY <1>0, <2>1, <2>2, <2>5 DEF UncrossedInv, SeenKept, Kinds
  <2>7. TokensGood'
    BY <1>0, <1>1, <1>2, <2>1, <2>2 DEF TokensGood, Good, UncrossedInv, UpdateGoesOn, Kinds
  <2>8. QED
    BY <2>3, <2>4, <2>6, <2>7
<1>8. QED
  BY <1>3, <1>4, <1>5, <1>6, <1>7 DEF TokenInv, UncrossedInv
----------------------------------------------------------------------------
(* Writing the file.                                                       *)

LEMMA NoticeFacts ==
  ASSUME watch \in Watch, NEW c, FileBecomes(c)
  PROVE  /\ authFile' = c /\ failed' = 0
         /\ watch' \in Watch /\ watch'.notice = TRUE
         /\ watch'.seen = watch.seen /\ watch'.apply = watch.apply
         /\ watch'.applying = watch.applying /\ watch'.sync = watch.sync
  BY DEF FileBecomes, Watch

LEMMA WatchFacts == ASSUME TokenInv PROVE watch \in Watch /\ watch.seen \in Contents /\ watch.apply \in Contents
  BY DEF TokenInv, TokenTypeOK, Watch

\* The file is emptied by an update that will fill it.
LEMMA TruncatedKeeps ==
  ASSUME TokenInv, NEW k \in Kinds, updater[k].pc = "lock", store = "file" \/ k = "login",
         FileBecomes(Torn), Goes(k, "fill"),
         UNCHANGED <<store, habit, issued, spent, managed, head, remote, kept, crossed, dropped,
                     updates, failures, crashes>>
  PROVE  TokenInv'
<1>1. updater \in [Kinds -> Updating] /\ watch \in Watch
  BY WatchFacts DEF TokenInv, TokenTypeOK
<1>2. UpdateGoesOn(k, "fill", updater[k].copy)
  BY <1>1, GoesFacts
<1>3. /\ authFile' = Torn /\ failed' = 0
      /\ watch' \in Watch /\ watch'.notice = TRUE
      /\ watch'.seen = watch.seen /\ watch'.apply = watch.apply
      /\ watch'.applying = watch.applying /\ watch'.sync = watch.sync
  BY <1>1, NoticeFacts
<1>4. TokenTypeOK'
  BY <1>2, <1>3, ContentFacts DEF UpdateGoesOn, TokenInv, TokenTypeOK
<1>5. TokensIssued'
  BY <1>2, <1>3, ContentFacts DEF UpdateGoesOn, Only, TokenInv, TokensIssued, Issued, TokenTypeOK
<1>6. UpdatesKept'
  BY <1>2 DEF UpdateGoesOn, Only, TokenInv, UpdatesKept, Exists, Full
<1>7. StoreLocked' /\ Writing'
  BY <1>2 DEF StoreLocked, Writing, UpdateGoesOn
<1>8. UploadFinds' /\ MirrorFollows'
  BY <1>3, <1>7, ContentFacts DEF UploadFinds, MirrorFollows, Exists
<1>9. ASSUME crossed' = "no" PROVE UncrossedInv'
  <2>1. crossed = "no" /\ UncrossedInv
    BY <1>9 DEF TokenInv
  <2>2. \A j \in Kinds \ {k} : updater[j].pc = "idle" /\ updater'[j].pc = "idle"
    BY <1>2, <2>1, AloneFacts DEF UpdateGoesOn, Only
  <2>3. k # "delete"
    BY <2>1 DEF UncrossedInv, DeleteKept, NotUpdating
  <2>4. Alone' /\ DeleteKept'
    BY <1>2, <2>2, <2>3 DEF Alone, DeleteKept, NotUpdating, Before, UpdateGoesOn, Kinds
  <2>5. FileKept'
    BY <1>2, <1>3, <1>7, <2>2 DEF FileKept, UpdateGoesOn
  <2>6. SeenKept'
    BY <1>2, <1>3, <1>7, <2>1, <2>2 DEF UncrossedInv, SeenKept, UpdateGoesOn, Kinds
  <2>7. BucketKept' /\ RepositoryKept'
    BY <1>3, <1>7, <2>1 DEF UncrossedInv, BucketKept, RepositoryKept, WillSync
  <2>8. TokensGood'
    <3>1. Torn.token \notin spent
      BY ContentFacts DEF TokenInv, TokenTypeOK
    <3>2. updater["refresh"].pc \notin {"info", "adopt"}
      BY <2>2 DEF Kinds
    <3>3. QED
      BY <1>2, <1>3, <2>1, <2>2, <3>1, <3>2 DEF UncrossedInv, TokensGood, Good, UpdateGoesOn
  <2>9. QED
    BY <2>4, <2>5, <2>6, <2>7, <2>8 DEF UncrossedInv
<1>10. QED
  BY <1>4, <1>5, <1>6, <1>8, <1>9 DEF TokenInv

LEMMA FileTruncatedKeeps ==
  ASSUME TokenInv, NEW k \in Kinds, FileTruncated(k)
  PROVE  TokenInv'
  BY TruncatedKeeps DEF FileTruncated

LEMMA StorageTruncatedKeeps ==
  ASSUME TokenInv, NEW k \in Kinds, StorageTruncated(k)
  PROVE  TokenInv'
  BY TruncatedKeeps DEF StorageTruncated

\* The file is filled, unless it was removed meanwhile.
LEMMA FilledKeeps ==
  ASSUME TokenInv, NEW k \in Kinds, Filled(k)
  PROVE  TokenInv'
<1>0. UNCHANGED <<store, habit, issued, spent, managed, head, remote, crossed, dropped, updates,
                  failures, crashes>>
  BY DEF Filled
<1>1. updater \in [Kinds -> Updating] /\ watch \in Watch /\ updater[k].pc = "fill" /\ authFile \in Contents
  BY WatchFacts DEF TokenInv, TokenTypeOK, Filled
<1>2. /\ Written(k) \in Contents /\ Written(k).token = updater[k].copy.token
      /\ Exists(Written(k)) /\ Issued(Written(k))
      /\ k # "delete" => Full(Written(k))
  BY <1>1, WrittenFacts DEF TokenInv, UpdatesKept, TokensIssued, Exists, Full, Issued
<1>3. \/ store = "file" /\ UpdateGoesOn(k, "idle", Missing) /\ kept' = Written(k)
      \/ store # "file" /\ UpdateGoesOn(k, "upload", updater[k].copy) /\ kept' = kept
  BY <1>1, RestsFacts, GoesFacts DEF Filled, Leaves
<1>4. \/ /\ Exists(authFile)
         /\ authFile' = Written(k) /\ failed' = 0
         /\ watch' \in Watch /\ watch'.notice = TRUE
         /\ watch'.seen = watch.seen /\ watch'.apply = watch.apply
         /\ watch'.applying = watch.applying /\ watch'.sync = watch.sync
      \/ ~Exists(authFile) /\ UNCHANGED <<authFile, watch, failed>>
  BY <1>1, NoticeFacts DEF Filled, FileStays
<1>5. TokenTypeOK'
  BY <1>0, <1>1, <1>2, <1>3, <1>4 DEF UpdateGoesOn, TokenInv, TokenTypeOK
<1>6. TokensIssued'
  BY <1>0, <1>2, <1>3, <1>4, ContentFacts DEF UpdateGoesOn, Only, TokenInv, TokensIssued, Issued, TokenTypeOK
<1>7. UpdatesKept'
  BY <1>0, <1>1, <1>3 DEF UpdateGoesOn, Only, TokenInv, UpdatesKept, Exists, Full
<1>8. StoreLocked /\ (store # "file" => StoreLocked')
  BY <1>1, <1>3 DEF StoreLocked, UpdateGoesOn
<1>9. UploadFinds'
  <2>1. Deleting => Deleting'
    BY <1>1, <1>3 DEF Deleting, UpdateGoesOn, Only, Kinds
  <2>2. QED
    BY <1>0, <1>2, <1>4, <1>8, <2>1 DEF TokenInv, UploadFinds, BucketOrTable
<1>10. MirrorFollows'
  BY <1>0, <1>8 DEF MirrorFollows, BucketOrTable
<1>11. ASSUME crossed' = "no" PROVE UncrossedInv'
  <2>1. crossed = "no" /\ UncrossedInv
    BY <1>0, <1>11 DEF TokenInv
  <2>2. \A j \in Kinds \ {k} : updater[j].pc = "idle" /\ updater'[j].pc = "idle"
    BY <1>1, <1>3, <2>1, AloneFacts DEF UpdateGoesOn, Only
  <2>3. k # "delete" /\ (store = "file" \/ k = "login") /\ authFile = Torn
    BY <1>1, <2>1 DEF UncrossedInv, DeleteKept, NotUpdating, FileKept, Writing
  <2>4. Exists(authFile) /\ Full(authFile') /\ authFile' # Torn
    BY <1>2, <1>4, <2>3, ContentFacts DEF Exists, Full
  <2>5. Alone' /\ DeleteKept'
    BY <1>3, <2>2, <2>3 DEF Alone, DeleteKept, NotUpdating, Before, UpdateGoesOn, Kinds
  <2>6. ~Writing' /\ (store = "file" => ~StoreLocked')
    BY <1>3, <2>2 DEF Writing, StoreLocked, UpdateGoesOn
  <2>7. store # "file" => Written(k)' = Written(k)
    BY <1>0, <1>3 DEF Written, UpdateGoesOn
  <2>8. FileKept'
    BY <1>0, <1>3, <1>4, <1>8, <2>2, <2>4, <2>6, <2>7 DEF FileKept, UpdateGoesOn
  <2>9. SeenKept'
    BY <1>0, <1>3, <1>4, <2>1, <2>2, <2>4 DEF UncrossedInv, SeenKept, UpdateGoesOn, Kinds
  <2>10. store # "file" =>
           watch.seen # authFile' /\ (store = "git" => head # authFile')
    BY <1>1, <1>2, <1>4, <2>1, <2>3, <2>4, TokenTypes, WatchFacts DEF UncrossedInv, SeenKept, TokenInv, TokenTypeOK
  <2>11. BucketKept' /\ RepositoryKept'
    BY <1>0, <1>4, <1>8, <2>1, <2>4, <2>10 DEF UncrossedInv, BucketKept, RepositoryKept, WillSync, BucketOrTable
  <2>12. TokensGood'
    <3>1. updater["refresh"].pc \notin {"info", "adopt"}
      BY <1>1, <2>2 DEF Kinds
    <3>2. ~dropped => Good(authFile')
      BY <1>0, <1>1, <1>2, <1>4, <2>1, <2>4 DEF UncrossedInv, TokensGood, Good
    <3>3. QED
      BY <1>0, <1>1, <1>3, <1>4, <2>1, <2>2, <2>4, <3>1, <3>2 DEF UncrossedInv, TokensGood, Good, UpdateGoesOn
  <2>13. QED
    BY <2>5, <2>8, <2>9, <2>11, <2>12 DEF UncrossedInv
<1>12. QED
  BY <1>5, <1>6, <1>7, <1>9, <1>10, <1>11 DEF TokenInv

\* What an update finds on its way to the file.
LEMMA BeforeFacts ==
  ASSUME TokenInv, crossed = "no", NEW k \in Kinds, Before(k)
  PROVE  ~Watching /\ ~Writing /\ ~StoreLocked /\ watch.seen = authFile /\ (store = "git" => head = authFile)
<1>1. UncrossedInv
  BY DEF TokenInv
<1>2. ~Watching
  BY <1>1 DEF UncrossedInv, Alone
<1>3. ~Writing /\ ~StoreLocked
  BY AloneFacts DEF Before, Writing, StoreLocked
<1>4. watch.seen = authFile
  BY <1>1, <1>2, <1>3 DEF UncrossedInv, SeenKept, Watching
<1>5. store = "git" => head = authFile
  BY <1>1, <1>2, <1>3 DEF UncrossedInv, RepositoryKept, WillSync, Watching
<1>6. QED
  BY <1>2, <1>3, <1>4, <1>5

\* A mirrored store replaces the file.
LEMMA RenamedKeeps ==
  ASSUME TokenInv, NEW k \in Kinds, Renamed(k), store # "file"
  PROVE  TokenInv'
<1>0. UNCHANGED <<store, habit, issued, spent, managed, head, remote, kept, crossed, dropped,
                  updates, failures, crashes>>
  BY DEF Renamed
<1>1. /\ updater \in [Kinds -> Updating] /\ watch \in Watch
      /\ updater[k].pc = "lock" /\ k # "login" /\ authFile # Written(k)
  BY WatchFacts DEF TokenInv, TokenTypeOK, Renamed, NothingNew
<1>2. /\ Written(k) \in Contents /\ Written(k).token = updater[k].copy.token
      /\ Exists(Written(k)) /\ Issued(Written(k))
      /\ k # "delete" => Full(Written(k))
  BY <1>1, WrittenFacts DEF TokenInv, UpdatesKept, TokensIssued, Exists, Full, Issued
<1>3. UpdateGoesOn(k, "upload", updater[k].copy)
  BY <1>1, GoesFacts DEF Renamed
<1>4. /\ authFile' = Written(k) /\ failed' = 0
      /\ watch' \in Watch /\ watch'.notice = TRUE
      /\ watch'.seen = watch.seen /\ watch'.apply = watch.apply
      /\ watch'.applying = watch.applying /\ watch'.sync = watch.sync
  BY <1>1, NoticeFacts DEF Renamed
<1>5. TokenTypeOK'
  BY <1>0, <1>2, <1>3, <1>4 DEF UpdateGoesOn, TokenInv, TokenTypeOK
<1>6. TokensIssued'
  BY <1>0, <1>2, <1>3, <1>4 DEF UpdateGoesOn, Only, TokenInv, TokensIssued, Issued
<1>7. UpdatesKept'
  BY <1>0, <1>1, <1>3 DEF UpdateGoesOn, Only, TokenInv, UpdatesKept, Exists, Full
<1>8. StoreLocked'
  BY <1>3 DEF StoreLocked, UpdateGoesOn
<1>9. UploadFinds' /\ MirrorFollows'
  BY <1>2, <1>4, <1>8 DEF UploadFinds, MirrorFollows
<1>10. ASSUME crossed' = "no" PROVE UncrossedInv'
  <2>1. crossed = "no" /\ UncrossedInv
    BY <1>0, <1>10 DEF TokenInv
  <2>2. \A j \in Kinds \ {k} : updater[j].pc = "idle" /\ updater'[j].pc = "idle"
    BY <1>1, <1>3, <2>1, AloneFacts DEF UpdateGoesOn, Only
  <2>3. k # "delete"
    BY <1>1, <2>1 DEF UncrossedInv, DeleteKept, NotUpdating
  <2>4. ~Watching /\ watch.seen = authFile /\ (store = "git" => head = authFile)
    BY <1>1, <2>1, <2>3, BeforeFacts DEF Before
  <2>5. Full(authFile') /\ authFile' # Torn
    BY <1>2, <1>4, <2>3, ContentFacts DEF Full
  <2>6. Alone' /\ DeleteKept'
    BY <1>3, <2>2, <2>3 DEF Alone, DeleteKept, NotUpdating, Before, UpdateGoesOn, Kinds
  <2>7. ~Writing'
    BY <1>3, <2>2 DEF Writing, UpdateGoesOn
  <2>8. Written(k)' = Written(k)
    BY <1>0, <1>3 DEF Written, UpdateGoesOn
  <2>9. FileKept'
    BY <1>3, <1>4, <1>8, <2>2, <2>5, <2>7, <2>8 DEF FileKept, UpdateGoesOn
  <2>10. SeenKept'
    BY <1>1, <1>4, <2>1, <2>2 DEF UncrossedInv, SeenKept, Kinds
  <2>11. BucketKept' /\ RepositoryKept'
    BY <1>0, <1>1, <1>4, <1>8, <2>1, <2>4 DEF UncrossedInv, BucketKept, RepositoryKept, WillSync, BucketOrTable
  <2>12. TokensGood'
    <3>1. updater["refresh"].pc \notin {"info", "adopt"}
      BY <1>1, <2>2 DEF Kinds
    <3>2. ~dropped => Good(updater[k].copy)
      BY <1>1, <2>1 DEF UncrossedInv, TokensGood
    <3>3. QED
      BY <1>0, <1>2, <1>3, <1>4, <2>1, <2>2, <3>1, <3>2 DEF UncrossedInv, TokensGood, Good, UpdateGoesOn
  <2>13. QED
    BY <2>6, <2>9, <2>10, <2>11, <2>12 DEF UncrossedInv
<1>11. QED
  BY <1>5, <1>6, <1>7, <1>9, <1>10 DEF TokenInv
----------------------------------------------------------------------------
(* The file is removed.                                                    *)

LEMMA FileRemovedKeeps ==
  ASSUME TokenInv, FileRemoved
  PROVE  TokenInv'
<1>0. UNCHANGED <<store, habit, issued, spent, managed, head, remote, dropped, failures, crashes>>
  BY DEF FileRemoved
<1>1. /\ updater["delete"].pc = "idle"
      /\ crossed' = crossed \/ (crossed = "no" /\ crossed' = "update")
      /\ crossed' = "no" => crossed = "no" /\ Quiet
  BY BeginsFacts DEF FileRemoved
<1>2. UpdateGoesOn("delete", "delete", updater["delete"].copy)
  BY GoesFacts DEF FileRemoved, TokenInv, TokenTypeOK, Kinds
<1>3. /\ authFile' = Missing /\ failed' = 0 /\ kept' = Missing /\ Exists(authFile)
      /\ watch' \in Watch /\ watch'.notice = TRUE
      /\ watch'.seen = watch.seen /\ watch'.apply = watch.apply
      /\ watch'.applying = watch.applying /\ watch'.sync = watch.sync
  BY WatchFacts, NoticeFacts DEF FileRemoved, Leaves
<1>4. TokenTypeOK'
  BY <1>0, <1>1, <1>2, <1>3, ContentFacts, TokenAssumption DEF FileRemoved, Begins, UpdateGoesOn, TokenInv, TokenTypeOK
<1>5. TokensIssued'
  BY <1>0, <1>2, <1>3, ContentFacts DEF UpdateGoesOn, Only, TokenInv, TokensIssued, Issued, TokenTypeOK
<1>6. UpdatesKept'
  BY <1>0, <1>1, <1>2 DEF UpdateGoesOn, Only, TokenInv, UpdatesKept, Exists, Full
<1>7. Deleting'
  BY <1>2 DEF Deleting, UpdateGoesOn
<1>8. UploadFinds' /\ MirrorFollows'
  BY <1>7 DEF UploadFinds, MirrorFollows
<1>9. ASSUME crossed' = "no" PROVE UncrossedInv'
  <2>1. crossed = "no" /\ Quiet /\ UncrossedInv
    BY <1>1, <1>9 DEF TokenInv
  <2>2. \A j \in Kinds \ {"delete"} : updater[j].pc = "idle" /\ updater'[j].pc = "idle"
    BY <1>2, <2>1, QuietFacts DEF UpdateGoesOn, Only
  <2>3. Alone' /\ DeleteKept'
    BY <1>2, <1>3, <2>2 DEF Alone, DeleteKept, NotUpdating, Before, UpdateGoesOn
  <2>4. ~Writing' /\ ~StoreLocked'
    BY <1>2, <2>2 DEF Writing, StoreLocked, UpdateGoesOn
  <2>5. FileKept'
    BY <1>2, <1>3, <2>2, <2>4, ContentFacts DEF FileKept, UpdateGoesOn
  <2>6. SeenKept'
    BY <1>3, <2>1, <2>2 DEF UncrossedInv, SeenKept, Kinds
  <2>7. authFile # Missing /\ watch.seen # authFile' /\ WillSync'
    <3>1. authFile # Missing
      BY <1>3, ContentFacts DEF Exists
    <3>2. watch.seen = authFile
      BY <2>1, QuietFacts
    <3>3. QED
      BY <1>3, <3>1, <3>2 DEF WillSync
  <2>8. BucketKept' /\ RepositoryKept'
    <3>1. store = "git" => head # authFile'
      BY <1>3, <2>1, <2>7, QuietFacts
    <3>2. QED
      BY <1>0, <1>3, <2>1, <2>7, <3>1 DEF UncrossedInv, BucketKept, RepositoryKept
  <2>9. TokensGood'
    <3>1. Missing.token \notin spent
      BY ContentFacts DEF TokenInv, TokenTypeOK
    <3>2. QED
      BY <1>0, <1>2, <1>3, <2>1, <2>2, <3>1, QuietFacts DEF UncrossedInv, TokensGood, Good, UpdateGoesOn
  <2>10. QED
    BY <2>3, <2>5, <2>6, <2>8, <2>9 DEF UncrossedInv
<1>10. QED
  BY <1>4, <1>5, <1>6, <1>8, <1>9 DEF TokenInv

\* What a mirror has of the file.
LEMMA MirroredFacts ==
  ASSUME TokenInv
  PROVE  Mirrored \in Contents /\ Issued(Mirrored)
  BY ContentFacts DEF Mirrored, TokenInv, TokenTypeOK, TokensIssued, Issued
----------------------------------------------------------------------------
(* The mirrors.                                                            *)

\* A remote call is tried.
Tries(fails) ==
  /\ failures' \in 0..FailureLimit /\ failed' \in 0..2
  /\ ~fails => failed' = failed
  /\ fails => failed' = failed + 1 \/ (failed = 2 /\ failed' = 2)

LEMMA TriedFacts ==
  ASSUME TokenInv, NEW fails \in BOOLEAN, MirrorTried(fails)
  PROVE  Tries(fails)
  BY TokenAssumption DEF MirrorTried, MayFail, TokenInv, TokenTypeOK, Tries

\* What an upload does to a bucket or a table, and to a repository.
ToBucket(fails) ==
  /\ UNCHANGED head
  /\ remote' = (IF fails THEN remote ELSE Mirrored)
  /\ Tries(fails) \/ (fails /\ ~Exists(authFile) /\ UNCHANGED <<failed, failures>>)
ToRepository(fails) ==
  /\ head' = authFile
  /\ \/ authFile = head /\ ~fails /\ UNCHANGED <<remote, failed, failures>>
     \/ Tries(fails) /\ remote' = (IF fails THEN remote ELSE authFile)

LEMMA UploadFacts ==
  ASSUME TokenInv, NEW fails \in BOOLEAN,
         ObjectUpload(fails) \/ RecordUpsert(fails) \/ CommitAndPush(fails)
  PROVE  \/ BucketOrTable /\ store # "git" /\ ToBucket(fails)
         \/ store = "git" /\ ~BucketOrTable /\ ToRepository(fails)
<1>1. CASE ObjectUpload(fails)
  BY <1>1, TriedFacts DEF ObjectUpload, ToBucket, BucketOrTable
<1>2. CASE RecordUpsert(fails)
  BY <1>2, TriedFacts DEF RecordUpsert, ToBucket, BucketOrTable
<1>3. CASE CommitAndPush(fails)
  BY <1>3, TriedFacts DEF CommitAndPush, ToRepository, BucketOrTable
<1>4. QED
  BY <1>1, <1>2, <1>3

LEMMA SyncFacts ==
  ASSUME TokenInv, NEW fails \in BOOLEAN,
         ObjectUpload(fails) \/ RecordSync(fails) \/ CommitAndPush(fails)
  PROVE  \/ BucketOrTable /\ store # "git" /\ ToBucket(fails) /\ Tries(fails)
         \/ store = "git" /\ ~BucketOrTable /\ ToRepository(fails)
<1>1. CASE ObjectUpload(fails)
  BY <1>1, TriedFacts DEF ObjectUpload, ToBucket, BucketOrTable
<1>2. CASE RecordSync(fails)
  BY <1>2, TriedFacts DEF RecordSync, ToBucket, BucketOrTable
<1>3. CASE CommitAndPush(fails)
  BY <1>3, TriedFacts DEF CommitAndPush, ToRepository, BucketOrTable
<1>4. QED
  BY <1>1, <1>2, <1>3

\* What a call leaves in the mirrors.
LEMMA ToMirrorTypes ==
  ASSUME TokenInv, NEW fails \in BOOLEAN, ToBucket(fails) \/ ToRepository(fails)
  PROVE  /\ head' \in Contents /\ remote' \in Contents /\ Issued(head') /\ Issued(remote')
         /\ failures' \in 0..FailureLimit /\ failed' \in 0..2
<1>1. /\ {head, remote, authFile} \subseteq Contents /\ Issued(head) /\ Issued(remote) /\ Issued(authFile)
      /\ failures \in 0..FailureLimit /\ failed \in 0..2
  BY DEF TokenInv, TokenTypeOK, TokensIssued
<1>2. QED
  BY <1>1, MirroredFacts DEF ToBucket, ToRepository, Tries

\* The rest of a save: a file that is gone is only met while a delete is under way.
LEMMA UploadedKeeps ==
  ASSUME TokenInv, NEW k \in Kinds, Uploaded(k)
  PROVE  TokenInv'
<1>0. UNCHANGED <<store, habit, issued, spent, managed, authFile, watch, crossed, dropped, updates,
                  crashes>>
  BY DEF Uploaded
<1>1. /\ updater[k].pc = "upload" /\ updater \in [Kinds -> Updating]
      /\ kept' = Written(k) /\ Written(k) \in Contents /\ Written(k).token = updater[k].copy.token
      /\ Exists(Written(k))
  BY WrittenFacts DEF Uploaded, Leaves, TokenInv, TokenTypeOK, UpdatesKept, Exists
<1>2. PICK fails \in BOOLEAN : ObjectUpload(fails) \/ RecordUpsert(fails) \/ CommitAndPush(fails)
  BY DEF Uploaded
<1>3. \/ BucketOrTable /\ store # "git" /\ ToBucket(fails)
      \/ store = "git" /\ ~BucketOrTable /\ ToRepository(fails)
  BY <1>2, UploadFacts
<1>4. UpdateGoesOn(k, "idle", Missing)
  BY <1>1, RestsFacts DEF Uploaded
<1>5. TokenTypeOK'
  BY <1>0, <1>1, <1>3, <1>4, ToMirrorTypes DEF UpdateGoesOn, TokenInv, TokenTypeOK
<1>6. TokensIssued'
  BY <1>0, <1>3, <1>4, ToMirrorTypes, ContentFacts DEF UpdateGoesOn, Only, TokenInv, TokensIssued, Issued, TokenTypeOK
<1>7. UpdatesKept'
  BY <1>0, <1>4 DEF UpdateGoesOn, Only, TokenInv, UpdatesKept
<1>8. StoreLocked /\ (Deleting => Deleting')
  BY <1>1, <1>4 DEF StoreLocked, Deleting, UpdateGoesOn, Only, Kinds
<1>9. UploadFinds'
  BY <1>0, <1>8 DEF TokenInv, UploadFinds, BucketOrTable
<1>10. Mirrored' = Mirrored
  BY <1>0 DEF Mirrored
<1>11. MirrorFollows'
  <2>1. SUFFICES ASSUME BucketOrTable, crossed # "crash", failed' = 0
                 PROVE  remote' = Mirrored \/ Deleting'
    BY <1>0, <1>10 DEF MirrorFollows, BucketOrTable
  <2>2. CASE fails
    <3>1. ~Exists(authFile)
      BY <1>3, <2>1, <2>2 DEF ToBucket, Tries, TokenInv, TokenTypeOK
    <3>2. QED
      BY <1>8, <2>1, <3>1 DEF TokenInv, UploadFinds
  <2>3. CASE ~fails
    BY <1>3, <2>1, <2>3 DEF ToBucket
  <2>4. QED
    BY <2>2, <2>3
<1>12. ASSUME crossed' = "no" PROVE UncrossedInv'
  <2>1. crossed = "no" /\ UncrossedInv
    BY <1>0, <1>12 DEF TokenInv
  <2>2. \A j \in Kinds \ {k} : updater[j].pc = "idle" /\ updater'[j].pc = "idle"
    BY <1>1, <1>4, <2>1, AloneFacts DEF UpdateGoesOn, Only
  <2>3. k # "delete" /\ authFile = Written(k)
    BY <1>1, <2>1 DEF UncrossedInv, DeleteKept, NotUpdating, FileKept
  <2>4. \A j \in Kinds : updater'[j].pc = "idle"
    BY <1>4, <2>2 DEF UpdateGoesOn
  <2>5. Alone' /\ DeleteKept'
    BY <2>4 DEF Alone, DeleteKept, NotUpdating, Before, Kinds
  <2>6. ~Writing /\ ~Writing' /\ ~StoreLocked' /\ ~Deleting'
    BY <1>1, <2>2, <2>4 DEF Writing, StoreLocked, Deleting, Kinds
  <2>7. FileKept'
    BY <1>0, <1>1, <2>1, <2>3, <2>4, <2>6 DEF UncrossedInv, FileKept
  <2>8. SeenKept'
    BY <1>0, <2>1, <2>4, <2>6 DEF UncrossedInv, SeenKept, Kinds
  <2>9. WillSync' <=> WillSync
    BY <1>0, <2>6 DEF WillSync
  <2>10. BucketKept'
    <3>1. SUFFICES ASSUME BucketOrTable, remote' # Mirrored, failed' \in {0, 1}
                   PROVE  WillSync /\ failed' # 0
      BY <1>0, <1>10, <2>9 DEF BucketKept, BucketOrTable
    <3>2. fails /\ remote' = remote /\ Tries(fails)
      BY <1>1, <1>3, <2>3, <3>1 DEF ToBucket
    <3>3. failed' = 1 /\ failed = 0
      BY <3>1, <3>2 DEF Tries, TokenInv, TokenTypeOK
    <3>4. QED
      BY <2>1, <3>1, <3>2, <3>3 DEF UncrossedInv, BucketKept
  <2>11. RepositoryKept'
    <3>1. SUFFICES ASSUME store = "git"
                   PROVE  head' = authFile /\ authFile # Torn /\ (failed' = 0 => remote' = authFile)
      BY <1>0 DEF RepositoryKept
    <3>2. authFile # Torn
      BY <2>1, <2>6 DEF UncrossedInv, FileKept
    <3>3. failed' = 0 => remote' = authFile
      BY <1>3, <2>1, <3>1 DEF UncrossedInv, RepositoryKept, ToRepository, Tries, TokenInv, TokenTypeOK
    <3>4. QED
      BY <1>3, <3>1, <3>2, <3>3 DEF ToRepository
  <2>12. TokensGood'
    <3>1. updater["refresh"].pc \notin {"info", "adopt"}
      BY <1>1, <2>2 DEF Kinds
    <3>2. ~dropped => Good(authFile) /\ Good(managed)
      BY <1>1, <2>1, <2>3, <3>1 DEF UncrossedInv, TokensGood, Good
    <3>3. QED
      BY <1>0, <2>1, <2>4, <3>2 DEF UncrossedInv, TokensGood, Good, Kinds
  <2>13. QED
    BY <2>5, <2>7, <2>8, <2>10, <2>11, <2>12 DEF UncrossedInv
<1>13. QED
  BY <1>5, <1>6, <1>7, <1>9, <1>11, <1>12 DEF TokenInv

\* The store's record is removed, or the repository does not answer.
Unready ==
  /\ store = "git" /\ Tries(TRUE) /\ UpdateGoesOn("delete", "idle", Missing)
  /\ UNCHANGED <<authFile, watch, head, remote>>
Removed(fails) ==
  /\ \/ Exists(authFile) /\ authFile' = Missing /\ watch' = [watch EXCEPT !.notice = TRUE]
     \/ ~Exists(authFile) /\ UNCHANGED <<authFile, watch>>
  /\ \/ fails /\ UpdateGoesOn("delete", "idle", Missing)
     \/ ~fails /\ UpdateGoesOn("delete", "disable", updater["delete"].copy)
  /\ \/ store = "file" /\ ~fails /\ UNCHANGED <<head, remote, failed, failures>>
     \/ /\ BucketOrTable /\ ~StoreLocked /\ Tries(fails) /\ UNCHANGED head
        /\ remote' = (IF fails THEN remote ELSE Missing)
     \/ /\ store = "git" /\ ~StoreLocked
        /\ \/ /\ Exists(authFile) /\ Tries(fails) /\ head' = Missing
              /\ remote' = (IF fails THEN remote ELSE Missing)
           \/ ~Exists(authFile) /\ ~fails /\ UNCHANGED <<head, remote, failed, failures>>

LEMMA DeleteFacts ==
  ASSUME TokenInv, RecordDeleted
  PROVE  Unready \/ \E fails \in BOOLEAN : Removed(fails)
<1>1. updater \in [Kinds -> Updating] /\ "delete" \in Kinds
  BY DEF TokenInv, TokenTypeOK, Kinds
<1>2. CASE RepositoryReady(FALSE) /\ Rests("delete") /\ UNCHANGED <<authFile, watch, head, remote>>
  BY <1>1, <1>2, RestsFacts, TriedFacts DEF RepositoryReady, Unready
<1>3. ASSUME IF Exists(authFile)
             THEN authFile' = Missing /\ watch' = [watch EXCEPT !.notice = TRUE]
             ELSE FileStays,
             NEW fails \in BOOLEAN,
             FileDelete(fails) \/ ObjectDelete(fails) \/ PostgresDelete(fails) \/ GitDelete(fails),
             IF fails THEN Rests("delete") ELSE Goes("delete", "disable")
      PROVE  Removed(fails)
  <2>1. \/ Exists(authFile) /\ authFile' = Missing /\ watch' = [watch EXCEPT !.notice = TRUE]
        \/ ~Exists(authFile) /\ UNCHANGED <<authFile, watch>>
    BY <1>3 DEF FileStays
  <2>2. \/ fails /\ UpdateGoesOn("delete", "idle", Missing)
        \/ ~fails /\ UpdateGoesOn("delete", "disable", updater["delete"].copy)
    BY <1>1, <1>3, RestsFacts, GoesFacts
  <2>3. CASE FileDelete(fails)
    BY <2>1, <2>2, <2>3 DEF FileDelete, Removed
  <2>4. CASE ObjectDelete(fails)
    BY <2>1, <2>2, <2>4, TriedFacts DEF ObjectDelete, Removed, BucketOrTable
  <2>5. CASE PostgresDelete(fails)
    BY <2>1, <2>2, <2>5, TriedFacts DEF PostgresDelete, Removed, BucketOrTable
  <2>6. CASE GitDelete(fails)
    BY <2>1, <2>2, <2>6, TriedFacts DEF GitDelete, Removed
  <2>7. QED
    BY <1>3, <2>3, <2>4, <2>5, <2>6
<1>4. QED
  BY <1>2, <1>3 DEF RecordDeleted

LEMMA RecordDeletedKeeps ==
  ASSUME TokenInv, RecordDeleted
  PROVE  TokenInv'
<1>0. UNCHANGED <<store, habit, issued, spent, managed, kept, crossed, dropped, updates, crashes>>
  BY DEF RecordDeleted
<1>1. updater["delete"].pc = "delete" /\ updater \in [Kinds -> Updating] /\ "delete" \in Kinds
  BY DEF RecordDeleted, TokenInv, TokenTypeOK, Kinds
<1>2. Unready \/ \E fails \in BOOLEAN : Removed(fails)
  BY DeleteFacts
<1>3. PICK p \in {"idle", "disable"} :
        UpdateGoesOn("delete", p, Missing) \/ UpdateGoesOn("delete", p, updater["delete"].copy)
  BY <1>2 DEF Unready, Removed
<1>4. /\ authFile' \in Contents /\ Issued(authFile')
      /\ watch' \in Watch /\ watch'.seen = watch.seen /\ watch'.apply = watch.apply
      /\ head' \in Contents /\ remote' \in Contents /\ Issued(head') /\ Issued(remote')
      /\ failed' \in 0..2 /\ failures' \in 0..FailureLimit
  <2>1. /\ {authFile, head, remote} \subseteq Contents /\ Issued(authFile) /\ Issued(head) /\ Issued(remote)
        /\ Issued(Missing) /\ Missing \in Contents /\ watch \in Watch
        /\ failed \in 0..2 /\ failures \in 0..FailureLimit
    BY ContentFacts DEF TokenInv, TokenTypeOK, TokensIssued, Issued
  <2>2. watch' = watch \/ watch' = [watch EXCEPT !.notice = TRUE]
    BY <1>2 DEF Unready, Removed
  <2>3. watch' \in Watch /\ watch'.seen = watch.seen /\ watch'.apply = watch.apply
    BY <2>1, <2>2 DEF Watch
  <2>4. QED
    BY <1>2, <2>1, <2>3 DEF Unready, Removed, Tries
<1>5. TokenTypeOK'
  BY <1>0, <1>3, <1>4 DEF UpdateGoesOn, TokenInv, TokenTypeOK
<1>6. TokensIssued'
  BY <1>0, <1>3, <1>4, ContentFacts DEF UpdateGoesOn, Only, TokenInv, TokensIssued, Issued, TokenTypeOK
<1>7. UpdatesKept'
  BY <1>0, <1>3 DEF UpdateGoesOn, Only, TokenInv, UpdatesKept
<1>8. StoreLocked' <=> StoreLocked
  BY <1>1, <1>3 DEF StoreLocked, UpdateGoesOn, Only
<1>9. UploadFinds' /\ MirrorFollows'
  <2>1. SUFFICES ASSUME BucketOrTable PROVE ~StoreLocked /\ (failed' = 0 => remote' = Mirrored')
    BY <1>0, <1>8 DEF UploadFinds, MirrorFollows, BucketOrTable
  <2>2. PICK fails \in BOOLEAN : Removed(fails)
    BY <1>2, <2>1 DEF Unready, BucketOrTable
  <2>3. ~StoreLocked /\ Tries(fails) /\ remote' = (IF fails THEN remote ELSE Missing)
    BY <2>1, <2>2 DEF Removed, BucketOrTable
  <2>4. Mirrored' = Missing
    BY <2>2, ContentFacts DEF Removed, Mirrored, Full, Exists, TokenInv, TokenTypeOK
  <2>5. failed' = 0 => ~fails
    BY <2>3 DEF Tries, TokenInv, TokenTypeOK
  <2>6. QED
    BY <2>3, <2>4, <2>5
<1>10. ASSUME crossed' = "no" PROVE UncrossedInv'
  <2>1. crossed = "no" /\ UncrossedInv
    BY <1>0, <1>10 DEF TokenInv
  <2>2. \A j \in Kinds \ {"delete"} : updater[j].pc = "idle" /\ updater'[j].pc = "idle"
    BY <1>1, <1>3, <2>1, AloneFacts DEF UpdateGoesOn, Only
  <2>3. authFile = Missing /\ kept = Missing /\ ~Exists(authFile)
    BY <1>1, <2>1, ContentFacts DEF UncrossedInv, DeleteKept, NotUpdating, Exists
  <2>4. UNCHANGED <<authFile, watch>>
    BY <1>2, <2>3 DEF Unready, Removed
  <2>5. updater'["delete"].pc \in {"idle", "disable"}
    BY <1>3 DEF UpdateGoesOn
  <2>6. Alone' /\ DeleteKept'
    BY <1>0, <2>2, <2>3, <2>4, <2>5 DEF Alone, DeleteKept, NotUpdating, Before
  <2>7. ~Writing /\ ~Writing' /\ ~StoreLocked /\ ~StoreLocked'
    BY <1>1, <2>2, <2>5 DEF Writing, StoreLocked
  <2>8. FileKept'
    BY <1>0, <2>2, <2>3, <2>4, <2>5, <2>7, ContentFacts DEF FileKept
  <2>9. SeenKept'
    BY <2>1, <2>2, <2>4, <2>7 DEF UncrossedInv, SeenKept, Kinds
  <2>10. (WillSync' <=> WillSync) /\ Mirrored' = Mirrored /\ Mirrored = Missing
    BY <2>3, <2>4, <2>7, ContentFacts DEF WillSync, Mirrored, Full
  <2>11. BucketKept'
    <3>1. SUFFICES ASSUME BucketOrTable, remote' # Missing, failed' \in {0, 1}
                   PROVE  WillSync /\ failed' # 0
      BY <1>0, <2>10 DEF BucketKept, BucketOrTable
    <3>2. PICK fails \in BOOLEAN : Removed(fails)
      BY <1>2, <3>1 DEF Unready, BucketOrTable
    <3>3. fails /\ remote' = remote /\ Tries(fails)
      BY <3>1, <3>2 DEF Removed, BucketOrTable
    <3>4. failed' = 1 /\ failed = 0
      BY <3>1, <3>3 DEF Tries, TokenInv, TokenTypeOK
    <3>5. QED
      BY <2>1, <2>10, <3>1, <3>3, <3>4 DEF UncrossedInv, BucketKept
  <2>12. RepositoryKept'
    <3>1. SUFFICES ASSUME store = "git"
                   PROVE  /\ head' = head
                          /\ (UNCHANGED failed /\ remote' = remote) \/ failed' # 0
      BY <1>0, <2>1, <2>4, <2>7, <2>10 DEF UncrossedInv, RepositoryKept
    <3>2. CASE Unready
      BY <3>2 DEF Unready, Tries, TokenInv, TokenTypeOK
    <3>3. ASSUME NEW fails \in BOOLEAN, Removed(fails)
          PROVE  head' = head /\ UNCHANGED failed /\ remote' = remote
      BY <2>3, <3>1, <3>3 DEF Removed, BucketOrTable
    <3>4. QED
      BY <1>2, <3>2, <3>3
  <2>13. TokensGood'
    BY <1>0, <1>1, <2>1, <2>2, <2>4, <2>5 DEF UncrossedInv, TokensGood, Good, Kinds
  <2>14. QED
    BY <2>6, <2>8, <2>9, <2>11, <2>12, <2>13 DEF UncrossedInv
<1>11. QED
  BY <1>5, <1>6, <1>7, <1>9, <1>10 DEF TokenInv
----------------------------------------------------------------------------
(* The watcher.                                                            *)

\* The watcher looks at the file.
LEMMA FileFollowedKeeps ==
  ASSUME TokenInv, FileFollowed
  PROVE  TokenInv'
<1>0. UNCHANGED <<store, habit, issued, spent, managed, authFile, head, remote, updater, kept,
                  crossed, failed, dropped, updates, failures, crashes>>
  BY DEF FileFollowed
<1>1. watch.notice /\ watch \in Watch /\ authFile \in Contents /\ Issued(authFile)
  BY DEF FileFollowed, TokenInv, TokenTypeOK, TokensIssued
<1>2. /\ watch' \in Watch /\ watch'.notice = FALSE
      /\ \/ /\ authFile = Torn \/ authFile = watch.seen
            /\ watch'.seen = watch.seen /\ watch'.apply = watch.apply
            /\ watch'.applying = watch.applying /\ watch'.sync = watch.sync
         \/ /\ authFile # Torn
            /\ watch'.seen = authFile /\ watch'.apply = authFile /\ watch'.applying = TRUE
            /\ watch'.sync = (store # "file")
  <2>1. CASE authFile = Torn \/ authFile = watch.seen
    BY <1>1, <2>1 DEF FileFollowed, Watch
  <2>2. CASE ~(authFile = Torn \/ authFile = watch.seen)
    <3>1. watch' = [notice |-> FALSE, seen |-> authFile, apply |-> authFile, applying |-> TRUE,
                    sync |-> store # "file"]
      BY <2>2 DEF FileFollowed
    <3>2. (store # "file") \in BOOLEAN
      OBVIOUS
    <3>3. QED
      BY <1>1, <2>2, <3>1, <3>2 DEF Watch
  <2>3. QED
    BY <2>1, <2>2
<1>3. TokenTypeOK'
  BY <1>0, <1>2 DEF TokenInv, TokenTypeOK
<1>4. TokensIssued'
  BY <1>0, <1>1, <1>2 DEF TokenInv, TokensIssued, Issued
<1>5. UpdatesKept' /\ UploadFinds' /\ MirrorFollows'
  BY <1>0 DEF TokenInv, UpdatesKept, UploadFinds, MirrorFollows, BucketOrTable, StoreLocked, Deleting, Mirrored
<1>6. ASSUME crossed' = "no" PROVE UncrossedInv'
  <2>1. crossed = "no" /\ UncrossedInv
    BY <1>0, <1>6 DEF TokenInv
  <2>2. \A k \in Kinds : ~Before(k)
    BY <1>1, <2>1 DEF UncrossedInv, Alone, Watching
  <2>3. authFile = Torn <=> Writing
    BY <2>1 DEF UncrossedInv, FileKept
  <2>4. Writing' <=> Writing
    BY <1>0 DEF Writing
  <2>5. Alone' /\ DeleteKept' /\ FileKept'
    BY <1>0, <2>1, <2>2, <2>4 DEF UncrossedInv, Alone, DeleteKept, FileKept, NotUpdating, Before, StoreLocked, Written
  <2>6. SeenKept'
    <3>1. updater["login"].pc \in {"save", "lock", "fill"} => Writing
      BY <2>2 DEF Before, Writing, Kinds
    <3>2. QED
      BY <1>0, <1>2, <2>1, <2>3, <2>4, <3>1 DEF UncrossedInv, SeenKept
  <2>7. WillSync /\ store # "file" => WillSync'
    BY <1>0, <1>2, <2>3, <2>4 DEF WillSync
  <2>8. BucketKept' /\ RepositoryKept'
    BY <1>0, <2>1, <2>7 DEF UncrossedInv, BucketKept, RepositoryKept, BucketOrTable, Mirrored, Deleting, StoreLocked
  <2>9. TokensGood'
    <3>1. updater["refresh"].pc \notin {"info", "adopt", "save", "lock"}
      BY <2>2 DEF Before, Kinds
    <3>2. QED
      BY <1>0, <1>2, <2>1, <3>1 DEF UncrossedInv, TokensGood, Good
  <2>10. QED
    BY <2>5, <2>6, <2>8, <2>9 DEF UncrossedInv
<1>7. QED
  BY <1>3, <1>4, <1>5, <1>6 DEF TokenInv

\* What it sends reaches the manager.
LEMMA FileAppliedKeeps ==
  ASSUME TokenInv, FileApplied
  PROVE  TokenInv'
<1>0. UNCHANGED <<store, habit, issued, spent, authFile, head, remote, updater, kept, crossed,
                  failed, dropped, updates, failures, crashes>>
  BY DEF FileApplied
<1>1. /\ watch.applying /\ watch \in Watch /\ managed \in Contents /\ watch.apply \in Contents
      /\ Issued(managed) /\ Issued(watch.apply) /\ Exists(managed)
  BY WatchFacts DEF FileApplied, TokenInv, TokenTypeOK, TokensIssued, UpdatesKept
<1>2. /\ managed' \in Contents /\ Issued(managed') /\ Exists(managed')
      /\ managed'.token = managed.token \/ managed'.token = watch.apply.token
  <2>1. CASE Exists(watch.apply)
    BY <1>1, <2>1 DEF FileApplied, Issued, Exists
  <2>2. CASE ~Exists(watch.apply)
    <3>1. managed' = [managed EXCEPT !.off = TRUE]
      BY <2>2 DEF FileApplied
    <3>2. managed' \in Contents /\ managed'.token = managed.token
      BY <1>1, <3>1 DEF Contents
    <3>3. QED
      BY <1>0, <1>1, <3>2 DEF Issued, Exists
  <2>3. QED
    BY <2>1, <2>2
<1>3. /\ watch' \in Watch /\ watch'.notice = watch.notice /\ watch'.seen = watch.seen
      /\ watch'.apply = Missing /\ watch'.applying = FALSE /\ watch'.sync = watch.sync
  BY <1>1, ContentFacts DEF FileApplied, Watch
<1>4. TokenTypeOK'
  BY <1>0, <1>2, <1>3 DEF TokenInv, TokenTypeOK
<1>5. TokensIssued'
  BY <1>0, <1>2, <1>3, ContentFacts DEF TokenInv, TokensIssued, Issued, TokenTypeOK
<1>6. UpdatesKept' /\ UploadFinds' /\ MirrorFollows'
  BY <1>0, <1>2 DEF TokenInv, UpdatesKept, UploadFinds, MirrorFollows, BucketOrTable, StoreLocked, Deleting, Mirrored,
     Exists
<1>7. ASSUME crossed' = "no" PROVE UncrossedInv'
  <2>1. crossed = "no" /\ UncrossedInv
    BY <1>0, <1>7 DEF TokenInv
  <2>2. (Writing' <=> Writing) /\ (Watching' => Watching)
    BY <1>0, <1>3 DEF Writing, Watching
  <2>3. WillSync' <=> WillSync
    BY <1>0, <1>3, <2>2 DEF WillSync
  <2>4. Alone' /\ DeleteKept' /\ FileKept'
    BY <1>0, <2>1, <2>2 DEF UncrossedInv, Alone, DeleteKept, FileKept, NotUpdating, Before, StoreLocked, Written
  <2>5. SeenKept'
    BY <1>0, <1>3, <2>1, <2>2 DEF UncrossedInv, SeenKept
  <2>6. BucketKept' /\ RepositoryKept'
    BY <1>0, <2>1, <2>3 DEF UncrossedInv, BucketKept, RepositoryKept, BucketOrTable, Mirrored, Deleting, StoreLocked
  <2>7. TokensGood'
    BY <1>0, <1>1, <1>2, <1>3, <2>1 DEF UncrossedInv, TokensGood, Good
  <2>8. QED
    BY <2>4, <2>5, <2>6, <2>7 DEF UncrossedInv
<1>8. QED
  BY <1>4, <1>5, <1>6, <1>7 DEF TokenInv

\* The store syncs the file: while nothing has crossed and no call has failed, only a
\* delete leaves it something to do.
LEMMA FileSyncedKeeps ==
  ASSUME TokenInv, FileSynced
  PROVE  TokenInv'
<1>0. UNCHANGED <<store, habit, issued, spent, managed, authFile, updater, kept, crossed, dropped,
                  updates, crashes>>
  BY DEF FileSynced
<1>1. watch.sync /\ watch \in Watch /\ ~StoreLocked
  BY WatchFacts DEF FileSynced
<1>2. PICK fails \in BOOLEAN : ObjectUpload(fails) \/ RecordSync(fails) \/ CommitAndPush(fails)
  BY DEF FileSynced
<1>3. \/ BucketOrTable /\ store # "git" /\ ToBucket(fails) /\ Tries(fails)
      \/ store = "git" /\ ~BucketOrTable /\ ToRepository(fails)
  BY <1>2, SyncFacts
<1>4. /\ watch' \in Watch /\ watch'.notice = watch.notice /\ watch'.seen = watch.seen
      /\ watch'.apply = watch.apply /\ watch'.applying = watch.applying /\ watch'.sync = FALSE
  BY <1>1 DEF FileSynced, Watch
<1>5. TokenTypeOK'
  BY <1>0, <1>3, <1>4, ToMirrorTypes DEF TokenInv, TokenTypeOK
<1>6. TokensIssued'
  BY <1>0, <1>3, <1>4, ToMirrorTypes DEF TokenInv, TokensIssued, Issued
<1>7. ~StoreLocked' /\ (Deleting' <=> Deleting) /\ Mirrored' = Mirrored
  BY <1>0, <1>1 DEF StoreLocked, Deleting, Mirrored
<1>8. UpdatesKept' /\ UploadFinds'
  BY <1>0, <1>7 DEF TokenInv, UpdatesKept, UploadFinds
<1>9. MirrorFollows'
  <2>1. SUFFICES ASSUME BucketOrTable, failed' = 0 PROVE remote' = Mirrored
    BY <1>0, <1>7 DEF MirrorFollows, BucketOrTable
  <2>2. QED
    BY <1>3, <2>1 DEF ToBucket, Tries, TokenInv, TokenTypeOK
<1>10. ASSUME crossed' = "no" PROVE UncrossedInv'
  <2>1. crossed = "no" /\ UncrossedInv
    BY <1>0, <1>10 DEF TokenInv
  <2>2. \A k \in Kinds : ~Before(k)
    BY <1>1, <2>1 DEF UncrossedInv, Alone, Watching
  <2>3. ~Writing /\ ~Writing' /\ authFile # Torn
    BY <1>0, <1>1, <2>1 DEF Writing, StoreLocked, UncrossedInv, FileKept
  <2>4. Alone' /\ DeleteKept' /\ FileKept'
    BY <1>0, <1>7, <2>1, <2>2, <2>3 DEF UncrossedInv, Alone, DeleteKept, FileKept, NotUpdating, Before, StoreLocked,
       Written
  <2>5. SeenKept'
    <3>1. updater["login"].pc \notin {"save", "lock", "fill"}
      BY <2>2, <2>3 DEF Before, Writing, Kinds
    <3>2. QED
      BY <1>0, <1>4, <2>1, <2>3, <3>1 DEF UncrossedInv, SeenKept
  <2>6. BucketKept'
    <3>1. SUFFICES ASSUME BucketOrTable, remote' # Mirrored, failed' \in {0, 1}
                   PROVE  failed' # 0 /\ Deleting
      BY <1>0, <1>7 DEF BucketKept, BucketOrTable
    <3>2. fails /\ remote' = remote /\ Tries(fails)
      BY <1>3, <3>1 DEF ToBucket
    <3>3. failed' = 1 /\ failed = 0
      BY <3>1, <3>2 DEF Tries, TokenInv, TokenTypeOK
    <3>4. QED
      BY <1>1, <2>1, <3>1, <3>2, <3>3 DEF TokenInv, MirrorFollows
  <2>7. RepositoryKept'
    <3>1. SUFFICES ASSUME store = "git"
                   PROVE  head' = authFile /\ (failed' = 0 => remote' = authFile)
      BY <1>0, <2>3 DEF RepositoryKept
    <3>2. failed' = 0 => remote' = authFile
      BY <1>3, <2>1, <3>1 DEF UncrossedInv, RepositoryKept, ToRepository, Tries, TokenInv, TokenTypeOK
    <3>3. QED
      BY <1>3, <3>1, <3>2 DEF ToRepository
  <2>8. TokensGood'
    BY <1>0, <1>4, <2>1 DEF UncrossedInv, TokensGood, Good
  <2>9. QED
    BY <2>4, <2>5, <2>6, <2>7, <2>8 DEF UncrossedInv
<1>11. QED
  BY <1>5, <1>6, <1>8, <1>9, <1>10 DEF TokenInv
----------------------------------------------------------------------------
(* A crash, the start after it, and the whole.                             *)

LEMMA MirrorAgreement ==
  ASSUME TokenInv
  PROVE  MirrorAgrees
<1>1. SUFFICES ASSUME Quiet, store # "file", crossed # "crash",
                      failed = 0 \/ (failed = 1 /\ store # "git"),
                      crossed = "no" \/ (failed = 0 /\ store # "git")
               PROVE  remote = Mirrored
  BY DEF MirrorAgrees
<1>2. ~StoreLocked /\ ~Deleting /\ ~WillSync
  BY <1>1 DEF Quiet, NotUpdating, StoreLocked, Deleting, WillSync, Writing, Watching, Kinds
<1>3. store \in Stores
  BY DEF TokenInv, TokenTypeOK
<1>4. CASE store = "git"
  <2>1. crossed = "no" /\ failed = 0 /\ UncrossedInv
    BY <1>1, <1>4 DEF TokenInv
  <2>2. head = authFile /\ (authFile = Missing \/ Full(authFile))
    BY <1>1, <1>4, <2>1, QuietFacts
  <2>3. QED
    BY <1>4, <2>1, <2>2 DEF UncrossedInv, RepositoryKept, Mirrored
<1>5. CASE BucketOrTable
  <2>1. CASE failed = 0
    BY <1>1, <1>2, <1>5, <2>1 DEF TokenInv, MirrorFollows
  <2>2. CASE failed = 1 /\ crossed = "no"
    BY <1>2, <1>5, <2>2 DEF TokenInv, UncrossedInv, BucketKept
  <2>3. QED
    BY <1>1, <2>1, <2>2
<1>6. QED
  BY <1>1, <1>3, <1>4, <1>5 DEF Stores, BucketOrTable

\* What a start finds in the directory.
LEMMA LoadedFacts ==
  ASSUME TokenInv, NEW lost \in BOOLEAN, Restarts(lost)
  PROVE  authFile' \in Contents /\ Issued(authFile')
<1>1. /\ {authFile, remote} \subseteq Contents /\ Missing \in Contents
      /\ Issued(authFile) /\ Issued(remote) /\ Issued(Missing) /\ store \in Stores
  BY ContentFacts DEF TokenInv, TokenTypeOK, TokensIssued, Issued
<1>2. authFile' \in {authFile, remote, Missing}
  BY <1>1 DEF Restarts, Stores, FromBucket, FromDatabase, FromRepository
<1>3. QED
  BY <1>1, <1>2 DEF Issued

\* After a crash between updates, with no call failed, the directory is what it was.
LEMMA SameLoaded ==
  ASSUME TokenInv, NEW lost \in BOOLEAN, Restarts(lost), Quiet, failed = 0, crossed = "no"
  PROVE  authFile' = authFile /\ (store = "git" => head' = authFile) /\ (store # "file" => remote = Mirrored)
<1>1. /\ store = "git" => head = authFile
      /\ authFile = Missing \/ Full(authFile)
      /\ store \in Stores
  BY QuietFacts DEF TokenInv, TokenTypeOK
<1>2. store # "file" => remote = Mirrored
  BY MirrorAgreement DEF MirrorAgrees
<1>3. Mirrored = authFile
  BY <1>1 DEF Mirrored
<1>4. CASE store = "file"
  BY <1>4 DEF Restarts
<1>5. CASE store = "object"
  <2>1. authFile' = FromBucket(IF lost THEN Missing ELSE authFile)
    BY <1>5 DEF Restarts
  <2>2. ~Exists(authFile) => authFile = Missing
    BY <1>1, ContentFacts DEF Full, Exists, TokenInv, TokenTypeOK
  <2>3. QED
    BY <1>2, <1>3, <1>5, <2>1, <2>2 DEF FromBucket
<1>6. CASE store = "postgres"
  BY <1>2, <1>3, <1>6 DEF Restarts, FromDatabase
<1>7. CASE store = "git"
  BY <1>1, <1>2, <1>3, <1>7 DEF Restarts, FromRepository
<1>8. QED
  BY <1>1, <1>2, <1>4, <1>5, <1>6, <1>7 DEF Stores

LEMMA RestartsKeeps ==
  ASSUME TokenInv, NEW lost \in BOOLEAN, Restarts(lost)
  PROVE  TokenInv'
<1>0. UNCHANGED <<store, habit, issued, spent, remote, kept, dropped, updates, failures>>
  BY DEF Restarts
<1>1. authFile' \in Contents /\ Issued(authFile')
  BY LoadedFacts
<1>2. /\ \A k \in Kinds : updater'[k] = Rest
      /\ updater' \in [Kinds -> Updating]
  BY RestFacts DEF Restarts
<1>3. \A k \in Kinds : updater'[k].pc = "idle" /\ updater'[k].copy = Missing
  BY <1>2, RestFacts
<1>4. managed' = Listed(authFile')
  BY DEF Restarts
<1>5. /\ managed' \in Contents /\ Issued(managed') /\ Exists(managed')
      /\ (Full(authFile') /\ managed' = authFile') \/ managed'.token = 0
  <2>1. Content(0, TRUE) \in Contents /\ Content(0, TRUE).token = 0
    BY TokenAssumption DEF Contents, Content
  <2>2. issued \in 1..TokenLimit
    BY DEF TokenInv, TokenTypeOK
  <2>3. PICK loaded \in Contents : loaded = authFile'
    BY <1>1
  <2>4. managed' = (IF Full(loaded) THEN loaded ELSE Content(0, TRUE)) /\ Issued(loaded)
    BY <1>0, <1>1, <1>4, <2>3 DEF Listed, Issued
  <2>5. CASE Full(loaded)
    <3>1. managed' = loaded /\ Exists(loaded)
      <4>1. managed' = loaded
        BY <2>4, <2>5
      <4>2. loaded.token \in Int /\ loaded.token >= 1
        BY <2>3, <2>5, TokenTypes DEF Full
      <4>3. QED
        BY <4>1, <4>2 DEF Exists
    <3>2. QED
      BY <1>0, <2>3, <2>4, <2>5, <3>1 DEF Full, Exists, Issued
  <2>6. CASE ~Full(loaded)
    <3>1. managed' = Content(0, TRUE)
      BY <2>4, <2>6
    <3>2. managed' \in Contents /\ managed'.token = 0
      BY <2>1, <3>1
    <3>3. QED
      BY <1>0, <2>2, <3>2 DEF Exists, Issued
  <2>7. QED
    BY <2>5, <2>6
<1>6. head' \in Contents /\ Issued(head')
  BY ContentFacts DEF Restarts, TokenInv, TokenTypeOK, TokensIssued, Issued
<1>7. /\ watch' \in Watch /\ watch'.notice = FALSE /\ watch'.apply = Missing
      /\ watch'.applying = FALSE /\ watch'.sync = FALSE
      /\ watch'.seen = (IF Full(authFile') THEN authFile' ELSE Missing)
  <2>1. watch' = [Following EXCEPT !.seen = IF Full(authFile') THEN authFile' ELSE Missing]
    BY DEF Restarts
  <2>2. PICK seen \in Contents : seen = (IF Full(authFile') THEN authFile' ELSE Missing)
    BY <1>1, ContentFacts
  <2>3. watch' = [Following EXCEPT !.seen = seen]
    BY <2>1, <2>2
  <2>4. QED
    BY <2>2, <2>3, ContentFacts DEF Following, Watch
<1>8. /\ crossed' \in {"no", "update", "crash"} /\ failed' \in 0..2 /\ crashes' \in 0..CrashLimit
      /\ crossed' # "crash" => Quiet /\ failed = 0 /\ crossed' = crossed /\ failed' = 0
  BY TokenAssumption DEF Restarts, TokenInv, TokenTypeOK
<1>9. TokenTypeOK'
  BY <1>0, <1>1, <1>2, <1>5, <1>6, <1>7, <1>8 DEF TokenInv, TokenTypeOK
<1>10. TokensIssued'
  BY <1>0, <1>1, <1>3, <1>5, <1>6, <1>7, ContentFacts DEF TokenInv, TokensIssued, Issued, TokenTypeOK
<1>11. UpdatesKept'
  BY <1>3, <1>5 DEF UpdatesKept
<1>12. ~StoreLocked' /\ ~Deleting' /\ ~Writing'
  BY <1>3 DEF StoreLocked, Deleting, Writing, Kinds
<1>13. UploadFinds'
  BY <1>12 DEF UploadFinds
<1>14. MirrorFollows'
  <2>1. SUFFICES ASSUME BucketOrTable, crossed' # "crash" PROVE remote = Mirrored'
    BY <1>0 DEF MirrorFollows, BucketOrTable
  <2>2. Quiet /\ failed = 0 /\ crossed # "crash" /\ store # "git" /\ store # "file"
    BY <1>8, <2>1 DEF BucketOrTable
  <2>3. remote = Mirrored
    BY <2>2, MirrorAgreement DEF MirrorAgrees
  <2>4. CASE Full(authFile)
    <3>1. remote = authFile /\ Exists(remote)
      BY <2>3, <2>4 DEF Mirrored, Full, Exists
    <3>2. authFile' = authFile
      BY <2>1, <3>1 DEF Restarts, BucketOrTable, FromBucket, FromDatabase
    <3>3. QED
      BY <2>4, <3>1, <3>2 DEF Mirrored
  <2>5. CASE ~Full(authFile)
    <3>1. remote = Missing /\ ~Exists(remote) /\ ~Full(Missing)
      BY <2>3, <2>5, ContentFacts DEF Mirrored, Full, Exists
    <3>2. authFile' \in {authFile, Missing}
      BY <2>1, <3>1 DEF Restarts, BucketOrTable, FromBucket, FromDatabase
    <3>3. QED
      BY <2>5, <3>1, <3>2 DEF Mirrored
  <2>6. QED
    BY <2>4, <2>5
<1>15. ASSUME crossed' = "no" PROVE UncrossedInv'
  <2>1. crossed = "no" /\ Quiet /\ failed = 0 /\ UncrossedInv /\ failed' = 0
    BY <1>8, <1>15 DEF TokenInv
  <2>2. /\ authFile' = authFile
        /\ store = "git" => head' = authFile
        /\ store # "file" => remote = Mirrored
    BY <2>1, SameLoaded
  <2>3. /\ authFile.token = kept.token
        /\ authFile = Missing \/ Full(authFile)
        /\ ~dropped => Good(authFile)
    BY <2>1, QuietFacts
  <2>4. authFile # Torn /\ Mirrored = authFile /\ Mirrored' = authFile
    BY <2>2, <2>3, ContentFacts DEF Full, Mirrored
  <2>5. watch'.seen = authFile
    BY <1>7, <2>2, <2>3
  <2>6. Alone' /\ DeleteKept'
    BY <1>3 DEF Alone, DeleteKept, NotUpdating, Before, Kinds
  <2>7. FileKept'
    BY <1>0, <1>3, <1>12, <2>2, <2>3, <2>4 DEF FileKept
  <2>8. SeenKept'
    BY <1>3, <2>2, <2>4, <2>5 DEF SeenKept, Kinds
  <2>9. BucketKept' /\ RepositoryKept'
    BY <1>0, <2>2, <2>4 DEF BucketKept, RepositoryKept, BucketOrTable
  <2>10. TokensGood'
    <3>1. 0 \notin spent
      BY DEF TokenInv, TokenTypeOK
    <3>2. ~dropped => Good(managed)'
      BY <1>0, <1>5, <2>2, <2>3, <3>1 DEF Good
    <3>3. QED
      BY <1>0, <1>3, <1>7, <2>2, <2>3, <3>2 DEF TokensGood, Good
  <2>11. QED
    BY <2>6, <2>7, <2>8, <2>9, <2>10 DEF UncrossedInv
<1>16. QED
  BY <1>9, <1>10, <1>11, <1>13, <1>14, <1>15 DEF TokenInv

\* One token, in memory, in the file and in the mirrors.
LEMMA TokenStarts ==
  ASSUME TokenInit
  PROVE  TokenInv
<1> DEFINE c == Content(1, FALSE)
<1>1. c \in Contents /\ c.token = 1
  BY TokenAssumption DEF Contents, Content
<1>2. /\ managed = c /\ authFile = c /\ kept = c
      /\ remote = (IF store = "file" THEN Missing ELSE c)
      /\ head = (IF store = "git" THEN c ELSE Missing)
      /\ watch = [Following EXCEPT !.seen = c]
  BY DEF TokenInit
<1> HIDE DEF c
<1>3. Full(c) /\ Exists(c) /\ c # Missing /\ c # Torn
  BY <1>1, ContentFacts DEF Full, Exists
<1>4. /\ watch \in Watch /\ watch.seen = c /\ watch.apply = Missing /\ ~watch.applying
      /\ ~watch.notice /\ ~watch.sync
  BY <1>1, <1>2, ContentFacts DEF Following, Watch
<1>5. /\ \A k \in Kinds : updater[k] = Rest
      /\ updater \in [Kinds -> Updating]
  BY RestFacts DEF TokenInit
<1>6. \A k \in Kinds : updater[k].pc = "idle" /\ updater[k].copy = Missing
  BY <1>5, RestFacts
<1>7. {managed, authFile, head, remote, kept} \subseteq {c, Missing} /\ issued = 1
  BY <1>2 DEF TokenInit
<1>8. TokenTypeOK
  <2>1. {managed, authFile, head, remote, kept} \subseteq Contents
    BY <1>1, <1>7, ContentFacts
  <2>2. issued \in 1..TokenLimit /\ spent \subseteq 1..issued
    BY <1>7, TokenAssumption DEF TokenInit
  <2>3. store \in Stores /\ habit \in Habits /\ crossed = "no" /\ dropped = FALSE
    BY DEF TokenInit
  <2>4. failed \in 0..2 /\ updates \in 0..UpdateLimit /\ failures \in 0..FailureLimit /\ crashes \in 0..CrashLimit
    BY TokenAssumption DEF TokenInit
  <2>5. QED
    BY <1>4, <1>5, <2>1, <2>2, <2>3, <2>4 DEF TokenTypeOK
<1>9. TokensIssued
  <2>1. c.token <= 1 /\ Missing.token <= 1
    BY <1>1, ContentFacts
  <2>2. QED
    BY <1>4, <1>6, <1>7, <2>1 DEF TokensIssued, Issued
<1>10. UpdatesKept
  BY <1>2, <1>3, <1>6 DEF UpdatesKept
<1>11. ~StoreLocked /\ ~Deleting /\ ~Writing
  BY <1>6 DEF StoreLocked, Deleting, Writing, Kinds
<1>12. Mirrored = c /\ (store # "file" => remote = c)
  BY <1>2, <1>3 DEF Mirrored
<1>13. UploadFinds /\ MirrorFollows
  BY <1>11, <1>12 DEF UploadFinds, MirrorFollows, BucketOrTable
<1>14. Alone /\ DeleteKept
  BY <1>6 DEF Alone, DeleteKept, NotUpdating, Before, Kinds
<1>15. FileKept /\ SeenKept
  BY <1>2, <1>3, <1>4, <1>6, <1>11 DEF FileKept, SeenKept, Kinds
<1>16. BucketKept /\ RepositoryKept
  BY <1>2, <1>3, <1>12 DEF BucketKept, RepositoryKept, BucketOrTable
<1>17. TokensGood
  BY <1>2, <1>4, <1>6 DEF TokenInit, TokensGood, Good
<1>18. QED
  BY <1>8, <1>9, <1>10, <1>13, <1>14, <1>15, <1>16, <1>17 DEF TokenInv, UncrossedInv

LEMMA TokenRests ==
  ASSUME TokenInv, UNCHANGED tokenVars
  PROVE  TokenInv'
<1>1. TokenTypeOK' /\ TokensIssued' /\ UpdatesKept' /\ UploadFinds' /\ MirrorFollows'
  BY DEF tokenVars, TokenInv, TokenTypeOK, TokensIssued, Issued, UpdatesKept, UploadFinds, MirrorFollows, BucketOrTable,
     StoreLocked, Deleting, Mirrored
<1>2. ASSUME crossed' = "no" PROVE UncrossedInv'
  <2>1. UncrossedInv
    BY <1>2 DEF tokenVars, TokenInv
  <2>2. Alone' /\ DeleteKept' /\ FileKept' /\ SeenKept'
    BY <2>1 DEF tokenVars, UncrossedInv, Alone, DeleteKept, FileKept, SeenKept, NotUpdating, Before, Watching, Writing,
       Written, StoreLocked
  <2>3. BucketKept' /\ RepositoryKept' /\ TokensGood'
    BY <2>1 DEF tokenVars, UncrossedInv, BucketKept, RepositoryKept, TokensGood, Good, BucketOrTable, Mirrored, Deleting,
       WillSync, Writing, StoreLocked
  <2>4. QED
    BY <2>2, <2>3 DEF UncrossedInv
<1>3. QED
  BY <1>1, <1>2 DEF TokenInv

LEMMA TokenSteps ==
  ASSUME TokenInv, [TokenNext]_tokenVars
  PROVE  TokenInv'
<1>1. CASE RefreshBegins \/ AsksForToken \/ AsksForUserInfo \/ RefreshAdopted
  BY <1>1, RefreshBeginsKeeps, AsksForTokenKeeps, AsksForUserInfoKeeps, RefreshAdoptedKeeps
<1>2. CASE ResultMarked \/ StatusSet \/ LoginSaves
  BY <1>2, ResultMarkedKeeps, StatusSetKeeps, LoginSavesKeeps
<1>3. ASSUME NEW k \in Kinds, SaveLooks(k) \/ SaveUnneeded(k) \/ Filled(k) \/ Uploaded(k)
      PROVE  TokenInv'
  BY <1>3, SaveLooksKeeps, SaveUnneededKeeps, FilledKeeps, UploadedKeeps
<1>4. ASSUME NEW k \in Kinds, FileTruncated(k) \/ StorageTruncated(k)
      PROVE  TokenInv'
  BY <1>4, FileTruncatedKeeps, StorageTruncatedKeeps
<1>5. ASSUME NEW k \in Kinds, ObjectStoreWrites(k) \/ PostgresStoreWrites(k) \/ GitStoreWrites(k)
      PROVE  TokenInv'
  BY <1>5, RenamedKeeps DEF ObjectStoreWrites, PostgresStoreWrites, GitStoreWrites
<1>6. CASE FileRemoved \/ RecordDeleted \/ CredentialDisabled
  BY <1>6, FileRemovedKeeps, RecordDeletedKeeps, CredentialDisabledKeeps
<1>7. CASE FileFollowed \/ FileApplied \/ FileSynced
  BY <1>7, FileFollowedKeeps, FileAppliedKeeps, FileSyncedKeeps
<1>8. ASSUME NEW lost \in BOOLEAN, Restarts(lost)
      PROVE  TokenInv'
  BY <1>8, RestartsKeeps
<1>9. CASE UNCHANGED tokenVars
  BY <1>9, TokenRests
<1>10. QED
  BY <1>1, <1>2, <1>3, <1>4, <1>5, <1>6, <1>7, <1>8, <1>9 DEF TokenNext

LEMMA TokensFollow ==
  ASSUME TokenInv
  PROVE  TokensKept
<1>1. LastUpdateKept /\ KeptTokenGood
  BY QuietFacts DEF LastUpdateKept, KeptTokenGood, Good
<1>2. QED
  BY <1>1, MirrorAgreement DEF TokensKept

\* Whatever updates, failing calls and crashes come: updates that did not cross leave the
\* last one's token on disk, one the provider still takes, and the mirror has what the
\* disk has.
THEOREM CredentialKept == TokenSpec => []TokensKept
<1>1. TokenInit => TokenInv
  BY TokenStarts
<1>2. TokenInv /\ [TokenNext]_tokenVars => TokenInv'
  BY TokenSteps
<1>3. TokenInv => TokensKept
  BY TokensFollow
<1>4. QED
  BY <1>1, <1>2, <1>3, PTL DEF TokenSpec
=============================================================================
