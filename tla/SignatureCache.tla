--------------------------- MODULE SignatureCache ---------------------------
(***************************************************************************)
(* The cache of thinking signatures (internal/cache): a sync.Map of        *)
(* buckets, one for each group of models, with a mutex of their own.       *)
(* Callers look a bucket up first and lock it later, and so does the purge *)
(* that runs every ten minutes.  Groups do not meet; one is followed.      *)
(***************************************************************************)
EXTENDS Naturals

CONSTANTS Texts,        \* hashes of texts
          Storers, Fetchers,
          TTL,          \* SignatureCacheTTL, in ticks
          BucketLimit   \* bound: buckets made

ASSUME CacheAssumption == TTL \in Nat /\ BucketLimit \in Nat

VARIABLES bucket,      \* the group's bucket in signatureCache, or NoBucket
          made,        \* buckets made so far; they are numbered
          entries,     \* bucket -> text -> age of its signature, or Stale
          storer, fetcher,
          purger,      \* purgeExpiredCaches
          due,         \* history: text -> age of what was last cached or found for it
          undercut      \* history: a bucket was deleted while someone was storing into it

cacheVars == <<bucket, made, entries, storer, fetcher, purger, due, undercut>>
----------------------------------------------------------------------------
NoBucket == 0
Buckets == 1..BucketLimit
Stale == TTL + 1       \* expired, or never there
Ages == 0..Stale

CacheTypeOK ==
  /\ bucket \in Buckets \cup {NoBucket} /\ made \in 0..BucketLimit
  /\ entries \in [Buckets -> [Texts -> Ages]]
  /\ storer \in [Storers -> [pc : {"idle", "make", "store"}, text : Texts, into : 0..BucketLimit]]
  /\ fetcher \in [Fetchers -> [pc : {"idle", "look"}, text : Texts, in : 0..BucketLimit]]
  /\ purger \in [pc : {"idle", "delete"}]
  /\ due \in [Texts -> Ages] /\ undercut \in BOOLEAN

Bucket == [t \in Texts |-> Stale]

CacheInit ==
  /\ bucket = NoBucket /\ made = 0
  /\ entries = [b \in Buckets |-> Bucket]
  /\ storer \in [Storers -> [pc : {"idle"}, text : Texts, into : {NoBucket}]]
  /\ fetcher \in [Fetchers -> [pc : {"idle"}, text : Texts, in : {NoBucket}]]
  /\ purger = [pc |-> "idle"]
  /\ due = [t \in Texts |-> Stale] /\ undercut = FALSE
----------------------------------------------------------------------------
(* CacheSignature, with getOrCreateGroupCache.                             *)

LookUpToStore(s) ==
  /\ storer[s].pc = "idle"
  /\ \E t \in Texts :
       storer' = [storer EXCEPT ![s] = [pc |-> IF bucket = NoBucket THEN "make" ELSE "store",
                                        text |-> t, into |-> bucket]]
  /\ UNCHANGED <<bucket, made, entries, fetcher, purger, due, undercut>>

\* Faulty variant: Store, whoever was first.
StoreBucket(s) ==
  /\ storer[s].pc = "make" /\ made < BucketLimit
  /\ made' = made + 1 /\ bucket' = made'
  /\ storer' = [storer EXCEPT ![s].pc = "store", ![s].into = bucket']
  /\ UNCHANGED <<entries, fetcher, purger, due, undercut>>

\* LoadOrStore: the new bucket, or the one another has stored meanwhile.
LoadOrStoreBucket(s) ==
  /\ storer[s].pc = "make"
  /\ IF bucket # NoBucket THEN UNCHANGED <<bucket, made>>
                          ELSE made < BucketLimit /\ made' = made + 1 /\ bucket' = made'
  /\ storer' = [storer EXCEPT ![s].pc = "store", ![s].into = bucket']
  /\ UNCHANGED <<entries, fetcher, purger, due, undercut>>

StoreSignature(s) ==
  /\ storer[s].pc = "store"
  /\ entries' = [entries EXCEPT ![storer[s].into][storer[s].text] = 0]
  /\ due' = [due EXCEPT ![storer[s].text] = 0]
  /\ storer' = [storer EXCEPT ![s].pc = "idle", ![s].into = NoBucket]
  /\ UNCHANGED <<bucket, made, fetcher, purger, undercut>>
----------------------------------------------------------------------------
(* GetCachedSignature.  Without a bucket nothing is found.                 *)

LookUpToFetch(f) ==
  /\ fetcher[f].pc = "idle" /\ bucket # NoBucket
  /\ \E t \in Texts : fetcher' = [fetcher EXCEPT ![f] = [pc |-> "look", text |-> t, in |-> bucket]]
  /\ UNCHANGED <<bucket, made, entries, storer, purger, due, undercut>>

\* What is found lives longer.
FetchSignature(f) ==
  LET b == fetcher[f].in
      t == fetcher[f].text
      fresh(age) == IF entries[b][t] # Stale THEN 0 ELSE age
  IN /\ fetcher[f].pc = "look"
     /\ entries' = [entries EXCEPT ![b][t] = fresh(@)]
     /\ due' = [due EXCEPT ![t] = fresh(@)]
     /\ fetcher' = [fetcher EXCEPT ![f].pc = "idle", ![f].in = NoBucket]
     /\ UNCHANGED <<bucket, made, storer, purger, undercut>>
----------------------------------------------------------------------------
(* purgeExpiredCaches: a bucket found empty under its lock is deleted      *)
(* after the lock is released.                                             *)

PurgeBucket ==
  /\ purger.pc = "idle" /\ bucket # NoBucket
  /\ \A t \in Texts : entries[bucket][t] = Stale
  /\ purger' = [pc |-> "delete"]
  /\ UNCHANGED <<bucket, made, entries, storer, fetcher, due, undercut>>

DeleteBucket ==
  /\ purger.pc = "delete"
  /\ bucket' = NoBucket /\ purger' = [pc |-> "idle"]
  /\ undercut' = (\/ undercut
                  \/ \E s \in Storers : storer[s].pc = "store"
                  \/ \E t \in Texts : entries[bucket][t] # Stale)
  /\ UNCHANGED <<made, entries, storer, fetcher, due>>

Aged(ages) == [t \in Texts |-> IF ages[t] = Stale THEN Stale ELSE ages[t] + 1]

CacheTick ==
  /\ entries' = [b \in Buckets |-> Aged(entries[b])] /\ due' = Aged(due)
  /\ <<entries, due>>' # <<entries, due>>
  /\ UNCHANGED <<bucket, made, storer, fetcher, purger, undercut>>

CacheNext ==
  \/ \E s \in Storers : LookUpToStore(s) \/ LoadOrStoreBucket(s) \/ StoreSignature(s)
  \/ \E f \in Fetchers : LookUpToFetch(f) \/ FetchSignature(f)
  \/ PurgeBucket \/ DeleteBucket \/ CacheTick

CacheSpec == CacheInit /\ [][CacheNext]_cacheVars
----------------------------------------------------------------------------
(* Properties.                                                             *)

(***************************************************************************)
(* A signature cached is found until TTL after it was cached or last found *)
(* whatever buckets come and go, unless one was deleted under the hands of *)
(* somebody who was storing into it.                                       *)
(***************************************************************************)
SignaturesFound ==
  ~undercut => \A t \in Texts :
                due[t] # Stale => bucket # NoBucket /\ entries[bucket][t] = due[t]
=============================================================================
