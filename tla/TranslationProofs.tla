-------------------------- MODULE TranslationProofs -------------------------
(***************************************************************************)
(* What a client has been told of an answer is what the upstream said of   *)
(* it, on every route whose upstream speaks in blocks: Codex's and         *)
(* Claude's events for the clients of Claude, of chat completions, of      *)
(* Gemini and of Responses, however many items an answer has and however   *)
(* many pieces an item.                                                    *)
(*                                                                         *)
(* The argument has three parts.  The models read lists with folds, and    *)
(* what a fold makes of one element more is shown first.  Then each route  *)
(* has an invariant that says what its converter keeps and what its client *)
(* has, in terms of what was told; every event of the upstream is followed *)
(* through the converter to the client, and keeps it.  Last, what the      *)
(* client of an answer that is over has is compared with what was told.    *)
(***************************************************************************)
EXTENDS StreamTranslation, FiniteSetTheorems, SequenceTheorems, WellFoundedInduction, TLAPS
----------------------------------------------------------------------------
(* Folds.  The models read a sequence with FoldLeft, which takes an        *)
(* operator; here each is shown to be Folded, the fold by a function h,    *)
(* whose equation for one element more follows by induction over a set of  *)
(* numbers.                                                                *)

\* A set of numbers that holds 0 and the next of each holds them all.
LEMMA SetInduction ==
  ASSUME NEW T, T \subseteq Nat, 0 \in T, \A n \in T : n + 1 \in T
  PROVE  T = Nat
<1> SUFFICES ASSUME Nat \ T # {} PROVE FALSE
  OBVIOUS
<1>1. PICK x \in Nat \ T : \A y \in Nat \ T : ~ (<<y, x>> \in OpToRel(<, Nat))
  BY WFMin, NatLessThanWellFounded
<1>2. x # 0 /\ x - 1 \in Nat /\ x - 1 < x /\ (x - 1) + 1 = x
  OBVIOUS
<1>3. <<x - 1, x>> \in OpToRel(<, Nat)
  BY <1>2 DEF OpToRel
<1>4. x - 1 \in T
  BY <1>1, <1>2, <1>3
<1>5. QED
  BY <1>2, <1>4

\* A set of places has a largest one.
LEMMA LargestOfSome ==
  \A n \in Nat : \A s \in SUBSET (1..n) : s # {} => Max(s) \in s /\ \A y \in s : Max(s) >= y
<1> DEFINE T == {n \in Nat : \A s \in SUBSET (1..n) : s # {} => \E x \in s : \A y \in s : x >= y}
<1>1. 0 \in T
  <2>1. 1..0 = {}
    OBVIOUS
  <2>2. QED
    BY <2>1
<1>2. ASSUME NEW n \in T PROVE n + 1 \in T
  <2> SUFFICES ASSUME NEW s \in SUBSET (1..(n + 1)), s # {} PROVE \E x \in s : \A y \in s : x >= y
    OBVIOUS
  <2>1. CASE n + 1 \in s
    BY <2>1
  <2>2. CASE n + 1 \notin s
    BY <2>2
  <2>3. QED
    BY <2>1, <2>2
<1>3. T = Nat
  <2> HIDE DEF T
  <2>1. T \subseteq Nat
    BY DEF T
  <2>2. QED
    BY <1>1, <1>2, <2>1, SetInduction
<1>4. QED
  BY <1>3 DEF Max

\* The largest place of a sequence is its last.
LEMMA LargestOfAll == \A n \in Nat : Max(1..(n + 1)) = n + 1 /\ (1..(n + 1)) \ {n + 1} = 1..n
<1> SUFFICES ASSUME NEW n \in Nat PROVE Max(1..(n + 1)) = n + 1 /\ (1..(n + 1)) \ {n + 1} = 1..n
  OBVIOUS
<1> DEFINE s == 1..(n + 1)
<1>1. n + 1 \in Nat /\ s \in SUBSET (1..(n + 1)) /\ n + 1 \in s
  OBVIOUS
<1>2. Max(s) \in s /\ \A y \in s : Max(s) >= y
  BY <1>1, LargestOfSome
<1>3. QED
  BY <1>1, <1>2

\* g[s] is the fold by h, from b, of the elements of q at the places in s.
Folds(g, q, b, h, R) ==
  /\ g[{}] = b
  /\ \A s \in SUBSET (1..Len(q)) :
       s # {} /\ g[s \ {Max(s)}] \in R => g[s] = h[<<g[s \ {Max(s)}], q[Max(s)]>>]

\* The function g does so at each set of places.
Computes(g, q, b, h, R) ==
  /\ g \in [SUBSET (1..Len(q)) -> R]
  /\ \A s \in SUBSET (1..Len(q)) :
       g[s] = IF s = {} THEN b ELSE h[<<g[s \ {Max(s)}], q[Max(s)]>>]

\* A step by h stays in R.
Closed(h, R, X) == \A r \in R, x \in X : h[<<r, x>>] \in R

\* There is such a fold.
LEMMA FoldExists ==
  ASSUME NEW X, NEW q \in Seq(X), NEW R, NEW b \in R, NEW h, Closed(h, R, X)
  PROVE  \E g : Computes(g, q, b, h, R)
<1> DEFINE n == Len(q)
<1>0. n \in Nat /\ \A i \in 1..n : q[i] \in X
  BY LenProperties, ElementOfSeq
<1> HIDE DEF n
<1> DEFINE Good(k) == \E g \in [SUBSET (1..k) -> R] : \A s \in SUBSET (1..k) :
              g[s] = IF s = {} THEN b ELSE h[<<g[s \ {Max(s)}], q[Max(s)]>>]
           T == {k \in Nat : k <= n => Good(k)}
<1> HIDE DEF Good
<1>1. 0 \in T
  <2> DEFINE g == [s \in SUBSET (1..0) |-> b]
  <2>1. g \in [SUBSET (1..0) -> R]
    OBVIOUS
  <2>2. \A s \in SUBSET (1..0) : s = {} /\ g[s] = b
    <3>1. 1..0 = {}
      OBVIOUS
    <3>2. QED
      BY <3>1
  <2> HIDE DEF g
  <2>3. Good(0)
    BY <2>1, <2>2 DEF Good
  <2>4. QED
    BY <2>3
<1>2. ASSUME NEW k \in T PROVE k + 1 \in T
  <2> SUFFICES ASSUME k + 1 <= n PROVE Good(k + 1)
    OBVIOUS
  <2>1. k \in Nat /\ Good(k)
    BY <1>0
  <2>2. PICK g \in [SUBSET (1..k) -> R] : \A s \in SUBSET (1..k) :
              g[s] = IF s = {} THEN b ELSE h[<<g[s \ {Max(s)}], q[Max(s)]>>]
    BY <2>1 DEF Good
  <2> DEFINE G == [s \in SUBSET (1..(k + 1)) |-> IF k + 1 \in s THEN h[<<g[s \ {k + 1}], q[k + 1]>>] ELSE g[s]]
  <2>3. \A s \in SUBSET (1..(k + 1)) : k + 1 \in s => Max(s) = k + 1 /\ s \ {k + 1} \in SUBSET (1..k)
    <3> SUFFICES ASSUME NEW s \in SUBSET (1..(k + 1)), k + 1 \in s
                 PROVE Max(s) = k + 1 /\ s \ {k + 1} \in SUBSET (1..k)
      OBVIOUS
    <3>1. k + 1 \in Nat /\ s # {}
      BY <2>1
    <3>2. Max(s) \in s /\ Max(s) >= k + 1
      BY <3>1, LargestOfSome
    <3>3. \A i \in 1..(k + 1) : i # k + 1 => i \in 1..k
      BY <2>1
    <3>4. Max(s) \in 1..(k + 1)
      BY <3>2
    <3>5. Max(s) = k + 1
      BY <2>1, <3>2, <3>4
    <3>6. s \ {k + 1} \subseteq 1..k
      BY <3>3
    <3>7. QED
      BY <3>5, <3>6
  <2>4. \A s \in SUBSET (1..(k + 1)) : k + 1 \notin s => s \in SUBSET (1..k)
    BY <2>1
  <2>5. G \in [SUBSET (1..(k + 1)) -> R]
    <3> SUFFICES ASSUME NEW s \in SUBSET (1..(k + 1)) PROVE G[s] \in R
      OBVIOUS
    <3>1. CASE k + 1 \in s
      <4>1. g[s \ {k + 1}] \in R /\ q[k + 1] \in X
        BY <1>0, <2>1, <2>2, <2>3, <3>1
      <4>2. QED
        BY <3>1, <4>1 DEF Closed
    <3>2. CASE k + 1 \notin s
      BY <2>2, <2>4, <3>2
    <3>3. QED
      BY <3>1, <3>2
  <2>6. ASSUME NEW s \in SUBSET (1..(k + 1))
        PROVE G[s] = IF s = {} THEN b ELSE h[<<G[s \ {Max(s)}], q[Max(s)]>>]
    <3>1. CASE k + 1 \in s
      <4>1. Max(s) = k + 1 /\ s \ {k + 1} \in SUBSET (1..k) /\ s \ {k + 1} \in SUBSET (1..(k + 1))
        BY <2>3, <3>1
      <4>2. G[s \ {k + 1}] = g[s \ {k + 1}]
        BY <4>1
      <4>3. QED
        BY <3>1, <4>1, <4>2
    <3>2. CASE k + 1 \notin s
      <4>1. s \in SUBSET (1..k) /\ s \ {Max(s)} \in SUBSET (1..(k + 1)) /\ k + 1 \notin s \ {Max(s)}
        BY <2>4, <3>2
      <4>2. G[s] = g[s] /\ G[s \ {Max(s)}] = g[s \ {Max(s)}]
        BY <3>2, <4>1
      <4>3. QED
        BY <2>2, <4>1, <4>2
    <3>3. QED
      BY <3>1, <3>2
  <2> HIDE DEF G
  <2>7. QED
    BY <2>5, <2>6 DEF Good
<1>3. T = Nat
  <2> HIDE DEF T
  <2>1. T \subseteq Nat
    BY DEF T
  <2>2. QED
    BY <1>1, <1>2, <2>1, SetInduction
<1>4. n \in T /\ n <= n
  BY <1>0, <1>3
<1>5. Good(n)
  BY <1>4
<1>6. QED
  BY <1>5 DEF Good, n, Computes

\* Folds of two sequences agree on the part they share.
LEMMA FoldAgrees ==
  ASSUME NEW X, NEW q \in Seq(X), NEW w \in Seq(X), Len(q) <= Len(w), \A i \in 1..Len(q) : w[i] = q[i],
         NEW R, NEW b \in R, NEW h, Closed(h, R, X),
         NEW f, Folds(f, q, b, h, R), NEW g, Folds(g, w, b, h, R)
  PROVE  f[1..Len(q)] \in R /\ f[1..Len(q)] = g[1..Len(q)]
<1> DEFINE n == Len(q)
           m == Len(w)
<1>0. n \in Nat /\ m \in Nat /\ n <= m /\ \A i \in 1..n : q[i] \in X /\ w[i] = q[i]
  BY LenProperties, ElementOfSeq
<1>00. /\ f[{}] = b /\ g[{}] = b
       /\ \A s \in SUBSET (1..n) : s # {} /\ f[s \ {Max(s)}] \in R => f[s] = h[<<f[s \ {Max(s)}], q[Max(s)]>>]
       /\ \A s \in SUBSET (1..m) : s # {} /\ g[s \ {Max(s)}] \in R => g[s] = h[<<g[s \ {Max(s)}], w[Max(s)]>>]
  BY DEF Folds
<1> HIDE DEF n, m
<1> DEFINE T == {k \in Nat : k <= n => f[1..k] \in R /\ f[1..k] = g[1..k]}
<1>1. 0 \in T
  <2>1. 1..0 = {}
    OBVIOUS
  <2>2. QED
    BY <1>00, <2>1
<1>2. ASSUME NEW k \in T PROVE k + 1 \in T
  <2> SUFFICES ASSUME k + 1 <= n PROVE f[1..(k + 1)] \in R /\ f[1..(k + 1)] = g[1..(k + 1)]
    OBVIOUS
  <2> DEFINE s == 1..(k + 1)
  <2>1. k \in Nat /\ f[1..k] \in R /\ f[1..k] = g[1..k]
    BY <1>0
  <2>2. Max(s) = k + 1 /\ s \ {k + 1} = 1..k
    BY <2>1, LargestOfAll
  <2>3. 1 \in s /\ s \in SUBSET (1..n) /\ s \in SUBSET (1..m) /\ k + 1 \in 1..n
    BY <1>0, <2>1
  <2> HIDE DEF s
  <2>4. f[s] = h[<<f[1..k], q[k + 1]>>]
    BY <1>00, <1>0, <2>1, <2>2, <2>3, ZenonT(60)
  <2>5. g[s] = h[<<g[1..k], q[k + 1]>>]
    BY <1>00, <1>0, <2>1, <2>2, <2>3
  <2>6. QED
    BY <1>0, <2>1, <2>3, <2>4, <2>5 DEF Closed, s
<1>3. T = Nat
  <2> HIDE DEF T
  <2>1. T \subseteq Nat
    BY DEF T
  <2>2. QED
    BY <1>1, <1>2, <2>1, SetInduction
<1>4. n \in T /\ n <= n
  BY <1>0, <1>3
<1>5. QED
  BY <1>4 DEF n

\* The fold by h, from b, of a sequence.
Folded(q, b, h, R) ==
  (CHOOSE g \in [SUBSET (1..Len(q)) -> R] : Folds(g, q, b, h, R))[1..Len(q)]

\* Whatever folds q agrees with it.
LEMMA FoldedIs ==
  ASSUME NEW X, NEW q \in Seq(X), NEW R, NEW b \in R, NEW h, Closed(h, R, X),
         NEW f, Folds(f, q, b, h, R)
  PROVE  f[1..Len(q)] = Folded(q, b, h, R) /\ Folded(q, b, h, R) \in R
<1>1. PICK g : Computes(g, q, b, h, R)
  BY FoldExists
<1>2. Folds(g, q, b, h, R) /\ g \in [SUBSET (1..Len(q)) -> R]
  BY <1>1 DEF Folds, Computes
<1> DEFINE c == CHOOSE g_1 \in [SUBSET (1..Len(q)) -> R] : Folds(g_1, q, b, h, R)
<1>3. Folds(c, q, b, h, R)
  BY <1>2
<1> HIDE DEF c
<1>4. Len(q) \in Nat
  BY LenProperties
<1>5. f[1..Len(q)] \in R /\ f[1..Len(q)] = c[1..Len(q)]
  BY <1>3, <1>4, FoldAgrees
<1>6. QED
  BY <1>5 DEF c, Folded

\* A fold of nothing, and of one element more.
LEMMA FoldedAppend ==
  ASSUME NEW X, NEW R, NEW b \in R, NEW h, Closed(h, R, X)
  PROVE  /\ Folded(<<>>, b, h, R) = b
         /\ \A q \in Seq(X) : Folded(q, b, h, R) \in R
         /\ \A q \in Seq(X), x \in X : Folded(Append(q, x), b, h, R) = h[<<Folded(q, b, h, R), x>>]
<1>1. \A q \in Seq(X) : \E g : Folds(g, q, b, h, R)
  <2> SUFFICES ASSUME NEW q \in Seq(X) PROVE \E g : Folds(g, q, b, h, R)
    OBVIOUS
  <2>1. PICK g : Computes(g, q, b, h, R)
    BY FoldExists
  <2>2. QED
    BY <2>1 DEF Folds, Computes
<1>2. Folded(<<>>, b, h, R) = b
  <2>1. <<>> \in Seq(X) /\ 1..Len(<<>>) = {}
    BY EmptySeq
  <2>2. PICK g : Folds(g, <<>>, b, h, R)
    BY <1>1, <2>1
  <2>3. g[1..Len(<<>>)] = Folded(<<>>, b, h, R)
    BY <2>1, <2>2, FoldedIs, ZenonT(60)
  <2>4. QED
    BY <2>1, <2>2, <2>3 DEF Folds
<1>3. ASSUME NEW q \in Seq(X) PROVE Folded(q, b, h, R) \in R
  BY <1>1, FoldedIs
<1>4. ASSUME NEW q \in Seq(X), NEW x \in X
      PROVE  Folded(Append(q, x), b, h, R) = h[<<Folded(q, b, h, R), x>>]
  <2> DEFINE w == Append(q, x)
             n == Len(q)
  <2>1. /\ w \in Seq(X) /\ Len(w) = n + 1 /\ n \in Nat /\ w[n + 1] = x
        /\ \A i \in 1..n : w[i] = q[i]
    BY AppendProperties, LenProperties
  <2> HIDE DEF w
  <2>2. PICK f : Folds(f, q, b, h, R)
    BY <1>1
  <2>3. PICK g : Folds(g, w, b, h, R)
    BY <1>1, <2>1
  <2>4. f[1..n] = Folded(q, b, h, R) /\ f[1..n] \in R
    BY <2>2, FoldedIs
  <2>5. g[1..Len(w)] = Folded(w, b, h, R)
    BY <2>1, <2>3, FoldedIs
  <2>6. f[1..n] = g[1..n]
    <3>1. Len(q) <= Len(w)
      BY <2>1
    <3>2. QED
      BY <2>1, <2>2, <2>3, <3>1, FoldAgrees
  <2>7. Max(1..(n + 1)) = n + 1 /\ (1..(n + 1)) \ {n + 1} = 1..n
    BY <2>1, LargestOfAll
  <2>8. g[1..(n + 1)] = h[<<g[1..n], x>>]
    <3>1. 1..(n + 1) \in SUBSET (1..Len(w)) /\ 1..(n + 1) # {}
      BY <2>1
    <3>2. g[(1..(n + 1)) \ {Max(1..(n + 1))}] \in R
      BY <2>4, <2>6, <2>7
    <3>3. g[1..(n + 1)] = h[<<g[(1..(n + 1)) \ {Max(1..(n + 1))}], w[Max(1..(n + 1))]>>]
      BY <2>3, <3>1, <3>2 DEF Folds
    <3>4. QED
      BY <2>1, <2>7, <3>3
  <2>9. QED
    BY <2>1, <2>4, <2>5, <2>6, <2>8 DEF w
<1>5. QED
  BY <1>2, <1>3, <1>4
----------------------------------------------------------------------------
(* What the folds of the models make of one item more.                     *)

\* Items as they can be told: a call has a name.
ItemKinds == {"thought", "text", "call"}

\* Such items.
Items == {i \in [kind : ItemKinds, pieces : Seq(Nat)] : i.kind = "call" => i.pieces # <<>>}

\* Everything of a kind.
RunStepOf(X, kind) ==
  [p \in Seq(Nat) \X X |-> IF p[2].kind = kind THEN p[1] \o p[2].pieces ELSE p[1]]

\* A run of a kind takes the pieces of one item more if it is of that kind.
LEMMA RunAny ==
  ASSUME NEW X, \A x \in X : x.pieces \in Seq(Nat), NEW kind
  PROVE  /\ Run(<<>>, kind) = <<>>
         /\ \A q \in Seq(X) : Run(q, kind) \in Seq(Nat)
         /\ \A q \in Seq(X), x \in X :
              Run(Append(q, x), kind) = IF x.kind = kind THEN Run(q, kind) \o x.pieces ELSE Run(q, kind)
<1> DEFINE op(r, x) == IF x.kind = kind THEN r \o x.pieces ELSE r
           h == RunStepOf(X, kind)
           T == Seq(Nat)
           b == <<>>
<1>1. \A r \in T, x \in X : op(r, x) \in T /\ h[<<r, x>>] = op(r, x)
  <2>1. \A r \in T, x \in X : h[<<r, x>>] = op(r, x)
    BY DEF RunStepOf
  <2>2. \A r \in T, x \in X : x.pieces \in Seq(Nat) /\ r \o x.pieces \in Seq(Nat)
    BY ConcatProperties
  <2>3. QED
    BY <2>1, <2>2
<1> HIDE DEF h, T
<1>2. Closed(h, T, X) /\ b \in T
  BY <1>1, EmptySeq DEF Closed, T
<1>3. ASSUME NEW q \in Seq(X) PROVE Run(q, kind) = Folded(q, b, h, T)
  <2> DEFINE f == CHOOSE g : g = [z \in SUBSET (DOMAIN q) |->
                    IF z = {} THEN <<>> ELSE op(g[z \ {Max(z)}], q[Max(z)])]
  <2>1. Run(q, kind) = f[DOMAIN q]
    BY DEF Run, FoldLeft, MapThenFoldSet
  <2> HIDE DEF op, b
  <2>2. /\ Len(q) \in Nat /\ DOMAIN q = 1..Len(q)
        /\ \A z \in SUBSET (1..Len(q)) : z # {} => q[Max(z)] \in X
    BY LenProperties, ElementOfSeq, LargestOfSome
  <2>3. PICK g : Computes(g, q, b, h, T)
    BY <1>2, FoldExists
  <2>4. g = [z \in SUBSET (DOMAIN q) |-> IF z = {} THEN <<>> ELSE op(g[z \ {Max(z)}], q[Max(z)])]
    <3>1. g = [z \in SUBSET (DOMAIN q) |-> IF z = {} THEN b ELSE op(g[z \ {Max(z)}], q[Max(z)])]
      BY <1>1, <2>2, <2>3 DEF Computes
    <3>2. QED
      BY <3>1 DEF b
  <2>5. f = [z \in SUBSET (DOMAIN q) |-> IF z = {} THEN <<>> ELSE op(f[z \ {Max(z)}], q[Max(z)])]
    BY <2>4
  <2> HIDE DEF f
  <2>6. Folds(f, q, b, h, T)
    <3>1. f = [z \in SUBSET (DOMAIN q) |-> IF z = {} THEN b ELSE op(f[z \ {Max(z)}], q[Max(z)])]
      BY <2>5 DEF b
    <3>2. QED
      BY <1>1, <2>2, <3>1 DEF Folds
  <2>7. f[1..Len(q)] = Folded(q, b, h, T)
    BY <1>2, <2>6, FoldedIs
  <2>8. QED
    BY <2>1, <2>2, <2>7
<1>4. /\ Folded(<<>>, b, h, T) = b
      /\ \A q \in Seq(X) : Folded(q, b, h, T) \in T
      /\ \A q \in Seq(X), x \in X : Folded(Append(q, x), b, h, T) = h[<<Folded(q, b, h, T), x>>]
  BY <1>2, FoldedAppend
<1>5. Run(<<>>, kind) = <<>>
  BY <1>3, <1>4, EmptySeq
<1>6. \A q \in Seq(X) : Run(q, kind) \in Seq(Nat)
  BY <1>3, <1>4 DEF T
<1>7. ASSUME NEW q \in Seq(X), NEW x \in X
      PROVE  Run(Append(q, x), kind) = IF x.kind = kind THEN Run(q, kind) \o x.pieces ELSE Run(q, kind)
  <2>1. Append(q, x) \in Seq(X)
    BY AppendProperties
  <2>2. Run(Append(q, x), kind) = h[<<Run(q, kind), x>>] /\ Run(q, kind) \in T
    BY <1>3, <1>4, <2>1
  <2>3. QED
    BY <1>1, <2>2
<1>8. QED
  BY <1>5, <1>6, <1>7

\* So it is of items told.
LEMMA RunOf ==
  ASSUME NEW kind
  PROVE  /\ Run(<<>>, kind) = <<>>
         /\ \A q \in Seq(Items) : Run(q, kind) \in Seq(Nat)
         /\ \A q \in Seq(Items), x \in Items :
              Run(Append(q, x), kind) = IF x.kind = kind THEN Run(q, kind) \o x.pieces ELSE Run(q, kind)
<1>1. \A x \in Items : x.pieces \in Seq(Nat)
  BY DEF Items
<1>2. QED
  BY <1>1, RunAny

\* The last of a kind.
LastStep(kind) ==
  [p \in Seq(Nat) \X Items |-> IF p[2].kind = kind /\ p[2].pieces # <<>> THEN p[2].pieces ELSE p[1]]

\* It is the last filled one.
LEMMA LastRunOf ==
  ASSUME NEW kind
  PROVE  /\ LastRun(<<>>, kind) = <<>>
         /\ \A q \in Seq(Items) : LastRun(q, kind) \in Seq(Nat)
         /\ \A q \in Seq(Items), x \in Items :
              LastRun(Append(q, x), kind) = IF x.kind = kind /\ x.pieces # <<>> THEN x.pieces ELSE LastRun(q, kind)
<1> DEFINE op(r, x) == IF x.kind = kind /\ x.pieces # <<>> THEN x.pieces ELSE r
           h == LastStep(kind)
           T == Seq(Nat)
           b == <<>>
<1>1. \A r \in T, x \in Items : op(r, x) \in T /\ h[<<r, x>>] = op(r, x)
  <2>1. \A r \in T, x \in Items : h[<<r, x>>] = op(r, x)
    BY DEF LastStep
  <2>2. \A r \in T, x \in Items : x.pieces \in Seq(Nat)
    BY DEF Items
  <2>3. QED
    BY <2>1, <2>2
<1> HIDE DEF h, T
<1>2. Closed(h, T, Items) /\ b \in T
  BY <1>1, EmptySeq DEF Closed, T
<1>3. ASSUME NEW q \in Seq(Items) PROVE LastRun(q, kind) = Folded(q, b, h, T)
  <2> DEFINE f == CHOOSE g : g = [z \in SUBSET (DOMAIN q) |->
                    IF z = {} THEN <<>> ELSE op(g[z \ {Max(z)}], q[Max(z)])]
  <2>1. LastRun(q, kind) = f[DOMAIN q]
    BY DEF LastRun, FoldLeft, MapThenFoldSet
  <2> HIDE DEF op, b
  <2>2. /\ Len(q) \in Nat /\ DOMAIN q = 1..Len(q)
        /\ \A z \in SUBSET (1..Len(q)) : z # {} => q[Max(z)] \in Items
    BY LenProperties, ElementOfSeq, LargestOfSome
  <2>3. PICK g : Computes(g, q, b, h, T)
    BY <1>2, FoldExists
  <2>4. g = [z \in SUBSET (DOMAIN q) |-> IF z = {} THEN <<>> ELSE op(g[z \ {Max(z)}], q[Max(z)])]
    <3>1. g = [z \in SUBSET (DOMAIN q) |-> IF z = {} THEN b ELSE op(g[z \ {Max(z)}], q[Max(z)])]
      BY <1>1, <2>2, <2>3 DEF Computes
    <3>2. QED
      BY <3>1 DEF b
  <2>5. f = [z \in SUBSET (DOMAIN q) |-> IF z = {} THEN <<>> ELSE op(f[z \ {Max(z)}], q[Max(z)])]
    BY <2>4
  <2> HIDE DEF f
  <2>6. Folds(f, q, b, h, T)
    <3>1. f = [z \in SUBSET (DOMAIN q) |-> IF z = {} THEN b ELSE op(f[z \ {Max(z)}], q[Max(z)])]
      BY <2>5 DEF b
    <3>2. QED
      BY <1>1, <2>2, <3>1 DEF Folds
  <2>7. f[1..Len(q)] = Folded(q, b, h, T)
    BY <1>2, <2>6, FoldedIs
  <2>8. QED
    BY <2>1, <2>2, <2>7
<1>4. /\ Folded(<<>>, b, h, T) = b
      /\ \A q \in Seq(Items) : Folded(q, b, h, T) \in T
      /\ \A q \in Seq(Items), x \in Items : Folded(Append(q, x), b, h, T) = h[<<Folded(q, b, h, T), x>>]
  BY <1>2, FoldedAppend
<1>5. LastRun(<<>>, kind) = <<>>
  BY <1>3, <1>4, EmptySeq
<1>6. \A q \in Seq(Items) : LastRun(q, kind) \in Seq(Nat)
  BY <1>3, <1>4 DEF T
<1>7. ASSUME NEW q \in Seq(Items), NEW x \in Items
      PROVE  LastRun(Append(q, x), kind) = IF x.kind = kind /\ x.pieces # <<>> THEN x.pieces ELSE LastRun(q, kind)
  <2>1. Append(q, x) \in Seq(Items)
    BY AppendProperties
  <2>2. LastRun(Append(q, x), kind) = h[<<LastRun(q, kind), x>>] /\ LastRun(q, kind) \in T
    BY <1>3, <1>4, <2>1
  <2>3. QED
    BY <1>1, <2>2
<1>8. QED
  BY <1>5, <1>6, <1>7

\* The calls.
CallsStepOf(X) == [p \in Seq(X) \X X |-> IF p[2].kind = "call" THEN Append(p[1], p[2]) ELSE p[1]]

\* One item more is among the calls if it is one.
LEMMA CallsAny ==
  ASSUME NEW X
  PROVE
  /\ Calls(<<>>) = <<>>
  /\ \A q \in Seq(X) : Calls(q) \in Seq(X)
  /\ \A q \in Seq(X), x \in X :
       Calls(Append(q, x)) = IF x.kind = "call" THEN Append(Calls(q), x) ELSE Calls(q)
<1> DEFINE op(r, x) == IF x.kind = "call" THEN Append(r, x) ELSE r
           h == CallsStepOf(X)
           T == Seq(X)
           b == <<>>
<1>1. \A r \in T, x \in X : op(r, x) \in T /\ h[<<r, x>>] = op(r, x)
  <2>1. \A r \in T, x \in X : h[<<r, x>>] = op(r, x)
    BY DEF CallsStepOf
  <2>2. \A r \in T, x \in X : Append(r, x) \in T
    BY AppendProperties
  <2>3. QED
    BY <2>1, <2>2
<1> HIDE DEF h, T
<1>2. Closed(h, T, X) /\ b \in T
  BY <1>1, EmptySeq DEF Closed, T
<1>3. ASSUME NEW q \in Seq(X) PROVE Calls(q) = Folded(q, b, h, T)
  <2> DEFINE f == CHOOSE g : g = [z \in SUBSET (DOMAIN q) |->
                    IF z = {} THEN <<>> ELSE op(g[z \ {Max(z)}], q[Max(z)])]
  <2>1. Calls(q) = f[DOMAIN q]
    BY DEF Calls, Chosen, IsCall, FoldLeft, MapThenFoldSet
  <2> HIDE DEF op, b
  <2>2. /\ Len(q) \in Nat /\ DOMAIN q = 1..Len(q)
        /\ \A z \in SUBSET (1..Len(q)) : z # {} => q[Max(z)] \in X
    BY LenProperties, ElementOfSeq, LargestOfSome
  <2>3. PICK g : Computes(g, q, b, h, T)
    BY <1>2, FoldExists
  <2>4. g = [z \in SUBSET (DOMAIN q) |-> IF z = {} THEN <<>> ELSE op(g[z \ {Max(z)}], q[Max(z)])]
    <3>1. g = [z \in SUBSET (DOMAIN q) |-> IF z = {} THEN b ELSE op(g[z \ {Max(z)}], q[Max(z)])]
      BY <1>1, <2>2, <2>3 DEF Computes
    <3>2. QED
      BY <3>1 DEF b
  <2>5. f = [z \in SUBSET (DOMAIN q) |-> IF z = {} THEN <<>> ELSE op(f[z \ {Max(z)}], q[Max(z)])]
    BY <2>4
  <2> HIDE DEF f
  <2>6. Folds(f, q, b, h, T)
    <3>1. f = [z \in SUBSET (DOMAIN q) |-> IF z = {} THEN b ELSE op(f[z \ {Max(z)}], q[Max(z)])]
      BY <2>5 DEF b
    <3>2. QED
      BY <1>1, <2>2, <3>1 DEF Folds
  <2>7. f[1..Len(q)] = Folded(q, b, h, T)
    BY <1>2, <2>6, FoldedIs
  <2>8. QED
    BY <2>1, <2>2, <2>7
<1>4. /\ Folded(<<>>, b, h, T) = b
      /\ \A q \in Seq(X) : Folded(q, b, h, T) \in T
      /\ \A q \in Seq(X), x \in X : Folded(Append(q, x), b, h, T) = h[<<Folded(q, b, h, T), x>>]
  BY <1>2, FoldedAppend
<1>5. Calls(<<>>) = <<>>
  BY <1>3, <1>4, EmptySeq
<1>6. \A q \in Seq(X) : Calls(q) \in Seq(X)
  BY <1>3, <1>4 DEF T
<1>7. ASSUME NEW q \in Seq(X), NEW x \in X
      PROVE  Calls(Append(q, x)) = IF x.kind = "call" THEN Append(Calls(q), x) ELSE Calls(q)
  <2>1. Append(q, x) \in Seq(X)
    BY AppendProperties
  <2>2. Calls(Append(q, x)) = h[<<Calls(q), x>>] /\ Calls(q) \in T
    BY <1>3, <1>4, <2>1
  <2>3. QED
    BY <1>1, <2>2
<1>8. QED
  BY <1>5, <1>6, <1>7

\* So it is of items told.
LEMMA CallsOf ==
  /\ Calls(<<>>) = <<>>
  /\ \A q \in Seq(Items) : Calls(q) \in Seq(Items)
  /\ \A q \in Seq(Items), x \in Items :
       Calls(Append(q, x)) = IF x.kind = "call" THEN Append(Calls(q), x) ELSE Calls(q)
BY CallsAny

\* The filled ones.
FilledStep == [p \in Seq(Items) \X Items |-> IF p[2].pieces # <<>> THEN Append(p[1], p[2]) ELSE p[1]]

\* One item more is among the filled ones if it has pieces.
LEMMA FilledOf ==
  /\ Filled(<<>>) = <<>>
  /\ \A q \in Seq(Items) : Filled(q) \in Seq(Items)
  /\ \A q \in Seq(Items), x \in Items :
       Filled(Append(q, x)) = IF x.pieces # <<>> THEN Append(Filled(q), x) ELSE Filled(q)
<1> DEFINE op(r, x) == IF x.pieces # <<>> THEN Append(r, x) ELSE r
           h == FilledStep
           T == Seq(Items)
           b == <<>>
<1>1. \A r \in T, x \in Items : op(r, x) \in T /\ h[<<r, x>>] = op(r, x)
  <2>1. \A r \in T, x \in Items : h[<<r, x>>] = op(r, x)
    BY DEF FilledStep
  <2>2. \A r \in T, x \in Items : Append(r, x) \in T
    BY AppendProperties
  <2>3. QED
    BY <2>1, <2>2
<1> HIDE DEF h, T
<1>2. Closed(h, T, Items) /\ b \in T
  BY <1>1, EmptySeq DEF Closed, T
<1>3. ASSUME NEW q \in Seq(Items) PROVE Filled(q) = Folded(q, b, h, T)
  <2> DEFINE f == CHOOSE g : g = [z \in SUBSET (DOMAIN q) |->
                    IF z = {} THEN <<>> ELSE op(g[z \ {Max(z)}], q[Max(z)])]
  <2>1. Filled(q) = f[DOMAIN q]
    BY DEF Filled, Chosen, FoldLeft, MapThenFoldSet
  <2> HIDE DEF op, b
  <2>2. /\ Len(q) \in Nat /\ DOMAIN q = 1..Len(q)
        /\ \A z \in SUBSET (1..Len(q)) : z # {} => q[Max(z)] \in Items
    BY LenProperties, ElementOfSeq, LargestOfSome
  <2>3. PICK g : Computes(g, q, b, h, T)
    BY <1>2, FoldExists
  <2>4. g = [z \in SUBSET (DOMAIN q) |-> IF z = {} THEN <<>> ELSE op(g[z \ {Max(z)}], q[Max(z)])]
    <3>1. g = [z \in SUBSET (DOMAIN q) |-> IF z = {} THEN b ELSE op(g[z \ {Max(z)}], q[Max(z)])]
      BY <1>1, <2>2, <2>3 DEF Computes
    <3>2. QED
      BY <3>1 DEF b
  <2>5. f = [z \in SUBSET (DOMAIN q) |-> IF z = {} THEN <<>> ELSE op(f[z \ {Max(z)}], q[Max(z)])]
    BY <2>4
  <2> HIDE DEF f
  <2>6. Folds(f, q, b, h, T)
    <3>1. f = [z \in SUBSET (DOMAIN q) |-> IF z = {} THEN b ELSE op(f[z \ {Max(z)}], q[Max(z)])]
      BY <2>5 DEF b
    <3>2. QED
      BY <1>1, <2>2, <3>1 DEF Folds
  <2>7. f[1..Len(q)] = Folded(q, b, h, T)
    BY <1>2, <2>6, FoldedIs
  <2>8. QED
    BY <2>1, <2>2, <2>7
<1>4. /\ Folded(<<>>, b, h, T) = b
      /\ \A q \in Seq(Items) : Folded(q, b, h, T) \in T
      /\ \A q \in Seq(Items), x \in Items : Folded(Append(q, x), b, h, T) = h[<<Folded(q, b, h, T), x>>]
  BY <1>2, FoldedAppend
<1>5. Filled(<<>>) = <<>>
  BY <1>3, <1>4, EmptySeq
<1>6. \A q \in Seq(Items) : Filled(q) \in Seq(Items)
  BY <1>3, <1>4 DEF T
<1>7. ASSUME NEW q \in Seq(Items), NEW x \in Items
      PROVE  Filled(Append(q, x)) = IF x.pieces # <<>> THEN Append(Filled(q), x) ELSE Filled(q)
  <2>1. Append(q, x) \in Seq(Items)
    BY AppendProperties
  <2>2. Filled(Append(q, x)) = h[<<Filled(q), x>>] /\ Filled(q) \in T
    BY <1>3, <1>4, <2>1
  <2>3. QED
    BY <1>1, <2>2
<1>8. QED
  BY <1>5, <1>6, <1>7

\* The texts and the calls.
WithoutThoughtsStep == [p \in Seq(Items) \X Items |-> IF (p[2].kind # "thought" /\ p[2].pieces # <<>>) THEN Append(p[1], p[2]) ELSE p[1]]

\* One item more is among them if it is no thought and has pieces.
LEMMA WithoutThoughtsOf ==
  /\ WithoutThoughts(<<>>) = <<>>
  /\ \A q \in Seq(Items) : WithoutThoughts(q) \in Seq(Items)
  /\ \A q \in Seq(Items), x \in Items :
       WithoutThoughts(Append(q, x)) = IF (x.kind # "thought" /\ x.pieces # <<>>) THEN Append(WithoutThoughts(q), x) ELSE WithoutThoughts(q)
<1> DEFINE op(r, x) == IF (x.kind # "thought" /\ x.pieces # <<>>) THEN Append(r, x) ELSE r
           h == WithoutThoughtsStep
           T == Seq(Items)
           b == <<>>
<1>1. \A r \in T, x \in Items : op(r, x) \in T /\ h[<<r, x>>] = op(r, x)
  <2>1. \A r \in T, x \in Items : h[<<r, x>>] = op(r, x)
    BY DEF WithoutThoughtsStep
  <2>2. \A r \in T, x \in Items : Append(r, x) \in T
    BY AppendProperties
  <2>3. QED
    BY <2>1, <2>2
<1> HIDE DEF h, T
<1>2. Closed(h, T, Items) /\ b \in T
  BY <1>1, EmptySeq DEF Closed, T
<1>3. ASSUME NEW q \in Seq(Items) PROVE WithoutThoughts(q) = Folded(q, b, h, T)
  <2> DEFINE f == CHOOSE g : g = [z \in SUBSET (DOMAIN q) |->
                    IF z = {} THEN <<>> ELSE op(g[z \ {Max(z)}], q[Max(z)])]
  <2>1. WithoutThoughts(q) = f[DOMAIN q]
    BY DEF WithoutThoughts, Chosen, FoldLeft, MapThenFoldSet
  <2> HIDE DEF op, b
  <2>2. /\ Len(q) \in Nat /\ DOMAIN q = 1..Len(q)
        /\ \A z \in SUBSET (1..Len(q)) : z # {} => q[Max(z)] \in Items
    BY LenProperties, ElementOfSeq, LargestOfSome
  <2>3. PICK g : Computes(g, q, b, h, T)
    BY <1>2, FoldExists
  <2>4. g = [z \in SUBSET (DOMAIN q) |-> IF z = {} THEN <<>> ELSE op(g[z \ {Max(z)}], q[Max(z)])]
    <3>1. g = [z \in SUBSET (DOMAIN q) |-> IF z = {} THEN b ELSE op(g[z \ {Max(z)}], q[Max(z)])]
      BY <1>1, <2>2, <2>3 DEF Computes
    <3>2. QED
      BY <3>1 DEF b
  <2>5. f = [z \in SUBSET (DOMAIN q) |-> IF z = {} THEN <<>> ELSE op(f[z \ {Max(z)}], q[Max(z)])]
    BY <2>4
  <2> HIDE DEF f
  <2>6. Folds(f, q, b, h, T)
    <3>1. f = [z \in SUBSET (DOMAIN q) |-> IF z = {} THEN b ELSE op(f[z \ {Max(z)}], q[Max(z)])]
      BY <2>5 DEF b
    <3>2. QED
      BY <1>1, <2>2, <3>1 DEF Folds
  <2>7. f[1..Len(q)] = Folded(q, b, h, T)
    BY <1>2, <2>6, FoldedIs
  <2>8. QED
    BY <2>1, <2>2, <2>7
<1>4. /\ Folded(<<>>, b, h, T) = b
      /\ \A q \in Seq(Items) : Folded(q, b, h, T) \in T
      /\ \A q \in Seq(Items), x \in Items : Folded(Append(q, x), b, h, T) = h[<<Folded(q, b, h, T), x>>]
  BY <1>2, FoldedAppend
<1>5. WithoutThoughts(<<>>) = <<>>
  BY <1>3, <1>4, EmptySeq
<1>6. \A q \in Seq(Items) : WithoutThoughts(q) \in Seq(Items)
  BY <1>3, <1>4 DEF T
<1>7. ASSUME NEW q \in Seq(Items), NEW x \in Items
      PROVE  WithoutThoughts(Append(q, x)) = IF (x.kind # "thought" /\ x.pieces # <<>>) THEN Append(WithoutThoughts(q), x) ELSE WithoutThoughts(q)
  <2>1. Append(q, x) \in Seq(Items)
    BY AppendProperties
  <2>2. WithoutThoughts(Append(q, x)) = h[<<WithoutThoughts(q), x>>] /\ WithoutThoughts(q) \in T
    BY <1>3, <1>4, <2>1
  <2>3. QED
    BY <1>1, <2>2
<1>8. QED
  BY <1>5, <1>6, <1>7

\* A piece more leaves items.
LEMMA AddPieceType ==
  ASSUME NEW s \in Seq(Items), NEW kind \in ItemKinds, NEW n \in Nat
  PROVE  AddPiece(s, kind, n) \in Seq(Items)
<1>1. Item(kind, <<n>>) \in Items
  <2>1. <<n>> \in Seq(Nat) /\ <<n>> # <<>>
    OBVIOUS
  <2>2. QED
    BY <2>1 DEF Item, Items
<1>2. CASE kind # "call" /\ EndsWith(s, kind)
  <2>1. s # <<>> /\ Len(s) \in Nat /\ Len(s) \in 1..Len(s) /\ Last(s) = s[Len(s)]
    BY <1>2, EmptySeq DEF EndsWith, Last
  <2>2. s[Len(s)] \in Items /\ s[Len(s)].kind = kind
    BY <1>2, <2>1, ElementOfSeq DEF EndsWith
  <2>3. Append(s[Len(s)].pieces, n) \in Seq(Nat)
    BY <2>2, AppendProperties DEF Items
  <2>4. [s[Len(s)] EXCEPT !.pieces = Append(@, n)] \in Items
    BY <1>2, <2>2, <2>3 DEF Items
  <2>5. [s EXCEPT ![Len(s)] = [s[Len(s)] EXCEPT !.pieces = Append(@, n)]] \in Seq(Items)
    BY <2>1, <2>4, ExceptSeq
  <2>6. [s EXCEPT ![Len(s)].pieces = Append(@, n)] = [s EXCEPT ![Len(s)] = [s[Len(s)] EXCEPT !.pieces = Append(@, n)]]
    BY <2>1
  <2>7. QED
    BY <1>2, <2>5, <2>6 DEF AddPiece
<1>3. CASE ~(kind # "call" /\ EndsWith(s, kind))
  <2>1. Append(s, Item(kind, <<n>>)) \in Seq(Items)
    BY <1>1, AppendProperties
  <2>2. QED
    BY <1>3, <2>1 DEF AddPiece
<1>4. QED
  BY <1>2, <1>3

\* Pieces added to items.
PieceStep(kind) == [p \in Seq(Items) \X Nat |-> AddPiece(p[1], kind, p[2])]

\* One piece more is added behind the others.
LEMMA AddAllOf ==
  ASSUME NEW s \in Seq(Items), NEW kind \in ItemKinds
  PROVE  /\ AddAll(s, kind, <<>>) = s
         /\ \A q \in Seq(Nat) : AddAll(s, kind, q) \in Seq(Items)
         /\ \A q \in Seq(Nat), x \in Nat :
              AddAll(s, kind, Append(q, x)) = AddPiece(AddAll(s, kind, q), kind, x)
<1> DEFINE op(r, x) == AddPiece(r, kind, x)
           h == PieceStep(kind)
           T == Seq(Items)
           b == s
<1>1. \A r \in T, x \in Nat : op(r, x) \in T /\ h[<<r, x>>] = op(r, x)
  <2>1. \A r \in T, x \in Nat : h[<<r, x>>] = op(r, x)
    BY DEF PieceStep
  <2>2. \A r \in T, x \in Nat : op(r, x) \in T
    BY AddPieceType
  <2>3. QED
    BY <2>1, <2>2
<1> HIDE DEF h, T
<1>2. Closed(h, T, Nat) /\ b \in T
  BY <1>1, EmptySeq DEF Closed, T
<1>3. ASSUME NEW q \in Seq(Nat) PROVE AddAll(s, kind, q) = Folded(q, b, h, T)
  <2> DEFINE f == CHOOSE g : g = [z \in SUBSET (DOMAIN q) |->
                    IF z = {} THEN s ELSE op(g[z \ {Max(z)}], q[Max(z)])]
  <2>1. AddAll(s, kind, q) = f[DOMAIN q]
    BY DEF AddAll, FoldLeft, MapThenFoldSet
  <2> HIDE DEF op, b
  <2>2. /\ Len(q) \in Nat /\ DOMAIN q = 1..Len(q)
        /\ \A z \in SUBSET (1..Len(q)) : z # {} => q[Max(z)] \in Nat
    BY LenProperties, ElementOfSeq, LargestOfSome
  <2>3. PICK g : Computes(g, q, b, h, T)
    BY <1>2, FoldExists
  <2>4. g = [z \in SUBSET (DOMAIN q) |-> IF z = {} THEN s ELSE op(g[z \ {Max(z)}], q[Max(z)])]
    <3>1. g = [z \in SUBSET (DOMAIN q) |-> IF z = {} THEN b ELSE op(g[z \ {Max(z)}], q[Max(z)])]
      BY <1>1, <2>2, <2>3 DEF Computes
    <3>2. QED
      BY <3>1 DEF b
  <2>5. f = [z \in SUBSET (DOMAIN q) |-> IF z = {} THEN s ELSE op(f[z \ {Max(z)}], q[Max(z)])]
    BY <2>4
  <2> HIDE DEF f
  <2>6. Folds(f, q, b, h, T)
    <3>1. f = [z \in SUBSET (DOMAIN q) |-> IF z = {} THEN b ELSE op(f[z \ {Max(z)}], q[Max(z)])]
      BY <2>5 DEF b
    <3>2. QED
      BY <1>1, <2>2, <3>1, ZenonT(60) DEF Folds
  <2>7. f[1..Len(q)] = Folded(q, b, h, T)
    BY <1>2, <2>6, FoldedIs
  <2>8. QED
    BY <2>1, <2>2, <2>7
<1>4. /\ Folded(<<>>, b, h, T) = b
      /\ \A q \in Seq(Nat) : Folded(q, b, h, T) \in T
      /\ \A q \in Seq(Nat), x \in Nat : Folded(Append(q, x), b, h, T) = h[<<Folded(q, b, h, T), x>>]
  BY <1>2, FoldedAppend
<1>5. AddAll(s, kind, <<>>) = s
  BY <1>3, <1>4, EmptySeq
<1>6. \A q \in Seq(Nat) : AddAll(s, kind, q) \in Seq(Items)
  BY <1>3, <1>4 DEF T
<1>7. ASSUME NEW q \in Seq(Nat), NEW x \in Nat
      PROVE  AddAll(s, kind, Append(q, x)) = AddPiece(AddAll(s, kind, q), kind, x)
  <2>1. Append(q, x) \in Seq(Nat)
    BY AppendProperties
  <2>2. AddAll(s, kind, Append(q, x)) = h[<<AddAll(s, kind, q), x>>] /\ AddAll(s, kind, q) \in T
    BY <1>3, <1>4, <2>1
  <2>3. QED
    BY <1>1, <2>2
<1>8. QED
  BY <1>5, <1>6, <1>7

\* Items joined.
JoinStep ==
  [p \in Seq(Items) \X Items |->
     IF p[2].kind = "call" THEN Append(p[1], p[2]) ELSE AddAll(p[1], p[2].kind, p[2].pieces)]

\* A call is put behind what was joined, a piece of another kind is added to
\* it.
LEMMA JoinedOf ==
  /\ Joined(<<>>) = <<>>
  /\ \A q \in Seq(Items) : Joined(q) \in Seq(Items)
  /\ \A q \in Seq(Items), x \in Items :
       Joined(Append(q, x)) = IF x.kind = "call" THEN Append(Joined(q), x) ELSE AddAll(Joined(q), x.kind, x.pieces)
<1> DEFINE op(r, x) == IF x.kind = "call" THEN Append(r, x) ELSE AddAll(r, x.kind, x.pieces)
           h == JoinStep
           T == Seq(Items)
           b == <<>>
<1>1. \A r \in T, x \in Items : op(r, x) \in T /\ h[<<r, x>>] = op(r, x)
  <2>1. \A r \in T, x \in Items : h[<<r, x>>] = op(r, x)
    BY DEF JoinStep
  <2>2. ASSUME NEW r \in T, NEW x \in Items PROVE op(r, x) \in T
    <3>1. x.kind \in ItemKinds /\ x.pieces \in Seq(Nat)
      BY DEF Items
    <3>2. AddAll(r, x.kind, x.pieces) \in T
      BY <3>1, AddAllOf
    <3>3. Append(r, x) \in T
      BY AppendProperties
    <3>4. QED
      BY <3>2, <3>3
  <2>3. QED
    BY <2>1, <2>2
<1> HIDE DEF h, T
<1>2. Closed(h, T, Items) /\ b \in T
  BY <1>1, EmptySeq DEF Closed, T
<1>3. ASSUME NEW q \in Seq(Items) PROVE Joined(q) = Folded(q, b, h, T)
  <2> DEFINE f == CHOOSE g : g = [z \in SUBSET (DOMAIN q) |->
                    IF z = {} THEN <<>> ELSE op(g[z \ {Max(z)}], q[Max(z)])]
  <2>1. Joined(q) = f[DOMAIN q]
    BY DEF Joined, IsCall, FoldLeft, MapThenFoldSet
  <2> HIDE DEF op, b
  <2>2. /\ Len(q) \in Nat /\ DOMAIN q = 1..Len(q)
        /\ \A z \in SUBSET (1..Len(q)) : z # {} => q[Max(z)] \in Items
    BY LenProperties, ElementOfSeq, LargestOfSome
  <2>3. PICK g : Computes(g, q, b, h, T)
    BY <1>2, FoldExists
  <2>4. g = [z \in SUBSET (DOMAIN q) |-> IF z = {} THEN <<>> ELSE op(g[z \ {Max(z)}], q[Max(z)])]
    <3>1. g = [z \in SUBSET (DOMAIN q) |-> IF z = {} THEN b ELSE op(g[z \ {Max(z)}], q[Max(z)])]
      BY <1>1, <2>2, <2>3 DEF Computes
    <3>2. QED
      BY <3>1 DEF b
  <2>5. f = [z \in SUBSET (DOMAIN q) |-> IF z = {} THEN <<>> ELSE op(f[z \ {Max(z)}], q[Max(z)])]
    BY <2>4
  <2> HIDE DEF f
  <2>6. Folds(f, q, b, h, T)
    <3>1. f = [z \in SUBSET (DOMAIN q) |-> IF z = {} THEN b ELSE op(f[z \ {Max(z)}], q[Max(z)])]
      BY <2>5 DEF b
    <3>2. QED
      BY <1>1, <2>2, <3>1 DEF Folds
  <2>7. f[1..Len(q)] = Folded(q, b, h, T)
    BY <1>2, <2>6, FoldedIs
  <2>8. QED
    BY <2>1, <2>2, <2>7
<1>4. /\ Folded(<<>>, b, h, T) = b
      /\ \A q \in Seq(Items) : Folded(q, b, h, T) \in T
      /\ \A q \in Seq(Items), x \in Items : Folded(Append(q, x), b, h, T) = h[<<Folded(q, b, h, T), x>>]
  BY <1>2, FoldedAppend
<1>5. Joined(<<>>) = <<>>
  BY <1>3, <1>4, EmptySeq
<1>6. \A q \in Seq(Items) : Joined(q) \in Seq(Items)
  BY <1>3, <1>4 DEF T
<1>7. ASSUME NEW q \in Seq(Items), NEW x \in Items
      PROVE  Joined(Append(q, x)) = IF x.kind = "call" THEN Append(Joined(q), x) ELSE AddAll(Joined(q), x.kind, x.pieces)
  <2>1. Append(q, x) \in Seq(Items)
    BY AppendProperties
  <2>2. Joined(Append(q, x)) = h[<<Joined(q), x>>] /\ Joined(q) \in T
    BY <1>3, <1>4, <2>1
  <2>3. QED
    BY <1>1, <2>2
<1>8. QED
  BY <1>5, <1>6, <1>7
----------------------------------------------------------------------------
(* Induction over a sequence, and the joining of neighbours of a kind.     *)

\* Induction over sequences: a set that holds the empty one and each one
\* longer than one of its own holds them all.
LEMMA SequencesFrom ==
  ASSUME NEW S, NEW T, <<>> \in T, \A s \in Seq(S), x \in S : s \in T => Append(s, x) \in T
  PROVE  Seq(S) \subseteq T
<1> DEFINE N == {n \in Nat : \A s \in Seq(S) : Len(s) = n => s \in T}
<1>1. 0 \in N
  BY EmptySeq
<1>2. ASSUME NEW n \in N PROVE n + 1 \in N
  <2> SUFFICES ASSUME NEW s \in Seq(S), Len(s) = n + 1 PROVE s \in T
    OBVIOUS
  <2>1. s # <<>> /\ n \in Nat
    BY EmptySeq
  <2>2. PICK t \in Seq(S), x \in S : s = Append(t, x)
    BY <2>1, SequenceEmptyOrAppend
  <2>3. Len(t) = n
    BY <2>1, <2>2, AppendProperties, LenProperties
  <2>4. QED
    BY <2>2, <2>3
<1>3. N = Nat
  <2> HIDE DEF N
  <2>1. N \subseteq Nat
    BY DEF N
  <2>2. QED
    BY <1>1, <1>2, <2>1, SetInduction
<1>4. QED
  BY <1>3, LenProperties

\* The last item, and an item that has grown by a piece.
Grown(x, n) == [x EXCEPT !.pieces = Append(@, n)]

\* It is an item of the same kind.
LEMMA GrownIs ==
  ASSUME NEW x \in Items, NEW n \in Nat
  PROVE  /\ Grown(x, n) \in Items /\ Grown(x, n).kind = x.kind
         /\ Grown(x, n).pieces = Append(x.pieces, n)
<1>1. x.pieces \in Seq(Nat)
  BY DEF Items
<1>2. Append(x.pieces, n) \in Seq(Nat) /\ Append(x.pieces, n) # <<>>
  <2>1. \A q \in Seq(Nat) : Append(q, n) \in Seq(Nat) /\ Append(q, n) # <<>>
    BY AppendProperties
  <2>2. QED
    BY <1>1, <2>1
<1>3. QED
  BY <1>2 DEF Items, Grown

\* A piece more for the last item.
LEMMA LastGrows ==
  ASSUME NEW s \in Seq(Items), NEW x \in Items, NEW n \in Nat
  PROVE  [Append(s, x) EXCEPT ![Len(Append(s, x))].pieces = Append(@, n)] = Append(s, Grown(x, n))
<1> DEFINE w == Append(s, x)
           v == [w EXCEPT ![Len(w)].pieces = Append(@, n)]
           y == Grown(x, n)
<1>1. y \in Items
  BY GrownIs
<1>2. w \in Seq(Items) /\ Len(w) = Len(s) + 1 /\ w[Len(w)] = x /\ Len(s) \in Nat
  BY AppendProperties, LenProperties
<1>3. v = [w EXCEPT ![Len(w)] = y]
  BY <1>2 DEF Grown
<1>4. v \in Seq(Items) /\ Len(v) = Len(w) /\ \A j \in 1..Len(w) : v[j] = IF j = Len(w) THEN y ELSE w[j]
  <2> HIDE DEF v, w, y
  <2>1. Len(w) \in 1..Len(w)
    BY <1>2
  <2>2. QED
    BY <1>1, <1>2, <1>3, <2>1, ExceptSeq
<1>5. Append(s, y) \in Seq(Items) /\ Len(Append(s, y)) = Len(s) + 1 /\ Append(s, y)[Len(s) + 1] = y
      /\ \A j \in 1..Len(s) : Append(s, y)[j] = s[j]
  <2> HIDE DEF y
  <2>1. QED
    BY <1>1, AppendProperties
<1>6. \A j \in 1..Len(s) : w[j] = s[j]
  BY AppendProperties
<1> HIDE DEF v, w, y
<1>7. \A j \in 1..Len(v) : v[j] = Append(s, y)[j]
  BY <1>2, <1>4, <1>5, <1>6
<1>8. v = Append(s, y)
  BY <1>2, <1>4, <1>5, <1>7, SeqEqual
<1>9. QED
  BY <1>8 DEF v, w, y

\* No run is empty or next to another of its kind.
Normal(s) ==
  \A i \in 1..Len(s) : s[i].kind # "call" =>
    s[i].pieces # <<>> /\ (i < Len(s) => s[i + 1].kind # s[i].kind)

\* One item more keeps it so if it is a call, or filled and of another kind
\* than the last.
LEMMA NormalAppend ==
  ASSUME NEW s \in Seq(Items), NEW x \in Items
  PROVE  Normal(Append(s, x)) <=>
           /\ Normal(s) /\ (x.kind # "call" => x.pieces # <<>> /\ ~EndsWith(s, x.kind))
<1> DEFINE w == Append(s, x)
<1>1. Len(w) = Len(s) + 1 /\ w[Len(s) + 1] = x /\ Len(s) \in Nat /\ \A i \in 1..Len(s) : w[i] = s[i]
  BY AppendProperties, LenProperties
<1>2. s # <<>> <=> Len(s) > 0
  BY <1>1, EmptySeq
<1>3. s # <<>> => Last(s) = s[Len(s)]
  BY DEF Last
<1> HIDE DEF w
<1>4. ASSUME Normal(w) PROVE Normal(s) /\ (x.kind # "call" => x.pieces # <<>> /\ ~EndsWith(s, x.kind))
  <2>1. \A i \in 1..Len(s) : i \in 1..Len(w) /\ i + 1 \in 1..Len(w) /\ i < Len(w)
    BY <1>1
  <2>2. \A i \in 1..Len(s) : s[i].kind # "call" => s[i].pieces # <<>> /\ w[i + 1].kind # s[i].kind
    BY <1>1, <1>4, <2>1 DEF Normal
  <2>3. Normal(s)
    <3>1. \A i \in 1..Len(s) : i < Len(s) => i + 1 \in 1..Len(s) /\ w[i + 1] = s[i + 1]
      BY <1>1
    <3>2. QED
      BY <2>2, <3>1 DEF Normal
  <2>4. x.kind # "call" => x.pieces # <<>>
    BY <1>1, <1>4 DEF Normal
  <2>5. x.kind # "call" => ~EndsWith(s, x.kind)
    <3> SUFFICES ASSUME x.kind # "call", EndsWith(s, x.kind) PROVE FALSE
      OBVIOUS
    <3>1. Len(s) \in 1..Len(s) /\ s[Len(s)].kind = x.kind
      BY <1>1, <1>2, <1>3 DEF EndsWith
    <3>2. QED
      BY <1>1, <2>2, <3>1
  <2>6. QED
    BY <2>3, <2>4, <2>5
<1>5. ASSUME Normal(s), x.kind # "call" => x.pieces # <<>> /\ ~EndsWith(s, x.kind) PROVE Normal(w)
  <2> SUFFICES ASSUME NEW i \in 1..Len(w), w[i].kind # "call"
               PROVE  w[i].pieces # <<>> /\ (i < Len(w) => w[i + 1].kind # w[i].kind)
    BY DEF Normal
  <2>1. CASE i = Len(s) + 1
    BY <1>1, <1>5, <2>1
  <2>2. CASE i = Len(s)
    <3>1. i \in 1..Len(s) /\ w[i] = s[i] /\ w[i + 1] = x /\ s # <<>>
      BY <1>1, <1>2, <2>2
    <3>2. s[i].pieces # <<>> /\ s[i].kind # "call"
      BY <1>5, <3>1 DEF Normal
    <3>3. s[i].kind # x.kind
      BY <1>3, <1>5, <2>2, <3>1, <3>2 DEF EndsWith
    <3>4. QED
      BY <3>1, <3>2, <3>3
  <2>3. CASE i < Len(s)
    <3>1. i \in 1..Len(s) /\ w[i] = s[i] /\ w[i + 1] = s[i + 1]
      BY <1>1, <2>3
    <3>2. QED
      BY <1>5, <2>3, <3>1 DEF Normal
  <2>4. QED
    BY <1>1, <2>1, <2>2, <2>3
<1>6. QED
  BY <1>4, <1>5 DEF w

\* The last of one item more.
LEMMA EndsWithAppend ==
  ASSUME NEW s \in Seq(Items), NEW x \in Items, NEW kind
  PROVE  Append(s, x) # <<>> /\ Last(Append(s, x)) = x /\ (EndsWith(Append(s, x), kind) <=> x.kind = kind)
<1>1. Append(s, x) # <<>> /\ Len(Append(s, x)) = Len(s) + 1 /\ Append(s, x)[Len(s) + 1] = x
  BY AppendProperties
<1>2. QED
  BY <1>1 DEF EndsWith, Last

\* A piece opens an item, or goes to the last one if that is of its kind.
LEMMA AddPieceAppend ==
  ASSUME NEW s \in Seq(Items), NEW kind \in ItemKinds \ {"call"}, NEW n \in Nat
  PROVE  /\ ~EndsWith(s, kind) => AddPiece(s, kind, n) = Append(s, Item(kind, <<n>>))
         /\ \A x \in Items : x.kind = kind => AddPiece(Append(s, x), kind, n) = Append(s, Grown(x, n))
<1>1. ~EndsWith(s, kind) => AddPiece(s, kind, n) = Append(s, Item(kind, <<n>>))
  BY DEF AddPiece
<1>2. ASSUME NEW x \in Items, x.kind = kind PROVE AddPiece(Append(s, x), kind, n) = Append(s, Grown(x, n))
  <2>1. EndsWith(Append(s, x), kind)
    BY <1>2, EndsWithAppend
  <2>2. AddPiece(Append(s, x), kind, n) = [Append(s, x) EXCEPT ![Len(Append(s, x))].pieces = Append(@, n)]
    BY <2>1 DEF AddPiece
  <2>3. QED
    BY <2>2, LastGrows, ZenonT(60)
<1>3. QED
  BY <1>1, <1>2

\* What an item is made of.
LEMMA ItemIs ==
  ASSUME NEW kind \in ItemKinds, NEW ns \in Seq(Nat), kind = "call" => ns # <<>>
  PROVE  Item(kind, ns) \in Items /\ Item(kind, ns).kind = kind /\ Item(kind, ns).pieces = ns
BY DEF Item, Items

\* An item that grows.
LEMMA GrownItem ==
  ASSUME NEW kind \in ItemKinds, NEW ns \in Seq(Nat), NEW n \in Nat
  PROVE  Grown(Item(kind, ns), n) = Item(kind, Append(ns, n))
<1> DEFINE i == Item(kind, ns)
           j == Item(kind, Append(ns, n))
           g == [i EXCEPT !.pieces = Append(ns, n)]
<1>1. Grown(i, n) = g
  BY DEF Grown, Item
<1>2. DOMAIN g = {"kind", "pieces"} /\ DOMAIN j = {"kind", "pieces"}
  BY DEF Item
<1>3. g.kind = j.kind /\ g.pieces = j.pieces
  BY DEF Item
<1>4. g = [f \in {"kind", "pieces"} |-> g[f]] /\ j = [f \in {"kind", "pieces"} |-> j[f]]
  BY <1>2 DEF Item
<1>5. g = j
  <2> HIDE DEF g, j
  <2>1. QED
    BY <1>3, <1>4
<1>6. QED
  BY <1>1, <1>5

\* One piece.
LEMMA OnePiece == \A n \in Nat : <<n>> \in Seq(Nat) /\ <<n>> # <<>> /\ <<n>> = Append(<<>>, n)
OBVIOUS

\* A piece more.
LEMMA NatAppend ==
  \A q \in Seq(Nat), n \in Nat : Append(q, n) \in Seq(Nat) /\ Append(q, n) # <<>>
BY AppendProperties

\* An item more.
LEMMA ItemsAppend ==
  \A q \in Seq(Items), x \in Items : Append(q, x) \in Seq(Items) /\ Append(q, x) # <<>>
BY AppendProperties

\* A run that does not go on with the last one is an item of its own.
LEMMA AddAllNew ==
  ASSUME NEW s \in Seq(Items), NEW kind \in ItemKinds \ {"call"}, ~EndsWith(s, kind)
  PROVE  \A ns \in Seq(Nat) : ns # <<>> => AddAll(s, kind, ns) = Append(s, Item(kind, ns))
<1> DEFINE T == {ns \in Seq(Nat) : ns # <<>> => AddAll(s, kind, ns) = Append(s, Item(kind, ns))}
<1>1. <<>> \in T
  BY EmptySeq
<1>2. ASSUME NEW ns \in Seq(Nat), NEW n \in Nat, ns \in T PROVE Append(ns, n) \in T
  <2>1. Append(ns, n) \in Seq(Nat)
    BY NatAppend
  <2>2. AddAll(s, kind, Append(ns, n)) = AddPiece(AddAll(s, kind, ns), kind, n)
    BY AddAllOf
  <2>3. CASE ns = <<>>
    <3>1. AddAll(s, kind, ns) = s /\ Append(ns, n) = <<n>>
      BY <2>3, AddAllOf, OnePiece
    <3>2. QED
      BY <2>1, <2>2, <3>1, AddPieceAppend
  <2>4. CASE ns # <<>>
    <3>1. AddAll(s, kind, ns) = Append(s, Item(kind, ns))
      BY <1>2, <2>4
    <3>2. Item(kind, ns) \in Items /\ Item(kind, ns).kind = kind
      BY ItemIs
    <3>3. AddPiece(Append(s, Item(kind, ns)), kind, n) = Append(s, Grown(Item(kind, ns), n))
      BY <3>2, AddPieceAppend
    <3>4. QED
      BY <2>1, <2>2, <3>1, <3>3, GrownItem
  <2>5. QED
    BY <2>3, <2>4
<1>3. Seq(Nat) \subseteq T
  <2> HIDE DEF T
  <2>1. QED
    BY <1>1, <1>2, SequencesFrom
<1>4. QED
  BY <1>3

\* A piece added to what is joined leaves it so.
LEMMA AddPieceNormal ==
  ASSUME NEW s \in Seq(Items), NEW kind \in ItemKinds \ {"call"}, NEW n \in Nat, Normal(s)
  PROVE  Normal(AddPiece(s, kind, n)) /\ EndsWith(AddPiece(s, kind, n), kind)
<1>1. CASE EndsWith(s, kind)
  <2>1. s # <<>>
    BY <1>1 DEF EndsWith
  <2>2. PICK t \in Seq(Items), x \in Items : s = Append(t, x)
    BY <2>1, SequenceEmptyOrAppend
  <2>3. x.kind = kind
    BY <1>1, <2>2, EndsWithAppend
  <2>4. AddPiece(s, kind, n) = Append(t, Grown(x, n))
    BY <2>2, <2>3, AddPieceAppend
  <2>5. Grown(x, n) \in Items /\ Grown(x, n).kind = kind /\ Grown(x, n).pieces # <<>>
    <3>1. x.pieces \in Seq(Nat)
      BY DEF Items
    <3>2. QED
      BY <2>3, <3>1, GrownIs, NatAppend
  <2>6. Normal(t) /\ ~EndsWith(t, kind)
    BY <2>2, <2>3, NormalAppend
  <2>7. QED
    BY <2>4, <2>5, <2>6, NormalAppend, EndsWithAppend
<1>2. CASE ~EndsWith(s, kind)
  <2>1. AddPiece(s, kind, n) = Append(s, Item(kind, <<n>>))
    BY <1>2, AddPieceAppend
  <2>2. Item(kind, <<n>>) \in Items /\ Item(kind, <<n>>).kind = kind /\ Item(kind, <<n>>).pieces # <<>>
    BY ItemIs, OnePiece
  <2>3. QED
    BY <1>2, <2>1, <2>2, NormalAppend, EndsWithAppend
<1>3. QED
  BY <1>1, <1>2

\* So do all the pieces of a run.
LEMMA AddAllNormal ==
  ASSUME NEW s \in Seq(Items), NEW kind \in ItemKinds \ {"call"}, Normal(s)
  PROVE  \A ns \in Seq(Nat) : Normal(AddAll(s, kind, ns))
<1> DEFINE T == {ns \in Seq(Nat) : Normal(AddAll(s, kind, ns))}
<1>1. <<>> \in T
  BY EmptySeq, AddAllOf
<1>2. ASSUME NEW ns \in Seq(Nat), NEW n \in Nat, ns \in T PROVE Append(ns, n) \in T
  <2>1. Append(ns, n) \in Seq(Nat)
    BY NatAppend
  <2>2. AddAll(s, kind, Append(ns, n)) = AddPiece(AddAll(s, kind, ns), kind, n)
    BY AddAllOf
  <2>3. AddAll(s, kind, ns) \in Seq(Items)
    BY AddAllOf
  <2>4. QED
    BY <1>2, <2>1, <2>2, <2>3, AddPieceNormal
<1>3. Seq(Nat) \subseteq T
  <2> HIDE DEF T
  <2>1. QED
    BY <1>1, <1>2, SequencesFrom
<1>4. QED
  BY <1>3

\* Joining leaves no neighbours of a kind.
LEMMA JoinedIsNormal == \A s \in Seq(Items) : Joined(s) \in Seq(Items) /\ Normal(Joined(s))
<1> DEFINE T == {s \in Seq(Items) : Normal(Joined(s))}
<1>1. <<>> \in T
  <2>1. Joined(<<>>) = <<>> /\ <<>> \in Seq(Items) /\ 1..Len(<<>>) = {}
    BY JoinedOf, EmptySeq
  <2>2. QED
    BY <2>1 DEF Normal
<1>2. ASSUME NEW s \in Seq(Items), NEW x \in Items, s \in T PROVE Append(s, x) \in T
  <2>1. Append(s, x) \in Seq(Items) /\ Joined(s) \in Seq(Items) /\ Normal(Joined(s))
    BY <1>2, ItemsAppend, JoinedOf
  <2>2. CASE x.kind = "call"
    <3>1. Joined(Append(s, x)) = Append(Joined(s), x)
      BY <2>2, JoinedOf
    <3>2. QED
      BY <2>1, <2>2, <3>1, NormalAppend
  <2>3. CASE x.kind # "call"
    <3>1. Joined(Append(s, x)) = AddAll(Joined(s), x.kind, x.pieces)
      BY <2>3, JoinedOf
    <3>2. x.kind \in ItemKinds \ {"call"} /\ x.pieces \in Seq(Nat)
      BY <2>3 DEF Items
    <3>3. QED
      BY <2>1, <3>1, <3>2, AddAllNormal
  <2>4. QED
    BY <2>2, <2>3
<1>3. Seq(Items) \subseteq T
  <2> HIDE DEF T
  <2>1. QED
    BY <1>1, <1>2, SequencesFrom
<1>4. QED
  BY <1>3, JoinedOf

\* What has none is joined already.
LEMMA NormalIsJoined == \A s \in Seq(Items) : Normal(s) => Joined(s) = s
<1> DEFINE T == {s \in Seq(Items) : Normal(s) => Joined(s) = s}
<1>1. <<>> \in T
  BY JoinedOf, EmptySeq
<1>2. ASSUME NEW s \in Seq(Items), NEW x \in Items, s \in T PROVE Append(s, x) \in T
  <2>1. Append(s, x) \in Seq(Items)
    BY ItemsAppend
  <2> SUFFICES ASSUME Normal(Append(s, x)) PROVE Joined(Append(s, x)) = Append(s, x)
    BY <2>1
  <2>2. Normal(s) /\ Joined(s) = s /\ (x.kind # "call" => x.pieces # <<>> /\ ~EndsWith(s, x.kind))
    BY <1>2, NormalAppend
  <2>3. CASE x.kind = "call"
    BY <2>2, <2>3, JoinedOf
  <2>4. CASE x.kind # "call"
    <3>1. x.kind \in ItemKinds \ {"call"} /\ x.pieces \in Seq(Nat) /\ x = Item(x.kind, x.pieces)
      BY <2>4 DEF Items, Item
    <3>2. AddAll(s, x.kind, x.pieces) = Append(s, Item(x.kind, x.pieces))
      BY <2>2, <2>4, <3>1, AddAllNew
    <3>3. Joined(Append(s, x)) = AddAll(Joined(s), x.kind, x.pieces)
      BY <2>4, JoinedOf
    <3>4. QED
      BY <2>2, <3>1, <3>2, <3>3
  <2>5. QED
    BY <2>3, <2>4
<1>3. Seq(Items) \subseteq T
  <2> HIDE DEF T
  <2>1. QED
    BY <1>1, <1>2, SequencesFrom
<1>4. QED
  BY <1>3

\* Items joined, and joined once more; without the empty ones; as they grow.
LEMMA JoinedTwice == \A s \in Seq(Items) : Joined(Joined(s)) = Joined(s)
BY JoinedIsNormal, NormalIsJoined

\* Without the empty ones they join to the same.
LEMMA JoinedFilled == \A s \in Seq(Items) : Filled(s) \in Seq(Items) /\ Joined(Filled(s)) = Joined(s)
<1> DEFINE T == {s \in Seq(Items) : Joined(Filled(s)) = Joined(s)}
<1>1. <<>> \in T
  BY FilledOf, EmptySeq
<1>2. ASSUME NEW s \in Seq(Items), NEW x \in Items, s \in T PROVE Append(s, x) \in T
  <2>1. Append(s, x) \in Seq(Items) /\ Filled(s) \in Seq(Items) /\ Joined(s) \in Seq(Items)
    BY ItemsAppend, FilledOf, JoinedOf
  <2>2. CASE x.pieces = <<>>
    <3>1. x.kind # "call" /\ x.kind \in ItemKinds
      BY <2>2 DEF Items
    <3>2. Joined(Append(s, x)) = Joined(s)
      BY <2>1, <2>2, <3>1, JoinedOf, AddAllOf
    <3>3. Filled(Append(s, x)) = Filled(s)
      BY <2>2, FilledOf
    <3>4. QED
      BY <1>2, <2>1, <3>2, <3>3
  <2>3. CASE x.pieces # <<>>
    <3>1. Filled(Append(s, x)) = Append(Filled(s), x)
      BY <2>3, FilledOf
    <3>2. Joined(Filled(s)) = Joined(s)
      BY <1>2
    <3>3. Joined(Append(Filled(s), x)) = Joined(Append(s, x))
      <4>1. CASE x.kind = "call"
        <5>1. Joined(Append(Filled(s), x)) = Append(Joined(Filled(s)), x)
          BY <2>1, <4>1, JoinedOf
        <5>2. Joined(Append(s, x)) = Append(Joined(s), x)
          BY <4>1, JoinedOf
        <5>3. QED
          BY <3>2, <5>1, <5>2
      <4>2. CASE x.kind # "call"
        BY <2>1, <3>2, <4>2, JoinedOf
      <4>3. QED
        BY <4>1, <4>2
    <3>4. QED
      BY <2>1, <3>1, <3>3
  <2>4. QED
    BY <2>2, <2>3
<1>3. Seq(Items) \subseteq T
  <2> HIDE DEF T
  <2>1. QED
    BY <1>1, <1>2, SequencesFrom
<1>4. QED
  BY <1>3, FilledOf

\* Joined, a piece more of the last item is a piece more of the whole.
LEMMA JoinedGrows ==
  ASSUME NEW s \in Seq(Items), NEW x \in Items, x.kind # "call", NEW n \in Nat
  PROVE  Joined(Append(s, Grown(x, n))) = AddPiece(Joined(Append(s, x)), x.kind, n)
<1>1. x.kind \in ItemKinds /\ x.pieces \in Seq(Nat) /\ Joined(s) \in Seq(Items)
  BY JoinedOf DEF Items
<1>2. Joined(Append(s, x)) = AddAll(Joined(s), x.kind, x.pieces)
  BY JoinedOf
<1>3. Joined(Append(s, Grown(x, n))) = AddAll(Joined(s), x.kind, Append(x.pieces, n))
  BY GrownIs, JoinedOf
<1>4. QED
  BY <1>1, <1>2, <1>3, AddAllOf

\* So is an item of one piece.
LEMMA JoinedOne ==
  ASSUME NEW s \in Seq(Items), NEW kind \in ItemKinds \ {"call"}, NEW n \in Nat
  PROVE  Joined(Append(s, Item(kind, <<n>>))) = AddPiece(Joined(s), kind, n)
<1>1. Item(kind, <<n>>) \in Items /\ Item(kind, <<n>>).kind = kind /\ Item(kind, <<n>>).pieces = <<n>>
  BY ItemIs, OnePiece
<1>2. Joined(Append(s, Item(kind, <<n>>))) = AddAll(Joined(s), kind, <<n>>)
  BY <1>1, JoinedOf
<1>3. Joined(s) \in Seq(Items) /\ <<>> \in Seq(Nat)
  BY JoinedOf, EmptySeq
<1>4. AddAll(Joined(s), kind, Append(<<>>, n)) = AddPiece(AddAll(Joined(s), kind, <<>>), kind, n)
  BY <1>3, AddAllOf, ZenonT(60)
<1>5. QED
  BY <1>2, <1>3, <1>4, AddAllOf, OnePiece

\* An empty item is not seen.
LEMMA JoinedEmpty ==
  ASSUME NEW s \in Seq(Items), NEW x \in Items, x.pieces = <<>>
  PROVE  Joined(Append(s, x)) = Joined(s)
<1>1. x.kind # "call" /\ x.kind \in ItemKinds /\ Joined(s) \in Seq(Items)
  BY JoinedOf DEF Items
<1>2. QED
  BY <1>1, JoinedOf, AddAllOf
----------------------------------------------------------------------------
(* A client is shown events one after the other.                           *)

\* The fold of a client's reading, of some of the first k events.
Reads(g, m, q, k) ==
  /\ g = [z \in SUBSET (1..k) |-> g[z]]
  /\ \A z \in SUBSET (1..k) : g[z] = IF z = {} THEN m ELSE Read(g[z \ {Max(z)}], q[Max(z)])

\* There is such a function.
LEMMA ReadsExists == ASSUME NEW m, NEW q PROVE \A k \in Nat : \E g : Reads(g, m, q, k)
<1> DEFINE T == {k \in Nat : \E g : Reads(g, m, q, k)}
<1>1. 0 \in T
  <2> DEFINE g == [z \in SUBSET (1..0) |-> m]
  <2>1. \A z \in SUBSET (1..0) : z = {} /\ g[z] = m
    <3>1. 1..0 = {}
      OBVIOUS
    <3>2. QED
      BY <3>1
  <2>2. g = [z \in SUBSET (1..0) |-> g[z]]
    OBVIOUS
  <2> HIDE DEF g
  <2>3. QED
    BY <2>1, <2>2 DEF Reads
<1>2. ASSUME NEW k \in T PROVE k + 1 \in T
  <2>1. k \in Nat
    OBVIOUS
  <2>2. PICK g : Reads(g, m, q, k)
    OBVIOUS
  <2> DEFINE G == [z \in SUBSET (1..(k + 1)) |->
                     IF k + 1 \in z THEN Read(g[z \ {k + 1}], q[k + 1]) ELSE g[z]]
  <2>3. \A z \in SUBSET (1..(k + 1)) : k + 1 \in z => Max(z) = k + 1 /\ z \ {k + 1} \in SUBSET (1..k)
    <3> SUFFICES ASSUME NEW z \in SUBSET (1..(k + 1)), k + 1 \in z
                 PROVE Max(z) = k + 1 /\ z \ {k + 1} \in SUBSET (1..k)
      OBVIOUS
    <3>1. k + 1 \in Nat /\ z # {}
      BY <2>1
    <3>2. Max(z) \in z /\ Max(z) >= k + 1
      BY <3>1, LargestOfSome
    <3>3. \A i \in 1..(k + 1) : i # k + 1 => i \in 1..k
      BY <2>1
    <3>4. Max(z) \in 1..(k + 1)
      BY <3>2
    <3>5. Max(z) = k + 1
      BY <2>1, <3>2, <3>4
    <3>6. z \ {k + 1} \subseteq 1..k
      BY <3>3
    <3>7. QED
      BY <3>5, <3>6
  <2>4. \A z \in SUBSET (1..(k + 1)) : k + 1 \notin z => z \in SUBSET (1..k)
    BY <2>1
  <2>5. ASSUME NEW z \in SUBSET (1..(k + 1))
        PROVE G[z] = IF z = {} THEN m ELSE Read(G[z \ {Max(z)}], q[Max(z)])
    <3>1. CASE k + 1 \in z
      <4>1. Max(z) = k + 1 /\ z \ {k + 1} \in SUBSET (1..k) /\ z \ {k + 1} \in SUBSET (1..(k + 1))
        BY <2>3, <3>1
      <4>2. G[z \ {k + 1}] = g[z \ {k + 1}]
        BY <4>1
      <4>3. QED
        BY <3>1, <4>1, <4>2
    <3>2. CASE k + 1 \notin z
      <4>1. z \in SUBSET (1..k) /\ z \ {Max(z)} \in SUBSET (1..(k + 1)) /\ k + 1 \notin z \ {Max(z)}
        BY <2>4, <3>2
      <4>2. G[z] = g[z] /\ G[z \ {Max(z)}] = g[z \ {Max(z)}]
        BY <3>2, <4>1
      <4>3. QED
        BY <2>2, <4>1, <4>2 DEF Reads
    <3>3. QED
      BY <3>1, <3>2
  <2>6. G = [z \in SUBSET (1..(k + 1)) |-> G[z]]
    OBVIOUS
  <2> HIDE DEF G
  <2>7. Reads(G, m, q, k + 1)
    BY <2>5, <2>6 DEF Reads
  <2>8. QED
    BY <2>1, <2>7
<1>3. T = Nat
  <2> HIDE DEF T
  <2>1. T \subseteq Nat
    BY DEF T
  <2>2. QED
    BY <1>1, <1>2, <2>1, SetInduction
<1>4. QED
  BY <1>3

\* Those of two sequences agree on the part they share.
LEMMA ReadsAgree ==
  ASSUME NEW m, NEW q, NEW w, NEW n \in Nat, NEW l \in Nat, n <= l, \A i \in 1..n : w[i] = q[i],
         NEW f, Reads(f, m, q, n), NEW g, Reads(g, m, w, l)
  PROVE  f[1..n] = g[1..n]
<1> DEFINE T == {k \in Nat : k <= n => f[1..k] = g[1..k]}
<1>1. 0 \in T
  <2>1. 1..0 = {} /\ {} \in SUBSET (1..n) /\ {} \in SUBSET (1..l)
    OBVIOUS
  <2>2. QED
    BY <2>1 DEF Reads
<1>2. ASSUME NEW k \in T PROVE k + 1 \in T
  <2> SUFFICES ASSUME k + 1 <= n PROVE f[1..(k + 1)] = g[1..(k + 1)]
    OBVIOUS
  <2> DEFINE z == 1..(k + 1)
  <2>1. k \in Nat /\ f[1..k] = g[1..k]
    OBVIOUS
  <2>2. Max(z) = k + 1 /\ z \ {k + 1} = 1..k
    BY <2>1, LargestOfAll
  <2>3. 1 \in z /\ z \in SUBSET (1..n) /\ z \in SUBSET (1..l) /\ k + 1 \in 1..n
    BY <2>1
  <2> HIDE DEF z
  <2>4. f[z] = Read(f[1..k], q[k + 1])
    BY <2>2, <2>3 DEF Reads
  <2>5. g[z] = Read(g[1..k], w[k + 1])
    BY <2>2, <2>3, ZenonT(60) DEF Reads
  <2>6. QED
    BY <2>1, <2>3, <2>4, <2>5 DEF z
<1>3. T = Nat
  <2> HIDE DEF T
  <2>1. T \subseteq Nat
    BY DEF T
  <2>2. QED
    BY <1>1, <1>2, <2>1, SetInduction
<1>4. QED
  BY <1>3

\* What a client makes of one event more.
LEMMA ShownOf ==
  ASSUME NEW m, NEW X
  PROVE  /\ Shown(m, <<>>) = m
         /\ \A q \in Seq(X), e \in X : Shown(m, Append(q, e)) = Read(Shown(m, q), e)
<1>1. ASSUME NEW q \in Seq(X) PROVE \E f : Reads(f, m, q, Len(q)) /\ Shown(m, q) = f[1..Len(q)]
  <2> DEFINE f == CHOOSE g : g = [z \in SUBSET (DOMAIN q) |->
                    IF z = {} THEN m ELSE Read(g[z \ {Max(z)}], q[Max(z)])]
  <2>1. Shown(m, q) = f[DOMAIN q]
    BY DEF Shown, FoldLeft, MapThenFoldSet
  <2>2. Len(q) \in Nat /\ DOMAIN q = 1..Len(q)
    BY LenProperties
  <2>3. PICK g : Reads(g, m, q, Len(q))
    BY <2>2, ReadsExists
  <2>4. g = [z \in SUBSET (DOMAIN q) |-> IF z = {} THEN m ELSE Read(g[z \ {Max(z)}], q[Max(z)])]
    BY <2>2, <2>3 DEF Reads
  <2>5. f = [z \in SUBSET (DOMAIN q) |-> IF z = {} THEN m ELSE Read(f[z \ {Max(z)}], q[Max(z)])]
    BY <2>4
  <2> HIDE DEF f
  <2>6. Reads(f, m, q, Len(q))
    BY <2>2, <2>5 DEF Reads
  <2>7. QED
    BY <2>1, <2>2, <2>6
<1>2. Shown(m, <<>>) = m
  <2>1. <<>> \in Seq(X) /\ 1..Len(<<>>) = {}
    BY EmptySeq
  <2>2. PICK f : Reads(f, m, <<>>, Len(<<>>)) /\ Shown(m, <<>>) = f[1..Len(<<>>)]
    BY <1>1, <2>1
  <2>3. QED
    BY <2>1, <2>2 DEF Reads
<1>3. ASSUME NEW q \in Seq(X), NEW e \in X PROVE Shown(m, Append(q, e)) = Read(Shown(m, q), e)
  <2> DEFINE w == Append(q, e)
             n == Len(q)
  <2>1. /\ w \in Seq(X) /\ Len(w) = n + 1 /\ n \in Nat /\ w[n + 1] = e
        /\ \A i \in 1..n : w[i] = q[i]
    BY AppendProperties, LenProperties
  <2> HIDE DEF w
  <2>2. PICK f : Reads(f, m, q, n) /\ Shown(m, q) = f[1..n]
    BY <1>1
  <2>3. PICK g : Reads(g, m, w, n + 1) /\ Shown(m, w) = g[1..(n + 1)]
    BY <1>1, <2>1
  <2>4. f[1..n] = g[1..n]
    BY <2>1, <2>2, <2>3, ReadsAgree
  <2>5. Max(1..(n + 1)) = n + 1 /\ (1..(n + 1)) \ {n + 1} = 1..n
    BY <2>1, LargestOfAll
  <2>6. 1 \in 1..(n + 1) /\ 1..(n + 1) \in SUBSET (1..(n + 1))
    BY <2>1
  <2>7. g[1..(n + 1)] = Read(g[1..n], w[n + 1])
    BY <2>3, <2>5, <2>6 DEF Reads
  <2>8. QED
    BY <2>1, <2>2, <2>3, <2>4, <2>7 DEF w
<1>4. QED
  BY <1>2, <1>3

\* The same, of any client and events.
LEMMA ShownAll ==
  \A m, X : /\ Shown(m, <<>>) = m
             /\ \A q \in Seq(X), e \in X : Shown(m, Append(q, e)) = Read(Shown(m, q), e)
<1>1. ASSUME NEW m, NEW X
      PROVE  /\ Shown(m, <<>>) = m
             /\ \A q \in Seq(X), e \in X : Shown(m, Append(q, e)) = Read(Shown(m, q), e)
  BY ShownOf
<1>2. QED
  BY <1>1

\* No event, one, and two.
LEMMA ShownFew ==
  ASSUME NEW m
  PROVE  /\ Shown(m, <<>>) = m
         /\ \A e : Shown(m, <<e>>) = Read(m, e)
         /\ \A e, f : Shown(m, <<e, f>>) = Read(Read(m, e), f)
<1>1. Shown(m, <<>>) = m
  BY ShownAll
<1>2. ASSUME NEW X, NEW e \in X, NEW f \in X
      PROVE  Shown(m, <<e>>) = Read(m, e) /\ Shown(m, <<e, f>>) = Read(Read(m, e), f)
  <2>1. <<>> \in Seq(X) /\ <<e>> \in Seq(X) /\ <<e>> = Append(<<>>, e) /\ <<e, f>> = Append(<<e>>, f)
    OBVIOUS
  <2>2. \A q \in Seq(X), g \in X : Shown(m, Append(q, g)) = Read(Shown(m, q), g)
    BY ShownAll
  <2>3. /\ Shown(m, Append(<<>>, e)) = Read(Shown(m, <<>>), e)
        /\ Shown(m, Append(<<e>>, f)) = Read(Shown(m, <<e>>), f)
    BY <2>1, <2>2
  <2>4. QED
    BY <1>1, <2>1, <2>3
<1>3. ASSUME NEW e, NEW f
      PROVE  Shown(m, <<e>>) = Read(m, e) /\ Shown(m, <<e, f>>) = Read(Read(m, e), f)
  <2>1. e \in {e, f} /\ f \in {e, f}
    OBVIOUS
  <2>2. QED
    BY <1>2, <2>1
<1>4. ASSUME NEW e PROVE Shown(m, <<e>>) = Read(m, e)
  BY <1>3
<1>5. ASSUME NEW e, NEW f PROVE Shown(m, <<e, f>>) = Read(Read(m, e), f)
  BY <1>3
<1>6. QED
  BY <1>1, <1>4, <1>5
----------------------------------------------------------------------------
(* The routes whose upstream speaks in blocks, and what it has said.       *)

\* The routes from Codex and from Claude.
BlockRoute == route \in Routes /\ ~InParts

\* What the upstream has said, of a route with blocks.
Upstream ==
  /\ BlockRoute
  /\ told \in Seq(Items) /\ said \in Nat
  /\ block \in {""} \cup ItemKinds
  /\ block # "" => told # <<>> /\ Last(told).kind = block
  /\ stage \in {"new", "speaking", "finished", "over", "cut"}
  /\ stage \in {"new", "finished", "over"} => block = ""
  /\ stage = "new" => told = <<>>
  /\ finish \in {"", "end", "limit"}
  /\ stage \in {"finished", "over"} => finish \in {"end", "limit"} /\ (From = "codex" => finish = "end")

\* What one may hear of it: the last item opens, grows or stays.
Opens(kind, n) ==
  /\ told' = Append(told, Item(kind, IF kind = "call" THEN <<n>> ELSE <<>>))
  /\ Item(kind, IF kind = "call" THEN <<n>> ELSE <<>>) \in Items

\* A piece more of the last item.
Grows(q, x, n) ==
  /\ q \in Seq(Items) /\ x \in Items /\ x.kind = block /\ n \in Nat
  /\ told = Append(q, x) /\ told' = Append(q, Grown(x, n))
  /\ Len(told) = Len(q) + 1 /\ Len(told') = Len(q) + 1

\* A list that is not empty is another with one item behind it.
LEMMA LastOf ==
  ASSUME NEW s \in Seq(Items), s # <<>>
  PROVE  \E q \in Seq(Items), x \in Items : s = Append(q, x) /\ Last(s) = x /\ q = Front(s)
<1>1. Len(s) \in Nat \ {0}
  BY LenProperties, EmptySeq
<1>2. SubSeq(s, 1, Len(s) - 1) \in Seq(Items) /\ Last(s) \in Items
  BY <1>1 DEF Last
<1>3. s = Append(SubSeq(s, 1, Len(s) - 1), Last(s))
  BY <1>1 DEF Last
<1>4. QED
  BY <1>2, <1>3 DEF Front

\* All but the last.
LEMMA FrontOf ==
  ASSUME NEW q \in Seq(Items), NEW x \in Items
  PROVE  Front(Append(q, x)) = q
BY DEF Front

\* Which routes they are.
LEMMA RouteParts == BlockRoute =>
  /\ route \in {<<"codex", "claude">>, <<"codex", "chat">>, <<"claude", "chat">>,
               <<"codex", "gemini">>, <<"claude", "gemini">>, <<"claude", "responses">>}
  /\ From \in {"codex", "claude"} /\ ~GeminiLike
BY DEF BlockRoute, Routes, InParts, From, GeminiLike, GeminiFormats

\* What an upstream that speaks in blocks does: it says no parts.
LEMMA SpokenInBlocks ==
  ASSUME BlockRoute, TranslationNext
  PROVE  \/ SayCreated \/ SayDelta \/ SayClose \/ SayCompleted \/ AnswerEnds \/ AnswerBreaks
         \/ (\E kind \in ItemKinds : SayOpen(kind))
         \/ SayUsage
BY DEF TranslationNext, SayMore, SayLast, BlockRoute, ItemKinds

\* The last item grows with a delta, and a block opens behind it.
LEMMA Hears ==
  ASSUME Upstream
  PROVE  /\ SayDelta => \E q, x : Grows(q, x, said + 1)
         /\ \A kind \in ItemKinds : SayOpen(kind) => Opens(kind, said + 1)
<1>1. ASSUME SayDelta PROVE \E q, x : Grows(q, x, said + 1)
  <2>0. block # ""
    BY <1>1 DEF SayDelta
  <2>10. said \in Nat
    BY DEF Upstream
  <2>1. told \in Seq(Items) /\ told # <<>> /\ Last(told).kind = block /\ said + 1 \in Nat
    <3>1. told \in Seq(Items) /\ told # <<>> /\ Last(told).kind = block
      BY <2>0 DEF Upstream
    <3>2. QED
      BY <2>10, <3>1
  <2>2. PICK q \in Seq(Items), x \in Items : told = Append(q, x) /\ Last(told) = x
    BY <2>1, LastOf
  <2>3. told' = [told EXCEPT ![Len(told)].pieces = Append(@, said + 1)]
    BY <1>1 DEF SayDelta
  <2>4. told' = Append(q, Grown(x, said + 1))
    BY <2>1, <2>2, <2>3, LastGrows
  <2>5. Grown(x, said + 1) \in Items
    BY <2>1, GrownIs
  <2>6. Len(told) = Len(q) + 1 /\ Len(told') = Len(q) + 1
    BY <2>2, <2>4, <2>5, AppendProperties
  <2>7. QED
    BY <2>1, <2>2, <2>4, <2>6 DEF Grows
<1>2. ASSUME NEW kind \in ItemKinds, SayOpen(kind) PROVE Opens(kind, said + 1)
  <2>1. <<said + 1>> \in Seq(Nat) /\ <<said + 1>> # <<>> /\ <<>> \in Seq(Nat)
    <3>1. said \in Nat
      BY DEF Upstream
    <3>2. said + 1 \in Nat
      BY <3>1
    <3>3. QED
      BY <3>2, OnePiece, EmptySeq
  <2>2. Item(kind, IF kind = "call" THEN <<said + 1>> ELSE <<>>) \in Items
    BY <2>1, ItemIs
  <2>3. QED
    BY <1>2, <2>2 DEF Opens, SayOpen
<1>3. QED
  BY <1>1, <1>2

\* So it begins,
LEMMA UpstreamBegins == TranslationInit /\ BlockRoute => Upstream
<1>1. ASSUME TranslationInit, BlockRoute PROVE Upstream
  <2>1. <<>> \in Seq(Items)
    BY EmptySeq
  <2>2. QED
    BY <1>1, <2>1 DEF TranslationInit, Upstream, BlockRoute, ItemKinds
<1>2. QED
  BY <1>1

\* and so it stays.
LEMMA UpstreamGoesOn ==
  ASSUME Upstream, [TranslationNext]_translationVars
  PROVE  Upstream'
<1>1. route' = route
  BY DEF TranslationNext, translationVars, SayMore, SayLast, SayUsage, SayCreated, SayDelta, SayClose,
         SayCompleted, SayOpen, AnswerEnds, AnswerBreaks
<1>2. BlockRoute' /\ (From' = From)
  BY <1>1 DEF Upstream, BlockRoute, InParts, GeminiLike, From
<1>3. CASE UNCHANGED translationVars
  BY <1>2, <1>3 DEF Upstream, translationVars
<1>4. CASE SayCreated
  BY <1>2, <1>4 DEF Upstream, SayCreated, ItemKinds
<1>5. CASE SayDelta
  <2>1. PICK q, x : Grows(q, x, said + 1)
    BY <1>5, Hears
  <2>2. Grown(x, said + 1) \in Items /\ Grown(x, said + 1).kind = block
    BY <2>1, GrownIs DEF Grows
  <2>3. told' \in Seq(Items) /\ told' # <<>> /\ Last(told').kind = block
    BY <2>1, <2>2, EndsWithAppend, ItemsAppend DEF Grows
  <2>4. said' \in Nat
    <3>1. said \in Nat /\ said' = said + 1
      BY <1>5 DEF Upstream, SayDelta
    <3>2. QED
      BY <3>1
  <2>5. stage = "speaking" /\ UNCHANGED <<block, stage, finish>>
    BY <1>5 DEF SayDelta
  <2>6. QED
    BY <1>2, <2>3, <2>4, <2>5 DEF Upstream
<1>6. CASE SayClose
  BY <1>2, <1>6 DEF Upstream, SayClose
<1>7. CASE SayCompleted
  BY <1>2, <1>7 DEF Upstream, SayCompleted
<1>8. CASE AnswerEnds
  BY <1>2, <1>8 DEF Upstream, AnswerEnds
<1>9. CASE AnswerBreaks
  BY <1>2, <1>9 DEF Upstream, AnswerBreaks
<1>10. ASSUME NEW kind \in ItemKinds, SayOpen(kind) PROVE Upstream'
  <2> DEFINE x == Item(kind, IF kind = "call" THEN <<said + 1>> ELSE <<>>)
  <2>1. told' = Append(told, x) /\ x \in Items /\ x.kind = kind
    BY <1>10, Hears DEF Opens, Item
  <2> HIDE DEF x
  <2>2. told' \in Seq(Items) /\ told' # <<>> /\ Last(told').kind = kind
    BY <2>1, EndsWithAppend, ItemsAppend DEF Upstream
  <2>3. said' \in Nat
    <3>1. said \in Nat /\ said' = said + Len(IF kind = "call" THEN <<said + 1>> ELSE <<>>)
      BY <1>10 DEF Upstream, SayOpen
    <3>2. Len(<<said + 1>>) = 1 /\ Len(<<>>) = 0
      OBVIOUS
    <3>3. QED
      BY <3>1, <3>2
  <2>4. QED
    BY <1>2, <1>10, <2>2, <2>3 DEF Upstream, SayOpen
<1>11. CASE SayUsage
  BY <1>11 DEF SayUsage, Upstream
<1>12. QED
  BY <1>3, <1>4, <1>5, <1>6, <1>7, <1>8, <1>9, <1>10, <1>11, SpokenInBlocks DEF Upstream
----------------------------------------------------------------------------
(* Codex to Claude: the client reads Claude's events.                      *)

\* The index Claude's clients know the block by: the items before it.
BlockIndex == IF block = "" THEN Len(told) ELSE Len(told) - 1

\* A client of Claude's.
ReadingClaude(phase, open, items, reason) == [phase |-> phase, open |-> open, items |-> items, reason |-> reason]

\* It has what was told, and the open block, by its index.
MessageSoFar(phase, reason) ==
  ReadingClaude(phase, IF block = "" THEN {} ELSE {Len(told) - 1}, told, reason)

\* What the converter of Codex's events for Claude's clients counts.
CodexCounts(t, i) == [tool |-> t, index |-> i, out |-> <<>>]

\* Codex to Claude: the converter counts the blocks and knows of a call, and
\* the client has what was told, item by item, until it is stopped with the
\* reason.
CodexClaudeArrives ==
  /\ route = <<"codex", "claude">>
  /\ params = CodexCounts(CallCount(told) > 0, BlockIndex)
  /\ stage = "new" => client = MessageSoFar("none", "")
  /\ stage = "speaking" => client = MessageSoFar("started", "")
  /\ stage \in {"finished", "over"} => client = MessageSoFar("stopped", Reason(told, finish))
  /\ stage = "cut" => client.phase \in {"none", "started"}

\* One item more counts if it is a call.
LEMMA CallsCounted ==
  /\ CallCount(<<>>) = 0
  /\ \A q \in Seq(Items) : CallCount(q) \in Nat
  /\ \A q \in Seq(Items), x \in Items :
       CallCount(Append(q, x)) = CallCount(q) + (IF x.kind = "call" THEN 1 ELSE 0)
<1>1. CallCount(<<>>) = 0
  BY CallsOf DEF CallCount
<1>2. \A q \in Seq(Items) : CallCount(q) \in Nat
  BY CallsOf, LenProperties DEF CallCount
<1>3. ASSUME NEW q \in Seq(Items), NEW x \in Items
      PROVE  CallCount(Append(q, x)) = CallCount(q) + (IF x.kind = "call" THEN 1 ELSE 0)
  <2>1. CASE x.kind = "call"
    <3>1. Len(Append(Calls(q), x)) = Len(Calls(q)) + 1
      BY CallsOf, AppendProperties
    <3>2. QED
      BY <2>1, <3>1, CallsOf DEF CallCount
  <2>2. CASE x.kind # "call"
    <3>1. QED
      BY <2>2, CallsOf, <1>2 DEF CallCount
  <2>3. QED
    BY <2>1, <2>2
<1>4. QED
  BY <1>1, <1>2, <1>3

\* What the client makes of a message that starts,
LEMMA ClaudeReadsStart ==
  ASSUME NEW items, NEW reason
  PROVE  ReadClaudeEvent(ReadingClaude("none", {}, items, reason), MessageStart)
         = ReadingClaude("started", {}, items, reason)
BY DEF ReadClaudeEvent, MessageStart, ReadingClaude

\* of a block that opens,
LEMMA ClaudeReadsOpen ==
  ASSUME NEW items, NEW reason, NEW kind, NEW ns
  PROVE  ReadClaudeEvent(ReadingClaude("started", {}, items, reason), BlockStart(Len(items), kind, ns))
         = ReadingClaude("started", {Len(items)}, Append(items, Item(kind, ns)), reason)
BY DEF ReadClaudeEvent, BlockStart, ReadingClaude

\* of one that stops,
LEMMA ClaudeReadsStop ==
  ASSUME NEW items, NEW reason, NEW i
  PROVE  ReadClaudeEvent(ReadingClaude("started", {i}, items, reason), BlockStop(i))
         = ReadingClaude("started", {}, items, reason)
BY DEF ReadClaudeEvent, BlockStop, ReadingClaude

\* of the end with its reason,
LEMMA ClaudeReadsEnd ==
  ASSUME NEW items, NEW reason, NEW why
  PROVE  ReadClaudeEvent(ReadClaudeEvent(ReadingClaude("started", {}, items, reason), MessageDelta(why)), MessageStop)
         = ReadingClaude("stopped", {}, items, why)
<1>1. ReadClaudeEvent(ReadingClaude("started", {}, items, reason), MessageDelta(why))
      = ReadingClaude("ending", {}, items, why)
  BY DEF ReadClaudeEvent, MessageDelta, ReadingClaude
<1>2. ReadClaudeEvent(ReadingClaude("ending", {}, items, why), MessageStop) = ReadingClaude("stopped", {}, items, why)
  BY DEF ReadClaudeEvent, MessageStop, ReadingClaude
<1>3. QED
  BY <1>1, <1>2

\* and of a piece of the open block.
LEMMA ClaudeReadsDelta ==
  ASSUME NEW q \in Seq(Items), NEW x \in Items, NEW n \in Nat, NEW reason
  PROVE  ReadClaudeEvent(ReadingClaude("started", {Len(q)}, Append(q, x), reason), BlockDelta(Len(q), x.kind, <<n>>))
         = ReadingClaude("started", {Len(q)}, Append(q, Grown(x, n)), reason)
<1> DEFINE m == [phase |-> "started", open |-> {Len(q)}, items |-> Append(q, x), reason |-> reason]
           e == BlockDelta(Len(q), x.kind, <<n>>)
           l == Append(q, x)
<1>1. Len(l) = Len(q) + 1 /\ l[Len(q) + 1] = x /\ Len(q) \in Nat
  BY AppendProperties, LenProperties
<1>2. x.pieces \o <<n>> = Append(x.pieces, n)
  BY DEF Items
<1>3. [l EXCEPT ![Len(q) + 1].pieces = @ \o <<n>>] = [l EXCEPT ![Len(l)].pieces = Append(@, n)]
  BY <1>1, <1>2
<1>4. [l EXCEPT ![Len(q) + 1].pieces = @ \o <<n>>] = Append(q, Grown(x, n))
  BY <1>3, LastGrows, ZenonT(60)
<1> HIDE DEF l
<1>5. m.items = l /\ e.event = "content_block_delta" /\ e.index = Len(q) /\ e.kind = x.kind /\ e.pieces = <<n>>
  BY DEF BlockDelta, l
<1>6. e.index \in m.open /\ m.items[e.index + 1].kind = e.kind
  BY <1>1, <1>5
<1>7. ReadClaudeEvent(m, e) = [m EXCEPT !.items[e.index + 1].pieces = @ \o e.pieces]
  BY <1>5, <1>6 DEF ReadClaudeEvent
<1>8. [m EXCEPT !.items[e.index + 1].pieces = @ \o e.pieces]
      = [m EXCEPT !.items = [l EXCEPT ![Len(q) + 1].pieces = @ \o <<n>>]]
  BY <1>5
<1>9. QED
  BY <1>4, <1>7, <1>8 DEF ReadingClaude, l

\* Lists of one and of two.
LEMMA OneOf == (\A e : Append(<<>>, e) = <<e>>) /\ (\A e, f : Append(<<e>>, f) = <<e, f>>)
<1>1. ASSUME NEW X, NEW e \in X, NEW f \in X PROVE Append(<<>>, e) = <<e>> /\ Append(<<e>>, f) = <<e, f>>
  <2>1. <<>> \in Seq(X) /\ <<e>> \in Seq(X) /\ <<e>> = Append(<<>>, e) /\ <<e, f>> = Append(<<e>>, f)
    OBVIOUS
  <2>2. QED
    BY <2>1
<1>2. ASSUME NEW e, NEW f PROVE Append(<<>>, e) = <<e>> /\ Append(<<e>>, f) = <<e, f>>
  <2>1. e \in {e, f} /\ f \in {e, f}
    OBVIOUS
  <2>2. QED
    BY <1>1, <2>1
<1>3. QED
  BY <1>2

\* The converter says one thing,
LEMMA CodexEmits == ASSUME NEW t, NEW i, NEW e PROVE Emit(CodexCounts(t, i), e) = [tool |-> t, index |-> i, out |-> <<e>>]
BY OneOf DEF Emit, CodexCounts

\* or two.
LEMMA CodexEmitsTwo ==
  ASSUME NEW t, NEW i, NEW e, NEW f
  PROVE  Emit(Emit(CodexCounts(t, i), e), f) = [tool |-> t, index |-> i, out |-> <<e, f>>]
<1> DEFINE p == [tool |-> t, index |-> i, out |-> <<e>>]
<1>1. Append(<<e>>, f) = <<e, f>> /\ p.out = <<e>>
  BY OneOf
<1>2. [p EXCEPT !.out = <<e, f>>] = [tool |-> t, index |-> i, out |-> <<e, f>>]
  OBVIOUS
<1>3. Emit(CodexCounts(t, i), e) = p
  BY CodexEmits
<1> HIDE DEF p
<1>4. QED
  BY <1>1, <1>2, <1>3 DEF Emit, p

\* What the converter of Codex's events says to each, and what it has counted then.
LEMMA CodexToClaudeSays ==
  ASSUME NEW p, NEW e
  PROVE  /\ e.event = "created" => CodexToClaude(p, e) = Emit(p, MessageStart)
         /\ e.event = "open" => 
              CodexToClaude(p, e) = Emit([p EXCEPT !.tool = @ \/ e.kind = "call"], BlockStart(p.index, e.kind, e.pieces))
         /\ e.event = "delta" => CodexToClaude(p, e) = Emit(p, BlockDelta(p.index, e.kind, e.pieces))
         /\ e.event = "close" => CodexToClaude(p, e) = [Emit(p, BlockStop(p.index)) EXCEPT !.index = @ + 1]
         /\ e.event = "completed" => CodexToClaude(p, e) = 
              Emit(Emit(p, MessageDelta(IF p.tool THEN "tools" ELSE "end")), MessageStop)
  BY DEF CodexToClaude

\* One event, and two, handed on.
LEMMA HandsOn ==
  ASSUME NEW p, HandOn(p)
  PROVE  /\ params' = [p EXCEPT !.out = <<>>]
         /\ p.out = <<>> => client' = client
         /\ \A e : p.out = <<e>> => client' = Read(client, e)
         /\ \A e, f : p.out = <<e, f>> => client' = Read(Read(client, e), f)
<1>1. params' = [p EXCEPT !.out = <<>>] /\ client' = Shown(client, p.out)
  BY DEF HandOn
<1>2. Shown(client, <<>>) = client
  BY ShownFew
<1>3. \A e : Shown(client, <<e>>) = Read(client, e)
  BY ShownFew
<1>4. \A e, f : Shown(client, <<e, f>>) = Read(Read(client, e), f)
  BY ShownFew
<1>5. QED
  BY <1>1, <1>2, <1>3, <1>4

\* What an event carries.
LEMMA EventIs ==
  ASSUME NEW event, NEW kind, NEW ns
  PROVE  /\ Event(event, kind, ns).event = event /\ Event(event, kind, ns).kind = kind
         /\ Event(event, kind, ns).pieces = ns
BY DEF Event

\* The last one carries the reason.
LEMMA CompletedIs ==
  ASSUME NEW why
  PROVE  /\ [Event("completed", "", <<>>) EXCEPT !.reason = why].event = "completed"
         /\ [Event("completed", "", <<>>) EXCEPT !.reason = why].reason = why
<1> DEFINE e == Event("completed", "", <<>>)
           i == e.index
           w == e.item
<1>1. e = [event |-> "completed", kind |-> "", pieces |-> <<>>, index |-> i, item |-> w, reason |-> ""]
  BY DEF Event
<1> HIDE DEF i, w, e
<1>2. [e EXCEPT !.reason = why].event = e.event /\ [e EXCEPT !.reason = why].reason = why
  BY <1>1
<1>3. e.event = "completed"
  BY <1>1
<1>4. QED
  BY <1>2, <1>3 DEF e

\* The route's converter and client.
LEMMA CodexToClaudeBy ==
  ASSUME route = <<"codex", "claude">>
  PROVE  /\ \A x : Translated(x, "straight") = CodexToClaude(params, x)
         /\ \A m, e : Read(m, e) = ReadClaudeEvent(m, e)
         /\ From = "codex" /\ To = "claude" /\ ~InParts /\ ~GeminiLike
         /\ FirstParams(route) = CodexClaudeParams /\ Nothing(route) = NoMessage
         /\ Whole = WholeCodexToClaude(told) /\ TranslatedDone = params
<1>1. From = "codex" /\ To = "claude"
  BY DEF From, To
<1>2. ~InParts /\ ~GeminiLike
  BY <1>1 DEF InParts, GeminiLike, GeminiFormats
<1>3. ASSUME NEW x PROVE Translated(x, "straight") = CodexToClaude(params, x)
  BY DEF Translated
<1>4. ASSUME NEW m, NEW e PROVE Read(m, e) = ReadClaudeEvent(m, e)
  BY <1>1 DEF Read
<1>5. FirstParams(route) = CodexClaudeParams
  BY DEF FirstParams, GeminiFormats
<1>6. Nothing(route) = NoMessage
  BY DEF Nothing
<1>7. Whole = WholeCodexToClaude(told)
  BY DEF Whole
<1>8. TranslatedDone = params
  BY DEF TranslatedDone
<1>9. QED
  BY <1>1, <1>2, <1>3, <1>4, <1>5, <1>6, <1>7, <1>8

\* One of Codex's events goes through the converter and is read.
LEMMA CodexClaudeHears ==
  ASSUME route = <<"codex", "claude">>, NEW t \in BOOLEAN, NEW i \in Int, params = CodexCounts(t, i),
         NEW e, HandOn(Translated(e, "straight"))
  PROVE  /\ e.event = "created" =>
              params' = CodexCounts(t, i) /\ client' = ReadClaudeEvent(client, MessageStart)
         /\ e.event = "open" =>
              /\ params' = CodexCounts(t \/ e.kind = "call", i)
              /\ client' = ReadClaudeEvent(client, BlockStart(i, e.kind, e.pieces))
         /\ e.event = "delta" =>
              params' = CodexCounts(t, i) /\ client' = ReadClaudeEvent(client, BlockDelta(i, e.kind, e.pieces))
         /\ e.event = "close" =>
              params' = CodexCounts(t, i + 1) /\ client' = ReadClaudeEvent(client, BlockStop(i))
         /\ e.event = "completed" =>
              /\ params' = CodexCounts(t, i)
              /\ client' = ReadClaudeEvent(ReadClaudeEvent(client, MessageDelta(IF t THEN "tools" ELSE "end")), MessageStop)
<1> DEFINE p == CodexToClaude(CodexCounts(t, i), e)
<1>1. HandOn(p) /\ \A m, x : Read(m, x) = ReadClaudeEvent(m, x)
  BY CodexToClaudeBy
<1>2. CodexCounts(t, i).tool = t /\ CodexCounts(t, i).index = i
  BY DEF CodexCounts
<1> HIDE DEF p
<1>3. /\ params' = [p EXCEPT !.out = <<>>]
      /\ \A x : p.out = <<x>> => client' = ReadClaudeEvent(client, x)
      /\ \A x, y : p.out = <<x, y>> => client' = ReadClaudeEvent(ReadClaudeEvent(client, x), y)
  BY <1>1, HandsOn
<1>4. ASSUME e.event = "created"
      PROVE  params' = CodexCounts(t, i) /\ client' = ReadClaudeEvent(client, MessageStart)
  <2>1. p = Emit(CodexCounts(t, i), MessageStart)
    BY <1>4, CodexToClaudeSays DEF p
  <2>2. p = [tool |-> t, index |-> i, out |-> <<MessageStart>>]
    BY <2>1, CodexEmits
  <2>3. QED
    BY <1>3, <2>2 DEF CodexCounts
<1>5. ASSUME e.event = "open"
      PROVE  /\ params' = CodexCounts(t \/ e.kind = "call", i)
             /\ client' = ReadClaudeEvent(client, BlockStart(i, e.kind, e.pieces))
  <2> DEFINE u == t \/ e.kind = "call"
  <2>1. [CodexCounts(t, i) EXCEPT !.tool = @ \/ e.kind = "call"] = CodexCounts(u, i) /\ u \in BOOLEAN
    BY DEF CodexCounts
  <2>2. p = Emit([CodexCounts(t, i) EXCEPT !.tool = @ \/ e.kind = "call"], BlockStart(i, e.kind, e.pieces))
    BY <1>2, <1>5, CodexToClaudeSays DEF p
  <2> HIDE DEF u
  <2>3. p = [tool |-> u, index |-> i, out |-> <<BlockStart(i, e.kind, e.pieces)>>]
    BY <2>1, <2>2, CodexEmits
  <2>4. QED
    BY <1>3, <2>3 DEF CodexCounts, u
<1>6. ASSUME e.event = "delta"
      PROVE  params' = CodexCounts(t, i) /\ client' = ReadClaudeEvent(client, BlockDelta(i, e.kind, e.pieces))
  <2> DEFINE c == CodexCounts(t, i)
  <2>0. p = Emit(c, BlockDelta(c.index, e.kind, e.pieces))
    BY <1>6, CodexToClaudeSays DEF p
  <2>1. p = Emit(c, BlockDelta(i, e.kind, e.pieces))
    BY <1>2, <2>0
  <2>2. p = [tool |-> t, index |-> i, out |-> <<BlockDelta(i, e.kind, e.pieces)>>]
    BY <2>1, CodexEmits
  <2>3. QED
    BY <1>3, <2>2 DEF CodexCounts
<1>7. ASSUME e.event = "close"
      PROVE  params' = CodexCounts(t, i + 1) /\ client' = ReadClaudeEvent(client, BlockStop(i))
  <2>1. p = [Emit(CodexCounts(t, i), BlockStop(i)) EXCEPT !.index = @ + 1]
    BY <1>2, <1>7, CodexToClaudeSays, ZenonT(60) DEF p
  <2>2. p = [tool |-> t, index |-> i + 1, out |-> <<BlockStop(i)>>]
    BY <2>1, CodexEmits
  <2>3. QED
    BY <1>3, <2>2 DEF CodexCounts
<1>8. ASSUME e.event = "completed"
      PROVE  /\ params' = CodexCounts(t, i)
             /\ client' = ReadClaudeEvent(ReadClaudeEvent(client, MessageDelta(IF t THEN "tools" ELSE "end")), MessageStop)
  <2> DEFINE d == MessageDelta(IF t THEN "tools" ELSE "end")
  <2>1. p = Emit(Emit(CodexCounts(t, i), d), MessageStop)
    BY <1>2, <1>8, CodexToClaudeSays DEF p
  <2> HIDE DEF d
  <2>2. p = [tool |-> t, index |-> i, out |-> <<d, MessageStop>>]
    BY <2>1, CodexEmitsTwo
  <2>3. QED
    BY <1>3, <2>2 DEF CodexCounts, d
<1>9. QED
  BY <1>4, <1>5, <1>6, <1>7, <1>8
----------------------------------------------------------------------------
(* Codex to Claude: the invariant.                                         *)

\* One forth and back.
LEMMA OneBack == \A i \in Nat : (i + 1) - 1 = i /\ i - 1 \in Int /\ (i - 1) + 1 = i
OBVIOUS

\* What the client has.
LEMMA MessageIs ==
  \A phase, reason : /\ MessageSoFar(phase, reason).phase = phase /\ MessageSoFar(phase, reason).items = told
                     /\ MessageSoFar(phase, reason).reason = reason
BY DEF MessageSoFar, ReadingClaude

\* So it begins,
LEMMA CodexClaudeBegins == TranslationInit /\ route = <<"codex", "claude">> => CodexClaudeArrives
<1> SUFFICES ASSUME TranslationInit, route = <<"codex", "claude">> PROVE CodexClaudeArrives
  OBVIOUS
<1>1. told = <<>> /\ block = "" /\ stage = "new" /\ params = CodexClaudeParams /\ client = NoMessage
  BY CodexToClaudeBy DEF TranslationInit
<1>2. CallCount(told) = 0 /\ Len(told) = 0
  BY <1>1, CallsCounted
<1>3. (CallCount(told) > 0) = FALSE /\ BlockIndex = 0
  <2>1. ~(CallCount(told) > 0)
    BY <1>2
  <2>2. BlockIndex = 0
    BY <1>1, <1>2 DEF BlockIndex
  <2>3. QED
    BY <2>1, <2>2
<1>4. params = CodexCounts(CallCount(told) > 0, BlockIndex)
  BY <1>1, <1>3 DEF CodexCounts, CodexClaudeParams
<1>5. client = MessageSoFar("none", "")
  BY <1>1 DEF NoMessage, MessageSoFar, ReadingClaude
<1>6. QED
  BY <1>1, <1>4, <1>5 DEF CodexClaudeArrives

\* stays,
LEMMA CodexClaudeGoesOn ==
  ASSUME CodexClaudeArrives, Upstream, [TranslationNext]_translationVars
  PROVE  CodexClaudeArrives'
<1> DEFINE made == CallCount(told) > 0
<1>1. route = <<"codex", "claude">> /\ params = CodexCounts(made, BlockIndex)
  BY DEF CodexClaudeArrives
<1>2. told \in Seq(Items) /\ Len(told) \in Nat /\ BlockRoute
  BY LenProperties DEF Upstream
<1>3. made \in BOOLEAN /\ BlockIndex \in Int
  BY <1>2 DEF BlockIndex
<1>4. route' = route
  BY DEF TranslationNext, translationVars, SayMore, SayLast, SayUsage, SayCreated, SayDelta,
         SayClose, SayCompleted, SayOpen, AnswerEnds, AnswerBreaks
<1>5. CASE UNCHANGED translationVars
  BY <1>5 DEF CodexClaudeArrives, translationVars, MessageSoFar, BlockIndex
<1> HIDE DEF made
<1>6. CASE SayCreated
  <2> DEFINE e == Event("created", "", <<>>)
  <2>1. stage = "new" /\ stage' = "speaking" /\ UNCHANGED <<told, block, finish>> /\ HandOn(Translated(e, "straight"))
    BY <1>6 DEF SayCreated
  <2>2. e.event = "created"
    BY EventIs DEF Event
  <2> HIDE DEF e
  <2>3. params' = params /\ client' = ReadClaudeEvent(client, MessageStart)
    BY <1>1, <1>3, <2>1, <2>2, CodexClaudeHears
  <2>4. block = "" /\ client = MessageSoFar("none", "")
    BY <2>1 DEF CodexClaudeArrives, Upstream
  <2>5. client' = MessageSoFar("started", "")
    BY <2>3, <2>4, ClaudeReadsStart DEF MessageSoFar
  <2>6. MessageSoFar("started", "")' = MessageSoFar("started", "") /\ BlockIndex' = BlockIndex /\ made' = made
    BY <2>1 DEF MessageSoFar, BlockIndex, made
  <2>7. QED
    BY <1>1, <1>4, <2>1, <2>3, <2>5, <2>6 DEF CodexClaudeArrives, made
<1>7. ASSUME NEW kind \in ItemKinds, SayOpen(kind) PROVE CodexClaudeArrives'
  <2> DEFINE ns == IF kind = "call" THEN <<said + 1>> ELSE <<>>
             e == Event("open", kind, ns)
  <2>1. /\ stage = "speaking" /\ stage' = stage /\ block = "" /\ block' = kind /\ finish' = finish
        /\ HandOn(Translated(e, "straight"))
    BY <1>7 DEF SayOpen
  <2>2. told' = Append(told, Item(kind, ns)) /\ Item(kind, ns) \in Items /\ Item(kind, ns).kind = kind
    BY <1>7, Hears DEF Opens, Item
  <2>3. e.event = "open" /\ e.kind = kind /\ e.pieces = ns
    BY EventIs
  <2> HIDE DEF e, ns
  <2>4. BlockIndex = Len(told)
    BY <1>2, <2>1 DEF BlockIndex
  <2>5. /\ params' = CodexCounts(made \/ kind = "call", Len(told))
        /\ client' = ReadClaudeEvent(client, BlockStart(Len(told), kind, ns))
    BY <1>1, <1>3, <2>1, <2>3, <2>4, CodexClaudeHears
  <2>6. client = ReadingClaude("started", {}, told, "")
    BY <2>1 DEF CodexClaudeArrives, MessageSoFar
  <2>7. client' = ReadingClaude("started", {Len(told)}, told', "")
    BY <2>2, <2>5, <2>6, ClaudeReadsOpen
  <2>8. Len(told') = Len(told) + 1 /\ kind # ""
    BY <1>2, <2>2, AppendProperties DEF ItemKinds
  <2>9. made' = (made \/ kind = "call")
    <3>1. CallCount(told') = CallCount(told) + (IF kind = "call" THEN 1 ELSE 0) /\ CallCount(told) \in Nat
      BY <1>2, <2>2, CallsCounted
    <3>2. CASE kind = "call"
      BY <3>1, <3>2 DEF made
    <3>3. CASE kind # "call"
      BY <3>1, <3>3 DEF made
    <3>4. QED
      BY <3>2, <3>3
  <2>10. BlockIndex' = Len(told)
    BY <1>2, <2>1, <2>8, OneBack DEF BlockIndex
  <2>11. MessageSoFar("started", "")' = client'
    BY <1>2, <2>1, <2>7, <2>8, OneBack DEF MessageSoFar
  <2>12. QED
    BY <1>1, <1>4, <2>1, <2>5, <2>9, <2>10, <2>11 DEF CodexClaudeArrives, made
<1>8. CASE SayDelta
  <2> DEFINE n == said + 1
             e == Event("delta", block, <<n>>)
  <2>1. stage = "speaking" /\ block # "" /\ UNCHANGED <<stage, block, finish>> /\ HandOn(Translated(e, "straight"))
    BY <1>8 DEF SayDelta
  <2>2. PICK q, x : Grows(q, x, n)
    BY <1>8, Hears
  <2>3. e.event = "delta" /\ e.kind = block /\ e.pieces = <<n>>
    BY EventIs
  <2> HIDE DEF e, n
  <2>4. /\ q \in Seq(Items) /\ x \in Items /\ n \in Nat /\ x.kind = block
        /\ told = Append(q, x) /\ told' = Append(q, Grown(x, n))
        /\ Len(told) = Len(q) + 1 /\ Len(told') = Len(q) + 1 /\ Len(q) \in Nat
    BY <2>2, LenProperties DEF Grows
  <2>5. BlockIndex = Len(q) /\ BlockIndex' = Len(q)
    BY <2>1, <2>4, OneBack DEF BlockIndex
  <2>6. params' = params /\ client' = ReadClaudeEvent(client, BlockDelta(Len(q), x.kind, <<n>>))
    BY <1>1, <1>3, <2>1, <2>3, <2>4, <2>5, CodexClaudeHears
  <2>7. client = ReadingClaude("started", {Len(q)}, Append(q, x), "")
    <3>1. Len(told) - 1 = Len(q) /\ client = MessageSoFar("started", "")
      BY <2>1, <2>4, OneBack DEF CodexClaudeArrives
    <3>2. QED
      BY <2>1, <2>4, <3>1 DEF MessageSoFar
  <2>8. client' = ReadingClaude("started", {Len(q)}, Append(q, Grown(x, n)), "")
    BY <2>4, <2>6, <2>7, ClaudeReadsDelta, ZenonT(60)
  <2>9. made' = made
    <3>1. Grown(x, n) \in Items /\ Grown(x, n).kind = x.kind
      BY <2>4, GrownIs
    <3>2. CallCount(told') = CallCount(told)
      BY <2>4, <3>1, CallsCounted
    <3>3. QED
      BY <3>2 DEF made
  <2>10. client' = MessageSoFar("started", "")'
    <3>1. Len(told') - 1 = Len(q)
      BY <2>4, OneBack
    <3>2. QED
      BY <2>1, <2>4, <2>8, <3>1 DEF MessageSoFar
  <2>11. QED
    BY <1>1, <1>4, <2>1, <2>5, <2>6, <2>9, <2>10 DEF CodexClaudeArrives, made
<1>9. CASE SayClose
  <2> DEFINE e == Event("close", block, <<>>)
  <2>1. /\ stage = "speaking" /\ block # "" /\ block' = "" /\ UNCHANGED <<stage, told, finish>>
        /\ HandOn(Translated(e, "straight"))
    BY <1>9 DEF SayClose
  <2>2. e.event = "close"
    BY EventIs
  <2> HIDE DEF e
  <2>3. BlockIndex = Len(told) - 1 /\ BlockIndex' = Len(told) /\ BlockIndex + 1 = Len(told)
    BY <1>2, <2>1, OneBack DEF BlockIndex
  <2>a. params' = CodexCounts(made, BlockIndex + 1) /\ client' = ReadClaudeEvent(client, BlockStop(BlockIndex))
    BY <1>1, <1>3, <2>1, <2>2, CodexClaudeHears
  <2>4. params' = CodexCounts(made, Len(told)) /\ client' = ReadClaudeEvent(client, BlockStop(BlockIndex))
    BY <2>3, <2>a
  <2>5. client = ReadingClaude("started", {BlockIndex}, told, "")
    BY <2>1, <2>3 DEF CodexClaudeArrives, MessageSoFar
  <2>6. client' = ReadingClaude("started", {}, told, "")
    BY <2>4, <2>5, ClaudeReadsStop
  <2>7. client' = MessageSoFar("started", "")' /\ made' = made
    BY <2>1, <2>6 DEF MessageSoFar, made
  <2>8. QED
    BY <1>1, <1>4, <2>1, <2>3, <2>4, <2>7 DEF CodexClaudeArrives, made
<1>10. CASE SayCompleted
  <2>1. PICK why \in {"end", "limit"} :
          /\ From = "codex" => why = "end"
          /\ finish' = why
          /\ HandOn(Translated([Event("completed", "", <<>>) EXCEPT !.reason = Reason(told, why)], "straight"))
    BY <1>10 DEF SayCompleted
  <2> DEFINE e == [Event("completed", "", <<>>) EXCEPT !.reason = Reason(told, why)]
  <2>2. /\ stage = "speaking" /\ stage' = "finished" /\ block = "" /\ UNCHANGED <<told, block>>
        /\ HandOn(Translated(e, "straight"))
    BY <1>10, <2>1 DEF SayCompleted
  <2>3. finish' = "end"
    BY <1>1, <2>1, CodexToClaudeBy
  <2>4. e.event = "completed"
    BY CompletedIs
  <2> HIDE DEF e
  <2> DEFINE reason == Reason(told, "end")
  <2>5. reason = IF made THEN "tools" ELSE "end"
    BY DEF Reason, made
  <2> HIDE DEF reason
  <2>6. params' = params /\ client' = ReadClaudeEvent(ReadClaudeEvent(client, MessageDelta(reason)), MessageStop)
    BY <1>1, <1>3, <2>2, <2>4, <2>5, CodexClaudeHears
  <2>7. client = ReadingClaude("started", {}, told, "")
    BY <2>2 DEF CodexClaudeArrives, MessageSoFar
  <2>8. client' = ReadingClaude("stopped", {}, told, reason)
    BY <2>6, <2>7, ClaudeReadsEnd
  <2>9. client' = MessageSoFar("stopped", Reason(told, finish))' /\ BlockIndex' = BlockIndex /\ made' = made
    BY <2>2, <2>3, <2>8 DEF MessageSoFar, Reason, BlockIndex, made, reason
  <2>10. QED
    BY <1>1, <1>4, <2>2, <2>6, <2>9 DEF CodexClaudeArrives, made
<1>11. CASE AnswerEnds
  <2>1. stage = "finished" /\ stage' = "over" /\ UNCHANGED <<told, block, finish>> /\ HandOn(TranslatedDone)
    BY <1>1, <1>11, CodexToClaudeBy DEF AnswerEnds
  <2>2. params' = params /\ client' = client
    <3>1. HandOn(params) /\ params.out = <<>> /\ [params EXCEPT !.out = <<>>] = params
      BY <1>1, <2>1, CodexToClaudeBy DEF CodexCounts
    <3>2. QED
      BY <3>1, HandsOn
  <2>3. QED
    BY <1>1, <1>4, <2>1, <2>2 DEF CodexClaudeArrives, BlockIndex, MessageSoFar, Reason, made
<1>12. CASE AnswerBreaks
  <2>1. stage \in {"new", "speaking"} /\ stage' = "cut" /\ UNCHANGED <<told, block, finish>> /\ HandOn(params)
    BY <1>1, <1>12, CodexToClaudeBy DEF AnswerBreaks
  <2>2. params' = params /\ client' = client
    <3>1. params.out = <<>> /\ [params EXCEPT !.out = <<>>] = params
      BY <1>1 DEF CodexCounts
    <3>2. QED
      BY <2>1, <3>1, HandsOn
  <2>3. client.phase \in {"none", "started"}
    <3>1. client = MessageSoFar("none", "") \/ client = MessageSoFar("started", "")
      BY <2>1 DEF CodexClaudeArrives
    <3>2. QED
      BY <3>1, MessageIs
  <2>4. BlockIndex' = BlockIndex /\ made' = made
    BY <2>1 DEF BlockIndex, made
  <2>5. QED
    BY <1>1, <1>4, <2>1, <2>2, <2>3, <2>4 DEF CodexClaudeArrives, made
<1>13. CASE SayUsage
  BY <1>13 DEF SayUsage, Upstream
<1>14. QED
  BY <1>2, <1>5, <1>6, <1>7, <1>8, <1>9, <1>10, <1>11, <1>12, <1>13, SpokenInBlocks

\* and is what was told.
LEMMA CodexClaudeArrived == CodexClaudeArrives /\ Upstream => AnswersArrive
<1> SUFFICES ASSUME CodexClaudeArrives, Upstream PROVE AnswersArrive
  OBVIOUS
<1>1. route = <<"codex", "claude">> /\ From = "codex" /\ To = "claude" /\ Whole = WholeCodexToClaude(told)
  BY CodexToClaudeBy DEF CodexClaudeArrives
<1>2. stage \in {"new", "speaking", "finished", "over", "cut"} /\ told \in Seq(Items)
  BY DEF Upstream
<1>3. stage # "cut" => client.phase # "broken"
  <2>1. stage # "cut" => \E phase \in {"none", "started", "stopped"} : \E reason : client = MessageSoFar(phase, reason)
    BY <1>2 DEF CodexClaudeArrives
  <2>2. QED
    BY <2>1, MessageIs
<1>4. stage = "over" => client = MessageSoFar("stopped", Reason(told, finish)) /\ finish = "end"
  BY <1>1 DEF CodexClaudeArrives, Upstream
<1>5. stage = "over" => ContentArrived /\ ReasonArrived
  <2>1. stage = "over" => client.phase = "stopped" /\ client.items = told /\ client.reason = Reason(told, finish)
    BY <1>4, MessageIs
  <2>2. QED
    BY <1>1, <2>1 DEF ContentArrived, ReasonArrived
<1>6. stage = "cut" => ~LooksWhole
  BY <1>1 DEF CodexClaudeArrives, LooksWhole
<1>7. stage = "over" => WholeAgrees(Whole)
  <2>1. Joined(Filled(told)) = Joined(told)
    BY <1>2, JoinedFilled
  <2>2. QED
    BY <1>1, <1>4, <2>1 DEF WholeAgrees, WholeCodexToClaude, Reason
<1>8. AnswerArrives
  BY <1>1, <1>3, <1>5, <1>6 DEF AnswerArrives
<1>9. QED
  BY <1>7, <1>8 DEF AnswersArrive, WholeArrives
----------------------------------------------------------------------------
(* What clients of chat completions and of Gemini's make of more.          *)

\* Calls as a client of chat completions keeps them.
CallRecords == [index : Int, pieces : Seq(Nat)]

\* A piece of a call leaves calls.
LEMMA TakeCallType ==
  ASSUME NEW calls \in Seq(CallRecords), NEW c \in CallRecords
  PROVE  TakeCall(calls, c) \in Seq(CallRecords)
<1>1. Append(calls, c) \in Seq(CallRecords)
  BY AppendProperties
<1> DEFINE grown == [i \in DOMAIN calls |->
                       IF calls[i].index = c.index THEN [calls[i] EXCEPT !.pieces = @ \o c.pieces] ELSE calls[i]]
<1>2. Len(calls) \in Nat /\ DOMAIN calls = 1..Len(calls)
  BY LenProperties
<1>3. ASSUME NEW i \in 1..Len(calls) PROVE grown[i] \in CallRecords
  <2>1. calls[i] \in CallRecords
    BY ElementOfSeq
  <2>2. calls[i].pieces \o c.pieces \in Seq(Nat)
    <3>1. calls[i].pieces \in Seq(Nat) /\ c.pieces \in Seq(Nat)
      BY <2>1 DEF CallRecords
    <3>2. QED
      BY <3>1, ConcatProperties
  <2>3. [calls[i] EXCEPT !.pieces = @ \o c.pieces] \in CallRecords
    BY <2>1, <2>2 DEF CallRecords
  <2>4. QED
    BY <1>2, <2>1, <2>3
<1>4. grown \in [1..Len(calls) -> CallRecords]
  BY <1>2, <1>3
<1> HIDE DEF grown
<1>5. grown \in Seq(CallRecords)
  BY <1>2, <1>4, SeqDef
<1>6. QED
  BY <1>1, <1>5 DEF TakeCall, grown

\* Pieces of calls taken one after the other.
TakeStep == [p \in Seq(CallRecords) \X CallRecords |-> TakeCall(p[1], p[2])]

\* One more is taken behind the others.
LEMMA TakeCallsOf ==
  ASSUME NEW calls \in Seq(CallRecords)
  PROVE  /\ TakeCalls(calls, <<>>) = calls
         /\ \A q \in Seq(CallRecords) : TakeCalls(calls, q) \in Seq(CallRecords)
         /\ \A q \in Seq(CallRecords), x \in CallRecords :
              TakeCalls(calls, Append(q, x)) = TakeCall(TakeCalls(calls, q), x)
<1> DEFINE op(r, x) == TakeCall(r, x)
           h == TakeStep
           T == Seq(CallRecords)
           b == calls
<1>1. \A r \in T, x \in CallRecords : op(r, x) \in T /\ h[<<r, x>>] = op(r, x)
  <2>1. \A r \in T, x \in CallRecords : h[<<r, x>>] = op(r, x)
    BY DEF TakeStep
  <2>2. \A r \in T, x \in CallRecords : op(r, x) \in T
    BY TakeCallType
  <2>3. QED
    BY <2>1, <2>2
<1> HIDE DEF h, T
<1>2. Closed(h, T, CallRecords) /\ b \in T
  BY <1>1, EmptySeq DEF Closed, T
<1>3. ASSUME NEW q \in Seq(CallRecords) PROVE TakeCalls(calls, q) = Folded(q, b, h, T)
  <2> DEFINE f == CHOOSE g : g = [z \in SUBSET (DOMAIN q) |->
                    IF z = {} THEN calls ELSE op(g[z \ {Max(z)}], q[Max(z)])]
  <2>1. TakeCalls(calls, q) = f[DOMAIN q]
    BY DEF TakeCalls, FoldLeft, MapThenFoldSet
  <2> HIDE DEF op, b
  <2>2. /\ Len(q) \in Nat /\ DOMAIN q = 1..Len(q)
        /\ \A z \in SUBSET (1..Len(q)) : z # {} => q[Max(z)] \in CallRecords
    BY LenProperties, ElementOfSeq, LargestOfSome
  <2>3. PICK g : Computes(g, q, b, h, T)
    BY <1>2, FoldExists
  <2>4. g = [z \in SUBSET (DOMAIN q) |-> IF z = {} THEN calls ELSE op(g[z \ {Max(z)}], q[Max(z)])]
    <3>1. g = [z \in SUBSET (DOMAIN q) |-> IF z = {} THEN b ELSE op(g[z \ {Max(z)}], q[Max(z)])]
      BY <1>1, <2>2, <2>3 DEF Computes
    <3>2. QED
      BY <3>1 DEF b
  <2>5. f = [z \in SUBSET (DOMAIN q) |-> IF z = {} THEN calls ELSE op(f[z \ {Max(z)}], q[Max(z)])]
    BY <2>4
  <2> HIDE DEF f
  <2>6. Folds(f, q, b, h, T)
    <3>1. f = [z \in SUBSET (DOMAIN q) |-> IF z = {} THEN b ELSE op(f[z \ {Max(z)}], q[Max(z)])]
      BY <2>5 DEF b
    <3>2. QED
      BY <1>1, <2>2, <3>1 DEF Folds
  <2>7. f[1..Len(q)] = Folded(q, b, h, T)
    BY <1>2, <2>6, FoldedIs
  <2>8. QED
    BY <2>1, <2>2, <2>7
<1>4. /\ Folded(<<>>, b, h, T) = b
      /\ \A q \in Seq(CallRecords) : Folded(q, b, h, T) \in T
      /\ \A q \in Seq(CallRecords), x \in CallRecords : Folded(Append(q, x), b, h, T) = h[<<Folded(q, b, h, T), x>>]
  BY <1>2, FoldedAppend
<1>5. TakeCalls(calls, <<>>) = calls
  BY <1>3, <1>4, EmptySeq
<1>6. \A q \in Seq(CallRecords) : TakeCalls(calls, q) \in Seq(CallRecords)
  BY <1>3, <1>4 DEF T
<1>7. ASSUME NEW q \in Seq(CallRecords), NEW x \in CallRecords
      PROVE  TakeCalls(calls, Append(q, x)) = TakeCall(TakeCalls(calls, q), x)
  <2>1. Append(q, x) \in Seq(CallRecords)
    BY AppendProperties
  <2>2. TakeCalls(calls, Append(q, x)) = h[<<TakeCalls(calls, q), x>>] /\ TakeCalls(calls, q) \in T
    BY <1>3, <1>4, <2>1
  <2>3. QED
    BY <1>1, <2>2
<1>8. QED
  BY <1>5, <1>6, <1>7

\* A call of a new index is put behind the others.
LEMMA TakesCall ==
  ASSUME NEW calls \in Seq(CallRecords), NEW c \in CallRecords, \A i \in 1..Len(calls) : calls[i].index # c.index
  PROVE  TakeCalls(calls, <<c>>) = Append(calls, c)
<1>1. <<>> \in Seq(CallRecords) /\ <<c>> = Append(<<>>, c)
  OBVIOUS
<1>2. TakeCalls(calls, <<c>>) = TakeCall(calls, c)
  <2>1. \A q \in Seq(CallRecords), x \in CallRecords : TakeCalls(calls, Append(q, x)) = TakeCall(TakeCalls(calls, q), x)
    BY TakeCallsOf
  <2>2. TakeCalls(calls, <<>>) = calls
    BY TakeCallsOf
  <2>3. QED
    BY <1>1, <2>1, <2>2
<1>3. DOMAIN calls = 1..Len(calls)
  BY LenProperties
<1>4. QED
  BY <1>2, <1>3 DEF TakeCall

\* What the pieces are of a list with one more.
LEMMA PiecesAppend ==
  ASSUME NEW X, NEW s \in Seq(X), NEW x \in X
  PROVE  Pieces(Append(s, x)) = Append(Pieces(s), x.pieces)
<1> DEFINE l == Append(s, x)
<1>1. /\ DOMAIN s = 1..Len(s) /\ DOMAIN l = 1..(Len(s) + 1) /\ Len(s) \in Nat
      /\ l[Len(s) + 1] = x /\ \A i \in 1..Len(s) : l[i] = s[i]
  BY AppendProperties, LenProperties
<1> HIDE DEF l
<1>2. Pieces(s) = [i \in 1..Len(s) |-> s[i].pieces] /\ Pieces(l) = [i \in 1..(Len(s) + 1) |-> l[i].pieces]
  BY <1>1 DEF Pieces
<1>3. Pieces(s) \in Seq({s[i].pieces : i \in 1..Len(s)}) /\ Len(Pieces(s)) = Len(s)
  BY <1>1, <1>2, SMTT(30)
<1> DEFINE v == Append(Pieces(s), x.pieces)
<1>4. v = [i \in 1..(Len(s) + 1) |-> IF i = Len(s) + 1 THEN x.pieces ELSE Pieces(s)[i]]
  BY <1>3, <1>1
<1>5. \A i \in 1..(Len(s) + 1) : i # Len(s) + 1 => i \in 1..Len(s)
  BY <1>1
<1>6. \A i \in 1..(Len(s) + 1) : l[i].pieces = IF i = Len(s) + 1 THEN x.pieces ELSE Pieces(s)[i]
  BY <1>1, <1>2, <1>5
<1>7. QED
  BY <1>2, <1>4, <1>6 DEF l

\* A run of a kind grows with the last item.
LEMMA RunGrows ==
  ASSUME NEW q \in Seq(Items), NEW x \in Items, NEW n \in Nat, NEW kind
  PROVE  Run(Append(q, Grown(x, n)), kind)
         = IF x.kind = kind THEN Append(Run(Append(q, x), kind), n) ELSE Run(Append(q, x), kind)
<1> DEFINE y == Grown(x, n)
<1>1. y \in Items /\ y.kind = x.kind /\ y.pieces = Append(x.pieces, n)
  BY GrownIs
<1>2. Run(q, kind) \in Seq(Nat)
  BY RunOf
<1> HIDE DEF y
<1>3. /\ Run(Append(q, x), kind) = IF x.kind = kind THEN Run(q, kind) \o x.pieces ELSE Run(q, kind)
      /\ Run(Append(q, y), kind) = IF y.kind = kind THEN Run(q, kind) \o y.pieces ELSE Run(q, kind)
  BY <1>1, RunOf
<1>4. Run(q, kind) \o Append(x.pieces, n) = Append(Run(q, kind) \o x.pieces, n)
  <2>1. x.pieces \in Seq(Nat)
    BY DEF Items
  <2>2. QED
    BY <1>2, <2>1, SMTT(30)
<1>5. QED
  BY <1>1, <1>3, <1>4 DEF y

\* The order of appending and joining.
LEMMA ConcatOne ==
  /\ \A s \in Seq(Nat) : s \o <<>> = s
  /\ \A s \in Seq(Nat), n \in Nat : s \o <<n>> = Append(s, n)
OBVIOUS
----------------------------------------------------------------------------
(* What a client of chat completions has of an answer.                     *)

\* What a client that takes whole calls may have of what was told.
Heard == IF block = "call" THEN Front(told) ELSE told

\* It is a list of items.
LEMMA HeardIs == Upstream => Heard \in Seq(Items) /\ Len(Heard) \in Nat
<1> SUFFICES ASSUME Upstream PROVE Heard \in Seq(Items)
  BY LenProperties
<1>1. told \in Seq(Items) /\ (block # "" => told # <<>>)
  BY DEF Upstream
<1>2. block = "call" => Front(told) \in Seq(Items)
  BY <1>1, LastOf
<1>3. QED
  BY <1>1, <1>2 DEF Heard

\* An open block adds nothing to it but an item without pieces; of a call
\* not even that.
LEMMA OpenHeard ==
  ASSUME Upstream, NEW kind \in ItemKinds, SayOpen(kind)
  PROVE  /\ Calls(Heard') = Calls(Heard) /\ Len(Heard) <= Len(Heard') /\ Len(Heard') \in Nat
         /\ Run(told', "text") = Run(told, "text") /\ Run(told', "thought") = Run(told, "thought")
         /\ kind = "call" => Heard' = Heard
<1> DEFINE ns == IF kind = "call" THEN <<said + 1>> ELSE <<>>
           x == Item(kind, ns)
<1>1. told' = Append(told, x) /\ x \in Items /\ x.kind = kind /\ x.pieces = ns
  BY Hears DEF Opens, Item
<1>2. told \in Seq(Items) /\ block = "" /\ block' = kind
  BY DEF Upstream, SayOpen
<1>3. kind # "call" => x.pieces = <<>>
  BY <1>1
<1> HIDE DEF x, ns
<1>4. ASSUME NEW k \in {"text", "thought"} PROVE Run(told', k) = Run(told, k)
  <2>1. Run(told, k) \in Seq(Nat) /\ Run(told', k) = IF kind = k THEN Run(told, k) \o x.pieces ELSE Run(told, k)
    BY <1>1, <1>2, RunOf
  <2>2. CASE kind = k
    BY <1>3, <2>1, <2>2, ConcatOne
  <2>3. CASE kind # k
    BY <2>1, <2>3
  <2>4. QED
    BY <2>2, <2>3
<1>5. Heard = told
  BY <1>2 DEF Heard
<1>6. CASE kind = "call"
  <2>1. Heard' = told
    BY <1>1, <1>2, <1>6, FrontOf DEF Heard
  <2>2. Len(told) \in Nat
    BY <1>2, LenProperties
  <2>3. QED
    BY <1>4, <1>5, <2>1, <2>2
<1>7. CASE kind # "call"
  <2>1. Heard' = told'
    BY <1>2, <1>7 DEF Heard
  <2>2. Calls(told') = Calls(told) /\ Len(told') = Len(told) + 1 /\ Len(told) \in Nat
    BY <1>1, <1>2, <1>7, CallsOf, AppendProperties, LenProperties
  <2>3. Len(told) <= Len(told') /\ Len(told') \in Nat
    BY <2>2
  <2>4. QED
    BY <1>4, <1>5, <1>7, <2>1, <2>2, <2>3
<1>8. QED
  BY <1>6, <1>7

\* A piece more is one of its kind; of a call nothing is heard.
LEMMA DeltaHeard ==
  ASSUME Upstream, SayDelta
  PROVE  /\ Calls(Heard') = Calls(Heard) /\ Len(Heard) = Len(Heard')
         /\ \A k : Run(told', k) = IF k = block THEN Append(Run(told, k), said + 1) ELSE Run(told, k)
         /\ block = "call" => Heard' = Heard
<1> DEFINE n == said + 1
<1>1. PICK q, x : Grows(q, x, n)
  BY Hears
<1> HIDE DEF n
<1>2. /\ q \in Seq(Items) /\ x \in Items /\ n \in Nat /\ x.kind = block
      /\ told = Append(q, x) /\ told' = Append(q, Grown(x, n)) /\ Len(told) = Len(q) + 1 /\ Len(told') = Len(q) + 1
  BY <1>1 DEF Grows
<1>3. block' = block
  BY DEF SayDelta
<1>4. Grown(x, n) \in Items /\ Grown(x, n).kind = block
  BY <1>2, GrownIs
<1>5. ASSUME NEW k PROVE Run(told', k) = IF k = block THEN Append(Run(told, k), n) ELSE Run(told, k)
  BY <1>2, RunGrows
<1>6. CASE block = "call"
  <2>1. Heard' = q /\ Heard = q
    BY <1>2, <1>3, <1>4, <1>6, FrontOf DEF Heard
  <2>2. QED
    BY <1>5, <2>1 DEF n
<1>7. CASE block # "call"
  <2>1. Heard' = told' /\ Heard = told
    BY <1>3, <1>7 DEF Heard
  <2>2. Calls(told') = Calls(q) /\ Calls(told) = Calls(q)
    BY <1>2, <1>4, <1>7, CallsOf
  <2>3. QED
    BY <1>2, <1>5, <1>7, <2>1, <2>2 DEF n
<1>8. QED
  BY <1>6, <1>7

\* A call is heard when its block closes.
LEMMA CloseHeard ==
  ASSUME Upstream, SayClose
  PROVE  /\ told' = told /\ Heard' = told
         /\ block # "call" => Heard' = Heard
         /\ block = "call" => /\ Last(told) \in Items /\ Last(told).kind = "call" /\ told = Append(Heard, Last(told))
                              /\ Len(told) = Len(Heard) + 1
                              /\ Calls(Heard') = Append(Calls(Heard), Last(told))
<1>1. told' = told /\ block' = "" /\ block # "" /\ told \in Seq(Items) /\ told # <<>> /\ Last(told).kind = block
  BY DEF SayClose, Upstream
<1>2. Heard' = told
  BY <1>1 DEF Heard
<1>3. CASE block # "call"
  BY <1>1, <1>2, <1>3 DEF Heard
<1>4. CASE block = "call"
  <2>1. PICK q \in Seq(Items), x \in Items : told = Append(q, x) /\ Last(told) = x /\ q = Front(told)
    BY <1>1, LastOf
  <2>2. Heard = q
    BY <1>4, <2>1 DEF Heard
  <2>3. Len(told) = Len(q) + 1 /\ Calls(told) = Append(Calls(q), x)
    BY <1>1, <1>4, <2>1, CallsOf, AppendProperties, ZenonT(60)
  <2>4. QED
    BY <1>1, <1>2, <1>4, <2>1, <2>2, <2>3
<1>5. QED
  BY <1>3, <1>4

\* Nothing but the stage changes.
LEMMA SameHeard ==
  ASSUME UNCHANGED <<told, block>>
  PROVE  Heard' = Heard
BY DEF Heard

\* A client of chat completions.
Completion(content, reasoning, calls, reasons) ==
  [content |-> content, reasoning |-> reasoning, calls |-> calls, reasons |-> reasons]

\* What it makes of text,
LEMMA ChatReadsContent ==
  ASSUME NEW a \in Seq(Nat), NEW b, NEW calls, NEW reasons, NEW n \in Nat, b \in Seq(Nat), calls \in Seq(CallRecords)
  PROVE  ReadChatChunk(Completion(a, b, calls, reasons), [Chunk EXCEPT !.content = <<n>>])
            = Completion(Append(a, n), b, calls, reasons)
<1>1. b \o <<>> = b /\ a \o <<n>> = Append(a, n)
  BY ConcatOne
<1>2. TakeCalls(calls, <<>>) = calls
  BY TakeCallsOf
<1>3. QED
  BY <1>1, <1>2 DEF ReadChatChunk, Completion, Chunk

\* of reasoning,
LEMMA ChatReadsReasoning ==
  ASSUME NEW a, NEW b \in Seq(Nat), NEW calls, NEW reasons, NEW n \in Nat, a \in Seq(Nat), calls \in Seq(CallRecords)
  PROVE  ReadChatChunk(Completion(a, b, calls, reasons), [Chunk EXCEPT !.reasoning = <<n>>])
            = Completion(a, Append(b, n), calls, reasons)
<1>1. a \o <<>> = a /\ b \o <<n>> = Append(b, n)
  BY ConcatOne
<1>2. TakeCalls(calls, <<>>) = calls
  BY TakeCallsOf
<1>3. QED
  BY <1>1, <1>2 DEF ReadChatChunk, Completion, Chunk

\* of nothing,
LEMMA ChatReadsEmpty ==
  ASSUME NEW a, NEW b, NEW calls, NEW reasons, a \in Seq(Nat), b \in Seq(Nat), calls \in Seq(CallRecords)
  PROVE  ReadChatChunk(Completion(a, b, calls, reasons), Chunk) = Completion(a, b, calls, reasons)
<1>1. a \o <<>> = a /\ b \o <<>> = b
  BY ConcatOne
<1>2. TakeCalls(calls, <<>>) = calls
  BY TakeCallsOf
<1>3. QED
  BY <1>1, <1>2 DEF ReadChatChunk, Completion, Chunk

\* of a call,
LEMMA ChatReadsCall ==
  ASSUME NEW a, NEW b, NEW calls, NEW reasons, NEW c, NEW l, a \in Seq(Nat), b \in Seq(Nat), TakeCalls(calls, <<c>>) = l
  PROVE  ReadChatChunk(Completion(a, b, calls, reasons), [Chunk EXCEPT !.calls = <<c>>])
         = Completion(a, b, l, reasons)
<1>1. a \o <<>> = a /\ b \o <<>> = b
  BY ConcatOne
<1>2. QED
  BY <1>1 DEF ReadChatChunk, Completion, Chunk

\* and of the finish.
LEMMA ChatReadsFinish ==
  ASSUME NEW a \in Seq(Nat), NEW b \in Seq(Nat), NEW calls \in Seq(CallRecords), NEW reasons,
         NEW reason \in {"end", "limit", "tools"}
  PROVE  ReadChatChunk(Completion(a, b, calls, reasons), [Chunk EXCEPT !.finish = reason])
         = Completion(a, b, calls, Append(reasons, reason))
<1>1. a \o <<>> = a /\ b \o <<>> = b
  BY ConcatOne
<1>2. TakeCalls(calls, <<>>) = calls
  BY TakeCallsOf
<1>3. QED
  BY <1>1, <1>2 DEF ReadChatChunk, Completion, Chunk

\* A client has the runs of what was told and the calls of what it may have heard.
Completes(m, items, heard, bound) ==
  /\ m = Completion(Run(items, "text"), Run(items, "thought"), m.calls, m.reasons)
  /\ m.calls \in Seq(CallRecords)
  /\ Pieces(m.calls) = Pieces(Calls(heard))
  /\ \A i \in 1..Len(m.calls) : m.calls[i].index < bound

\* So it stays when nothing is heard,
LEMMA CompletesStill ==
  ASSUME NEW m, NEW items, NEW heard, NEW bound \in Int, Completes(m, items, heard, bound),
         NEW more, NEW now, NEW next \in Int, bound <= next,
         Run(more, "text") = Run(items, "text"), Run(more, "thought") = Run(items, "thought"),
         Calls(now) = Calls(heard)
  PROVE  Completes(m, more, now, next)
<1>1. ASSUME NEW i \in 1..Len(m.calls) PROVE m.calls[i].index < next
  <2>1. m.calls[i] \in CallRecords /\ m.calls[i].index < bound
    BY ElementOfSeq DEF Completes
  <2>2. m.calls[i].index \in Int
    BY <2>1 DEF CallRecords
  <2>3. QED
    BY <2>1, <2>2
<1>2. QED
  BY <1>1 DEF Completes

\* when text is,
LEMMA CompletesText ==
  ASSUME NEW m, NEW items, NEW heard, NEW bound, Completes(m, items, heard, bound), items \in Seq(Items),
         NEW more, NEW now, NEW n \in Nat, Calls(now) = Calls(heard),
         Run(more, "text") = Append(Run(items, "text"), n), Run(more, "thought") = Run(items, "thought")
  PROVE  /\ Completes(ReadChatChunk(m, [Chunk EXCEPT !.content = <<n>>]), more, now, bound)
         /\ ReadChatChunk(m, [Chunk EXCEPT !.content = <<n>>]).reasons = m.reasons
<1> DEFINE a == Run(items, "text")
           b == Run(items, "thought")
           x == ReadChatChunk(m, [Chunk EXCEPT !.content = <<n>>])
           cs == m.calls
           rs == m.reasons
<1>1. a \in Seq(Nat) /\ b \in Seq(Nat) /\ cs \in Seq(CallRecords) /\ m = Completion(a, b, cs, rs)
  BY RunOf DEF Completes
<1> HIDE DEF a, b, cs, rs
<1>2. ReadChatChunk(Completion(a, b, cs, rs), [Chunk EXCEPT !.content = <<n>>]) = Completion(Append(a, n), b, cs, rs)
  BY <1>1, ChatReadsContent
<1>3. x = Completion(Append(a, n), b, cs, rs)
  BY <1>1, <1>2
<1> HIDE DEF x
<1>4. x = Completion(Append(a, n), b, x.calls, x.reasons) /\ x.calls = m.calls /\ x.reasons = m.reasons
  BY <1>3 DEF Completion, cs, rs
<1>5. QED
  BY <1>4 DEF Completes, a, b, x

\* a thought,
LEMMA CompletesThought ==
  ASSUME NEW m, NEW items, NEW heard, NEW bound, Completes(m, items, heard, bound), items \in Seq(Items),
         NEW more, NEW now, NEW n \in Nat, Calls(now) = Calls(heard),
         Run(more, "thought") = Append(Run(items, "thought"), n), Run(more, "text") = Run(items, "text")
  PROVE  /\ Completes(ReadChatChunk(m, [Chunk EXCEPT !.reasoning = <<n>>]), more, now, bound)
         /\ ReadChatChunk(m, [Chunk EXCEPT !.reasoning = <<n>>]).reasons = m.reasons
<1> DEFINE a == Run(items, "text")
           b == Run(items, "thought")
           x == ReadChatChunk(m, [Chunk EXCEPT !.reasoning = <<n>>])
           cs == m.calls
           rs == m.reasons
<1>1. a \in Seq(Nat) /\ b \in Seq(Nat) /\ cs \in Seq(CallRecords) /\ m = Completion(a, b, cs, rs)
  BY RunOf DEF Completes
<1> HIDE DEF a, b, cs, rs
<1>2. ReadChatChunk(Completion(a, b, cs, rs), [Chunk EXCEPT !.reasoning = <<n>>]) = Completion(a, Append(b, n), cs, rs)
  BY <1>1, ChatReadsReasoning
<1>3. x = Completion(a, Append(b, n), cs, rs)
  BY <1>1, <1>2
<1> HIDE DEF x
<1>4. x = Completion(a, Append(b, n), x.calls, x.reasons) /\ x.calls = m.calls /\ x.reasons = m.reasons
  BY <1>3 DEF Completion, cs, rs
<1>5. QED
  BY <1>4 DEF Completes, a, b, x

\* A call whole.
CallChunk(index, ns) == [Chunk EXCEPT !.calls = <<ToolCall(index, ns)>>]

\* a call under the next index,
LEMMA CompletesCall ==
  ASSUME NEW m, NEW items, NEW heard, NEW bound, Completes(m, items, heard, bound), NEW now, NEW x,
         items \in Seq(Items), heard \in Seq(Items), bound \in Int, x \in Items, Calls(now) = Append(Calls(heard), x)
  PROVE  /\ Completes(ReadChatChunk(m, CallChunk(bound, x.pieces)), items, now, bound + 1)
         /\ ReadChatChunk(m, CallChunk(bound, x.pieces)).reasons = m.reasons
<1> DEFINE a == Run(items, "text")
           b == Run(items, "thought")
           c == ToolCall(bound, x.pieces)
           after == ReadChatChunk(m, [Chunk EXCEPT !.calls = <<c>>])
           l == Append(m.calls, c)
<1>1. a \in Seq(Nat) /\ b \in Seq(Nat) /\ m.calls \in Seq(CallRecords) /\ m = Completion(a, b, m.calls, m.reasons)
  BY RunOf DEF Completes
<1>2. c \in CallRecords /\ c.index = bound /\ c.pieces = x.pieces
  BY DEF ToolCall, CallRecords, Items
<1> HIDE DEF a, b, c
<1>3. \A i \in 1..Len(m.calls) : m.calls[i].index \in Int /\ m.calls[i].index < bound /\ m.calls[i].index # c.index
  <2> SUFFICES ASSUME NEW i \in 1..Len(m.calls)
               PROVE  m.calls[i].index \in Int /\ m.calls[i].index < bound /\ m.calls[i].index # c.index
    OBVIOUS
  <2>1. m.calls[i].index < bound
    BY DEF Completes
  <2>2. m.calls[i] \in CallRecords
    BY <1>1, ElementOfSeq
  <2>3. m.calls[i].index \in Int
    BY <2>2 DEF CallRecords
  <2>4. QED
    BY <1>2, <2>1, <2>3
<1>4. ReadChatChunk(Completion(a, b, m.calls, m.reasons), [Chunk EXCEPT !.calls = <<c>>])
      = Completion(a, b, l, m.reasons)
  <2> DEFINE cs == m.calls
             rs == m.reasons
  <2>1. cs \in Seq(CallRecords) /\ \A i \in 1..Len(cs) : cs[i].index # c.index
    BY <1>1, <1>3
  <2>2. l = Append(cs, c)
    OBVIOUS
  <2> HIDE DEF cs, rs, l
  <2>3. TakeCalls(cs, <<c>>) = l
    BY <1>2, <2>1, <2>2, TakesCall
  <2>4. ReadChatChunk(Completion(a, b, cs, rs), [Chunk EXCEPT !.calls = <<c>>]) = Completion(a, b, l, rs)
    BY <1>1, <2>3, ChatReadsCall
  <2>5. QED
    BY <2>4 DEF cs, rs
<1>5. after = Completion(a, b, l, m.reasons)
  BY <1>1, <1>4
<1>6. /\ l \in Seq(CallRecords) /\ Len(l) = Len(m.calls) + 1 /\ l[Len(m.calls) + 1] = c /\ Len(m.calls) \in Nat
      /\ \A i \in 1..Len(m.calls) : l[i] = m.calls[i]
  BY <1>1, <1>2, AppendProperties, LenProperties
<1>7. Pieces(l) = Append(Pieces(Calls(heard)), x.pieces) /\ Pieces(Calls(now)) = Append(Pieces(Calls(heard)), x.pieces)
  <2>1. Pieces(l) = Append(Pieces(m.calls), x.pieces)
    BY <1>1, <1>2, PiecesAppend
  <2>2. Calls(heard) \in Seq(Items)
    BY CallsOf
  <2>3. Pieces(Append(Calls(heard), x)) = Append(Pieces(Calls(heard)), x.pieces)
    BY <2>2, PiecesAppend
  <2>4. QED
    BY <2>1, <2>3 DEF Completes
<1> HIDE DEF after, l
<1>8. \A i \in 1..Len(l) : l[i].index < bound + 1
  <2> SUFFICES ASSUME NEW i \in 1..Len(l) PROVE l[i].index < bound + 1
    OBVIOUS
  <2>1. CASE i \in 1..Len(m.calls)
    <3>1. l[i] = m.calls[i]
      BY <1>6, <2>1
    <3>2. m.calls[i].index \in Int /\ m.calls[i].index < bound
      BY <1>3, <2>1
    <3>3. m.calls[i].index < bound + 1
      BY <3>2
    <3>4. QED
      BY <3>1, <3>3
  <2>2. CASE i \notin 1..Len(m.calls)
    <3>1. i = Len(m.calls) + 1
      BY <1>6, <2>2
    <3>2. QED
      BY <1>2, <1>6, <3>1
  <2>3. QED
    BY <2>1, <2>2
<1>9. after.calls = l /\ after.reasons = m.reasons /\ after = Completion(a, b, after.calls, after.reasons)
  BY <1>5 DEF Completion
<1>10. QED
  BY <1>6, <1>7, <1>8, <1>9 DEF Completes, CallChunk, a, b, c, after

\* the finish,
LEMMA CompletesFinish ==
  ASSUME NEW m, NEW items \in Seq(Items), NEW heard, NEW bound, Completes(m, items, heard, bound),
         NEW reason \in {"end", "limit", "tools"}
  PROVE  LET after == ReadChatChunk(m, [Chunk EXCEPT !.finish = reason])
         IN  Completes(after, items, heard, bound) /\ after.reasons = Append(m.reasons, reason)
<1> DEFINE a == Run(items, "text")
           b == Run(items, "thought")
           after == ReadChatChunk(m, [Chunk EXCEPT !.finish = reason])
           l == Append(m.reasons, reason)
           cs == m.calls
           rs == m.reasons
<1>1. a \in Seq(Nat) /\ b \in Seq(Nat) /\ cs \in Seq(CallRecords) /\ m = Completion(a, b, cs, rs)
  BY RunOf DEF Completes
<1> HIDE DEF a, b, cs, rs
<1>a. ReadChatChunk(Completion(a, b, cs, rs), [Chunk EXCEPT !.finish = reason]) = Completion(a, b, cs, Append(rs, reason))
  BY <1>1, ChatReadsFinish, ZenonT(60)
<1>2. after = Completion(a, b, m.calls, l)
  BY <1>1, <1>a DEF cs, rs
<1> HIDE DEF after, l
<1>3. after.calls = m.calls /\ after.reasons = l /\ after = Completion(a, b, after.calls, after.reasons)
  BY <1>2 DEF Completion
<1>4. QED
  BY <1>3 DEF Completes, a, b, after, l

\* and an empty chunk.
LEMMA CompletesEmpty ==
  ASSUME NEW m, NEW items, NEW heard, NEW bound, Completes(m, items, heard, bound), items \in Seq(Items)
  PROVE  ReadChatChunk(m, Chunk) = m
<1> DEFINE a == Run(items, "text")
           b == Run(items, "thought")
           cs == m.calls
           rs == m.reasons
<1>1. a \in Seq(Nat) /\ b \in Seq(Nat) /\ cs \in Seq(CallRecords) /\ m = Completion(a, b, cs, rs)
  BY RunOf DEF Completes
<1> HIDE DEF a, b, cs, rs
<1>2. ReadChatChunk(Completion(a, b, cs, rs), Chunk) = Completion(a, b, cs, rs)
  BY <1>1, ChatReadsEmpty
<1>3. QED
  BY <1>1, <1>2

\* Nothing is told, and nothing heard.
LEMMA CompletesNothing == Completes(NoCompletion, <<>>, <<>>, 0) /\ NoCompletion.reasons = <<>>
<1>1. Run(<<>>, "text") = <<>> /\ Run(<<>>, "thought") = <<>> /\ Calls(<<>>) = <<>>
  BY RunOf, CallsOf
<1>2. <<>> \in Seq(CallRecords) /\ Len(<<>>) = 0
  BY EmptySeq
<1>3. NoCompletion = Completion(<<>>, <<>>, NoCompletion.calls, NoCompletion.reasons)
      /\ NoCompletion.calls = <<>> /\ NoCompletion.reasons = <<>>
  BY DEF NoCompletion, Completion
<1>4. QED
  BY <1>1, <1>2, <1>3 DEF Completes
----------------------------------------------------------------------------
(* Codex to chat completions.                                              *)

\* What the converter of Codex's events for chat completions counts.
CodexChatCounts(i) == [functionCallIndex |-> i, out |-> <<>>]

\* Codex to chat completions: the converter has the index of the last call,
\* and the client what was told, and the reason once, at the end.
CodexChatArrives ==
  /\ route = <<"codex", "chat">>
  /\ params = CodexChatCounts(CallCount(Heard) - 1)
  /\ client.reasons = IF stage \in {"finished", "over"} THEN <<Reason(told, finish)>> ELSE <<>>
  /\ Completes(client, told, Heard, CallCount(Heard))

\* What the converter says to each event.
LEMMA CodexToChatSays ==
  ASSUME NEW p, NEW e
  PROVE  /\ e.event \in {"created", "open"} => CodexToChat(p, e) = p
         /\ e.event = "delta" /\ e.kind = "text" => CodexToChat(p, e) = SendChunk(p, [Chunk EXCEPT !.content = e.pieces])
         /\ e.event = "delta" /\ e.kind = "thought" => CodexToChat(p, e) = SendChunk(p, [Chunk EXCEPT !.reasoning = e.pieces])
         /\ e.event = "delta" /\ e.kind = "call" => CodexToChat(p, e) = p
         /\ e.event = "close" /\ e.kind \in {"text", "thought"} => CodexToChat(p, e) = p
         /\ e.event = "close" /\ e.kind = "call" =>
              CodexToChat(p, e) = SendChunk([p EXCEPT !.functionCallIndex = p.functionCallIndex + 1],
                                            [Chunk EXCEPT !.calls = <<ToolCall(p.functionCallIndex + 1, e.item)>>])
         /\ e.event = "completed" =>
              CodexToChat(p, e) = SendChunk(p, [Chunk EXCEPT !.finish = IF p.functionCallIndex # -1 THEN "tools" ELSE "end"])
BY DEF CodexToChat

\* One chunk.
LEMMA CodexChatSends == ASSUME NEW i, NEW c PROVE SendChunk(CodexChatCounts(i), c) = [functionCallIndex |-> i, out |-> <<c>>]
BY OneOf DEF SendChunk, CodexChatCounts

\* The route's converter and client.
LEMMA CodexToChatBy ==
  ASSUME route = <<"codex", "chat">>
  PROVE  /\ \A x : Translated(x, "straight") = CodexToChat(params, x)
         /\ \A m, e : Read(m, e) = ReadChatChunk(m, e)
         /\ From = "codex" /\ To = "chat" /\ ~InParts /\ ~GeminiLike
         /\ FirstParams(route) = CodexChatParams /\ Nothing(route) = NoCompletion
         /\ Whole = WholeCodexToChat(told) /\ TranslatedDone = params
<1>1. From = "codex" /\ To = "chat"
  BY DEF From, To
<1>2. ~InParts /\ ~GeminiLike
  BY <1>1 DEF InParts, GeminiLike, GeminiFormats
<1>3. ASSUME NEW x PROVE Translated(x, "straight") = CodexToChat(params, x)
  BY DEF Translated
<1>4. ASSUME NEW m, NEW e PROVE Read(m, e) = ReadChatChunk(m, e)
  BY <1>1 DEF Read
<1>5. FirstParams(route) = CodexChatParams
  BY DEF FirstParams, GeminiFormats
<1>6. Nothing(route) = NoCompletion
  BY DEF Nothing
<1>7. Whole = WholeCodexToChat(told)
  BY DEF Whole
<1>8. TranslatedDone = params
  BY DEF TranslatedDone
<1>9. QED
  BY <1>1, <1>2, <1>3, <1>4, <1>5, <1>6, <1>7, <1>8

\* One of Codex's events goes through the converter and is read.
LEMMA CodexChatHears ==
  ASSUME route = <<"codex", "chat">>, NEW i \in Int, params = CodexChatCounts(i),
         NEW e, HandOn(Translated(e, "straight"))
  PROVE  /\ e.event \in {"created", "open"} => params' = params /\ client' = client
         /\ e.event = "close" /\ e.kind \in {"text", "thought"} => params' = params /\ client' = client
         /\ e.event = "delta" /\ e.kind = "call" => params' = params /\ client' = client
         /\ e.event = "delta" /\ e.kind = "text" =>
              params' = params /\ client' = ReadChatChunk(client, [Chunk EXCEPT !.content = e.pieces])
         /\ e.event = "delta" /\ e.kind = "thought" =>
              params' = params /\ client' = ReadChatChunk(client, [Chunk EXCEPT !.reasoning = e.pieces])
         /\ e.event = "close" /\ e.kind = "call" =>
              /\ params' = CodexChatCounts(i + 1)
              /\ client' = ReadChatChunk(client, [Chunk EXCEPT !.calls = <<ToolCall(i + 1, e.item)>>])
         /\ e.event = "completed" =>
              /\ params' = params
              /\ client' = ReadChatChunk(client, [Chunk EXCEPT !.finish = IF i # -1 THEN "tools" ELSE "end"])
<1> DEFINE p == CodexToChat(CodexChatCounts(i), e)
<1>1. HandOn(p) /\ \A m, x : Read(m, x) = ReadChatChunk(m, x)
  BY CodexToChatBy
<1>2. CodexChatCounts(i).functionCallIndex = i /\ CodexChatCounts(i).out = <<>>
      /\ [CodexChatCounts(i) EXCEPT !.out = <<>>] = CodexChatCounts(i)
      /\ [CodexChatCounts(i) EXCEPT !.functionCallIndex = i + 1] = CodexChatCounts(i + 1)
  BY DEF CodexChatCounts
<1> HIDE DEF p
<1>3. /\ params' = [p EXCEPT !.out = <<>>]
      /\ p.out = <<>> => client' = client
      /\ \A x : p.out = <<x>> => client' = ReadChatChunk(client, x)
  BY <1>1, HandsOn
<1>4. ASSUME p = CodexChatCounts(i) PROVE params' = params /\ client' = client
  BY <1>2, <1>3, <1>4
<1>5. ASSUME NEW j, NEW c, p = SendChunk(CodexChatCounts(j), c)
      PROVE params' = CodexChatCounts(j) /\ client' = ReadChatChunk(client, c)
  <2>1. p = [functionCallIndex |-> j, out |-> <<c>>]
    BY <1>5, CodexChatSends
  <2>2. QED
    BY <1>3, <2>1 DEF CodexChatCounts
<1>6. ASSUME e.event \in {"created", "open"} PROVE params' = params /\ client' = client
  BY <1>4, <1>6, CodexToChatSays DEF p
<1>7. ASSUME e.event = "close", e.kind \in {"text", "thought"} PROVE params' = params /\ client' = client
  BY <1>4, <1>7, CodexToChatSays DEF p
<1>8. ASSUME e.event = "delta", e.kind = "call" PROVE params' = params /\ client' = client
  BY <1>4, <1>8, CodexToChatSays DEF p
<1>9. ASSUME e.event = "delta", e.kind = "text"
      PROVE  params' = params /\ client' = ReadChatChunk(client, [Chunk EXCEPT !.content = e.pieces])
  <2>1. p = SendChunk(CodexChatCounts(i), [Chunk EXCEPT !.content = e.pieces])
    BY <1>9, CodexToChatSays DEF p
  <2>2. QED
    BY <1>5, <2>1
<1>10. ASSUME e.event = "delta", e.kind = "thought"
      PROVE  params' = params /\ client' = ReadChatChunk(client, [Chunk EXCEPT !.reasoning = e.pieces])
  <2>1. p = SendChunk(CodexChatCounts(i), [Chunk EXCEPT !.reasoning = e.pieces])
    BY <1>10, CodexToChatSays DEF p
  <2>2. QED
    BY <1>5, <2>1
<1>11. ASSUME e.event = "close", e.kind = "call"
       PROVE  /\ params' = CodexChatCounts(i + 1)
              /\ client' = ReadChatChunk(client, [Chunk EXCEPT !.calls = <<ToolCall(i + 1, e.item)>>])
  <2> DEFINE c == CodexChatCounts(i)
  <2>1. p = SendChunk([c EXCEPT !.functionCallIndex = c.functionCallIndex + 1],
                      [Chunk EXCEPT !.calls = <<ToolCall(c.functionCallIndex + 1, e.item)>>])
    BY <1>11, CodexToChatSays DEF p
  <2>2. p = SendChunk(CodexChatCounts(i + 1), [Chunk EXCEPT !.calls = <<ToolCall(i + 1, e.item)>>])
    BY <1>2, <2>1
  <2>3. QED
    BY <1>5, <2>2
<1>12. ASSUME e.event = "completed"
       PROVE  /\ params' = params
              /\ client' = ReadChatChunk(client, [Chunk EXCEPT !.finish = IF i # -1 THEN "tools" ELSE "end"])
  <2> DEFINE c == CodexChatCounts(i)
  <2>1. p = SendChunk(c, [Chunk EXCEPT !.finish = IF c.functionCallIndex # -1 THEN "tools" ELSE "end"])
    BY <1>12, CodexToChatSays DEF p
  <2>2. p = SendChunk(c, [Chunk EXCEPT !.finish = IF i # -1 THEN "tools" ELSE "end"])
    BY <1>2, <2>1
  <2>3. QED
    BY <1>5, <2>2
<1>13. QED
  BY <1>6, <1>7, <1>8, <1>9, <1>10, <1>11, <1>12
----------------------------------------------------------------------------
(* Codex to chat completions: the finish.                                  *)

\* Some call was told.
LEMMA CallTold == \A s \in Seq(Items) : CallCount(s) > 0 <=> \E i \in DOMAIN s : s[i].kind = "call"
<1> DEFINE P(s) == CallCount(s) > 0 <=> \E i \in DOMAIN s : s[i].kind = "call"
           T == {s \in Seq(Items) : P(s)}
<1>1. <<>> \in T
  <2>1. <<>> \in Seq(Items) /\ DOMAIN <<>> = {} /\ CallCount(<<>>) = 0
    BY EmptySeq, CallsCounted
  <2>2. ~(CallCount(<<>>) > 0)
    BY <2>1
  <2>3. QED
    BY <2>1, <2>2
<1>2. ASSUME NEW s \in Seq(Items), NEW x \in Items, s \in T PROVE Append(s, x) \in T
  <2> DEFINE l == Append(s, x)
  <2>1. /\ l \in Seq(Items) /\ DOMAIN s = 1..Len(s) /\ DOMAIN l = 1..(Len(s) + 1) /\ Len(s) \in Nat
        /\ l[Len(s) + 1] = x /\ \A i \in 1..Len(s) : l[i] = s[i]
    BY AppendProperties, LenProperties
  <2>2. CallCount(s) \in Nat /\ CallCount(l) = CallCount(s) + (IF x.kind = "call" THEN 1 ELSE 0) /\ P(s)
    BY <1>2, CallsCounted
  <2> HIDE DEF l
  <2>3. CASE x.kind = "call"
    <3>1. CallCount(l) > 0
      BY <2>2, <2>3
    <3>2. Len(s) + 1 \in DOMAIN l
      BY <2>1
    <3>3. \E i \in DOMAIN l : l[i].kind = "call"
      BY <2>1, <2>3, <3>2
    <3>4. QED
      BY <2>1, <3>1, <3>3 DEF l
  <2>4. CASE x.kind # "call"
    <3>1. CallCount(l) = CallCount(s)
      BY <2>2, <2>4
    <3>2. \A i \in DOMAIN l : i \in DOMAIN s \/ i = Len(s) + 1
      BY <2>1
    <3>3. \A i \in DOMAIN s : i \in DOMAIN l /\ l[i] = s[i]
      BY <2>1
    <3>4. (\E i \in DOMAIN l : l[i].kind = "call") <=> \E i \in DOMAIN s : s[i].kind = "call"
      BY <2>1, <2>4, <3>2, <3>3
    <3>5. QED
      BY <2>1, <2>2, <3>1, <3>4 DEF l
  <2>5. QED
    BY <2>3, <2>4
<1>3. Seq(Items) \subseteq T
  <2> HIDE DEF T
  <2>1. QED
    BY <1>1, <1>2, SequencesFrom
<1>4. QED
  BY <1>3

\* The places of what is no call.
Places(s) == {i \in DOMAIN s : s[i].kind # "call"}

\* One item more is a place more unless it is a call.
LEMMA PlacesAppend ==
  ASSUME NEW s \in Seq(Items), NEW x \in Items
  PROVE  /\ Places(Append(s, x)) = IF x.kind = "call" THEN Places(s) ELSE Places(s) \cup {Len(s) + 1}
         /\ Len(s) + 1 \notin Places(s)
<1> DEFINE l == Append(s, x)
<1>1. /\ DOMAIN s = 1..Len(s) /\ DOMAIN l = 1..(Len(s) + 1) /\ Len(s) \in Nat
      /\ l[Len(s) + 1] = x /\ \A i \in 1..Len(s) : l[i] = s[i]
  BY AppendProperties, LenProperties
<1> HIDE DEF l
<1>2. Len(s) + 1 \notin 1..Len(s) /\ 1..(Len(s) + 1) = 1..Len(s) \cup {Len(s) + 1}
  BY <1>1
<1>3. QED
  BY <1>1, <1>2 DEF Places, l

\* With one run at the most, the last one is all of them.
LEMMA OnlyRun ==
  ASSUME NEW k \in ItemKinds, k # "call"
  PROVE  \A s \in Seq(Items) : /\ Places(s) = {} => Run(s, k) = <<>> /\ LastRun(s, k) = <<>>
                               /\ (\A i, j \in Places(s) : i = j) => LastRun(s, k) = Run(s, k)
<1> DEFINE P(s) == /\ Places(s) = {} => Run(s, k) = <<>> /\ LastRun(s, k) = <<>>
                   /\ (\A i, j \in Places(s) : i = j) => LastRun(s, k) = Run(s, k)
           T == {s \in Seq(Items) : P(s)}
<1>1. <<>> \in T
  <2>1. <<>> \in Seq(Items) /\ Run(<<>>, k) = <<>> /\ LastRun(<<>>, k) = <<>>
    BY EmptySeq, RunOf, LastRunOf
  <2>2. QED
    BY <2>1
<1>2. ASSUME NEW s \in Seq(Items), NEW x \in Items, s \in T PROVE Append(s, x) \in T
  <2> DEFINE l == Append(s, x)
  <2>1. /\ l \in Seq(Items) /\ Run(s, k) \in Seq(Nat) /\ x.pieces \in Seq(Nat)
        /\ Run(l, k) = IF x.kind = k THEN Run(s, k) \o x.pieces ELSE Run(s, k)
        /\ LastRun(l, k) = IF x.kind = k /\ x.pieces # <<>> THEN x.pieces ELSE LastRun(s, k)
    BY ItemsAppend, RunOf, LastRunOf DEF Items
  <2>2. /\ Places(l) = IF x.kind = "call" THEN Places(s) ELSE Places(s) \cup {Len(s) + 1}
        /\ Len(s) + 1 \notin Places(s)
    BY PlacesAppend
  <2>3. P(s)
    BY <1>2
  <2> HIDE DEF l
  <2>4. CASE x.kind = "call"
    BY <2>1, <2>2, <2>3, <2>4 DEF l
  <2>5. CASE x.kind # "call"
    <3>1. Places(l) # {}
      BY <2>2, <2>5
    <3>2. ASSUME \A i, j \in Places(l) : i = j PROVE LastRun(l, k) = Run(l, k)
      <4>1. Places(s) = {}
        BY <2>2, <2>5, <3>2
      <4>2. Run(s, k) = <<>> /\ LastRun(s, k) = <<>>
        BY <2>3, <4>1
      <4>3. <<>> \o x.pieces = x.pieces
        BY <2>1
      <4>4. QED
        BY <2>1, <4>2, <4>3
    <3>3. QED
      BY <2>1, <3>1, <3>2 DEF l
  <2>6. QED
    BY <2>4, <2>5
<1>3. Seq(Items) \subseteq T
  <2> HIDE DEF T
  <2>1. QED
    BY <1>1, <1>2, SequencesFrom
<1>4. QED
  BY <1>3

\* A finite set with no two elements.
LEMMA AtMostOne ==
  ASSUME NEW s \in Seq(Items), ~(Cardinality(Places(s)) > 1)
  PROVE  \A i, j \in Places(s) : i = j
<1> SUFFICES ASSUME NEW i \in Places(s), NEW j \in Places(s), i # j PROVE FALSE
  OBVIOUS
<1>1. IsFiniteSet(Places(s))
  <2>1. DOMAIN s = 1..Len(s) /\ Len(s) \in Nat /\ Places(s) \subseteq DOMAIN s
    BY LenProperties DEF Places
  <2>2. IsFiniteSet(1..Len(s))
    BY <2>1, FS_Interval
  <2>3. QED
    BY <2>1, <2>2, FS_Subset
<1>2. IsFiniteSet({i}) /\ Cardinality({i}) = 1
  BY FS_Singleton
<1> DEFINE two == {i} \cup {j}
<1>3. Cardinality(two) = Cardinality({i}) + 1
  BY <1>2, FS_AddElement
<1>4. two \subseteq Places(s)
  OBVIOUS
<1> HIDE DEF two
<1> DEFINE c == Cardinality(Places(s))
           d == Cardinality(two)
<1>5. d <= c /\ c \in Nat
  BY <1>1, <1>4, FS_Subset, FS_CardinalityType
<1>6. d = 2 /\ ~(c > 1)
  BY <1>2, <1>3
<1> HIDE DEF c, d
<1>7. QED
  BY <1>5, <1>6

\* So it begins,
LEMMA CodexChatBegins == TranslationInit /\ route = <<"codex", "chat">> => CodexChatArrives
<1> SUFFICES ASSUME TranslationInit, route = <<"codex", "chat">> PROVE CodexChatArrives
  OBVIOUS
<1>1. told = <<>> /\ block = "" /\ stage = "new" /\ params = CodexChatParams /\ client = NoCompletion
  BY CodexToChatBy DEF TranslationInit
<1>2. Heard = <<>> /\ CallCount(<<>>) = 0
  BY <1>1, CallsCounted DEF Heard
<1>a. 0 - 1 = -1
  OBVIOUS
<1>3. params = CodexChatCounts(CallCount(Heard) - 1)
  BY <1>1, <1>2, <1>a DEF CodexChatCounts, CodexChatParams
<1>4. QED
  BY <1>1, <1>2, <1>3, CompletesNothing DEF CodexChatArrives

\* an answer keeps its route,
LEMMA RouteStays == TranslationNext => route' = route
BY DEF TranslationNext, SayMore, SayLast, SayUsage, SayCreated, SayDelta,
       SayClose, SayCompleted, SayOpen, AnswerEnds, AnswerBreaks

\* the invariant stays,
LEMMA CodexChatGoesOn ==
  ASSUME CodexChatArrives, Upstream, [TranslationNext]_translationVars
  PROVE  CodexChatArrives'
<1> DEFINE c == CallCount(Heard)
           i == c - 1
<1>1. /\ route = <<"codex", "chat">> /\ params = CodexChatCounts(i) /\ Completes(client, told, Heard, c)
      /\ client.reasons = IF stage \in {"finished", "over"} THEN <<Reason(told, finish)>> ELSE <<>>
  BY DEF CodexChatArrives
<1>2. told \in Seq(Items) /\ Heard \in Seq(Items) /\ c \in Nat /\ BlockRoute
  BY HeardIs, CallsCounted DEF Upstream
<1>3. i \in Int /\ i + 1 = c /\ c <= c /\ (i # -1 <=> c > 0) /\ c \in Int
  BY <1>2
<1> HIDE DEF i
<1>4. CASE UNCHANGED translationVars
  BY <1>4 DEF CodexChatArrives, translationVars, Completes, Heard, Reason
<1>5. ASSUME TranslationNext PROVE route' = <<"codex", "chat">>
  BY <1>1, <1>5, RouteStays
<1>6. ASSUME Calls(Heard') = Calls(Heard) PROVE CallCount(Heard') = c
  BY <1>6 DEF CallCount
\* Nothing is heard of it.
<1>7. ASSUME TranslationNext, Calls(Heard') = Calls(Heard), stage \notin {"finished", "over"}, stage' \notin {"finished", "over"},
             Run(told', "text") = Run(told, "text"), Run(told', "thought") = Run(told, "thought"),
             params' = params, client' = client
      PROVE  CodexChatArrives'
  <2>1. CallCount(Heard') = c
    BY <1>6, <1>7
  <2>2. Completes(client, told', Heard', c)
    BY <1>1, <1>3, <1>7, CompletesStill
  <2>3. params' = CodexChatCounts(CallCount(Heard') - 1)
    BY <1>1, <1>7, <2>1 DEF i
  <2>4. Completes(client', told', Heard', CallCount(Heard'))
    BY <1>7, <2>1, <2>2
  <2>5. client'.reasons = <<>>
    BY <1>1, <1>7
  <2> HIDE DEF c
  <2>6. QED
    BY <1>5, <1>7, <2>3, <2>4, <2>5 DEF CodexChatArrives
<1> HIDE DEF c
<1>8. CASE SayCreated
  <2> DEFINE e == Event("created", "", <<>>)
  <2>1. stage = "new" /\ stage' = "speaking" /\ UNCHANGED <<told, block>> /\ HandOn(Translated(e, "straight")) /\ TranslationNext
    BY <1>8 DEF SayCreated, TranslationNext
  <2>2. e.event = "created"
    BY EventIs DEF Event
  <2> HIDE DEF e
  <2>3. params' = params /\ client' = client
    BY <1>1, <1>3, <2>1, <2>2, CodexChatHears
  <2>4. Heard' = Heard
    BY <2>1, SameHeard
  <2>5. QED
    BY <1>7, <2>1, <2>3, <2>4
<1>9. ASSUME NEW kind \in ItemKinds, SayOpen(kind) PROVE CodexChatArrives'
  <2> DEFINE ns == IF kind = "call" THEN <<said + 1>> ELSE <<>>
             e == Event("open", kind, ns)
  <2>1. stage = "speaking" /\ stage' = stage /\ HandOn(Translated(e, "straight")) /\ TranslationNext
    BY <1>9 DEF SayOpen, TranslationNext, ItemKinds
  <2>2. e.event = "open"
    BY EventIs DEF Event
  <2> HIDE DEF e
  <2>3. params' = params /\ client' = client
    BY <1>1, <1>3, <2>1, <2>2, CodexChatHears
  <2>4. Calls(Heard') = Calls(Heard) /\ Run(told', "text") = Run(told, "text") /\ Run(told', "thought") = Run(told, "thought")
    BY <1>9, OpenHeard
  <2>5. QED
    BY <1>7, <2>1, <2>3, <2>4
<1>10. CASE SayDelta
  <2> DEFINE n == said + 1
             e == Event("delta", block, <<n>>)
  <2>1. /\ stage = "speaking" /\ stage' = stage /\ block # "" /\ HandOn(Translated(e, "straight")) /\ TranslationNext
    BY <1>10 DEF SayDelta, TranslationNext
  <2>2. e.event = "delta" /\ e.kind = block /\ e.pieces = <<n>>
    BY EventIs
  <2>3. n \in Nat /\ block \in ItemKinds
    <3>1. said \in Nat /\ block \in ItemKinds
      BY <2>1 DEF Upstream
    <3>2. QED
      BY <3>1
  <2>4. /\ Calls(Heard') = Calls(Heard)
        /\ \A k : Run(told', k) = IF k = block THEN Append(Run(told, k), n) ELSE Run(told, k)
    BY <1>10, DeltaHeard
  <2> HIDE DEF e, n
  <2>5. CASE block = "call"
    <3>1. params' = params /\ client' = client
      BY <1>1, <1>3, <2>1, <2>2, <2>5, CodexChatHears
    <3>2. QED
      BY <1>7, <2>1, <2>4, <2>5, <3>1
  <2>6. ASSUME NEW after, Completes(after, told', Heard', c), after.reasons = client.reasons, client' = after, params' = params
        PROVE  CodexChatArrives'
    <3>1. CallCount(Heard') = c
      BY <1>6, <2>4
    <3>2. params' = CodexChatCounts(CallCount(Heard') - 1)
      BY <1>1, <2>6, <3>1 DEF i
    <3>3. client'.reasons = <<>> /\ Completes(client', told', Heard', CallCount(Heard'))
      BY <1>1, <2>1, <2>6, <3>1
    <3>4. QED
      BY <1>5, <2>1, <3>2, <3>3 DEF CodexChatArrives
  <2>7. CASE block = "text"
    <3> DEFINE after == ReadChatChunk(client, [Chunk EXCEPT !.content = <<n>>])
    <3>1. params' = params /\ client' = after
      BY <1>1, <1>3, <2>1, <2>2, <2>7, CodexChatHears
    <3>2. Run(told', "text") = Append(Run(told, "text"), n) /\ Run(told', "thought") = Run(told, "thought")
      BY <2>4, <2>7
    <3>3. Completes(after, told', Heard', c) /\ after.reasons = client.reasons
      BY <1>1, <1>2, <2>3, <2>4, <3>2, CompletesText, SMTT(30)
    <3> HIDE DEF after
    <3>4. QED
      BY <2>6, <3>1, <3>3
  <2>8. CASE block = "thought"
    <3> DEFINE after == ReadChatChunk(client, [Chunk EXCEPT !.reasoning = <<n>>])
    <3>1. params' = params /\ client' = after
      BY <1>1, <1>3, <2>1, <2>2, <2>8, CodexChatHears
    <3>2. Run(told', "thought") = Append(Run(told, "thought"), n) /\ Run(told', "text") = Run(told, "text")
      BY <2>4, <2>8
    <3>3. Completes(after, told', Heard', c) /\ after.reasons = client.reasons
      BY <1>1, <1>2, <2>3, <2>4, <3>2, CompletesThought, SMTT(30)
    <3> HIDE DEF after
    <3>4. QED
      BY <2>6, <3>1, <3>3
  <2>9. QED
    BY <2>3, <2>5, <2>7, <2>8 DEF ItemKinds
<1>11. CASE SayClose
  <2> DEFINE e == Event("close", block, <<>>)
  <2>1. /\ stage = "speaking" /\ stage' = stage /\ block # "" /\ HandOn(Translated(e, "straight")) /\ TranslationNext
    BY <1>11 DEF SayClose, TranslationNext
  <2>2. e.event = "close" /\ e.kind = block /\ e.item = Last(told).pieces
    BY EventIs DEF Event
  <2>3. block \in ItemKinds
    BY <2>1 DEF Upstream
  <2> HIDE DEF e
  <2>4. CASE block = "call"
    <3> DEFINE x == Last(told)
               after == ReadChatChunk(client, CallChunk(c, x.pieces))
    <3>1. told' = told /\ x \in Items /\ x.kind = "call" /\ Calls(Heard') = Append(Calls(Heard), x)
      BY <1>11, <2>4, CloseHeard
    <3>2. params' = CodexChatCounts(i + 1) /\ client' = ReadChatChunk(client, [Chunk EXCEPT !.calls = <<ToolCall(i + 1, e.item)>>])
      BY <1>1, <1>3, <2>1, <2>2, <2>4, CodexChatHears
    <3>3. params' = CodexChatCounts(c) /\ client' = after
      BY <1>3, <2>2, <3>2 DEF CallChunk
    <3> HIDE DEF x
    <3> DEFINE h == Heard'
    <3>a. /\ Completes(client, told, Heard, c) /\ told \in Seq(Items) /\ Heard \in Seq(Items) /\ c \in Int
          /\ x \in Items /\ Calls(h) = Append(Calls(Heard), x)
      BY <1>1, <1>2, <1>3, <3>1
    <3> HIDE DEF h
    <3>b. Completes(after, told, h, c + 1) /\ after.reasons = client.reasons
      BY <3>a, CompletesCall
    <3>4. Completes(after, told, Heard', c + 1) /\ after.reasons = client.reasons
      BY <3>b DEF h
    <3> HIDE DEF after
    <3>5. CallCount(Heard') = c + 1 /\ (c + 1) - 1 = c
      <4>1. Len(Append(Calls(Heard), x)) = Len(Calls(Heard)) + 1
        BY <1>2, <3>1, CallsOf, AppendProperties
      <4>2. QED
        BY <1>2, <3>1, <4>1 DEF CallCount, c
    <3>6. params' = CodexChatCounts(CallCount(Heard') - 1)
      BY <3>3, <3>5
    <3>7. client'.reasons = <<>> /\ Completes(client', told', Heard', CallCount(Heard'))
      BY <1>1, <2>1, <3>1, <3>3, <3>4, <3>5
    <3>8. QED
      BY <1>5, <2>1, <3>6, <3>7 DEF CodexChatArrives
  <2>5. CASE block # "call"
    <3>1. params' = params /\ client' = client
      BY <1>1, <1>3, <2>1, <2>2, <2>3, <2>5, CodexChatHears DEF ItemKinds
    <3>2. told' = told /\ Heard' = Heard
      BY <1>11, <2>5, CloseHeard
    <3>3. QED
      BY <1>7, <2>1, <3>1, <3>2
  <2>6. QED
    BY <2>4, <2>5
<1>12. CASE SayCompleted
  <2>1. PICK why \in {"end", "limit"} :
          /\ From = "codex" => why = "end"
          /\ finish' = why
          /\ HandOn(Translated([Event("completed", "", <<>>) EXCEPT !.reason = Reason(told, why)], "straight"))
    BY <1>12 DEF SayCompleted
  <2> DEFINE e == [Event("completed", "", <<>>) EXCEPT !.reason = Reason(told, why)]
             reason == Reason(told, "end")
             after == ReadChatChunk(client, [Chunk EXCEPT !.finish = reason])
  <2>2. /\ stage = "speaking" /\ stage' = "finished" /\ block = "" /\ UNCHANGED <<told, block>>
        /\ HandOn(Translated(e, "straight")) /\ TranslationNext
    BY <1>12, <2>1 DEF SayCompleted, TranslationNext
  <2>3. finish' = "end"
    BY <1>1, <2>1, CodexToChatBy
  <2>4. e.event = "completed"
    BY CompletedIs
  <2> HIDE DEF e
  <2>5. Heard = told /\ Heard' = Heard
    BY <2>2, SameHeard DEF Heard
  <2>6. reason = IF i # -1 THEN "tools" ELSE "end"
    BY <1>3, <2>5 DEF Reason, c
  <2>7. Reason(told, finish)' = reason /\ reason \in {"end", "limit", "tools"}
    BY <2>2, <2>3, <2>6 DEF Reason
  <2> HIDE DEF reason
  <2>8. params' = params /\ client' = after
    BY <1>1, <1>3, <2>2, <2>4, <2>6, CodexChatHears
  <2>9. Completes(after, told, Heard, c) /\ after.reasons = Append(client.reasons, reason)
    BY <1>1, <1>2, <2>7, CompletesFinish
  <2> HIDE DEF after
  <2>10. client'.reasons = <<reason>>
    BY <1>1, <2>2, <2>8, <2>9, OneOf
  <2>11. CallCount(Heard') = c
    BY <1>6, <2>5
  <2>12. Completes(client', told', Heard', CallCount(Heard')) /\ params' = CodexChatCounts(CallCount(Heard') - 1)
    BY <1>1, <2>2, <2>5, <2>8, <2>9, <2>11 DEF i
  <2>13. QED
    BY <1>5, <2>2, <2>7, <2>10, <2>12 DEF CodexChatArrives
<1>13. ASSUME TranslationNext, HandOn(params), UNCHANGED <<told, block, finish>>,
              (stage' \in {"finished", "over"}) <=> (stage \in {"finished", "over"})
       PROVE  CodexChatArrives'
  <2>1. params' = params /\ client' = client
    <3>1. params.out = <<>> /\ [params EXCEPT !.out = <<>>] = params
      BY <1>1 DEF CodexChatCounts
    <3>2. QED
      BY <1>13, <3>1, HandsOn
  <2>2. Heard' = Heard
    BY <1>13, SameHeard
  <2>3. Reason(told, finish)' = Reason(told, finish)
    BY <1>13 DEF Reason
  <2>4. Completes(client', told', Heard', CallCount(Heard')) /\ params' = CodexChatCounts(CallCount(Heard') - 1)
    BY <1>1, <1>13, <2>1, <2>2 DEF i, c
  <2>5. client'.reasons = IF stage' \in {"finished", "over"} THEN <<Reason(told, finish)'>> ELSE <<>>
    BY <1>1, <1>13, <2>1, <2>3
  <2>6. QED
    BY <1>5, <1>13, <2>4, <2>5 DEF CodexChatArrives
<1>14. CASE AnswerEnds
  <2>1. stage = "finished" /\ stage' = "over" /\ UNCHANGED <<told, block, finish>> /\ HandOn(params) /\ TranslationNext
    BY <1>1, <1>14, CodexToChatBy DEF AnswerEnds, TranslationNext
  <2>2. QED
    BY <1>13, <2>1
<1>15. CASE AnswerBreaks
  <2>1. stage \in {"new", "speaking"} /\ stage' = "cut" /\ UNCHANGED <<told, block, finish>> /\ HandOn(params) /\ TranslationNext
    BY <1>1, <1>15, CodexToChatBy DEF AnswerBreaks, TranslationNext
  <2>2. QED
    BY <1>13, <2>1
<1>16. CASE SayUsage
  BY <1>16 DEF SayUsage, Upstream
<1>17. QED
  BY <1>2, <1>4, <1>8, <1>9, <1>10, <1>11, <1>12, <1>14, <1>15, <1>16, SpokenInBlocks

\* and the client has what was told.
LEMMA CodexChatArrived == CodexChatArrives /\ Upstream => AnswersArrive
<1> SUFFICES ASSUME CodexChatArrives, Upstream PROVE AnswersArrive
  OBVIOUS
<1>1. route = <<"codex", "chat">> /\ From = "codex" /\ To = "chat" /\ Whole = WholeCodexToChat(told)
  BY CodexToChatBy DEF CodexChatArrives
<1>2. told \in Seq(Items) /\ (stage = "over" => block = "" /\ finish = "end")
  BY <1>1 DEF Upstream
<1>3. stage = "over" => ContentArrived /\ ReasonArrived
  <2>1. stage = "over" => Heard = told
    BY <1>2 DEF Heard
  <2>2. stage = "over" => /\ Pieces(client.calls) = Pieces(Calls(told))
                          /\ client.content = Run(told, "text") /\ client.reasoning = Run(told, "thought")
    BY <2>1 DEF CodexChatArrives, Completes, Completion
  <2>3. stage = "over" => client.reasons = <<Reason(told, finish)>>
    BY DEF CodexChatArrives
  <2>4. QED
    BY <1>1, <2>2, <2>3 DEF ContentArrived, ReasonArrived
<1>4. stage = "cut" => ~LooksWhole
  BY <1>1 DEF CodexChatArrives, LooksWhole
<1>5. stage = "over" => WholeAgrees(Whole)
  <2> SUFFICES ASSUME stage = "over" PROVE WholeAgrees(Whole)
    OBVIOUS
  <2> DEFINE w == WholeCodexToChat(told)
  <2>1. ~WholeLosesContent => w.content = Run(told, "text") /\ w.reasoning = Run(told, "thought")
    <3> SUFFICES ASSUME ~WholeLosesContent PROVE w.content = Run(told, "text") /\ w.reasoning = Run(told, "thought")
      OBVIOUS
    <3>1. ~(Cardinality(Places(told)) > 1)
      BY <1>1 DEF WholeLosesContent, Places
    <3>2. \A i, j \in Places(told) : i = j
      BY <1>2, <3>1, AtMostOne
    <3>3. LastRun(told, "text") = Run(told, "text") /\ LastRun(told, "thought") = Run(told, "thought")
      BY <1>2, <3>2, OnlyRun DEF ItemKinds
    <3>4. QED
      BY <3>3 DEF WholeCodexToChat
  <2>2. w.calls = Pieces(Calls(told))
    BY DEF WholeCodexToChat, Pieces
  <2>3. ~WholeLosesReason => w.finish = Reason(told, finish)
    <3>1. WholeLosesReason <=> \E i \in DOMAIN told : told[i].kind = "call"
      BY <1>1, CodexToChatBy DEF WholeLosesReason, ToldKind
    <3>2. ~WholeLosesReason => ~(CallCount(told) > 0)
      BY <1>2, <3>1, CallTold
    <3>3. w.finish = "end"
      BY DEF WholeCodexToChat
    <3>4. QED
      BY <1>2, <3>2, <3>3 DEF Reason
  <2> HIDE DEF w
  <2>4. QED
    BY <1>1, <2>1, <2>2, <2>3 DEF WholeAgrees, w
<1>6. AnswerArrives
  BY <1>1, <1>3, <1>4 DEF AnswerArrives
<1>7. QED
  BY <1>5, <1>6 DEF AnswersArrive, WholeArrives
----------------------------------------------------------------------------
(* Claude to chat completions.                                             *)

\* The converter of Claude's events holds the call of the open block.
ClaudeHolds(cs) == [calls |-> cs, out |-> <<>>]

\* A call kept back,
CallOpen(index, ns) == <<ToolCall(index, ns)>>

\* that of the open block.
OpenCall == IF block = "call" THEN CallOpen(Len(told) - 1, Last(told).pieces) ELSE <<>>

\* Claude to chat completions: the call of the open block is kept back, and
\* the client has what was told before it.
ClaudeChatArrives ==
  /\ route = <<"claude", "chat">>
  /\ params = ClaudeHolds(OpenCall)
  /\ client.reasons = IF stage \in {"finished", "over"} THEN <<Reason(told, finish)>> ELSE <<>>
  /\ Completes(client, told, Heard, Len(Heard))

\* The route's converter and client.
LEMMA ClaudeToChatBy ==
  ASSUME route = <<"claude", "chat">>
  PROVE  /\ \A x : Translated(x, "straight") = ClaudeToChat(params, x)
         /\ \A m, e : Read(m, e) = ReadChatChunk(m, e)
         /\ From = "claude" /\ To = "chat" /\ ~InParts /\ ~GeminiLike
         /\ FirstParams(route) = ClaudeChatParams /\ Nothing(route) = NoCompletion
         /\ Whole = WholeClaudeToChat(told, finish) /\ TranslatedDone = params
<1>1. From = "claude" /\ To = "chat"
  BY DEF From, To
<1>2. ~InParts /\ ~GeminiLike
  BY <1>1 DEF InParts, GeminiLike, GeminiFormats
<1>3. ASSUME NEW x PROVE Translated(x, "straight") = ClaudeToChat(params, x)
  BY DEF Translated
<1>4. ASSUME NEW m, NEW e PROVE Read(m, e) = ReadChatChunk(m, e)
  BY <1>1 DEF Read
<1>5. FirstParams(route) = ClaudeChatParams
  BY DEF FirstParams, GeminiFormats
<1>6. Nothing(route) = NoCompletion
  BY DEF Nothing
<1>7. Whole = WholeClaudeToChat(told, finish)
  BY DEF Whole
<1>8. TranslatedDone = params
  BY DEF TranslatedDone
<1>9. QED
  BY <1>1, <1>2, <1>3, <1>4, <1>5, <1>6, <1>7, <1>8

\* The call that is held grows.
HeldMore(p, more) == [p EXCEPT !.calls[Len(p.calls)].pieces = @ \o more]

\* It goes behind the others.
LEMMA HeldGrows ==
  ASSUME NEW i, NEW ns, NEW more
  PROVE  HeldMore(ClaudeHolds(CallOpen(i, ns)), more) = ClaudeHolds(CallOpen(i, ns \o more))
<1> DEFINE c == ToolCall(i, ns)
           v == ns \o more
           d == ToolCall(i, v)
           l == CallOpen(i, ns)
           k == CallOpen(i, v)
           p == ClaudeHolds(l)
<1>1. c.pieces \o more = v
  BY DEF ToolCall
<1> HIDE DEF v
<1>2. [c EXCEPT !.pieces = v] = d
  BY DEF ToolCall
<1>3. l = <<c>> /\ k = <<d>>
  BY DEF CallOpen
<1> HIDE DEF c, d, l, k
<1>4. Len(l) = 1 /\ l[1] = c /\ [l EXCEPT ![1] = d] = k
  BY <1>3
<1>5. p.calls = l /\ \A x : [p EXCEPT !.calls = x] = ClaudeHolds(x)
  BY DEF ClaudeHolds
<1> HIDE DEF p
<1>6. HeldMore(p, more) = [p EXCEPT !.calls = [p.calls EXCEPT ![Len(p.calls)] =
                             [p.calls[Len(p.calls)] EXCEPT !.pieces = p.calls[Len(p.calls)].pieces \o more]]]
  BY DEF HeldMore
<1>7. HeldMore(p, more) = [p EXCEPT !.calls = [l EXCEPT ![1] = [c EXCEPT !.pieces = c.pieces \o more]]]
  BY <1>4, <1>5, <1>6
<1>8. HeldMore(p, more) = ClaudeHolds(k)
  BY <1>1, <1>2, <1>4, <1>5, <1>7
<1>9. QED
  BY <1>8 DEF p, l, k, v

\* What the converter says to each event.
LEMMA ClaudeToChatSays ==
  ASSUME NEW p, NEW e
  PROVE  /\ e.event = "created" => ClaudeToChat(p, e) = SendChunk(p, Chunk)
         /\ e.event = "open" /\ e.kind = "call" => ClaudeToChat(p, e) = [p EXCEPT !.calls = Append(@, ToolCall(e.index, e.pieces))]
         /\ e.event = "open" /\ e.kind \in {"text", "thought"} => ClaudeToChat(p, e) = p
         /\ e.event = "delta" /\ e.kind = "text" => ClaudeToChat(p, e) = SendChunk(p, [Chunk EXCEPT !.content = e.pieces])
         /\ e.event = "delta" /\ e.kind = "thought" => ClaudeToChat(p, e) = SendChunk(p, [Chunk EXCEPT !.reasoning = e.pieces])
         /\ e.event = "delta" /\ e.kind = "call" => ClaudeToChat(p, e) = HeldMore(p, e.pieces)
         /\ e.event = "close" /\ e.kind = "call" =>
              ClaudeToChat(p, e) = SendChunk([p EXCEPT !.calls = <<>>], [Chunk EXCEPT !.calls = p.calls])
         /\ e.event = "close" /\ e.kind \in {"text", "thought"} => ClaudeToChat(p, e) = p
         /\ e.event = "completed" => ClaudeToChat(p, e) = SendChunk(p, [Chunk EXCEPT !.finish = e.reason])
BY DEF ClaudeToChat, ClaudeDeltaToChat, HeldMore

\* One chunk.
LEMMA ClaudeChatSends == ASSUME NEW cs, NEW c PROVE SendChunk(ClaudeHolds(cs), c) = [calls |-> cs, out |-> <<c>>]
BY OneOf DEF SendChunk, ClaudeHolds

\* One of Claude's events goes through the converter and is read.
LEMMA ClaudeChatHears ==
  ASSUME route = <<"claude", "chat">>, NEW cs, params = ClaudeHolds(cs),
         NEW e, HandOn(Translated(e, "straight"))
  PROVE  /\ e.event = "created" => params' = params /\ client' = ReadChatChunk(client, Chunk)
         /\ e.event = "open" /\ e.kind = "call" =>
              params' = ClaudeHolds(Append(cs, ToolCall(e.index, e.pieces))) /\ client' = client
         /\ e.event \in {"open", "close"} /\ e.kind \in {"text", "thought"} => params' = params /\ client' = client
         /\ e.event = "delta" /\ e.kind = "call" =>
              \A i, ns : cs = CallOpen(i, ns) => params' = ClaudeHolds(CallOpen(i, ns \o e.pieces)) /\ client' = client
         /\ e.event = "delta" /\ e.kind = "text" =>
              params' = params /\ client' = ReadChatChunk(client, [Chunk EXCEPT !.content = e.pieces])
         /\ e.event = "delta" /\ e.kind = "thought" =>
              params' = params /\ client' = ReadChatChunk(client, [Chunk EXCEPT !.reasoning = e.pieces])
         /\ e.event = "close" /\ e.kind = "call" =>
              params' = ClaudeHolds(<<>>) /\ client' = ReadChatChunk(client, [Chunk EXCEPT !.calls = cs])
         /\ e.event = "completed" =>
              params' = params /\ client' = ReadChatChunk(client, [Chunk EXCEPT !.finish = e.reason])
<1> DEFINE o == ClaudeHolds(cs)
           p == ClaudeToChat(o, e)
<1>1. HandOn(p) /\ \A m, x : Read(m, x) = ReadChatChunk(m, x)
  BY ClaudeToChatBy
<1>2. /\ o.calls = cs /\ o.out = <<>>
      /\ \A c : [o EXCEPT !.calls = c] = ClaudeHolds(c)
      /\ \A c : ClaudeHolds(c).out = <<>> /\ [ClaudeHolds(c) EXCEPT !.out = <<>>] = ClaudeHolds(c)
  BY DEF ClaudeHolds
<1> HIDE DEF p
<1>3. /\ params' = [p EXCEPT !.out = <<>>]
      /\ p.out = <<>> => client' = client
      /\ \A x : p.out = <<x>> => client' = ReadChatChunk(client, x)
  BY <1>1, HandsOn
<1>4. ASSUME NEW c, p = ClaudeHolds(c) PROVE params' = ClaudeHolds(c) /\ client' = client
  BY <1>2, <1>3, <1>4
<1>5. ASSUME NEW j, NEW c, p = SendChunk(ClaudeHolds(j), c)
      PROVE params' = ClaudeHolds(j) /\ client' = ReadChatChunk(client, c)
  <2>1. p = [calls |-> j, out |-> <<c>>]
    BY <1>5, ClaudeChatSends
  <2>2. QED
    BY <1>3, <2>1 DEF ClaudeHolds
<1>a. params = o
  OBVIOUS
<1>b. p = ClaudeToChat(o, e)
  BY DEF p
<1>c. o = ClaudeHolds(cs)
  OBVIOUS
<1> HIDE DEF o
<1>6. ASSUME e.event = "created" PROVE params' = params /\ client' = ReadChatChunk(client, Chunk)
  <2>1. p = SendChunk(o, Chunk)
    BY <1>6, <1>b, ClaudeToChatSays
  <2>2. QED
    BY <1>5, <1>a, <1>c, <2>1
<1>7. ASSUME e.event = "open", e.kind = "call"
      PROVE  params' = ClaudeHolds(Append(cs, ToolCall(e.index, e.pieces))) /\ client' = client
  <2>1. p = [o EXCEPT !.calls = Append(o.calls, ToolCall(e.index, e.pieces))]
    BY <1>7, <1>b, ClaudeToChatSays
  <2>2. p = ClaudeHolds(Append(cs, ToolCall(e.index, e.pieces)))
    BY <1>2, <2>1
  <2>3. QED
    BY <1>4, <2>2
<1>8. ASSUME e.event \in {"open", "close"}, e.kind \in {"text", "thought"} PROVE params' = params /\ client' = client
  <2>1. p = o
    BY <1>8, <1>b, ClaudeToChatSays
  <2>2. QED
    BY <1>4, <1>a, <1>c, <2>1
<1>9. ASSUME e.event = "delta", e.kind = "call", NEW i, NEW ns, cs = CallOpen(i, ns)
      PROVE  params' = ClaudeHolds(CallOpen(i, ns \o e.pieces)) /\ client' = client
  <2>1. p = HeldMore(o, e.pieces)
    BY <1>9, <1>b, ClaudeToChatSays
  <2>2. o = ClaudeHolds(CallOpen(i, ns))
    BY <1>9, <1>c
  <2>3. p = ClaudeHolds(CallOpen(i, ns \o e.pieces))
    BY <2>1, <2>2, HeldGrows
  <2>4. QED
    BY <1>4, <2>3
<1>10. ASSUME e.event = "delta", e.kind = "text"
      PROVE  params' = params /\ client' = ReadChatChunk(client, [Chunk EXCEPT !.content = e.pieces])
  <2>1. p = SendChunk(o, [Chunk EXCEPT !.content = e.pieces])
    BY <1>10, <1>b, ClaudeToChatSays
  <2>2. QED
    BY <1>5, <1>a, <1>c, <2>1
<1>11. ASSUME e.event = "delta", e.kind = "thought"
      PROVE  params' = params /\ client' = ReadChatChunk(client, [Chunk EXCEPT !.reasoning = e.pieces])
  <2>1. p = SendChunk(o, [Chunk EXCEPT !.reasoning = e.pieces])
    BY <1>11, <1>b, ClaudeToChatSays
  <2>2. QED
    BY <1>5, <1>a, <1>c, <2>1
<1>12. ASSUME e.event = "close", e.kind = "call"
       PROVE  params' = ClaudeHolds(<<>>) /\ client' = ReadChatChunk(client, [Chunk EXCEPT !.calls = cs])
  <2>1. p = SendChunk([o EXCEPT !.calls = <<>>], [Chunk EXCEPT !.calls = o.calls])
    BY <1>12, <1>b, ClaudeToChatSays
  <2>2. p = SendChunk(ClaudeHolds(<<>>), [Chunk EXCEPT !.calls = cs])
    BY <1>2, <2>1
  <2>3. QED
    BY <1>5, <2>2
<1>13. ASSUME e.event = "completed"
       PROVE  params' = params /\ client' = ReadChatChunk(client, [Chunk EXCEPT !.finish = e.reason])
  <2>1. p = SendChunk(o, [Chunk EXCEPT !.finish = e.reason])
    BY <1>13, <1>b DEF ClaudeToChat
  <2>2. QED
    BY <1>5, <1>a, <1>c, <2>1
<1>14. QED
  BY <1>6, <1>7, <1>8, <1>9, <1>10, <1>11, <1>12, <1>13

\* So it begins,
LEMMA ClaudeChatBegins == TranslationInit /\ route = <<"claude", "chat">> => ClaudeChatArrives
<1> SUFFICES ASSUME TranslationInit, route = <<"claude", "chat">> PROVE ClaudeChatArrives
  OBVIOUS
<1>1. told = <<>> /\ block = "" /\ stage = "new" /\ params = ClaudeChatParams /\ client = NoCompletion
  BY ClaudeToChatBy DEF TranslationInit
<1>2. Heard = <<>> /\ Len(<<>>) = 0 /\ OpenCall = <<>>
  BY <1>1 DEF Heard, OpenCall
<1>3. params = ClaudeHolds(OpenCall)
  BY <1>1, <1>2 DEF ClaudeHolds, ClaudeChatParams
<1>4. QED
  BY <1>1, <1>2, <1>3, CompletesNothing DEF ClaudeChatArrives

\* The events' indexes.
LEMMA EventIndex ==
  ASSUME NEW event, NEW kind, NEW ns
  PROVE  Event(event, kind, ns).index = Len(told) - (IF event = "open" THEN 0 ELSE 1)
BY DEF Event

\* the invariant stays,
LEMMA ClaudeChatGoesOn ==
  ASSUME ClaudeChatArrives, Upstream, [TranslationNext]_translationVars
  PROVE  ClaudeChatArrives'
<1> DEFINE c == Len(Heard)
           o == OpenCall
<1>1. /\ route = <<"claude", "chat">> /\ params = ClaudeHolds(o) /\ Completes(client, told, Heard, c)
      /\ client.reasons = IF stage \in {"finished", "over"} THEN <<Reason(told, finish)>> ELSE <<>>
  BY DEF ClaudeChatArrives
<1>2. told \in Seq(Items) /\ Heard \in Seq(Items) /\ c \in Nat /\ BlockRoute /\ Len(told) \in Nat
  BY HeardIs, LenProperties DEF Upstream
<1>3. c <= c /\ c \in Int
  BY <1>2
<1>4. CASE UNCHANGED translationVars
  BY <1>4 DEF ClaudeChatArrives, translationVars, Completes, Heard, Reason, OpenCall
<1>5. ASSUME TranslationNext PROVE route' = <<"claude", "chat">>
  BY <1>1, <1>5, RouteStays
<1>t. ASSUME block # "call" PROVE o = <<>>
  BY <1>t DEF OpenCall
<1>u. ASSUME block' # "call" PROVE OpenCall' = <<>>
  BY <1>u DEF OpenCall
\* Nothing is heard of it.
<1>7. ASSUME TranslationNext, Calls(Heard') = Calls(Heard), stage \notin {"finished", "over"}, stage' \notin {"finished", "over"},
             Run(told', "text") = Run(told, "text"), Run(told', "thought") = Run(told, "thought"),
             c <= Len(Heard'), Len(Heard') \in Int, params' = ClaudeHolds(OpenCall)', client' = client
      PROVE  ClaudeChatArrives'
  <2>2. Completes(client, told', Heard', Len(Heard'))
    BY <1>1, <1>3, <1>7, CompletesStill
  <2>5. client'.reasons = <<>>
    BY <1>1, <1>7
  <2> HIDE DEF c
  <2>6. QED
    BY <1>5, <1>7, <2>2, <2>5 DEF ClaudeChatArrives
<1>h. Len(Heard) \in Int
  BY <1>2
<1> HIDE DEF c
<1>o. params' = params /\ block # "call" /\ block' # "call" => params' = ClaudeHolds(OpenCall)'
  BY <1>1, <1>t, <1>u DEF ClaudeHolds
<1> HIDE DEF o
<1>8. CASE SayCreated
  <2> DEFINE e == Event("created", "", <<>>)
  <2>1. stage = "new" /\ stage' = "speaking" /\ UNCHANGED <<told, block>> /\ HandOn(Translated(e, "straight")) /\ TranslationNext
    BY <1>8 DEF SayCreated, TranslationNext
  <2>2. e.event = "created"
    BY EventIs DEF Event
  <2> HIDE DEF e
  <2>3. params' = params /\ client' = ReadChatChunk(client, Chunk)
    BY <1>1, <2>1, <2>2, ClaudeChatHears
  <2>4. client' = client
    BY <1>1, <1>2, <2>3, CompletesEmpty
  <2>5. Heard' = Heard /\ c <= Len(Heard') /\ Len(Heard') \in Int
    BY <1>2, <1>h, <2>1, SameHeard DEF c
  <2>6. block = "" /\ block' = ""
    BY <2>1 DEF Upstream
  <2>7. params' = ClaudeHolds(OpenCall)'
    BY <1>o, <2>3, <2>6
  <2>8. QED
    BY <1>7, <2>1, <2>4, <2>5, <2>7
<1>9. ASSUME NEW kind \in ItemKinds, SayOpen(kind) PROVE ClaudeChatArrives'
  <2> DEFINE ns == IF kind = "call" THEN <<said + 1>> ELSE <<>>
             e == Event("open", kind, ns)
             x == Item(kind, ns)
  <2>1. stage = "speaking" /\ stage' = stage /\ HandOn(Translated(e, "straight")) /\ TranslationNext /\ block = "" /\ block' = kind
    BY <1>9 DEF SayOpen, TranslationNext, ItemKinds
  <2>2. e.event = "open" /\ e.kind = kind /\ e.pieces = ns /\ e.index = Len(told)
    <3>1. e.index = Len(told) - 0
      BY EventIndex
    <3>2. QED
      BY <1>2, <3>1, EventIs
  <2>x. told' = Append(told, x) /\ x \in Items /\ x.pieces = ns
    BY <1>9, Hears DEF Opens, Item
  <2> HIDE DEF e, ns, x
  <2>4. Calls(Heard') = Calls(Heard) /\ Run(told', "text") = Run(told, "text") /\ Run(told', "thought") = Run(told, "thought")
        /\ c <= Len(Heard') /\ Len(Heard') \in Int
    <3>1. Len(Heard') \in Nat
      BY <1>9, OpenHeard
    <3>2. Len(Heard') \in Int
      BY <3>1
    <3>3. QED
      BY <1>9, <3>2, OpenHeard DEF c
  <2>5. CASE kind = "call"
    <3>1. params' = ClaudeHolds(Append(o, ToolCall(Len(told), ns))) /\ client' = client
      BY <1>1, <2>1, <2>2, <2>5, ClaudeChatHears
    <3>2. o = <<>>
      BY <1>t, <2>1
    <3>3. Append(o, ToolCall(Len(told), ns)) = CallOpen(Len(told), ns)
      BY <3>2, OneOf DEF CallOpen
    <3>4. Last(told') = x /\ Len(told') - 1 = Len(told)
      <4>1. Len(told') = Len(told) + 1
        BY <1>2, <2>x, AppendProperties
      <4>2. QED
        BY <1>2, <2>x, <4>1, EndsWithAppend, OneBack
    <3>5. OpenCall' = CallOpen(Len(told), ns)
      BY <2>1, <2>5, <2>x, <3>4 DEF OpenCall
    <3>6. params' = ClaudeHolds(OpenCall)'
      BY <3>1, <3>3, <3>5 DEF ClaudeHolds
    <3>7. QED
      BY <1>7, <2>1, <2>4, <3>1, <3>6
  <2>6. CASE kind # "call"
    <3>1. params' = params /\ client' = client
      BY <1>1, <2>1, <2>2, <2>6, ClaudeChatHears DEF ItemKinds
    <3>2. params' = ClaudeHolds(OpenCall)'
      BY <1>o, <2>1, <2>6, <3>1
    <3>3. QED
      BY <1>7, <2>1, <2>4, <3>1, <3>2
  <2>7. QED
    BY <2>5, <2>6
<1>10. CASE SayDelta
  <2> DEFINE n == said + 1
             e == Event("delta", block, <<n>>)
  <2>1. /\ stage = "speaking" /\ stage' = stage /\ block # "" /\ block' = block /\ HandOn(Translated(e, "straight")) /\ TranslationNext
    BY <1>10 DEF SayDelta, TranslationNext
  <2>2. e.event = "delta" /\ e.kind = block /\ e.pieces = <<n>>
    BY EventIs
  <2>3. n \in Nat /\ block \in ItemKinds
    <3>1. said \in Nat /\ block \in ItemKinds
      BY <2>1 DEF Upstream
    <3>2. QED
      BY <3>1
  <2>4. /\ Calls(Heard') = Calls(Heard) /\ Len(Heard') = c
        /\ \A k : Run(told', k) = IF k = block THEN Append(Run(told, k), n) ELSE Run(told, k)
    BY <1>10, DeltaHeard DEF c
  <2>g. PICK q, x : Grows(q, x, n)
    BY <1>10, Hears
  <2> HIDE DEF e, n
  <2>5. CASE block = "call"
    <3> DEFINE i == Len(told) - 1
               ns == Last(told).pieces
    <3>1. o = CallOpen(i, ns)
      BY <2>5 DEF OpenCall, o
    <3>a. /\ q \in Seq(Items) /\ x \in Items /\ told = Append(q, x) /\ told' = Append(q, Grown(x, n)) /\ Len(told') = Len(told)
      BY <2>g DEF Grows
    <3>b. Grown(x, n) \in Items /\ Grown(x, n).pieces = Append(x.pieces, n) /\ x.pieces \in Seq(Nat)
      BY <2>3, <3>a, GrownIs DEF Items
    <3>c. Last(told) = x /\ Last(told') = Grown(x, n)
      BY <3>a, <3>b, EndsWithAppend
    <3>d. Last(told').pieces = ns \o <<n>>
      BY <2>3, <3>b, <3>c, ConcatOne
    <3>e. OpenCall' = CallOpen(i, ns \o <<n>>)
      BY <2>1, <2>5, <3>a, <3>d DEF OpenCall
    <3> HIDE DEF i, ns
    <3>2. params' = ClaudeHolds(CallOpen(i, ns \o <<n>>)) /\ client' = client
      BY <1>1, <2>1, <2>2, <2>5, <3>1, ClaudeChatHears
    <3>3. params' = ClaudeHolds(OpenCall)'
      BY <3>2, <3>e DEF ClaudeHolds
    <3>4. Run(told', "text") = Run(told, "text") /\ Run(told', "thought") = Run(told, "thought")
      BY <2>4, <2>5
    <3>5. c <= Len(Heard') /\ Len(Heard') \in Int
      BY <1>3, <2>4
    <3>6. QED
      BY <1>7, <2>1, <2>4, <3>2, <3>3, <3>4, <3>5
  <2>6. ASSUME NEW after, Completes(after, told', Heard', c), after.reasons = client.reasons, client' = after,
               params' = params, block # "call"
        PROVE  ClaudeChatArrives'
    <3>2. params' = ClaudeHolds(OpenCall)'
      BY <1>o, <2>1, <2>6
    <3>3. client'.reasons = <<>> /\ Completes(client', told', Heard', Len(Heard'))
      BY <1>1, <2>1, <2>4, <2>6
    <3>4. QED
      BY <1>5, <2>1, <3>2, <3>3 DEF ClaudeChatArrives
  <2>7. CASE block = "text"
    <3> DEFINE after == ReadChatChunk(client, [Chunk EXCEPT !.content = <<n>>])
    <3>1. params' = params /\ client' = after
      BY <1>1, <2>1, <2>2, <2>7, ClaudeChatHears
    <3>2. Run(told', "text") = Append(Run(told, "text"), n) /\ Run(told', "thought") = Run(told, "thought")
      BY <2>4, <2>7
    <3>3. Completes(after, told', Heard', c) /\ after.reasons = client.reasons
      <4>1. Completes(client, told, Heard, c) /\ told \in Seq(Items) /\ n \in Nat /\ Calls(Heard') = Calls(Heard)
        BY <1>1, <1>2, <2>3, <2>4
      <4>2. QED
        BY <3>2, <4>1, CompletesText
    <3> HIDE DEF after
    <3>4. QED
      BY <2>6, <2>7, <3>1, <3>3
  <2>8. CASE block = "thought"
    <3> DEFINE after == ReadChatChunk(client, [Chunk EXCEPT !.reasoning = <<n>>])
    <3>1. params' = params /\ client' = after
      BY <1>1, <2>1, <2>2, <2>8, ClaudeChatHears
    <3>2. Run(told', "thought") = Append(Run(told, "thought"), n) /\ Run(told', "text") = Run(told, "text")
      BY <2>4, <2>8
    <3>3. Completes(after, told', Heard', c) /\ after.reasons = client.reasons
      <4>1. Completes(client, told, Heard, c) /\ told \in Seq(Items) /\ n \in Nat /\ Calls(Heard') = Calls(Heard)
        BY <1>1, <1>2, <2>3, <2>4
      <4>2. QED
        BY <3>2, <4>1, CompletesThought
    <3> HIDE DEF after
    <3>4. QED
      BY <2>6, <2>8, <3>1, <3>3
  <2>9. QED
    BY <2>3, <2>5, <2>7, <2>8 DEF ItemKinds
<1>11. CASE SayClose
  <2> DEFINE e == Event("close", block, <<>>)
  <2>1. /\ stage = "speaking" /\ stage' = stage /\ block # "" /\ block' = "" /\ HandOn(Translated(e, "straight")) /\ TranslationNext
    BY <1>11 DEF SayClose, TranslationNext
  <2>2. e.event = "close" /\ e.kind = block
    BY EventIs
  <2>3. block \in ItemKinds
    BY <2>1 DEF Upstream
  <2> HIDE DEF e
  <2>4. CASE block = "call"
    <3> DEFINE x == Last(told)
               after == ReadChatChunk(client, CallChunk(c, x.pieces))
               h == Heard'
    <3>1. told' = told /\ h = told /\ x \in Items /\ x.kind = "call" /\ Calls(h) = Append(Calls(Heard), x) /\ Len(told) = c + 1
      BY <1>11, <2>4, CloseHeard DEF c
    <3>2. params' = ClaudeHolds(<<>>) /\ client' = ReadChatChunk(client, [Chunk EXCEPT !.calls = o])
      BY <1>1, <2>1, <2>2, <2>4, ClaudeChatHears
    <3>3. o = <<ToolCall(c, x.pieces)>>
      <4>1. Len(told) - 1 = c
        BY <1>2, <3>1, OneBack
      <4>2. QED
        BY <2>4, <4>1 DEF OpenCall, CallOpen, o
    <3>4. client' = after
      BY <3>2, <3>3 DEF CallChunk
    <3> HIDE DEF x
    <3>a. /\ Completes(client, told, Heard, c) /\ told \in Seq(Items) /\ Heard \in Seq(Items) /\ c \in Int
          /\ x \in Items /\ Calls(h) = Append(Calls(Heard), x) /\ h = told
      BY <1>1, <1>2, <1>3, <3>1
    <3> HIDE DEF h
    <3>b. Completes(after, told, h, c + 1) /\ after.reasons = client.reasons
      BY <3>a, CompletesCall
    <3> HIDE DEF after
    <3>5. params' = ClaudeHolds(OpenCall)'
      BY <1>u, <2>1, <3>2 DEF ClaudeHolds
    <3>6. Completes(client', told', Heard', Len(Heard'))
      BY <3>1, <3>4, <3>a, <3>b DEF h
    <3>7. client'.reasons = <<>>
      BY <1>1, <2>1, <3>4, <3>b
    <3>8. QED
      BY <1>5, <2>1, <3>5, <3>6, <3>7 DEF ClaudeChatArrives
  <2>5. CASE block # "call"
    <3>1. params' = params /\ client' = client
      BY <1>1, <2>1, <2>2, <2>3, <2>5, ClaudeChatHears DEF ItemKinds
    <3>2. told' = told /\ Heard' = Heard
      BY <1>11, <2>5, CloseHeard
    <3>3. c <= Len(Heard') /\ Len(Heard') \in Int
      BY <1>3, <3>2 DEF c
    <3>4. params' = ClaudeHolds(OpenCall)'
      BY <1>o, <2>1, <2>5, <3>1
    <3>5. QED
      BY <1>7, <2>1, <3>1, <3>2, <3>3, <3>4
  <2>6. QED
    BY <2>4, <2>5
<1>12. CASE SayCompleted
  <2>1. PICK why \in {"end", "limit"} :
          /\ From = "codex" => why = "end"
          /\ finish' = why
          /\ HandOn(Translated([Event("completed", "", <<>>) EXCEPT !.reason = Reason(told, why)], "straight"))
    BY <1>12 DEF SayCompleted
  <2> DEFINE reason == Reason(told, why)
             e == [Event("completed", "", <<>>) EXCEPT !.reason = reason]
             after == ReadChatChunk(client, [Chunk EXCEPT !.finish = reason])
  <2>2. /\ stage = "speaking" /\ stage' = "finished" /\ block = "" /\ UNCHANGED <<told, block>>
        /\ HandOn(Translated(e, "straight")) /\ TranslationNext
    BY <1>12, <2>1 DEF SayCompleted, TranslationNext
  <2>4. e.event = "completed" /\ e.reason = reason
    BY CompletedIs
  <2> HIDE DEF e
  <2>5. Heard = told /\ Heard' = Heard
    BY <2>2, SameHeard DEF Heard
  <2>7. Reason(told, finish)' = reason /\ reason \in {"end", "limit", "tools"}
    BY <2>1, <2>2 DEF Reason
  <2> HIDE DEF reason
  <2>8. params' = params /\ client' = after
    BY <1>1, <2>2, <2>4, ClaudeChatHears
  <2>9. Completes(after, told, Heard, c) /\ after.reasons = Append(client.reasons, reason)
    BY <1>1, <1>2, <2>7, CompletesFinish
  <2> HIDE DEF after
  <2>10. client'.reasons = <<reason>>
    BY <1>1, <2>2, <2>8, <2>9, OneOf
  <2>12. Completes(client', told', Heard', Len(Heard'))
    BY <2>2, <2>5, <2>8, <2>9 DEF c
  <2>13. params' = ClaudeHolds(OpenCall)'
    BY <1>o, <2>2, <2>8
  <2>14. QED
    BY <1>5, <2>2, <2>7, <2>10, <2>12, <2>13 DEF ClaudeChatArrives
<1>13. ASSUME TranslationNext, HandOn(params), UNCHANGED <<told, block, finish>>,
              (stage' \in {"finished", "over"}) <=> (stage \in {"finished", "over"})
       PROVE  ClaudeChatArrives'
  <2>1. params' = params /\ client' = client
    <3>1. params.out = <<>> /\ [params EXCEPT !.out = <<>>] = params
      BY <1>1 DEF ClaudeHolds
    <3>2. QED
      BY <1>13, <3>1, HandsOn
  <2>2. Heard' = Heard
    BY <1>13, SameHeard
  <2>3. Reason(told, finish)' = Reason(told, finish)
    BY <1>13 DEF Reason
  <2>4. Completes(client', told', Heard', Len(Heard'))
    BY <1>1, <1>13, <2>1, <2>2 DEF c
  <2>a. params' = ClaudeHolds(OpenCall)'
    BY <1>1, <1>13, <2>1 DEF o, OpenCall, ClaudeHolds
  <2>5. client'.reasons = IF stage' \in {"finished", "over"} THEN <<Reason(told, finish)'>> ELSE <<>>
    BY <1>1, <1>13, <2>1, <2>3
  <2>6. QED
    BY <1>5, <1>13, <2>4, <2>a, <2>5 DEF ClaudeChatArrives
<1>14. CASE AnswerEnds
  <2>1. stage = "finished" /\ stage' = "over" /\ UNCHANGED <<told, block, finish>> /\ HandOn(params) /\ TranslationNext
    BY <1>1, <1>14, ClaudeToChatBy DEF AnswerEnds, TranslationNext
  <2>2. QED
    BY <1>13, <2>1
<1>15. CASE AnswerBreaks
  <2>1. stage \in {"new", "speaking"} /\ stage' = "cut" /\ UNCHANGED <<told, block, finish>> /\ HandOn(params) /\ TranslationNext
    BY <1>1, <1>15, ClaudeToChatBy DEF AnswerBreaks, TranslationNext
  <2>2. QED
    BY <1>13, <2>1
<1>16. CASE SayUsage
  BY <1>16 DEF SayUsage, Upstream
<1>17. QED
  BY <1>2, <1>4, <1>8, <1>9, <1>10, <1>11, <1>12, <1>14, <1>15, <1>16, SpokenInBlocks

\* and the client has what was told.
LEMMA ClaudeChatArrived == ClaudeChatArrives /\ Upstream => AnswersArrive
<1> SUFFICES ASSUME ClaudeChatArrives, Upstream PROVE AnswersArrive
  OBVIOUS
<1>1. route = <<"claude", "chat">> /\ From = "claude" /\ To = "chat" /\ Whole = WholeClaudeToChat(told, finish)
  BY ClaudeToChatBy DEF ClaudeChatArrives
<1>2. told \in Seq(Items) /\ (stage = "over" => block = "")
  BY <1>1 DEF Upstream
<1>3. stage = "over" => ContentArrived /\ ReasonArrived
  <2>1. stage = "over" => Heard = told
    BY <1>2 DEF Heard
  <2>2. stage = "over" => /\ Pieces(client.calls) = Pieces(Calls(told))
                          /\ client.content = Run(told, "text") /\ client.reasoning = Run(told, "thought")
    BY <2>1 DEF ClaudeChatArrives, Completes, Completion
  <2>3. stage = "over" => client.reasons = <<Reason(told, finish)>>
    BY DEF ClaudeChatArrives
  <2>4. QED
    BY <1>1, <2>2, <2>3 DEF ContentArrived, ReasonArrived
<1>4. stage = "cut" => ~LooksWhole
  BY <1>1 DEF ClaudeChatArrives, LooksWhole
<1>5. stage = "over" => WholeAgrees(Whole)
  <2> DEFINE w == WholeClaudeToChat(told, finish)
  <2>1. w.content = Run(told, "text") /\ w.reasoning = Run(told, "thought")
    BY DEF WholeClaudeToChat
  <2>2. w.calls = Pieces(Calls(told))
    BY DEF WholeClaudeToChat, Pieces
  <2>3. w.finish = Reason(told, finish)
    BY DEF WholeClaudeToChat, Reason
  <2> HIDE DEF w
  <2>4. QED
    BY <1>1, <2>1, <2>2, <2>3 DEF WholeAgrees, w
<1>6. AnswerArrives
  BY <1>1, <1>3, <1>4 DEF AnswerArrives
<1>7. QED
  BY <1>5, <1>6 DEF AnswersArrive, WholeArrives
----------------------------------------------------------------------------
(* What comes to a client of Gemini's.                                     *)

\* An empty block says nothing, and a piece more is said behind what was said.
LEMMA OpenJoined ==
  ASSUME Upstream, NEW kind \in ItemKinds, SayOpen(kind)
  PROVE  Joined(Heard') = Joined(Heard)
<1> DEFINE ns == IF kind = "call" THEN <<said + 1>> ELSE <<>>
           x == Item(kind, ns)
<1>1. told' = Append(told, x) /\ x \in Items /\ x.kind = kind /\ x.pieces = ns
  BY Hears DEF Opens, Item
<1>2. told \in Seq(Items) /\ block = "" /\ block' = kind
  BY DEF Upstream, SayOpen
<1>3. kind # "call" => x.pieces = <<>>
  BY <1>1
<1> HIDE DEF x, ns
<1>4. Heard = told
  BY <1>2 DEF Heard
<1>5. CASE kind = "call"
  BY <1>5, OpenHeard
<1>6. CASE kind # "call"
  <2>1. Heard' = told'
    BY <1>2, <1>6 DEF Heard
  <2>2. Joined(Append(told, x)) = Joined(told)
    BY <1>1, <1>2, <1>3, <1>6, JoinedEmpty
  <2>3. QED
    BY <1>1, <1>4, <2>1, <2>2
<1>7. QED
  BY <1>5, <1>6

\* A piece of a block that is no call.
LEMMA DeltaJoined ==
  ASSUME Upstream, SayDelta, block # "call"
  PROVE  Heard = told /\ Heard' = told' /\ Joined(told') = AddPiece(Joined(told), block, said + 1)
<1> DEFINE n == said + 1
<1>1. PICK q, x : Grows(q, x, n)
  BY Hears
<1> HIDE DEF n
<1>2. /\ q \in Seq(Items) /\ x \in Items /\ n \in Nat /\ x.kind = block
      /\ told = Append(q, x) /\ told' = Append(q, Grown(x, n))
  BY <1>1 DEF Grows
<1>3. block' = block
  BY DEF SayDelta
<1>4. Joined(Append(q, Grown(x, n))) = AddPiece(Joined(Append(q, x)), x.kind, n)
  BY <1>2, JoinedGrows
<1>5. QED
  BY <1>2, <1>3, <1>4 DEF Heard, n

\* What a client of Gemini's has.
Content(items, reasons) == [items |-> items, reasons |-> reasons]

\* It puts the parts of a chunk behind those it has.
LEMMA GeminiReads ==
  ASSUME NEW items, NEW reasons, NEW more, NEW finish1
  PROVE  ReadGeminiChunk(Content(items, reasons), Parts(more, finish1))
         = Content(items \o more, IF finish1 = "" THEN reasons ELSE Append(reasons, finish1))
BY DEF ReadGeminiChunk, Content, Parts

\* Items behind items.
LEMMA ItemsConcat ==
  ASSUME NEW s \in Seq(Items)
  PROVE  /\ s \o <<>> = s
         /\ \A x \in Items : s \o <<x>> = Append(s, x)
         /\ \A t \in Seq(Items) : s \o t \in Seq(Items)
         /\ \A t \in Seq(Items), x \in Items : s \o Append(t, x) = Append(s \o t, x)
OBVIOUS

\* A piece of a run is appended, and a call.
LEMMA PieceJoined ==
  ASSUME NEW items \in Seq(Items), NEW kind \in ItemKinds, kind # "call", NEW n \in Nat
  PROVE  /\ items \o <<Item(kind, <<n>>)>> \in Seq(Items)
         /\ Joined(items \o <<Item(kind, <<n>>)>>) = AddPiece(Joined(items), kind, n)
<1> DEFINE x == Item(kind, <<n>>)
<1>1. x \in Items
  BY ItemIs, OnePiece
<1>2. Joined(Append(items, x)) = AddPiece(Joined(items), kind, n)
  BY JoinedOne
<1> HIDE DEF x
<1>3. items \o <<x>> = Append(items, x) /\ Append(items, x) \in Seq(Items)
  BY <1>1, ItemsConcat, ItemsAppend
<1>4. QED
  BY <1>2, <1>3 DEF x

\* A call is made of its pieces.
LEMMA CallItem == \A x \in Items : x.kind = "call" => Item("call", x.pieces) = x /\ x.pieces # <<>>
BY DEF Items, Item

\* A call behind what it has.
LEMMA CallJoined ==
  ASSUME NEW items \in Seq(Items), NEW x \in Items, x.kind = "call"
  PROVE  /\ items \o <<x>> \in Seq(Items)
         /\ Joined(items \o <<x>>) = Append(Joined(items), x)
<1>1. items \o <<x>> = Append(items, x) /\ Append(items, x) \in Seq(Items)
  BY ItemsConcat, ItemsAppend
<1>2. QED
  BY <1>1, JoinedOf

\* What has lapsed is not expected again.
LEMMA StaysLapsed == ASSUME Upstream, TranslationNext PROVE lapsed \subseteq lapsed'
<1>1. CASE SayCreated \/ SayDelta \/ SayClose \/ AnswerEnds
  BY <1>1 DEF SayCreated, SayDelta, SayClose, AnswerEnds
<1>2. ASSUME NEW content, NEW reason, Noted(content, reason) PROVE lapsed \subseteq lapsed'
  BY <1>2 DEF Noted
<1>3. CASE SayCompleted
  BY <1>2, <1>3 DEF SayCompleted
<1>4. CASE AnswerBreaks
  BY <1>2, <1>4 DEF AnswerBreaks
<1>5. ASSUME NEW kind \in ItemKinds, SayOpen(kind) PROVE lapsed \subseteq lapsed'
  BY <1>2, <1>5 DEF SayOpen
<1>6. CASE SayUsage
  BY <1>6 DEF SayUsage, Upstream
<1>7. QED
  BY <1>1, <1>3, <1>4, <1>5, <1>6, SpokenInBlocks DEF Upstream
----------------------------------------------------------------------------
(* Claude to Gemini.                                                       *)

\* The converter of Claude's events gathers the pieces of the open call.
ClaudeGathers(ns) == [call |-> ns, out |-> <<>>]

\* Its pieces so far.
GatheredCall == IF block = "call" THEN Last(told).pieces ELSE <<>>

\* A client of Gemini's has in its parts what it may have heard.
Gathers(m, heard) ==
  /\ m = Content(m.items, m.reasons)
  /\ m.items \in Seq(Items) /\ m.reasons \in Seq({"end"})
  /\ Joined(m.items) = Joined(heard)

\* Claude to Gemini: the open call is gathered and the client has what was
\* told before it.  A reason comes with each call, so one that comes before
\* the end shows that a call was told.
ClaudeGeminiArrives ==
  /\ route = <<"claude", "gemini">>
  /\ params = ClaudeGathers(GatheredCall)
  /\ Gathers(client, Heard)
  /\ stage \in {"new", "speaking"} /\ client.reasons # <<>> => CallCount(told) > 0
  /\ stage \in {"finished", "over"} => client.reasons # <<>> /\ ("reason" \notin lapsed => finish # "limit")
  /\ stage = "cut" /\ "content" \notin lapsed => client.reasons = <<>>

\* The route's converter and client, and the reasons that lapse.
LEMMA ClaudeToGeminiBy ==
  ASSUME route = <<"claude", "gemini">>
  PROVE  /\ \A x : Translated(x, "straight") = ClaudeToGemini(params, x)
         /\ \A m, e : Read(m, e) = ReadGeminiChunk(m, e)
         /\ From = "claude" /\ To = "gemini" /\ ~InParts /\ ~GeminiLike
         /\ FirstParams(route) = ClaudeGeminiParams /\ Nothing(route) = NoContent
         /\ Whole = WholeClaudeToGemini(told) /\ TranslatedDone = params
         /\ \A why : ReasonGarbled(<<>>, why) <=> why = "limit"
<1>1. From = "claude" /\ To = "gemini"
  BY DEF From, To
<1>2. ~InParts /\ ~GeminiLike
  BY <1>1 DEF InParts, GeminiLike, GeminiFormats
<1>3. ASSUME NEW x PROVE Translated(x, "straight") = ClaudeToGemini(params, x)
  BY DEF Translated
<1>4. ASSUME NEW m, NEW e PROVE Read(m, e) = ReadGeminiChunk(m, e)
  BY <1>1 DEF Read
<1>5. FirstParams(route) = ClaudeGeminiParams
  BY DEF FirstParams, GeminiFormats
<1>6. Nothing(route) = NoContent
  BY DEF Nothing
<1>7. Whole = WholeClaudeToGemini(told)
  BY DEF Whole
<1>8. TranslatedDone = params
  BY DEF TranslatedDone
<1>9. ASSUME NEW why PROVE ReasonGarbled(<<>>, why) <=> why = "limit"
  BY DEF ReasonGarbled
<1>10. QED
  BY <1>1, <1>2, <1>3, <1>4, <1>5, <1>6, <1>7, <1>8, <1>9

\* What the converter says to each event.
LEMMA ClaudeToGeminiSays ==
  ASSUME NEW p, NEW e
  PROVE  /\ e.event = "created" => ClaudeToGemini(p, e) = p
         /\ e.event = "open" /\ e.kind = "call" => ClaudeToGemini(p, e) = [p EXCEPT !.call = e.pieces]
         /\ e.event = "open" /\ e.kind \in {"text", "thought"} => ClaudeToGemini(p, e) = p
         /\ e.event = "delta" /\ e.kind = "call" => ClaudeToGemini(p, e) = [p EXCEPT !.call = p.call \o e.pieces]
         /\ e.event = "delta" /\ e.kind \in {"text", "thought"} =>
              ClaudeToGemini(p, e) = SendParts(p, <<Item(e.kind, e.pieces)>>, "")
         /\ e.event = "close" /\ p.call = <<>> => ClaudeToGemini(p, e) = p
         /\ e.event = "close" /\ p.call # <<>> =>
              ClaudeToGemini(p, e) = SendParts([p EXCEPT !.call = <<>>], <<Item("call", p.call)>>, "end")
         /\ e.event = "completed" => ClaudeToGemini(p, e) = SendParts(p, <<>>, "end")
BY DEF ClaudeToGemini, ClaudeDeltaToGemini, ClaudeBlockEndToGemini

\* One chunk.
LEMMA ClaudeGeminiSends ==
  ASSUME NEW ns, NEW ps, NEW why
  PROVE  SendParts(ClaudeGathers(ns), ps, why) = [call |-> ns, out |-> <<Parts(ps, why)>>]
BY OneOf DEF SendParts, ClaudeGathers

\* One of Claude's events goes through the converter and is read.
LEMMA ClaudeGeminiHears ==
  ASSUME route = <<"claude", "gemini">>, NEW ns, params = ClaudeGathers(ns),
         NEW e, HandOn(Translated(e, "straight"))
  PROVE  /\ e.event = "created" => params' = params /\ client' = client
         /\ e.event = "open" /\ e.kind = "call" => params' = ClaudeGathers(e.pieces) /\ client' = client
         /\ e.event = "open" /\ e.kind \in {"text", "thought"} => params' = params /\ client' = client
         /\ e.event = "delta" /\ e.kind = "call" => params' = ClaudeGathers(ns \o e.pieces) /\ client' = client
         /\ e.event = "delta" /\ e.kind \in {"text", "thought"} =>
              params' = params /\ client' = ReadGeminiChunk(client, Parts(<<Item(e.kind, e.pieces)>>, ""))
         /\ e.event = "close" /\ ns = <<>> => params' = params /\ client' = client
         /\ e.event = "close" /\ ns # <<>> =>
              params' = ClaudeGathers(<<>>) /\ client' = ReadGeminiChunk(client, Parts(<<Item("call", ns)>>, "end"))
         /\ e.event = "completed" =>
              params' = params /\ client' = ReadGeminiChunk(client, Parts(<<>>, "end"))
<1> DEFINE o == ClaudeGathers(ns)
           p == ClaudeToGemini(o, e)
<1>1. HandOn(p) /\ \A m, x : Read(m, x) = ReadGeminiChunk(m, x)
  BY ClaudeToGeminiBy
<1>2. /\ o.call = ns /\ o.out = <<>>
      /\ \A c : [o EXCEPT !.call = c] = ClaudeGathers(c)
      /\ \A c : ClaudeGathers(c).out = <<>> /\ [ClaudeGathers(c) EXCEPT !.out = <<>>] = ClaudeGathers(c)
  BY DEF ClaudeGathers
<1> HIDE DEF p
<1>3. /\ params' = [p EXCEPT !.out = <<>>]
      /\ p.out = <<>> => client' = client
      /\ \A x : p.out = <<x>> => client' = ReadGeminiChunk(client, x)
  BY <1>1, HandsOn
<1>4. ASSUME NEW c, p = ClaudeGathers(c) PROVE params' = ClaudeGathers(c) /\ client' = client
  BY <1>2, <1>3, <1>4
<1>5. ASSUME NEW j, NEW ps, NEW why, p = SendParts(ClaudeGathers(j), ps, why)
      PROVE params' = ClaudeGathers(j) /\ client' = ReadGeminiChunk(client, Parts(ps, why))
  <2>1. p = [call |-> j, out |-> <<Parts(ps, why)>>]
    BY <1>5, ClaudeGeminiSends
  <2>2. QED
    BY <1>3, <2>1 DEF ClaudeGathers
<1>a. params = o
  OBVIOUS
<1>b. p = ClaudeToGemini(o, e)
  BY DEF p
<1>c. o = ClaudeGathers(ns)
  OBVIOUS
<1> HIDE DEF o
<1>6. ASSUME e.event = "created" PROVE params' = params /\ client' = client
  <2>1. p = o
    BY <1>6, <1>b, ClaudeToGeminiSays
  <2>2. QED
    BY <1>4, <1>a, <1>c, <2>1
<1>7. ASSUME e.event = "open", e.kind = "call" PROVE params' = ClaudeGathers(e.pieces) /\ client' = client
  <2>1. p = [o EXCEPT !.call = e.pieces]
    BY <1>7, <1>b, ClaudeToGeminiSays
  <2>2. p = ClaudeGathers(e.pieces)
    BY <1>2, <2>1
  <2>3. QED
    BY <1>4, <2>2
<1>8. ASSUME e.event = "open", e.kind \in {"text", "thought"} PROVE params' = params /\ client' = client
  <2>1. p = o
    BY <1>8, <1>b, ClaudeToGeminiSays
  <2>2. QED
    BY <1>4, <1>a, <1>c, <2>1
<1>9. ASSUME e.event = "delta", e.kind = "call" PROVE params' = ClaudeGathers(ns \o e.pieces) /\ client' = client
  <2>1. p = [o EXCEPT !.call = o.call \o e.pieces]
    BY <1>9, <1>b, ClaudeToGeminiSays
  <2>2. p = ClaudeGathers(ns \o e.pieces)
    BY <1>2, <2>1
  <2>3. QED
    BY <1>4, <2>2
<1>10. ASSUME e.event = "delta", e.kind \in {"text", "thought"}
      PROVE  params' = params /\ client' = ReadGeminiChunk(client, Parts(<<Item(e.kind, e.pieces)>>, ""))
  <2>1. p = SendParts(o, <<Item(e.kind, e.pieces)>>, "")
    BY <1>10, <1>b, ClaudeToGeminiSays
  <2>2. QED
    BY <1>5, <1>a, <1>c, <2>1
<1>11. ASSUME e.event = "close", ns = <<>> PROVE params' = params /\ client' = client
  <2>1. p = o
    BY <1>2, <1>11, <1>b, ClaudeToGeminiSays
  <2>2. QED
    BY <1>4, <1>a, <1>c, <2>1
<1>12. ASSUME e.event = "close", ns # <<>>
       PROVE  params' = ClaudeGathers(<<>>) /\ client' = ReadGeminiChunk(client, Parts(<<Item("call", ns)>>, "end"))
  <2>1. p = SendParts([o EXCEPT !.call = <<>>], <<Item("call", o.call)>>, "end")
    BY <1>2, <1>12, <1>b, ClaudeToGeminiSays
  <2>2. p = SendParts(ClaudeGathers(<<>>), <<Item("call", ns)>>, "end")
    BY <1>2, <2>1
  <2>3. QED
    BY <1>5, <2>2
<1>13. ASSUME e.event = "completed"
       PROVE  params' = params /\ client' = ReadGeminiChunk(client, Parts(<<>>, "end"))
  <2>1. p = SendParts(o, <<>>, "end")
    BY <1>13, <1>b, ClaudeToGeminiSays
  <2>2. QED
    BY <1>5, <1>a, <1>c, <2>1
<1>14. QED
  BY <1>6, <1>7, <1>8, <1>9, <1>10, <1>11, <1>12, <1>13

\* A chunk read by a client that gathers.
PieceChunk(kind, n) == Parts(<<Item(kind, <<n>>)>>, "")

\* which the client has then;
LEMMA GathersPiece ==
  ASSUME NEW m, NEW heard, Gathers(m, heard), NEW kind \in ItemKinds, kind # "call", NEW n \in Nat, NEW now,
         Joined(now) = AddPiece(Joined(heard), kind, n)
  PROVE  /\ Gathers(ReadGeminiChunk(m, PieceChunk(kind, n)), now)
         /\ ReadGeminiChunk(m, PieceChunk(kind, n)).reasons = m.reasons
<1> DEFINE is == m.items
           rs == m.reasons
           more == <<Item(kind, <<n>>)>>
           x == ReadGeminiChunk(m, Parts(more, ""))
<1>1. m = Content(is, rs) /\ is \in Seq(Items) /\ rs \in Seq({"end"}) /\ Joined(is) = Joined(heard)
  BY DEF Gathers
<1> HIDE DEF is, rs
<1>2. is \o more \in Seq(Items) /\ Joined(is \o more) = AddPiece(Joined(is), kind, n)
  BY <1>1, PieceJoined
<1> HIDE DEF more
<1>3. ReadGeminiChunk(Content(is, rs), Parts(more, "")) = Content(is \o more, rs)
  BY GeminiReads, ZenonT(60)
<1>4. x = Content(is \o more, rs)
  BY <1>1, <1>3
<1> HIDE DEF x
<1>5. x = Content(x.items, x.reasons) /\ x.items = is \o more /\ x.reasons = rs
  BY <1>4 DEF Content
<1>6. QED
  BY <1>1, <1>2, <1>5 DEF Gathers, PieceChunk, x, more, rs

\* a call with its reason,
LEMMA GathersCall ==
  ASSUME NEW m, NEW heard, Gathers(m, heard), NEW x \in Items, x.kind = "call", NEW now, now = Append(heard, x), heard \in Seq(Items)
  PROVE  /\ Gathers(ReadGeminiChunk(m, Parts(<<x>>, "end")), now)
         /\ ReadGeminiChunk(m, Parts(<<x>>, "end")).reasons = Append(m.reasons, "end")
<1> DEFINE is == m.items
           rs == m.reasons
           more == <<x>>
           ss == Append(rs, "end")
           y == ReadGeminiChunk(m, Parts(more, "end"))
<1>1. m = Content(is, rs) /\ is \in Seq(Items) /\ rs \in Seq({"end"}) /\ Joined(is) = Joined(heard)
  BY DEF Gathers
<1>a. ss \in Seq({"end"})
  BY <1>1, AppendProperties
<1> HIDE DEF is
<1>2. is \o more \in Seq(Items) /\ Joined(is \o more) = Append(Joined(is), x)
  BY <1>1, CallJoined
<1> HIDE DEF more
<1>3. ReadGeminiChunk(Content(is, rs), Parts(more, "end")) = Content(is \o more, ss)
  BY DEF ReadGeminiChunk, Content, Parts
<1>4. y = Content(is \o more, ss)
  BY <1>1, <1>3
<1> HIDE DEF y, ss, rs
<1>5. y = Content(y.items, y.reasons) /\ y.items = is \o more /\ y.reasons = ss
  BY <1>4 DEF Content
<1>6. Joined(now) = Append(Joined(heard), x)
  BY JoinedOf
<1>7. QED
  BY <1>1, <1>2, <1>a, <1>5, <1>6 DEF Gathers, y, more, ss, rs

\* and the end.
LEMMA GathersEnd ==
  ASSUME NEW m, NEW heard, Gathers(m, heard)
  PROVE  /\ Gathers(ReadGeminiChunk(m, Parts(<<>>, "end")), heard)
         /\ ReadGeminiChunk(m, Parts(<<>>, "end")).reasons = Append(m.reasons, "end")
<1> DEFINE is == m.items
           rs == m.reasons
           ss == Append(rs, "end")
           y == ReadGeminiChunk(m, Parts(<<>>, "end"))
<1>1. m = Content(is, rs) /\ is \in Seq(Items) /\ rs \in Seq({"end"}) /\ Joined(is) = Joined(heard)
  BY DEF Gathers
<1>a. ss \in Seq({"end"})
  BY <1>1, AppendProperties
<1> HIDE DEF is
<1>2. is \o <<>> = is
  BY <1>1, ItemsConcat
<1>3. ReadGeminiChunk(Content(is, rs), Parts(<<>>, "end")) = Content(is \o <<>>, ss)
  BY DEF ReadGeminiChunk, Content, Parts
<1>4. y = Content(is, ss)
  BY <1>1, <1>2, <1>3
<1> HIDE DEF y, ss, rs
<1>5. y = Content(y.items, y.reasons) /\ y.items = is /\ y.reasons = ss
  BY <1>4 DEF Content
<1>6. QED
  BY <1>1, <1>a, <1>5 DEF Gathers, y, ss, rs

\* So it begins,
LEMMA ClaudeGeminiBegins == TranslationInit /\ route = <<"claude", "gemini">> => ClaudeGeminiArrives
<1> SUFFICES ASSUME TranslationInit, route = <<"claude", "gemini">> PROVE ClaudeGeminiArrives
  OBVIOUS
<1>1. told = <<>> /\ block = "" /\ stage = "new" /\ params = ClaudeGeminiParams /\ client = NoContent
  BY ClaudeToGeminiBy DEF TranslationInit
<1>2. Heard = <<>> /\ GatheredCall = <<>>
  BY <1>1 DEF Heard, GatheredCall
<1>3. params = ClaudeGathers(GatheredCall)
  BY <1>1, <1>2 DEF ClaudeGathers, ClaudeGeminiParams
<1>4. <<>> \in Seq(Items) /\ <<>> \in Seq({"end"})
  BY EmptySeq
<1>5. client = Content(<<>>, <<>>) /\ client.items = <<>> /\ client.reasons = <<>>
  BY <1>1 DEF NoContent, Content
<1>6. Gathers(client, Heard)
  BY <1>2, <1>4, <1>5 DEF Gathers
<1>7. QED
  BY <1>1, <1>3, <1>5, <1>6 DEF ClaudeGeminiArrives

\* the invariant stays,
LEMMA ClaudeGeminiGoesOn ==
  ASSUME ClaudeGeminiArrives, Upstream, [TranslationNext]_translationVars
  PROVE  ClaudeGeminiArrives'
<1> DEFINE o == GatheredCall
<1>1. route = <<"claude", "gemini">> /\ params = ClaudeGathers(o) /\ Gathers(client, Heard)
  BY DEF ClaudeGeminiArrives
<1>2. told \in Seq(Items) /\ Heard \in Seq(Items) /\ BlockRoute
  BY HeardIs DEF Upstream
<1>4. CASE UNCHANGED translationVars
  BY <1>4 DEF ClaudeGeminiArrives, translationVars, Gathers, Heard, GatheredCall
<1>5. ASSUME TranslationNext PROVE route' = <<"claude", "gemini">> /\ lapsed \subseteq lapsed'
  BY <1>1, <1>5, RouteStays, StaysLapsed
<1>t. ASSUME block # "call" PROVE o = <<>>
  BY <1>t DEF GatheredCall
<1>u. ASSUME block' # "call" PROVE GatheredCall' = <<>>
  BY <1>u DEF GatheredCall
\* While the upstream speaks, a reason comes with a call.
<1>6. ASSUME TranslationNext, stage' = "speaking", params' = ClaudeGathers(GatheredCall'), Gathers(client', Heard'),
             client'.reasons # <<>> => CallCount(told') > 0
      PROVE  ClaudeGeminiArrives'
  <2>1. params' = ClaudeGathers(GatheredCall)'
    BY <1>6 DEF ClaudeGathers
  <2>2. QED
    BY <1>5, <1>6, <2>1 DEF ClaudeGeminiArrives
<1>7. ASSUME NEW x, stage \in {"new", "speaking"}, Joined(x) = Joined(Heard) PROVE Gathers(client, x)
  BY <1>1, <1>7 DEF Gathers
<1>8. stage \in {"new", "speaking"} /\ client.reasons # <<>> => CallCount(told) > 0
  BY DEF ClaudeGeminiArrives
<1>9. ASSUME params' = params, block # "call", block' # "call" PROVE params' = ClaudeGathers(GatheredCall')
  BY <1>1, <1>9, <1>t, <1>u
<1> HIDE DEF o
<1>10. CASE SayCreated
  <2> DEFINE e == Event("created", "", <<>>)
  <2>1. stage = "new" /\ stage' = "speaking" /\ UNCHANGED <<told, block>> /\ HandOn(Translated(e, "straight")) /\ TranslationNext
    BY <1>10 DEF SayCreated, TranslationNext
  <2>2. e.event = "created"
    BY EventIs DEF Event
  <2> HIDE DEF e
  <2>3. params' = params /\ client' = client
    BY <1>1, <2>1, <2>2, ClaudeGeminiHears
  <2>4. Heard' = Heard
    BY <2>1, SameHeard
  <2>5. block = "" /\ block' = ""
    BY <2>1 DEF Upstream
  <2>6. params' = ClaudeGathers(GatheredCall')
    BY <1>9, <2>3, <2>5
  <2>7. Gathers(client', Heard')
    BY <1>1, <2>3, <2>4
  <2>8. QED
    BY <1>6, <1>8, <2>1, <2>3, <2>6, <2>7
<1>11. ASSUME NEW kind \in ItemKinds, SayOpen(kind) PROVE ClaudeGeminiArrives'
  <2> DEFINE ns == IF kind = "call" THEN <<said + 1>> ELSE <<>>
             e == Event("open", kind, ns)
             x == Item(kind, ns)
  <2>1. stage = "speaking" /\ stage' = stage /\ HandOn(Translated(e, "straight")) /\ TranslationNext /\ block = "" /\ block' = kind
    BY <1>11 DEF SayOpen, TranslationNext, ItemKinds
  <2>2. e.event = "open" /\ e.kind = kind /\ e.pieces = ns
    BY EventIs
  <2>3. told' = Append(told, x) /\ x \in Items /\ x.pieces = ns
    BY <1>11, Hears DEF Opens, Item
  <2> HIDE DEF e, ns, x
  <2>4. client' = client /\ params' = ClaudeGathers(GatheredCall')
    <3>1. CASE kind = "call"
      <4>1. params' = ClaudeGathers(ns) /\ client' = client
        BY <1>1, <2>1, <2>2, <3>1, ClaudeGeminiHears
      <4>2. Last(told') = x
        BY <1>2, <2>3, EndsWithAppend
      <4>3. GatheredCall' = ns
        BY <2>1, <2>3, <3>1, <4>2 DEF GatheredCall
      <4>4. QED
        BY <4>1, <4>3
    <3>2. CASE kind # "call"
      <4>1. params' = params /\ client' = client
        BY <1>1, <2>1, <2>2, <3>2, ClaudeGeminiHears DEF ItemKinds
      <4>2. QED
        BY <1>9, <2>1, <3>2, <4>1
    <3>3. QED
      BY <3>1, <3>2
  <2>5. Joined(Heard') = Joined(Heard)
    BY <1>11, OpenJoined
  <2>6. Gathers(client', Heard')
    <3> DEFINE h == Heard'
    <3>1. stage \in {"new", "speaking"} /\ Joined(h) = Joined(Heard)
      BY <2>1, <2>5
    <3> HIDE DEF h
    <3>2. Gathers(client, h)
      BY <1>7, <3>1
    <3>3. QED
      BY <2>4, <3>2 DEF h
  <2>7. CallCount(told) > 0 => CallCount(told') > 0
    <3>1. CallCount(told) \in Nat /\ CallCount(told') = CallCount(told) + (IF x.kind = "call" THEN 1 ELSE 0)
      BY <1>2, <2>3, CallsCounted
    <3>2. QED
      BY <3>1
  <2>8. QED
    BY <1>6, <1>8, <2>1, <2>4, <2>6, <2>7
<1>12. CASE SayDelta
  <2> DEFINE n == said + 1
             e == Event("delta", block, <<n>>)
  <2>1. /\ stage = "speaking" /\ stage' = stage /\ block # "" /\ block' = block /\ HandOn(Translated(e, "straight")) /\ TranslationNext
    BY <1>12 DEF SayDelta, TranslationNext
  <2>2. e.event = "delta" /\ e.kind = block /\ e.pieces = <<n>>
    BY EventIs
  <2>3. n \in Nat /\ block \in ItemKinds
    <3>1. said \in Nat /\ block \in ItemKinds
      BY <2>1 DEF Upstream
    <3>2. QED
      BY <3>1
  <2>4. block # "call" => Heard = told /\ Heard' = told' /\ Joined(told') = AddPiece(Joined(told), block, n)
    BY <1>12, DeltaJoined
  <2>5. block = "call" => Heard' = Heard
    BY <1>12, DeltaHeard
  <2>g. PICK q, x : Grows(q, x, n)
    BY <1>12, Hears
  <2> HIDE DEF e, n
  <2>6. /\ q \in Seq(Items) /\ x \in Items /\ told = Append(q, x) /\ told' = Append(q, Grown(x, n))
        /\ Grown(x, n) \in Items /\ Grown(x, n).pieces = Append(x.pieces, n) /\ Grown(x, n).kind = x.kind
    BY <2>3, <2>g, GrownIs DEF Grows
  <2>7. CallCount(told') = CallCount(told)
    BY <2>6, CallsCounted
  <2>8. CASE block = "call"
    <3> DEFINE ns == Last(told).pieces
    <3>1. o = ns
      BY <2>8 DEF GatheredCall, o
    <3>2. Last(told) = x /\ Last(told') = Grown(x, n) /\ x.pieces \in Seq(Nat)
      BY <2>6, EndsWithAppend DEF Items
    <3>3. Last(told').pieces = ns \o <<n>>
      BY <2>3, <2>6, <3>2, ConcatOne
    <3>4. GatheredCall' = ns \o <<n>>
      BY <2>1, <2>8, <3>3 DEF GatheredCall
    <3> HIDE DEF ns
    <3>5. params' = ClaudeGathers(ns \o <<n>>) /\ client' = client
      BY <1>1, <2>1, <2>2, <2>8, <3>1, ClaudeGeminiHears
    <3>6. params' = ClaudeGathers(GatheredCall')
      BY <3>4, <3>5
    <3>7. Gathers(client', Heard')
      BY <1>1, <2>5, <2>8, <3>5
    <3>8. QED
      BY <1>6, <1>8, <2>1, <2>7, <3>5, <3>6, <3>7
  <2>9. CASE block # "call"
    <3> DEFINE after == ReadGeminiChunk(client, PieceChunk(block, n))
               h == Heard'
    <3>1. params' = params /\ client' = after
      BY <1>1, <2>1, <2>2, <2>3, <2>9, ClaudeGeminiHears DEF ItemKinds, PieceChunk
    <3>2. Joined(h) = AddPiece(Joined(Heard), block, n)
      BY <2>4, <2>9
    <3> HIDE DEF h
    <3>3. Gathers(after, h) /\ after.reasons = client.reasons
      BY <1>1, <2>3, <2>9, <3>2, GathersPiece
    <3> HIDE DEF after
    <3>4. params' = ClaudeGathers(GatheredCall')
      BY <1>9, <2>1, <2>9, <3>1
    <3>5. Gathers(client', Heard')
      BY <3>1, <3>3 DEF h
    <3>6. QED
      BY <1>6, <1>8, <2>1, <2>7, <3>1, <3>3, <3>4, <3>5
  <2>10. QED
    BY <2>8, <2>9
<1>13. CASE SayClose
  <2> DEFINE e == Event("close", block, <<>>)
  <2>1. /\ stage = "speaking" /\ stage' = stage /\ block # "" /\ block' = "" /\ HandOn(Translated(e, "straight")) /\ TranslationNext
    BY <1>13 DEF SayClose, TranslationNext
  <2>2. e.event = "close"
    BY EventIs
  <2> HIDE DEF e
  <2>3. CASE block = "call"
    <3> DEFINE x == Last(told)
               after == ReadGeminiChunk(client, Parts(<<x>>, "end"))
               h == Heard'
    <3>1. told' = told /\ h = told /\ x \in Items /\ x.kind = "call" /\ told = Append(Heard, x)
      BY <1>13, <2>3, CloseHeard
    <3>2. o = x.pieces
      BY <2>3 DEF GatheredCall, o
    <3> HIDE DEF x, h
    <3>3. Item("call", x.pieces) = x /\ x.pieces # <<>>
      BY <3>1, CallItem
    <3>4. o # <<>> /\ Item("call", o) = x
      BY <3>2, <3>3
    <3>5. params' = ClaudeGathers(<<>>) /\ client' = ReadGeminiChunk(client, Parts(<<Item("call", o)>>, "end"))
      BY <1>1, <2>1, <2>2, <3>4, ClaudeGeminiHears
    <3>6. params' = ClaudeGathers(GatheredCall') /\ client' = after
      BY <1>u, <2>1, <3>4, <3>5
    <3>7. Gathers(after, h)
      BY <1>1, <1>2, <3>1, GathersCall
    <3>8. Gathers(client', Heard')
      BY <3>6, <3>7 DEF h
    <3>9. CallCount(told') > 0
      <4>1. CallCount(Heard) \in Nat /\ CallCount(Append(Heard, x)) = CallCount(Heard) + 1
        BY <1>2, <3>1, CallsCounted
      <4>2. CallCount(told') = CallCount(Heard) + 1
        BY <3>1, <4>1
      <4>3. QED
        BY <4>1, <4>2
    <3>10. QED
      BY <1>6, <2>1, <3>6, <3>8, <3>9
  <2>4. CASE block # "call"
    <3>1. o = <<>>
      BY <1>t, <2>4
    <3>2. params' = params /\ client' = client
      BY <1>1, <2>1, <2>2, <3>1, ClaudeGeminiHears
    <3>3. told' = told /\ Heard' = Heard
      BY <1>13, <2>4, CloseHeard
    <3>4. params' = ClaudeGathers(GatheredCall')
      BY <1>9, <2>1, <2>4, <3>2
    <3>5. Gathers(client', Heard')
      BY <1>1, <3>2, <3>3
    <3>6. QED
      BY <1>6, <1>8, <2>1, <3>2, <3>3, <3>4, <3>5
  <2>5. QED
    BY <2>3, <2>4
<1>14. CASE SayCompleted
  <2>1. PICK why \in {"end", "limit"} :
          /\ finish' = why
          /\ Noted(FALSE, ReasonGarbled(<<>>, why))
          /\ HandOn(Translated([Event("completed", "", <<>>) EXCEPT !.reason = Reason(told, why)], "straight"))
    BY <1>14 DEF SayCompleted
  <2> DEFINE reason == Reason(told, why)
             e == [Event("completed", "", <<>>) EXCEPT !.reason = reason]
             after == ReadGeminiChunk(client, Parts(<<>>, "end"))
  <2>2. /\ stage = "speaking" /\ stage' = "finished" /\ block = "" /\ UNCHANGED <<told, block>>
        /\ HandOn(Translated(e, "straight")) /\ TranslationNext
    BY <1>14, <2>1 DEF SayCompleted, TranslationNext
  <2>4. e.event = "completed"
    BY CompletedIs
  <2> HIDE DEF e
  <2>5. Heard' = Heard
    BY <2>2, SameHeard
  <2>6. "reason" \notin lapsed' => finish' # "limit"
    <3>1. ReasonGarbled(<<>>, why) <=> why = "limit"
      BY <1>1, ClaudeToGeminiBy
    <3>2. QED
      BY <2>1, <3>1 DEF Noted
  <2>8. params' = params /\ client' = after
    BY <1>1, <2>2, <2>4, ClaudeGeminiHears
  <2>9. Gathers(after, Heard) /\ after.reasons = Append(client.reasons, "end")
    BY <1>1, GathersEnd
  <2> HIDE DEF after
  <2>10. client'.reasons # <<>>
    <3>1. client.reasons \in Seq({"end"}) /\ "end" \in {"end"}
      BY <1>1 DEF Gathers
    <3>2. Append(client.reasons, "end") # <<>>
      BY <3>1, AppendProperties
    <3>3. QED
      BY <2>8, <2>9, <3>2
  <2>12. Gathers(client', Heard')
    BY <2>5, <2>8, <2>9
  <2>13. params' = ClaudeGathers(GatheredCall)'
    BY <1>9, <2>2, <2>8 DEF ClaudeGathers
  <2>14. QED
    BY <1>5, <2>2, <2>6, <2>10, <2>12, <2>13 DEF ClaudeGeminiArrives
<1>15. ASSUME TranslationNext, HandOn(params), UNCHANGED <<told, block, finish>>
       PROVE  /\ params' = ClaudeGathers(GatheredCall)' /\ client' = client /\ Gathers(client', Heard')
  <2>1. params' = params /\ client' = client
    <3>1. params.out = <<>> /\ [params EXCEPT !.out = <<>>] = params
      BY <1>1 DEF ClaudeGathers
    <3>2. QED
      BY <1>15, <3>1, HandsOn
  <2>2. Heard' = Heard
    BY <1>15, SameHeard
  <2>a. params' = ClaudeGathers(GatheredCall)'
    BY <1>1, <1>15, <2>1 DEF o, GatheredCall, ClaudeGathers
  <2>6. QED
    BY <1>1, <2>a, <2>1, <2>2
<1>16. CASE AnswerEnds
  <2>1. stage = "finished" /\ stage' = "over" /\ UNCHANGED <<told, block, finish, lapsed>> /\ HandOn(params) /\ TranslationNext
    BY <1>1, <1>16, ClaudeToGeminiBy DEF AnswerEnds, TranslationNext
  <2>2. client.reasons # <<>> /\ ("reason" \notin lapsed => finish # "limit")
    BY <2>1 DEF ClaudeGeminiArrives
  <2>3. QED
    BY <1>5, <1>15, <2>1, <2>2 DEF ClaudeGeminiArrives
<1>17. CASE AnswerBreaks
  <2>1. /\ stage \in {"new", "speaking"} /\ stage' = "cut" /\ UNCHANGED <<told, block, finish>> /\ HandOn(params) /\ TranslationNext
        /\ Noted(route = <<"antigravity", "claude">> \/ (To = "gemini" /\ ToldKind({"call"})), FALSE) /\ To = "gemini"
    BY <1>1, <1>17, ClaudeToGeminiBy DEF AnswerBreaks, TranslationNext
  <2>2. "content" \notin lapsed' => client.reasons = <<>>
    <3>1. CallCount(told) > 0 <=> \E i \in DOMAIN told : told[i].kind = "call"
      BY <1>2, CallTold
    <3>2. CallCount(told) > 0 => ToldKind({"call"})
      BY <3>1 DEF ToldKind
    <3>3. QED
      BY <1>8, <2>1, <3>2 DEF Noted
  <2>3. QED
    BY <1>5, <1>15, <2>1, <2>2 DEF ClaudeGeminiArrives
<1>18. CASE SayUsage
  BY <1>18 DEF SayUsage, Upstream
<1>19. QED
  BY <1>2, <1>4, <1>10, <1>11, <1>12, <1>13, <1>14, <1>16, <1>17, <1>18, SpokenInBlocks

\* The last of a list of the same.
LEMMA LastEnd == \A s \in Seq({"end"}) : s # <<>> => Last(s) = "end"
<1> SUFFICES ASSUME NEW s \in Seq({"end"}), s # <<>> PROVE Last(s) = "end"
  OBVIOUS
<1>1. Len(s) \in Nat \ {0}
  BY LenProperties, EmptySeq
<1>2. Len(s) \in 1..Len(s)
  BY <1>1
<1>3. s[Len(s)] \in {"end"}
  BY <1>2, ElementOfSeq
<1>4. QED
  BY <1>3 DEF Last

\* and the client has what was told.
LEMMA ClaudeGeminiArrived == ClaudeGeminiArrives /\ Upstream => AnswersArrive
<1> SUFFICES ASSUME ClaudeGeminiArrives, Upstream PROVE AnswersArrive
  OBVIOUS
<1>1. route = <<"claude", "gemini">> /\ From = "claude" /\ To = "gemini" /\ Whole = WholeClaudeToGemini(told)
  BY ClaudeToGeminiBy DEF ClaudeGeminiArrives
<1>2. told \in Seq(Items) /\ (stage = "over" => block = "" /\ finish \in {"end", "limit"})
  BY <1>1 DEF Upstream
<1>3. stage = "over" => ContentArrived
  <2>1. stage = "over" => Heard = told
    BY <1>2 DEF Heard
  <2>2. stage = "over" => Joined(client.items) = Joined(told)
    BY <2>1 DEF ClaudeGeminiArrives, Gathers
  <2>4. QED
    BY <1>1, <2>2 DEF ContentArrived
<1>r. finish # "limit" => Reason(told, finish) # "limit"
  BY DEF Reason
<1>4. stage = "over" /\ lapsed = {} => ReasonArrived
  <2>1. stage = "over" /\ lapsed = {} => client.reasons \in Seq({"end"}) /\ client.reasons # <<>> /\ finish # "limit"
    BY DEF ClaudeGeminiArrives, Gathers
  <2>2. stage = "over" /\ lapsed = {} => Last(client.reasons) = "end"
    BY <2>1, LastEnd
  <2>3. QED
    BY <1>1, <1>r, <2>1, <2>2 DEF ReasonArrived
<1>5. stage = "cut" /\ lapsed = {} => ~LooksWhole
  BY <1>1 DEF ClaudeGeminiArrives, LooksWhole
<1>6. stage = "over" => WholeAgrees(Whole)
  <2> DEFINE w == WholeClaudeToGemini(told)
  <2>1. Joined(w.parts) = Joined(told)
    BY <1>2, JoinedTwice DEF WholeClaudeToGemini, ConsolidateParts, Parts
  <2>2. w.finish = "end"
    BY DEF WholeClaudeToGemini, Parts
  <2>3. ~WholeLosesReason => finish # "limit"
    BY <1>1, ClaudeToGeminiBy DEF WholeLosesReason
  <2> HIDE DEF w
  <2>4. QED
    BY <1>1, <1>r, <2>1, <2>2, <2>3 DEF WholeAgrees, w
<1>7. AnswerArrives
  BY <1>1, <1>3, <1>4, <1>5 DEF AnswerArrives
<1>8. QED
  BY <1>6, <1>7 DEF AnswersArrive, WholeArrives
----------------------------------------------------------------------------
(* Codex to Gemini.                                                        *)

\* The converter of Codex's events keeps every call back.
CodexStores(cs) == [stored |-> cs, out |-> <<>>]

\* What holds as long as no run was opened behind a call.
CodexGeminiKeeps ==
  /\ params = CodexStores(Calls(Heard))
  /\ client = Content(client.items, client.reasons) /\ client.items \in Seq(Items)
  /\ block \in {"thought", "text"} => Calls(Heard) = <<>>
  /\ stage \in {"new", "speaking"} => Joined(client.items \o Calls(Heard)) = Joined(Heard)
  /\ stage \in {"finished", "over"} => Joined(client.items) = Joined(Heard)
  /\ client.reasons = IF stage \in {"finished", "over"} /\ Calls(Heard) # <<>> THEN <<"end">> ELSE <<>>

\* Codex to Gemini: calls are stored to the end, so that the order is lost
\* once a run opens behind a call; and a reason comes with calls alone.
CodexGeminiArrives ==
  /\ route = <<"codex", "gemini">>
  /\ "content" \notin lapsed => CodexGeminiKeeps
  /\ "reason" \notin lapsed /\ stage \in {"finished", "over"} => CallCount(told) > 0

\* The route's converter and client, and what lapses.
LEMMA CodexToGeminiBy ==
  ASSUME route = <<"codex", "gemini">>
  PROVE  /\ \A x : Translated(x, "straight") = CodexToGemini(params, x)
         /\ \A m, e : Read(m, e) = ReadGeminiChunk(m, e)
         /\ From = "codex" /\ To = "gemini" /\ ~InParts /\ ~GeminiLike
         /\ FirstParams(route) = CodexGeminiParams /\ Nothing(route) = NoContent
         /\ Whole = WholeCodexToGemini(told) /\ TranslatedDone = params
         /\ \A why : ReasonGarbled(<<>>, why) <=> why # "" /\ ~ToldKind({"call"})
         /\ \A kind : BlockGarbled(kind) <=> kind # "call" /\ ToldKind({"call"})
<1>1. From = "codex" /\ To = "gemini"
  BY DEF From, To
<1>2. ~InParts /\ ~GeminiLike
  BY <1>1 DEF InParts, GeminiLike, GeminiFormats
<1>3. ASSUME NEW x PROVE Translated(x, "straight") = CodexToGemini(params, x)
  BY DEF Translated
<1>4. ASSUME NEW m, NEW e PROVE Read(m, e) = ReadGeminiChunk(m, e)
  BY <1>1 DEF Read
<1>5. FirstParams(route) = CodexGeminiParams
  BY DEF FirstParams, GeminiFormats
<1>6. Nothing(route) = NoContent
  BY DEF Nothing
<1>7. Whole = WholeCodexToGemini(told)
  BY DEF Whole
<1>8. TranslatedDone = params
  BY DEF TranslatedDone
<1>9. ASSUME NEW why PROVE ReasonGarbled(<<>>, why) <=> why # "" /\ ~ToldKind({"call"})
  BY DEF ReasonGarbled
<1>10. ASSUME NEW kind PROVE BlockGarbled(kind) <=> kind # "call" /\ ToldKind({"call"})
  BY DEF BlockGarbled
<1>11. QED
  BY <1>1, <1>2, <1>3, <1>4, <1>5, <1>6, <1>7, <1>8, <1>9, <1>10

\* What the converter says to each event.
LEMMA CodexToGeminiSays ==
  ASSUME NEW p, NEW e
  PROVE  /\ e.event = "open" => CodexToGemini(p, e) = p
         /\ e.event = "delta" /\ e.kind = "call" => CodexToGemini(p, e) = p
         /\ e.event = "close" /\ e.kind # "call" => CodexToGemini(p, e) = p
         /\ e.event = "close" /\ e.kind = "call" => CodexToGemini(p, e) = [p EXCEPT !.stored = Append(p.stored, Item("call", e.item))]
         /\ e.event = "delta" /\ e.kind # "call" /\ p.stored = <<>> =>
              CodexToGemini(p, e) = SendParts(p, <<Item(e.kind, e.pieces)>>, "")
         /\ e.event \in {"created", "completed"} /\ p.stored = <<>> => CodexToGemini(p, e) = SendParts(p, <<>>, "")
         /\ e.event \in {"created", "completed"} /\ p.stored # <<>> =>
              CodexToGemini(p, e) = SendParts(SendParts(p, p.stored, "end"), <<>>, "")
<1>1. p.stored = <<>> => (IF p.stored = <<>> THEN p ELSE SendParts(p, p.stored, "end")) = p
  OBVIOUS
<1>2. p.stored # <<>> => (IF p.stored = <<>> THEN p ELSE SendParts(p, p.stored, "end")) = SendParts(p, p.stored, "end")
  OBVIOUS
<1>3. QED
  BY <1>1, <1>2 DEF CodexToGemini

\* One chunk,
LEMMA CodexGeminiSends ==
  ASSUME NEW cs, NEW ps, NEW why
  PROVE  SendParts(CodexStores(cs), ps, why) = [stored |-> cs, out |-> <<Parts(ps, why)>>]
BY OneOf DEF SendParts, CodexStores

\* and two.
LEMMA CodexGeminiSendsTwo ==
  ASSUME NEW cs, NEW ps, NEW why, NEW qs, NEW reason
  PROVE  SendParts(SendParts(CodexStores(cs), ps, why), qs, reason)
         = [stored |-> cs, out |-> <<Parts(ps, why), Parts(qs, reason)>>]
<1> DEFINE c == Parts(ps, why)
           d == Parts(qs, reason)
           p == [stored |-> cs, out |-> <<c>>]
<1>1. SendParts(CodexStores(cs), ps, why) = p
  BY CodexGeminiSends
<1> HIDE DEF c
<1>2. SendParts(p, qs, reason) = [p EXCEPT !.out = Append(p.out, d)]
  BY DEF SendParts
<1> HIDE DEF d
<1>3. Append(<<c>>, d) = <<c, d>> /\ p.out = <<c>>
  BY OneOf
<1>4. [p EXCEPT !.out = <<c, d>>] = [stored |-> cs, out |-> <<c, d>>]
  OBVIOUS
<1> HIDE DEF p
<1>5. QED
  BY <1>1, <1>2, <1>3, <1>4 DEF c, d

\* One of Codex's events goes through the converter and is read.
LEMMA CodexGeminiHears ==
  ASSUME route = <<"codex", "gemini">>, NEW cs, params = CodexStores(cs),
         NEW e, HandOn(Translated(e, "straight"))
  PROVE  /\ e.event = "open" => params' = params /\ client' = client
         /\ e.event = "delta" /\ e.kind = "call" => params' = params /\ client' = client
         /\ e.event = "close" /\ e.kind # "call" => params' = params /\ client' = client
         /\ e.event = "close" /\ e.kind = "call" =>
              params' = CodexStores(Append(cs, Item("call", e.item))) /\ client' = client
         /\ e.event = "delta" /\ e.kind # "call" /\ cs = <<>> =>
              params' = params /\ client' = ReadGeminiChunk(client, Parts(<<Item(e.kind, e.pieces)>>, ""))
         /\ e.event \in {"created", "completed"} /\ cs = <<>> =>
              params' = params /\ client' = ReadGeminiChunk(client, Parts(<<>>, ""))
         /\ e.event \in {"created", "completed"} /\ cs # <<>> =>
              params' = params /\ client' = ReadGeminiChunk(ReadGeminiChunk(client, Parts(cs, "end")), Parts(<<>>, ""))
<1> DEFINE o == CodexStores(cs)
           p == CodexToGemini(o, e)
<1>1. HandOn(p) /\ \A m, x : Read(m, x) = ReadGeminiChunk(m, x)
  BY CodexToGeminiBy
<1>2. /\ o.stored = cs /\ o.out = <<>>
      /\ \A c : [o EXCEPT !.stored = c] = CodexStores(c)
      /\ \A c : CodexStores(c).out = <<>> /\ [CodexStores(c) EXCEPT !.out = <<>>] = CodexStores(c)
  BY DEF CodexStores
<1> HIDE DEF p
<1>3. /\ params' = [p EXCEPT !.out = <<>>]
      /\ p.out = <<>> => client' = client
      /\ \A x : p.out = <<x>> => client' = ReadGeminiChunk(client, x)
      /\ \A x, y : p.out = <<x, y>> => client' = ReadGeminiChunk(ReadGeminiChunk(client, x), y)
  BY <1>1, HandsOn
<1>4. ASSUME NEW c, p = CodexStores(c) PROVE params' = CodexStores(c) /\ client' = client
  BY <1>2, <1>3, <1>4
<1>5. ASSUME NEW ps, p = SendParts(o, ps, "")
      PROVE params' = o /\ client' = ReadGeminiChunk(client, Parts(ps, ""))
  <2>1. p = [stored |-> cs, out |-> <<Parts(ps, "")>>]
    BY <1>5, CodexGeminiSends
  <2>2. QED
    BY <1>3, <2>1 DEF CodexStores
<1>a. params = o
  OBVIOUS
<1>b. p = CodexToGemini(o, e)
  BY DEF p
<1>c. o = CodexStores(cs)
  OBVIOUS
<1> HIDE DEF o
<1>6. ASSUME \/ e.event = "open"
             \/ e.event = "delta" /\ e.kind = "call"
             \/ e.event = "close" /\ e.kind # "call" PROVE params' = params /\ client' = client
  <2>1. p = o
    BY <1>6, <1>b, CodexToGeminiSays
  <2>2. QED
    BY <1>4, <1>a, <1>c, <2>1
<1>7. ASSUME e.event = "close", e.kind = "call"
      PROVE  params' = CodexStores(Append(cs, Item("call", e.item))) /\ client' = client
  <2>1. p = [o EXCEPT !.stored = Append(o.stored, Item("call", e.item))]
    BY <1>7, <1>b, CodexToGeminiSays
  <2>2. p = CodexStores(Append(cs, Item("call", e.item)))
    BY <1>2, <2>1
  <2>3. QED
    BY <1>4, <2>2
<1>8. ASSUME e.event = "delta", e.kind # "call", cs = <<>>
      PROVE  params' = params /\ client' = ReadGeminiChunk(client, Parts(<<Item(e.kind, e.pieces)>>, ""))
  <2>1. p = SendParts(o, <<Item(e.kind, e.pieces)>>, "")
    BY <1>2, <1>8, <1>b DEF CodexToGemini
  <2>2. QED
    BY <1>5, <1>a, <2>1
<1>9. ASSUME e.event \in {"created", "completed"}, cs = <<>>
      PROVE  params' = params /\ client' = ReadGeminiChunk(client, Parts(<<>>, ""))
  <2>1. p = SendParts(o, <<>>, "")
    BY <1>2, <1>9, <1>b, CodexToGeminiSays
  <2>2. QED
    BY <1>5, <1>a, <2>1
<1>10. ASSUME e.event \in {"created", "completed"}, cs # <<>>
       PROVE  params' = params /\ client' = ReadGeminiChunk(ReadGeminiChunk(client, Parts(cs, "end")), Parts(<<>>, ""))
  <2>1. p = SendParts(SendParts(o, o.stored, "end"), <<>>, "")
    BY <1>2, <1>10, <1>b, CodexToGeminiSays
  <2>2. p = SendParts(SendParts(CodexStores(cs), cs, "end"), <<>>, "")
    BY <1>2, <1>c, <2>1
  <2> DEFINE none == <<>>
             end == "end"
             on == ""
             c == Parts(cs, end)
             d == Parts(none, on)
  <2>3. p = SendParts(SendParts(CodexStores(cs), cs, end), none, on)
    BY <2>2
  <2> HIDE DEF none, end, on
  <2>a. p = [stored |-> cs, out |-> <<c, d>>]
    BY <2>3, CodexGeminiSendsTwo
  <2> HIDE DEF c, d
  <2>b. p.out = <<c, d>> /\ [p EXCEPT !.out = <<>>] = [stored |-> cs, out |-> <<>>]
    BY <2>a
  <2>5. p.out = <<Parts(cs, "end"), Parts(<<>>, "")>> /\ [p EXCEPT !.out = <<>>] = [stored |-> cs, out |-> <<>>]
    BY <2>b DEF c, d, none, end, on
  <2>4. params' = o
    BY <1>3, <1>c, <2>5 DEF CodexStores
  <2>6. QED
    BY <1>3, <1>a, <2>4, <2>5
<1>11. QED
  BY <1>6, <1>7, <1>8, <1>9, <1>10

\* An answer without a thought.
LEMMA NoThoughtTold == \A s \in Seq(Items) : (\A i \in DOMAIN s : s[i].kind # "thought") => WithoutThoughts(s) = Filled(s)
<1> DEFINE P(s) == (\A i \in DOMAIN s : s[i].kind # "thought") => WithoutThoughts(s) = Filled(s)
           T == {s \in Seq(Items) : P(s)}
<1>1. <<>> \in T
  <2>1. <<>> \in Seq(Items) /\ WithoutThoughts(<<>>) = <<>> /\ Filled(<<>>) = <<>>
    BY EmptySeq, WithoutThoughtsOf, FilledOf
  <2>2. QED
    BY <2>1
<1>2. ASSUME NEW s \in Seq(Items), NEW x \in Items, s \in T PROVE Append(s, x) \in T
  <2> DEFINE l == Append(s, x)
  <2>1. /\ l \in Seq(Items) /\ DOMAIN s = 1..Len(s) /\ DOMAIN l = 1..(Len(s) + 1) /\ Len(s) \in Nat
        /\ l[Len(s) + 1] = x /\ \A i \in 1..Len(s) : l[i] = s[i]
    BY AppendProperties, LenProperties
  <2>2. /\ WithoutThoughts(l) = IF (x.kind # "thought" /\ x.pieces # <<>>) THEN Append(WithoutThoughts(s), x) ELSE WithoutThoughts(s)
        /\ Filled(l) = IF x.pieces # <<>> THEN Append(Filled(s), x) ELSE Filled(s)
    BY WithoutThoughtsOf, FilledOf
  <2>3. P(s)
    BY <1>2
  <2> HIDE DEF l
  <2>4. ASSUME \A i \in DOMAIN l : l[i].kind # "thought" PROVE WithoutThoughts(l) = Filled(l)
    <3>1. Len(s) + 1 \in DOMAIN l /\ \A i \in DOMAIN s : i \in DOMAIN l /\ l[i] = s[i]
      BY <2>1
    <3>2. x.kind # "thought" /\ \A i \in DOMAIN s : s[i].kind # "thought"
      BY <2>1, <2>4, <3>1
    <3>3. QED
      BY <2>2, <2>3, <3>2
  <2>5. QED
    BY <2>1, <2>4 DEF l
<1>3. Seq(Items) \subseteq T
  <2> HIDE DEF T
  <2>1. QED
    BY <1>1, <1>2, SequencesFrom
<1>4. QED
  BY <1>3

\* So it begins,
LEMMA CodexGeminiBegins == TranslationInit /\ route = <<"codex", "gemini">> => CodexGeminiArrives
<1> SUFFICES ASSUME TranslationInit, route = <<"codex", "gemini">> PROVE CodexGeminiArrives
  OBVIOUS
<1>1. told = <<>> /\ block = "" /\ stage = "new" /\ params = CodexGeminiParams /\ client = NoContent
  BY CodexToGeminiBy DEF TranslationInit
<1>2. Heard = <<>> /\ Calls(<<>>) = <<>>
  BY <1>1, CallsOf DEF Heard
<1>3. params = CodexStores(Calls(Heard))
  BY <1>1, <1>2 DEF CodexStores, CodexGeminiParams
<1>4. <<>> \in Seq(Items)
  BY EmptySeq
<1>5. client = Content(<<>>, <<>>) /\ client.items = <<>> /\ client.reasons = <<>>
  BY <1>1 DEF NoContent, Content
<1>6. client.items \o Calls(Heard) = <<>>
  BY <1>2, <1>4, <1>5, ItemsConcat
<1>7. QED
  BY <1>1, <1>2, <1>3, <1>4, <1>5, <1>6 DEF CodexGeminiArrives, CodexGeminiKeeps

\* No call was told.
LEMMA NoCalls == \A s \in Seq(Items) : /\ Calls(s) \in Seq(Items)
                                       /\ Calls(s) = <<>> <=> ~(CallCount(s) > 0)
                                       /\ Calls(s) = <<>> <=> ~\E i \in DOMAIN s : s[i].kind = "call"
<1> SUFFICES ASSUME NEW s \in Seq(Items)
             PROVE  /\ Calls(s) \in Seq(Items)
                    /\ Calls(s) = <<>> <=> ~(CallCount(s) > 0)
                    /\ Calls(s) = <<>> <=> ~\E i \in DOMAIN s : s[i].kind = "call"
  OBVIOUS
<1>1. Calls(s) \in Seq(Items) /\ Len(Calls(s)) \in Nat /\ (Len(Calls(s)) = 0 <=> Calls(s) = <<>>)
  BY CallsOf, LenProperties, EmptySeq
<1>2. Calls(s) = <<>> <=> ~(CallCount(s) > 0)
  BY <1>1 DEF CallCount
<1>3. CallCount(s) > 0 <=> \E i \in DOMAIN s : s[i].kind = "call"
  BY CallTold
<1>4. QED
  BY <1>1, <1>2, <1>3

\* With no call kept back, an empty chunk is all that comes of these.
LEMMA CodexGeminiEmpty ==
  ASSUME route = <<"codex", "gemini">>, params = CodexStores(<<>>), NEW is, client = Content(is, <<>>), is \in Seq(Items),
         NEW e, e.event \in {"created", "completed"}, HandOn(Translated(e, "straight"))
  PROVE  params' = params /\ client' = client
<1>1. params' = params /\ client' = ReadGeminiChunk(client, Parts(<<>>, ""))
  BY CodexGeminiHears
<1>2. is \o <<>> = is
  BY ItemsConcat
<1>3. ReadGeminiChunk(Content(is, <<>>), Parts(<<>>, "")) = Content(is, <<>>)
  BY <1>2 DEF ReadGeminiChunk, Content, Parts
<1>4. QED
  BY <1>1, <1>3

\* The invariant stays,
LEMMA CodexGeminiGoesOn ==
  ASSUME CodexGeminiArrives, Upstream, [TranslationNext]_translationVars
  PROVE  CodexGeminiArrives'
<1> DEFINE cs == Calls(Heard)
           is == client.items
<1>1. route = <<"codex", "gemini">>
  BY DEF CodexGeminiArrives
<1>2. told \in Seq(Items) /\ Heard \in Seq(Items) /\ BlockRoute /\ cs \in Seq(Items)
  BY HeardIs, NoCalls DEF Upstream
<1>4. CASE UNCHANGED translationVars
  BY <1>4 DEF CodexGeminiArrives, CodexGeminiKeeps, translationVars, Heard
<1>5. ASSUME TranslationNext PROVE route' = <<"codex", "gemini">> /\ lapsed \subseteq lapsed'
  BY <1>1, <1>5, RouteStays, StaysLapsed
<1>6. ASSUME TranslationNext, stage' \notin {"finished", "over"}, "content" \notin lapsed' => CodexGeminiKeeps'
      PROVE  CodexGeminiArrives'
  BY <1>5, <1>6 DEF CodexGeminiArrives
<1>7. ASSUME "content" \notin lapsed
      PROVE  /\ params = CodexStores(cs)
             /\ client = Content(is, client.reasons) /\ is \in Seq(Items)
             /\ block \in {"thought", "text"} => cs = <<>>
             /\ stage \in {"new", "speaking"} => Joined(is \o cs) = Joined(Heard) /\ client.reasons = <<>>
             /\ stage \in {"finished", "over"} => Joined(is) = Joined(Heard)
             /\ stage \in {"finished", "over"} => client.reasons = IF cs # <<>> THEN <<"end">> ELSE <<>>
  BY <1>7 DEF CodexGeminiArrives, CodexGeminiKeeps
\* Nothing is heard of it.
<1>8. ASSUME "content" \notin lapsed, stage \in {"new", "speaking"}, stage' = "speaking", params' = params, client' = client,
             Calls(Heard') = cs, Joined(Heard') = Joined(Heard), block' \in {"thought", "text"} => cs = <<>>
      PROVE  CodexGeminiKeeps'
  <2>1. params' = CodexStores(Calls(Heard))' /\ client'.items = is /\ client'.reasons = <<>>
    BY <1>7, <1>8 DEF CodexStores
  <2>2. Joined(client.items \o Calls(Heard))' = Joined(is \o cs)
    BY <1>8, <2>1
  <2>3. client' = Content(client'.items, client'.reasons) /\ client'.items \in Seq(Items)
    BY <1>7, <1>8, <2>1
  <2> HIDE DEF cs, is
  <2>4. QED
    BY <1>7, <1>8, <2>1, <2>2, <2>3 DEF CodexGeminiKeeps
<1>10. CASE SayCreated
  <2> DEFINE e == Event("created", "", <<>>)
  <2>1. stage = "new" /\ stage' = "speaking" /\ UNCHANGED <<told, block, lapsed>> /\ HandOn(Translated(e, "straight")) /\ TranslationNext
    BY <1>10 DEF SayCreated, TranslationNext
  <2>2. e.event = "created"
    BY EventIs DEF Event
  <2> HIDE DEF e
  <2>3. Heard' = Heard /\ block' = "" /\ cs = <<>>
    <3>1. block = "" /\ told = <<>>
      BY <2>1 DEF Upstream
    <3>2. Calls(<<>>) = <<>>
      BY CallsOf
    <3>3. QED
      BY <2>1, <3>1, <3>2, SameHeard DEF Heard
  <2>4. ASSUME "content" \notin lapsed' PROVE CodexGeminiKeeps'
    <3>1. "content" \notin lapsed
      BY <2>1, <2>4
    <3>a. params = CodexStores(<<>>) /\ client = Content(is, <<>>) /\ is \in Seq(Items)
      BY <1>7, <2>1, <2>3, <3>1
    <3> HIDE DEF is
    <3>2. params' = params /\ client' = client
      BY <1>1, <2>1, <2>2, <3>a, CodexGeminiEmpty
    <3>3. QED
      BY <1>8, <2>1, <2>3, <3>1, <3>2
  <2>5. QED
    BY <1>6, <2>1, <2>4
<1>11. ASSUME NEW kind \in ItemKinds, SayOpen(kind) PROVE CodexGeminiArrives'
  <2> DEFINE ns == IF kind = "call" THEN <<said + 1>> ELSE <<>>
             e == Event("open", kind, ns)
  <2>1. /\ stage = "speaking" /\ stage' = stage /\ HandOn(Translated(e, "straight")) /\ TranslationNext /\ block = "" /\ block' = kind
        /\ Noted(BlockGarbled(kind), FALSE)
    BY <1>11 DEF SayOpen, TranslationNext, ItemKinds
  <2>2. e.event = "open"
    BY EventIs
  <2> HIDE DEF e, ns
  <2>3. Joined(Heard') = Joined(Heard) /\ Calls(Heard') = cs
    BY <1>11, OpenJoined, OpenHeard
  <2>4. ASSUME "content" \notin lapsed' PROVE CodexGeminiKeeps'
    <3>1. "content" \notin lapsed /\ ~BlockGarbled(kind)
      BY <1>5, <2>1, <2>4 DEF Noted
    <3>2. params' = params /\ client' = client
      BY <1>1, <1>7, <2>1, <2>2, <3>1, CodexGeminiHears
    <3>3. kind \in {"thought", "text"} => cs = <<>>
      <4>1. kind \in {"thought", "text"} => ~ToldKind({"call"})
        BY <1>1, <3>1, CodexToGeminiBy
      <4>2. ~ToldKind({"call"}) => Calls(told) = <<>>
        BY <1>2, NoCalls DEF ToldKind
      <4>3. Heard = told
        BY <2>1 DEF Heard
      <4>4. QED
        BY <4>1, <4>2, <4>3
    <3>4. QED
      BY <1>8, <2>1, <2>3, <3>1, <3>2, <3>3
  <2>5. QED
    BY <1>6, <2>1, <2>4
<1>12. CASE SayDelta
  <2> DEFINE n == said + 1
             e == Event("delta", block, <<n>>)
  <2>1. /\ stage = "speaking" /\ stage' = stage /\ block # "" /\ block' = block /\ HandOn(Translated(e, "straight")) /\ TranslationNext
        /\ lapsed' = lapsed
    BY <1>12 DEF SayDelta, TranslationNext
  <2>2. e.event = "delta" /\ e.kind = block /\ e.pieces = <<n>>
    BY EventIs
  <2>3. n \in Nat /\ block \in ItemKinds
    <3>1. said \in Nat /\ block \in ItemKinds
      BY <2>1 DEF Upstream
    <3>2. QED
      BY <3>1
  <2>4. block # "call" => Heard = told /\ Heard' = told' /\ Joined(told') = AddPiece(Joined(told), block, n)
    BY <1>12, DeltaJoined
  <2>5. Calls(Heard') = cs /\ (block = "call" => Heard' = Heard)
    BY <1>12, DeltaHeard
  <2> HIDE DEF e, n
  <2>6. ASSUME "content" \notin lapsed', block = "call" PROVE CodexGeminiKeeps'
    <3>1. "content" \notin lapsed
      BY <2>1, <2>6
    <3>2. params' = params /\ client' = client
      BY <1>1, <1>7, <2>1, <2>2, <2>6, <3>1, CodexGeminiHears
    <3>3. QED
      BY <1>8, <2>1, <2>5, <2>6, <3>1, <3>2
  <2>7. ASSUME "content" \notin lapsed', block # "call" PROVE CodexGeminiKeeps'
    <3> DEFINE more == <<Item(block, <<n>>)>>
    <3>1. "content" \notin lapsed /\ cs = <<>>
      BY <1>7, <2>1, <2>3, <2>7 DEF ItemKinds
    <3>2. params' = params /\ client' = ReadGeminiChunk(client, Parts(more, ""))
      BY <1>1, <1>7, <2>1, <2>2, <2>7, <3>1, CodexGeminiHears
    <3>3. /\ params = CodexStores(cs) /\ client = Content(is, <<>>) /\ is \in Seq(Items)
          /\ is \o cs = is /\ Joined(is) = Joined(Heard)
      <4>1. is \o <<>> = is
        BY <1>7, <3>1, ItemsConcat
      <4>2. QED
        BY <1>7, <2>1, <3>1, <4>1
    <3> HIDE DEF is, cs
    <3>4. is \o more \in Seq(Items) /\ Joined(is \o more) = AddPiece(Joined(is), block, n)
      BY <2>3, <2>7, <3>3, PieceJoined
    <3> DEFINE js == is \o more
    <3>5. ReadGeminiChunk(Content(is, <<>>), Parts(more, "")) = Content(js, <<>>)
      BY DEF ReadGeminiChunk, Content, Parts
    <3>6. Joined(js) = Joined(Heard') /\ js \in Seq(Items)
      BY <2>4, <2>7, <3>3, <3>4
    <3> HIDE DEF js, more
    <3>7. client' = Content(js, <<>>)
      BY <3>2, <3>3, <3>5
    <3>8. client' = Content(client'.items, client'.reasons) /\ client'.items = js /\ client'.reasons = <<>>
      BY <3>7 DEF Content
    <3>9. js \o <<>> = js
      BY <3>6, ItemsConcat
    <3>10. Joined(client.items \o Calls(Heard))' = Joined(Heard)'
      BY <2>5, <3>1, <3>6, <3>8, <3>9 DEF cs
    <3>11. params' = CodexStores(Calls(Heard))'
      BY <2>5, <3>2, <3>3 DEF CodexStores
    <3>12. QED
      BY <2>1, <2>5, <3>1, <3>6, <3>8, <3>10, <3>11 DEF CodexGeminiKeeps
  <2>8. QED
    BY <1>6, <2>1, <2>6, <2>7
<1>13. CASE SayClose
  <2> DEFINE e == Event("close", block, <<>>)
  <2>1. /\ stage = "speaking" /\ stage' = stage /\ block # "" /\ block' = "" /\ HandOn(Translated(e, "straight")) /\ TranslationNext
        /\ lapsed' = lapsed
    BY <1>13 DEF SayClose, TranslationNext
  <2>2. e.event = "close" /\ e.kind = block /\ e.item = Last(told).pieces
    BY EventIs DEF Event
  <2> HIDE DEF e
  <2>3. ASSUME "content" \notin lapsed', block = "call" PROVE CodexGeminiKeeps'
    <3> DEFINE x == Last(told)
    <3>1. told' = told /\ Heard' = told /\ x \in Items /\ x.kind = "call" /\ told = Append(Heard, x) /\ Calls(Heard') = Append(cs, x)
      BY <1>13, <2>3, CloseHeard
    <3>2. Item("call", x.pieces) = x
      BY <3>1, CallItem
    <3>3. "content" \notin lapsed
      BY <2>1, <2>3
    <3>4. params' = CodexStores(Append(cs, Item("call", e.item))) /\ client' = client
      BY <1>1, <1>7, <2>1, <2>2, <2>3, <3>3, CodexGeminiHears
    <3> HIDE DEF x
    <3>5. params' = CodexStores(Append(cs, x))
      BY <2>2, <3>2, <3>4 DEF x
    <3>6. is \in Seq(Items) /\ Joined(is \o cs) = Joined(Heard) /\ client.reasons = <<>> /\ client = Content(is, client.reasons)
      BY <1>7, <2>1, <3>3
    <3> DEFINE l == Append(cs, x)
    <3> HIDE DEF cs, is
    <3>7. is \o l = Append(is \o cs, x) /\ is \o cs \in Seq(Items)
      BY <1>2, <3>1, <3>6, ItemsConcat
    <3>8. Joined(Append(is \o cs, x)) = Append(Joined(is \o cs), x) /\ Joined(Append(Heard, x)) = Append(Joined(Heard), x)
      BY <1>2, <3>1, <3>7, JoinedOf
    <3> HIDE DEF l
    <3>9. client'.items = is /\ client'.reasons = <<>> /\ client' = Content(client'.items, client'.reasons)
      BY <3>4, <3>6 DEF is
    <3>10. Joined(client.items \o Calls(Heard))' = Joined(is \o l)
      BY <3>1, <3>9 DEF l, cs
    <3>11. Joined(is \o l) = Joined(told)
      BY <3>1, <3>6, <3>7, <3>8
    <3>12. params' = CodexStores(Calls(Heard))'
      BY <3>1, <3>5 DEF CodexStores
    <3>13. QED
      BY <2>1, <3>1, <3>6, <3>9, <3>10, <3>11, <3>12 DEF CodexGeminiKeeps
  <2>4. ASSUME "content" \notin lapsed', block # "call" PROVE CodexGeminiKeeps'
    <3>1. "content" \notin lapsed
      BY <2>1, <2>4
    <3>2. params' = params /\ client' = client
      BY <1>1, <1>7, <2>1, <2>2, <2>4, <3>1, CodexGeminiHears
    <3>3. told' = told /\ Heard' = Heard
      BY <1>13, <2>4, CloseHeard
    <3>4. QED
      BY <1>8, <2>1, <3>1, <3>2, <3>3
  <2>5. QED
    BY <1>6, <2>1, <2>3, <2>4
<1>14. CASE SayCompleted
  <2>1. PICK why \in {"end", "limit"} :
          /\ finish' = why
          /\ Noted(FALSE, ReasonGarbled(<<>>, why))
          /\ HandOn(Translated([Event("completed", "", <<>>) EXCEPT !.reason = Reason(told, why)], "straight"))
    BY <1>14 DEF SayCompleted
  <2> DEFINE reason == Reason(told, why)
             e == [Event("completed", "", <<>>) EXCEPT !.reason = reason]
  <2>2. /\ stage = "speaking" /\ stage' = "finished" /\ block = "" /\ UNCHANGED <<told, block>>
        /\ HandOn(Translated(e, "straight")) /\ TranslationNext
    BY <1>14, <2>1 DEF SayCompleted, TranslationNext
  <2>4. e.event = "completed"
    BY CompletedIs
  <2> HIDE DEF e
  <2>5. Heard' = Heard /\ Heard = told
    BY <2>2, SameHeard DEF Heard
  <2>6. "reason" \notin lapsed' => CallCount(told') > 0
    <3>1. ReasonGarbled(<<>>, why) <=> why # "" /\ ~ToldKind({"call"})
      BY <1>1, CodexToGeminiBy
    <3>2. ToldKind({"call"}) => CallCount(told) > 0
      BY <1>2, NoCalls DEF ToldKind
    <3>3. QED
      BY <2>1, <2>2, <3>1, <3>2 DEF Noted
  <2>7. ASSUME "content" \notin lapsed' PROVE CodexGeminiKeeps'
    <3>1. "content" \notin lapsed
      BY <1>5, <2>2, <2>7
    <3>2. /\ params = CodexStores(cs) /\ client = Content(is, <<>>) /\ is \in Seq(Items)
          /\ Joined(is \o cs) = Joined(Heard) /\ client.reasons = <<>>
      BY <1>7, <2>2, <3>1
    <3>3. CASE cs = <<>>
      <4>a. params = CodexStores(<<>>) /\ client = Content(is, <<>>) /\ is \in Seq(Items)
        BY <3>2, <3>3
      <4> HIDE DEF is
      <4>1. params' = params /\ client' = client
        <5>1. e.event \in {"created", "completed"} /\ HandOn(Translated(e, "straight")) /\ route = <<"codex", "gemini">>
          BY <1>1, <2>2, <2>4
        <5>2. QED
          BY <4>a, <5>1, CodexGeminiEmpty
      <4>2. is \o cs = is
        BY <3>2, <3>3, ItemsConcat
      <4>3. client' = Content(client'.items, client'.reasons) /\ client'.items = is /\ client'.reasons = <<>>
        BY <3>2, <4>1 DEF Content
      <4>4. Joined(client.items)' = Joined(Heard)'
        BY <2>5, <3>2, <4>2, <4>3
      <4>5. params' = CodexStores(Calls(Heard))' /\ Calls(Heard)' = <<>>
        BY <2>5, <3>2, <3>3, <4>1 DEF CodexStores
      <4>6. QED
        BY <2>2, <3>2, <4>3, <4>4, <4>5 DEF CodexGeminiKeeps
    <3>4. CASE cs # <<>>
      <4>1. params' = params /\ client' = ReadGeminiChunk(ReadGeminiChunk(client, Parts(cs, "end")), Parts(<<>>, ""))
        BY <1>1, <2>2, <2>4, <3>2, <3>4, CodexGeminiHears
      <4> DEFINE js == is \o cs
      <4>2. js \in Seq(Items) /\ Joined(js) = Joined(Heard)
        BY <1>2, <3>2, ItemsConcat
      <4>3. ReadGeminiChunk(Content(is, <<>>), Parts(cs, "end")) = Content(js, <<"end">>)
        BY OneOf DEF ReadGeminiChunk, Content, Parts
      <4> HIDE DEF js
      <4>4. js \o <<>> = js
        BY <4>2, ItemsConcat
      <4>5. ReadGeminiChunk(Content(js, <<"end">>), Parts(<<>>, "")) = Content(js, <<"end">>)
        BY <4>4 DEF ReadGeminiChunk, Content, Parts
      <4>6. client' = Content(js, <<"end">>)
        BY <3>2, <4>1, <4>3, <4>5
      <4>7. client' = Content(client'.items, client'.reasons) /\ client'.items = js /\ client'.reasons = <<"end">>
        BY <4>6 DEF Content
      <4>8. Joined(client.items)' = Joined(Heard)'
        BY <2>5, <4>2, <4>7
      <4>9. params' = CodexStores(Calls(Heard))' /\ Calls(Heard)' # <<>>
        BY <2>5, <3>2, <3>4, <4>1 DEF CodexStores
      <4>10. block' \notin {"thought", "text"}
        BY <2>2
      <4>11. QED
        BY <2>2, <4>2, <4>7, <4>8, <4>9, <4>10 DEF CodexGeminiKeeps
    <3>5. QED
      BY <3>3, <3>4
  <2>8. QED
    BY <1>5, <2>2, <2>6, <2>7 DEF CodexGeminiArrives
<1>15. ASSUME TranslationNext, HandOn(params), UNCHANGED <<told, block>>, "content" \notin lapsed'
       PROVE  params' = CodexStores(Calls(Heard))' /\ client' = client /\ Heard' = Heard /\ "content" \notin lapsed
  <2>0. "content" \notin lapsed
    BY <1>5, <1>15
  <2>1. params' = params /\ client' = client
    <3>1. params.out = <<>> /\ [params EXCEPT !.out = <<>>] = params
      BY <1>7, <2>0 DEF CodexStores
    <3>2. QED
      BY <1>15, <3>1, HandsOn
  <2>2. Heard' = Heard
    BY <1>15, SameHeard
  <2>3. params' = CodexStores(Calls(Heard))'
    BY <1>7, <2>0, <2>1, <2>2 DEF CodexStores
  <2>4. QED
    BY <2>0, <2>1, <2>2, <2>3
<1>16. CASE AnswerEnds
  <2>1. stage = "finished" /\ stage' = "over" /\ UNCHANGED <<told, block, lapsed>> /\ HandOn(params) /\ TranslationNext
    BY <1>1, <1>16, CodexToGeminiBy DEF AnswerEnds, TranslationNext
  <2>2. "content" \notin lapsed' => CodexGeminiKeeps'
    <3> SUFFICES ASSUME "content" \notin lapsed' PROVE CodexGeminiKeeps'
      OBVIOUS
    <3>1. params' = CodexStores(Calls(Heard))' /\ client' = client /\ Heard' = Heard /\ "content" \notin lapsed
      BY <1>15, <2>1
    <3>2. QED
      BY <1>7, <2>1, <3>1 DEF CodexGeminiKeeps
  <2>3. "reason" \notin lapsed' => CallCount(told') > 0
    BY <2>1 DEF CodexGeminiArrives
  <2>4. QED
    BY <1>5, <2>1, <2>2, <2>3 DEF CodexGeminiArrives
<1>17. CASE AnswerBreaks
  <2>1. stage \in {"new", "speaking"} /\ stage' = "cut" /\ UNCHANGED <<told, block>> /\ HandOn(params) /\ TranslationNext
    BY <1>1, <1>17, CodexToGeminiBy DEF AnswerBreaks, TranslationNext
  <2>2. "content" \notin lapsed' => CodexGeminiKeeps'
    <3> SUFFICES ASSUME "content" \notin lapsed' PROVE CodexGeminiKeeps'
      OBVIOUS
    <3>1. params' = CodexStores(Calls(Heard))' /\ client' = client /\ Heard' = Heard /\ "content" \notin lapsed
      BY <1>15, <2>1
    <3>2. QED
      BY <1>7, <2>1, <3>1 DEF CodexGeminiKeeps
  <2>3. QED
    BY <1>6, <2>1, <2>2
<1>18. CASE SayUsage
  BY <1>18 DEF SayUsage, Upstream
<1>19. QED
  BY <1>2, <1>4, <1>10, <1>11, <1>12, <1>13, <1>14, <1>16, <1>17, <1>18, SpokenInBlocks

\* and the client has what was told.
LEMMA CodexGeminiArrived == CodexGeminiArrives /\ Upstream => AnswersArrive
<1> SUFFICES ASSUME CodexGeminiArrives, Upstream PROVE AnswersArrive
  OBVIOUS
<1>1. route = <<"codex", "gemini">> /\ From = "codex" /\ To = "gemini" /\ Whole = WholeCodexToGemini(told)
  BY CodexToGeminiBy DEF CodexGeminiArrives
<1>2. told \in Seq(Items) /\ (stage = "over" => block = "" /\ finish = "end")
  BY <1>1 DEF Upstream
<1>h. stage = "over" => Heard = told
  BY <1>2 DEF Heard
<1>3. stage = "over" /\ "content" \notin lapsed => ContentArrived
  <2>2. stage = "over" /\ "content" \notin lapsed => Joined(client.items) = Joined(told)
    BY <1>h DEF CodexGeminiArrives, CodexGeminiKeeps
  <2>4. QED
    BY <1>1, <2>2 DEF ContentArrived
<1>r. stage = "over" => Reason(told, finish) # "limit"
  BY <1>2 DEF Reason
<1>4. stage = "over" /\ lapsed = {} => ReasonArrived
  <2>1. stage = "over" /\ lapsed = {} => CallCount(told) > 0
    BY DEF CodexGeminiArrives
  <2>2. stage = "over" /\ lapsed = {} => Calls(told) # <<>>
    BY <1>2, <2>1, NoCalls
  <2>3. stage = "over" /\ lapsed = {} => client.reasons = <<"end">>
    BY <1>h, <2>2 DEF CodexGeminiArrives, CodexGeminiKeeps
  <2>4. <<"end">> # <<>> /\ Last(<<"end">>) = "end"
    BY DEF Last
  <2>5. QED
    BY <1>1, <1>r, <2>3, <2>4 DEF ReasonArrived
<1>5. stage = "cut" /\ lapsed = {} => ~LooksWhole
  BY <1>1 DEF CodexGeminiArrives, CodexGeminiKeeps, LooksWhole
<1>6. stage = "over" => WholeAgrees(Whole)
  <2> DEFINE w == WholeCodexToGemini(told)
  <2>1. ~WholeLosesContent => Joined(w.parts) = Joined(told)
    <3>1. WholeLosesContent <=> ToldKind({"thought"})
      BY <1>1 DEF WholeLosesContent
    <3>2. ~ToldKind({"thought"}) => WithoutThoughts(told) = Filled(told)
      BY <1>2, NoThoughtTold DEF ToldKind
    <3>3. w.parts = WithoutThoughts(told)
      BY DEF WholeCodexToGemini, Parts
    <3>4. Joined(Filled(told)) = Joined(told)
      BY <1>2, JoinedFilled
    <3>5. QED
      BY <3>1, <3>2, <3>3, <3>4
  <2>2. w.finish = "end"
    BY DEF WholeCodexToGemini, Parts
  <2> HIDE DEF w
  <2>4. QED
    BY <1>1, <1>r, <2>1, <2>2 DEF WholeAgrees, w
<1>7. AnswerArrives
  BY <1>1, <1>3, <1>4, <1>5 DEF AnswerArrives
<1>8. QED
  BY <1>6, <1>7 DEF AnswersArrive, WholeArrives
----------------------------------------------------------------------------
(* Claude to Responses: the output as a whole.                             *)

\* The calls among calls, and what is said beside them.
LEMMA CallsOnly ==
  ASSUME NEW s \in Seq(Items)
  PROVE  /\ Calls(Calls(s)) = Calls(s)
         /\ Run(Calls(s), "text") = <<>> /\ Run(Calls(s), "thought") = <<>>
<1> DEFINE T == {t \in Seq(Items) : /\ Calls(Calls(t)) = Calls(t)
                                    /\ Run(Calls(t), "text") = <<>> /\ Run(Calls(t), "thought") = <<>>}
<1>1. <<>> \in T
  BY CallsOf, RunOf, EmptySeq
<1>2. ASSUME NEW t \in Seq(Items), NEW x \in Items, t \in T PROVE Append(t, x) \in T
  <2>1. Append(t, x) \in Seq(Items) /\ Calls(t) \in Seq(Items)
    BY ItemsAppend, CallsOf
  <2>2. Calls(Append(t, x)) = IF x.kind = "call" THEN Append(Calls(t), x) ELSE Calls(t)
    BY CallsOf
  <2>3. CASE x.kind # "call"
    BY <1>2, <2>1, <2>2, <2>3
  <2>4. CASE x.kind = "call"
    <3>1. Calls(Append(Calls(t), x)) = Append(Calls(Calls(t)), x)
      BY <2>1, <2>4, CallsOf
    <3>2. Run(Append(Calls(t), x), "text") = Run(Calls(t), "text")
      BY <2>1, <2>4, RunOf
    <3>3. Run(Append(Calls(t), x), "thought") = Run(Calls(t), "thought")
      BY <2>1, <2>4, RunOf
    <3>4. QED
      BY <1>2, <2>1, <2>2, <2>4, <3>1, <3>2, <3>3
  <2>5. QED
    BY <2>3, <2>4
<1> HIDE DEF T
<1>3. Seq(Items) \subseteq T
  BY <1>1, <1>2, SequencesFrom
<1>4. QED
  BY <1>3 DEF T

\* Three lists, one behind the other.
LEMMA ConcatThree ==
  ASSUME NEW s \in Seq(Nat), NEW t \in Seq(Nat), NEW u \in Seq(Nat)
  PROVE  (s \o t) \o u = s \o (t \o u)
<1>1. s \o t \in Seq(Nat) /\ t \o u \in Seq(Nat) /\ (s \o t) \o u \in Seq(Nat) /\ s \o (t \o u) \in Seq(Nat)
  BY ConcatProperties
<1>2. Len((s \o t) \o u) = Len(s \o (t \o u))
  BY <1>1, ConcatProperties, LenProperties
<1>3. ASSUME NEW i \in 1..Len((s \o t) \o u) PROVE ((s \o t) \o u)[i] = (s \o (t \o u))[i]
  BY <1>1, <1>2, ConcatProperties, LenProperties
<1>4. QED
  BY <1>1, <1>2, <1>3, SeqEqual

\* A run, and the calls, of one list behind another.
LEMMA ConcatRuns ==
  ASSUME NEW s \in Seq(Items), NEW t \in Seq(Items)
  PROVE  /\ \A kind \in {"text", "thought"} : Run(s \o t, kind) = Run(s, kind) \o Run(t, kind)
         /\ Calls(s \o t) = Calls(s) \o Calls(t)
<1> DEFINE T == {u \in Seq(Items) : /\ \A kind \in {"text", "thought"} : Run(s \o u, kind) = Run(s, kind) \o Run(u, kind)
                                    /\ Calls(s \o u) = Calls(s) \o Calls(u)}
<1>1. <<>> \in T
  <2>1. s \o <<>> = s /\ <<>> \in Seq(Items)
    BY ItemsConcat, EmptySeq
  <2>2. ASSUME NEW kind PROVE Run(s \o <<>>, kind) = Run(s, kind) \o Run(<<>>, kind)
    <3>1. Run(s, kind) \in Seq(Nat) /\ Run(<<>>, kind) = <<>>
      BY RunOf
    <3>2. QED
      BY <2>1, <3>1, ConcatOne
  <2>3. Calls(s) \in Seq(Items) /\ Calls(<<>>) = <<>>
    BY CallsOf
  <2>4. Calls(s \o <<>>) = Calls(s) \o Calls(<<>>)
    BY <2>1, <2>3, ItemsConcat
  <2>5. QED
    BY <2>1, <2>2, <2>4
<1>2. ASSUME NEW u \in Seq(Items), NEW x \in Items, u \in T PROVE Append(u, x) \in T
  <2>1. s \o Append(u, x) = Append(s \o u, x) /\ s \o u \in Seq(Items) /\ Append(u, x) \in Seq(Items)
    BY ItemsConcat, ItemsAppend
  <2>2. ASSUME NEW kind \in {"text", "thought"} PROVE Run(s \o Append(u, x), kind) = Run(s, kind) \o Run(Append(u, x), kind)
    <3>1. Run(s, kind) \in Seq(Nat) /\ Run(u, kind) \in Seq(Nat) /\ x.pieces \in Seq(Nat)
      BY RunOf DEF Items
    <3>2. Run(Append(s \o u, x), kind) = IF x.kind = kind THEN Run(s \o u, kind) \o x.pieces ELSE Run(s \o u, kind)
      BY <2>1, RunOf
    <3>3. Run(Append(u, x), kind) = IF x.kind = kind THEN Run(u, kind) \o x.pieces ELSE Run(u, kind)
      BY RunOf
    <3>4. Run(s \o u, kind) = Run(s, kind) \o Run(u, kind)
      BY <1>2
    <3>5. (Run(s, kind) \o Run(u, kind)) \o x.pieces = Run(s, kind) \o (Run(u, kind) \o x.pieces)
      BY <3>1, ConcatThree
    <3>6. QED
      BY <2>1, <3>2, <3>3, <3>4, <3>5
  <2>3. Calls(s \o Append(u, x)) = Calls(s) \o Calls(Append(u, x))
    <3>1. Calls(s) \in Seq(Items) /\ Calls(u) \in Seq(Items)
      BY CallsOf
    <3>2. Calls(Append(s \o u, x)) = IF x.kind = "call" THEN Append(Calls(s \o u), x) ELSE Calls(s \o u)
      BY <2>1, CallsOf
    <3>3. Calls(Append(u, x)) = IF x.kind = "call" THEN Append(Calls(u), x) ELSE Calls(u)
      BY CallsOf
    <3>4. Calls(s) \o Append(Calls(u), x) = Append(Calls(s) \o Calls(u), x)
      BY <3>1, ItemsConcat
    <3>5. QED
      BY <1>2, <2>1, <3>2, <3>3, <3>4
  <2>4. QED
    BY <2>1, <2>2, <2>3
<1> HIDE DEF T
<1>3. Seq(Items) \subseteq T
  BY <1>1, <1>2, SequencesFrom
<1>4. QED
  BY <1>3 DEF T

\* One item, if it is anything.
LEMMA OneItemIs ==
  ASSUME NEW kind \in {"text", "thought"}, NEW ns \in Seq(Nat)
  PROVE  /\ OneItem(kind, ns) \in Seq(Items)
         /\ \A k \in {"text", "thought"} : Run(OneItem(kind, ns), k) = IF k = kind THEN ns ELSE <<>>
         /\ Calls(OneItem(kind, ns)) = <<>>
<1> DEFINE x == Item(kind, ns)
<1>1. x \in Items /\ x.kind = kind /\ x.pieces = ns
  BY ItemIs DEF Item, ItemKinds
<1>2. <<>> \in Seq(Items) /\ <<x>> = Append(<<>>, x) /\ Append(<<>>, x) \in Seq(Items)
  BY <1>1, OneOf, EmptySeq, ItemsAppend
<1>3. OneItem(kind, ns) = Filled(<<x>>)
  BY DEF OneItem
<1> HIDE DEF x
<1>4. OneItem(kind, ns) = IF ns # <<>> THEN <<x>> ELSE <<>>
  BY <1>1, <1>2, <1>3, FilledOf
<1>5. ASSUME NEW k \in {"text", "thought"} PROVE Run(<<x>>, k) = IF k = kind THEN ns ELSE <<>>
  <2>1. Run(<<>>, k) = <<>> /\ <<>> \o ns = ns
    BY RunOf
  <2>2. Run(Append(<<>>, x), k) = IF x.kind = k THEN Run(<<>>, k) \o x.pieces ELSE Run(<<>>, k)
    BY <1>1, <1>2, RunOf
  <2>3. QED
    BY <1>1, <1>2, <2>1, <2>2
<1>6. Calls(<<x>>) = <<>> /\ Calls(<<>>) = <<>>
  BY <1>1, <1>2, CallsOf
<1>7. ASSUME NEW k PROVE Run(<<>>, k) = <<>>
  BY RunOf
<1>8. QED
  BY <1>2, <1>4, <1>5, <1>6, <1>7

\* The whole output has of each kind what was told.
LEMMA OutputSame ==
  ASSUME told \in Seq(Items)
  PROVE  SameByKind(WholeClaudeToResponses(told), InOrder)
<1> DEFINE th == Run(told, "thought")
           tx == Run(told, "text")
           a == OneItem("thought", th)
           b == OneItem("text", tx)
           c == Calls(told)
           w == a \o b \o c
<1>1. th \in Seq(Nat) /\ tx \in Seq(Nat) /\ c \in Seq(Items)
  BY RunOf, CallsOf
<1>2. /\ a \in Seq(Items) /\ Run(a, "thought") = th /\ Run(a, "text") = <<>> /\ Calls(a) = <<>>
      /\ b \in Seq(Items) /\ Run(b, "thought") = <<>> /\ Run(b, "text") = tx /\ Calls(b) = <<>>
  <2> HIDE DEF th, tx
  <2>1. QED
    BY <1>1, OneItemIs
<1>3. Calls(c) = c /\ Run(c, "text") = <<>> /\ Run(c, "thought") = <<>>
  BY CallsOnly
<1>w. WholeClaudeToResponses(told) = w
  BY DEF WholeClaudeToResponses
<1> HIDE DEF a, b, c, th, tx
<1>4. a \o b \in Seq(Items)
  BY <1>2
<1>5. /\ \A k \in {"text", "thought"} : Run(a \o b, k) = Run(a, k) \o Run(b, k)
      /\ Calls(a \o b) = Calls(a) \o Calls(b)
  BY <1>2, ConcatRuns
<1>6. /\ \A k \in {"text", "thought"} : Run((a \o b) \o c, k) = Run(a \o b, k) \o Run(c, k)
      /\ Calls((a \o b) \o c) = Calls(a \o b) \o Calls(c)
  BY <1>1, <1>4, ConcatRuns
<1>7. \A s \in Seq(Nat) : s \o <<>> = s /\ <<>> \o s = s
  OBVIOUS
<1>8. \A s \in Seq(Items) : <<>> \o s = s
  OBVIOUS
<1>e. <<>> \o <<>> = <<>>
  OBVIOUS
<1>9. Run(w, "thought") = th /\ Run(w, "text") = tx
  <2>1. Run(w, "thought") = (th \o <<>>) \o <<>>
    BY <1>2, <1>3, <1>5, <1>6
  <2>2. Run(w, "text") = (<<>> \o tx) \o <<>>
    BY <1>2, <1>3, <1>5, <1>6
  <2>3. QED
    BY <1>1, <1>7, <2>1, <2>2
<1>10. Calls(w) = c
  <2>1. Calls(w) = (<<>> \o <<>>) \o c
    BY <1>2, <1>3, <1>5, <1>6
  <2>2. QED
    BY <1>1, <1>8, <1>e, <2>1
<1>11. QED
  BY <1>w, <1>9, <1>10 DEF SameByKind, InOrder, th, tx, c
----------------------------------------------------------------------------
(* Claude to Responses: the items and their ids.                           *)

\* An item of the output as a client of the Responses API knows it, with the block's id.
BlockId(kind, index) == IF kind = "text" THEN 0 ELSE index

\* An item under its id.
NamedItem(kind, index, ns) == [kind |-> kind, id |-> BlockId(kind, index), pieces |-> ns]

\* Items under ids.
NamedItems == [kind : ItemKinds, id : Int, pieces : Seq(Nat)]

\* The items told, under their ids.
Named(s) == [i \in 1..Len(s) |-> NamedItem(s[i].kind, i - 1, s[i].pieces)]

\* What such an item is made of.
LEMMA NamedItemIs ==
  ASSUME NEW kind \in ItemKinds, NEW i \in Int, NEW ns \in Seq(Nat)
  PROVE  /\ NamedItem(kind, i, ns) \in NamedItems
         /\ NamedItem(kind, i, ns).kind = kind /\ NamedItem(kind, i, ns).pieces = ns
         /\ NamedItem(kind, i, ns).id = BlockId(kind, i)
BY DEF NamedItem, NamedItems, BlockId

\* Each keeps its place.
LEMMA NamedType ==
  ASSUME NEW s \in Seq(Items)
  PROVE  Named(s) \in Seq(NamedItems) /\ Len(Named(s)) = Len(s) /\ Len(s) \in Nat
         /\ \A i \in 1..Len(s) : Named(s)[i] = NamedItem(s[i].kind, i - 1, s[i].pieces)
<1>1. Len(s) \in Nat /\ \A i \in 1..Len(s) : s[i] \in Items
  BY LenProperties, ElementOfSeq
<1>2. ASSUME NEW i \in 1..Len(s) PROVE NamedItem(s[i].kind, i - 1, s[i].pieces) \in NamedItems
  <2>1. s[i].kind \in ItemKinds /\ s[i].pieces \in Seq(Nat) /\ i - 1 \in Int
    BY <1>1 DEF Items
  <2>2. QED
    BY <2>1, NamedItemIs
<1>3. Named(s) \in [1..Len(s) -> NamedItems]
  BY <1>2 DEF Named
<1>4. Named(s) \in Seq(NamedItems) /\ Len(Named(s)) = Len(s)
  BY <1>1, <1>3
<1>5. QED
  BY <1>1, <1>4 DEF Named

\* One item more has the number of those before it.
LEMMA NamedAppend ==
  ASSUME NEW s \in Seq(Items), NEW x \in Items
  PROVE  /\ Named(Append(s, x)) = Append(Named(s), NamedItem(x.kind, Len(s), x.pieces))
         /\ NamedItem(x.kind, Len(s), x.pieces) \in NamedItems
<1> DEFINE l == Append(s, x)
           y == NamedItem(x.kind, Len(s), x.pieces)
           n == Named(s)
           m == Named(l)
           w == Append(n, y)
<1>1. /\ l \in Seq(Items) /\ Len(l) = Len(s) + 1 /\ Len(s) \in Nat
      /\ l[Len(s) + 1] = x /\ \A i \in 1..Len(s) : l[i] = s[i]
  BY AppendProperties, LenProperties
<1>2. y \in NamedItems
  <2>1. x.kind \in ItemKinds /\ x.pieces \in Seq(Nat) /\ Len(s) \in Int
    BY <1>1 DEF Items
  <2>2. QED
    BY <2>1, NamedItemIs
<1> HIDE DEF l
<1>3. /\ n \in Seq(NamedItems) /\ Len(n) = Len(s)
      /\ \A i \in 1..Len(s) : n[i] = NamedItem(s[i].kind, i - 1, s[i].pieces)
  BY NamedType
<1>4. /\ m \in Seq(NamedItems) /\ Len(m) = Len(s) + 1
      /\ \A i \in 1..(Len(s) + 1) : m[i] = NamedItem(l[i].kind, i - 1, l[i].pieces)
  BY <1>1, NamedType
<1> HIDE DEF n, m
<1>5. (Len(s) + 1) - 1 = Len(s) /\ Len(s) + 1 \in 1..(Len(s) + 1)
  BY <1>1
<1>6. m[Len(s) + 1] = y
  BY <1>1, <1>4, <1>5
<1> HIDE DEF y
<1>7. w \in Seq(NamedItems) /\ Len(w) = Len(s) + 1 /\ w[Len(s) + 1] = y /\ \A i \in 1..Len(s) : w[i] = n[i]
  BY <1>2, <1>3, AppendProperties
<1> HIDE DEF w
<1>8. ASSUME NEW i \in 1..(Len(s) + 1) PROVE m[i] = w[i]
  <2>1. CASE i = Len(s) + 1
    BY <1>6, <1>7, <2>1
  <2>2. CASE i # Len(s) + 1
    <3>1. i \in 1..Len(s)
      BY <1>1, <2>2
    <3>2. QED
      BY <1>1, <1>3, <1>4, <1>7, <3>1
  <2>3. QED
    BY <2>1, <2>2
<1>9. m = w
  BY <1>4, <1>7, <1>8, SeqEqual
<1>10. QED
  BY <1>2, <1>9 DEF m, w, l, y, n

\* The ids apart, they are the items told.
LEMMA NamedSame ==
  ASSUME NEW s \in Seq(Items)
  PROVE  /\ \A kind \in {"text", "thought"} : Run(Named(s), kind) = Run(s, kind)
         /\ Pieces(Calls(Named(s))) = Pieces(Calls(s))
<1> DEFINE T == {t \in Seq(Items) : /\ \A kind \in {"text", "thought"} : Run(Named(t), kind) = Run(t, kind)
                                    /\ Pieces(Calls(Named(t))) = Pieces(Calls(t))}
<1>0. \A x \in NamedItems : x.pieces \in Seq(Nat)
  BY DEF NamedItems
<1>r. ASSUME NEW kind
      PROVE  \A q \in Seq(NamedItems), x \in NamedItems :
               Run(Append(q, x), kind) = IF x.kind = kind THEN Run(q, kind) \o x.pieces ELSE Run(q, kind)
  BY <1>0, RunAny
<1>1. <<>> \in T
  <2>1. Named(<<>>) = <<>>
    BY DEF Named
  <2>2. QED
    BY <2>1, EmptySeq
<1>2. ASSUME NEW t \in Seq(Items), NEW x \in Items, t \in T PROVE Append(t, x) \in T
  <2> DEFINE y == NamedItem(x.kind, Len(t), x.pieces)
             n == Named(t)
  <2>1. Named(Append(t, x)) = Append(n, y) /\ y \in NamedItems
    BY NamedAppend
  <2>2. n \in Seq(NamedItems) /\ Append(t, x) \in Seq(Items)
    BY NamedType, ItemsAppend
  <2>3. y.kind = x.kind /\ y.pieces = x.pieces
    BY DEF NamedItem
  <2> HIDE DEF y, n
  <2>4. ASSUME NEW kind \in {"text", "thought"} PROVE Run(Named(Append(t, x)), kind) = Run(Append(t, x), kind)
    <3>1. Run(Append(n, y), kind) = IF y.kind = kind THEN Run(n, kind) \o y.pieces ELSE Run(n, kind)
      BY <1>r, <2>1, <2>2
    <3>2. Run(Append(t, x), kind) = IF x.kind = kind THEN Run(t, kind) \o x.pieces ELSE Run(t, kind)
      BY RunOf
    <3>3. Run(n, kind) = Run(t, kind)
      BY <1>2 DEF n
    <3>4. QED
      BY <2>1, <2>3, <3>1, <3>2, <3>3
  <2>5. Pieces(Calls(Named(Append(t, x)))) = Pieces(Calls(Append(t, x)))
    <3>1. Calls(Append(n, y)) = (IF y.kind = "call" THEN Append(Calls(n), y) ELSE Calls(n)) /\ Calls(n) \in Seq(NamedItems)
      BY <2>1, <2>2, CallsAny
    <3>2. Calls(Append(t, x)) = (IF x.kind = "call" THEN Append(Calls(t), x) ELSE Calls(t)) /\ Calls(t) \in Seq(Items)
      BY CallsOf
    <3>3. Pieces(Calls(n)) = Pieces(Calls(t))
      BY <1>2 DEF n
    <3>4. Pieces(Append(Calls(n), y)) = Append(Pieces(Calls(n)), y.pieces)
      BY <2>1, <3>1, PiecesAppend
    <3>5. Pieces(Append(Calls(t), x)) = Append(Pieces(Calls(t)), x.pieces)
      BY <3>2, PiecesAppend
    <3>6. QED
      BY <2>1, <2>3, <3>1, <3>2, <3>3, <3>4, <3>5
  <2>6. QED
    BY <2>2, <2>4, <2>5
<1> HIDE DEF T
<1>3. Seq(Items) \subseteq T
  BY <1>1, <1>2, SequencesFrom
<1>4. QED
  BY <1>3 DEF T

\* The last of a list grows by pieces.
MorePieces(s, ns) == [s EXCEPT ![Len(s)].pieces = @ \o ns]

\* and for one.
With(x, ns) == [x EXCEPT !.pieces = @ \o ns]

\* The last item with more pieces.
LEMMA LastMore ==
  ASSUME NEW X, NEW s \in Seq(X), NEW x \in X, NEW y \in X, NEW ns, With(x, ns) = y
  PROVE  MorePieces(Append(s, x), ns) = Append(s, y)
<1> DEFINE w == Append(s, x)
           z == Append(s, y)
<1>1. w \in Seq(X) /\ Len(w) = Len(s) + 1 /\ w[Len(w)] = x /\ Len(s) \in Nat /\ \A j \in 1..Len(s) : w[j] = s[j]
  BY AppendProperties, LenProperties
<1>2. z \in Seq(X) /\ Len(z) = Len(s) + 1 /\ z[Len(s) + 1] = y /\ \A j \in 1..Len(s) : z[j] = s[j]
  BY AppendProperties
<1> DEFINE v == MorePieces(w, ns)
<1>3. v = [w EXCEPT ![Len(w)] = y]
  BY <1>1 DEF MorePieces, With
<1> HIDE DEF v, w, z
<1>4. v \in Seq(X) /\ Len(v) = Len(w) /\ \A j \in 1..Len(w) : v[j] = IF j = Len(w) THEN y ELSE w[j]
  <2>1. Len(w) \in 1..Len(w)
    BY <1>1
  <2>2. QED
    BY <1>1, <1>3, <2>1, ExceptSeq
<1>5. \A j \in 1..Len(v) : v[j] = z[j]
  BY <1>1, <1>2, <1>4
<1>6. v = z
  BY <1>1, <1>2, <1>4, <1>5, SeqEqual
<1>7. QED
  BY <1>6 DEF v, w, z

\* No item told has the name.
Fresh(s, kind, id) == \A i \in 1..Len(s) : ~(s[i].kind = kind /\ BlockId(kind, i - 1) = id)

\* The id of a new block is fresh, of a text if there was none.
LEMMA FreshIs ==
  ASSUME NEW s \in Seq(Items), NEW kind, kind = "text" => \A i \in DOMAIN s : s[i].kind # "text"
  PROVE  Fresh(s, kind, BlockId(kind, Len(s)))
<1>1. Len(s) \in Nat /\ DOMAIN s = 1..Len(s)
  BY LenProperties
<1>2. \A i \in 1..Len(s) : i - 1 # Len(s)
  BY <1>1
<1>3. QED
  BY <1>1, <1>2 DEF Fresh, BlockId

\* The client knows no item of a fresh id,
LEMMA KnownNone ==
  ASSUME NEW s \in Seq(Items), NEW m, m.items = Named(s), NEW e, Fresh(s, e.kind, e.id)
  PROVE  Known(m, e) = {}
<1> DEFINE n == Named(s)
<1>1. /\ n \in Seq(NamedItems) /\ Len(n) = Len(s) /\ DOMAIN n = 1..Len(n)
      /\ \A i \in 1..Len(s) : n[i] = NamedItem(s[i].kind, i - 1, s[i].pieces)
  BY NamedType, LenProperties
<1> HIDE DEF n
<1>i. \A k, i, ns : NamedItem(k, i, ns).kind = k /\ NamedItem(k, i, ns).id = BlockId(k, i)
  BY DEF NamedItem
<1>2. \A i \in DOMAIN n : n[i].kind = s[i].kind /\ n[i].id = BlockId(s[i].kind, i - 1)
  BY <1>1, <1>i
<1>3. m.items = n
  BY DEF n
<1>4. QED
  BY <1>1, <1>2, <1>3 DEF Known, Fresh

\* and the open one by its id.
LEMMA KnownLast ==
  ASSUME NEW s \in Seq(Items), NEW x \in NamedItems, NEW m, m.items = Append(Named(s), x),
         NEW e, e.kind = x.kind, e.id = x.id, Fresh(s, e.kind, e.id)
  PROVE  Known(m, e) = {Len(s) + 1} /\ Place(m, e) = Len(s) + 1
<1> DEFINE n == Named(s)
           w == Append(n, x)
<1>1. /\ n \in Seq(NamedItems) /\ Len(n) = Len(s) /\ Len(s) \in Nat
      /\ \A i \in 1..Len(s) : n[i] = NamedItem(s[i].kind, i - 1, s[i].pieces)
  BY NamedType
<1>2. /\ w \in Seq(NamedItems) /\ Len(w) = Len(s) + 1 /\ w[Len(s) + 1] = x /\ \A i \in 1..Len(s) : w[i] = n[i]
      /\ DOMAIN w = 1..(Len(s) + 1)
  <2> HIDE DEF n
  <2>1. QED
    BY <1>1, AppendProperties, LenProperties
<1>3. m.items = w
  BY DEF w, n
<1> HIDE DEF w, n
<1>i. \A k, i, ns : NamedItem(k, i, ns).kind = k /\ NamedItem(k, i, ns).id = BlockId(k, i)
  BY DEF NamedItem
<1>4. \A i \in 1..Len(s) : w[i].kind = s[i].kind /\ w[i].id = BlockId(s[i].kind, i - 1)
  BY <1>1, <1>2, <1>i
<1>5. \A i \in 1..Len(s) : ~(w[i].kind = e.kind /\ w[i].id = e.id)
  BY <1>4 DEF Fresh
<1>6. Known(m, e) = {i \in 1..(Len(s) + 1) : w[i].kind = e.kind /\ w[i].id = e.id}
  BY <1>2, <1>3 DEF Known
<1>7. Len(s) + 1 \in 1..(Len(s) + 1) /\ \A i \in 1..(Len(s) + 1) : i = Len(s) + 1 \/ i \in 1..Len(s)
  BY <1>1
<1>8. Known(m, e) = {Len(s) + 1}
  BY <1>2, <1>5, <1>6, <1>7
<1>9. QED
  BY <1>8 DEF Place
----------------------------------------------------------------------------
(* Claude to Responses: what its converter says.                           *)

\* What a client of the Responses API has.
Response(phase, open, items, output) == [phase |-> phase, open |-> open, items |-> items, output |-> output]

\* What it makes of the start,
LEMMA ReadsCreated ==
  ASSUME NEW open, NEW items, NEW output
  PROVE  ReadResponsesEvent(Response("none", open, items, output), Created) = Response("started", open, items, output)
BY DEF ReadResponsesEvent, Response, Created

\* of the end,
LEMMA ReadsCompleted ==
  ASSUME NEW items, NEW output, NEW whole
  PROVE  ReadResponsesEvent(Response("started", {}, items, output), Completed(whole)) = Response("stopped", {}, items, whole)
BY DEF ReadResponsesEvent, Response, Completed

\* of an item that opens,
LEMMA ReadsAdded ==
  ASSUME NEW s \in Seq(Items), NEW kind, NEW id, Fresh(s, kind, id), NEW open, NEW output
  PROVE  ReadResponsesEvent(Response("started", open, Named(s), output), ItemAdded(kind, id))
         = Response("started", open \cup {Len(s) + 1}, Append(Named(s), [kind |-> kind, id |-> id, pieces |-> <<>>]), output)
<1> DEFINE n == Named(s)
           m == Response("started", open, n, output)
           e == ItemAdded(kind, id)
           x == [kind |-> kind, id |-> id, pieces |-> <<>>]
<1>1. e.event = "added" /\ e.kind = kind /\ e.id = id
  BY DEF ItemAdded
<1>2. m.phase = "started" /\ m.items = n /\ m.open = open /\ m.output = output
  BY DEF Response
<1>3. Known(m, e) = {}
  BY <1>1, <1>2, KnownNone
<1>4. Len(n) = Len(s)
  BY NamedType
<1>6. [kind |-> e.kind, id |-> e.id, pieces |-> <<>>] = x
  BY <1>1
<1> HIDE DEF e, m, n, x
<1>7. ReadResponsesEvent(m, e) = [m EXCEPT !.items = Append(m.items, [kind |-> e.kind, id |-> e.id, pieces |-> <<>>]),
                                           !.open = m.open \cup {Len(m.items) + 1}]
  BY <1>1, <1>2, <1>3 DEF ReadResponsesEvent
<1> DEFINE w == Append(n, x)
           l == open \cup {Len(s) + 1}
           r == Response("started", open, w, output)
<1>8. ReadResponsesEvent(m, e) = [m EXCEPT !.items = w, !.open = l]
  BY <1>2, <1>4, <1>6, <1>7
<1> HIDE DEF w, l
<1>9. [m EXCEPT !.items = w] = r
  BY DEF Response, m
<1>10. [r EXCEPT !.open = l] = Response("started", l, w, output)
  BY DEF Response
<1> HIDE DEF r
<1>11. [m EXCEPT !.items = w, !.open = l] = [[m EXCEPT !.items = w] EXCEPT !.open = l]
  OBVIOUS
<1>12. ReadResponsesEvent(m, e) = Response("started", l, w, output)
  BY <1>8, <1>9, <1>10, <1>11
<1>13. QED
  BY <1>12 DEF e, m, n, x, w, l

\* that grows,
LEMMA ReadsDelta ==
  ASSUME NEW s \in Seq(Items), NEW x \in NamedItems, NEW y \in NamedItems, Fresh(s, x.kind, x.id),
         NEW ns, With(x, ns) = y, NEW output
  PROVE  ReadResponsesEvent(Response("started", {Len(s) + 1}, Append(Named(s), x), output), ItemDelta(x.kind, x.id, ns))
         = Response("started", {Len(s) + 1}, Append(Named(s), y), output)
<1> DEFINE n == Named(s)
           w == Append(n, x)
           m == Response("started", {Len(s) + 1}, w, output)
           e == ItemDelta(x.kind, x.id, ns)
<1>1. e.event = "delta" /\ e.kind = x.kind /\ e.id = x.id /\ e.pieces = ns
  BY DEF ItemDelta
<1>2. m.items = w /\ m.open = {Len(s) + 1}
  BY DEF Response
<1>3. Known(m, e) = {Len(s) + 1} /\ Place(m, e) = Len(s) + 1
  <2> HIDE DEF m, e
  <2>1. m.items = Append(Named(s), x) /\ Fresh(s, e.kind, e.id)
    BY <1>1, <1>2
  <2>2. QED
    BY <1>1, <2>1, KnownLast
<1>4. n \in Seq(NamedItems) /\ Len(n) = Len(s)
  BY NamedType
<1> HIDE DEF n
<1>6. Len(w) = Len(s) + 1
  BY <1>4, AppendProperties
<1>7. MorePieces(w, ns) = Append(n, y)
  <2>1. MorePieces(Append(n, x), ns) = Append(n, y)
    BY <1>4, LastMore
  <2>2. QED
    BY <2>1
<1> HIDE DEF e, m, w
<1>8. ReadResponsesEvent(m, e) = [m EXCEPT !.items = [m.items EXCEPT ![Place(m, e)].pieces = @ \o e.pieces]]
  BY <1>1, <1>2, <1>3 DEF ReadResponsesEvent
<1>9. ReadResponsesEvent(m, e) = [m EXCEPT !.items = MorePieces(w, ns)]
  BY <1>1, <1>2, <1>3, <1>6, <1>8 DEF MorePieces
<1> DEFINE v == Append(n, y)
<1>v. MorePieces(w, ns) = v
  BY <1>7
<1> DEFINE o == {Len(s) + 1}
<1>o. m = Response("started", o, w, output)
  BY DEF m
<1> HIDE DEF v, o
<1>p. [Response("started", o, w, output) EXCEPT !.items = v] = Response("started", o, v, output)
  BY DEF Response
<1>5. [m EXCEPT !.items = v] = Response("started", {Len(s) + 1}, v, output)
  BY <1>o, <1>p DEF o
<1>10. ReadResponsesEvent(m, e) = Response("started", {Len(s) + 1}, v, output)
  BY <1>v, <1>5, <1>9
<1>11. QED
  BY <1>10 DEF e, m, n, w, v

\* and that is done.
LEMMA ReadsDone ==
  ASSUME NEW s \in Seq(Items), NEW x \in NamedItems, Fresh(s, x.kind, x.id), NEW output
  PROVE  ReadResponsesEvent(Response("started", {Len(s) + 1}, Append(Named(s), x), output), ItemDone(x.kind, x.id))
         = Response("started", {}, Append(Named(s), x), output)
<1> DEFINE w == Append(Named(s), x)
           m == Response("started", {Len(s) + 1}, w, output)
           e == ItemDone(x.kind, x.id)
<1>1. e.event = "done" /\ e.kind = x.kind /\ e.id = x.id
  BY DEF ItemDone
<1>2. m.items = w /\ m.open = {Len(s) + 1}
  BY DEF Response
<1>3. Known(m, e) = {Len(s) + 1} /\ Place(m, e) = Len(s) + 1
  <2> HIDE DEF m, e
  <2>1. m.items = Append(Named(s), x) /\ Fresh(s, e.kind, e.id)
    BY <1>1, <1>2
  <2>2. QED
    BY <1>1, <2>1, KnownLast
<1> HIDE DEF w
<1> DEFINE o == {Len(s) + 1}
           z == {}
<1>o. m = Response("started", o, w, output)
  OBVIOUS
<1> HIDE DEF o, m, z
<1>p. [Response("started", o, w, output) EXCEPT !.open = z] = Response("started", z, w, output)
  BY DEF Response
<1>4. [m EXCEPT !.open = {}] = Response("started", {}, w, output)
  BY <1>o, <1>p DEF z
<1> HIDE DEF e, m
<1>5. ReadResponsesEvent(m, e) = [m EXCEPT !.open = m.open \ {Place(m, e)}]
  BY <1>1, <1>2, <1>3 DEF ReadResponsesEvent
<1>6. m.open \ {Place(m, e)} = {}
  BY <1>2, <1>3
<1>7. ReadResponsesEvent(m, e) = Response("started", {}, w, output)
  BY <1>4, <1>5, <1>6
<1>8. QED
  BY <1>7 DEF e, m, w
\* What the converter has collected for the whole output.
Collecting(th, tx, cs) == [thought |-> th, text |-> tx, calls |-> cs, out |-> <<>>]

\* The route's converter and client.
LEMMA ClaudeToResponsesBy ==
  ASSUME route = <<"claude", "responses">>
  PROVE  /\ \A x : Translated(x, "straight") = ClaudeToResponses(params, x)
         /\ \A m, e : Read(m, e) = ReadResponsesEvent(m, e)
         /\ From = "claude" /\ To = "responses" /\ ~InParts /\ ~GeminiLike
         /\ FirstParams(route) = ClaudeResponsesParams /\ Nothing(route) = NoOutput
         /\ Whole = WholeClaudeToResponses(told) /\ TranslatedDone = params
<1>1. From = "claude" /\ To = "responses"
  BY DEF From, To
<1>2. ~InParts /\ ~GeminiLike
  BY <1>1 DEF InParts, GeminiLike, GeminiFormats
<1>3. ASSUME NEW x PROVE Translated(x, "straight") = ClaudeToResponses(params, x)
  BY DEF Translated
<1>4. ASSUME NEW m, NEW e PROVE Read(m, e) = ReadResponsesEvent(m, e)
  BY <1>1 DEF Read
<1>5. FirstParams(route) = ClaudeResponsesParams
  BY DEF FirstParams, GeminiFormats
<1>6. Nothing(route) = NoOutput
  BY DEF Nothing
<1>7. Whole = WholeClaudeToResponses(told)
  BY DEF Whole
<1>8. TranslatedDone = params
  BY DEF TranslatedDone
<1>9. QED
  BY <1>1, <1>2, <1>3, <1>4, <1>5, <1>6, <1>7, <1>8

\* A piece more of the last call.
CallsMore(p, ns) == [p EXCEPT !.calls = MorePieces(@, ns)]

\* What the converter says to each event.
LEMMA ClaudeToResponsesSays ==
  ASSUME NEW p, NEW e
  PROVE  /\ e.event = "created" => ClaudeToResponses(p, e) = Say(p, Created)
         /\ e.event = "open" /\ e.kind = "thought" =>
              ClaudeToResponses(p, e) = Say([p EXCEPT !.thought = <<>>], ItemAdded("thought", e.index))
         /\ e.event = "open" /\ e.kind = "text" => ClaudeToResponses(p, e) = Say(p, ItemAdded("text", 0))
         /\ e.event = "open" /\ e.kind = "call" =>
              ClaudeToResponses(p, e) = Say(Say([p EXCEPT !.calls = Append(@, Item("call", e.pieces))],
                                                ItemAdded("call", e.index)), ItemDelta("call", e.index, e.pieces))
         /\ e.event = "delta" /\ e.kind = "thought" =>
              ClaudeToResponses(p, e) = Say([p EXCEPT !.thought = @ \o e.pieces], ItemDelta("thought", e.index, e.pieces))
         /\ e.event = "delta" /\ e.kind = "text" =>
              ClaudeToResponses(p, e) = Say([p EXCEPT !.text = @ \o e.pieces], ItemDelta("text", 0, e.pieces))
         /\ e.event = "delta" /\ e.kind = "call" =>
              ClaudeToResponses(p, e) = Say(CallsMore(p, e.pieces), ItemDelta("call", e.index, e.pieces))
         /\ e.event = "close" => ClaudeToResponses(p, e) = Say(p, ItemDone(e.kind, BlockId(e.kind, e.index)))
         /\ e.event = "completed" =>
              ClaudeToResponses(p, e) = Say(p, Completed(OneItem("thought", p.thought) \o OneItem("text", p.text) \o p.calls))
<1>1. e.event = "created" => ClaudeToResponses(p, e) = Say(p, Created)
  BY DEF ClaudeToResponses
<1>2. /\ e.event = "open" /\ e.kind = "thought" =>
              ClaudeToResponses(p, e) = Say([p EXCEPT !.thought = <<>>], ItemAdded("thought", e.index))
      /\ e.event = "open" /\ e.kind = "text" => ClaudeToResponses(p, e) = Say(p, ItemAdded("text", 0))
      /\ e.event = "open" /\ e.kind = "call" =>
              ClaudeToResponses(p, e) = Say(Say([p EXCEPT !.calls = Append(@, Item("call", e.pieces))],
                                                ItemAdded("call", e.index)), ItemDelta("call", e.index, e.pieces))
  BY DEF ClaudeToResponses, ClaudeBlockToResponses, BlockItem
<1>d. e.event = "delta" => ClaudeToResponses(p, e) = ClaudeDeltaToResponses(p, e)
  BY DEF ClaudeToResponses
<1>3. /\ e.event = "delta" /\ e.kind = "thought" =>
              ClaudeToResponses(p, e) = Say([p EXCEPT !.thought = @ \o e.pieces], ItemDelta("thought", e.index, e.pieces))
      /\ e.event = "delta" /\ e.kind = "text" =>
              ClaudeToResponses(p, e) = Say([p EXCEPT !.text = @ \o e.pieces], ItemDelta("text", 0, e.pieces))
  BY <1>d DEF ClaudeDeltaToResponses, BlockItem
<1>4. e.event = "delta" /\ e.kind = "call" =>
              ClaudeToResponses(p, e) = Say(CallsMore(p, e.pieces), ItemDelta("call", e.index, e.pieces))
  BY <1>d DEF ClaudeDeltaToResponses, BlockItem, CallsMore, MorePieces
<1>5. e.event = "close" => ClaudeToResponses(p, e) = Say(p, ItemDone(e.kind, BlockId(e.kind, e.index)))
  BY DEF ClaudeToResponses, ClaudeBlockEndToResponses, BlockItem, BlockId
<1>6. e.event = "completed" =>
              ClaudeToResponses(p, e) = Say(p, Completed(OneItem("thought", p.thought) \o OneItem("text", p.text) \o p.calls))
  BY DEF ClaudeToResponses, ClaudeStopToResponses
<1>7. QED
  BY <1>1, <1>2, <1>3, <1>4, <1>5, <1>6

\* One event,
LEMMA CollectingSays ==
  ASSUME NEW th, NEW tx, NEW cs, NEW e
  PROVE  Say(Collecting(th, tx, cs), e) = [thought |-> th, text |-> tx, calls |-> cs, out |-> <<e>>]
BY OneOf DEF Say, Collecting

\* and two.
LEMMA CollectingSaysTwo ==
  ASSUME NEW th, NEW tx, NEW cs, NEW e, NEW f
  PROVE  Say(Say(Collecting(th, tx, cs), e), f) = [thought |-> th, text |-> tx, calls |-> cs, out |-> <<e, f>>]
<1> DEFINE p == [thought |-> th, text |-> tx, calls |-> cs, out |-> <<e>>]
<1>1. Append(<<e>>, f) = <<e, f>> /\ p.out = <<e>>
  BY OneOf
<1>2. [p EXCEPT !.out = <<e, f>>] = [thought |-> th, text |-> tx, calls |-> cs, out |-> <<e, f>>]
  OBVIOUS
<1>3. Say(Collecting(th, tx, cs), e) = p
  BY CollectingSays
<1> HIDE DEF p
<1>4. QED
  BY <1>1, <1>2, <1>3 DEF Say, p

\* One of Claude's events goes through the converter and is read.
LEMMA ClaudeResponsesHears ==
  ASSUME route = <<"claude", "responses">>, NEW th, NEW tx, NEW cs, params = Collecting(th, tx, cs),
         NEW e, HandOn(Translated(e, "straight"))
  PROVE  /\ e.event = "created" => params' = params /\ client' = ReadResponsesEvent(client, Created)
         /\ e.event = "open" /\ e.kind = "thought" =>
              params' = Collecting(<<>>, tx, cs) /\ client' = ReadResponsesEvent(client, ItemAdded("thought", e.index))
         /\ e.event = "open" /\ e.kind = "text" =>
              params' = params /\ client' = ReadResponsesEvent(client, ItemAdded("text", 0))
         /\ e.event = "open" /\ e.kind = "call" =>
              /\ params' = Collecting(th, tx, Append(cs, Item("call", e.pieces)))
              /\ client' = ReadResponsesEvent(ReadResponsesEvent(client, ItemAdded("call", e.index)),
                                              ItemDelta("call", e.index, e.pieces))
         /\ e.event = "delta" /\ e.kind = "thought" =>
              params' = Collecting(th \o e.pieces, tx, cs) /\ client' = ReadResponsesEvent(client, ItemDelta("thought", e.index, e.pieces))
         /\ e.event = "delta" /\ e.kind = "text" =>
              params' = Collecting(th, tx \o e.pieces, cs) /\ client' = ReadResponsesEvent(client, ItemDelta("text", 0, e.pieces))
         /\ e.event = "delta" /\ e.kind = "call" =>
              params' = Collecting(th, tx, MorePieces(cs, e.pieces))
              /\ client' = ReadResponsesEvent(client, ItemDelta("call", e.index, e.pieces))
         /\ e.event = "close" =>
              params' = params /\ client' = ReadResponsesEvent(client, ItemDone(e.kind, BlockId(e.kind, e.index)))
         /\ e.event = "completed" =>
              params' = params
              /\ client' = ReadResponsesEvent(client, Completed(OneItem("thought", th) \o OneItem("text", tx) \o cs))
<1> DEFINE o == Collecting(th, tx, cs)
           p == ClaudeToResponses(o, e)
<1>1. HandOn(p) /\ \A m, x : Read(m, x) = ReadResponsesEvent(m, x)
  BY ClaudeToResponsesBy
<1>2. /\ o.thought = th /\ o.text = tx /\ o.calls = cs /\ o.out = <<>>
      /\ \A c : [o EXCEPT !.calls = c] = Collecting(th, tx, c)
      /\ \A c : [o EXCEPT !.text = c] = Collecting(th, c, cs)
      /\ \A c : [o EXCEPT !.thought = c] = Collecting(c, tx, cs)
  BY DEF Collecting
<1> HIDE DEF p
<1>3. /\ params' = [p EXCEPT !.out = <<>>]
      /\ \A x : p.out = <<x>> => client' = ReadResponsesEvent(client, x)
      /\ \A x, y : p.out = <<x, y>> => client' = ReadResponsesEvent(ReadResponsesEvent(client, x), y)
  BY <1>1, HandsOn
<1>4. ASSUME NEW j, NEW k, NEW l, NEW x, p = Say(Collecting(j, k, l), x)
      PROVE params' = Collecting(j, k, l) /\ client' = ReadResponsesEvent(client, x)
  <2>1. p = [thought |-> j, text |-> k, calls |-> l, out |-> <<x>>]
    BY <1>4, CollectingSays
  <2>2. QED
    BY <1>3, <2>1 DEF Collecting
<1>5. ASSUME NEW j, NEW k, NEW l, NEW x, NEW y, p = Say(Say(Collecting(j, k, l), x), y)
      PROVE params' = Collecting(j, k, l) /\ client' = ReadResponsesEvent(ReadResponsesEvent(client, x), y)
  <2>1. p = [thought |-> j, text |-> k, calls |-> l, out |-> <<x, y>>]
    BY <1>5, CollectingSaysTwo
  <2>2. QED
    BY <1>3, <2>1 DEF Collecting
<1>a. params = o
  OBVIOUS
<1>b. p = ClaudeToResponses(o, e)
  BY DEF p
<1>c. o = Collecting(th, tx, cs)
  OBVIOUS
<1> HIDE DEF o
<1>6. ASSUME e.event = "created" PROVE params' = params /\ client' = ReadResponsesEvent(client, Created)
  <2>1. p = Say(o, Created)
    BY <1>6, <1>b, ClaudeToResponsesSays
  <2>2. QED
    BY <1>4, <1>a, <1>c, <2>1
<1>7. ASSUME e.event = "open", e.kind = "thought"
      PROVE params' = Collecting(<<>>, tx, cs) /\ client' = ReadResponsesEvent(client, ItemAdded("thought", e.index))
  <2>1. p = Say([o EXCEPT !.thought = <<>>], ItemAdded("thought", e.index))
    BY <1>7, <1>b, ClaudeToResponsesSays
  <2>2. QED
    BY <1>2, <1>4, <2>1
<1>8. ASSUME e.event = "open", e.kind = "text"
      PROVE params' = params /\ client' = ReadResponsesEvent(client, ItemAdded("text", 0))
  <2>1. p = Say(o, ItemAdded("text", 0))
    BY <1>8, <1>b, ClaudeToResponsesSays
  <2>2. QED
    BY <1>4, <1>a, <1>c, <2>1
<1>9. ASSUME e.event = "open", e.kind = "call"
      PROVE /\ params' = Collecting(th, tx, Append(cs, Item("call", e.pieces)))
            /\ client' = ReadResponsesEvent(ReadResponsesEvent(client, ItemAdded("call", e.index)),
                                            ItemDelta("call", e.index, e.pieces))
  <2>1. p = Say(Say([o EXCEPT !.calls = Append(o.calls, Item("call", e.pieces))],
                    ItemAdded("call", e.index)), ItemDelta("call", e.index, e.pieces))
    BY <1>9, <1>b, ClaudeToResponsesSays
  <2>2. p = Say(Say(Collecting(th, tx, Append(cs, Item("call", e.pieces))),
                    ItemAdded("call", e.index)), ItemDelta("call", e.index, e.pieces))
    BY <1>2, <2>1
  <2>3. QED
    BY <1>5, <2>2
<1>10. ASSUME e.event = "delta", e.kind = "thought"
      PROVE params' = Collecting(th \o e.pieces, tx, cs) /\ client' = ReadResponsesEvent(client, ItemDelta("thought", e.index, e.pieces))
  <2>1. p = Say([o EXCEPT !.thought = o.thought \o e.pieces], ItemDelta("thought", e.index, e.pieces))
    BY <1>10, <1>b, ClaudeToResponsesSays
  <2>2. p = Say(Collecting(th \o e.pieces, tx, cs), ItemDelta("thought", e.index, e.pieces))
    BY <1>2, <2>1
  <2>3. QED
    BY <1>4, <2>2
<1>11. ASSUME e.event = "delta", e.kind = "text"
      PROVE params' = Collecting(th, tx \o e.pieces, cs) /\ client' = ReadResponsesEvent(client, ItemDelta("text", 0, e.pieces))
  <2>1. p = Say([o EXCEPT !.text = o.text \o e.pieces], ItemDelta("text", 0, e.pieces))
    BY <1>11, <1>b, ClaudeToResponsesSays
  <2>2. p = Say(Collecting(th, tx \o e.pieces, cs), ItemDelta("text", 0, e.pieces))
    BY <1>2, <2>1
  <2>3. QED
    BY <1>4, <2>2
<1>12. ASSUME e.event = "delta", e.kind = "call"
      PROVE params' = Collecting(th, tx, MorePieces(cs, e.pieces))
            /\ client' = ReadResponsesEvent(client, ItemDelta("call", e.index, e.pieces))
  <2>1. p = Say(CallsMore(o, e.pieces), ItemDelta("call", e.index, e.pieces))
    BY <1>12, <1>b, ClaudeToResponsesSays
  <2>2. CallsMore(o, e.pieces) = Collecting(th, tx, MorePieces(cs, e.pieces))
    BY <1>2 DEF CallsMore
  <2>3. QED
    BY <1>4, <2>1, <2>2
<1>13. ASSUME e.event = "close"
      PROVE params' = params /\ client' = ReadResponsesEvent(client, ItemDone(e.kind, BlockId(e.kind, e.index)))
  <2>1. p = Say(o, ItemDone(e.kind, BlockId(e.kind, e.index)))
    BY <1>13, <1>b, ClaudeToResponsesSays
  <2>2. QED
    BY <1>4, <1>a, <1>c, <2>1
<1>14. ASSUME e.event = "completed"
      PROVE params' = params /\ client' = ReadResponsesEvent(client, Completed(OneItem("thought", th) \o OneItem("text", tx) \o cs))
  <2>1. p = Say(o, Completed(OneItem("thought", o.thought) \o OneItem("text", o.text) \o o.calls))
    BY <1>14, <1>b, ClaudeToResponsesSays
  <2>2. p = Say(o, Completed(OneItem("thought", th) \o OneItem("text", tx) \o cs))
    BY <1>2, <2>1
  <2>3. QED
    BY <1>4, <1>a, <1>c, <2>2
<1>15. QED
  BY <1>6, <1>7, <1>8, <1>9, <1>10, <1>11, <1>12, <1>13, <1>14

\* It is all that was told, by kind.
Collected(s) == Collecting(Run(s, "thought"), Run(s, "text"), Calls(s))

\* The place of the open item.
OpenItem == IF block = "" THEN {} ELSE {Len(told)}

\* Of no kind but a call was there a second block.
Singles(s) == \A i, j \in DOMAIN s : s[i].kind = s[j].kind /\ s[i].kind # "call" => i = j

\* What holds as long as there was no second block of a kind.
ClaudeResponsesKeeps ==
  /\ Singles(told)
  /\ params = Collected(told)
  /\ client = Response(client.phase, OpenItem, Named(told), client.output)
  /\ stage = "new" => client.phase = "none"
  /\ stage = "speaking" => client.phase = "started"
  /\ stage \in {"finished", "over"} => client.phase = "stopped" /\ client.output = WholeClaudeToResponses(told)
  /\ stage = "cut" => client.phase \in {"none", "started"}

\* Claude to Responses: until then the client has what was told, item by
\* item, and at the end the whole output.
ClaudeResponsesArrives ==
  /\ route = <<"claude", "responses">>
  /\ "content" \notin lapsed => ClaudeResponsesKeeps

\* So it begins,
LEMMA ClaudeResponsesBegins == TranslationInit /\ route = <<"claude", "responses">> => ClaudeResponsesArrives
<1> SUFFICES ASSUME TranslationInit, route = <<"claude", "responses">> PROVE ClaudeResponsesArrives
  OBVIOUS
<1>1. told = <<>> /\ block = "" /\ stage = "new" /\ params = ClaudeResponsesParams /\ client = NoOutput
  BY ClaudeToResponsesBy DEF TranslationInit
<1>2. Run(<<>>, "thought") = <<>> /\ Run(<<>>, "text") = <<>> /\ Calls(<<>>) = <<>> /\ Named(<<>>) = <<>>
  BY RunOf, CallsOf DEF Named
<1>3. params = Collected(told)
  BY <1>1, <1>2 DEF Collected, Collecting, ClaudeResponsesParams
<1>4. client = Response(client.phase, OpenItem, Named(told), client.output) /\ client.phase = "none"
  BY <1>1, <1>2 DEF Response, NoOutput, OpenItem
<1>5. Singles(told)
  <2>1. DOMAIN <<>> = {}
    OBVIOUS
  <2>2. QED
    BY <1>1, <2>1 DEF Singles
<1>6. QED
  BY <1>1, <1>3, <1>4, <1>5 DEF ClaudeResponsesArrives, ClaudeResponsesKeeps

\* and what it has at the end is what was told.
LEMMA ClaudeResponsesArrived == ClaudeResponsesArrives /\ Upstream => AnswersArrive
<1> SUFFICES ASSUME ClaudeResponsesArrives, Upstream PROVE AnswersArrive
  OBVIOUS
<1>1. route = <<"claude", "responses">> /\ From = "claude" /\ To = "responses" /\ Whole = WholeClaudeToResponses(told)
  BY ClaudeToResponsesBy DEF ClaudeResponsesArrives
<1>2. told \in Seq(Items)
  BY DEF Upstream
<1>3. "content" \notin lapsed => client.phase # "broken" \/ stage = "cut"
  BY DEF ClaudeResponsesArrives, ClaudeResponsesKeeps, Upstream
<1>4. SameByKind(WholeClaudeToResponses(told), InOrder)
  BY <1>2, OutputSame
<1>5. ASSUME stage = "over", "content" \notin lapsed PROVE ContentArrived
  <2>1. /\ client.phase = "stopped" /\ client.output = WholeClaudeToResponses(told)
        /\ client = Response(client.phase, OpenItem, Named(told), client.output)
    BY <1>5 DEF ClaudeResponsesArrives, ClaudeResponsesKeeps
  <2>2. client.items = Named(told)
    BY <2>1 DEF Response
  <2>3. SameByKind(Named(told), InOrder)
    <3>1. Run(Named(told), "thought") = Run(told, "thought") /\ Run(Named(told), "text") = Run(told, "text")
          /\ Pieces(Calls(Named(told))) = Pieces(Calls(told))
      BY <1>2, NamedSame
    <3>2. QED
      BY <3>1 DEF SameByKind, InOrder
  <2>4. SameByKind(client.items, InOrder) /\ SameByKind(client.output, InOrder)
    BY <1>4, <2>1, <2>2, <2>3
  <2>5. QED
    BY <1>1, <2>1, <2>4 DEF ContentArrived
<1>6. ReasonArrived
  BY <1>1 DEF ReasonArrived
<1>7. stage = "cut" /\ lapsed = {} => ~LooksWhole
  BY <1>1 DEF ClaudeResponsesArrives, ClaudeResponsesKeeps, LooksWhole
<1>8. AnswerArrives
  BY <1>1, <1>3, <1>5, <1>6, <1>7 DEF AnswerArrives
<1>9. WholeArrives
  BY <1>1, <1>4 DEF WholeArrives, WholeAgrees
<1>10. QED
  BY <1>8, <1>9 DEF AnswersArrive
----------------------------------------------------------------------------
(* Claude to Responses: a block opens, grows and closes, and the end.      *)

\* A first block of its kind keeps them single; so does a piece more.
LEMMA SinglesAppend ==
  ASSUME NEW s \in Seq(Items), NEW x \in Items, Singles(s), x.kind # "call" => \A i \in DOMAIN s : s[i].kind # x.kind
  PROVE  Singles(Append(s, x))
<1> DEFINE l == Append(s, x)
<1>1. /\ DOMAIN s = 1..Len(s) /\ DOMAIN l = 1..(Len(s) + 1) /\ Len(s) \in Nat
      /\ l[Len(s) + 1] = x /\ \A i \in 1..Len(s) : l[i] = s[i]
  BY AppendProperties, LenProperties
<1> HIDE DEF l
<1>2. SUFFICES ASSUME NEW i \in DOMAIN l, NEW j \in DOMAIN l, l[i].kind = l[j].kind, l[i].kind # "call" PROVE i = j
  BY DEF Singles, l
<1>3. \A k \in DOMAIN l : k = Len(s) + 1 \/ k \in DOMAIN s
  BY <1>1
<1>4. CASE i \in DOMAIN s /\ j \in DOMAIN s
  BY <1>1, <1>2, <1>4 DEF Singles
<1>5. CASE i = Len(s) + 1 /\ j \in DOMAIN s
  BY <1>1, <1>2, <1>5
<1>6. CASE j = Len(s) + 1 /\ i \in DOMAIN s
  BY <1>1, <1>2, <1>6
<1>7. QED
  BY <1>3, <1>4, <1>5, <1>6

\* One of its own kind, the last item is the first of it.
LEMMA SinglesFront ==
  ASSUME NEW q \in Seq(Items), NEW x \in Items, Singles(Append(q, x))
  PROVE  Singles(q) /\ (x.kind # "call" => \A i \in DOMAIN q : q[i].kind # x.kind)
<1> DEFINE l == Append(q, x)
<1>1. /\ DOMAIN q = 1..Len(q) /\ DOMAIN l = 1..(Len(q) + 1) /\ Len(q) \in Nat
      /\ l[Len(q) + 1] = x /\ \A i \in 1..Len(q) : l[i] = q[i]
  BY AppendProperties, LenProperties
<1>2. Singles(l)
  OBVIOUS
<1> HIDE DEF l
<1>3. Len(q) + 1 \in DOMAIN l /\ \A i \in DOMAIN q : i \in DOMAIN l /\ l[i] = q[i] /\ i # Len(q) + 1
  BY <1>1
<1>4. Singles(q)
  BY <1>2, <1>3 DEF Singles
<1>5. ASSUME x.kind # "call", NEW i \in DOMAIN q PROVE q[i].kind # x.kind
  BY <1>1, <1>2, <1>3, <1>5 DEF Singles
<1>6. QED
  BY <1>4, <1>5

\* Nothing of a kind that was not told.
LEMMA NoRun ==
  ASSUME NEW s \in Seq(Items), NEW kind, \A i \in DOMAIN s : s[i].kind # kind
  PROVE  Run(s, kind) = <<>>
<1> DEFINE P(t) == (\A i \in DOMAIN t : t[i].kind # kind) => Run(t, kind) = <<>>
           T == {t \in Seq(Items) : P(t)}
<1>1. <<>> \in T
  BY EmptySeq, RunOf
<1>2. ASSUME NEW t \in Seq(Items), NEW x \in Items, t \in T PROVE Append(t, x) \in T
  <2> DEFINE l == Append(t, x)
  <2>1. /\ l \in Seq(Items) /\ DOMAIN t = 1..Len(t) /\ DOMAIN l = 1..(Len(t) + 1) /\ Len(t) \in Nat
        /\ l[Len(t) + 1] = x /\ \A i \in 1..Len(t) : l[i] = t[i]
    BY AppendProperties, LenProperties
  <2>2. Run(l, kind) = IF x.kind = kind THEN Run(t, kind) \o x.pieces ELSE Run(t, kind)
    BY RunOf
  <2>3. P(t)
    BY <1>2
  <2> HIDE DEF l
  <2>4. ASSUME \A i \in DOMAIN l : l[i].kind # kind PROVE Run(l, kind) = <<>>
    <3>1. Len(t) + 1 \in DOMAIN l /\ \A i \in DOMAIN t : i \in DOMAIN l /\ l[i] = t[i]
      BY <2>1
    <3>2. x.kind # kind /\ \A i \in DOMAIN t : t[i].kind # kind
      BY <2>1, <2>4, <3>1
    <3>3. QED
      BY <2>2, <2>3, <3>2
  <2>5. QED
    BY <2>1, <2>4 DEF l
<1> HIDE DEF T
<1>3. Seq(Items) \subseteq T
  BY <1>1, <1>2, SequencesFrom
<1>4. QED
  BY <1>3 DEF T

\* A block is opened.
LEMMA ClaudeResponsesOpens ==
  ASSUME Upstream, ClaudeResponsesArrives, ClaudeResponsesKeeps,
         NEW kind \in ItemKinds, SayOpen(kind), ~BlockGarbled(kind)
  PROVE  /\ Singles(told') /\ params' = Collected(told')
         /\ client' = Response("started", {Len(told) + 1}, Named(told'), client.output)
<1> DEFINE ns == IF kind = "call" THEN <<said + 1>> ELSE <<>>
           e == Event("open", kind, ns)
           x == Item(kind, ns)
           th == Run(told, "thought")
           tx == Run(told, "text")
           cs == Calls(told)
           out == client.output
           i == Len(told)
<1>1. stage = "speaking" /\ HandOn(Translated(e, "straight")) /\ block = ""
  BY DEF SayOpen
<1>2. e.event = "open" /\ e.kind = kind /\ e.pieces = ns
  BY EventIs
<1>3. told' = Append(told, x) /\ x \in Items /\ x.kind = kind /\ x.pieces = ns
  BY Hears DEF Opens, Item
<1> HIDE DEF x
<1>4. /\ route = <<"claude", "responses">> /\ told \in Seq(Items) /\ i \in Nat /\ Singles(told)
  BY LenProperties DEF Upstream, ClaudeResponsesArrives, ClaudeResponsesKeeps
<1>5. e.index = i
  <2>1. e.index = Len(told) - 0
    BY EventIndex
  <2>2. QED
    BY <1>4, <2>1
<1>6. kind # "call" => \A j \in DOMAIN told : told[j].kind # kind
  BY <1>4 DEF BlockGarbled, ToldKind
<1>a. params = Collecting(th, tx, cs)
  BY DEF ClaudeResponsesKeeps, Collected
<1>b. client = Response("started", {}, Named(told), out)
  BY <1>1 DEF ClaudeResponsesKeeps, OpenItem
<1>7. /\ th \in Seq(Nat) /\ tx \in Seq(Nat) /\ x.pieces \in Seq(Nat) /\ th \o <<>> = th /\ tx \o <<>> = tx
  BY <1>3, <1>4, RunOf, ConcatOne DEF Items
<1>8. /\ Run(told', "thought") = IF kind = "thought" THEN th \o ns ELSE th
      /\ Run(told', "text") = IF kind = "text" THEN tx \o ns ELSE tx
      /\ Calls(told') = IF kind = "call" THEN Append(cs, x) ELSE cs
  <2>1. ASSUME NEW k PROVE Run(Append(told, x), k) = IF x.kind = k THEN Run(told, k) \o x.pieces ELSE Run(told, k)
    BY <1>3, <1>4, RunOf
  <2>2. Calls(Append(told, x)) = IF x.kind = "call" THEN Append(Calls(told), x) ELSE Calls(told)
    BY <1>3, <1>4, CallsOf
  <2> HIDE DEF ns
  <2>3. QED
    BY <1>3, <2>1, <2>2
<1>9. Singles(told')
  BY <1>3, <1>4, <1>6, SinglesAppend
<1>10. Fresh(told, kind, BlockId(kind, i))
  BY <1>4, <1>6, FreshIs
<1> DEFINE y == NamedItem(kind, i, ns)
           z == NamedItem(kind, i, <<>>)
<1>11. Named(told') = Append(Named(told), y) /\ y \in NamedItems
  BY <1>3, <1>4, NamedAppend
<1>12. z \in NamedItems /\ z.kind = kind /\ z.id = BlockId(kind, i)
  <2>1. <<>> \in Seq(Nat) /\ i \in Int
    BY <1>4, EmptySeq
  <2> HIDE DEF i
  <2>2. QED
    BY <2>1, NamedItemIs
<1>13. ReadResponsesEvent(client, ItemAdded(kind, BlockId(kind, i))) = Response("started", {i + 1}, Append(Named(told), z), out)
  <2>1. [kind |-> kind, id |-> BlockId(kind, i), pieces |-> <<>>] = z
    BY DEF NamedItem
  <2>2. {} \cup {i + 1} = {i + 1}
    OBVIOUS
  <2> HIDE DEF out, z
  <2>3. ReadResponsesEvent(Response("started", {}, Named(told), out), ItemAdded(kind, BlockId(kind, i)))
        = Response("started", {} \cup {i + 1}, Append(Named(told), [kind |-> kind, id |-> BlockId(kind, i), pieces |-> <<>>]), out)
    BY <1>4, <1>10, ReadsAdded
  <2>4. QED
    BY <1>b, <2>1, <2>2, <2>3
<1> HIDE DEF e, th, tx, cs, out
<1>14. CASE kind = "thought"
  <2>1. params' = Collecting(<<>>, tx, cs) /\ client' = ReadResponsesEvent(client, ItemAdded("thought", i))
    BY <1>1, <1>2, <1>4, <1>5, <1>a, <1>14, ClaudeResponsesHears
  <2>2. th = <<>>
    BY <1>4, <1>6, <1>14, NoRun DEF th
  <2>3. BlockId(kind, i) = i /\ ns = <<>> /\ y = z
    BY <1>14 DEF BlockId
  <2>4. params' = Collected(told')
    BY <1>7, <1>8, <1>14, <2>1, <2>2, <2>3 DEF Collected
  <2>5. QED
    BY <1>9, <1>11, <1>13, <1>14, <2>1, <2>3, <2>4 DEF out
<1>15. CASE kind = "text"
  <2>1. params' = params /\ client' = ReadResponsesEvent(client, ItemAdded("text", 0))
    BY <1>1, <1>2, <1>4, <1>a, <1>15, ClaudeResponsesHears
  <2>2. BlockId(kind, i) = 0 /\ ns = <<>> /\ y = z
    BY <1>15 DEF BlockId
  <2>3. params' = Collected(told')
    BY <1>7, <1>8, <1>a, <1>15, <2>1, <2>2 DEF Collected
  <2>4. QED
    BY <1>9, <1>11, <1>13, <1>15, <2>1, <2>2, <2>3 DEF out
<1>16. CASE kind = "call"
  <2>1. /\ params' = Collecting(th, tx, Append(cs, Item("call", ns)))
        /\ client' = ReadResponsesEvent(ReadResponsesEvent(client, ItemAdded("call", i)), ItemDelta("call", i, ns))
    BY <1>1, <1>2, <1>4, <1>5, <1>a, <1>16, ClaudeResponsesHears
  <2>2. BlockId(kind, i) = i /\ x = Item("call", ns)
    BY <1>16 DEF BlockId, x
  <2>3. params' = Collected(told')
    BY <1>8, <1>16, <2>1, <2>2 DEF Collected
  <2>4. With(z, ns) = y
    <3>1. <<>> \o ns = ns
      BY <1>3, <1>7
    <3> HIDE DEF ns
    <3>2. QED
      BY <3>1 DEF With, NamedItem
  <2> HIDE DEF z, y, ns
  <2>5. ReadResponsesEvent(Response("started", {i + 1}, Append(Named(told), z), out), ItemDelta(z.kind, z.id, ns))
        = Response("started", {i + 1}, Append(Named(told), y), out)
    BY <1>4, <1>10, <1>11, <1>12, <2>4, ReadsDelta
  <2>6. QED
    BY <1>9, <1>11, <1>12, <1>13, <1>16, <2>1, <2>2, <2>3, <2>5 DEF out
<1>17. QED
  BY <1>14, <1>15, <1>16 DEF ItemKinds

\* One piece more.
LEMMA WithOne ==
  /\ \A x \in Items, n \in Nat : With(x, <<n>>) = Grown(x, n)
  /\ \A kind, i : \A ns \in Seq(Nat), n \in Nat : With(NamedItem(kind, i, ns), <<n>>) = NamedItem(kind, i, Append(ns, n))
<1>1. ASSUME NEW x \in Items, NEW n \in Nat PROVE With(x, <<n>>) = Grown(x, n)
  <2>1. x.pieces \o <<n>> = Append(x.pieces, n)
    BY ConcatOne DEF Items
  <2>2. QED
    BY <2>1 DEF With, Grown
<1>2. ASSUME NEW kind, NEW i, NEW ns \in Seq(Nat), NEW n \in Nat
      PROVE  With(NamedItem(kind, i, ns), <<n>>) = NamedItem(kind, i, Append(ns, n))
  <2> DEFINE more == Append(ns, n)
             one == <<n>>
  <2>1. ns \o one = more
    BY ConcatOne
  <2> HIDE DEF more, one
  <2> DEFINE v == NamedItem(kind, i, ns)
  <2>2. v.pieces = ns
    BY DEF NamedItem
  <2>3. [v EXCEPT !.pieces = more] = NamedItem(kind, i, more)
    BY DEF NamedItem
  <2> HIDE DEF v
  <2>4. With(v, one) = NamedItem(kind, i, more)
    BY <2>1, <2>2, <2>3 DEF With
  <2>5. QED
    BY <2>4 DEF v, one, more
<1>3. QED
  BY <1>1, <1>2

\* The open block grows.
LEMMA ClaudeResponsesGrows ==
  ASSUME Upstream, ClaudeResponsesArrives, ClaudeResponsesKeeps, SayDelta
  PROVE  /\ Singles(told') /\ params' = Collected(told')
         /\ client' = Response("started", {Len(told')}, Named(told'), client.output)
<1> DEFINE n == said + 1
           e == Event("delta", block, <<n>>)
           th == Run(told, "thought")
           tx == Run(told, "text")
           cs == Calls(told)
           out == client.output
<1>1. stage = "speaking" /\ HandOn(Translated(e, "straight")) /\ block # ""
  BY DEF SayDelta
<1>2. e.event = "delta" /\ e.kind = block /\ e.pieces = <<n>>
  BY EventIs
<1>3. PICK q, x : Grows(q, x, n)
  BY Hears
<1> DEFINE i == Len(q)
           g == Grown(x, n)
<1>4. /\ q \in Seq(Items) /\ x \in Items /\ x.kind = block /\ n \in Nat
      /\ told = Append(q, x) /\ told' = Append(q, g) /\ Len(told) = i + 1 /\ Len(told') = i + 1 /\ i \in Nat
  BY <1>3, LenProperties DEF Grows
<1>5. /\ route = <<"claude", "responses">> /\ Singles(told)
  BY DEF ClaudeResponsesArrives, ClaudeResponsesKeeps
<1>6. e.index = i
  <2>1. e.index = Len(told) - 1
    BY EventIndex
  <2>2. QED
    BY <1>4, <2>1, OneBack
<1>a. params = Collecting(th, tx, cs)
  BY DEF ClaudeResponsesKeeps, Collected
<1>b. client = Response("started", {i + 1}, Named(told), out)
  BY <1>1, <1>4 DEF ClaudeResponsesKeeps, OpenItem
<1>g. g \in Items /\ g.kind = block /\ g.pieces = Append(x.pieces, n) /\ x.pieces \in Seq(Nat) /\ block \in ItemKinds
  BY <1>4, GrownIs DEF Items
<1> HIDE DEF n, e, g
<1>7. Singles(q) /\ (block # "call" => \A j \in DOMAIN q : q[j].kind # block)
  BY <1>4, <1>5, SinglesFront
<1>8. Singles(told')
  BY <1>4, <1>7, <1>g, SinglesAppend
<1>9. Fresh(q, block, BlockId(block, i))
  BY <1>4, <1>7, FreshIs
<1> DEFINE z == NamedItem(block, i, x.pieces)
           y == NamedItem(block, i, g.pieces)
<1>10. /\ Named(told) = Append(Named(q), z) /\ z \in NamedItems
       /\ Named(told') = Append(Named(q), y) /\ y \in NamedItems
  BY <1>4, <1>g, NamedAppend
<1>11. z.kind = block /\ z.id = BlockId(block, i)
  BY DEF NamedItem
<1>12. With(z, <<n>>) = y
  BY <1>4, <1>g, WithOne
<1> HIDE DEF y, z, i, th, tx, cs, out
<1>13. ReadResponsesEvent(client, ItemDelta(block, BlockId(block, i), <<n>>))
       = Response("started", {Len(told')}, Named(told'), out)
  <2> DEFINE ns == <<n>>
  <2>1. With(z, ns) = y /\ Fresh(q, z.kind, z.id)
    BY <1>9, <1>11, <1>12
  <2> HIDE DEF ns
  <2>2. ReadResponsesEvent(Response("started", {Len(q) + 1}, Append(Named(q), z), out), ItemDelta(z.kind, z.id, ns))
        = Response("started", {Len(q) + 1}, Append(Named(q), y), out)
    BY <1>4, <1>10, <2>1, ReadsDelta
  <2>3. QED
    BY <1>4, <1>b, <1>10, <1>11, <2>2 DEF ns, i
<1>14. ASSUME NEW k PROVE Run(told', k) = IF block = k THEN Run(told, k) \o <<n>> ELSE Run(told, k)
  <2>1. Run(Append(q, g), k) = IF x.kind = k THEN Append(Run(Append(q, x), k), n) ELSE Run(Append(q, x), k)
    BY <1>4, RunGrows DEF g
  <2>2. Run(told, k) \in Seq(Nat)
    BY <1>4, RunOf, ItemsAppend
  <2>3. Run(told, k) \o <<n>> = Append(Run(told, k), n)
    BY <1>4, <2>2, ConcatOne
  <2>4. QED
    BY <1>4, <2>1, <2>3
<1>15. Calls(told') = IF block = "call" THEN MorePieces(cs, <<n>>) ELSE cs
  <2>1. Calls(told') = IF block = "call" THEN Append(Calls(q), g) ELSE Calls(q)
    BY <1>4, <1>g, CallsOf
  <2>2. cs = IF block = "call" THEN Append(Calls(q), x) ELSE Calls(q)
    BY <1>4, CallsOf DEF cs
  <2>3. MorePieces(Append(Calls(q), x), <<n>>) = Append(Calls(q), g)
    <3>1. Calls(q) \in Seq(Items)
      BY <1>4, CallsOf
    <3>2. With(x, <<n>>) = g
      BY <1>4, WithOne DEF g
    <3> DEFINE ns == <<n>>
    <3>3. With(x, ns) = g
      BY <3>2
    <3> HIDE DEF ns
    <3>4. MorePieces(Append(Calls(q), x), ns) = Append(Calls(q), g)
      BY <1>4, <1>g, <3>1, <3>3, LastMore
    <3>5. QED
      BY <3>4 DEF ns
  <2>4. QED
    BY <2>1, <2>2, <2>3
<1> DEFINE ns == <<n>>
<1>16. e.pieces = ns /\ Run(told', "thought") = (IF block = "thought" THEN th \o ns ELSE th)
       /\ Run(told', "text") = (IF block = "text" THEN tx \o ns ELSE tx)
       /\ Calls(told') = (IF block = "call" THEN MorePieces(cs, ns) ELSE cs)
  BY <1>2, <1>14, <1>15 DEF th, tx
<1>17. ReadResponsesEvent(client, ItemDelta(block, BlockId(block, i), ns)) = Response("started", {Len(told')}, Named(told'), out)
  BY <1>13
<1> HIDE DEF ns
<1>18. CASE block = "thought"
  <2>1. params' = Collecting(th \o ns, tx, cs) /\ client' = ReadResponsesEvent(client, ItemDelta("thought", i, ns))
    BY <1>1, <1>2, <1>5, <1>6, <1>a, <1>16, <1>18, ClaudeResponsesHears
  <2>2. QED
    BY <1>8, <1>16, <1>17, <1>18, <2>1 DEF Collected, BlockId, out
<1>19. CASE block = "text"
  <2>1. params' = Collecting(th, tx \o ns, cs) /\ client' = ReadResponsesEvent(client, ItemDelta("text", 0, ns))
    BY <1>1, <1>2, <1>5, <1>6, <1>a, <1>16, <1>19, ClaudeResponsesHears
  <2>2. QED
    BY <1>8, <1>16, <1>17, <1>19, <2>1 DEF Collected, BlockId, out
<1>20. CASE block = "call"
  <2>1. params' = Collecting(th, tx, MorePieces(cs, ns)) /\ client' = ReadResponsesEvent(client, ItemDelta("call", i, ns))
    BY <1>1, <1>2, <1>5, <1>6, <1>a, <1>16, <1>20, ClaudeResponsesHears
  <2>2. QED
    BY <1>8, <1>16, <1>17, <1>20, <2>1 DEF Collected, BlockId, out
<1>21. QED
  BY <1>18, <1>19, <1>20, <1>g DEF ItemKinds

\* The open block closes.
LEMMA ClaudeResponsesCloses ==
  ASSUME Upstream, ClaudeResponsesArrives, ClaudeResponsesKeeps, SayClose
  PROVE  params' = params /\ client' = Response("started", {}, Named(told), client.output)
<1> DEFINE e == Event("close", block, <<>>)
           out == client.output
<1>1. stage = "speaking" /\ HandOn(Translated(e, "straight")) /\ block # ""
  BY DEF SayClose
<1>2. e.event = "close" /\ e.kind = block
  BY EventIs
<1>3. told \in Seq(Items) /\ told # <<>> /\ Last(told).kind = block
  BY <1>1 DEF Upstream
<1>p. PICK q \in Seq(Items), x \in Items : told = Append(q, x) /\ Last(told) = x /\ q = Front(told)
  BY <1>3, LastOf
<1> DEFINE i == Len(q)
<1>4. x.kind = block /\ x.pieces \in Seq(Nat) /\ Len(told) = i + 1 /\ i \in Nat
  BY <1>3, <1>p, AppendProperties, LenProperties DEF Items
<1>5. /\ route = <<"claude", "responses">> /\ Singles(told)
  BY DEF ClaudeResponsesArrives, ClaudeResponsesKeeps
<1>6. e.index = i
  <2>1. e.index = Len(told) - 1
    BY EventIndex
  <2>2. QED
    BY <1>4, <2>1, OneBack
<1>a. params = Collecting(Run(told, "thought"), Run(told, "text"), Calls(told))
  BY DEF ClaudeResponsesKeeps, Collected
<1>b. client = Response("started", {i + 1}, Named(told), out)
  BY <1>1, <1>4 DEF ClaudeResponsesKeeps, OpenItem
<1> HIDE DEF e, out
<1>7. Singles(q) /\ (block # "call" => \A j \in DOMAIN q : q[j].kind # block)
  BY <1>4, <1>5, <1>p, SinglesFront
<1>8. Fresh(q, block, BlockId(block, i))
  BY <1>4, <1>7, FreshIs
<1> DEFINE z == NamedItem(block, i, x.pieces)
<1>9. Named(told) = Append(Named(q), z) /\ z \in NamedItems
  BY <1>4, <1>p, NamedAppend
<1>10. z.kind = block /\ z.id = BlockId(block, i)
  BY DEF NamedItem
<1> HIDE DEF z
<1>11. params' = params /\ client' = ReadResponsesEvent(client, ItemDone(block, BlockId(block, i)))
  BY <1>1, <1>2, <1>5, <1>6, <1>a, ClaudeResponsesHears
<1>12. ReadResponsesEvent(Response("started", {Len(q) + 1}, Append(Named(q), z), out), ItemDone(z.kind, z.id))
       = Response("started", {}, Append(Named(q), z), out)
  BY <1>8, <1>9, <1>10, ReadsDone
<1>13. QED
  BY <1>b, <1>9, <1>10, <1>11, <1>12 DEF out

\* The client is told that it is done.
LEMMA ClaudeResponsesEnds ==
  ASSUME Upstream, ClaudeResponsesArrives, ClaudeResponsesKeeps, SayCompleted
  PROVE  params' = params /\ client' = Response("stopped", {}, Named(told), WholeClaudeToResponses(told))
<1>1. PICK why \in {"end", "limit"} :
        HandOn(Translated([Event("completed", "", <<>>) EXCEPT !.reason = Reason(told, why)], "straight"))
  BY DEF SayCompleted
<1> DEFINE e == [Event("completed", "", <<>>) EXCEPT !.reason = Reason(told, why)]
           out == client.output
           w == OneItem("thought", Run(told, "thought")) \o OneItem("text", Run(told, "text")) \o Calls(told)
<1>2. stage = "speaking" /\ block = "" /\ HandOn(Translated(e, "straight"))
  BY <1>1 DEF SayCompleted
<1>3. e.event = "completed"
  BY CompletedIs
<1>4. route = <<"claude", "responses">>
  BY DEF ClaudeResponsesArrives
<1>5. params = Collecting(Run(told, "thought"), Run(told, "text"), Calls(told))
  BY DEF ClaudeResponsesKeeps, Collected
<1>6. client = Response("started", {}, Named(told), out)
  BY <1>2 DEF ClaudeResponsesKeeps, OpenItem
<1> HIDE DEF e, out
<1>7. params' = params /\ client' = ReadResponsesEvent(client, Completed(w))
  BY <1>2, <1>3, <1>4, <1>5, ClaudeResponsesHears
<1>8. w = WholeClaudeToResponses(told)
  BY DEF WholeClaudeToResponses
<1> HIDE DEF w
<1>9. ReadResponsesEvent(Response("started", {}, Named(told), out), Completed(w)) = Response("stopped", {}, Named(told), w)
  BY ReadsCompleted
<1>10. QED
  BY <1>6, <1>7, <1>8, <1>9

\* What the client is made of.
LEMMA ResponseIs ==
  ASSUME NEW m, NEW phase, NEW open, NEW items, NEW output, m = Response(phase, open, items, output)
  PROVE  m = Response(m.phase, open, items, m.output) /\ m.phase = phase /\ m.output = output
BY DEF Response

\* The invariant stays.
LEMMA ClaudeResponsesGoesOn ==
  ASSUME ClaudeResponsesArrives, Upstream, [TranslationNext]_translationVars
  PROVE  ClaudeResponsesArrives'
<1>1. route = <<"claude", "responses">> /\ TranslatedDone = params /\ ~GeminiLike /\ From = "claude"
  BY ClaudeToResponsesBy DEF ClaudeResponsesArrives
<1>2. told \in Seq(Items) /\ BlockRoute
  BY DEF Upstream
<1>3. CASE UNCHANGED translationVars
  BY <1>3 DEF ClaudeResponsesArrives, ClaudeResponsesKeeps, translationVars, Collected, OpenItem, Singles
<1>4. ASSUME TranslationNext PROVE route' = <<"claude", "responses">> /\ ("content" \notin lapsed' => ClaudeResponsesKeeps)
  BY <1>1, <1>4, RouteStays, StaysLapsed DEF ClaudeResponsesArrives
<1>k. ASSUME TranslationNext, told' = told, params' = params, ClaudeResponsesKeeps
      PROVE  Singles(told') /\ params' = Collected(told')
  BY <1>k DEF ClaudeResponsesKeeps, Collected, Singles
<1>5. CASE SayCreated
  <2> DEFINE e == Event("created", "", <<>>)
             out == client.output
  <2>1. stage = "new" /\ stage' = "speaking" /\ UNCHANGED <<told, block>> /\ HandOn(Translated(e, "straight")) /\ TranslationNext
    BY <1>5 DEF SayCreated, TranslationNext
  <2>2. e.event = "created"
    BY EventIs DEF Event
  <2> HIDE DEF e
  <2>3. ASSUME ClaudeResponsesKeeps PROVE ClaudeResponsesKeeps'
    <3>1. params = Collecting(Run(told, "thought"), Run(told, "text"), Calls(told))
      BY <2>3 DEF ClaudeResponsesKeeps, Collected
    <3>2. client = Response("none", OpenItem, Named(told), out)
      BY <2>1, <2>3 DEF ClaudeResponsesKeeps
    <3>3. params' = params /\ client' = ReadResponsesEvent(client, Created)
      BY <1>1, <2>1, <2>2, <3>1, ClaudeResponsesHears
    <3> HIDE DEF out
    <3>4. ReadResponsesEvent(Response("none", OpenItem, Named(told), out), Created) = Response("started", OpenItem, Named(told), out)
      BY ReadsCreated
    <3>5. client' = Response("started", OpenItem', Named(told'), out)
      BY <2>1, <3>2, <3>3, <3>4 DEF OpenItem
    <3>6. client' = Response(client'.phase, OpenItem', Named(told'), client'.output) /\ client'.phase = "started"
      BY <3>5, ResponseIs
    <3>7. QED
      BY <1>k, <2>1, <2>3, <3>3, <3>6 DEF ClaudeResponsesKeeps
  <2>4. QED
    BY <1>4, <2>1, <2>3 DEF ClaudeResponsesArrives
<1>6. ASSUME NEW kind \in ItemKinds, SayOpen(kind) PROVE ClaudeResponsesArrives'
  <2>1. stage = "speaking" /\ stage' = stage /\ block' = kind /\ TranslationNext /\ Noted(BlockGarbled(kind), FALSE)
    BY <1>6 DEF SayOpen, TranslationNext, ItemKinds
  <2>2. ASSUME "content" \notin lapsed' PROVE ClaudeResponsesKeeps'
    <3>1. ~BlockGarbled(kind) /\ ClaudeResponsesKeeps
      BY <1>4, <2>1, <2>2 DEF Noted
    <3>2. /\ Singles(told') /\ params' = Collected(told')
          /\ client' = Response("started", {Len(told) + 1}, Named(told'), client.output)
      BY <1>6, <3>1, ClaudeResponsesOpens
    <3>3. OpenItem' = {Len(told) + 1}
      <4>1. PICK x \in Items : told' = Append(told, x)
        BY <1>6, Hears DEF Opens
      <4>2. Len(told') = Len(told) + 1
        BY <1>2, <4>1, AppendProperties
      <4>3. QED
        BY <2>1, <4>2 DEF OpenItem, ItemKinds
    <3>4. client' = Response(client'.phase, OpenItem', Named(told'), client'.output) /\ client'.phase = "started"
      BY <3>2, <3>3, ResponseIs
    <3>5. QED
      BY <2>1, <3>2, <3>4 DEF ClaudeResponsesKeeps
  <2>3. QED
    BY <1>4, <2>1, <2>2 DEF ClaudeResponsesArrives
<1>7. CASE SayDelta
  <2>1. stage = "speaking" /\ stage' = stage /\ block # "" /\ block' = block /\ TranslationNext
    BY <1>7 DEF SayDelta, TranslationNext
  <2>2. ASSUME ClaudeResponsesKeeps PROVE ClaudeResponsesKeeps'
    <3>1. /\ Singles(told') /\ params' = Collected(told')
          /\ client' = Response("started", {Len(told')}, Named(told'), client.output)
      BY <1>7, <2>2, ClaudeResponsesGrows
    <3>2. OpenItem' = {Len(told')}
      BY <2>1 DEF OpenItem
    <3>3. client' = Response(client'.phase, OpenItem', Named(told'), client'.output) /\ client'.phase = "started"
      BY <3>1, <3>2, ResponseIs
    <3>4. QED
      BY <2>1, <3>1, <3>3 DEF ClaudeResponsesKeeps
  <2>3. QED
    BY <1>4, <2>1, <2>2 DEF ClaudeResponsesArrives
<1>8. CASE SayClose
  <2>1. stage = "speaking" /\ stage' = stage /\ block' = "" /\ told' = told /\ TranslationNext
    BY <1>8 DEF SayClose, TranslationNext
  <2>2. ASSUME ClaudeResponsesKeeps PROVE ClaudeResponsesKeeps'
    <3>1. params' = params /\ client' = Response("started", {}, Named(told), client.output)
      BY <1>8, <2>2, ClaudeResponsesCloses
    <3>2. OpenItem' = {} /\ Named(told') = Named(told)
      BY <2>1 DEF OpenItem
    <3>3. client' = Response(client'.phase, OpenItem', Named(told'), client'.output) /\ client'.phase = "started"
      BY <3>1, <3>2, ResponseIs
    <3>4. QED
      BY <1>k, <2>1, <2>2, <3>1, <3>3 DEF ClaudeResponsesKeeps
  <2>3. QED
    BY <1>4, <2>1, <2>2 DEF ClaudeResponsesArrives
<1>9. CASE SayCompleted
  <2>1. stage' = "finished" /\ block' = "" /\ told' = told /\ TranslationNext
    BY <1>9 DEF SayCompleted, TranslationNext
  <2>2. ASSUME ClaudeResponsesKeeps PROVE ClaudeResponsesKeeps'
    <3>1. params' = params /\ client' = Response("stopped", {}, Named(told), WholeClaudeToResponses(told))
      BY <1>9, <2>2, ClaudeResponsesEnds
    <3>2. OpenItem' = {} /\ Named(told') = Named(told) /\ WholeClaudeToResponses(told') = WholeClaudeToResponses(told)
      BY <2>1 DEF OpenItem
    <3>3. client' = Response(client'.phase, OpenItem', Named(told'), client'.output)
          /\ client'.phase = "stopped" /\ client'.output = WholeClaudeToResponses(told')
      BY <3>1, <3>2, ResponseIs
    <3>4. QED
      BY <1>k, <2>1, <2>2, <3>1, <3>3 DEF ClaudeResponsesKeeps
  <2>3. QED
    BY <1>4, <2>1, <2>2 DEF ClaudeResponsesArrives
<1>10. ASSUME TranslationNext, HandOn(params), UNCHANGED <<told, block>>, ClaudeResponsesKeeps
       PROVE  params' = params /\ client' = client /\ Singles(told') /\ params' = Collected(told')
              /\ client' = Response(client'.phase, OpenItem', Named(told'), client'.output)
              /\ WholeClaudeToResponses(told') = WholeClaudeToResponses(told)
  <2>1. params' = params /\ client' = client
    <3>1. params.out = <<>> /\ [params EXCEPT !.out = <<>>] = params
      BY <1>10 DEF ClaudeResponsesKeeps, Collected, Collecting
    <3>2. QED
      BY <1>10, <3>1, HandsOn
  <2>2. client = Response(client.phase, OpenItem, Named(told), client.output)
    BY <1>10 DEF ClaudeResponsesKeeps
  <2>3. client' = Response(client'.phase, OpenItem', Named(told'), client'.output)
    BY <1>10, <2>1, <2>2 DEF OpenItem
  <2>4. WholeClaudeToResponses(told') = WholeClaudeToResponses(told)
    BY <1>10
  <2>5. QED
    BY <1>k, <1>10, <2>1, <2>3, <2>4
<1>11. CASE AnswerEnds
  <2>1. stage = "finished" /\ stage' = "over" /\ UNCHANGED <<told, block>> /\ HandOn(params) /\ TranslationNext
    BY <1>1, <1>11 DEF AnswerEnds, TranslationNext
  <2>2. ASSUME ClaudeResponsesKeeps PROVE ClaudeResponsesKeeps'
    BY <1>10, <2>1, <2>2 DEF ClaudeResponsesKeeps
  <2>3. QED
    BY <1>4, <2>1, <2>2 DEF ClaudeResponsesArrives
<1>12. CASE AnswerBreaks
  <2>1. stage \in {"new", "speaking"} /\ stage' = "cut" /\ UNCHANGED <<told, block>> /\ HandOn(params) /\ TranslationNext
    BY <1>1, <1>12 DEF AnswerBreaks, TranslationNext
  <2>2. ASSUME ClaudeResponsesKeeps PROVE ClaudeResponsesKeeps'
    BY <1>10, <2>1, <2>2 DEF ClaudeResponsesKeeps
  <2>3. QED
    BY <1>4, <2>1, <2>2 DEF ClaudeResponsesArrives
<1>13. CASE SayUsage
  BY <1>13 DEF SayUsage, Upstream
<1>14. QED
  BY <1>2, <1>3, <1>5, <1>6, <1>7, <1>8, <1>9, <1>11, <1>12, <1>13, SpokenInBlocks
\* The invariant of a route: what its converter keeps and what its client has then.
BlockArrives ==
  \/ CodexClaudeArrives \/ CodexChatArrives \/ ClaudeChatArrives
  \/ CodexGeminiArrives \/ ClaudeGeminiArrives \/ ClaudeResponsesArrives

\* And what its upstream has said.
BlockInvariant == BlockRoute => Upstream /\ BlockArrives

\* So it is at the start,
LEMMA BlockInvariantBegins == TranslationInit => BlockInvariant
<1> SUFFICES ASSUME TranslationInit, BlockRoute PROVE Upstream /\ BlockArrives
  BY DEF BlockInvariant
<1>1. Upstream
  BY UpstreamBegins
<1>2. BlockArrives
  BY RouteParts, CodexClaudeBegins, CodexChatBegins, ClaudeChatBegins, CodexGeminiBegins, ClaudeGeminiBegins,
     ClaudeResponsesBegins DEF BlockArrives
<1>3. QED
  BY <1>1, <1>2

\* and after every step.
LEMMA BlockInvariantGoesOn == BlockInvariant /\ [TranslationNext]_translationVars => BlockInvariant'
<1> SUFFICES ASSUME BlockInvariant, [TranslationNext]_translationVars, BlockRoute' PROVE Upstream' /\ BlockArrives'
  BY DEF BlockInvariant
<1>1. route' = route
  BY RouteStays DEF translationVars
<1>2. BlockRoute
  BY <1>1 DEF BlockRoute, InParts, GeminiLike, From
<1>3. Upstream /\ BlockArrives
  BY <1>2 DEF BlockInvariant
<1>4. Upstream'
  BY <1>3, UpstreamGoesOn
<1>5. CASE CodexClaudeArrives
  <2>1. CodexClaudeArrives'
    BY <1>3, <1>5, CodexClaudeGoesOn
  <2>2. QED
    BY <1>4, <2>1 DEF BlockArrives
<1>6. CASE CodexChatArrives
  <2>1. CodexChatArrives'
    BY <1>3, <1>6, CodexChatGoesOn
  <2>2. QED
    BY <1>4, <2>1 DEF BlockArrives
<1>7. CASE ClaudeChatArrives
  <2>1. ClaudeChatArrives'
    BY <1>3, <1>7, ClaudeChatGoesOn
  <2>2. QED
    BY <1>4, <2>1 DEF BlockArrives
<1>8. CASE CodexGeminiArrives
  <2>1. CodexGeminiArrives'
    BY <1>3, <1>8, CodexGeminiGoesOn
  <2>2. QED
    BY <1>4, <2>1 DEF BlockArrives
<1>9. CASE ClaudeGeminiArrives
  <2>1. ClaudeGeminiArrives'
    BY <1>3, <1>9, ClaudeGeminiGoesOn
  <2>2. QED
    BY <1>4, <2>1 DEF BlockArrives
<1>10. CASE ClaudeResponsesArrives
  <2>1. ClaudeResponsesArrives'
    BY <1>3, <1>10, ClaudeResponsesGoesOn
  <2>2. QED
    BY <1>4, <2>1 DEF BlockArrives
<1>11. QED
  BY <1>3, <1>4, <1>5, <1>6, <1>7, <1>8, <1>9, <1>10 DEF BlockArrives

\* Whatever Codex or Claude tells, whole or in a stream that may break off, the
\* client of another format has all of it, in the order its format keeps, and
\* the reason it ended for, save what the route is known to let lapse; and one
\* that broke off does not look whole: the converters of
\* internal/translator/codex and internal/translator/claude, for answers of any
\* length.
THEOREM BlockAnswersArrive == TranslationSpec => [](BlockRoute => AnswersArrive)
<1>1. BlockInvariant => (BlockRoute => AnswersArrive)
  BY CodexClaudeArrived, CodexChatArrived, ClaudeChatArrived, CodexGeminiArrived, ClaudeGeminiArrived,
     ClaudeResponsesArrived DEF BlockInvariant, BlockArrives
<1>2. QED
  BY <1>1, BlockInvariantBegins, BlockInvariantGoesOn, PTL DEF TranslationSpec
============================================================================
