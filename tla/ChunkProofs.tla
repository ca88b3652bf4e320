---------------------------- MODULE ChunkProofs ----------------------------
(***************************************************************************)
(* What a client of chat completions has been told of an answer is what    *)
(* Gemini, Gemini CLI or Antigravity said of it, in however many chunks of *)
(* up to two parts.                                                        *)
(*                                                                         *)
(* What an upstream has said in parts is followed first, for all that      *)
(* speak in parts (PartsUpstream): items that neighbours of a kind are     *)
(* joined in, and arguments that come later to the call they belong to.    *)
(* Then the converter fills the template of a chunk from its parts, which  *)
(* the client reads; as long as nothing of the chunk was mistaken, the     *)
(* client has with the template what was told with the parts (Templates).  *)
(***************************************************************************)
EXTENDS TranslationProofs

----------------------------------------------------------------------------
(* Folds over lists of at most two elements.                               *)

\* Sets of the places of a list of one or two elements.
LEMMA TwoPlaces ==
  /\ Max({1}) = 1 /\ Max({2}) = 2 /\ Max({1, 2}) = 2
  /\ {1} \ {1} = {} /\ {2} \ {2} = {} /\ {1, 2} \ {2} = {1}
  /\ {1} # {} /\ {2} # {} /\ {1, 2} # {} /\ {1} # {2} /\ {1} # {1, 2} /\ {2} # {1, 2}
  /\ \A z \in SUBSET {1} : z = {} \/ z = {1}
  /\ \A z \in SUBSET {1, 2} : z = {} \/ z = {1} \/ z = {2} \/ z = {1, 2}
<1>1. {1} \in SUBSET (1..2) /\ {2} \in SUBSET (1..2) /\ {1, 2} \in SUBSET (1..2)
  OBVIOUS
<1>2. \A s \in SUBSET (1..2) : s # {} => Max(s) \in s /\ \A y \in s : Max(s) >= y
  BY LargestOfSome
<1>3. Max({1}) = 1
  BY <1>1, <1>2
<1>4. Max({2}) = 2
  BY <1>1, <1>2
<1>5. Max({1, 2}) = 2
  BY <1>1, <1>2
<1>6. {1} \ {1} = {} /\ {2} \ {2} = {} /\ {1, 2} \ {2} = {1}
  OBVIOUS
<1>7. /\ {1} # {} /\ {2} # {} /\ {1, 2} # {} /\ {1} # {2} /\ {1} # {1, 2} /\ {2} # {1, 2}
  OBVIOUS
<1>a. \A z \in SUBSET {1} : z = {} \/ z = {1}
  OBVIOUS
<1>8. \A z \in SUBSET {1, 2} : z = {} \/ z = {1} \/ z = {2} \/ z = {1, 2}
  OBVIOUS
<1>9. QED
  BY <1>3, <1>4, <1>5, <1>6, <1>7, <1>a, <1>8

\* A few parts told are told one after the other.
LEMMA TellFew ==
  ASSUME NEW b
  PROVE  /\ TellAll(b, <<>>) = b
         /\ \A x : TellAll(b, <<x>>) = Tell(b, x)
         /\ \A x, y : TellAll(b, <<x, y>>) = Tell(Tell(b, x), y)
<1> DEFINE op(r, x) == Tell(r, x)
           Run0(q) == TellAll(b, q)
           Fold(q) == CHOOSE g : g = [z \in SUBSET (DOMAIN q) |->
                                        IF z = {} THEN b ELSE op(g[z \ {Max(z)}], q[Max(z)])]
<1>1. ASSUME NEW q PROVE Run0(q) = Fold(q)[DOMAIN q]
  BY DEF TellAll, FoldLeft, MapThenFoldSet
<1>2. ASSUME NEW q, DOMAIN q \subseteq {1, 2}
      PROVE  /\ Fold(q)[{}] = b
             /\ 1 \in DOMAIN q => Fold(q)[{1}] = op(b, q[1])
             /\ DOMAIN q = {1, 2} => Fold(q)[{1, 2}] = op(op(b, q[1]), q[2])
  <2> DEFINE D == DOMAIN q
             f == Fold(q)
             h == [z \in SUBSET D |-> CASE z = {} -> b [] z = {1} -> op(b, q[1])
                                        [] z = {2} -> op(b, q[2]) [] OTHER -> op(op(b, q[1]), q[2])]
  <2>a. D \subseteq {1, 2}
    BY <1>2
  <2> HIDE DEF op, D
  <2>1. ASSUME NEW z \in SUBSET D PROVE h[z] = IF z = {} THEN b ELSE op(h[z \ {Max(z)}], q[Max(z)])
    <3>1. /\ {} \in SUBSET D /\ h[{}] = b
          /\ {1} \in SUBSET D => h[{1}] = op(b, q[1])
          /\ {2} \in SUBSET D => h[{2}] = op(b, q[2])
          /\ {1, 2} \in SUBSET D => h[{1, 2}] = op(op(b, q[1]), q[2])
      BY TwoPlaces
    <3>2. z \in SUBSET {1, 2} /\ (z = {1, 2} => {1} \in SUBSET D)
      BY <2>a
    <3> HIDE DEF h
    <3>3. CASE z = {}
      BY <3>1, <3>3
    <3>4. CASE z = {1}
      BY <3>1, <3>4, TwoPlaces
    <3>5. CASE z = {2}
      BY <3>1, <3>5, TwoPlaces
    <3>6. CASE z = {1, 2}
      BY <3>1, <3>2, <3>6, TwoPlaces
    <3>7. QED
      BY <3>2, <3>3, <3>4, <3>5, <3>6, TwoPlaces
  <2>2. h = [z \in SUBSET D |-> IF z = {} THEN b ELSE op(h[z \ {Max(z)}], q[Max(z)])]
    BY <2>1
  <2> HIDE DEF h
  <2>3. f = [z \in SUBSET D |-> IF z = {} THEN b ELSE op(f[z \ {Max(z)}], q[Max(z)])]
    BY <2>2 DEF D
  <2> HIDE DEF f, Fold
  <2>4. \A z \in SUBSET D : f[z] = IF z = {} THEN b ELSE op(f[z \ {Max(z)}], q[Max(z)])
    BY <2>3
  <2>5. f[{}] = b
    BY <2>4
  <2>6. ASSUME 1 \in D PROVE f[{1}] = op(b, q[1])
    BY <2>4, <2>5, <2>6, TwoPlaces
  <2>7. ASSUME D = {1, 2} PROVE f[{1, 2}] = op(op(b, q[1]), q[2])
    <3>1. {1, 2} \in SUBSET D /\ {1, 2} # {} /\ {1, 2} \ {Max({1, 2})} = {1} /\ Max({1, 2}) = 2
      BY <2>7, TwoPlaces
    <3>2. f[{1, 2}] = op(f[{1, 2} \ {Max({1, 2})}], q[Max({1, 2})])
      BY <2>4, <3>1
    <3>3. QED
      BY <2>6, <2>7, <3>1, <3>2
  <2>8. QED
    BY <2>5, <2>6, <2>7 DEF D, f
<1> HIDE DEF op, Run0, Fold
<1>3. /\ DOMAIN <<>> = {} /\ \A x : DOMAIN <<x>> = {1} /\ <<x>>[1] = x
      /\ \A x, y : DOMAIN <<x, y>> = {1, 2} /\ <<x, y>>[1] = x /\ <<x, y>>[2] = y
  OBVIOUS
<1>4. Run0(<<>>) = b
  BY <1>1, <1>2, <1>3
<1>5. ASSUME NEW x PROVE Run0(<<x>>) = op(b, x)
  BY <1>1, <1>2, <1>3
<1>6. ASSUME NEW x, NEW y PROVE Run0(<<x, y>>) = op(op(b, x), y)
  BY <1>1, <1>2, <1>3
<1>7. QED
  BY <1>4, <1>5, <1>6 DEF op, Run0

\* A few parts made are made one after the other.
LEMMA MakeFew ==
  ASSUME NEW b, NEW call
  PROVE  /\ MakeAll(b, <<>>, call) = b
         /\ \A x : MakeAll(b, <<x>>, call) = MakeNext(b, x, call)
         /\ \A x, y : MakeAll(b, <<x, y>>, call) = MakeNext(MakeNext(b, x, call), y, call)
<1> DEFINE op(r, x) == MakeNext(r, x, call)
           Run0(q) == MakeAll(b, q, call)
           Fold(q) == CHOOSE g : g = [z \in SUBSET (DOMAIN q) |->
                                        IF z = {} THEN b ELSE op(g[z \ {Max(z)}], q[Max(z)])]
<1>1. ASSUME NEW q PROVE Run0(q) = Fold(q)[DOMAIN q]
  BY DEF MakeAll, FoldLeft, MapThenFoldSet
<1>2. ASSUME NEW q, DOMAIN q \subseteq {1, 2}
      PROVE  /\ Fold(q)[{}] = b
             /\ 1 \in DOMAIN q => Fold(q)[{1}] = op(b, q[1])
             /\ DOMAIN q = {1, 2} => Fold(q)[{1, 2}] = op(op(b, q[1]), q[2])
  <2> DEFINE D == DOMAIN q
             f == Fold(q)
             h == [z \in SUBSET D |-> CASE z = {} -> b [] z = {1} -> op(b, q[1])
                                        [] z = {2} -> op(b, q[2]) [] OTHER -> op(op(b, q[1]), q[2])]
  <2>a. D \subseteq {1, 2}
    BY <1>2
  <2> HIDE DEF op, D
  <2>1. ASSUME NEW z \in SUBSET D PROVE h[z] = IF z = {} THEN b ELSE op(h[z \ {Max(z)}], q[Max(z)])
    <3>1. /\ {} \in SUBSET D /\ h[{}] = b
          /\ {1} \in SUBSET D => h[{1}] = op(b, q[1])
          /\ {2} \in SUBSET D => h[{2}] = op(b, q[2])
          /\ {1, 2} \in SUBSET D => h[{1, 2}] = op(op(b, q[1]), q[2])
      BY TwoPlaces
    <3>2. z \in SUBSET {1, 2} /\ (z = {1, 2} => {1} \in SUBSET D)
      BY <2>a
    <3> HIDE DEF h
    <3>3. CASE z = {}
      BY <3>1, <3>3
    <3>4. CASE z = {1}
      BY <3>1, <3>4, TwoPlaces
    <3>5. CASE z = {2}
      BY <3>1, <3>5, TwoPlaces
    <3>6. CASE z = {1, 2}
      BY <3>1, <3>2, <3>6, TwoPlaces
    <3>7. QED
      BY <3>2, <3>3, <3>4, <3>5, <3>6, TwoPlaces
  <2>2. h = [z \in SUBSET D |-> IF z = {} THEN b ELSE op(h[z \ {Max(z)}], q[Max(z)])]
    BY <2>1
  <2> HIDE DEF h
  <2>3. f = [z \in SUBSET D |-> IF z = {} THEN b ELSE op(f[z \ {Max(z)}], q[Max(z)])]
    BY <2>2 DEF D
  <2> HIDE DEF f, Fold
  <2>4. \A z \in SUBSET D : f[z] = IF z = {} THEN b ELSE op(f[z \ {Max(z)}], q[Max(z)])
    BY <2>3
  <2>5. f[{}] = b
    BY <2>4
  <2>6. ASSUME 1 \in D PROVE f[{1}] = op(b, q[1])
    BY <2>4, <2>5, <2>6, TwoPlaces
  <2>7. ASSUME D = {1, 2} PROVE f[{1, 2}] = op(op(b, q[1]), q[2])
    <3>1. {1, 2} \in SUBSET D /\ {1, 2} # {} /\ {1, 2} \ {Max({1, 2})} = {1} /\ Max({1, 2}) = 2
      BY <2>7, TwoPlaces
    <3>2. f[{1, 2}] = op(f[{1, 2} \ {Max({1, 2})}], q[Max({1, 2})])
      BY <2>4, <3>1
    <3>3. QED
      BY <2>6, <2>7, <3>1, <3>2
  <2>8. QED
    BY <2>5, <2>6, <2>7 DEF D, f
<1> HIDE DEF op, Run0, Fold
<1>3. /\ DOMAIN <<>> = {} /\ \A x : DOMAIN <<x>> = {1} /\ <<x>>[1] = x
      /\ \A x, y : DOMAIN <<x, y>> = {1, 2} /\ <<x, y>>[1] = x /\ <<x, y>>[2] = y
  OBVIOUS
<1>4. Run0(<<>>) = b
  BY <1>1, <1>2, <1>3
<1>5. ASSUME NEW x PROVE Run0(<<x>>) = op(b, x)
  BY <1>1, <1>2, <1>3
<1>6. ASSUME NEW x, NEW y PROVE Run0(<<x, y>>) = op(op(b, x), y)
  BY <1>1, <1>2, <1>3
<1>7. QED
  BY <1>4, <1>5, <1>6 DEF op, Run0

\* A few parts put in a template of chat completions are put there one by one.
LEMMA ChatFew ==
  ASSUME NEW b
  PROVE  /\ FoldLeft(ChatPart, b, <<>>) = b
         /\ \A x : FoldLeft(ChatPart, b, <<x>>) = ChatPart(b, x)
         /\ \A x, y : FoldLeft(ChatPart, b, <<x, y>>) = ChatPart(ChatPart(b, x), y)
<1> DEFINE op(r, x) == ChatPart(r, x)
           Run0(q) == FoldLeft(ChatPart, b, q)
           Fold(q) == CHOOSE g : g = [z \in SUBSET (DOMAIN q) |->
                                        IF z = {} THEN b ELSE op(g[z \ {Max(z)}], q[Max(z)])]
<1>1. ASSUME NEW q PROVE Run0(q) = Fold(q)[DOMAIN q]
  BY DEF FoldLeft, FoldLeft, MapThenFoldSet
<1>2. ASSUME NEW q, DOMAIN q \subseteq {1, 2}
      PROVE  /\ Fold(q)[{}] = b
             /\ 1 \in DOMAIN q => Fold(q)[{1}] = op(b, q[1])
             /\ DOMAIN q = {1, 2} => Fold(q)[{1, 2}] = op(op(b, q[1]), q[2])
  <2> DEFINE D == DOMAIN q
             f == Fold(q)
             h == [z \in SUBSET D |-> CASE z = {} -> b [] z = {1} -> op(b, q[1])
                                        [] z = {2} -> op(b, q[2]) [] OTHER -> op(op(b, q[1]), q[2])]
  <2>a. D \subseteq {1, 2}
    BY <1>2
  <2> HIDE DEF op, D
  <2>1. ASSUME NEW z \in SUBSET D PROVE h[z] = IF z = {} THEN b ELSE op(h[z \ {Max(z)}], q[Max(z)])
    <3>1. /\ {} \in SUBSET D /\ h[{}] = b
          /\ {1} \in SUBSET D => h[{1}] = op(b, q[1])
          /\ {2} \in SUBSET D => h[{2}] = op(b, q[2])
          /\ {1, 2} \in SUBSET D => h[{1, 2}] = op(op(b, q[1]), q[2])
      BY TwoPlaces
    <3>2. z \in SUBSET {1, 2} /\ (z = {1, 2} => {1} \in SUBSET D)
      BY <2>a
    <3> HIDE DEF h
    <3>3. CASE z = {}
      BY <3>1, <3>3
    <3>4. CASE z = {1}
      BY <3>1, <3>4, TwoPlaces
    <3>5. CASE z = {2}
      BY <3>1, <3>5, TwoPlaces
    <3>6. CASE z = {1, 2}
      BY <3>1, <3>2, <3>6, TwoPlaces
    <3>7. QED
      BY <3>2, <3>3, <3>4, <3>5, <3>6, TwoPlaces
  <2>2. h = [z \in SUBSET D |-> IF z = {} THEN b ELSE op(h[z \ {Max(z)}], q[Max(z)])]
    BY <2>1
  <2> HIDE DEF h
  <2>3. f = [z \in SUBSET D |-> IF z = {} THEN b ELSE op(f[z \ {Max(z)}], q[Max(z)])]
    BY <2>2 DEF D
  <2> HIDE DEF f, Fold
  <2>4. \A z \in SUBSET D : f[z] = IF z = {} THEN b ELSE op(f[z \ {Max(z)}], q[Max(z)])
    BY <2>3
  <2>5. f[{}] = b
    BY <2>4
  <2>6. ASSUME 1 \in D PROVE f[{1}] = op(b, q[1])
    BY <2>4, <2>5, <2>6, TwoPlaces
  <2>7. ASSUME D = {1, 2} PROVE f[{1, 2}] = op(op(b, q[1]), q[2])
    <3>1. {1, 2} \in SUBSET D /\ {1, 2} # {} /\ {1, 2} \ {Max({1, 2})} = {1} /\ Max({1, 2}) = 2
      BY <2>7, TwoPlaces
    <3>2. f[{1, 2}] = op(f[{1, 2} \ {Max({1, 2})}], q[Max({1, 2})])
      BY <2>4, <3>1
    <3>3. QED
      BY <2>6, <2>7, <3>1, <3>2
  <2>8. QED
    BY <2>5, <2>6, <2>7 DEF D, f
<1> HIDE DEF op, Run0, Fold
<1>3. /\ DOMAIN <<>> = {} /\ \A x : DOMAIN <<x>> = {1} /\ <<x>>[1] = x
      /\ \A x, y : DOMAIN <<x, y>> = {1, 2} /\ <<x, y>>[1] = x /\ <<x, y>>[2] = y
  OBVIOUS
<1>4. Run0(<<>>) = b
  BY <1>1, <1>2, <1>3
<1>5. ASSUME NEW x PROVE Run0(<<x>>) = op(b, x)
  BY <1>1, <1>2, <1>3
<1>6. ASSUME NEW x, NEW y PROVE Run0(<<x, y>>) = op(op(b, x), y)
  BY <1>1, <1>2, <1>3
<1>7. QED
  BY <1>4, <1>5, <1>6 DEF op, Run0
----------------------------------------------------------------------------
(* Arguments that come late, to the call they belong to.                   *)

\* The first items of a list.
FirstOf(s, i) == SubSeq(s, 1, i)

\* The i-th item is the c-th call.
IsCallAt(s, i, c) == IsCall(s[i]) /\ CallCount(FirstOf(s, i)) = c

\* What comes before a place of a list and of one longer by an item.
LEMMA UpTo ==
  ASSUME NEW s \in Seq(Items), NEW x \in Items
  PROVE  /\ \A i \in 1..Len(s) : FirstOf(Append(s, x), i) = FirstOf(s, i)
         /\ FirstOf(Append(s, x), Len(s) + 1) = Append(s, x)
<1> DEFINE w == Append(s, x)
<1>1. w \in Seq(Items) /\ Len(w) = Len(s) + 1 /\ Len(s) \in Nat /\ \A i \in 1..Len(s) : w[i] = s[i]
  BY AppendProperties, LenProperties
<1> HIDE DEF w
<1>2. ASSUME NEW i \in 1..Len(s) PROVE SubSeq(w, 1, i) = SubSeq(s, 1, i)
  <2>1. /\ SubSeq(w, 1, i) \in Seq(Items) /\ SubSeq(s, 1, i) \in Seq(Items)
        /\ Len(SubSeq(w, 1, i)) = i /\ Len(SubSeq(s, 1, i)) = i
        /\ \A k \in 1..i : SubSeq(w, 1, i)[k] = w[k] /\ SubSeq(s, 1, i)[k] = s[k]
    BY <1>1
  <2>2. \A k \in 1..i : w[k] = s[k]
    BY <1>1
  <2>3. \A k \in 1..Len(SubSeq(w, 1, i)) : SubSeq(w, 1, i)[k] = SubSeq(s, 1, i)[k]
    BY <2>1, <2>2
  <2>4. QED
    BY <2>1, <2>3, SeqEqual
<1>3. SubSeq(w, 1, Len(s) + 1) = w
  <2>1. /\ SubSeq(w, 1, Len(w)) \in Seq(Items) /\ Len(SubSeq(w, 1, Len(w))) = Len(w)
        /\ \A k \in 1..Len(w) : SubSeq(w, 1, Len(w))[k] = w[k]
    BY <1>1
  <2>2. QED
    BY <1>1, <2>1, SeqEqual
<1>4. QED
  BY <1>2, <1>3 DEF w, FirstOf

\* Fewer items have no more calls, and every call has one place.
LEMMA CallPlaces ==
  \A s \in Seq(Items) :
    /\ \A i \in 1..Len(s) : CallCount(FirstOf(s, i)) \in 0..CallCount(s)
    /\ \A c \in 1..CallCount(s) : \E i \in 1..Len(s) :
         IsCallAt(s, i, c) /\ \A j \in 1..Len(s) : IsCallAt(s, j, c) => j = i
<1> DEFINE Fewer(s) == \A i \in 1..Len(s) : CallCount(FirstOf(s, i)) \in 0..CallCount(s)
           Placed(s) == \A c \in 1..CallCount(s) : \E i \in 1..Len(s) :
                          IsCallAt(s, i, c) /\ \A j \in 1..Len(s) : IsCallAt(s, j, c) => j = i
           T == {s \in Seq(Items) : Fewer(s) /\ Placed(s)}
<1>1. <<>> \in T
  <2>1. <<>> \in Seq(Items) /\ 1..Len(<<>>) = {} /\ 1..CallCount(<<>>) = {}
    BY CallsCounted
  <2>2. QED
    BY <2>1
<1>2. ASSUME NEW s \in Seq(Items), NEW x \in Items, s \in T PROVE Append(s, x) \in T
  <2> DEFINE w == Append(s, x)
             n == Len(s) + 1
  <2>1. /\ w \in Seq(Items) /\ Len(w) = n /\ Len(s) \in Nat /\ w[n] = x
        /\ \A i \in 1..Len(s) : w[i] = s[i]
    BY AppendProperties, LenProperties
  <2>2. /\ \A i \in 1..Len(s) : FirstOf(w, i) = FirstOf(s, i)
        /\ FirstOf(w, n) = w
    BY UpTo
  <2>3. CallCount(s) \in Nat /\ CallCount(w) = CallCount(s) + (IF x.kind = "call" THEN 1 ELSE 0)
    BY CallsCounted
  <2>4. Fewer(s) /\ Placed(s)
    BY <1>2
  <2> HIDE DEF w
  <2>5. Fewer(w)
    <3> SUFFICES ASSUME NEW i \in 1..n PROVE CallCount(FirstOf(w, i)) \in 0..CallCount(w)
      BY <2>1
    <3>0. CallCount(w) \in Nat /\ CallCount(s) <= CallCount(w)
      BY <2>3
    <3>1. CASE i \in 1..Len(s)
      <4>1. CallCount(FirstOf(s, i)) \in 0..CallCount(s) /\ FirstOf(w, i) = FirstOf(s, i)
        BY <2>2, <2>4, <3>1
      <4>2. QED
        BY <2>3, <3>0, <4>1
    <3>2. CASE i \notin 1..Len(s)
      <4>1. i = n
        BY <2>1, <3>2
      <4>2. QED
        BY <2>2, <3>0, <4>1
    <3>3. QED
      BY <3>1, <3>2
  <2>6. \A i \in 1..Len(s), c \in Nat : IsCallAt(w, i, c) <=> IsCallAt(s, i, c)
    BY <2>1, <2>2 DEF IsCallAt
  <2>7. \A c \in Nat : IsCallAt(w, n, c) <=> x.kind = "call" /\ c = CallCount(s) + 1
    BY <2>1, <2>2, <2>3 DEF IsCallAt, IsCall
  <2>8. Placed(w)
    <3> SUFFICES ASSUME NEW c \in 1..CallCount(w)
                 PROVE  \E i \in 1..n : IsCallAt(w, i, c) /\ \A j \in 1..n : IsCallAt(w, j, c) => j = i
      BY <2>1
    <3>1. CASE c \in 1..CallCount(s)
      <4>1. PICK i \in 1..Len(s) : IsCallAt(s, i, c) /\ \A j \in 1..Len(s) : IsCallAt(s, j, c) => j = i
        BY <2>4, <3>1
      <4>2. IsCallAt(w, i, c) /\ i \in 1..n
        BY <2>1, <2>6, <4>1
      <4>3. ASSUME NEW j \in 1..n, IsCallAt(w, j, c) PROVE j = i
        <5>1. j # n
          BY <2>3, <2>7, <3>1, <4>3
        <5>2. j \in 1..Len(s)
          BY <2>1, <5>1
        <5>3. QED
          BY <2>6, <4>1, <4>3, <5>2
      <4>4. QED
        BY <4>2, <4>3
    <3>2. CASE c \notin 1..CallCount(s)
      <4>1. x.kind = "call" /\ c = CallCount(s) + 1
        BY <2>3, <3>2
      <4>2. IsCallAt(w, n, c) /\ n \in 1..n
        BY <2>1, <2>3, <2>7, <4>1
      <4>3. ASSUME NEW j \in 1..n, IsCallAt(w, j, c), j # n PROVE FALSE
        <5>1. j \in 1..Len(s)
          BY <2>1, <4>3
        <5>2. CallCount(FirstOf(s, j)) = c
          BY <2>2, <4>3, <5>1 DEF IsCallAt
        <5>3. QED
          BY <2>3, <2>4, <4>1, <5>1, <5>2
      <4>4. QED
        BY <4>2, <4>3
    <3>3. QED
      BY <3>1, <3>2
  <2>9. QED
    BY <2>1, <2>5, <2>8 DEF w
<1>3. Seq(Items) \subseteq T
  <2> HIDE DEF T
  <2>1. QED
    BY <1>1, <1>2, SequencesFrom
<1>4. QED
  BY <1>3

\* The place of a call is that of the same call in a list with an item more.
LEMMA CallAtIs ==
  ASSUME NEW s \in Seq(Items)
  PROVE  /\ \A c \in 1..CallCount(s) : CallAt(s, c) \in 1..Len(s) /\ IsCallAt(s, CallAt(s, c), c)
         /\ \A c \in 1..CallCount(s), i \in 1..Len(s) : IsCallAt(s, i, c) => CallAt(s, c) = i
<1>1. DOMAIN s = 1..Len(s)
  BY LenProperties
<1>2. ASSUME NEW c \in 1..CallCount(s)
      PROVE  /\ CallAt(s, c) \in 1..Len(s) /\ IsCallAt(s, CallAt(s, c), c)
             /\ \A i \in 1..Len(s) : IsCallAt(s, i, c) => CallAt(s, c) = i
  <2>1. CallAt(s, c) = CHOOSE i \in 1..Len(s) : IsCallAt(s, i, c)
    BY <1>1 DEF CallAt, IsCallAt, FirstOf
  <2>2. \E i \in 1..Len(s) : IsCallAt(s, i, c) /\ \A j \in 1..Len(s) : IsCallAt(s, j, c) => j = i
    BY CallPlaces
  <2>3. QED
    BY <2>1, <2>2
<1>3. QED
  BY <1>2

\* An argument more for a call: it goes to the call's place.
LEMMA ArgumentAppend ==
  ASSUME NEW s \in Seq(Items), NEW x \in Items, NEW n \in Nat
  PROVE  /\ \A c \in 1..CallCount(s) : AddArgument(s, c, n) \in Seq(Items) =>
              AddArgument(Append(s, x), c, n) = Append(AddArgument(s, c, n), x)
         /\ x.kind = "call" => AddArgument(Append(s, x), CallCount(s) + 1, n) = Append(s, Grown(x, n))
<1> DEFINE w == Append(s, x)
<1>1. /\ w \in Seq(Items) /\ Len(w) = Len(s) + 1 /\ Len(s) \in Nat /\ w[Len(s) + 1] = x
      /\ \A i \in 1..Len(s) : w[i] = s[i]
  BY AppendProperties, LenProperties
<1>2. /\ \A i \in 1..Len(s) : FirstOf(w, i) = FirstOf(s, i)
      /\ FirstOf(w, Len(s) + 1) = w
  BY UpTo
<1>3. CallCount(s) \in Nat /\ CallCount(w) = CallCount(s) + (IF x.kind = "call" THEN 1 ELSE 0)
  BY CallsCounted
<1>4. x.kind = "call" => AddArgument(w, CallCount(s) + 1, n) = Append(s, Grown(x, n))
  <2> SUFFICES ASSUME x.kind = "call" PROVE AddArgument(w, CallCount(s) + 1, n) = Append(s, Grown(x, n))
    OBVIOUS
  <2> HIDE DEF w
  <2>a. CallCount(w) = CallCount(s) + 1 /\ FirstOf(w, Len(w)) = w /\ w[Len(w)] = x
    BY <1>1, <1>2, <1>3
  <2>b. IsCallAt(w, Len(w), CallCount(s) + 1)
    BY <2>a DEF IsCallAt, IsCall
  <2>1. IsCallAt(w, Len(w), CallCount(s) + 1) /\ Len(w) \in 1..Len(w) /\ CallCount(s) + 1 \in 1..CallCount(w)
    BY <1>1, <1>3, <2>a, <2>b
  <2>2. CallAt(w, CallCount(s) + 1) = Len(w)
    BY <1>1, <2>1, CallAtIs
  <2>3. AddArgument(w, CallCount(s) + 1, n) = [w EXCEPT ![Len(w)].pieces = Append(@, n)]
    BY <2>2 DEF AddArgument
  <2>4. QED
    <3>1. [Append(s, x) EXCEPT ![Len(Append(s, x))].pieces = Append(@, n)] = Append(s, Grown(x, n))
      BY LastGrows
    <3>2. QED
      BY <2>3, <3>1 DEF w
<1>5. ASSUME NEW c \in 1..CallCount(s), AddArgument(s, c, n) \in Seq(Items)
      PROVE  AddArgument(w, c, n) = Append(AddArgument(s, c, n), x)
  <2> DEFINE i == CallAt(s, c)
             v == AddArgument(s, c, n)
             y == [s[i] EXCEPT !.pieces = Append(@, n)]
             u == AddArgument(w, c, n)
  <2>1. i \in 1..Len(s) /\ IsCallAt(s, i, c)
    BY CallAtIs
  <2>2. CallAt(w, c) = i
    <3>1. IsCallAt(w, i, c)
      BY <1>1, <1>2, <2>1 DEF IsCallAt
    <3>2. i \in 1..Len(w) /\ c \in 1..CallCount(w)
      BY <1>1, <1>3, <2>1
    <3> HIDE DEF w, i
    <3>3. QED
      BY <1>1, <3>1, <3>2, CallAtIs
  <2>3. v = [s EXCEPT ![i] = y] /\ u = [w EXCEPT ![i] = y]
    <3>1. w[i] = s[i]
      BY <1>1, <2>1
    <3>2. u = [w EXCEPT ![i].pieces = Append(@, n)]
      BY <2>2 DEF AddArgument
    <3>3. QED
      BY <3>1, <3>2 DEF AddArgument
  <2>4. y \in Items
    <3>1. s[i] \in Items /\ y = Grown(s[i], n)
      BY <2>1, ElementOfSeq DEF Grown
    <3>2. QED
      BY <3>1, GrownIs
  <2> HIDE DEF i, y, v, u, w
  <2>5. v \in Seq(Items) /\ Len(v) = Len(s) /\ \A j \in 1..Len(s) : v[j] = IF j = i THEN y ELSE s[j]
    BY <2>1, <2>3, <2>4, ExceptSeq
  <2>6. u \in Seq(Items) /\ Len(u) = Len(w) /\ \A j \in 1..Len(w) : u[j] = IF j = i THEN y ELSE w[j]
    <3>1. i \in 1..Len(w)
      BY <1>1, <2>1
    <3>2. QED
      BY <1>1, <2>3, <2>4, <3>1, ExceptSeq
  <2>7. /\ Append(v, x) \in Seq(Items) /\ Len(Append(v, x)) = Len(v) + 1 /\ Append(v, x)[Len(v) + 1] = x
        /\ \A j \in 1..Len(v) : Append(v, x)[j] = v[j]
    BY <2>5, AppendProperties
  <2>8. \A j \in 1..Len(u) : u[j] = Append(v, x)[j]
    BY <1>1, <2>1, <2>5, <2>6, <2>7
  <2>9. QED
    BY <1>1, <2>5, <2>6, <2>7, <2>8, SeqEqual DEF v, u
<1>6. QED
  BY <1>4, <1>5

\* A list with an argument more for its c-th call.
Argued(s, v, c, n) ==
  /\ v \in Seq(Items) /\ Len(v) = Len(s)
  /\ Normal(s) => Normal(v)
  /\ \A k : EndsWith(v, k) <=> EndsWith(s, k)
  /\ \A k : k # "call" => Run(v, k) = Run(s, k)
  /\ CallCount(v) = CallCount(s)
  /\ \A j \in 1..CallCount(s) : Calls(v)[j] = IF j = c THEN Grown(Calls(s)[j], n) ELSE Calls(s)[j]

\* So it is behind the list,
LEMMA ArguedAppend ==
  ASSUME NEW s \in Seq(Items), NEW v, NEW c \in 1..CallCount(s), NEW n \in Nat, Argued(s, v, c, n), NEW x \in Items
  PROVE  Argued(Append(s, x), Append(v, x), c, n)
<1>1. /\ v \in Seq(Items) /\ Append(v, x) \in Seq(Items) /\ Len(Append(v, x)) = Len(Append(s, x))
      /\ Len(v) = Len(s)
  BY AppendProperties DEF Argued
<1>2. Normal(Append(s, x)) => Normal(Append(v, x))
  BY <1>1, NormalAppend DEF Argued
<1>3. \A k : EndsWith(Append(v, x), k) <=> EndsWith(Append(s, x), k)
  BY <1>1, EndsWithAppend
<1>4. ASSUME NEW k, k # "call" PROVE Run(Append(v, x), k) = Run(Append(s, x), k)
  <2>1. \A q \in Seq(Items) : Run(Append(q, x), k) = IF x.kind = k THEN Run(q, k) \o x.pieces ELSE Run(q, k)
    BY RunOf
  <2>2. Run(v, k) = Run(s, k)
    BY <1>4 DEF Argued
  <2>3. QED
    BY <1>1, <2>1, <2>2
<1>5. CallCount(Append(v, x)) = CallCount(Append(s, x)) /\ CallCount(s) \in Nat
  BY <1>1, CallsCounted DEF Argued
<1>6. ASSUME NEW j \in 1..CallCount(Append(s, x))
      PROVE  Calls(Append(v, x))[j] = IF j = c THEN Grown(Calls(Append(s, x))[j], n) ELSE Calls(Append(s, x))[j]
  <2>1. CASE x.kind # "call"
    <3>1. Calls(Append(v, x)) = Calls(v) /\ Calls(Append(s, x)) = Calls(s)
      BY <1>1, <2>1, CallsOf
    <3>2. CallCount(Append(s, x)) = CallCount(s)
      BY <3>1 DEF CallCount
    <3>3. QED
      BY <3>1, <3>2 DEF Argued
  <2>2. CASE x.kind = "call"
    <3> DEFINE a == Calls(s)
               b == Calls(v)
    <3>1. Calls(Append(v, x)) = Append(b, x) /\ Calls(Append(s, x)) = Append(a, x)
      BY <1>1, <2>2, CallsOf
    <3>2. a \in Seq(Items) /\ b \in Seq(Items) /\ Len(a) = CallCount(s) /\ Len(b) = CallCount(s)
      BY <1>1, CallsOf DEF Argued, CallCount
    <3>3. \A i \in 1..CallCount(s) : b[i] = IF i = c THEN Grown(a[i], n) ELSE a[i]
      BY DEF Argued
    <3>4. CallCount(Append(s, x)) = CallCount(s) + 1
      BY <2>2, CallsCounted
    <3> HIDE DEF a, b
    <3>a. (\A i \in 1..CallCount(s) : Append(a, x)[i] = a[i]) /\ Append(a, x)[CallCount(s) + 1] = x
      BY <3>2, AppendProperties
    <3>c. b \in Seq(Items) /\ Len(b) = CallCount(s)
      BY <3>2
    <3>b. (\A i \in 1..CallCount(s) : Append(b, x)[i] = b[i]) /\ Append(b, x)[CallCount(s) + 1] = x
      BY <3>c, AppendProperties
    <3>5. /\ \A i \in 1..CallCount(s) : Append(a, x)[i] = a[i] /\ Append(b, x)[i] = b[i]
          /\ Append(a, x)[CallCount(s) + 1] = x /\ Append(b, x)[CallCount(s) + 1] = x
      BY <3>a, <3>b
    <3>6. CASE j \in 1..CallCount(s)
      BY <3>1, <3>3, <3>5, <3>6
    <3>7. CASE j \notin 1..CallCount(s)
      <4>1. j = CallCount(s) + 1 /\ j # c
        BY <1>5, <3>4, <3>7
      <4>2. QED
        BY <3>1, <3>5, <4>1
    <3>8. QED
      BY <3>6, <3>7
  <2>3. QED
    BY <2>1, <2>2
<1>7. QED
  BY <1>1, <1>2, <1>3, <1>4, <1>5, <1>6 DEF Argued

\* and so it is if the call is the last item.
LEMMA ArguedLast ==
  ASSUME NEW s \in Seq(Items), NEW n \in Nat, NEW x \in Items, x.kind = "call"
  PROVE  Argued(Append(s, x), Append(s, Grown(x, n)), CallCount(s) + 1, n)
<1> DEFINE y == Grown(x, n)
<1>1. y \in Items /\ y.kind = "call"
  BY GrownIs
<1> HIDE DEF y
<1>2. /\ Append(s, y) \in Seq(Items) /\ Len(Append(s, y)) = Len(Append(s, x))
  BY <1>1, AppendProperties
<1>3. Normal(Append(s, x)) => Normal(Append(s, y))
  BY <1>1, NormalAppend
<1>4. \A k : EndsWith(Append(s, y), k) <=> EndsWith(Append(s, x), k)
  BY <1>1, EndsWithAppend
<1>5. ASSUME NEW k, k # "call" PROVE Run(Append(s, y), k) = Run(Append(s, x), k)
  <2>1. \A z \in Items : Run(Append(s, z), k) = IF z.kind = k THEN Run(s, k) \o z.pieces ELSE Run(s, k)
    BY RunOf
  <2>2. QED
    BY <1>1, <1>5, <2>1
<1>6. CallCount(Append(s, y)) = CallCount(s) + 1 /\ CallCount(Append(s, x)) = CallCount(s) + 1 /\ CallCount(s) \in Nat
  BY <1>1, CallsCounted
<1>7. ASSUME NEW j \in 1..(CallCount(s) + 1)
      PROVE  Calls(Append(s, y))[j] = IF j = CallCount(s) + 1 THEN Grown(Calls(Append(s, x))[j], n)
                                                             ELSE Calls(Append(s, x))[j]
  <2> DEFINE a == Calls(s)
  <2>1. Calls(Append(s, y)) = Append(a, y) /\ Calls(Append(s, x)) = Append(a, x)
    BY <1>1, CallsOf
  <2>2. a \in Seq(Items) /\ Len(a) = CallCount(s)
    BY CallsOf DEF CallCount
  <2> HIDE DEF a
  <2>3. /\ \A i \in 1..CallCount(s) : Append(a, x)[i] = a[i] /\ Append(a, y)[i] = a[i]
        /\ Append(a, x)[CallCount(s) + 1] = x /\ Append(a, y)[CallCount(s) + 1] = y
    BY <1>1, <2>2, AppendProperties
  <2>4. CASE j \in 1..CallCount(s)
    <3>1. j # CallCount(s) + 1
      BY <1>6, <2>4
    <3>2. Append(a, x)[j] = a[j] /\ Append(a, y)[j] = a[j]
      BY <2>3, <2>4
    <3>3. QED
      BY <2>1, <3>1, <3>2
  <2>5. CASE j \notin 1..CallCount(s)
    <3>1. j = CallCount(s) + 1
      BY <1>6, <2>5
    <3>2. QED
      BY <2>1, <2>3, <3>1 DEF y
  <2>6. QED
    BY <2>4, <2>5
<1>8. QED
  BY <1>2, <1>3, <1>4, <1>5, <1>6, <1>7 DEF Argued, y

\* An argument more for any of the calls.
LEMMA ArgumentOf ==
  \A s \in Seq(Items) : \A c \in 1..CallCount(s), n \in Nat : Argued(s, AddArgument(s, c, n), c, n)
<1> DEFINE Good(s) == \A c \in 1..CallCount(s), n \in Nat : Argued(s, AddArgument(s, c, n), c, n)
           T == {s \in Seq(Items) : Good(s)}
<1>1. <<>> \in T
  <2>1. <<>> \in Seq(Items) /\ 1..CallCount(<<>>) = {}
    BY CallsCounted
  <2>2. QED
    BY <2>1
<1>2. ASSUME NEW s \in Seq(Items), NEW x \in Items, s \in T PROVE Append(s, x) \in T
  <2>1. Append(s, x) \in Seq(Items)
    BY ItemsAppend
  <2> SUFFICES ASSUME NEW c \in 1..CallCount(Append(s, x)), NEW n \in Nat
               PROVE  Argued(Append(s, x), AddArgument(Append(s, x), c, n), c, n)
    BY <2>1
  <2>2. CallCount(s) \in Nat /\ CallCount(Append(s, x)) = CallCount(s) + (IF x.kind = "call" THEN 1 ELSE 0)
    BY CallsCounted
  <2>3. CASE c \in 1..CallCount(s)
    <3>1. Argued(s, AddArgument(s, c, n), c, n)
      BY <1>2, <2>3
    <3>2. AddArgument(Append(s, x), c, n) = Append(AddArgument(s, c, n), x)
      BY <2>3, <3>1, ArgumentAppend DEF Argued
    <3>3. QED
      BY <2>3, <3>1, <3>2, ArguedAppend
  <2>4. CASE c \notin 1..CallCount(s)
    <3>1. x.kind = "call" /\ c = CallCount(s) + 1
      BY <2>2, <2>4
    <3>2. QED
      BY <3>1, ArgumentAppend, ArguedLast
  <2>5. QED
    BY <2>3, <2>4
<1>3. Seq(Items) \subseteq T
  <2> HIDE DEF T
  <2>1. QED
    BY <1>1, <1>2, SequencesFrom
<1>4. QED
  BY <1>3
----------------------------------------------------------------------------
(* A part told, in the model and to a list of items.                       *)

\* A few pieces added to items are added one by one.
LEMMA AddAllFew ==
  ASSUME NEW b, NEW kind
  PROVE  /\ AddAll(b, kind, <<>>) = b
         /\ \A x : AddAll(b, kind, <<x>>) = AddPiece(b, kind, x)
         /\ \A x, y : AddAll(b, kind, <<x, y>>) = AddPiece(AddPiece(b, kind, x), kind, y)
<1> DEFINE op(r, x) == AddPiece(r, kind, x)
           Run0(q) == AddAll(b, kind, q)
           Fold(q) == CHOOSE g : g = [z \in SUBSET (DOMAIN q) |->
                                        IF z = {} THEN b ELSE op(g[z \ {Max(z)}], q[Max(z)])]
<1>1. ASSUME NEW q PROVE Run0(q) = Fold(q)[DOMAIN q]
  BY DEF AddAll, FoldLeft, MapThenFoldSet
<1>2. ASSUME NEW q, DOMAIN q \subseteq {1, 2}
      PROVE  /\ Fold(q)[{}] = b
             /\ 1 \in DOMAIN q => Fold(q)[{1}] = op(b, q[1])
             /\ DOMAIN q = {1, 2} => Fold(q)[{1, 2}] = op(op(b, q[1]), q[2])
  <2> DEFINE D == DOMAIN q
             f == Fold(q)
             h == [z \in SUBSET D |-> CASE z = {} -> b [] z = {1} -> op(b, q[1])
                                        [] z = {2} -> op(b, q[2]) [] OTHER -> op(op(b, q[1]), q[2])]
  <2>a. D \subseteq {1, 2}
    BY <1>2
  <2> HIDE DEF op, D
  <2>1. ASSUME NEW z \in SUBSET D PROVE h[z] = IF z = {} THEN b ELSE op(h[z \ {Max(z)}], q[Max(z)])
    <3>1. /\ {} \in SUBSET D /\ h[{}] = b
          /\ {1} \in SUBSET D => h[{1}] = op(b, q[1])
          /\ {2} \in SUBSET D => h[{2}] = op(b, q[2])
          /\ {1, 2} \in SUBSET D => h[{1, 2}] = op(op(b, q[1]), q[2])
      BY TwoPlaces
    <3>2. z \in SUBSET {1, 2} /\ (z = {1, 2} => {1} \in SUBSET D)
      BY <2>a
    <3> HIDE DEF h
    <3>3. CASE z = {}
      BY <3>1, <3>3
    <3>4. CASE z = {1}
      BY <3>1, <3>4, TwoPlaces
    <3>5. CASE z = {2}
      BY <3>1, <3>5, TwoPlaces
    <3>6. CASE z = {1, 2}
      BY <3>1, <3>2, <3>6, TwoPlaces
    <3>7. QED
      BY <3>2, <3>3, <3>4, <3>5, <3>6, TwoPlaces
  <2>2. h = [z \in SUBSET D |-> IF z = {} THEN b ELSE op(h[z \ {Max(z)}], q[Max(z)])]
    BY <2>1
  <2> HIDE DEF h
  <2>3. f = [z \in SUBSET D |-> IF z = {} THEN b ELSE op(f[z \ {Max(z)}], q[Max(z)])]
    BY <2>2 DEF D
  <2> HIDE DEF f, Fold
  <2>4. \A z \in SUBSET D : f[z] = IF z = {} THEN b ELSE op(f[z \ {Max(z)}], q[Max(z)])
    BY <2>3
  <2>5. f[{}] = b
    BY <2>4
  <2>6. ASSUME 1 \in D PROVE f[{1}] = op(b, q[1])
    BY <2>4, <2>5, <2>6, TwoPlaces
  <2>7. ASSUME D = {1, 2} PROVE f[{1, 2}] = op(op(b, q[1]), q[2])
    <3>1. {1, 2} \in SUBSET D /\ {1, 2} # {} /\ {1, 2} \ {Max({1, 2})} = {1} /\ Max({1, 2}) = 2
      BY <2>7, TwoPlaces
    <3>2. f[{1, 2}] = op(f[{1, 2} \ {Max({1, 2})}], q[Max({1, 2})])
      BY <2>4, <3>1
    <3>3. QED
      BY <2>6, <2>7, <3>1, <3>2
  <2>8. QED
    BY <2>5, <2>6, <2>7 DEF D, f
<1> HIDE DEF op, Run0, Fold
<1>3. /\ DOMAIN <<>> = {} /\ \A x : DOMAIN <<x>> = {1} /\ <<x>>[1] = x
      /\ \A x, y : DOMAIN <<x, y>> = {1, 2} /\ <<x, y>>[1] = x /\ <<x, y>>[2] = y
  OBVIOUS
<1>4. Run0(<<>>) = b
  BY <1>1, <1>2, <1>3
<1>5. ASSUME NEW x PROVE Run0(<<x>>) = op(b, x)
  BY <1>1, <1>2, <1>3
<1>6. ASSUME NEW x, NEW y PROVE Run0(<<x, y>>) = op(op(b, x), y)
  BY <1>1, <1>2, <1>3
<1>7. QED
  BY <1>4, <1>5, <1>6 DEF op, Run0

\* A part an upstream may say.
PartKinds == {"thought", "text", "call", "empty", "sign", "more"}
IsPart(x) ==
  /\ x.kind \in PartKinds /\ x.pieces \in Seq(Nat)
  /\ x.kind \in {"thought", "text", "more"} => \E n \in Nat : x.pieces = <<n>>
  /\ x.kind \in {"empty", "sign"} => x.pieces = <<>>
  /\ x.kind = "call" => x.pieces # <<>>

\* The call that a part with more arguments belongs to is there.
CallMeant(x, items) == IF GeminiLike THEN CallCount(items) ELSE x.call
Heeds(x, items) == x.kind = "more" => CallMeant(x, items) \in 1..CallCount(items)

\* What is told of a run grows by a piece,
LEMMA AddPieceTells ==
  ASSUME NEW s \in Seq(Items), Normal(s), NEW kind \in {"thought", "text"}, NEW n \in Nat
  PROVE  /\ AddPiece(s, kind, n) \in Seq(Items) /\ Normal(AddPiece(s, kind, n)) /\ AddPiece(s, kind, n) # <<>>
         /\ EndsWith(AddPiece(s, kind, n), kind)
         /\ Calls(AddPiece(s, kind, n)) = Calls(s)
         /\ \A k : Run(AddPiece(s, kind, n), k) = IF k = kind THEN Append(Run(s, k), n) ELSE Run(s, k)
<1>1. kind \in ItemKinds \ {"call"} /\ kind \in ItemKinds
  BY DEF ItemKinds
<1>2. AddPiece(s, kind, n) \in Seq(Items) /\ Normal(AddPiece(s, kind, n)) /\ EndsWith(AddPiece(s, kind, n), kind)
  BY <1>1, AddPieceType, AddPieceNormal
<1>3. CASE ~EndsWith(s, kind)
  <2> DEFINE x == Item(kind, <<n>>)
  <2>1. AddPiece(s, kind, n) = Append(s, x) /\ x \in Items /\ x.kind = kind /\ x.pieces = <<n>>
    BY <1>1, <1>3, AddPieceAppend, ItemIs, OnePiece
  <2> HIDE DEF x
  <2>2. Calls(Append(s, x)) = Calls(s)
    BY <1>1, <2>1, CallsOf
  <2>3. \A k : Run(Append(s, x), k) = IF k = kind THEN Append(Run(s, k), n) ELSE Run(s, k)
    <3>1. ASSUME NEW k PROVE Run(Append(s, x), k) = IF k = kind THEN Append(Run(s, k), n) ELSE Run(s, k)
      <4>1. Run(Append(s, x), k) = IF x.kind = k THEN Run(s, k) \o x.pieces ELSE Run(s, k)
        BY <2>1, RunOf
      <4>2. Run(s, k) \in Seq(Nat)
        BY RunOf
      <4>3. Run(s, k) \o <<n>> = Append(Run(s, k), n)
        BY <4>2, ConcatOne
      <4>4. QED
        BY <2>1, <4>1, <4>3
    <3>2. QED
      BY <3>1
  <2>4. QED
    BY <1>2, <2>1, <2>2, <2>3 DEF EndsWith
<1>4. CASE EndsWith(s, kind)
  <2>1. s # <<>>
    BY <1>4 DEF EndsWith
  <2>2. PICK q \in Seq(Items), x \in Items : s = Append(q, x) /\ Last(s) = x
    BY <2>1, LastOf
  <2>3. x.kind = kind
    BY <1>4, <2>2 DEF EndsWith
  <2>4. AddPiece(s, kind, n) = Append(q, Grown(x, n))
    BY <1>1, <2>2, <2>3, AddPieceAppend
  <2>5. Grown(x, n) \in Items /\ Grown(x, n).kind = kind
    BY <2>3, GrownIs
  <2>6. Calls(Append(q, Grown(x, n))) = Calls(s)
    BY <1>1, <2>2, <2>3, <2>5, CallsOf
  <2>7. \A k : Run(Append(q, Grown(x, n)), k) = IF k = kind THEN Append(Run(s, k), n) ELSE Run(s, k)
    BY <2>2, <2>3, RunGrows
  <2>8. QED
    BY <1>2, <2>4, <2>6, <2>7 DEF EndsWith
<1>5. QED
  BY <1>3, <1>4

\* What is told with a part.
LEMMA TellIs ==
  ASSUME NEW items \in Seq(Items), Normal(items), NEW x, IsPart(x), Heeds(x, items)
  PROVE  /\ Tell(items, x) \in Seq(Items) /\ Normal(Tell(items, x))
         /\ x.kind \notin {"empty", "sign"} => Tell(items, x) # <<>>
         /\ x.kind \in {"thought", "text"} => \E n \in Nat :
              x.pieces = <<n>> /\ Tell(items, x) = AddPiece(items, x.kind, n) /\ EndsWith(Tell(items, x), x.kind)
         /\ x.kind = "call" => /\ Tell(items, x) = Append(items, Item("call", x.pieces))
                               /\ Item("call", x.pieces) \in Items /\ EndsWith(Tell(items, x), "call")
         /\ x.kind \in {"empty", "sign"} => Tell(items, x) = items /\ x.pieces = <<>>
         /\ x.kind = "more" => \E n \in Nat : x.pieces = <<n>>
              /\ Tell(items, x) = AddArgument(items, CallMeant(x, items), n)
              /\ Argued(items, Tell(items, x), CallMeant(x, items), n)
<1>1. CASE x.kind \in {"thought", "text"}
  <2>1. PICK n \in Nat : x.pieces = <<n>>
    BY <1>1 DEF IsPart
  <2>2. Tell(items, x) = AddAll(items, x.kind, x.pieces)
    BY <1>1 DEF Tell
  <2>3. Tell(items, x) = AddPiece(items, x.kind, n)
    <3>1. \A kind : AddAll(items, kind, <<n>>) = AddPiece(items, kind, n)
      <4>1. ASSUME NEW kind PROVE \A z : AddAll(items, kind, <<z>>) = AddPiece(items, kind, z)
        BY AddAllFew
      <4>2. QED
        BY <4>1
    <3>2. QED
      BY <2>1, <2>2, <3>1
  <2>4. QED
    BY <1>1, <2>1, <2>3, AddPieceTells
<1>2. CASE x.kind = "call"
  <2>1. Item("call", x.pieces) \in Items /\ Item("call", x.pieces).kind = "call"
    BY <1>2, ItemIs DEF IsPart, ItemKinds
  <2>2. Tell(items, x) = Append(items, Item("call", x.pieces))
    BY <1>2 DEF Tell
  <2> DEFINE c == Item("call", x.pieces)
  <2> HIDE DEF c
  <2>3. Append(items, c) \in Seq(Items) /\ Normal(Append(items, c)) /\ EndsWith(Append(items, c), "call")
        /\ Append(items, c) # <<>>
    BY <2>1, ItemsAppend, NormalAppend, EndsWithAppend DEF c
  <2>4. QED
    BY <1>2, <2>1, <2>2, <2>3 DEF c
<1>3. CASE x.kind \in {"empty", "sign"}
  <2>1. x.pieces = <<>>
    BY <1>3 DEF IsPart
  <2>2. Tell(items, x) = AddAll(items, x.kind, <<>>)
    BY <1>3, <2>1 DEF Tell
  <2>3. Tell(items, x) = items
    BY <2>2, AddAllFew
  <2>4. QED
    BY <1>3, <2>1, <2>3
<1>4. CASE x.kind = "more"
  <2>1. PICK n \in Nat : x.pieces = <<n>>
    BY <1>4 DEF IsPart
  <2>2. Tell(items, x) = AddArgument(items, CallMeant(x, items), n)
    BY <1>4, <2>1 DEF Tell, CallMeant
  <2>3. CallMeant(x, items) \in 1..CallCount(items)
    BY <1>4 DEF Heeds
  <2>4. Argued(items, Tell(items, x), CallMeant(x, items), n)
    BY <2>2, <2>3, ArgumentOf
  <2>5. Len(items) # 0
    <3>1. items # <<>>
      BY <2>3, CallsCounted
    <3>2. QED
      BY <3>1, EmptySeq
  <2>6. Tell(items, x) # <<>>
    BY <2>4, <2>5 DEF Argued
  <2>7. QED
    BY <1>4, <2>1, <2>2, <2>4, <2>6 DEF Argued
<1>5. QED
  BY <1>1, <1>2, <1>3, <1>4 DEF IsPart, PartKinds

\* What it adds to the runs, and to the calls.
LEMMA TellAdds ==
  ASSUME NEW items \in Seq(Items), Normal(items), NEW x, IsPart(x), Heeds(x, items)
  PROVE  /\ \A k \in {"thought", "text"} :
              Run(Tell(items, x), k) = IF x.kind = k THEN Run(items, k) \o x.pieces ELSE Run(items, k)
         /\ x.kind \in {"thought", "text", "empty", "sign"} => Calls(Tell(items, x)) = Calls(items)
         /\ x.kind = "call" => Calls(Tell(items, x)) = Append(Calls(items), Item("call", x.pieces))
         /\ CallCount(Tell(items, x)) = CallCount(items) + (IF x.kind = "call" THEN 1 ELSE 0)
<1>0. CallCount(items) \in Nat /\ Run(items, "thought") \in Seq(Nat) /\ Run(items, "text") \in Seq(Nat)
  BY CallsCounted, RunOf
<1>1. CASE x.kind \in {"thought", "text"}
  <2>1. PICK n \in Nat : x.pieces = <<n>> /\ Tell(items, x) = AddPiece(items, x.kind, n)
    BY <1>1, TellIs
  <2>2. /\ Calls(Tell(items, x)) = Calls(items)
        /\ \A k : Run(Tell(items, x), k) = IF k = x.kind THEN Append(Run(items, k), n) ELSE Run(items, k)
    <3> DEFINE kind == x.kind
               more == AddPiece(items, kind, n)
    <3>1. kind \in {"thought", "text"} /\ Tell(items, x) = more
      BY <1>1, <2>1
    <3> HIDE DEF kind
    <3>2. Calls(more) = Calls(items) /\ \A k : Run(more, k) = IF k = kind THEN Append(Run(items, k), n) ELSE Run(items, k)
      BY <3>1, AddPieceTells
    <3>3. QED
      BY <3>1, <3>2 DEF kind
  <2>3. Run(items, "thought") \o x.pieces = Append(Run(items, "thought"), n)
        /\ Run(items, "text") \o x.pieces = Append(Run(items, "text"), n)
    BY <1>0, <2>1, ConcatOne
  <2>4. CallCount(Tell(items, x)) = CallCount(items)
    BY <2>2 DEF CallCount
  <2>5. QED
    <3>1. /\ Run(Tell(items, x), "thought")
             = IF x.kind = "thought" THEN Run(items, "thought") \o x.pieces ELSE Run(items, "thought")
          /\ Run(Tell(items, x), "text")
             = IF x.kind = "text" THEN Run(items, "text") \o x.pieces ELSE Run(items, "text")
      BY <2>2, <2>3
    <3>2. QED
      BY <1>0, <1>1, <2>2, <2>4, <3>1
<1>2. CASE x.kind = "call"
  <2> DEFINE c == Item("call", x.pieces)
  <2>1. Tell(items, x) = Append(items, c) /\ c \in Items /\ c.kind = "call"
    BY <1>2, TellIs DEF Item
  <2> HIDE DEF c
  <2>2. /\ Calls(Tell(items, x)) = Append(Calls(items), c)
        /\ \A k \in {"thought", "text"} : Run(Tell(items, x), k) = Run(items, k)
        /\ CallCount(Tell(items, x)) = CallCount(items) + 1
    <3>1. Calls(Append(items, c)) = Append(Calls(items), c) /\ CallCount(Append(items, c)) = CallCount(items) + 1
      BY <2>1, CallsOf, CallsCounted
    <3>2. ASSUME NEW k \in {"thought", "text"} PROVE Run(Append(items, c), k) = Run(items, k)
      <4>1. Run(Append(items, c), k) = IF c.kind = k THEN Run(items, k) \o c.pieces ELSE Run(items, k)
        BY <2>1, RunOf
      <4>2. QED
        BY <2>1, <4>1
    <3>3. QED
      BY <2>1, <3>1, <3>2
  <2>3. QED
    BY <1>2, <2>2 DEF c
<1>3. CASE x.kind \in {"empty", "sign"}
  <2>1. Tell(items, x) = items
    BY <1>3, TellIs
  <2>2. QED
    BY <1>0, <1>3, <2>1
<1>4. CASE x.kind = "more"
  <2>1. \E n : Argued(items, Tell(items, x), CallMeant(x, items), n)
    BY <1>4, TellIs
  <2>2. QED
    BY <1>0, <1>4, <2>1 DEF Argued
<1>5. QED
  BY <1>1, <1>2, <1>3, <1>4 DEF IsPart, PartKinds
----------------------------------------------------------------------------
(* The routes whose upstream speaks in parts, and what it has said.        *)

\* The routes from Gemini, Gemini CLI, Antigravity and OpenAI.
PartRoute == route \in Routes /\ InParts

\* What the upstream has said, of a route with parts.
PartsUpstream ==
  /\ PartRoute
  /\ told \in Seq(Items) /\ Normal(told) /\ said \in Nat /\ block = ""
  /\ latest = "call" => EndsWith(told, "call")
  /\ stage \in {"speaking", "finishing", "finished", "over", "cut"}
  /\ IF stage \in {"speaking", "cut"} THEN finish = "" ELSE finish \in {"end", "limit"}
  /\ stage = "finishing" => From \notin {"gemini", "cli"}
  /\ finish # "" /\ "content" \notin lapsed => told # <<>>

\* A part of kind k that comes after one of kind last, when items are told.
Comes(x, k, last, items) ==
  /\ k \in KindsSaid /\ x.kind = k /\ IsPart(x) /\ Heeds(x, items)
  /\ k = "more" /\ GeminiLike => last = "call" /\ EndsWith(items, "call")
  /\ k = "call" /\ ~GeminiLike => x.call = CallCount(items) + 1

\* The parts of a chunk.
PartsOf(ks, ps) ==
  \/ ks = <<>> /\ ps = <<>>
  \/ \E k, x : ks = <<k>> /\ ps = <<x>> /\ Comes(x, k, latest, told)
  \/ \E k, l, x, y : ks = <<k, l>> /\ ps = <<x, y>> /\ Comes(x, k, latest, told) /\ Comes(y, l, k, Tell(told, x))
                     /\ (From = "openai" => InPlace(<<k, l>>))

\* The kinds are those of parts.
LEMMA KindsAre == PartRoute => KindsSaid \subseteq PartKinds /\ (GeminiLike <=> From # "openai")
BY DEF PartRoute, InParts, GeminiLike, GeminiFormats, KindsSaid, PartKinds

\* A part as it is made.
LEMMA MakePartIs ==
  ASSUME NEW k \in PartKinds, NEW n \in Nat, NEW call
  PROVE  /\ IsPart(MakePart(k, n, call)) /\ MakePart(k, n, call).kind = k /\ MakePart(k, n, call).call = call
         /\ n + Len(MakePart(k, n, call).pieces) \in Nat
<1> DEFINE ns == MakePart(k, n, call).pieces
<1>1. MakePart(k, n, call).kind = k /\ MakePart(k, n, call).call = call
  BY DEF MakePart
<1>2. /\ k \in {"empty", "sign"} => ns = <<>>
      /\ k \in {"thought", "text", "more"} => ns = <<n + 1>>
      /\ k = "call" => ns = <<n + 1, n + 2>> \/ ns = <<n + 1>>
  BY DEF MakePart
<1>3. ns = <<>> \/ ns = <<n + 1>> \/ ns = <<n + 1, n + 2>>
  BY <1>2 DEF PartKinds
<1>4. n + 1 \in Nat /\ n + 2 \in Nat
  OBVIOUS
<1> DEFINE a == n + 1
           b == n + 2
<1> HIDE DEF ns, a, b
<1>5. ns = <<>> \/ ns = <<a>> \/ ns = <<a, b>>
  BY <1>3 DEF a, b
<1>6. ns \in Seq(Nat) /\ Len(ns) \in Nat
  <2>1. a \in Nat /\ b \in Nat
    BY <1>4 DEF a, b
  <2>2. <<>> \in Seq(Nat) /\ <<a>> \in Seq(Nat) /\ <<a, b>> \in Seq(Nat)
    BY <2>1
  <2>3. ns \in Seq(Nat)
    BY <1>5, <2>2
  <2>4. QED
    BY <2>3, LenProperties
<1>7. k \in {"thought", "text", "more"} => ns = <<a>> /\ a \in Nat
  BY <1>2, <1>4 DEF a
<1>8. k = "call" => ns # <<>>
  BY <1>2
<1>9. IsPart(MakePart(k, n, call))
  BY <1>1, <1>2, <1>6, <1>7, <1>8 DEF IsPart, ns
<1>10. QED
  BY <1>1, <1>6, <1>9 DEF ns

\* The lists of kinds: none, one, or two.
LEMMA KindListIs ==
  ASSUME NEW ks \in KindLists
  PROVE  \/ ks = <<>>
         \/ \E k \in KindsSaid : ks = <<k>> /\ Follows(k, latest)
         \/ \E k \in KindsSaid, l \in KindsSaid :
              /\ ks = <<k, l>> /\ Follows(k, latest) /\ Follows(l, k)
              /\ From = "openai" => InPlace(<<k, l>>) /\ ks # <<"call", "more">>
<1>1. /\ ks \in UNION {[1..l -> KindsSaid] : l \in 0..2}
      /\ From = "openai" => InPlace(ks) /\ ks # <<"call", "more">>
      /\ \A i \in DOMAIN ks : Follows(ks[i], IF i = 1 THEN latest ELSE ks[i - 1])
  BY DEF KindLists
<1>2. PICK l \in 0..2 : ks \in [1..l -> KindsSaid]
  BY <1>1
<1>3. CASE l = 0
  <2>1. ks = <<>>
    BY <1>2, <1>3
  <2>2. QED
    BY <2>1
<1>a. l = 0 \/ l = 1 \/ l = 2
  OBVIOUS
<1>4. CASE l = 1
  <2>1. ks = <<ks[1]>> /\ ks[1] \in KindsSaid /\ 1 \in DOMAIN ks
    BY <1>2, <1>4
  <2>2. Follows(ks[1], latest)
    BY <1>1, <2>1
  <2>3. QED
    BY <2>1, <2>2
<1>5. CASE l = 2
  <2>1. /\ ks = <<ks[1], ks[2]>> /\ ks[1] \in KindsSaid /\ ks[2] \in KindsSaid
        /\ 1 \in DOMAIN ks /\ 2 \in DOMAIN ks
    BY <1>2, <1>5
  <2>2. Follows(ks[1], latest) /\ Follows(ks[2], ks[1])
    <3>1. Follows(ks[1], latest)
      BY <1>1, <2>1
    <3>2. Follows(ks[2], ks[2 - 1]) /\ 2 - 1 = 1
      BY <1>1, <2>1
    <3>3. QED
      BY <3>1, <3>2
  <2>3. QED
    BY <1>1, <2>1, <2>2
<1>6. QED
  BY <1>3, <1>4, <1>5, <1>a

\* A list that ends in a call has one.
LEMMA EndsInCall ==
  ASSUME NEW s \in Seq(Items), EndsWith(s, "call")
  PROVE  CallCount(s) \in 1..CallCount(s)
<1>1. s # <<>>
  BY DEF EndsWith
<1>2. PICK q \in Seq(Items), x \in Items : s = Append(q, x) /\ Last(s) = x
  BY <1>1, LastOf
<1>3. x.kind = "call"
  BY <1>2 DEF EndsWith
<1>4. CallCount(s) = CallCount(q) + 1 /\ CallCount(q) \in Nat
  BY <1>2, <1>3, CallsCounted
<1>5. QED
  BY <1>4

\* A list of one kind has that kind,
LEMMA HasOne == \A k, kinds : Has(<<k>>, kinds) <=> k \in kinds
<1>1. ASSUME NEW k, NEW kinds PROVE Has(<<k>>, kinds) <=> k \in kinds
  <2>1. DOMAIN <<k>> = {1} /\ <<k>>[1] = k
    OBVIOUS
  <2>2. QED
    BY <2>1 DEF Has
<1>2. QED
  BY <1>1

\* and one of two has either.
LEMMA HasTwo == \A k, l, kinds : Has(<<k, l>>, kinds) <=> k \in kinds \/ l \in kinds
<1>1. ASSUME NEW k, NEW l, NEW kinds PROVE Has(<<k, l>>, kinds) <=> k \in kinds \/ l \in kinds
  <2>1. DOMAIN <<k, l>> = {1, 2} /\ <<k, l>>[1] = k /\ <<k, l>>[2] = l
    OBVIOUS
  <2>2. QED
    BY <2>1 DEF Has
<1>2. QED
  BY <1>1

\* What a chunk says, and with what the converter is called.
LEMMA ChunkSaid ==
  ASSUME PartsUpstream, NEW ks \in KindLists, NEW why, NEW usage, SayChunk(ks, why, usage)
  PROVE  \E ps, order :
           /\ PartsOf(ks, ps) /\ told' = TellAll(told, ps) /\ said' \in Nat
           /\ latest' = IF ks = <<>> THEN latest ELSE Last(ks)
           /\ Noted(ChunkGarbled(ks, why # "") \/ (why # "" /\ told' = <<>>), ReasonGarbled(ks, why))
           /\ HandOn(Translated([parts |-> ps, usage |-> usage,
                                 finish |-> IF From = "openai" /\ why # "" THEN Reason(told', why) ELSE why], order))
           /\ order = "straight" \/ route = <<"openai", "gemini">>
<1>1. PICK call \in IF From = "openai" /\ Has(ks, {"more"}) THEN 1..CallCount(told) ELSE {0} :
        LET made == MakeParts(ks, call)
            items == TellAll(told, made.parts)
            chunk == [parts |-> made.parts, usage |-> usage,
                      finish |-> IF From = "openai" /\ why # "" THEN Reason(items, why) ELSE why]
        IN  /\ said' = made.said
            /\ latest' = IF ks = <<>> THEN latest ELSE Last(ks)
            /\ told' = items
            /\ Noted(ChunkGarbled(ks, why # "") \/ (why # "" /\ items = <<>>), ReasonGarbled(ks, why))
            /\ \/ HandOn(Translated(chunk, "straight"))
               \/ route = <<"openai", "gemini">> /\ HandOn(Translated(chunk, "turned"))
  BY DEF SayChunk
<1> DEFINE made == MakeParts(ks, call)
           ps == made.parts
           w == [said |-> said, parts |-> <<>>, calls |-> CallCount(told)]
<1>2. PartRoute /\ told \in Seq(Items) /\ Normal(told) /\ said \in Nat /\ CallCount(told) \in Nat
      /\ (latest = "call" => EndsWith(told, "call"))
  BY CallsCounted DEF PartsUpstream
<1>3. KindsSaid \subseteq PartKinds /\ (GeminiLike <=> From # "openai")
  BY <1>2, KindsAre
<1>4. made = MakeAll(w, ks, call)
  BY DEF MakeParts
<1>5. PartsOf(ks, ps) /\ made.said \in Nat
  <2>1. CASE ks = <<>>
    <3>1. made = w
      BY <1>4, <2>1, MakeFew
    <3>2. QED
      BY <1>2, <2>1, <3>1 DEF PartsOf
  <2>2. ASSUME NEW k \in KindsSaid, Follows(k, latest), From = "openai" /\ k = "more" => call \in 1..CallCount(told)
        PROVE  LET x == MakePart(k, said, IF k = "call" THEN CallCount(told) + 1 ELSE call)
               IN  /\ Comes(x, k, latest, told)
                   /\ MakeNext(w, k, call) = [said |-> said + Len(x.pieces), parts |-> <<x>>,
                                              calls |-> CallCount(told) + (IF k = "call" THEN 1 ELSE 0)]
                   /\ said + Len(x.pieces) \in Nat
    <3> DEFINE x == MakePart(k, said, IF k = "call" THEN CallCount(told) + 1 ELSE call)
    <3>1. /\ IsPart(x) /\ x.kind = k /\ x.call = IF k = "call" THEN CallCount(told) + 1 ELSE call
          /\ said + Len(x.pieces) \in Nat
      BY <1>2, <1>3, MakePartIs
    <3>2. MakeNext(w, k, call) = [said |-> said + Len(x.pieces), parts |-> Append(<<>>, x),
                                  calls |-> CallCount(told) + (IF k = "call" THEN 1 ELSE 0)]
      <4>1. k \in PartKinds /\ x = MakePart(k, said, IF k = "call" THEN CallCount(told) + 1 ELSE call)
        BY <1>3
      <4> HIDE DEF x
      <4>2. QED
        BY <4>1 DEF MakeNext
    <3>3. k = "more" /\ GeminiLike => latest = "call" /\ EndsWith(told, "call")
      BY <1>2, <1>3, <2>2 DEF Follows
    <3>4. k = "more" => CallMeant(x, told) \in 1..CallCount(told)
      <4>1. CASE GeminiLike
        <5>1. EndsWith(told, "call") => CallCount(told) \in 1..CallCount(told)
          BY <1>2, EndsInCall
        <5>2. QED
          BY <3>3, <4>1, <5>1 DEF CallMeant
      <4>2. CASE ~GeminiLike
        BY <1>3, <2>2, <3>1, <4>2 DEF CallMeant
      <4>3. QED
        BY <4>1, <4>2
    <3> HIDE DEF x
    <3>5. Comes(x, k, latest, told)
      BY <3>1, <3>3, <3>4 DEF Comes, Heeds
    <3>6. Append(<<>>, x) = <<x>>
      BY OneOf
    <3>7. QED
      BY <3>1, <3>2, <3>5, <3>6 DEF x
  <2>3. ASSUME NEW k \in KindsSaid, ks = <<k>>, Follows(k, latest) PROVE PartsOf(ks, ps) /\ made.said \in Nat
    <3> DEFINE x == MakePart(k, said, IF k = "call" THEN CallCount(told) + 1 ELSE call)
    <3>1. From = "openai" /\ k = "more" => call \in 1..CallCount(told)
      BY <1>1, <2>3, HasOne
    <3>2. Comes(x, k, latest, told)
          /\ MakeNext(w, k, call) = [said |-> said + Len(x.pieces), parts |-> <<x>>,
                                     calls |-> CallCount(told) + (IF k = "call" THEN 1 ELSE 0)]
          /\ said + Len(x.pieces) \in Nat
      BY <2>2, <2>3, <3>1
    <3> HIDE DEF x
    <3>3. made = MakeNext(w, k, call)
      BY <1>4, <2>3, MakeFew
    <3>4. ps = <<x>> /\ made.said \in Nat
      BY <3>2, <3>3
    <3>5. QED
      BY <2>3, <3>2, <3>4 DEF PartsOf
  <2>4. ASSUME NEW k \in KindsSaid, NEW l \in KindsSaid, ks = <<k, l>>, Follows(k, latest), Follows(l, k),
               From = "openai" => InPlace(<<k, l>>) /\ ks # <<"call", "more">>
        PROVE PartsOf(ks, ps) /\ made.said \in Nat
    <3> DEFINE x == MakePart(k, said, IF k = "call" THEN CallCount(told) + 1 ELSE call)
               n == said + Len(x.pieces)
               c == CallCount(told) + (IF k = "call" THEN 1 ELSE 0)
               y == MakePart(l, n, IF l = "call" THEN c + 1 ELSE call)
               v == [said |-> n, parts |-> <<x>>, calls |-> c]
    <3>1. From = "openai" /\ (k = "more" \/ l = "more") => call \in 1..CallCount(told)
      BY <1>1, <2>4, HasTwo
    <3>2. /\ Comes(x, k, latest, told) /\ MakeNext(w, k, call) = v /\ n \in Nat
      BY <2>2, <2>4, <3>1
    <3>3. x.kind = k /\ IsPart(x) /\ Heeds(x, told)
      BY <3>2 DEF Comes
    <3> HIDE DEF x
    <3>4. /\ Tell(told, x) \in Seq(Items) /\ (k = "call" => EndsWith(Tell(told, x), "call"))
          /\ CallCount(Tell(told, x)) = c
      BY <1>2, <3>3, TellIs, TellAdds
    <3>5. c \in Nat
      BY <1>2
    <3>6. /\ IsPart(y) /\ y.kind = l /\ y.call = (IF l = "call" THEN c + 1 ELSE call)
          /\ n + Len(y.pieces) \in Nat
      BY <1>3, <3>2, MakePartIs
    <3>7. MakeNext(v, l, call) = [said |-> n + Len(y.pieces), parts |-> Append(<<x>>, y),
                                  calls |-> c + (IF l = "call" THEN 1 ELSE 0)]
      <4>1. l \in PartKinds /\ y = MakePart(l, n, IF l = "call" THEN c + 1 ELSE call)
        BY <1>3
      <4> HIDE DEF y
      <4>2. QED
        BY <3>2, <4>1 DEF MakeNext, v
    <3>8. l = "more" /\ GeminiLike => k = "call" /\ EndsWith(Tell(told, x), "call")
      BY <1>3, <2>4, <3>4 DEF Follows
    <3> HIDE DEF n, y, v
    <3>9. l = "more" => CallMeant(y, Tell(told, x)) \in 1..CallCount(Tell(told, x))
      <4>1. CASE GeminiLike
        <5>1. EndsWith(Tell(told, x), "call") => CallCount(Tell(told, x)) \in 1..CallCount(Tell(told, x))
          BY <3>4, EndsInCall
        <5>2. QED
          BY <3>8, <4>1, <5>1 DEF CallMeant
      <4>2. CASE ~GeminiLike
        <5>1. ASSUME l = "more" PROVE call \in 1..c
          <6>1. CallCount(told) <= c
            BY <1>2
          <6>2. call \in 1..CallCount(told)
            BY <1>3, <3>1, <4>2, <5>1
          <6>3. QED
            BY <1>2, <3>5, <6>1, <6>2
        <5>2. QED
          BY <3>4, <3>6, <4>2, <5>1 DEF CallMeant
      <4>3. QED
        BY <4>1, <4>2
    <3>10. Comes(y, l, k, Tell(told, x))
      BY <3>4, <3>6, <3>8, <3>9 DEF Comes, Heeds
    <3>11. Append(<<x>>, y) = <<x, y>>
      BY OneOf
    <3>12. made = MakeNext(MakeNext(w, k, call), l, call)
      <4>1. ASSUME NEW z PROVE \A a, b : MakeAll(z, <<a, b>>, call) = MakeNext(MakeNext(z, a, call), b, call)
        BY MakeFew
      <4>2. QED
        BY <1>4, <2>4, <4>1
    <3>13. ps = <<x, y>> /\ made.said \in Nat
      BY <3>2, <3>6, <3>7, <3>11, <3>12
    <3>14. QED
      BY <2>4, <3>2, <3>10, <3>13 DEF PartsOf
  <2>5. QED
    BY <2>1, <2>3, <2>4, KindListIs
<1>6. /\ said' = made.said /\ latest' = IF ks = <<>> THEN latest ELSE Last(ks)
      /\ told' = TellAll(told, ps)
      /\ Noted(ChunkGarbled(ks, why # "") \/ (why # "" /\ told' = <<>>), ReasonGarbled(ks, why))
  BY <1>1
<1>7. \E order :
        /\ HandOn(Translated([parts |-> ps, usage |-> usage,
                              finish |-> IF From = "openai" /\ why # "" THEN Reason(told', why) ELSE why], order))
        /\ order = "straight" \/ route = <<"openai", "gemini">>
  BY <1>1
<1> HIDE DEF made, ps
<1>8. QED
  BY <1>5, <1>6, <1>7

\* Lists of no, one and two elements differ.
LEMMA TuplesDiffer ==
  /\ \A a : <<a>> # <<>>
  /\ \A a, b : <<a, b>> # <<>>
  /\ \A a, b, c : <<a, b>> # <<c>>
  /\ \A a, c : <<a>> = <<c>> => a = c
  /\ \A a, b, c, d : <<a, b>> = <<c, d>> => a = c /\ b = d
OBVIOUS

\* Their last element.
LEMMA LastOfFew == (\A a : Last(<<a>>) = a /\ <<a>> # <<>>) /\ (\A a, b : Last(<<a, b>>) = b /\ <<a, b>> # <<>>)
BY DEF Last

\* A chunk of one part, and of two.
OnePart(ps, k, x) == ps = <<x>> /\ Comes(x, k, latest, told)
TwoParts(ps, k, l, x, y) ==
  /\ ps = <<x, y>> /\ Comes(x, k, latest, told) /\ Comes(y, l, k, Tell(told, x))
  /\ From = "openai" => InPlace(<<k, l>>)

\* What has been told with the parts of a chunk.
LEMMA PartsTold ==
  ASSUME NEW ks, NEW ps, PartsOf(ks, ps)
  PROVE  \/ ks = <<>> /\ ps = <<>> /\ TellAll(told, ps) = told
         \/ \E k, x : ks = <<k>> /\ Last(ks) = k /\ OnePart(ps, k, x) /\ TellAll(told, ps) = Tell(told, x)
         \/ \E k, l, x, y : /\ ks = <<k, l>> /\ Last(ks) = l /\ TwoParts(ps, k, l, x, y)
                           /\ TellAll(told, ps) = Tell(Tell(told, x), y)
<1>1. CASE ks = <<>> /\ ps = <<>>
  BY <1>1, TellFew
<1>2. ASSUME NEW k, NEW x, ks = <<k>>, ps = <<x>>, Comes(x, k, latest, told)
      PROVE  ks = <<k>> /\ Last(ks) = k /\ OnePart(ps, k, x) /\ TellAll(told, ps) = Tell(told, x)
  <2>1. \A a : TellAll(told, <<a>>) = Tell(told, a)
    BY TellFew
  <2>2. QED
    BY <1>2, <2>1, LastOfFew DEF OnePart
<1>3. ASSUME NEW k, NEW l, NEW x, NEW y, ks = <<k, l>>, ps = <<x, y>>,
             Comes(x, k, latest, told), Comes(y, l, k, Tell(told, x)), From = "openai" => InPlace(<<k, l>>)
      PROVE  /\ ks = <<k, l>> /\ Last(ks) = l /\ TwoParts(ps, k, l, x, y)
             /\ TellAll(told, ps) = Tell(Tell(told, x), y)
  <2>1. \A a, b : TellAll(told, <<a, b>>) = Tell(Tell(told, a), b)
    BY TellFew
  <2>2. QED
    BY <1>3, <2>1, LastOfFew DEF TwoParts
<1>4. CASE \E k, x : ks = <<k>> /\ ps = <<x>> /\ Comes(x, k, latest, told)
  <2>1. PICK k, x : ks = <<k>> /\ ps = <<x>> /\ Comes(x, k, latest, told)
    BY <1>4
  <2>2. ks = <<k>> /\ Last(ks) = k /\ OnePart(ps, k, x) /\ TellAll(told, ps) = Tell(told, x)
    BY <1>2, <2>1
  <2>3. QED
    BY <2>2, Zenon
<1>5. CASE \E k, l, x, y : /\ ks = <<k, l>> /\ ps = <<x, y>> /\ Comes(x, k, latest, told)
                           /\ Comes(y, l, k, Tell(told, x)) /\ (From = "openai" => InPlace(<<k, l>>))
  <2>1. PICK k, l, x, y : /\ ks = <<k, l>> /\ ps = <<x, y>> /\ Comes(x, k, latest, told)
                          /\ Comes(y, l, k, Tell(told, x)) /\ (From = "openai" => InPlace(<<k, l>>))
    BY <1>5
  <2>2. /\ ks = <<k, l>> /\ Last(ks) = l /\ TwoParts(ps, k, l, x, y)
        /\ TellAll(told, ps) = Tell(Tell(told, x), y)
    BY <1>3, <2>1
  <2>3. QED
    BY <2>2, Zenon
<1>6. QED
  BY <1>1, <1>4, <1>5 DEF PartsOf

\* A part that comes is one of the parts, and keeps what is told a list of items.
LEMMA ComesIs ==
  ASSUME PartRoute, NEW items \in Seq(Items), Normal(items), NEW x, NEW k, NEW last, Comes(x, k, last, items)
  PROVE  /\ x.kind = k /\ k \in KindsSaid /\ k \in PartKinds /\ IsPart(x) /\ Heeds(x, items)
         /\ Tell(items, x) \in Seq(Items) /\ Normal(Tell(items, x))
         /\ k = "call" => EndsWith(Tell(items, x), "call")
         /\ items # <<>> => Tell(items, x) # <<>>
<1>1. x.kind = k /\ k \in KindsSaid /\ k \in PartKinds /\ IsPart(x) /\ Heeds(x, items)
  BY KindsAre DEF Comes
<1>2. /\ Tell(items, x) \in Seq(Items) /\ Normal(Tell(items, x))
      /\ k = "call" => EndsWith(Tell(items, x), "call")
      /\ k \notin {"empty", "sign"} => Tell(items, x) # <<>>
      /\ k \in {"empty", "sign"} => Tell(items, x) = items
  BY <1>1, TellIs
<1>3. QED
  BY <1>1, <1>2

\* It is a list of items, and the last part is known.
LEMMA ChunkKeeps ==
  ASSUME PartsUpstream, NEW ks \in KindLists, NEW why, NEW usage, SayChunk(ks, why, usage)
  PROVE  /\ told' \in Seq(Items) /\ Normal(told') /\ said' \in Nat
         /\ latest' = "call" => EndsWith(told', "call")
         /\ told # <<>> => told' # <<>>
         /\ why # "" /\ "content" \notin lapsed' => told' # <<>>
         /\ lapsed \subseteq lapsed'
<1>1. PICK ps, order :
           /\ PartsOf(ks, ps) /\ told' = TellAll(told, ps) /\ said' \in Nat
           /\ latest' = IF ks = <<>> THEN latest ELSE Last(ks)
           /\ Noted(ChunkGarbled(ks, why # "") \/ (why # "" /\ told' = <<>>), ReasonGarbled(ks, why))
  BY ChunkSaid
<1>2. PartRoute /\ told \in Seq(Items) /\ Normal(told) /\ (latest = "call" => EndsWith(told, "call"))
  BY DEF PartsUpstream
<1>3. /\ why # "" /\ "content" \notin lapsed' => told' # <<>>
      /\ lapsed \subseteq lapsed'
  BY <1>1 DEF Noted
<1>4. CASE ks = <<>> /\ told' = told
  BY <1>1, <1>2, <1>3, <1>4
<1>5. ASSUME NEW k, NEW x, ks = <<k>>, Last(ks) = k, OnePart(ps, k, x), told' = Tell(told, x)
      PROVE  told' \in Seq(Items) /\ Normal(told') /\ (latest' = "call" => EndsWith(told', "call"))
             /\ (told # <<>> => told' # <<>>)
  <2>1. latest' = k /\ Comes(x, k, latest, told)
    BY <1>1, <1>5, TuplesDiffer DEF OnePart
  <2>2. QED
    BY <1>2, <1>5, <2>1, ComesIs
<1>6. ASSUME NEW k, NEW l, NEW x, NEW y, ks = <<k, l>>, Last(ks) = l, TwoParts(ps, k, l, x, y),
             told' = Tell(Tell(told, x), y)
      PROVE  told' \in Seq(Items) /\ Normal(told') /\ (latest' = "call" => EndsWith(told', "call"))
             /\ (told # <<>> => told' # <<>>)
  <2>1. latest' = l /\ Comes(x, k, latest, told) /\ Comes(y, l, k, Tell(told, x))
    BY <1>1, <1>6, TuplesDiffer DEF TwoParts
  <2>2. Tell(told, x) \in Seq(Items) /\ Normal(Tell(told, x)) /\ (told # <<>> => Tell(told, x) # <<>>)
    BY <1>2, <2>1, ComesIs
  <2> DEFINE items == Tell(told, x)
  <2> HIDE DEF items
  <2>3. items \in Seq(Items) /\ Normal(items) /\ Comes(y, l, k, items) /\ told' = Tell(items, y)
        /\ (told # <<>> => items # <<>>)
    BY <1>6, <2>1, <2>2 DEF items
  <2>4. QED
    BY <1>2, <2>1, <2>3, ComesIs
<1>7. CASE \E k, x : ks = <<k>> /\ Last(ks) = k /\ OnePart(ps, k, x) /\ TellAll(told, ps) = Tell(told, x)
  <2>1. PICK k, x : ks = <<k>> /\ Last(ks) = k /\ OnePart(ps, k, x) /\ TellAll(told, ps) = Tell(told, x)
    BY <1>7
  <2>2. QED
    BY <1>1, <1>3, <1>5, <2>1
<1>8. CASE \E k, l, x, y : /\ ks = <<k, l>> /\ Last(ks) = l /\ TwoParts(ps, k, l, x, y)
                           /\ TellAll(told, ps) = Tell(Tell(told, x), y)
  <2>1. PICK k, l, x, y : /\ ks = <<k, l>> /\ Last(ks) = l /\ TwoParts(ps, k, l, x, y)
                          /\ TellAll(told, ps) = Tell(Tell(told, x), y)
    BY <1>8
  <2>2. QED
    BY <1>1, <1>3, <1>6, <2>1
<1>9. \/ ks = <<>> /\ ps = <<>> /\ TellAll(told, ps) = told
      \/ \E k, x : ks = <<k>> /\ Last(ks) = k /\ OnePart(ps, k, x) /\ TellAll(told, ps) = Tell(told, x)
      \/ \E k, l, x, y : /\ ks = <<k, l>> /\ Last(ks) = l /\ TwoParts(ps, k, l, x, y)
                           /\ TellAll(told, ps) = Tell(Tell(told, x), y)
  <2>1. PartsOf(ks, ps)
    BY <1>1
  <2>2. QED
    BY <2>1, PartsTold
<1>10. QED
  BY <1>1, <1>3, <1>4, <1>7, <1>8, <1>9

\* The empty list of kinds is one that may be said.
LEMMA NothingSaid == <<>> \in KindLists
<1>1. <<>> \in [1..0 -> KindsSaid] /\ DOMAIN <<>> = {} /\ Len(<<>>) = 0 /\ <<>> # <<"call", "more">>
  OBVIOUS
<1>2. <<>> \in UNION {[1..l -> KindsSaid] : l \in 0..2}
  BY <1>1
<1>3. QED
  BY <1>1, <1>2 DEF KindLists, InPlace

\* So it begins,
LEMMA PartsUpstreamBegins == TranslationInit /\ PartRoute => PartsUpstream
<1>1. <<>> \in Seq(Items) /\ Normal(<<>>)
  BY EmptySeq DEF Normal
<1> SUFFICES ASSUME TranslationInit, PartRoute PROVE PartsUpstream
  OBVIOUS
<1>2. told = <<>> /\ said = 0 /\ latest = "" /\ block = "" /\ finish = "" /\ stage = "speaking"
  BY DEF TranslationInit, PartRoute
<1>3. QED
  BY <1>1, <1>2 DEF PartsUpstream

\* The steps of an upstream that speaks in parts.
LEMMA SpokenInParts ==
  ASSUME PartsUpstream, TranslationNext
  PROVE  SayMore \/ SayLast \/ SayUsage \/ AnswerEnds \/ AnswerBreaks
BY DEF TranslationNext, PartsUpstream, PartRoute, SayCreated, SayDelta, SayClose, SayCompleted, SayOpen

\* The route stays, and with it the formats.
LEMMA PartRouteStays ==
  ASSUME PartRoute, route' = route
  PROVE  /\ PartRoute' /\ From' = From /\ To' = To /\ (GeminiLike' <=> GeminiLike)
BY DEF PartRoute, InParts, GeminiLike, From, To

\* and so it stays.
LEMMA PartsUpstreamGoesOn ==
  ASSUME PartsUpstream, [TranslationNext]_translationVars
  PROVE  PartsUpstream'
<1>1. PartRoute /\ told \in Seq(Items) /\ Normal(told) /\ said \in Nat /\ block = ""
  BY DEF PartsUpstream
<1>2. CASE UNCHANGED translationVars
  BY <1>1, <1>2, PartRouteStays DEF PartsUpstream, translationVars
<1>3. CASE SayMore
  <2>1. PICK ks \in KindLists : SayChunk(ks, "", FALSE)
    BY <1>3 DEF SayMore
  <2>2. stage = "speaking" /\ UNCHANGED <<route, block, stage, finish>>
    BY <1>3 DEF SayMore
  <2>3. QED
    BY <1>1, <2>1, <2>2, ChunkKeeps, PartRouteStays DEF PartsUpstream
<1>4. CASE SayLast
  <2>1. PICK ks \in KindLists, why \in {"end", "limit"}, usage \in BOOLEAN :
           /\ From \in {"gemini", "cli"} => usage
           /\ SayChunk(ks, why, usage) /\ finish' = why
           /\ stage' = IF usage THEN "finished" ELSE "finishing"
    BY <1>4 DEF SayLast
  <2>2. UNCHANGED <<route, block>>
    BY <1>4 DEF SayLast
  <2>3. QED
    BY <1>1, <2>1, <2>2, ChunkKeeps, PartRouteStays DEF PartsUpstream
<1>5. CASE SayUsage
  <2>1. SayChunk(<<>>, "", TRUE) /\ stage = "finishing" /\ stage' = "finished" /\ UNCHANGED <<route, block, finish>>
    BY <1>5 DEF SayUsage
  <2>2. QED
    BY <1>1, <2>1, NothingSaid, ChunkKeeps, PartRouteStays DEF PartsUpstream
<1>6. CASE AnswerEnds
  <2>1. stage \in {"finished", "finishing"} /\ stage' = "over"
        /\ UNCHANGED <<route, told, parts, said, latest, block, finish, lapsed>>
    BY <1>6 DEF AnswerEnds
  <2>2. QED
    BY <1>1, <2>1, PartRouteStays DEF PartsUpstream
<1>7. CASE AnswerBreaks
  <2>1. stage \in {"new", "speaking"} /\ stage' = "cut" /\ lapsed \subseteq lapsed'
        /\ UNCHANGED <<route, told, parts, said, latest, block, finish>>
    BY <1>7 DEF AnswerBreaks, Noted
  <2>2. QED
    BY <1>1, <2>1, PartRouteStays DEF PartsUpstream
<1>8. QED
  BY <1>2, <1>3, <1>4, <1>5, <1>6, <1>7, SpokenInParts
----------------------------------------------------------------------------
(* Gemini, Gemini CLI and Antigravity to chat completions.                 *)

\* The three routes.
GeminiChat == route \in {<<"gemini", "chat">>, <<"cli", "chat">>, <<"antigravity", "chat">>}

\* What the template of a chunk holds, and what the converter counts.
ChatTemplate(c, r, cs, i) ==
  [chunk |-> [content |-> c, reasoning |-> r, calls |-> cs, finish |-> ""], functionIndex |-> i]

\* With the template the client has the items.
Templates(t, m, items, before) ==
  /\ t = ChatTemplate(t.chunk.content, t.chunk.reasoning, t.chunk.calls, CallCount(items))
  /\ t.chunk.content \in Seq(Nat) /\ t.chunk.reasoning \in Seq(Nat) /\ t.chunk.calls \in Seq(CallRecords)
  /\ Len(t.chunk.calls) = CallCount(items) - CallCount(before)
  /\ Completes(ReadChatChunk(m, t.chunk), items, items, CallCount(items))
  /\ ReadChatChunk(m, t.chunk).reasons = m.reasons

\* The part does not fall on another in the template.
Fits(t, part) ==
  /\ part.kind \in {"thought", "sign"} => t.chunk.reasoning = <<>>
  /\ part.kind \in {"text", "empty"} => t.chunk.content = <<>>
  /\ part.kind = "call" => CallIndex(t) = t.functionIndex

\* An empty template.
LEMMA TemplateBegins ==
  ASSUME NEW m, NEW items \in Seq(Items), Completes(m, items, items, CallCount(items))
  PROVE  Templates([chunk |-> Chunk, functionIndex |-> CallCount(items)], m, items, items)
<1>1. ReadChatChunk(m, Chunk) = m
  BY CompletesEmpty
<1>2. CallCount(items) \in Nat /\ <<>> \in Seq(CallRecords) /\ Len(<<>>) = 0
  BY CallsCounted, EmptySeq
<1> DEFINE t == [chunk |-> Chunk, functionIndex |-> CallCount(items)]
<1>3. /\ t = ChatTemplate(<<>>, <<>>, <<>>, CallCount(items)) /\ t.chunk = Chunk
      /\ t.chunk.content = <<>> /\ t.chunk.reasoning = <<>> /\ t.chunk.calls = <<>>
  BY DEF ChatTemplate, Chunk
<1> HIDE DEF t
<1>4. CallCount(items) - CallCount(items) = 0
  BY <1>2
<1>5. <<>> \in Seq(Nat)
  BY EmptySeq
<1>6. QED
  BY <1>1, <1>2, <1>3, <1>4, <1>5 DEF Templates, t

\* What a part does to the template.
LEMMA ChatPartIs ==
  ASSUME NEW t, NEW part, NEW c, NEW r, NEW cs, NEW i, t = ChatTemplate(c, r, cs, i)
  PROVE  /\ part.kind \in {"thought", "sign"} => ChatPart(t, part) = ChatTemplate(c, part.pieces, cs, i)
         /\ part.kind \in {"text", "empty"} => ChatPart(t, part) = ChatTemplate(part.pieces, r, cs, i)
         /\ part.kind = "call" =>
              ChatPart(t, part) = ChatTemplate(c, r, Append(cs, ToolCall(CallIndex(t), part.pieces)), i + 1)
<1>1. part.kind \in {"thought", "sign"} => ChatPart(t, part) = [t EXCEPT !.chunk.reasoning = part.pieces]
  BY DEF ChatPart
<1>2. part.kind \in {"text", "empty"} => ChatPart(t, part) = [t EXCEPT !.chunk.content = part.pieces]
  BY DEF ChatPart
<1>3. part.kind = "call" => ChatPart(t, part) =
        [t EXCEPT !.chunk.calls = Append(@, ToolCall(CallIndex(t), part.pieces)), !.functionIndex = @ + 1]
  BY DEF ChatPart
<1> DEFINE k == [content |-> c, reasoning |-> r, calls |-> cs, finish |-> ""]
<1>a. t = [chunk |-> k, functionIndex |-> i]
  BY DEF ChatTemplate
<1>b. /\ \A f, p : [[content |-> c, reasoning |-> r, calls |-> cs, finish |-> f] EXCEPT !.reasoning = p]
                   = [content |-> c, reasoning |-> p, calls |-> cs, finish |-> f]
      /\ \A f, p : [[content |-> c, reasoning |-> r, calls |-> cs, finish |-> f] EXCEPT !.content = p]
                   = [content |-> p, reasoning |-> r, calls |-> cs, finish |-> f]
      /\ \A f, p : [[content |-> c, reasoning |-> r, calls |-> cs, finish |-> f] EXCEPT !.calls = p]
                   = [content |-> c, reasoning |-> r, calls |-> p, finish |-> f]
  OBVIOUS
<1>c. /\ \A p : [k EXCEPT !.reasoning = p] = [content |-> c, reasoning |-> p, calls |-> cs, finish |-> ""]
      /\ \A p : [k EXCEPT !.content = p] = [content |-> p, reasoning |-> r, calls |-> cs, finish |-> ""]
      /\ \A p : [k EXCEPT !.calls = p] = [content |-> c, reasoning |-> r, calls |-> p, finish |-> ""]
  BY <1>b, Zenon
<1>h. k.calls = cs
  OBVIOUS
<1>i. t.functionIndex = i /\ t.chunk = k
  BY DEF ChatTemplate
<1>d. k.calls = cs /\ t.functionIndex = i /\ t.chunk = k
  BY <1>h, <1>i
<1> HIDE DEF k
<1>e. ASSUME NEW p PROVE [t EXCEPT !.chunk.reasoning = p] = [chunk |-> [k EXCEPT !.reasoning = p], functionIndex |-> i]
  BY <1>a
<1>f. ASSUME NEW p PROVE [t EXCEPT !.chunk.content = p] = [chunk |-> [k EXCEPT !.content = p], functionIndex |-> i]
  BY <1>a
<1>g. ASSUME NEW q, NEW j
      PROVE  [t EXCEPT !.chunk.calls = q, !.functionIndex = j] = [chunk |-> [k EXCEPT !.calls = q], functionIndex |-> j]
  <2>1. [t EXCEPT !.chunk.calls = q, !.functionIndex = j] = [[t EXCEPT !.chunk.calls = q] EXCEPT !.functionIndex = j]
    OBVIOUS
  <2>2. [t EXCEPT !.chunk.calls = q] = [chunk |-> [k EXCEPT !.calls = q], functionIndex |-> i]
    BY <1>a
  <2>3. \A h : [[chunk |-> h, functionIndex |-> i] EXCEPT !.functionIndex = j] = [chunk |-> h, functionIndex |-> j]
    OBVIOUS
  <2>4. QED
    BY <2>1, <2>2, <2>3
<1>5. ASSUME NEW p, NEW x
      PROVE  /\ [t EXCEPT !.chunk.reasoning = p] = ChatTemplate(c, p, cs, i)
             /\ [t EXCEPT !.chunk.content = p] = ChatTemplate(p, r, cs, i)
             /\ [t EXCEPT !.chunk.calls = Append(@, x), !.functionIndex = @ + 1] = ChatTemplate(c, r, Append(cs, x), i + 1)
  <2>1. [t EXCEPT !.chunk.reasoning = p] = ChatTemplate(c, p, cs, i)
    <3> DEFINE h == [k EXCEPT !.reasoning = p]
    <3>1. h = [content |-> c, reasoning |-> p, calls |-> cs, finish |-> ""]
      BY <1>c
    <3>2. [t EXCEPT !.chunk.reasoning = p] = [chunk |-> h, functionIndex |-> i]
      BY <1>e
    <3> HIDE DEF h
    <3>3. [chunk |-> h, functionIndex |-> i] = ChatTemplate(c, p, cs, i)
      BY <3>1 DEF ChatTemplate
    <3>4. QED
      BY <3>2, <3>3
  <2>2. [t EXCEPT !.chunk.content = p] = ChatTemplate(p, r, cs, i)
    <3> DEFINE h == [k EXCEPT !.content = p]
    <3>1. h = [content |-> p, reasoning |-> r, calls |-> cs, finish |-> ""]
      BY <1>c
    <3>2. [t EXCEPT !.chunk.content = p] = [chunk |-> h, functionIndex |-> i]
      BY <1>f
    <3> HIDE DEF h
    <3>3. [chunk |-> h, functionIndex |-> i] = ChatTemplate(p, r, cs, i)
      BY <3>1 DEF ChatTemplate
    <3>4. QED
      BY <3>2, <3>3
  <2>3. [t EXCEPT !.chunk.calls = Append(cs, x), !.functionIndex = i + 1] = ChatTemplate(c, r, Append(cs, x), i + 1)
    <3> DEFINE l == Append(cs, x)
               j == i + 1
               h == [k EXCEPT !.calls = l]
    <3> HIDE DEF l, j
    <3>1. h = [content |-> c, reasoning |-> r, calls |-> l, finish |-> ""]
      BY <1>c
    <3>2. [t EXCEPT !.chunk.calls = l, !.functionIndex = j] = [chunk |-> h, functionIndex |-> j]
      BY <1>g
    <3> HIDE DEF h
    <3>5. [chunk |-> h, functionIndex |-> j] = ChatTemplate(c, r, l, j)
      BY <3>1 DEF ChatTemplate
    <3>3. [t EXCEPT !.chunk.calls = l, !.functionIndex = j] = ChatTemplate(c, r, l, j)
      BY <3>2, <3>5
    <3>4. QED
      BY <3>3 DEF l, j
  <2>4. t.chunk.calls = cs /\ t.functionIndex = i
    BY <1>d
  <2>5. [t EXCEPT !.chunk.calls = Append(@, x), !.functionIndex = @ + 1]
        = [t EXCEPT !.chunk.calls = Append(t.chunk.calls, x), !.functionIndex = t.functionIndex + 1]
    OBVIOUS
  <2>6. QED
    BY <2>1, <2>2, <2>3, <2>4, <2>5
<1>6. QED
  BY <1>1, <1>2, <1>3, <1>5

\* Chunks of content and of reasoning.
ContentChunk(ns) == [Chunk EXCEPT !.content = ns]
ReasoningChunk(ns) == [Chunk EXCEPT !.reasoning = ns]

\* An empty one is the empty chunk.
LEMMA NoChunk == ContentChunk(<<>>) = Chunk /\ ReasoningChunk(<<>>) = Chunk
<1>1. ASSUME NEW z, NEW a, NEW b, NEW l, NEW f, z = [content |-> a, reasoning |-> b, calls |-> l, finish |-> f]
      PROVE  [z EXCEPT !.content = a] = z /\ [z EXCEPT !.reasoning = b] = z
  BY <1>1
<1>2. [Chunk EXCEPT !.content = <<>>] = Chunk /\ [Chunk EXCEPT !.reasoning = <<>>] = Chunk
  <2>1. \E z : z = [content |-> <<>>, reasoning |-> <<>>, calls |-> <<>>, finish |-> ""]
    OBVIOUS
  <2>2. PICK z : z = [content |-> <<>>, reasoning |-> <<>>, calls |-> <<>>, finish |-> ""]
    BY <2>1
  <2>3. [z EXCEPT !.content = <<>>] = z /\ [z EXCEPT !.reasoning = <<>>] = z
    BY <1>1, <2>2
  <2>4. Chunk = z
    BY <2>2 DEF Chunk
  <2>5. QED
    BY <2>3, <2>4, Zenon
<1>3. QED
  BY <1>2 DEF ContentChunk, ReasoningChunk

\* A piece of text, a piece of a thought, and a call taken by the client.
LEMMA ClientTakes ==
  ASSUME NEW m, NEW items \in Seq(Items), NEW bound \in Nat, Completes(m, items, items, bound), NEW more
  PROVE  /\ \A n \in Nat :
              /\ Calls(more) = Calls(items)
              /\ Run(more, "text") = Append(Run(items, "text"), n) /\ Run(more, "thought") = Run(items, "thought")
              => /\ Completes(ReadChatChunk(m, ContentChunk(<<n>>)), more, more, bound)
                 /\ ReadChatChunk(m, ContentChunk(<<n>>)).reasons = m.reasons
         /\ \A n \in Nat :
              /\ Calls(more) = Calls(items)
              /\ Run(more, "thought") = Append(Run(items, "thought"), n) /\ Run(more, "text") = Run(items, "text")
              => /\ Completes(ReadChatChunk(m, ReasoningChunk(<<n>>)), more, more, bound)
                 /\ ReadChatChunk(m, ReasoningChunk(<<n>>)).reasons = m.reasons
         /\ \A x \in Items :
              Calls(more) = Append(Calls(items), x)
              => /\ Completes(ReadChatChunk(m, CallChunk(bound, x.pieces)), items, more, bound + 1)
                 /\ ReadChatChunk(m, CallChunk(bound, x.pieces)).reasons = m.reasons
<1>1. ASSUME NEW n \in Nat, Calls(more) = Calls(items), Run(more, "text") = Append(Run(items, "text"), n),
             Run(more, "thought") = Run(items, "thought")
      PROVE  /\ Completes(ReadChatChunk(m, ContentChunk(<<n>>)), more, more, bound)
             /\ ReadChatChunk(m, ContentChunk(<<n>>)).reasons = m.reasons
  <2>1. /\ Completes(ReadChatChunk(m, [Chunk EXCEPT !.content = <<n>>]), more, more, bound)
        /\ ReadChatChunk(m, [Chunk EXCEPT !.content = <<n>>]).reasons = m.reasons
    BY <1>1, CompletesText, SMTT(30)
  <2>2. QED
    BY <2>1 DEF ContentChunk
<1>2. ASSUME NEW n \in Nat, Calls(more) = Calls(items), Run(more, "thought") = Append(Run(items, "thought"), n),
             Run(more, "text") = Run(items, "text")
      PROVE  /\ Completes(ReadChatChunk(m, ReasoningChunk(<<n>>)), more, more, bound)
             /\ ReadChatChunk(m, ReasoningChunk(<<n>>)).reasons = m.reasons
  <2>1. /\ Completes(ReadChatChunk(m, [Chunk EXCEPT !.reasoning = <<n>>]), more, more, bound)
        /\ ReadChatChunk(m, [Chunk EXCEPT !.reasoning = <<n>>]).reasons = m.reasons
    BY <1>2, CompletesThought, SMTT(30)
  <2>2. QED
    BY <2>1 DEF ReasoningChunk
<1>3. ASSUME NEW x \in Items, Calls(more) = Append(Calls(items), x)
      PROVE  /\ Completes(ReadChatChunk(m, CallChunk(bound, x.pieces)), items, more, bound + 1)
             /\ ReadChatChunk(m, CallChunk(bound, x.pieces)).reasons = m.reasons
  <2>1. bound \in Int
    OBVIOUS
  <2>2. QED
    BY <1>3, <2>1, CompletesCall, SMTT(30)
<1>4. QED
  BY <1>1, <1>2, <1>3

\* The chunk of a template read is that of one part less read, and then the part.
LEMMA TemplateReads ==
  ASSUME NEW m, NEW c, NEW r, NEW cs \in Seq(CallRecords), NEW i, NEW p \in Seq(Nat), NEW x \in CallRecords,
         m.content \in Seq(Nat), m.reasoning \in Seq(Nat), m.calls \in Seq(CallRecords),
         c \in Seq(Nat), r \in Seq(Nat)
  PROVE  /\ c = <<>> => ReadChatChunk(m, ChatTemplate(p, r, cs, i).chunk)
                        = ReadChatChunk(ReadChatChunk(m, ChatTemplate(c, r, cs, i).chunk), ContentChunk(p))
         /\ r = <<>> => ReadChatChunk(m, ChatTemplate(c, p, cs, i).chunk)
                        = ReadChatChunk(ReadChatChunk(m, ChatTemplate(c, r, cs, i).chunk), ReasoningChunk(p))
         /\ ReadChatChunk(m, ChatTemplate(c, r, Append(cs, x), i).chunk)
            = ReadChatChunk(ReadChatChunk(m, ChatTemplate(c, r, cs, i).chunk), CallChunk(x.index, x.pieces))
<1> DEFINE a == m.content \o c
           b == m.reasoning \o r
           l == TakeCalls(m.calls, cs)
<1>1. a \in Seq(Nat) /\ b \in Seq(Nat) /\ l \in Seq(CallRecords)
  <2>1. l \in Seq(CallRecords)
    BY TakeCallsOf
  <2>2. a \in Seq(Nat) /\ b \in Seq(Nat)
    BY ConcatProperties
  <2>3. QED
    BY <2>1, <2>2
<1>2. a \o <<>> = a /\ b \o <<>> = b /\ (c = <<>> => m.content \o p = a \o p) /\ (r = <<>> => m.reasoning \o p = b \o p)
  BY <1>1, ConcatOne
<1>3. TakeCalls(l, <<>>) = l /\ TakeCalls(l, <<x>>) = TakeCalls(m.calls, Append(cs, x))
  <2>1. \A k \in Seq(CallRecords) : TakeCalls(k, <<>>) = k /\
            \A q \in Seq(CallRecords) : TakeCalls(k, Append(q, x)) = TakeCall(TakeCalls(k, q), x)
    BY TakeCallsOf
  <2>2. <<>> \in Seq(CallRecords) /\ Append(<<>>, x) = <<x>>
    BY EmptySeq, OneOf
  <2> HIDE DEF l
  <2>3. TakeCalls(l, <<x>>) = TakeCall(l, x)
    BY <1>1, <2>1, <2>2
  <2>4. TakeCalls(m.calls, Append(cs, x)) = TakeCall(l, x)
    BY <2>1 DEF l
  <2>5. QED
    BY <1>1, <2>1, <2>3, <2>4
<1> HIDE DEF a, b, l
<1>4. /\ ChatTemplate(c, r, cs, i).chunk = [content |-> c, reasoning |-> r, calls |-> cs, finish |-> ""]
      /\ ReadChatChunk(m, ChatTemplate(c, r, cs, i).chunk) = Completion(a, b, l, m.reasons)
  BY DEF ChatTemplate, ReadChatChunk, Completion, a, b, l
<1>x. ToolCall(x.index, x.pieces) = x
  BY DEF CallRecords, ToolCall
<1>5. /\ ReadChatChunk(Completion(a, b, l, m.reasons), ContentChunk(p)) = Completion(a \o p, b, l, m.reasons)
      /\ ReadChatChunk(Completion(a, b, l, m.reasons), ReasoningChunk(p)) = Completion(a, b \o p, l, m.reasons)
      /\ ReadChatChunk(Completion(a, b, l, m.reasons), CallChunk(x.index, x.pieces))
         = Completion(a, b, TakeCalls(l, <<x>>), m.reasons)
  BY <1>2, <1>3, <1>x DEF ReadChatChunk, Completion, Chunk, ContentChunk, ReasoningChunk, CallChunk
<1>6. /\ ReadChatChunk(m, ChatTemplate(p, r, cs, i).chunk) = Completion(m.content \o p, b, l, m.reasons)
      /\ ReadChatChunk(m, ChatTemplate(c, p, cs, i).chunk) = Completion(a, m.reasoning \o p, l, m.reasons)
      /\ ReadChatChunk(m, ChatTemplate(c, r, Append(cs, x), i).chunk)
         = Completion(a, b, TakeCalls(m.calls, Append(cs, x)), m.reasons)
  BY DEF ChatTemplate, ReadChatChunk, Completion, a, b, l
<1>7. QED
  BY <1>2, <1>3, <1>4, <1>5, <1>6

\* The template grows by a part that fits, and so do the items.
LEMMA TemplateGrows ==
  ASSUME NEW m, NEW before \in Seq(Items), Completes(m, before, before, CallCount(before)),
         NEW items \in Seq(Items), Normal(items), NEW x, IsPart(x), Heeds(x, items), x.kind # "more",
         NEW t, Templates(t, m, items, before), Fits(t, x)
  PROVE  /\ Templates(ChatPart(t, x), m, Tell(items, x), before)
         /\ x.kind \notin {"thought", "sign"} => ChatPart(t, x).chunk.reasoning = t.chunk.reasoning
         /\ x.kind \notin {"text", "empty"} => ChatPart(t, x).chunk.content = t.chunk.content
<1> DEFINE c == t.chunk.content
           r == t.chunk.reasoning
           cs == t.chunk.calls
           i == CallCount(items)
           now == ReadChatChunk(m, t.chunk)
           u == ChatPart(t, x)
           more == Tell(items, x)
           ns == x.pieces
<1>1. /\ t = ChatTemplate(c, r, cs, i) /\ c \in Seq(Nat) /\ r \in Seq(Nat) /\ cs \in Seq(CallRecords)
      /\ Len(cs) = i - CallCount(before) /\ Completes(now, items, items, i) /\ now.reasons = m.reasons
  BY DEF Templates
<1>2. i \in Nat /\ CallCount(before) \in Nat /\ ns \in Seq(Nat) /\ i \in Int /\ i + 1 \in Int /\ i <= i + 1
  BY CallsCounted DEF IsPart
<1>3. m.content \in Seq(Nat) /\ m.reasoning \in Seq(Nat) /\ m.calls \in Seq(CallRecords)
  <2>1. /\ m = Completion(Run(before, "text"), Run(before, "thought"), m.calls, m.reasons)
        /\ m.calls \in Seq(CallRecords)
    BY DEF Completes
  <2>2. Run(before, "text") \in Seq(Nat) /\ Run(before, "thought") \in Seq(Nat)
    BY RunOf
  <2>3. QED
    BY <2>1, <2>2 DEF Completion
<1>4. /\ x.kind \in {"thought", "sign"} => u = ChatTemplate(c, ns, cs, i)
      /\ x.kind \in {"text", "empty"} => u = ChatTemplate(ns, r, cs, i)
      /\ x.kind = "call" => u = ChatTemplate(c, r, Append(cs, ToolCall(CallIndex(t), ns)), i + 1)
  <2> HIDE DEF c, r, cs, i
  <2>1. QED
    BY <1>1, ChatPartIs
<1>5. /\ more \in Seq(Items) /\ CallCount(more) = i + (IF x.kind = "call" THEN 1 ELSE 0)
      /\ \A k \in {"thought", "text"} : Run(more, k) = IF x.kind = k THEN Run(items, k) \o ns ELSE Run(items, k)
      /\ x.kind \in {"thought", "text", "empty", "sign"} => Calls(more) = Calls(items)
      /\ x.kind = "call" => Calls(more) = Append(Calls(items), Item("call", ns)) /\ Item("call", ns) \in Items
  BY TellIs, TellAdds
<1>6. ASSUME NEW a, NEW b, NEW l, NEW j, u = ChatTemplate(a, b, l, j)
      PROVE  u.chunk = [content |-> a, reasoning |-> b, calls |-> l, finish |-> ""]
             /\ u.chunk.content = a /\ u.chunk.reasoning = b /\ u.chunk.calls = l
  <2> HIDE DEF u
  <2>1. QED
    BY <1>6 DEF ChatTemplate
<1>7. ASSUME NEW a \in Seq(Nat), NEW b \in Seq(Nat), NEW l \in Seq(CallRecords),
             u = ChatTemplate(a, b, l, CallCount(more)), Len(l) = CallCount(more) - CallCount(before),
             Completes(ReadChatChunk(m, u.chunk), more, more, CallCount(more)),
             ReadChatChunk(m, u.chunk).reasons = now.reasons
      PROVE  Templates(u, m, more, before)
  <2> HIDE DEF u, more, now
  <2>1. u = ChatTemplate(u.chunk.content, u.chunk.reasoning, u.chunk.calls, CallCount(more))
        /\ u.chunk.content = a /\ u.chunk.reasoning = b /\ u.chunk.calls = l
    BY <1>6, <1>7
  <2>2. QED
    BY <1>1, <1>7, <2>1 DEF Templates
<1> DEFINE d == ToolCall(i, ns)
<1>8. /\ c = <<>> => ReadChatChunk(m, ChatTemplate(ns, r, cs, i).chunk) = ReadChatChunk(now, ContentChunk(ns))
      /\ r = <<>> => ReadChatChunk(m, ChatTemplate(c, ns, cs, i).chunk) = ReadChatChunk(now, ReasoningChunk(ns))
      /\ d \in CallRecords
      /\ ReadChatChunk(m, ChatTemplate(c, r, Append(cs, d), i).chunk) = ReadChatChunk(now, CallChunk(i, ns))
  <2>1. d \in CallRecords /\ d.index = i /\ d.pieces = ns
    BY <1>2 DEF ToolCall, CallRecords
  <2>2. ReadChatChunk(m, ChatTemplate(c, r, cs, i).chunk) = now
    BY <1>1
  <2> HIDE DEF c, r, cs, i, d, now, ns
  <2>a. cs \in Seq(CallRecords) /\ ns \in Seq(Nat) /\ d \in CallRecords /\ c \in Seq(Nat) /\ r \in Seq(Nat)
    BY <1>1, <1>2, <2>1
  <2>b. /\ c = <<>> => ReadChatChunk(m, ChatTemplate(ns, r, cs, i).chunk)
                       = ReadChatChunk(ReadChatChunk(m, ChatTemplate(c, r, cs, i).chunk), ContentChunk(ns))
        /\ r = <<>> => ReadChatChunk(m, ChatTemplate(c, ns, cs, i).chunk)
                       = ReadChatChunk(ReadChatChunk(m, ChatTemplate(c, r, cs, i).chunk), ReasoningChunk(ns))
        /\ ReadChatChunk(m, ChatTemplate(c, r, Append(cs, d), i).chunk)
           = ReadChatChunk(ReadChatChunk(m, ChatTemplate(c, r, cs, i).chunk), CallChunk(d.index, d.pieces))
    BY <1>3, <2>a, TemplateReads
  <2>3. QED
    BY <2>1, <2>2, <2>b
<1>9. ASSUME NEW a, NEW b, NEW l, NEW j, NEW k PROVE ChatTemplate(a, b, l, j).chunk = ChatTemplate(a, b, l, k).chunk
  BY DEF ChatTemplate
<1>10. CASE x.kind \in {"thought", "sign"}
  <2>1. u = ChatTemplate(c, ns, cs, i) /\ r = <<>> /\ CallCount(more) = i
    BY <1>4, <1>5, <1>2, <1>10 DEF Fits
  <2>2. ReadChatChunk(m, u.chunk) = ReadChatChunk(now, ReasoningChunk(ns))
    BY <1>8, <2>1
  <2>3. Completes(ReadChatChunk(now, ReasoningChunk(ns)), more, more, i)
        /\ ReadChatChunk(now, ReasoningChunk(ns)).reasons = now.reasons
    <3>1. CASE x.kind = "thought"
      <4>1. PICK n \in Nat : ns = <<n>>
        BY <3>1 DEF IsPart
      <4>2. Run(more, "thought") = Append(Run(items, "thought"), n) /\ Run(more, "text") = Run(items, "text")
        <5>1. Run(more, "thought") = Run(items, "thought") \o <<n>> /\ Run(more, "text") = Run(items, "text")
          BY <1>5, <3>1, <4>1
        <5>2. Run(items, "thought") \in Seq(Nat)
          BY RunOf
        <5>3. QED
          BY <5>1, <5>2, ConcatOne
      <4>3. Calls(more) = Calls(items)
        BY <1>5, <3>1
      <4> HIDE DEF now, more, i, ns
      <4>4. QED
        BY <1>1, <1>2, <4>1, <4>2, <4>3, ClientTakes
    <3>2. CASE x.kind = "sign"
      <4>1. ns = <<>> /\ more = items
        BY <3>2, TellIs
      <4>2. ReasoningChunk(<<>>) = Chunk
        BY NoChunk
      <4> HIDE DEF now, more, i, ns
      <4>3. ReadChatChunk(now, Chunk) = now
        BY <1>1, CompletesEmpty
      <4>4. QED
        BY <1>1, <4>1, <4>2, <4>3
    <3>3. QED
      BY <1>10, <3>1, <3>2
  <2>4. Templates(u, m, more, before)
    <3> HIDE DEF u, more, now, c, r, cs, i, ns
    <3>1. QED
      BY <1>1, <1>2, <1>7, <2>1, <2>2, <2>3
  <2>5. u.chunk.content = c
    BY <1>6, <2>1
  <2>6. QED
    BY <1>10, <2>4, <2>5
<1>11. CASE x.kind \in {"text", "empty"}
  <2>1. u = ChatTemplate(ns, r, cs, i) /\ c = <<>> /\ CallCount(more) = i
    BY <1>4, <1>5, <1>2, <1>11 DEF Fits
  <2>2. ReadChatChunk(m, u.chunk) = ReadChatChunk(now, ContentChunk(ns))
    BY <1>8, <2>1
  <2>3. Completes(ReadChatChunk(now, ContentChunk(ns)), more, more, i)
        /\ ReadChatChunk(now, ContentChunk(ns)).reasons = now.reasons
    <3>1. CASE x.kind = "text"
      <4>1. PICK n \in Nat : ns = <<n>>
        BY <3>1 DEF IsPart
      <4>2. Run(more, "text") = Append(Run(items, "text"), n) /\ Run(more, "thought") = Run(items, "thought")
        <5>1. Run(more, "text") = Run(items, "text") \o <<n>> /\ Run(more, "thought") = Run(items, "thought")
          BY <1>5, <3>1, <4>1
        <5>2. Run(items, "text") \in Seq(Nat)
          BY RunOf
        <5>3. QED
          BY <5>1, <5>2, ConcatOne
      <4>3. Calls(more) = Calls(items)
        BY <1>5, <3>1
      <4> HIDE DEF now, more, i, ns
      <4>4. QED
        BY <1>1, <1>2, <4>1, <4>2, <4>3, ClientTakes
    <3>2. CASE x.kind = "empty"
      <4>1. ns = <<>> /\ more = items
        BY <3>2, TellIs
      <4>2. ContentChunk(<<>>) = Chunk
        BY NoChunk
      <4> HIDE DEF now, more, i, ns
      <4>3. ReadChatChunk(now, Chunk) = now
        BY <1>1, CompletesEmpty
      <4>4. QED
        BY <1>1, <4>1, <4>2, <4>3
    <3>3. QED
      BY <1>11, <3>1, <3>2
  <2>4. Templates(u, m, more, before)
    <3> HIDE DEF u, more, now, c, r, cs, i, ns
    <3>1. QED
      BY <1>1, <1>2, <1>7, <2>1, <2>2, <2>3
  <2>5. u.chunk.reasoning = r
    BY <1>6, <2>1
  <2>6. QED
    BY <1>11, <2>4, <2>5
<1>12. CASE x.kind = "call"
  <2>1. u = ChatTemplate(c, r, Append(cs, d), i + 1) /\ CallCount(more) = i + 1
    <3>1. CallIndex(t) = i
      <4>1. CallIndex(t) = t.functionIndex
        BY <1>12 DEF Fits
      <4>2. t.functionIndex = i
        <5> HIDE DEF c, r, cs, i
        <5>1. QED
          BY <1>1 DEF ChatTemplate
      <4>3. QED
        BY <4>1, <4>2
    <3>2. QED
      BY <1>2, <1>4, <1>5, <1>12, <3>1
  <2>2. ReadChatChunk(m, u.chunk) = ReadChatChunk(now, CallChunk(i, ns))
    BY <1>8, <1>9, <2>1
  <2>3. /\ Completes(ReadChatChunk(now, CallChunk(i, ns)), items, more, i + 1)
        /\ ReadChatChunk(now, CallChunk(i, ns)).reasons = now.reasons
    <3> DEFINE y == Item("call", ns)
    <3>1. y \in Items /\ y.pieces = ns /\ Calls(more) = Append(Calls(items), y)
      BY <1>5, <1>12 DEF Item
    <3> HIDE DEF now, more, i, ns, y
    <3>2. QED
      <4>1. \A z \in Items : Calls(more) = Append(Calls(items), z)
              => /\ Completes(ReadChatChunk(now, CallChunk(i, z.pieces)), items, more, i + 1)
                 /\ ReadChatChunk(now, CallChunk(i, z.pieces)).reasons = now.reasons
        <5>1. Completes(now, items, items, i) /\ i \in Nat
          BY <1>1, <1>2
        <5>2. QED
          BY <5>1, ClientTakes, SMTT(60)
      <4>2. /\ Completes(ReadChatChunk(now, CallChunk(i, y.pieces)), items, more, i + 1)
            /\ ReadChatChunk(now, CallChunk(i, y.pieces)).reasons = now.reasons
        BY <3>1, <4>1
      <4>3. QED
        BY <3>1, <4>2
  <2>4. Run(more, "text") = Run(items, "text") /\ Run(more, "thought") = Run(items, "thought")
    BY <1>5, <1>12
  <2>5. Completes(ReadChatChunk(m, u.chunk), more, more, CallCount(more))
    <3> DEFINE z == ReadChatChunk(m, u.chunk)
    <3>1. Completes(z, items, more, i + 1) /\ CallCount(more) = i + 1
      BY <2>1, <2>2, <2>3
    <3> HIDE DEF z, more, i
    <3>2. QED
      BY <2>4, <3>1 DEF Completes, z
  <2>6. Append(cs, d) \in Seq(CallRecords) /\ Len(Append(cs, d)) = CallCount(more) - CallCount(before)
    <3> HIDE DEF cs, d, i, more
    <3>1. Append(cs, d) \in Seq(CallRecords) /\ Len(Append(cs, d)) = Len(cs) + 1
      BY <1>1, <1>8, AppendProperties
    <3>2. QED
      BY <1>1, <1>2, <2>1, <3>1
  <2>7. Templates(u, m, more, before)
    <3> HIDE DEF u, more, now, c, r, cs, i, ns, d
    <3>1. QED
      BY <1>1, <1>2, <1>7, <2>1, <2>2, <2>3, <2>5, <2>6
  <2>8. u.chunk.reasoning = r /\ u.chunk.content = c
    BY <1>6, <2>1
  <2>9. QED
    BY <1>12, <2>7, <2>8
<1>13. QED
  BY <1>10, <1>11, <1>12 DEF IsPart, PartKinds

\* The route's converter and client.
LEMMA GeminiChatBy ==
  ASSUME GeminiChat
  PROVE  /\ PartRoute /\ GeminiLike /\ To = "chat" /\ From # "openai" /\ From \in GeminiFormats
         /\ (From = "antigravity" <=> route = <<"antigravity", "chat">>)
         /\ KindsSaid \subseteq {"thought", "text", "call", "empty", "sign"}
         /\ \A x, o : From # "antigravity" => Translated(x, o) = GeminiToChat(params, x)
         /\ \A x, o : From = "antigravity" => Translated(x, o) = AntigravityToChat(params, x)
         /\ \A m, e : Read(m, e) = ReadChatChunk(m, e)
         /\ FirstParams(route) = GeminiChatParams /\ Nothing(route) = NoCompletion
         /\ Whole = WholeGeminiToChat(told, finish) /\ TranslatedDone = params
<1>1. From \in GeminiFormats /\ To = "chat" /\ (From = "antigravity" <=> route = <<"antigravity", "chat">>)
      /\ From \in {"gemini", "cli", "antigravity"}
  BY DEF GeminiChat, From, To, GeminiFormats
<1>2. PartRoute /\ GeminiLike /\ From # "openai"
  BY <1>1 DEF GeminiChat, PartRoute, InParts, GeminiLike, GeminiFormats, Routes
<1>3. KindsSaid \subseteq {"thought", "text", "call", "empty", "sign"}
  BY <1>1 DEF KindsSaid
<1>4. ASSUME NEW x, NEW o
      PROVE  /\ From # "antigravity" => Translated(x, o) = GeminiToChat(params, x)
             /\ From = "antigravity" => Translated(x, o) = AntigravityToChat(params, x)
  BY <1>1 DEF GeminiChat, Translated, GeminiCLIToChat, From
<1>5. \A m, e : Read(m, e) = ReadChatChunk(m, e)
  BY <1>1 DEF Read
<1>6. FirstParams(route) = GeminiChatParams /\ Nothing(route) = NoCompletion
  BY DEF GeminiChat, FirstParams, Nothing, GeminiFormats
<1>7. Whole = WholeGeminiToChat(told, finish)
  BY DEF GeminiChat, Whole, WholeGeminiCLIToChat, WholeAntigravityToChat
<1>8. TranslatedDone = params
  BY DEF GeminiChat, TranslatedDone
<1>9. QED
  BY <1>1, <1>2, <1>3, <1>4, <1>5, <1>6, <1>7, <1>8

\* What the converter keeps from chunk to chunk.
GeminiChatCounts(i, s, f) == [functionIndex |-> i, sawToolCall |-> s, finish |-> f, out |-> <<>>]

\* It has counted the calls, and Antigravity's knows that there are some and
\* why the answer ended; the client has what was told.
GeminiChatKeeps ==
  /\ params = GeminiChatCounts(CallCount(told), params.sawToolCall, params.finish)
  /\ From = "antigravity" => /\ params.sawToolCall \in BOOLEAN
                             /\ params.sawToolCall <=> CallCount(told) > 0
                             /\ params.finish = finish
  /\ Completes(client, told, told, CallCount(told))

\* The client has the reason, once, when the upstream has told the last of it.
GeminiChatEnds ==
  /\ client.reasons = IF stage \in {"finished", "over"} THEN <<Reason(told, finish)>> ELSE <<>>
  /\ finish # "limit"
  /\ From # "antigravity" /\ stage = "speaking" => CallCount(told) = 0

\* So it is as long as nothing has been mistaken.
GeminiChatArrives ==
  /\ GeminiChat
  /\ "content" \notin lapsed => GeminiChatKeeps
  /\ lapsed = {} => GeminiChatEnds

\* When it mistakes a chunk, and when the reason.
LEMMA GeminiChatGarbled ==
  ASSUME GeminiChat
  PROVE  /\ \A ks : \A last \in BOOLEAN :
              ChunkGarbled(ks, last) <=> \/ Twice(ks, {"thought", "sign"})
                                        \/ Twice(ks, {"text", "empty"})
                                        \/ (Twice(ks, {"call"}) /\ ToldKind({"call"}))
         /\ \A ks, why :
              ReasonGarbled(ks, why) <=> why = "limit" \/ (From # "antigravity" /\ why = "" /\ Has(ks, {"call"}))
<1>1. /\ To = "chat"
      /\ route \notin {<<"antigravity", "claude">>, <<"openai", "gemini">>, <<"gemini", "responses">>,
                       <<"openai", "responses">>}
  BY DEF GeminiChat, To
<1>2. ASSUME NEW ks, NEW last \in BOOLEAN
      PROVE  ChunkGarbled(ks, last) <=> \/ Twice(ks, {"thought", "sign"})
                                       \/ Twice(ks, {"text", "empty"})
                                       \/ (Twice(ks, {"call"}) /\ ToldKind({"call"}))
  BY <1>1 DEF ChunkGarbled
<1>3. ASSUME NEW ks, NEW why
      PROVE  ReasonGarbled(ks, why) <=> why = "limit" \/ (From # "antigravity" /\ why = "" /\ Has(ks, {"call"}))
  <2>1. ASSUME route = <<"gemini", "chat">> \/ route = <<"cli", "chat">>
        PROVE  ReasonGarbled(ks, why) <=> why = "limit" \/ (why = "" /\ Has(ks, {"call"}))
    <3>1. CASE route = <<"gemini", "chat">>
      BY <3>1 DEF ReasonGarbled
    <3>2. CASE route = <<"cli", "chat">>
      BY <3>2 DEF ReasonGarbled
    <3>3. QED
      BY <2>1, <3>1, <3>2
  <2>2. CASE route = <<"antigravity", "chat">>
    BY <2>2 DEF ReasonGarbled, From
  <2>3. route = <<"gemini", "chat">> \/ route = <<"cli", "chat">> => From # "antigravity"
    BY DEF From
  <2>4. QED
    BY <2>1, <2>2, <2>3 DEF GeminiChat
<1>4. QED
  BY <1>2, <1>3

\* One of two kinds, and the other.
LEMMA TwiceTwo == \A k, l, kinds : Twice(<<k, l>>, kinds) <=> k \in kinds /\ l \in kinds
<1>1. ASSUME NEW k, NEW l, NEW kinds PROVE Twice(<<k, l>>, kinds) <=> k \in kinds /\ l \in kinds
  <2>1. DOMAIN <<k, l>> = {1, 2} /\ <<k, l>>[1] = k /\ <<k, l>>[2] = l
    OBVIOUS
  <2>2. (\E i, j \in {1, 2} : i < j /\ {<<k, l>>[i], <<k, l>>[j]} \subseteq kinds) <=> {k, l} \subseteq kinds
    <3>1. \A i, j \in {1, 2} : i < j <=> i = 1 /\ j = 2
      OBVIOUS
    <3>2. QED
      BY <2>1, <3>1
  <2>3. QED
    BY <2>1, <2>2 DEF Twice
<1>2. QED
  BY <1>1

\* Who has the items has what they say.
LEMMA CompletesHas ==
  ASSUME NEW m, NEW items, NEW heard, NEW bound, Completes(m, items, heard, bound)
  PROVE  m.content = Run(items, "text") /\ m.reasoning = Run(items, "thought")
<1> DEFINE a == Run(items, "text")
           b == Run(items, "thought")
           cs == m.calls
           rs == m.reasons
<1>1. m = Completion(a, b, cs, rs)
  BY DEF Completes
<1> HIDE DEF a, b, cs, rs
<1>2. m.content = a /\ m.reasoning = b
  BY <1>1 DEF Completion
<1>3. QED
  BY <1>2 DEF a, b

\* A chunk with a finish.
Finishing(c, f) == [c EXCEPT !.finish = f]

\* The reasons with one more, if it is one.
ReasonsAfter(reasons, why) == IF why = "" THEN reasons ELSE Append(reasons, why)

\* The finish of a chunk adds a reason to what the client reads of it.
LEMMA FinishRead ==
  ASSUME NEW m, NEW c, NEW f, NEW items, NEW bound, NEW a, NEW b, NEW l,
         c = [content |-> a, reasoning |-> b, calls |-> l, finish |-> ""],
         Completes(ReadChatChunk(m, c), items, items, bound), ReadChatChunk(m, c).reasons = m.reasons
  PROVE  LET z == ReadChatChunk(m, Finishing(c, f))
         IN  /\ Completes(z, items, items, bound)
             /\ z.reasons = ReasonsAfter(m.reasons, f)
<1> DEFINE y == ReadChatChunk(m, c)
           z == ReadChatChunk(m, [c EXCEPT !.finish = f])
<1>1. [c EXCEPT !.finish = f].content = a /\ [c EXCEPT !.finish = f].reasoning = b
      /\ [c EXCEPT !.finish = f].calls = l /\ [c EXCEPT !.finish = f].finish = f
  OBVIOUS
<1>2. c.content = a /\ c.reasoning = b /\ c.calls = l
  OBVIOUS
<1> DEFINE d == [c EXCEPT !.finish = f]
<1> HIDE DEF d
<1>3. d.content = c.content /\ d.reasoning = c.reasoning /\ d.calls = c.calls /\ d.finish = f
  BY <1>1, <1>2 DEF d
<1>4. /\ z.content = y.content /\ z.reasoning = y.reasoning /\ z.calls = y.calls
      /\ z.reasons = (IF f = "" THEN m.reasons ELSE Append(m.reasons, f))
      /\ z = Completion(z.content, z.reasoning, z.calls, z.reasons)
  BY <1>3 DEF ReadChatChunk, d, Completion
<1> HIDE DEF y, z
<1>5. Completes(y, items, items, bound)
  BY DEF y
<1>6. y.content = Run(items, "text") /\ y.reasoning = Run(items, "thought")
  BY <1>5, CompletesHas
<1>7. Completes(z, items, items, bound)
  BY <1>4, <1>5, <1>6 DEF Completes
<1>8. QED
  BY <1>4, <1>7 DEF z, Finishing, ReasonsAfter

\* The parts of a chunk that is not mistaken, in the template.
LEMMA ChunkInTemplate ==
  ASSUME GeminiChat, PartsUpstream, GeminiChatKeeps, NEW ks, NEW ps, PartsOf(ks, ps), NEW last \in BOOLEAN, ~ChunkGarbled(ks, last)
  PROVE  /\ Templates(FoldLeft(ChatPart, [chunk |-> Chunk, functionIndex |-> CallCount(told)], ps),
                      client, TellAll(told, ps), told)
         /\ ~Has(ks, {"call"}) => CallCount(TellAll(told, ps)) = CallCount(told)
         /\ CallCount(TellAll(told, ps)) \in Nat
<1> DEFINE t == [chunk |-> Chunk, functionIndex |-> CallCount(told)]
<1>1. told \in Seq(Items) /\ Normal(told) /\ PartRoute /\ CallCount(told) \in Nat
      /\ Completes(client, told, told, CallCount(told))
  BY CallsCounted DEF PartsUpstream, GeminiChatKeeps
<1>2. Templates(t, client, told, told)
  BY <1>1, TemplateBegins
<1>3. ~Twice(ks, {"thought", "sign"}) /\ ~Twice(ks, {"text", "empty"}) /\ ~(Twice(ks, {"call"}) /\ ToldKind({"call"}))
  BY GeminiChatGarbled
<1>4. t.chunk.reasoning = <<>> /\ t.chunk.content = <<>> /\ CallIndex(t) = t.functionIndex
  BY DEF Chunk, CallIndex
<1> HIDE DEF t
<1>5. ASSUME NEW k, NEW x, Comes(x, k, latest, told)
      PROVE  /\ x.kind = k /\ IsPart(x) /\ Heeds(x, told) /\ k # "more"
             /\ Tell(told, x) \in Seq(Items) /\ Normal(Tell(told, x))
             /\ CallCount(Tell(told, x)) = CallCount(told) + (IF k = "call" THEN 1 ELSE 0)
             /\ Templates(ChatPart(t, x), client, Tell(told, x), told)
             /\ k \notin {"thought", "sign"} => ChatPart(t, x).chunk.reasoning = <<>>
             /\ k \notin {"text", "empty"} => ChatPart(t, x).chunk.content = <<>>
  <2>1. /\ x.kind = k /\ IsPart(x) /\ Heeds(x, told) /\ k \in KindsSaid
        /\ Tell(told, x) \in Seq(Items) /\ Normal(Tell(told, x))
    BY <1>1, <1>5, ComesIs
  <2>2. k # "more" /\ Fits(t, x)
    BY <1>4, <2>1, GeminiChatBy DEF Fits
  <2>3. CallCount(Tell(told, x)) = CallCount(told) + (IF k = "call" THEN 1 ELSE 0)
    BY <1>1, <2>1, TellAdds
  <2>4. /\ Templates(ChatPart(t, x), client, Tell(told, x), told)
        /\ x.kind \notin {"thought", "sign"} => ChatPart(t, x).chunk.reasoning = t.chunk.reasoning
        /\ x.kind \notin {"text", "empty"} => ChatPart(t, x).chunk.content = t.chunk.content
    BY <1>1, <1>2, <2>1, <2>2, TemplateGrows
  <2>5. QED
    BY <1>4, <2>1, <2>2, <2>3, <2>4
<1>6. CASE ks = <<>> /\ ps = <<>> /\ TellAll(told, ps) = told
  <2>1. FoldLeft(ChatPart, t, ps) = t
    BY <1>6, ChatFew
  <2>2. QED
    BY <1>1, <1>2, <1>6, <2>1 DEF t
<1>7. CASE \E k, x : ks = <<k>> /\ Last(ks) = k /\ OnePart(ps, k, x) /\ TellAll(told, ps) = Tell(told, x)
  <2>1. PICK k, x : ks = <<k>> /\ Last(ks) = k /\ OnePart(ps, k, x) /\ TellAll(told, ps) = Tell(told, x)
    BY <1>7
  <2>2. ps = <<x>> /\ Comes(x, k, latest, told)
    BY <2>1 DEF OnePart
  <2>3. FoldLeft(ChatPart, t, ps) = ChatPart(t, x)
    <3>1. \A z : FoldLeft(ChatPart, t, <<z>>) = ChatPart(t, z)
      BY ChatFew
    <3>2. QED
      BY <2>2, <3>1
  <2>4. Has(ks, {"call"}) <=> k = "call"
    BY <2>1, HasOne
  <2>5. /\ Templates(ChatPart(t, x), client, Tell(told, x), told)
        /\ CallCount(Tell(told, x)) = CallCount(told) + (IF k = "call" THEN 1 ELSE 0)
    BY <1>5, <2>2
  <2>6. QED
    BY <1>1, <2>1, <2>3, <2>4, <2>5 DEF t
<1>8. CASE \E k, l, x, y : /\ ks = <<k, l>> /\ Last(ks) = l /\ TwoParts(ps, k, l, x, y)
                           /\ TellAll(told, ps) = Tell(Tell(told, x), y)
  <2>1. PICK k, l, x, y : /\ ks = <<k, l>> /\ Last(ks) = l /\ TwoParts(ps, k, l, x, y)
                          /\ TellAll(told, ps) = Tell(Tell(told, x), y)
    BY <1>8
  <2> DEFINE items == Tell(told, x)
             u == ChatPart(t, x)
  <2>2. ps = <<x, y>> /\ Comes(x, k, latest, told) /\ Comes(y, l, k, items)
    BY <2>1 DEF TwoParts
  <2>3. FoldLeft(ChatPart, t, ps) = ChatPart(u, y)
    <3>1. \A z, w : FoldLeft(ChatPart, t, <<z, w>>) = ChatPart(ChatPart(t, z), w)
      BY ChatFew
    <3>2. QED
      BY <2>2, <3>1
  <2>4. Has(ks, {"call"}) <=> k = "call" \/ l = "call"
    BY <2>1, HasTwo
  <2>5. /\ k # "more" /\ items \in Seq(Items) /\ Normal(items) /\ Templates(u, client, items, told)
        /\ CallCount(items) = CallCount(told) + (IF k = "call" THEN 1 ELSE 0)
        /\ k \notin {"thought", "sign"} => u.chunk.reasoning = <<>>
        /\ k \notin {"text", "empty"} => u.chunk.content = <<>>
    BY <1>5, <2>2
  <2>6. /\ ~(k \in {"thought", "sign"} /\ l \in {"thought", "sign"})
        /\ ~(k \in {"text", "empty"} /\ l \in {"text", "empty"})
        /\ k = "call" /\ l = "call" => CallCount(told) = 0
    <3>1. \A kinds : Twice(ks, kinds) <=> k \in kinds /\ l \in kinds
      BY <2>1, TwiceTwo
    <3>2. CallCount(told) > 0 <=> ToldKind({"call"})
      BY <1>1, CallTold DEF ToldKind
    <3>3. k \in {"call"} /\ l \in {"call"} => ~ToldKind({"call"})
      BY <1>3, <3>1
    <3>4. QED
      BY <1>1, <1>3, <3>1, <3>2, <3>3
  <2> HIDE DEF items, u
  <2>7. y.kind = l /\ IsPart(y) /\ Heeds(y, items) /\ l \in KindsSaid
    BY <1>1, <2>2, <2>5, ComesIs
  <2>8. l = "call" => CallIndex(u) = u.functionIndex
    <3>1. /\ u = ChatTemplate(u.chunk.content, u.chunk.reasoning, u.chunk.calls, CallCount(items))
          /\ u.chunk.calls \in Seq(CallRecords) /\ Len(u.chunk.calls) = CallCount(items) - CallCount(told)
      BY <2>5 DEF Templates
    <3>2. u.functionIndex = CallCount(items)
      <4>1. \E a, b, l1, n : u = ChatTemplate(a, b, l1, n) /\ n = CallCount(items)
        BY <3>1
      <4>2. \A a, b, l1, n : ChatTemplate(a, b, l1, n).functionIndex = n
        BY DEF ChatTemplate
      <4>3. QED
        BY <4>1, <4>2
    <3>3. CASE k # "call"
      <4>1. Len(u.chunk.calls) = 0
        BY <1>1, <2>5, <3>1, <3>3
      <4>2. u.chunk.calls = <<>>
        BY <3>1, <4>1, EmptySeq
      <4>3. QED
        BY <4>2 DEF CallIndex
    <3>4. CASE k = "call"
      <4>1. l = "call" => Len(u.chunk.calls) = CallCount(items) /\ u.chunk.calls # <<>>
        <5>1. l = "call" => CallCount(told) = 0 /\ CallCount(items) = 1 /\ Len(u.chunk.calls) = 1
          BY <2>5, <2>6, <3>1, <3>4
        <5>2. Len(u.chunk.calls) = 1 => u.chunk.calls # <<>>
          BY EmptySeq
        <5>3. QED
          BY <5>1, <5>2
      <4>2. QED
        BY <3>2, <4>1 DEF CallIndex
    <3>5. QED
      BY <3>3, <3>4
  <2>9. l # "more" /\ Fits(u, y)
    <3>1. l \in {"thought", "text", "call", "empty", "sign"} /\ k \in {"thought", "text", "call", "empty", "sign"}
      <4>1. k \in KindsSaid
        BY <2>2 DEF Comes
      <4>2. QED
        BY <2>7, <4>1, GeminiChatBy
    <3>2. QED
      BY <2>5, <2>6, <2>7, <2>8, <3>1 DEF Fits
  <2>10. Templates(ChatPart(u, y), client, Tell(items, y), told)
    BY <1>1, <2>5, <2>7, <2>9, TemplateGrows
  <2>11. CallCount(Tell(items, y)) = CallCount(items) + (IF l = "call" THEN 1 ELSE 0)
    BY <2>5, <2>7, TellAdds
  <2>12. TellAll(told, ps) = Tell(items, y)
    BY <2>1 DEF items
  <2>13. QED
    BY <1>1, <2>3, <2>4, <2>5, <2>10, <2>11, <2>12 DEF t
<1>9. QED
  BY <1>6, <1>7, <1>8, PartsTold

\* The converter has counted the calls of a chunk, and seen why the answer ends.
Counted(p, j) == [p EXCEPT !.functionIndex = j]
Seen(p, j, v, g) == [p EXCEPT !.functionIndex = j, !.sawToolCall = v, !.finish = g]
Emptied(p) == [p EXCEPT !.out = <<>>]

\* One number is more than another, or than none.
LEMMA MoreIs == \A x, y \in Nat : y >= x => (x > 0 \/ y > x <=> y > 0)
OBVIOUS

\* A difference is 0 or not as its terms are.
LEMMA DifferenceIs == \A x, y, z \in Nat : z = x - y => (z # 0 <=> x > y) /\ x >= y
OBVIOUS

\* What the converter of a chunk answers,
LEMMA GeminiChatSends ==
  ASSUME NEW i, NEW s, NEW f, NEW j, NEW c
  PROVE  LET p == GeminiChatCounts(i, s, f)
             q == SendChunk(Counted(p, j), c)
         IN  /\ q.out = <<c>> /\ Emptied(q) = GeminiChatCounts(j, s, f)
             /\ \A v, g : LET r == SendChunk(Seen(p, j, v, g), c)
                          IN  r.out = <<c>> /\ Emptied(r) = GeminiChatCounts(j, v, g)
<1> DEFINE p == GeminiChatCounts(i, s, f)
           o == <<c>>
           sent(a, b, d) == [functionIndex |-> a, sawToolCall |-> b, finish |-> d, out |-> o]
           at(r, x) == [r EXCEPT !.functionIndex = x]
           saw(r, x) == [r EXCEPT !.sawToolCall = x]
           why(r, x) == [r EXCEPT !.finish = x]
           to(r, x) == [r EXCEPT !.out = x]
<1>1. \A a, b, d, x : /\ at(GeminiChatCounts(a, b, d), x) = GeminiChatCounts(x, b, d)
                      /\ saw(GeminiChatCounts(a, b, d), x) = GeminiChatCounts(a, x, d)
                      /\ why(GeminiChatCounts(a, b, d), x) = GeminiChatCounts(a, b, x)
                      /\ GeminiChatCounts(a, b, d).out = <<>>
  BY DEF GeminiChatCounts
<1>2. \A a, b, d, l, x : to([functionIndex |-> a, sawToolCall |-> b, finish |-> d, out |-> l], x)
                         = [functionIndex |-> a, sawToolCall |-> b, finish |-> d, out |-> x]
  OBVIOUS
<1>3. \A r : SendChunk(r, c) = to(r, Append(r.out, c))
  BY DEF SendChunk
<1>4. Append(<<>>, c) = o
  BY OneOf
<1>5. \A a, b, d : sent(a, b, d).out = o
  OBVIOUS
<1>6. /\ Counted(p, j) = at(p, j)
      /\ \A v, g : Seen(p, j, v, g) = why(saw(at(p, j), v), g)
      /\ \A q : Emptied(q) = to(q, <<>>)
  BY Zenon DEF Counted, Seen, Emptied
<1>7. \A a, b, d : to(GeminiChatCounts(a, b, d), o) = sent(a, b, d) /\ to(sent(a, b, d), <<>>) = GeminiChatCounts(a, b, d)
  <2> HIDE DEF to, o
  <2>1. QED
    BY <1>2 DEF GeminiChatCounts
<1>8. p = GeminiChatCounts(i, s, f) /\ o = <<c>>
  OBVIOUS
<1> HIDE DEF p, o, sent, at, saw, why, to
<1>9. /\ at(p, j) = GeminiChatCounts(j, s, f)
      /\ \A v, g : why(saw(at(p, j), v), g) = GeminiChatCounts(j, v, g)
  BY <1>1, <1>8
<1>10. ASSUME NEW a, NEW b, NEW d PROVE SendChunk(GeminiChatCounts(a, b, d), c) = sent(a, b, d)
  <2>1. GeminiChatCounts(a, b, d).out = <<>>
    BY <1>1
  <2>2. SendChunk(GeminiChatCounts(a, b, d), c) = to(GeminiChatCounts(a, b, d), Append(GeminiChatCounts(a, b, d).out, c))
    BY <1>3
  <2>3. QED
    BY <1>4, <1>7, <2>1, <2>2
<1>11. \A a, b, d : LET r == SendChunk(GeminiChatCounts(a, b, d), c)
                   IN  r.out = <<c>> /\ Emptied(r) = GeminiChatCounts(a, b, d)
  BY <1>5, <1>6, <1>7, <1>8, <1>10
<1>12. Counted(p, j) = GeminiChatCounts(j, s, f) /\ \A v, g : Seen(p, j, v, g) = GeminiChatCounts(j, v, g)
  BY <1>6, <1>9
<1>13. QED
  BY <1>8, <1>11, <1>12

\* for Gemini's,
LEMMA GeminiToChatSays ==
  ASSUME NEW p, NEW chunk
  PROVE  LET t == Template(p, chunk)
             reason == IF t.chunk.calls # <<>> THEN "tools" ELSE LowerReason(chunk.finish)
         IN  GeminiToChat(p, chunk) = SendChunk(Counted(p, t.functionIndex), Finishing(t.chunk, reason))
BY DEF GeminiToChat, Counted, Finishing

\* What an upstream may give as the reason, or none, and the reason it has given.
Whys == {"", "end", "limit"}
FinishAfter(given, why) == IF why # "" THEN why ELSE given

\* The reason that comes with the usage, which is "tools" if it saw a call.
UsageReason(why, usage, saw) == IF why = "" \/ ~usage THEN "" ELSE IF saw THEN "tools" ELSE LowerReason(why)

\* and for Antigravity's.
LEMMA AntigravityToChatSays ==
  ASSUME NEW i, NEW s \in BOOLEAN, NEW f, NEW chunk
  PROVE  LET p == GeminiChatCounts(i, s, f)
             t == Template(p, chunk)
             saw == s \/ t.chunk.calls # <<>>
             why == FinishAfter(f, chunk.finish)
             reason == UsageReason(why, chunk.usage, saw)
         IN  AntigravityToChat(p, chunk)
             = SendChunk(Seen(p, t.functionIndex, saw, why), Finishing(t.chunk, reason))
<1> DEFINE p == GeminiChatCounts(i, s, f)
           t == Template(p, chunk)
           saw == p.sawToolCall \/ t.chunk.calls # <<>>
           why == FinishAfter(p.finish, chunk.finish)
           seen == Seen(p, t.functionIndex, saw, why)
           reason == UsageReason(seen.finish, chunk.usage, seen.sawToolCall)
<1>1. AntigravityToChat(p, chunk) = SendChunk(seen, Finishing(t.chunk, reason))
  <2> HIDE DEF p
  <2>1. QED
    BY Zenon DEF AntigravityToChat, Seen, Finishing, FinishAfter, UsageReason
<1>2. p.sawToolCall = s /\ p.finish = f
  BY DEF GeminiChatCounts
<1>3. \A x, y, z : Seen(p, x, y, z).finish = z /\ Seen(p, x, y, z).sawToolCall = y
  BY DEF GeminiChatCounts, Seen
<1>4. seen.finish = why /\ seen.sawToolCall = saw
  <2> HIDE DEF p, t, saw, why
  <2>1. QED
    BY <1>3
<1>5. saw = (s \/ t.chunk.calls # <<>>) /\ why = FinishAfter(f, chunk.finish)
  BY <1>2
<1>6. reason = UsageReason(why, chunk.usage, saw)
  <2> HIDE DEF why, saw, seen, p
  <2>1. QED
    BY <1>4
<1>7. p = GeminiChatCounts(i, s, f) /\ t = Template(p, chunk)
  OBVIOUS
<1> HIDE DEF p, t
<1>8. QED
  BY <1>1, <1>5, <1>6, <1>7

\* The reason it gives with a chunk that says why, or "", with the usage or not.
GeminiChatReason(why, usage) ==
  IF From # "antigravity"
  THEN IF CallCount(told') > CallCount(told) THEN "tools" ELSE LowerReason(why)
  ELSE UsageReason(FinishAfter(finish, why), usage, CallCount(told') > 0)

\* A chunk that is not mistaken goes through the converter and is read.
LEMMA GeminiChatChunk ==
  ASSUME GeminiChat, PartsUpstream, GeminiChatKeeps, NEW ks \in KindLists, NEW why \in Whys,
         NEW usage \in BOOLEAN, SayChunk(ks, why, usage), "content" \notin lapsed',
         route' = route, finish' = FinishAfter(finish, why)
  PROVE  /\ GeminiChatKeeps'
         /\ CallCount(told) \in Nat /\ CallCount(told') \in Nat
         /\ CallCount(told') >= CallCount(told)
         /\ ~Has(ks, {"call"}) => CallCount(told') = CallCount(told)
         /\ client'.reasons = ReasonsAfter(client.reasons, GeminiChatReason(why, usage))
<1>1. PICK ps, order :
        /\ PartsOf(ks, ps) /\ told' = TellAll(told, ps)
        /\ Noted(ChunkGarbled(ks, why # "") \/ (why # "" /\ told' = <<>>), ReasonGarbled(ks, why))
        /\ HandOn(Translated([parts |-> ps, usage |-> usage,
                              finish |-> IF From = "openai" /\ why # "" THEN Reason(told', why) ELSE why], order))
  BY ChunkSaid
<1> DEFINE chunk == [parts |-> ps, usage |-> usage, finish |-> why]
           i == CallCount(told)
           t == FoldLeft(ChatPart, [chunk |-> Chunk, functionIndex |-> i], ps)
           l == t.chunk.calls
           s == params.sawToolCall
           f == params.finish
           next == TellAll(told, ps)
           j == CallCount(next)
<1>2. /\ \A x, o : From # "antigravity" => Translated(x, o) = GeminiToChat(params, x)
      /\ \A x, o : From = "antigravity" => Translated(x, o) = AntigravityToChat(params, x)
      /\ \A m, e : Read(m, e) = ReadChatChunk(m, e)
      /\ From # "openai"
  BY GeminiChatBy
<1>3. HandOn(Translated(chunk, order))
  BY <1>1, <1>2
<1>4. ~ChunkGarbled(ks, why # "")
  <2>1. "content" \notin lapsed' => ~(ChunkGarbled(ks, why # "") \/ (why # "" /\ told' = <<>>))
    BY <1>1 DEF Noted
  <2>2. QED
    BY <2>1
<1>5. /\ Templates(t, client, next, told) /\ j \in Nat
      /\ ~Has(ks, {"call"}) => j = i
  BY <1>1, <1>4, ChunkInTemplate
<1>6. told \in Seq(Items) /\ i \in Nat
  BY CallsCounted DEF PartsUpstream
<1>7. /\ t.functionIndex = j /\ (l # <<>> <=> j > i) /\ j >= i
      /\ \E a, b : t.chunk = [content |-> a, reasoning |-> b, calls |-> l, finish |-> ""]
      /\ Completes(ReadChatChunk(client, t.chunk), next, next, j)
      /\ ReadChatChunk(client, t.chunk).reasons = client.reasons
  <2> HIDE DEF t, next
  <2> DEFINE a == t.chunk.content
             b == t.chunk.reasoning
             n == Len(l)
  <2>1. /\ t = ChatTemplate(a, b, l, j) /\ l \in Seq(CallRecords) /\ n = j - i
        /\ Completes(ReadChatChunk(client, t.chunk), next, next, j)
        /\ ReadChatChunk(client, t.chunk).reasons = client.reasons
    BY <1>5 DEF Templates
  <2>a. n = j - i
    BY <2>1
  <2>2. n \in Nat /\ (l = <<>> <=> n = 0)
    BY <2>1, EmptySeq, LenProperties
  <2>3. i \in Nat /\ j \in Nat
    BY <1>5, <1>6
  <2> HIDE DEF a, b, l, i, j, n
  <2>4. t.functionIndex = j /\ t.chunk = [content |-> a, reasoning |-> b, calls |-> l, finish |-> ""]
    BY <2>1 DEF ChatTemplate
  <2>5. (l # <<>> <=> j > i) /\ j >= i
    <3>1. (n # 0 <=> j > i) /\ j >= i
      BY <2>a, <2>2, <2>3, DifferenceIs
    <3>2. QED
      BY <2>2, <3>1
  <2>6. QED
    BY <2>1, <2>4, <2>5
<1>8. ASSUME NEW g
      PROVE  LET z == ReadChatChunk(client, Finishing(t.chunk, g))
             IN  /\ Completes(z, next, next, j)
                 /\ z.reasons = ReasonsAfter(client.reasons, g)
  <2> HIDE DEF t, next, j, l
  <2>1. PICK a, b : t.chunk = [content |-> a, reasoning |-> b, calls |-> l, finish |-> ""]
    BY <1>7
  <2>2. /\ Completes(ReadChatChunk(client, t.chunk), next, next, j)
        /\ ReadChatChunk(client, t.chunk).reasons = client.reasons
    BY <1>7
  <2> DEFINE d == t.chunk
  <2> HIDE DEF d
  <2>3. /\ d = [content |-> a, reasoning |-> b, calls |-> l, finish |-> ""]
        /\ Completes(ReadChatChunk(client, d), next, next, j) /\ ReadChatChunk(client, d).reasons = client.reasons
    BY <2>1, <2>2 DEF d
  <2>4. LET z == ReadChatChunk(client, Finishing(d, g))
        IN  /\ Completes(z, next, next, j)
            /\ z.reasons = ReasonsAfter(client.reasons, g)
    BY <2>3, FinishRead
  <2>5. QED
    BY <2>4 DEF d
<1>9. params = GeminiChatCounts(i, s, f)
  BY DEF GeminiChatKeeps
<1>10. Template(params, chunk) = t
  <2> HIDE DEF i, s, f
  <2>1. params.functionIndex = i
    BY <1>9 DEF GeminiChatCounts
  <2> HIDE DEF t
  <2>2. chunk.parts = ps
    OBVIOUS
  <2> HIDE DEF chunk
  <2>3. QED
    BY <2>1, <2>2 DEF Template, t
<1>11. told' = next
  BY <1>1
<1> DEFINE reason == GeminiChatReason(why, usage)
           c == Finishing(t.chunk, reason)
<1>12. ASSUME params' = GeminiChatCounts(j, params'.sawToolCall, params'.finish),
              client' = ReadChatChunk(client, c),
              From = "antigravity" => /\ params'.sawToolCall \in BOOLEAN /\ (params'.sawToolCall <=> j > 0)
                                      /\ params'.finish = finish'
       PROVE  /\ GeminiChatKeeps'
              /\ client'.reasons = ReasonsAfter(client.reasons, reason)
  <2> HIDE DEF reason, next
  <2>1. Completes(client', next, next, j)
        /\ client'.reasons = ReasonsAfter(client.reasons, reason)
    BY <1>8, <1>12
  <2>2. From' = From
    BY DEF From
  <2> HIDE DEF c, t
  <2>3. QED
    BY <1>11, <1>12, <2>1, <2>2 DEF GeminiChatKeeps
<1>13. ASSUME From # "antigravity"
       PROVE  /\ GeminiChatKeeps'
              /\ client'.reasons = ReasonsAfter(client.reasons, reason)
  <2>1. reason = IF l # <<>> THEN "tools" ELSE LowerReason(why)
    BY <1>7, <1>11, <1>13 DEF GeminiChatReason
  <2> DEFINE p == SendChunk(Counted(params, j), c)
  <2>2. GeminiToChat(params, chunk) = SendChunk(Counted(params, Template(params, chunk).functionIndex),
            Finishing(Template(params, chunk).chunk,
              IF Template(params, chunk).chunk.calls # <<>> THEN "tools" ELSE LowerReason(chunk.finish)))
    BY GeminiToChatSays
  <2>3. chunk.finish = why
    OBVIOUS
  <2>4. GeminiToChat(params, chunk) = p
    <3> HIDE DEF chunk, t, reason, i, j, next
    <3>1. GeminiToChat(params, chunk) = SendChunk(Counted(params, t.functionIndex),
            Finishing(t.chunk, IF t.chunk.calls # <<>> THEN "tools" ELSE LowerReason(why)))
      BY <1>10, <2>2, <2>3
    <3>2. QED
      BY <1>7, <2>1, <3>1
  <2>5. p.out = <<c>> /\ Emptied(p) = GeminiChatCounts(j, s, f)
    <3> HIDE DEF c, i, j, s, f
    <3>1. QED
      BY <1>9, GeminiChatSends
  <2>6. params' = GeminiChatCounts(j, s, f) /\ client' = ReadChatChunk(client, c)
    <3>1. HandOn(p)
      BY <1>2, <1>3, <1>13, <2>4
    <3> HIDE DEF p, c, j, s, f
    <3>2. QED
      BY <1>2, <2>5, <3>1, HandsOn DEF Emptied
  <2> HIDE DEF c, i, j, s, f, t, reason, next
  <2>7. params'.sawToolCall = s /\ params'.finish = f
    BY <2>6 DEF GeminiChatCounts
  <2>8. QED
    BY <1>12, <1>13, <2>6, <2>7
<1>14. ASSUME From = "antigravity"
       PROVE  /\ GeminiChatKeeps'
              /\ client'.reasons = ReasonsAfter(client.reasons, reason)
  <2> DEFINE saw == s \/ l # <<>>
             because == FinishAfter(f, why)
             p == SendChunk(Seen(params, j, saw, because), c)
  <2>1. s \in BOOLEAN /\ (s <=> i > 0) /\ f = finish
    BY <1>14 DEF GeminiChatKeeps
  <2>2. saw \in BOOLEAN /\ (saw <=> j > 0) /\ because = finish'
    <3>1. because = finish'
      BY <2>1
    <3>2. saw <=> i > 0 \/ j > i
      BY <1>7, <2>1
    <3>3. saw \in BOOLEAN
      OBVIOUS
    <3>4. i \in Nat /\ j \in Nat
      BY <1>5, <1>6
    <3> HIDE DEF i, j, saw, because
    <3>5. i > 0 \/ j > i <=> j > 0
      BY <1>7, <3>4, MoreIs
    <3>6. QED
      BY <3>1, <3>2, <3>3, <3>5
  <2>3. reason = UsageReason(because, usage, saw)
    <3>1. reason = UsageReason(because, usage, CallCount(told') > 0)
      BY <1>14, <2>1 DEF GeminiChatReason
    <3> HIDE DEF saw, because, next
    <3>2. QED
      BY <1>11, <2>2, <3>1 DEF UsageReason
  <2>4. AntigravityToChat(params, chunk) = p
    <3>1. chunk.finish = why /\ chunk.usage = usage
      OBVIOUS
    <3> HIDE DEF chunk, t, reason, i, j, next, s, f
    <3>2. AntigravityToChat(params, chunk)
          = SendChunk(Seen(params, t.functionIndex, s \/ t.chunk.calls # <<>>,
                           FinishAfter(f, chunk.finish)),
              Finishing(t.chunk, UsageReason(FinishAfter(f, chunk.finish), chunk.usage, s \/ t.chunk.calls # <<>>)))
      BY <1>9, <1>10, <2>1, AntigravityToChatSays
    <3>3. QED
      BY <1>7, <2>3, <3>1, <3>2
  <2>5. p.out = <<c>> /\ Emptied(p) = GeminiChatCounts(j, saw, because)
    <3> HIDE DEF c, i, j, s, f, saw, because
    <3>1. LET q == SendChunk(Counted(GeminiChatCounts(i, s, f), j), c)
          IN  /\ q.out = <<c>> /\ Emptied(q) = GeminiChatCounts(j, s, f)
              /\ \A v, g : LET r == SendChunk(Seen(GeminiChatCounts(i, s, f), j, v, g), c)
                           IN  r.out = <<c>> /\ Emptied(r) = GeminiChatCounts(j, v, g)
      BY GeminiChatSends
    <3>2. QED
      BY <1>9, <3>1
  <2>6. params' = GeminiChatCounts(j, saw, because) /\ client' = ReadChatChunk(client, c)
    <3>1. HandOn(p)
      BY <1>2, <1>3, <1>14, <2>4
    <3> HIDE DEF p, c, j, saw, because
    <3>2. QED
      BY <1>2, <2>5, <3>1, HandsOn DEF Emptied
  <2> HIDE DEF c, i, j, s, f, t, reason, next, saw, because
  <2>7. params'.sawToolCall = saw /\ params'.finish = because
    BY <2>6 DEF GeminiChatCounts
  <2>8. QED
    BY <1>12, <1>14, <2>2, <2>6, <2>7
<1>15. QED
  BY <1>5, <1>6, <1>7, <1>11, <1>13, <1>14

\* A reason that is noted is a lapse.
LEMMA ReasonNoted ==
  ASSUME NEW content, NEW reason, Noted(content, reason)
  PROVE  lapsed' = {} => ~reason
<1>1. "reason" \in {"content", "reason"} /\ "reason" # "content"
  OBVIOUS
<1>2. ASSUME reason PROVE "reason" \in lapsed'
  BY Zenon, <1>1, <1>2 DEF Noted
<1>3. QED
  BY <1>2

\* What a chunk makes no longer expected.
LEMMA GeminiChatLapses ==
  ASSUME GeminiChat, PartsUpstream, NEW ks \in KindLists, NEW why, NEW usage, SayChunk(ks, why, usage)
  PROVE  /\ lapsed \subseteq lapsed'
         /\ lapsed' = {} => why # "limit" /\ (From # "antigravity" /\ why = "" => ~Has(ks, {"call"}))
<1>1. PICK ps, order : Noted(ChunkGarbled(ks, why # "") \/ (why # "" /\ told' = <<>>), ReasonGarbled(ks, why))
  BY ChunkSaid
<1>2. lapsed \subseteq lapsed'
  BY <1>1 DEF Noted
<1>3. lapsed' = {} => ~ReasonGarbled(ks, why)
  <2> DEFINE content == ChunkGarbled(ks, why # "") \/ (why # "" /\ told' = <<>>)
             reason == ReasonGarbled(ks, why)
  <2>1. Noted(content, reason)
    BY <1>1
  <2> HIDE DEF content
  <2>2. QED
    BY Zenon, <2>1, ReasonNoted
<1>4. QED
  BY <1>2, <1>3, GeminiChatGarbled

\* The reasons a client has been given when those with one more are known.
ReasonOnly(why) == IF why = "" THEN <<>> ELSE <<why>>

\* The first reason.
LEMMA FirstReason == \A why : ReasonsAfter(<<>>, why) = ReasonOnly(why)
BY OneOf DEF ReasonsAfter, ReasonOnly

\* A number is not more than itself.
LEMMA NotMore == \A x, y \in Nat : x = y => (x > y <=> FALSE)
OBVIOUS

\* The reason given with a chunk of an answer that is not mistaken: none
\* while it goes on, and the answer's with the usage of its end.
LEMMA GeminiChatReasonIs ==
  ASSUME GeminiChat, NEW why \in {"", "end"}, NEW usage \in BOOLEAN,
         CallCount(told) \in Nat, CallCount(told') \in Nat,
         From # "antigravity" => CallCount(told) = 0 /\ (usage <=> why # "") /\ (why = "" => CallCount(told') = CallCount(told)),
         usage => FinishAfter(finish, why) = "end"
  PROVE  /\ ~usage => GeminiChatReason(why, usage) = ""
         /\ usage => GeminiChatReason(why, usage) = Reason(told', "end") /\ Reason(told', "end") # ""
<1>1. CASE From # "antigravity"
  <2>1. CASE why = ""
    <3>1. ~usage /\ CallCount(told') = 0
      BY <1>1, <2>1
    <3>2. CallCount(told') > CallCount(told) <=> FALSE
      <4>1. CallCount(told') = CallCount(told)
        BY Zenon, <1>1, <2>1
      <4>2. QED
        BY Zenon, <4>1, NotMore
    <3>3. LowerReason(why) = ""
      BY <2>1 DEF LowerReason
    <3>4. GeminiChatReason(why, usage) = ""
      BY Zenon, <1>1, <3>2, <3>3 DEF GeminiChatReason
    <3>5. QED
      BY <3>1, <3>4
  <2>2. CASE why = "end"
    <3>1. usage /\ CallCount(told) = 0
      BY <1>1, <2>2
    <3>2. GeminiChatReason(why, usage) = IF CallCount(told') > 0 THEN "tools" ELSE "end"
      BY <1>1, <2>2, <3>1 DEF GeminiChatReason, LowerReason
    <3>3. QED
      BY <3>1, <3>2 DEF Reason
  <2>3. QED
    BY <2>1, <2>2
<1>2. CASE From = "antigravity"
  <2>1. GeminiChatReason(why, usage) = UsageReason(FinishAfter(finish, why), usage, CallCount(told') > 0)
    BY <1>2 DEF GeminiChatReason
  <2>2. CASE ~usage
    BY <2>1, <2>2 DEF UsageReason
  <2>3. CASE usage
    BY <2>1, <2>3 DEF UsageReason, LowerReason, Reason
  <2>4. QED
    BY <2>2, <2>3
<1>3. QED
  BY <1>1, <1>2

\* A chunk, and what is given with it.
LEMMA GeminiChatSaid ==
  ASSUME GeminiChatArrives, PartsUpstream, NEW ks \in KindLists, NEW why \in Whys,
         NEW usage \in BOOLEAN, SayChunk(ks, why, usage), route' = route, finish' = FinishAfter(finish, why),
         stage \in {"speaking", "finishing"}, stage = "speaking" <=> finish = "",
         From # "antigravity" => (usage <=> why # ""),
         From # "antigravity" => stage = "speaking",
         usage => why # "" \/ stage = "finishing",
         stage' = IF why = "" /\ ~usage THEN stage ELSE IF usage THEN "finished" ELSE "finishing",
         stage = "finishing" => usage
  PROVE  GeminiChatArrives'
<1>1. GeminiChat /\ GeminiChat'
  BY DEF GeminiChatArrives, GeminiChat
<1>2. /\ lapsed \subseteq lapsed'
      /\ lapsed' = {} => why # "limit" /\ (From # "antigravity" /\ why = "" => ~Has(ks, {"call"}))
  BY <1>1, GeminiChatLapses
<1>3. ASSUME "content" \notin lapsed'
      PROVE  /\ GeminiChatKeeps'
             /\ CallCount(told) \in Nat /\ CallCount(told') \in Nat
             /\ ~Has(ks, {"call"}) => CallCount(told') = CallCount(told)
             /\ client'.reasons = ReasonsAfter(client.reasons, GeminiChatReason(why, usage))
  <2>1. GeminiChatKeeps
    BY <1>2, <1>3 DEF GeminiChatArrives
  <2>2. QED
    BY <1>1, <1>3, <2>1, GeminiChatChunk
<1>4. ASSUME lapsed' = {} PROVE GeminiChatEnds'
  <2>1. lapsed = {} /\ "content" \notin lapsed'
    BY <1>2, <1>4
  <2>2. /\ client.reasons = <<>> /\ finish # "limit"
        /\ From # "antigravity" /\ stage = "speaking" => CallCount(told) = 0
    BY <2>1 DEF GeminiChatArrives, GeminiChatEnds
  <2>3. why \in {"", "end"} /\ finish \in {"", "end"} /\ FinishAfter(finish, why) \in {"", "end"}
        /\ (usage => FinishAfter(finish, why) = "end")
    BY <1>2, <1>4, <2>2 DEF Whys, FinishAfter, PartsUpstream
  <2>4. From # "antigravity" /\ why = "" => CallCount(told') = CallCount(told)
    BY <1>2, <1>3, <1>4, <2>1
  <2>5. /\ ~usage => GeminiChatReason(why, usage) = ""
        /\ usage => GeminiChatReason(why, usage) = Reason(told', "end") /\ Reason(told', "end") # ""
    BY <1>1, <1>3, <2>1, <2>2, <2>3, <2>4, GeminiChatReasonIs
  <2>6. client'.reasons = ReasonOnly(GeminiChatReason(why, usage))
    BY <1>3, <2>1, <2>2, FirstReason
  <2>7. /\ ~usage => client'.reasons = <<>>
        /\ usage => client'.reasons = <<Reason(told', "end")>>
    BY <2>5, <2>6 DEF ReasonOnly
  <2>8. /\ usage => stage' = "finished" /\ finish' = "end"
        /\ ~usage => stage' \in {"speaking", "finishing"} /\ (stage' = "speaking" => stage = "speaking" /\ why = "")
    BY <2>3
  <2>9. From' = From
    BY DEF From
  <2>10. finish' # "limit"
    BY <2>3
  <2>11. client'.reasons = IF stage' \in {"finished", "over"} THEN <<Reason(told, finish)'>> ELSE <<>>
    BY <2>7, <2>8 DEF Reason
  <2>12. From' # "antigravity" /\ stage' = "speaking" => CallCount(told') = 0
    BY <2>2, <2>4, <2>8, <2>9
  <2>13. QED
    BY <2>10, <2>11, <2>12 DEF GeminiChatEnds
<1>5. QED
  BY <1>1, <1>3, <1>4 DEF GeminiChatArrives

\* So it begins,
LEMMA GeminiChatBegins == TranslationInit /\ GeminiChat => GeminiChatArrives
<1> SUFFICES ASSUME TranslationInit, GeminiChat PROVE GeminiChatArrives
  OBVIOUS
<1>1. /\ told = <<>> /\ finish = "" /\ stage = "speaking" /\ lapsed = {}
      /\ params = GeminiChatParams /\ client = NoCompletion
  BY GeminiChatBy DEF TranslationInit, PartRoute
<1>2. CallCount(told) = 0
  BY <1>1, CallsCounted
<1>3. /\ GeminiChatParams = GeminiChatCounts(0, FALSE, "")
      /\ GeminiChatParams.sawToolCall = FALSE /\ GeminiChatParams.finish = ""
  BY DEF GeminiChatParams, GeminiChatCounts
<1>4. Completes(client, told, told, CallCount(told)) /\ client.reasons = <<>>
  BY <1>1, <1>2, CompletesNothing
<1>5. GeminiChatKeeps
  <2>1. params = GeminiChatCounts(CallCount(told), params.sawToolCall, params.finish)
    BY <1>1, <1>2, <1>3
  <2>2. params.sawToolCall = FALSE /\ ~(CallCount(told) > 0) /\ params.finish = finish
    <3>1. params.sawToolCall = FALSE
      BY <1>1, <1>3
    <3>2. ~(CallCount(told) > 0)
      BY <1>2
    <3>3. params.finish = finish
      BY <1>1, <1>3
    <3>4. QED
      BY <3>1, <3>2, <3>3
  <2>3. QED
    BY <1>4, <2>1, <2>2 DEF GeminiChatKeeps
<1>6. GeminiChatEnds
  BY <1>1, <1>2, <1>4 DEF GeminiChatEnds
<1>7. QED
  BY <1>5, <1>6 DEF GeminiChatArrives

\* The converter has nothing left to say at the end.
LEMMA GeminiChatStops ==
  ASSUME GeminiChatArrives, HandOn(params), UNCHANGED <<route, told, finish>>, lapsed \subseteq lapsed',
         stage' # "speaking", stage' \in {"finished", "over"} <=> stage \in {"finished", "over"}
  PROVE  GeminiChatArrives'
<1>1. GeminiChat /\ GeminiChat' /\ From' = From
  BY DEF GeminiChatArrives, GeminiChat, From
<1>2. ASSUME "content" \notin lapsed' PROVE params' = params /\ client' = client /\ GeminiChatKeeps
  <2>1. GeminiChatKeeps
    BY <1>2 DEF GeminiChatArrives
  <2>2. params.out = <<>> /\ [params EXCEPT !.out = <<>>] = params
    <3>1. \A i, s, f : /\ GeminiChatCounts(i, s, f).out = <<>>
                       /\ [GeminiChatCounts(i, s, f) EXCEPT !.out = <<>>] = GeminiChatCounts(i, s, f)
      BY DEF GeminiChatCounts
    <3>2. params = GeminiChatCounts(CallCount(told), params.sawToolCall, params.finish)
      BY <2>1 DEF GeminiChatKeeps
    <3>3. QED
      BY <3>1, <3>2
  <2>3. QED
    BY <2>1, <2>2, HandsOn
<1>3. ASSUME "content" \notin lapsed' PROVE GeminiChatKeeps'
  BY <1>1, <1>2, <1>3 DEF GeminiChatKeeps
<1>4. ASSUME lapsed' = {} PROVE GeminiChatEnds'
  <2>1. lapsed = {} /\ client' = client
    BY <1>2, <1>4
  <2>2. Reason(told, finish)' = Reason(told, finish)
    BY DEF Reason
  <2>3. QED
    BY <2>1, <2>2 DEF GeminiChatArrives, GeminiChatEnds
<1>5. QED
  BY <1>1, <1>3, <1>4 DEF GeminiChatArrives

\* and after every step.
LEMMA GeminiChatGoesOn ==
  ASSUME GeminiChatArrives, PartsUpstream, [TranslationNext]_translationVars
  PROVE  GeminiChatArrives'
<1>1. GeminiChat
  BY DEF GeminiChatArrives
<1>2. From \in {"gemini", "cli", "antigravity"} /\ GeminiLike /\ TranslatedDone = params
  BY <1>1, GeminiChatBy DEF GeminiFormats
<1>3. /\ stage \in {"speaking", "finishing", "finished", "over", "cut"}
      /\ IF stage \in {"speaking", "cut"} THEN finish = "" ELSE finish \in {"end", "limit"}
      /\ stage = "finishing" => From = "antigravity"
  BY <1>2 DEF PartsUpstream
<1>4. CASE UNCHANGED translationVars
  BY <1>4 DEF translationVars, GeminiChatArrives, GeminiChat, GeminiChatKeeps, GeminiChatEnds, Reason, From
<1>5. CASE SayMore
  <2>1. PICK ks \in KindLists : SayChunk(ks, "", FALSE)
    BY <1>5 DEF SayMore
  <2>2. stage = "speaking" /\ UNCHANGED <<route, stage, finish>>
    BY <1>5 DEF SayMore
  <2>3. "" \in Whys /\ FinishAfter(finish, "") = finish /\ FALSE \in BOOLEAN
    BY DEF Whys, FinishAfter
  <2>4. QED
    BY <1>3, <2>1, <2>2, <2>3, GeminiChatSaid
<1>6. CASE SayLast
  <2>1. PICK ks \in KindLists, why \in {"end", "limit"}, usage \in BOOLEAN :
           /\ From \in {"gemini", "cli"} => usage
           /\ SayChunk(ks, why, usage) /\ finish' = why
           /\ stage' = IF usage THEN "finished" ELSE "finishing"
    BY <1>6 DEF SayLast
  <2>2. stage = "speaking" /\ route' = route
    BY <1>6 DEF SayLast
  <2>3. why \in Whys /\ why # "" /\ FinishAfter(finish, why) = why
    BY <2>1 DEF Whys, FinishAfter
  <2>4. QED
    BY <1>2, <1>3, <2>1, <2>2, <2>3, GeminiChatSaid
<1>7. CASE SayUsage
  <2>1. SayChunk(<<>>, "", TRUE) /\ stage = "finishing" /\ stage' = "finished" /\ UNCHANGED <<route, finish>>
    BY <1>7 DEF SayUsage
  <2>2. <<>> \in KindLists /\ "" \in Whys /\ FinishAfter(finish, "") = finish /\ TRUE \in BOOLEAN
    BY <1>1, NothingSaid, GeminiChatBy DEF Whys, FinishAfter
  <2>3. QED
    BY <1>2, <1>3, <2>1, <2>2, GeminiChatSaid
<1>8. CASE AnswerEnds
  <2>1. stage = "finished" /\ stage' = "over" /\ UNCHANGED <<route, told, finish, lapsed>> /\ HandOn(params)
    BY <1>2, <1>8 DEF AnswerEnds
  <2>2. QED
    BY <2>1, GeminiChatStops
<1>9. CASE AnswerBreaks
  <2>1. stage = "speaking" /\ stage' = "cut" /\ UNCHANGED <<route, told, finish>> /\ HandOn(params)
        /\ lapsed \subseteq lapsed'
    BY <1>2, <1>3, <1>9 DEF AnswerBreaks, Noted
  <2>2. QED
    BY <2>1, GeminiChatStops
<1>10. QED
  BY <1>4, <1>5, <1>6, <1>7, <1>8, <1>9, SpokenInParts

\* A part goes to its place in the completion.
WholeChat(c, r, cs, f) == [content |-> c, reasoning |-> r, calls |-> cs, finish |-> f]

\* The reasons in small letters, or none.
LowReasons == {"", "end", "max_tokens"}

\* What has been read of a whole answer.
WholeChats == {WholeChat(c, r, cs, f) : c \in Seq(Nat), r \in Seq(Nat), cs \in Seq(Seq(Nat)), f \in LowReasons}
WholeStep == [p \in WholeChats \X Items |-> WholePartToChat(p[1], p[2])]

\* What one item adds to it.
LEMMA WholePartAdds ==
  ASSUME NEW c \in Seq(Nat), NEW r \in Seq(Nat), NEW cs \in Seq(Seq(Nat)), NEW f \in LowReasons, NEW x \in Items
  PROVE  /\ WholePartToChat(WholeChat(c, r, cs, f), x)
            = WholeChat(IF x.kind = "text" THEN c \o x.pieces ELSE c,
                        IF x.kind = "thought" THEN r \o x.pieces ELSE r,
                        IF x.kind = "call" THEN Append(cs, x.pieces) ELSE cs, f)
         /\ WholePartToChat(WholeChat(c, r, cs, f), x) \in WholeChats
<1>1. x.pieces \in Seq(Nat) /\ x.kind \in {"thought", "text", "call"}
  BY DEF Items, ItemKinds
<1> DEFINE d == IF x.kind = "text" THEN c \o x.pieces ELSE c
           e == IF x.kind = "thought" THEN r \o x.pieces ELSE r
           l == IF x.kind = "call" THEN Append(cs, x.pieces) ELSE cs
<1>2. c \o x.pieces \in Seq(Nat) /\ r \o x.pieces \in Seq(Nat) /\ Append(cs, x.pieces) \in Seq(Seq(Nat))
  BY <1>1, ConcatProperties, AppendProperties
<1>3. WholeChat(d, e, l, f) \in WholeChats
  <2>1. d \in Seq(Nat) /\ e \in Seq(Nat) /\ l \in Seq(Seq(Nat))
    BY <1>2
  <2> HIDE DEF d, e, l
  <2>2. QED
    BY <2>1 DEF WholeChats
<1>4. WholePartToChat(WholeChat(c, r, cs, f), x) = WholeChat(d, e, l, f)
  <2>1. CASE x.kind = "text"
    BY <2>1 DEF WholePartToChat, WholeChat
  <2>2. CASE x.kind = "thought"
    BY <2>2 DEF WholePartToChat, WholeChat
  <2>3. CASE x.kind = "call"
    BY <2>3 DEF WholePartToChat, WholeChat
  <2>4. QED
    BY <1>1, <2>1, <2>2, <2>3
<1>5. WholePartToChat(WholeChat(c, r, cs, f), x) \in WholeChats
  BY Zenon, <1>3, <1>4
<1>6. QED
  BY Zenon, <1>4, <1>5

\* An answer read whole, with the reason in small letters.
WholeRead(q, f) == FoldLeft(WholePartToChat, WholeChat(<<>>, <<>>, <<>>, f), q)

\* One item more adds to it.
LEMMA WholeReadAppend ==
  ASSUME NEW f \in LowReasons
  PROVE  /\ WholeRead(<<>>, f) = WholeChat(<<>>, <<>>, <<>>, f)
         /\ \A q \in Seq(Items) : WholeRead(q, f) \in WholeChats
         /\ \A q \in Seq(Items), x \in Items : WholeRead(Append(q, x), f) = WholePartToChat(WholeRead(q, f), x)
<1> DEFINE op(r, x) == WholePartToChat(r, x)
           h == WholeStep
           T == WholeChats
           b == WholeChat(<<>>, <<>>, <<>>, f)
<1>1. \A r \in T, x \in Items : op(r, x) \in T /\ h[<<r, x>>] = op(r, x)
  <2>1. \A r \in T, x \in Items : h[<<r, x>>] = op(r, x)
    BY DEF WholeStep
  <2>2. \A r \in T, x \in Items : op(r, x) \in T
    <3> SUFFICES ASSUME NEW r \in T, NEW x \in Items PROVE WholePartToChat(r, x) \in T
      OBVIOUS
    <3>1. PICK c \in Seq(Nat), s \in Seq(Nat), cs \in Seq(Seq(Nat)), g \in LowReasons : r = WholeChat(c, s, cs, g)
      BY DEF WholeChats
    <3>2. WholePartToChat(WholeChat(c, s, cs, g), x) \in WholeChats
      BY <3>1, WholePartAdds
    <3>3. QED
      BY <3>1, <3>2
  <2>3. QED
    BY <2>1, <2>2
<1>0. b \in T
  <2>1. <<>> \in Seq(Nat) /\ <<>> \in Seq(Seq(Nat))
    BY EmptySeq
  <2> DEFINE o == <<>>
             u == <<>>
  <2>2. o \in Seq(Nat) /\ u \in Seq(Seq(Nat)) /\ b = WholeChat(o, o, u, f)
    BY <2>1
  <2> HIDE DEF o, u, b
  <2>3. QED
    BY <2>2 DEF WholeChats
<1> HIDE DEF h, T
<1>2. Closed(h, T, Items) /\ b \in T
  BY <1>0, <1>1 DEF Closed
<1>3. ASSUME NEW q \in Seq(Items) PROVE WholeRead(q, f) = Folded(q, b, h, T)
  <2> DEFINE k == CHOOSE g : g = [z \in SUBSET (DOMAIN q) |->
                    IF z = {} THEN b ELSE op(g[z \ {Max(z)}], q[Max(z)])]
  <2>1. WholeRead(q, f) = k[DOMAIN q]
    BY DEF WholeRead, FoldLeft, MapThenFoldSet
  <2> HIDE DEF op, b
  <2>2. /\ Len(q) \in Nat /\ DOMAIN q = 1..Len(q)
        /\ \A z \in SUBSET (1..Len(q)) : z # {} => q[Max(z)] \in Items
    BY LenProperties, ElementOfSeq, LargestOfSome
  <2>3. PICK g : Computes(g, q, b, h, T)
    BY <1>2, FoldExists
  <2>4. g = [z \in SUBSET (DOMAIN q) |-> IF z = {} THEN b ELSE op(g[z \ {Max(z)}], q[Max(z)])]
    BY <1>1, <2>2, <2>3 DEF Computes
  <2>5. k = [z \in SUBSET (DOMAIN q) |-> IF z = {} THEN b ELSE op(k[z \ {Max(z)}], q[Max(z)])]
    BY <2>4
  <2> HIDE DEF k
  <2>6. Folds(k, q, b, h, T)
    BY <1>1, <2>2, <2>5 DEF Folds
  <2>7. k[1..Len(q)] = Folded(q, b, h, T)
    BY <1>2, <2>6, FoldedIs
  <2>8. QED
    BY <2>1, <2>2, <2>7
<1> HIDE DEF op
<1>4. /\ Folded(<<>>, b, h, T) = b
      /\ \A q \in Seq(Items) : Folded(q, b, h, T) \in T
      /\ \A q \in Seq(Items), x \in Items : Folded(Append(q, x), b, h, T) = h[<<Folded(q, b, h, T), x>>]
  BY <1>2, FoldedAppend, SMTT(60)
<1>5. WholeRead(<<>>, f) = b
  BY <1>3, <1>4, EmptySeq
<1>6. \A q \in Seq(Items) : WholeRead(q, f) \in T
  BY <1>3, <1>4
<1>7. ASSUME NEW q \in Seq(Items), NEW x \in Items
      PROVE  WholeRead(Append(q, x), f) = WholePartToChat(WholeRead(q, f), x)
  <2>1. Append(q, x) \in Seq(Items)
    BY AppendProperties
  <2>2. WholeRead(Append(q, x), f) = h[<<WholeRead(q, f), x>>] /\ WholeRead(q, f) \in T
    BY <1>3, <1>4, <2>1
  <2>3. WholeRead(Append(q, x), f) = op(WholeRead(q, f), x)
    BY <1>1, <2>2
  <2>4. QED
    BY <2>3 DEF op
<1>8. QED
  BY <1>5, <1>6, <1>7 DEF T, b

\* It holds everything told.
LEMMA WholeReadIs ==
  ASSUME NEW f \in LowReasons
  PROVE  \A q \in Seq(Items) :
           WholeRead(q, f) = WholeChat(Run(q, "text"), Run(q, "thought"), Pieces(Calls(q)), f)
<1> DEFINE w(q) == WholeChat(Run(q, "text"), Run(q, "thought"), Pieces(Calls(q)), f)
           T == {q \in Seq(Items) : WholeRead(q, f) = w(q) /\ Pieces(Calls(q)) \in Seq(Seq(Nat))}
<1>1. <<>> \in T
  <2>1. Pieces(<<>>) = <<>> /\ <<>> \in Seq(Items) /\ <<>> \in Seq(Seq(Nat))
    BY EmptySeq DEF Pieces
  <2>2. Run(<<>>, "text") = <<>> /\ Run(<<>>, "thought") = <<>> /\ Calls(<<>>) = <<>>
    BY RunOf, CallsOf
  <2>3. QED
    BY <2>1, <2>2, WholeReadAppend
<1>2. ASSUME NEW q \in Seq(Items), NEW x \in Items, q \in T PROVE Append(q, x) \in T
  <2> DEFINE p == Append(q, x)
             c == Run(q, "text")
             r == Run(q, "thought")
             cs == Pieces(Calls(q))
             l == IF x.kind = "call" THEN Append(cs, x.pieces) ELSE cs
  <2>1. c \in Seq(Nat) /\ r \in Seq(Nat) /\ cs \in Seq(Seq(Nat)) /\ p \in Seq(Items) /\ Calls(q) \in Seq(Items)
    BY <1>2, RunOf, CallsOf, AppendProperties
  <2>2. WholeRead(p, f) = WholePartToChat(WholeChat(c, r, cs, f), x)
    <3>1. WholeRead(p, f) = WholePartToChat(WholeRead(q, f), x)
      BY WholeReadAppend
    <3>2. WholeRead(q, f) = WholeChat(c, r, cs, f)
      BY <1>2
    <3>3. QED
      BY <3>1, <3>2
  <2>3. WholePartToChat(WholeChat(c, r, cs, f), x)
        = WholeChat(IF x.kind = "text" THEN c \o x.pieces ELSE c, IF x.kind = "thought" THEN r \o x.pieces ELSE r, l, f)
    <3> HIDE DEF c, r, cs
    <3>1. QED
      BY <2>1, WholePartAdds
  <2>4. /\ Run(p, "text") = IF x.kind = "text" THEN c \o x.pieces ELSE c
        /\ Run(p, "thought") = IF x.kind = "thought" THEN r \o x.pieces ELSE r
    BY RunOf
  <2>5. Pieces(Calls(p)) = l
    <3>1. Calls(p) = IF x.kind = "call" THEN Append(Calls(q), x) ELSE Calls(q)
      BY CallsOf
    <3>2. Pieces(Append(Calls(q), x)) = Append(cs, x.pieces)
      BY <2>1, PiecesAppend
    <3>3. QED
      BY <3>1, <3>2
  <2>6. x.pieces \in Seq(Nat)
    BY DEF Items
  <2>7. l \in Seq(Seq(Nat))
    BY <2>1, <2>6, AppendProperties
  <2> HIDE DEF p, c, r, cs, l
  <2>8. WholeRead(p, f) = w(p)
    BY <2>2, <2>3, <2>4, <2>5
  <2>9. p \in T
    BY <2>1, <2>5, <2>7, <2>8
  <2>10. QED
    BY <2>9 DEF p
<1> HIDE DEF T
<1>3. Seq(Items) \subseteq T
  BY <1>1, <1>2, SequencesFrom
<1>4. QED
  BY <1>3 DEF T

\* An empty chunk with a finish.
LEMMA ChunkFinishing ==
  ASSUME NEW f
  PROVE  Finishing(Chunk, f) = WholeChat(<<>>, <<>>, <<>>, f)
<1>1. \A c, r, cs, g : Finishing([content |-> c, reasoning |-> r, calls |-> cs, finish |-> g], f)
                     = WholeChat(c, r, cs, f)
  BY DEF Finishing, WholeChat
<1>2. Finishing([content |-> <<>>, reasoning |-> <<>>, calls |-> <<>>, finish |-> ""], f)
      = WholeChat(<<>>, <<>>, <<>>, f)
  BY Zenon, <1>1
<1>3. QED
  BY Zenon, <1>2 DEF Chunk

\* The answer in one piece is what was told.
LEMMA WholeChatIs ==
  ASSUME NEW q \in Seq(Items), NEW why \in {"end", "limit"}
  PROVE  LET w == WholeGeminiToChat(q, why)
         IN  /\ w.content = Run(q, "text") /\ w.reasoning = Run(q, "thought") /\ w.calls = Pieces(Calls(q))
             /\ w.finish = IF CallCount(q) > 0 THEN "tools" ELSE LowerReason(why)
<1> DEFINE f == LowerReason(why)
           a == Run(q, "text")
           b == Run(q, "thought")
           l == Pieces(Calls(q))
           read == WholeRead(q, f)
<1>1. f \in LowReasons
  BY DEF LowerReason, LowReasons
<1>2. [Chunk EXCEPT !.finish = f] = WholeChat(<<>>, <<>>, <<>>, f)
  BY Zenon, ChunkFinishing DEF Finishing
<1>3. WholeGeminiToChat(q, why) = IF read.calls # <<>> THEN [read EXCEPT !.finish = "tools"] ELSE read
  <2> HIDE DEF f
  <2>1. QED
    BY <1>2, Zenon DEF WholeGeminiToChat, WholeRead, f
<1>4. read = WholeChat(a, b, l, f)
  <2> HIDE DEF f
  <2>1. QED
    BY <1>1, WholeReadIs
<1>5. l # <<>> <=> CallCount(q) > 0
  <2>1. Calls(q) \in Seq(Items) /\ Len(Calls(q)) \in Nat /\ DOMAIN Calls(q) = 1..Len(Calls(q))
    BY CallsOf, LenProperties
  <2> DEFINE cs == Calls(q)
  <2> HIDE DEF cs
  <2>2. Pieces(cs) # <<>> <=> Len(cs) > 0
    <3>1. DOMAIN Pieces(cs) = 1..Len(cs)
      BY <2>1 DEF Pieces, cs
    <3>2. CASE Len(cs) = 0
      <4>1. cs = <<>>
        BY <2>1, <3>2, EmptySeq DEF cs
      <4>2. Pieces(<<>>) = <<>>
        BY DEF Pieces
      <4>3. QED
        BY <3>2, <4>1, <4>2
    <3>3. CASE Len(cs) > 0
      <4>1. 1 \in DOMAIN Pieces(cs)
        BY <2>1, <3>1, <3>3 DEF cs
      <4>2. DOMAIN <<>> = {}
        OBVIOUS
      <4>3. QED
        BY <3>3, <4>1, <4>2
    <3>4. QED
      BY <2>1, <3>2, <3>3 DEF cs
  <2>3. QED
    BY <2>2 DEF cs, CallCount
<1> HIDE DEF a, b, l, f, read
<1>6. /\ read.calls = l /\ read.content = a /\ read.reasoning = b /\ read.finish = f
      /\ LET t == [read EXCEPT !.finish = "tools"]
         IN  t.calls = l /\ t.content = a /\ t.reasoning = b /\ t.finish = "tools"
  BY <1>4 DEF WholeChat
<1>7. CASE l # <<>>
  BY <1>3, <1>5, <1>6, <1>7 DEF a, b, l, f
<1>8. CASE l = <<>>
  BY <1>3, <1>5, <1>6, <1>8 DEF a, b, l, f
<1>9. QED
  BY <1>7, <1>8

\* and the client has what was told.
LEMMA GeminiChatArrived == GeminiChatArrives /\ PartsUpstream => AnswersArrive
<1> SUFFICES ASSUME GeminiChatArrives, PartsUpstream PROVE AnswersArrive
  OBVIOUS
<1>1. GeminiChat /\ To = "chat" /\ GeminiLike /\ Whole = WholeGeminiToChat(told, finish)
  BY GeminiChatBy DEF GeminiChatArrives
<1>2. told \in Seq(Items) /\ (stage = "over" => finish \in {"end", "limit"}) /\ (stage = "cut" => finish = "")
  BY DEF PartsUpstream
<1>3. ASSUME "content" \notin lapsed
      PROVE  /\ client.content = Run(told, "text") /\ client.reasoning = Run(told, "thought")
             /\ Pieces(client.calls) = Pieces(Calls(told))
  <2>1. Completes(client, told, told, CallCount(told))
    BY <1>3 DEF GeminiChatArrives, GeminiChatKeeps
  <2>2. Pieces(client.calls) = Pieces(Calls(told))
    BY <2>1 DEF Completes
  <2>3. QED
    BY <2>1, <2>2, CompletesHas
<1>4. ASSUME "content" \notin lapsed PROVE ContentArrived
  <2>1. route # <<"openai", "gemini">>
    BY <1>1 DEF GeminiChat
  <2>2. QED
    BY <1>1, <1>3, <1>4, <2>1 DEF ContentArrived
<1>5. ASSUME lapsed = {}, stage = "over" PROVE ReasonArrived
  BY <1>1, <1>5 DEF GeminiChatArrives, GeminiChatEnds, ReasonArrived
<1>6. ASSUME lapsed = {}, stage = "cut" PROVE ~LooksWhole
  BY <1>1, <1>6 DEF GeminiChatArrives, GeminiChatEnds, LooksWhole
<1>7. ASSUME stage = "over" PROVE WholeAgrees(Whole)
  <2> DEFINE w == WholeGeminiToChat(told, finish)
  <2>1. /\ w.content = Run(told, "text") /\ w.reasoning = Run(told, "thought") /\ w.calls = Pieces(Calls(told))
        /\ w.finish = IF CallCount(told) > 0 THEN "tools" ELSE LowerReason(finish)
    BY <1>2, <1>7, WholeChatIs
  <2> HIDE DEF w
  <2>2. ~WholeLosesReason => w.finish = Reason(told, finish)
    <3>1. ToldKind({"call"}) <=> CallCount(told) > 0
      BY <1>2, CallTold DEF ToldKind
    <3>2. route # <<"codex", "chat">> /\ route # <<"claude", "gemini">>
      BY <1>1 DEF GeminiChat
    <3>3. WholeLosesReason <=> finish = "limit" /\ ~(CallCount(told) > 0)
      <4>1. WholeLosesReason = (finish = "limit" /\ ~ToldKind({"call"}))
        BY <1>1, <3>2, Zenon DEF WholeLosesReason
      <4>2. QED
        BY <3>1, <4>1
    <3>4. CASE CallCount(told) > 0
      BY <2>1, <3>4 DEF Reason
    <3>5. CASE ~(CallCount(told) > 0)
      <4>1. w.finish = LowerReason(finish) /\ Reason(told, finish) = finish
        BY <2>1, <3>5 DEF Reason
      <4>2. finish # "limit" => LowerReason(finish) = finish
        BY DEF LowerReason
      <4>3. QED
        BY <3>3, <3>5, <4>1, <4>2
    <3>6. QED
      BY <3>4, <3>5
  <2>3. WholeAgrees(w)
    BY <1>1, <2>1, <2>2 DEF WholeAgrees
  <2>4. QED
    BY <1>1, <2>3 DEF w
<1>8. AnswerArrives
  BY <1>1, <1>4, <1>5, <1>6 DEF AnswerArrives
<1>9. QED
  BY <1>7, <1>8 DEF AnswersArrive, WholeArrives

\* What is always true of a route from Gemini's family to chat completions.
GeminiChatInvariant == GeminiChat => PartsUpstream /\ GeminiChatArrives

\* It holds from the start, and after every step.
LEMMA GeminiChatInvariantHolds ==
  /\ TranslationInit => GeminiChatInvariant
  /\ GeminiChatInvariant /\ [TranslationNext]_translationVars => GeminiChatInvariant'
<1>1. TranslationInit => GeminiChatInvariant
  BY PartsUpstreamBegins, GeminiChatBegins, GeminiChatBy DEF GeminiChatInvariant
<1>2. ASSUME GeminiChatInvariant, [TranslationNext]_translationVars, GeminiChat' PROVE PartsUpstream' /\ GeminiChatArrives'
  <2>1. route' = route
    BY <1>2, RouteStays DEF translationVars
  <2>2. GeminiChat
    BY <1>2, <2>1 DEF GeminiChat
  <2>3. PartsUpstream /\ GeminiChatArrives
    BY <1>2, <2>2 DEF GeminiChatInvariant
  <2>4. QED
    BY <1>2, <2>3, PartsUpstreamGoesOn, GeminiChatGoesOn
<1>3. QED
  BY <1>1, <1>2 DEF GeminiChatInvariant

\* Whatever Gemini, Gemini CLI or Antigravity tells in parts, one or two in a
\* chunk, a client of chat completions has all of it, thoughts, text and calls with
\* their arguments, and the reason the answer ended for, save what the routes are
\* known to let lapse; an answer that broke off does not look whole, and one
\* converted in one piece is the same: ConvertGeminiResponseToOpenAI,
\* ConvertCliResponseToOpenAI and ConvertAntigravityResponseToOpenAI of
\* internal/translator/{gemini,gemini-cli,antigravity}/openai/chat-completions,
\* for answers of any length.
THEOREM GeminiAnswersArrive == TranslationSpec => [](GeminiChat => AnswersArrive)
<1>1. GeminiChatInvariant => (GeminiChat => AnswersArrive)
  BY GeminiChatArrived DEF GeminiChatInvariant
<1>2. QED
  BY <1>1, GeminiChatInvariantHolds, PTL DEF TranslationSpec
=============================================================================
