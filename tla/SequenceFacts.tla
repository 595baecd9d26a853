--------------------------- MODULE SequenceFacts ---------------------------
(***************************************************************************)
(* Facts about numbers and sequences that the proofs of the components     *)
(* share: the least-element principle, which stands for induction, what    *)
(* the elements of a channel are after a message is sent or received, and  *)
(* what taking an element out of an array leaves.                          *)
(***************************************************************************)
EXTENDS Integers, Sequences, SequencesExt, SequenceTheorems, WellFoundedInduction,
        FiniteSetTheorems, TLAPS

LessThan == {ss \in Nat \X Nat : ss[1] < ss[2]}

\* Every non-empty set of naturals has a least element.
LEMMA LeastNumber ==
    ASSUME NEW S \in SUBSET Nat, S # {}
    PROVE  \E x \in S : \A y \in S : x <= y
<1>1. IsWellFoundedOn(LessThan, Nat)
  BY NatLessThanWellFounded DEF OpToRel, LessThan
<1>2. PICK x \in S : \A y \in S : ~(<<y, x>> \in LessThan)
  BY <1>1, WFMin
<1>3. ASSUME NEW y \in S
      PROVE  x <= y
  <2>1. x \in Nat /\ y \in Nat
    OBVIOUS
  <2>2. ~(y < x)
    BY <1>2, <2>1 DEF LessThan
  <2> QED  BY <2>1, <2>2
<1> QED  BY <1>3

\* What Min returns for a non-empty set of naturals.
LEMMA MinProperties ==
    ASSUME NEW S \in SUBSET Nat, S # {}
    PROVE  Min(S) \in S /\ \A y \in S : Min(S) <= y
<1>1. \E x \in S : \A y \in S : x <= y
  BY LeastNumber
<1> QED  BY <1>1 DEF Min

-----------------------------------------------------------------------------
(* Elements of sequences                                                   *)

\* The elements of a sequence.
LEMMA InRange ==
    ASSUME NEW S, NEW s \in Seq(S)
    PROVE  /\ Range(s) \subseteq S
           /\ \A x : x \in Range(s) <=> \E i \in 1..Len(s) : s[i] = x
<1>1. DOMAIN s = 1..Len(s)
  BY LenProperties
<1>2. \A i \in 1..Len(s) : s[i] \in S
  BY ElementOfSeq
<1> QED  BY <1>1, <1>2 DEF Range

\* Sending one message.
LEMMA RangeAppend ==
    ASSUME NEW S, NEW s \in Seq(S), NEW e \in S
    PROVE  Append(s, e) \in Seq(S) /\ Range(Append(s, e)) = Range(s) \cup {e}
<1>1. /\ Append(s, e) \in Seq(S)
      /\ Len(Append(s, e)) = Len(s) + 1
      /\ \A i \in 1..Len(s) : Append(s, e)[i] = s[i]
      /\ Append(s, e)[Len(s) + 1] = e
      /\ Len(s) \in Nat
  BY AppendProperties, LenProperties
<1>2. \A i : i \in 1..(Len(s) + 1) <=> (i \in 1..Len(s) \/ i = Len(s) + 1)
  BY <1>1
<1>3. ASSUME NEW x
      PROVE  x \in Range(Append(s, e)) <=> x \in Range(s) \cup {e}
  <2>1. /\ x \in Range(s) <=> \E i \in 1..Len(s) : s[i] = x
        /\ x \in Range(Append(s, e)) <=> \E i \in 1..(Len(s) + 1) : Append(s, e)[i] = x
    <3>1. DOMAIN s = 1..Len(s) /\ DOMAIN Append(s, e) = 1..(Len(s) + 1)
      BY <1>1, LenProperties
    <3> QED  BY <3>1 DEF Range
  <2> QED  BY <1>1, <1>2, <2>1
<1> QED  BY <1>1, <1>3

\* Receiving the first message.
LEMMA RangeTail ==
    ASSUME NEW S, NEW s \in Seq(S), s # <<>>
    PROVE  /\ Tail(s) \in Seq(S)
           /\ Range(Tail(s)) \subseteq Range(s)
           /\ Head(s) \in Range(s)
           /\ Head(s) \in S
<1>1. /\ Tail(s) \in Seq(S)
      /\ Len(Tail(s)) = Len(s) - 1
      /\ \A i \in 1..Len(Tail(s)) : Tail(s)[i] = s[i + 1]
      /\ Head(s) \in S
      /\ Len(s) \in Nat \ {0}
  BY HeadTailProperties, LenProperties, EmptySeq
<1>2. \A i \in 1..Len(Tail(s)) : i + 1 \in 1..Len(s)
  BY <1>1
<1>3. 1 \in 1..Len(s) /\ Head(s) = s[1]
  BY <1>1
<1>4. ASSUME NEW x \in Range(Tail(s))
      PROVE  x \in Range(s)
  <2>1. PICK i \in 1..Len(Tail(s)) : Tail(s)[i] = x
    BY <1>1, InRange
  <2>2. s[i + 1] = x /\ i + 1 \in 1..Len(s)
    BY <1>1, <1>2, <2>1
  <2> QED  BY <2>2, InRange
<1>5. Head(s) \in Range(s)
  BY <1>3, InRange
<1> QED  BY <1>1, <1>4, <1>5

\* One message.
LEMMA RangeSingleton ==
    ASSUME NEW S, NEW e \in S
    PROVE  /\ <<e>> \in Seq(S) /\ Len(<<e>>) = 1 /\ <<e>>[1] = e
           /\ Range(<<e>>) = {e}
<1>1. <<e>> \in Seq(S) /\ Len(<<e>>) = 1 /\ <<e>>[1] = e
  <2>1. <<>> \in Seq(S) /\ Len(<<>>) = 0
    BY EmptySeq
  <2>2. Append(<<>>, e) = <<e>>
    OBVIOUS
  <2>3. /\ Append(<<>>, e) \in Seq(S)
        /\ Len(Append(<<>>, e)) = 0 + 1
        /\ Append(<<>>, e)[0 + 1] = e
    BY <2>1, AppendProperties
  <2> QED  BY <2>2, <2>3
<1>2. Range(<<e>>) = {e}
  <2>1. DOMAIN <<e>> = 1..1
    BY <1>1, LenProperties
  <2> QED  BY <1>1, <2>1 DEF Range
<1> QED  BY <1>1, <1>2

\* Two sequences one after the other.
LEMMA RangeConcat ==
    ASSUME NEW S, NEW s \in Seq(S), NEW u \in Seq(S)
    PROVE  s \o u \in Seq(S) /\ Range(s \o u) = Range(s) \cup Range(u)
  BY ConcatProperties, RangeConcatenation

-----------------------------------------------------------------------------
(* Messages that occur once                                                *)

\* No two of the messages of M in s carry the same id.
Once(s, M) ==
    \A i, j \in 1..Len(s) : s[i] \in M /\ s[j] \in M /\ s[i].id = s[j].id => i = j

\* Receiving a message keeps them distinct, and it is the only one of its id.
LEMMA OnceTail ==
    ASSUME NEW S, NEW s \in Seq(S), s # <<>>, NEW M, Once(s, M)
    PROVE  /\ Once(Tail(s), M)
           /\ Head(s) \in M => \A m \in Range(Tail(s)) : m \in M => m.id # Head(s).id
<1>1. /\ Tail(s) \in Seq(S)
      /\ Len(Tail(s)) = Len(s) - 1
      /\ \A i \in 1..Len(Tail(s)) : Tail(s)[i] = s[i + 1]
      /\ Len(s) \in Nat \ {0}
  BY HeadTailProperties, LenProperties, EmptySeq
<1>2. \A i \in 1..Len(Tail(s)) : i + 1 \in 1..Len(s) /\ i + 1 # 1
  BY <1>1
<1>3. 1 \in 1..Len(s) /\ Head(s) = s[1]
  BY <1>1
<1>4. ASSUME NEW i \in 1..Len(Tail(s)), NEW j \in 1..Len(Tail(s)),
             Tail(s)[i] \in M, Tail(s)[j] \in M, Tail(s)[i].id = Tail(s)[j].id
      PROVE  i = j
  <2>1. i + 1 = j + 1
    BY <1>1, <1>2, <1>4 DEF Once
  <2>2. i \in Int /\ j \in Int
    OBVIOUS
  <2> QED  BY <2>1, <2>2
<1>5. Once(Tail(s), M)
  BY <1>4 DEF Once
<1>6. ASSUME NEW m \in Range(Tail(s)), m \in M, Head(s) \in M, m.id = Head(s).id
      PROVE  FALSE
  <2>1. PICK i \in 1..Len(Tail(s)) : Tail(s)[i] = m
    BY <1>1, InRange
  <2> QED  BY <1>1, <1>2, <1>3, <1>6, <2>1 DEF Once
<1> QED  BY <1>5, <1>6

\* Sending messages with ids that are not under way keeps them distinct.
LEMMA OnceConcat ==
    ASSUME NEW S, NEW s \in Seq(S), NEW u \in Seq(S), NEW M, Once(s, M), Once(u, M),
           \A m \in Range(s) : \A n \in Range(u) : m \in M /\ n \in M => m.id # n.id
    PROVE  Once(s \o u, M)
<1> DEFINE c == s \o u
<1>1. /\ Len(s) \in Nat /\ Len(u) \in Nat
      /\ Len(c) = Len(s) + Len(u)
      /\ \A i \in 1..Len(c) : c[i] = IF i <= Len(s) THEN s[i] ELSE u[i - Len(s)]
  BY LenProperties, ConcatProperties
<1>2. /\ \A i \in 1..Len(s) : s[i] \in Range(s)
      /\ \A i \in 1..Len(u) : u[i] \in Range(u)
  BY InRange
<1>3. ASSUME NEW i \in 1..Len(c)
      PROVE  \/ i \in 1..Len(s) /\ c[i] = s[i]
             \/ i - Len(s) \in 1..Len(u) /\ c[i] = u[i - Len(s)]
  BY <1>1
<1> HIDE DEF c
<1>4. ASSUME NEW i \in 1..Len(c), NEW j \in 1..Len(c),
             c[i] \in M, c[j] \in M, c[i].id = c[j].id
      PROVE  i = j
  <2>1. CASE i \in 1..Len(s) /\ c[i] = s[i] /\ j \in 1..Len(s) /\ c[j] = s[j]
    BY <1>4, <2>1 DEF Once
  <2>2. CASE /\ i - Len(s) \in 1..Len(u) /\ c[i] = u[i - Len(s)]
             /\ j - Len(s) \in 1..Len(u) /\ c[j] = u[j - Len(s)]
    <3>1. i - Len(s) = j - Len(s)
      BY <1>4, <2>2 DEF Once
    <3> QED  BY <1>1, <3>1
  <2>3. CASE /\ i \in 1..Len(s) /\ c[i] = s[i]
             /\ j - Len(s) \in 1..Len(u) /\ c[j] = u[j - Len(s)]
    BY <1>2, <1>4, <2>3
  <2>4. CASE /\ j \in 1..Len(s) /\ c[j] = s[j]
             /\ i - Len(s) \in 1..Len(u) /\ c[i] = u[i - Len(s)]
    BY <1>2, <1>4, <2>4
  <2> QED  BY <1>3, <2>1, <2>2, <2>3, <2>4
<1> QED  BY <1>4 DEF Once, c

\* Sending a message whose id is not under way.
LEMMA OnceAppend ==
    ASSUME NEW S, NEW s \in Seq(S), NEW e \in S, NEW M, Once(s, M),
           e \in M => \A m \in Range(s) : m \in M => m.id # e.id
    PROVE  Once(Append(s, e), M)
<1>1. <<e>> \in Seq(S) /\ Len(<<e>>) = 1 /\ <<e>>[1] = e
  BY RangeSingleton
<1>2. Range(<<e>>) = {e}
  BY RangeSingleton
<1>3. Once(<<e>>, M)
  BY <1>1 DEF Once
<1>4. \A m \in Range(s) : \A n \in Range(<<e>>) : m \in M /\ n \in M => m.id # n.id
  BY <1>2
<1>5. Once(s \o <<e>>, M)
  BY <1>1, <1>3, <1>4, OnceConcat
<1>6. Append(s, e) = s \o <<e>>
  BY AppendIsConcat
<1> QED  BY <1>5, <1>6

-----------------------------------------------------------------------------
(* Taking an element out of an array                                       *)

\* r is q, a sequence over S, without its i-th element.
IsRemoval(S, q, i, r) ==
    /\ r \in Seq(S)
    /\ Len(r) = Len(q) - 1
    /\ \A j \in 1..Len(r) : r[j] = IF j < i THEN q[j] ELSE q[j + 1]

\* Array.splice(index, 1), as RemoveAt, removes one element and keeps the order.
LEMMA RemoveAtIsRemoval ==
    ASSUME NEW S, NEW q \in Seq(S), NEW i \in 1..Len(q)
    PROVE  IsRemoval(S, q, i, RemoveAt(q, i))
<1> DEFINE a == SubSeq(q, 1, i - 1)
           b == SubSeq(q, i + 1, Len(q))
<1>0. Len(q) \in Nat /\ i \in Int /\ i - 1 \in Int /\ i + 1 \in Int
  BY LenProperties
<1>1. /\ a \in Seq(S)
      /\ Len(a) = i - 1
      /\ \A j \in 1..(i - 1) : a[j] = q[j]
  <2>1. \A j \in 1..(i - 1) : q[j] \in S
    BY <1>0, ElementOfSeq
  <2>2. /\ a \in Seq(S)
        /\ Len(a) = IF 1 <= i - 1 THEN i - 1 - 1 + 1 ELSE 0
        /\ \A j \in 1..(i - 1 - 1 + 1) : a[j] = q[1 + j - 1]
    BY <1>0, <2>1, SubSeqProperties
  <2> QED  BY <1>0, <2>2
<1>2. /\ b \in Seq(S)
      /\ Len(b) = Len(q) - i
      /\ \A j \in 1..(Len(q) - i) : b[j] = q[i + j]
  <2>1. \A j \in (i + 1)..Len(q) : q[j] \in S
    BY <1>0, ElementOfSeq
  <2>2. /\ b \in Seq(S)
        /\ Len(b) = IF i + 1 <= Len(q) THEN Len(q) - (i + 1) + 1 ELSE 0
        /\ \A j \in 1..(Len(q) - (i + 1) + 1) : b[j] = q[(i + 1) + j - 1]
    BY <1>0, <2>1, SubSeqProperties
  <2> QED  BY <1>0, <2>2
<1> HIDE DEF a, b
<1>3. /\ a \o b \in Seq(S)
      /\ Len(a \o b) = Len(a) + Len(b)
      /\ \A j \in 1..(Len(a) + Len(b)) :
            (a \o b)[j] = IF j <= Len(a) THEN a[j] ELSE b[j - Len(a)]
  BY <1>1, <1>2, ConcatProperties
<1>4. RemoveAt(q, i) = a \o b
  BY DEF RemoveAt, a, b
<1> DEFINE r == a \o b
<1>5. r \in Seq(S) /\ Len(r) = Len(q) - 1
  BY <1>0, <1>1, <1>2, <1>3
<1>6. ASSUME NEW j \in 1..Len(r)
      PROVE  r[j] = IF j < i THEN q[j] ELSE q[j + 1]
  <2>1. j \in 1..(Len(a) + Len(b)) /\ j \in Int
    BY <1>0, <1>1, <1>2, <1>3
  <2>2. CASE j < i
    BY <1>0, <1>1, <1>3, <2>1, <2>2
  <2>3. CASE ~(j < i)
    <3>1. j - Len(a) \in 1..(Len(q) - i) /\ i + (j - Len(a)) = j + 1
      BY <1>0, <1>1, <1>2, <2>1, <2>3
    <3>2. r[j] = b[j - Len(a)]
      BY <1>0, <1>1, <1>3, <2>1, <2>3
    <3> QED  BY <1>2, <2>3, <3>1, <3>2
  <2> QED  BY <2>2, <2>3
<1> HIDE DEF r
<1>7. IsRemoval(S, q, i, r)
  BY <1>5, <1>6 DEF IsRemoval
<1> QED  BY <1>4, <1>7 DEF r

\* RemoveFirst takes out one occurrence of e: every other element stays.
LEMMA RangeRemoveFirst ==
    ASSUME NEW S, NEW s \in Seq(S), NEW e
    PROVE  /\ RemoveFirst(s, e) \in Seq(S)
           /\ Range(RemoveFirst(s, e)) \subseteq Range(s)
           /\ \A x \in Range(s) : x # e => x \in Range(RemoveFirst(s, e))
<1>1. CASE ~\E i \in 1..Len(s) : s[i] = e
  BY <1>1 DEF RemoveFirst
<1>2. CASE \E i \in 1..Len(s) : s[i] = e
  <2> DEFINE I == {i \in 1..Len(s) : s[i] = e}
             k == Min(I)
             r == RemoveAt(s, k)
  <2>0. Len(s) \in Nat
    BY LenProperties
  <2>1. I \in SUBSET Nat /\ I # {}
    BY <1>2, <2>0
  <2>2. k \in 1..Len(s) /\ s[k] = e
    <3> HIDE DEF I
    <3>1. k \in I
      BY <2>1, MinProperties
    <3> QED  BY <3>1 DEF I
  <2>3. RemoveFirst(s, e) = r
    BY <1>2, <2>1 DEF RemoveFirst, SelectInSeq
  <2> HIDE DEF I, k
  <2>4. IsRemoval(S, s, k, r)
    BY <2>2, RemoveAtIsRemoval
  <2>5. r \in Seq(S) /\ Len(r) = Len(s) - 1
    BY <2>4 DEF IsRemoval
  <2>6. ASSUME NEW j \in 1..Len(r)
        PROVE  r[j] \in Range(s)
    <3>1. j \in 1..Len(s) /\ j + 1 \in 1..Len(s)
      BY <2>0, <2>5
    <3>2. r[j] = s[j] \/ r[j] = s[j + 1]
      BY <2>4 DEF IsRemoval
    <3> QED  BY <3>1, <3>2, InRange
  <2>7. ASSUME NEW x \in Range(s), x # e
        PROVE  x \in Range(r)
    <3>1. PICK i \in 1..Len(s) : s[i] = x
      BY InRange
    <3>2. i # k /\ i \in Int /\ k \in Int
      BY <2>0, <2>2, <2>7, <3>1
    <3>3. CASE i < k
      <4>1. i \in 1..Len(r)
        BY <2>0, <2>2, <2>5, <3>2, <3>3
      <4>2. r[i] = s[i]
        BY <2>4, <3>3, <4>1 DEF IsRemoval
      <4> QED  BY <2>5, <3>1, <4>1, <4>2, InRange
    <3>4. CASE k < i
      <4>1. i - 1 \in 1..Len(r) /\ ~(i - 1 < k) /\ (i - 1) + 1 = i
        BY <2>0, <2>2, <2>5, <3>2, <3>4
      <4>2. r[i - 1] = s[i]
        BY <2>4, <4>1 DEF IsRemoval
      <4> QED  BY <2>5, <3>1, <4>1, <4>2, InRange
    <3> QED  BY <3>2, <3>3, <3>4
  <2>8. Range(r) \subseteq Range(s)
    BY <2>5, <2>6, InRange
  <2> QED  BY <2>3, <2>5, <2>7, <2>8
<1> QED  BY <1>1, <1>2

\* A function on 1..n is a sequence of length n.
LEMMA FunctionIsSequence ==
    ASSUME NEW S, NEW n \in Nat, NEW f \in [1..n -> S]
    PROVE  f \in Seq(S) /\ Len(f) = n /\ DOMAIN f = 1..n
<1>1. f \in Seq(S)
  BY SeqDef
<1>2. DOMAIN f = 1..Len(f) /\ Len(f) \in Nat
  BY <1>1, LenProperties
<1>3. DOMAIN f = 1..n
  OBVIOUS
<1>4. Len(f) = n
  BY <1>2, <1>3
<1> QED  BY <1>1, <1>3, <1>4

\* A sequence without its last element.
LEMMA FrontFacts ==
    ASSUME NEW S, NEW s \in Seq(S), s # <<>>
    PROVE  /\ Front(s) \in Seq(S)
           /\ Len(Front(s)) = Len(s) - 1
           /\ \A i \in 1..(Len(s) - 1) : Front(s)[i] = s[i]
<1>1. Len(s) \in Nat \ {0}
  BY EmptySeq
<1>2. \A i \in 1..(Len(s) - 1) : s[i] \in S
  BY <1>1, ElementOfSeq
<1>3. Len(s) - 1 \in Int /\ 1 \in Int
  BY <1>1
<1> DEFINE n == Len(s) - 1
<1>4. /\ SubSeq(s, 1, n) \in Seq(S)
      /\ Len(SubSeq(s, 1, n)) = IF 1 <= n THEN n - 1 + 1 ELSE 0
      /\ \A i \in 1..(n - 1 + 1) : SubSeq(s, 1, n)[i] = s[1 + i - 1]
  BY <1>2, <1>3, SubSeqProperties
<1>5. Front(s) = SubSeq(s, 1, n)
  BY DEF Front
<1>6. PICK f : f = SubSeq(s, 1, n)
  OBVIOUS
<1>7. f \in Seq(S) /\ Len(f) = Len(s) - 1
  <2>1. f \in Seq(S) /\ Len(f) = IF 1 <= n THEN n - 1 + 1 ELSE 0
    BY <1>4, <1>6
  <2>2. n \in Nat
    BY <1>1
  <2> HIDE DEF n
  <2>3. (IF 1 <= n THEN n - 1 + 1 ELSE 0) = n
    BY <2>2
  <2> QED  BY <2>1, <2>3 DEF n
<1>8. \A i \in 1..(Len(s) - 1) : f[i] = s[i]
  <2>1. ASSUME NEW i \in 1..(Len(s) - 1)
        PROVE  f[i] = s[i]
    <3>1. i \in 1..(n - 1 + 1) /\ 1 + i - 1 = i
      BY <1>1
    <3> QED  BY <1>4, <1>6, <3>1
  <2> QED  BY <2>1
<1> QED  BY <1>5, <1>6, <1>7, <1>8

\* A sequence with an element before it.
LEMMA Prepend ==
    ASSUME NEW S, NEW s \in Seq(S), NEW e \in S
    PROVE  /\ <<e>> \o s \in Seq(S)
           /\ Len(<<e>> \o s) = Len(s) + 1
           /\ (<<e>> \o s)[1] = e
           /\ \A i \in 1..Len(s) : (<<e>> \o s)[i + 1] = s[i]
           /\ Range(<<e>> \o s) = {e} \cup Range(s)
<1>1. <<e>> \in Seq(S) /\ Len(<<e>>) = 1 /\ <<e>>[1] = e /\ Range(<<e>>) = {e}
  BY RangeSingleton
<1>2. Len(s) \in Nat
  BY LenProperties
<1>3. /\ <<e>> \o s \in Seq(S)
      /\ Len(<<e>> \o s) = 1 + Len(s)
      /\ \A i \in 1..(1 + Len(s)) : (<<e>> \o s)[i] = IF i <= 1 THEN <<e>>[i] ELSE s[i - 1]
  BY <1>1, ConcatProperties
<1>4. Range(<<e>> \o s) = {e} \cup Range(s)
  <2>1. PICK u \in Seq(S) : u = <<e>>
    BY <1>1
  <2>2. Range(u \o s) = Range(u) \cup Range(s)
    BY RangeConcat
  <2> QED  BY <1>1, <2>1, <2>2
<1>5. ASSUME NEW i \in 1..Len(s)
      PROVE  (<<e>> \o s)[i + 1] = s[i]
  <2>1. i + 1 \in 1..(1 + Len(s)) /\ ~(i + 1 <= 1) /\ (i + 1) - 1 = i
    BY <1>2
  <2> QED  BY <1>3, <2>1
<1> QED  BY <1>1, <1>2, <1>3, <1>4, <1>5

\* Taking one of several distinct elements out.
LEMMA RemoveKeyFacts ==
    ASSUME NEW S, NEW s \in Seq(S), IsInjective(s), NEW e \in Range(s)
    PROVE  /\ RemoveFirst(s, e) \in Seq(S)
           /\ IsInjective(RemoveFirst(s, e))
           /\ Range(RemoveFirst(s, e)) = Range(s) \ {e}
<1> DEFINE I == {i \in 1..Len(s) : s[i] = e}
           k == Min(I)
           r == RemoveAt(s, k)
<1>0. Len(s) \in Nat /\ DOMAIN s = 1..Len(s)
  BY LenProperties
<1>1. \E i \in 1..Len(s) : s[i] = e
  BY InRange
<1>2. I \in SUBSET Nat /\ I # {}
  BY <1>0, <1>1
<1>3. k \in 1..Len(s) /\ s[k] = e
  <2> HIDE DEF I
  <2>1. k \in I
    BY <1>2, MinProperties
  <2> QED  BY <2>1 DEF I
<1>4. RemoveFirst(s, e) = r
  BY <1>1, <1>2 DEF RemoveFirst, SelectInSeq
<1> HIDE DEF I, k
<1>5. IsRemoval(S, s, k, r)
  BY <1>3, RemoveAtIsRemoval
<1> HIDE DEF r
<1>6. r \in Seq(S) /\ Len(r) = Len(s) - 1
  BY <1>5 DEF IsRemoval
<1>7. DOMAIN r = 1..Len(r)
  BY <1>6, LenProperties
<1>8. \A j \in 1..Len(r) : r[j] = IF j < k THEN s[j] ELSE s[j + 1]
  BY <1>5 DEF IsRemoval
<1>9. ASSUME NEW a \in 1..Len(r), NEW b \in 1..Len(r), r[a] = r[b]
      PROVE  a = b
  <2> DEFINE at(j) == IF j < k THEN j ELSE j + 1
  <2>1. at(a) \in 1..Len(s) /\ at(b) \in 1..Len(s)
    BY <1>0, <1>3, <1>6
  <2>2. r[a] = s[at(a)] /\ r[b] = s[at(b)]
    BY <1>8
  <2>3. at(a) = at(b)
    BY <1>0, <1>9, <2>1, <2>2 DEF IsInjective
  <2> QED  BY <1>0, <1>3, <1>6, <2>3
<1>10. ASSUME NEW j \in 1..Len(r)
       PROVE  r[j] # e
  <2> DEFINE at == IF j < k THEN j ELSE j + 1
  <2>1. at \in 1..Len(s) /\ at # k
    BY <1>0, <1>3, <1>6
  <2>2. r[j] = s[at]
    BY <1>8
  <2> QED  BY <1>0, <1>3, <2>1, <2>2 DEF IsInjective
<1>11. e \notin Range(r)
  BY <1>6, <1>10, InRange
<1>12. Range(r) = Range(s) \ {e}
  <2>1. Range(r) \subseteq Range(s) /\ \A x \in Range(s) : x # e => x \in Range(r)
    BY <1>4, RangeRemoveFirst
  <2> QED  BY <1>11, <2>1
<1> QED  BY <1>4, <1>6, <1>7, <1>9, <1>12 DEF IsInjective

\* What Max returns for a finite non-empty set of naturals.
LEMMA MaxProperties ==
    ASSUME NEW S \in SUBSET Nat, S # {}, IsFiniteSet(S)
    PROVE  Max(S) \in S /\ \A y \in S : y <= Max(S)
<1> DEFINE HasMax(T) == \E x \in T : \A y \in T : y <= x
           Bad == {n \in Nat : \E T \in SUBSET Nat :
                      T # {} /\ IsFiniteSet(T) /\ Cardinality(T) = n /\ ~HasMax(T)}
<1>1. Bad = {}
  <2>1. SUFFICES ASSUME Bad # {}
                 PROVE  FALSE
    OBVIOUS
  <2>2. PICK n \in Bad : \A m \in Bad : n <= m
    <3>1. Bad \in SUBSET Nat
      OBVIOUS
    <3> HIDE DEF Bad
    <3> QED  BY <2>1, <3>1, LeastNumber
  <2>3. PICK T \in SUBSET Nat : T # {} /\ IsFiniteSet(T) /\ Cardinality(T) = n /\ ~HasMax(T)
    BY <2>2
  <2>4. PICK x \in T : TRUE
    BY <2>3
  <2> DEFINE U == T \ {x}
  <2>5. IsFiniteSet(U) /\ Cardinality(U) = n - 1
    BY <2>3, <2>4, FS_RemoveElement
  <2>6. n \in Nat /\ Cardinality(U) \in Nat
    BY <2>2, <2>5, FS_CardinalityType
  <2>7. CASE U = {}
    <3>1. \A y \in T : y <= x
      BY <2>4, <2>7
    <3> QED  BY <2>3, <2>4, <3>1
  <2>8. CASE U # {}
    <3>1. n - 1 \notin Bad
      BY <2>2, <2>5, <2>6
    <3>2. HasMax(U)
      <4>1. U \in SUBSET Nat /\ n - 1 \in Nat
        BY <2>5, <2>6
      <4> HIDE DEF U, HasMax
      <4> QED  BY <2>5, <2>8, <3>1, <4>1
    <3>3. PICK u \in U : \A y \in U : y <= u
      BY <3>2
    <3>4. u \in Nat /\ x \in Nat /\ u \in T
      BY <3>3
    <3>5. CASE x <= u
      <4>1. \A y \in T : y <= u
        BY <3>3, <3>5
      <4> QED  BY <2>3, <3>4, <4>1
    <3>6. CASE u <= x
      <4>1. \A y \in T : y <= x
        BY <3>3, <3>4, <3>6
      <4> QED  BY <2>3, <2>4, <4>1
    <3> QED  BY <3>4, <3>5, <3>6
  <2> QED  BY <2>7, <2>8
<1>2. Cardinality(S) \in Nat
  BY FS_CardinalityType
<1>3. HasMax(S)
  <2> HIDE DEF HasMax
  <2> QED  BY <1>1, <1>2
<1>4. \E x \in S : \A y \in S : x >= y
  BY <1>3
<1>5. Max(S) \in S /\ \A y \in S : Max(S) >= y
  BY <1>4 DEF Max
<1> QED  BY <1>5

=============================================================================
