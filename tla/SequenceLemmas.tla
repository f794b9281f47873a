--------------------------- MODULE SequenceLemmas ---------------------------
(***************************************************************************)
(* Lemmas about the sequence operators the models are built from, which    *)
(* need induction.  The library's induction theorems are about an operator *)
(* P(_); SetInduction says the same of a set, which an SMT solver and a    *)
(* first-order prover can instantiate.                                     *)
(***************************************************************************)
EXTENDS Integers, Sequences, SequencesExt, SequenceTheorems,
        WellFoundedInduction, TLAPS

\* Induction over the naturals: a set that holds 0 and is closed under
\* successor holds them all.
LEMMA SetInduction ==
  ASSUME NEW T, 0 \in T, \A n \in Nat : n \in T => n + 1 \in T
  PROVE  Nat \subseteq T
<1> SUFFICES ASSUME Nat \ T # {} PROVE FALSE
  OBVIOUS
<1>1. \E x \in Nat \ T : \A y \in Nat \ T : <<y, x>> \notin OpToRel(<, Nat)
  <2>1. Nat \ T \subseteq Nat
    OBVIOUS
  <2>. QED
    BY <2>1, NatLessThanWellFounded, WFMin
<1>2. PICK x \in Nat \ T : \A y \in Nat \ T : <<y, x>> \notin OpToRel(<, Nat)
  BY <1>1
<1>3. x # 0 /\ x - 1 \in Nat /\ (x - 1) + 1 = x
  OBVIOUS
<1>4. <<x - 1, x>> \in OpToRel(<, Nat)
  BY <1>3 DEF OpToRel
<1>. QED
  BY <1>2, <1>3, <1>4

\* Concatenation is associative, in a form that can be instantiated with
\* terms of any shape.
LEMMA ConcatAssoc ==
  ASSUME NEW S
  PROVE  \A a, b, c \in Seq(S) : a \o (b \o c) = (a \o b) \o c
  BY ConcatAssociative, SMTT(30)

\* A sequence that is not empty is its front and its last element.
LEMMA FrontLast ==
  ASSUME NEW S, NEW s \in Seq(S), s # <<>>
  PROVE  /\ Last(s) \in S /\ Front(s) \in Seq(S)
         /\ s = Append(Front(s), Last(s))
<1>1. Len(s) \in Nat \ {0} /\ DOMAIN s = 1..Len(s)
  BY EmptySeq, LenProperties
<1>2. Last(s) \in S
  BY <1>1, ElementOfSeq DEF Last
<1>3. /\ Front(s) \in Seq(S)
      /\ Len(Front(s)) = Len(s) - 1
      /\ \A i \in 1..(Len(s) - 1) : Front(s)[i] = s[i]
  BY <1>1, SubSeqProperties DEF Front
<1>4. s = Append(Front(s), Last(s))
  <2>1. Append(Front(s), Last(s)) \in Seq(S)
    BY <1>2, <1>3, AppendProperties
  <2>2. Len(Append(Front(s), Last(s))) = Len(s)
    <3>1. Len(Append(Front(s), Last(s))) = Len(Front(s)) + 1
      BY <1>2, <1>3, AppendProperties
    <3>. QED
      BY <1>1, <1>3, <3>1
  <2>3. \A i \in 1..Len(s) : Append(Front(s), Last(s))[i] = s[i]
    BY <1>1, <1>2, <1>3, AppendProperties DEF Last
  <2>. QED
    BY <2>1, <2>2, <2>3, SeqEqual
<1>. QED
  BY <1>2, <1>3, <1>4

-----------------------------------------------------------------------------
(***************************************************************************)
(* FlattenSeq                                                              *)
(***************************************************************************)
\* f holds what flattening the first 1, 2, ..., n sequences of q gives.
Flattens(f, q, n) ==
  \A i \in 1..n : f[i] = IF i = 1 THEN q[i] ELSE f[i - 1] \o q[i]

\* The partial results exist.
LEMMA FlatteningExists ==
  ASSUME NEW S, NEW q \in Seq(Seq(S))
  PROVE  \E f \in [1..Len(q) -> Seq(S)] : Flattens(f, q, Len(q))
<1> DEFINE P(n) == \E f \in [1..n -> Seq(S)] : Flattens(f, q, n)
           T == {n \in Nat : n <= Len(q) => P(n)}
<1>0. Len(q) \in Nat
  BY LenProperties
<1>1. 0 \in T
  <2>1. [i \in 1..0 |-> <<>>] \in [1..0 -> Seq(S)]
    OBVIOUS
  <2>2. Flattens([i \in 1..0 |-> <<>>], q, 0)
    BY DEF Flattens
  <2>. QED
    BY <2>1, <2>2
<1>2. ASSUME NEW n \in Nat, n \in T
      PROVE  n + 1 \in T
  <2> SUFFICES ASSUME n + 1 <= Len(q) PROVE P(n + 1)
    OBVIOUS
  <2>1. PICK f \in [1..n -> Seq(S)] : Flattens(f, q, n)
    BY <1>0, <1>2
  <2> DEFINE last == IF n = 0 THEN q[1] ELSE f[n] \o q[n + 1]
             g == [i \in 1..(n + 1) |-> IF i = n + 1 THEN last ELSE f[i]]
  <2>2. q[n + 1] \in Seq(S)
    <3>1. n + 1 \in 1..Len(q)
      BY <1>0
    <3>. QED
      BY <3>1, ElementOfSeq
  <2>3. last \in Seq(S)
    <3>1. CASE n = 0
      BY <2>2, <3>1
    <3>2. CASE n # 0
      <4>1. f[n] \in Seq(S)
        BY <3>2
      <4>. QED
        BY <2>2, <3>2, <4>1, ConcatProperties
    <3>. QED
      BY <3>1, <3>2
  <2>4. g \in [1..(n + 1) -> Seq(S)]
    <3> HIDE DEF last
    <3>. QED
      BY <2>3
  <2>5. Flattens(g, q, n + 1)
    <3> SUFFICES ASSUME NEW i \in 1..(n + 1)
                 PROVE  g[i] = IF i = 1 THEN q[i] ELSE g[i - 1] \o q[i]
      BY DEF Flattens
    <3>1. CASE i = n + 1
      <4>1. g[i] = last
        BY <3>1
      <4>2. n # 0 => g[n] = f[n]
        OBVIOUS
      <4>. QED
        BY <3>1, <4>1, <4>2
    <3>2. CASE i # n + 1
      <4>1. i \in 1..n /\ (i # 1 => i - 1 \in 1..n)
        BY <3>2
      <4>2. g[i] = f[i] /\ (i # 1 => g[i - 1] = f[i - 1])
        <5> HIDE DEF last
        <5>. QED
          BY <4>1
      <4>. QED
        BY <2>1, <4>1, <4>2 DEF Flattens
    <3>. QED
      BY <3>1, <3>2
  <2>. QED
    BY <2>4, <2>5
<1>3. Nat \subseteq T
  <2> HIDE DEF T
  <2>. QED
    BY <1>1, <1>2, SetInduction
<1>. QED
  BY <1>0, <1>3, SMTT(30)

\* The partial results are determined.
LEMMA FlatteningUnique ==
  ASSUME NEW f, NEW g, NEW q, NEW n \in Nat,
         Flattens(f, q, n), Flattens(g, q, n)
  PROVE  \A i \in 1..n : f[i] = g[i]
<1> DEFINE T == {i \in Nat : i \in 1..n => f[i] = g[i]}
<1>1. 0 \in T
  OBVIOUS
<1>2. ASSUME NEW i \in Nat, i \in T
      PROVE  i + 1 \in T
  BY <1>2 DEF Flattens
<1>3. Nat \subseteq T
  <2> HIDE DEF T
  <2>. QED
    BY <1>1, <1>2, SetInduction
<1>. QED
  BY <1>3

\* FlattenSeq(q) is the last partial result.
LEMMA FlattenValue ==
  ASSUME NEW S, NEW q \in Seq(Seq(S)), q # <<>>,
         NEW f \in [1..Len(q) -> Seq(S)], Flattens(f, q, Len(q))
  PROVE  FlattenSeq(q) = f[Len(q)]
<1> DEFINE Rec(h) == [i \in 1..Len(q) |->
                        IF i = 1 THEN q[i] ELSE h[i - 1] \o q[i]]
           g == CHOOSE h : h = Rec(h)
<1>0. Len(q) \in Nat \ {0}
  BY EmptySeq
<1>1. f = Rec(f)
  BY DEF Flattens
<1>2. g = Rec(g)
  <2> HIDE DEF Rec
  <2>. QED
    BY <1>1
<1>3. Flattens(g, q, Len(q))
  <2> HIDE DEF g
  <2>. QED
    BY <1>2 DEF Flattens
<1>4. FlattenSeq(q) = g[Len(q)]
  BY <1>0 DEF FlattenSeq
<1>. QED
  <2> HIDE DEF g
  <2>. QED
    BY <1>0, <1>3, <1>4, FlatteningUnique

\* Flattening sequences over S gives a sequence over S.
LEMMA FlattenType ==
  ASSUME NEW S, NEW q \in Seq(Seq(S))
  PROVE  FlattenSeq(q) \in Seq(S)
<1>1. CASE q = <<>>
  BY <1>1 DEF FlattenSeq
<1>2. CASE q # <<>>
  <2>1. PICK f \in [1..Len(q) -> Seq(S)] : Flattens(f, q, Len(q))
    BY FlatteningExists
  <2>2. Len(q) \in 1..Len(q)
    BY <1>2, EmptySeq
  <2>3. f[Len(q)] \in Seq(S)
    BY <2>1, <2>2
  <2>4. FlattenSeq(q) = f[Len(q)]
    BY <1>2, <2>1, FlattenValue
  <2>. QED
    BY <2>3, <2>4
<1>. QED
  BY <1>1, <1>2

\* The partial results of flattening one more sequence.
OneMoreLast(f, n, x) ==
  [i \in 1..(n + 1) |-> IF i # n + 1 THEN f[i]
                   ELSE IF n = 0 THEN x ELSE f[n] \o x]

LEMMA FlatteningAppended ==
  ASSUME NEW S, NEW n \in Nat, NEW x \in Seq(S), NEW q, NEW r,
         NEW f \in [1..n -> Seq(S)], Flattens(f, q, n),
         \A i \in 1..n : r[i] = q[i], r[n + 1] = x
  PROVE  /\ OneMoreLast(f, n, x) \in [1..(n + 1) -> Seq(S)]
         /\ Flattens(OneMoreLast(f, n, x), r, n + 1)
<1> DEFINE g == OneMoreLast(f, n, x)
<1>0. g = [i \in 1..(n + 1) |-> IF i # n + 1 THEN f[i]
                           ELSE IF n = 0 THEN x ELSE f[n] \o x]
  BY DEF OneMoreLast
<1> HIDE DEF g
<1>1. ASSUME NEW i \in 1..(n + 1)
      PROVE  /\ g[i] \in Seq(S)
             /\ g[i] = IF i = 1 THEN r[i] ELSE g[i - 1] \o r[i]
  <2>1. CASE i # n + 1
    <3>1. i \in 1..n /\ (i # 1 => i - 1 \in 1..n)
      BY <2>1
    <3>2. /\ g[i] = f[i] /\ f[i] \in Seq(S)
          /\ i # 1 => g[i - 1] = f[i - 1]
          /\ r[i] = q[i]
      BY <1>0, <3>1
    <3>3. f[i] = IF i = 1 THEN q[i] ELSE f[i - 1] \o q[i]
      BY <3>1 DEF Flattens
    <3>. QED
      BY <3>2, <3>3
  <2>2. CASE i = n + 1 /\ n = 0
    BY <1>0, <2>2
  <2>3. CASE i = n + 1 /\ n # 0
    <3>1. n \in 1..n /\ i - 1 = n /\ i # 1
      BY <2>3
    <3>2. g[i] = f[n] \o x /\ g[i - 1] = f[n] /\ f[n] \in Seq(S)
      BY <1>0, <2>3, <3>1
    <3>3. f[n] \o x \in Seq(S)
      BY <3>2, ConcatProperties
    <3>. QED
      BY <2>3, <3>1, <3>2, <3>3
  <2>. QED
    BY <2>1, <2>2, <2>3
<1>2. g \in [1..(n + 1) -> Seq(S)]
  BY <1>0, <1>1
<1>. QED
  BY <1>1, <1>2 DEF Flattens, g

\* Flattening one more sequence appends it.
LEMMA FlattenAppend ==
  ASSUME NEW S, NEW q \in Seq(Seq(S)), NEW x \in Seq(S)
  PROVE  FlattenSeq(Append(q, x)) = FlattenSeq(q) \o x
<1> DEFINE n == Len(q)
           r == Append(q, x)
<1>1. /\ r \in Seq(Seq(S)) /\ r # <<>> /\ n \in Nat /\ Len(r) = n + 1
      /\ \A i \in 1..n : r[i] = q[i]
      /\ r[n + 1] = x
      /\ n = 0 => q = <<>>
      /\ n # 0 => q # <<>>
  BY AppendProperties, LenProperties, EmptySeq
<1>2. PICK f \in [1..n -> Seq(S)] : Flattens(f, q, n)
  BY FlatteningExists
<1> DEFINE g == OneMoreLast(f, n, x)
<1>3. q # <<>> => FlattenSeq(q) = f[n]
  BY <1>2, FlattenValue
<1> HIDE DEF n, r
<1>4. g \in [1..(n + 1) -> Seq(S)] /\ Flattens(g, r, n + 1)
  BY <1>1, <1>2, FlatteningAppended
<1>5. g[n + 1] = IF n = 0 THEN x ELSE f[n] \o x
  BY <1>1 DEF OneMoreLast
<1>6. FlattenSeq(r) = g[n + 1]
  <2> HIDE DEF g
  <2>. QED
    BY <1>1, <1>4, FlattenValue
<1>7. CASE n = 0
  BY <1>1, <1>5, <1>6, <1>7, ConcatEmptySeq DEF FlattenSeq, r
<1>8. CASE n # 0
  BY <1>1, <1>3, <1>5, <1>6, <1>8 DEF r
<1>. QED
  BY <1>7, <1>8

\* The partial results of flattening with one more sequence in front.
OneMoreFirst(f, n, h) ==
  [i \in 1..(n + 1) |-> IF i = 1 THEN h ELSE h \o f[i - 1]]

LEMMA FlatteningPrepended ==
  ASSUME NEW S, NEW n \in Nat, NEW h \in Seq(S), NEW q,
         NEW r \in [1..n -> Seq(S)],
         NEW f \in [1..n -> Seq(S)], Flattens(f, r, n),
         \A i \in 1..n : q[i + 1] = r[i], q[1] = h
  PROVE  /\ OneMoreFirst(f, n, h) \in [1..(n + 1) -> Seq(S)]
         /\ Flattens(OneMoreFirst(f, n, h), q, n + 1)
<1> DEFINE g == OneMoreFirst(f, n, h)
<1>g. g = [i \in 1..(n + 1) |-> IF i = 1 THEN h ELSE h \o f[i - 1]]
  BY DEF OneMoreFirst
<1> HIDE DEF g
<1>0. \A a, b, c \in Seq(S) : a \o (b \o c) = (a \o b) \o c
  BY ConcatAssoc
<1>1. ASSUME NEW i \in 1..(n + 1)
      PROVE  /\ g[i] \in Seq(S)
             /\ g[i] = IF i = 1 THEN q[i] ELSE g[i - 1] \o q[i]
  <2>1. CASE i = 1
    BY <1>g, <2>1
  <2>2. CASE i # 1
    <3> DEFINE j == i - 1
    <3>1. /\ j \in 1..n /\ j \in 1..(n + 1) /\ i = j + 1 /\ i - 1 = j
          /\ j # 1 => j - 1 \in 1..n
      BY <2>2
    <3> HIDE DEF j
    <3>2. g[i] = h \o f[j] /\ q[i] = r[j] /\ f[j] \in Seq(S) /\ r[j] \in Seq(S)
      BY <1>g, <3>1, <2>2
    <3>3. h \o f[j] \in Seq(S)
      BY <3>2, ConcatProperties
    <3>4. f[j] = IF j = 1 THEN r[j] ELSE f[j - 1] \o r[j]
      BY <3>1 DEF Flattens
    <3>5. CASE j = 1
      <4>1. g[j] = h
        BY <1>g, <3>1, <3>5
      <4>. QED
        BY <2>2, <3>1, <3>2, <3>3, <3>4, <3>5, <4>1
    <3>6. CASE j # 1
      <4>1. g[j] = h \o f[j - 1] /\ f[j - 1] \in Seq(S)
        BY <1>g, <3>1, <3>6
      <4>2. h \o (f[j - 1] \o r[j]) = (h \o f[j - 1]) \o r[j]
        BY <1>0, <3>2, <4>1
      <4>. QED
        BY <2>2, <3>1, <3>2, <3>3, <3>4, <3>6, <4>1, <4>2
    <3>. QED
      BY <3>5, <3>6
  <2>. QED
    BY <2>1, <2>2
<1>2. g \in [1..(n + 1) -> Seq(S)]
  BY <1>g, <1>1
<1>. QED
  BY <1>1, <1>2 DEF Flattens, g

\* Flattening puts the first sequence first.
LEMMA FlattenHead ==
  ASSUME NEW S, NEW q \in Seq(Seq(S)), q # <<>>
  PROVE  FlattenSeq(q) = Head(q) \o FlattenSeq(Tail(q))
<1> DEFINE r == Tail(q)
           n == Len(r)
           h == Head(q)
<1>1. /\ r \in Seq(Seq(S)) /\ n \in Nat /\ Len(q) = n + 1
      /\ r \in [1..n -> Seq(S)]
      /\ h \in Seq(S) /\ q[1] = h
      /\ \A i \in 1..n : q[i + 1] = r[i]
      /\ n = 0 => r = <<>>
      /\ n # 0 => r # <<>>
  <2>1. /\ r \in Seq(Seq(S)) /\ Len(r) = Len(q) - 1 /\ h \in Seq(S)
        /\ \A i \in 1..Len(r) : r[i] = q[i + 1]
    BY HeadTailProperties
  <2>2. q[1] = h
    OBVIOUS
  <2> HIDE DEF r, h
  <2>3. r \in [1..n -> Seq(S)] /\ n \in Nat /\ Len(q) \in Nat
    BY <2>1, LenProperties
  <2>4. (n = 0 => r = <<>>) /\ (n # 0 => r # <<>>)
    BY <2>1, EmptySeq
  <2>. QED
    BY <2>1, <2>2, <2>3, <2>4, SMTT(30)
<1>2. PICK f \in [1..n -> Seq(S)] : Flattens(f, r, n)
  BY <1>1, FlatteningExists
<1> DEFINE g == OneMoreFirst(f, n, h)
<1>3. r # <<>> => FlattenSeq(r) = f[n]
  <2> HIDE DEF r
  <2>. QED
    BY <1>1, <1>2, FlattenValue
<1> HIDE DEF n, r, h
<1>4. g \in [1..(n + 1) -> Seq(S)] /\ Flattens(g, q, n + 1)
  BY <1>1, <1>2, FlatteningPrepended
<1>5. g[n + 1] = IF n = 0 THEN h ELSE h \o f[n]
  BY <1>1 DEF OneMoreFirst
<1>6. FlattenSeq(q) = g[n + 1]
  <2> HIDE DEF g
  <2>. QED
    BY <1>1, <1>4, FlattenValue
<1>7. CASE n = 0
  BY <1>1, <1>5, <1>6, <1>7, ConcatEmptySeq DEF FlattenSeq, r, h
<1>8. CASE n # 0
  BY <1>1, <1>3, <1>5, <1>6, <1>8 DEF r, h
<1>. QED
  BY <1>7, <1>8
=============================================================================
