------------------------ MODULE EventPipelineProofs ------------------------
(***************************************************************************)
(* Proofs about Chunking and EventPipeline: for every text and every chunk *)
(* length, and for any number of messages, channels and rows.              *)
(***************************************************************************)
EXTENDS EventPipeline, SequenceLemmas, FiniteSetTheorems

-----------------------------------------------------------------------------
(***************************************************************************)
(* chunk_message                                                           *)
(*                                                                         *)
(* chunks is recursive over texts.  The equation that defines it has a     *)
(* solution on the texts of at most n bytes, for every n, and only one, so *)
(* that it has a solution on all texts.                                    *)
(***************************************************************************)
\* One round of the loop of chunk_message, with g for the rounds after it.
Round(g, t) ==
  IF Len(t) <= MaxLen THEN <<t>>
  ELSE IF CutsCharacter(t) THEN <<Panic>>
  ELSE <<SubSeq(t, 1, SplitAt(t))>> \o g[SubSeq(t, SplitAt(t) + 1, Len(t))]

Texts(n) == {t \in Seq(Byte) : Len(t) <= n}

Cuts(g, n) == g = [t \in Texts(n) |-> Round(g, t)]

\* A nonempty set of positions has a last one.
LEMMA LastPosition ==
  ASSUME NEW n \in Nat, NEW S \in SUBSET (1..n), S # {}
  PROVE  Max(S) \in S
<1> DEFINE HasMax(R) == \E x \in R : \A y \in R : x >= y
           T == {k \in Nat : \A R \in SUBSET (1..k) : R # {} => HasMax(R)}
<1>1. 0 \in T
  <2>1. 1..0 = {}
    OBVIOUS
  <2>. QED
    BY <2>1
<1>2. ASSUME NEW k \in Nat, k \in T PROVE k + 1 \in T
  <2> SUFFICES ASSUME NEW R \in SUBSET (1..(k + 1)), R # {} PROVE HasMax(R)
    OBVIOUS
  <2>1. CASE k + 1 \in R
    BY <2>1
  <2>2. CASE k + 1 \notin R
    <3>1. R \in SUBSET (1..k)
      BY <2>2
    <3>. QED
      BY <1>2, <3>1
  <2>. QED
    BY <2>1, <2>2
<1>3. Nat \subseteq T
  <2> HIDE DEF T
  <2>. QED
    BY <1>1, <1>2, SetInduction
<1>4. HasMax(S)
  BY <1>3
<1>. QED
  BY <1>4 DEF Max

\* A text that is too long is cut into a first part of at least one and at
\* most MaxLen bytes and a shorter rest that is not empty.
LEMMA CutInTwo ==
  ASSUME NEW t \in Seq(Byte), Len(t) > MaxLen
  PROVE  LET first == SubSeq(t, 1, SplitAt(t))
             rest  == SubSeq(t, SplitAt(t) + 1, Len(t))
         IN /\ first \in Seq(Byte) /\ first # <<>> /\ Len(first) <= MaxLen
            /\ rest \in Seq(Byte) /\ rest # <<>>
            /\ Len(rest) \in Nat /\ Len(rest) + 1 <= Len(t)
            /\ first \o rest = t
<1> DEFINE newlines == {i \in 1..MaxLen : t[i] = "nl"}
           cut == SplitAt(t)
           first == SubSeq(t, 1, cut)
           rest == SubSeq(t, cut + 1, Len(t))
<1>0. Len(t) \in Nat /\ MaxLen \in Nat \ {0}
  BY LenProperties, ChunkingAssumption
<1>1. cut \in 1..MaxLen
  <2>1. CASE newlines = {}
    BY <1>0, <2>1 DEF SplitAt
  <2>2. CASE newlines # {}
    <3>1. Max(newlines) \in newlines
      <4>1. newlines \in SUBSET (1..MaxLen)
        OBVIOUS
      <4>. QED
        BY <1>0, <2>2, <4>1, LastPosition
    <3>. QED
      BY <2>2, <3>1 DEF SplitAt
  <2>. QED
    BY <2>1, <2>2
<1> HIDE DEF cut
<1>2. first \in Seq(Byte) /\ Len(first) = cut
  BY <1>0, <1>1, SubSeqProperties
<1>3. rest \in Seq(Byte) /\ Len(rest) = Len(t) - cut
  BY <1>0, <1>1, SubSeqProperties
<1>4. first \o rest = SubSeq(t, 1, Len(t))
  BY <1>0, <1>1, ConcatAdjacentSubSeq
<1>5. SubSeq(t, 1, Len(t)) = t
  BY SubSeqFull
<1>6. first # <<>> /\ rest # <<>>
  <2>1. Len(first) # 0 /\ Len(rest) # 0
    BY <1>0, <1>1, <1>2, <1>3
  <2> HIDE DEF first, rest
  <2>. QED
    BY <2>1
<1>7. Len(first) <= MaxLen /\ Len(rest) \in Nat /\ Len(rest) + 1 <= Len(t)
  BY <1>0, <1>1, <1>2, <1>3
<1>. QED
  BY <1>2, <1>3, <1>4, <1>5, <1>6, <1>7 DEF cut

\* A round looks at the later rounds for shorter texts only.
LEMMA RoundLocal ==
  ASSUME NEW t \in Seq(Byte), NEW g, NEW h,
         \A u \in Seq(Byte) : Len(u) + 1 <= Len(t) => g[u] = h[u]
  PROVE  Round(g, t) = Round(h, t)
<1>0. Len(t) \in Nat /\ MaxLen \in Nat
  BY LenProperties, ChunkingAssumption
<1>1. CASE Len(t) <= MaxLen
  BY <1>1 DEF Round
<1>2. CASE Len(t) > MaxLen
  <2> DEFINE rest == SubSeq(t, SplitAt(t) + 1, Len(t))
  <2>1. rest \in Seq(Byte) /\ Len(rest) + 1 <= Len(t)
    BY <1>2, CutInTwo
  <2>2. g[rest] = h[rest]
    BY <2>1
  <2>. QED
    BY <2>2 DEF Round
<1>. QED
  BY <1>0, <1>1, <1>2

LEMMA CutsExist == \A n \in Nat : \E g : Cuts(g, n)
<1> DEFINE T == {n \in Nat : \E g : Cuts(g, n)}
<1>1. 0 \in T
  <2> DEFINE g == [t \in Texts(0) |-> <<t>>]
  <2>1. \A t \in Texts(0) : Round(g, t) = <<t>>
    BY ChunkingAssumption DEF Round, Texts
  <2>2. Cuts(g, 0)
    BY <2>1 DEF Cuts
  <2>. QED
    BY <2>2
<1>2. ASSUME NEW n \in Nat, n \in T PROVE n + 1 \in T
  <2>1. PICK g : Cuts(g, n)
    BY <1>2
  <2> DEFINE h == [t \in Texts(n + 1) |-> Round(g, t)]
  <2>2. ASSUME NEW u \in Texts(n) PROVE h[u] = g[u]
    <3>1. g[u] = Round(g, u)
      BY <2>1, <2>2 DEF Cuts
    <3>2. u \in Texts(n + 1)
      BY <2>2, LenProperties DEF Texts
    <3>. QED
      BY <3>1, <3>2
  <2>3. ASSUME NEW t \in Texts(n + 1) PROVE Round(h, t) = Round(g, t)
    <3>1. ASSUME NEW u \in Seq(Byte), Len(u) + 1 <= Len(t)
          PROVE  u \in Texts(n)
      BY <2>3, <3>1, LenProperties DEF Texts
    <3>2. t \in Seq(Byte)
      BY DEF Texts
    <3> HIDE DEF h
    <3>. QED
      BY <2>2, <3>1, <3>2, RoundLocal
  <2>4. Cuts(h, n + 1)
    BY <2>3 DEF Cuts
  <2>. QED
    BY <2>4
<1>3. Nat \subseteq T
  <2> HIDE DEF T
  <2>. QED
    BY <1>1, <1>2, SetInduction
<1>. QED
  BY <1>3

LEMMA CutsUnique ==
  ASSUME NEW m \in Nat, NEW n \in Nat, NEW g, NEW h, Cuts(g, m), Cuts(h, n)
  PROVE  \A t \in Seq(Byte) : Len(t) <= m /\ Len(t) <= n => g[t] = h[t]
<1> DEFINE T == {k \in Nat : \A t \in Texts(k) :
                               Len(t) <= m /\ Len(t) <= n => g[t] = h[t]}
<1>0. ASSUME NEW t \in Seq(Byte), Len(t) <= m, Len(t) <= n
      PROVE  g[t] = Round(g, t) /\ h[t] = Round(h, t)
  BY <1>0 DEF Cuts, Texts
<1>1. 0 \in T
  <2> SUFFICES ASSUME NEW t \in Texts(0) PROVE g[t] = h[t]
    OBVIOUS
  <2>1. t \in Seq(Byte) /\ Len(t) = 0 /\ Len(t) <= m /\ Len(t) <= n
    BY LenProperties DEF Texts
  <2>2. Round(g, t) = <<t>> /\ Round(h, t) = <<t>>
    BY <2>1, ChunkingAssumption DEF Round
  <2>. QED
    BY <1>0, <2>1, <2>2
<1>2. ASSUME NEW k \in Nat, k \in T PROVE k + 1 \in T
  <2> SUFFICES ASSUME NEW t \in Texts(k + 1), Len(t) <= m, Len(t) <= n
               PROVE  g[t] = h[t]
    OBVIOUS
  <2>1. t \in Seq(Byte) /\ Len(t) <= k + 1 /\ Len(t) \in Nat
    BY LenProperties DEF Texts
  <2>2. ASSUME NEW u \in Seq(Byte), Len(u) + 1 <= Len(t) PROVE g[u] = h[u]
    <3>1. Len(u) \in Nat
      BY LenProperties
    <3>2. u \in Texts(k) /\ Len(u) <= m /\ Len(u) <= n
      BY <2>1, <2>2, <3>1 DEF Texts
    <3>. QED
      BY <1>2, <3>2
  <2>3. Round(g, t) = Round(h, t)
    BY <2>1, <2>2, RoundLocal
  <2>. QED
    BY <1>0, <2>1, <2>3
<1>3. Nat \subseteq T
  <2> HIDE DEF T
  <2>. QED
    BY <1>1, <1>2, SetInduction
<1>4. \A t \in Seq(Byte) : Len(t) \in T /\ t \in Texts(Len(t))
  <2> HIDE DEF T
  <2>. QED
    BY <1>3, LenProperties DEF Texts
<1>. QED
  BY <1>4

\* The recursive definition of chunks has a solution.
LEMMA ChunksEquation ==
  \A t \in Seq(Byte) : chunks[t] = Round(chunks, t)
<1> DEFINE G == [n \in Nat |-> CHOOSE g : Cuts(g, n)]
           f == [t \in Seq(Byte) |-> G[Len(t)][t]]
           F(c) == [t \in Seq(Byte) |->
             IF Len(t) <= MaxLen THEN <<t>>
             ELSE IF CutsCharacter(t) THEN <<Panic>>
             ELSE LET cut == SplitAt(t)
                  IN <<SubSeq(t, 1, cut)>> \o c[SubSeq(t, cut + 1, Len(t))]]
<1>1. \A n \in Nat : Cuts(G[n], n)
  BY CutsExist
<1> HIDE DEF G
<1>2. ASSUME NEW t \in Seq(Byte) PROVE f[t] = Round(f, t)
  <2>0. Len(t) \in Nat
    BY LenProperties
  <2>1. G[Len(t)][t] = Round(G[Len(t)], t)
    <3>1. t \in Texts(Len(t)) /\ Cuts(G[Len(t)], Len(t))
      BY <1>1, <2>0 DEF Texts
    <3> DEFINE g == G[Len(t)]
    <3>2. Cuts(g, Len(t)) /\ t \in Texts(Len(t))
      BY <3>1
    <3>3. g[t] = Round(g, t)
      <4> HIDE DEF g
      <4>. QED
        BY <3>2 DEF Cuts
    <3>. QED
      BY <3>3
  <2>2. ASSUME NEW u \in Seq(Byte), Len(u) + 1 <= Len(t)
        PROVE  G[Len(t)][u] = f[u]
    <3>1. Len(u) \in Nat /\ Len(u) <= Len(t) /\ Len(u) <= Len(u)
      BY <2>0, <2>2, LenProperties
    <3>2. Cuts(G[Len(t)], Len(t)) /\ Cuts(G[Len(u)], Len(u))
      BY <1>1, <2>0, <3>1
    <3>. QED
      BY <2>0, <3>1, <3>2, CutsUnique
  <2>3. Round(G[Len(t)], t) = Round(f, t)
    <3> HIDE DEF f
    <3>. QED
      BY <2>2, RoundLocal
  <2>. QED
    BY <2>1, <2>3
<1>3. \A c : F(c) = [t \in Seq(Byte) |-> Round(c, t)]
  BY DEF Round
<1>4. f = [t \in Seq(Byte) |-> f[t]]
  OBVIOUS
<1>5. f = F(f)
  <2> HIDE DEF f, F
  <2>. QED
    BY <1>2, <1>3, <1>4
<1>6. chunks = CHOOSE c : c = F(c)
  BY DEF chunks
<1>7. chunks = F(chunks)
  <2> HIDE DEF f, F
  <2>. QED
    BY <1>5, <1>6
<1>. QED
  BY <1>7 DEF Round

\* What is true of a list of chunks c of text t.
CutsUp(c, t) ==
  /\ c \in Seq(Seq(Byte))
  /\ FlattenSeq(c) = t
  /\ \A i \in DOMAIN c : Len(c[i]) <= MaxLen /\ (c[i] = <<>> => t = <<>>)

LEMMA OneChunk ==
  ASSUME NEW t \in Seq(Byte)
  PROVE  /\ <<t>> \in Seq(Seq(Byte))
         /\ FlattenSeq(<<t>>) = t
<1> DEFINE one == <<t>>
<1>1. one \in Seq(Seq(Byte)) /\ one # <<>> /\ Head(one) = t /\ Tail(one) = <<>>
  OBVIOUS
<1>2. FlattenSeq(one) = Head(one) \o FlattenSeq(Tail(one))
  <2> HIDE DEF one
  <2>. QED
    BY <1>1, FlattenHead
<1>3. FlattenSeq(<<>>) = <<>>
  BY DEF FlattenSeq
<1>4. t \o <<>> = t
  BY ConcatEmptySeq
<1> HIDE DEF one
<1>5. FlattenSeq(one) = t
  BY <1>1, <1>2, <1>3, <1>4
<1>. QED
  BY <1>1, <1>5 DEF one

\* One more chunk in front.
LEMMA ChunkPrepended ==
  ASSUME NEW S, NEW x, NEW c \in Seq(S)
  PROVE  /\ x \in S => <<x>> \o c \in Seq(S)
         /\ ToSet(<<x>> \o c) = {x} \cup ToSet(c)
<1> DEFINE q == <<x>> \o c
<1>1. Len(c) \in Nat /\ DOMAIN c = 1..Len(c)
  BY LenProperties
<1>2. x \in S => q \in Seq(S)
  OBVIOUS
<1>3. /\ DOMAIN q = 1..(Len(c) + 1)
      /\ q[1] = x /\ \A i \in 1..Len(c) : q[i + 1] = c[i]
  BY <1>1
<1> HIDE DEF q
<1>4. ToSet(q) = {x} \cup ToSet(c)
  <2>1. ASSUME NEW i \in DOMAIN q PROVE q[i] \in {x} \cup ToSet(c)
    <3>1. i = 1 \/ (i - 1 \in 1..Len(c) /\ (i - 1) + 1 = i)
      BY <1>1, <1>3
    <3>. QED
      BY <1>1, <1>3, <3>1 DEF ToSet
  <2>2. ASSUME NEW i \in DOMAIN c PROVE c[i] \in ToSet(q)
    <3>1. i + 1 \in DOMAIN q /\ q[i + 1] = c[i]
      BY <1>1, <1>3
    <3>. QED
      BY <3>1 DEF ToSet
  <2>3. x \in ToSet(q)
    <3>1. 1 \in DOMAIN q
      BY <1>1, <1>3
    <3>. QED
      BY <1>3, <3>1 DEF ToSet
  <2>. QED
    BY <2>1, <2>2, <2>3 DEF ToSet
<1>. QED
  BY <1>2, <1>4 DEF q

LEMMA FlattenPrepended ==
  ASSUME NEW x \in Seq(Byte), NEW c \in Seq(Seq(Byte))
  PROVE  FlattenSeq(<<x>> \o c) = x \o FlattenSeq(c)
<1> DEFINE q == <<x>> \o c
<1>1. /\ q \in Seq(Seq(Byte)) /\ q # <<>>
      /\ Head(q) = x /\ Tail(q) = c
  OBVIOUS
<1> HIDE DEF q
<1>2. FlattenSeq(q) = x \o FlattenSeq(c)
  BY <1>1, FlattenHead
<1>. QED
  BY <1>2 DEF q

\* Unless chunk_message panics, its chunks put together are the text.
THEOREM ChunksJoin ==
  \A t \in Seq(Byte) : ~Panics(t) => CutsUp(chunks[t], t)
<1> DEFINE Lists == Seq(Seq(Byte) \cup {Panic})
           Good(t) == /\ chunks[t] \in Lists
                      /\ ~Panics(t) => CutsUp(chunks[t], t)
           T == {n \in Nat : \A t \in Texts(n) : Good(t)}
<1>1. ASSUME NEW t \in Seq(Byte), Len(t) <= MaxLen PROVE Good(t)
  <2>1. chunks[t] = <<t>>
    BY <1>1, ChunksEquation DEF Round
  <2>2. <<t>> \in Lists /\ DOMAIN <<t>> = {1} /\ <<t>>[1] = t
    OBVIOUS
  <2>. QED
    BY <1>1, <2>1, <2>2, OneChunk DEF CutsUp
<1>2. 0 \in T
  <2>1. ASSUME NEW t \in Texts(0) PROVE Good(t)
    <3>1. t \in Seq(Byte) /\ Len(t) <= MaxLen
      BY ChunkingAssumption, LenProperties DEF Texts
    <3>. QED
      BY <1>1, <3>1
  <2>. QED
    BY <2>1
<1>3. ASSUME NEW n \in Nat, n \in T PROVE n + 1 \in T
  <2> SUFFICES ASSUME NEW t \in Texts(n + 1) PROVE Good(t)
    OBVIOUS
  <2>0. t \in Seq(Byte) /\ Len(t) \in Nat /\ Len(t) <= n + 1 /\ MaxLen \in Nat
    BY LenProperties, ChunkingAssumption DEF Texts
  <2>1. CASE Len(t) <= MaxLen
    BY <1>1, <2>0, <2>1
  <2>2. chunks[t] = Round(chunks, t)
    BY <2>0, ChunksEquation
  <2>3. Len(t) > MaxLen => ~(Len(t) <= MaxLen)
    BY <2>0
  <2>4. CASE Len(t) > MaxLen /\ CutsCharacter(t)
    <3>1. chunks[t] = <<Panic>>
      BY <2>4, <2>2, <2>3, Zenon DEF Round
    <3>2. <<Panic>> \in Lists /\ Panic \in ToSet(<<Panic>>)
      BY DEF ToSet
    <3>. QED
      BY <3>1, <3>2 DEF Panics
  <2>5. CASE Len(t) > MaxLen /\ ~CutsCharacter(t)
    <3> DEFINE first == SubSeq(t, 1, SplitAt(t))
               rest == SubSeq(t, SplitAt(t) + 1, Len(t))
               c == chunks[rest]
    <3>1. chunks[t] = <<first>> \o c
      BY <2>5, <2>2, <2>3, Zenon DEF Round
    <3>2. /\ first \in Seq(Byte) /\ first # <<>> /\ Len(first) <= MaxLen
          /\ rest \in Seq(Byte) /\ rest # <<>>
          /\ Len(rest) \in Nat /\ Len(rest) + 1 <= Len(t)
          /\ first \o rest = t
      BY <2>0, <2>5, CutInTwo
    <3>3. Good(rest)
      <4>1. rest \in Texts(n)
        <5> HIDE DEF rest
        <5>. QED
          BY <2>0, <3>2 DEF Texts
      <4> HIDE DEF rest, Good
      <4>. QED
        BY <1>3, <4>1
    <3>4. c \in Lists /\ (Panic \notin ToSet(c) => CutsUp(c, rest))
      BY <3>3 DEF Panics
    <3> HIDE DEF first, rest, c
    <3>5. first \in Seq(Byte) \cup {Panic}
      BY <3>2
    <3>6. chunks[t] \in Lists /\ ToSet(chunks[t]) = {first} \cup ToSet(c)
      <4>1. <<first>> \o c \in Lists
        BY <3>4, <3>5, ChunkPrepended
      <4>2. ToSet(<<first>> \o c) = {first} \cup ToSet(c)
        BY <3>4, ChunkPrepended, ZenonT(60)
      <4>. QED
        BY <3>1, <4>1, <4>2
    <3>7. ASSUME ~Panics(t) PROVE CutsUp(chunks[t], t)
      <4>1. CutsUp(c, rest)
        BY <3>4, <3>6, <3>7 DEF Panics
      <4>2. c \in Seq(Seq(Byte)) /\ FlattenSeq(c) = rest
        BY <4>1 DEF CutsUp
      <4>3. <<first>> \o c \in Seq(Seq(Byte))
        BY <3>2, <4>2, ChunkPrepended
      <4>4. FlattenSeq(<<first>> \o c) = t
        BY <3>2, <4>2, FlattenPrepended
      <4>5. ASSUME NEW i \in DOMAIN (<<first>> \o c)
            PROVE  /\ Len((<<first>> \o c)[i]) <= MaxLen
                   /\ (<<first>> \o c)[i] # <<>>
        <5>1. \/ (<<first>> \o c)[i] = first
              \/ \E j \in DOMAIN c : (<<first>> \o c)[i] = c[j]
          BY <4>2
        <5>. QED
          BY <3>2, <4>1, <5>1 DEF CutsUp
      <4>. QED
        BY <3>1, <4>3, <4>4, <4>5 DEF CutsUp
    <3>. QED
      BY <3>6, <3>7
  <2>. QED
    BY <2>0, <2>1, <2>4, <2>5
<1>4. Nat \subseteq T
  <2> HIDE DEF T
  <2>. QED
    BY <1>2, <1>3, SetInduction
<1>5. \A t \in Seq(Byte) : Len(t) \in T /\ t \in Texts(Len(t))
  <2> HIDE DEF T
  <2>. QED
    BY <1>4, LenProperties DEF Texts
<1>6. \A t \in Seq(Byte) : Good(t)
  <2> HIDE DEF Good
  <2>. QED
    BY <1>5
<1>. QED
  BY <1>6

-----------------------------------------------------------------------------
(***************************************************************************)
(* The types of the variables, without the bound on the bus                *)
(***************************************************************************)
Row == [channel: Channels, what: Messages \cup {"reply"}, second: 0..MaxSecond]

BusTypes ==
  /\ main \in {"starting", "adapting", "serving", "stopping", "draining"}
  /\ log \in Seq(Event)
  /\ next \in Nat /\ since \in Nat /\ skipped \subseteq Nat
  /\ bridge \in {"off", "receiving", "adding", "inserting", "ended"}
  /\ carried \in Messages \cup {NoMessage}
  /\ bridge \in {"adding", "inserting"} => carried \in Messages
  /\ added \in Seq(Messages) /\ unsaved \subseteq Messages

AgentTypes ==
  /\ sessions \in [Channels -> Seq(Messages)]
  /\ rows \in Seq(Row)
  /\ phase \in {"idle", "preparing", "prompting", "prompting without history",
                "storing", "publishing", "sending", "dead"}
  /\ batch \in Seq(Messages)
  /\ phase \in {"preparing", "prompting", "prompting without history",
                "storing", "publishing"} => batch # <<>>
  /\ history \in Seq(1..Len(rows)) /\ Len(history) <= HistoryLimit
  /\ reply \in Replies \cup {<<>>}
  /\ outbox \in Seq(Seq(Byte)) /\ shown \in Seq(Byte)

Types == BusTypes /\ AgentTypes

LEMMA ChannelType == \A m \in Messages : ChannelOf[m] \in Channels
  BY DEF Channels

LEMMA InitTypes == Init => Types
<1> SUFFICES ASSUME Init PROVE Types
  OBVIOUS
<1>1. \A S : <<>> \in Seq(S)
  OBVIOUS
<1>2. BusTypes
  BY <1>1 DEF Init, BusTypes
<1>3. AgentTypes
  <2>1. sessions \in [Channels -> Seq(Messages)]
    BY <1>1 DEF Init
  <2>2. Len(<<>>) = 0 /\ 0 <= HistoryLimit
    BY PipelineAssumption
  <2>. QED
    BY <1>1, <2>1, <2>2 DEF Init, AgentTypes
<1>. QED
  BY <1>2, <1>3 DEF Types

\* Publishing an event appends it to what the bus has seen.
LEMMA PublishType ==
  ASSUME BusTypes, NEW e \in Event, Publish(e)
  PROVE  /\ log' \in Seq(Event) /\ Len(log) \in Nat
         /\ Len(log') = Len(log) + 1
         /\ \A p \in 1..Len(log) : log'[p] = log[p]
         /\ log'[Len(log) + 1] = e
  BY AppendProperties, LenProperties DEF BusTypes, Publish

LEMMA DaemonBusTypes ==
  ASSUME BusTypes, DaemonStep
  PROVE  BusTypes'
<1> USE DEF bridgeVars, busVars
<1>1. CASE CoreStarted \/ CoreStopping
  <2>1. log' \in Seq(Event)
    BY <1>1, PublishType DEF CoreStarted, CoreStopping, Event
  <2>. QED
    BY <1>1, <2>1 DEF CoreStarted, CoreStopping, Publish, BusTypes
<1>2. CASE SpawnBridge
  BY <1>2, LenProperties DEF SpawnBridge, Subscribe, BusTypes
<1>3. CASE Shutdown
  BY <1>3 DEF Shutdown, BusTypes
<1>. QED
  BY <1>1, <1>2, <1>3 DEF DaemonStep

\* The oldest event of the ring.
LEMMA OldestType ==
  ASSUME BusTypes
  PROVE  /\ Oldest \in Nat \ {0} /\ Len(log) \in Nat
         /\ Oldest <= Len(log) + 1
         /\ Len(log) > Size => Oldest = Len(log) - Size + 1
         /\ Len(log) <= Size => Oldest = 1
<1>1. Len(log) \in Nat /\ Size \in Nat \ {0}
  BY LenProperties, PipelineAssumption DEF BusTypes
<1>. QED
  BY <1>1 DEF Oldest

LEMMA BridgeBusTypes ==
  ASSUME BusTypes, BridgeStep
  PROVE  BusTypes'
<1>1. CASE BridgeTakes
  <2>1. next' \in Nat
    BY <1>1 DEF BridgeTakes, Take, BusTypes
  <2>. QED
    BY <1>1, <2>1 DEF BridgeStep, BridgeTakes, Take, BusTypes
<1>2. CASE BridgeLags
  <2>1. next' \in Nat /\ skipped' \subseteq Nat
    <3>1. next..(Oldest - 1) \subseteq Nat
      BY OldestType DEF BusTypes
    <3>. QED
      BY <1>2, <3>1, OldestType DEF BridgeLags, CatchUp, BusTypes
  <2>. QED
    BY <1>2, <2>1 DEF BridgeStep, BridgeLags, CatchUp, bridgeVars, BusTypes
<1>3. CASE BridgeStops
  BY <1>3 DEF BridgeStep, BridgeStops, busVars, BusTypes
<1>4. CASE AddMessage
  <2>1. added' \in Seq(Messages)
    BY <1>4, AppendProperties DEF AddMessage, BusTypes
  <2>. QED
    BY <1>4, <2>1 DEF BridgeStep, AddMessage, busVars, BusTypes
<1>5. CASE InsertInbound
  BY <1>5 DEF BridgeStep, InsertInbound, busVars, BusTypes
<1>. QED
  BY <1>1, <1>2, <1>3, <1>4, <1>5 DEF BridgeStep

LEMMA BusTypesKept ==
  ASSUME BusTypes, [Next]_vars
  PROVE  BusTypes'
<1> USE DEF bridgeVars, busVars
<1>1. ASSUME NEW m \in Messages, Incoming(m), AdapterStep PROVE BusTypes'
  <2>1. log' \in Seq(Event)
    BY <1>1, PublishType DEF Incoming, Event
  <2>. QED
    BY <1>1, <2>1 DEF AdapterStep, Incoming, Publish, BusTypes
<1>2. ASSUME NEW t \in Replies, PublishReply(t), AgentStep PROVE BusTypes'
  <2>1. log' \in Seq(Event)
    BY <1>2, PublishType DEF PublishReply, Event
  <2>. QED
    BY <1>2, <2>1 DEF AgentStep, PublishReply, Publish, BusTypes
<1>3. CASE UNCHANGED <<main, busVars, bridgeVars>>
  BY <1>3 DEF BusTypes
<1>4. CASE AgentStep
  BY <1>2, <1>3, <1>4
  DEF AgentStep, TakeUp, LoadHistory, LoadHistoryFails, Answer, Apologise,
      InsertOutbound, SendChunk, Sent, AgentStops
<1>5. CASE AdapterStep
  BY <1>1, <1>5 DEF AdapterStep
<1>6. CASE UNCHANGED vars
  BY <1>3, <1>6 DEF vars
<1>7. CASE OtherStep
  <2>1. log' \in Seq(Event)
    BY <1>7, PublishType DEF OtherStep, Event
  <2>. QED
    BY <1>7, <2>1 DEF OtherStep, Publish, BusTypes
<1>. QED
  BY <1>4, <1>5, <1>6, <1>7, DaemonBusTypes, BridgeBusTypes DEF Next

\* Inserting a row appends it and leaves the others as they are.
LEMMA InsertType ==
  ASSUME rows \in Seq(Row), NEW c \in Channels,
         NEW w \in Messages \cup {"reply"}, InsertRow(c, w)
  PROVE  /\ rows' \in Seq(Row) /\ Len(rows) \in Nat
         /\ Len(rows') = Len(rows) + 1
         /\ \A i \in 1..Len(rows) : rows'[i] = rows[i]
         /\ rows'[Len(rows) + 1].what = w
         /\ rows'[Len(rows) + 1].channel = c
<1> DEFINE now == IF rows = <<>> THEN 0 ELSE Last(rows).second
<1>0. Len(rows) \in Nat /\ MaxSecond \in Nat
  BY LenProperties, PipelineAssumption
<1>1. now \in 0..MaxSecond
  <2>1. CASE rows = <<>>
    BY <1>0, <2>1
  <2>2. CASE rows # <<>>
    <3>1. Last(rows) \in Row
      BY <2>2, FrontLast
    <3>. QED
      BY <2>2, <3>1 DEF Row
  <2>. QED
    BY <2>1, <2>2
<1>2. PICK r \in [channel: {c}, what: {w}, second: now..MaxSecond] :
        rows' = Append(rows, r)
  BY DEF InsertRow, Rows
<1>3. r \in Row /\ r.what = w /\ r.channel = c
  <2> HIDE DEF now
  <2>. QED
    BY <1>0, <1>1, <1>2 DEF Row
<1>. QED
  BY <1>0, <1>2, <1>3, AppendProperties

LEMMA ReverseType ==
  ASSUME NEW S, NEW s \in Seq(S)
  PROVE  /\ Reverse(s) \in Seq(S) /\ Len(Reverse(s)) = Len(s)
         /\ ToSet(Reverse(s)) = ToSet(s)
<1>1. Len(s) \in Nat /\ DOMAIN s = 1..Len(s)
  BY LenProperties
<1>2. \A i \in 1..Len(s) : /\ Len(s) - i + 1 \in 1..Len(s)
                           /\ Len(s) - (Len(s) - i + 1) + 1 = i
  BY <1>1
<1> DEFINE r == [i \in 1..Len(s) |-> s[(Len(s) - i) + 1]]
<1>3. \A i \in 1..Len(s) : r[i] = s[Len(s) - i + 1] /\ r[i] \in S
  BY <1>1, <1>2, ElementOfSeq
<1>4. r \in Seq(S) /\ Len(r) = Len(s) /\ DOMAIN r = 1..Len(s)
  <2>1. r \in [1..Len(s) -> S]
    BY <1>3
  <2>. QED
    BY <1>1, <2>1, IsASeq
<1> HIDE DEF r
<1>5. ToSet(r) = ToSet(s)
  <2>1. ASSUME NEW i \in 1..Len(s)
        PROVE  r[i] \in ToSet(s) /\ s[i] \in ToSet(r)
    BY <1>1, <1>2, <1>3, <1>4 DEF ToSet
  <2>. QED
    BY <1>1, <1>4, <2>1 DEF ToSet
<1>. QED
  BY <1>4, <1>5 DEF Reverse, r

LEMMA RowsOfFinite ==
  ASSUME rows \in Seq(Row)
  PROVE  \A c : /\ RowsOf(c) \subseteq 1..Len(rows)
                /\ IsFiniteSet(RowsOf(c)) /\ Cardinality(RowsOf(c)) \in Nat
<1>1. Len(rows) \in Nat /\ DOMAIN rows = 1..Len(rows)
  BY LenProperties
<1>2. IsFiniteSet(1..Len(rows))
  BY <1>1, FS_Interval
<1>3. \A c : RowsOf(c) \in SUBSET (1..Len(rows))
  BY <1>1 DEF RowsOf
<1>. QED
  BY <1>2, <1>3, FS_Subset, FS_CardinalityType

\* What a SELECT of the newest n rows of channel c returns.
LEMMA NewestRows ==
  ASSUME rows \in Seq(Row), NEW c, NEW n \in Nat, NEW s \in Newest(c, n)
  PROVE  /\ s \in Seq(RowsOf(c))
         /\ ToSet(s) \subseteq RowsOf(c) /\ IsFiniteSet(ToSet(s))
         /\ Cardinality(ToSet(s)) = Len(s)
         /\ Len(s) <= n
         /\ Len(s) = n \/ Len(s) = Cardinality(RowsOf(c))
         /\ \A i \in RowsOf(c) \ ToSet(s), j \in ToSet(s) :
              rows[i].second <= rows[j].second
<1>1. PICK S \in SUBSET RowsOf(c) : s \in SetToSeqs(S)
  BY DEF Newest
<1>2. /\ Len(s) = Min({n, Cardinality(RowsOf(c))})
      /\ \A i \in RowsOf(c) \ ToSet(s), j \in ToSet(s) :
           rows[i].second <= rows[j].second
  BY DEF Newest
<1> DEFINE k == Cardinality(S)
<1>3. IsFiniteSet(S) /\ k \in Nat
  BY RowsOfFinite, FS_Subset, FS_CardinalityType
<1>4. s \in [1..k -> S] /\ \A i, j \in 1..k : i # j => s[i] # s[j]
  BY <1>1 DEF SetToSeqs
<1> HIDE DEF k
<1>5. s \in Seq(RowsOf(c)) /\ Len(s) = k /\ DOMAIN s = 1..k
  <2>1. s \in [1..k -> RowsOf(c)]
    BY <1>4
  <2>. QED
    BY <1>3, <2>1, IsASeq
<1>6. ToSet(s) \subseteq RowsOf(c)
  BY <1>4, <1>5 DEF ToSet
<1>7. IsFiniteSet(ToSet(s)) /\ Cardinality(ToSet(s)) = k
  <2>1. s \in Surjection(1..k, ToSet(s)) /\ s \in Injection(1..k, ToSet(s))
    BY <1>4, <1>5 DEF ToSet, Surjection, Injection, IsInjective
  <2>2. IsFiniteSet(1..k) /\ Cardinality(1..k) = k
    BY <1>3, FS_Interval
  <2>. QED
    BY <2>1, <2>2, FS_Surjection
<1>8. Len(s) <= n /\ (Len(s) = n \/ Len(s) = Cardinality(RowsOf(c)))
  <2> DEFINE a == Cardinality(RowsOf(c))
  <2>1. a \in Nat
    BY RowsOfFinite
  <2> HIDE DEF a
  <2>2. Min({n, a}) = IF n <= a THEN n ELSE a
    BY <2>1 DEF Min
  <2>. QED
    BY <1>2, <2>1, <2>2 DEF a
<1>. QED
  BY <1>2, <1>5, <1>6, <1>7, <1>8

LEMMA AgentTypesKept ==
  ASSUME BusTypes, AgentTypes, [Next]_vars
  PROVE  AgentTypes'
<1> USE DEF agentVars
<1>0. \A S : <<>> \in Seq(S)
  OBVIOUS
<1>1. CASE UNCHANGED <<sessions, rows, agentVars>>
  BY <1>1 DEF AgentTypes
<1>2. ASSUME BridgeStep, AddMessage PROVE AgentTypes'
  <2>1. sessions' \in [Channels -> Seq(Messages)]
    <3>1. carried \in Messages /\ ChannelOf[carried] \in Channels
      BY <1>2, ChannelType DEF AddMessage, BusTypes
    <3>2. Append(sessions[ChannelOf[carried]], carried) \in Seq(Messages)
      BY <3>1, AppendProperties DEF AgentTypes
    <3>. QED
      BY <1>2, <3>2 DEF AddMessage, AgentTypes
  <2>. QED
    BY <1>2, <2>1 DEF BridgeStep, AddMessage, AgentTypes
\* A row more leaves the row ids of the history what they are.
<1>3. ASSUME NEW c \in Channels, NEW w \in Messages \cup {"reply"},
             InsertRow(c, w)
      PROVE  rows' \in Seq(Row) /\ history \in Seq(1..Len(rows'))
  <2>1. /\ rows' \in Seq(Row) /\ Len(rows) \in Nat
        /\ Len(rows') = Len(rows) + 1
    BY <1>3, InsertType DEF AgentTypes
  <2>2. 1..Len(rows) \subseteq 1..Len(rows')
    BY <2>1
  <2>. QED
    BY <2>1, <2>2, SeqMonotonic DEF AgentTypes
<1>4. ASSUME BridgeStep, InsertInbound PROVE AgentTypes'
  <2>1. carried \in Messages /\ ChannelOf[carried] \in Channels
    BY <1>4, ChannelType DEF InsertInbound, BusTypes
  <2>2. rows' \in Seq(Row) /\ history \in Seq(1..Len(rows'))
    BY <1>3, <1>4, <2>1 DEF InsertInbound, AgentTypes
  <2>. QED
    BY <1>4, <2>2 DEF BridgeStep, InsertInbound, AgentTypes
<1>5. CASE BridgeStep
  BY <1>1, <1>2, <1>4, <1>5
  DEF BridgeStep, BridgeTakes, BridgeLags, BridgeStops
<1>6. ASSUME Forget, UNCHANGED <<sessions, rows>>, phase' \in {"idle", "dead"}
      PROVE  AgentTypes'
  <2>1. Len(<<>>) = 0 /\ 0 <= HistoryLimit
    BY PipelineAssumption
  <2>. QED
    BY <1>0, <1>6, <2>1 DEF Forget, AgentTypes
<1>7. ASSUME NEW c \in Channels, TakeUp(c) PROVE AgentTypes'
  <2>1. sessions[c] \in Seq(Messages) /\ sessions[c] # <<>>
    BY <1>7 DEF TakeUp, AgentTypes
  <2>2. sessions' \in [Channels -> Seq(Messages)]
    BY <1>0, <1>7 DEF TakeUp, AgentTypes
  <2>. QED
    BY <1>7, <2>1, <2>2 DEF TakeUp, AgentTypes
<1>8. CASE LoadHistory
  <2>1. PICK s \in Newest(ChannelOf[Head(batch)], HistoryLimit) :
          history' = Reverse(s)
    BY <1>8 DEF LoadHistory, RecentMessages
  <2> DEFINE c == ChannelOf[Head(batch)]
  <2>2. s \in Seq(RowsOf(c)) /\ Len(s) <= HistoryLimit
    BY <2>1, NewestRows, PipelineAssumption DEF AgentTypes
  <2>3. RowsOf(c) \subseteq 1..Len(rows)
    BY RowsOfFinite DEF AgentTypes
  <2>4. s \in Seq(1..Len(rows))
    BY <2>2, <2>3, SeqMonotonic
  <2>5. history' \in Seq(1..Len(rows)) /\ Len(history') <= HistoryLimit
    BY <2>1, <2>2, <2>4, ReverseType
  <2>. QED
    BY <1>8, <2>5 DEF LoadHistory, AgentTypes
<1>9. CASE LoadHistoryFails
  BY <1>9 DEF LoadHistoryFails, AgentTypes
<1>10. CASE Answer
  <2>1. Len(<<>>) = 0 /\ 0 <= HistoryLimit
    BY PipelineAssumption
  <2>. QED
    BY <1>0, <1>10, <2>1 DEF Answer, Prompting, AgentTypes
<1>11. CASE Apologise \/ Sent \/ AgentStops
  BY <1>6, <1>11 DEF Apologise, Sent, AgentStops, Finished, Ended
<1>12. CASE InsertOutbound
  <2>1. ChannelOf[Head(batch)] \in Channels
    <3>1. Head(batch) \in Messages
      BY <1>12, HeadTailProperties DEF InsertOutbound, AgentTypes
    <3>. QED
      BY <3>1, ChannelType
  <2>2. rows' \in Seq(Row) /\ history \in Seq(1..Len(rows'))
    BY <1>3, <1>12, <2>1 DEF InsertOutbound, AgentTypes
  <2>. QED
    BY <1>12, <2>2 DEF InsertOutbound, AgentTypes
<1>13. ASSUME NEW t \in Replies, PublishReply(t) PROVE AgentTypes'
  <2>1. CASE Finished \/ (Panics(t) /\ Ended)
    BY <1>6, <1>13, <2>1 DEF PublishReply, Finished, Ended
  <2>2. CASE /\ ~Panics(t) /\ phase' = "sending" /\ reply' = t
             /\ outbox' = chunks[t] /\ UNCHANGED <<batch, history, shown>>
    <3>1. chunks[t] \in Seq(Seq(Byte))
      BY <2>2, ChunksJoin, PipelineAssumption DEF CutsUp
    <3>. QED
      BY <1>13, <2>2, <3>1 DEF PublishReply, AgentTypes
  <2>. QED
    BY <1>13, <2>1, <2>2 DEF PublishReply
<1>14. CASE SendChunk
  <2>1. Head(outbox) \in Seq(Byte) /\ Tail(outbox) \in Seq(Seq(Byte))
    BY <1>14, HeadTailProperties DEF SendChunk, AgentTypes
  <2>2. shown \o Head(outbox) \in Seq(Byte)
    BY <2>1, ConcatProperties DEF AgentTypes
  <2>3. CASE Finished
    BY <1>6, <1>14, <2>3 DEF SendChunk, Finished
  <2>4. CASE /\ shown' = shown \o Head(outbox) /\ outbox' = Tail(outbox)
             /\ UNCHANGED <<phase, batch, history, reply>>
    BY <1>14, <2>1, <2>2, <2>4 DEF SendChunk, AgentTypes
  <2>. QED
    BY <1>14, <2>3, <2>4 DEF SendChunk
<1>15. CASE AgentStep
  BY <1>7, <1>8, <1>9, <1>10, <1>11, <1>12, <1>13, <1>14, <1>15 DEF AgentStep
<1>. QED
  BY <1>1, <1>5, <1>15 DEF Next, DaemonStep, AdapterStep, OtherStep, vars

LEMMA TypesInvariant == Spec => []Types
<1>1. Types /\ [Next]_vars => Types'
  BY BusTypesKept, AgentTypesKept DEF Types
<1>. QED
  BY <1>1, InitTypes, PTL DEF Spec

-----------------------------------------------------------------------------
(***************************************************************************)
(* The bus and the bridge                                                  *)
(*                                                                         *)
(* Seen from the bridge, everybody else either publishes an event or does  *)
(* nothing, and may insert a reply.                                        *)
(***************************************************************************)
Replied == rows' = rows \/ \E c \in Channels : InsertRow(c, "reply")

NoBridge == main \in {"starting", "adapting"}

Elsewhere(e) ==
  /\ Publish(e)
  /\ e \in Messages => e \notin ToSet(log)
  /\ UNCHANGED bridgeVars
  /\ NoBridge' <=> NoBridge
  /\ Replied

Nowhere ==
  /\ UNCHANGED <<busVars, bridgeVars>>
  /\ NoBridge' <=> NoBridge
  /\ Replied

LEMMA EventTypes ==
  /\ "core_started" \in Event /\ "core_stopping" \in Event
  /\ "interface_reply" \in Event /\ Messages \subseteq Event
  /\ "core_started" \notin Messages /\ "core_stopping" \notin Messages
  /\ "interface_reply" \notin Messages /\ "reply" \notin Messages
  /\ "other" \in Event /\ "other" \notin Messages
  BY PipelineAssumption DEF Event

LEMMA Moves ==
  ASSUME Types, [Next]_vars
  PROVE  \/ \E e \in Event : Elsewhere(e)
         \/ Nowhere
         \/ SpawnBridge /\ UNCHANGED rows
         \/ BridgeStep
<1> USE DEF Elsewhere, Nowhere, Replied, NoBridge
<1>1. CASE DaemonStep
  BY <1>1, EventTypes
  DEF DaemonStep, CoreStarted, CoreStopping, Shutdown, Publish
<1>2. CASE AdapterStep \/ OtherStep
  BY <1>2, EventTypes DEF AdapterStep, Incoming, OtherStep
<1>3. CASE AgentStep
  <2>1. main' = main /\ UNCHANGED bridgeVars
    BY <1>3 DEF AgentStep
  <2>2. ASSUME NEW t \in Replies, PublishReply(t)
        PROVE  \E e \in Event : Elsewhere(e)
    BY <2>1, <2>2, EventTypes DEF PublishReply
  <2>3. CASE InsertOutbound
    <3>1. ChannelOf[Head(batch)] \in Channels
      <4>1. Head(batch) \in Messages
        BY <2>3, HeadTailProperties DEF InsertOutbound, Types, AgentTypes
      <4>. QED
        BY <4>1, ChannelType
    <3>. QED
      BY <2>1, <2>3, <3>1 DEF InsertOutbound
  <2>. QED
    BY <1>3, <2>1, <2>2, <2>3
    DEF AgentStep, TakeUp, LoadHistory, LoadHistoryFails, Answer, Apologise,
        SendChunk, Sent, AgentStops
<1>4. CASE UNCHANGED vars
  BY <1>4 DEF vars
<1>. QED
  BY <1>1, <1>2, <1>3, <1>4 DEF Next

\* The bridge's place on the bus.
BusInv ==
  /\ bridge = "off" <=> NoBridge
  /\ bridge = "off" => /\ next = 0 /\ since = 0 /\ skipped = {}
                       /\ added = <<>> /\ unsaved = {}
  /\ bridge # "off" => 1 <= since /\ since <= next
  /\ next <= Len(log) + 1
  /\ \A p \in skipped : 1 <= p /\ p < next /\ p + Size <= Len(log)

LEMMA BusKept ==
  ASSUME Types, BusInv, [Next]_vars
  PROVE  BusInv'
<1> USE DEF Types
<1>0. Len(log) \in Nat /\ Size \in Nat
  BY LenProperties, PipelineAssumption DEF BusTypes
<1>1. ASSUME NEW e \in Event, Elsewhere(e) PROVE BusInv'
  <2>1. Len(log') = Len(log) + 1
    BY <1>1, PublishType DEF Elsewhere
  <2>. QED
    BY <1>0, <1>1, <2>1 DEF Elsewhere, Publish, bridgeVars, BusInv, BusTypes
<1>2. CASE Nowhere
  BY <1>2 DEF Nowhere, busVars, bridgeVars, BusInv
<1>3. CASE SpawnBridge
  BY <1>0, <1>3 DEF SpawnBridge, Subscribe, BusInv, NoBridge, BusTypes
<1>4. CASE BridgeStep
  <2>0. main' = main
    BY <1>4 DEF BridgeStep
  <2>1. CASE BridgeTakes
    BY <1>0, <2>0, <2>1
    DEF BridgeTakes, Take, BusInv, BusTypes, NoBridge
  <2>2. CASE BridgeLags
    <3>1. Oldest = Len(log) - Size + 1 /\ Oldest \in Nat
      BY <1>0, <2>2, OldestType DEF BridgeLags, CatchUp, BusInv, BusTypes
    <3>2. next' = Oldest /\ next < Oldest
          /\ skipped' = skipped \cup (next..(Oldest - 1))
          /\ UNCHANGED <<log, since, bridge, added, unsaved>>
          /\ bridge = "receiving"
      BY <2>2 DEF BridgeLags, CatchUp, bridgeVars
    <3>3. \A p \in skipped' : 1 <= p /\ p < next' /\ p + Size <= Len(log)
      BY <1>0, <3>1, <3>2 DEF BusInv, BusTypes
    <3>. QED
      BY <1>0, <2>0, <3>1, <3>2, <3>3 DEF BusInv, BusTypes, NoBridge
  <2>3. CASE BridgeStops \/ AddMessage \/ InsertInbound
    BY <2>0, <2>3
    DEF BridgeStops, AddMessage, InsertInbound, busVars, BusInv, NoBridge
  <2>. QED
    BY <1>4, <2>1, <2>2, <2>3 DEF BridgeStep
<1>. QED
  BY <1>1, <1>2, <1>3, <1>4, Moves

\* Every message is published once and reaches the sessions at most once, and
\* the one in the bridge's hands is the last it has taken.
OnceInv ==
  /\ \A p, q \in 1..Len(log) :
       log[p] = log[q] /\ log[p] \in Messages => p = q
  /\ bridge \in {"adding", "inserting"} =>
       /\ since <= next - 1 /\ next - 1 \notin skipped
       /\ log[next - 1] = carried
  /\ \A m \in ToSet(added) :
       \E p \in 1..(next - 1) :
         log[p] = m /\ (bridge = "adding" => p # next - 1)
  /\ \A i, j \in 1..Len(added) : added[i] = added[j] => i = j
  /\ bridge = "inserting" => Len(added) # 0 /\ added[Len(added)] = carried
  /\ \A m \in unsaved :
       m \in ToSet(added) /\ (bridge = "inserting" => m # carried)

LEMMA CarriedIsNew ==
  ASSUME Types, BusInv, OnceInv, bridge = "adding"
  PROVE  carried \in Messages /\ carried \notin ToSet(added)
         /\ carried \notin unsaved
<1>1. Len(log) \in Nat
  BY LenProperties DEF Types, BusTypes
<1>2. carried \in Messages /\ next - 1 \in 1..Len(log)
  BY <1>1 DEF Types, BusTypes, BusInv, OnceInv
<1>3. ASSUME carried \in ToSet(added) PROVE FALSE
  <2>1. PICK p \in 1..(next - 1) : log[p] = carried /\ p # next - 1
    BY <1>3 DEF OnceInv
  <2>2. p \in 1..Len(log)
    BY <1>1, <1>2
  <2>. QED
    BY <1>2, <2>1, <2>2 DEF OnceInv
<1>. QED
  BY <1>2, <1>3 DEF OnceInv

LEMMA OnceKept ==
  ASSUME Types, BusInv, OnceInv, [Next]_vars
  PROVE  OnceInv'
<1> USE DEF Types
<1>0. /\ Len(log) \in Nat /\ DOMAIN log = 1..Len(log)
      /\ Len(added) \in Nat /\ DOMAIN added = 1..Len(added)
  BY LenProperties DEF BusTypes
<1>1. ASSUME NEW e \in Event, Elsewhere(e) PROVE OnceInv'
  <2>1. /\ Len(log') = Len(log) + 1
        /\ \A p \in 1..Len(log) : log'[p] = log[p]
        /\ log'[Len(log) + 1] = e
    BY <1>1, PublishType DEF Elsewhere
  <2>2. UNCHANGED <<next, since, skipped, bridge, carried, added, unsaved>>
    BY <1>1 DEF Elsewhere, Publish, bridgeVars
  <2>3. ASSUME NEW p \in 1..Len(log'), NEW q \in 1..Len(log'),
               log'[p] = log'[q], log'[p] \in Messages
        PROVE  p = q
    <3>1. e \in Messages => \A r \in 1..Len(log) : log[r] # e
      BY <1>0, <1>1 DEF Elsewhere, ToSet
    <3>2. (p \in 1..Len(log) \/ p = Len(log) + 1)
          /\ (q \in 1..Len(log) \/ q = Len(log) + 1)
      BY <1>0, <2>1
    <3>. QED
      BY <2>1, <2>3, <3>1, <3>2 DEF OnceInv
  <2>4. \A p \in 1..(next - 1) : p \in 1..Len(log)
    BY <1>0 DEF BusInv, BusTypes
  <2>5. bridge \in {"adding", "inserting"} => next - 1 \in 1..(next - 1)
    BY DEF BusInv, BusTypes, OnceInv
  <2>6. \A m \in ToSet(added) :
          \E p \in 1..(next - 1) :
            log'[p] = m /\ (bridge = "adding" => p # next - 1)
    BY <2>1, <2>4 DEF OnceInv
  <2>7. bridge \in {"adding", "inserting"} => log'[next - 1] = carried
    BY <2>1, <2>4, <2>5 DEF OnceInv
  <2>. QED
    BY <2>2, <2>3, <2>6, <2>7 DEF OnceInv
<1>2. CASE Nowhere
  BY <1>2 DEF Nowhere, busVars, bridgeVars, OnceInv
<1>3. CASE SpawnBridge
  <2>1. added = <<>> /\ ToSet(<<>>) = {}
    BY <1>3 DEF SpawnBridge, BusInv, NoBridge, ToSet
  <2>. QED
    BY <1>3, <2>1 DEF SpawnBridge, Subscribe, OnceInv
<1>4. CASE BridgeTakes
  <2>1. /\ next' = next + 1 /\ next \in 1..Len(log)
        /\ bridge = "receiving" /\ bridge' \in {"receiving", "adding"}
        /\ bridge' = "adding" => carried' = log[next]
        /\ UNCHANGED <<log, since, skipped, added, unsaved>>
    BY <1>0, <1>4, OldestType DEF BridgeTakes, Take, BusTypes, BusInv
  <2>2. next \notin skipped /\ since <= next /\ (next + 1) - 1 = next
    BY <2>1 DEF BusInv, BusTypes
  <2>3. \A p \in 1..(next - 1) : p \in 1..next /\ p # next
    BY <2>1 DEF BusTypes
  <2>4. \A m \in ToSet(added) : \E p \in 1..next : log[p] = m /\ p # next
    BY <2>3 DEF OnceInv
  <2>. QED
    BY <2>1, <2>2, <2>4 DEF OnceInv
<1>5. CASE BridgeLags
  <2>1. /\ next' = Oldest /\ next < Oldest /\ bridge = "receiving"
        /\ UNCHANGED <<log, since, bridge, carried, added, unsaved>>
    BY <1>5 DEF BridgeLags, CatchUp, bridgeVars
  <2>2. \A p \in 1..(next - 1) : p \in 1..(Oldest - 1)
    BY <2>1, OldestType DEF BusTypes
  <2>. QED
    BY <2>1, <2>2 DEF OnceInv
<1>6. CASE BridgeStops
  BY <1>6 DEF BridgeStops, busVars, OnceInv
<1>7. CASE AddMessage
  <2>1. /\ bridge = "adding" /\ bridge' = "inserting"
        /\ added' = Append(added, carried)
        /\ UNCHANGED <<log, next, since, skipped, carried, unsaved>>
    BY <1>7 DEF AddMessage, busVars
  <2>2. carried \in Messages /\ carried \notin ToSet(added)
        /\ carried \notin unsaved
    BY <2>1, CarriedIsNew
  <2>3. /\ Len(added') = Len(added) + 1 /\ DOMAIN added' = 1..Len(added')
        /\ \A k \in 1..Len(added) : added'[k] = added[k]
        /\ added'[Len(added) + 1] = carried
    <3>1. added' \in Seq(Messages)
      BY <2>1, <2>2, AppendProperties DEF BusTypes
    <3>. QED
      BY <2>1, <2>2, <3>1, AppendProperties, LenProperties DEF BusTypes
  <2>4. \A k \in 1..Len(added') : k \in 1..Len(added) \/ k = Len(added) + 1
    BY <1>0, <2>3
  <2>5. \A k \in 1..Len(added) : added[k] # carried
    BY <1>0, <2>2 DEF ToSet
  <2>6. \A k, l \in 1..Len(added') : added'[k] = added'[l] => k = l
    BY <2>3, <2>4, <2>5 DEF OnceInv
  <2>7. ToSet(added') = ToSet(added) \cup {carried}
    <3>1. Len(added) + 1 \in 1..Len(added')
          /\ \A k \in 1..Len(added) : k \in 1..Len(added')
      BY <1>0, <2>3
    <3>2. \A k \in 1..Len(added') : added'[k] \in ToSet(added) \cup {carried}
      BY <1>0, <2>3, <2>4 DEF ToSet
    <3>3. carried \in ToSet(added')
      BY <2>3, <3>1 DEF ToSet
    <3>4. \A k \in 1..Len(added) : added[k] \in ToSet(added')
      BY <2>3, <3>1 DEF ToSet
    <3>. QED
      BY <1>0, <2>3, <3>2, <3>3, <3>4 DEF ToSet
  <2>8. next - 1 \in 1..(next - 1) /\ log[next - 1] = carried
    BY <2>1 DEF OnceInv, BusInv, BusTypes
  <2>9. \A m \in ToSet(added') : \E p \in 1..(next - 1) : log[p] = m
    BY <2>7, <2>8 DEF OnceInv
  <2>10. Len(added') # 0 /\ added'[Len(added')] = carried
    BY <1>0, <2>3
  <2>. QED
    BY <2>1, <2>2, <2>6, <2>7, <2>9, <2>10 DEF OnceInv
<1>8. CASE InsertInbound
  <2>1. /\ bridge = "inserting" /\ bridge' = "receiving"
        /\ unsaved' = unsaved \/ unsaved' = unsaved \cup {carried}
        /\ UNCHANGED <<log, next, since, skipped, added>>
    BY <1>8 DEF InsertInbound, busVars
  <2>2. carried \in ToSet(added)
    <3>1. Len(added) \in 1..Len(added)
      BY <1>0, <2>1 DEF OnceInv
    <3>. QED
      BY <1>0, <2>1, <3>1 DEF OnceInv, ToSet
  <2>. QED
    BY <2>1, <2>2 DEF OnceInv
<1>. QED
  BY <1>1, <1>2, <1>3, <1>4, <1>5, <1>6, <1>7, <1>8, Moves DEF BridgeStep

LEMMA BridgeInvariant == Spec => [](BusInv /\ OnceInv)
<1>1. Init => BusInv /\ OnceInv
  <2> SUFFICES ASSUME Init PROVE BusInv /\ OnceInv
    OBVIOUS
  <2>1. Len(log) = 0 /\ Len(added) = 0 /\ ToSet(added) = {} /\ 1..0 = {}
    BY DEF Init, ToSet
  <2>2. BusInv
    BY <2>1 DEF Init, BusInv, NoBridge
  <2>3. OnceInv
    BY <2>1 DEF Init, OnceInv
  <2>. QED
    BY <2>2, <2>3
<1>2. Types /\ BusInv /\ OnceInv /\ [Next]_vars => BusInv' /\ OnceInv'
  BY BusKept, OnceKept
<1>. QED
  BY <1>1, <1>2, TypesInvariant, PTL DEF Spec

-----------------------------------------------------------------------------
(***************************************************************************)
(* Listings                                                                *)
(***************************************************************************)
\* A listing looks at its positions only.
LEMMA ListingSame ==
  ASSUME NEW s, NEW I, NEW t, NEW J, NEW s2, NEW t2,
         SameListing(s, I, t, J),
         \A i \in I : s2[i] = s[i], \A j \in J : t2[j] = t[j]
  PROVE  SameListing(s2, I, t2, J)
  BY DEF SameListing

\* A position more at the end of each, with the same element.
LEMMA ListingExtended ==
  ASSUME NEW I \in SUBSET Nat, IsFiniteSet(I), NEW i \in Nat,
         \A x \in I : x < i,
         NEW J \in SUBSET Nat, IsFiniteSet(J), NEW j \in Nat,
         \A y \in J : y < j,
         NEW s, NEW t, SameListing(s, I, t, J), s[i] = t[j]
  PROVE  SameListing(s, I \cup {i}, t, J \cup {j})
<1>1. ASSUME NEW K \in SUBSET Nat, IsFiniteSet(K), NEW k \in Nat,
             \A x \in K : x < k
      PROVE  /\ Cardinality(K) \in Nat
             /\ Cardinality(K \cup {k}) = Cardinality(K) + 1
             /\ Rank(K \cup {k}, k) = Cardinality(K) + 1
             /\ \A x \in K : /\ Rank(K \cup {k}, x) = Rank(K, x)
                             /\ Rank(K, x) \in Nat
                             /\ Rank(K, x) <= Cardinality(K)
  <2>1. k \notin K
    BY <1>1
  <2>2. Cardinality(K) \in Nat /\ Cardinality(K \cup {k}) = Cardinality(K) + 1
    BY <1>1, <2>1, FS_AddElement, FS_CardinalityType
  <2>3. {y \in K \cup {k} : y <= k} = K \cup {k}
    <3>1. \A y \in K \cup {k} : y <= k
      BY <1>1
    <3>. QED
      BY <3>1
  <2>4. ASSUME NEW x \in K
        PROVE  /\ Rank(K \cup {k}, x) = Rank(K, x)
               /\ Rank(K, x) \in Nat /\ Rank(K, x) <= Cardinality(K)
    <3>1. {y \in K \cup {k} : y <= x} = {y \in K : y <= x}
      BY <1>1
    <3>2. {y \in K : y <= x} \in SUBSET K
      OBVIOUS
    <3>3. /\ IsFiniteSet({y \in K : y <= x})
          /\ Cardinality({y \in K : y <= x}) <= Cardinality(K)
      BY <1>1, <3>2, FS_Subset
    <3>. QED
      BY <3>1, <3>3, FS_CardinalityType DEF Rank
  <2>. QED
    BY <2>2, <2>3, <2>4 DEF Rank
<1>2. Cardinality(I) = Cardinality(J)
  BY DEF SameListing
<1>3. /\ Cardinality(I) \in Nat
      /\ Cardinality(I \cup {i}) = Cardinality(I) + 1
      /\ Rank(I \cup {i}, i) = Cardinality(I) + 1
      /\ \A x \in I : /\ Rank(I \cup {i}, x) = Rank(I, x)
                      /\ Rank(I, x) \in Nat
                      /\ Rank(I, x) <= Cardinality(I)
  BY <1>1
<1>4. /\ Cardinality(J \cup {j}) = Cardinality(J) + 1
      /\ Rank(J \cup {j}, j) = Cardinality(J) + 1
      /\ \A y \in J : /\ Rank(J \cup {j}, y) = Rank(J, y)
                      /\ Rank(J, y) \in Nat
                      /\ Rank(J, y) <= Cardinality(J)
  BY <1>1
<1>5. ASSUME NEW x \in I \cup {i}, NEW y \in J \cup {j},
             Rank(I \cup {i}, x) = Rank(J \cup {j}, y)
      PROVE  s[x] = t[y]
  <2>1. CASE x = i /\ y = j
    BY <2>1
  <2>2. CASE x \in I /\ y \in J
    BY <1>3, <1>4, <1>5, <2>2 DEF SameListing
  <2>3. CASE x = i /\ y \in J
    BY <1>2, <1>3, <1>4, <1>5, <2>3
  <2>4. CASE x \in I /\ y = j
    BY <1>2, <1>3, <1>4, <1>5, <2>4
  <2>. QED
    BY <2>1, <2>2, <2>3, <2>4
<1>. QED
  BY <1>2, <1>3, <1>4, <1>5 DEF SameListing

\* What the bridge has taken: in the sessions, or in its hands to be added.
Entered == IF bridge = "adding" THEN Append(added, carried) ELSE added
Contents == [i \in DOMAIN rows |-> rows[i].what]

TakenInv  == SameListing(log, Forwarded, Entered, 1..Len(Entered))
StoredInv == SameListing(Contents, Inbound, added, Stored)

LEMMA ForwardedType ==
  ASSUME Types, BusInv
  PROVE  /\ Forwarded \subseteq 1..Len(log)
         /\ Forwarded \in SUBSET Nat /\ IsFiniteSet(Forwarded)
         /\ \A p \in Forwarded : p < next
<1>1. Len(log) \in Nat
  BY LenProperties DEF Types, BusTypes
<1>2. Forwarded \subseteq 1..Len(log) /\ \A p \in Forwarded : p < next
  <2>1. CASE bridge = "off"
    BY <2>1 DEF Forwarded, BusInv
  <2>2. CASE bridge # "off"
    BY <1>1, <2>2 DEF Forwarded, BusInv, Types, BusTypes
  <2>. QED
    BY <2>1, <2>2
<1>3. IsFiniteSet(Forwarded)
  <2>1. IsFiniteSet(1..Len(log)) /\ Forwarded \in SUBSET (1..Len(log))
    BY <1>1, <1>2, FS_Interval
  <2>. QED
    BY <2>1, FS_Subset
<1>4. 1..Len(log) \subseteq Nat
  BY <1>1
<1>. QED
  BY <1>2, <1>3, <1>4

LEMMA TakenKept ==
  ASSUME Types, BusInv, OnceInv, TakenInv, [Next]_vars
  PROVE  TakenInv'
<1> USE DEF Types
<1>0. Len(added) \in Nat
  BY LenProperties DEF BusTypes
<1>1. ASSUME NEW e \in Event, Elsewhere(e) PROVE TakenInv'
  <2>1. \A p \in 1..Len(log) : log'[p] = log[p]
    BY <1>1, PublishType DEF Elsewhere
  <2>2. UNCHANGED <<next, since, skipped, bridge, carried, added>>
    BY <1>1 DEF Elsewhere, Publish, bridgeVars
  <2>3. since..(next - 1) \subseteq 1..Len(log) \/ since..(next - 1) = {}
    <3>1. CASE bridge = "off"
      BY <3>1 DEF BusInv
    <3>2. CASE bridge # "off"
      BY <3>2, LenProperties DEF BusInv, BusTypes
    <3>. QED
      BY <3>1, <3>2
  <2>4. Forwarded' = Forwarded
    BY <2>1, <2>2, <2>3 DEF Forwarded
  <2>5. \A p \in Forwarded : log'[p] = log[p]
    BY <2>1, ForwardedType
  <2>6. SameListing(log', Forwarded, Entered, 1..Len(Entered))
    BY <2>5, ListingSame DEF TakenInv
  <2>7. Entered' = Entered
    BY <2>2 DEF Entered
  <2>. QED
    BY <2>4, <2>6, <2>7 DEF TakenInv
<1>2. ASSUME UNCHANGED <<log, next, since, skipped>>, Entered' = Entered
      PROVE  TakenInv'
  BY <1>2 DEF TakenInv, Forwarded
<1>3. CASE SpawnBridge
  <2>1. /\ log' = log /\ skipped' = skipped /\ since' = next'
        /\ Entered' = <<>> /\ Entered = <<>>
        /\ since = 0 /\ next = 0 /\ next' \in Nat
    BY <1>3, LenProperties
    DEF SpawnBridge, Subscribe, BusInv, NoBridge, Entered, BusTypes
  <2>2. Forwarded' = {} /\ Forwarded = {}
    BY <2>1 DEF Forwarded
  <2>. QED
    BY <2>1, <2>2 DEF TakenInv, SameListing
<1>4. CASE BridgeTakes
  <2>1. /\ next' = next + 1 /\ next \in 1..Len(log)
        /\ UNCHANGED <<log, since, skipped, added>>
        /\ bridge = "receiving" /\ since \in Nat /\ since <= next
    BY <1>4, OldestType DEF BridgeTakes, Take, BusTypes, BusInv
  <2>2. next \notin skipped /\ next \in Nat
    BY <2>1 DEF BusInv
  <2>3. CASE log[next] \in Messages
    <3>1. Entered = added /\ Entered' = Append(added, log[next])
      BY <1>4, <2>1, <2>3 DEF BridgeTakes, Entered
    <3> DEFINE a == Append(added, log[next])
    <3>2. /\ a[Len(added) + 1] = log[next] /\ Len(a) = Len(added) + 1
          /\ \A j \in 1..Len(added) : a[j] = added[j]
      BY <2>3, AppendProperties DEF BusTypes
    <3> HIDE DEF a
    <3>3. Forwarded' = Forwarded \cup {next}
      BY <2>1, <2>2, <2>3 DEF Forwarded
    <3>4. SameListing(log, Forwarded, a, 1..Len(added))
      BY <3>1, <3>2, ListingSame DEF TakenInv
    <3>5. SameListing(log, Forwarded \cup {next}, a,
                      (1..Len(added)) \cup {Len(added) + 1})
      <4>1. /\ 1..Len(added) \in SUBSET Nat /\ IsFiniteSet(1..Len(added))
            /\ Len(added) + 1 \in Nat
            /\ \A y \in 1..Len(added) : y < Len(added) + 1
        BY <1>0, FS_Interval, SMTT(30)
      <4>. QED
        BY <2>2, <3>2, <3>4, <4>1, ForwardedType, ListingExtended
    <3>6. (1..Len(added)) \cup {Len(added) + 1} = 1..Len(a)
      BY <1>0, <3>2
    <3>. QED
      BY <2>1, <3>1, <3>3, <3>5, <3>6 DEF TakenInv, a
  <2>4. CASE log[next] \notin Messages
    <3>1. Entered' = Entered
      BY <1>4, <2>1, <2>4 DEF BridgeTakes, Entered
    <3>2. Forwarded' = Forwarded
      BY <2>1, <2>2, <2>4 DEF Forwarded
    <3>. QED
      BY <2>1, <3>1, <3>2 DEF TakenInv
  <2>. QED
    BY <2>3, <2>4
<1>5. CASE BridgeLags
  <2>1. /\ next' = Oldest /\ next < Oldest
        /\ skipped' = skipped \cup (next..(Oldest - 1))
        /\ UNCHANGED <<log, since, bridge, carried, added>>
        /\ Oldest \in Nat /\ since \in Nat /\ next \in Nat
    BY <1>5, OldestType DEF BridgeLags, CatchUp, bridgeVars, BusTypes
  <2>2. Forwarded' = Forwarded
    <3>1. \A p \in since..(Oldest - 1) :
            p \in since..(next - 1) \/ p \in next..(Oldest - 1)
      BY <2>1
    <3>2. \A p \in since..(next - 1) :
            p \in since..(Oldest - 1) /\ p \notin next..(Oldest - 1)
      BY <2>1
    <3>. QED
      BY <2>1, <3>1, <3>2 DEF Forwarded
  <2>. QED
    BY <2>1, <2>2 DEF TakenInv, Entered
<1>6. CASE Nowhere
  BY <1>2, <1>6 DEF Nowhere, busVars, bridgeVars, Entered
<1>7. CASE BridgeStops \/ AddMessage \/ InsertInbound
  BY <1>2, <1>7 DEF BridgeStops, AddMessage, InsertInbound, busVars, Entered
<1>. QED
  BY <1>1, <1>3, <1>4, <1>5, <1>6, <1>7, Moves DEF BridgeStep

\* A row more, seen as contents.
LEMMA ContentsExtended ==
  ASSUME Types, NEW c \in Channels, NEW w \in Messages \cup {"reply"},
         InsertRow(c, w)
  PROVE  /\ Contents'[Len(rows) + 1] = w
         /\ \A i \in 1..Len(rows) : Contents'[i] = Contents[i]
         /\ Inbound' = IF w \in Messages THEN Inbound \cup {Len(rows) + 1}
                                         ELSE Inbound
         /\ Inbound \subseteq 1..Len(rows)
<1>1. /\ rows' \in Seq(Row) /\ Len(rows) \in Nat
      /\ Len(rows') = Len(rows) + 1
      /\ \A i \in 1..Len(rows) : rows'[i] = rows[i]
      /\ rows'[Len(rows) + 1].what = w
  BY InsertType DEF Types, AgentTypes
<1>2. DOMAIN rows = 1..Len(rows) /\ DOMAIN rows' = 1..(Len(rows) + 1)
  BY <1>1, LenProperties DEF Types, AgentTypes
<1>3. \A i \in 1..(Len(rows) + 1) : i \in 1..Len(rows) \/ i = Len(rows) + 1
  BY <1>1
<1>4. Len(rows) + 1 \in 1..(Len(rows) + 1)
      /\ \A i \in 1..Len(rows) : i \in 1..(Len(rows) + 1)
  BY <1>1
<1>. QED
  BY <1>1, <1>2, <1>3, <1>4 DEF Contents, Inbound

LEMMA StoredKept ==
  ASSUME Types, BusInv, OnceInv, StoredInv, [Next]_vars
  PROVE  StoredInv'
<1> USE DEF Types
<1>0. /\ Len(added) \in Nat /\ DOMAIN added = 1..Len(added)
      /\ Len(rows) \in Nat /\ DOMAIN rows = 1..Len(rows)
  BY LenProperties DEF BusTypes, AgentTypes
<1>1. ASSUME Replied, added' = added, Stored' = Stored PROVE StoredInv'
  <2>1. CASE rows' = rows
    BY <1>1, <2>1 DEF StoredInv, Contents, Inbound
  <2>2. ASSUME NEW c \in Channels, InsertRow(c, "reply") PROVE StoredInv'
    <3>1. /\ \A i \in 1..Len(rows) : Contents'[i] = Contents[i]
          /\ Inbound' = Inbound /\ Inbound \subseteq 1..Len(rows)
      BY <2>2, ContentsExtended, EventTypes
    <3>2. SameListing(Contents', Inbound, added, Stored)
      BY <3>1, ListingSame DEF StoredInv
    <3>. QED
      BY <1>1, <3>1, <3>2 DEF StoredInv
  <2>. QED
    BY <1>1, <2>1, <2>2 DEF Replied
<1>2. ASSUME NEW e \in Event, Elsewhere(e) PROVE StoredInv'
  BY <1>1, <1>2 DEF Elsewhere, bridgeVars, Stored
<1>3. CASE Nowhere
  BY <1>1, <1>3 DEF Nowhere, bridgeVars, Stored
<1>4. CASE SpawnBridge /\ UNCHANGED rows
  BY <1>1, <1>4
  DEF SpawnBridge, Replied, Stored, BusInv, NoBridge
<1>5. CASE BridgeTakes \/ BridgeLags \/ BridgeStops
  <2>1. /\ UNCHANGED <<added, unsaved, rows>>
        /\ bridge # "inserting" /\ bridge' # "inserting"
    BY <1>5 DEF BridgeTakes, BridgeLags, BridgeStops, bridgeVars
  <2>. QED
    BY <1>1, <2>1 DEF Replied, Stored
<1>6. CASE AddMessage
  <2>1. /\ bridge = "adding" /\ bridge' = "inserting"
        /\ added' = Append(added, carried)
        /\ UNCHANGED <<carried, unsaved, rows>>
    BY <1>6 DEF AddMessage
  <2>2. carried \in Messages /\ carried \notin ToSet(added)
    BY <2>1, CarriedIsNew
  <2>3. /\ DOMAIN added' = 1..(Len(added) + 1)
        /\ \A j \in 1..Len(added) : added'[j] = added[j]
        /\ added'[Len(added) + 1] = carried
    <3>1. added' \in Seq(Messages) /\ Len(added') = Len(added) + 1
      BY <2>1, <2>2, AppendProperties DEF BusTypes
    <3>. QED
      BY <2>1, <2>2, <3>1, AppendProperties, LenProperties DEF BusTypes
  <2>4. \A j \in 1..(Len(added) + 1) :
          j \in 1..Len(added) \/ j = Len(added) + 1
    BY <1>0
  <2>5. \A j \in 1..Len(added) : added[j] # carried /\ j \in 1..(Len(added) + 1)
    BY <1>0, <2>2 DEF ToSet
  <2>6. Stored' = Stored
    BY <1>0, <2>1, <2>3, <2>4, <2>5 DEF Stored
  <2>7. Stored \subseteq 1..Len(added)
    BY <1>0 DEF Stored
  <2>8. SameListing(Contents, Inbound, added', Stored)
    BY <2>3, <2>7, ListingSame DEF StoredInv
  <2>. QED
    BY <2>1, <2>6, <2>8 DEF StoredInv, Contents, Inbound
<1>7. CASE InsertInbound
  <2> DEFINE n == Len(added)
             k == Len(rows) + 1
  <2>1. /\ bridge = "inserting" /\ bridge' = "receiving" /\ added' = added
        /\ carried \in Messages /\ ChannelOf[carried] \in Channels
    BY <1>7, ChannelType DEF InsertInbound, BusTypes
  <2>2. /\ n \in 1..n /\ added[n] = carried /\ carried \notin unsaved
        /\ \A j \in 1..n : added[j] = carried => j = n
    <3>1. n # 0 /\ added[n] = carried
      BY <2>1 DEF OnceInv
    <3>2. n \in 1..n
      BY <1>0, <3>1
    <3>3. \A i, j \in 1..n : added[i] = added[j] => i = j
      BY DEF OnceInv
    <3>4. carried \notin unsaved
      BY <2>1 DEF OnceInv
    <3> HIDE DEF n
    <3>. QED
      BY <3>1, <3>2, <3>3, <3>4
  <2>3. CASE unsaved' = unsaved \cup {carried} /\ UNCHANGED rows
    <3>1. Stored' = Stored
      BY <1>0, <2>1, <2>3 DEF Stored
    <3>. QED
      BY <1>1, <2>1, <2>3, <3>1 DEF Replied
  <2>4. CASE InsertRow(ChannelOf[carried], carried) /\ UNCHANGED unsaved
    <3>1. Stored' = Stored \cup {n} /\ Stored \subseteq 1..n /\ n \notin Stored
      BY <1>0, <2>1, <2>2, <2>4 DEF Stored
    <3>2. /\ Contents'[k] = carried
          /\ \A i \in 1..Len(rows) : Contents'[i] = Contents[i]
          /\ Inbound' = Inbound \cup {k} /\ Inbound \subseteq 1..Len(rows)
      BY <2>1, <2>4, ContentsExtended
    <3>3. SameListing(Contents', Inbound, added, Stored)
      BY <3>2, ListingSame DEF StoredInv
    <3>4. /\ Inbound \in SUBSET Nat /\ IsFiniteSet(Inbound) /\ k \in Nat
          /\ \A x \in Inbound : x < k
      <4>1. IsFiniteSet(1..Len(rows)) /\ Inbound \in SUBSET (1..Len(rows))
        BY <1>0, <3>2, FS_Interval
      <4>2. IsFiniteSet(Inbound)
        BY <4>1, FS_Subset
      <4>. QED
        BY <1>0, <4>1, <4>2
    <3>5. /\ Stored \in SUBSET Nat /\ IsFiniteSet(Stored) /\ n \in Nat
          /\ \A y \in Stored : y < n
      <4>1. IsFiniteSet(1..n) /\ Stored \in SUBSET (1..n)
        BY <1>0, <3>1, FS_Interval
      <4>2. IsFiniteSet(Stored)
        BY <4>1, FS_Subset
      <4>3. \A y \in Stored : y # n
        <5> HIDE DEF n
        <5>. QED
          BY <3>1
      <4>4. n \in Nat
        BY <1>0
      <4> HIDE DEF n
      <4>5. \A y \in 1..n : y \in Nat /\ (y # n => y < n)
        BY <4>4
      <4>. QED
        BY <4>1, <4>2, <4>3, <4>4, <4>5
    <3>6. Contents'[k] = added[n]
      BY <2>2, <3>2
    <3> DEFINE d == Contents'
    <3>7. SameListing(d, Inbound, added, Stored) /\ d[k] = added[n]
      BY <3>3, <3>6
    <3> HIDE DEF d, n, k
    <3>8. SameListing(d, Inbound \cup {k}, added, Stored \cup {n})
      BY <3>4, <3>5, <3>7, ListingExtended
    <3>. QED
      BY <2>1, <3>1, <3>2, <3>8 DEF StoredInv, d
  <2>. QED
    BY <1>7, <2>3, <2>4 DEF InsertInbound
<1>. QED
  BY <1>2, <1>3, <1>4, <1>5, <1>6, <1>7, Moves DEF BridgeStep

\* The bridge loses nothing on its own: what it takes from the bus is in the
\* sessions and in the messages table in the order of the bus, whenever the
\* daemon shuts down, and only events that have left the ring are skipped.
THEOREM TheBridgeKeepsAccount == Spec => []MessagesAccounted
<1>1. Init => TakenInv /\ StoredInv
  <2> SUFFICES ASSUME Init PROVE TakenInv /\ StoredInv
    OBVIOUS
  <2>1. /\ Forwarded = {} /\ Entered = <<>> /\ 1..Len(<<>>) = {}
        /\ Inbound = {} /\ Stored = {}
    BY DEF Init, Forwarded, Entered, Inbound, Stored
  <2>. QED
    BY <2>1 DEF TakenInv, StoredInv, SameListing
<1>2. Types /\ BusInv /\ OnceInv /\ TakenInv /\ StoredInv /\ [Next]_vars
        => TakenInv' /\ StoredInv'
  BY TakenKept, StoredKept
<1>3. Types /\ BusInv /\ TakenInv /\ StoredInv => MessagesAccounted
  <2> SUFFICES ASSUME Types, BusInv, TakenInv, StoredInv
               PROVE  MessagesAccounted
    OBVIOUS
  <2>1. DOMAIN Entered = 1..Len(Entered)
    <3>1. Entered \in Seq(Messages)
      BY AppendProperties DEF Entered, Types, BusTypes
    <3>. QED
      BY <3>1, LenProperties
  <2>2. \A p \in skipped : p + Size <= Len(log)
    BY DEF BusInv
  <2>. QED
    BY <2>1, <2>2
    DEF TakenInv, StoredInv, Entered, Contents, MessagesAccounted
<1>. QED
  BY <1>1, <1>2, <1>3, TypesInvariant, BridgeInvariant, PTL DEF Spec

-----------------------------------------------------------------------------
(***************************************************************************)
(* What Discord shows                                                      *)
(***************************************************************************)
SendInv == ShownIsPrefix /\ (phase # "sending" => shown = <<>>)

LEMMA SendKept ==
  ASSUME Types, SendInv, [Next]_vars
  PROVE  SendInv'
<1> USE DEF agentVars
<1>1. CASE UNCHANGED agentVars
  BY <1>1 DEF SendInv, ShownIsPrefix
<1>2. ASSUME Forget, phase' \in {"idle", "dead"} PROVE SendInv'
  BY <1>2 DEF Forget, SendInv, ShownIsPrefix
<1>3. ASSUME phase # "sending", phase' # "sending", UNCHANGED shown
      PROVE  SendInv'
  BY <1>3 DEF SendInv, ShownIsPrefix
<1>4. CASE \/ (\E c \in Channels : TakeUp(c)) \/ LoadHistory
           \/ LoadHistoryFails \/ Answer \/ InsertOutbound
  BY <1>3, <1>4 DEF TakeUp, LoadHistory, LoadHistoryFails, Answer, Prompting,
                    InsertOutbound
<1>5. CASE Apologise \/ Sent \/ AgentStops
  BY <1>2, <1>5 DEF Apologise, Sent, AgentStops, Finished, Ended
<1>6. ASSUME NEW t \in Replies, PublishReply(t) PROVE SendInv'
  <2>1. CASE Finished \/ Ended
    BY <1>2, <2>1 DEF Finished, Ended
  <2>2. CASE /\ ~Panics(t) /\ phase' = "sending" /\ reply' = t
             /\ outbox' = chunks[t] /\ UNCHANGED shown
    <3>1. CutsUp(chunks[t], t) /\ t \in Seq(Byte)
      BY <2>2, ChunksJoin, PipelineAssumption
    <3>2. shown = <<>>
      BY <1>6 DEF PublishReply, SendInv
    <3>3. <<>> \o t = t
      BY <3>1, ConcatEmptySeq
    <3>. QED
      BY <2>2, <3>1, <3>2, <3>3 DEF CutsUp, SendInv, ShownIsPrefix
  <2>. QED
    BY <1>6, <2>1, <2>2 DEF PublishReply
<1>7. CASE SendChunk
  <2>1. CASE Finished
    BY <1>2, <2>1 DEF Finished
  <2>2. CASE /\ shown' = shown \o Head(outbox) /\ outbox' = Tail(outbox)
             /\ UNCHANGED <<phase, batch, history, reply>>
    <3>1. /\ outbox \in Seq(Seq(Byte)) /\ outbox # <<>>
          /\ shown \in Seq(Byte) /\ phase = "sending"
      BY <1>7 DEF SendChunk, Types, AgentTypes
    <3>2. FlattenSeq(outbox) = Head(outbox) \o FlattenSeq(Tail(outbox))
      BY <3>1, FlattenHead
    <3>3. Head(outbox) \in Seq(Byte) /\ Tail(outbox) \in Seq(Seq(Byte))
      BY <3>1, HeadTailProperties
    <3>4. FlattenSeq(Tail(outbox)) \in Seq(Byte)
      BY <3>3, FlattenType
    <3>5. (shown \o Head(outbox)) \o FlattenSeq(Tail(outbox)) = reply
      <4>1. shown \o (Head(outbox) \o FlattenSeq(Tail(outbox)))
              = (shown \o Head(outbox)) \o FlattenSeq(Tail(outbox))
        <5> DEFINE a == shown
                   b == Head(outbox)
                   c == FlattenSeq(Tail(outbox))
        <5>1. a \in Seq(Byte) /\ b \in Seq(Byte) /\ c \in Seq(Byte)
          BY <3>1, <3>3, <3>4
        <5> HIDE DEF a, b, c
        <5>2. a \o (b \o c) = (a \o b) \o c
          BY <5>1, ConcatAssoc
        <5>. QED
          BY <5>2 DEF a, b, c
      <4>2. shown \o FlattenSeq(outbox) = reply
        BY <3>1 DEF SendInv, ShownIsPrefix
      <4>. QED
        BY <3>2, <4>1, <4>2
    <3>6. ASSUME NEW k \in DOMAIN Tail(outbox)
          PROVE  \E j \in DOMAIN outbox : Tail(outbox)[k] = outbox[j]
      <4>1. /\ DOMAIN Tail(outbox) = 1..Len(Tail(outbox))
            /\ DOMAIN outbox = 1..Len(outbox) /\ Len(outbox) \in Nat
            /\ Len(Tail(outbox)) = Len(outbox) - 1
            /\ Tail(outbox)[k] = outbox[k + 1]
        BY <3>1, <3>3, HeadTailProperties, LenProperties
      <4>2. k + 1 \in 1..Len(outbox)
        BY <4>1
      <4>. QED
        BY <4>1, <4>2
    <3>7. \A k \in DOMAIN Tail(outbox) :
            /\ Len(Tail(outbox)[k]) <= MaxLen
            /\ Tail(outbox)[k] = <<>> => reply = <<>>
      BY <3>1, <3>6 DEF SendInv, ShownIsPrefix
    <3>. QED
      BY <2>2, <3>1, <3>5, <3>7 DEF SendInv, ShownIsPrefix
  <2>. QED
    BY <1>7, <2>1, <2>2 DEF SendChunk
<1>8. CASE AgentStep
  BY <1>4, <1>5, <1>6, <1>7, <1>8 DEF AgentStep
<1>. QED
  BY <1>1, <1>8 DEF Next, DaemonStep, AdapterStep, OtherStep, BridgeStep, vars

\* However long the reply is and wherever its newlines are, Discord shows a
\* prefix of it in chunks that fit, none of them empty, and the chunks still
\* to be sent are the rest.
THEOREM RepliesArriveInOrder == Spec => []ShownIsPrefix
<1>1. Init => SendInv
  BY DEF Init, SendInv, ShownIsPrefix
<1>2. Types /\ SendInv /\ [Next]_vars => SendInv'
  BY SendKept
<1>3. SendInv => ShownIsPrefix
  BY DEF SendInv
<1>. QED
  BY <1>1, <1>2, <1>3, TypesInvariant, PTL DEF Spec

-----------------------------------------------------------------------------
(***************************************************************************)
(* What the history covers                                                 *)
(***************************************************************************)
\* The bridge is done with message m.
Settled(m) ==
  \/ m \in unsaved
  \/ \E j \in 1..Len(rows) : /\ rows[j].what = m
                             /\ rows[j].channel = ChannelOf[m]

\* A session holds messages of its channel with which the bridge is done, but
\* for the one it is about to insert; so does a batch.
SettledInv ==
  /\ \A c \in Channels : \A i \in 1..Len(sessions[c]) :
       /\ ChannelOf[sessions[c][i]] = c
       /\ \/ Settled(sessions[c][i])
          \/ /\ bridge = "inserting" /\ sessions[c][i] = carried
             /\ i = Len(sessions[c])
  /\ phase = "preparing" =>
       \A i \in 1..Len(batch) :
         /\ ChannelOf[batch[i]] = ChannelOf[Head(batch)]
         /\ i < Len(batch) => Settled(batch[i])

\* Rows and failures only ever get more.
LEMMA RowsGrow ==
  ASSUME Types, [Next]_vars
  PROVE  /\ Len(rows) \in Nat /\ Len(rows') \in Nat /\ Len(rows) <= Len(rows')
         /\ \A i \in 1..Len(rows) : rows'[i] = rows[i]
         /\ BusInv => unsaved \subseteq unsaved'
<1>1. Len(rows) \in Nat
  BY LenProperties DEF Types, AgentTypes
<1>2. ASSUME NEW c \in Channels, NEW w \in Messages \cup {"reply"},
             InsertRow(c, w)
      PROVE  /\ Len(rows') = Len(rows) + 1
             /\ \A i \in 1..Len(rows) : rows'[i] = rows[i]
  BY <1>2, InsertType DEF Types, AgentTypes
<1>3. ASSUME Replied PROVE \/ rows' = rows
                           \/ /\ Len(rows') = Len(rows) + 1
                              /\ \A i \in 1..Len(rows) : rows'[i] = rows[i]
  BY <1>2, <1>3 DEF Replied
<1>4. CASE \E e \in Event : Elsewhere(e)
  BY <1>1, <1>3, <1>4 DEF Elsewhere, bridgeVars
<1>5. CASE Nowhere
  BY <1>1, <1>3, <1>5 DEF Nowhere, bridgeVars
<1>6. CASE SpawnBridge /\ UNCHANGED rows
  BY <1>1, <1>6 DEF SpawnBridge
<1>7. CASE BridgeTakes \/ BridgeLags \/ BridgeStops \/ AddMessage
  BY <1>1, <1>7
  DEF BridgeTakes, BridgeLags, BridgeStops, AddMessage, bridgeVars
<1>8. CASE InsertInbound
  <2>1. carried \in Messages /\ ChannelOf[carried] \in Channels
    BY <1>8, ChannelType DEF InsertInbound, Types, BusTypes
  <2>. QED
    BY <1>1, <1>2, <1>8, <2>1 DEF InsertInbound
<1>. QED
  BY <1>4, <1>5, <1>6, <1>7, <1>8, Moves DEF BridgeStep

\* Settled in the next state.
SettledNext(m) ==
  \/ m \in unsaved'
  \/ \E j \in 1..Len(rows') : /\ rows'[j].what = m
                              /\ rows'[j].channel = ChannelOf[m]

LEMMA SettledStays ==
  ASSUME Types, BusInv, [Next]_vars
  PROVE  \A m : Settled(m) => SettledNext(m)
<1> SUFFICES ASSUME NEW m, Settled(m) PROVE SettledNext(m)
  OBVIOUS
<1>1. CASE m \in unsaved
  BY <1>1, RowsGrow DEF SettledNext
<1>2. ASSUME NEW j \in 1..Len(rows),
             rows[j].what = m, rows[j].channel = ChannelOf[m]
      PROVE  SettledNext(m)
  <2>1. j \in 1..Len(rows') /\ rows'[j] = rows[j]
    BY RowsGrow
  <2>. QED
    BY <1>2, <2>1 DEF SettledNext
<1>. QED
  BY <1>1, <1>2 DEF Settled

LEMMA SettledKept ==
  ASSUME Types, BusInv, SettledInv, [Next]_vars
  PROVE  SettledInv'
<1> USE DEF agentVars
<1>0. \A m : Settled(m) => SettledNext(m)
  BY SettledStays
<1> DEFINE
      SessionNext(c, i) ==
        /\ ChannelOf[sessions'[c][i]] = c
        /\ \/ SettledNext(sessions'[c][i])
           \/ /\ bridge' = "inserting" /\ sessions'[c][i] = carried'
              /\ i = Len(sessions'[c])
      BatchNext(i) ==
        /\ ChannelOf[batch'[i]] = ChannelOf[Head(batch')]
        /\ i < Len(batch') => SettledNext(batch'[i])
      Goal ==
        /\ \A c \in Channels : \A i \in 1..Len(sessions'[c]) :
             SessionNext(c, i)
        /\ phase' = "preparing" => \A i \in 1..Len(batch') : BatchNext(i)
<1> SUFFICES Goal
  BY DEF SettledInv, Settled, SettledNext
<1>1. ASSUME UNCHANGED sessions,
             bridge = "inserting" => UNCHANGED <<bridge, carried>>,
             phase' = "preparing" => UNCHANGED <<phase, batch>>
      PROVE  Goal
  BY <1>0, <1>1 DEF SettledInv
<1>2. ASSUME NEW c \in Channels, TakeUp(c), UNCHANGED bridgeVars
      PROVE  Goal
  <2>1. /\ sessions \in [Channels -> Seq(Messages)]
        /\ sessions' = [sessions EXCEPT ![c] = <<>>]
        /\ batch' = sessions[c] /\ sessions[c] # <<>>
        /\ UNCHANGED <<bridge, carried>>
    BY <1>2 DEF TakeUp, Types, AgentTypes, bridgeVars
  <2>2. \A d \in Channels : sessions'[d] = sessions[d] \/ sessions'[d] = <<>>
    BY <2>1
  <2>3. Len(<<>>) = 0 /\ 1..0 = {}
    OBVIOUS
  <2>4. \A d \in Channels : \A k \in 1..Len(sessions'[d]) :
          sessions'[d] = sessions[d]
    BY <2>2, <2>3
  <2> DEFINE s == sessions[c]
  <2>5. s \in Seq(Messages) /\ s # <<>> /\ batch' = s
    BY <2>1
  <2>6. \A k \in 1..Len(s) : /\ ChannelOf[s[k]] = c
                             /\ k < Len(s) => Settled(s[k])
    <3>1. Len(s) \in Nat
      BY <2>5, LenProperties
    <3>. QED
      BY <3>1 DEF SettledInv
  <2>7. \A k \in 1..Len(batch') : BatchNext(k)
    <3> HIDE DEF s
    <3>1. 1 \in 1..Len(s) /\ Head(s) = s[1]
      BY <2>5, EmptySeq, LenProperties
    <3>. QED
      BY <1>0, <2>5, <2>6, <3>1
  <2>8. \A d \in Channels : \A k \in 1..Len(sessions'[d]) : SessionNext(d, k)
    BY <1>0, <2>1, <2>4 DEF SettledInv
  <2>. QED
    BY <2>7, <2>8
<1>3. ASSUME AddMessage, UNCHANGED agentVars PROVE Goal
  <2>1. /\ bridge = "adding" /\ bridge' = "inserting" /\ carried' = carried
        /\ carried \in Messages /\ ChannelOf[carried] \in Channels
        /\ sessions' = [sessions EXCEPT ![ChannelOf[carried]] =
                          Append(@, carried)]
        /\ sessions \in [Channels -> Seq(Messages)]
    BY <1>3, ChannelType DEF AddMessage, Types, BusTypes, AgentTypes
  <2>2. ASSUME NEW d \in Channels, NEW k \in 1..Len(sessions'[d])
        PROVE  SessionNext(d, k)
    <3>1. CASE d # ChannelOf[carried]
      <4>1. sessions'[d] = sessions[d]
        BY <2>1, <3>1
      <4>. QED
        BY <1>0, <2>1, <4>1 DEF SettledInv
    <3>2. CASE d = ChannelOf[carried]
      <4> DEFINE s == sessions[d]
                 r == sessions'[d]
      <4>1. r = Append(s, carried) /\ s \in Seq(Messages)
        BY <2>1, <3>2
      <4>2. \A l \in 1..Len(s) : ChannelOf[s[l]] = d /\ Settled(s[l])
        BY <2>1 DEF SettledInv
      <4>3. k \in 1..Len(r)
        OBVIOUS
      <4> HIDE DEF s, r
      <4>4. /\ Len(r) = Len(s) + 1 /\ Len(s) \in Nat
            /\ \A l \in 1..Len(s) : r[l] = s[l]
            /\ r[Len(s) + 1] = carried
        BY <2>1, <4>1, AppendProperties, LenProperties
      <4>5. k \in 1..Len(s) \/ k = Len(s) + 1
        BY <4>3, <4>4
      <4>6. CASE k \in 1..Len(s)
        <5>1. r[k] = s[k] /\ ChannelOf[s[k]] = d /\ SettledNext(s[k])
          BY <1>0, <4>2, <4>4, <4>6
        <5>. QED
          BY <5>1 DEF r
      <4>7. CASE k = Len(s) + 1
        <5>1. r[k] = carried /\ k = Len(r) /\ ChannelOf[r[k]] = d
          BY <3>2, <4>4, <4>7
        <5>. QED
          BY <2>1, <5>1 DEF r
      <4>. QED
        BY <4>5, <4>6, <4>7
    <3>. QED
      BY <3>1, <3>2
  <2>3. phase' = "preparing" => \A k \in 1..Len(batch') : BatchNext(k)
    BY <1>0, <1>3 DEF SettledInv
  <2>. QED
    BY <2>2, <2>3
<1>4. ASSUME InsertInbound, UNCHANGED agentVars PROVE Goal
  <2>1. carried \in Messages /\ ChannelOf[carried] \in Channels
    BY <1>4, ChannelType DEF InsertInbound, Types, BusTypes
  <2>2. SettledNext(carried)
    <3>1. CASE InsertRow(ChannelOf[carried], carried)
      <4> DEFINE n == Len(rows) + 1
      <4>1. /\ Len(rows) \in Nat /\ Len(rows') = n
            /\ rows'[n].what = carried /\ rows'[n].channel = ChannelOf[carried]
        BY <2>1, <3>1, InsertType DEF Types, AgentTypes
      <4>2. n \in 1..Len(rows')
        BY <4>1
      <4> HIDE DEF n
      <4>. QED
        BY <4>1, <4>2 DEF SettledNext
    <3>2. CASE unsaved' = unsaved \cup {carried}
      BY <3>2 DEF SettledNext
    <3>. QED
      BY <1>4, <3>1, <3>2 DEF InsertInbound
  <2>3. UNCHANGED sessions /\ UNCHANGED <<phase, batch>>
    BY <1>4 DEF InsertInbound
  <2>4. \A c \in Channels : \A k \in 1..Len(sessions'[c]) : SessionNext(c, k)
    BY <1>0, <2>2, <2>3 DEF SettledInv
  <2>. QED
    BY <1>0, <2>3, <2>4 DEF SettledInv
<1>5. CASE DaemonStep \/ AdapterStep \/ OtherStep \/ UNCHANGED vars
  <2>1. UNCHANGED <<sessions, agentVars>>
    BY <1>5 DEF DaemonStep, AdapterStep, OtherStep, vars
  <2>2. bridge = "inserting" => UNCHANGED <<bridge, carried>>
    BY <1>5
    DEF DaemonStep, CoreStarted, SpawnBridge, Shutdown, CoreStopping,
        AdapterStep, OtherStep, vars, bridgeVars, BusInv, NoBridge
  <2>. QED
    BY <1>1, <2>1, <2>2
<1>6. CASE BridgeStep
  <2>1. CASE BridgeTakes \/ BridgeLags \/ BridgeStops
    BY <1>1, <1>6, <2>1
    DEF BridgeStep, BridgeTakes, BridgeLags, BridgeStops
  <2>. QED
    BY <1>3, <1>4, <1>6, <2>1 DEF BridgeStep
<1>7. CASE AgentStep
  <2>1. UNCHANGED bridgeVars
    BY <1>7 DEF AgentStep
  <2>2. ASSUME UNCHANGED sessions, phase' # "preparing" PROVE Goal
    BY <1>1, <2>1, <2>2 DEF bridgeVars
  <2>3. CASE \/ LoadHistory \/ LoadHistoryFails \/ Answer \/ Apologise
             \/ InsertOutbound \/ Sent \/ AgentStops
    BY <2>2, <2>3
    DEF LoadHistory, LoadHistoryFails, Answer, Apologise, InsertOutbound,
        Sent, AgentStops, Finished, Ended
  <2>4. CASE SendChunk \/ \E t \in Replies : PublishReply(t)
    BY <2>2, <2>4 DEF SendChunk, PublishReply, Finished, Ended
  <2>. QED
    BY <1>2, <1>7, <2>1, <2>3, <2>4 DEF AgentStep
<1>. QED
  BY <1>5, <1>6, <1>7 DEF Next

\* The message m is not due in the prompt, or in its history, or as many rows
\* as that may have are as recent.
Recent(c, j) ==
  {k \in RowsOf(c) \ {j} : rows[k].second >= rows[j].second}
Covered(m) ==
  \/ m \in unsaved
  \/ \E j \in 1..Len(rows) :
       /\ rows[j].what = m
       /\ \/ j \in ToSet(history)
          \/ HistoryLimit <= Cardinality(Recent(ChannelOf[m], j))

LEMMA RecentFinite ==
  ASSUME rows \in Seq(Row)
  PROVE  \A c, j : /\ IsFiniteSet(Recent(c, j))
                   /\ Cardinality(Recent(c, j)) \in Nat
<1>1. \A c, j : Recent(c, j) \subseteq RowsOf(c)
  BY DEF Recent
<1>. QED
  BY <1>1, RowsOfFinite, FS_Subset, FS_CardinalityType

LEMMA LoadCovers ==
  ASSUME Types, LoadHistory, NEW m \in Messages, Settled(m),
         ChannelOf[m] = ChannelOf[Head(batch)]
  PROVE  \/ m \in unsaved
         \/ \E j \in 1..Len(rows) :
              /\ rows[j].what = m
              /\ \/ j \in ToSet(history')
                 \/ HistoryLimit <= Cardinality(Recent(ChannelOf[m], j))
<1> DEFINE c == ChannelOf[m]
<1>0. rows \in Seq(Row) /\ HistoryLimit \in Nat /\ Len(rows) \in Nat
      /\ DOMAIN rows = 1..Len(rows)
  BY PipelineAssumption, LenProperties DEF Types, AgentTypes
<1>1. PICK s \in Newest(c, HistoryLimit) : history' = Reverse(s)
  BY DEF LoadHistory, RecentMessages
<1>2. CASE m \in unsaved
  BY <1>2
<1>3. ASSUME NEW j \in 1..Len(rows), rows[j].what = m, rows[j].channel = c
      PROVE  j \in ToSet(s) \/ HistoryLimit <= Cardinality(Recent(c, j))
  <2> SUFFICES ASSUME j \notin ToSet(s)
               PROVE  HistoryLimit <= Cardinality(Recent(c, j))
    OBVIOUS
  <2> HIDE DEF c
  <2>1. /\ ToSet(s) \subseteq RowsOf(c) /\ IsFiniteSet(ToSet(s))
        /\ Cardinality(ToSet(s)) = Len(s)
        /\ Len(s) = HistoryLimit \/ Len(s) = Cardinality(RowsOf(c))
        /\ \A i \in RowsOf(c) \ ToSet(s), k \in ToSet(s) :
             rows[i].second <= rows[k].second
    BY <1>0, <1>1, NewestRows
  <2>2. j \in RowsOf(c)
    BY <1>0, <1>3 DEF RowsOf
  <2>3. IsFiniteSet(RowsOf(c)) /\ RowsOf(c) \subseteq 1..Len(rows)
    BY <1>0, RowsOfFinite
  <2>4. Cardinality(ToSet(s)) # Cardinality(RowsOf(c))
    BY <2>1, <2>2, <2>3, FS_Subset
  <2>5. \A k \in RowsOf(c) : rows[k].second \in Int
    <3>1. \A k \in 1..Len(rows) : rows[k] \in Row
      BY <1>0, ElementOfSeq
    <3>2. MaxSecond \in Nat
      BY PipelineAssumption
    <3>. QED
      BY <2>3, <3>1, <3>2 DEF Row
  <2>6. ToSet(s) \subseteq Recent(c, j)
    BY <2>1, <2>2, <2>5 DEF Recent
  <2>7. Cardinality(ToSet(s)) <= Cardinality(Recent(c, j))
    BY <1>0, <2>6, RecentFinite, FS_Subset
  <2>. QED
    BY <2>1, <2>4, <2>7
<1>4. ToSet(history') = ToSet(s)
  <2>1. s \in Seq(RowsOf(c))
    BY <1>0, <1>1, NewestRows
  <2>. QED
    BY <1>1, <2>1, ReverseType
<1>. QED
  BY <1>2, <1>3, <1>4 DEF Settled

\* Recent and Covered in the next state.
RecentNext(c, j) ==
  {k \in {i \in DOMAIN rows' : rows'[i].channel = c} \ {j} :
     rows'[k].second >= rows'[j].second}
CoveredNext(m) ==
  \/ m \in unsaved'
  \/ \E j \in 1..Len(rows') :
       /\ rows'[j].what = m
       /\ \/ j \in ToSet(history')
          \/ HistoryLimit <= Cardinality(RecentNext(ChannelOf[m], j))

LEMMA CoveredStays ==
  ASSUME Types, BusInv, [Next]_vars, UNCHANGED history
  PROVE  \A m : Covered(m) => CoveredNext(m)
<1> SUFFICES ASSUME NEW m, Covered(m) PROVE CoveredNext(m)
  OBVIOUS
<1>0. /\ rows \in Seq(Row) /\ rows' \in Seq(Row)
      /\ DOMAIN rows = 1..Len(rows) /\ DOMAIN rows' = 1..Len(rows')
      /\ Len(rows) \in Nat /\ Len(rows') \in Nat /\ Len(rows) <= Len(rows')
      /\ \A i \in 1..Len(rows) : i \in 1..Len(rows') /\ rows'[i] = rows[i]
      /\ HistoryLimit \in Nat
  <2>1. rows \in Seq(Row) /\ rows' \in Seq(Row)
    BY BusTypesKept, AgentTypesKept DEF Types, AgentTypes
  <2>. QED
    BY <2>1, RowsGrow, LenProperties, PipelineAssumption
<1>1. CASE m \in unsaved
  BY <1>1, RowsGrow DEF CoveredNext
<1>2. ASSUME NEW c, NEW j \in 1..Len(rows),
             HistoryLimit <= Cardinality(Recent(c, j))
      PROVE  HistoryLimit <= Cardinality(RecentNext(c, j))
  <2>1. RecentNext(c, j) \in SUBSET (1..Len(rows'))
    BY <1>0 DEF RecentNext
  <2>2. IsFiniteSet(RecentNext(c, j))
    <3>1. IsFiniteSet(1..Len(rows'))
      BY <1>0, FS_Interval
    <3>. QED
      BY <2>1, <3>1, FS_Subset
  <2>3. Recent(c, j) \subseteq RecentNext(c, j)
    BY <1>0 DEF Recent, RecentNext, RowsOf
  <2>4. /\ Cardinality(Recent(c, j)) <= Cardinality(RecentNext(c, j))
        /\ Cardinality(Recent(c, j)) \in Nat
        /\ Cardinality(RecentNext(c, j)) \in Nat
    BY <2>2, <2>3, FS_Subset, FS_CardinalityType
  <2>. QED
    BY <1>0, <1>2, <2>4
<1>3. ASSUME NEW j \in 1..Len(rows), rows[j].what = m,
             \/ j \in ToSet(history)
             \/ HistoryLimit <= Cardinality(Recent(ChannelOf[m], j))
      PROVE  CoveredNext(m)
  BY <1>0, <1>2, <1>3 DEF CoveredNext
<1>. QED
  BY <1>1, <1>3 DEF Covered

CoverInv == phase = "prompting" =>
              \A i \in 1..(Len(batch) - 1) : Covered(batch[i])

LEMMA CoverKept ==
  ASSUME Types, BusInv, SettledInv, CoverInv, [Next]_vars
  PROVE  CoverInv'
<1> USE DEF agentVars
<1> DEFINE Goal == phase' = "prompting" =>
                     \A i \in 1..(Len(batch') - 1) : CoveredNext(batch'[i])
<1> SUFFICES Goal
  BY DEF CoverInv, Covered, CoveredNext, Recent, RecentNext, RowsOf
<1>1. CASE UNCHANGED agentVars
  BY <1>1, CoveredStays DEF CoverInv
<1>2. ASSUME LoadHistory, UNCHANGED bridgeVars PROVE Goal
  <2>0. /\ phase = "preparing" /\ batch' = batch /\ rows' = rows
        /\ unsaved' = unsaved
        /\ batch \in Seq(Messages) /\ Len(batch) \in Nat
    BY <1>2, LenProperties DEF LoadHistory, bridgeVars, Types, AgentTypes
  <2> SUFFICES ASSUME NEW i \in 1..(Len(batch) - 1)
               PROVE  CoveredNext(batch[i])
    BY <2>0
  <2> DEFINE m == batch[i]
  <2>1. m \in Messages /\ Settled(m) /\ ChannelOf[m] = ChannelOf[Head(batch)]
    <3>1. i \in 1..Len(batch) /\ i < Len(batch)
      BY <2>0
    <3>. QED
      BY <2>0, <3>1, ElementOfSeq DEF SettledInv
  <2> HIDE DEF m
  <2>2. \/ m \in unsaved
        \/ \E j \in 1..Len(rows) :
             /\ rows[j].what = m
             /\ \/ j \in ToSet(history')
                \/ HistoryLimit <= Cardinality(Recent(ChannelOf[m], j))
    BY <1>2, <2>1, LoadCovers
  <2>3. \A c, j : Recent(c, j) = RecentNext(c, j)
    BY <2>0 DEF Recent, RecentNext, RowsOf
  <2>4. CoveredNext(m)
    BY <2>0, <2>2, <2>3 DEF CoveredNext
  <2>. QED
    BY <2>4 DEF m
<1>3. CASE AgentStep
  <2>1. ASSUME phase' # "prompting" PROVE Goal
    BY <2>1
  <2>2. CASE LoadHistory
    BY <1>2, <1>3, <2>2 DEF AgentStep
  <2>3. CASE \/ (\E c \in Channels : TakeUp(c)) \/ LoadHistoryFails \/ Answer
             \/ Apologise \/ InsertOutbound \/ Sent \/ AgentStops
    BY <2>1, <2>3
    DEF TakeUp, LoadHistoryFails, Answer, Apologise, InsertOutbound, Sent,
        AgentStops, Finished, Ended
  <2>4. CASE SendChunk \/ \E t \in Replies : PublishReply(t)
    BY <2>1, <2>4 DEF SendChunk, PublishReply, Finished, Ended
  <2>. QED
    BY <1>3, <2>2, <2>3, <2>4 DEF AgentStep
<1>. QED
  BY <1>1, <1>3 DEF Next, DaemonStep, AdapterStep, OtherStep, BridgeStep, vars

LEMMA SettledInvariant == Spec => []SettledInv
<1>1. Init => SettledInv
  <2>1. Len(<<>>) = 0 /\ 1..0 = {}
    OBVIOUS
  <2>. QED
    BY <2>1 DEF Init, SettledInv
<1>2. Types /\ BusInv /\ SettledInv /\ [Next]_vars => SettledInv'
  BY SettledKept
<1>. QED
  BY <1>1, <1>2, TypesInvariant, BridgeInvariant, PTL DEF Spec

\* However many messages arrive while a batch waits, however the database
\* orders the rows of one second: the prompt's history has every message of
\* the batch but possibly the last, unless its insertion failed or as many
\* rows as a history has are as recent.
THEOREM HistoryCoversTheBatch == Spec => []HistoryCoversBatch
<1>1. Init => CoverInv
  BY DEF Init, CoverInv
<1>2. Types /\ BusInv /\ SettledInv /\ CoverInv /\ [Next]_vars => CoverInv'
  BY CoverKept
<1>3. Types /\ CoverInv => HistoryCoversBatch
  <2> SUFFICES ASSUME Types, CoverInv PROVE HistoryCoversBatch
    OBVIOUS
  <2>1. DOMAIN rows = 1..Len(rows)
    BY LenProperties DEF Types, AgentTypes
  <2>. QED
    BY <2>1 DEF CoverInv, Covered, Recent, HistoryCoversBatch
<1>. QED
  BY <1>1, <1>2, <1>3, TypesInvariant, BridgeInvariant, SettledInvariant, PTL
  DEF Spec

-----------------------------------------------------------------------------
(***************************************************************************)
(* Replies and messages: a batch has at least one message that left its    *)
(* session with it and leaves it only once.                                *)
(***************************************************************************)
CountInv ==
  /\ \A c \in Channels : ToSet(sessions[c]) \subseteq ToSet(added)
  /\ AnsweredOnce

LEMMA CountsFinite ==
  ASSUME Types
  PROVE  /\ IsFiniteSet(ReplyAt) /\ Cardinality(ReplyAt) \in Nat
         /\ IsFiniteSet(Consumed) /\ Cardinality(Consumed) \in Nat
         /\ Cardinality(Consumed) <= Cardinality(Messages)
         /\ IsFiniteSet(Messages) /\ Cardinality(Messages) \in Nat
         /\ Len(log) \in Nat
<1>1. Len(log) \in Nat /\ DOMAIN added = 1..Len(added)
  BY LenProperties DEF Types, BusTypes
<1>2. ReplyAt \in SUBSET (1..Len(log)) /\ IsFiniteSet(1..Len(log))
  BY <1>1, FS_Interval DEF ReplyAt
<1>3. Consumed \in SUBSET Messages
  BY <1>1, ElementOfSeq DEF Consumed, ToSet, Types, BusTypes
<1>. QED
  BY <1>1, <1>2, <1>3, PipelineAssumption, FS_Subset, FS_CardinalityType

\* Where the sessions and the count of replies change.
LEMMA CountKept ==
  ASSUME Types, BusInv, OnceInv, SettledInv, CountInv, [Next]_vars
  PROVE  CountInv'
<1> USE DEF agentVars, bridgeVars, busVars
<1> DEFINE n == IF Busy THEN 1 ELSE 0
           a == Cardinality(ReplyAt)
           b == Cardinality(Consumed)
<1>0. /\ a \in Nat /\ b \in Nat /\ n \in {0, 1} /\ n' \in {0, 1}
      /\ a + n <= b
      /\ a' \in Nat /\ b' \in Nat /\ IsFiniteSet(Consumed')
      /\ DOMAIN added = 1..Len(added) /\ Len(added) \in Nat
  <2>1. log' \in Seq(Event) /\ added' \in Seq(Messages)
    BY BusTypesKept DEF Types, BusTypes
  <2>2. ReplyAt' \in SUBSET (1..Len(log')) /\ IsFiniteSet(1..Len(log'))
    BY <2>1, LenProperties, FS_Interval DEF ReplyAt
  <2>3. Consumed' \in SUBSET Messages
    BY <2>1, LenProperties, ElementOfSeq DEF Consumed, ToSet
  <2>4. a' \in Nat /\ b' \in Nat /\ IsFiniteSet(Consumed')
    BY <2>2, <2>3, PipelineAssumption, FS_Subset, FS_CardinalityType
  <2>. QED
    BY <2>4, CountsFinite, LenProperties DEF CountInv, AnsweredOnce, Types, BusTypes
\* An event of another kind does not count.
<1>1. ASSUME NEW e \in Event, Publish(e), e # "interface_reply"
      PROVE  ReplyAt' = ReplyAt
  <2>1. /\ Len(log) \in Nat /\ Len(log') = Len(log) + 1
        /\ \A p \in 1..Len(log) : log'[p] = log[p]
        /\ log'[Len(log) + 1] = e
    BY <1>1, PublishType DEF Types
  <2>2. \A p \in 1..Len(log') : p \in 1..Len(log) \/ p = Len(log) + 1
    BY <2>1
  <2>3. \A p \in 1..Len(log) : p \in 1..Len(log')
    BY <2>1
  <2>. QED
    BY <1>1, <2>1, <2>2, <2>3 DEF ReplyAt
<1>2. ASSUME UNCHANGED <<added, sessions>>, ReplyAt' = ReplyAt, Busy' => Busy
      PROVE  CountInv'
  <2>1. Consumed' = Consumed
    BY <1>2 DEF Consumed
  <2>2. n' <= n
    BY <1>2
  <2>3. a' + n' <= b'
    BY <1>0, <1>2, <2>1, <2>2
  <2>4. \A c \in Channels : ToSet(sessions'[c]) \subseteq ToSet(added')
    BY <1>2 DEF CountInv, AnsweredOnce
  <2>. QED
    BY <2>3, <2>4 DEF CountInv, AnsweredOnce
<1>3. CASE DaemonStep
  <2>1. ReplyAt' = ReplyAt
    <3>1. CASE CoreStarted \/ CoreStopping
      BY <1>1, <3>1, EventTypes DEF CoreStarted, CoreStopping
    <3>2. CASE SpawnBridge \/ Shutdown
      BY <3>2 DEF SpawnBridge, Shutdown, Subscribe, ReplyAt
    <3>. QED
      BY <1>3, <3>1, <3>2 DEF DaemonStep
  <2>2. UNCHANGED <<added, sessions, phase>>
    BY <1>3
    DEF DaemonStep, CoreStarted, CoreStopping, SpawnBridge, Shutdown
  <2>. QED
    BY <1>2, <2>1, <2>2 DEF Busy
<1>4. CASE AdapterStep \/ OtherStep
  <2>1. ReplyAt' = ReplyAt
    <3>1. "other" # "interface_reply"
      OBVIOUS
    <3>2. CASE AdapterStep
      BY <1>1, <3>2, EventTypes DEF AdapterStep, Incoming
    <3>3. CASE OtherStep
      BY <1>1, <3>1, <3>3, EventTypes DEF OtherStep
    <3>. QED
      BY <1>4, <3>2, <3>3
  <2>2. UNCHANGED <<added, sessions, phase>>
    BY <1>4 DEF AdapterStep, OtherStep
  <2>. QED
    BY <1>2, <2>1, <2>2 DEF Busy
<1>5. ASSUME AddMessage, UNCHANGED agentVars PROVE CountInv'
  <2>1. /\ carried \in Messages /\ ChannelOf[carried] \in Channels
        /\ carried \notin ToSet(added)
        /\ sessions \in [Channels -> Seq(Messages)]
        /\ added \in Seq(Messages) /\ added' = Append(added, carried)
        /\ sessions' = [sessions EXCEPT ![ChannelOf[carried]] =
                          Append(@, carried)]
        /\ log' = log
    BY <1>5, ChannelType, CarriedIsNew
    DEF AddMessage, Types, BusTypes, AgentTypes
  <2>2. \A s \in Seq(Messages) :
          ToSet(Append(s, carried)) = ToSet(s) \cup {carried}
    <3> SUFFICES ASSUME NEW s \in Seq(Messages)
                 PROVE  ToSet(Append(s, carried)) = ToSet(s) \cup {carried}
      OBVIOUS
    <3> DEFINE r == Append(s, carried)
    <3>1. /\ Len(s) \in Nat /\ DOMAIN s = 1..Len(s)
          /\ DOMAIN r = 1..Len(r) /\ Len(r) = Len(s) + 1
          /\ \A i \in 1..Len(s) : r[i] = s[i]
          /\ r[Len(s) + 1] = carried
      BY <2>1, AppendProperties, LenProperties
    <3> HIDE DEF r
    <3>2. \A i \in DOMAIN r : i \in DOMAIN s \/ i = Len(s) + 1
      BY <3>1
    <3>3. \A i \in DOMAIN s : i \in DOMAIN r
      BY <3>1
    <3>4. Len(s) + 1 \in DOMAIN r
      BY <3>1
    <3>5. ToSet(r) = ToSet(s) \cup {carried}
      BY <3>1, <3>2, <3>3, <3>4 DEF ToSet
    <3>. QED
      BY <3>5 DEF r
  <2>3. ToSet(added') = ToSet(added) \cup {carried}
    BY <2>1, <2>2
  <2>4. \A c \in Channels :
          ToSet(sessions'[c]) =
            IF c = ChannelOf[carried] THEN ToSet(sessions[c]) \cup {carried}
                                      ELSE ToSet(sessions[c])
    BY <2>1, <2>2
  <2>5. \A m \in ToSet(added) : ChannelOf[m] \in Channels
    <3>1. ToSet(added) \subseteq Messages
      BY <1>0, <2>1, ElementOfSeq DEF ToSet
    <3>. QED
      BY <3>1, ChannelType
  <2> DEFINE Gone(A, s) == {m \in A : m \notin ToSet(s[ChannelOf[m]])}
  <2>6. Gone(ToSet(added'), sessions') = Gone(ToSet(added), sessions)
    BY <2>1, <2>3, <2>4, <2>5
  <2>7. Consumed' = Consumed
    BY <2>6 DEF Consumed
  <2>8. ReplyAt' = ReplyAt /\ n' = n
    BY <1>5, <2>1 DEF ReplyAt, Busy
  <2>9. a' + n' <= b'
    BY <1>0, <2>7, <2>8
  <2>10. \A c \in Channels : ToSet(sessions'[c]) \subseteq ToSet(added')
    BY <2>3, <2>4 DEF CountInv, AnsweredOnce
  <2>. QED
    BY <2>9, <2>10 DEF CountInv, AnsweredOnce
<1>6. CASE BridgeStep
  <2>1. CASE AddMessage
    BY <1>5, <1>6, <2>1 DEF BridgeStep
  <2>2. CASE BridgeTakes \/ BridgeLags \/ BridgeStops \/ InsertInbound
    <3>1. UNCHANGED <<added, sessions, log, phase>>
      BY <1>6, <2>2
      DEF BridgeStep, BridgeTakes, BridgeLags, BridgeStops, InsertInbound,
          Take, CatchUp
    <3>2. ReplyAt' = ReplyAt
      BY <3>1 DEF ReplyAt
    <3>. QED
      BY <1>2, <3>1, <3>2 DEF Busy
  <2>. QED
    BY <1>6, <2>1, <2>2 DEF BridgeStep
<1>7. ASSUME NEW c \in Channels, TakeUp(c), UNCHANGED bridgeVars
      PROVE  CountInv'
  <2>1. /\ sessions \in [Channels -> Seq(Messages)]
        /\ sessions' = [sessions EXCEPT ![c] = <<>>]
        /\ sessions[c] # <<>> /\ sessions[c] \in Seq(Messages)
        /\ UNCHANGED <<added, log>> /\ phase = "idle"
    BY <1>7 DEF TakeUp, Types, AgentTypes
  <2> DEFINE s == sessions[c]
             m == s[1]
  <2>2. m \in ToSet(s) /\ ChannelOf[m] = c
    <3>1. 1 \in 1..Len(s) /\ DOMAIN s = 1..Len(s) /\ Len(s) \in Nat
      BY <2>1, EmptySeq, LenProperties
    <3>2. ChannelOf[m] = c
      BY <3>1 DEF SettledInv
    <3>. QED
      BY <3>1, <3>2 DEF ToSet
  <2>3. ToSet(<<>>) = {}
    BY DEF ToSet
  <2>4. \A d \in Channels :
          ToSet(sessions'[d]) = IF d = c THEN {} ELSE ToSet(sessions[d])
    BY <2>1, <2>3
  <2>5. \A d \in Channels : ToSet(sessions'[d]) \subseteq ToSet(added')
    BY <2>1, <2>4 DEF CountInv, AnsweredOnce
  <2>6. \A x \in ToSet(added) : ChannelOf[x] \in Channels
    <3>1. ToSet(added) \subseteq Messages
      BY <1>0, ElementOfSeq DEF ToSet, Types, BusTypes
    <3>. QED
      BY <3>1, ChannelType
  <2>7. m \in ToSet(added)
    BY <2>2 DEF CountInv, AnsweredOnce
  <2>8. Consumed \cup {m} \subseteq Consumed' /\ m \notin Consumed
    <3> HIDE DEF m
    <3>1. m \notin Consumed
      BY <2>2 DEF Consumed
    <3> DEFINE Gone == {x \in ToSet(added) :
                          x \notin ToSet(sessions'[ChannelOf[x]])}
    <3>2. Consumed \cup {m} \subseteq Gone
      BY <2>2, <2>4, <2>6, <2>7 DEF Consumed
    <3>3. Consumed' = Gone
      BY <2>1 DEF Consumed
    <3>. QED
      BY <3>1, <3>2, <3>3
  <2>9. b + 1 <= b'
    <3> HIDE DEF m
    <3>1. IsFiniteSet(Consumed) /\ IsFiniteSet(Consumed')
      BY <1>0, CountsFinite
    <3>2. Cardinality(Consumed \cup {m}) = b + 1
      BY <2>8, <3>1, FS_AddElement
    <3>3. Cardinality(Consumed \cup {m}) <= b'
      BY <2>8, <3>1, FS_Subset
    <3>. QED
      BY <3>2, <3>3
  <2>10. ReplyAt' = ReplyAt /\ n = 0
    BY <2>1 DEF ReplyAt, Busy
  <2>11. a' + n' <= b'
    BY <1>0, <2>9, <2>10
  <2>. QED
    BY <2>5, <2>11 DEF CountInv, AnsweredOnce
<1>8. ASSUME NEW t \in Replies, PublishReply(t), UNCHANGED bridgeVars
      PROVE  CountInv'
  <2>1. /\ Busy /\ ~Busy'
        /\ UNCHANGED <<added, sessions>>
        /\ Publish("interface_reply")
    BY <1>8 DEF PublishReply, Busy, Finished, Ended
  <2>2. a' = a + 1
    <3> DEFINE k == Len(log) + 1
    <3>1. /\ Len(log) \in Nat /\ Len(log') = k
          /\ \A p \in 1..Len(log) : log'[p] = log[p]
          /\ log'[k] = "interface_reply"
      BY <2>1, PublishType, EventTypes DEF Types
    <3>2. \A p \in 1..Len(log') : p \in 1..Len(log) \/ p = k
      BY <3>1
    <3>3. \A p \in 1..Len(log) : p \in 1..Len(log')
      BY <3>1
    <3>4. k \in 1..Len(log') /\ k \notin 1..Len(log)
      BY <3>1
    <3> HIDE DEF k
    <3>5. ReplyAt' = ReplyAt \cup {k} /\ k \notin ReplyAt
      BY <3>1, <3>2, <3>3, <3>4 DEF ReplyAt
    <3>. QED
      BY <3>5, CountsFinite, FS_AddElement
  <2>3. Consumed' = Consumed
    BY <2>1 DEF Consumed
  <2>4. n = 1 /\ n' = 0
    BY <2>1
  <2>5. a' + n' <= b'
    BY <1>0, <2>2, <2>3, <2>4
  <2>6. \A c \in Channels : ToSet(sessions'[c]) \subseteq ToSet(added')
    BY <2>1 DEF CountInv, AnsweredOnce
  <2>. QED
    BY <2>5, <2>6 DEF CountInv, AnsweredOnce
<1>9. CASE AgentStep
  <2>1. UNCHANGED bridgeVars
    BY <1>9 DEF AgentStep
  <2>2. CASE \/ LoadHistory \/ LoadHistoryFails \/ Answer \/ Apologise
             \/ InsertOutbound \/ SendChunk \/ Sent \/ AgentStops
    <3>1. UNCHANGED <<added, sessions, log>> /\ (Busy' => Busy)
      BY <2>1, <2>2
      DEF LoadHistory, LoadHistoryFails, Answer, Apologise, InsertOutbound,
          SendChunk, Sent, AgentStops, Finished, Ended, Prompting, Busy
    <3>2. ReplyAt' = ReplyAt
      BY <3>1 DEF ReplyAt
    <3>. QED
      BY <1>2, <3>1, <3>2
  <2>. QED
    BY <1>7, <1>8, <1>9, <2>1, <2>2 DEF AgentStep
<1>10. CASE UNCHANGED vars
  <2>1. UNCHANGED <<added, sessions, log, phase>>
    BY <1>10 DEF vars
  <2>2. ReplyAt' = ReplyAt
    BY <2>1 DEF ReplyAt
  <2>. QED
    BY <1>2, <2>1, <2>2 DEF Busy
<1>. QED
  BY <1>3, <1>4, <1>6, <1>9, <1>10 DEF Next

\* No message is answered twice: the replies on the bus and the batch in
\* progress have different messages that have left their sessions.
THEOREM BatchesAreAnsweredOnce == Spec => []AnsweredOnce
<1>1. Init => CountInv
  <2> SUFFICES ASSUME Init PROVE CountInv
    OBVIOUS
  <2>1. 1..Len(<<>>) = {} /\ ToSet(<<>>) = {}
    BY DEF ToSet
  <2>2. ReplyAt = {} /\ Consumed = {} /\ ~Busy
    BY <2>1 DEF Init, ReplyAt, Consumed, Busy
  <2>3. \A c \in Channels : ToSet(sessions[c]) \subseteq ToSet(added)
    BY <2>1 DEF Init
  <2>4. Cardinality({}) = 0
    BY FS_EmptySet
  <2>. QED
    BY <2>2, <2>3, <2>4 DEF CountInv, AnsweredOnce
<1>2. Types /\ BusInv /\ OnceInv /\ SettledInv /\ CountInv /\ [Next]_vars
        => CountInv'
  BY CountKept
<1>3. CountInv => AnsweredOnce
  BY DEF CountInv
<1>. QED
  BY <1>1, <1>2, <1>3, TypesInvariant, BridgeInvariant, SettledInvariant, PTL
  DEF Spec

\* Every variable keeps its type, and no history exceeds its limit, however
\* many events of whatever kind are on the bus.
THEOREM PipelineTypes == Spec => []TypeOK
<1>1. Types /\ BusInv => TypeOK
  <2> SUFFICES ASSUME Types, BusInv PROVE TypeOK
    OBVIOUS
  <2>1. next \in Nat /\ since \in 0..next /\ skipped \subseteq Nat
    BY DEF BusInv, Types, BusTypes
  <2>2. DOMAIN rows = 1..Len(rows)
    BY LenProperties DEF Types, AgentTypes
  <2>. QED
    BY <2>1, <2>2 DEF Types, BusTypes, AgentTypes, Row, TypeOK
<1>. QED
  BY <1>1, TypesInvariant, BridgeInvariant, PTL

=============================================================================
