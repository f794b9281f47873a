--------------------------- MODULE SessionProofs ---------------------------
(***************************************************************************)
(* Proofs about Session, for any keys, messages, window, lateness and      *)
(* channel capacity.                                                       *)
(***************************************************************************)
EXTENDS Session, SequenceLemmas

-----------------------------------------------------------------------------
(***************************************************************************)
(* Facts about the vocabulary                                              *)
(***************************************************************************)
LEMMA TickRange ==
  /\ Longest \in Nat /\ -Lateness \in Int
  /\ Debounce \in -Lateness..Debounce
  /\ Debounce \in 0..Debounce /\ 0 \in 0..Debounce /\ 0 \in 0..Longest
  BY SessionAssumption DEF Longest

\* Counting up to a bound stays within it.
LEMMA AtMostType ==
  ASSUME NEW bound \in Nat, NEW n \in 0..bound
  PROVE  AtMost(n + 1, bound) \in 0..bound
  BY DEF AtMost

\* The only element of a sequence is all of it.
LEMMA RemoveOnly ==
  ASSUME NEW S, NEW s \in Seq(S), Len(s) = 1
  PROVE  RemoveAt(s, 1) = <<>>
<1>1. SubSeq(s, 1, 0) = <<>> /\ SubSeq(s, 2, 1) = <<>>
  BY SubSeqEmpty
<1>. QED
  BY <1>1, ConcatEmptySeq DEF RemoveAt

-----------------------------------------------------------------------------
(***************************************************************************)
(* Type correctness, and one timer for each session                        *)
(*                                                                         *)
(* The two are one induction: a timer that wakes is the only one of its    *)
(* key, so that removing it leaves none.                                   *)
(***************************************************************************)
TypeInv == TypeOK /\ OneTimerPerSession

LEMMA InitType == Init => TypeInv
  BY TickRange, EmptySeq DEF Init, TypeInv, TypeOK, OneTimerPerSession

\* A timer that wakes is its key's only one, and its session is there.
LEMMA WakeIsFirst ==
  ASSUME TypeInv, NEW k \in Keys, NEW i \in DOMAIN timers[k]
  PROVE  i = 1 /\ Len(timers[k]) = 1 /\ pending[k] # <<>>
<1>1. timers[k] \in Seq(-Lateness..Debounce)
  BY DEF TypeInv, TypeOK
<1>2. Len(timers[k]) \in Nat /\ i \in 1..Len(timers[k])
  BY <1>1, LenProperties
<1>3. Len(timers[k]) = IF pending[k] = <<>> THEN 0 ELSE 1
  BY DEF TypeInv, OneTimerPerSession
<1>. QED
  BY <1>2, <1>3

\* What a timer that wakes does, with one timer per session.
LEMMA WakeEffect ==
  ASSUME TypeInv, NEW k \in Keys, NEW i \in DOMAIN timers[k], Wake(k, i)
  PROVE  \/ /\ age[k] < Debounce
            /\ timers' = [timers EXCEPT ![k] = <<Debounce>>]
            /\ UNCHANGED <<pending, holder, hand>>
         \/ /\ ~(age[k] < Debounce)
            /\ timers' = [timers EXCEPT ![k] = <<>>]
            /\ pending' = [pending EXCEPT ![k] = <<>>]
            /\ holder' = k /\ hand' = pending[k]
<1>1. i = 1 /\ Len(timers[k]) = 1 /\ pending[k] # <<>>
  BY WakeIsFirst
<1>2. timers \in [Keys -> Seq(-Lateness..Debounce)]
  BY DEF TypeInv, TypeOK
<1>3. CASE age[k] < Debounce
  <2>1. timers' = [timers EXCEPT ![k] = [timers[k] EXCEPT ![1] = Debounce]]
    BY <1>1, <1>3 DEF Wake
  <2>2. [timers[k] EXCEPT ![1] = Debounce] = <<Debounce>>
    BY <1>1, <1>2
  <2>. QED
    BY <1>1, <1>3, <2>1, <2>2 DEF Wake
<1>4. CASE ~(age[k] < Debounce)
  <2>1. RemoveAt(timers[k], 1) = <<>>
    BY <1>1, <1>2, RemoveOnly
  <2>2. timers' = [timers EXCEPT ![k] = <<>>]
    BY <1>1, <1>4, <2>1 DEF Wake
  <2>. QED
    BY <1>1, <1>4, <2>2 DEF Wake
<1>. QED
  BY <1>3, <1>4

LEMMA NextType == TypeInv /\ [Next]_vars => TypeInv'
<1> SUFFICES ASSUME TypeInv, [Next]_vars PROVE TypeInv'
  OBVIOUS
<1>1. ASSUME NEW k \in Keys, NEW m \in Messages, AddMessage(k, m)
      PROVE  TypeInv'
  <2>1. /\ pending' \in [Keys -> Seq(Messages)]
        /\ arrived' \in [Keys -> Seq(Messages)]
    BY <1>1, AppendProperties DEF AddMessage, TypeInv, TypeOK
  <2>2. timers' \in [Keys -> Seq(-Lateness..Debounce)]
    BY <1>1, TickRange, AppendProperties DEF AddMessage, TypeInv, TypeOK
  <2>3. age' \in [Keys -> 0..Debounce] /\ waited' \in [Keys -> 0..Longest]
    BY <1>1, TickRange DEF AddMessage, TypeInv, TypeOK
  <2>4. TypeOK'
    BY <1>1, <2>1, <2>2, <2>3 DEF AddMessage, TypeInv, TypeOK
  <2>5. ASSUME NEW q \in Keys
        PROVE  Len(timers'[q]) = IF pending'[q] = <<>> THEN 0 ELSE 1
    <3>1. CASE q # k
      BY <1>1, <3>1 DEF AddMessage, TypeInv, TypeOK, OneTimerPerSession
    <3>2. CASE q = k
      <4>1. pending'[k] # <<>>
        <5>1. pending[k] \in Seq(Messages)
          BY DEF TypeInv, TypeOK
        <5>2. pending'[k] = Append(pending[k], m)
          BY <1>1 DEF AddMessage, TypeInv, TypeOK
        <5>. QED
          BY <5>1, <5>2, AppendProperties
      <4>2. Len(timers'[k]) = 1
        <5>1. CASE pending[k] = <<>>
          <6>1. /\ Len(timers[k]) = 0
                /\ timers[k] \in Seq(-Lateness..Debounce)
            BY <5>1 DEF TypeInv, TypeOK, OneTimerPerSession
          <6>2. timers'[k] = Append(timers[k], Debounce)
            BY <1>1, <5>1 DEF AddMessage, TypeInv, TypeOK
          <6>. QED
            BY <6>1, <6>2, TickRange, AppendProperties
        <5>2. CASE pending[k] # <<>>
          BY <1>1, <5>2 DEF AddMessage, TypeInv, OneTimerPerSession
        <5>. QED
          BY <5>1, <5>2
      <4>. QED
        BY <3>2, <4>1, <4>2
    <3>. QED
      BY <3>1, <3>2
  <2>. QED
    BY <2>4, <2>5 DEF TypeInv, OneTimerPerSession
<1>2. ASSUME NEW k \in Keys, NEW i \in DOMAIN timers[k], Wake(k, i)
      PROVE  TypeInv'
  <2>1. pending[k] # <<>> /\ Len(timers[k]) = 1
    BY <1>2, WakeIsFirst
  <2>2. <<Debounce>> \in Seq(-Lateness..Debounce)
    BY TickRange
  <2>3. /\ age' = age /\ queue' = queue /\ open' = open /\ arrived' = arrived
        /\ received' = received /\ waited' = waited
    BY <1>2 DEF Wake
  <2>4. CASE /\ timers' = [timers EXCEPT ![k] = <<Debounce>>]
             /\ UNCHANGED <<pending, holder, hand>>
    <3>1. TypeOK'
      BY <2>2, <2>3, <2>4 DEF TypeInv, TypeOK
    <3>2. OneTimerPerSession'
      BY <2>1, <2>4 DEF TypeInv, TypeOK, OneTimerPerSession
    <3>. QED
      BY <3>1, <3>2 DEF TypeInv
  <2>5. CASE /\ timers' = [timers EXCEPT ![k] = <<>>]
             /\ pending' = [pending EXCEPT ![k] = <<>>]
             /\ holder' = k /\ hand' = pending[k]
    <3>1. TypeOK'
      BY <2>3, <2>5, EmptySeq DEF TypeInv, TypeOK
    <3>2. OneTimerPerSession'
      BY <2>5 DEF TypeInv, TypeOK, OneTimerPerSession
    <3>. QED
      BY <3>1, <3>2 DEF TypeInv
  <2>. QED
    BY <1>2, <2>4, <2>5, WakeEffect
<1>3. CASE Send
  <2>1. queue' \in Seq([key: Keys, messages: Seq(Messages)])
    <3> DEFINE Batches == [key: Keys, messages: Seq(Messages)]
               b == Batch(holder, hand)
    <3>1. b \in Batches
      BY <1>3 DEF Send, Batch, TypeInv, TypeOK
    <3>2. queue \in Seq(Batches)
      BY DEF TypeInv, TypeOK
    <3>3. queue' = queue \/ queue' = Append(queue, b)
      BY <1>3 DEF Send
    <3>4. queue' \in Seq(Batches)
      <4> HIDE DEF Batches, b
      <4>. QED
        BY <3>1, <3>2, <3>3, AppendProperties
    <3>. QED
      BY <3>4
  <2>2. TypeOK'
    BY <1>3, <2>1, EmptySeq DEF Send, TypeInv, TypeOK
  <2>. QED
    BY <1>3, <2>2 DEF Send, TypeInv, OneTimerPerSession
<1>4. CASE Receive
  <2>1. /\ Head(queue) \in [key: Keys, messages: Seq(Messages)]
        /\ Tail(queue) \in Seq([key: Keys, messages: Seq(Messages)])
    BY <1>4, HeadTailProperties DEF Receive, TypeInv, TypeOK
  <2>2. received' \in [Keys -> Seq(Messages)]
    BY <1>4, <2>1, ConcatProperties DEF Receive, TypeInv, TypeOK
  <2>3. TypeOK'
    BY <1>4, <2>1, <2>2 DEF Receive, TypeInv, TypeOK
  <2>. QED
    BY <1>4, <2>3 DEF Receive, TypeInv, OneTimerPerSession
<1>5. CASE CloseReceiver
  BY <1>5, EmptySeq DEF CloseReceiver, TypeInv, TypeOK, OneTimerPerSession
<1>6. CASE Tick
  <2>1. age' \in [Keys -> 0..Debounce]
    BY <1>6, AtMostType, SessionAssumption DEF Tick, TypeInv, TypeOK
  <2>2. waited' \in [Keys -> 0..Longest]
    BY <1>6, AtMostType, TickRange DEF Tick, TypeInv, TypeOK
  <2>3. ASSUME NEW k \in Keys
        PROVE  /\ timers'[k] \in Seq(-Lateness..Debounce)
               /\ Len(timers'[k]) = Len(timers[k])
    <3>1. timers[k] \in Seq(-Lateness..Debounce)
      BY DEF TypeInv, TypeOK
    <3>2. \A i \in 1..Len(timers[k]) : timers[k][i] \in -Lateness..Debounce
      BY <3>1, ElementOfSeq
    <3>3. timers'[k] = [i \in 1..Len(timers[k]) |->
                          IF timers[k][i] > -Lateness THEN timers[k][i] - 1
                                                      ELSE timers[k][i]]
      BY <1>6, <3>1 DEF Tick
    <3>4. timers'[k] \in [1..Len(timers[k]) -> -Lateness..Debounce]
      BY <3>2, <3>3, SessionAssumption
    <3>. QED
      BY <3>1, <3>3, <3>4
  <2>4. timers' \in [Keys -> Seq(-Lateness..Debounce)]
    BY <1>6, <2>3 DEF Tick
  <2>5. TypeOK'
    BY <1>6, <2>1, <2>2, <2>4 DEF Tick, TypeInv, TypeOK
  <2>. QED
    BY <1>6, <2>3, <2>5 DEF Tick, TypeInv, OneTimerPerSession
<1>7. CASE UNCHANGED vars
  BY <1>7 DEF vars, TypeInv, TypeOK, OneTimerPerSession
<1>. QED
  BY <1>1, <1>2, <1>3, <1>4, <1>5, <1>6, <1>7 DEF Next

LEMMA TypeInvariant == Spec => []TypeInv
  BY InitType, NextType, PTL DEF Spec

\* Sessions, timers, batches and clocks keep their types.
THEOREM SessionTypes == Spec => []TypeOK
<1>1. TypeInv => TypeOK
  BY DEF TypeInv
<1>. QED
  BY <1>1, TypeInvariant, PTL

\* add_message spawns a timer task exactly when the session is new, and the
\* timer that flushes a session is the one that ends: a session always has
\* one timer task, a key without session none.
THEOREM SessionsHaveOneTimer == Spec => []OneTimerPerSession
<1>1. TypeInv => OneTimerPerSession
  BY DEF TypeInv
<1>. QED
  BY <1>1, TypeInvariant, PTL

-----------------------------------------------------------------------------
(***************************************************************************)
(* A burst stays together                                                  *)
(***************************************************************************)
LEMMA BurstsStep ==
  ASSUME TypeInv, BurstsStayTogether, [Next]_vars
  PROVE  BurstsStayTogether'
<1>1. ASSUME NEW k \in Keys, NEW m \in Messages, AddMessage(k, m)
      PROVE  BurstsStayTogether'
  <2>1. pending'[k] # <<>>
    <3>1. pending[k] \in Seq(Messages) /\ pending'[k] = Append(pending[k], m)
      BY <1>1 DEF AddMessage, TypeInv, TypeOK
    <3>. QED
      BY <3>1, AppendProperties
  <2>2. ASSUME NEW q \in Keys \ {k}
        PROVE  /\ pending'[q] = pending[q] /\ age'[q] = age[q]
               /\ arrived'[q] = arrived[q]
    BY <1>1 DEF AddMessage, TypeInv, TypeOK
  <2>. QED
    BY <2>1, <2>2 DEF BurstsStayTogether
<1>2. ASSUME NEW k \in Keys, NEW i \in DOMAIN timers[k], Wake(k, i)
      PROVE  BurstsStayTogether'
  <2>1. age' = age /\ arrived' = arrived
    BY <1>2 DEF Wake
  <2>2. \A q \in Keys : pending'[q] # pending[q] => ~(age[q] < Debounce)
    BY <1>2, WakeEffect DEF TypeInv, TypeOK
  <2>. QED
    BY <2>1, <2>2 DEF BurstsStayTogether
<1>3. CASE Tick
  <2>1. \A k \in Keys : age'[k] < Debounce => age[k] < Debounce
    BY <1>3, SessionAssumption DEF Tick, AtMost, TypeInv, TypeOK
  <2>. QED
    BY <1>3, <2>1 DEF Tick, BurstsStayTogether
<1>4. CASE Send \/ Receive \/ CloseReceiver \/ UNCHANGED vars
  BY <1>4 DEF Send, Receive, CloseReceiver, vars, BurstsStayTogether
<1>. QED
  BY <1>1, <1>2, <1>3, <1>4 DEF Next

\* The timer flushes only a session whose last message is at least one
\* window old: the messages of a burst are handed over in one batch.
THEOREM BurstsAreFlushedWhole == Spec => []BurstsStayTogether
<1>1. Init => BurstsStayTogether
  BY DEF Init, BurstsStayTogether
<1>. QED
  BY <1>1, BurstsStep, TypeInvariant, PTL DEF Spec

-----------------------------------------------------------------------------
(***************************************************************************)
(* A batch is flushed in time                                              *)
(*                                                                         *)
(* FlushedInTime says nothing of the timer, so that no step preserves it.  *)
(* The stronger Deadlines counts what the timer still sleeps: a message    *)
(* has waited no longer than its session's age, and the last message's     *)
(* wait and the rest of the timer's sleep stay below two windows, because  *)
(* a timer goes back to sleep only while the session is younger than one.  *)
(***************************************************************************)
WaitedNoLongerThanAge ==
  \A k \in Keys : age[k] < Debounce => waited[k] <= age[k]

SleepEndsInTime ==
  \A k \in Keys :
    pending[k] # <<>> => waited[k] + timers[k][1] < 2 * Debounce

Deadlines == WaitedNoLongerThanAge /\ SleepEndsInTime

\* The clocks are integers, the timer of a session included.
LEMMA ClockTypes ==
  ASSUME TypeInv, NEW k \in Keys
  PROVE  /\ age[k] \in Int /\ waited[k] \in Int
         /\ pending[k] # <<>> =>
              1 \in DOMAIN timers[k] /\ timers[k][1] \in -Lateness..Debounce
<1>1. age[k] \in Int /\ waited[k] \in Int
  BY SessionAssumption, TickRange DEF TypeInv, TypeOK
<1>2. ASSUME pending[k] # <<>>
      PROVE  1 \in DOMAIN timers[k] /\ timers[k][1] \in -Lateness..Debounce
  <2>1. timers[k] \in Seq(-Lateness..Debounce) /\ Len(timers[k]) = 1
    BY <1>2 DEF TypeInv, TypeOK, OneTimerPerSession
  <2>2. 1 \in DOMAIN timers[k]
    BY <2>1, LenProperties
  <2>3. 1 \in 1..Len(timers[k])
    BY <2>1
  <2>4. timers[k][1] \in -Lateness..Debounce
    BY <2>1, <2>3, ElementOfSeq
  <2>. QED
    BY <2>2, <2>4
<1>. QED
  BY <1>1, <1>2

LEMMA DeadlinesStep ==
  ASSUME TypeInv, Deadlines, [Next]_vars
  PROVE  Deadlines'
<1>1. ASSUME NEW k \in Keys, NEW m \in Messages, AddMessage(k, m)
      PROVE  Deadlines'
  <2>1. age'[k] = 0 /\ waited'[k] = 0
    BY <1>1 DEF AddMessage, TypeInv, TypeOK
  <2>2. timers'[k][1] \in Int /\ timers'[k][1] <= Debounce
    <3>1. CASE pending[k] = <<>>
      <4>1. timers[k] \in Seq(-Lateness..Debounce) /\ Len(timers[k]) = 0
        BY <3>1 DEF TypeInv, TypeOK, OneTimerPerSession
      <4>2. timers'[k] = Append(timers[k], Debounce)
        BY <1>1, <3>1 DEF AddMessage, TypeInv, TypeOK
      <4>3. timers'[k][1] = Debounce
        BY <4>1, <4>2, TickRange, AppendProperties
      <4>. QED
        BY <4>3, SessionAssumption
    <3>2. CASE pending[k] # <<>>
      BY <1>1, <3>2, ClockTypes, SessionAssumption DEF AddMessage
    <3>. QED
      BY <3>1, <3>2
  <2>3. \A q \in Keys \ {k} :
          /\ age'[q] = age[q] /\ waited'[q] = waited[q]
          /\ pending'[q] = pending[q] /\ timers'[q] = timers[q]
    BY <1>1 DEF AddMessage, TypeInv, TypeOK
  <2>4. SleepEndsInTime'
    BY <2>1, <2>2, <2>3, SessionAssumption
    DEF Deadlines, SleepEndsInTime
  <2>5. WaitedNoLongerThanAge'
    BY <2>1, <2>3 DEF Deadlines, WaitedNoLongerThanAge
  <2>. QED
    BY <2>4, <2>5 DEF Deadlines
<1>2. ASSUME NEW k \in Keys, NEW i \in DOMAIN timers[k], Wake(k, i)
      PROVE  Deadlines'
  <2>1. age' = age /\ waited' = waited
    BY <1>2 DEF Wake
  <2>2. CASE /\ age[k] < Debounce
             /\ timers' = [timers EXCEPT ![k] = <<Debounce>>]
             /\ UNCHANGED <<pending, holder, hand>>
    <3>1. waited[k] + Debounce < 2 * Debounce
      BY <2>2, ClockTypes, SessionAssumption
      DEF Deadlines, WaitedNoLongerThanAge
    <3>2. timers'[k][1] = Debounce
      BY <2>2 DEF TypeInv, TypeOK
    <3>3. \A q \in Keys \ {k} : timers'[q] = timers[q]
      BY <2>2 DEF TypeInv, TypeOK
    <3>. QED
      BY <2>1, <2>2, <3>1, <3>2, <3>3
      DEF Deadlines, WaitedNoLongerThanAge, SleepEndsInTime
  <2>3. CASE /\ timers' = [timers EXCEPT ![k] = <<>>]
             /\ pending' = [pending EXCEPT ![k] = <<>>]
    BY <2>1, <2>3
    DEF Deadlines, WaitedNoLongerThanAge, SleepEndsInTime, TypeInv, TypeOK
  <2>. QED
    BY <1>2, <2>2, <2>3, WakeEffect
<1>3. CASE Tick
  <2>1. ASSUME NEW k \in Keys
        PROVE  /\ age'[k] < Debounce => waited'[k] <= age'[k]
               /\ pending'[k] # <<>> =>
                    waited'[k] + timers'[k][1] < 2 * Debounce
    <3>1. /\ age[k] \in Int /\ waited[k] \in Int /\ Longest \in Int
          /\ Debounce \in Int /\ Lateness \in Int
      BY ClockTypes, TickRange, SessionAssumption
    <3>2. /\ age'[k] = AtMost(age[k] + 1, Debounce)
          /\ waited'[k] = IF holder = Free
                          THEN AtMost(waited[k] + 1, Longest) ELSE waited[k]
          /\ pending' = pending
      BY <1>3 DEF Tick
    <3>3. waited'[k] \in Int /\ waited'[k] <= waited[k] + 1
      BY <3>1, <3>2 DEF AtMost
    <3>4. age'[k] < Debounce => age[k] < Debounce /\ age'[k] = age[k] + 1
      BY <3>1, <3>2 DEF AtMost
    <3>5. age'[k] < Debounce => waited'[k] <= age'[k]
      BY <3>1, <3>3, <3>4 DEF Deadlines, WaitedNoLongerThanAge
    <3>6. ASSUME pending'[k] # <<>>
          PROVE  waited'[k] + timers'[k][1] < 2 * Debounce
      <4>1. /\ 1 \in DOMAIN timers[k] /\ timers[k][1] \in -Lateness..Debounce
            /\ waited[k] + timers[k][1] < 2 * Debounce
        BY <3>2, <3>6, ClockTypes DEF Deadlines, SleepEndsInTime
      <4>2. timers'[k][1] = IF timers[k][1] > -Lateness
                            THEN timers[k][1] - 1 ELSE timers[k][1]
        BY <1>3, <4>1 DEF Tick
      <4>3. holder = Free => timers[k][1] > -Lateness
        BY <1>3, <4>1 DEF Tick
      <4>4. holder # Free => waited'[k] = waited[k]
        BY <3>2
      <4>. QED
        BY <3>1, <3>3, <4>1, <4>2, <4>3, <4>4
    <3>. QED
      BY <3>5, <3>6
  <2>. QED
    BY <2>1 DEF Deadlines, WaitedNoLongerThanAge, SleepEndsInTime
<1>4. CASE Send \/ Receive \/ CloseReceiver \/ UNCHANGED vars
  BY <1>4 DEF Send, Receive, CloseReceiver, vars,
              Deadlines, WaitedNoLongerThanAge, SleepEndsInTime
<1>. QED
  BY <1>1, <1>2, <1>3, <1>4 DEF Next

\* However messages, timers and the receiver interleave, a batch waits less
\* than two windows and the timers' lateness after its last message, not
\* counting the time in which the batch channel is full.
THEOREM BatchesAreFlushedInTime == Spec => []FlushedInTime
<1>1. Init => Deadlines
  BY SessionAssumption
  DEF Init, Deadlines, WaitedNoLongerThanAge, SleepEndsInTime
<1>2. TypeInv /\ Deadlines => FlushedInTime
  <2> SUFFICES ASSUME TypeInv, Deadlines, NEW k \in Keys, pending[k] # <<>>
               PROVE  waited[k] < Longest
    BY DEF FlushedInTime
  <2>1. timers[k][1] \in -Lateness..Debounce /\ waited[k] \in Int
    BY ClockTypes
  <2>2. waited[k] + timers[k][1] < 2 * Debounce
    BY DEF Deadlines, SleepEndsInTime
  <2>. QED
    BY <2>1, <2>2, SessionAssumption DEF Longest
<1>. QED
  BY <1>1, <1>2, DeadlinesStep, TypeInvariant, PTL DEF Spec

-----------------------------------------------------------------------------
(***************************************************************************)
(* Nothing is lost between the adapter and the interface agent             *)
(***************************************************************************)
Batches == [key: Keys, messages: Seq(Messages)]

\* What batch b holds of key k's messages, and the batches of q one by one.
Part(b, k) == IF b.key = k THEN b.messages ELSE <<>>
Parts(q, k) == [i \in DOMAIN q |-> Part(q[i], k)]

LEMMA PartType ==
  ASSUME NEW b \in Batches, NEW k
  PROVE  Part(b, k) \in Seq(Messages)
  BY EmptySeq DEF Part, Batches

LEMMA PartsType ==
  ASSUME NEW q \in Seq(Batches), NEW k
  PROVE  /\ Parts(q, k) \in Seq(Seq(Messages))
         /\ Len(Parts(q, k)) = Len(q)
         /\ \A i \in 1..Len(q) : Parts(q, k)[i] = Part(q[i], k)
<1>1. Len(q) \in Nat /\ DOMAIN q = 1..Len(q)
  BY LenProperties
<1>2. \A i \in 1..Len(q) : Part(q[i], k) \in Seq(Messages)
  BY ElementOfSeq, PartType
<1>3. Parts(q, k) = [i \in 1..Len(q) |-> Part(q[i], k)]
  BY <1>1 DEF Parts
<1>. QED
  BY <1>1, <1>2, <1>3

\* One more batch in the queue is one more part.
LEMMA PartsAppend ==
  ASSUME NEW q \in Seq(Batches), NEW b \in Batches, NEW k
  PROVE  Parts(Append(q, b), k) = Append(Parts(q, k), Part(b, k))
<1> DEFINE r == Append(q, b)
           s == Append(Parts(q, k), Part(b, k))
<1>1. /\ r \in Seq(Batches) /\ Len(r) = Len(q) + 1 /\ r[Len(q) + 1] = b
      /\ \A i \in 1..Len(q) : r[i] = q[i]
  BY AppendProperties
<1>2. /\ s \in Seq(Seq(Messages)) /\ Len(s) = Len(q) + 1
      /\ s[Len(q) + 1] = Part(b, k)
      /\ \A i \in 1..Len(q) : s[i] = Part(q[i], k)
  BY PartType, PartsType, AppendProperties
<1>3. Len(q) \in Nat
  BY LenProperties
<1> HIDE DEF r, s
<1>4. /\ Parts(r, k) \in Seq(Seq(Messages)) /\ Len(Parts(r, k)) = Len(r)
      /\ \A i \in 1..Len(r) : Parts(r, k)[i] = Part(r[i], k)
  BY <1>1, PartsType
<1>5. ASSUME NEW i \in 1..Len(r)
      PROVE  Parts(r, k)[i] = s[i]
  <2>1. CASE i = Len(q) + 1
    BY <1>1, <1>2, <1>4, <2>1
  <2>2. CASE i # Len(q) + 1
    <3>1. i \in 1..Len(q)
      BY <1>1, <1>3, <2>2
    <3>. QED
      BY <1>1, <1>2, <1>4, <3>1
  <2>. QED
    BY <2>1, <2>2
<1>6. Parts(r, k) = s
  BY <1>1, <1>2, <1>4, <1>5, SeqEqual
<1>. QED
  BY <1>6 DEF r, s

\* The first batch of the queue is the first part.
LEMMA PartsTail ==
  ASSUME NEW q \in Seq(Batches), q # <<>>, NEW k
  PROVE  /\ Parts(q, k) # <<>>
         /\ Head(Parts(q, k)) = Part(Head(q), k)
         /\ Tail(Parts(q, k)) = Parts(Tail(q), k)
<1> DEFINE p == Parts(q, k)
           r == Tail(q)
<1>1. /\ p \in Seq(Seq(Messages)) /\ Len(p) = Len(q)
      /\ \A i \in 1..Len(q) : p[i] = Part(q[i], k)
  BY PartsType
<1>2. Len(q) \in Nat \ {0}
  BY EmptySeq
<1> HIDE DEF p
<1>3. p # <<>>
  BY <1>1, <1>2, EmptySeq
<1>4. Head(p) = p[1] /\ Head(q) = q[1]
  BY <1>3
<1>5. /\ Tail(p) \in Seq(Seq(Messages)) /\ Len(Tail(p)) = Len(p) - 1
      /\ \A i \in 1..Len(Tail(p)) : Tail(p)[i] = p[i + 1]
  BY <1>1, <1>3, HeadTailProperties
<1>6. /\ r \in Seq(Batches) /\ Len(r) = Len(q) - 1
      /\ \A i \in 1..Len(r) : r[i] = q[i + 1]
  BY HeadTailProperties
<1> HIDE DEF r
<1>7. /\ Parts(r, k) \in Seq(Seq(Messages)) /\ Len(Parts(r, k)) = Len(r)
      /\ \A i \in 1..Len(r) : Parts(r, k)[i] = Part(r[i], k)
  BY <1>6, PartsType
<1>8. \A i \in 1..Len(r) : Tail(p)[i] = Parts(r, k)[i]
  BY <1>1, <1>2, <1>5, <1>6, <1>7
<1>9. Tail(p) = Parts(r, k)
  BY <1>1, <1>5, <1>6, <1>7, <1>8, SeqEqual
<1>10. Head(p) = Part(Head(q), k)
  BY <1>1, <1>2, <1>4
<1>. QED
  BY <1>3, <1>9, <1>10 DEF p, r

LEMMA QueueType == TypeInv => queue \in Seq(Batches)
  BY DEF TypeInv, TypeOK, Batches

\* What of key k's messages is on its way to the interface agent.
InHand(k) == IF holder = k THEN hand ELSE <<>>

LEMMA InQueueParts == \A k : InQueue(k) = FlattenSeq(Parts(queue, k))
  BY DEF InQueue, Parts, Part

LEMMA WayTypes ==
  ASSUME TypeInv, NEW k \in Keys
  PROVE  /\ arrived[k] \in Seq(Messages) /\ received[k] \in Seq(Messages)
         /\ InQueue(k) \in Seq(Messages) /\ InHand(k) \in Seq(Messages)
         /\ pending[k] \in Seq(Messages)
<1>1. InQueue(k) \in Seq(Messages)
  BY QueueType, InQueueParts, PartsType, FlattenType
<1>2. InHand(k) \in Seq(Messages)
  BY EmptySeq DEF InHand, TypeInv, TypeOK
<1>. QED
  BY <1>1, <1>2 DEF TypeInv, TypeOK

LEMMA NothingLostStep ==
  ASSUME TypeInv, NothingLost, [Next]_vars
  PROVE  NothingLost'
<1> DEFINE Whole(k) ==
      arrived[k] = received[k] \o InQueue(k) \o InHand(k) \o pending[k]
<1>0. open => \A k \in Keys : Whole(k)
  BY DEF NothingLost, InHand
<1> SUFFICES ASSUME open', NEW k \in Keys
             PROVE  Whole(k)'
  BY DEF NothingLost, InHand
<1>a. open /\ Whole(k)
  BY <1>0 DEF Next, AddMessage, Wake, Send, Receive, CloseReceiver, Tick, vars
<1> HIDE DEF Whole
<1>1. ASSUME NEW j \in Keys, NEW m \in Messages, AddMessage(j, m)
      PROVE  Whole(k)'
  <2>1. /\ received' = received /\ InQueue(k)' = InQueue(k)
        /\ InHand(k)' = InHand(k)
    BY <1>1 DEF AddMessage, InQueue, InHand
  <2>2. CASE j = k
    <3>1. /\ arrived'[k] = Append(arrived[k], m)
          /\ pending'[k] = Append(pending[k], m)
      BY <1>1, <2>2 DEF AddMessage, TypeInv, TypeOK
    <3>2. Append(received[k] \o InQueue(k) \o InHand(k) \o pending[k], m)
            = received[k] \o InQueue(k) \o InHand(k) \o Append(pending[k], m)
      <4> DEFINE v == received[k] \o InQueue(k) \o InHand(k)
                 p == pending[k]
      <4>1. v \in Seq(Messages) /\ p \in Seq(Messages)
        BY WayTypes, ConcatProperties
      <4> HIDE DEF v, p
      <4>2. Append(v \o p, m) = v \o Append(p, m)
        <5>1. v \o p \in Seq(Messages) /\ <<m>> \in Seq(Messages)
          BY <4>1, ConcatProperties
        <5>2. /\ Append(v \o p, m) = (v \o p) \o <<m>>
              /\ Append(p, m) = p \o <<m>>
          BY <4>1, <5>1, AppendIsConcat
        <5>3. (v \o p) \o <<m>> = v \o (p \o <<m>>)
          BY <4>1, <5>1, ConcatAssociative
        <5>. QED
          BY <5>2, <5>3
      <4>. QED
        BY <4>2 DEF v, p
    <3>. QED
      BY <1>a, <2>1, <3>1, <3>2 DEF Whole
  <2>3. CASE j # k
    <3>1. arrived'[k] = arrived[k] /\ pending'[k] = pending[k]
      BY <1>1, <2>3 DEF AddMessage, TypeInv, TypeOK
    <3>. QED
      BY <1>a, <2>1, <3>1 DEF Whole
  <2>. QED
    BY <2>2, <2>3
<1>2. ASSUME NEW j \in Keys, NEW i \in DOMAIN timers[j], Wake(j, i)
      PROVE  Whole(k)'
  <2>1. /\ arrived' = arrived /\ received' = received
        /\ InQueue(k)' = InQueue(k)
    BY <1>2 DEF Wake, InQueue
  <2>2. CASE UNCHANGED <<pending, holder, hand>>
    BY <1>a, <2>1, <2>2 DEF Whole, InHand
  <2>3. CASE /\ pending' = [pending EXCEPT ![j] = <<>>]
             /\ holder' = j /\ hand' = pending[j]
    <3>1. InHand(k) = <<>>
      BY <1>2, SessionAssumption DEF Wake, InHand
    <3>2. InHand(k)' \o pending'[k] = InHand(k) \o pending[k]
      <4>1. pending[k] \in Seq(Messages)
        BY DEF TypeInv, TypeOK
      <4>2. CASE j = k
        <5>1. InHand(k)' = pending[k] /\ pending'[k] = <<>>
          BY <2>3, <4>2 DEF InHand, TypeInv, TypeOK
        <5>. QED
          BY <3>1, <4>1, <5>1, ConcatEmptySeq
      <4>3. CASE j # k
        BY <2>3, <3>1, <4>3 DEF InHand, TypeInv, TypeOK
      <4>. QED
        BY <4>2, <4>3
    <3> DEFINE x == received[k] \o InQueue(k)
               h == InHand(k)
               p == pending[k]
    <3>3. /\ x \in Seq(Messages) /\ h \in Seq(Messages) /\ p \in Seq(Messages)
          /\ h' \in Seq(Messages) /\ p' \in Seq(Messages)
      <4>1. TypeInv'
        BY NextType
      <4>2. received[k] \o InQueue(k) \in Seq(Messages)
        BY WayTypes, ConcatProperties
      <4>3. InHand(k)' \in Seq(Messages) /\ pending'[k] \in Seq(Messages)
        BY <4>1, EmptySeq DEF InHand, TypeInv, TypeOK
      <4>. QED
        BY <4>2, <4>3, WayTypes
    <3>4. x' = x /\ h' \o p' = h \o p
      BY <2>1, <3>2
    <3>5. Whole(k) <=> arrived[k] = (x \o h) \o p
      BY DEF Whole
    <3>6. Whole(k)' <=> arrived[k] = (x \o h') \o p'
      BY <2>1 DEF Whole
    <3> HIDE DEF x, h, p
    <3>7. (x \o h) \o p = x \o (h \o p) /\ (x \o h') \o p' = x \o (h' \o p')
      <4>1. \A a, b, c \in Seq(Messages) : a \o (b \o c) = (a \o b) \o c
        BY ConcatAssoc
      <4>2. x \in Seq(Messages) /\ h \in Seq(Messages) /\ p \in Seq(Messages)
        BY <3>3
      <4>3. /\ x \in Seq(Messages)
            /\ h' \in Seq(Messages) /\ p' \in Seq(Messages)
        BY <3>3
      <4>4. (x \o h) \o p = x \o (h \o p)
        BY <4>1, <4>2, Zenon
      <4>5. (x \o h') \o p' = x \o (h' \o p')
        BY <4>1, <4>3, Zenon
      <4>. QED
        BY <4>4, <4>5
    <3>. QED
      BY <1>a, <3>4, <3>5, <3>6, <3>7
  <2>. QED
    BY <1>2, <2>2, <2>3, WakeEffect
<1>3. CASE Send
  <2>1. /\ arrived' = arrived /\ received' = received /\ pending' = pending
        /\ queue' = Append(queue, Batch(holder, hand)) /\ holder' = Free
        /\ holder \in Keys
    BY <1>a, <1>3 DEF Send, TypeInv, TypeOK
  <2>2. /\ Batch(holder, hand) \in Batches
        /\ Part(Batch(holder, hand), k) = InHand(k)
    BY <2>1 DEF Batch, Batches, Part, InHand, TypeInv, TypeOK
  <2>3. Parts(queue', k) = Append(Parts(queue, k), InHand(k))
    BY <2>1, <2>2, QueueType, PartsAppend
  <2>4. InQueue(k)' = InQueue(k) \o InHand(k)
    <3>1. InQueue(k)' = FlattenSeq(Parts(queue', k))
      BY DEF InQueue, Parts, Part
    <3>2. Parts(queue, k) \in Seq(Seq(Messages))
      BY QueueType, PartsType
    <3>. QED
      BY <2>3, <3>1, <3>2, WayTypes, InQueueParts, FlattenAppend
  <2>5. InHand(k)' = <<>>
    BY <2>1, SessionAssumption DEF InHand
  <2> DEFINE r == received[k]
             q == InQueue(k)
             h == InHand(k)
             p == pending[k]
  <2>6. r \in Seq(Messages) /\ q \in Seq(Messages) /\ h \in Seq(Messages)
    BY WayTypes
  <2>7. Whole(k) <=> arrived[k] = r \o q \o h \o p
    BY DEF Whole
  <2>8. Whole(k)' <=> arrived[k] = r \o (q \o h) \o <<>> \o p
    BY <2>1, <2>4, <2>5 DEF Whole
  <2> HIDE DEF r, q, h, p
  <2>9. r \o (q \o h) \o <<>> = r \o (q \o h)
    <3>1. r \o (q \o h) \in Seq(Messages)
      BY <2>6, ConcatProperties
    <3>. QED
      BY <3>1, ConcatEmptySeq
  <2>10. r \o (q \o h) = r \o q \o h
    BY <2>6, ConcatAssociative
  <2>. QED
    BY <1>a, <2>7, <2>8, <2>9, <2>10
<1>4. CASE Receive
  <2> DEFINE b == Head(queue)
  <2>1. /\ queue # <<>> /\ arrived' = arrived /\ pending' = pending
        /\ holder' = holder /\ hand' = hand /\ queue' = Tail(queue)
        /\ received' = [received EXCEPT ![b.key] = @ \o b.messages]
    BY <1>4 DEF Receive
  <2>2. b \in Batches /\ Part(b, k) \in Seq(Messages)
    BY <2>1, QueueType, HeadTailProperties, PartType
  <2>3. InQueue(k) = Part(b, k) \o InQueue(k)'
    <3>1. /\ Parts(queue, k) # <<>> /\ Head(Parts(queue, k)) = Part(b, k)
          /\ Tail(Parts(queue, k)) = Parts(queue', k)
      BY <2>1, QueueType, PartsTail
    <3>2. InQueue(k)' = FlattenSeq(Parts(queue', k))
      BY DEF InQueue, Parts, Part
    <3>3. Parts(queue, k) \in Seq(Seq(Messages))
      BY QueueType, PartsType
    <3>. QED
      BY <3>1, <3>2, <3>3, InQueueParts, FlattenHead
  <2>4. received'[k] = received[k] \o Part(b, k)
    <3>1. received \in [Keys -> Seq(Messages)]
      BY DEF TypeInv, TypeOK
    <3>2. CASE b.key = k
      BY <2>1, <3>1, <3>2 DEF Part
    <3>3. CASE b.key # k
      <4>1. received'[k] = received[k] /\ received[k] \in Seq(Messages)
        BY <2>1, <3>1, <3>3
      <4>. QED
        BY <3>3, <4>1, ConcatEmptySeq DEF Part
    <3>. QED
      BY <3>2, <3>3
  <2>5. InQueue(k)' \in Seq(Messages)
    <3>1. TypeInv'
      BY NextType
    <3>2. queue' \in Seq(Batches)
      BY <3>1 DEF TypeInv, TypeOK, Batches
    <3>3. FlattenSeq(Parts(queue', k)) \in Seq(Messages)
      BY <3>2, PartsType, FlattenType
    <3>. QED
      BY <3>3 DEF InQueue, Parts, Part
  <2> DEFINE r == received[k]
             q == InQueue(k)
             x == Part(b, k)
             h == InHand(k)
             p == pending[k]
  <2>6. r \in Seq(Messages) /\ q' \in Seq(Messages) /\ x \in Seq(Messages)
    BY <2>2, <2>5, WayTypes
  <2>7. Whole(k) <=> arrived[k] = r \o (x \o q') \o h \o p
    BY <2>3 DEF Whole
  <2>8. Whole(k)' <=> arrived[k] = r \o x \o q' \o h \o p
    BY <2>1, <2>4 DEF Whole, InHand
  <2> HIDE DEF r, q, x, h, p
  <2>9. r \o (x \o q') = r \o x \o q'
    BY <2>6, ConcatAssociative
  <2>. QED
    BY <1>a, <2>7, <2>8, <2>9
<1>5. CASE CloseReceiver
  BY <1>5 DEF CloseReceiver
<1>6. CASE Tick \/ UNCHANGED vars
  BY <1>a, <1>6 DEF Tick, vars, Whole, InQueue, InHand
<1>. QED
  BY <1>1, <1>2, <1>3, <1>4, <1>5, <1>6 DEF Next

\* On the way from the adapter to the interface agent, through the session,
\* the timer's hand and the batch channel, no message is lost, duplicated or
\* reordered within its channel, as long as the interface agent runs.
THEOREM NoMessageIsLost == Spec => []NothingLost
<1>1. Init => NothingLost
  <2> SUFFICES ASSUME Init, NEW k \in Keys
               PROVE  arrived[k] = received[k] \o InQueue(k)
                        \o (IF holder = k THEN hand ELSE <<>>) \o pending[k]
    BY DEF NothingLost
  <2>1. Parts(queue, k) = <<>>
    <3>1. queue = <<>> /\ queue \in Seq(Batches)
      BY EmptySeq DEF Init
    <3>2. Parts(queue, k) \in Seq(Seq(Messages)) /\ Len(Parts(queue, k)) = 0
      BY <3>1, PartsType
    <3>. QED
      BY <3>2, EmptySeq
  <2>2. InQueue(k) = <<>>
    BY <2>1, InQueueParts DEF FlattenSeq
  <2>3. holder # k
    BY SessionAssumption DEF Init
  <2>4. <<>> \o <<>> \o <<>> \o <<>> = <<>>
    BY EmptySeq, ConcatEmptySeq
  <2>. QED
    BY <2>2, <2>3, <2>4 DEF Init
<1>. QED
  BY <1>1, NothingLostStep, TypeInvariant, PTL DEF Spec
=============================================================================
