------------------------------ MODULE Session ------------------------------
(***************************************************************************)
(* Debounced batching of incoming messages (interface/session.rs).         *)
(*                                                                         *)
(* add_message appends to the channel's session under the sessions mutex   *)
(* and, for the first message of a batch, spawns a timer task.  The timer  *)
(* sleeps one debounce window at a time and flushes the session when the   *)
(* last message is at least one window old.  It sends the batch while it   *)
(* still holds the mutex, so a full batch channel blocks every add_message *)
(* and every other timer.                                                  *)
(*                                                                         *)
(* Time is discrete and relative: a session knows how long ago its last    *)
(* message came and a timer how long it still sleeps.  A sleeping task     *)
(* wakes at its deadline or up to Lateness ticks later.                    *)
(***************************************************************************)
EXTENDS Integers, Sequences, SequencesExt

CONSTANTS
  Keys,      \* interface:channel keys
  Messages,  \* the messages of a behaviour, each arriving at most once
  Debounce,  \* the debounce window, in ticks
  Lateness,  \* how many ticks after its deadline a timer may run
  Capacity,  \* capacity of the batch channel (64 in SessionManager::new)
  Free       \* nobody holds the sessions mutex

ASSUME SessionAssumption ==
  /\ Debounce \in Nat \ {0} /\ Lateness \in Nat /\ Capacity \in Nat \ {0}
  /\ Free \notin Keys

VARIABLES
  pending,   \* the messages of each key's session; <<>> if there is no session
  age,       \* ticks since a key's last message, at most Debounce
  timers,    \* per key, the ticks each of its timer tasks still sleeps
  holder,    \* the key whose timer holds the mutex to send its batch, or Free
  hand,      \* the batch that timer sends
  queue,     \* the batch channel
  open,      \* is the receiver alive
  \* History, which no action reads:
  arrived,   \* per key, the messages in order of arrival
  received,  \* per key, the messages the receiver has taken, in order
  waited     \* per key, ticks since the last message while the mutex was free

vars == <<pending, age, timers, holder, hand, queue, open, arrived, received,
          waited>>

Longest == 2 * Debounce + Lateness

Batch(k, ms) == [key |-> k, messages |-> ms]
Seen(m) == \E k \in Keys : m \in Range(arrived[k])
AtMost(n, bound) == IF n < bound THEN n ELSE bound

Init ==
  /\ pending = [k \in Keys |-> <<>>]
  /\ age = [k \in Keys |-> 0]
  /\ timers = [k \in Keys |-> <<>>]
  /\ holder = Free
  /\ hand = <<>>
  /\ queue = <<>>
  /\ open = TRUE
  /\ arrived = [k \in Keys |-> <<>>]
  /\ received = [k \in Keys |-> <<>>]
  /\ waited = [k \in Keys |-> 0]

-----------------------------------------------------------------------------
\* Mutant: every message spawns a timer.
AddMessageSpawnsAlways(k, m) ==
  /\ holder = Free /\ ~Seen(m)
  /\ pending' = [pending EXCEPT ![k] = Append(@, m)]
  /\ age' = [age EXCEPT ![k] = 0]
  /\ timers' = [timers EXCEPT ![k] = Append(@, Debounce)]
  /\ arrived' = [arrived EXCEPT ![k] = Append(@, m)]
  /\ waited' = [waited EXCEPT ![k] = 0]
  /\ UNCHANGED <<holder, hand, queue, open, received>>

\* add_message, which waits for the mutex.
AddMessage(k, m) ==
  /\ holder = Free /\ ~Seen(m)
  /\ pending' = [pending EXCEPT ![k] = Append(@, m)]
  /\ age' = [age EXCEPT ![k] = 0]
  /\ timers' = IF pending[k] = <<>>
               THEN [timers EXCEPT ![k] = Append(@, Debounce)] ELSE timers
  /\ arrived' = [arrived EXCEPT ![k] = Append(@, m)]
  /\ waited' = [waited EXCEPT ![k] = 0]
  /\ UNCHANGED <<holder, hand, queue, open, received>>

\* Mutant: the timer flushes without looking at the last message's age.
WakeUnconditionally(k, i) ==
  /\ holder = Free
  /\ timers[k][i] <= 0
  /\ timers' = [timers EXCEPT ![k] = RemoveAt(@, i)]
  /\ pending' = [pending EXCEPT ![k] = <<>>]
  /\ holder' = IF pending[k] = <<>> THEN Free ELSE k
  /\ hand' = pending[k]
  /\ UNCHANGED <<age, queue, open, arrived, received, waited>>

\* Mutant: the timer ends when the session is not quiet.
WakeGivesUp(k, i) ==
  /\ holder = Free
  /\ timers[k][i] <= 0
  /\ timers' = [timers EXCEPT ![k] = RemoveAt(@, i)]
  /\ IF pending[k] # <<>> /\ age[k] < Debounce
     THEN UNCHANGED <<pending, holder, hand>>
     ELSE /\ pending' = [pending EXCEPT ![k] = <<>>]
          /\ holder' = IF pending[k] = <<>> THEN Free ELSE k
          /\ hand' = pending[k]
  /\ UNCHANGED <<age, queue, open, arrived, received, waited>>

\* Mutant: the timer backs off to a second window.
WakeBacksOff(k, i) ==
  /\ holder = Free
  /\ timers[k][i] <= 0
  /\ IF pending[k] # <<>> /\ age[k] < Debounce
     THEN /\ timers' = [timers EXCEPT ![k][i] = 2 * Debounce]
          /\ UNCHANGED <<pending, holder, hand>>
     ELSE /\ timers' = [timers EXCEPT ![k] = RemoveAt(@, i)]
          /\ pending' = [pending EXCEPT ![k] = <<>>]
          /\ holder' = IF pending[k] = <<>> THEN Free ELSE k
          /\ hand' = pending[k]
  /\ UNCHANGED <<age, queue, open, arrived, received, waited>>

\* Timer i of key k wakes up and gets the mutex: it flushes a session that
\* has been quiet for a whole window, else sleeps one more window; without a
\* session it ends.
Wake(k, i) ==
  /\ holder = Free
  /\ timers[k][i] <= 0
  /\ IF pending[k] # <<>> /\ age[k] < Debounce
     THEN /\ timers' = [timers EXCEPT ![k][i] = Debounce]
          /\ UNCHANGED <<pending, holder, hand>>
     ELSE /\ timers' = [timers EXCEPT ![k] = RemoveAt(@, i)]
          /\ pending' = [pending EXCEPT ![k] = <<>>]
          /\ holder' = IF pending[k] = <<>> THEN Free ELSE k
          /\ hand' = pending[k]
  /\ UNCHANGED <<age, queue, open, arrived, received, waited>>

\* Mutant: try_send, which drops the batch when the channel is full.
TrySend ==
  /\ holder # Free
  /\ queue' = IF open /\ Len(queue) < Capacity
              THEN Append(queue, Batch(holder, hand)) ELSE queue
  /\ holder' = Free
  /\ hand' = <<>>
  /\ UNCHANGED <<pending, age, timers, open, arrived, received, waited>>

\* The timer's send completes and the mutex is released; to a dropped
\* receiver it fails, which the code ignores.
Send ==
  /\ holder # Free
  /\ IF open
     THEN Len(queue) < Capacity /\ queue' = Append(queue, Batch(holder, hand))
     ELSE UNCHANGED queue
  /\ holder' = Free
  /\ hand' = <<>>
  /\ UNCHANGED <<pending, age, timers, open, arrived, received, waited>>

\* The interface task takes the next batch.
Receive ==
  /\ open /\ queue # <<>>
  /\ LET b == Head(queue)
     IN received' = [received EXCEPT ![b.key] = @ \o b.messages]
  /\ queue' = Tail(queue)
  /\ UNCHANGED <<pending, age, timers, holder, hand, open, arrived, waited>>

\* The interface task ends; what is queued is dropped with the receiver.
CloseReceiver ==
  /\ open
  /\ open' = FALSE
  /\ queue' = <<>>
  /\ UNCHANGED <<pending, age, timers, holder, hand, arrived, received, waited>>

\* Time passes unless some task has to run first: a send that has room, or a
\* timer that can take the mutex and is Lateness ticks late.
Tick ==
  /\ holder # Free => open /\ Len(queue) = Capacity
  /\ holder = Free =>
       \A k \in Keys : \A i \in DOMAIN timers[k] : timers[k][i] > -Lateness
  /\ age' = [k \in Keys |-> AtMost(age[k] + 1, Debounce)]
  /\ timers' = [k \in Keys |->
                  [i \in DOMAIN timers[k] |->
                     IF timers[k][i] > -Lateness THEN timers[k][i] - 1
                                                 ELSE timers[k][i]]]
  /\ waited' = IF holder = Free
               THEN [k \in Keys |-> AtMost(waited[k] + 1, Longest)] ELSE waited
  /\ UNCHANGED <<pending, holder, hand, queue, open, arrived, received>>

Next ==
  \/ \E k \in Keys, m \in Messages : AddMessage(k, m)
  \/ \E k \in Keys : \E i \in DOMAIN timers[k] : Wake(k, i)
  \/ Send \/ Receive \/ CloseReceiver \/ Tick

Spec == Init /\ [][Next]_vars

\* Timers run, time passes and the receiver keeps taking batches.
FairSpec ==
  /\ Spec
  /\ \A k \in Keys : WF_vars(\E i \in DOMAIN timers[k] : Wake(k, i))
  /\ WF_vars(Send) /\ WF_vars(Receive) /\ WF_vars(Tick)

-----------------------------------------------------------------------------
TypeOK ==
  /\ pending \in [Keys -> Seq(Messages)]
  /\ age \in [Keys -> 0..Debounce]
  /\ timers \in [Keys -> Seq(-Lateness..Debounce)]
  /\ holder \in Keys \cup {Free}
  /\ hand \in Seq(Messages)
  /\ queue \in Seq([key: Keys, messages: Seq(Messages)])
  /\ open \in BOOLEAN
  /\ arrived \in [Keys -> Seq(Messages)]
  /\ received \in [Keys -> Seq(Messages)]
  /\ waited \in [Keys -> 0..Longest]

\* A session has exactly one timer task and a key without one has none: no
\* batch is left without a flush and none is flushed twice.
OneTimerPerSession ==
  \A k \in Keys : Len(timers[k]) = IF pending[k] = <<>> THEN 0 ELSE 1

\* A burst is not split: as long as the last message of a key is younger than
\* the window, it is still pending.
BurstsStayTogether ==
  \A k \in Keys : arrived[k] # <<>> /\ age[k] < Debounce => pending[k] # <<>>

InQueue(k) ==
  FlattenSeq([i \in DOMAIN queue |->
                IF queue[i].key = k THEN queue[i].messages ELSE <<>>])

\* Until the receiver is gone no message is lost, duplicated or reordered
\* within its channel on the way from the adapter to the interface agent.
NothingLost ==
  open => \A k \in Keys :
    arrived[k] = received[k] \o InQueue(k)
                   \o (IF holder = k THEN hand ELSE <<>>) \o pending[k]

\* A message waits less than two windows and the timers' lateness after the
\* last one of its burst, not counting the time the batch channel is full.
FlushedInTime == \A k \in Keys : pending[k] # <<>> => waited[k] < Longest

\* Every message reaches the interface agent, unless that is gone.
AllReceived ==
  \A k \in Keys : pending[k] # <<>> ~> (arrived[k] = received[k] \/ ~open)
=============================================================================
