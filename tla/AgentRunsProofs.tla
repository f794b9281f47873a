-------------------------- MODULE AgentRunsProofs --------------------------
(***************************************************************************)
(* Proofs about AgentRuns, for any number of runs, messages and permits.   *)
(***************************************************************************)
EXTENDS AgentRuns, FiniteSetTheorems, TLAPS

-----------------------------------------------------------------------------
(***************************************************************************)
(* Facts about the vocabulary                                              *)
(***************************************************************************)
LEMMA PlaceNames ==
  /\ "idle" \in Places /\ "queued" \in Places /\ "returned" \in Places
  /\ "admitted" \in Places /\ "announced" \in Places /\ "leaving" \in Places
  /\ "preparing" \in Places /\ "prompting" \in Places
  /\ "completing" \in Places /\ "tooling" \in Places
  /\ "delegating" \in Places /\ "steering" \in Places
  BY DEF Places, Holding, Present, Listening

LEMMA EventNames ==
  /\ "started" \in Events /\ "completed" \in Events
  /\ "failed" \in Events /\ "interrupted" \in Events
  BY DEF Events

LEMMA KindType == \A r \in Runs : Kind(r) \in Kinds
  BY DEF Kind, Kinds

LEMMA LimitType == \A k \in Kinds : Limit(k) \in Nat
  BY ConstantsAssumption DEF Limit, Kinds

LEMMA StepsType == \A r \in Runs : Steps(r) \in Nat
  BY ConstantsAssumption DEF Steps

\* Publishing an event counts it and nothing else.
LEMMA PublishType ==
  ASSUME published \in [Runs -> [Events -> Nat]],
         NEW r \in Runs, NEW e \in Events, Publish(r, e)
  PROVE  published' \in [Runs -> [Events -> Nat]]
<1>1. [published[r] EXCEPT ![e] = @ + 1] \in [Events -> Nat]
  OBVIOUS
<1>2. published' = [published EXCEPT ![r] = [published[r] EXCEPT ![e] = @ + 1]]
  BY Zenon DEF Publish
<1>. QED
  BY <1>1, <1>2

-----------------------------------------------------------------------------
(***************************************************************************)
(* Type correctness                                                        *)
(***************************************************************************)
\* A run that is at its tools, or waits for one, has a tool call to finish.
ToolsLeft ==
  \A r \in Runs : pc[r] \in {"tooling", "delegating"} => tools[r] > 0

TypeInv == TypeOK /\ ToolsLeft

LEMMA InitType == Init => TypeInv
<1> SUFFICES ASSUME Init PROVE TypeInv
  OBVIOUS
<1>1. TypeOK
  BY ConstantsAssumption, PlaceNames, LimitType DEF Init, TypeOK, Signals
<1>2. ToolsLeft
  BY DEF Init, ToolsLeft
<1>. QED
  BY <1>1, <1>2 DEF TypeInv

\* What a cancelled prompt changes.
LEMMA CancelledType ==
  ASSUME TypeOK, NEW r \in Runs, Cancelled(r)
  PROVE  /\ published' \in [Runs -> [Events -> Nat]]
         /\ pc' \in [Runs -> Places]
         /\ applied' \in [Messages -> [Runs -> Nat]]
<1>1. CASE signal[r] = WrapUp /\ Leave(r, "interrupted") /\ UNCHANGED applied
  BY <1>1, EventNames, PlaceNames, PublishType DEF Leave, Goto, TypeOK
<1>2. ASSUME NEW m \in Messages, signal[r] = m, Goto(r, "steering"),
             applied' = [applied EXCEPT ![m][r] = @ + 1], UNCHANGED published
      PROVE  /\ published' \in [Runs -> [Events -> Nat]]
             /\ pc' \in [Runs -> Places]
             /\ applied' \in [Messages -> [Runs -> Nat]]
  BY <1>2, PlaceNames DEF Goto, TypeOK
<1>. QED
  BY <1>1, <1>2 DEF Cancelled

LEMMA StepType ==
  ASSUME TypeOK, ToolsLeft, NEW r \in Runs, Step(r)
  PROVE  TypeOK'
<1> USE DEF Goto, promptVars, history, queueVars
<1>1. CASE Acquire(r)
  <2>1. waiting[Kind(r)] \in Seq(Runs)
    BY KindType DEF TypeOK
  <2>2. Tail(waiting[Kind(r)]) \in Seq(Runs)
    <3>1. waiting[Kind(r)] # <<>>
      BY <1>1 DEF Acquire
    <3>. QED
      BY <2>1, <3>1
  <2>3. waiting' \in [Kinds -> Seq(Runs)]
    BY <1>1, <2>2, KindType DEF TypeOK, Acquire
  <2>4. permits[Kind(r)] - 1 \in Nat
    <3>1. permits[Kind(r)] \in Nat
      BY KindType DEF TypeOK
    <3>2. permits[Kind(r)] > 0
      BY <1>1 DEF Acquire
    <3>. QED
      BY <3>1, <3>2
  <2>5. permits' \in [Kinds -> Nat]
    BY <1>1, <2>4, KindType DEF TypeOK, Acquire
  <2>. QED
    BY <1>1, <2>3, <2>5, PlaceNames DEF Acquire, TypeOK
<1>2. CASE NoNode(r)
  BY <1>2, PlaceNames, KindType DEF NoNode, Release, TypeOK
<1>3. CASE Announce(r)
  <2>1. published' \in [Runs -> [Events -> Nat]]
    BY <1>3, EventNames, PublishType DEF Announce, TypeOK
  <2>. QED
    BY <1>3, <2>1, PlaceNames DEF Announce, TypeOK
<1>4. CASE Register(r)
  BY <1>4, PlaceNames DEF Register, TypeOK, Signals
<1>5. CASE PrepareFails(r)
  BY <1>5, PlaceNames DEF PrepareFails, TypeOK
<1>6. CASE PrepareSucceeds(r)
  BY <1>6, PlaceNames, StepsType DEF PrepareSucceeds, TypeOK
<1>7. CASE HitLimit(r) \/ Answer(r) \/ FatalError(r)
  <2>1. published' \in [Runs -> [Events -> Nat]]
    BY <1>7, EventNames, PublishType
    DEF HitLimit, Answer, FatalError, Leave, TypeOK
  <2>2. pc' \in [Runs -> Places]
    BY <1>7, PlaceNames DEF HitLimit, Answer, FatalError, Leave, TypeOK
  <2>. QED
    BY <1>7, <2>1, <2>2 DEF HitLimit, Answer, FatalError, TypeOK
<1>8. CASE CompletionCall(r)
  <2>1. turns' \in [Runs -> Nat] /\ calls' \in [Runs -> Nat]
    BY <1>8 DEF CompletionCall, TypeOK
  <2>2. CASE HookContinues(r)
    BY <1>8, <2>1, <2>2, PlaceNames DEF CompletionCall, TypeOK
  <2>3. CASE Cancelled(r)
    BY <1>8, <2>1, <2>3, CancelledType DEF CompletionCall, TypeOK
  <2>. QED
    BY <1>8, <2>2, <2>3 DEF CompletionCall
<1>9. CASE TransientError(r)
  <2>1. published' \in [Runs -> [Events -> Nat]]
    BY <1>9, EventNames, PublishType DEF TransientError, Leave, TypeOK
  <2>2. pc' \in [Runs -> Places]
    BY <1>9, PlaceNames, ZenonT(60) DEF TransientError, Leave, TypeOK
  <2>3. calls' \in [Runs -> Nat]
    BY <1>9 DEF TransientError, TypeOK
  <2>4. attempt' \in [Runs -> 0..MaxRetries]
    <3>1. CASE attempt[r] < MaxRetries
      <4>1. attempt[r] + 1 \in 0..MaxRetries
        BY <3>1, ConstantsAssumption DEF TypeOK
      <4>. QED
        BY <1>9, <3>1, <4>1, ZenonT(60) DEF TransientError, TypeOK
    <3>2. CASE attempt' = attempt
      BY <3>2 DEF TypeOK
    <3>. QED
      BY <1>9, <3>1, <3>2 DEF TransientError
  <2>. QED
    BY <1>9, <2>1, <2>2, <2>3, <2>4 DEF TransientError, TypeOK
<1>10. ASSUME NEW n \in 1..MaxTools, AskTools(r, n)
       PROVE  TypeOK'
  BY <1>10, PlaceNames, ConstantsAssumption DEF AskTools, TypeOK
<1>11. CASE ToolCancelled(r)
  BY <1>11, CancelledType DEF ToolCancelled, TypeOK
<1>12. CASE RunTool(r)
  <2>1. tools' \in [Runs -> 0..MaxTools]
    BY <1>12, ConstantsAssumption DEF RunTool, TypeOK, ToolsLeft
  <2>. QED
    BY <1>12, <2>1, PlaceNames DEF RunTool, AfterTool, TypeOK
<1>13. ASSUME NEW o \in Runs, DelegateOperator(r, o)
       PROVE  TypeOK'
  <2>1. pc' \in [Runs -> Places]
    BY <1>13, PlaceNames DEF DelegateOperator, TypeOK
  <2>2. waiting' \in [Kinds -> Seq(Runs)]
    BY <1>13, KindType DEF DelegateOperator, Enqueue, TypeOK
  <2>. QED
    BY <1>13, <2>1, <2>2 DEF DelegateOperator, TypeOK
<1>14. ASSUME NEW o \in Runs, OperatorReturns(r, o)
       PROVE  TypeOK'
  <2>1. tools' \in [Runs -> 0..MaxTools]
    BY <1>14, ConstantsAssumption DEF OperatorReturns, TypeOK, ToolsLeft
  <2>. QED
    BY <1>14, <2>1, PlaceNames DEF OperatorReturns, AfterTool, TypeOK
<1>15. CASE Restart(r)
  <2>1. budget' \in [Runs -> Nat]
    BY <1>15, StepsType DEF Restart, TypeOK
  <2>2. tools' \in [Runs -> 0..MaxTools] /\ attempt' \in [Runs -> 0..MaxRetries]
    BY <1>15, ConstantsAssumption DEF Restart, TypeOK
  <2>. QED
    BY <1>15, <2>1, <2>2, PlaceNames DEF Restart, TypeOK, Signals
<1>16. CASE Deregister(r)
  BY <1>16, PlaceNames, KindType DEF Deregister, Release, TypeOK
<1>. QED
  BY <1>1, <1>2, <1>3, <1>4, <1>5, <1>6, <1>7, <1>8, <1>9, <1>10, <1>11,
     <1>12, <1>13, <1>14, <1>15, <1>16 DEF Step

LEMMA StepToolsLeft ==
  ASSUME TypeOK, ToolsLeft, NEW r \in Runs, Step(r)
  PROVE  ToolsLeft'
<1> SUFFICES ASSUME NEW q \in Runs, pc'[q] \in {"tooling", "delegating"}
             PROVE  tools'[q] > 0
  BY DEF ToolsLeft
<1> USE DEF Goto, promptVars
<1>1. CASE \/ Acquire(r) \/ NoNode(r) \/ Announce(r) \/ Register(r)
           \/ PrepareFails(r) \/ PrepareSucceeds(r) \/ Deregister(r)
  BY <1>1 DEF TypeOK, ToolsLeft, Acquire, NoNode, Announce, Register,
              PrepareFails, PrepareSucceeds, Deregister
<1>2. CASE \/ HitLimit(r) \/ CompletionCall(r) \/ Answer(r) \/ FatalError(r)
           \/ TransientError(r) \/ ToolCancelled(r)
  BY <1>2 DEF TypeOK, ToolsLeft, HitLimit, CompletionCall, Answer, FatalError,
              TransientError, ToolCancelled, Cancelled, Leave
<1>3. ASSUME NEW n \in 1..MaxTools, AskTools(r, n)
      PROVE  tools'[q] > 0
  BY <1>3 DEF TypeOK, ToolsLeft, AskTools
<1>4. CASE RunTool(r)
  BY <1>4 DEF TypeOK, ToolsLeft, RunTool, AfterTool
<1>5. ASSUME NEW o \in Runs, DelegateOperator(r, o)
      PROVE  tools'[q] > 0
  BY <1>5 DEF TypeOK, ToolsLeft, DelegateOperator
<1>6. ASSUME NEW o \in Runs, OperatorReturns(r, o)
      PROVE  tools'[q] > 0
  BY <1>6, SMTT(30) DEF TypeOK, ToolsLeft, OperatorReturns, AfterTool
<1>7. CASE Restart(r)
  BY <1>7 DEF TypeOK, ToolsLeft, Restart
<1>. QED
  BY <1>1, <1>2, <1>3, <1>4, <1>5, <1>6, <1>7 DEF Step

LEMMA EnvironmentType ==
  ASSUME TypeInv, Environment
  PROVE  TypeInv'
<1> USE DEF promptVars, queueVars
<1>1. ASSUME NEW r \in Runs, NEW c \in Channels, Delegate(r, c)
      PROVE  TypeInv'
  <2>1. waiting' \in [Kinds -> Seq(Runs)]
    BY <1>1, KindType DEF Delegate, Enqueue, TypeInv, TypeOK
  <2>2. TypeOK'
    BY <1>1, <2>1, PlaceNames DEF Delegate, TypeInv, TypeOK, history
  <2>3. ToolsLeft'
    BY <1>1 DEF Delegate, TypeInv, TypeOK, ToolsLeft
  <2>. QED
    BY <2>2, <2>3 DEF TypeInv
<1>2. ASSUME NEW r \in Runs, NEW s \in Signals, Accept(r, s),
             sentTo' \in [Messages -> Runs \cup {Nobody}]
      PROVE  TypeInv'
  BY <1>2 DEF Accept, TypeInv, TypeOK, ToolsLeft
<1>3. ASSUME NEW r \in Runs, SignalWrapUp(r)
      PROVE  TypeInv'
  BY <1>2, <1>3 DEF SignalWrapUp, Signals, TypeInv, TypeOK
<1>4. ASSUME NEW r \in Runs, NEW m \in Messages, SignalSteer(r, m)
      PROVE  TypeInv'
  BY <1>2, <1>4 DEF SignalSteer, Signals, TypeInv, TypeOK
<1>5. ASSUME NEW c \in Channels, NEW m \in Messages, SignalChannel(c, m)
      PROVE  TypeInv'
  BY <1>4, <1>5 DEF SignalChannel, TypeInv, TypeOK
<1>. QED
  BY <1>1, <1>3, <1>4, <1>5 DEF Environment

LEMMA StutterType ==
  ASSUME TypeInv, UNCHANGED vars
  PROVE  TypeInv'
  BY DEF vars, TypeInv, TypeOK, ToolsLeft

\* The variables always hold what their declarations say, and no tool loop
\* counts below zero.
THEOREM TypeCorrect == Spec => []TypeOK
<1>1. Init => TypeInv
  BY InitType
<1>2. TypeInv /\ [Next]_vars => TypeInv'
  BY StepType, StepToolsLeft, EnvironmentType, StutterType DEF Next, TypeInv
<1>3. TypeInv => TypeOK
  BY DEF TypeInv
<1>. QED
  BY <1>1, <1>2, <1>3, PTL DEF Spec

-----------------------------------------------------------------------------
(***************************************************************************)
(* The registry                                                            *)
(***************************************************************************)
LEMMA StepRegistry ==
  ASSUME TypeOK, RegistryTracksRuns, NEW r \in Runs, Step(r)
  PROVE  RegistryTracksRuns'
<1> USE DEF Goto, RegistryTracksRuns, Present, Listening
<1>1. CASE Acquire(r) \/ NoNode(r) \/ Announce(r)
  BY <1>1 DEF TypeOK, Acquire, NoNode, Announce
<1>2. CASE Register(r)
  BY <1>2 DEF TypeOK, Register
<1>3. CASE PrepareFails(r) \/ PrepareSucceeds(r)
  BY <1>3 DEF TypeOK, PrepareFails, PrepareSucceeds
<1>4. CASE HitLimit(r) \/ Answer(r) \/ FatalError(r) \/ TransientError(r)
  BY <1>4, SMTT(30)
  DEF TypeOK, HitLimit, Answer, FatalError, TransientError, Leave
<1>5. CASE CompletionCall(r) \/ ToolCancelled(r)
  <2>1. registered' = registered /\ pc[r] \in {"prompting", "tooling"}
    BY <1>5 DEF CompletionCall, ToolCancelled
  <2>2. \E place \in {"completing", "leaving", "steering"} :
           pc' = [pc EXCEPT ![r] = place]
    BY <1>5 DEF CompletionCall, ToolCancelled, Cancelled, Leave
  <2>. QED
    BY <2>1, <2>2 DEF TypeOK
<1>6. ASSUME NEW n \in 1..MaxTools, AskTools(r, n)
      PROVE  RegistryTracksRuns'
  BY <1>6 DEF TypeOK, AskTools
<1>7. CASE RunTool(r) \/ Restart(r)
  BY <1>7 DEF TypeOK, RunTool, AfterTool, Restart
<1>8. ASSUME NEW o \in Runs, DelegateOperator(r, o) \/ OperatorReturns(r, o)
      PROVE  RegistryTracksRuns'
  BY <1>8 DEF TypeOK, DelegateOperator, OperatorReturns, AfterTool
<1>9. CASE Deregister(r)
  BY <1>9 DEF TypeOK, Deregister
<1>. QED
  BY <1>1, <1>2, <1>3, <1>4, <1>5, <1>6, <1>7, <1>8, <1>9 DEF Step

LEMMA EnvironmentRegistry ==
  ASSUME TypeOK, RegistryTracksRuns, Environment
  PROVE  RegistryTracksRuns'
<1> USE DEF RegistryTracksRuns, Present, Listening
<1>1. ASSUME NEW r \in Runs, NEW c \in Channels, Delegate(r, c)
      PROVE  RegistryTracksRuns'
  BY <1>1 DEF TypeOK, Delegate
<1>2. CASE UNCHANGED <<pc, registered>>
  BY <1>2
<1>. QED
  BY <1>1, <1>2
  DEF Environment, SignalWrapUp, SignalSteer, SignalChannel, Accept

\* The registry holds a run exactly from its registration until it returns,
\* whichever way run_inner ends.
THEOREM RegistryExact == Spec => []RegistryTracksRuns
<1>1. Init => RegistryTracksRuns
  BY DEF Init, RegistryTracksRuns, Present, Listening
<1>2. TypeOK /\ RegistryTracksRuns /\ [Next]_vars => RegistryTracksRuns'
  BY StepRegistry, EnvironmentRegistry DEF Next, vars, RegistryTracksRuns
<1>. QED
  BY <1>1, <1>2, TypeCorrect, PTL DEF Spec

-----------------------------------------------------------------------------
(***************************************************************************)
(* Permits                                                                 *)
(***************************************************************************)
LEMMA HoldersFinite ==
  \A k \in Kinds : IsFiniteSet(Holders(k)) /\ Cardinality(Holders(k)) \in Nat
  BY ConstantsAssumption, FS_Subset, FS_CardinalityType DEF Holders

\* A step that moves no run into or out of Holding and leaves the semaphores'
\* counters alone conserves the permits.
LEMMA PermitsUntouched ==
  ASSUME PermitsConserved, permits' = permits,
         \A q \in Runs : pc'[q] \in Holding <=> pc[q] \in Holding
  PROVE  PermitsConserved'
<1>1. \A k \in Kinds : Holders(k)' = Holders(k)
  BY DEF Holders
<1>. QED
  BY <1>1 DEF PermitsConserved, Limit

LEMMA PermitTaken ==
  ASSUME TypeOK, PermitsConserved, NEW r \in Runs, Acquire(r)
  PROVE  PermitsConserved'
<1> SUFFICES ASSUME NEW k \in Kinds
             PROVE  permits'[k] + Cardinality(Holders(k)') = Limit(k)
  BY DEF PermitsConserved, Limit
<1>1. pc[r] \notin Holding /\ pc' = [pc EXCEPT ![r] = "admitted"]
  BY DEF Acquire, Goto, Holding, Present, Listening
<1>2. "admitted" \in Holding
  BY DEF Holding
<1>3. CASE k = Kind(r)
  <2>1. Holders(k)' = Holders(k) \cup {r} /\ r \notin Holders(k)
    BY <1>1, <1>2, <1>3 DEF Holders, TypeOK
  <2>2. Cardinality(Holders(k)') = Cardinality(Holders(k)) + 1
    BY <2>1, HoldersFinite, FS_AddElement
  <2>3. permits'[k] = permits[k] - 1
    BY <1>3 DEF Acquire, TypeOK
  <2>. QED
    BY <2>2, <2>3, HoldersFinite DEF PermitsConserved, TypeOK
<1>4. CASE k # Kind(r)
  <2>1. Holders(k)' = Holders(k)
    BY <1>1, <1>4 DEF Holders, TypeOK
  <2>2. permits'[k] = permits[k]
    BY <1>4 DEF Acquire, TypeOK
  <2>. QED
    BY <2>1, <2>2 DEF PermitsConserved
<1>. QED
  BY <1>3, <1>4

LEMMA PermitReturned ==
  ASSUME TypeOK, PermitsConserved, NEW r \in Runs, pc[r] \in Holding,
         Goto(r, "returned"), Release(r)
  PROVE  PermitsConserved'
<1> SUFFICES ASSUME NEW k \in Kinds
             PROVE  permits'[k] + Cardinality(Holders(k)') = Limit(k)
  BY DEF PermitsConserved, Limit
<1>1. pc' = [pc EXCEPT ![r] = "returned"] /\ "returned" \notin Holding
  BY DEF Goto, Holding, Present, Listening
<1>2. CASE k = Kind(r)
  <2>1. Holders(k)' = Holders(k) \ {r} /\ r \in Holders(k)
    BY <1>1, <1>2 DEF Holders, TypeOK
  <2>2. Cardinality(Holders(k)') = Cardinality(Holders(k)) - 1
    BY <2>1, HoldersFinite, FS_RemoveElement
  <2>3. permits'[k] = permits[k] + 1
    BY <1>2 DEF Release, TypeOK
  <2>. QED
    BY <2>2, <2>3, HoldersFinite DEF PermitsConserved, TypeOK
<1>3. CASE k # Kind(r)
  <2>1. Holders(k)' = Holders(k)
    BY <1>1, <1>3 DEF Holders, TypeOK
  <2>2. permits'[k] = permits[k]
    BY <1>3 DEF Release, TypeOK
  <2>. QED
    BY <2>1, <2>2 DEF PermitsConserved
<1>. QED
  BY <1>2, <1>3

LEMMA StepPermits ==
  ASSUME TypeOK, PermitsConserved, NEW r \in Runs, Step(r)
  PROVE  PermitsConserved'
<1> USE DEF Goto, queueVars
<1>1. CASE Acquire(r)
  BY <1>1, PermitTaken
<1>2. CASE NoNode(r) \/ Deregister(r)
  <2>1. pc[r] \in Holding
    BY <1>2 DEF NoNode, Deregister, Holding, Present
  <2>. QED
    BY <1>2, <2>1, PermitReturned DEF NoNode, Deregister
<1>3. CASE Announce(r) \/ Register(r) \/ PrepareFails(r) \/ PrepareSucceeds(r)
  <2>1. \A q \in Runs : pc'[q] \in Holding <=> pc[q] \in Holding
    BY <1>3 DEF TypeOK, Announce, Register, PrepareFails, PrepareSucceeds,
                Holding, Present, Listening
  <2>. QED
    BY <1>3, <2>1, PermitsUntouched
    DEF Announce, Register, PrepareFails, PrepareSucceeds
<1>4. CASE \/ HitLimit(r) \/ Answer(r) \/ FatalError(r) \/ TransientError(r)
           \/ CompletionCall(r) \/ ToolCancelled(r)
  <2>1. \A q \in Runs : pc'[q] \in Holding <=> pc[q] \in Holding
    BY <1>4 DEF TypeOK, HitLimit, Answer, FatalError, TransientError, Leave,
                CompletionCall, ToolCancelled, Cancelled, Holding, Present,
                Listening
  <2>. QED
    BY <1>4, <2>1, PermitsUntouched
    DEF HitLimit, Answer, FatalError, TransientError, CompletionCall,
        ToolCancelled
<1>5. ASSUME NEW n \in 1..MaxTools, AskTools(r, n)
      PROVE  PermitsConserved'
  <2>1. \A q \in Runs : pc'[q] \in Holding <=> pc[q] \in Holding
    BY <1>5 DEF TypeOK, AskTools, Holding, Present, Listening
  <2>. QED
    BY <1>5, <2>1, PermitsUntouched DEF AskTools
<1>6. CASE RunTool(r) \/ Restart(r)
  <2>1. \A q \in Runs : pc'[q] \in Holding <=> pc[q] \in Holding
    BY <1>6 DEF TypeOK, RunTool, AfterTool, Restart, Holding, Present,
                Listening
  <2>. QED
    BY <1>6, <2>1, PermitsUntouched DEF RunTool, Restart
<1>7. ASSUME NEW o \in Runs, DelegateOperator(r, o) \/ OperatorReturns(r, o)
      PROVE  PermitsConserved'
  <2>1. \A q \in Runs : pc'[q] \in Holding <=> pc[q] \in Holding
    BY <1>7 DEF TypeOK, DelegateOperator, OperatorReturns, AfterTool, Holding,
                Present, Listening
  <2>. QED
    BY <1>7, <2>1, PermitsUntouched DEF DelegateOperator, OperatorReturns
<1>. QED
  BY <1>1, <1>2, <1>3, <1>4, <1>5, <1>6, <1>7 DEF Step

LEMMA EnvironmentPermits ==
  ASSUME TypeOK, PermitsConserved, Environment
  PROVE  PermitsConserved'
<1> USE DEF queueVars
<1>1. ASSUME NEW r \in Runs, NEW c \in Channels, Delegate(r, c)
      PROVE  PermitsConserved'
  <2>1. \A q \in Runs : pc'[q] \in Holding <=> pc[q] \in Holding
    BY <1>1 DEF TypeOK, Delegate, Holding, Present, Listening
  <2>. QED
    BY <1>1, <2>1, PermitsUntouched DEF Delegate
<1>2. CASE UNCHANGED <<pc, permits>>
  BY <1>2, PermitsUntouched
<1>. QED
  BY <1>1, <1>2
  DEF Environment, SignalWrapUp, SignalSteer, SignalChannel, Accept

\* No path out of run() leaks a permit or returns one twice, so at most
\* max_synapses synapse and max_operators operator runs are ever under way.
THEOREM PermitsNeverLeak == Spec => []PermitsConserved
<1>1. Init => PermitsConserved
  <2> SUFFICES ASSUME Init, NEW k \in Kinds
               PROVE  permits[k] + Cardinality(Holders(k)) = Limit(k)
    BY DEF PermitsConserved
  <2>1. Holders(k) = {}
    BY DEF Init, Holders, Holding, Present, Listening
  <2>. QED
    BY <2>1, FS_EmptySet, LimitType DEF Init
<1>2. TypeOK /\ PermitsConserved /\ [Next]_vars => PermitsConserved'
  <2>1. ASSUME PermitsConserved, UNCHANGED vars
        PROVE  PermitsConserved'
    BY <2>1, PermitsUntouched DEF vars
  <2>. QED
    BY <2>1, StepPermits, EnvironmentPermits DEF Next
<1>. QED
  BY <1>1, <1>2, TypeCorrect, PTL DEF Spec

-----------------------------------------------------------------------------
(***************************************************************************)
(* Steering and wrapping up                                                *)
(***************************************************************************)
\* Why a steer message restarts at most one run at most once: while it can
\* still be seen by a hook it has not been applied, and a channel that holds
\* an applied one belongs to a run that is about to reset it.
SteerInv ==
  \A m \in Messages :
    \A r \in Runs :
      /\ applied[m][r] <= IF sentTo[m] = r THEN 1 ELSE 0
      /\ signal[r] = m =>
           sentTo[m] = r /\ (applied[m][r] = 1 => pc[r] = "steering")

\* Why a wrap-up sticks: it stays in the watch channel, because only a
\* restart removes a signal and no restart is under way.
WrapUpInv ==
  \A r \in Runs :
    /\ pc[r] \in {"idle", "queued", "admitted", "announced"} =>
         asked[r] = NoSignal
    /\ asked[r] = WrapUp /\ ~raced[r] =>
         signal[r] = WrapUp /\ pc[r] # "steering"

SignalInv == SteerInv /\ WrapUpInv

\* A step that neither signals nor applies, and moves no run into or out of a
\* restart nor back before its registration.
LEMMA SignalsUntouched ==
  ASSUME SignalInv, UNCHANGED <<signal, applied, history>>,
         \A q \in Runs :
           /\ pc'[q] = "steering" <=> pc[q] = "steering"
           /\ pc'[q] \in {"idle", "queued", "admitted", "announced"} =>
                pc[q] \in {"idle", "queued", "admitted", "announced"}
  PROVE  SignalInv'
  BY DEF SignalInv, SteerInv, WrapUpInv, history

LEMMA CancelledSignals ==
  ASSUME TypeOK, SignalInv, NEW r \in Runs, Cancelled(r),
         pc[r] \in {"prompting", "tooling"}, UNCHANGED <<signal, history>>
  PROVE  SignalInv'
<1> USE ConstantsAssumption
    DEF TypeOK, SignalInv, SteerInv, WrapUpInv, history, Goto
<1>1. CASE signal[r] = WrapUp /\ Leave(r, "interrupted") /\ UNCHANGED applied
  BY <1>1 DEF Leave
<1>2. ASSUME NEW m \in Messages, signal[r] = m, Goto(r, "steering"),
             applied' = [applied EXCEPT ![m][r] = @ + 1]
      PROVE  SignalInv'
  <2>1. applied[m][r] = 0 /\ sentTo[m] = r
    BY <1>2
  <2>2. SteerInv'
    <3>1. \A x \in Messages, q \in Runs :
             applied'[x][q] = IF x = m /\ q = r THEN 1 ELSE applied[x][q]
      BY <1>2, <2>1
    <3>2. pc'[r] = "steering" /\ \A q \in Runs : q # r => pc'[q] = pc[q]
      BY <1>2
    <3>. QED
      BY <1>2, <2>1, <3>1, <3>2
  <2>3. WrapUpInv'
    BY <1>2
  <2>. QED
    BY <2>2, <2>3
<1>. QED
  BY <1>1, <1>2 DEF Cancelled

LEMMA StepSignals ==
  ASSUME TypeOK, SignalInv, NEW r \in Runs, Step(r)
  PROVE  SignalInv'
<1> USE DEF TypeOK, history, Goto
<1>1. CASE Acquire(r) \/ NoNode(r) \/ Announce(r)
  BY <1>1, SignalsUntouched DEF Acquire, NoNode, Announce
<1>2. CASE Register(r)
  BY <1>2, ConstantsAssumption, SMTT(30)
  DEF Register, SignalInv, SteerInv, WrapUpInv
<1>3. CASE PrepareFails(r) \/ PrepareSucceeds(r)
  BY <1>3, SignalsUntouched DEF PrepareFails, PrepareSucceeds
<1>4. CASE HitLimit(r) \/ Answer(r) \/ FatalError(r) \/ TransientError(r)
  BY <1>4, SignalsUntouched
  DEF HitLimit, Answer, FatalError, TransientError, Leave
<1>5. CASE CompletionCall(r)
  <2>1. CASE HookContinues(r)
    BY <1>5, <2>1, SignalsUntouched DEF CompletionCall
  <2>2. CASE ~HookContinues(r)
    BY <1>5, <2>2, CancelledSignals DEF CompletionCall
  <2>. QED
    BY <2>1, <2>2
<1>6. CASE ToolCancelled(r)
  BY <1>6, CancelledSignals DEF ToolCancelled
<1>7. ASSUME NEW n \in 1..MaxTools, AskTools(r, n)
      PROVE  SignalInv'
  BY <1>7, SignalsUntouched DEF AskTools
<1>8. CASE RunTool(r)
  BY <1>8, SignalsUntouched DEF RunTool, AfterTool
<1>9. ASSUME NEW o \in Runs, DelegateOperator(r, o) \/ OperatorReturns(r, o)
      PROVE  SignalInv'
  BY <1>9, SignalsUntouched DEF DelegateOperator, OperatorReturns, AfterTool
<1>10. CASE Restart(r)
  BY <1>10, ConstantsAssumption, SMTT(30)
  DEF Restart, SignalInv, SteerInv, WrapUpInv
<1>11. CASE Deregister(r)
  BY <1>11, SignalsUntouched DEF Deregister
<1>. QED
  BY <1>1, <1>2, <1>3, <1>4, <1>5, <1>6, <1>7, <1>8, <1>9, <1>10, <1>11
  DEF Step

\* An accepted signal replaces whatever the channel of the run held.
LEMMA AcceptSignals ==
  ASSUME TypeOK, SignalInv, NEW r \in Runs, NEW s \in Signals, Accept(r, s),
         \/ s = WrapUp /\ UNCHANGED sentTo
         \/ /\ s \in Messages /\ sentTo[s] = Nobody
            /\ sentTo' = [sentTo EXCEPT ![s] = r]
  PROVE  SignalInv'
<1>1. /\ pc' = pc /\ applied' = applied
      /\ signal' = [signal EXCEPT ![r] = s]
      /\ asked' = [asked EXCEPT ![r] = s]
      /\ \A q \in Runs : q # r => raced'[q] = raced[q]
      /\ ~raced'[r] => pc[r] # "steering"
      /\ pc[r] \notin {"idle", "queued", "admitted", "announced"}
  BY DEF Accept, Listening, TypeOK
<1>2. CASE s = WrapUp /\ UNCHANGED sentTo
  <2>1. SteerInv'
    BY <1>1, <1>2, ConstantsAssumption DEF TypeOK, SignalInv, SteerInv
  <2>2. WrapUpInv'
    BY <1>1, <1>2 DEF TypeOK, SignalInv, WrapUpInv
  <2>. QED
    BY <2>1, <2>2 DEF SignalInv
<1>3. CASE /\ s \in Messages /\ sentTo[s] = Nobody
           /\ sentTo' = [sentTo EXCEPT ![s] = r]
  <2>1. SteerInv'
    BY <1>1, <1>3, ConstantsAssumption, SMTT(30)
    DEF TypeOK, SignalInv, SteerInv
  <2>2. WrapUpInv'
    BY <1>1, <1>3, ConstantsAssumption DEF TypeOK, SignalInv, WrapUpInv
  <2>. QED
    BY <2>1, <2>2 DEF SignalInv
<1>. QED
  BY <1>2, <1>3

LEMMA EnvironmentSignals ==
  ASSUME TypeOK, SignalInv, Environment
  PROVE  SignalInv'
<1>1. ASSUME NEW r \in Runs, NEW c \in Channels, Delegate(r, c)
      PROVE  SignalInv'
  BY <1>1, SignalsUntouched DEF Delegate, TypeOK, history
<1>2. ASSUME NEW r \in Runs, SignalWrapUp(r)
      PROVE  SignalInv'
  BY <1>2, AcceptSignals DEF SignalWrapUp, Signals
<1>3. ASSUME NEW r \in Runs, NEW m \in Messages, SignalSteer(r, m)
      PROVE  SignalInv'
  BY <1>3, AcceptSignals DEF SignalSteer, Signals
<1>4. ASSUME NEW c \in Channels, NEW m \in Messages, SignalChannel(c, m)
      PROVE  SignalInv'
  BY <1>3, <1>4 DEF SignalChannel, TypeOK
<1>. QED
  BY <1>1, <1>2, <1>3, <1>4 DEF Environment

LEMMA SignalsInvariant == Spec => []SignalInv
<1>1. Init => SignalInv
  BY ConstantsAssumption DEF Init, SignalInv, SteerInv, WrapUpInv
<1>2. TypeOK /\ SignalInv /\ [Next]_vars => SignalInv'
  <2>1. ASSUME SignalInv, UNCHANGED vars
        PROVE  SignalInv'
    BY <2>1 DEF vars, SignalInv, SteerInv, WrapUpInv
  <2>. QED
    BY <2>1, StepSignals, EnvironmentSignals DEF Next
<1>. QED
  BY <1>1, <1>2, TypeCorrect, PTL DEF Spec

\* A steer message restarts at most one run, the one that accepted it, and
\* at most once.
THEOREM SteeredAtMostOnce == Spec => []SteerAppliedOnce
<1>1. SignalInv => SteerAppliedOnce
  BY DEF SignalInv, SteerInv, SteerAppliedOnce
<1>. QED
  BY <1>1, SignalsInvariant, PTL

\* A run whose latest signal is a wrap-up that did not arrive during a
\* restart starts no further completion call and no further tool.
THEOREM WrapUpNeverForgotten == Spec => WrapUpSticks
<1>1. ASSUME TypeOK, SignalInv, [Next]_vars
      PROVE  [\A r \in Runs :
                asked[r] = WrapUp /\ ~raced[r] => ~NewWork(r)]_vars
  <2> SUFFICES ASSUME Next, NEW r \in Runs, asked[r] = WrapUp, ~raced[r],
                      NewWork(r)
               PROVE  FALSE
    BY <1>1
  <2> USE <1>1 DEF TypeOK, Goto
  <2>1. ~HookContinues(r)
    BY ConstantsAssumption DEF SignalInv, WrapUpInv, HookContinues
  <2>2. ASSUME NEW q \in Runs, Step(q)
        PROVE  FALSE
    <3>1. CASE q = r
      <4>1. pc[r] \in {"prompting", "tooling"}
        BY DEF NewWork
      <4>2. CASE HitLimit(r)
        BY <4>2 DEF HitLimit, Leave, NewWork
      <4>3. CASE CompletionCall(r)
        BY <2>1, <4>3 DEF CompletionCall, Cancelled, Leave, NewWork
      <4>4. CASE ToolCancelled(r)
        BY <4>4 DEF ToolCancelled, Cancelled, Leave, NewWork, promptVars
      <4>5. ASSUME NEW o \in Runs, RunTool(r) \/ DelegateOperator(r, o)
            PROVE  FALSE
        BY <2>1, <4>5 DEF RunTool, DelegateOperator
      <4>. QED
        BY <2>1, <2>2, <3>1, <4>1, <4>2, <4>3, <4>4, <4>5
        DEF Step, Acquire, NoNode, Announce, Register, PrepareFails,
            PrepareSucceeds, Answer, TransientError, FatalError, AskTools,
            OperatorReturns, Restart, Deregister
    <3>2. CASE q # r
      BY <2>2, <3>2
      DEF Step, NewWork, Acquire, NoNode, Announce, Register, PrepareFails,
          PrepareSucceeds, HitLimit, CompletionCall, Answer, TransientError,
          FatalError, AskTools, ToolCancelled, Cancelled, Leave, RunTool,
          AfterTool, DelegateOperator, OperatorReturns, Restart, Deregister,
          promptVars
    <3>. QED
      BY <3>1, <3>2
  <2>3. CASE Environment
    <3>1. ASSUME NEW q \in Runs, NEW c \in Channels, Delegate(q, c)
          PROVE  FALSE
      BY <3>1 DEF Delegate, NewWork, promptVars
    <3>2. CASE UNCHANGED <<pc, tools>>
      BY <3>2 DEF NewWork
    <3>. QED
      BY <2>3, <3>1, <3>2
      DEF Environment, SignalWrapUp, SignalSteer, SignalChannel, Accept,
          promptVars
  <2>. QED
    BY <2>2, <2>3 DEF Next
<1>. QED
  BY <1>1, TypeCorrect, SignalsInvariant, PTL DEF Spec, WrapUpSticks

-----------------------------------------------------------------------------
(***************************************************************************)
(* The lifecycle events                                                    *)
(***************************************************************************)
Before == {"idle", "queued", "admitted"}
During == {"announced"} \cup Listening

\* Which events a run has published is a matter of where it is.
VerdictInv ==
  \A r \in Runs :
    /\ pc[r] \in Before => published[r]["started"] = 0 /\ Verdicts(r) = 0
    /\ pc[r] \in During => published[r]["started"] = 1 /\ Verdicts(r) = 0
    /\ pc[r] = "leaving" => published[r]["started"] = 1 /\ Verdicts(r) <= 1
    /\ pc[r] = "returned" =>
         published[r]["started"] <= 1 /\ Verdicts(r) <= published[r]["started"]

LEMMA PublishCounts ==
  ASSUME TypeOK, NEW r \in Runs, NEW e \in Events, Publish(r, e)
  PROVE  \A q \in Runs, f \in Events :
           published'[q][f] = IF q = r /\ f = e THEN published[q][f] + 1
                                                ELSE published[q][f]
<1>1. published' = [published EXCEPT ![r] = [published[r] EXCEPT ![e] = @ + 1]]
  BY Zenon DEF Publish
<1>. QED
  BY <1>1 DEF TypeOK

\* A step that publishes nothing and moves runs forward.
LEMMA VerdictsUntouched ==
  ASSUME TypeOK, VerdictInv, UNCHANGED published,
         \A q \in Runs :
           \/ pc'[q] = pc[q]
           \/ pc[q] \in Before /\ pc'[q] \in Before \cup {"returned"}
           \/ pc[q] \in During /\ pc'[q] \in During \cup {"leaving"}
           \/ pc[q] = "leaving" /\ pc'[q] = "returned"
  PROVE  VerdictInv'
<1> SUFFICES ASSUME NEW q \in Runs
             PROVE  /\ pc'[q] \in Before =>
                         published[q]["started"] = 0 /\ Verdicts(q) = 0
                    /\ pc'[q] \in During =>
                         published[q]["started"] = 1 /\ Verdicts(q) = 0
                    /\ pc'[q] = "leaving" =>
                         published[q]["started"] = 1 /\ Verdicts(q) <= 1
                    /\ pc'[q] = "returned" =>
                         /\ published[q]["started"] <= 1
                         /\ Verdicts(q) <= published[q]["started"]
  BY DEF VerdictInv, Verdicts
<1>1. /\ Before \cap During = {}
      /\ {"leaving", "returned"} \cap (Before \cup During) = {}
  BY DEF Before, During, Listening
<1>2. published[q]["started"] \in Nat /\ Verdicts(q) \in Nat
  BY EventNames DEF TypeOK, Verdicts
<1>. QED
  BY <1>1, <1>2 DEF VerdictInv

\* Leaving run_inner with a verdict.
LEMMA LeaveVerdict ==
  ASSUME TypeOK, VerdictInv, NEW r \in Runs, pc[r] \in Listening,
         NEW e \in Events \ {"started"}, Leave(r, e)
  PROVE  VerdictInv'
<1>1. /\ \A q \in Runs, f \in Events :
           published'[q][f] = IF q = r /\ f = e THEN published[q][f] + 1
                                                ELSE published[q][f]
      /\ pc' = [pc EXCEPT ![r] = "leaving"]
  BY PublishCounts DEF Leave, Goto
<1>2. published[r]["started"] = 1 /\ Verdicts(r) = 0
  BY DEF VerdictInv, During
<1>3. published'[r]["started"] = 1 /\ Verdicts(r)' = 1
  BY <1>1, <1>2, EventNames DEF Verdicts, TypeOK, Events
<1>4. \A q \in Runs : q # r =>
        /\ pc'[q] = pc[q] /\ published'[q]["started"] = published[q]["started"]
        /\ Verdicts(q)' = Verdicts(q)
  BY <1>1, EventNames DEF Verdicts, TypeOK
<1>5. pc'[r] = "leaving" /\ "leaving" \notin Before \cup During
  BY <1>1 DEF TypeOK, Before, During, Listening
<1>. QED
  BY <1>3, <1>4, <1>5 DEF VerdictInv

LEMMA StepVerdicts ==
  ASSUME TypeOK, VerdictInv, NEW r \in Runs, Step(r)
  PROVE  VerdictInv'
<1>1. CASE Acquire(r) \/ NoNode(r) \/ Register(r) \/ Deregister(r)
  BY <1>1, VerdictsUntouched
  DEF Acquire, NoNode, Register, Deregister, Goto, TypeOK, Before, During,
      Listening
<1>2. CASE Announce(r)
  <2>0. \A q \in Runs, f \in Events :
          published'[q][f] = IF q = r /\ f = "started"
                             THEN published[q][f] + 1 ELSE published[q][f]
    BY <1>2, PublishCounts, EventNames DEF Announce
  <2>1. pc' = [pc EXCEPT ![r] = "announced"] /\ pc[r] = "admitted"
    BY <1>2 DEF Announce, Goto
  <2>2. published[r]["started"] = 0 /\ Verdicts(r) = 0
    BY <2>1 DEF VerdictInv, Before
  <2>3. published'[r]["started"] = 1 /\ Verdicts(r)' = 0
    BY <2>0, <2>2, EventNames DEF Verdicts, TypeOK, Events
  <2>4. \A q \in Runs : q # r =>
          /\ pc'[q] = pc[q]
          /\ published'[q]["started"] = published[q]["started"]
          /\ Verdicts(q)' = Verdicts(q)
    BY <2>0, <2>1, EventNames DEF Verdicts, TypeOK, Events
  <2>5. pc'[r] = "announced" /\ "announced" \notin Before
    BY <2>1 DEF TypeOK, Before
  <2>. QED
    BY <2>3, <2>4, <2>5 DEF VerdictInv
<1>3. CASE PrepareFails(r) \/ PrepareSucceeds(r)
  BY <1>3, VerdictsUntouched
  DEF PrepareFails, PrepareSucceeds, Goto, TypeOK, Before, During, Listening
<1>4. CASE HitLimit(r) \/ Answer(r) \/ FatalError(r)
  BY <1>4, LeaveVerdict, EventNames DEF HitLimit, Answer, FatalError, Listening
<1>5. CASE TransientError(r)
  <2>1. CASE Leave(r, "failed")
    BY <1>5, <2>1, LeaveVerdict, EventNames DEF TransientError, Listening
  <2>2. CASE Goto(r, "prompting") /\ UNCHANGED published
    BY <1>5, <2>2, VerdictsUntouched
    DEF TransientError, Goto, TypeOK, Before, During, Listening
  <2>. QED
    BY <1>5, <2>1, <2>2 DEF TransientError
<1>6. CASE CompletionCall(r) \/ ToolCancelled(r)
  <2>1. CASE Leave(r, "interrupted")
    BY <1>6, <2>1, LeaveVerdict, EventNames
    DEF CompletionCall, ToolCancelled, Listening
  <2>2. CASE /\ Goto(r, "steering") \/ Goto(r, "completing")
             /\ UNCHANGED published
    BY <1>6, <2>2, VerdictsUntouched
    DEF CompletionCall, ToolCancelled, Goto, TypeOK, Before, During, Listening
  <2>. QED
    BY <1>6, <2>1, <2>2 DEF CompletionCall, ToolCancelled, Cancelled
<1>7. ASSUME NEW n \in 1..MaxTools, AskTools(r, n)
      PROVE  VerdictInv'
  BY <1>7, VerdictsUntouched
  DEF AskTools, Goto, TypeOK, Before, During, Listening
<1>8. CASE RunTool(r) \/ Restart(r)
  BY <1>8, VerdictsUntouched
  DEF RunTool, AfterTool, Restart, Goto, TypeOK, Before, During, Listening
<1>9. ASSUME NEW o \in Runs, DelegateOperator(r, o) \/ OperatorReturns(r, o)
      PROVE  VerdictInv'
  BY <1>9, VerdictsUntouched
  DEF DelegateOperator, OperatorReturns, AfterTool, Goto, TypeOK, Before,
      During, Listening
<1>. QED
  BY <1>1, <1>2, <1>3, <1>4, <1>5, <1>6, <1>7, <1>8, <1>9 DEF Step

LEMMA EnvironmentVerdicts ==
  ASSUME TypeOK, VerdictInv, Environment
  PROVE  VerdictInv'
<1>1. ASSUME NEW r \in Runs, NEW c \in Channels, Delegate(r, c)
      PROVE  VerdictInv'
  BY <1>1, VerdictsUntouched DEF Delegate, TypeOK, Before
<1>2. CASE UNCHANGED <<pc, published>>
  BY <1>2, VerdictsUntouched
<1>. QED
  BY <1>1, <1>2
  DEF Environment, SignalWrapUp, SignalSteer, SignalChannel, Accept

\* Each run announces itself once and is judged at most once, at its end.
THEOREM JudgedAtMostOnce == Spec => []OneVerdict
<1>1. Init => VerdictInv
  BY EventNames
  DEF Init, VerdictInv, Verdicts, Before, During, Listening
<1>2. TypeOK /\ VerdictInv /\ [Next]_vars => VerdictInv'
  <2>1. ASSUME TypeOK, VerdictInv, UNCHANGED vars
        PROVE  VerdictInv'
    BY <2>1, VerdictsUntouched DEF vars
  <2>. QED
    BY <2>1, StepVerdicts, EnvironmentVerdicts DEF Next
<1>3. TypeOK /\ VerdictInv => OneVerdict
  <2> SUFFICES ASSUME TypeOK, VerdictInv, NEW r \in Runs
               PROVE  /\ published[r]["started"] <= 1
                      /\ Verdicts(r) <= published[r]["started"]
                      /\ Verdicts(r) = 1 => pc[r] \in {"leaving", "returned"}
    BY DEF OneVerdict
  <2>1. pc[r] \in Before \cup During \cup {"leaving", "returned"}
    BY DEF TypeOK, Before, During, Places, Holding, Present
  <2>2. published[r]["started"] \in Nat /\ Verdicts(r) \in Nat
    BY EventNames DEF TypeOK, Verdicts
  <2>. QED
    BY <2>1, <2>2 DEF VerdictInv
<1>. QED
  BY <1>1, <1>2, <1>3, TypeCorrect, PTL DEF Spec

-----------------------------------------------------------------------------
(***************************************************************************)
(* The turns of a run                                                      *)
(***************************************************************************)
\* What one prompt may spend, and what a prompt and its retries may spend.
Budget(r) == IF Steps(r) = 0 THEN 1 ELSE Steps(r)
Prompt(r) == Budget(r) + ExtraCalls
Round(r)  == (1 + MaxRetries) * Prompt(r)

\* What r has spent since its latest restart; a run that is restarting has
\* settled its account.
Spent(r) == IF pc[r] = "steering" THEN 0 ELSE attempt[r] * Prompt(r) + calls[r]

\* Why turns_used is bounded: a restart is paid for by a message that has not
\* restarted the run before.
Account(r) ==
  /\ IsFiniteSet(Restarts(r))
  /\ budget[r] <= Budget(r) /\ calls[r] <= Prompt(r)
  /\ turns[r] <= Cardinality(Restarts(r)) * Round(r) + Spent(r)

TurnsInv == \A r \in Runs : Account(r)


LEMMA PromptType ==
  \A r \in Runs : /\ Budget(r) \in Nat \ {0} /\ Prompt(r) \in Nat
                  /\ Round(r) \in Nat
<1>1. ASSUME NEW r \in Runs
      PROVE  Budget(r) \in Nat \ {0} /\ Prompt(r) \in Nat
  BY StepsType, ConstantsAssumption DEF Budget, Prompt
<1>2. \A n \in Nat : (1 + MaxRetries) * n \in Nat
  BY ConstantsAssumption
<1>. QED
  BY <1>1, <1>2 DEF Round

LEMMA OneMoreRound ==
  ASSUME NEW n \in Nat, NEW w \in Nat
  PROVE  n * w \in Nat /\ (n + 1) * w = n * w + w
  OBVIOUS

LEMMA TimesMonotone ==
  ASSUME NEW m \in Nat, NEW n \in Nat, NEW w \in Nat, m <= n
  PROVE  m * w <= n * w
<1>1. n - m \in Nat /\ n = m + (n - m)
  OBVIOUS
<1>2. n * w = m * w + (n - m) * w
  BY <1>1
<1>3. (n - m) * w \in Nat /\ m * w \in Nat
  BY <1>1
<1>. QED
  BY <1>2, <1>3

\* Attempts and calls never exceed a round.
LEMMA RoundCovers ==
  ASSUME NEW r \in Runs, NEW a \in 0..MaxRetries, NEW k \in Nat,
         k <= Prompt(r)
  PROVE  a * Prompt(r) \in Nat /\ a * Prompt(r) + k <= Round(r)
<1> DEFINE w == Prompt(r)
<1>1. w \in Nat /\ MaxRetries \in Nat /\ a <= MaxRetries /\ a \in Nat
  BY PromptType, ConstantsAssumption
<1>2. Round(r) = (MaxRetries + 1) * w
  BY <1>1 DEF Round
<1> HIDE DEF w
<1>3. (MaxRetries + 1) * w = MaxRetries * w + w /\ a * w \in Nat
        /\ MaxRetries * w \in Nat
  BY <1>1, OneMoreRound
<1>4. a * w <= MaxRetries * w
  BY <1>1, TimesMonotone
<1>5. k <= w
  BY DEF w
<1>. QED
  BY <1>1, <1>2, <1>3, <1>4, <1>5 DEF w

LEMMA SpentType ==
  ASSUME TypeOK, NEW r \in Runs, calls[r] <= Prompt(r)
  PROVE  Spent(r) \in Nat /\ Spent(r) <= Round(r)
<1>1. attempt[r] \in 0..MaxRetries /\ calls[r] \in Nat
  BY DEF TypeOK
<1>2. /\ attempt[r] * Prompt(r) \in Nat
      /\ attempt[r] * Prompt(r) + calls[r] <= Round(r)
  BY <1>1, RoundCovers
<1>. QED
  BY <1>1, <1>2, PromptType DEF Spent

\* A step that changes none of the counters of r and no message it accepted,
\* and in which it neither stops to restart nor does so.
LEMMA AccountUntouched ==
  ASSUME NEW r \in Runs, Account(r), Restarts(r)' = Restarts(r),
         budget'[r] = budget[r], calls'[r] = calls[r], turns'[r] = turns[r],
         attempt'[r] = attempt[r],
         pc'[r] = "steering" <=> pc[r] = "steering"
  PROVE  Account(r)'
  BY DEF Account, Spent, Budget, Prompt, Round, Steps

LEMMA SameRestarts ==
  ASSUME UNCHANGED applied
  PROVE  \A q \in Runs : Restarts(q)' = Restarts(q)
  BY DEF Restarts

\* A message that is applied restarts the run that accepted it, for the
\* first time, and no other.
LEMMA AppliedRestarts ==
  ASSUME TypeOK, SignalInv, NEW r \in Runs, NEW m \in Messages,
         signal[r] = m, pc[r] # "steering",
         applied' = [applied EXCEPT ![m][r] = @ + 1]
  PROVE  /\ Restarts(r)' = Restarts(r) \cup {m} /\ m \notin Restarts(r)
         /\ \A q \in Runs : q # r => Restarts(q)' = Restarts(q)
<1>1. applied[m][r] = 0
  BY DEF SignalInv, SteerInv, TypeOK
<1>. QED
  BY <1>1 DEF Restarts, TypeOK

\* The prompt of r is cancelled after k calls and t turns.
LEMMA CancelledAccount ==
  ASSUME TypeOK, SignalInv, NEW r \in Runs, Account(r), Cancelled(r),
         pc[r] # "steering", pc' \in [Runs -> Places],
         budget'[r] = budget[r], attempt'[r] = attempt[r],
         calls'[r] \in Nat, calls'[r] <= Prompt(r), turns'[r] \in Nat,
         turns'[r] <= Cardinality(Restarts(r)) * Round(r)
                        + attempt[r] * Prompt(r) + calls'[r]
  PROVE  /\ Account(r)'
         /\ \A q \in Runs : q # r => /\ Restarts(q)' = Restarts(q)
                                     /\ pc'[q] = pc[q]
<1> DEFINE n == Cardinality(Restarts(r))
           w == Prompt(r)
           round == Round(r)
           a == attempt[r]
<1>1. n \in Nat /\ w \in Nat /\ round \in Nat /\ a \in 0..MaxRetries
        /\ IsFiniteSet(Restarts(r))
  BY FS_CardinalityType, PromptType DEF Account, TypeOK
<1>2. a * w \in Nat /\ a * w + calls'[r] <= round
  BY <1>1, RoundCovers
<1>3. n * round \in Nat /\ (n + 1) * round = n * round + round
  BY <1>1, OneMoreRound
<1>4. /\ Budget(r)' = Budget(r) /\ Prompt(r)' = w /\ Round(r)' = round
      /\ budget'[r] <= Budget(r)
  BY DEF Budget, Prompt, Round, Steps, Account
<1>5. CASE signal[r] = WrapUp /\ Leave(r, "interrupted") /\ UNCHANGED applied
  <2>1. /\ pc' = [pc EXCEPT ![r] = "leaving"]
        /\ \A q \in Runs : Restarts(q)' = Restarts(q)
    BY <1>5, SameRestarts DEF Leave, Goto
  <2>2. Spent(r)' = a * w + calls'[r]
    BY <1>4, <2>1 DEF Spent, TypeOK
  <2>3. turns'[r] <= n * round + (a * w + calls'[r])
    BY <1>2, <1>3
  <2>. QED
    BY <1>1, <1>4, <2>1, <2>2, <2>3 DEF Account, TypeOK
<1>6. ASSUME NEW m \in Messages, signal[r] = m, Goto(r, "steering"),
             applied' = [applied EXCEPT ![m][r] = @ + 1]
      PROVE  /\ Account(r)'
             /\ \A q \in Runs : q # r => /\ Restarts(q)' = Restarts(q)
                                         /\ pc'[q] = pc[q]
  <2>1. /\ Restarts(r)' = Restarts(r) \cup {m} /\ m \notin Restarts(r)
        /\ \A q \in Runs : q # r => Restarts(q)' = Restarts(q)
    BY <1>6, AppliedRestarts
  <2>2. IsFiniteSet(Restarts(r)') /\ Cardinality(Restarts(r)') = n + 1
    BY <1>1, <2>1, FS_AddElement
  <2>3. Spent(r)' = 0 /\ \A q \in Runs : q # r => pc'[q] = pc[q]
    BY <1>6 DEF Goto, Spent, TypeOK
  <2>4. turns'[r] <= (n + 1) * round + 0
    BY <1>1, <1>2, <1>3
  <2>. QED
    BY <1>4, <2>1, <2>2, <2>3, <2>4 DEF Account
<1>. QED
  BY <1>5, <1>6 DEF Cancelled


LEMMA StepTurns ==
  ASSUME TypeOK, ToolsLeft, SignalInv, TurnsInv, NEW r \in Runs, Step(r),
         NEW q \in Runs
  PROVE  Account(q)'
<1> USE DEF Goto
<1>0. TypeOK' /\ Account(q) /\ Account(r)
  BY StepType DEF TurnsInv
<1>1. CASE \/ Acquire(r) \/ NoNode(r) \/ Announce(r) \/ PrepareFails(r)
           \/ HitLimit(r) \/ Answer(r) \/ FatalError(r) \/ RunTool(r)
           \/ Deregister(r)
  <2>1. /\ UNCHANGED <<budget, calls, turns, attempt, applied>>
        /\ pc'[q] = "steering" <=> pc[q] = "steering"
    BY <1>1 DEF Acquire, NoNode, Announce, PrepareFails, HitLimit, Answer,
                FatalError, RunTool, AfterTool, Deregister, Leave, promptVars,
                history, TypeOK
  <2>. QED
    BY <1>0, <2>1, SameRestarts, AccountUntouched
<1>2. CASE \/ \E n \in 1..MaxTools : AskTools(r, n)
           \/ \E o \in Runs : DelegateOperator(r, o) \/ OperatorReturns(r, o)
  <2>1. /\ UNCHANGED <<budget, calls, turns, attempt, applied>>
        /\ pc'[q] = "steering" <=> pc[q] = "steering"
    BY <1>2 DEF AskTools, DelegateOperator, OperatorReturns, AfterTool,
                promptVars, history, TypeOK
  <2>. QED
    BY <1>0, <2>1, SameRestarts, AccountUntouched
<1>3. CASE Register(r)
  <2>1. /\ UNCHANGED <<budget, calls, attempt, applied>>
        /\ turns' = [turns EXCEPT ![r] = 0]
        /\ pc'[q] = "steering" <=> pc[q] = "steering"
    BY <1>3 DEF Register, promptVars, history, TypeOK
  <2>2. Restarts(q)' = Restarts(q)
    BY <2>1, SameRestarts
  <2>3. CASE q # r
    BY <1>0, <2>1, <2>2, <2>3, AccountUntouched DEF TypeOK
  <2>4. CASE q = r
    <3>1. turns'[q] = 0 /\ Spent(q)' = Spent(q) /\ Budget(q)' = Budget(q)
            /\ Prompt(q)' = Prompt(q) /\ Round(q)' = Round(q)
      BY <2>1, <2>4 DEF TypeOK, Spent, Budget, Prompt, Round, Steps
    <3>2. Spent(q) \in Nat
      BY <1>0, SpentType DEF Account
    <3>3. Cardinality(Restarts(q)) * Round(q) \in Nat
      BY <1>0, FS_CardinalityType, PromptType, OneMoreRound DEF Account
    <3>4. 0 <= Cardinality(Restarts(q)) * Round(q) + Spent(q)
      BY <3>2, <3>3
    <3>. QED
      BY <1>0, <2>1, <2>2, <3>1, <3>4 DEF Account
  <2>. QED
    BY <2>3, <2>4
<1>4. CASE PrepareSucceeds(r)
  <2>1. /\ UNCHANGED <<calls, turns, attempt, applied>>
        /\ budget' = [budget EXCEPT ![r] = Steps(r)]
        /\ pc'[q] = "steering" <=> pc[q] = "steering"
    BY <1>4 DEF PrepareSucceeds, history, TypeOK
  <2>2. Restarts(q)' = Restarts(q)
    BY <2>1, SameRestarts
  <2>3. budget'[q] <= Budget(q)
    BY <1>0, <2>1, StepsType DEF Account, Budget, TypeOK
  <2>. QED
    BY <1>0, <2>1, <2>2, <2>3 DEF Account, Spent, Budget, Prompt, Round, Steps
<1>5. CASE CompletionCall(r)
  <2>1. /\ calls[r] < budget[r] + ExtraCalls
        /\ turns' = [turns EXCEPT ![r] = @ + 1]
        /\ calls' = [calls EXCEPT ![r] = @ + 1]
        /\ UNCHANGED <<budget, attempt>>
        /\ pc[r] = "prompting"
    BY <1>5 DEF CompletionCall, history
  <2>2. turns[r] \in Nat /\ calls[r] \in Nat /\ budget[r] \in Nat
    BY DEF TypeOK
  <2>3. /\ turns'[r] = turns[r] + 1 /\ calls'[r] = calls[r] + 1
        /\ \A p \in Runs : p # r => turns'[p] = turns[p] /\ calls'[p] = calls[p]
    BY <2>1 DEF TypeOK
  <2>4. calls'[r] <= Prompt(r)
    BY <1>0, <2>1, <2>2, <2>3, PromptType, ConstantsAssumption
    DEF Account, Prompt
  <2> DEFINE n == Cardinality(Restarts(r))
             a == attempt[r]
  <2>5. n * Round(r) \in Nat /\ a * Prompt(r) \in Nat
    <3>1. n \in Nat /\ a \in 0..MaxRetries
      BY <1>0, FS_CardinalityType DEF Account, TypeOK
    <3>2. a \in Nat
      BY <3>1
    <3> HIDE DEF n, a
    <3>. QED
      BY <3>1, <3>2, PromptType, OneMoreRound
  <2>6. turns[r] <= n * Round(r) + (a * Prompt(r) + calls[r])
    BY <1>0, <2>1 DEF Account, Spent
  <2>7. turns'[r] <= n * Round(r) + a * Prompt(r) + calls'[r]
    BY <2>2, <2>3, <2>5, <2>6
  <2>8. CASE HookContinues(r)
    <3>1. pc' = [pc EXCEPT ![r] = "completing"] /\ applied' = applied
      BY <1>5, <2>8 DEF CompletionCall
    <3>2. Restarts(q)' = Restarts(q)
      BY <2>1, <3>1, SameRestarts
    <3>3. CASE q # r
      BY <1>0, <2>1, <2>3, <3>1, <3>2, <3>3, AccountUntouched DEF TypeOK
    <3>4. CASE q = r
      <4>1. Spent(r)' = a * Prompt(r) + calls'[r]
        BY <2>1, <3>1 DEF Spent, Prompt, Budget, Steps, TypeOK
      <4>2. calls'[r] \in Nat
        BY <2>2, <2>3
      <4>3. turns'[r] <= n * Round(r) + (a * Prompt(r) + calls'[r])
        BY <2>5, <2>7, <4>2
      <4>. QED
        BY <1>0, <2>1, <2>4, <3>2, <3>4, <4>1, <4>3
        DEF Account, Budget, Prompt, Round, Steps
    <3>. QED
      BY <3>3, <3>4
  <2>9. CASE Cancelled(r)
    <3>1. pc' \in [Runs -> Places] /\ calls'[r] \in Nat /\ turns'[r] \in Nat
      BY <1>0 DEF TypeOK
    <3>2. /\ Account(r)'
          /\ \A p \in Runs : p # r => /\ Restarts(p)' = Restarts(p)
                                      /\ pc'[p] = pc[p]
      BY <1>0, <2>1, <2>4, <2>7, <2>9, <3>1, CancelledAccount
    <3>3. q # r => Account(q)'
      BY <1>0, <2>1, <2>3, <3>2, AccountUntouched
    <3>. QED
      BY <3>2, <3>3
  <2>. QED
    BY <1>5, <2>8, <2>9 DEF CompletionCall
<1>6. CASE TransientError(r)
  <2>1. CASE attempt[r] = MaxRetries /\ Leave(r, "failed")
               /\ UNCHANGED <<attempt, calls>>
    <3>1. /\ UNCHANGED <<budget, calls, turns, attempt, applied>>
          /\ pc'[q] = "steering" <=> pc[q] = "steering"
      BY <1>6, <2>1 DEF TransientError, Leave, history, TypeOK
    <3>. QED
      BY <1>0, <3>1, SameRestarts, AccountUntouched
  <2>2. CASE /\ attempt[r] < MaxRetries
             /\ Goto(r, "prompting")
             /\ attempt' = [attempt EXCEPT ![r] = @ + 1]
             /\ calls' = [calls EXCEPT ![r] = 0]
             /\ UNCHANGED published
    <3>1. /\ UNCHANGED <<budget, turns, applied>>
          /\ pc[r] = "completing" /\ pc'[r] = "prompting"
          /\ \A p \in Runs : p # r => /\ pc'[p] = pc[p]
                                      /\ attempt'[p] = attempt[p]
                                      /\ calls'[p] = calls[p]
          /\ attempt'[r] = attempt[r] + 1 /\ calls'[r] = 0
      BY <1>6, <2>2 DEF TransientError, history, TypeOK
    <3>2. Restarts(q)' = Restarts(q)
      BY <3>1, SameRestarts
    <3>3. CASE q # r
      BY <1>0, <3>1, <3>2, <3>3, AccountUntouched
    <3>4. CASE q = r
      <4> DEFINE w == Prompt(r)
                 a == attempt[r]
                 base == Cardinality(Restarts(r)) * Round(r)
      <4>1. w \in Nat /\ a \in Nat /\ calls[r] \in Nat /\ calls[r] <= w
              /\ turns[r] \in Nat
        BY <1>0, PromptType, ConstantsAssumption DEF TypeOK, Account
      <4>2. base \in Nat
        BY <1>0, FS_CardinalityType, PromptType, OneMoreRound DEF Account
      <4>3. turns[r] <= base + (a * w + calls[r])
        BY <1>0, <3>1 DEF Account, Spent
      <4>4. Spent(r)' = (a + 1) * w + 0
        BY <3>1 DEF Spent, Prompt, Budget, Steps
      <4>5. Restarts(r)' = Restarts(r) /\ Round(r)' = Round(r)
              /\ Prompt(r)' = w /\ Budget(r)' = Budget(r)
        BY <3>2, <3>4 DEF Round, Prompt, Budget, Steps
      <4> HIDE DEF a, w
      <4>6. (a + 1) * w = a * w + w /\ a * w \in Nat
        BY <4>1, OneMoreRound
      <4> HIDE DEF base
      <4>7. turns[r] <= base + ((a + 1) * w + 0)
        BY <4>1, <4>2, <4>3, <4>6
      <4>8. 0 <= w /\ turns'[r] = turns[r] /\ budget'[r] = budget[r]
        BY <3>1, <4>1
      <4>. QED
        BY <1>0, <3>1, <3>4, <4>4, <4>5, <4>7, <4>8 DEF Account, base
    <3>. QED
      BY <3>3, <3>4
  <2>. QED
    BY <1>6, <2>1, <2>2 DEF TransientError
<1>7. CASE ToolCancelled(r)
  <2>1. /\ UNCHANGED <<budget, calls, turns, attempt>>
        /\ Cancelled(r) /\ pc[r] = "tooling"
    BY <1>7 DEF ToolCancelled, promptVars, history
  <2>2. /\ pc' \in [Runs -> Places] /\ calls[r] \in Nat /\ turns[r] \in Nat
        /\ calls[r] <= Prompt(r) /\ attempt[r] \in 0..MaxRetries
    BY <1>0 DEF TypeOK, Account
  <2> DEFINE base == Cardinality(Restarts(r)) * Round(r)
             retries == attempt[r] * Prompt(r)
  <2>3. base \in Nat /\ retries \in Nat
    BY <1>0, <2>2, FS_CardinalityType, PromptType, OneMoreRound, RoundCovers
    DEF Account
  <2>4. turns[r] <= base + (retries + calls[r])
    BY <1>0, <2>1 DEF Account, Spent
  <2>5. turns[r] <= base + retries + calls[r]
    <3> HIDE DEF base, retries
    <3>. QED
      BY <2>2, <2>3, <2>4
  <2>6. /\ Account(r)'
        /\ \A p \in Runs : p # r => /\ Restarts(p)' = Restarts(p)
                                    /\ pc'[p] = pc[p]
    BY <1>0, <2>1, <2>2, <2>5, CancelledAccount
  <2>7. q # r => Account(q)'
    BY <1>0, <2>1, <2>6, AccountUntouched
  <2>. QED
    BY <2>6, <2>7
<1>8. CASE Restart(r)
  <2>1. /\ UNCHANGED <<turns, applied>>
        /\ pc[r] = "steering" /\ pc'[r] = "prompting"
        /\ \A p \in Runs : p # r => /\ pc'[p] = pc[p]
                                    /\ attempt'[p] = attempt[p]
                                    /\ calls'[p] = calls[p]
                                    /\ budget'[p] = budget[p]
        /\ attempt'[r] = 0 /\ calls'[r] = 0
        /\ budget'[r] = IF turns[r] < Steps(r) THEN Steps(r) - turns[r] ELSE 1
    BY <1>8 DEF Restart, history, TypeOK
  <2>2. Restarts(q)' = Restarts(q)
    BY <2>1, SameRestarts
  <2>3. CASE q # r
    BY <1>0, <2>1, <2>2, <2>3, AccountUntouched
  <2>4. CASE q = r
    <3>1. budget'[r] <= Budget(r) /\ 0 <= Prompt(r)
      BY <2>1, StepsType, PromptType, SMTT(30) DEF Budget, TypeOK
    <3>2. Spent(r)' = 0 * Prompt(r) + 0 /\ Spent(r) = 0
      BY <2>1 DEF Spent, Prompt, Budget, Steps
    <3>3. 0 * Prompt(r) + 0 = 0
      BY PromptType
    <3>. QED
      BY <1>0, <2>1, <2>2, <2>4, <3>1, <3>2, <3>3
      DEF Account, Budget, Prompt, Round, Steps
  <2>. QED
    BY <2>3, <2>4
<1>. QED
  BY <1>1, <1>2, <1>3, <1>4, <1>5, <1>6, <1>7, <1>8 DEF Step

LEMMA EnvironmentTurns ==
  ASSUME TypeOK, TurnsInv, Environment, NEW q \in Runs
  PROVE  Account(q)'
<1>0. Account(q)
  BY DEF TurnsInv
<1>1. /\ UNCHANGED <<budget, calls, turns, attempt, applied>>
      /\ pc'[q] = "steering" <=> pc[q] = "steering"
  BY DEF Environment, Delegate, SignalWrapUp, SignalSteer, SignalChannel,
         Accept, promptVars, TypeOK
<1>. QED
  BY <1>0, <1>1, SameRestarts, AccountUntouched

\* A run spends no more turns than a step limit and the library's slack per
\* attempt, as many attempts as there are retries, and all of that once more
\* for each message that has restarted it.
THEOREM TurnsStayBounded == Spec => []TurnsBounded
<1>1. Init => TurnsInv
  <2> SUFFICES ASSUME Init, NEW r \in Runs PROVE Account(r)
    BY DEF TurnsInv
  <2>1. Restarts(r) = {}
    BY DEF Init, Restarts
  <2>2. IsFiniteSet(Restarts(r)) /\ Cardinality(Restarts(r)) = 0
    BY <2>1, FS_EmptySet
  <2>3. budget[r] = 0 /\ calls[r] = 0 /\ turns[r] = 0 /\ attempt[r] = 0
          /\ pc[r] = "idle"
    BY DEF Init
  <2>4. Spent(r) = 0 * Prompt(r) + 0
    BY <2>3 DEF Spent
  <2>5. 0 * Prompt(r) + 0 = 0 /\ 0 * Round(r) + 0 = 0 /\ 0 <= Budget(r)
          /\ 0 <= Prompt(r)
    BY PromptType
  <2>. QED
    BY <2>2, <2>3, <2>4, <2>5 DEF Account
<1>2. TypeInv /\ SignalInv /\ TurnsInv /\ [Next]_vars => TurnsInv'
  <2> SUFFICES ASSUME TypeInv, SignalInv, TurnsInv, [Next]_vars, NEW q \in Runs
               PROVE  Account(q)'
    BY DEF TurnsInv
  <2>1. CASE UNCHANGED vars
    BY <2>1, SameRestarts, AccountUntouched DEF vars, TurnsInv
  <2>. QED
    BY <2>1, StepTurns, EnvironmentTurns DEF Next, TypeInv
<1>3. TypeOK /\ TurnsInv => TurnsBounded
  <2> SUFFICES ASSUME TypeOK, TurnsInv, NEW r \in Runs
               PROVE  turns[r] <= (1 + Cardinality(Restarts(r)))
                        * (1 + MaxRetries) * Prompt(r)
    BY DEF TurnsBounded, Prompt, Budget
  <2> DEFINE n == Cardinality(Restarts(r))
             round == Round(r)
             w == Prompt(r)
  <2>1. Account(r) /\ Spent(r) \in Nat /\ Spent(r) <= round
    BY SpentType DEF TurnsInv, Account
  <2>2. n \in Nat /\ round \in Nat /\ w \in Nat /\ turns[r] \in Nat
          /\ MaxRetries \in Nat /\ round = (1 + MaxRetries) * w
    BY <2>1, FS_CardinalityType, PromptType, ConstantsAssumption
    DEF Account, TypeOK, Round
  <2>3. turns[r] <= n * round + Spent(r)
    BY <2>1 DEF Account
  <2> HIDE DEF n, round, w
  <2>4. n * round \in Nat /\ (n + 1) * round = n * round + round
    BY <2>2, OneMoreRound
  <2>5. turns[r] <= (n + 1) * round
    BY <2>1, <2>2, <2>3, <2>4
  <2>6. (1 + n) * (1 + MaxRetries) * w = (n + 1) * round
    BY <2>2
  <2>. QED
    BY <2>5, <2>6 DEF n, w
<1>4. Spec => []TypeInv
  <2>1. TypeInv /\ [Next]_vars => TypeInv'
    BY StepType, StepToolsLeft, EnvironmentType, StutterType DEF Next, TypeInv
  <2>. QED
    BY <2>1, InitType, PTL DEF Spec
<1>5. TypeInv => TypeOK
  BY DEF TypeInv
<1>. QED
  BY <1>1, <1>2, <1>3, <1>4, <1>5, SignalsInvariant, PTL DEF Spec

-----------------------------------------------------------------------------
(***************************************************************************)
(* The pools                                                               *)
(*                                                                         *)
(* What a step does to the pool of kind k, in the words of SemaphorePool.  *)
(***************************************************************************)
SamePool(k) == waiting'[k] = waiting[k] /\ Holders(k)' = Holders(k)

Asks(k, r) ==
  /\ r \notin Holders(k)
  /\ waiting'[k] = Append(waiting[k], r)
  /\ Holders(k)' = Holders(k)

Enters(k, r) ==
  /\ waiting[k] # <<>> /\ Head(waiting[k]) = r
  /\ Cardinality(Holders(k)) < Limit(k)
  /\ waiting'[k] = Tail(waiting[k])
  /\ Holders(k)' = Holders(k) \cup {r}

Leaves(k, r) ==
  /\ r \in Holders(k)
  /\ Holders(k)' = Holders(k) \ {r}
  /\ waiting'[k] = waiting[k]

PoolStep(k) ==
  \/ SamePool(k)
  \/ \E r \in Runs : Kind(r) = k /\ (Asks(k, r) \/ Enters(k, r) \/ Leaves(k, r))

\* A step that moves no run into or out of Holding changes no pool's inside.
LEMMA PoolsUntouched ==
  ASSUME waiting' = waiting,
         \A q \in Runs : pc'[q] \in Holding <=> pc[q] \in Holding
  PROVE  \A k \in Kinds : PoolStep(k)
  BY DEF PoolStep, SamePool, Holders

LEMMA PoolAsked ==
  ASSUME TypeOK, NEW r \in Runs, pc[r] \notin Holding, Enqueue(r),
         \A q \in Runs : pc'[q] \in Holding <=> pc[q] \in Holding
  PROVE  \A k \in Kinds : PoolStep(k)
<1> SUFFICES ASSUME NEW k \in Kinds PROVE PoolStep(k)
  OBVIOUS
<1>1. Holders(k)' = Holders(k)
  BY DEF Holders
<1>2. CASE k = Kind(r)
  <2>1. waiting'[k] = Append(waiting[k], r) /\ r \notin Holders(k)
    BY <1>2 DEF Enqueue, TypeOK, Holders
  <2>. QED
    BY <1>1, <1>2, <2>1 DEF PoolStep, Asks
<1>3. CASE k # Kind(r)
  BY <1>1, <1>3 DEF Enqueue, TypeOK, PoolStep, SamePool
<1>. QED
  BY <1>2, <1>3

LEMMA PoolEntered ==
  ASSUME TypeOK, PermitsConserved, NEW r \in Runs, Acquire(r)
  PROVE  \A k \in Kinds : PoolStep(k)
<1> SUFFICES ASSUME NEW k \in Kinds PROVE PoolStep(k)
  OBVIOUS
<1>1. pc' = [pc EXCEPT ![r] = "admitted"] /\ "admitted" \in Holding
  BY DEF Acquire, Goto, Holding
<1>2. CASE k = Kind(r)
  <2>1. Holders(k)' = Holders(k) \cup {r}
    BY <1>1, <1>2 DEF Holders, TypeOK
  <2>2. /\ waiting[k] # <<>> /\ Head(waiting[k]) = r
        /\ waiting'[k] = Tail(waiting[k])
    BY <1>2 DEF Acquire, TypeOK
  <2>3. Cardinality(Holders(k)) < Limit(k)
    <3>1. permits[k] \in Nat /\ permits[k] > 0
      BY <1>2 DEF Acquire, TypeOK
    <3>2. permits[k] + Cardinality(Holders(k)) = Limit(k)
      BY DEF PermitsConserved
    <3>. QED
      BY <3>1, <3>2, HoldersFinite, LimitType
  <2>. QED
    BY <1>2, <2>1, <2>2, <2>3 DEF PoolStep, Enters
<1>3. CASE k # Kind(r)
  <2>1. Holders(k)' = Holders(k)
    BY <1>1, <1>3 DEF Holders, TypeOK
  <2>. QED
    BY <1>3, <2>1 DEF Acquire, TypeOK, PoolStep, SamePool
<1>. QED
  BY <1>2, <1>3

LEMMA PoolLeft ==
  ASSUME TypeOK, NEW r \in Runs, pc[r] \in Holding, Goto(r, "returned"),
         waiting' = waiting
  PROVE  \A k \in Kinds : PoolStep(k)
<1> SUFFICES ASSUME NEW k \in Kinds PROVE PoolStep(k)
  OBVIOUS
<1>1. pc' = [pc EXCEPT ![r] = "returned"] /\ "returned" \notin Holding
  BY DEF Goto, Holding, Present, Listening
<1>2. CASE k = Kind(r)
  <2>1. Holders(k)' = Holders(k) \ {r} /\ r \in Holders(k)
    BY <1>1, <1>2 DEF Holders, TypeOK
  <2>. QED
    BY <1>2, <2>1 DEF PoolStep, Leaves
<1>3. CASE k # Kind(r)
  <2>1. Holders(k)' = Holders(k)
    BY <1>1, <1>3 DEF Holders, TypeOK
  <2>. QED
    BY <2>1 DEF PoolStep, SamePool
<1>. QED
  BY <1>2, <1>3

LEMMA StepPools ==
  ASSUME TypeOK, PermitsConserved, NEW r \in Runs, Step(r)
  PROVE  \A k \in Kinds : PoolStep(k)
<1> USE DEF Goto, queueVars
<1>1. CASE Acquire(r)
  BY <1>1, PoolEntered
<1>2. CASE NoNode(r) \/ Deregister(r)
  <2>1. pc[r] \in Holding
    BY <1>2 DEF NoNode, Deregister, Holding, Present
  <2>. QED
    BY <1>2, <2>1, PoolLeft DEF NoNode, Deregister
<1>3. CASE Announce(r) \/ Register(r) \/ PrepareFails(r) \/ PrepareSucceeds(r)
  <2>1. \A q \in Runs : pc'[q] \in Holding <=> pc[q] \in Holding
    BY <1>3 DEF TypeOK, Announce, Register, PrepareFails, PrepareSucceeds,
                Holding, Present, Listening
  <2>. QED
    BY <1>3, <2>1, PoolsUntouched
    DEF Announce, Register, PrepareFails, PrepareSucceeds
<1>4. CASE \/ HitLimit(r) \/ Answer(r) \/ FatalError(r) \/ TransientError(r)
           \/ CompletionCall(r) \/ ToolCancelled(r)
  <2>1. \A q \in Runs : pc'[q] \in Holding <=> pc[q] \in Holding
    BY <1>4 DEF TypeOK, HitLimit, Answer, FatalError, TransientError, Leave,
                CompletionCall, ToolCancelled, Cancelled, Holding, Present,
                Listening
  <2>. QED
    BY <1>4, <2>1, PoolsUntouched
    DEF HitLimit, Answer, FatalError, TransientError, CompletionCall,
        ToolCancelled
<1>5. ASSUME NEW n \in 1..MaxTools, AskTools(r, n)
      PROVE  \A k \in Kinds : PoolStep(k)
  <2>1. \A q \in Runs : pc'[q] \in Holding <=> pc[q] \in Holding
    BY <1>5 DEF TypeOK, AskTools, Holding, Present, Listening
  <2>. QED
    BY <1>5, <2>1, PoolsUntouched DEF AskTools
<1>6. CASE RunTool(r) \/ Restart(r)
  <2>1. \A q \in Runs : pc'[q] \in Holding <=> pc[q] \in Holding
    BY <1>6 DEF TypeOK, RunTool, AfterTool, Restart, Holding, Present,
                Listening
  <2>. QED
    BY <1>6, <2>1, PoolsUntouched DEF RunTool, Restart
<1>7. ASSUME NEW o \in Runs, DelegateOperator(r, o)
      PROVE  \A k \in Kinds : PoolStep(k)
  <2>1. \A q \in Runs : pc'[q] \in Holding <=> pc[q] \in Holding
    BY <1>7 DEF TypeOK, DelegateOperator, Holding, Present, Listening
  <2>2. pc[o] \notin Holding
    BY <1>7 DEF DelegateOperator, Holding, Present, Listening
  <2>. QED
    BY <1>7, <2>1, <2>2, PoolAsked DEF DelegateOperator
<1>8. ASSUME NEW o \in Runs, OperatorReturns(r, o)
      PROVE  \A k \in Kinds : PoolStep(k)
  <2>1. \A q \in Runs : pc'[q] \in Holding <=> pc[q] \in Holding
    BY <1>8 DEF TypeOK, OperatorReturns, AfterTool, Holding, Present, Listening
  <2>. QED
    BY <1>8, <2>1, PoolsUntouched DEF OperatorReturns
<1>. QED
  BY <1>1, <1>2, <1>3, <1>4, <1>5, <1>6, <1>7, <1>8 DEF Step

LEMMA EnvironmentPools ==
  ASSUME TypeOK, Environment
  PROVE  \A k \in Kinds : PoolStep(k)
<1>1. ASSUME NEW r \in Runs, NEW c \in Channels, Delegate(r, c)
      PROVE  \A k \in Kinds : PoolStep(k)
  <2>1. \A q \in Runs : pc'[q] \in Holding <=> pc[q] \in Holding
    BY <1>1 DEF TypeOK, Delegate, Holding, Present, Listening
  <2>2. pc[r] \notin Holding
    BY <1>1 DEF Delegate, Holding, Present, Listening
  <2>. QED
    BY <1>1, <2>1, <2>2, PoolAsked DEF Delegate
<1>2. CASE UNCHANGED <<pc, waiting>>
  BY <1>2, PoolsUntouched
<1>. QED
  BY <1>1, <1>2
  DEF Environment, SignalWrapUp, SignalSteer, SignalChannel, Accept, queueVars

\* SemaphorePool counts with the same Cardinality.
LEMMA PoolCounts ==
  \A S : /\ SynapsePool!Cardinality(S) = Cardinality(S)
         /\ OperatorPool!Cardinality(S) = Cardinality(S)
  BY DEF Cardinality, SynapsePool!Cardinality, OperatorPool!Cardinality

\* The semaphores of the two kinds are fair pools: at most max_synapses
\* synapses and max_operators operators are past semaphore.acquire() at a
\* time, and they pass it in the order in which they reached it.
THEOREM SemaphoresAreFairPools == Spec => ImplementsPools
<1>1. Init => SynapsePool!Init /\ OperatorPool!Init
  BY DEF Init, Kinds, Holders, Holding, Present, Listening,
         SynapsePool!Init, OperatorPool!Init
<1>2. TypeOK /\ PermitsConserved /\ [Next]_vars => \A k \in Kinds : PoolStep(k)
  <2>1. ASSUME UNCHANGED vars
        PROVE  \A k \in Kinds : PoolStep(k)
    BY <2>1, PoolsUntouched DEF vars
  <2>. QED
    BY <2>1, StepPools, EnvironmentPools DEF Next
<1>3. ASSUME PoolStep("synapse")
      PROVE  [SynapsePool!Next]_(SynapsePool!poolVars)
  <2>1. CASE SamePool("synapse")
    BY <2>1 DEF SamePool, SynapsePool!poolVars
  <2>2. ASSUME NEW r \in Runs, Kind(r) = "synapse",
               \/ Asks("synapse", r)
               \/ Enters("synapse", r)
               \/ Leaves("synapse", r)
        PROVE  SynapsePool!Next
    <3>1. r \in Synapses
      BY <2>2 DEF Kind
    <3>2. \/ SynapsePool!Request(r)
          \/ SynapsePool!Enter(r)
          \/ SynapsePool!Leave(r)
      BY <2>2, PoolCounts
      DEF Asks, Enters, Leaves, Limit, SynapsePool!Request,
          SynapsePool!Enter, SynapsePool!Leave
    <3>. QED
      BY <3>1, <3>2 DEF SynapsePool!Next
  <2>. QED
    BY <1>3, <2>1, <2>2 DEF PoolStep
<1>4. ASSUME PoolStep("operator")
      PROVE  [OperatorPool!Next]_(OperatorPool!poolVars)
  <2>1. CASE SamePool("operator")
    BY <2>1 DEF SamePool, OperatorPool!poolVars
  <2>2. ASSUME NEW r \in Runs, Kind(r) = "operator",
               \/ Asks("operator", r)
               \/ Enters("operator", r)
               \/ Leaves("operator", r)
        PROVE  OperatorPool!Next
    <3>1. r \in Runs \ Synapses
      BY <2>2 DEF Kind
    <3>2. \/ OperatorPool!Request(r)
          \/ OperatorPool!Enter(r)
          \/ OperatorPool!Leave(r)
      BY <2>2, PoolCounts
      DEF Asks, Enters, Leaves, Limit, OperatorPool!Request,
          OperatorPool!Enter, OperatorPool!Leave
    <3>. QED
      BY <3>1, <3>2 DEF OperatorPool!Next
  <2>. QED
    BY <1>4, <2>1, <2>2 DEF PoolStep
<1>5. "synapse" \in Kinds /\ "operator" \in Kinds
  BY DEF Kinds
<1>6. TypeOK /\ PermitsConserved /\ [Next]_vars
        => /\ [SynapsePool!Next]_(SynapsePool!poolVars)
           /\ [OperatorPool!Next]_(OperatorPool!poolVars)
  BY <1>2, <1>3, <1>4, <1>5
<1>. QED
  BY <1>1, <1>6, TypeCorrect, PermitsNeverLeak, PTL
  DEF Spec, ImplementsPools, SynapsePool!Spec, OperatorPool!Spec
=============================================================================
