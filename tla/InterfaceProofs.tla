-------------------------- MODULE InterfaceProofs --------------------------
(***************************************************************************)
(* Proofs about Interface, for any number of batches, channels and runs.   *)
(* The interface agent steps the runs through Delegate, SignalChannel and  *)
(* Step only, so that the lemmas of AgentRunsProofs carry its agents.      *)
(***************************************************************************)
EXTENDS Interface, AgentRunsProofs, SequenceLemmas

-----------------------------------------------------------------------------
(***************************************************************************)
(* Copies                                                                  *)
(***************************************************************************)
LEMMA OnceType == \A cond : Once(cond) \in {0, 1}
  BY DEF Once

\* The positions at which b occurs are finitely many.
LEMMA CopiesType ==
  ASSUME NEW S, NEW s \in Seq(S), NEW b
  PROVE  /\ IsFiniteSet({i \in DOMAIN s : s[i] = b})
         /\ Copies(b, s) \in Nat
<1>1. DOMAIN s = 1..Len(s) /\ Len(s) \in Nat
  BY LenProperties
<1>2. IsFiniteSet(DOMAIN s)
  BY <1>1, FS_Interval
<1>3. {i \in DOMAIN s : s[i] = b} \in SUBSET DOMAIN s
  OBVIOUS
<1>. QED
  BY <1>2, <1>3, FS_Subset, FS_CardinalityType DEF Copies

\* Concatenation adds the copies up.
LEMMA CopiesConcat ==
  ASSUME NEW S, NEW s \in Seq(S), NEW t \in Seq(S), NEW b
  PROVE  Copies(b, s \o t) = Copies(b, s) + Copies(b, t)
<1> DEFINE A == {i \in DOMAIN s : s[i] = b}
           B == {j \in DOMAIN t : t[j] = b}
           C == {i \in DOMAIN (s \o t) : (s \o t)[i] = b}
           T == {i \in C : i > Len(s)}
           f == [i \in T |-> i - Len(s)]
<1>1. /\ DOMAIN s = 1..Len(s) /\ Len(s) \in Nat
      /\ DOMAIN t = 1..Len(t) /\ Len(t) \in Nat
  BY LenProperties
<1>2. /\ DOMAIN (s \o t) = 1..(Len(s) + Len(t))
      /\ \A i \in 1..(Len(s) + Len(t)) :
           (s \o t)[i] = IF i <= Len(s) THEN s[i] ELSE t[i - Len(s)]
  BY ConcatProperties, LenProperties
<1>3. C = A \cup T /\ A \cap T = {}
  BY <1>1, <1>2
<1>4. f \in Surjection(T, B) /\ f \in Injection(T, B)
  <2>1. f \in [T -> B]
    BY <1>1, <1>2
  <2>2. ASSUME NEW j \in B PROVE \E i \in T : f[i] = j
    <3>1. j + Len(s) \in T /\ (j + Len(s)) - Len(s) = j
      BY <1>1, <1>2
    <3>. QED
      BY <3>1
  <2>3. ASSUME NEW i \in T, NEW k \in T, f[i] = f[k] PROVE i = k
    BY <1>1, <1>2, <2>3
  <2>. QED
    <3> HIDE DEF f, T, B
    <3>. QED
      BY <2>1, <2>2, <2>3 DEF Surjection, Injection, IsInjective
<1>5. IsFiniteSet(A) /\ IsFiniteSet(B) /\ IsFiniteSet(C)
  <2>1. s \o t \in Seq(S)
    BY ConcatProperties
  <2>. QED
    BY <2>1, CopiesType
<1>6. IsFiniteSet(T)
  <2>1. T \in SUBSET C
    OBVIOUS
  <2>. QED
    BY <1>5, <2>1, FS_Subset
<1>7. Cardinality(C) = Cardinality(A) + Cardinality(B)
  <2> HIDE DEF A, B, C, T, f
  <2>1. Cardinality(T) = Cardinality(B)
    BY <1>4, <1>6, FS_Surjection
  <2>2. Cardinality(A \cup T)
          = Cardinality(A) + Cardinality(T) - Cardinality(A \cap T)
    BY <1>5, <1>6, FS_Union
  <2>3. Cardinality(A \cap T) = 0
    BY <1>3, FS_EmptySet
  <2>4. Cardinality(A) \in Nat /\ Cardinality(B) \in Nat
    BY <1>5, FS_CardinalityType
  <2>. QED
    BY <1>3, <2>1, <2>2, <2>3, <2>4
<1>. QED
  BY <1>7 DEF Copies

LEMMA CopiesOne == \A b, x : Copies(b, <<x>>) = Once(b = x)
<1> TAKE b, x
<1>1. CASE b = x
  <2>1. {i \in DOMAIN <<x>> : <<x>>[i] = b} = {1}
    BY <1>1
  <2>. QED
    BY <1>1, <2>1, FS_Singleton DEF Copies, Once
<1>2. CASE b # x
  <2>1. {i \in DOMAIN <<x>> : <<x>>[i] = b} = {}
    BY <1>2
  <2>. QED
    BY <1>2, <2>1, FS_EmptySet DEF Copies, Once
<1>. QED
  BY <1>1, <1>2

LEMMA CopiesNone == \A b : Copies(b, <<>>) = 0
<1> TAKE b
<1>1. {i \in DOMAIN <<>> : <<>>[i] = b} = {}
  OBVIOUS
<1>. QED
  BY <1>1, FS_EmptySet DEF Copies

LEMMA CopiesAppend ==
  ASSUME NEW S, NEW s \in Seq(S), NEW x \in S, NEW b
  PROVE  Copies(b, Append(s, x)) = Copies(b, s) + Once(b = x)
<1> DEFINE one == <<x>>
<1>1. Append(s, x) = s \o one
  BY AppendIsConcat
<1>2. one \in Seq(S)
  OBVIOUS
<1>3. Copies(b, one) = Once(b = x)
  BY CopiesOne
<1> HIDE DEF one
<1>4. Copies(b, s \o one) = Copies(b, s) + Copies(b, one)
  BY <1>2, CopiesConcat
<1>. QED
  BY <1>1, <1>3, <1>4

\* Taking the first or the last element off takes one copy of it away.
LEMMA CopiesTail ==
  ASSUME NEW S, NEW s \in Seq(S), s # <<>>, NEW b
  PROVE  Copies(b, s) = Once(b = Head(s)) + Copies(b, Tail(s))
<1> DEFINE one == <<Head(s)>>
           rest == Tail(s)
<1>1. one \in Seq(S) /\ rest \in Seq(S)
  BY HeadTailProperties
<1>2. s = one \o rest
  OBVIOUS
<1>3. Copies(b, one) = Once(b = Head(s))
  BY CopiesOne
<1> HIDE DEF one, rest
<1>4. Copies(b, one \o rest) = Copies(b, one) + Copies(b, rest)
  BY <1>1, CopiesConcat
<1>5. Copies(b, s) = Once(b = Head(s)) + Copies(b, rest)
  BY <1>2, <1>3, <1>4
<1>. QED
  BY <1>5 DEF rest

LEMMA CopiesFront ==
  ASSUME NEW S, NEW s \in Seq(S), s # <<>>, NEW b
  PROVE  Copies(b, s) = Copies(b, Front(s)) + Once(b = Last(s))
<1> DEFINE first == Front(s)
           last == Last(s)
<1>1. last \in S /\ first \in Seq(S) /\ s = Append(first, last)
  BY FrontLast
<1> HIDE DEF first, last
<1>2. Copies(b, s) = Copies(b, first) + Once(b = last)
  BY <1>1, CopiesAppend
<1>. QED
  BY <1>2 DEF first, last

-----------------------------------------------------------------------------
(***************************************************************************)
(* Type correctness, and the agents of the interface                       *)
(***************************************************************************)
\* The interface's own variables have their types.
LoopTypes ==
  /\ inbox \in Seq(Messages) /\ deferred \in Seq(Messages)
  /\ current \in Messages \cup {NoBatch}
  /\ phase \in Phases
  /\ asks \in 0..(InterfaceTurns + ExtraCalls)
  /\ tries \in 0..InterfaceRetries
  /\ todo \in 0..MaxTools
  /\ delegate \in Runs \cup {Nobody}
  /\ arrived \subseteq Messages
  /\ replies \in [Messages -> Nat] /\ apologies \in [Messages -> Nat]

\* There is a batch exactly while the loop does not wait for one, a tool call
\* to finish whenever the agent is at its tools, and a run exactly while a
\* tool waits for it.
PhaseInv ==
  /\ phase = "waiting" <=> current = NoBatch
  /\ phase \in {"tooling", "delegating"} => todo > 0
  /\ phase = "delegating" <=> delegate # Nobody

LoopInv == LoopTypes /\ PhaseInv

LEMMA PhaseNames ==
  /\ "waiting" \in Phases /\ "replying" \in Phases /\ "apologising" \in Phases
  /\ "preparing" \in Phases /\ "prompting" \in Phases
  /\ "completing" \in Phases /\ "tooling" \in Phases
  /\ "delegating" \in Phases
  BY DEF Phases, Working

\* Taking the first or last element off a sequence of batches, moving one
\* over and moving all over give sequences of batches.
LEMMA BatchSequences ==
  ASSUME NEW s \in Seq(Messages)
  PROVE  /\ s # <<>> => /\ Head(s) \in Messages /\ Tail(s) \in Seq(Messages)
                        /\ Last(s) \in Messages /\ Front(s) \in Seq(Messages)
         /\ \A b \in Messages : Append(s, b) \in Seq(Messages)
         /\ \A t \in Seq(Messages) : s \o t \in Seq(Messages)
<1>1. s # <<>> => Head(s) \in Messages /\ Tail(s) \in Seq(Messages)
  BY HeadTailProperties
<1>2. s # <<>> => Last(s) \in Messages /\ Front(s) \in Seq(Messages)
  BY FrontLast
<1>3. \A b \in Messages : Append(s, b) \in Seq(Messages)
  BY AppendProperties
<1>4. \A t \in Seq(Messages) : s \o t \in Seq(Messages)
  BY ConcatProperties
<1>. QED
  BY <1>1, <1>2, <1>3, <1>4

\* While a tool runs, its channel is the one of the batch.
LEMMA CurrentChannel ==
  ASSUME LoopInv, phase # "waiting"
  PROVE  current \in Messages /\ ChannelOf[current] \in Channels
  BY InterfaceAssumption DEF LoopInv, LoopTypes, PhaseInv

\* Whatever the interface does, it is a step of its agents or none of them.
LEMMA AgentsMove ==
  ASSUME LoopInv, [InterfaceNext]_allVars
  PROVE  [Next]_vars
<1>1. ASSUME NEW b \in Messages, Arrive(b) PROVE UNCHANGED vars
  BY <1>1 DEF Arrive, agentVars
<1>2. CASE TakeUp
  BY <1>2 DEF TakeUp, agentVars
<1>3. CASE TakeAdditional
  <2>1. Head(inbox) \in Messages /\ ChannelOf[Head(inbox)] \in Channels
    BY <1>3, BatchSequences, InterfaceAssumption
    DEF TakeAdditional, LoopInv, LoopTypes
  <2>2. \/ SignalChannel(ChannelOf[Head(inbox)], Head(inbox))
        \/ UNCHANGED vars
    BY <1>3 DEF TakeAdditional, Defer, agentVars
  <2>. QED
    BY <2>1, <2>2 DEF Next, Environment
<1>4. CASE Reply \/ Apologise
  BY <1>4 DEF Reply, Apologise, agentVars
<1>5. CASE InterfacePrepareFails \/ InterfacePrepareSucceeds \/ Ask
  BY <1>5 DEF InterfacePrepareFails, InterfacePrepareSucceeds, Ask, agentVars
<1>6. CASE AskAnswered \/ AskFails \/ DelegateReturns \/ ToolCallInvalid
  BY <1>6 DEF AskAnswered, AskFails, DelegateReturns, ToolCallInvalid,
              agentVars
<1>7. ASSUME NEW n \in 1..MaxTools, AskToolCalls(n) PROVE UNCHANGED vars
  BY <1>7 DEF AskToolCalls, agentVars
<1>8. ASSUME NEW r \in Runs, DelegateRun(r) PROVE [Next]_vars
  <2>1. ChannelOf[current] \in Channels
    BY <1>8, CurrentChannel DEF DelegateRun
  <2>. QED
    BY <1>8, <2>1 DEF DelegateRun, Next, Environment
<1>9. ASSUME NEW r \in Runs, RunStep(r) PROVE [Next]_vars
  BY <1>9 DEF RunStep, Next
<1>10. CASE UNCHANGED allVars
  BY <1>10 DEF allVars, agentVars
<1>. QED
  BY <1>1, <1>2, <1>3, <1>4, <1>5, <1>6, <1>7, <1>8, <1>9, <1>10
  DEF InterfaceNext, LoopStep, PromptStep

LEMMA InitLoop == InterfaceInit => LoopInv
<1> SUFFICES ASSUME InterfaceInit PROVE LoopInv
  OBVIOUS
<1>1. <<>> \in Seq(Messages)
  OBVIOUS
<1>2. LoopTypes
  BY <1>1, ConstantsAssumption, InterfaceAssumption, PhaseNames
  DEF InterfaceInit, LoopTypes
<1>3. PhaseInv
  BY DEF InterfaceInit, PhaseInv
<1>. QED
  BY <1>2, <1>3 DEF LoopInv

\* process_batch returns and leaves the batch to be replied to or excused.
LEMMA ConcludeLoop ==
  ASSUME LoopInv, NEW ending \in {"replying", "apologising"},
         Conclude(ending), phase \in Working, delegate = Nobody,
         asks' \in 0..(InterfaceTurns + ExtraCalls),
         tries' \in 0..InterfaceRetries, todo' \in 0..MaxTools
  PROVE  LoopInv'
<1>1. deferred' \in Seq(Messages) /\ <<>> \in Seq(Messages)
  BY BatchSequences DEF Conclude, LoopInv, LoopTypes
<1>2. LoopTypes'
  BY <1>1, PhaseNames DEF Conclude, LoopInv, LoopTypes, answerVars
<1>3. PhaseInv'
  BY DEF Conclude, LoopInv, PhaseInv, Working
<1>. QED
  BY <1>2, <1>3 DEF LoopInv

LEMMA AnswerTypes ==
  ASSUME LoopInv, current \in Messages, Reply \/ Apologise
  PROVE  replies' \in [Messages -> Nat] /\ apologies' \in [Messages -> Nat]
<1>1. replies[current] + 1 \in Nat /\ apologies[current] + 1 \in Nat
  BY DEF LoopInv, LoopTypes
<1>2. CASE Reply
  BY <1>1, <1>2 DEF Reply, LoopInv, LoopTypes
<1>3. CASE Apologise
  BY <1>1, <1>3 DEF Apologise, LoopInv, LoopTypes
<1>. QED
  BY <1>2, <1>3

LEMMA StepLoop ==
  ASSUME LoopInv, [InterfaceNext]_allVars
  PROVE  LoopInv'
<1> USE DEF loopVars, askVars, answerVars
<1>0. /\ InterfaceTurns + ExtraCalls \in Nat /\ InterfaceRetries \in Nat
      /\ MaxTools \in Nat \ {0}
  BY ConstantsAssumption, InterfaceAssumption
<1>1. ASSUME NEW b \in Messages, Arrive(b) PROVE LoopInv'
  <2>1. inbox' \in Seq(Messages) /\ arrived' \subseteq Messages
    BY <1>1, BatchSequences DEF Arrive, LoopInv, LoopTypes
  <2>. QED
    BY <1>1, <2>1 DEF Arrive, LoopInv, LoopTypes, PhaseInv
<1>2. CASE TakeUp
  <2>1. /\ inbox' \in Seq(Messages) /\ deferred' \in Seq(Messages)
        /\ current' \in Messages
    BY <1>2, BatchSequences DEF TakeUp, LoopInv, LoopTypes
  <2>2. LoopTypes'
    BY <1>0, <1>2, <2>1, PhaseNames, SMTT(30) DEF TakeUp, LoopInv, LoopTypes
  <2>3. PhaseInv'
    BY <1>2, <2>1, InterfaceAssumption DEF TakeUp, LoopInv, PhaseInv
  <2>. QED
    BY <2>2, <2>3 DEF LoopInv
<1>3. CASE TakeAdditional
  <2>1. inbox' \in Seq(Messages) /\ deferred' \in Seq(Messages)
    BY <1>3, BatchSequences DEF TakeAdditional, Defer, LoopInv, LoopTypes
  <2>. QED
    BY <1>3, <2>1 DEF TakeAdditional, LoopInv, LoopTypes, PhaseInv
<1>4. CASE Reply \/ Apologise
  <2>1. current \in Messages
    BY <1>4, CurrentChannel DEF Reply, Apologise
  <2>2. replies' \in [Messages -> Nat] /\ apologies' \in [Messages -> Nat]
    BY <1>4, <2>1, AnswerTypes
  <2>3. LoopTypes'
    BY <1>4, <2>2, PhaseNames DEF Reply, Apologise, LoopInv, LoopTypes
  <2>4. PhaseInv'
    BY <1>4 DEF Reply, Apologise, LoopInv, PhaseInv
  <2>. QED
    BY <2>3, <2>4 DEF LoopInv
<1>5. CASE InterfacePrepareFails
  <2>1. phase \in Working /\ delegate = Nobody
    BY <1>5 DEF InterfacePrepareFails, LoopInv, PhaseInv, Working
  <2>. QED
    BY <1>5, <2>1, ConcludeLoop DEF InterfacePrepareFails, LoopInv, LoopTypes
<1>6. CASE InterfacePrepareSucceeds
  BY <1>6, PhaseNames
  DEF InterfacePrepareSucceeds, LoopInv, LoopTypes, PhaseInv
<1>7. CASE Ask
  <2>1. phase \in Working /\ delegate = Nobody
    BY <1>7 DEF Ask, LoopInv, PhaseInv, Working
  <2>2. CASE asks' = asks + 1 /\ asks < InterfaceTurns + ExtraCalls
             /\ phase' = "completing" /\ UNCHANGED loopVars
             /\ UNCHANGED <<delegate, answerVars, tries, todo>>
    BY <1>0, <2>1, <2>2, PhaseNames, <1>7
    DEF Ask, LoopInv, LoopTypes, PhaseInv
  <2>3. CASE Conclude("apologising") /\ UNCHANGED <<asks, tries, todo>>
    BY <2>1, <2>3, ConcludeLoop DEF LoopInv, LoopTypes
  <2>. QED
    BY <1>7, <2>2, <2>3 DEF Ask
<1>8. CASE AskAnswered
  <2>1. phase \in Working /\ delegate = Nobody
    BY <1>8 DEF AskAnswered, LoopInv, PhaseInv, Working
  <2>. QED
    BY <1>8, <2>1, ConcludeLoop DEF AskAnswered, LoopInv, LoopTypes
<1>9. CASE AskFails
  <2>1. phase \in Working /\ delegate = Nobody
    BY <1>9 DEF AskFails, LoopInv, PhaseInv, Working
  <2>2. CASE tries < InterfaceRetries /\ phase' = "prompting"
             /\ tries' = tries + 1 /\ asks' = 0
             /\ UNCHANGED <<loopVars, delegate, answerVars, todo>>
    BY <1>0, <1>9, <2>1, <2>2, PhaseNames
    DEF AskFails, LoopInv, LoopTypes, PhaseInv
  <2>3. CASE Conclude("apologising") /\ UNCHANGED <<asks, tries, todo>>
    BY <2>1, <2>3, ConcludeLoop DEF LoopInv, LoopTypes
  <2>. QED
    BY <1>9, <2>2, <2>3 DEF AskFails
<1>10. ASSUME NEW n \in 1..MaxTools, AskToolCalls(n) PROVE LoopInv'
  BY <1>0, <1>10, PhaseNames DEF AskToolCalls, LoopInv, LoopTypes, PhaseInv
<1>11. ASSUME NEW r \in Runs, DelegateRun(r) PROVE LoopInv'
  BY <1>11, PhaseNames, ConstantsAssumption
  DEF DelegateRun, LoopInv, LoopTypes, PhaseInv
<1>12. CASE DelegateReturns \/ ToolCallInvalid
  <2>1. /\ phase \in {"tooling", "delegating"}
        /\ phase' = IF todo > 1 THEN "tooling" ELSE "prompting"
        /\ todo' = todo - 1 /\ delegate' = Nobody
        /\ UNCHANGED <<loopVars, asks, tries, answerVars>>
    BY <1>12 DEF DelegateReturns, ToolCallInvalid, LoopInv, PhaseInv
  <2>2. todo' \in 0..MaxTools
    BY <1>0, <2>1 DEF LoopInv, LoopTypes, PhaseInv
  <2>3. LoopTypes'
    BY <2>1, <2>2, PhaseNames DEF LoopInv, LoopTypes
  <2>4. PhaseInv'
    BY <1>0, <2>1 DEF LoopInv, LoopTypes, PhaseInv
  <2>. QED
    BY <2>3, <2>4 DEF LoopInv
<1>13. CASE UNCHANGED <<loopVars, phase, askVars, delegate, answerVars>>
  BY <1>13 DEF LoopInv, LoopTypes, PhaseInv
<1>14. ASSUME NEW r \in Runs, RunStep(r) PROVE LoopInv'
  BY <1>13, <1>14 DEF RunStep, InterfaceUnchanged
<1>15. CASE UNCHANGED allVars
  BY <1>13, <1>15 DEF allVars
<1>. QED
  BY <1>1, <1>2, <1>3, <1>4, <1>5, <1>6, <1>7, <1>8, <1>9, <1>10, <1>11,
     <1>12, <1>14, <1>15
  DEF InterfaceNext, LoopStep, PromptStep

LEMMA LoopInvariant == InterfaceSpec => []LoopInv
  BY InitLoop, StepLoop, PTL DEF InterfaceSpec

\* The interface agent drives its synapses and operators as AgentRuns says:
\* what is proved of every behaviour of AgentRuns (the permits, the registry,
\* the signals, the verdicts, the turns) holds of the agents behind it.
THEOREM InterfaceRunsAgents == InterfaceSpec => Spec
<1>1. InterfaceInit => Init
  BY DEF InterfaceInit
<1>2. LoopInv /\ [InterfaceNext]_allVars => [Next]_vars
  BY AgentsMove
<1>. QED
  BY <1>1, <1>2, LoopInvariant, PTL DEF InterfaceSpec, Spec

\* The variables of the interface agent and of its runs always hold what
\* their declarations say.
THEOREM InterfaceTypes == InterfaceSpec => []InterfaceTypeOK
<1>1. LoopInv /\ TypeOK => InterfaceTypeOK
  BY DEF LoopInv, LoopTypes, InterfaceTypeOK
<1>. QED
  BY <1>1, LoopInvariant, InterfaceRunsAgents, TypeCorrect, PTL

-----------------------------------------------------------------------------
(***************************************************************************)
(* One agent at a time                                                     *)
(***************************************************************************)
\* Only a run that was delegated for a channel is bound to one.
IdleIsUnbound == \A r \in Runs : pc[r] = "idle" => channel[r] = NoChannel

OneInv == OneAgentForTheBatch /\ IdleIsUnbound

\* A run that returned stays returned, and none becomes idle again.
LEMMA StepForward ==
  ASSUME TypeOK, NEW r \in Runs, Step(r)
  PROVE  /\ channel' = channel
         /\ \A q \in Runs : /\ pc[q] = "returned" => pc'[q] = "returned"
                            /\ pc'[q] = "idle" => pc[q] = "idle"
<1> USE DEF Goto, queueVars, promptVars, history
<1>1. CASE \/ Acquire(r) \/ NoNode(r) \/ Announce(r) \/ Register(r)
           \/ PrepareFails(r) \/ PrepareSucceeds(r) \/ Deregister(r)
  BY <1>1 DEF TypeOK, Acquire, NoNode, Announce, Register, PrepareFails,
              PrepareSucceeds, Deregister
<1>2. CASE \/ HitLimit(r) \/ CompletionCall(r) \/ Answer(r) \/ FatalError(r)
           \/ TransientError(r) \/ ToolCancelled(r)
  BY <1>2 DEF TypeOK, HitLimit, CompletionCall, Answer, FatalError,
              TransientError, ToolCancelled, Cancelled, Leave
<1>3. ASSUME NEW n \in 1..MaxTools, AskTools(r, n)
      PROVE  /\ channel' = channel
             /\ \A q \in Runs : /\ pc[q] = "returned" => pc'[q] = "returned"
                                /\ pc'[q] = "idle" => pc[q] = "idle"
  BY <1>3 DEF TypeOK, AskTools
<1>4. CASE RunTool(r) \/ Restart(r)
  BY <1>4 DEF TypeOK, RunTool, AfterTool, Restart
<1>5. ASSUME NEW o \in Runs, DelegateOperator(r, o) \/ OperatorReturns(r, o)
      PROVE  /\ channel' = channel
             /\ \A q \in Runs : /\ pc[q] = "returned" => pc'[q] = "returned"
                                /\ pc'[q] = "idle" => pc[q] = "idle"
  BY <1>5 DEF TypeOK, DelegateOperator, OperatorReturns, AfterTool
<1>. QED
  BY <1>1, <1>2, <1>3, <1>4, <1>5 DEF Step

LEMMA OneAgentKept ==
  ASSUME TypeOK, LoopInv, OneInv, [InterfaceNext]_allVars
  PROVE  OneInv'
<1> USE DEF OneInv, OneAgentForTheBatch, IdleIsUnbound
<1>1. CASE /\ UNCHANGED <<pc, channel, current>>
           /\ phase = "delegating" => UNCHANGED <<phase, delegate>>
  BY <1>1
<1>2. ASSUME NEW b \in Messages, Arrive(b) PROVE OneInv'
  BY <1>1, <1>2 DEF Arrive, agentVars, vars
<1>3. CASE TakeUp
  BY <1>3 DEF TakeUp, agentVars, vars
<1>4. CASE TakeAdditional
  <2>1. UNCHANGED <<pc, channel>>
    BY <1>4 DEF TakeAdditional, Defer, SignalChannel, SignalSteer, Accept,
                agentVars, vars
  <2>. QED
    BY <1>1, <1>4, <2>1 DEF TakeAdditional
<1>5. CASE Reply \/ Apologise
  BY <1>5 DEF Reply, Apologise, agentVars, vars
<1>6. CASE InterfacePrepareFails \/ InterfacePrepareSucceeds \/ Ask
  BY <1>1, <1>6 DEF InterfacePrepareFails, InterfacePrepareSucceeds, Ask,
                    Conclude, agentVars, vars, loopVars
<1>7. CASE AskAnswered \/ AskFails \/ ToolCallInvalid
  BY <1>1, <1>7 DEF AskAnswered, AskFails, ToolCallInvalid, Conclude,
                    agentVars, vars, loopVars
<1>8. ASSUME NEW n \in 1..MaxTools, AskToolCalls(n) PROVE OneInv'
  BY <1>1, <1>8 DEF AskToolCalls, agentVars, vars, loopVars
<1>9. CASE DelegateReturns
  <2>1. \A r \in Runs : pc[r] \in {"idle", "returned"} \/ channel[r] = NoChannel
    BY <1>9 DEF DelegateReturns
  <2>2. UNCHANGED <<pc, channel>>
    BY <1>9 DEF DelegateReturns, agentVars, vars
  <2>. QED
    BY <2>1, <2>2
<1>10. ASSUME NEW r \in Runs, DelegateRun(r) PROVE OneInv'
  <2>1. /\ pc[r] = "idle" /\ pc' = [pc EXCEPT ![r] = "queued"]
        /\ channel' = [channel EXCEPT ![r] = ChannelOf[current]]
        /\ phase = "tooling" /\ phase' = "delegating" /\ delegate' = r
        /\ current' = current
    BY <1>10 DEF DelegateRun, Delegate, loopVars
  <2>2. \A q \in Runs : pc[q] \in {"idle", "returned"} \/ channel[q] = NoChannel
    BY <2>1
  <2>. QED
    BY <2>1, <2>2 DEF TypeOK
<1>11. ASSUME NEW r \in Runs, RunStep(r) PROVE OneInv'
  <2>1. UNCHANGED <<phase, delegate, current>>
    BY <1>11 DEF RunStep, InterfaceUnchanged, loopVars
  <2>. QED
    BY <1>11, <2>1, StepForward DEF RunStep
<1>12. CASE UNCHANGED allVars
  BY <1>1, <1>12 DEF allVars, agentVars, vars, loopVars
<1>. QED
  BY <1>2, <1>3, <1>4, <1>5, <1>6, <1>7, <1>8, <1>9, <1>10, <1>11, <1>12
  DEF InterfaceNext, LoopStep, PromptStep

\* Whatever the model does with its tools, at most one run works for a
\* channel, it is the one the interface waits for, and it works for the
\* channel of the batch: signal_channel never has a choice to make.
THEOREM OneAgentAtATime == InterfaceSpec => []OneAgentForTheBatch
<1>1. InterfaceInit => OneInv
  BY DEF InterfaceInit, Init, OneInv, OneAgentForTheBatch, IdleIsUnbound
<1>2. OneInv => OneAgentForTheBatch
  BY DEF OneInv
<1>3. TypeOK /\ LoopInv /\ OneInv /\ [InterfaceNext]_allVars => OneInv'
  BY OneAgentKept
<1>. QED
  BY <1>1, <1>2, <1>3, LoopInvariant, InterfaceRunsAgents, TypeCorrect, PTL
  DEF InterfaceSpec

-----------------------------------------------------------------------------
(***************************************************************************)
(* No batch is lost or handled twice                                       *)
(***************************************************************************)
\* How many places batch b is in.
PlacesOf(b) ==
  Copies(b, inbox) + Copies(b, deferred) + Once(current = b)
    + Once(sentTo[b] # Nobody) + replies[b] + apologies[b]

LEMMA PlaceCounts ==
  ASSUME LoopInv, NEW b \in Messages
  PROVE  /\ Copies(b, inbox) \in Nat /\ Copies(b, deferred) \in Nat
         /\ Once(current = b) \in Nat /\ Once(sentTo[b] # Nobody) \in Nat
         /\ replies[b] \in Nat /\ apologies[b] \in Nat
<1>1. Copies(b, inbox) \in Nat /\ Copies(b, deferred) \in Nat
  BY CopiesType DEF LoopInv, LoopTypes
<1>2. Once(current = b) \in Nat /\ Once(sentTo[b] # Nobody) \in Nat
  BY DEF Once
<1>3. replies[b] \in Nat /\ apologies[b] \in Nat
  BY DEF LoopInv, LoopTypes
<1>. QED
  BY <1>1, <1>2, <1>3

\* Deferring what is left in the channel moves its batches, each once.
LEMMA ConcludeKeeps ==
  ASSUME LoopInv, NEW ending, Conclude(ending), UNCHANGED sentTo,
         NEW b \in Messages
  PROVE  PlacesOf(b)' = PlacesOf(b) /\ arrived' = arrived
<1>1. Copies(b, deferred') = Copies(b, deferred) + Copies(b, inbox)
  BY CopiesConcat DEF Conclude, LoopInv, LoopTypes
<1>2. Copies(b, inbox') = 0
  BY CopiesNone DEF Conclude
<1>. QED
  BY <1>1, <1>2, PlaceCounts DEF Conclude, PlacesOf, answerVars

LEMMA BatchKept ==
  ASSUME TypeOK, LoopInv, BatchInOnePlace, [InterfaceNext]_allVars
  PROVE  BatchInOnePlace'
<1> SUFFICES ASSUME NEW b \in Messages
             PROVE  PlacesOf(b)' = Once(b \in arrived')
  BY DEF BatchInOnePlace, PlacesOf
<1> DEFINE Goal == PlacesOf(b)' = Once(b \in arrived')
<1>0. PlacesOf(b) = Once(b \in arrived)
  BY DEF BatchInOnePlace, PlacesOf
<1>1. CASE UNCHANGED <<inbox, deferred, current, sentTo, answerVars>>
  BY <1>0, <1>1 DEF PlacesOf, answerVars
<1>2. ASSUME NEW a \in Messages, Arrive(a) PROVE Goal
  <2>1. Copies(b, inbox') = Copies(b, inbox) + Once(b = a)
    BY <1>2, CopiesAppend DEF Arrive, LoopInv, LoopTypes
  <2>2. /\ UNCHANGED <<deferred, current, sentTo, replies, apologies>>
        /\ a \notin arrived /\ arrived' = arrived \cup {a}
    BY <1>2 DEF Arrive, agentVars, vars
  <2>3. /\ Once(b \in arrived') = Once(b \in arrived) + Once(b = a)
        /\ Once(b = a) \in Nat
    BY <2>2 DEF Once
  <2>4. PlacesOf(b)' = PlacesOf(b) + Once(b = a)
    <3> DEFINE x == Copies(b, inbox)
               y == Copies(b, deferred)
               z == Once(current = b)
               u == Once(sentTo[b] # Nobody)
               v == Once(b = a)
    <3>1. x \in Nat /\ y \in Nat /\ z \in Nat /\ u \in Nat /\ v \in Nat
          /\ replies[b] \in Nat /\ apologies[b] \in Nat
      BY <2>3, PlaceCounts
    <3>2. PlacesOf(b)' = (x + v) + y + z + u + replies[b] + apologies[b]
      BY <2>1, <2>2 DEF PlacesOf
    <3>3. PlacesOf(b) = x + y + z + u + replies[b] + apologies[b]
      BY DEF PlacesOf
    <3> HIDE DEF x, y, z, u, v
    <3>4. PlacesOf(b)' = PlacesOf(b) + v
      BY <3>1, <3>2, <3>3
    <3>. QED
      BY <3>4 DEF v
  <2>. QED
    BY <1>0, <2>3, <2>4
<1>3. CASE TakeUp
  <2>1. /\ current = NoBatch
        /\ UNCHANGED <<sentTo, arrived, replies, apologies>>
    BY <1>3 DEF TakeUp, LoopInv, PhaseInv, agentVars, vars, answerVars
  <2>2. Once(current = b) = 0
    BY <2>1, InterfaceAssumption DEF Once
  <2>3. Copies(b, inbox') + Copies(b, deferred') + Once(current' = b)
          = Copies(b, inbox) + Copies(b, deferred)
    <3>1. CASE deferred # <<>> /\ current' = Last(deferred)
               /\ deferred' = Front(deferred) /\ UNCHANGED inbox
      <4>1. Copies(b, deferred) = Copies(b, deferred') + Once(b = current')
        BY <3>1, CopiesFront DEF LoopInv, LoopTypes
      <4>2. Copies(b, deferred') \in Nat
        BY <3>1, BatchSequences, CopiesType DEF LoopInv, LoopTypes
      <4>3. Once(b = current') = Once(current' = b)
        BY DEF Once
      <4>. QED
        BY <3>1, <4>1, <4>2, <4>3, PlaceCounts, OnceType
    <3>2. CASE inbox # <<>> /\ current' = Head(inbox)
               /\ inbox' = Tail(inbox) /\ UNCHANGED deferred
      <4>1. Copies(b, inbox) = Once(b = current') + Copies(b, inbox')
        BY <3>2, CopiesTail DEF LoopInv, LoopTypes
      <4>2. Copies(b, inbox') \in Nat
        BY <3>2, BatchSequences, CopiesType DEF LoopInv, LoopTypes
      <4>3. Once(b = current') = Once(current' = b)
        BY DEF Once
      <4>. QED
        BY <3>2, <4>1, <4>2, <4>3, PlaceCounts, OnceType
    <3>. QED
      BY <1>3, <3>1, <3>2 DEF TakeUp
  <2>. QED
    <3> DEFINE x == Copies(b, inbox') + Copies(b, deferred')
                      + Once(current' = b)
               y == Copies(b, inbox) + Copies(b, deferred)
    <3>1. x = y
      BY <2>3
    <3>2. PlacesOf(b)' = x + Once(sentTo[b] # Nobody) + replies[b]
                           + apologies[b]
      BY <2>1 DEF PlacesOf
    <3>3. PlacesOf(b) = y + Once(sentTo[b] # Nobody) + replies[b]
                          + apologies[b]
      BY <2>2, PlaceCounts DEF PlacesOf
    <3> HIDE DEF x, y
    <3>. QED
      BY <1>0, <2>1, <3>1, <3>2, <3>3
<1>4. CASE TakeAdditional
  <2>1. Copies(b, inbox) = Once(b = Head(inbox)) + Copies(b, inbox')
    BY <1>4, CopiesTail DEF TakeAdditional, LoopInv, LoopTypes
  <2>2. Copies(b, inbox') \in Nat
    BY <1>4, BatchSequences, CopiesType DEF TakeAdditional, LoopInv, LoopTypes
  <2>3. Head(inbox) \in Messages
    BY <1>4, BatchSequences DEF TakeAdditional, LoopInv, LoopTypes
  <2>4. UNCHANGED <<current, arrived, replies, apologies>>
    BY <1>4 DEF TakeAdditional, answerVars
  <2>5. CASE SignalChannel(ChannelOf[Head(inbox)], Head(inbox))
             /\ UNCHANGED deferred
    <3>1. PICK r \in registered : SignalSteer(r, Head(inbox))
      BY <2>5 DEF SignalChannel
    <3>2. r # Nobody
      BY <3>1, ConstantsAssumption DEF TypeOK
    <3>3. /\ sentTo[Head(inbox)] = Nobody
          /\ sentTo' = [sentTo EXCEPT ![Head(inbox)] = r]
      BY <3>1 DEF SignalSteer
    <3>4. Once(sentTo'[b] # Nobody)
            = Once(sentTo[b] # Nobody) + Once(b = Head(inbox))
      BY <2>3, <3>2, <3>3 DEF Once, TypeOK
    <3>. QED
      BY <1>0, <2>1, <2>2, <2>4, <2>5, <3>4, PlaceCounts, OnceType
      DEF PlacesOf
  <2>6. CASE Defer(Head(inbox))
    <3>1. Copies(b, deferred')
            = Copies(b, deferred) + Once(b = Head(inbox))
      BY <2>3, <2>6, CopiesAppend DEF Defer, LoopInv, LoopTypes
    <3>2. UNCHANGED sentTo
      BY <2>6 DEF Defer, agentVars, vars
    <3>. QED
      BY <1>0, <2>1, <2>2, <2>4, <3>1, <3>2, PlaceCounts, OnceType
      DEF PlacesOf
  <2>. QED
    BY <1>4, <2>5, <2>6 DEF TakeAdditional
<1>5. CASE Reply \/ Apologise
  <2>1. current \in Messages
    BY <1>5, CurrentChannel DEF Reply, Apologise
  <2>2. /\ UNCHANGED <<inbox, deferred, sentTo, arrived>>
        /\ current' = NoBatch
    BY <1>5 DEF Reply, Apologise, agentVars, vars
  <2>3. Once(current' = b) = 0
    BY <2>2, InterfaceAssumption DEF Once
  <2>4. replies'[b] + apologies'[b]
          = replies[b] + apologies[b] + Once(current = b)
    BY <1>5, <2>1, PlaceCounts, SMTT(30)
    DEF Reply, Apologise, Once, LoopInv, LoopTypes
  <2>5. replies'[b] \in Nat /\ apologies'[b] \in Nat
    BY <1>5, <2>1, AnswerTypes
  <2>. QED
    BY <1>0, <2>2, <2>3, <2>4, <2>5, PlaceCounts DEF PlacesOf
<1>6. ASSUME NEW ending, Conclude(ending), UNCHANGED sentTo PROVE Goal
  BY <1>0, <1>6, ConcludeKeeps
<1>7. CASE InterfacePrepareFails \/ InterfacePrepareSucceeds \/ Ask
  BY <1>1, <1>6, <1>7
  DEF InterfacePrepareFails, InterfacePrepareSucceeds, Ask, loopVars,
      agentVars, vars
<1>8. CASE AskAnswered \/ AskFails \/ DelegateReturns \/ ToolCallInvalid
  BY <1>1, <1>6, <1>8
  DEF AskAnswered, AskFails, DelegateReturns, ToolCallInvalid, loopVars,
      agentVars, vars
<1>9. ASSUME NEW n \in 1..MaxTools, AskToolCalls(n) PROVE Goal
  BY <1>1, <1>9 DEF AskToolCalls, loopVars, agentVars, vars
<1>10. ASSUME NEW r \in Runs, DelegateRun(r) PROVE Goal
  BY <1>1, <1>10 DEF DelegateRun, Delegate, loopVars, history
<1>11. ASSUME NEW r \in Runs, RunStep(r) PROVE Goal
  <2>1. UNCHANGED sentTo
    BY <1>11 DEF RunStep, Step, Acquire, NoNode, Announce, Register,
       PrepareFails, PrepareSucceeds, HitLimit, CompletionCall, Answer,
       TransientError, FatalError, AskTools, ToolCancelled, RunTool,
       DelegateOperator, OperatorReturns, Restart, Deregister, history
  <2>. QED
    BY <1>1, <1>11, <2>1 DEF RunStep, InterfaceUnchanged, loopVars
<1>12. CASE UNCHANGED allVars
  BY <1>1, <1>12 DEF allVars, agentVars, vars, loopVars
<1>. QED
  BY <1>2, <1>3, <1>4, <1>5, <1>7, <1>8, <1>9, <1>10, <1>11, <1>12
  DEF InterfaceNext, LoopStep, PromptStep

\* From its arrival on a batch is in exactly one place: in the channel,
\* deferred, in process, steered into an agent, replied to or excused.
THEOREM NoBatchIsLost == InterfaceSpec => []BatchInOnePlace
<1>1. InterfaceInit => BatchInOnePlace
  <2> SUFFICES ASSUME InterfaceInit, NEW b \in Messages
               PROVE  PlacesOf(b) = Once(b \in arrived)
    BY DEF BatchInOnePlace, PlacesOf
  <2>1. Copies(b, inbox) = 0 /\ Copies(b, deferred) = 0
    BY CopiesNone DEF InterfaceInit
  <2>2. /\ Once(current = b) = 0 /\ Once(sentTo[b] # Nobody) = 0
        /\ Once(b \in arrived) = 0
    BY InterfaceAssumption DEF InterfaceInit, Init, Once
  <2>3. replies[b] = 0 /\ apologies[b] = 0
    BY DEF InterfaceInit
  <2>. QED
    BY <2>1, <2>2, <2>3 DEF PlacesOf
<1>2. TypeOK /\ LoopInv /\ BatchInOnePlace /\ [InterfaceNext]_allVars
        => BatchInOnePlace'
  BY BatchKept
<1>. QED
  BY <1>1, <1>2, LoopInvariant, InterfaceRunsAgents, TypeCorrect, PTL
  DEF InterfaceSpec
=============================================================================
