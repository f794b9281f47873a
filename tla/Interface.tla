----------------------------- MODULE Interface -----------------------------
(***************************************************************************)
(* The interface agent (interface/agent.rs, interface/tools.rs) on top of  *)
(* the runs it delegates to (AgentRuns).                                   *)
(*                                                                         *)
(* One task serves all channels, one batch at a time.  While process_batch *)
(* prompts the interface model, the same task keeps receiving: a batch of  *)
(* the channel in progress is steered into the agent that works for it, or *)
(* deferred if there is none; a batch of another channel is deferred.      *)
(* Deferred batches are served before new ones, the latest first.          *)
(*                                                                         *)
(* The batches are the Messages of AgentRuns: a batch given to             *)
(* signal_channel is a steer message.  The signals of the HTTP API do not  *)
(* occur here: AgentRuns is checked with them.                             *)
(***************************************************************************)
EXTENDS AgentRuns, SequencesExt

CONSTANTS
  ChannelOf,          \* the channel of each batch
  InboxCapacity,      \* capacity of the batch channel
  InterfaceTurns,     \* max_turns of the interface prompt (3)
  InterfaceRetries,   \* MAX_RETRIES of the interface agent
  NoBatch

ASSUME InterfaceAssumption ==
  /\ ChannelOf \in [Messages -> Channels]
  /\ InboxCapacity \in Nat \ {0}
  /\ InterfaceTurns \in Nat /\ InterfaceRetries \in Nat
  /\ NoBatch \notin Messages

VARIABLES
  inbox,     \* the batch channel
  deferred,  \* run()'s stack of deferred batches
  current,   \* the batch being processed, or NoBatch
  phase,     \* where run() and the prompt are
  asks,      \* completion calls of the prompt in progress
  tries,     \* process_batch's attempt
  todo,      \* tool calls of the latest response not yet run
  delegate,  \* the run the tool waits for, or Nobody
  \* History, which no action reads:
  arrived,   \* the batches that have entered the channel
  replies,   \* how often each batch was replied to
  apologies  \* how often each batch was answered with an apology

agentVars  == vars
loopVars   == <<inbox, deferred, current>>
askVars    == <<asks, tries, todo>>
answerVars == <<arrived, replies, apologies>>
allVars    == <<agentVars, loopVars, phase, askVars, delegate, answerVars>>

Working == {"preparing", "prompting", "completing", "tooling", "delegating"}
Phases  == Working \cup {"waiting", "replying", "apologising"}

InterfaceInit ==
  /\ Init
  /\ inbox = <<>> /\ deferred = <<>> /\ current = NoBatch
  /\ phase = "waiting"
  /\ asks = 0 /\ tries = 0 /\ todo = 0
  /\ delegate = Nobody
  /\ arrived = {}
  /\ replies = [b \in Messages |-> 0]
  /\ apologies = [b \in Messages |-> 0]

-----------------------------------------------------------------------------
\* The session manager flushes a batch.
Arrive(b) ==
  /\ b \notin arrived
  /\ Len(inbox) < InboxCapacity
  /\ arrived' = arrived \cup {b}
  /\ inbox' = Append(inbox, b)
  /\ UNCHANGED <<agentVars, deferred, current, phase, askVars, delegate,
                 replies, apologies>>

\* run() takes up the latest deferred batch, else the oldest new one, and
\* process_batch starts.
TakeUp ==
  /\ phase = "waiting"
  /\ \/ /\ deferred # <<>>
        /\ current' = Last(deferred)
        /\ deferred' = Front(deferred)
        /\ UNCHANGED inbox
     \/ /\ deferred = <<>> /\ inbox # <<>>
        /\ current' = Head(inbox)
        /\ inbox' = Tail(inbox)
        /\ UNCHANGED deferred
  /\ phase' = "preparing"
  /\ asks' = 0 /\ tries' = 0 /\ todo' = 0
  /\ UNCHANGED <<agentVars, delegate, answerVars>>

Defer(b) == deferred' = Append(deferred, b) /\ UNCHANGED agentVars

\* signal_channel returns an error: no agent is registered for the channel,
\* or the one it finds no longer listens.
ChannelRefuses(c) ==
  LET found == {r \in registered : channel[r] = c}
  IN found = {} \/ \E r \in found : pc[r] \notin Listening

\* The select loop receives a batch while process_batch is pending.
TakeAdditional ==
  /\ phase \in Working /\ inbox # <<>>
  /\ LET b == Head(inbox)
         c == ChannelOf[b]
     IN \/ c = ChannelOf[current] /\ SignalChannel(c, b) /\ UNCHANGED deferred
        \/ c = ChannelOf[current] /\ ChannelRefuses(c) /\ Defer(b)
        \/ c # ChannelOf[current] /\ Defer(b)
  /\ inbox' = Tail(inbox)
  /\ UNCHANGED <<current, phase, askVars, delegate, answerVars>>

\* Mutant: what is in the channel when the prompt ends is discarded.
ConcludeDiscards(ending) ==
  /\ phase' = ending
  /\ inbox' = <<>>
  /\ UNCHANGED <<current, deferred, delegate, answerVars>>

\* process_batch returns; what is in the channel by then is deferred.
Conclude(ending) ==
  /\ phase' = ending
  /\ deferred' = deferred \o inbox
  /\ inbox' = <<>>
  /\ UNCHANGED <<current, delegate, answerVars>>

-----------------------------------------------------------------------------
\* Rendering the system prompt or creating the client fails.
InterfacePrepareFails ==
  /\ phase = "preparing"
  /\ Conclude("apologising")
  /\ UNCHANGED <<agentVars, askVars>>

InterfacePrepareSucceeds ==
  /\ phase = "preparing"
  /\ phase' = "prompting"
  /\ UNCHANGED <<agentVars, loopVars, askVars, delegate, answerVars>>

\* The next completion call; past max_turns the prompt fails for good.
Ask ==
  /\ phase = "prompting"
  /\ \/ /\ asks < InterfaceTurns + ExtraCalls
        /\ asks' = asks + 1
        /\ phase' = "completing"
        /\ UNCHANGED <<loopVars, delegate, answerVars>>
     \/ /\ asks = InterfaceTurns + ExtraCalls
        /\ Conclude("apologising")
        /\ UNCHANGED asks
  /\ UNCHANGED <<agentVars, tries, todo>>

\* The interface model answers with text, with n tool calls, or not at all.
AskAnswered ==
  /\ phase = "completing"
  /\ Conclude("replying")
  /\ UNCHANGED <<agentVars, askVars>>

AskToolCalls(n) ==
  /\ phase = "completing"
  /\ phase' = "tooling"
  /\ todo' = n
  /\ UNCHANGED <<agentVars, loopVars, asks, tries, delegate, answerVars>>

\* Mutant: a transient error is not counted as an attempt.
AskFailsUncounted ==
  /\ phase = "completing"
  /\ phase' = "prompting"
  /\ asks' = 0
  /\ UNCHANGED <<agentVars, loopVars, tries, todo, delegate, answerVars>>

\* Mutant: one attempt too many.
AskFailsOffByOne ==
  /\ phase = "completing"
  /\ \/ /\ tries <= InterfaceRetries
        /\ phase' = "prompting"
        /\ tries' = tries + 1
        /\ asks' = 0
        /\ UNCHANGED <<loopVars, delegate, answerVars>>
     \/ Conclude("apologising") /\ UNCHANGED <<asks, tries>>
  /\ UNCHANGED <<agentVars, todo>>

\* A transient error starts the prompt over, at most InterfaceRetries times;
\* the delegations made so far are not undone and may be made again.
AskFails ==
  /\ phase = "completing"
  /\ \/ /\ tries < InterfaceRetries
        /\ phase' = "prompting"
        /\ tries' = tries + 1
        /\ asks' = 0
        /\ UNCHANGED <<loopVars, delegate, answerVars>>
     \/ Conclude("apologising") /\ UNCHANGED <<asks, tries>>
  /\ UNCHANGED <<agentVars, todo>>

\* Mutant: the tool spawns the run and returns an acknowledgement at once.
DelegateDetached(r) ==
  /\ phase = "tooling"
  /\ Delegate(r, ChannelOf[current])
  /\ phase' = IF todo > 1 THEN "tooling" ELSE "prompting"
  /\ todo' = todo - 1
  /\ UNCHANGED <<loopVars, asks, tries, delegate, answerVars>>

\* delegate_synapse / delegate_operator: run() is called for the channel of
\* the batch and awaited.
DelegateRun(r) ==
  /\ phase = "tooling"
  /\ Delegate(r, ChannelOf[current])
  /\ phase' = "delegating"
  /\ delegate' = r
  /\ UNCHANGED <<loopVars, askVars, answerVars>>

DelegateReturns ==
  /\ phase = "delegating" /\ pc[delegate] = "returned"
  /\ phase' = IF todo > 1 THEN "tooling" ELSE "prompting"
  /\ todo' = todo - 1
  /\ delegate' = Nobody
  /\ UNCHANGED <<agentVars, loopVars, asks, tries, answerVars>>

\* A tool call that names no tool of the agent or has bad arguments: its
\* error is the tool's output.
ToolCallInvalid ==
  /\ phase = "tooling"
  /\ phase' = IF todo > 1 THEN "tooling" ELSE "prompting"
  /\ todo' = todo - 1
  /\ UNCHANGED <<agentVars, loopVars, asks, tries, delegate, answerVars>>

\* send_response: stored, published and delivered (failures are logged).
Reply ==
  /\ phase = "replying"
  /\ replies' = [replies EXCEPT ![current] = @ + 1]
  /\ phase' = "waiting"
  /\ current' = NoBatch
  /\ UNCHANGED <<agentVars, inbox, deferred, askVars, delegate, arrived,
                 apologies>>

\* The apology is delivered only; the conversation history does not get it.
Apologise ==
  /\ phase = "apologising"
  /\ apologies' = [apologies EXCEPT ![current] = @ + 1]
  /\ phase' = "waiting"
  /\ current' = NoBatch
  /\ UNCHANGED <<agentVars, inbox, deferred, askVars, delegate, arrived,
                 replies>>

-----------------------------------------------------------------------------
LoopStep ==
  \/ TakeUp \/ TakeAdditional
  \/ Reply \/ Apologise

PromptStep ==
  \/ InterfacePrepareFails \/ InterfacePrepareSucceeds
  \/ Ask \/ AskAnswered \/ AskFails
  \/ \E n \in 1..MaxTools : AskToolCalls(n)
  \/ \E r \in Runs : DelegateRun(r)
  \/ DelegateReturns \/ ToolCallInvalid

InterfaceUnchanged ==
  UNCHANGED <<loopVars, phase, askVars, delegate, answerVars>>

RunStep(r) == Step(r) /\ InterfaceUnchanged

InterfaceNext ==
  \/ \E b \in Messages : Arrive(b)
  \/ LoopStep \/ PromptStep
  \/ \E r \in Runs : RunStep(r)

InterfaceSpec == InterfaceInit /\ [][InterfaceNext]_allVars

\* The interface task and the runs keep being scheduled and the model
\* answers; no batch has to arrive.  The select loop polls both of its
\* branches, so that each of them has fairness of its own.
FairInterfaceSpec ==
  /\ InterfaceSpec
  /\ WF_allVars(LoopStep) /\ WF_allVars(PromptStep)
  /\ \A r \in Runs : WF_allVars(RunStep(r))

-----------------------------------------------------------------------------
(***************************************************************************)
(* Properties                                                              *)
(***************************************************************************)
InterfaceTypeOK ==
  /\ TypeOK
  /\ inbox \in Seq(Messages) /\ deferred \in Seq(Messages)
  /\ current \in Messages \cup {NoBatch}
  /\ phase \in Phases
  /\ asks \in 0..(InterfaceTurns + ExtraCalls)
  /\ tries \in 0..InterfaceRetries
  /\ todo \in 0..MaxTools
  /\ delegate \in Runs \cup {Nobody}
  /\ arrived \subseteq Messages
  /\ replies \in [Messages -> Nat] /\ apologies \in [Messages -> Nat]

Copies(b, s) == Cardinality({i \in DOMAIN s : s[i] = b})
Once(cond)   == IF cond THEN 1 ELSE 0

\* A batch is in exactly one place until it is replied to or apologised for,
\* exactly once: none is lost by the drain, answered twice, or both steered
\* into an agent and answered.
BatchInOnePlace ==
  \A b \in Messages :
    Copies(b, inbox) + Copies(b, deferred) + Once(current = b)
      + Once(sentTo[b] # Nobody) + replies[b] + apologies[b]
    = Once(b \in arrived)

\* At most one run works for a channel, and only while the interface waits
\* for it with a batch of that channel: signal_channel has no choice to make,
\* and no run outlives the batch it serves.
OneAgentForTheBatch ==
  \A r \in Runs :
    channel[r] # NoChannel /\ pc[r] \notin {"idle", "returned"} =>
      phase = "delegating" /\ delegate = r /\ channel[r] = ChannelOf[current]

\* A batch that entered the channel is answered in the end, or was handed to
\* the agent that works for its channel.
EveryBatchHandled ==
  \A b \in Messages :
    b \in arrived ~> (replies[b] + apologies[b] > 0 \/ sentTo[b] # Nobody)

-----------------------------------------------------------------------------
(***************************************************************************)
(* What the source says and the code does not do                           *)
(***************************************************************************)
\* agent.rs:201-202 says that messages arriving during generation "steer the
\* active agent in real-time": a run that completes was restarted with every
\* batch it accepted.
CompletedRunsSawEverything ==
  \A b \in Messages :
    sentTo[b] # Nobody /\ published[sentTo[b]]["completed"] > 0
      => applied[b][sentTo[b]] > 0
=============================================================================
