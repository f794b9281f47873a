----------------------------- MODULE AgentRuns -----------------------------
(***************************************************************************)
(* The synapse and operator runs of the core, the registry of the running  *)
(* ones and the watch channel through which a run is wrapped up or         *)
(* steered (core/signal.rs, synapse/agent.rs, operator/agent.rs and the    *)
(* delegation tool in synapse/tools.rs).                                   *)
(*                                                                         *)
(* A run is one call of SynapseAgent::run or OperatorAgent::run.  Both     *)
(* functions have the same shape and share the registry, so one set of     *)
(* actions models both; a run's kind decides its semaphore, its step limit *)
(* and the two differences (an operator resolves its node first, a synapse *)
(* may delegate to an operator).  Every await at which another task can    *)
(* interfere separates two actions; code between two awaits is one action. *)
(*                                                                         *)
(* The LLM library (rig) is external: a prompt with max_turns(n) makes up  *)
(* to n + ExtraCalls completion calls and runs the tools of a response one *)
(* after another, consulting the hook before each call and each tool.      *)
(***************************************************************************)
EXTENDS Naturals, Sequences, FiniteSets

CONSTANTS
  Runs,           \* the calls of run() of a behaviour
  Synapses,       \* those of them that are synapse runs, not operators
  Channels,       \* interface:channel pairs on which agents are steered
  Messages,       \* the steer messages, each of them sent at most once
  MaxSynapses,    \* concurrency.max_synapses
  MaxOperators,   \* concurrency.max_operators
  SynapseSteps,   \* concurrency.max_synapse_steps
  OperatorSteps,  \* concurrency.max_operator_steps
  MaxRetries,     \* MAX_RETRIES of both agents
  ExtraCalls,     \* completion calls rig makes beyond max_turns
  MaxTools,       \* bound on the tool calls of one response
  NoChannel, Nobody, NoSignal, WrapUp

ASSUME ConstantsAssumption ==
  /\ IsFiniteSet(Runs)
  /\ Synapses \subseteq Runs
  /\ Nobody \notin Runs
  /\ NoChannel \notin Channels
  /\ NoSignal \notin Messages /\ WrapUp \notin Messages /\ NoSignal # WrapUp
  /\ MaxSynapses \in Nat /\ MaxOperators \in Nat
  /\ SynapseSteps \in Nat /\ OperatorSteps \in Nat
  /\ MaxRetries \in Nat /\ ExtraCalls \in Nat
  /\ MaxTools \in Nat \ {0}

VARIABLES
  pc,         \* where each run is
  caller,     \* the run whose tool call a run serves, or Nobody
  channel,    \* the channel a run was delegated for, or NoChannel
  waiting,    \* per kind, the runs queued at the semaphore, in order
  permits,    \* per kind, the free permits of the semaphore
  registered, \* the keys of the ActiveAgents map
  signal,     \* the latest value of each run's watch channel
  turns,      \* turns_used, the counter the hook shares with the registry
  budget,     \* remaining_turns
  calls,      \* completion calls made by the prompt in progress
  attempt,    \* the retry loop's counter
  tools,      \* tool calls of the latest response not yet run
  published,  \* per run, how often each lifecycle event was published
  applied,    \* AgentSteered events published, per message and run they name
  \* History, which no action reads:
  asked,      \* the latest signal of each run whose sender was told Ok
  raced,      \* was it sent while the run was busy restarting
  sentTo      \* the run that accepted a steer message, or Nobody

queueVars  == <<waiting, permits>>
promptVars == <<budget, calls, attempt, tools>>
history    == <<asked, raced, sentTo>>
vars == <<pc, caller, channel, waiting, permits, registered, signal, turns,
          budget, calls, attempt, tools, published, applied, asked, raced,
          sentTo>>

Kinds  == {"synapse", "operator"}
Events == {"started", "completed", "failed", "interrupted"}
Signals == {NoSignal, WrapUp} \cup Messages

Kind(r)  == IF r \in Synapses THEN "synapse" ELSE "operator"
Limit(k) == IF k = "synapse" THEN MaxSynapses ELSE MaxOperators
Steps(r) == IF r \in Synapses THEN SynapseSteps ELSE OperatorSteps

\* Places of a run that hold a semaphore permit, that are in the registry,
\* and whose watch receiver is alive (run_inner owns it).
Listening  == {"preparing", "prompting", "completing", "tooling",
               "delegating", "steering"}
Present    == Listening \cup {"leaving"}
Holding    == Present \cup {"admitted", "announced"}
Places     == Holding \cup {"idle", "queued", "returned"}

Init ==
  /\ pc = [r \in Runs |-> "idle"]
  /\ caller = [r \in Runs |-> Nobody]
  /\ channel = [r \in Runs |-> NoChannel]
  /\ waiting = [k \in Kinds |-> <<>>]
  /\ permits = [k \in Kinds |-> Limit(k)]
  /\ registered = {}
  /\ signal = [r \in Runs |-> NoSignal]
  /\ turns = [r \in Runs |-> 0]
  /\ budget = [r \in Runs |-> 0]
  /\ calls = [r \in Runs |-> 0]
  /\ attempt = [r \in Runs |-> 0]
  /\ tools = [r \in Runs |-> 0]
  /\ published = [r \in Runs |-> [e \in Events |-> 0]]
  /\ applied = [m \in Messages |-> [r \in Runs |-> 0]]
  /\ asked = [r \in Runs |-> NoSignal]
  /\ raced = [r \in Runs |-> FALSE]
  /\ sentTo = [m \in Messages |-> Nobody]

-----------------------------------------------------------------------------
Goto(r, place) == pc' = [pc EXCEPT ![r] = place]

Publish(r, event) == published' = [published EXCEPT ![r][event] = @ + 1]

\* run() reaches semaphore.acquire(): the run takes its place in the queue.
Enqueue(r) == waiting' = [waiting EXCEPT ![Kind(r)] = Append(@, r)]

\* The permit guard is dropped when run() returns.
Release(r) == permits' = [permits EXCEPT ![Kind(r)] = @ + 1]

\* What AgentHook::check_signal sees.
HookContinues(r) == signal[r] = NoSignal

-----------------------------------------------------------------------------
\* An interface tool delegates a task for channel c.
Delegate(r, c) ==
  /\ pc[r] = "idle"
  /\ pc' = [pc EXCEPT ![r] = "queued"]
  /\ channel' = [channel EXCEPT ![r] = c]
  /\ Enqueue(r)
  /\ UNCHANGED <<caller, permits, registered, signal, turns, promptVars,
                 published, applied, history>>

\* Mutant: the semaphore serves the run that came last.
AcquireLast(r) ==
  LET q == waiting[Kind(r)]
  IN /\ q # <<>> /\ q[Len(q)] = r
     /\ permits[Kind(r)] > 0
     /\ waiting' = [waiting EXCEPT ![Kind(r)] = SubSeq(q, 1, Len(q) - 1)]
     /\ permits' = [permits EXCEPT ![Kind(r)] = @ - 1]
     /\ Goto(r, "admitted")
     /\ UNCHANGED <<caller, channel, registered, signal, turns, promptVars,
                    published, applied, history>>

\* The semaphore is fair: it serves the run that waits longest.
Acquire(r) ==
  /\ pc[r] = "queued"
  /\ waiting[Kind(r)] # <<>> /\ Head(waiting[Kind(r)]) = r
  /\ permits[Kind(r)] > 0
  /\ waiting' = [waiting EXCEPT ![Kind(r)] = Tail(@)]
  /\ permits' = [permits EXCEPT ![Kind(r)] = @ - 1]
  /\ Goto(r, "admitted")
  /\ UNCHANGED <<caller, channel, registered, signal, turns, promptVars,
                 published, applied, history>>

\* Mutant: the error path keeps the permit.
NoNodeLeaksPermit(r) ==
  /\ pc[r] = "admitted" /\ Kind(r) = "operator"
  /\ Goto(r, "returned")
  /\ UNCHANGED <<caller, channel, queueVars, registered, signal, turns,
                 promptVars, published, applied, history>>

\* resolve_node fails: no id, no event and no registration exist yet.
NoNode(r) ==
  /\ pc[r] = "admitted" /\ Kind(r) = "operator"
  /\ Goto(r, "returned")
  /\ Release(r)
  /\ UNCHANGED <<caller, channel, waiting, registered, signal, turns,
                 promptVars, published, applied, history>>

\* SynapseStarted / OperatorStarted goes out before the registration.
Announce(r) ==
  /\ pc[r] = "admitted"
  /\ Goto(r, "announced")
  /\ Publish(r, "started")
  /\ UNCHANGED <<caller, channel, queueVars, registered, signal, turns,
                 promptVars, applied, history>>

Register(r) ==
  /\ pc[r] = "announced"
  /\ Goto(r, "preparing")
  /\ registered' = registered \cup {r}
  /\ signal' = [signal EXCEPT ![r] = NoSignal]
  /\ turns' = [turns EXCEPT ![r] = 0]
  /\ UNCHANGED <<caller, channel, queueVars, promptVars, published, applied,
                 history>>

\* Mutant: `?` leaves run() itself, past the deregistration.
PrepareFailsSkipsDeregister(r) ==
  /\ pc[r] = "preparing"
  /\ Goto(r, "returned")
  /\ Release(r)
  /\ UNCHANGED <<caller, channel, waiting, registered, signal, turns,
                 promptVars, published, applied, history>>

\* Rendering the prompt or creating the client fails: run_inner returns by
\* `?` and publishes nothing.
PrepareFails(r) ==
  /\ pc[r] = "preparing"
  /\ Goto(r, "leaving")
  /\ UNCHANGED <<caller, channel, queueVars, registered, signal, turns,
                 promptVars, published, applied, history>>

PrepareSucceeds(r) ==
  /\ pc[r] = "preparing"
  /\ Goto(r, "prompting")
  /\ budget' = [budget EXCEPT ![r] = Steps(r)]
  /\ UNCHANGED <<caller, channel, queueVars, registered, signal, turns, calls,
                 attempt, tools, published, applied, history>>

-----------------------------------------------------------------------------
\* The prompt ends for good: the event is published and run_inner returns.
Leave(r, event) ==
  /\ Goto(r, "leaving")
  /\ Publish(r, event)

\* The hook's verdict when a signal is pending: PromptCancelled.  A wrap-up
\* ends the run with the partial result; a steer publishes AgentSteered and
\* goes on to reset the signal.  (No other reason can be produced.)
Cancelled(r) ==
  \/ /\ signal[r] = WrapUp
     /\ Leave(r, "interrupted")
     /\ UNCHANGED applied
  \/ /\ signal[r] \in Messages
     /\ Goto(r, "steering")
     /\ applied' = [applied EXCEPT ![signal[r]][r] = @ + 1]
     /\ UNCHANGED published

\* rig finds max_turns exceeded before the hook is asked.
HitLimit(r) ==
  /\ pc[r] = "prompting"
  /\ calls[r] = budget[r] + ExtraCalls
  /\ Leave(r, "completed")
  /\ UNCHANGED <<caller, channel, queueVars, registered, signal, turns,
                 promptVars, applied, history>>

\* on_completion_call counts the turn, then looks at the signal.
CompletionCall(r) ==
  /\ pc[r] = "prompting"
  /\ calls[r] < budget[r] + ExtraCalls
  /\ turns' = [turns EXCEPT ![r] = @ + 1]
  /\ calls' = [calls EXCEPT ![r] = @ + 1]
  /\ IF HookContinues(r)
     THEN Goto(r, "completing") /\ UNCHANGED <<published, applied>>
     ELSE Cancelled(r)
  /\ UNCHANGED <<caller, channel, queueVars, registered, signal, budget,
                 attempt, tools, history>>

\* The model answers with text.
Answer(r) ==
  /\ pc[r] = "completing"
  /\ Leave(r, "completed")
  /\ UNCHANGED <<caller, channel, queueVars, registered, signal, turns,
                 promptVars, applied, history>>

\* The model answers with n tool calls.
AskTools(r, n) ==
  /\ pc[r] = "completing"
  /\ Goto(r, "tooling")
  /\ tools' = [tools EXCEPT ![r] = n]
  /\ UNCHANGED <<caller, channel, queueVars, registered, signal, turns,
                 budget, calls, attempt, published, applied, history>>

\* Mutant: one attempt too many.
TransientErrorOffByOne(r) ==
  /\ pc[r] = "completing" /\ attempt[r] <= MaxRetries
  /\ Goto(r, "prompting")
  /\ attempt' = [attempt EXCEPT ![r] = @ + 1]
  /\ calls' = [calls EXCEPT ![r] = 0]
  /\ UNCHANGED <<caller, channel, queueVars, registered, signal, turns,
                 budget, tools, published, applied, history>>

\* Mutant: every transient error publishes the failure.
TransientErrorReported(r) ==
  /\ pc[r] = "completing" /\ attempt[r] < MaxRetries
  /\ Goto(r, "prompting")
  /\ Publish(r, "failed")
  /\ attempt' = [attempt EXCEPT ![r] = @ + 1]
  /\ calls' = [calls EXCEPT ![r] = 0]
  /\ UNCHANGED <<caller, channel, queueVars, registered, signal, turns,
                 budget, tools, applied, history>>

\* JsonError / ApiResponse: the prompt is started over with a fresh history
\* and the same budget, at most MaxRetries times.
TransientError(r) ==
  /\ pc[r] = "completing"
  /\ \/ /\ attempt[r] < MaxRetries
        /\ Goto(r, "prompting")
        /\ attempt' = [attempt EXCEPT ![r] = @ + 1]
        /\ calls' = [calls EXCEPT ![r] = 0]
        /\ UNCHANGED published
     \/ /\ attempt[r] = MaxRetries
        /\ Leave(r, "failed")
        /\ UNCHANGED <<attempt, calls>>
  /\ UNCHANGED <<caller, channel, queueVars, registered, signal, turns,
                 budget, tools, applied, history>>

\* Any other prompt error.
FatalError(r) ==
  /\ pc[r] = "completing"
  /\ Leave(r, "failed")
  /\ UNCHANGED <<caller, channel, queueVars, registered, signal, turns,
                 promptVars, applied, history>>

-----------------------------------------------------------------------------
AfterTool(r) == IF tools[r] > 1 THEN "tooling" ELSE "prompting"

\* on_tool_call finds a signal.
ToolCancelled(r) ==
  /\ pc[r] = "tooling" /\ ~HookContinues(r)
  /\ Cancelled(r)
  /\ UNCHANGED <<caller, channel, queueVars, registered, signal, turns,
                 promptVars, history>>

\* Mutant: the hook is consulted before completion calls only.
RunToolUnhooked(r) ==
  /\ pc[r] = "tooling"
  /\ Goto(r, AfterTool(r))
  /\ tools' = [tools EXCEPT ![r] = @ - 1]
  /\ UNCHANGED <<caller, channel, queueVars, registered, signal, turns,
                 budget, calls, attempt, published, applied, history>>

\* A tool that involves no other run (files, commands, memory).
RunTool(r) ==
  /\ pc[r] = "tooling" /\ HookContinues(r)
  /\ Goto(r, AfterTool(r))
  /\ tools' = [tools EXCEPT ![r] = @ - 1]
  /\ UNCHANGED <<caller, channel, queueVars, registered, signal, turns,
                 budget, calls, attempt, published, applied, history>>

\* delegate_operator: the synapse waits for operator run o, which is known to
\* no channel.
DelegateOperator(r, o) ==
  /\ pc[r] = "tooling" /\ HookContinues(r)
  /\ Kind(r) = "synapse" /\ Kind(o) = "operator" /\ pc[o] = "idle"
  /\ pc' = [pc EXCEPT ![r] = "delegating", ![o] = "queued"]
  /\ caller' = [caller EXCEPT ![o] = r]
  /\ Enqueue(o)
  /\ UNCHANGED <<channel, permits, registered, signal, turns, promptVars,
                 published, applied, history>>

\* The operator's result (or error, as text) becomes the tool's output.
OperatorReturns(r, o) ==
  /\ pc[r] = "delegating"
  /\ caller[o] = r /\ pc[o] = "returned"
  /\ Goto(r, AfterTool(r))
  /\ caller' = [caller EXCEPT ![o] = Nobody]
  /\ tools' = [tools EXCEPT ![r] = @ - 1]
  /\ UNCHANGED <<channel, queueVars, registered, signal, turns, budget, calls,
                 attempt, published, applied, history>>

-----------------------------------------------------------------------------
\* Mutant: the signal is not reset.
RestartWithoutReset(r) ==
  /\ pc[r] = "steering"
  /\ budget' = [budget EXCEPT ![r] =
                  IF turns[r] < Steps(r) THEN Steps(r) - turns[r] ELSE 1]
  /\ calls' = [calls EXCEPT ![r] = 0]
  /\ attempt' = [attempt EXCEPT ![r] = 0]
  /\ tools' = [tools EXCEPT ![r] = 0]
  /\ Goto(r, "prompting")
  /\ UNCHANGED <<caller, channel, queueVars, registered, signal, turns,
                 published, applied, history>>

\* After AgentSteered: the signal is reset through the registry, whatever it
\* holds by now, and the prompt loop starts over with what is left of the
\* step limit, but at least one step.
Restart(r) ==
  /\ pc[r] = "steering"
  /\ signal' = [signal EXCEPT ![r] = NoSignal]
  /\ budget' = [budget EXCEPT ![r] =
                  IF turns[r] < Steps(r) THEN Steps(r) - turns[r] ELSE 1]
  /\ calls' = [calls EXCEPT ![r] = 0]
  /\ attempt' = [attempt EXCEPT ![r] = 0]
  /\ tools' = [tools EXCEPT ![r] = 0]
  /\ Goto(r, "prompting")
  /\ UNCHANGED <<caller, channel, queueVars, registered, turns, published,
                 applied, history>>

\* run() deregisters and returns, which drops the permit.
Deregister(r) ==
  /\ pc[r] = "leaving"
  /\ registered' = registered \ {r}
  /\ Goto(r, "returned")
  /\ Release(r)
  /\ UNCHANGED <<caller, channel, waiting, signal, turns, promptVars,
                 published, applied, history>>

-----------------------------------------------------------------------------
\* ActiveAgents::signal succeeds for a registered run whose receiver is
\* alive; otherwise the caller gets an error and nothing changes.
Accept(r, s) ==
  /\ r \in registered /\ pc[r] \in Listening
  /\ signal' = [signal EXCEPT ![r] = s]
  /\ asked' = [asked EXCEPT ![r] = s]
  /\ raced' = [raced EXCEPT ![r] = pc[r] = "steering"]
  /\ UNCHANGED <<pc, caller, channel, queueVars, registered, turns,
                 promptVars, published, applied>>

\* POST /agents/{id}/wrap-up
SignalWrapUp(r) ==
  /\ Accept(r, WrapUp)
  /\ UNCHANGED sentTo

\* POST /agents/{id}/steer
SignalSteer(r, m) ==
  /\ sentTo[m] = Nobody
  /\ Accept(r, m)
  /\ sentTo' = [sentTo EXCEPT ![m] = r]

\* Mutant: every listening agent of the channel is told.
SignalChannelAll(c, m) ==
  LET told == {q \in registered : channel[q] = c /\ pc[q] \in Listening}
  IN /\ sentTo[m] = Nobody
     /\ \E r \in told : sentTo' = [sentTo EXCEPT ![m] = r]
     /\ signal' = [r \in Runs |-> IF r \in told THEN m ELSE signal[r]]
     /\ asked' = [r \in Runs |-> IF r \in told THEN m ELSE asked[r]]
     /\ raced' = [r \in Runs |-> IF r \in told THEN pc[r] = "steering"
                                                 ELSE raced[r]]
     /\ UNCHANGED <<pc, caller, channel, queueVars, registered, turns,
                    promptVars, published, applied>>

\* signal_channel: some registered agent of the channel, in map order, gets
\* the message; the others are not tried even if this one no longer listens.
SignalChannel(c, m) ==
  \E r \in registered : channel[r] = c /\ SignalSteer(r, m)

-----------------------------------------------------------------------------
Step(r) ==
  \/ Acquire(r) \/ NoNode(r) \/ Announce(r) \/ Register(r)
  \/ PrepareFails(r) \/ PrepareSucceeds(r)
  \/ HitLimit(r) \/ CompletionCall(r)
  \/ Answer(r) \/ TransientError(r) \/ FatalError(r)
  \/ \E n \in 1..MaxTools : AskTools(r, n)
  \/ ToolCancelled(r) \/ RunTool(r)
  \/ \E o \in Runs : DelegateOperator(r, o) \/ OperatorReturns(r, o)
  \/ Restart(r) \/ Deregister(r)

Environment ==
  \/ \E r \in Runs, c \in Channels : Delegate(r, c)
  \/ \E r \in Runs : SignalWrapUp(r)
  \/ \E r \in Runs, m \in Messages : SignalSteer(r, m)
  \/ \E c \in Channels, m \in Messages : SignalChannel(c, m)

Next == Environment \/ \E r \in Runs : Step(r)

Spec == Init /\ [][Next]_vars

\* Every run keeps being scheduled, and the LLM, the tools and the semaphore
\* answer; nobody is forced to delegate or to signal.
FairSpec == Spec /\ \A r \in Runs : WF_vars(Step(r))
-----------------------------------------------------------------------------
(***************************************************************************)
(* Properties                                                              *)
(***************************************************************************)
TypeOK ==
  /\ pc \in [Runs -> Places]
  /\ caller \in [Runs -> Runs \cup {Nobody}]
  /\ channel \in [Runs -> Channels \cup {NoChannel}]
  /\ waiting \in [Kinds -> Seq(Runs)]
  /\ permits \in [Kinds -> Nat]
  /\ registered \subseteq Runs
  /\ signal \in [Runs -> Signals]
  /\ turns \in [Runs -> Nat]
  /\ budget \in [Runs -> Nat]
  /\ calls \in [Runs -> Nat]
  /\ attempt \in [Runs -> 0..MaxRetries]
  /\ tools \in [Runs -> 0..MaxTools]
  /\ published \in [Runs -> [Events -> Nat]]
  /\ applied \in [Messages -> [Runs -> Nat]]
  /\ asked \in [Runs -> Signals]
  /\ raced \in [Runs -> BOOLEAN]
  /\ sentTo \in [Messages -> Runs \cup {Nobody}]

Holders(k) == {r \in Runs : Kind(r) = k /\ pc[r] \in Holding}

\* No path out of run(), the early errors included, leaks a permit or gives
\* one back twice.
PermitsConserved ==
  \A k \in Kinds : permits[k] + Cardinality(Holders(k)) = Limit(k)

\* "Always deregister": the registry holds a run exactly from its
\* registration until it returns, also when run_inner fails early.
RegistryTracksRuns == registered = {r \in Runs : pc[r] \in Present}

Verdicts(r) == published[r]["completed"] + published[r]["failed"]
                 + published[r]["interrupted"]

\* A subscriber sees each run start once before anything else and sees at
\* most one verdict on it, and only once the run is over.
OneVerdict ==
  \A r \in Runs :
    /\ published[r]["started"] <= 1
    /\ Verdicts(r) <= published[r]["started"]
    /\ Verdicts(r) = 1 => pc[r] \in {"leaving", "returned"}

\* A steer message restarts the run that accepted it, at most once, and no
\* other: the reset before the restart is what keeps the next hook from
\* seeing it again, and nothing but the registry's entry leads it to a run.
SteerAppliedOnce ==
  \A m \in Messages, r \in Runs :
    applied[m][r] <= IF sentTo[m] = r THEN 1 ELSE 0

\* The messages that restarted run r.
Restarts(r) == {m \in Messages : applied[m][r] > 0}

\* What bounds turns_used.  It is more than the limit per task of the
\* documentation (StepsLimited below): each restart and each retry may spend
\* a whole step limit (at least one step) and the library's slack again.
TurnsBounded ==
  \A r \in Runs :
    turns[r] <= (1 + Cardinality(Restarts(r))) * (1 + MaxRetries)
                  * ((IF Steps(r) = 0 THEN 1 ELSE Steps(r)) + ExtraCalls)

\* The run starts another completion call or another tool.
NewWork(r) ==
  \/ pc[r] = "prompting" /\ pc'[r] = "completing"
  \/ pc[r] = "tooling" /\ pc'[r] = "delegating"
  \/ pc[r] = "tooling" /\ tools'[r] < tools[r]

\* A wrap-up that is the latest signal and did not arrive while the run was
\* restarting is never forgotten: the run makes no further completion call
\* and starts no further tool.
WrapUpSticks ==
  [][\A r \in Runs : asked[r] = WrapUp /\ ~raced[r] => ~NewWork(r)]_vars

\* A run that asked for a permit returns in the end: no run waits for ever
\* on the semaphores, on a delegated operator or in the prompt loop.
RunsReturn == \A r \in Runs : pc[r] = "queued" ~> pc[r] = "returned"

\* The semaphore of each kind is a fair pool of the configured size.
SynapsePool == INSTANCE SemaphorePool WITH
  Clients <- Synapses, Size <- MaxSynapses,
  queue <- waiting["synapse"], inside <- Holders("synapse")
OperatorPool == INSTANCE SemaphorePool WITH
  Clients <- Runs \ Synapses, Size <- MaxOperators,
  queue <- waiting["operator"], inside <- Holders("operator")
ImplementsPools == SynapsePool!Spec /\ OperatorPool!Spec

-----------------------------------------------------------------------------
(***************************************************************************)
(* What the source says and the code does not do                           *)
(***************************************************************************)
\* signal.rs:19 on WrapUp, "Gracefully terminate and return partial
\* results.": once a wrap-up is the latest accepted signal no further
\* completion call or tool is started.
WrapUpHonoured ==
  [][\A r \in Runs : asked[r] = WrapUp => ~NewWork(r)]_vars

\* docs/CONFIG.md:27-28, "Max LLM rounds per Synapse task" and "Max tool-use
\* rounds per Operator task": a run makes no more completion calls than its
\* step limit and what the library adds to one prompt.
StepsLimited == \A r \in Runs : turns[r] <= Steps(r) + ExtraCalls
=============================================================================
