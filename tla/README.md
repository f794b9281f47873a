# auxlry in TLA+

auxlry is a daemon that answers chat messages with a hierarchy of LLM agents.
A message travels from an adapter (Discord) over the event bus to a session,
which debounces bursts into batches; the interface agent answers a batch and
may delegate to a synapse agent (reasoning) or an operator agent (actions on a
local or remote node); a synapse may delegate to operators in turn. An HTTP API
shows what is going on and can wrap up or steer a running agent. Remote nodes
connect over QUIC; a CLI starts and stops the daemon and links nodes.

This directory holds TLA+ modules translated from the source, the TLC
configurations that check them on small instances and the proofs TLAPS checks.
`PROJECT.json` maps each definition to the lines it models.

## Inventory

Paths are relative to the repository.

| component | state | operations | interacts with | what is hard |
|---|---|---|---|---|
| Agent runs (`src/synapse/agent.rs`, `src/operator/agent.rs`) | per run: retry counter, remaining turns, history; a semaphore per kind | `run`, `run_inner` | registry, bus, LLM library, nodes | early returns, retries that repeat tools, nested waiting for permits |
| Signals (`src/core/signal.rs`) | `ActiveAgents` map, one watch channel and one turn counter per run | `register`, `deregister`, `signal`, `signal_channel`, hook callbacks | runs, API, interface | a watch channel keeps one value; reset races with new signals; receiver gone before deregistration |
| Session manager (`src/interface/session.rs`) | pending messages per channel, timer tasks, batch channel (64) | `add_message`, timer | bridge, interface | timer against new message, send while holding the mutex |
| Interface agent (`src/interface/agent.rs`, `tools.rs`) | batch in progress, deferred stack | `run`, `process_batch`, `send_response`, delegation tools | session, runs, registry, adapters, database | batches arriving at any await, stack order, retries that delegate again |
| Typing indicator (`src/interface/typing.rs`) | a flag | `start`, drop | adapter | nothing shared |
| Event bus and persister (`src/events`) | broadcast ring (1024), one cursor per subscriber | `publish`, `subscribe`, persister loop | everything | lagging subscribers lose events, failed inserts |
| Daemon (`src/core/daemon.rs`) | tasks, cancellation token, PID file | startup, bridge, shutdown | everything | startup order, bridge blocked by a session, shutdown races |
| Core CLI (`src/cli/core_cmd.rs`) | PID file | `start`, `stop`, `status`, `restart`, `link` | daemon, database | check-then-act on the PID file, bounded wait |
| Nodes, core side (`src/node/handler.rs`, `registry.rs`, `linking.rs`, `remote.rs`) | registry by name, codes and tokens in the database | `handle_connection`, `authenticate`, register/unregister | QUIC, operator runs | a reconnect overlaps the old connection, partial failures of linking |
| Nodes, node side (`src/cli/node_cmd.rs`) | token file, backoff | `start`, `link` | QUIC | which failure ends the node, which one retries |
| Database (`src/storage/database.rs`) | SQLite tables | inserts and queries | everything | second-resolution order, upserts |
| Memory (`src/memory`) | LanceDB rows, metadata and edges in SQLite | store, update, delete, edges, hybrid search | tools, API | two stores without a transaction |
| HTTP API (`src/api/routes.rs`) | none | endpoints | bus, registry, memory, database | signals at any moment |
| Discord adapter (`src/adapters/discord.rs`) | client handle | `message`, `send_message`, `chunk_message` | bus | byte offsets in text |
| Network helpers (`src/network`) | sockets | QUIC endpoints, framing, STUN, TURN | nodes, daemon | external protocols |
| Configuration, prompts, dashboard | none that changes | loading, rendering | - | - |

What makes each correct:

* *Runs and signals*: the registry mirrors the runs; permits are conserved; each
  run starts once and gets one verdict; every run returns; a signal takes effect
  once, or its sender hears that it cannot.
* *Session*: one timer per pending batch, bursts stay together, no message is
  lost, duplicated or reordered, and a batch is flushed in bounded time.
* *Interface*: each batch is answered once or handed to exactly the agent that
  works for its channel; none waits for ever.
* *Bus, bridge and history*: a subscriber that lags loses old events only; what
  the bridge takes enters a session and the messages table once and in order; a
  batch is in the history of its own prompt; Discord shows a reply or a prefix.
* *Nodes*: a code links once; the registry lists the nodes that are connected; a
  node with a valid token comes back after network errors.
* *Daemon and CLI*: one daemon at a time, the PID file names it while it lives;
  commands return and a shutdown completes.
* *Memory*: the two databases agree on every memory whose calls did not fail or
  overlap, and the next call repairs the others; a search returns what fits.

## Modules

| module | models | status |
|---|---|---|
| `AgentRuns` | runs, registry, signals, hook, semaphores, nested delegation | modelled |
| `SemaphorePool` | abstract: a fair pool of a fixed size | refinement target of `AgentRuns` |
| `AgentRunsProofs` | theorems about `AgentRuns` | checked by TLAPS |
| `Session` | debounce and batching | modelled |
| `SessionProofs` | theorems about `Session` | checked by TLAPS |
| `Interface` | the interface agent; EXTENDS `AgentRuns` | modelled |
| `MCInterface` | instances of `Interface` for TLC | |
| `InterfaceProofs` | theorems about `Interface`; EXTENDS `AgentRunsProofs` | checked by TLAPS |
| `NodeLink` | link codes, tokens, connections, the node registry, the reconnect loop | modelled |
| `MCNodeLink` | the instance of `NodeLink` for TLC | |
| `NodeLinkProofs` | theorems about `NodeLink` | checked by TLAPS |
| `Chunking` | `chunk_message` of the Discord adapter, on bytes | modelled |
| `EventPipeline` | broadcast ring, adapter, bridge, messages table, history, delivery; EXTENDS `Chunking` | modelled but for the persister |
| `MCEventPipeline` | instances of `EventPipeline` for TLC | |
| `EventPipelineProofs` | theorems about `EventPipeline` and `Chunking` | checked by TLAPS |
| `Memory` | LanceDB rows, metadata, edges and search; tools, endpoints, context lookup | modelled, scores abstracted |
| `MCMemory` | the instance of `Memory` for TLC | |
| `MemoryProofs` | theorems about `Memory` | checked by TLAPS |
| `Daemon` | PID file, API port, startup, shutdown, crashes; start, stop, status, restart | modelled |
| `DaemonProofs` | theorems about `Daemon` | checked by TLAPS |
| `SequenceLemmas` | lemmas about sequences, and induction | checked by TLAPS |

### AgentRuns

A run is one call of `SynapseAgent::run` or `OperatorAgent::run`. The two
functions have the same shape, so one set of actions models both; `Kind(r)`
decides the semaphore and the step limit. `pc[r]` is the await at which the run
is suspended:

    idle -> queued -> admitted -> announced -> preparing -> prompting
         -> completing -> tooling -> delegating -> ... -> leaving -> returned

with `steering` between the published `AgentSteered` event and the reset of the
signal. Code between two awaits is one action, since nothing else can interfere
there. The variables follow the code: `signal` is the watch channel of each run,
`turns` is `turns_used`, `budget` is `remaining_turns`, `attempt` the counter of
the retry loop, `registered` the keys of the map, `permits` and `waiting` the
two semaphores. `asked`, `raced` and `sentTo` are history: what was the latest
signal whose sender was told Ok, did it arrive during `steering`, and which run
accepted a message. `applied` counts the restarts by message and run.

The LLM library (rig) is external and modelled by what the code relies on: up to
`max_turns` completion calls (`ExtraCalls` more, since versions differ in how
they count) in each prompt, the hook before every call and every tool, the tools
of a response one after another. The model may answer with text, with tool
calls, with a transient or with another error. The branch for an unknown
cancellation reason is left out: the hook produces only `wrap-up` and `steer:`.

### Session

Time is discrete and relative. A session knows the age of its last message (up
to `Debounce`), a timer task how long it still sleeps; a task wakes up to
`Lateness` ticks late. `holder` is the timer that holds the sessions mutex while
its batch waits for room in the channel; while there is one, neither
`add_message` nor another timer proceeds. A session without pending messages
does not exist in the code, so `pending[k] = <<>>` stands for the absent entry.
The comment at session.rs:50, "start/reset the debounce timer", is loose: a
timer is started with the first message and never reset; when it wakes it looks
at the age of the last message and sleeps another window if that is too young.
The model follows the code, and `FlushedInTime` says what comes of it.

### Interface

The composition of the interface loop with the runs. Its batches are the
`Messages` of `AgentRuns`: a batch of the channel in progress goes through
`SignalChannel`, or is deferred when `ChannelRefuses`. Runs advance by
`AgentRuns!Step`; the interface's own completion calls and tools are separate
actions, so that a batch can arrive between any two of them. A run stands for
one delegation, so `Runs` bounds how many delegations a behaviour has.
Storing and delivering a reply may fail in the code, which logs it and goes on:
`Reply` is the end of `send_response` in either case.

### NodeLink

The core's side is one program counter per connection, `handler`: a connection
is authenticated by a code or a token, registered, served, and unregistered when
it ends; a handler that cannot create the workspace is `abandoned`, with its
entry left behind. The node's side is the loop of `node start` (`node`, `using`,
`conn`, `backoff`) and a possible `node link` (`linker`), which is a second
connection under the same name. A connection has two ends (`coreEnd`,
`nodeEnd`): each hears of a close only while packets pass (`path`) and otherwise
finds out by the idle timeout, as late as it likes, so an old handler may
outlive a node's new connection. Codes and tokens are in the database and
survive `CoreStops`; registry and handlers do not. An answer is lost when no
packets pass, or when the close that follows a refusal overtakes it. Requests
served on an authenticated connection change nothing the properties see.

### EventPipeline and Chunking

The way of a message from Discord to a reply there. `log` is everything ever
published; the ring keeps its last `Size` entries, and the bridge's cursor is
`next`. `Take` and `CatchUp` are the two outcomes of `recv`: the latter skips
what the ring has overwritten, which `skipped` remembers. Nodes, runs and the
memory tools publish on the same bus: their events are `"other"`, which take
room in the ring and which the bridge passes over. The daemon publishes
`CoreStarted`, spawns the adapters and only then subscribes the bridge, so
`since` may be later than the first messages. The bridge adds a message to its
session and inserts it afterwards, as two steps; each insertion, query and
delivery may fail. Rows carry the second in which they were inserted, and
`RecentMessages` is the query: the newest rows by second, those of one second in
an order the query leaves open, reversed. The agent's loop is reduced to one
batch at a time (`Interface` has the busy one), its flush to a choice (`Session`
has the timers). A reply is cut by `chunks`, a recursive function over bytes
that yields `Panic` where Rust would panic on a cut inside a character: then the
interface task is `"dead"`, since nothing restarts it. The persister and the
event streams of the API are further subscribers whose effects nothing here
reads; a subscriber does not hold up another.

### Memory

A call of a tool or an endpoint is a sequence of steps, one per statement, since
neither a transaction nor a lock spans them; `calls` has one per caller. The
table has no key, so `rows[id]` is a sequence: two overlapping updates leave two
rows. `Update` deletes and `UpdateAdd` adds the row, `Delete`, `DeleteEdges` and
`DeleteLast` remove a memory from the three tables in turn, and `Fail` ends a
call between two steps. A search takes the vector candidates (`Search`), follows
edges one statement at a time (`Follow`), fetches what it found, filters, cuts
(`Rank`) and records the accesses (`Record`). Similarity, recency and importance
depend on embeddings and on time; the model lets any ranking happen and keeps
who takes part. `Classify` has the order in which the keyword groups are tried;
which group a text matches is given with the text. Ids are what a model or a
client names, which may be deleted or made up. A search asks for one result at
least: what LanceDB answers to a vector search for none is not known from the
source, and a limit whose triple does not fit a `usize` (search.rs:125, where
the multiplication is unchecked) is left out too.

### Daemon

A process is a PID with a phase: `starting` (up to the PID file), `writing` (the
file is truncated, and `orphaned` if somebody removes it before the PID is in
it: the PID then goes to a file without a name), `binding`, `bound` (no signal
handler yet, so SIGTERM kills), `serving`, `draining` (graceful shutdown waits
for the connections), `flushing` (the 100 ms), then `ended` or `failed`; `other`
is another program that got the PID. Only the PID file and `kill(pid, 0)`
connect a command with a daemon, and each access is a step. A background start
runs the program again with `--foreground`, and the child looks at the file
again before it becomes the daemon. The three seconds of `stop` are a choice:
`Wait` may end at any time. `hasty` is history: it is TRUE once a command did
not wait for another one or for a daemon to write its PID, or a stop gave up.
The first half of `link` is `status`.

## Runs

| run | instance | shows |
|---|---|---|
| `AgentRuns` | one synapse, two operators, one permit of each kind, one steer message, one retry, a limit of two steps and of none, two tools per response | registry, events, turn bound and signals stay consistent whatever signal comes when; permits are conserved, the semaphores are fair pools, every run returns |
| `Session` | two channels, three messages, window 2, lateness 1, channel of 1 | one timer per session, bursts together, nothing lost or reordered, flushed in time, all received |
| `Interface` | two channels, three batches, one synapse, one operator, one retry | each batch in one place, answered once or handed to the one agent of its channel, none forgotten |
| `NodeLink` | one node, one code, two connections, two faults (breaks, failures, core restarts) | codes are good once, registry entries have handlers that remove them, a linked node comes back |
| `EventPipeline` | two messages of a configured channel, one of a bot and one of another channel; one event of somebody else, ring of 2, history of 2, two seconds, chunks of 2 bytes, two replies | messages stored in order and once, each batch answered once and in its history, replies shown as prefixes, the bridge survives lags |
| `Memory` | two memories and a third to come, two callers, three writes, one search | the databases agree on undisturbed memories, the next call repairs the others, rows stay bounded, searches are complete |
| `Daemon` | three PIDs, two terminals, three commands | one daemon and a file that names it when nobody is hasty, nothing left behind, every command returns, shutdown completes |
| `AgentRunsWrapUpLost` | one synapse, one steer and a wrap-up | **violation**: a wrap-up accepted during a restart is erased |
| `AgentRunsStepsExceeded` | one synapse, one operator, one step, one retry, no signals | **violation**: a retry spends the step limit again |
| `InterfaceBatchLost` | one synapse, two batches of one channel | **violation**: a batch accepted by an agent that completes without looking is lost |
| `EventPipelineHistory` | as `EventPipeline` | **violation**: the history of messages of one second is reversed |
| `NodeLinkStale` | as `NodeLink` | **violation**: an old handler removes a live node's entry |

Bounds. The steer message may go to any of three runs, meets the one-step floor
of the budget (an operator without steps has only the one it grants) and races
with the wrap-up; that a second message overwrites the first is in
`InterfaceBatchLost`, and the theorems are about any number. Operators that may
take a step unasked are in `Interface`. One operator permit and two operators
make the synapse wait, while holding its own permit, for an operator that waits
behind another. One retry distinguishes the first, a middle and the last
attempt. Three messages in two channels allow a burst, a second timer and a
sender blocked behind another channel's batch; a window of two ticks tells
"young" from "old" within it. Three batches allow one in progress, one steered
or deferred and one of another channel, and two deferred ones in stack order.
`Memory` uses symmetry of the callers, which no definition distinguishes; the
runs with liveness properties use none. Two connections are the least with which
an old and a new one of a node coexist, two faults break a connection and fail
its successor. Connection identifiers are reused when nobody refers to them, so
behaviours have any number of connections; one code issued once leaves out a
second link of the same name. With a ring of two an event of somebody else and a
message overwrite the one the bridge may not have read, and a history of two
rows is full when the reply to the first of two messages is stored; `MaxOthers`
bounds the events of everybody else, which the theorems do not need. The two
replies are one that is cut after a newline and one that is cut inside a
character; that the chunks of any text of up to six bytes join again is an
assumption TLC evaluates (`ChunksOfShortTexts`), and a theorem. Three writes let
two calls overlap on a memory and a third repair what they left; three memories
with two candidates per result let the vector search miss one. Three commands
are a start, a stop or a crash, and the start after it; a PID per command is
enough, since a command starts one daemon at most. The runs of agents disable
the deadlock check, since all runs may have returned and all batches arrived.

Fairness. `AgentRuns`: weak fairness of each run's own step, that is, the tokio
scheduler keeps polling a task and the LLM, the tools and the semaphore answer;
nobody is obliged to delegate or to signal. `Session`: timers, sends, the
receiver and time go on; messages need not come. `Interface`: the two branches
of the select loop are both polled, hence one condition for the loop and one for
the prompt. `NodeLink`: handlers, timeouts and the reconnect loop go on;
connecting has strong fairness, since the model may lack a free identifier where
the code never lacks a connection; nobody needs to restart the core or issue
codes. `EventPipeline`: the bridge goes on, which takes it that `add_message`
returns (`Session`'s `AllReceived`) and that the database answers. `Daemon`:
daemons and commands go on; signals, crashes and clients come and go as they
like, so a client may keep a daemon draining for ever. A model or tool call that
hangs for ever is not considered: the code sets no timeout, so a hanging call
blocks its run, and the interface with it.

## Findings

* **A wrap-up can be erased** (`AgentRunsWrapUpLost`). After a steer the code
  resets the signal by writing `None`, whatever the channel holds by then. A
  wrap-up accepted between the `AgentSteered` event and the reset disappears and
  the run goes on, against signal.rs:19. `WrapUpSticks` shows the rest: a
  wrap-up that is the latest accepted signal and did not arrive during a restart
  is honoured (a later steer message may still overwrite it).
* **The step limit is not one per task** (`AgentRunsStepsExceeded`). A retry
  after a transient error prompts with all remaining turns again, although the
  failed attempt's rounds were made (and its tools run), and each steer grants
  at least one more, against "Max LLM rounds per Synapse task" and "Max tool-use
  rounds per Operator task" (docs/CONFIG.md:27-28, config/loader.rs:88-89).
  `TurnsBounded` shows what bounds the rounds instead.
* **A steered batch can be lost** (`InterfaceBatchLost`). The interface drops a
  batch as soon as the watch channel takes it. If the run makes no further call
  (its answer is on the way, or it is at its step limit), or if a second batch
  overwrites the first, no model ever sees the message and no one answers it,
  against agent.rs:201-202 and signal.rs:21.
* **A connected node can be missing from the registry** (`NodeLinkStale`).
  Handlers unregister by name. The handler of an older connection, such as that
  of the `node link` just done or one whose idle timeout expires after the node
  came back, removes the entry of the newer connection (handler.rs:95), against
  "Connected remote nodes appear here automatically. If only "local" is listed,
  no remote nodes are live." (prompts/en/synapse/default.md.j2:72).
* **History in reverse** (`EventPipelineHistory`). `get_recent_messages` sorts
  by a timestamp of one second's resolution and reverses the rows. Rows of one
  second come from SQLite in the order of their ids, so that the newest is first
  afterwards, against "oldest first" (database.rs:160). `HistoryCoversBatch`
  shows that they are at least there.

What the models do besides, where the code or its docs promise nothing else:

* A reply with a multi-byte character across the 2000th byte of a chunk ends the
  interface task by a panic (discord.rs:135); no batch is answered any more.
* A client that keeps an event stream open keeps a stopping daemon draining.
  `stop` reports success after three seconds, and when the old daemon ends at
  last it removes the PID file of its successor, which no command finds then.
  The same goes for two starts at once. `FileNamesDaemon` says that this takes
  such haste.
* After a crash the PID in the file may be another program's: `start` refuses,
  and `stop` signals that program. A PID file cut short makes every command fail
  until it is removed by hand.
* An update of a memory that was deleted brings back its row, without metadata.

The documentation says of a link code that it "expires in 5 minutes"
(README.md:123). Nothing in the code makes one expire: a code is good until it
is used, and so it is in `NodeLink`. No property depends on it, `OneLinkPerCode`
being an upper bound.

## Proofs

Every theorem is about all values of the constants that satisfy the module's
assumption: any sets of runs, channels, messages, processes, connections or
memories, any limits. The assumptions say that "nobody" and "none" are not among
the values, that bounds are naturals, that `Runs`, `Ids`, `Callers` and
`Messages` are finite where something is counted, and, in `EventPipeline`, that
a message is none of the names of the bus's other events. The bounds of the runs
(writes, issues, faults, commands) are constants too, so that a theorem holds
for behaviours of any length.

| module | theorem | property |
|---|---|---|
| `AgentRunsProofs` | `TypeCorrect` | `TypeOK` |
| | `RegistryExact` | `RegistryTracksRuns` |
| | `PermitsNeverLeak` | `PermitsConserved` |
| | `SteeredAtMostOnce` | `SteerAppliedOnce` |
| | `WrapUpNeverForgotten` | `WrapUpSticks` (action property) |
| | `JudgedAtMostOnce` | `OneVerdict` |
| | `TurnsStayBounded` | `TurnsBounded` |
| | `SemaphoresAreFairPools` | `ImplementsPools` (refinement of `SemaphorePool`) |
| `InterfaceProofs` | `InterfaceRunsAgents` | `InterfaceSpec => Spec` (refinement of `AgentRuns`) |
| | `InterfaceTypes` | `InterfaceTypeOK` |
| | `OneAgentAtATime` | `OneAgentForTheBatch` |
| | `NoBatchIsLost` | `BatchInOnePlace` |
| `SessionProofs` | `SessionTypes` | `TypeOK` |
| | `SessionsHaveOneTimer` | `OneTimerPerSession` |
| | `BurstsAreFlushedWhole` | `BurstsStayTogether` |
| | `BatchesAreFlushedInTime` | `FlushedInTime` |
| | `NoMessageIsLost` | `NothingLost` |
| `EventPipelineProofs` | `ChunksJoin` | what `chunks` computes for every text |
| | `PipelineTypes` | `TypeOK` |
| | `TheBridgeKeepsAccount` | `MessagesAccounted` |
| | `HistoryCoversTheBatch` | `HistoryCoversBatch` |
| | `RepliesArriveInOrder` | `ShownIsPrefix` |
| | `BatchesAreAnsweredOnce` | `AnsweredOnce` |
| `NodeLinkProofs` | `NodeLinkTypes` | `TypeOK` |
| | `CodesAreOneTime` | `OneLinkPerCode` |
| | `RegistryEntriesHaveHandlers` | `EntriesHaveHandlers` |
| `MemoryProofs` | `MemoryTypes` | `TypeOK` |
| | `RowsAreBounded` | `RowsBounded` |
| | `TheDatabasesAgree` | `DatabasesAgree` |
| | `TheNextCallHeals` | `NextCallHeals` (action property) |
| | `ASearchFindsWhatFits` | `SearchFindsWhatFits` (action property) |
| `DaemonProofs` | `DaemonTypes` | `TypeOK` |
| | `TheFileNamesTheDaemon` | `FileNamesDaemon` |
| | `EndedLeavesNothing` | `NothingLeftBehind` |

The arguments, by module; each invariant named here was checked by TLC first.

* `AgentRuns`. `TypeOK` is inductive. `PermitsConserved` needs that a step moves
  one run in or out of `Holders` exactly when it takes or gives back a permit;
  one lemma says that steps which change neither leave it alone.
  `SteerAppliedOnce` is strengthened by what the signal of a run can be in each
  place: a message that is the signal of a run was sent to that run and to no
  other, and has not been applied, except while the run is `steering` and before
  its reset.
  `WrapUpSticks` follows from an invariant that ties `asked` to `signal` as long
  as the latest signal did not race with a restart. `OneVerdict` is strengthened
  by how many verdicts a run has in each place. `TurnsBounded` is not inductive:
  `TurnsInv` bounds the turns by the restarts so far, each worth a full
  round of attempts, and what the current attempt has spent.
* Pools. Each of the two kinds is mapped to a `SemaphorePool` of its own. A step
  of a run touches one pool at most: `PoolAsked`, `PoolEntered` and `PoolLeft`
  say that it is the pool's own step, `PoolsUntouched` that any other step
  stutters. `PoolCounts` needs `PermitsConserved`: the pool has no counter.
* `Interface`. `LoopInv` ties the places of the loop to its variables: no batch
  while it waits, tools left while it runs them, an agent while it delegates.
  With it each step of the loop is one of `AgentRuns` or a stutter.
  `OneAgentForTheBatch` needs that an idle run is bound to no channel.
  `BatchInOnePlace` counts copies: how many a step takes from one place and puts
  into another.
* `Session`. Types and `OneTimerPerSession` are one induction: a timer that
  wakes is the only one of its key. `FlushedInTime` is strengthened by
  `Deadlines`: a timer's sleep ends before its session's deadline, and a session
  has waited no longer than its age. `NothingLost` splits a batch by key and is
  about concatenations, which need the lemmas of `SequenceLemmas`.
* `EventPipeline`. `BusInv` places the cursor between subscription and the end
  of the bus. `OnceInv` says that a message is on the bus once, that the one the
  bridge holds is the last it took, and that it is in no session yet. From these
  follows each step of `TakenInv` and `StoredInv`, the two listings of
  `MessagesAccounted`, which grow by their last element together.
  `HistoryCoversBatch` needs `SettledInv`: all messages of a session but the one
  the bridge is inserting have been inserted or given up, so that a batch waits
  for its last message at most; rows only get more, and so do those as recent.
  `AnsweredOnce` needs that what is in a session was added and, by `OnceInv`,
  only once (`CountInv`): a batch leaves its session with a message of its own.
  `TypeOK` bounds the history, not the bus, which carries any number of events.
* `NodeLink`. `CodesCounted` adds the pending code to the granted tokens.
  `EntriesHaveHandlers` is inductive with the types: the step that finishes a
  handler removes the entry of its name.
* `Memory`. `AloneIsAlone` says who may be beside whom, `CallsProgress` what a
  half-finished call has done by then and can rely on, `UnnamedIsGone` that a
  new id is fresh. `Sound(id)` combines them with `DatabasesAgree` for one
  memory, and a step on another memory leaves it alone.
  `SearchFindsWhatFits` follows from `SearchesGather`: while a search is
  undisturbed nobody writes, what it has found is in the table, and it has found
  every memory (if the vector search saw every row: a ranking of as many rows as
  there are has them all) or its frontier holds a stored memory, from which the
  edges lead to all the others. A memory without rows may be in the frontier
  too, so that the depth is not used up by it.
* `Daemon`. `Orderly` has one command and one process at a time, and what a
  command between two of its steps knows: that the process it looked at is the
  only one, or that there is none, so that nobody removes a file that is being
  written. It holds as long as nobody is hasty.

`chunks` is a recursive function over texts, and `FlattenSeq` recurs over
sequences. An induction theorem that takes an operator cannot be instantiated
here, so `SequenceLemmas` proves `SetInduction`, which is about a set: the
texts, or lengths, for which the claim holds. That `chunks` satisfies the
equation it is defined by is proved first (`ChunksEquation`): the equation has
one solution on the texts of at most `n` bytes, for every `n`.

Only model-checked: all liveness (`RunsReturn`, `AllReceived`,
`EveryBatchHandled`, `NodeComesBack`, `DeadEntriesLeave`, `BridgeCatchesUp`,
`CommandsReturn`, `ShutdownCompletes`), since the temporal prover has no
`ENABLED` and no fairness. Every invariant and every action property of a
passing run is a theorem.

## Plan

1. *Done*: `AgentRuns`, `Session`, `Interface`, `NodeLink`, `EventPipeline` with
   `Chunking`, `Memory`, `Daemon`.
2. *Done*: the theorems above.
3. `NodeLink` with a second link of the same name, and a second node.

## Not modelled

The dashboard, prompt rendering, configuration loading, the typing indicator and
the local node's file and process I/O have no shared state of interest. STUN,
TURN and NAT traversal are socket I/O; apart from STUN discovery at startup,
whose answer is only logged, the daemon does not call them. The persister copies
the bus into a table that only the list of recent events shows. Requests served
on an authenticated node connection change no state of the core. Reading API
endpoints change nothing. Embeddings, scores and the formula of importance are
numbers that nothing bounds; what depends on them is a choice. Contents of
prompts, histories, results and messages are abstracted everywhere.
