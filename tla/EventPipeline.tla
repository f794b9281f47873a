--------------------------- MODULE EventPipeline ---------------------------
(***************************************************************************)
(* The way of a message through the core: from the Discord adapter         *)
(* (adapters/discord.rs) over the event bus (events/bus.rs) to the bridge  *)
(* of core/daemon.rs, from there into the session and the messages table   *)
(* (storage/database.rs), into a prompt with the conversation history      *)
(* (interface/agent.rs), and back as a stored, published and delivered     *)
(* reply.                                                                  *)
(*                                                                         *)
(* The bus is a broadcast ring: a subscriber reads what was published      *)
(* after it subscribed, in order; one that is more than Size events behind *)
(* loses the oldest ones.  The bridge puts a message into the session      *)
(* first and stores it afterwards.  The persister and the event streams of  *)
(* the HTTP API subscribe too; nothing here reads what they write, and a   *)
(* subscriber does not hold up another one, so that they are left out.     *)
(*                                                                         *)
(* Here a session is flushed at any time at which the interface agent is   *)
(* free: Session has the timers, Interface the batches of a busy agent.    *)
(***************************************************************************)
EXTENDS Chunking

CONSTANTS
  Messages,      \* the messages written on Discord, each at most once
  ChannelOf,     \* the channel of each message
  FromBots,      \* the messages whose author is a bot
  Listed,        \* the configured channels; none means every channel
  Replies,       \* the texts the model may answer with, as byte sequences
  Size,          \* capacity of the broadcast ring (1024)
  HistoryLimit,  \* rows of the conversation history (50)
  MaxSecond,     \* rows get their created_at from the seconds 0..MaxSecond
  MaxOthers,     \* bound on the events that nodes, runs and memories publish
  NoMessage

ASSUME PipelineAssumption ==
  /\ IsFiniteSet(Messages)
  /\ Messages \cap {"core_started", "core_stopping", "interface_reply",
                    "other", "reply"} = {}
  /\ FromBots \subseteq Messages
  /\ Replies \subseteq Seq(Byte)
  /\ Size \in Nat \ {0} /\ HistoryLimit \in Nat \ {0} /\ MaxSecond \in Nat
  /\ MaxOthers \in Nat
  /\ NoMessage \notin Messages

VARIABLES
  main,       \* how far run() of the daemon is
  log,        \* everything published on the bus, in order
  next,       \* position in log of the bridge's next event, 0 until it
              \* subscribes
  bridge,     \* where the bridge's loop is
  carried,    \* the message the bridge handles, or NoMessage
  sessions,   \* per channel, the messages not yet flushed
  rows,       \* the messages table, in order of id
  phase,      \* where the interface agent is with its batch
  batch,      \* the messages of its batch
  history,    \* the row ids of the conversation it has read
  reply,      \* the text it sends
  outbox,     \* the chunks of the reply not yet sent
  \* History, which no action reads:
  since,      \* the first position the bridge can see
  skipped,    \* the positions it was too late for
  added,      \* the messages put into sessions, in order
  unsaved,    \* the messages whose insertion failed
  shown       \* what Discord shows of the reply

busVars     == <<log, next, since, skipped>>
bridgeVars  == <<bridge, carried, added, unsaved>>
agentVars   == <<phase, batch, history, reply, outbox, shown>>
vars == <<main, busVars, bridgeVars, sessions,
          rows, agentVars>>

Channels    == {ChannelOf[m] : m \in Messages}
\* The kinds of events; "other" stands for those of nodes, runs and memories.
Event == Messages \cup {"core_started", "core_stopping", "interface_reply",
                        "other"}

Cancelled == main \in {"stopping", "draining"}

Init ==
  /\ main = "starting"
  /\ log = <<>>
  /\ next = 0 /\ since = 0 /\ skipped = {}
  /\ bridge = "off" /\ carried = NoMessage /\ added = <<>> /\ unsaved = {}
  /\ sessions = [c \in Channels |-> <<>>]
  /\ rows = <<>>
  /\ phase = "idle" /\ batch = <<>> /\ history = <<>>
  /\ reply = <<>> /\ outbox = <<>> /\ shown = <<>>

-----------------------------------------------------------------------------
(***************************************************************************)
(* The bus                                                                 *)
(***************************************************************************)
Publish(e) == log' = Append(log, e) /\ UNCHANGED <<next, since, skipped>>

Subscribe ==
  /\ next' = Len(log) + 1 /\ since' = Len(log) + 1
  /\ UNCHANGED <<log, skipped>>

\* The oldest event the ring still has.
Oldest == IF Len(log) > Size THEN Len(log) - Size + 1 ELSE 1

\* recv() answers with the next event.
Take ==
  /\ Oldest <= next /\ next <= Len(log)
  /\ next' = next + 1
  /\ UNCHANGED <<log, since, skipped>>

\* recv() answers Lagged: the receiver goes on at the oldest event kept.
CatchUp ==
  /\ next < Oldest
  /\ next' = Oldest
  /\ skipped' = skipped \cup (next..Oldest - 1)
  /\ UNCHANGED <<log, since>>

-----------------------------------------------------------------------------
(***************************************************************************)
(* run() of the daemon                                                     *)
(***************************************************************************)
\* The persister has subscribed before; the adapters are spawned after it.
CoreStarted ==
  /\ main = "starting"
  /\ main' = "adapting"
  /\ Publish("core_started")
  /\ UNCHANGED bridgeVars

\* The bridge subscribes and is spawned, then the interface agent.
SpawnBridge ==
  /\ main = "adapting"
  /\ main' = "serving"
  /\ Subscribe
  /\ bridge' = "receiving"
  /\ UNCHANGED <<carried, added, unsaved>>

\* A signal cancels the shutdown token; serve() waits for its connections.
Shutdown ==
  /\ main = "serving"
  /\ main' = "stopping"
  /\ UNCHANGED <<busVars, bridgeVars>>

\* serve() has returned.  100 ms later the process ends and with it every
\* task, wherever it is: from here on a behaviour may stop at any state.
CoreStopping ==
  /\ main = "stopping"
  /\ main' = "draining"
  /\ Publish("core_stopping")
  /\ UNCHANGED bridgeVars

DaemonStep ==
  /\ CoreStarted \/ SpawnBridge \/ Shutdown \/ CoreStopping
  /\ UNCHANGED <<sessions, rows, agentVars>>

-----------------------------------------------------------------------------
(***************************************************************************)
(* Discord to bus                                                          *)
(***************************************************************************)
\* A handler that serenity has spawned may outlive the cancelled adapter.
Listening == main # "starting"

Ignored(m) == m \in FromBots \/ (Listed # {} /\ ChannelOf[m] \notin Listed)

\* The message handler; what it ignores changes nothing.
Incoming(m) ==
  /\ Listening
  /\ m \notin ToSet(log) /\ ~Ignored(m)
  /\ Publish(m)

AdapterStep ==
  /\ \E m \in Messages : Incoming(m)
  /\ UNCHANGED <<main, bridgeVars, sessions, rows, agentVars>>

-----------------------------------------------------------------------------
(***************************************************************************)
(* Everybody else who publishes                                            *)
(***************************************************************************)
\* Node handlers, runs and memory tools, which the daemon starts after the
\* bridge, publish on the same bus (NodeConnected, SynapseStarted,
\* AgentSteered, MemoryStored, ..) at any time.
OtherStep ==
  /\ main \notin {"starting", "adapting"}
  /\ Cardinality({p \in DOMAIN log : log[p] = "other"}) < MaxOthers
  /\ Publish("other")
  /\ UNCHANGED <<main, bridgeVars, sessions, rows, agentVars>>

-----------------------------------------------------------------------------
(***************************************************************************)
(* Bus to session and messages table                                       *)
(***************************************************************************)
BridgeTakes ==
  /\ bridge = "receiving"
  /\ Take
  /\ LET e == log[next]
     IN IF e \in Messages THEN bridge' = "adding" /\ carried' = e
                          ELSE UNCHANGED <<bridge, carried>>
  /\ UNCHANGED <<added, unsaved, sessions, rows>>

\* Mutant: Lagged ends the bridge as Closed does.
BridgeLagsEnds ==
  /\ bridge = "receiving"
  /\ CatchUp
  /\ bridge' = "ended"
  /\ UNCHANGED <<carried, added, unsaved, sessions, rows>>

BridgeLags ==
  /\ bridge = "receiving"
  /\ CatchUp
  /\ UNCHANGED <<bridgeVars, sessions, rows>>

\* Mutant: the token cancels the handling of a message as well.
BridgeStopsAnywhere ==
  /\ Cancelled /\ bridge \in {"receiving", "adding", "inserting"}
  /\ bridge' = "ended" /\ carried' = NoMessage
  /\ UNCHANGED <<busVars, added, unsaved, sessions, rows>>

\* The select looks at the token between two events only.
BridgeStops ==
  /\ Cancelled /\ bridge = "receiving"
  /\ bridge' = "ended"
  /\ UNCHANGED <<busVars, carried, added, unsaved, sessions, rows>>

\* add_message
AddMessage ==
  /\ bridge = "adding"
  /\ bridge' = "inserting"
  /\ sessions' = [sessions EXCEPT ![ChannelOf[carried]] = Append(@, carried)]
  /\ added' = Append(added, carried)
  /\ UNCHANGED <<busVars, carried, unsaved, rows>>

\* A row gets the second of the row before it or a later one.
Rows(c, what) ==
  LET now == IF rows = <<>> THEN 0 ELSE Last(rows).second
  IN [channel: {c}, what: {what}, second: now..MaxSecond]

InsertRow(c, what) == \E r \in Rows(c, what) : rows' = Append(rows, r)

\* insert_message(.., "inbound"); a failure is logged only.
InsertInbound ==
  /\ bridge = "inserting"
  /\ \/ InsertRow(ChannelOf[carried], carried) /\ UNCHANGED unsaved
     \/ unsaved' = unsaved \cup {carried} /\ UNCHANGED rows
  /\ bridge' = "receiving" /\ carried' = NoMessage
  /\ UNCHANGED <<busVars, added, sessions>>

BridgeStep ==
  /\ BridgeTakes \/ BridgeLags \/ BridgeStops \/ AddMessage \/ InsertInbound
  /\ UNCHANGED <<main, agentVars>>

-----------------------------------------------------------------------------
(***************************************************************************)
(* Session to reply                                                        *)
(***************************************************************************)
\* Mutant: the session keeps what was flushed.
TakeUpKeeps(c) ==
  /\ phase = "idle" /\ sessions[c] # <<>>
  /\ batch' = sessions[c]
  /\ phase' = "preparing"
  /\ UNCHANGED <<sessions, history, reply, outbox, shown, busVars, rows>>

\* The session of channel c is flushed and taken up by the interface agent.
TakeUp(c) ==
  /\ phase = "idle" /\ sessions[c] # <<>>
  /\ sessions' = [sessions EXCEPT ![c] = <<>>]
  /\ batch' = sessions[c]
  /\ phase' = "preparing"
  /\ UNCHANGED <<history, reply, outbox, shown, busVars, rows>>

RowsOf(c) == {i \in DOMAIN rows : rows[i].channel = c}

\* The possible results of SELECT .. ORDER BY created_at DESC LIMIT n, which
\* leaves open the order of rows of one second.
Newest(c, n) ==
  {s \in UNION {SetToSeqs(S) : S \in SUBSET RowsOf(c)} :
     /\ Len(s) = Min({n, Cardinality(RowsOf(c))})
     /\ \A i, j \in DOMAIN s :
          i < j => rows[s[i]].second >= rows[s[j]].second
     /\ \A i \in RowsOf(c) \ ToSet(s), j \in ToSet(s) :
          rows[i].second <= rows[j].second}

\* get_recent_messages
RecentMessages(c) == {Reverse(s) : s \in Newest(c, HistoryLimit)}

\* Mutant: the LIMIT is forgotten.
LoadHistoryUnlimited ==
  /\ phase = "preparing"
  /\ phase' = "prompting"
  /\ history' \in {Reverse(s) : s \in Newest(ChannelOf[Head(batch)], Len(rows))}
  /\ UNCHANGED <<batch, reply, outbox, shown, busVars, sessions, rows>>

\* Mutant: the query returns what the agent said, and not what it was told.
LoadHistoryOutbound ==
  /\ phase = "preparing"
  /\ phase' = "prompting"
  /\ \E h \in RecentMessages(ChannelOf[Head(batch)]) :
       history' = SelectSeq(h, LAMBDA i : rows[i].what = "reply")
  /\ UNCHANGED <<batch, reply, outbox, shown, busVars, sessions, rows>>

\* process_batch reads the conversation.
LoadHistory ==
  /\ phase = "preparing"
  /\ phase' = "prompting"
  /\ history' \in RecentMessages(ChannelOf[Head(batch)])
  /\ UNCHANGED <<batch, reply, outbox, shown, busVars, sessions, rows>>

\* The query fails: the prompt is made without a history.
LoadHistoryFails ==
  /\ phase = "preparing"
  /\ phase' = "prompting without history"
  /\ UNCHANGED <<batch, history, reply, outbox, shown, busVars, sessions, rows>>

Prompting == phase \in {"prompting", "prompting without history"}

Forget ==
  /\ batch' = <<>> /\ history' = <<>>
  /\ reply' = <<>> /\ outbox' = <<>> /\ shown' = <<>>
Finished == phase' = "idle" /\ Forget
Ended    == phase' = "dead" /\ Forget

\* The model answers.
Answer ==
  /\ Prompting
  /\ phase' = "storing"
  /\ history' = <<>>
  /\ UNCHANGED <<batch, reply, outbox, shown, busVars, sessions, rows>>

\* The prompt fails: the apology, a single short chunk, is delivered but
\* neither stored nor published.
Apologise ==
  /\ Prompting
  /\ Finished
  /\ UNCHANGED <<busVars, sessions, rows>>

\* send_response: insert_message(.., "outbound"); a failure is logged only.
InsertOutbound ==
  /\ phase = "storing"
  /\ phase' = "publishing"
  /\ \/ InsertRow(ChannelOf[Head(batch)], "reply")
     \/ UNCHANGED rows
  /\ UNCHANGED <<batch, history, reply, outbox, shown, busVars, sessions>>

\* send_response publishes the reply, a text t, and calls send_message: that
\* fails as long as ready() has not set the client, else it cuts all chunks;
\* a panic ends the agent's task.
PublishReply(t) ==
  /\ phase = "publishing"
  /\ Publish("interface_reply")
  /\ \/ Finished
     \/ Panics(t) /\ Ended
     \/ /\ ~Panics(t)
        /\ phase' = "sending"
        /\ reply' = t
        /\ outbox' = chunks[t]
        /\ UNCHANGED <<batch, history, shown>>
  /\ UNCHANGED <<sessions, rows>>

\* Mutant: after a failure the next chunk is sent.
SendChunkGoesOn ==
  /\ phase = "sending" /\ outbox # <<>>
  /\ \/ shown' = shown \o Head(outbox)
     \/ UNCHANGED shown
  /\ outbox' = Tail(outbox)
  /\ UNCHANGED <<phase, batch, history, reply, busVars, sessions, rows>>

\* One chunk after the other; the first failure gives up the rest.
SendChunk ==
  /\ phase = "sending" /\ outbox # <<>>
  /\ \/ /\ shown' = shown \o Head(outbox)
        /\ outbox' = Tail(outbox)
        /\ UNCHANGED <<phase, batch, history, reply>>
     \/ Finished
  /\ UNCHANGED <<busVars, sessions, rows>>

Sent ==
  /\ phase = "sending" /\ outbox = <<>>
  /\ Finished
  /\ UNCHANGED <<busVars, sessions, rows>>

\* The cancelled token drops run() wherever it waits.
AgentStops ==
  /\ Cancelled
  /\ Ended
  /\ UNCHANGED <<busVars, sessions, rows>>

AgentStep ==
  /\ bridge # "off" /\ phase # "dead"
  /\ \/ \E c \in Channels : TakeUp(c)
     \/ LoadHistory \/ LoadHistoryFails
     \/ Answer \/ Apologise \/ InsertOutbound
     \/ \E t \in Replies : PublishReply(t)
     \/ SendChunk \/ Sent \/ AgentStops
  /\ UNCHANGED <<main, bridgeVars>>

-----------------------------------------------------------------------------
Next == DaemonStep \/ AdapterStep \/ OtherStep \/ BridgeStep \/ AgentStep

Spec == Init /\ [][Next]_vars

\* The bridge keeps being scheduled and the database answers it.
FairSpec == Spec /\ WF_vars(BridgeStep)

-----------------------------------------------------------------------------
(***************************************************************************)
(* Properties                                                              *)
(***************************************************************************)
\* Every variable has its type; a history has no more rows than its limit.
TypeOK ==
  /\ main \in {"starting", "adapting", "serving", "stopping", "draining"}
  /\ log \in Seq(Event)
  /\ next \in Nat /\ since \in 0..next /\ skipped \subseteq Nat
  /\ bridge \in {"off", "receiving", "adding", "inserting", "ended"}
  /\ carried \in Messages \cup {NoMessage}
  /\ added \in Seq(Messages) /\ unsaved \subseteq Messages
  /\ sessions \in [Channels -> Seq(Messages)]
  /\ rows \in Seq([channel: Channels, what: Messages \cup {"reply"},
                   second: 0..MaxSecond])
  /\ phase \in {"idle", "preparing", "prompting", "prompting without history",
                "storing", "publishing", "sending", "dead"}
  /\ batch \in Seq(Messages)
  /\ history \in Seq(DOMAIN rows) /\ Len(history) <= HistoryLimit
  /\ reply \in Replies \cup {<<>>}
  /\ outbox \in Seq(Seq(Byte)) /\ shown \in Seq(Byte)

Increasing(s) == \A i, j \in DOMAIN s : i < j => s[i] < s[j]

\* The n-th position of I, counted from the left, has rank n.
Rank(I, i) == Cardinality({j \in I : j <= i})

\* The elements of s at the positions I are those of t at J, in order.
SameListing(s, I, t, J) ==
  /\ Cardinality(I) = Cardinality(J)
  /\ \A i \in I, j \in J : Rank(I, i) = Rank(J, j) => s[i] = t[j]

\* The positions of the messages the bridge has taken from the bus, ..
Forwarded ==
  {p \in since..(next - 1) : p \notin skipped /\ log[p] \in Messages}
\* .. of the inbound rows of the messages table ..
Inbound == {i \in DOMAIN rows : rows[i].what \in Messages}
\* .. and of what was put into a session and should be in the table by now.
Stored ==
  {i \in DOMAIN added :
     /\ added[i] \notin unsaved
     /\ ~(bridge = "inserting" /\ added[i] = carried)}

\* What the bridge has taken from the bus is in the sessions, in order, and
\* in the messages table, in the same order and once; only the message in its
\* hands and those whose insertion failed are not.  A shutdown stops it
\* between two messages, never within one, and it is never too late for one
\* of the last Size events.
MessagesAccounted ==
  LET entered == IF bridge = "adding" THEN Append(added, carried) ELSE added
      contents == [i \in DOMAIN rows |-> rows[i].what]
  IN /\ SameListing(log, Forwarded, entered, DOMAIN entered)
     /\ SameListing(contents, Inbound, added, Stored)
     /\ \A p \in skipped : p + Size <= Len(log)

\* A prompt's history has every message of its batch but possibly the last
\* one, which the bridge may not have stored yet: any other one is missing
\* only if its insertion failed or HistoryLimit rows are as recent.
HistoryCoversBatch ==
  phase = "prompting" =>
    \A i \in 1..(Len(batch) - 1) :
      \/ batch[i] \in unsaved
      \/ \E j \in DOMAIN rows :
           /\ rows[j].what = batch[i]
           /\ \/ j \in ToSet(history)
              \/ HistoryLimit <= Cardinality(
                   {k \in RowsOf(ChannelOf[batch[i]]) \ {j} :
                      rows[k].second >= rows[j].second})

\* While a reply is sent, what Discord shows and what is still to come is the
\* reply, in chunks of at most MaxLen bytes none of which is empty: a failure
\* leaves a prefix, and nothing is repeated or left out.
ShownIsPrefix ==
  phase = "sending" =>
    /\ shown \o FlattenSeq(outbox) = reply
    /\ \A i \in DOMAIN outbox :
         Len(outbox[i]) <= MaxLen /\ (outbox[i] = <<>> => reply = <<>>)

\* The positions of the replies on the bus, ..
ReplyAt == {p \in 1..Len(log) : log[p] = "interface_reply"}
\* .. the messages that have left the sessions ..
Consumed == {m \in ToSet(added) : m \notin ToSet(sessions[ChannelOf[m]])}
\* .. and the batch that has no reply yet.
Busy == phase \in {"preparing", "prompting", "prompting without history",
                   "storing", "publishing"}

\* No message is answered twice: each reply, and the batch in progress, has
\* a message of its own that has left its session.
AnsweredOnce ==
  Cardinality(ReplyAt) + (IF Busy THEN 1 ELSE 0) <= Cardinality(Consumed)

\* Until the daemon stops the bridge catches up with the bus again and again:
\* a lag costs messages but does not end it.
BridgeCatchesUp == []<>(bridge = "off" \/ next > Len(log) \/ Cancelled)

-----------------------------------------------------------------------------
(***************************************************************************)
(* What the source says and the code does not do                           *)
(***************************************************************************)
\* database.rs:160 says "oldest first": the history is in the order in which
\* the rows were inserted.
OldestFirst == Increasing(history)
=============================================================================
