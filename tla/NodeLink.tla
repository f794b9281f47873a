----------------------------- MODULE NodeLink ------------------------------
(***************************************************************************)
(* Remote nodes: linking with one-time codes, authentication, the registry *)
(* of connected nodes and the node's reconnect loop (node/handler.rs,      *)
(* node/registry.rs, node/linking.rs, cli/node_cmd.rs, core link).         *)
(*                                                                         *)
(* A connection has two ends that learn of its end independently: by the   *)
(* peer's close frame ("closed") or by an error such as the idle timeout   *)
(* ("lost"), the latter as late as it likes once no packet passes.  QUIC   *)
(* is external; faults are bounded by MaxFaults, connection identifiers    *)
(* are reused once nobody refers to them.                                  *)
(***************************************************************************)
EXTENDS Naturals, FiniteSets, Functions

CONSTANTS
  Nodes,       \* node names
  Codes,       \* link codes
  Tokens,      \* node tokens
  Conns,       \* connection identifiers
  BackoffMax,  \* BACKOFF_MAX, in units of BACKOFF_INITIAL
  MaxFaults,   \* bound on faults and core restarts
  MaxIssues,   \* bound on the codes issued
  NoNode, NoToken, NoConn, NoMessage, Refused

ASSUME NodeLinkAssumption ==
  /\ BackoffMax \in Nat \ {0} /\ MaxFaults \in Nat /\ MaxIssues \in Nat
  /\ NoNode \notin Nodes /\ NoToken \notin Tokens /\ NoConn \notin Conns

VARIABLES
  \* Core, persistent:
  codes,     \* pending_link_codes
  tokens,    \* node_tokens
  \* Core, lost at a restart:
  up,        \* is the core running
  handler,   \* per connection, where handle_connection is
  peer,      \* the name its node authenticated as
  registry,  \* per name, the connection of the registered RemoteNode
  \* Connections:
  path,      \* do packets pass
  coreEnd,   \* what the core knows of the connection
  nodeEnd,   \* what the node knows of it; "gone": dropped by the node
  request,   \* the authentication message
  response,  \* the core's answer, if it reached the node
  \* Nodes:
  file,      \* the token file
  linker,    \* the connection of a running `node link`, or NoConn
  node,      \* where `node start` is
  using,     \* the token it read when it started
  conn,      \* its connection, or NoConn
  backoff,   \* the delay before the next attempt
  \* Bounds and history:
  faults,
  issued,    \* per code, how often it was issued
  granted    \* per code, how many tokens were granted for it

coreVars == <<codes, tokens, up, handler, peer, registry>>
wireVars == <<path, coreEnd, nodeEnd, request, response>>
nodeVars == <<file, linker, node, using, conn, backoff>>
vars == <<coreVars, wireVars, nodeVars, faults, issued, granted>>

Phases == {"none", "authenticating", "authenticated", "registered",
           "serving", "closing", "abandoned", "done"}
Trying == {"connecting", "authenticating", "sleeping"}

CodeAuth(k, n) == [kind |-> "code", code |-> k, node |-> n]
TokenAuth(t)   == [kind |-> "token", token |-> t]
Accepted(t)    == [kind |-> "accepted", token |-> t]

Requests  == {CodeAuth(k, n) : k \in Codes, n \in Nodes}
               \cup {TokenAuth(t) : t \in Tokens} \cup {NoMessage}
Responses == {Accepted(t) : t \in Tokens \cup {NoToken}}
               \cup {Refused, NoMessage}

Init ==
  /\ codes = {} /\ tokens = [n \in Nodes |-> NoToken]
  /\ up = TRUE
  /\ handler = [c \in Conns |-> "none"]
  /\ peer = [c \in Conns |-> NoNode]
  /\ registry = [n \in Nodes |-> NoConn]
  /\ path = [c \in Conns |-> FALSE]
  /\ coreEnd = [c \in Conns |-> "open"] /\ nodeEnd = [c \in Conns |-> "open"]
  /\ request = [c \in Conns |-> NoMessage]
  /\ response = [c \in Conns |-> NoMessage]
  /\ file = [n \in Nodes |-> NoToken] /\ using = [n \in Nodes |-> NoToken]
  /\ linker = [n \in Nodes |-> NoConn] /\ conn = [n \in Nodes |-> NoConn]
  /\ node = [n \in Nodes |-> "off"]
  /\ backoff = [n \in Nodes |-> 1]
  /\ faults = 0
  /\ issued = [k \in Codes |-> 0] /\ granted = [k \in Codes |-> 0]

Put(f, x, v) == [f EXCEPT ![x] = v]

Fault == faults < MaxFaults /\ faults' = faults + 1
NoFault == UNCHANGED faults

Unused(c) ==
  /\ handler[c] \in {"none", "abandoned", "done"}
  /\ c \notin Range(registry) \cup Range(linker) \cup Range(conn)

\* Which identifier or token is taken does not matter.
FreshConn == CHOOSE c \in Conns : Unused(c)

UnusedTokens == Tokens \ (Range(tokens) \cup Range(file) \cup Range(using))
FreshToken == CHOOSE t \in UnusedTokens : TRUE

\* The statements on pending_link_codes and node_tokens, a row per name.
StorePendingCode(k)   == codes' = codes \cup {k}
ConsumePendingCode(k) == codes' = codes \ {k}
StoreToken(n, t)      == tokens' = Put(tokens, n, t)
OwnersOf(t)           == {n \in Nodes : tokens[n] = t}

\* The token file of a node.
StoreTokenFile(n, t) == file' = Put(file, n, t)
TokenFileReads(n)    == file[n] # NoToken

\* The registry keeps one RemoteNode per name, the last one.
RegisterNode(n, c) == registry' = Put(registry, n, c)
UnregisterNode(n)  == registry' = Put(registry, n, NoConn)

\* A QUIC connection is established and the node sends its first message.
Open(c, message) ==
  /\ up /\ \E free \in Conns : Unused(free)
  /\ handler' = Put(handler, c, "authenticating")
  /\ peer' = Put(peer, c, NoNode)
  /\ path' = Put(path, c, TRUE)
  /\ coreEnd' = Put(coreEnd, c, "open")
  /\ nodeEnd' = Put(nodeEnd, c, "open")
  /\ request' = Put(request, c, message)
  /\ response' = Put(response, c, NoMessage)
  /\ UNCHANGED <<codes, tokens, up, registry>>

\* The core closes the connection; the node hears of it while packets pass.
CoreCloses(c) ==
  nodeEnd' = IF path[c] /\ nodeEnd[c] = "open"
             THEN Put(nodeEnd, c, "closed") ELSE nodeEnd

\* The core answers; the answer arrives if packets pass.
CoreAnswers(c, message) ==
  response' = IF path[c] THEN Put(response, c, message) ELSE response

-----------------------------------------------------------------------------
\* `core link` stores a new pending code.
IssueCode(k) ==
  /\ up /\ k \notin codes
  /\ issued[k] < MaxIssues
  /\ StorePendingCode(k)
  /\ issued' = [issued EXCEPT ![k] = @ + 1]
  /\ UNCHANGED <<tokens, up, handler, peer, registry, wireVars, nodeVars,
                 faults, granted>>

\* `node link` connects and sends the code it was given.
Link(n, k) ==
  /\ linker[n] = NoConn
  /\ Open(FreshConn, CodeAuth(k, n))
  /\ linker' = Put(linker, n, FreshConn)
  /\ UNCHANGED <<file, node, using, conn, backoff, faults, issued, granted>>

\* It is accepted, writes the token file and exits, dropping the connection.
LinkSucceeds(n) ==
  /\ linker[n] # NoConn
  /\ LET c == linker[n]
     IN /\ response[c] \in {Accepted(t) : t \in Tokens}
        /\ StoreTokenFile(n, response[c].token)
        /\ nodeEnd' = Put(nodeEnd, c, "gone")
  /\ linker' = Put(linker, n, NoConn)
  /\ UNCHANGED <<coreVars, path, coreEnd, request, response, node, using, conn,
                 backoff, faults, issued, granted>>

\* It is refused, the connection ends, the file cannot be written or the
\* user interrupts it.
LinkFails(n) ==
  /\ linker[n] # NoConn
  /\ nodeEnd' = Put(nodeEnd, linker[n], "gone")
  /\ linker' = Put(linker, n, NoConn)
  /\ UNCHANGED <<coreVars, path, coreEnd, request, response, file, node, using,
                 conn, backoff, faults, issued, granted>>

-----------------------------------------------------------------------------
\* Fails before or while sending the refusal: the handler closes at once, and
\* the close may overtake the answer.
Refuse(c) ==
  /\ handler' = Put(handler, c, "done")
  /\ CoreAnswers(c, Refused) \/ UNCHANGED response
  /\ CoreCloses(c)

\* Mutant: the code is looked up but not deleted.
AuthenticateCodeKeepsCode(c) ==
  /\ handler[c] = "authenticating" /\ request[c].kind = "code"
  /\ LET k == request[c].code
         n == request[c].node
     IN \/ /\ k \notin codes
           /\ Refuse(c)
           /\ NoFault
           /\ UNCHANGED <<codes, tokens, peer, granted>>
        \/ /\ k \in codes
           /\ UnusedTokens # {}
           /\ StoreToken(n, FreshToken)
           /\ CoreAnswers(c, Accepted(FreshToken))
           /\ granted' = [granted EXCEPT ![k] = @ + 1]
           /\ handler' = Put(handler, c, "authenticated")
           /\ peer' = Put(peer, c, n)
           /\ NoFault
           /\ UNCHANGED <<codes, nodeEnd>>
  /\ UNCHANGED <<up, registry, path, coreEnd, request, nodeVars, issued>>

\* AuthRequest: the code is consumed, a new token stored and sent.  An error
\* of the lookup counts as an unknown code.  If the token cannot be stored the
\* code is spent all the same; if the connection is known to be dead the token
\* is stored but the handler gives up.
AuthenticateCode(c) ==
  /\ handler[c] = "authenticating" /\ request[c].kind = "code"
  /\ LET k == request[c].code
         n == request[c].node
     IN \/ /\ IF k \in codes THEN Fault ELSE NoFault
           /\ Refuse(c)
           /\ UNCHANGED <<codes, tokens, peer, granted>>
        \/ /\ k \in codes
           /\ ConsumePendingCode(k)
           /\ UnusedTokens # {}
           /\ StoreToken(n, FreshToken)
           /\ CoreAnswers(c, Accepted(FreshToken))
           /\ granted' = [granted EXCEPT ![k] = @ + 1]
           /\ handler' = Put(handler, c, IF coreEnd[c] = "open"
                                         THEN "authenticated" ELSE "done")
           /\ peer' = Put(peer, c, n)
           /\ NoFault
           /\ UNCHANGED nodeEnd
        \/ /\ k \in codes
           /\ ConsumePendingCode(k)
           /\ handler' = Put(handler, c, "done")
           /\ CoreCloses(c)
           /\ Fault
           /\ UNCHANGED <<tokens, peer, response, granted>>
  /\ UNCHANGED <<up, registry, path, coreEnd, request, nodeVars, issued>>

\* TokenAuth: the token decides the name.  An error of the lookup counts as
\* an unknown token.
AuthenticateToken(c) ==
  /\ handler[c] = "authenticating" /\ request[c].kind = "token"
  /\ LET owners == OwnersOf(request[c].token)
     IN \/ /\ IF owners = {} THEN NoFault ELSE Fault
           /\ Refuse(c)
           /\ UNCHANGED peer
        \/ \E n \in owners :
             /\ handler' = Put(handler, c, IF coreEnd[c] = "open"
                                           THEN "authenticated" ELSE "done")
             /\ peer' = Put(peer, c, n)
             /\ CoreAnswers(c, Accepted(NoToken))
             /\ NoFault
             /\ UNCHANGED nodeEnd
  /\ UNCHANGED <<codes, tokens, up, registry, path, coreEnd, request, nodeVars,
                 issued, granted>>

\* The connection ends before the first message is complete.
AuthenticateFails(c) ==
  /\ handler[c] = "authenticating" /\ coreEnd[c] # "open"
  /\ handler' = Put(handler, c, "done")
  /\ UNCHANGED <<codes, tokens, up, peer, registry, wireVars, nodeVars, faults,
                 issued, granted>>

\* The RemoteNode replaces whatever is registered under the name.
Register(c) ==
  /\ handler[c] = "authenticated"
  /\ handler' = Put(handler, c, "registered")
  /\ RegisterNode(peer[c], c)
  /\ UNCHANGED <<codes, tokens, up, peer, wireVars, nodeVars, faults, issued,
                 granted>>

\* NodeConnected is published and the workspace created; if that fails the
\* handler closes the connection and returns, leaving the registry alone:
\* "abandoned".
Serve(c) ==
  /\ handler[c] = "registered"
  /\ \/ /\ handler' = Put(handler, c, "serving")
        /\ NoFault
        /\ UNCHANGED nodeEnd
     \/ /\ handler' = Put(handler, c, "abandoned")
        /\ CoreCloses(c)
        /\ Fault
  /\ UNCHANGED <<codes, tokens, up, peer, registry, path, coreEnd, request,
                 response, nodeVars, issued, granted>>

\* Mutant: an error of the connection returns instead of leaving the loop.
ServeEndsReturns(c) ==
  /\ handler[c] = "serving" /\ coreEnd[c] # "open"
  /\ handler' = Put(handler, c, IF coreEnd[c] = "closed" THEN "closing"
                                                         ELSE "done")
  /\ UNCHANGED <<codes, tokens, up, peer, registry, wireVars, nodeVars, faults,
                 issued, granted>>

\* accept_bi fails: the protocol loop ends.
ServeEnds(c) ==
  /\ handler[c] = "serving" /\ coreEnd[c] # "open"
  /\ handler' = Put(handler, c, "closing")
  /\ UNCHANGED <<codes, tokens, up, peer, registry, wireVars, nodeVars, faults,
                 issued, granted>>

\* Mutant: the registry is left as it is.
UnregisterForgets(c) ==
  /\ handler[c] = "closing"
  /\ handler' = Put(handler, c, "done")
  /\ UNCHANGED <<codes, tokens, up, peer, registry, wireVars, nodeVars, faults,
                 issued, granted>>

\* The name is unregistered, whichever connection it stands for by now, and
\* NodeDisconnected published.
Unregister(c) ==
  /\ handler[c] = "closing"
  /\ handler' = Put(handler, c, "done")
  /\ UnregisterNode(peer[c])
  /\ UNCHANGED <<codes, tokens, up, peer, wireVars, nodeVars, faults, issued,
                 granted>>

-----------------------------------------------------------------------------
\* `node start` reads the token file.
Start(n) ==
  /\ node[n] = "off" /\ TokenFileReads(n)
  /\ node' = Put(node, n, "connecting")
  /\ using' = Put(using, n, file[n])
  /\ backoff' = Put(backoff, n, 1)
  /\ UNCHANGED <<coreVars, wireVars, file, linker, conn, faults, issued,
                 granted>>

Connect(n) ==
  /\ node[n] = "connecting"
  /\ Open(FreshConn, TokenAuth(using[n]))
  /\ conn' = Put(conn, n, FreshConn)
  /\ node' = Put(node, n, "authenticating")
  /\ UNCHANGED <<file, linker, using, backoff, faults, issued, granted>>

ConnectFails(n) ==
  /\ node[n] = "connecting"
  /\ IF up THEN Fault ELSE NoFault
  /\ node' = Put(node, n, "sleeping")
  /\ UNCHANGED <<coreVars, wireVars, file, linker, using, conn, backoff, issued,
                 granted>>

\* The answer: the protocol loop starts, or the node gives up.
Answered(n) ==
  /\ node[n] = "authenticating"
  /\ LET c == conn[n]
     IN \/ /\ response[c] = Accepted(NoToken)
           /\ node' = Put(node, n, "serving")
           /\ backoff' = Put(backoff, n, 1)
           /\ UNCHANGED <<conn, nodeEnd>>
        \/ /\ response[c] = Refused
           /\ node' = Put(node, n, "off")
           /\ conn' = Put(conn, n, NoConn)
           /\ nodeEnd' = Put(nodeEnd, c, "gone")
           /\ UNCHANGED backoff
  /\ UNCHANGED <<coreVars, path, coreEnd, request, response, file, linker,
                 using, faults, issued, granted>>

\* Mutant: only the protocol loop notices that the connection has ended.
ConnectionEndsServing(n) ==
  /\ node[n] = "serving"
  /\ LET c == conn[n]
     IN /\ nodeEnd[c] \in {"closed", "lost"}
        /\ node' = Put(node, n, IF nodeEnd[c] = "closed" THEN "off"
                                                        ELSE "sleeping")
  /\ conn' = Put(conn, n, NoConn)
  /\ UNCHANGED <<coreVars, wireVars, file, linker, using, backoff, faults,
                 issued, granted>>

\* The connection ends under the node: it sleeps before the next attempt, or
\* exits if it was serving and the core closed in an orderly way.
ConnectionEnds(n) ==
  /\ node[n] \in {"authenticating", "serving"}
  /\ LET c == conn[n]
     IN /\ nodeEnd[c] \in {"closed", "lost"}
        /\ node' = Put(node, n, IF node[n] = "serving" /\ nodeEnd[c] = "closed"
                                THEN "off" ELSE "sleeping")
  /\ conn' = Put(conn, n, NoConn)
  /\ UNCHANGED <<coreVars, wireVars, file, linker, using, backoff, faults,
                 issued, granted>>

\* Mutant: the delay doubles without a cap.
WakeUncapped(n) ==
  /\ node[n] = "sleeping"
  /\ node' = Put(node, n, "connecting")
  /\ backoff' = [backoff EXCEPT ![n] = 2 * @]
  /\ UNCHANGED <<coreVars, wireVars, file, linker, using, conn, faults, issued,
                 granted>>

\* The delay is over; it doubles up to BackoffMax.
Wake(n) ==
  /\ node[n] = "sleeping"
  /\ node' = Put(node, n, "connecting")
  /\ backoff' = [backoff EXCEPT ![n] = IF 2 * @ < BackoffMax THEN 2 * @
                                                             ELSE BackoffMax]
  /\ UNCHANGED <<coreVars, wireVars, file, linker, using, conn, faults, issued,
                 granted>>

\* The node's process is stopped.
NodeStops(n) ==
  /\ node[n] # "off"
  /\ node' = Put(node, n, "off")
  /\ conn' = Put(conn, n, NoConn)
  /\ nodeEnd' = IF conn[n] = NoConn THEN nodeEnd
                ELSE Put(nodeEnd, conn[n], "gone")
  /\ UNCHANGED <<coreVars, path, coreEnd, request, response, file, linker,
                 using, backoff, faults, issued, granted>>

-----------------------------------------------------------------------------
\* Packets stop passing; neither end notices at once.
Break(c) ==
  /\ path[c] /\ handler[c] # "none"
  /\ path' = Put(path, c, FALSE)
  /\ Fault
  /\ UNCHANGED <<coreVars, coreEnd, nodeEnd, request, response, nodeVars,
                 issued, granted>>

\* The node's close frame, or the idle timeout, reaches the handler.
CoreNotices(c) ==
  /\ handler[c] \notin {"none", "abandoned", "done"} /\ coreEnd[c] = "open"
  /\ \/ /\ nodeEnd[c] = "gone" /\ path[c]
        /\ coreEnd' = Put(coreEnd, c, "closed")
     \/ /\ nodeEnd[c] = "gone" \/ ~path[c]
        /\ coreEnd' = Put(coreEnd, c, "lost")
  /\ UNCHANGED <<coreVars, path, nodeEnd, request, response, nodeVars, faults,
                 issued, granted>>

NodeNotices(c) ==
  /\ handler[c] # "none" /\ nodeEnd[c] = "open" /\ ~path[c]
  /\ nodeEnd' = Put(nodeEnd, c, "lost")
  /\ UNCHANGED <<coreVars, path, coreEnd, request, response, nodeVars, faults,
                 issued, granted>>

\* The core stops or crashes: its close frames reach the nodes of told.
CoreStops(told) ==
  /\ up /\ Fault
  /\ up' = FALSE
  /\ handler' = [c \in Conns |-> IF handler[c] = "none" THEN "none" ELSE "done"]
  /\ registry' = [n \in Nodes |-> NoConn]
  /\ nodeEnd' = [c \in Conns |-> IF c \in told /\ path[c] /\ nodeEnd[c] = "open"
                                 THEN "closed" ELSE nodeEnd[c]]
  /\ path' = [c \in Conns |-> FALSE]
  /\ UNCHANGED <<codes, tokens, peer, coreEnd, request, response, nodeVars,
                 issued, granted>>

CoreStarts ==
  /\ ~up
  /\ up' = TRUE
  /\ UNCHANGED <<codes, tokens, handler, peer, registry, wireVars, nodeVars,
                 faults, issued, granted>>

-----------------------------------------------------------------------------
HandlerStep(c) ==
  \/ AuthenticateCode(c) \/ AuthenticateToken(c) \/ AuthenticateFails(c)
  \/ Register(c) \/ Serve(c) \/ ServeEnds(c) \/ Unregister(c)

\* What the reconnect loop does by itself, besides connecting.
NodeStep(n) == Answered(n) \/ ConnectionEnds(n) \/ Wake(n)

Next ==
  \/ \E k \in Codes : IssueCode(k)
  \/ \E n \in Nodes, k \in Codes : Link(n, k)
  \/ \E n \in Nodes : LinkSucceeds(n) \/ LinkFails(n)
  \/ \E c \in Conns : \/ HandlerStep(c) \/ Break(c)
                      \/ CoreNotices(c) \/ NodeNotices(c)
  \/ \E n \in Nodes : Start(n) \/ Connect(n) \/ ConnectFails(n) \/ NodeStep(n)
                        \/ NodeStops(n)
  \/ \E told \in SUBSET Conns : CoreStops(told)
  \/ CoreStarts

Spec == Init /\ [][Next]_vars

\* Handlers and nodes keep running and timeouts expire.  Connecting gets
\* strong fairness because identifiers, unlike connections, may be in use.
FairSpec ==
  /\ Spec
  /\ \A c \in Conns : WF_vars(HandlerStep(c)) /\ WF_vars(CoreNotices(c))
                        /\ WF_vars(NodeNotices(c))
  /\ \A n \in Nodes : /\ WF_vars(NodeStep(n)) /\ WF_vars(ConnectFails(n))
                      /\ SF_vars(Connect(n))
                      /\ WF_vars(LinkSucceeds(n) \/ LinkFails(n))
-----------------------------------------------------------------------------
\* The values the variables may have; the delay is never above BackoffMax.
TypeOK ==
  /\ codes \subseteq Codes /\ tokens \in [Nodes -> Tokens \cup {NoToken}]
  /\ up \in BOOLEAN /\ handler \in [Conns -> Phases]
  /\ peer \in [Conns -> Nodes \cup {NoNode}]
  /\ registry \in [Nodes -> Conns \cup {NoConn}]
  /\ path \in [Conns -> BOOLEAN]
  /\ coreEnd \in [Conns -> {"open", "closed", "lost"}]
  /\ nodeEnd \in [Conns -> {"open", "closed", "lost", "gone"}]
  /\ request \in [Conns -> Requests] /\ response \in [Conns -> Responses]
  /\ file \in [Nodes -> Tokens \cup {NoToken}]
  /\ using \in [Nodes -> Tokens \cup {NoToken}]
  /\ linker \in [Nodes -> Conns \cup {NoConn}]
  /\ node \in [Nodes -> Trying \cup {"off", "serving"}]
  /\ conn \in [Nodes -> Conns \cup {NoConn}]
  /\ backoff \in [Nodes -> 1..BackoffMax]
  /\ faults \in 0..MaxFaults
  /\ issued \in [Codes -> 0..MaxIssues] /\ granted \in [Codes -> Nat]

\* A code is good for one token: however many nodes present it, on however
\* many connections, before or after a restart of the core, no more tokens
\* are granted for it than `core link` stored it times
\* (consume_pending_code deletes it).
OneLinkPerCode == \A k \in Codes : granted[k] <= issued[k]

\* Whoever is in the registry was authenticated under that name, on a
\* connection whose handler will still unregister it; the one exception is the
\* handler that could not create the workspace directory.
EntriesHaveHandlers ==
  \A n \in Nodes : registry[n] # NoConn =>
    /\ peer[registry[n]] = n
    /\ handler[registry[n]] \in
         {"registered", "serving", "closing", "abandoned"}

\* A node whose token is the one the core stores comes back after any network
\* error, unless it is stopped or refused, the core is down or the name is
\* linked again (the reconnect loop of `node start`).
NodeComesBack ==
  \A n \in Nodes :
    (node[n] \in Trying /\ using[n] = tokens[n])
      ~> (node[n] \in {"serving", "off"} \/ ~up \/ using[n] # tokens[n])

\* A connection that the core knows to have ended does not stay in the
\* registry, unless its handler has abandoned it.
DeadEntriesLeave ==
  \A n \in Nodes, c \in Conns :
    (registry[n] = c /\ coreEnd[c] # "open")
      ~> (registry[n] # c \/ handler[c] = "abandoned")

\* "Connected remote nodes appear here automatically" (the prompt's list of
\* nodes, which is the registry): a node that serves a connection whose handler
\* serves it too, with packets passing, is registered.
ListedWhileConnected ==
  \A n \in Nodes :
    LET c == conn[n]
    IN (/\ node[n] = "serving" /\ nodeEnd[c] = "open" /\ path[c]
        /\ handler[c] = "serving" /\ coreEnd[c] = "open")
         => registry[n] # NoConn
=============================================================================
