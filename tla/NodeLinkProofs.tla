--------------------------- MODULE NodeLinkProofs ---------------------------
(***************************************************************************)
(* Proofs about NodeLink, for any nodes, codes, tokens and connections.    *)
(***************************************************************************)
EXTENDS NodeLink, TLAPS

-----------------------------------------------------------------------------
(***************************************************************************)
(* Facts about the vocabulary                                              *)
(***************************************************************************)
LEMMA PhaseNames ==
  /\ "none" \in Phases /\ "authenticating" \in Phases
  /\ "authenticated" \in Phases /\ "registered" \in Phases
  /\ "serving" \in Phases /\ "closing" \in Phases
  /\ "abandoned" \in Phases /\ "done" \in Phases
  BY DEF Phases

\* Setting one place of a function keeps its type; a place outside its domain
\* is ignored.
LEMMA PutType ==
  ASSUME NEW S, NEW T, NEW f \in [S -> T], NEW x, NEW v \in T
  PROVE  /\ Put(f, x, v) \in [S -> T]
         /\ \A y \in S : Put(f, x, v)[y] = IF y = x THEN v ELSE f[y]
  BY DEF Put

\* A connection that Open takes is one that nobody refers to.
LEMMA FreshIsUnused ==
  ASSUME NEW m, Open(FreshConn, m)
  PROVE  FreshConn \in Conns /\ Unused(FreshConn)
<1>1. \E c \in Conns : Unused(c)
  BY DEF Open
<1>. QED
  BY <1>1 DEF FreshConn

LEMMA FreshTokenType ==
  ASSUME UnusedTokens # {}
  PROVE  FreshToken \in Tokens
<1>1. FreshToken \in UnusedTokens
  BY DEF FreshToken
<1>. QED
  BY <1>1 DEF UnusedTokens

LEMMA ResponseNames ==
  /\ Refused \in Responses /\ NoMessage \in Responses
  /\ \A t \in Tokens : Accepted(t) \in Responses
  /\ Accepted(NoToken) \in Responses
  BY DEF Responses

-----------------------------------------------------------------------------
(***************************************************************************)
(* Type correctness                                                        *)
(***************************************************************************)
Questions == {CodeAuth(k, n) : k \in Codes, n \in Nodes}
               \cup {TokenAuth(t) : t \in Tokens}

\* A handler waits for a question, and a node that runs has a token to ask.
Asking ==
  /\ \A c \in Conns : handler[c] = "authenticating" => request[c] \in Questions
  /\ \A n \in Nodes : node[n] # "off" => using[n] \in Tokens

TypeInv == TypeOK /\ Asking

LEMMA InitType == Init => TypeInv
  BY NodeLinkAssumption, PhaseNames, ResponseNames
  DEF Init, TypeInv, TypeOK, Asking, Requests, Trying

LEMMA CodeQuestion ==
  ASSUME TypeInv, NEW c \in Conns,
         handler[c] = "authenticating", request[c].kind = "code"
  PROVE  request[c].code \in Codes /\ request[c].node \in Nodes
  BY DEF TypeInv, Asking, Questions, CodeAuth, TokenAuth

LEMMA OpenType ==
  ASSUME TypeInv, NEW c \in Conns, NEW m \in Questions, Open(c, m)
  PROVE  /\ handler' \in [Conns -> Phases]
         /\ peer' \in [Conns -> Nodes \cup {NoNode}]
         /\ path' \in [Conns -> BOOLEAN]
         /\ coreEnd' \in [Conns -> {"open", "closed", "lost"}]
         /\ nodeEnd' \in [Conns -> {"open", "closed", "lost", "gone"}]
         /\ request' \in [Conns -> Requests]
         /\ response' \in [Conns -> Responses]
         /\ UNCHANGED <<codes, tokens, up, registry>>
         /\ \A d \in Conns :
              handler'[d] = "authenticating" => request'[d] \in Questions
<1>1. m \in Requests
  BY DEF Questions, Requests
<1>2. request' \in [Conns -> Requests]
  BY <1>1 DEF Open, Put, TypeInv, TypeOK
<1>3. response' \in [Conns -> Responses]
  BY ResponseNames DEF Open, Put, TypeInv, TypeOK
<1>4. ASSUME NEW d \in Conns, handler'[d] = "authenticating"
      PROVE  request'[d] \in Questions
  BY <1>4 DEF Open, Put, TypeInv, TypeOK, Asking
<1>5. handler' \in [Conns -> Phases]
  BY PhaseNames DEF Open, Put, TypeInv, TypeOK
<1>. QED
  BY <1>2, <1>3, <1>4, <1>5 DEF Open, Put, TypeInv, TypeOK

\* The core's answer and its close keep the types of what they touch.
LEMMA AnswerType ==
  ASSUME TypeOK, NEW c \in Conns, NEW m \in Responses, CoreAnswers(c, m)
  PROVE  response' \in [Conns -> Responses]
  BY DEF CoreAnswers, Put, TypeOK

LEMMA CloseType ==
  ASSUME TypeOK, NEW c \in Conns, CoreCloses(c)
  PROVE  nodeEnd' \in [Conns -> {"open", "closed", "lost", "gone"}]
  BY DEF CoreCloses, Put, TypeOK

LEMMA RefuseType ==
  ASSUME TypeOK, NEW c \in Conns, Refuse(c)
  PROVE  /\ handler' = Put(handler, c, "done")
         /\ response' \in [Conns -> Responses]
         /\ nodeEnd' \in [Conns -> {"open", "closed", "lost", "gone"}]
<1>1. response' \in [Conns -> Responses]
  BY AnswerType, ResponseNames DEF Refuse, TypeOK
<1>. QED
  BY <1>1, CloseType DEF Refuse

LEMMA FaultType ==
  ASSUME TypeOK, Fault \/ NoFault
  PROVE  faults' \in 0..MaxFaults
  BY NodeLinkAssumption DEF Fault, NoFault, TypeOK

LEMMA LinkerType ==
  ASSUME TypeInv, NEW n \in Nodes,
         \/ \E k \in Codes : Link(n, k)
         \/ LinkSucceeds(n)
         \/ LinkFails(n)
  PROVE  TypeInv'
<1>1. ASSUME NEW k \in Codes, Link(n, k)
      PROVE  TypeInv'
  <2>1. FreshConn \in Conns
    BY <1>1, FreshIsUnused DEF Link
  <2>2. CodeAuth(k, n) \in Questions
    BY DEF Questions
  <2>3. linker' \in [Nodes -> Conns \cup {NoConn}]
    BY <1>1, <2>1 DEF Link, Put, TypeInv, TypeOK
  <2> DEFINE fresh == FreshConn
             m == CodeAuth(k, n)
  <2>4. fresh \in Conns /\ m \in Questions /\ Open(fresh, m)
    BY <1>1, <2>1, <2>2 DEF Link
  <2> HIDE DEF fresh, m
  <2>. QED
    BY <1>1, <2>3, <2>4, OpenType DEF Link, TypeInv, TypeOK, Asking
<1>2. CASE LinkSucceeds(n)
  <2>1. linker[n] \in Conns
    BY <1>2 DEF LinkSucceeds, TypeInv, TypeOK
  <2>2. response[linker[n]].token \in Tokens
    <3>1. PICK t \in Tokens : response[linker[n]] = Accepted(t)
      BY <1>2 DEF LinkSucceeds
    <3>. QED
      BY <3>1 DEF Accepted
  <2>3. file' \in [Nodes -> Tokens \cup {NoToken}]
    BY <1>2, <2>2 DEF LinkSucceeds, StoreTokenFile, Put, TypeInv, TypeOK
  <2>4. nodeEnd' \in [Conns -> {"open", "closed", "lost", "gone"}]
    BY <1>2 DEF LinkSucceeds, Put, TypeInv, TypeOK
  <2>5. linker' \in [Nodes -> Conns \cup {NoConn}]
    BY <1>2 DEF LinkSucceeds, Put, TypeInv, TypeOK
  <2>. QED
    BY <1>2, <2>3, <2>4, <2>5
    DEF LinkSucceeds, coreVars, TypeInv, TypeOK, Asking
<1>3. CASE LinkFails(n)
  <2>1. nodeEnd' \in [Conns -> {"open", "closed", "lost", "gone"}]
    BY <1>3 DEF LinkFails, Put, TypeInv, TypeOK
  <2>2. linker' \in [Nodes -> Conns \cup {NoConn}]
    BY <1>3 DEF LinkFails, Put, TypeInv, TypeOK
  <2>. QED
    BY <1>3, <2>1, <2>2 DEF LinkFails, coreVars, TypeInv, TypeOK, Asking
<1>. QED
  BY <1>1, <1>2, <1>3

LEMMA HandlerType ==
  ASSUME TypeInv, NEW c \in Conns, HandlerStep(c)
  PROVE  TypeInv'
<1>1. CASE AuthenticateCode(c)
  <2> DEFINE k == request[c].code
             n == request[c].node
  <2>0. k \in Codes /\ n \in Nodes
    BY <1>1, CodeQuestion DEF AuthenticateCode
  <2>1. faults' \in 0..MaxFaults
    BY <1>1, FaultType DEF AuthenticateCode, TypeInv
  <2>2. /\ handler' \in [Conns -> Phases]
        /\ \A d \in Conns : handler'[d] = "authenticating" =>
                              handler[d] = "authenticating"
    BY <1>1, PhaseNames DEF AuthenticateCode, Refuse, Put, TypeInv, TypeOK
  <2>3. response' \in [Conns -> Responses]
    BY <1>1, RefuseType, AnswerType, ResponseNames, FreshTokenType
    DEF AuthenticateCode, TypeInv, TypeOK
  <2>4. nodeEnd' \in [Conns -> {"open", "closed", "lost", "gone"}]
    BY <1>1, RefuseType, CloseType DEF AuthenticateCode, TypeInv, TypeOK
  <2>5. codes' \subseteq Codes /\ tokens' \in [Nodes -> Tokens \cup {NoToken}]
    BY <1>1, <2>0, FreshTokenType
    DEF AuthenticateCode, ConsumePendingCode, StoreToken, Put, TypeInv, TypeOK
  <2>6. /\ granted' \in [Codes -> Nat]
        /\ peer' \in [Conns -> Nodes \cup {NoNode}]
    BY <1>1, <2>0 DEF AuthenticateCode, Put, TypeInv, TypeOK
  <2>7. UNCHANGED <<up, registry, path, coreEnd, request, nodeVars, issued>>
    BY <1>1 DEF AuthenticateCode
  <2>. QED
    BY <2>1, <2>2, <2>3, <2>4, <2>5, <2>6, <2>7
    DEF nodeVars, TypeInv, TypeOK, Asking
<1>2. CASE AuthenticateToken(c)
  <2>1. faults' \in 0..MaxFaults
    BY <1>2, FaultType DEF AuthenticateToken, TypeInv
  <2>2. /\ handler' \in [Conns -> Phases]
        /\ \A d \in Conns : handler'[d] = "authenticating" =>
                              handler[d] = "authenticating"
    BY <1>2, PhaseNames DEF AuthenticateToken, Refuse, Put, TypeInv, TypeOK
  <2>3. response' \in [Conns -> Responses]
    BY <1>2, RefuseType, AnswerType, ResponseNames
    DEF AuthenticateToken, TypeInv, TypeOK
  <2>4. nodeEnd' \in [Conns -> {"open", "closed", "lost", "gone"}]
    BY <1>2, RefuseType DEF AuthenticateToken, TypeInv, TypeOK
  <2>5. peer' \in [Conns -> Nodes \cup {NoNode}]
    BY <1>2 DEF AuthenticateToken, OwnersOf, Put, TypeInv, TypeOK
  <2>6. UNCHANGED <<codes, tokens, up, registry, path, coreEnd, request,
                    nodeVars, issued, granted>>
    BY <1>2 DEF AuthenticateToken
  <2>. QED
    BY <2>1, <2>2, <2>3, <2>4, <2>5, <2>6
    DEF nodeVars, TypeInv, TypeOK, Asking
<1>3. CASE AuthenticateFails(c) \/ ServeEnds(c)
  BY <1>3, PhaseNames
  DEF AuthenticateFails, ServeEnds, Put, wireVars, nodeVars,
      TypeInv, TypeOK, Asking
<1>4. CASE Register(c)
  BY <1>4, PhaseNames
  DEF Register, RegisterNode, Put, wireVars, nodeVars, TypeInv, TypeOK, Asking
<1>5. CASE Serve(c)
  <2>1. faults' \in 0..MaxFaults
    BY <1>5, FaultType DEF Serve, TypeInv
  <2>2. /\ handler' \in [Conns -> Phases]
        /\ \A d \in Conns : handler'[d] = "authenticating" =>
                              handler[d] = "authenticating"
    BY <1>5, PhaseNames DEF Serve, Put, TypeInv, TypeOK
  <2>3. nodeEnd' \in [Conns -> {"open", "closed", "lost", "gone"}]
    BY <1>5, CloseType DEF Serve, TypeInv, TypeOK
  <2>. QED
    BY <1>5, <2>1, <2>2, <2>3 DEF Serve, nodeVars, TypeInv, TypeOK, Asking
<1>6. CASE Unregister(c)
  BY <1>6, PhaseNames
  DEF Unregister, UnregisterNode, Put, wireVars, nodeVars,
      TypeInv, TypeOK, Asking
<1>. QED
  BY <1>1, <1>2, <1>3, <1>4, <1>5, <1>6 DEF HandlerStep

LEMMA NodeType ==
  ASSUME TypeInv, NEW n \in Nodes,
         \/ Start(n) \/ Connect(n) \/ ConnectFails(n)
         \/ NodeStep(n) \/ NodeStops(n)
  PROVE  TypeInv'
<1>1. CASE Start(n)
  BY <1>1, NodeLinkAssumption
  DEF Start, TokenFileReads, Put, coreVars, wireVars, Trying,
      TypeInv, TypeOK, Asking
<1>2. CASE Connect(n)
  <2>1. FreshConn \in Conns
    BY <1>2, FreshIsUnused DEF Connect
  <2>2. TokenAuth(using[n]) \in Questions
    BY <1>2 DEF Connect, Questions, TypeInv, Asking
  <2>3. conn' \in [Nodes -> Conns \cup {NoConn}]
    BY <1>2, <2>1 DEF Connect, Put, TypeInv, TypeOK
  <2>4. /\ node' \in [Nodes -> Trying \cup {"off", "serving"}]
        /\ \A m \in Nodes : node'[m] # "off" => node[m] # "off"
    BY <1>2 DEF Connect, Put, Trying, TypeInv, TypeOK
  <2> DEFINE fresh == FreshConn
             m == TokenAuth(using[n])
  <2>5. fresh \in Conns /\ m \in Questions /\ Open(fresh, m)
    BY <1>2, <2>1, <2>2 DEF Connect
  <2> HIDE DEF fresh, m
  <2>. QED
    BY <1>2, <2>3, <2>4, <2>5, OpenType DEF Connect, TypeInv, TypeOK, Asking
<1>3. CASE ConnectFails(n)
  <2>1. faults' \in 0..MaxFaults
    BY <1>3, FaultType DEF ConnectFails, TypeInv
  <2>. QED
    BY <1>3, <2>1 DEF ConnectFails, Put, coreVars, wireVars, Trying,
                      TypeInv, TypeOK, Asking
<1>4. CASE Answered(n)
  <2>1. backoff' \in [Nodes -> 1..BackoffMax]
    BY <1>4, NodeLinkAssumption DEF Answered, Put, TypeInv, TypeOK
  <2>2. nodeEnd' \in [Conns -> {"open", "closed", "lost", "gone"}]
    BY <1>4 DEF Answered, Put, TypeInv, TypeOK
  <2>3. /\ node' \in [Nodes -> Trying \cup {"off", "serving"}]
        /\ conn' \in [Nodes -> Conns \cup {NoConn}]
        /\ \A m \in Nodes : node'[m] # "off" => node[m] # "off"
    BY <1>4 DEF Answered, Put, Trying, TypeInv, TypeOK
  <2>. QED
    BY <1>4, <2>1, <2>2, <2>3 DEF Answered, coreVars, TypeInv, TypeOK, Asking
<1>5. CASE ConnectionEnds(n)
  BY <1>5 DEF ConnectionEnds, Put, coreVars, wireVars, Trying,
              TypeInv, TypeOK, Asking
<1>6. CASE Wake(n)
  <2>1. backoff' \in [Nodes -> 1..BackoffMax]
    BY <1>6, NodeLinkAssumption DEF Wake, TypeInv, TypeOK
  <2>. QED
    BY <1>6, <2>1 DEF Wake, Put, coreVars, wireVars, Trying,
                      TypeInv, TypeOK, Asking
<1>7. CASE NodeStops(n)
  BY <1>7 DEF NodeStops, Put, coreVars, TypeInv, TypeOK, Asking
<1>. QED
  BY <1>1, <1>2, <1>3, <1>4, <1>5, <1>6, <1>7 DEF NodeStep

LEMMA ConnectionType ==
  ASSUME TypeInv, NEW c \in Conns, Break(c) \/ CoreNotices(c) \/ NodeNotices(c)
  PROVE  TypeInv'
<1>1. CASE Break(c)
  <2>1. faults' \in 0..MaxFaults
    BY <1>1, FaultType DEF Break, TypeInv
  <2>. QED
    BY <1>1, <2>1 DEF Break, Put, coreVars, nodeVars, TypeInv, TypeOK, Asking
<1>2. CASE CoreNotices(c) \/ NodeNotices(c)
  BY <1>2 DEF CoreNotices, NodeNotices, Put, coreVars, nodeVars,
              TypeInv, TypeOK, Asking
<1>. QED
  BY <1>1, <1>2

LEMMA CoreType ==
  ASSUME TypeInv,
         \/ \E k \in Codes : IssueCode(k)
         \/ \E told \in SUBSET Conns : CoreStops(told)
         \/ CoreStarts
  PROVE  TypeInv'
<1>1. ASSUME NEW k \in Codes, IssueCode(k)
      PROVE  TypeInv'
  <2>1. issued' \in [Codes -> 0..MaxIssues]
    BY <1>1, NodeLinkAssumption DEF IssueCode, TypeInv, TypeOK
  <2>. QED
    BY <1>1, <2>1 DEF IssueCode, StorePendingCode, wireVars, nodeVars,
                      TypeInv, TypeOK, Asking
<1>2. ASSUME NEW told \in SUBSET Conns, CoreStops(told)
      PROVE  TypeInv'
  <2>1. faults' \in 0..MaxFaults
    BY <1>2, FaultType DEF CoreStops, TypeInv
  <2>2. handler' \in [Conns -> Phases]
    BY <1>2, PhaseNames DEF CoreStops
  <2>3. /\ nodeEnd' \in [Conns -> {"open", "closed", "lost", "gone"}]
        /\ registry' \in [Nodes -> Conns \cup {NoConn}]
        /\ path' \in [Conns -> BOOLEAN]
    BY <1>2 DEF CoreStops, TypeInv, TypeOK
  <2>4. \A c \in Conns : handler'[c] # "authenticating"
    BY <1>2 DEF CoreStops
  <2>. QED
    BY <1>2, <2>1, <2>2, <2>3, <2>4
    DEF CoreStops, nodeVars, TypeInv, TypeOK, Asking
<1>3. CASE CoreStarts
  BY <1>3 DEF CoreStarts, wireVars, nodeVars, TypeInv, TypeOK, Asking
<1>. QED
  BY <1>1, <1>2, <1>3

LEMMA NextType == TypeInv /\ [Next]_vars => TypeInv'
<1>1. TypeInv /\ UNCHANGED vars => TypeInv'
  BY DEF vars, coreVars, wireVars, nodeVars, TypeInv, TypeOK, Asking
<1>. QED
  BY <1>1, LinkerType, HandlerType, NodeType, ConnectionType, CoreType DEF Next

LEMMA TypeInvariant == Spec => []TypeInv
  BY InitType, NextType, PTL DEF Spec

\* The core's tables, its registry, the connections and the nodes keep their
\* types; a node's delay is never above BACKOFF_MAX.
THEOREM NodeLinkTypes == Spec => []TypeOK
<1>1. TypeInv => TypeOK
  BY DEF TypeInv
<1>. QED
  BY <1>1, TypeInvariant, PTL

-----------------------------------------------------------------------------
(***************************************************************************)
(* One token per code                                                      *)
(*                                                                         *)
(* OneLinkPerCode leaves out whether the code is still pending, in which   *)
(* case one more token may be granted: the invariant counts it.            *)
(***************************************************************************)
CodesCounted ==
  \A k \in Codes : granted[k] + (IF k \in codes THEN 1 ELSE 0) <= issued[k]

\* Who changes codes and counters.
LEMMA CodesStep ==
  ASSUME TypeInv, CodesCounted, [Next]_vars
  PROVE  CodesCounted'
<1>0. /\ granted \in [Codes -> Nat] /\ issued \in [Codes -> 0..MaxIssues]
      /\ MaxIssues \in Nat
  BY NodeLinkAssumption DEF TypeInv, TypeOK
<1>1. ASSUME NEW k \in Codes, IssueCode(k)
      PROVE  CodesCounted'
  <2>1. /\ k \notin codes /\ codes' = codes \cup {k} /\ granted' = granted
        /\ issued' = [issued EXCEPT ![k] = issued[k] + 1]
    BY <1>1 DEF IssueCode, StorePendingCode
  <2>. QED
    BY <1>0, <2>1 DEF CodesCounted
<1>2. ASSUME NEW c \in Conns, AuthenticateCode(c)
      PROVE  CodesCounted'
  <2> DEFINE k == request[c].code
  <2>0. k \in Codes /\ issued' = issued
    BY <1>2, CodeQuestion DEF AuthenticateCode
  <2>1. \/ codes' = codes /\ granted' = granted
        \/ k \in codes /\ codes' = codes \ {k} /\ granted' = granted
        \/ /\ k \in codes /\ codes' = codes \ {k}
           /\ granted' = [granted EXCEPT ![k] = granted[k] + 1]
    BY <1>2 DEF AuthenticateCode, ConsumePendingCode
  <2> HIDE DEF k
  <2>. QED
    BY <1>0, <2>0, <2>1 DEF CodesCounted
<1>3. CASE UNCHANGED <<codes, granted, issued>>
  BY <1>3 DEF CodesCounted
<1>4. ASSUME NEW c \in Conns, HandlerStep(c), ~AuthenticateCode(c)
      PROVE  UNCHANGED <<codes, granted, issued>>
  BY <1>4 DEF HandlerStep, AuthenticateToken, AuthenticateFails, Register,
              Serve, ServeEnds, Unregister
<1>5. ASSUME NEW c \in Conns, Break(c) \/ CoreNotices(c) \/ NodeNotices(c)
      PROVE  UNCHANGED <<codes, granted, issued>>
  BY <1>5 DEF Break, CoreNotices, NodeNotices, coreVars
<1>6. ASSUME NEW n \in Nodes,
             \/ Start(n) \/ Connect(n) \/ ConnectFails(n) \/ NodeStep(n)
             \/ NodeStops(n) \/ LinkSucceeds(n) \/ LinkFails(n)
      PROVE  UNCHANGED <<codes, granted, issued>>
  BY <1>6 DEF Start, Connect, ConnectFails, NodeStep, Answered, ConnectionEnds,
              Wake, NodeStops, LinkSucceeds, LinkFails, Open, coreVars
<1>7. ASSUME NEW n \in Nodes, NEW k \in Codes, Link(n, k)
      PROVE  UNCHANGED <<codes, granted, issued>>
  BY <1>7 DEF Link, Open
<1>8. ASSUME NEW told \in SUBSET Conns, CoreStops(told)
      PROVE  UNCHANGED <<codes, granted, issued>>
  BY <1>8 DEF CoreStops
<1>9. CASE CoreStarts \/ UNCHANGED vars
  BY <1>3, <1>9 DEF CoreStarts, vars, coreVars
<1>. QED
  BY <1>1, <1>2, <1>3, <1>4, <1>5, <1>6, <1>7, <1>8, <1>9 DEF Next

\* consume_pending_code deletes the code in the statement that finds it: no
\* more tokens are granted for a code than it was issued times, across any
\* number of nodes, connections, faults and restarts of the core.
THEOREM CodesAreOneTime == Spec => []OneLinkPerCode
<1>1. Init => CodesCounted
  BY NodeLinkAssumption DEF Init, CodesCounted
<1>2. TypeInv /\ CodesCounted => OneLinkPerCode
  <2> SUFFICES ASSUME TypeInv, CodesCounted, NEW k \in Codes
               PROVE  granted[k] <= issued[k]
    BY DEF OneLinkPerCode
  <2>1. granted[k] \in Nat /\ issued[k] \in Int
    BY DEF TypeInv, TypeOK
  <2>2. granted[k] + (IF k \in codes THEN 1 ELSE 0) <= issued[k]
    BY DEF CodesCounted
  <2>. QED
    BY <2>1, <2>2
<1>. QED
  BY <1>1, <1>2, CodesStep, TypeInvariant, PTL DEF Spec

-----------------------------------------------------------------------------
(***************************************************************************)
(* Registry entries have a handler                                         *)
(***************************************************************************)
Alive == {"registered", "serving", "closing", "abandoned"}

\* The entries survive a step that keeps the registry, the peers and that a
\* handler is alive.
LEMMA EntriesKept ==
  ASSUME TypeInv, EntriesHaveHandlers, registry' = registry,
         \A n \in Nodes : registry[n] # NoConn =>
           /\ peer'[registry[n]] = peer[registry[n]]
           /\ handler[registry[n]] \in Alive => handler'[registry[n]] \in Alive
  PROVE  EntriesHaveHandlers'
  BY DEF EntriesHaveHandlers, Alive

\* A new connection is not that of any entry.
LEMMA OpenKeepsEntries ==
  ASSUME TypeInv, EntriesHaveHandlers, NEW m, Open(FreshConn, m)
  PROVE  EntriesHaveHandlers'
<1> DEFINE c == FreshConn
<1>1. c \in Conns /\ c \notin Range(registry)
  BY FreshIsUnused DEF Unused
<1>2. \A n \in Nodes : registry[n] # c
  BY <1>1 DEF Range, TypeInv, TypeOK
<1>3. /\ handler' = Put(handler, c, "authenticating")
      /\ peer' = Put(peer, c, NoNode) /\ registry' = registry
  BY DEF Open
<1> HIDE DEF c
<1>4. \A n \in Nodes : registry[n] # NoConn =>
        /\ peer'[registry[n]] = peer[registry[n]]
        /\ handler'[registry[n]] = handler[registry[n]]
  BY <1>2, <1>3 DEF Put, TypeInv, TypeOK
<1>. QED
  BY <1>3, <1>4, EntriesKept

LEMMA HandlerKeepsEntries ==
  ASSUME TypeInv, EntriesHaveHandlers, NEW c \in Conns, HandlerStep(c)
  PROVE  EntriesHaveHandlers'
<1>1. CASE AuthenticateCode(c) \/ AuthenticateToken(c) \/ AuthenticateFails(c)
  <2>1. handler[c] = "authenticating" /\ registry' = registry
    BY <1>1 DEF AuthenticateCode, AuthenticateToken, AuthenticateFails
  <2>2. \A n \in Nodes : registry[n] # NoConn => registry[n] # c
    BY <2>1 DEF EntriesHaveHandlers
  <2>3. \A d \in Conns : d # c => handler'[d] = handler[d] /\ peer'[d] = peer[d]
    BY <1>1 DEF AuthenticateCode, AuthenticateToken, AuthenticateFails, Refuse,
                Put, TypeInv, TypeOK
  <2>. QED
    BY <2>1, <2>2, <2>3, EntriesKept DEF TypeInv, TypeOK
<1>2. CASE Register(c)
  <2>1. /\ handler[c] = "authenticated" /\ peer' = peer
        /\ handler' = [handler EXCEPT ![c] = "registered"]
        /\ registry' = [registry EXCEPT ![peer[c]] = c]
    BY <1>2 DEF Register, RegisterNode, Put
  <2> SUFFICES ASSUME NEW n \in Nodes, registry'[n] # NoConn
               PROVE  /\ peer'[registry'[n]] = n
                      /\ handler'[registry'[n]] \in Alive
    BY DEF EntriesHaveHandlers, Alive
  <2>2. CASE n = peer[c]
    BY <2>1, <2>2 DEF TypeInv, TypeOK, Alive
  <2>3. CASE n # peer[c]
    <3>1. registry'[n] = registry[n] /\ registry[n] \in Conns
      BY <2>1, <2>3 DEF TypeInv, TypeOK
    <3>. QED
      BY <2>1, <3>1 DEF EntriesHaveHandlers, Alive, TypeInv, TypeOK
  <2>. QED
    BY <2>2, <2>3
<1>3. CASE Serve(c) \/ ServeEnds(c)
  <2>1. registry' = registry /\ peer' = peer
    BY <1>3 DEF Serve, ServeEnds
  <2>2. \A d \in Conns : handler[d] \in Alive => handler'[d] \in Alive
    BY <1>3 DEF Serve, ServeEnds, Put, TypeInv, TypeOK, Alive
  <2>. QED
    BY <2>1, <2>2, EntriesKept DEF TypeInv, TypeOK
<1>4. CASE Unregister(c)
  <2>1. /\ handler' = [handler EXCEPT ![c] = "done"] /\ peer' = peer
        /\ registry' = [registry EXCEPT ![peer[c]] = NoConn]
    BY <1>4 DEF Unregister, UnregisterNode, Put
  <2> SUFFICES ASSUME NEW n \in Nodes, registry'[n] # NoConn
               PROVE  /\ peer'[registry'[n]] = n
                      /\ handler'[registry'[n]] \in Alive
    BY DEF EntriesHaveHandlers, Alive
  <2>2. registry'[n] = registry[n] /\ n # peer[c]
    BY <2>1 DEF TypeInv, TypeOK
  <2>3. peer[registry[n]] = n /\ handler[registry[n]] \in Alive
    BY <2>2 DEF EntriesHaveHandlers, Alive
  <2>4. registry[n] \in Conns /\ registry[n] # c
    BY <2>2, <2>3 DEF TypeInv, TypeOK
  <2>. QED
    BY <2>1, <2>2, <2>3, <2>4 DEF TypeInv, TypeOK
<1>. QED
  BY <1>1, <1>2, <1>3, <1>4 DEF HandlerStep

LEMMA EntriesStep ==
  ASSUME TypeInv, EntriesHaveHandlers, [Next]_vars
  PROVE  EntriesHaveHandlers'
<1>1. CASE UNCHANGED <<registry, peer, handler>>
  BY <1>1 DEF EntriesHaveHandlers
<1>2. ASSUME NEW k \in Codes, IssueCode(k)
      PROVE  UNCHANGED <<registry, peer, handler>>
  BY <1>2 DEF IssueCode
<1>3. ASSUME NEW n \in Nodes, NEW k \in Codes, Link(n, k)
      PROVE  EntriesHaveHandlers'
  BY <1>3, OpenKeepsEntries DEF Link
<1>4. ASSUME NEW n \in Nodes, Connect(n)
      PROVE  EntriesHaveHandlers'
  BY <1>4, OpenKeepsEntries DEF Connect
<1>5. ASSUME NEW n \in Nodes,
             \/ Start(n) \/ ConnectFails(n) \/ NodeStep(n) \/ NodeStops(n)
             \/ LinkSucceeds(n) \/ LinkFails(n)
      PROVE  UNCHANGED <<registry, peer, handler>>
  BY <1>5 DEF Start, ConnectFails, NodeStep, Answered, ConnectionEnds, Wake,
              NodeStops, LinkSucceeds, LinkFails, coreVars
<1>6. ASSUME NEW c \in Conns, Break(c) \/ CoreNotices(c) \/ NodeNotices(c)
      PROVE  UNCHANGED <<registry, peer, handler>>
  BY <1>6 DEF Break, CoreNotices, NodeNotices, coreVars
<1>7. ASSUME NEW told \in SUBSET Conns, CoreStops(told)
      PROVE  EntriesHaveHandlers'
  BY <1>7 DEF CoreStops, EntriesHaveHandlers
<1>8. CASE CoreStarts \/ UNCHANGED vars
  BY <1>1, <1>8 DEF CoreStarts, vars, coreVars
<1>. QED
  BY <1>1, <1>2, <1>3, <1>4, <1>5, <1>6, <1>7, <1>8, HandlerKeepsEntries
  DEF Next

\* Whoever the registry names was authenticated under that name on a
\* connection whose handler has not finished, so that a handler will remove
\* the entry, whatever other connections of the same name do in between.
THEOREM RegistryEntriesHaveHandlers == Spec => []EntriesHaveHandlers
<1>1. Init => EntriesHaveHandlers
  BY DEF Init, EntriesHaveHandlers
<1>. QED
  BY <1>1, EntriesStep, TypeInvariant, PTL DEF Spec
=============================================================================
