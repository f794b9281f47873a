------------------------------- MODULE Memory -------------------------------
(***************************************************************************)
(* The long-term memory: the LanceDB table of memory/store.rs with the     *)
(* search of memory/search.rs, the metadata and the edges that             *)
(* memory/graph.rs keeps in SQLite, and the calls that use the three: the  *)
(* tools of memory/tools.rs, the endpoints of api/routes.rs and the        *)
(* context a delegation looks up (interface/tools.rs).                     *)
(*                                                                         *)
(* No transaction spans the two databases, and no lock is held from one    *)
(* statement of a call to the next.  A call is therefore a sequence of     *)
(* steps, one per statement, between which other calls take theirs.  A     *)
(* step that fails ends its call, and so does an agent that is stopped or  *)
(* a client that disconnects; what the call has done by then stays.        *)
(*                                                                         *)
(* The table has no key: rows[id] lists the rows of an id in the order in  *)
(* which they were added.  Distances, scores and importance depend on      *)
(* embeddings, ages and counts that nothing bounds; a ranking is therefore *)
(* an arbitrary choice, and what is kept is who takes part in it.          *)
(***************************************************************************)
EXTENDS Naturals, Sequences, FiniteSets, SequencesExt

CONSTANTS
  Ids,           \* the ids of memories: uuids, and what a model makes up
  Old,           \* the memories that are there at the start
  Callers,       \* agents and clients, each with one call at a time
  Contents,      \* contents of memories, each the set of pattern groups of
                 \* classify_heuristic that it matches
  GivenTypes,    \* types that a caller may give with a content
  Requests,      \* what searches ask for
  Overfetch,     \* candidates per result asked of the vector search (3)
  MaxAccesses,   \* bound of access_count
  Links,         \* bound: the pairs of memories that calls join
  MaxWrites,     \* bounds of the number of calls that write and of
  MaxSearches,   \* searches
  None

MemoryType == {"fact", "decision", "inference", "preference", "observation",
               "event"}

\* What a search asks for; the minimum importance is demanding or none.  A
\* limit of zero is left out (what LanceDB makes of it is not in the source),
\* and so is one whose multiple overflows.
Request == [limit : Nat \ {0}, filter : MemoryType \cup {None},
            demanding : BOOLEAN, depth : Nat]

\* The tool's requests, and those of the endpoint.
ToolRequest(limit, filter) ==
  [limit |-> limit, filter |-> filter, demanding |-> FALSE, depth |-> 1]
EndpointRequest(limit, filter, demanding, depth) ==
  [limit |-> limit, filter |-> filter, demanding |-> demanding, depth |-> depth]

ASSUME MemoryAssumption ==
  /\ IsFiniteSet(Ids) /\ Old \subseteq Ids
  /\ IsFiniteSet(Callers) /\ Callers # {}
  /\ Contents \subseteq SUBSET (MemoryType \ {"observation"})
  /\ GivenTypes \subseteq MemoryType
  /\ Requests \subseteq Request
  /\ Overfetch \in Nat \ {0} /\ MaxAccesses \in Nat
  /\ Links \subseteq Ids \X Ids /\ MaxWrites \in Nat /\ MaxSearches \in Nat
  /\ None \notin MemoryType

VARIABLES
  rows,       \* LanceDB: per id, its rows
  meta,       \* SQLite memory_metadata: per id, its record or None
  edges,      \* SQLite memory_edges, as pairs <<source_id, target_id>>
  calls,      \* per caller, the call it is in, or None
  \* History, which no action reads:
  mentioned,  \* the ids that exist or were named in a call
  live,       \* the ids that were stored in full and not deleted since
  disturbed,  \* the ids on which calls overlapped, ended early or came
              \* after the deletion
  writes,     \* the number of calls that have come in, of each sort
  searches

databases == <<rows, meta, edges>>
history   == <<mentioned, live, disturbed>>
counts    == <<writes, searches>>
vars      == <<databases, calls, history, counts>>

-----------------------------------------------------------------------------
(***************************************************************************)
(* Types                                                                   *)
(***************************************************************************)
\* The groups in the order in which they are tried; the first match wins.
Groups == <<"decision", "preference", "inference", "event", "fact">>

Classify(content) ==
  LET matching == {i \in DOMAIN Groups : Groups[i] \in content}
  IN  IF matching = {} THEN "observation" ELSE Groups[Min(matching)]

\* Mutant: the argument is stored as it came, absent or not.
TypeGiven(given, content) == given

\* A type that is given and known, else that of the content.
TypeFor(given, content) == IF given = None THEN Classify(content) ELSE given

Row == [content : Contents, type : MemoryType]
NewRow(content, given) ==
  [content |-> content, type |-> TypeFor(given, content)]
Given == GivenTypes \cup {None}

-----------------------------------------------------------------------------
(***************************************************************************)
(* The statements of graph.rs and the operations of store.rs               *)
(***************************************************************************)
\* Mutant: only one of the rows is deleted.
DeleteFirstRow(id) ==
  rows' = [rows EXCEPT ![id] = IF @ = <<>> THEN @ ELSE Tail(@)]

DeleteRows(id)   == rows' = [rows EXCEPT ![id] = <<>>]
AddRow(id, row)  == rows' = [rows EXCEPT ![id] = Append(@, row)]

\* INSERT OR IGNORE.
InitMetadata(id, type) ==
  meta' = [meta EXCEPT ![id] =
             IF @ = None THEN [type |-> type, accesses |-> 0] ELSE @]

\* UPDATE: without a record of the id, nothing.
UpdateType(id, type) ==
  meta' = [meta EXCEPT ![id] =
             IF @ = None THEN None ELSE [@ EXCEPT !.type = type]]

RecordAccess(id) ==
  meta' = [meta EXCEPT ![id] =
             IF @ = None \/ @.accesses >= MaxAccesses THEN @
             ELSE [type |-> @.type, accesses |-> @.accesses + 1]]

DeleteMetadata(id) == meta' = [meta EXCEPT ![id] = None]

EdgesFor(id) == {e \in edges : id \in {e[1], e[2]}}

\* An upsert, which asks for neither end to exist.
CreateEdge(a, b) == edges' = edges \cup {<<a, b>>}

\* Mutant: only the edges that start at the memory are deleted.
DeleteEdgesFrom(id) == edges' = {e \in edges : e[1] # id}

DeleteEdgesFor(id) == edges' = edges \ EdgesFor(id)

Neighbours(id) == {IF e[1] = id THEN e[2] ELSE e[1] : e \in EdgesFor(id)}

Least(m, n) == IF m < n THEN m ELSE n

\* The rows of the ids in S, as pairs of an id and a position.
RowsOf(S) == UNION {{id} \X DOMAIN rows[id] : id \in S}

Stored == {id \in Ids : rows[id] # <<>>}

-----------------------------------------------------------------------------
(***************************************************************************)
(* Calls                                                                   *)
(***************************************************************************)
MayWrite(c) ==
  /\ calls[c] = None
  /\ writes < MaxWrites /\ writes' = writes + 1
  /\ UNCHANGED searches

MaySearch(c) ==
  /\ calls[c] = None
  /\ searches < MaxSearches /\ searches' = searches + 1
  /\ UNCHANGED writes

Touches(call) == IF call.op = "search" THEN Ids ELSE {call.id}

\* The callers in a call that a write to the ids in S may disturb, and those
\* of them who write themselves.
Beside(S)  ==
  {d \in Callers : calls[d] # None /\ Touches(calls[d]) \cap S # {}}
Writers(S) == {d \in Beside(S) : calls[d].op # "search"}

\* The calls after a call of c that writes to the ids in S has come in.
WithWrite(S) ==
  [d \in Callers |-> IF d \in Beside(S) THEN [calls[d] EXCEPT !.alone = FALSE]
                     ELSE calls[d]]

Write(c, id, op, at, row) ==
  /\ calls' = [WithWrite({id}) EXCEPT
                 ![c] = [op |-> op, at |-> at, id |-> id, row |-> row,
                         alone |-> Writers({id}) = {}]]
  /\ mentioned' = mentioned \cup {id}

Goto(c, at) == calls' = [calls EXCEPT ![c].at = at]
Return(c)   == calls' = [calls EXCEPT ![c] = None]

In(c, op, at) == calls[c] # None /\ calls[c].op = op /\ calls[c].at = at

\* The call of c ends early: a statement or the embedding fails, the agent
\* is stopped, the client goes away.  Its first statement is over, so that
\* a write has left half of its work.
Fail(c) ==
  /\ calls[c] # None
  /\ Return(c)
  /\ disturbed' = disturbed \cup
       (IF calls[c].op = "search" THEN {} ELSE {calls[c].id})
  /\ UNCHANGED <<databases, mentioned, live, counts>>

-----------------------------------------------------------------------------
(***************************************************************************)
(* memory_store, tool and endpoint: row, then metadata.  The endpoint      *)
(* ignores that the metadata failed and reports success, the tool reports  *)
(* the error and publishes no event: the databases are left the same, as   *)
(* after Fail.                                                             *)
(***************************************************************************)
Store(c, id, content, given) ==
  /\ MayWrite(c)
  /\ id \notin mentioned
  /\ AddRow(id, NewRow(content, given))
  /\ Write(c, id, "store", "metadata", NewRow(content, given))
  /\ UNCHANGED <<meta, edges, live, disturbed>>

StoreMetadata(c) ==
  /\ In(c, "store", "metadata")
  /\ InitMetadata(calls[c].id, calls[c].row.type)
  /\ live' = live \cup {calls[c].id}
  /\ Return(c)
  /\ UNCHANGED <<rows, edges, mentioned, disturbed, counts>>

-----------------------------------------------------------------------------
(***************************************************************************)
(* memory_update: the old rows, the new row, the type                      *)
(***************************************************************************)
\* Mutant: the new row is added to the old ones.
UpdateKeepsRows(c, id, content, given) ==
  /\ MayWrite(c)
  /\ Write(c, id, "update", "add", NewRow(content, given))
  /\ disturbed' = disturbed \cup
       (IF Writers({id}) = {} /\ id \in live THEN {} ELSE {id})
  /\ UNCHANGED <<databases, live>>

Update(c, id, content, given) ==
  /\ MayWrite(c)
  /\ DeleteRows(id)
  /\ Write(c, id, "update", "add", NewRow(content, given))
  /\ disturbed' = disturbed \cup
       (IF Writers({id}) = {} /\ id \in live THEN {} ELSE {id})
  /\ UNCHANGED <<meta, edges, live>>

UpdateAdd(c) ==
  /\ In(c, "update", "add")
  /\ AddRow(calls[c].id, calls[c].row)
  /\ Goto(c, "type")
  /\ UNCHANGED <<meta, edges, history, counts>>

UpdateMetadata(c) ==
  /\ In(c, "update", "type")
  /\ UpdateType(calls[c].id, calls[c].row.type)
  /\ Return(c)
  /\ UNCHANGED <<rows, edges, history, counts>>

-----------------------------------------------------------------------------
(***************************************************************************)
(* memory_delete: the rows, the edges, the metadata                        *)
(***************************************************************************)
Delete(c, id) ==
  /\ MayWrite(c)
  /\ DeleteRows(id)
  /\ Write(c, id, "delete", "edges", None)
  /\ live' = live \ {id}
  /\ disturbed' = disturbed \cup (IF Writers({id}) = {} THEN {} ELSE {id})
  /\ UNCHANGED <<meta, edges>>

DeleteEdges(c) ==
  /\ In(c, "delete", "edges")
  /\ DeleteEdgesFor(calls[c].id)
  /\ Goto(c, "metadata")
  /\ UNCHANGED <<rows, meta, history, counts>>

\* A deletion that nothing has disturbed leaves the id clean.
DeleteLast(c) ==
  /\ In(c, "delete", "metadata")
  /\ DeleteMetadata(calls[c].id)
  /\ disturbed' = disturbed \ (IF calls[c].alone THEN {calls[c].id} ELSE {})
  /\ Return(c)
  /\ UNCHANGED <<rows, edges, mentioned, live, counts>>

-----------------------------------------------------------------------------
\* create_memory_edge and its endpoint, in one statement.  An unknown
\* relation type is refused and changes nothing.
Link(c, a, b) ==
  /\ MayWrite(c)
  /\ CreateEdge(a, b)
  /\ calls' = WithWrite({a, b})
  /\ mentioned' = mentioned \cup {a, b}
  /\ disturbed' = disturbed \cup
       {id \in {a, b} : id \notin live \/ Writers({id}) # {}}
  /\ UNCHANGED <<rows, meta, live>>

-----------------------------------------------------------------------------
(***************************************************************************)
(* hybrid_search, for the tool, the endpoint and a delegation's context    *)
(***************************************************************************)
\* The vector search takes the Overfetch * limit nearest rows; the ids of the
\* limit nearest of them are the seeds of the graph search.  Of two rows of
\* an id the nearer one is kept.
Rankings(n) == {r \in [1..n -> RowsOf(Ids)] : IsInjective(r)}

Search(c, request) ==
  /\ MaySearch(c)
  /\ \E hits \in Rankings(Least(Overfetch * request.limit,
                                Cardinality(RowsOf(Ids)))) :
       LET ranks(id) == {i \in DOMAIN hits : hits[i][1] = id}
           seeds     == {hits[i][1] : i \in 1..Least(request.limit, Len(hits))}
       IN  calls' = [calls EXCEPT ![c] =
             [op |-> "search", at |-> "graph", request |-> request,
              found |-> [id \in Ids |->
                           IF ranks(id) = {} THEN None
                           ELSE rows[id][hits[Min(ranks(id))][2]]],
              left |-> request.depth, frontier |-> seeds, new |-> {},
              seen |-> seeds,
              alone |-> Writers(Ids) = {}, missed |-> FALSE]]
  /\ UNCHANGED <<databases, history>>

\* The search goes from one memory of the frontier to its neighbours, and on
\* to the next depth after the last one.  Edges that cannot be read are
\* taken for none.
Follow(c, id) ==
  /\ In(c, "search", "graph")
  /\ calls[c].left > 0 /\ id \in calls[c].frontier
  /\ \E neighbours \in {Neighbours(id), {}} :
       LET call == calls[c]
           new  == call.new \cup (neighbours \ call.seen)
           rest == call.frontier \ {id}
           next == [call EXCEPT !.seen = @ \cup neighbours, !.frontier = rest,
                                !.new = new,
                                !.missed = @ \/ neighbours # Neighbours(id)]
       IN  calls' = [calls EXCEPT ![c] =
             IF rest # {} THEN next
             ELSE [next EXCEPT !.left = @ - 1, !.frontier = new, !.new = {}]]
  /\ UNCHANGED <<databases, history, counts>>

\* fetch_by_ids: what only the graph has led to is looked up in the table; an
\* id without a row adds nothing.
OnlyLinked(call) == {id \in call.seen : call.found[id] = None /\ id \in Stored}

Fetch(c) ==
  /\ In(c, "search", "graph")
  /\ calls[c].left = 0 \/ calls[c].frontier = {}
  /\ \E row \in [OnlyLinked(calls[c]) ->
                 UNION {ToSet(rows[id]) : id \in Ids}] :
       /\ \A id \in DOMAIN row : row[id] \in ToSet(rows[id])
       /\ calls' = [calls EXCEPT
            ![c].found = [id \in Ids |->
                            IF id \in DOMAIN row THEN row[id] ELSE @[id]],
            ![c].at = "rank"]
  /\ UNCHANGED <<databases, history, counts>>

\* Importance may drop what has metadata, the filter what has another type;
\* the best of the rest are returned.
Passes(filter, row) == filter = None \/ row.type = filter

\* Mutant: the results are cut to the limit before they are filtered.
RankThenFilter(c) ==
  /\ In(c, "search", "rank")
  /\ LET call == calls[c]
         all  == {id \in Ids : call.found[id] # None}
     IN  \E best \in kSubset(Least(call.request.limit, Cardinality(all)),
                             all) :
           calls' = [calls EXCEPT ![c] =
             [op |-> "search", at |-> "record", request |-> call.request,
              results |-> {id \in best :
                             Passes(call.request.filter, call.found[id])},
              alone |-> call.alone]]
  /\ UNCHANGED <<databases, history, counts>>

Rank(c) ==
  /\ In(c, "search", "rank")
  /\ LET call    == calls[c]
         passing == {id \in Ids :
                       /\ call.found[id] # None
                       /\ Passes(call.request.filter, call.found[id])}
         weak    == {id \in passing :
                       call.request.demanding /\ meta[id] # None}
     IN  \E dropped \in SUBSET weak :
         \E results \in kSubset(Least(call.request.limit,
                                      Cardinality(passing \ dropped)),
                                passing \ dropped) :
           calls' = [calls EXCEPT ![c] =
             [op |-> "search", at |-> "record", request |-> call.request,
              results |-> results, alone |-> call.alone]]
  /\ UNCHANGED <<databases, history, counts>>

\* Each result counts as an access; an access that cannot be recorded is
\* ignored.
Record(c, id) ==
  /\ In(c, "search", "record") /\ id \in calls[c].results
  /\ RecordAccess(id) \/ UNCHANGED meta
  /\ calls' = [calls EXCEPT ![c].results = @ \ {id}]
  /\ UNCHANGED <<rows, edges, history, counts>>

SearchReturns(c) ==
  /\ In(c, "search", "record") /\ calls[c].results = {}
  /\ Return(c)
  /\ UNCHANGED <<databases, history, counts>>

-----------------------------------------------------------------------------
\* Some memories have been stored.
Init ==
  /\ \E stored \in [Old -> {NewRow(content, given) : content \in Contents,
                                                     given \in Given}] :
       /\ rows = [id \in Ids |-> IF id \in Old THEN <<stored[id]>> ELSE <<>>]
       /\ meta = [id \in Ids |->
                    IF id \in Old
                    THEN [type |-> stored[id].type, accesses |-> 0]
                    ELSE None]
  /\ edges = {}
  /\ calls = [c \in Callers |-> None]
  /\ mentioned = Old /\ live = Old /\ disturbed = {}
  /\ writes = 0 /\ searches = 0

WriteStep(c) ==
  \/ \E id \in Ids, content \in Contents, given \in Given :
       Store(c, id, content, given) \/ Update(c, id, content, given)
  \/ StoreMetadata(c)
  \/ UpdateAdd(c) \/ UpdateMetadata(c)
  \/ \E id \in Ids : Delete(c, id)
  \/ DeleteEdges(c) \/ DeleteLast(c)
  \/ \E link \in Links : Link(c, link[1], link[2])

SearchStep(c) ==
  \/ \E request \in Requests : Search(c, request)
  \/ \E id \in Ids : Follow(c, id) \/ Record(c, id)
  \/ Fetch(c) \/ Rank(c) \/ SearchReturns(c)

Next == \E c \in Callers : WriteStep(c) \/ SearchStep(c) \/ Fail(c)

Spec == Init /\ [][Next]_vars

-----------------------------------------------------------------------------
(***************************************************************************)
(* Properties                                                              *)
(***************************************************************************)
Metadata == [type : MemoryType, accesses : 0..MaxAccesses]

WriteCall ==
  [op : {"store", "update", "delete"},
   at : {"metadata", "add", "type", "edges"}, id : Ids,
   row : Row \cup {None}, alone : BOOLEAN]

SearchCall ==
  [op : {"search"}, at : {"graph", "rank"}, request : Requests,
   found : [Ids -> Row \cup {None}], left : Nat, frontier : SUBSET Ids,
   new : SUBSET Ids, seen : SUBSET Ids, alone : BOOLEAN, missed : BOOLEAN]
  \cup
  [op : {"search"}, at : {"record"}, request : Requests,
   results : SUBSET Ids, alone : BOOLEAN]

ASSUME NoneAssumption ==
  None \notin Row \cup Metadata \cup WriteCall \cup SearchCall

\* Every variable has its type.
TypeOK ==
  /\ rows \in [Ids -> Seq(Row)]
  /\ meta \in [Ids -> Metadata \cup {None}]
  /\ edges \subseteq Ids \X Ids
  /\ calls \in [Callers -> WriteCall \cup SearchCall \cup {None}]
  /\ mentioned \subseteq Ids
  /\ live \subseteq mentioned /\ disturbed \subseteq mentioned
  /\ writes \in 0..MaxWrites /\ searches \in 0..MaxSearches

Whole(id) ==
  /\ Len(rows[id]) = 1
  /\ meta[id] # None
  /\ meta[id].type = rows[id][1].type

Gone(id) == rows[id] = <<>> /\ meta[id] = None /\ EdgesFor(id) = {}

\* The two databases agree on every memory on which no call is under way, as
\* long as the calls on it did not overlap, did not end halfway and did not
\* come after its deletion: one that was stored has one row and metadata of
\* the same type, one that was deleted has left nothing, no edge either.
DatabasesAgree ==
  \A id \in Ids \ disturbed :
    Writers({id}) = {} => IF id \in live THEN Whole(id) ELSE Gone(id)

\* Whatever overlapping or failed calls have left of a memory (two rows,
\* none, edges to nothing), the next update that no other call disturbs
\* leaves one row with the new content, and a type of that row in the
\* metadata if there are any; the next such deletion leaves nothing.
NextCallHeals ==
  [][\A c \in Callers, id \in Ids :
       calls[c] # None /\ calls[c].op \in {"update", "delete"}
         /\ calls[c].id = id /\ calls[c].alone =>
            /\ UpdateMetadata(c) =>
                 /\ rows'[id] = <<calls[c].row>>
                 /\ meta'[id] # None => meta'[id].type = calls[c].row.type
            /\ DeleteLast(c) => Gone(id)']_vars

\* However updates and deletions overlap, an id never has more rows than there
\* are callers, not even with the rows that updates are about to add: every
\* update takes all rows away before it adds its own.
RowsBounded ==
  \A id \in Ids :
    Len(rows[id]) + Cardinality({c \in Callers : In(c, "update", "add")
                                                 /\ calls[c].id = id})
      <= Cardinality(Callers)

AllJoined == \A a, b \in Stored : a = b \/ a \in Neighbours(b)

Complete(call, results) ==
  LET asked(row) == Passes(call.request.filter, row)
      some == {id \in Stored : \E row \in ToSet(rows[id]) : asked(row)}
      all  == {id \in Stored : \A row \in ToSet(rows[id]) : asked(row)}
      wide == \/ Cardinality(RowsOf(Ids)) <= Overfetch * call.request.limit
              \/ AllJoined /\ call.request.depth > 0 /\ ~call.missed
  IN  /\ results \subseteq some
      /\ Cardinality(results) <= call.request.limit
      /\ wide /\ ~call.request.demanding =>
           Cardinality(results) >= Least(call.request.limit, Cardinality(all))

\* A search that no write overlaps returns no more than its limit, only
\* memories that have a row of the type asked for, and all it has room for
\* when the vector search sees every row, or when the edges join every two
\* memories and all of them could be read: asking for more candidates than
\* results and following edges make up for the filter, which comes last.
SearchFindsWhatFits ==
  [][\A c \in Callers :
       Rank(c) /\ calls[c].alone => Complete(calls[c], calls'[c].results)]_vars
=============================================================================
