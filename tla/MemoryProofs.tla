---------------------------- MODULE MemoryProofs ----------------------------
(***************************************************************************)
(* Proofs about Memory, for any finite sets of memories and of callers.    *)
(***************************************************************************)
EXTENDS Memory, SequenceLemmas, FiniteSetTheorems

\* The call of c writes to the memory id.
Writing(c, id) ==
  calls[c] # None /\ calls[c].op # "search" /\ calls[c].id = id

Steps == [store |-> {"metadata"}, update |-> {"add", "type"},
          delete |-> {"edges", "metadata"}]

\* A call that writes is at a step of its operation, brings the row that its
\* next steps need, and its id counts as named.
CallsInOrder ==
  \A c \in Callers, id \in Ids : Writing(c, id) =>
    /\ calls[c].op \in DOMAIN Steps /\ calls[c].at \in Steps[calls[c].op]
    /\ calls[c].op # "delete" => calls[c].row \in Row
    /\ id \in mentioned

\* Nobody has written to a memory that was never named.
UnnamedIsGone == \A id \in Ids \ mentioned : Gone(id)

\* A call that is alone has no other writer beside it; the calls on a memory
\* that is not disturbed are alone.
AloneIsAlone ==
  \A id \in Ids, c \in Callers : Writing(c, id) =>
    /\ calls[c].alone => \A d \in Callers : Writing(d, id) => d = c
    /\ id \notin disturbed => calls[c].alone

\* What the steps of an update or a deletion that is alone have done so far,
\* whatever the databases were like when it came in.
HalfDone(c, id) ==
  /\ calls[c].op = "update" /\ calls[c].at = "add" => rows[id] = <<>>
  /\ calls[c].op = "update" /\ calls[c].at = "type" =>
       rows[id] = <<calls[c].row>>
  /\ calls[c].op = "delete" => rows[id] = <<>> /\ id \notin live
  /\ calls[c].op = "delete" /\ calls[c].at = "metadata" => EdgesFor(id) = {}

\* And what a call on a memory that is not disturbed can rely on.
HalfWhole(c, id) ==
  /\ calls[c].op = "store" =>
       rows[id] = <<calls[c].row>> /\ meta[id] = None /\ id \notin live
  /\ calls[c].op = "update" => id \in live /\ meta[id] # None

CallsProgress ==
  \A id \in Ids, c \in Callers : Writing(c, id) =>
    /\ calls[c].alone => HalfDone(c, id)
    /\ id \notin disturbed => HalfWhole(c, id)

-----------------------------------------------------------------------------
(***************************************************************************)
(* Facts about calls                                                       *)
(***************************************************************************)
Call == WriteCall \cup SearchCall

\* A call is not None, and one that is no search is one that writes.
LEMMA CallKinds ==
  ASSUME NEW k \in Call
  PROVE  /\ k # None
         /\ k \in WriteCall <=> k.op # "search"
         /\ k \in SearchCall <=> k.op = "search"
  BY NoneAssumption DEF Call, WriteCall, SearchCall

\* Whether a call is alone is all that a write beside it changes.
NotAlone(k) == [k EXCEPT !.alone = FALSE]

LEMMA NotAloneType ==
  ASSUME NEW k \in Call
  PROVE  /\ NotAlone(k) \in Call /\ NotAlone(k) # None
         /\ NotAlone(k).op = k.op
         /\ NotAlone(k).alone = FALSE
         /\ k \in WriteCall =>
              /\ NotAlone(k) \in WriteCall
              /\ NotAlone(k).at = k.at /\ NotAlone(k).id = k.id
              /\ NotAlone(k).row = k.row
<1>1. CASE k \in WriteCall
  BY <1>1, NoneAssumption DEF Call, NotAlone, WriteCall
<1>2. CASE k \in SearchCall
  <2>1. NotAlone(k) \in SearchCall /\ NotAlone(k).op = k.op
          /\ NotAlone(k).alone = FALSE
    BY <1>2 DEF NotAlone, SearchCall
  <2>2. k \notin WriteCall
    BY <1>2, CallKinds DEF Call
  <2>. QED
    BY <2>1, <2>2, NoneAssumption DEF Call
<1>. QED
  BY <1>1, <1>2 DEF Call

LEMMA WritingCall ==
  ASSUME TypeOK, NEW c \in Callers, NEW id \in Ids, Writing(c, id)
  PROVE  calls[c] \in WriteCall
  BY CallKinds DEF TypeOK, Writing, Call

\* The calls of others after a write to S has come in: the same, but those
\* on a memory of S are no longer alone.
LEMMA OthersAfterWrite ==
  ASSUME TypeOK, NEW S \in SUBSET Ids
  PROVE  /\ WithWrite(S) \in [Callers -> Call \cup {None}]
         /\ \A d \in Callers :
              /\ calls[d] = None <=> WithWrite(S)[d] = None
              /\ calls[d] \in Call => WithWrite(S)[d].op = calls[d].op
              /\ calls[d] \in WriteCall =>
                   /\ WithWrite(S)[d] \in WriteCall
                   /\ WithWrite(S)[d].at = calls[d].at
                   /\ WithWrite(S)[d].id = calls[d].id
                   /\ WithWrite(S)[d].row = calls[d].row
                   /\ WithWrite(S)[d].alone <=>
                        calls[d].alone /\ calls[d].id \notin S
<1> SUFFICES ASSUME NEW d \in Callers
             PROVE  /\ WithWrite(S)[d] \in Call \cup {None}
                    /\ calls[d] = None <=> WithWrite(S)[d] = None
                    /\ calls[d] \in Call => WithWrite(S)[d].op = calls[d].op
                    /\ calls[d] \in WriteCall =>
                         /\ WithWrite(S)[d] \in WriteCall
                         /\ WithWrite(S)[d].at = calls[d].at
                         /\ WithWrite(S)[d].id = calls[d].id
                         /\ WithWrite(S)[d].row = calls[d].row
                         /\ WithWrite(S)[d].alone <=>
                              calls[d].alone /\ calls[d].id \notin S
  BY DEF WithWrite
<1>1. calls[d] \in Call \cup {None}
  BY DEF TypeOK, Call
<1>2. CASE d \in Beside(S)
  <2>1. calls[d] # None
    BY <1>2 DEF Beside
  <2>2. calls[d] \in Call
    BY <1>1, <2>1
  <2>3. WithWrite(S)[d] = NotAlone(calls[d])
    BY <1>2 DEF WithWrite, NotAlone
  <2>4. ASSUME calls[d] \in WriteCall
        PROVE  calls[d].id \in S
    <3>1. calls[d].op # "search"
      BY <2>2, <2>4, CallKinds
    <3>. QED
      BY <1>2, <3>1 DEF Beside, Touches
  <2>. QED
    BY <2>1, <2>2, <2>3, <2>4, NotAloneType
<1>3. CASE d \notin Beside(S)
  <2>1. WithWrite(S)[d] = calls[d]
    BY <1>3 DEF WithWrite
  <2>2. ASSUME calls[d] \in WriteCall
        PROVE  calls[d].id \notin S
    <3>1. calls[d] # None /\ calls[d].op # "search"
      BY <2>2, CallKinds DEF Call
    <3>. QED
      BY <1>3, <3>1 DEF Beside, Touches
  <2>. QED
    BY <1>1, <2>1, <2>2
<1>. QED
  BY <1>2, <1>3

\* The callers beside which a write to id comes in.
LEMMA WritersAreWriting ==
  ASSUME TypeOK, NEW id \in Ids
  PROVE  Writers({id}) = {d \in Callers : Writing(d, id)}
  BY DEF Writers, Beside, Touches, Writing

-----------------------------------------------------------------------------
(***************************************************************************)
(* Facts about rows                                                        *)
(***************************************************************************)
LEMMA MinIsMember ==
  ASSUME NEW S \in SUBSET Nat, S # {}
  PROVE  Min(S) \in S
<1>1. \E x \in S : \A y \in S : <<y, x>> \notin OpToRel(<, Nat)
  BY NatLessThanWellFounded, WFMin
<1>2. PICK x \in S : \A y \in S : <<y, x>> \notin OpToRel(<, Nat)
  BY <1>1
<1>3. ASSUME NEW y \in S PROVE x =< y
  <2>1. ~ (y < x)
    BY <1>2, <1>3 DEF OpToRel
  <2>. QED
    BY <2>1
<1>. QED
  BY <1>3 DEF Min

LEMMA NewRowType ==
  ASSUME NEW content \in Contents, NEW given \in Given
  PROVE  NewRow(content, given) \in Row
<1>1. Classify(content) \in MemoryType
  <2> DEFINE matching == {i \in DOMAIN Groups : Groups[i] \in content}
  <2>1. matching \in SUBSET Nat
    BY DEF Groups
  <2>2. ASSUME matching # {}
        PROVE  Groups[Min(matching)] \in content
    BY <2>1, <2>2, MinIsMember
  <2> HIDE DEF matching
  <2>3. content \subseteq MemoryType
    BY MemoryAssumption
  <2>4. Classify(content) =
          IF matching = {} THEN "observation" ELSE Groups[Min(matching)]
    BY DEF Classify, matching
  <2>. QED
    BY <2>2, <2>3, <2>4 DEF MemoryType
<1>2. TypeFor(given, content) \in MemoryType
  BY <1>1, MemoryAssumption DEF TypeFor, Given
<1>. QED
  BY <1>2 DEF NewRow, Row

LEMMA RowsOfType ==
  ASSUME TypeOK, NEW S \in SUBSET Ids
  PROVE  /\ IsFiniteSet(RowsOf(S))
         /\ \A r \in RowsOf(S) :
              r[1] \in S /\ r[2] \in DOMAIN rows[r[1]]
                /\ rows[r[1]][r[2]] \in Row
<1>1. ASSUME NEW id \in Ids
      PROVE  /\ rows[id] \in Seq(Row)
             /\ DOMAIN rows[id] = 1..Len(rows[id]) /\ Len(rows[id]) \in Nat
             /\ IsFiniteSet(DOMAIN rows[id])
  <2>1. rows[id] \in Seq(Row)
    BY DEF TypeOK
  <2>2. DOMAIN rows[id] = 1..Len(rows[id]) /\ Len(rows[id]) \in Nat
    BY <2>1
  <2>3. IsFiniteSet(1..Len(rows[id]))
    BY <2>2, FS_Interval
  <2>. QED
    BY <2>1, <2>2, <2>3
<1>2. IsFiniteSet(S)
  BY MemoryAssumption, FS_Subset
<1>3. IsFiniteSet({{id} \X DOMAIN rows[id] : id \in S})
  <2> DEFINE T == {{id} \X DOMAIN rows[id] : id \in S}
             f == [id \in S |-> {id} \X DOMAIN rows[id]]
  <2>1. f \in Surjection(S, T)
    BY DEF Surjection
  <2> HIDE DEF f
  <2>. QED
    BY <1>2, <2>1, FS_Surjection
<1>4. \A T \in {{id} \X DOMAIN rows[id] : id \in S} : IsFiniteSet(T)
  <2> SUFFICES ASSUME NEW id \in S
               PROVE  IsFiniteSet({id} \X DOMAIN rows[id])
    OBVIOUS
  <2>. QED
    BY <1>1, FS_Singleton, FS_Product
<1>5. IsFiniteSet(RowsOf(S))
  BY <1>3, <1>4, FS_UNION DEF RowsOf
<1>6. ASSUME NEW r \in RowsOf(S)
      PROVE  r[1] \in S /\ r[2] \in DOMAIN rows[r[1]]
               /\ rows[r[1]][r[2]] \in Row
  <2>1. PICK id \in S : r \in {id} \X DOMAIN rows[id]
    BY <1>6 DEF RowsOf
  <2>2. r[1] = id /\ r[2] \in DOMAIN rows[id]
    BY <2>1
  <2>3. rows[id][r[2]] \in Row
    BY <1>1, <2>2
  <2>. QED
    BY <2>2, <2>3
<1>. QED
  BY <1>5, <1>6

-----------------------------------------------------------------------------
(***************************************************************************)
(* Type correctness                                                        *)
(***************************************************************************)
DataType ==
  /\ rows \in [Ids -> Seq(Row)]
  /\ meta \in [Ids -> Metadata \cup {None}]
  /\ edges \subseteq Ids \X Ids

CallsType == calls \in [Callers -> Call \cup {None}]

HistoryType ==
  /\ mentioned \subseteq Ids
  /\ live \subseteq mentioned /\ disturbed \subseteq mentioned

CountsType == writes \in 0..MaxWrites /\ searches \in 0..MaxSearches

LEMMA TypeParts ==
  TypeOK <=> DataType /\ CallsType /\ HistoryType /\ CountsType
<1>1. Call \cup {None} = WriteCall \cup SearchCall \cup {None}
  BY DEF Call
<1>. QED
  BY <1>1 DEF TypeOK, DataType, CallsType, HistoryType, CountsType

LEMMA TypePartsNext ==
  DataType' /\ CallsType' /\ HistoryType' /\ CountsType' => TypeOK'
<1>1. Call \cup {None} = WriteCall \cup SearchCall \cup {None}
  BY DEF Call
<1>. QED
  BY <1>1 DEF TypeOK, DataType, CallsType, HistoryType, CountsType

TypeInv == TypeOK /\ CallsInOrder

\* A write to id comes in: its call, and what becomes of the others.
LEMMA WriteType ==
  ASSUME TypeInv, NEW c \in Callers, NEW id \in Ids,
         NEW op \in DOMAIN Steps, NEW at \in Steps[op],
         NEW row \in Row \cup {None}, op # "delete" => row \in Row,
         MayWrite(c), Write(c, id, op, at, row)
  PROVE  /\ CallsType' /\ CountsType' /\ CallsInOrder'
         /\ mentioned' = mentioned \cup {id}
         /\ calls'[c] \in WriteCall
         /\ calls'[c].op = op /\ calls'[c].at = at /\ calls'[c].row = row
         /\ calls'[c].alone <=> Writers({id}) = {}
         /\ \A d \in Callers, i \in Ids :
              Writing(d, i)' <=> \/ d = c /\ i = id
                                 \/ d # c /\ Writing(d, i)
         /\ \A d \in Callers, i \in Ids : d # c /\ Writing(d, i) =>
              /\ calls'[d].op = calls[d].op /\ calls'[d].at = calls[d].at
              /\ calls'[d].row = calls[d].row
              /\ calls'[d].alone <=> calls[d].alone /\ i # id
<1> DEFINE k == [op |-> op, at |-> at, id |-> id, row |-> row,
                 alone |-> Writers({id}) = {}]
<1>1. op \in {"store", "update", "delete"}
        /\ at \in {"metadata", "add", "type", "edges"}
  BY DEF Steps
<1>2. k \in WriteCall
  BY <1>1 DEF WriteCall
<1>3. k.op = op /\ k.at = at /\ k.id = id /\ k.row = row
        /\ (k.alone <=> Writers({id}) = {})
  OBVIOUS
<1>4. calls' = [WithWrite({id}) EXCEPT ![c] = k]
        /\ mentioned' = mentioned \cup {id}
  BY DEF Write
<1> HIDE DEF k
<1>5. TypeOK
  BY DEF TypeInv
<1>6. {id} \in SUBSET Ids
  OBVIOUS
<1>7. CallsType'
  BY <1>2, <1>4, <1>5, <1>6, OthersAfterWrite DEF CallsType, Call
<1>8. calls'[c] = k
  BY <1>4, <1>5, <1>6, OthersAfterWrite
<1>9. \A d \in Callers \ {c} : calls'[d] = WithWrite({id})[d]
  BY <1>4, <1>5, <1>6, OthersAfterWrite
<1>10. \A i \in Ids : Writing(c, i)' <=> i = id
  BY <1>1, <1>2, <1>3, <1>8, CallKinds DEF Writing, Call
<1>11. ASSUME NEW d \in Callers, NEW i \in Ids, d # c, Writing(d, i)
       PROVE  /\ Writing(d, i)'
              /\ calls'[d].op = calls[d].op /\ calls'[d].at = calls[d].at
              /\ calls'[d].row = calls[d].row
              /\ calls'[d].alone <=> calls[d].alone /\ i # id
  <2>1. calls[d] \in WriteCall /\ calls[d].id = i
    BY <1>5, <1>11, WritingCall DEF Writing
  <2>. QED
    BY <1>5, <1>6, <1>9, <1>11, <2>1, OthersAfterWrite DEF Writing, Call
<1>12. ASSUME NEW d \in Callers, NEW i \in Ids, d # c, Writing(d, i)'
       PROVE  Writing(d, i)
  <2>1. calls'[d] = WithWrite({id})[d]
    BY <1>9, <1>12
  <2>2. calls[d] # None /\ calls[d] \in Call
    BY <1>5, <1>6, <1>12, <2>1, OthersAfterWrite DEF Writing, TypeOK, Call
  <2>3. calls[d].op # "search"
    BY <1>5, <1>6, <1>12, <2>1, <2>2, OthersAfterWrite DEF Writing
  <2>4. calls[d] \in WriteCall
    BY <2>2, <2>3, CallKinds
  <2>. QED
    BY <1>5, <1>6, <1>12, <2>1, <2>2, <2>3, <2>4, OthersAfterWrite DEF Writing
<1>13. CountsType'
  BY <1>5, MemoryAssumption, TypeParts DEF CountsType, MayWrite
<1>14. CallsInOrder'
  <2> SUFFICES ASSUME NEW d \in Callers, NEW i \in Ids, Writing(d, i)'
               PROVE  /\ calls'[d].op \in DOMAIN Steps
                      /\ calls'[d].at \in Steps[calls'[d].op]
                      /\ calls'[d].op # "delete" => calls'[d].row \in Row
                      /\ i \in mentioned'
    BY DEF CallsInOrder
  <2>. QED
    BY <1>3, <1>4, <1>8, <1>10, <1>11, <1>12 DEF CallsInOrder, TypeInv
<1>. QED
  BY <1>2, <1>3, <1>4, <1>7, <1>8, <1>10, <1>11, <1>12, <1>13, <1>14

\* The call of c goes on or ends: the other calls stay as they are.
LEMMA ReturnType ==
  ASSUME TypeInv, NEW c \in Callers, Return(c), mentioned' = mentioned
  PROVE  /\ CallsType' /\ CallsInOrder'
         /\ \A d \in Callers, i \in Ids :
              Writing(d, i)' <=> d # c /\ Writing(d, i)
         /\ \A d \in Callers : d # c => calls'[d] = calls[d]
<1>1. CallsType' /\ \A d \in Callers : calls'[d] =
                      IF d = c THEN None ELSE calls[d]
  BY TypeParts DEF TypeInv, CallsType, Return
<1>2. \A d \in Callers, i \in Ids :
        Writing(d, i)' <=> d # c /\ Writing(d, i)
  BY <1>1 DEF Writing
<1>. QED
  BY <1>1, <1>2 DEF CallsInOrder, TypeInv

LEMMA GotoType ==
  ASSUME TypeInv, NEW c \in Callers, NEW id \in Ids, Writing(c, id),
         NEW at \in Steps[calls[c].op], Goto(c, at), mentioned' = mentioned
  PROVE  /\ CallsType' /\ CallsInOrder'
         /\ \A d \in Callers, i \in Ids : Writing(d, i)' <=> Writing(d, i)
         /\ \A d \in Callers : d # c => calls'[d] = calls[d]
         /\ calls'[c].op = calls[c].op /\ calls'[c].at = at
         /\ calls'[c].row = calls[c].row /\ calls'[c].alone = calls[c].alone
<1> DEFINE k == [calls[c] EXCEPT !.at = at]
<1>1. calls[c] \in WriteCall
  BY WritingCall DEF TypeInv
<1>2. calls[c].op \in DOMAIN Steps
  BY DEF TypeInv, CallsInOrder
<1>3. at \in {"metadata", "add", "type", "edges"}
  BY <1>2 DEF Steps
<1>4. k \in WriteCall
  BY <1>1, <1>3 DEF WriteCall
<1>5. k.op = calls[c].op /\ k.at = at /\ k.id = calls[c].id
        /\ k.row = calls[c].row /\ k.alone = calls[c].alone
  BY <1>1 DEF WriteCall
<1>6. calls' = [calls EXCEPT ![c] = k]
  BY DEF Goto
<1> HIDE DEF k
<1>7. CallsType' /\ \A d \in Callers : calls'[d] =
                      IF d = c THEN k ELSE calls[d]
  BY <1>4, <1>6, TypeParts DEF TypeInv, CallsType, Call
<1>8. k # None
  BY <1>4, CallKinds DEF Call
<1>9. \A d \in Callers, i \in Ids : Writing(d, i)' <=> Writing(d, i)
  BY <1>5, <1>7, <1>8 DEF Writing
<1>10. CallsInOrder'
  <2> SUFFICES ASSUME NEW d \in Callers, NEW i \in Ids, Writing(d, i)
               PROVE  /\ calls'[d].op \in DOMAIN Steps
                      /\ calls'[d].at \in Steps[calls'[d].op]
                      /\ calls'[d].op # "delete" => calls'[d].row \in Row
                      /\ i \in mentioned
    BY <1>9 DEF CallsInOrder
  <2>. QED
    BY <1>2, <1>5, <1>7 DEF CallsInOrder, TypeInv
<1>. QED
  BY <1>5, <1>7, <1>9, <1>10

\* A search comes in or goes on: no call that writes is touched.
LEMMA SearchType ==
  ASSUME TypeInv, NEW c \in Callers, calls[c] = None \/ calls[c].op = "search",
         NEW k \in SearchCall, calls' = [calls EXCEPT ![c] = k],
         mentioned' = mentioned
  PROVE  /\ CallsType' /\ CallsInOrder'
         /\ \A d \in Callers, i \in Ids : Writing(d, i)' <=> Writing(d, i)
         /\ \A d \in Callers, i \in Ids :
              Writing(d, i) => calls'[d] = calls[d]
<1>1. k \in Call /\ k.op = "search"
  BY CallKinds DEF Call
<1>2. CallsType' /\ \A d \in Callers : calls'[d] =
                      IF d = c THEN k ELSE calls[d]
  BY <1>1, TypeParts DEF TypeInv, CallsType
<1>3. \A d \in Callers, i \in Ids : Writing(d, i)' <=> Writing(d, i)
  BY <1>1, <1>2 DEF Writing
<1>4. \A d \in Callers, i \in Ids : Writing(d, i) => calls'[d] = calls[d]
  BY <1>2 DEF Writing
<1>. QED
  BY <1>2, <1>3, <1>4 DEF CallsInOrder, TypeInv

LEMMA InitType == Init => TypeInv
<1> SUFFICES ASSUME Init PROVE TypeInv
  OBVIOUS
<1>1. PICK stored \in [Old -> {NewRow(content, given) :
                                 content \in Contents, given \in Given}] :
        /\ rows = [id \in Ids |-> IF id \in Old THEN <<stored[id]>> ELSE <<>>]
        /\ meta = [id \in Ids |->
                     IF id \in Old
                     THEN [type |-> stored[id].type, accesses |-> 0]
                     ELSE None]
  BY DEF Init
<1>2. \A id \in Old : stored[id] \in Row
  BY NewRowType
<1>3. rows \in [Ids -> Seq(Row)]
  BY <1>1, <1>2
<1>4. \A id \in Old : [type |-> stored[id].type, accesses |-> 0] \in Metadata
  BY <1>2, MemoryAssumption DEF Row, Metadata
<1>5. meta \in [Ids -> Metadata \cup {None}]
  BY <1>1, <1>4
<1>6. CallsInOrder
  BY DEF Init, CallsInOrder, Writing
<1>. QED
  BY <1>3, <1>5, <1>6, MemoryAssumption DEF Init, TypeInv, TypeOK

LEMMA StoreType ==
  ASSUME TypeInv, NEW c \in Callers, NEW id \in Ids,
         NEW content \in Contents, NEW given \in Given,
         Store(c, id, content, given)
  PROVE  TypeInv'
<1> DEFINE row == NewRow(content, given)
<1>1. row \in Row
  BY NewRowType
<1>2. /\ MayWrite(c) /\ Write(c, id, "store", "metadata", row)
      /\ AddRow(id, row) /\ UNCHANGED <<meta, edges, live, disturbed>>
  BY DEF Store
<1> HIDE DEF row
<1>3. "store" \in DOMAIN Steps /\ "metadata" \in Steps["store"]
  BY DEF Steps
<1>4. CallsType' /\ CountsType' /\ CallsInOrder'
        /\ mentioned' = mentioned \cup {id}
  BY <1>1, <1>2, <1>3, WriteType
<1>5. rows' \in [Ids -> Seq(Row)]
  BY <1>1, <1>2 DEF TypeInv, TypeOK, AddRow
<1>data. DataType' /\ HistoryType' /\ CountsType'
  BY <1>2, <1>4, <1>5 DEF TypeInv, TypeOK, DataType, HistoryType
<1>. QED
  BY <1>data, <1>4, TypePartsNext DEF TypeInv

LEMMA UpdateCallType ==
  ASSUME TypeInv, NEW c \in Callers, NEW id \in Ids,
         NEW content \in Contents, NEW given \in Given,
         Update(c, id, content, given)
  PROVE  TypeInv'
<1> DEFINE row == NewRow(content, given)
<1>1. row \in Row
  BY NewRowType
<1>2. /\ MayWrite(c) /\ Write(c, id, "update", "add", row)
      /\ DeleteRows(id) /\ UNCHANGED <<meta, edges, live>>
  BY DEF Update
<1> HIDE DEF row
<1>3. "update" \in DOMAIN Steps /\ "add" \in Steps["update"]
  BY DEF Steps
<1>4. CallsType' /\ CountsType' /\ CallsInOrder'
        /\ mentioned' = mentioned \cup {id}
  BY <1>1, <1>2, <1>3, WriteType
<1>5. rows' \in [Ids -> Seq(Row)]
  BY <1>2 DEF TypeInv, TypeOK, DeleteRows
<1>6. disturbed' \subseteq disturbed \cup {id}
  BY DEF Update
<1>data. DataType' /\ HistoryType' /\ CountsType'
  BY <1>2, <1>4, <1>5, <1>6 DEF TypeInv, TypeOK, DataType, HistoryType
<1>. QED
  BY <1>data, <1>4, TypePartsNext DEF TypeInv

LEMMA DeleteCallType ==
  ASSUME TypeInv, NEW c \in Callers, NEW id \in Ids, Delete(c, id)
  PROVE  TypeInv'
<1>1. /\ MayWrite(c) /\ Write(c, id, "delete", "edges", None)
      /\ DeleteRows(id) /\ UNCHANGED <<meta, edges>>
  BY DEF Delete
<1>2. "delete" \in DOMAIN Steps /\ "edges" \in Steps["delete"]
  BY DEF Steps
<1>3. CallsType' /\ CountsType' /\ CallsInOrder'
        /\ mentioned' = mentioned \cup {id}
  BY <1>1, <1>2, WriteType
<1>4. rows' \in [Ids -> Seq(Row)]
  BY <1>1 DEF TypeInv, TypeOK, DeleteRows
<1>5. disturbed' \subseteq disturbed \cup {id} /\ live' \subseteq live
  BY DEF Delete
<1>data. DataType' /\ HistoryType' /\ CountsType'
  BY <1>1, <1>3, <1>4, <1>5 DEF TypeInv, TypeOK, DataType, HistoryType
<1>. QED
  BY <1>data, <1>3, TypePartsNext DEF TypeInv

\* The later steps of a call are about a memory that it names.
LEMMA LaterStep ==
  ASSUME TypeInv, NEW c \in Callers, NEW op \in DOMAIN Steps, NEW at,
         In(c, op, at)
  PROVE  /\ calls[c].id \in Ids /\ calls[c].id \in mentioned
         /\ Writing(c, calls[c].id)
         /\ calls[c].op = op /\ calls[c].at = at
         /\ op # "delete" => calls[c].row \in Row
<1>1. calls[c] # None /\ calls[c].op = op /\ calls[c].at = at
  BY DEF In
<1>2. op # "search"
  BY DEF Steps
<1>3. calls[c] \in WriteCall
  BY <1>1, <1>2, CallKinds DEF TypeInv, TypeOK, Call
<1>4. calls[c].id \in Ids
  BY <1>3 DEF WriteCall
<1>5. Writing(c, calls[c].id)
  BY <1>1, <1>2 DEF Writing
<1>. QED
  BY <1>1, <1>4, <1>5 DEF TypeInv, CallsInOrder

LEMMA StoreMetadataType ==
  ASSUME TypeInv, NEW c \in Callers, StoreMetadata(c)
  PROVE  TypeInv'
<1> DEFINE id == calls[c].id
           type == calls[c].row.type
<1>1. "store" \in DOMAIN Steps
  BY DEF Steps
<1>2. id \in Ids /\ id \in mentioned /\ calls[c].row \in Row
  BY <1>1, LaterStep DEF StoreMetadata
<1>3. type \in MemoryType
  BY <1>2 DEF Row
<1>4. /\ InitMetadata(id, type) /\ live' = live \cup {id} /\ Return(c)
      /\ UNCHANGED <<rows, edges, mentioned, disturbed, counts>>
  BY DEF StoreMetadata
<1> HIDE DEF id, type
<1>5. CallsType' /\ CallsInOrder'
  BY <1>4, ReturnType
<1>6. [type |-> type, accesses |-> 0] \in Metadata
  BY <1>3, MemoryAssumption DEF Metadata
<1>7. meta' \in [Ids -> Metadata \cup {None}]
  BY <1>4, <1>6 DEF InitMetadata, TypeInv, TypeOK
<1>data. DataType' /\ HistoryType' /\ CountsType'
  BY <1>2, <1>4, <1>5, <1>7
  DEF TypeInv, TypeOK, DataType, HistoryType, CountsType, counts
<1>. QED
  BY <1>data, <1>5, TypePartsNext DEF TypeInv

LEMMA UpdateAddType ==
  ASSUME TypeInv, NEW c \in Callers, UpdateAdd(c)
  PROVE  TypeInv'
<1> DEFINE id == calls[c].id
           row == calls[c].row
<1>1. "update" \in DOMAIN Steps /\ "type" \in Steps["update"]
  BY DEF Steps
<1>2. id \in Ids /\ row \in Row /\ Writing(c, id) /\ calls[c].op = "update"
  BY <1>1, LaterStep DEF UpdateAdd
<1>3. /\ AddRow(id, row) /\ Goto(c, "type")
      /\ UNCHANGED <<meta, edges, history, counts>>
  BY DEF UpdateAdd
<1> HIDE DEF id, row
<1>4. CallsType' /\ CallsInOrder'
  BY <1>1, <1>2, <1>3, GotoType DEF history
<1>5. rows' \in [Ids -> Seq(Row)]
  BY <1>2, <1>3 DEF AddRow, TypeInv, TypeOK
<1>data. DataType' /\ HistoryType' /\ CountsType'
  BY <1>3, <1>4, <1>5
  DEF TypeInv, TypeOK, DataType, HistoryType, CountsType, counts, history
<1>. QED
  BY <1>data, <1>4, TypePartsNext DEF TypeInv

LEMMA UpdateMetadataType ==
  ASSUME TypeInv, NEW c \in Callers, UpdateMetadata(c)
  PROVE  TypeInv'
<1> DEFINE id == calls[c].id
           type == calls[c].row.type
<1>1. "update" \in DOMAIN Steps
  BY DEF Steps
<1>2. id \in Ids /\ calls[c].row \in Row
  BY <1>1, LaterStep DEF UpdateMetadata
<1>3. type \in MemoryType
  BY <1>2 DEF Row
<1>4. /\ UpdateType(id, type) /\ Return(c)
      /\ UNCHANGED <<rows, edges, history, counts>>
  BY DEF UpdateMetadata
<1> HIDE DEF id, type
<1>5. CallsType' /\ CallsInOrder'
  BY <1>4, ReturnType DEF history
<1>6. \A m \in Metadata : [m EXCEPT !.type = type] \in Metadata
  BY <1>3 DEF Metadata
<1>7. meta' \in [Ids -> Metadata \cup {None}]
  BY <1>4, <1>6 DEF UpdateType, TypeInv, TypeOK
<1>data. DataType' /\ HistoryType' /\ CountsType'
  BY <1>4, <1>5, <1>7
  DEF TypeInv, TypeOK, DataType, HistoryType, CountsType, counts, history
<1>. QED
  BY <1>data, <1>5, TypePartsNext DEF TypeInv

LEMMA DeleteEdgesType ==
  ASSUME TypeInv, NEW c \in Callers, DeleteEdges(c)
  PROVE  TypeInv'
<1>1. "delete" \in DOMAIN Steps /\ "metadata" \in Steps["delete"]
  BY DEF Steps
<1>2. calls[c].id \in Ids /\ Writing(c, calls[c].id) /\ calls[c].op = "delete"
  BY <1>1, LaterStep DEF DeleteEdges
<1>3. CallsType' /\ CallsInOrder'
  BY <1>1, <1>2, GotoType DEF history, DeleteEdges
<1>data. DataType' /\ HistoryType' /\ CountsType'
  BY <1>3
  DEF TypeInv, TypeOK, DataType, HistoryType, CountsType, counts, history,
      DeleteEdges, DeleteEdgesFor
<1>. QED
  BY <1>data, <1>3, TypePartsNext DEF TypeInv

LEMMA DeleteLastType ==
  ASSUME TypeInv, NEW c \in Callers, DeleteLast(c)
  PROVE  TypeInv'
<1>1. CallsType' /\ CallsInOrder'
  BY ReturnType DEF DeleteLast
<1>2. meta' \in [Ids -> Metadata \cup {None}]
  BY DEF DeleteLast, DeleteMetadata, TypeInv, TypeOK
<1>data. DataType' /\ HistoryType' /\ CountsType'
  BY <1>1, <1>2
  DEF TypeInv, TypeOK, DataType, HistoryType, CountsType, counts, DeleteLast
<1>. QED
  BY <1>data, <1>1, TypePartsNext DEF TypeInv

LEMMA LinkEffect ==
  ASSUME TypeInv, NEW c \in Callers, NEW a \in Ids, NEW b \in Ids,
         Link(c, a, b)
  PROVE  /\ CallsType' /\ CallsInOrder'
         /\ \A d \in Callers, i \in Ids : Writing(d, i)' <=> Writing(d, i)
         /\ \A d \in Callers, i \in Ids : Writing(d, i) =>
              /\ calls'[d].op = calls[d].op /\ calls'[d].at = calls[d].at
              /\ calls'[d].row = calls[d].row
              /\ calls'[d].alone <=> calls[d].alone /\ i \notin {a, b}
<1>1. {a, b} \in SUBSET Ids /\ calls' = WithWrite({a, b}) /\ TypeOK
        /\ mentioned' = mentioned \cup {a, b}
  BY DEF Link, TypeInv
<1>2. CallsType'
  BY <1>1, OthersAfterWrite DEF CallsType
<1>3. ASSUME NEW d \in Callers, NEW i \in Ids, Writing(d, i)
      PROVE  /\ Writing(d, i)'
             /\ calls'[d].op = calls[d].op /\ calls'[d].at = calls[d].at
             /\ calls'[d].row = calls[d].row
             /\ calls'[d].alone <=> calls[d].alone /\ i \notin {a, b}
  <2>1. calls[d] \in WriteCall
    BY <1>1, <1>3, WritingCall
  <2>. QED
    BY <1>1, <1>3, <2>1, OthersAfterWrite DEF Writing, Call
<1>4. ASSUME NEW d \in Callers, NEW i \in Ids, Writing(d, i)'
      PROVE  Writing(d, i)
  <2>1. calls[d] # None /\ calls[d] \in Call
    <3>1. calls'[d] = WithWrite({a, b})[d] /\ calls'[d] # None
      BY <1>1, <1>4 DEF Writing
    <3>2. calls[d] # None
      BY <1>1, <3>1, OthersAfterWrite
    <3>. QED
      BY <1>1, <3>2 DEF TypeOK, Call
  <2>2. calls[d].op # "search"
    BY <1>1, <1>4, <2>1, OthersAfterWrite DEF Writing
  <2>3. calls[d] \in WriteCall
    BY <2>1, <2>2, CallKinds
  <2>. QED
    BY <1>1, <1>4, <2>1, <2>2, <2>3, OthersAfterWrite DEF Writing
<1>5. CallsInOrder'
  BY <1>1, <1>3, <1>4 DEF CallsInOrder, TypeInv
<1>. QED
  BY <1>2, <1>3, <1>4, <1>5

LEMMA LinkType ==
  ASSUME TypeInv, NEW c \in Callers, NEW a \in Ids, NEW b \in Ids,
         Link(c, a, b)
  PROVE  TypeInv'
<1>1. CallsType' /\ CallsInOrder'
  BY LinkEffect
<1>2. edges' \subseteq Ids \X Ids
  BY DEF Link, CreateEdge, TypeInv, TypeOK
<1>3. mentioned' = mentioned \cup {a, b} /\ live' = live
        /\ disturbed' \subseteq disturbed \cup {a, b}
  BY DEF Link
<1>4. CountsType'
  BY MemoryAssumption DEF Link, MayWrite, TypeInv, TypeOK, CountsType
<1>data. DataType' /\ HistoryType' /\ CountsType'
  BY <1>1, <1>2, <1>3, <1>4
  DEF TypeInv, TypeOK, DataType, HistoryType, Link
<1>. QED
  BY <1>data, <1>1, TypePartsNext DEF TypeInv

LEMMA FailType ==
  ASSUME TypeInv, NEW c \in Callers, Fail(c)
  PROVE  TypeInv'
<1>1. CallsType' /\ CallsInOrder'
  BY ReturnType DEF Fail
<1>2. disturbed' \subseteq mentioned
  <2>1. CASE calls[c].op = "search"
    BY <2>1 DEF Fail, TypeInv, TypeOK
  <2>2. CASE calls[c].op # "search"
    <3>1. Writing(c, calls[c].id) /\ calls[c] \in Call
      BY <2>2 DEF Fail, Writing, TypeInv, TypeOK, Call
    <3>2. calls[c] \in WriteCall
      BY <2>2, <3>1, CallKinds
    <3>3. calls[c].id \in mentioned
      BY <3>1, <3>2 DEF WriteCall, TypeInv, CallsInOrder
    <3>. QED
      BY <3>3 DEF Fail, TypeInv, TypeOK
  <2>. QED
    BY <2>1, <2>2
<1>data. DataType' /\ HistoryType' /\ CountsType'
  BY <1>1, <1>2
  DEF TypeInv, TypeOK, DataType, HistoryType, CountsType, counts, Fail,
      databases
<1>. QED
  BY <1>data, <1>1, TypePartsNext DEF TypeInv


-----------------------------------------------------------------------------
\* What a search has at hand before it is ranked, and after.
LEMMA UnrankedType ==
  ASSUME NEW at \in {"graph", "rank"}, NEW request \in Requests,
         NEW found \in [Ids -> Row \cup {None}], NEW left \in Nat,
         NEW frontier \in SUBSET Ids, NEW new \in SUBSET Ids,
         NEW seen \in SUBSET Ids, NEW alone \in BOOLEAN,
         NEW missed \in BOOLEAN
  PROVE  [op |-> "search", at |-> at, request |-> request, found |-> found,
          left |-> left, frontier |-> frontier, new |-> new, seen |-> seen,
          alone |-> alone, missed |-> missed] \in SearchCall
  BY DEF SearchCall

Unranked ==
  [op : {"search"}, at : {"graph", "rank"}, request : Requests,
   found : [Ids -> Row \cup {None}], left : Nat, frontier : SUBSET Ids,
   new : SUBSET Ids, seen : SUBSET Ids, alone : BOOLEAN, missed : BOOLEAN]

LEMMA SearchingType ==
  ASSUME TypeOK, NEW c \in Callers, calls[c] # None, calls[c].op = "search"
  PROVE  /\ calls[c] \in SearchCall
         /\ calls[c].at # "record" =>
              /\ calls[c] \in Unranked
              /\ calls[c].request \in Requests
              /\ calls[c].found \in [Ids -> Row \cup {None}]
              /\ calls[c].left \in Nat
              /\ calls[c].frontier \subseteq Ids /\ calls[c].new \subseteq Ids
              /\ calls[c].seen \subseteq Ids
              /\ calls[c].alone \in BOOLEAN /\ calls[c].missed \in BOOLEAN
         /\ calls[c].at = "record" =>
              /\ calls[c] = [op |-> "search", at |-> "record",
                   request |-> calls[c].request, results |-> calls[c].results,
                   alone |-> calls[c].alone]
              /\ calls[c].request \in Requests
              /\ calls[c].results \subseteq Ids
              /\ calls[c].alone \in BOOLEAN
<1>1. calls[c] \in SearchCall
  BY CallKinds DEF TypeOK, Call
<1>. QED
  BY <1>1 DEF SearchCall, Unranked

LEMMA SearchComesInType ==
  ASSUME TypeInv, NEW c \in Callers, NEW request \in Requests,
         Search(c, request)
  PROVE  \E k \in SearchCall : calls' = [calls EXCEPT ![c] = k]
<1> DEFINE n == Least(Overfetch * request.limit, Cardinality(RowsOf(Ids)))
<1>1. PICK hits \in Rankings(n) :
        calls' = [calls EXCEPT ![c] =
          [op |-> "search", at |-> "graph", request |-> request,
           found |-> [id \in Ids |->
             IF {i \in DOMAIN hits : hits[i][1] = id} = {} THEN None
             ELSE
               rows[id][hits[Min({i \in DOMAIN hits : hits[i][1] = id})][2]]],
           left |-> request.depth,
           frontier |->
             {hits[i][1] : i \in 1..Least(request.limit, Len(hits))},
           new |-> {},
           seen |-> {hits[i][1] : i \in 1..Least(request.limit, Len(hits))},
           alone |-> Writers(Ids) = {}, missed |-> FALSE]]
  BY DEF Search
<1>2. TypeOK
  BY DEF TypeInv
<1>3. request.limit \in Nat \ {0} /\ request.depth \in Nat
  BY MemoryAssumption DEF Request
<1>4. n \in Nat
  <2>1. Cardinality(RowsOf(Ids)) \in Nat
    BY <1>2, RowsOfType, FS_CardinalityType
  <2>2. Overfetch * request.limit \in Nat
    BY <1>3, MemoryAssumption
  <2>. QED
    BY <2>1, <2>2 DEF Least
<1> HIDE DEF n
<1>5. hits \in [1..n -> RowsOf(Ids)]
  BY DEF Rankings
<1>6. Len(hits) = n
  BY <1>4, <1>5
<1> DEFINE ranks(id) == {i \in DOMAIN hits : hits[i][1] = id}
           found == [id \in Ids |-> IF ranks(id) = {} THEN None
                                    ELSE rows[id][hits[Min(ranks(id))][2]]]
           seeds == {hits[i][1] : i \in 1..Least(request.limit, Len(hits))}
<1>7. found \in [Ids -> Row \cup {None}]
  <2> SUFFICES ASSUME NEW id \in Ids, ranks(id) # {}
               PROVE  rows[id][hits[Min(ranks(id))][2]] \in Row
    OBVIOUS
  <2> DEFINE first == Min(ranks(id))
  <2>1. ranks(id) \in SUBSET Nat
    BY <1>4, <1>5
  <2>2. first \in ranks(id)
    BY <2>1, MinIsMember
  <2> HIDE DEF first
  <2>3. hits[first] \in RowsOf(Ids) /\ hits[first][1] = id
    BY <1>5, <2>2
  <2>4. rows[id][hits[first][2]] \in Row
    BY <1>2, <2>3, RowsOfType
  <2>. QED
    BY <2>4 DEF first
<1>8. seeds \subseteq Ids
  <2> SUFFICES ASSUME NEW i \in 1..Least(request.limit, Len(hits))
               PROVE  hits[i][1] \in Ids
    OBVIOUS
  <2>1. i \in 1..n
    BY <1>3, <1>4, <1>6 DEF Least
  <2>2. hits[i] \in RowsOf(Ids)
    BY <1>5, <2>1
  <2>. QED
    BY <1>2, <2>2, RowsOfType
<1> DEFINE k == [op |-> "search", at |-> "graph", request |-> request,
                 found |-> found, left |-> request.depth, frontier |-> seeds,
                 new |-> {}, seen |-> seeds,
                 alone |-> Writers(Ids) = {}, missed |-> FALSE]
<1>9. calls' = [calls EXCEPT ![c] = k]
  BY <1>1
<1> HIDE DEF found, seeds
<1>10. k \in SearchCall
  BY <1>3, <1>7, <1>8, UnrankedType
<1> HIDE DEF k
<1>. QED
  BY <1>9, <1>10

LEMMA FollowType ==
  ASSUME TypeInv, NEW c \in Callers, NEW id \in Ids, Follow(c, id)
  PROVE  \E k \in SearchCall : calls' = [calls EXCEPT ![c] = k]
<1> DEFINE call == calls[c]
<1>1. /\ call.op = "search" /\ call.at = "graph" /\ call # None
      /\ call.left > 0
  BY DEF Follow, In
<1>2. PICK neighbours \in {Neighbours(id), {}} :
        LET new  == call.new \cup (neighbours \ call.seen)
            rest == call.frontier \ {id}
            next == [call EXCEPT !.seen = @ \cup neighbours, !.frontier = rest,
                       !.new = new,
                       !.missed = @ \/ neighbours # Neighbours(id)]
        IN  calls' = [calls EXCEPT ![c] =
              IF rest # {} THEN next
              ELSE [next EXCEPT !.left = @ - 1, !.frontier = new, !.new = {}]]
  BY DEF Follow
<1> DEFINE new  == call.new \cup (neighbours \ call.seen)
           rest == call.frontier \ {id}
           seen == call.seen \cup neighbours
           missed == call.missed \/ neighbours # Neighbours(id)
           next == [call EXCEPT !.seen = seen, !.frontier = rest,
                       !.new = new, !.missed = missed]
           last == [next EXCEPT !.left = @ - 1, !.frontier = new, !.new = {}]
<1>3. neighbours \subseteq Ids
  <2>1. Neighbours(id) \subseteq Ids
    BY DEF Neighbours, EdgesFor, TypeInv, TypeOK
  <2>. QED
    BY <2>1
<1>4. calls' = [calls EXCEPT ![c] = IF rest # {} THEN next ELSE last]
  BY <1>2
<1>5. /\ call \in Unranked /\ call.left \in Nat
      /\ call.frontier \subseteq Ids /\ call.new \subseteq Ids
      /\ call.seen \subseteq Ids /\ call.missed \in BOOLEAN
  BY <1>1, SearchingType DEF TypeInv
<1>6. new \in SUBSET Ids /\ rest \in SUBSET Ids /\ seen \in SUBSET Ids
        /\ missed \in BOOLEAN /\ call.left - 1 \in Nat
  BY <1>1, <1>3, <1>5
<1> HIDE DEF new, rest, seen, missed, call
<1>7. next \in Unranked /\ next.left = call.left
  BY <1>5, <1>6 DEF Unranked
<1> HIDE DEF next
<1>8. last \in Unranked
  BY <1>1, <1>5, <1>6, <1>7 DEF Unranked
<1> HIDE DEF last
<1>. QED
  BY <1>4, <1>7, <1>8 DEF Unranked, SearchCall

LEMMA FetchType ==
  ASSUME TypeInv, NEW c \in Callers, Fetch(c)
  PROVE  \E k \in SearchCall : calls' = [calls EXCEPT ![c] = k]
<1> DEFINE call == calls[c]
<1>1. call.op = "search" /\ call.at = "graph" /\ call # None
  BY DEF Fetch, In
<1>2. PICK row \in [OnlyLinked(call) -> UNION {ToSet(rows[id]) : id \in Ids}] :
        /\ \A id \in DOMAIN row : row[id] \in ToSet(rows[id])
        /\ calls' = [calls EXCEPT
             ![c].found = [id \in Ids |->
                             IF id \in DOMAIN row THEN row[id] ELSE @[id]],
             ![c].at = "rank"]
  BY DEF Fetch
<1>3. call \in Unranked /\ call.found \in [Ids -> Row \cup {None}]
  BY <1>1, SearchingType DEF TypeInv
<1> DEFINE found == [id \in Ids |->
                       IF id \in DOMAIN row THEN row[id] ELSE call.found[id]]
           k == [call EXCEPT !.found = found, !.at = "rank"]
<1>4. \A id \in Ids : ToSet(rows[id]) \subseteq Row
  BY DEF ToSet, TypeInv, TypeOK
<1>5. found \in [Ids -> Row \cup {None}]
  BY <1>2, <1>3, <1>4
<1>6. calls \in [Callers -> Call \cup {None}]
  BY TypeParts DEF TypeInv, CallsType
<1>7. calls' = [calls EXCEPT ![c] = k]
  BY <1>2, <1>6
<1> HIDE DEF found, call
<1>8. k \in Unranked
  BY <1>3, <1>5 DEF Unranked
<1> HIDE DEF k
<1>. QED
  BY <1>7, <1>8 DEF Unranked, SearchCall

LEMMA RankType ==
  ASSUME TypeInv, NEW c \in Callers, Rank(c)
  PROVE  \E k \in SearchCall : calls' = [calls EXCEPT ![c] = k]
<1> DEFINE call == calls[c]
<1>1. call.op = "search" /\ call.at = "rank" /\ call # None
  BY DEF Rank, In
<1>2. PICK results \in SUBSET Ids :
        calls' = [calls EXCEPT ![c] =
          [op |-> "search", at |-> "record", request |-> call.request,
           results |-> results, alone |-> call.alone]]
  BY DEF Rank, kSubset
<1>3. call.request \in Requests /\ call.alone \in BOOLEAN
  BY <1>1, SearchingType DEF TypeInv
<1> HIDE DEF call
<1>4. [op |-> "search", at |-> "record", request |-> call.request,
       results |-> results, alone |-> call.alone] \in SearchCall
  BY <1>3 DEF SearchCall
<1>. QED
  BY <1>2, <1>4

LEMMA RecordType ==
  ASSUME TypeInv, NEW c \in Callers, NEW id \in Ids, Record(c, id)
  PROVE  \E k \in SearchCall : calls' = [calls EXCEPT ![c] = k]
<1> DEFINE call == calls[c]
           results == call.results \ {id}
           k == [call EXCEPT !.results = results]
<1>1. call.op = "search" /\ call.at = "record" /\ call # None
  BY DEF Record, In
<1>2. calls' = [calls EXCEPT ![c] = k]
  BY DEF Record
<1>3. call = [op |-> "search", at |-> "record", request |-> call.request,
              results |-> call.results, alone |-> call.alone]
        /\ call.request \in Requests /\ call.results \subseteq Ids
        /\ call.alone \in BOOLEAN
  BY <1>1, SearchingType DEF TypeInv
<1>4. results \in SUBSET Ids
  BY <1>3
<1> HIDE DEF call, results
<1>5. k \in SearchCall
  BY <1>3, <1>4 DEF SearchCall
<1>. QED
  BY <1>2, <1>5

\* A step of a search touches none of the calls that write, and of the
\* databases no more than the count of accesses.
LEMMA SearchStepEffect ==
  ASSUME TypeInv, NEW c \in Callers, SearchStep(c)
  PROVE  /\ CallsType' /\ CallsInOrder' /\ CountsType'
         /\ \A d \in Callers, i \in Ids : Writing(d, i)' <=> Writing(d, i)
         /\ \A d \in Callers, i \in Ids :
              Writing(d, i) => calls'[d] = calls[d]
         /\ UNCHANGED <<rows, edges, mentioned, live, disturbed>>
         /\ meta' = meta \/ \E id \in Ids : RecordAccess(id)
<1>1. /\ calls[c] = None \/ calls[c].op = "search"
      /\ UNCHANGED <<rows, edges, mentioned, live, disturbed>>
      /\ meta' = meta \/ \E id \in Ids : RecordAccess(id)
  BY DEF SearchStep, Search, MaySearch, Follow, Fetch, Rank, Record,
         SearchReturns, In, databases, history
<1>2. CountsType'
  <2>1. \/ UNCHANGED <<writes, searches>>
        \/ searches < MaxSearches /\ searches' = searches + 1
             /\ UNCHANGED writes
    BY DEF SearchStep, Search, MaySearch, Follow, Fetch, Rank, Record,
           SearchReturns, counts
  <2>. QED
    BY <2>1, MemoryAssumption DEF TypeInv, TypeOK, CountsType
<1>3. CASE \E k \in SearchCall : calls' = [calls EXCEPT ![c] = k]
  BY <1>1, <1>2, <1>3, SearchType
<1>4. CASE SearchReturns(c)
  <2>1. Return(c) /\ calls[c].op = "search"
    BY <1>4 DEF SearchReturns, In
  <2>. QED
    BY <1>1, <1>2, <2>1, ReturnType DEF Writing
<1>. QED
  BY <1>3, <1>4, SearchComesInType, FollowType, FetchType, RankType, RecordType
  DEF SearchStep

LEMMA RecordAccessType ==
  ASSUME TypeOK, NEW id \in Ids, RecordAccess(id)
  PROVE  /\ meta' \in [Ids -> Metadata \cup {None}]
         /\ \A i \in Ids : /\ meta[i] = None <=> meta'[i] = None
                           /\ meta[i] # None => meta'[i].type = meta[i].type
<1> DEFINE m == [type |-> meta[id].type, accesses |-> meta[id].accesses + 1]
<1>1. ASSUME meta[id] # None, ~ (meta[id].accesses >= MaxAccesses)
      PROVE  m \in Metadata
  <2>1. meta[id] \in Metadata
    BY <1>1 DEF TypeOK
  <2>2. meta[id].accesses + 1 \in 0..MaxAccesses
    BY <1>1, <2>1, MemoryAssumption DEF Metadata
  <2>. QED
    BY <2>1, <2>2 DEF Metadata
<1>2. m.type = meta[id].type
  OBVIOUS
<1>3. meta' = [meta EXCEPT ![id] =
                 IF meta[id] = None \/ meta[id].accesses >= MaxAccesses
                 THEN meta[id] ELSE m]
  BY DEF RecordAccess
<1> HIDE DEF m
<1>. QED
  BY <1>1, <1>2, <1>3, NoneAssumption DEF TypeOK

LEMMA SearchStepType ==
  ASSUME TypeInv, NEW c \in Callers, SearchStep(c)
  PROVE  TypeInv'
<1>1. meta' \in [Ids -> Metadata \cup {None}]
  BY SearchStepEffect, RecordAccessType DEF TypeInv, TypeOK
<1>2. DataType' /\ HistoryType'
  BY <1>1, SearchStepEffect DEF TypeInv, TypeOK, DataType, HistoryType
<1>. QED
  BY <1>2, SearchStepEffect, TypePartsNext DEF TypeInv

LEMMA LinkEnds ==
  ASSUME NEW link \in Links
  PROVE  link[1] \in Ids /\ link[2] \in Ids
  BY MemoryAssumption

LEMMA StepType == TypeInv /\ [Next]_vars => TypeInv'
<1> SUFFICES ASSUME TypeInv, [Next]_vars PROVE TypeInv'
  OBVIOUS
<1>1. ASSUME NEW c \in Callers, WriteStep(c)
      PROVE  TypeInv'
  BY <1>1, LinkEnds, StoreType, UpdateCallType, StoreMetadataType,
     UpdateAddType, UpdateMetadataType, DeleteCallType, DeleteEdgesType,
     DeleteLastType, LinkType
  DEF WriteStep
<1>2. CASE UNCHANGED vars
  BY <1>2 DEF vars, databases, history, counts, TypeInv, TypeOK, CallsInOrder,
              Writing
<1>. QED
  BY <1>1, <1>2, SearchStepType, FailType DEF Next

\* Every variable keeps its type: a search holds rows and ids only, and a call
\* that writes is always at a step of its own operation.
THEOREM MemoryTypes == Spec => []TypeOK
<1>1. TypeInv => TypeOK
  BY DEF TypeInv
<1>. QED
  BY <1>1, InitType, StepType, PTL DEF Spec

-----------------------------------------------------------------------------
(***************************************************************************)
(* A memory that was never named has left nothing anywhere                 *)
(***************************************************************************)
LEMMA UnnamedInit == Init => UnnamedIsGone
  BY DEF Init, UnnamedIsGone, Gone, EdgesFor

LEMMA UnnamedStep ==
  TypeInv /\ UnnamedIsGone /\ [Next]_vars => UnnamedIsGone'
<1> SUFFICES ASSUME TypeInv, UnnamedIsGone, [Next]_vars,
                    NEW i \in Ids, i \notin mentioned'
             PROVE  Gone(i)'
  BY DEF UnnamedIsGone
<1> USE DEF UnnamedIsGone, Gone, EdgesFor, TypeInv, TypeOK
<1>1. CASE UNCHANGED vars
  BY <1>1 DEF vars, databases, history
<1>2. ASSUME NEW c \in Callers, NEW id \in Ids, NEW content \in Contents,
             NEW given \in Given, Store(c, id, content, given)
      PROVE  Gone(i)'
  BY <1>2 DEF Store, Write, AddRow
<1>3. ASSUME NEW c \in Callers, NEW id \in Ids, NEW content \in Contents,
             NEW given \in Given, Update(c, id, content, given)
      PROVE  Gone(i)'
  BY <1>3 DEF Update, Write, DeleteRows
<1>4. ASSUME NEW c \in Callers, StoreMetadata(c)
      PROVE  Gone(i)'
  <2>1. calls[c].id \in mentioned
    BY <1>4, LaterStep DEF StoreMetadata, Steps
  <2>. QED
    BY <1>4, <2>1 DEF StoreMetadata, InitMetadata
<1>5. ASSUME NEW c \in Callers, UpdateAdd(c)
      PROVE  Gone(i)'
  <2>1. calls[c].id \in mentioned
    BY <1>5, LaterStep DEF UpdateAdd, Steps
  <2>. QED
    BY <1>5, <2>1 DEF UpdateAdd, AddRow, history
<1>6. ASSUME NEW c \in Callers, UpdateMetadata(c)
      PROVE  Gone(i)'
  BY <1>6 DEF UpdateMetadata, UpdateType, history
<1>7. ASSUME NEW c \in Callers, NEW id \in Ids, Delete(c, id)
      PROVE  Gone(i)'
  BY <1>7 DEF Delete, Write, DeleteRows
<1>8. ASSUME NEW c \in Callers, DeleteEdges(c)
      PROVE  Gone(i)'
  BY <1>8 DEF DeleteEdges, DeleteEdgesFor, history
<1>9. ASSUME NEW c \in Callers, DeleteLast(c)
      PROVE  Gone(i)'
  BY <1>9 DEF DeleteLast, DeleteMetadata
<1>10. ASSUME NEW c \in Callers, NEW link \in Links, Link(c, link[1], link[2])
       PROVE  Gone(i)'
  <2>1. i \notin {link[1], link[2]} /\ i \notin mentioned
    BY <1>10 DEF Link
  <2>2. edges' = edges \cup {<<link[1], link[2]>>}
    BY <1>10 DEF Link, CreateEdge
  <2>3. {e \in edges' : i \in {e[1], e[2]}} = {}
    BY <2>1, <2>2
  <2>. QED
    BY <1>10, <2>1, <2>3 DEF Link
<1>11. ASSUME NEW c \in Callers, SearchStep(c)
       PROVE  Gone(i)'
  BY <1>11, SearchStepEffect, RecordAccessType
<1>12. ASSUME NEW c \in Callers, Fail(c)
       PROVE  Gone(i)'
  BY <1>12 DEF Fail, databases
<1>. QED
  BY <1>1, <1>2, <1>3, <1>4, <1>5, <1>6, <1>7, <1>8, <1>9, <1>10, <1>11, <1>12
  DEF Next, WriteStep

-----------------------------------------------------------------------------
(***************************************************************************)
(* No more rows of a memory than callers                                   *)
(***************************************************************************)
\* The callers whose update is about to add a row of id.
Adding(id) == {c \in Callers : In(c, "update", "add") /\ calls[c].id = id}

LEMMA AddingIsWriting ==
  ASSUME NEW id \in Ids
  PROVE  Adding(id) = {c \in Callers : /\ Writing(c, id)
                                       /\ calls[c].op = "update"
                                       /\ calls[c].at = "add"}
  BY DEF Adding, In, Writing

LEMMA AddingIsWritingNext ==
  ASSUME NEW id \in Ids
  PROVE  Adding(id)' = {c \in Callers : /\ Writing(c, id)'
                                        /\ calls'[c].op = "update"
                                        /\ calls'[c].at = "add"}
  BY DEF Adding, In, Writing

\* Only the update of a memory adds to them.
LEMMA WriteAdding ==
  ASSUME TypeInv, NEW c \in Callers, NEW id \in Ids,
         NEW op \in DOMAIN Steps, NEW at \in Steps[op],
         NEW row \in Row \cup {None}, op # "delete" => row \in Row,
         MayWrite(c), Write(c, id, op, at, row),
         NEW i \in Ids, i # id \/ op # "update"
  PROVE  Adding(i)' \subseteq Adding(i)
<1>1. /\ calls'[c].op = op
      /\ \A d \in Callers, j \in Ids :
           Writing(d, j)' <=> \/ d = c /\ j = id
                              \/ d # c /\ Writing(d, j)
      /\ \A d \in Callers, j \in Ids : d # c /\ Writing(d, j) =>
           calls'[d].op = calls[d].op /\ calls'[d].at = calls[d].at
  BY WriteType, ZenonT(60)
<1>2. ASSUME NEW d \in Adding(i)'
      PROVE  d \in Adding(i)
  <2>1. /\ d \in Callers /\ Writing(d, i)'
        /\ calls'[d].op = "update" /\ calls'[d].at = "add"
    BY <1>2, AddingIsWritingNext
  <2>2. d # c
    BY <1>1, <2>1
  <2>3. /\ Writing(d, i)
        /\ calls[d].op = "update" /\ calls[d].at = "add"
    BY <1>1, <2>1, <2>2
  <2>. QED
    BY <2>1, <2>3, AddingIsWriting
<1>. QED
  BY <1>2

Bounded(id) == Len(rows[id]) + Cardinality(Adding(id)) <= Cardinality(Callers)

LEMMA CallersFinite ==
  /\ IsFiniteSet(Callers) /\ Cardinality(Callers) \in Nat \ {0}
  /\ \A S \in SUBSET Callers :
       /\ IsFiniteSet(S) /\ Cardinality(S) \in Nat
       /\ Cardinality(S) <= Cardinality(Callers)
<1>1. IsFiniteSet(Callers) /\ Callers # {}
  BY MemoryAssumption
<1>2. Cardinality(Callers) \in Nat /\ Cardinality(Callers) # 0
  BY <1>1, FS_CardinalityType, FS_EmptySet
<1>3. ASSUME NEW S \in SUBSET Callers
      PROVE  /\ IsFiniteSet(S) /\ Cardinality(S) \in Nat
             /\ Cardinality(S) <= Cardinality(Callers)
  <2>1. IsFiniteSet(S) /\ Cardinality(S) <= Cardinality(Callers)
    BY <1>1, FS_Subset
  <2>. QED
    BY <2>1, FS_CardinalityType
<1>. QED
  BY <1>1, <1>2, <1>3

LEMMA NoRowsBounded ==
  ASSUME NEW id \in Ids, rows'[id] = <<>>
  PROVE  Bounded(id)'
<1>1. Adding(id)' \in SUBSET Callers
  BY DEF Adding
<1>2. Cardinality(Adding(id)') <= Cardinality(Callers)
        /\ Cardinality(Adding(id)') \in Nat
  BY <1>1, CallersFinite
<1>. QED
  BY <1>2 DEF Bounded

LEMMA NoMoreAddingBounded ==
  ASSUME TypeOK, NEW id \in Ids, Bounded(id), rows'[id] = rows[id],
         Adding(id)' \subseteq Adding(id)
  PROVE  Bounded(id)'
<1>1. Adding(id) \in SUBSET Callers
  BY DEF Adding
<1>2. IsFiniteSet(Adding(id)) /\ Cardinality(Adding(id)) \in Nat
  BY <1>1, CallersFinite
<1>3. Cardinality(Adding(id)') <= Cardinality(Adding(id))
        /\ Cardinality(Adding(id)') \in Nat
  BY <1>2, FS_Subset, FS_CardinalityType
<1>4. Len(rows[id]) \in Nat
  BY DEF TypeOK
<1>. QED
  BY <1>2, <1>3, <1>4, CallersFinite DEF Bounded

RowsInv == TypeInv /\ UnnamedIsGone /\ RowsBounded

LEMMA RowsStep == RowsInv /\ [Next]_vars => RowsBounded'
<1> SUFFICES ASSUME RowsInv, [Next]_vars, NEW i \in Ids
             PROVE  Bounded(i)'
  BY DEF RowsBounded, Bounded, Adding
<1>1. TypeInv /\ TypeOK /\ UnnamedIsGone /\ Bounded(i) /\ rows[i] \in Seq(Row)
  BY DEF RowsInv, RowsBounded, Bounded, Adding, TypeInv, TypeOK
<1> USE AddingIsWriting, AddingIsWritingNext
<1>2. CASE UNCHANGED vars
  BY <1>1, <1>2 DEF vars, databases, Bounded, Adding, In
<1>3. ASSUME NEW c \in Callers, NEW id \in Ids, NEW content \in Contents,
             NEW given \in Given, Store(c, id, content, given)
      PROVE  Bounded(i)'
  <2> DEFINE row == NewRow(content, given)
  <2>1. /\ MayWrite(c) /\ Write(c, id, "store", "metadata", row)
        /\ AddRow(id, row) /\ id \notin mentioned /\ row \in Row
    BY <1>3, NewRowType DEF Store
  <2> HIDE DEF row
  <2>2. "store" \in DOMAIN Steps /\ "metadata" \in Steps["store"]
    BY DEF Steps
  <2>3. Adding(i)' \subseteq Adding(i)
    BY <1>1, <2>1, <2>2, WriteAdding
  <2>4. CASE i # id
    BY <1>1, <2>1, <2>3, <2>4, NoMoreAddingBounded DEF AddRow, TypeOK
  <2>5. CASE i = id
    <3>1. rows[i] = <<>>
      BY <1>1, <2>1, <2>5 DEF UnnamedIsGone, Gone
    <3>2. Adding(i) = {}
      BY <1>1, <2>1, <2>5 DEF TypeInv, CallsInOrder
    <3>3. Len(rows'[i]) = 1
      BY <1>1, <2>1, <2>5, <3>1 DEF AddRow, TypeOK
    <3>4. Cardinality(Adding(i)') = 0
      BY <2>3, <3>2, FS_EmptySet
    <3>. QED
      BY <3>3, <3>4, CallersFinite DEF Bounded
  <2>. QED
    BY <2>4, <2>5
<1>4. ASSUME NEW c \in Callers, NEW id \in Ids, NEW content \in Contents,
             NEW given \in Given, Update(c, id, content, given)
      PROVE  Bounded(i)'
  <2> DEFINE row == NewRow(content, given)
  <2>1. /\ MayWrite(c) /\ Write(c, id, "update", "add", row)
        /\ DeleteRows(id) /\ row \in Row
    BY <1>4, NewRowType DEF Update
  <2> HIDE DEF row
  <2>2. "update" \in DOMAIN Steps /\ "add" \in Steps["update"]
    BY DEF Steps
  <2>3. CASE i # id
    <3>1. Adding(i)' \subseteq Adding(i)
      BY <1>1, <2>1, <2>2, <2>3, WriteAdding
    <3>. QED
      BY <1>1, <2>1, <2>3, <3>1, NoMoreAddingBounded DEF DeleteRows, TypeOK
  <2>4. CASE i = id
    BY <1>1, <2>1, <2>4, NoRowsBounded DEF DeleteRows, TypeOK
  <2>. QED
    BY <2>3, <2>4
<1>5. ASSUME NEW c \in Callers, UpdateAdd(c)
      PROVE  Bounded(i)'
  <2> DEFINE id == calls[c].id
             row == calls[c].row
  <2>1. "update" \in DOMAIN Steps /\ "type" \in Steps["update"]
    BY DEF Steps
  <2>2. id \in Ids /\ row \in Row /\ Writing(c, id) /\ calls[c].op = "update"
          /\ calls[c].at = "add"
    BY <1>1, <1>5, <2>1, LaterStep DEF UpdateAdd
  <2>3. AddRow(id, row) /\ Goto(c, "type") /\ mentioned' = mentioned
    BY <1>5 DEF UpdateAdd, history
  <2> HIDE DEF id, row
  <2>4. Adding(i)' = Adding(i) \ {c}
    BY <1>1, <2>1, <2>2, <2>3, GotoType
  <2>5. CASE i # id
    BY <1>1, <2>3, <2>4, <2>5, NoMoreAddingBounded DEF AddRow, TypeOK
  <2>6. CASE i = id
    <3>1. c \in Adding(i)
      BY <2>2, <2>6
    <3>2. Adding(i) \in SUBSET Callers
      OBVIOUS
    <3>3. IsFiniteSet(Adding(i)) /\ Cardinality(Adding(i)) \in Nat
      BY <3>2, CallersFinite
    <3>4. Cardinality(Adding(i)') = Cardinality(Adding(i)) - 1
      BY <2>4, <3>1, <3>3, FS_RemoveElement
    <3>5. rows'[i] = Append(rows[i], row)
      BY <1>1, <2>3, <2>6 DEF AddRow, TypeOK
    <3>6. Len(rows'[i]) = Len(rows[i]) + 1 /\ Len(rows[i]) \in Nat
      BY <1>1, <2>2, <3>5
    <3>. QED
      BY <1>1, <3>3, <3>4, <3>6, CallersFinite DEF Bounded
  <2>. QED
    BY <2>5, <2>6
<1>6. ASSUME NEW c \in Callers, NEW id \in Ids, Delete(c, id)
      PROVE  Bounded(i)'
  <2>1. /\ MayWrite(c) /\ Write(c, id, "delete", "edges", None)
        /\ DeleteRows(id)
    BY <1>6 DEF Delete
  <2>2. "delete" \in DOMAIN Steps /\ "edges" \in Steps["delete"]
    BY DEF Steps
  <2>3. CASE i # id
    <3>1. Adding(i)' \subseteq Adding(i)
      BY <1>1, <2>1, <2>2, <2>3, WriteAdding
    <3>. QED
      BY <1>1, <2>1, <2>3, <3>1, NoMoreAddingBounded DEF DeleteRows, TypeOK
  <2>4. CASE i = id
    BY <1>1, <2>1, <2>4, NoRowsBounded DEF DeleteRows, TypeOK
  <2>. QED
    BY <2>3, <2>4
<1>7. ASSUME NEW c \in Callers,
             StoreMetadata(c) \/ UpdateMetadata(c) \/ DeleteLast(c) \/ Fail(c)
      PROVE  Bounded(i)'
  <2>1. Return(c) /\ mentioned' = mentioned /\ rows' = rows
    BY <1>7 DEF StoreMetadata, UpdateMetadata, DeleteLast, Fail, history,
                databases
  <2>2. Adding(i)' \subseteq Adding(i)
    BY <1>1, <2>1, ReturnType
  <2>. QED
    BY <1>1, <2>1, <2>2, NoMoreAddingBounded
<1>8. ASSUME NEW c \in Callers, DeleteEdges(c)
      PROVE  Bounded(i)'
  <2>1. "delete" \in DOMAIN Steps /\ "metadata" \in Steps["delete"]
    BY DEF Steps
  <2>2. calls[c].id \in Ids /\ Writing(c, calls[c].id)
          /\ calls[c].op = "delete"
    BY <1>1, <1>8, <2>1, LaterStep DEF DeleteEdges
  <2>3. Goto(c, "metadata") /\ mentioned' = mentioned /\ rows' = rows
    BY <1>8 DEF DeleteEdges, history
  <2>4. Adding(i)' \subseteq Adding(i)
    BY <1>1, <2>1, <2>2, <2>3, GotoType
  <2>. QED
    BY <1>1, <2>3, <2>4, NoMoreAddingBounded
<1>9. ASSUME NEW c \in Callers, NEW link \in Links, Link(c, link[1], link[2])
      PROVE  Bounded(i)'
  <2>1. link[1] \in Ids /\ link[2] \in Ids
    BY LinkEnds
  <2>2. \A d \in Callers : /\ Writing(d, i)' <=> Writing(d, i)
                           /\ Writing(d, i) => /\ calls'[d].op = calls[d].op
                                               /\ calls'[d].at = calls[d].at
    BY <1>1, <1>9, <2>1, LinkEffect
  <2>3. Adding(i)' \subseteq Adding(i)
    BY <2>2
  <2>. QED
    BY <1>1, <1>9, <2>3, NoMoreAddingBounded DEF Link
<1>10. ASSUME NEW c \in Callers, SearchStep(c)
       PROVE  Bounded(i)'
  <2>1. Adding(i)' \subseteq Adding(i) /\ rows' = rows
    BY <1>1, <1>10, SearchStepEffect
  <2>. QED
    BY <1>1, <2>1, NoMoreAddingBounded
<1>. QED
  BY <1>2, <1>3, <1>4, <1>5, <1>6, <1>7, <1>8, <1>9, <1>10 DEF Next, WriteStep

LEMMA RowsInit == Init => RowsBounded
<1> SUFFICES ASSUME Init, NEW i \in Ids PROVE Bounded(i)
  BY DEF RowsBounded, Bounded, Adding
<1>1. Adding(i) = {}
  BY DEF Init, Adding, In
<1>2. Len(rows[i]) \in {0, 1}
  <2>1. PICK stored :
          rows = [id \in Ids |-> IF id \in Old THEN <<stored[id]>> ELSE <<>>]
    BY DEF Init
  <2> DEFINE row == stored[i]
  <2>2. rows[i] = <<>> \/ rows[i] = <<row>>
    BY <2>1
  <2> HIDE DEF row
  <2>3. Len(<<>>) = 0 /\ Len(<<row>>) = 1
    OBVIOUS
  <2>. QED
    BY <2>2, <2>3
<1>3. Cardinality(Adding(i)) = 0
  BY <1>1, FS_EmptySet
<1>4. Cardinality(Callers) \in Nat /\ Cardinality(Callers) >= 1
  BY CallersFinite
<1> DEFINE n == Len(rows[i])
           k == Cardinality(Callers)
<1>5. n \in {0, 1} /\ k \in Nat /\ k >= 1
  BY <1>2, <1>4
<1> HIDE DEF n, k
<1>6. n + 0 <= k
  BY <1>5
<1> USE DEF n, k
<1>. QED
  BY <1>3, <1>6 DEF Bounded

\* However updates, deletions and failures overlap, a memory has no more rows
\* than there are callers, those that updates are about to add included.
THEOREM RowsAreBounded == Spec => []RowsBounded
<1>1. Init => RowsInv
  BY InitType, UnnamedInit, RowsInit DEF RowsInv
<1>2. RowsInv /\ [Next]_vars => RowsInv'
  BY StepType, UnnamedStep, RowsStep DEF RowsInv
<1>3. RowsInv => RowsBounded
  BY DEF RowsInv
<1>. QED
  BY <1>1, <1>2, <1>3, PTL DEF Spec

-----------------------------------------------------------------------------
(***************************************************************************)
(* The two databases agree                                                 *)
(***************************************************************************)
\* The three invariants of one memory.
Sound(id) ==
  /\ \A c \in Callers : Writing(c, id) =>
       /\ calls[c].alone => /\ HalfDone(c, id)
                            /\ \A d \in Callers : Writing(d, id) => d = c
       /\ id \notin disturbed => calls[c].alone /\ HalfWhole(c, id)
  /\ id \notin disturbed /\ (\A c \in Callers : ~ Writing(c, id)) =>
       IF id \in live THEN Whole(id) ELSE Gone(id)

LEMMA SoundParts ==
  ASSUME TypeOK
  PROVE  (\A id \in Ids : Sound(id)) <=>
           AloneIsAlone /\ CallsProgress /\ DatabasesAgree
<1>1. \A id \in Ids : Writers({id}) = {} <=>
                        \A c \in Callers : ~ Writing(c, id)
  BY WritersAreWriting
<1>. QED
  BY <1>1 DEF Sound, AloneIsAlone, CallsProgress, DatabasesAgree

\* A step that is not about a memory leaves it as sound as it was: edges to
\* it may go when the other end is deleted.
LEMMA OtherMemory ==
  ASSUME NEW i \in Ids, Sound(i), rows'[i] = rows[i],
         meta'[i] = None <=> meta[i] = None,
         meta[i] # None => meta'[i].type = meta[i].type,
         EdgesFor(i)' \subseteq EdgesFor(i),
         i \in live' <=> i \in live, i \in disturbed' <=> i \in disturbed,
         \A d \in Callers :
           /\ Writing(d, i)' <=> Writing(d, i)
           /\ Writing(d, i) =>
                /\ calls'[d].op = calls[d].op /\ calls'[d].at = calls[d].at
                /\ calls'[d].row = calls[d].row
                /\ calls'[d].alone <=> calls[d].alone
  PROVE  Sound(i)'
<1>1. Gone(i) => Gone(i)'
  BY DEF Gone
<1>2. Whole(i) => Whole(i)'
  BY DEF Whole
<1>3. ASSUME NEW d \in Callers, Writing(d, i)
      PROVE  /\ HalfDone(d, i) => HalfDone(d, i)'
             /\ HalfWhole(d, i) => HalfWhole(d, i)'
  BY <1>3 DEF HalfDone, HalfWhole
<1>. QED
  BY <1>1, <1>2, <1>3 DEF Sound

\* The last step of a call: a caller that also writes to the memory is not
\* alone, and the memory is disturbed.
LEMMA CallEnds ==
  ASSUME NEW i \in Ids, Sound(i), NEW c \in Callers, Writing(c, i),
         \A d \in Callers : /\ Writing(d, i)' <=> d # c /\ Writing(d, i)
                            /\ d # c => calls'[d] = calls[d],
         i \in disturbed /\ ~ calls[c].alone => i \in disturbed',
         i \notin disturbed' /\ calls[c].alone =>
           IF i \in live' THEN Whole(i)' ELSE Gone(i)'
  PROVE  Sound(i)'
  BY DEF Sound

\* A step in the middle of a call.
LEMMA CallGoesOn ==
  ASSUME NEW i \in Ids, Sound(i), NEW c \in Callers, Writing(c, i),
         \A d \in Callers : /\ Writing(d, i)' <=> Writing(d, i)
                            /\ d # c => calls'[d] = calls[d],
         disturbed' = disturbed, calls'[c].alone = calls[c].alone,
         calls[c].alone => HalfDone(c, i)',
         i \notin disturbed => HalfWhole(c, i)'
  PROVE  Sound(i)'
  BY DEF Sound

\* A write comes in.
LEMMA CallComesIn ==
  ASSUME TypeInv, NEW i \in Ids, Sound(i), NEW c \in Callers,
         NEW op \in DOMAIN Steps, NEW at \in Steps[op],
         NEW row \in Row \cup {None}, op # "delete" => row \in Row,
         MayWrite(c), Write(c, i, op, at, row),
         HalfDone(c, i)', disturbed \subseteq disturbed',
         i \notin disturbed' => HalfWhole(c, i)' /\ Writers({i}) = {}
  PROVE  Sound(i)'
<1>1. /\ calls'[c].alone <=> Writers({i}) = {}
      /\ \A d \in Callers, j \in Ids :
           Writing(d, j)' <=> \/ d = c /\ j = i
                              \/ d # c /\ Writing(d, j)
      /\ \A d \in Callers, j \in Ids : d # c /\ Writing(d, j) =>
           (calls'[d].alone <=> calls[d].alone /\ j # i)
  BY WriteType
<1>2. Writers({i}) = {d \in Callers : Writing(d, i)}
  BY WritersAreWriting DEF TypeInv
<1>3. Writing(c, i)'
  BY <1>1
<1>4. ASSUME NEW d \in Callers, d # c, Writing(d, i)'
      PROVE  ~ calls'[d].alone /\ i \in disturbed'
  <2>1. Writing(d, i)
    BY <1>1, <1>4
  <2>2. d \in Writers({i})
    BY <1>2, <2>1
  <2>. QED
    BY <1>1, <1>4, <2>1, <2>2
<1>5. calls'[c].alone => \A d \in Callers : Writing(d, i)' => d = c
  BY <1>1, <1>2
<1>. QED
  BY <1>1, <1>3, <1>4, <1>5 DEF Sound

\* The call of c on another memory does not touch i.
LEMMA WriteElsewhere ==
  ASSUME TypeInv, NEW i \in Ids, NEW id \in Ids, i # id, NEW c \in Callers,
         NEW op \in DOMAIN Steps, NEW at \in Steps[op],
         NEW row \in Row \cup {None}, op # "delete" => row \in Row,
         MayWrite(c), Write(c, id, op, at, row)
  PROVE  \A d \in Callers :
           /\ Writing(d, i)' <=> Writing(d, i)
           /\ Writing(d, i) =>
                /\ calls'[d].op = calls[d].op /\ calls'[d].at = calls[d].at
                /\ calls'[d].row = calls[d].row
                /\ calls'[d].alone <=> calls[d].alone
<1>1. /\ \A d \in Callers, j \in Ids :
           Writing(d, j)' <=> \/ d = c /\ j = id
                              \/ d # c /\ Writing(d, j)
      /\ \A d \in Callers, j \in Ids : d # c /\ Writing(d, j) =>
           /\ calls'[d].op = calls[d].op /\ calls'[d].at = calls[d].at
           /\ calls'[d].row = calls[d].row
           /\ calls'[d].alone <=> calls[d].alone /\ j # id
  BY WriteType
<1>2. ~ Writing(c, i)
  BY DEF MayWrite, Writing
<1>. QED
  BY <1>1, <1>2

LEMMA SameEdges ==
  ASSUME NEW i, edges' = edges
  PROVE  EdgesFor(i)' \subseteq EdgesFor(i)
  BY DEF EdgesFor

SoundInv == TypeInv /\ UnnamedIsGone /\ \A id \in Ids : Sound(id)

LEMMA SoundStore ==
  ASSUME SoundInv, NEW i \in Ids, NEW c \in Callers, NEW id \in Ids,
         NEW content \in Contents, NEW given \in Given,
         Store(c, id, content, given)
  PROVE  Sound(i)'
<1> DEFINE row == NewRow(content, given)
<1>1. /\ MayWrite(c) /\ Write(c, id, "store", "metadata", row)
      /\ AddRow(id, row) /\ id \notin mentioned /\ row \in Row
      /\ UNCHANGED <<meta, edges, live, disturbed>>
  BY NewRowType DEF Store
<1> HIDE DEF row
<1>2. "store" \in DOMAIN Steps /\ "metadata" \in Steps["store"]
  BY DEF Steps
<1>3. TypeInv /\ TypeOK /\ Sound(i)
  BY DEF SoundInv, TypeInv
<1>4. CASE i # id
  <2>1. rows'[i] = rows[i]
    BY <1>1, <1>4 DEF AddRow
  <2>. QED
    BY <1>1, <1>2, <1>3, <1>4, <2>1, WriteElsewhere, SameEdges, OtherMemory
<1>5. CASE i = id
  <2>1. Gone(i) /\ i \notin live
    BY <1>1, <1>3, <1>5 DEF SoundInv, UnnamedIsGone, TypeOK
  <2>2. rows'[i] = <<row>>
    BY <1>1, <1>3, <1>5, <2>1 DEF AddRow, Gone, TypeOK
  <2>3. calls'[c].op = "store" /\ calls'[c].row = row
    <3> DEFINE op == "store"
               at == "metadata"
    <3>1. /\ op \in DOMAIN Steps /\ at \in Steps[op] /\ TypeInv
          /\ MayWrite(c) /\ Write(c, id, op, at, row) /\ row \in Row
      BY <1>1, <1>2, <1>3
    <3> HIDE DEF op, at
    <3>2. calls'[c].op = op /\ calls'[c].row = row
      BY <3>1, WriteType
    <3>. QED
      BY <3>2 DEF op
  <2>4. HalfDone(c, i)' /\ HalfWhole(c, i)'
    BY <1>1, <2>1, <2>2, <2>3 DEF HalfDone, HalfWhole, Gone
  <2>5. Writers({i}) = {}
    BY <1>1, <1>3, <1>5, WritersAreWriting DEF TypeInv, CallsInOrder
  <2>. QED
    BY <1>1, <1>2, <1>3, <1>5, <2>4, <2>5, CallComesIn
<1>. QED
  BY <1>4, <1>5

LEMMA SoundUpdate ==
  ASSUME SoundInv, NEW i \in Ids, NEW c \in Callers, NEW id \in Ids,
         NEW content \in Contents, NEW given \in Given,
         Update(c, id, content, given)
  PROVE  Sound(i)'
<1> DEFINE row == NewRow(content, given)
<1>1. /\ MayWrite(c) /\ Write(c, id, "update", "add", row)
      /\ DeleteRows(id) /\ row \in Row
      /\ UNCHANGED <<meta, edges, live>>
      /\ disturbed' = disturbed \cup
           (IF Writers({id}) = {} /\ id \in live THEN {} ELSE {id})
  BY NewRowType DEF Update
<1> HIDE DEF row
<1>2. "update" \in DOMAIN Steps /\ "add" \in Steps["update"]
  BY DEF Steps
<1>3. TypeInv /\ TypeOK /\ Sound(i)
  BY DEF SoundInv, TypeInv
<1>4. CASE i # id
  <2>1. rows'[i] = rows[i] /\ (i \in disturbed' <=> i \in disturbed)
    BY <1>1, <1>4 DEF DeleteRows
  <2>. QED
    BY <1>1, <1>2, <1>3, <1>4, <2>1, WriteElsewhere, SameEdges, OtherMemory
<1>5. CASE i = id
  <2>1. rows'[i] = <<>>
    BY <1>1, <1>3, <1>5 DEF DeleteRows, TypeOK
  <2>2. calls'[c].op = "update" /\ calls'[c].at = "add"
    BY <1>1, <1>2, <1>3, WriteType
  <2>3. HalfDone(c, i)'
    BY <2>1, <2>2 DEF HalfDone
  <2>4. ASSUME i \notin disturbed'
        PROVE  HalfWhole(c, i)' /\ Writers({i}) = {}
    <3>1. Writers({i}) = {} /\ i \in live /\ i \notin disturbed
      BY <1>1, <1>5, <2>4
    <3>2. Whole(i)
      BY <1>3, <3>1, WritersAreWriting DEF Sound
    <3>. QED
      BY <1>1, <2>2, <3>1, <3>2 DEF HalfWhole, Whole
  <2>. QED
    BY <1>1, <1>2, <1>3, <1>5, <2>3, <2>4, CallComesIn
<1>. QED
  BY <1>4, <1>5

LEMMA SoundDelete ==
  ASSUME SoundInv, NEW i \in Ids, NEW c \in Callers, NEW id \in Ids,
         Delete(c, id)
  PROVE  Sound(i)'
<1>1. /\ MayWrite(c) /\ Write(c, id, "delete", "edges", None)
      /\ DeleteRows(id) /\ live' = live \ {id}
      /\ UNCHANGED <<meta, edges>>
      /\ disturbed' = disturbed \cup
           (IF Writers({id}) = {} THEN {} ELSE {id})
  BY DEF Delete
<1>2. "delete" \in DOMAIN Steps /\ "edges" \in Steps["delete"]
  BY DEF Steps
<1>3. TypeInv /\ TypeOK /\ Sound(i)
  BY DEF SoundInv, TypeInv
<1>4. CASE i # id
  <2>1. rows'[i] = rows[i] /\ (i \in disturbed' <=> i \in disturbed)
          /\ (i \in live' <=> i \in live)
    BY <1>1, <1>4 DEF DeleteRows
  <2>. QED
    BY <1>1, <1>2, <1>3, <1>4, <2>1, WriteElsewhere, SameEdges, OtherMemory
<1>5. CASE i = id
  <2>1. rows'[i] = <<>> /\ i \notin live'
    BY <1>1, <1>3, <1>5 DEF DeleteRows, TypeOK
  <2>2. calls'[c].op = "delete" /\ calls'[c].at = "edges"
    BY <1>1, <1>2, <1>3, WriteType
  <2>3. HalfDone(c, i)' /\ HalfWhole(c, i)'
    BY <2>1, <2>2 DEF HalfDone, HalfWhole
  <2>4. i \notin disturbed' => Writers({i}) = {}
    BY <1>1, <1>5
  <2>. QED
    BY <1>1, <1>2, <1>3, <1>5, <2>3, <2>4, CallComesIn
<1>. QED
  BY <1>4, <1>5

\* What a caller who returns or goes on does to the calls on i.
LEMMA ReturnElsewhere ==
  ASSUME TypeInv, NEW i \in Ids, NEW c \in Callers, Return(c),
         mentioned' = mentioned, ~ Writing(c, i)
  PROVE  \A d \in Callers :
           /\ Writing(d, i)' <=> Writing(d, i)
           /\ Writing(d, i) => calls'[d] = calls[d]
  BY ReturnType

LEMMA GotoElsewhere ==
  ASSUME TypeInv, NEW i \in Ids, NEW c \in Callers, NEW id \in Ids, i # id,
         Writing(c, id), NEW at \in Steps[calls[c].op], Goto(c, at),
         mentioned' = mentioned
  PROVE  \A d \in Callers :
           /\ Writing(d, i)' <=> Writing(d, i)
           /\ Writing(d, i) => calls'[d] = calls[d]
<1>1. ~ Writing(c, i)
  BY DEF Writing
<1>. QED
  BY <1>1, GotoType

LEMMA SoundStoreMetadata ==
  ASSUME SoundInv, NEW i \in Ids, NEW c \in Callers, StoreMetadata(c)
  PROVE  Sound(i)'
<1> DEFINE id == calls[c].id
           row == calls[c].row
<1>1. TypeInv /\ TypeOK /\ Sound(i)
  BY DEF SoundInv, TypeInv
<1>2. id \in Ids /\ row \in Row /\ Writing(c, id) /\ calls[c].op = "store"
  BY <1>1, LaterStep DEF StoreMetadata, Steps
<1>3. /\ InitMetadata(id, row.type) /\ live' = live \cup {id} /\ Return(c)
      /\ UNCHANGED <<rows, edges, mentioned, disturbed>>
  BY DEF StoreMetadata
<1>4. CASE i # id
  <2>1. ~ Writing(c, i)
    BY <1>4 DEF Writing
  <2>2. meta'[i] = meta[i] /\ (i \in live' <=> i \in live)
    BY <1>3, <1>4 DEF InitMetadata
  <2>. QED
    BY <1>1, <1>3, <2>1, <2>2, ReturnElsewhere, SameEdges, OtherMemory
<1>5. CASE i = id
  <2> HIDE DEF id, row
  <2>1. ASSUME i \notin disturbed', calls[c].alone
        PROVE  i \in live' /\ Whole(i)'
    <3>1. HalfWhole(c, i)
      BY <1>1, <1>2, <1>3, <1>5, <2>1 DEF Sound
    <3>2. rows[i] = <<row>> /\ meta[i] = None
      BY <1>2, <3>1 DEF HalfWhole, row
    <3> DEFINE m == [type |-> row.type, accesses |-> 0]
    <3>3. m \in Metadata
      BY <1>2, MemoryAssumption DEF Row, Metadata
    <3>4. meta'[i] = m
      BY <1>1, <1>3, <1>5, <3>2 DEF InitMetadata, TypeOK
    <3>5. m # None /\ m.type = row.type
      BY <3>3, NoneAssumption
    <3> HIDE DEF m
    <3>6. rows'[i] = <<row>> /\ Len(<<row>>) = 1 /\ <<row>>[1] = row
      BY <1>3, <3>2
    <3>. QED
      BY <1>3, <1>5, <3>4, <3>5, <3>6 DEF Whole
  <2>2. \A d \in Callers : /\ Writing(d, i)' <=> d # c /\ Writing(d, i)
                           /\ d # c => calls'[d] = calls[d]
    BY <1>1, <1>3, ReturnType
  <2>. QED
    BY <1>1, <1>2, <1>3, <1>5, <2>1, <2>2, CallEnds
<1>. QED
  BY <1>4, <1>5

LEMMA SoundUpdateAdd ==
  ASSUME SoundInv, NEW i \in Ids, NEW c \in Callers, UpdateAdd(c)
  PROVE  Sound(i)'
<1> DEFINE id == calls[c].id
           row == calls[c].row
<1>1. TypeInv /\ TypeOK /\ Sound(i)
  BY DEF SoundInv, TypeInv
<1>2. "update" \in DOMAIN Steps /\ "type" \in Steps["update"]
  BY DEF Steps
<1>3. id \in Ids /\ row \in Row /\ Writing(c, id) /\ calls[c].op = "update"
        /\ calls[c].at = "add"
  BY <1>1, <1>2, LaterStep DEF UpdateAdd
<1>4. /\ AddRow(id, row) /\ Goto(c, "type")
      /\ UNCHANGED <<meta, edges, mentioned, live, disturbed>>
  BY DEF UpdateAdd, history
<1>5. CASE i # id
  <2>1. rows'[i] = rows[i]
    BY <1>4, <1>5 DEF AddRow
  <2>2. \A d \in Callers : /\ Writing(d, i)' <=> Writing(d, i)
                           /\ Writing(d, i) => calls'[d] = calls[d]
    BY <1>1, <1>2, <1>3, <1>4, <1>5, GotoElsewhere
  <2>. QED
    BY <1>1, <1>4, <2>1, <2>2, SameEdges, OtherMemory
<1>6. CASE i = id
  <2>1. /\ \A d \in Callers : /\ Writing(d, i)' <=> Writing(d, i)
                              /\ d # c => calls'[d] = calls[d]
        /\ calls'[c].op = "update" /\ calls'[c].at = "type"
        /\ calls'[c].row = row /\ calls'[c].alone = calls[c].alone
    BY <1>1, <1>2, <1>3, <1>4, GotoType
  <2> HIDE DEF id, row
  <2>2. ASSUME calls[c].alone
        PROVE  HalfDone(c, i)'
    <3>1. rows[i] = <<>>
      BY <1>1, <1>3, <1>6, <2>2 DEF Sound, HalfDone
    <3>2. rows'[i] = <<row>>
      BY <1>1, <1>3, <1>4, <1>6, <3>1 DEF AddRow, TypeOK
    <3>. QED
      BY <2>1, <3>2 DEF HalfDone
  <2>3. ASSUME i \notin disturbed
        PROVE  HalfWhole(c, i)'
    <3>1. HalfWhole(c, i)
      BY <1>1, <1>3, <1>6, <2>3 DEF Sound
    <3>. QED
      BY <1>3, <1>4, <2>1, <3>1 DEF HalfWhole
  <2>. QED
    BY <1>1, <1>3, <1>4, <1>6, <2>1, <2>2, <2>3, CallGoesOn
<1>. QED
  BY <1>5, <1>6

LEMMA SoundUpdateMetadata ==
  ASSUME SoundInv, NEW i \in Ids, NEW c \in Callers, UpdateMetadata(c)
  PROVE  Sound(i)'
<1> DEFINE id == calls[c].id
           row == calls[c].row
<1>1. TypeInv /\ TypeOK /\ Sound(i)
  BY DEF SoundInv, TypeInv
<1>2. id \in Ids /\ row \in Row /\ Writing(c, id) /\ calls[c].op = "update"
        /\ calls[c].at = "type"
  BY <1>1, LaterStep DEF UpdateMetadata, Steps
<1>3. /\ UpdateType(id, row.type) /\ Return(c)
      /\ UNCHANGED <<rows, edges, mentioned, live, disturbed>>
  BY DEF UpdateMetadata, history
<1>4. CASE i # id
  <2>1. ~ Writing(c, i)
    BY <1>4 DEF Writing
  <2>2. meta'[i] = meta[i]
    BY <1>3, <1>4 DEF UpdateType
  <2>. QED
    BY <1>1, <1>3, <2>1, <2>2, ReturnElsewhere, SameEdges, OtherMemory
<1>5. CASE i = id
  <2> HIDE DEF id, row
  <2>1. ASSUME i \notin disturbed', calls[c].alone
        PROVE  i \in live' /\ Whole(i)'
    <3>1. HalfWhole(c, i) /\ HalfDone(c, i)
      BY <1>1, <1>2, <1>3, <1>5, <2>1 DEF Sound
    <3>2. rows[i] = <<row>> /\ meta[i] # None /\ i \in live
      BY <1>2, <3>1 DEF HalfWhole, HalfDone, row
    <3> DEFINE m == [meta[i] EXCEPT !.type = row.type]
    <3>3. m \in Metadata /\ m.type = row.type
      BY <1>1, <1>2, <3>2 DEF Row, Metadata, TypeOK
    <3>4. meta'[i] = m
      BY <1>1, <1>3, <1>5, <3>2 DEF UpdateType, TypeOK
    <3>5. m # None
      BY <3>3, NoneAssumption
    <3> HIDE DEF m
    <3>6. rows'[i] = <<row>> /\ Len(<<row>>) = 1 /\ <<row>>[1] = row
      BY <1>3, <3>2
    <3>. QED
      BY <1>3, <3>2, <3>3, <3>4, <3>5, <3>6 DEF Whole
  <2>2. \A d \in Callers : /\ Writing(d, i)' <=> d # c /\ Writing(d, i)
                           /\ d # c => calls'[d] = calls[d]
    BY <1>1, <1>3, ReturnType
  <2>. QED
    BY <1>1, <1>2, <1>3, <1>5, <2>1, <2>2, CallEnds
<1>. QED
  BY <1>4, <1>5


LEMMA SoundDeleteEdges ==
  ASSUME SoundInv, NEW i \in Ids, NEW c \in Callers, DeleteEdges(c)
  PROVE  Sound(i)'
<1> DEFINE id == calls[c].id
<1>1. TypeInv /\ TypeOK /\ Sound(i)
  BY DEF SoundInv, TypeInv
<1>2. "delete" \in DOMAIN Steps /\ "metadata" \in Steps["delete"]
  BY DEF Steps
<1>3. id \in Ids /\ Writing(c, id) /\ calls[c].op = "delete"
  BY <1>1, <1>2, LaterStep DEF DeleteEdges
<1>4. /\ edges' = edges \ EdgesFor(id) /\ Goto(c, "metadata")
      /\ UNCHANGED <<rows, meta, mentioned, live, disturbed>>
  BY DEF DeleteEdges, DeleteEdgesFor, history
<1> HIDE DEF id
<1>5. CASE i # id
  <2>1. EdgesFor(i)' \subseteq EdgesFor(i)
    BY <1>4 DEF EdgesFor
  <2>2. \A d \in Callers : /\ Writing(d, i)' <=> Writing(d, i)
                           /\ Writing(d, i) => calls'[d] = calls[d]
    BY <1>1, <1>2, <1>3, <1>4, <1>5, GotoElsewhere
  <2>. QED
    BY <1>1, <1>4, <2>1, <2>2, OtherMemory
<1>6. CASE i = id
  <2>1. /\ \A d \in Callers : /\ Writing(d, i)' <=> Writing(d, i)
                              /\ d # c => calls'[d] = calls[d]
        /\ calls'[c].op = "delete" /\ calls'[c].at = "metadata"
        /\ calls'[c].alone = calls[c].alone
    BY <1>1, <1>2, <1>3, <1>4, GotoType
  <2>2. EdgesFor(i)' = {}
    BY <1>4, <1>6 DEF EdgesFor
  <2>3. ASSUME calls[c].alone
        PROVE  HalfDone(c, i)'
    <3>1. rows[i] = <<>> /\ i \notin live
      BY <1>1, <1>3, <1>6, <2>3 DEF Sound, HalfDone
    <3>. QED
      BY <1>4, <2>1, <2>2, <3>1 DEF HalfDone
  <2>4. HalfWhole(c, i)'
    BY <2>1 DEF HalfWhole
  <2>. QED
    BY <1>1, <1>3, <1>4, <1>6, <2>1, <2>3, <2>4, CallGoesOn
<1>. QED
  BY <1>5, <1>6

LEMMA SoundDeleteLast ==
  ASSUME SoundInv, NEW i \in Ids, NEW c \in Callers, DeleteLast(c)
  PROVE  Sound(i)'
<1> DEFINE id == calls[c].id
<1>1. TypeInv /\ TypeOK /\ Sound(i)
  BY DEF SoundInv, TypeInv
<1>2. id \in Ids /\ Writing(c, id) /\ calls[c].op = "delete"
        /\ calls[c].at = "metadata"
  BY <1>1, LaterStep DEF DeleteLast, Steps
<1>3. /\ meta' = [meta EXCEPT ![id] = None] /\ Return(c)
      /\ disturbed' = disturbed \ (IF calls[c].alone THEN {id} ELSE {})
      /\ UNCHANGED <<rows, edges, mentioned, live>>
  BY DEF DeleteLast, DeleteMetadata
<1>4. CASE i # id
  <2>1. ~ Writing(c, i)
    BY <1>4 DEF Writing
  <2>2. meta'[i] = meta[i] /\ (i \in disturbed' <=> i \in disturbed)
    BY <1>3, <1>4
  <2>. QED
    BY <1>1, <1>3, <2>1, <2>2, ReturnElsewhere, SameEdges, OtherMemory
<1>5. CASE i = id
  <2> HIDE DEF id
  <2>1. ASSUME calls[c].alone
        PROVE  i \notin live' /\ Gone(i)'
    <3>1. rows[i] = <<>> /\ i \notin live /\ EdgesFor(i) = {}
      BY <1>1, <1>2, <1>5, <2>1 DEF Sound, HalfDone
    <3>2. meta'[i] = None
      BY <1>1, <1>3, <1>5 DEF TypeOK
    <3>. QED
      BY <1>3, <3>1, <3>2 DEF Gone, EdgesFor
  <2>2. \A d \in Callers : /\ Writing(d, i)' <=> d # c /\ Writing(d, i)
                           /\ d # c => calls'[d] = calls[d]
    BY <1>1, <1>3, ReturnType
  <2>3. i \in disturbed /\ ~ calls[c].alone => i \in disturbed'
    BY <1>3
  <2>. QED
    BY <1>1, <1>2, <1>5, <2>1, <2>2, <2>3, CallEnds
<1>. QED
  BY <1>4, <1>5

LEMMA SoundLink ==
  ASSUME SoundInv, NEW i \in Ids, NEW c \in Callers, NEW a \in Ids,
         NEW b \in Ids, Link(c, a, b)
  PROVE  Sound(i)'
<1>1. TypeInv /\ TypeOK /\ Sound(i)
  BY DEF SoundInv, TypeInv
<1>2. /\ edges' = edges \cup {<<a, b>>}
      /\ disturbed' = disturbed \cup
           {id \in {a, b} : id \notin live \/ Writers({id}) # {}}
      /\ UNCHANGED <<rows, meta, live>>
  BY DEF Link, CreateEdge
<1>3. \A d \in Callers :
        /\ Writing(d, i)' <=> Writing(d, i)
        /\ Writing(d, i) =>
             /\ calls'[d].op = calls[d].op /\ calls'[d].at = calls[d].at
             /\ calls'[d].row = calls[d].row
             /\ calls'[d].alone <=> calls[d].alone /\ i \notin {a, b}
  BY <1>1, LinkEffect
<1>4. CASE i \notin {a, b}
  <2>1. EdgesFor(i)' \subseteq EdgesFor(i)
    BY <1>2, <1>4 DEF EdgesFor
  <2>2. i \in disturbed' <=> i \in disturbed
    BY <1>2, <1>4
  <2>. QED
    BY <1>1, <1>2, <1>3, <1>4, <2>1, <2>2, OtherMemory
<1>5. CASE i \in {a, b}
  <2>1. ASSUME i \notin disturbed'
        PROVE  /\ i \in live /\ \A d \in Callers : ~ Writing(d, i)
               /\ Whole(i)
    <3>1. i \in live /\ Writers({i}) = {} /\ i \notin disturbed
      BY <1>2, <1>5, <2>1
    <3>. QED
      BY <1>1, <3>1, WritersAreWriting DEF Sound
  <2>2. Whole(i) => Whole(i)'
    BY <1>2 DEF Whole
  <2>. QED
    BY <1>2, <1>3, <1>5, <2>1, <2>2 DEF Sound
<1>. QED
  BY <1>4, <1>5

LEMMA SoundFail ==
  ASSUME SoundInv, NEW i \in Ids, NEW c \in Callers, Fail(c)
  PROVE  Sound(i)'
<1>1. TypeInv /\ TypeOK /\ Sound(i)
  BY DEF SoundInv, TypeInv
<1>2. /\ Return(c) /\ UNCHANGED <<rows, meta, edges, mentioned, live>>
      /\ calls[c] # None
      /\ disturbed' = disturbed \cup
           (IF calls[c].op = "search" THEN {} ELSE {calls[c].id})
  BY DEF Fail, databases
<1>3. CASE Writing(c, i)
  <2>1. \A d \in Callers : /\ Writing(d, i)' <=> d # c /\ Writing(d, i)
                           /\ d # c => calls'[d] = calls[d]
    BY <1>1, <1>2, ReturnType
  <2>2. i \in disturbed'
    BY <1>2, <1>3 DEF Writing
  <2>. QED
    BY <1>1, <1>3, <2>1, <2>2, CallEnds
<1>4. CASE ~ Writing(c, i)
  <2>1. i \in disturbed' <=> i \in disturbed
    BY <1>2, <1>4 DEF Writing
  <2>. QED
    BY <1>1, <1>2, <1>4, <2>1, ReturnElsewhere, SameEdges, OtherMemory
<1>. QED
  BY <1>3, <1>4

LEMMA SoundSearch ==
  ASSUME SoundInv, NEW i \in Ids, NEW c \in Callers, SearchStep(c)
  PROVE  Sound(i)'
<1>1. TypeInv /\ TypeOK /\ Sound(i)
  BY DEF SoundInv, TypeInv
<1>2. /\ \A d \in Callers : /\ Writing(d, i)' <=> Writing(d, i)
                            /\ Writing(d, i) => calls'[d] = calls[d]
      /\ UNCHANGED <<rows, edges, mentioned, live, disturbed>>
      /\ meta' = meta \/ \E id \in Ids : RecordAccess(id)
  BY <1>1, SearchStepEffect
<1>3. /\ meta'[i] = None <=> meta[i] = None
      /\ meta[i] # None => meta'[i].type = meta[i].type
  BY <1>1, <1>2, RecordAccessType
<1>. QED
  BY <1>1, <1>2, <1>3, SameEdges, OtherMemory

LEMMA SoundInit == Init => \A i \in Ids : Sound(i)
<1> SUFFICES ASSUME Init, NEW i \in Ids PROVE Sound(i)
  OBVIOUS
<1>1. \A c \in Callers : ~ Writing(c, i)
  BY DEF Init, Writing
<1>2. PICK stored \in [Old -> {NewRow(content, given) :
                                 content \in Contents, given \in Given}] :
        /\ rows = [id \in Ids |-> IF id \in Old THEN <<stored[id]>> ELSE <<>>]
        /\ meta = [id \in Ids |->
                     IF id \in Old
                     THEN [type |-> stored[id].type, accesses |-> 0]
                     ELSE None]
  BY DEF Init
<1>3. ASSUME i \in Old
      PROVE  Whole(i)
  <2> DEFINE row == stored[i]
             m == [type |-> row.type, accesses |-> 0]
  <2>1. row \in Row
    BY <1>3, NewRowType
  <2>2. rows[i] = <<row>> /\ meta[i] = m
    BY <1>2, <1>3
  <2> HIDE DEF row
  <2>3. m \in Metadata /\ m.type = row.type
    BY <2>1, MemoryAssumption DEF Row, Metadata
  <2> HIDE DEF m
  <2>4. m # None /\ Len(<<row>>) = 1 /\ <<row>>[1] = row
    BY <2>3, NoneAssumption
  <2>. QED
    BY <2>2, <2>3, <2>4 DEF Whole
<1>4. i \notin Old => Gone(i)
  BY <1>2 DEF Init, Gone, EdgesFor
<1>5. live = Old /\ disturbed = {}
  BY DEF Init
<1>. QED
  BY <1>1, <1>3, <1>4, <1>5 DEF Sound

LEMMA SoundStep == SoundInv /\ [Next]_vars => \A i \in Ids : Sound(i)'
<1> SUFFICES ASSUME SoundInv, [Next]_vars, NEW i \in Ids
             PROVE  Sound(i)'
  OBVIOUS
<1>1. ASSUME NEW c \in Callers, WriteStep(c)
      PROVE  Sound(i)'
  BY <1>1, LinkEnds, SoundStore, SoundUpdate, SoundStoreMetadata,
     SoundUpdateAdd, SoundUpdateMetadata, SoundDelete, SoundDeleteEdges,
     SoundDeleteLast, SoundLink
  DEF WriteStep
<1>2. CASE UNCHANGED vars
  <2>1. /\ UNCHANGED <<rows, meta, edges, calls, live, disturbed>>
        /\ Sound(i)
    BY <1>2 DEF vars, databases, history, SoundInv
  <2>2. \A d \in Callers : Writing(d, i)' <=> Writing(d, i)
    BY <2>1 DEF Writing
  <2>. QED
    BY <2>1, <2>2, SameEdges, OtherMemory
<1>. QED
  BY <1>1, <1>2, SoundSearch, SoundFail DEF Next

LEMMA SoundInvariant == Spec => []SoundInv
<1>1. Init => SoundInv
  BY InitType, UnnamedInit, SoundInit DEF SoundInv
<1>2. SoundInv /\ [Next]_vars => SoundInv'
  <2>1. SoundInv /\ [Next]_vars => \A id \in Ids : Sound(id)'
    BY SoundStep
  <2>. QED
    BY <2>1, StepType, UnnamedStep DEF SoundInv
<1>. QED
  BY <1>1, <1>2, PTL DEF Spec

\* Without a transaction over the two databases they agree on every memory on
\* which no call is under way and the calls did not overlap or fail: one row
\* and metadata of its type, or nothing at all.
THEOREM TheDatabasesAgree == Spec => []DatabasesAgree
<1>1. SoundInv => DatabasesAgree
  BY SoundParts DEF SoundInv, TypeInv
<1>. QED
  BY <1>1, SoundInvariant, PTL

\* An update or a deletion that no other call disturbs repairs whatever
\* earlier ones have left behind.
THEOREM TheNextCallHeals == Spec => NextCallHeals
<1>1. ASSUME SoundInv, NEW c \in Callers, NEW id \in Ids, Writing(c, id),
             calls[c].alone
      PROVE  /\ UpdateMetadata(c) =>
                  /\ rows'[id] = <<calls[c].row>>
                  /\ meta'[id] # None => meta'[id].type = calls[c].row.type
             /\ DeleteLast(c) => Gone(id)'
  <2>1. TypeOK /\ HalfDone(c, id) /\ calls[c].id = id
    BY <1>1 DEF SoundInv, TypeInv, Sound, Writing
  <2> DEFINE row == calls[c].row
  <2>2. ASSUME UpdateMetadata(c)
        PROVE  /\ rows'[id] = <<row>>
               /\ meta'[id] # None => meta'[id].type = row.type
    <3>1. calls[c].op = "update" /\ calls[c].at = "type"
            /\ UpdateType(id, row.type) /\ rows' = rows
      BY <2>1, <2>2 DEF UpdateMetadata, In
    <3>2. rows'[id] = <<row>>
      BY <2>1, <3>1 DEF HalfDone
    <3> HIDE DEF row
    <3>3. ASSUME meta[id] # None
          PROVE  meta'[id].type = row.type
      <4>1. meta[id] \in Metadata
        BY <2>1, <3>3 DEF TypeOK
      <4>2. meta'[id] = [meta[id] EXCEPT !.type = row.type]
        BY <2>1, <3>1, <3>3 DEF UpdateType, TypeOK
      <4>. QED
        BY <4>1, <4>2 DEF Metadata
    <3>4. meta[id] = None => meta'[id] = None
      BY <2>1, <3>1 DEF UpdateType, TypeOK
    <3>. QED
      BY <3>2, <3>3, <3>4
  <2>3. ASSUME DeleteLast(c)
        PROVE  Gone(id)'
    <3>1. calls[c].op = "delete" /\ calls[c].at = "metadata"
      BY <2>3 DEF DeleteLast, In
    <3>2. rows[id] = <<>> /\ EdgesFor(id) = {}
      BY <2>1, <3>1 DEF HalfDone
    <3>3. UNCHANGED <<rows, edges>> /\ meta'[id] = None
      BY <2>1, <2>3 DEF DeleteLast, DeleteMetadata, TypeOK
    <3>. QED
      BY <3>2, <3>3 DEF Gone, EdgesFor
  <2>. QED
    BY <2>2, <2>3
<1>2. SoundInv /\ [Next]_vars =>
        [\A c \in Callers, id \in Ids :
           calls[c] # None /\ calls[c].op \in {"update", "delete"}
             /\ calls[c].id = id /\ calls[c].alone =>
                /\ UpdateMetadata(c) =>
                     /\ rows'[id] = <<calls[c].row>>
                     /\ meta'[id] # None => meta'[id].type = calls[c].row.type
                /\ DeleteLast(c) => Gone(id)']_vars
  BY <1>1 DEF Writing
<1>. QED
  BY <1>2, SoundInvariant, PTL DEF Spec, NextCallHeals

-----------------------------------------------------------------------------
(***************************************************************************)
(* What a search finds                                                     *)
(***************************************************************************)
\* The call of c is a search which no write has overlapped.
Undisturbed(c) ==
  calls[c] # None /\ calls[c].op = "search" /\ calls[c].alone

NoWriter == \A d \in Callers : calls[d] # None => calls[d].op = "search"

\* The vector search has seen every row; the edges lead everywhere.
SeesEveryRow(call) ==
  Cardinality(RowsOf(Ids)) <= Overfetch * call.request.limit
EdgesLeadOn(call) == AllJoined /\ call.request.depth > 0 /\ ~ call.missed

FoundAll(call) == \A id \in Stored : call.found[id] # None

\* The graph search has been everywhere, or goes on from a memory that is
\* joined to all the others.
ReachesAll(call) ==
  Stored \subseteq call.seen
    \/ (call.left > 0 /\ call.frontier \cap Stored # {})

\* What a search that is not yet ranked has gathered.
Gathers(call) ==
  /\ \A id \in Ids : call.found[id] # None =>
                       call.found[id] \in ToSet(rows[id])
  /\ call.frontier \subseteq call.seen /\ call.new \subseteq call.seen
  /\ SeesEveryRow(call) => FoundAll(call)
  /\ EdgesLeadOn(call) /\ call.at = "graph" => ReachesAll(call)
  /\ EdgesLeadOn(call) /\ call.at = "rank" => FoundAll(call)

\* While a search is undisturbed nobody writes, and what it has gathered is in
\* the tables as they are.
SearchesGather ==
  \A c \in Callers : Undisturbed(c) =>
    /\ NoWriter
    /\ calls[c].at # "record" => Gathers(calls[c])

LEMMA SameTables ==
  ASSUME rows' = rows, edges' = edges
  PROVE  /\ Stored' = Stored /\ RowsOf(Ids)' = RowsOf(Ids)
         /\ AllJoined' <=> AllJoined
<1>1. Stored' = Stored /\ RowsOf(Ids)' = RowsOf(Ids)
  BY DEF Stored, RowsOf
<1>2. \A id \in Ids : Neighbours(id)' = Neighbours(id)
  BY DEF Neighbours, EdgesFor
<1>3. Stored \subseteq Ids
  BY DEF Stored
<1>. QED
  BY <1>1, <1>2, <1>3 DEF AllJoined

\* The tables stay as they are: what a search has gathered is still in them.
LEMMA StillGathers ==
  ASSUME rows' = rows, edges' = edges, NEW c \in Callers, Gathers(calls'[c])
  PROVE  Gathers(calls[c])'
<1> DEFINE k == calls'[c]
<1>1. /\ SeesEveryRow(calls[c])' <=> SeesEveryRow(k)
      /\ EdgesLeadOn(calls[c])' <=> EdgesLeadOn(k)
      /\ FoundAll(calls[c])' <=> FoundAll(k)
      /\ ReachesAll(calls[c])' <=> ReachesAll(k)
  BY SameTables DEF SeesEveryRow, EdgesLeadOn, FoundAll, ReachesAll
<1>. QED
  BY <1>1 DEF Gathers

\* A write that comes in disturbs every search.
LEMMA WriteDisturbs ==
  ASSUME TypeOK, NEW S \in SUBSET Ids, S # {}, NEW d \in Callers,
         WithWrite(S)[d] # None, WithWrite(S)[d].op = "search"
  PROVE  WithWrite(S)[d].alone = FALSE
<1>1. calls[d] # None /\ calls[d] \in Call
  BY OthersAfterWrite DEF TypeOK, Call
<1>2. calls[d].op = "search"
  BY <1>1, OthersAfterWrite
<1>3. d \in Beside(S)
  BY <1>1, <1>2 DEF Beside, Touches
<1>4. WithWrite(S)[d] = NotAlone(calls[d])
  BY <1>3 DEF WithWrite, NotAlone
<1>. QED
  BY <1>1, <1>4, NotAloneType

\* Without writers beside it there are none.
LEMMA NoWriters ==
  ASSUME TypeOK, Writers(Ids) = {}
  PROVE  NoWriter
<1> SUFFICES ASSUME NEW d \in Callers, calls[d] # None, calls[d].op # "search"
             PROVE  FALSE
  BY DEF NoWriter
<1>1. calls[d] \in WriteCall
  BY CallKinds DEF TypeOK, Call
<1>2. calls[d].id \in Ids
  BY <1>1 DEF WriteCall
<1>. QED
  BY <1>2 DEF Writers, Beside, Touches

LEMMA StoredRows ==
  ASSUME TypeOK, NEW id \in Ids
  PROVE  id \in Stored <=> <<id, 1>> \in RowsOf(Ids)
<1>1. rows[id] \in Seq(Row)
  BY DEF TypeOK
<1>2. rows[id] # <<>> <=> 1 \in DOMAIN rows[id]
  BY <1>1
<1>3. 1 \in DOMAIN rows[id] <=> <<id, 1>> \in {id} \X DOMAIN rows[id]
  OBVIOUS
<1>4. <<id, 1>> \in RowsOf(Ids) <=> <<id, 1>> \in {id} \X DOMAIN rows[id]
  BY DEF RowsOf
<1>. QED
  BY <1>2, <1>3, <1>4 DEF Stored

\* A ranking of as many rows as there are has them all.
LEMMA RankingOfAll ==
  ASSUME NEW T, IsFiniteSet(T), NEW n \in Nat, n = Cardinality(T),
         NEW f \in [1..n -> T], IsInjective(f)
  PROVE  \A t \in T : \E i \in 1..n : f[i] = t
<1>1. f \in Injection(1..n, T)
  BY DEF Injection, IsInjective
<1>2. IsFiniteSet(1..n) /\ Cardinality(1..n) = n
  BY FS_Interval
<1>3. f \in Surjection(1..n, T)
  BY <1>1, <1>2, FS_Injection
<1>. QED
  BY <1>3 DEF Surjection

\* The vector search has taken every row, or some of the rows if there are
\* any.
LEMMA SearchGathers ==
  ASSUME TypeInv, NEW c \in Callers, NEW request \in Requests,
         Search(c, request)
  PROVE  /\ calls'[c].alone => NoWriter
         /\ Gathers(calls'[c])
<1> DEFINE rowCount == Cardinality(RowsOf(Ids))
           n == Least(Overfetch * request.limit, rowCount)
<1>1. PICK hits \in Rankings(n) :
        calls' = [calls EXCEPT ![c] =
          [op |-> "search", at |-> "graph", request |-> request,
           found |-> [id \in Ids |->
             IF {i \in DOMAIN hits : hits[i][1] = id} = {} THEN None
             ELSE
               rows[id][hits[Min({i \in DOMAIN hits : hits[i][1] = id})][2]]],
           left |-> request.depth,
           frontier |->
             {hits[i][1] : i \in 1..Least(request.limit, Len(hits))},
           new |-> {},
           seen |-> {hits[i][1] : i \in 1..Least(request.limit, Len(hits))},
           alone |-> Writers(Ids) = {}, missed |-> FALSE]]
  BY DEF Search
<1>2. TypeOK
  BY DEF TypeInv
<1>3. request.limit \in Nat \ {0} /\ request.depth \in Nat
        /\ Overfetch * request.limit \in Nat \ {0}
  <2>1. request.limit \in Nat \ {0} /\ request.depth \in Nat
    BY MemoryAssumption DEF Request
  <2>2. \A a, b \in Nat \ {0} : a * b \in Nat \ {0}
    OBVIOUS
  <2>. QED
    BY <2>1, <2>2, MemoryAssumption
<1>4. rowCount \in Nat /\ n \in Nat
  <2>1. rowCount \in Nat
    BY <1>2, RowsOfType, FS_CardinalityType
  <2>. QED
    BY <1>3, <2>1 DEF Least
<1>5. /\ rowCount <= Overfetch * request.limit => n = rowCount
      /\ rowCount > 0 => n > 0
  BY <1>3, <1>4 DEF Least
<1>6. IsFiniteSet(RowsOf(Ids))
  BY <1>2, RowsOfType
<1>7. Stored # {} => rowCount > 0
  <2> SUFFICES ASSUME Stored # {} PROVE rowCount > 0
    OBVIOUS
  <2>1. RowsOf(Ids) # {}
    BY <1>2, StoredRows DEF Stored
  <2>. QED
    BY <1>4, <1>6, <2>1, FS_EmptySet
<1>8. rowCount = Cardinality(RowsOf(Ids))
  OBVIOUS
<1> HIDE DEF n, rowCount
<1>9. hits \in [1..n -> RowsOf(Ids)] /\ IsInjective(hits)
  BY DEF Rankings
<1>10. Len(hits) = n /\ DOMAIN hits = 1..n
  BY <1>4, <1>9
<1> DEFINE ranks(id) == {i \in DOMAIN hits : hits[i][1] = id}
           found == [id \in Ids |-> IF ranks(id) = {} THEN None
                                    ELSE rows[id][hits[Min(ranks(id))][2]]]
           seeds == {hits[i][1] : i \in 1..Least(request.limit, Len(hits))}
           k == [op |-> "search", at |-> "graph", request |-> request,
                 found |-> found, left |-> request.depth, frontier |-> seeds,
                 new |-> {}, seen |-> seeds,
                 alone |-> Writers(Ids) = {}, missed |-> FALSE]
<1>11. calls'[c] = k
  BY <1>1, <1>2 DEF TypeOK
<1>12. ASSUME NEW id \in Ids
       PROVE  /\ ranks(id) = {} => found[id] = None
              /\ ranks(id) # {} => found[id] # None
                                     /\ found[id] \in ToSet(rows[id])
  <2> DEFINE first == Min(ranks(id))
  <2>1. ASSUME ranks(id) # {}
        PROVE  found[id] # None /\ found[id] \in ToSet(rows[id])
    <3>1. ranks(id) \in SUBSET Nat
      BY <1>4, <1>10
    <3>2. first \in ranks(id)
      BY <2>1, <3>1, MinIsMember
    <3>3. found[id] = rows[id][hits[first][2]]
      BY <2>1
    <3> HIDE DEF first, found
    <3>4. hits[first] \in RowsOf(Ids) /\ hits[first][1] = id
      BY <1>9, <3>2
    <3>5. hits[first][2] \in DOMAIN rows[id]
            /\ rows[id][hits[first][2]] \in Row
      BY <1>2, <3>4, RowsOfType
    <3>6. \A s, i : i \in DOMAIN s => s[i] \in ToSet(s)
      BY DEF ToSet
    <3>7. found[id] \in Row /\ found[id] \in ToSet(rows[id])
      BY <3>3, <3>5, <3>6
    <3>. QED
      BY <3>7, NoneAssumption
  <2>2. ranks(id) = {} => found[id] = None
    OBVIOUS
  <2>. QED
    BY <2>1, <2>2
<1>13. ASSUME rowCount <= Overfetch * request.limit, NEW id \in Stored
       PROVE  found[id] # None
  <2>1. id \in Ids /\ <<id, 1>> \in RowsOf(Ids)
    BY <1>2, <1>13, StoredRows DEF Stored
  <2>2. n = Cardinality(RowsOf(Ids))
    BY <1>5, <1>8, <1>13
  <2>3. PICK i \in 1..n : hits[i] = <<id, 1>>
    BY <1>4, <1>6, <1>9, <2>1, <2>2, RankingOfAll
  <2>4. i \in ranks(id)
    BY <1>10, <2>3
  <2> HIDE DEF ranks, found
  <2>. QED
    BY <1>12, <2>1, <2>4
<1>14. Stored \subseteq seeds \/ seeds \cap Stored # {}
  <2> SUFFICES ASSUME Stored # {} PROVE seeds \cap Stored # {}
    OBVIOUS
  <2>1. n > 0
    BY <1>5, <1>7
  <2>2. 1 \in 1..n /\ 1 \in 1..Least(request.limit, Len(hits))
    BY <1>3, <1>4, <1>10, <2>1 DEF Least
  <2>3. hits[1] \in RowsOf(Ids)
    BY <1>9, <2>2
  <2>4. hits[1][1] \in Ids /\ hits[1][2] \in DOMAIN rows[hits[1][1]]
    BY <1>2, <2>3, RowsOfType
  <2>5. rows[hits[1][1]] # <<>>
    BY <2>4
  <2>6. hits[1][1] \in Stored
    BY <2>4, <2>5 DEF Stored
  <2>. QED
    BY <2>2, <2>6
<1> HIDE DEF ranks, found, seeds
<1>15. SeesEveryRow(k) => FoundAll(k)
  BY <1>8, <1>13 DEF SeesEveryRow, FoundAll
<1>16. EdgesLeadOn(k) => ReachesAll(k)
  BY <1>3, <1>14 DEF EdgesLeadOn, ReachesAll
<1>17. /\ \A id \in Ids : k.found[id] # None =>
                            k.found[id] \in ToSet(rows[id])
       /\ k.at = "graph" /\ k.frontier = seeds /\ k.seen = seeds
       /\ k.new = {} /\ k.alone = (Writers(Ids) = {})
  BY <1>12
<1> HIDE DEF k
<1>18. Gathers(k)
  BY <1>15, <1>16, <1>17 DEF Gathers
<1>. QED
  BY <1>2, <1>11, <1>17, <1>18, NoWriters

\* From a stored memory every other is a neighbour; one that is not stored
\* leaves the stored ones in the frontier.
LEMMA FollowGathers ==
  ASSUME TypeInv, NEW c \in Callers, NEW id \in Ids, Follow(c, id)
  PROVE  /\ calls'[c].alone = calls[c].alone
         /\ Gathers(calls[c]) => Gathers(calls'[c])
<1> DEFINE call == calls[c]
<1>1. /\ call.op = "search" /\ call.at = "graph" /\ call # None
      /\ call.left > 0 /\ id \in call.frontier
  BY DEF Follow, In
<1>2. PICK neighbours \in {Neighbours(id), {}} :
        LET new  == call.new \cup (neighbours \ call.seen)
            rest == call.frontier \ {id}
            next == [call EXCEPT !.seen = @ \cup neighbours, !.frontier = rest,
                       !.new = new,
                       !.missed = @ \/ neighbours # Neighbours(id)]
        IN  calls' = [calls EXCEPT ![c] =
              IF rest # {} THEN next
              ELSE [next EXCEPT !.left = @ - 1, !.frontier = new, !.new = {}]]
  BY DEF Follow
<1> DEFINE new  == call.new \cup (neighbours \ call.seen)
           rest == call.frontier \ {id}
           seen == call.seen \cup neighbours
           missed == call.missed \/ neighbours # Neighbours(id)
           next == [call EXCEPT !.seen = seen, !.frontier = rest,
                       !.new = new, !.missed = missed]
           last == [next EXCEPT !.left = @ - 1, !.frontier = new, !.new = {}]
           k == calls'[c]
<1>3. call \in Unranked
  BY <1>1, SearchingType DEF TypeInv
<1>4. k = IF rest # {} THEN next ELSE last
  BY <1>2 DEF TypeInv, TypeOK
<1> HIDE DEF call, new, rest, seen, missed
<1>5. /\ next.at = call.at /\ next.request = call.request
      /\ next.found = call.found /\ next.alone = call.alone
      /\ next.left = call.left /\ next.seen = seen /\ next.frontier = rest
      /\ next.new = new /\ next.missed = missed
      /\ next \in [DOMAIN call -> UNION {{next[x]} : x \in DOMAIN call}]
      /\ {"left", "frontier", "new"} \subseteq DOMAIN call
  BY <1>3 DEF Unranked
<1> HIDE DEF next
<1>6. /\ last.at = call.at /\ last.request = call.request
      /\ last.found = call.found /\ last.alone = call.alone
      /\ last.seen = seen /\ last.frontier = new /\ last.new = {}
      /\ last.missed = missed
  BY <1>5
<1> HIDE DEF last
<1>7. /\ k.at = "graph" /\ k.request = call.request /\ k.found = call.found
      /\ k.alone = call.alone /\ k.seen = seen /\ k.missed = missed
      /\ \/ rest # {} /\ k.left = call.left /\ k.frontier = rest /\ k.new = new
         \/ rest = {} /\ k.frontier = new /\ k.new = {}
  BY <1>1, <1>4, <1>5, <1>6
<1> HIDE DEF k
<1> SUFFICES ASSUME Gathers(calls[c]) PROVE Gathers(calls'[c])
  BY <1>7 DEF k, call
<1>8. /\ call.frontier \subseteq call.seen /\ call.new \subseteq call.seen
      /\ \A i \in Ids : call.found[i] # None =>
                          call.found[i] \in ToSet(rows[i])
      /\ SeesEveryRow(call) => FoundAll(call)
      /\ EdgesLeadOn(call) => ReachesAll(call)
  BY <1>1 DEF Gathers, call
<1>9. k.frontier \subseteq k.seen /\ k.new \subseteq k.seen
  BY <1>7, <1>8 DEF new, rest, seen
<1>10. SeesEveryRow(k) => FoundAll(k)
  BY <1>7, <1>8 DEF SeesEveryRow, FoundAll
<1>11. ASSUME EdgesLeadOn(k)
       PROVE  ReachesAll(k)
  <2>1. AllJoined /\ EdgesLeadOn(call) /\ neighbours = Neighbours(id)
    BY <1>7, <1>11 DEF EdgesLeadOn, missed
  <2>2. CASE Stored \subseteq call.seen
    BY <1>7, <2>2 DEF ReachesAll, seen
  <2>3. CASE id \in Stored
    <3>1. \A i \in Stored : i = id \/ i \in Neighbours(id)
      BY <2>1, <2>3 DEF AllJoined
    <3>2. id \in call.seen
      BY <1>1, <1>8
    <3>. QED
      BY <1>7, <2>1, <3>1, <3>2 DEF ReachesAll, seen
  <2>4. CASE id \notin Stored /\ call.left > 0 /\ call.frontier \cap Stored # {}
    <3>1. rest \cap Stored # {}
      BY <2>4 DEF rest
    <3>. QED
      BY <1>7, <2>4, <3>1 DEF ReachesAll
  <2>. QED
    BY <1>8, <2>1, <2>2, <2>3, <2>4 DEF ReachesAll
<1>. QED
  BY <1>7, <1>8, <1>9, <1>10, <1>11 DEF Gathers, k, call

\* What the graph has led to is looked up in the table.
LEMMA FetchGathers ==
  ASSUME TypeInv, NEW c \in Callers, Fetch(c)
  PROVE  /\ calls'[c].alone = calls[c].alone
         /\ Gathers(calls[c]) => Gathers(calls'[c])
<1> DEFINE call == calls[c]
<1>1. /\ call.op = "search" /\ call.at = "graph" /\ call # None
      /\ call.left = 0 \/ call.frontier = {}
  BY DEF Fetch, In
<1>2. PICK row \in [OnlyLinked(call) -> UNION {ToSet(rows[id]) : id \in Ids}] :
        /\ \A id \in DOMAIN row : row[id] \in ToSet(rows[id])
        /\ calls' = [calls EXCEPT
             ![c].found = [id \in Ids |->
                             IF id \in DOMAIN row THEN row[id] ELSE @[id]],
             ![c].at = "rank"]
  BY DEF Fetch
<1>3. call \in Unranked /\ call.left \in Nat
  BY <1>1, SearchingType DEF TypeInv
<1> DEFINE found == [id \in Ids |->
                       IF id \in DOMAIN row THEN row[id] ELSE call.found[id]]
           next == [call EXCEPT !.found = found, !.at = "rank"]
           k == calls'[c]
<1>4. calls \in [Callers -> Call \cup {None}]
  BY TypeParts DEF TypeInv, CallsType
<1>5. k = next
  BY <1>2, <1>4
<1> HIDE DEF found, call
<1>6. /\ next.at = "rank" /\ next.found = found
      /\ next.request = call.request /\ next.alone = call.alone
      /\ next.seen = call.seen /\ next.frontier = call.frontier
      /\ next.new = call.new /\ next.missed = call.missed
  BY <1>3 DEF Unranked
<1> HIDE DEF next
<1> SUFFICES ASSUME Gathers(calls[c]) PROVE Gathers(calls'[c])
  BY <1>5, <1>6 DEF k, call
<1>7. \A id \in Ids :
        /\ id \in OnlyLinked(call) =>
             found[id] = row[id] /\ row[id] \in ToSet(rows[id])
        /\ id \notin OnlyLinked(call) => found[id] = call.found[id]
  BY <1>2 DEF found
<1>8. \A id \in Ids : ToSet(rows[id]) \subseteq Row
  BY DEF ToSet, TypeInv, TypeOK
<1>9. /\ call.frontier \subseteq call.seen /\ call.new \subseteq call.seen
      /\ \A id \in Ids : call.found[id] # None =>
                           call.found[id] \in ToSet(rows[id])
      /\ SeesEveryRow(call) => FoundAll(call)
      /\ EdgesLeadOn(call) => ReachesAll(call)
  BY <1>1 DEF Gathers, call
<1>10. \A id \in Ids : found[id] # None => found[id] \in ToSet(rows[id])
  BY <1>7, <1>9
<1>11. \A id \in Ids : call.found[id] # None => found[id] # None
  BY <1>7 DEF OnlyLinked
<1>12. ASSUME Stored \subseteq call.seen, NEW id \in Stored
       PROVE  found[id] # None
  <2>1. id \in Ids
    BY DEF Stored
  <2>2. CASE call.found[id] # None
    BY <1>11, <2>1, <2>2
  <2>3. CASE call.found[id] = None
    <3>1. id \in OnlyLinked(call)
      BY <1>12, <2>3 DEF OnlyLinked
    <3>2. found[id] \in Row
      BY <1>7, <1>8, <2>1, <3>1
    <3>. QED
      BY <3>2, NoneAssumption
  <2>. QED
    BY <2>2, <2>3
<1>13. SeesEveryRow(k) => FoundAll(k)
  <2>1. \A id \in Stored : id \in Ids
    BY DEF Stored
  <2>. QED
    BY <1>5, <1>6, <1>9, <1>11, <2>1 DEF SeesEveryRow, FoundAll
<1>14. EdgesLeadOn(k) => FoundAll(k)
  <2>1. ASSUME EdgesLeadOn(call) PROVE Stored \subseteq call.seen
    <3>1. ~ (call.left > 0 /\ call.frontier \cap Stored # {})
      BY <1>1, <1>3 DEF call
    <3>. QED
      BY <1>9, <2>1, <3>1 DEF ReachesAll
  <2>. QED
    BY <1>5, <1>6, <1>12, <2>1 DEF EdgesLeadOn, FoundAll
<1>. QED
  BY <1>5, <1>6, <1>9, <1>10, <1>13, <1>14 DEF Gathers, k, call

\* In the other steps of a search nothing is gathered.
LEMMA LaterSearchStep ==
  ASSUME TypeInv, NEW c \in Callers,
         Rank(c) \/ SearchReturns(c) \/ \E id \in Ids : Record(c, id)
  PROVE  calls'[c] # None =>
           calls'[c].alone = calls[c].alone /\ calls'[c].at = "record"
<1>1. calls \in [Callers -> Call \cup {None}]
  BY TypeParts DEF TypeInv, CallsType
<1>2. CASE Rank(c)
  BY <1>1, <1>2 DEF Rank
<1>3. ASSUME NEW id \in Ids, Record(c, id)
      PROVE  calls'[c].alone = calls[c].alone /\ calls'[c].at = "record"
  <2>1. calls[c] = [op |-> "search", at |-> "record",
                    request |-> calls[c].request,
                    results |-> calls[c].results, alone |-> calls[c].alone]
          /\ calls[c].at = "record"
    BY <1>3, SearchingType DEF Record, In, TypeInv
  <2>2. calls'[c] = [calls[c] EXCEPT !.results = @ \ {id}]
    BY <1>1, <1>3 DEF Record
  <2>. QED
    BY <2>1, <2>2
<1>4. CASE SearchReturns(c)
  BY <1>1, <1>4 DEF SearchReturns, Return
<1>. QED
  BY <1>2, <1>3, <1>4

LEMMA GatheringSearchStep ==
  ASSUME TypeInv, SearchesGather, NEW c \in Callers, SearchStep(c)
  PROVE  SearchesGather'
<1>1. UNCHANGED <<rows, edges>>
  BY SearchStepEffect
<1>2. calls \in [Callers -> Call \cup {None}]
  BY TypeParts DEF TypeInv, CallsType
<1>3. /\ \A d \in Callers : d # c => calls'[d] = calls[d]
      /\ calls'[c] # None => calls'[c].op = "search"
  <2>1. ASSUME NEW k \in SearchCall, calls' = [calls EXCEPT ![c] = k]
        PROVE  /\ \A d \in Callers : d # c => calls'[d] = calls[d]
               /\ calls'[c].op = "search"
    BY <1>2, <2>1, CallKinds DEF Call
  <2>2. CASE SearchReturns(c)
    BY <1>2, <2>2 DEF SearchReturns, Return
  <2>. QED
    BY <2>1, <2>2, SearchComesInType, FollowType, FetchType, RankType,
       RecordType DEF SearchStep
<1>4. NoWriter => NoWriter'
  BY <1>3 DEF NoWriter
<1>5. ASSUME calls'[c] # None, calls'[c].alone
      PROVE  NoWriter /\ (calls'[c].at # "record" => Gathers(calls'[c]))
  <2>1. CASE \E request \in Requests : Search(c, request)
    BY <1>5, <2>1, SearchGathers
  <2>2. ASSUME NEW id \in Ids, Follow(c, id)
        PROVE  NoWriter /\ Gathers(calls'[c])
    <3>1. calls[c] # None /\ calls[c].op = "search" /\ calls[c].at = "graph"
      BY <2>2 DEF Follow, In
    <3>2. calls[c] \in Unranked
      BY <3>1, SearchingType DEF TypeInv
    <3>3. calls[c].alone => NoWriter /\ Gathers(calls[c])
      BY <3>1 DEF SearchesGather, Undisturbed
    <3>. QED
      BY <1>5, <2>2, <3>3, FollowGathers
  <2>3. CASE Fetch(c)
    <3>1. calls[c] # None /\ calls[c].op = "search" /\ calls[c].at = "graph"
      BY <2>3 DEF Fetch, In
    <3>2. calls[c].alone => NoWriter /\ Gathers(calls[c])
      BY <3>1 DEF SearchesGather, Undisturbed
    <3>. QED
      BY <1>5, <2>3, <3>2, FetchGathers
  <2>4. CASE Rank(c) \/ SearchReturns(c) \/ \E id \in Ids : Record(c, id)
    <3>1. calls[c] # None /\ calls[c].op = "search"
      BY <2>4 DEF Rank, SearchReturns, Record, In
    <3>. QED
      BY <1>5, <2>4, <3>1, LaterSearchStep DEF SearchesGather, Undisturbed
  <2>. QED
    BY <2>1, <2>2, <2>3, <2>4 DEF SearchStep
<1>6. ASSUME NEW d \in Callers, Undisturbed(d)'
      PROVE  NoWriter' /\ (calls'[d].at # "record" => Gathers(calls[d])')
  <2>1. NoWriter /\ (calls'[d].at # "record" => Gathers(calls'[d]))
    BY <1>3, <1>5, <1>6 DEF Undisturbed, SearchesGather
  <2>. QED
    BY <1>1, <1>4, <2>1, StillGathers
<1>. QED
  BY <1>6 DEF SearchesGather

\* The first statement of a write disturbs every search.
LEMMA GatheringWrite ==
  ASSUME TypeInv, NEW c \in Callers,
         \/ \E id \in Ids, op \in DOMAIN Steps : \E at, row :
              Write(c, id, op, at, row)
         \/ \E a, b \in Ids : calls' = WithWrite({a, b})
  PROVE  SearchesGather'
<1>1. TypeOK
  BY DEF TypeInv
<1> SUFFICES ASSUME NEW d \in Callers, Undisturbed(d)'
             PROVE  FALSE
  BY DEF SearchesGather
<1>2. PICK S \in SUBSET Ids :
        S # {} /\ calls'[d] = WithWrite(S)[d]
  <2>1. ASSUME NEW id \in Ids, NEW op \in DOMAIN Steps, NEW at, NEW row,
               Write(c, id, op, at, row)
        PROVE  {id} \in SUBSET Ids /\ calls'[d] = WithWrite({id})[d]
    <3> DEFINE k == [op |-> op, at |-> at, id |-> id, row |-> row,
                     alone |-> Writers({id}) = {}]
    <3>1. WithWrite({id}) \in [Callers -> Call \cup {None}]
      BY <1>1, OthersAfterWrite
    <3>2. calls' = [WithWrite({id}) EXCEPT ![c] = k]
      BY <2>1 DEF Write
    <3>3. op # "search" /\ k.op = op
      BY <2>1 DEF Steps
    <3> HIDE DEF k
    <3>4. d # c
      BY <3>1, <3>2, <3>3 DEF Undisturbed
    <3>. QED
      BY <3>1, <3>2, <3>4
  <2>2. ASSUME NEW a \in Ids, NEW b \in Ids, calls' = WithWrite({a, b})
        PROVE  {a, b} \in SUBSET Ids /\ calls'[d] = WithWrite({a, b})[d]
    BY <2>2
  <2>3. \A a, b : {a} # {} /\ {a, b} # {}
    OBVIOUS
  <2>. QED
    BY <2>1, <2>2, <2>3
<1>3. calls'[d] # None /\ calls'[d].op = "search" /\ calls'[d].alone
  BY DEF Undisturbed
<1>. QED
  BY <1>1, <1>2, <1>3, WriteDisturbs

\* While there is a writer there is no undisturbed search; a call that ends or
\* goes on makes none.
LEMMA GatheringLaterStep ==
  ASSUME TypeInv, SearchesGather, NEW c \in Callers,
         calls[c] # None, calls[c].op # "search",
         \A d \in Callers : d # c => calls'[d] = calls[d],
         calls'[c] = None \/ calls'[c].op = calls[c].op
  PROVE  SearchesGather'
<1>1. ~ NoWriter
  BY DEF NoWriter
<1>2. \A d \in Callers : ~ Undisturbed(d)
  BY <1>1 DEF SearchesGather
<1>3. \A d \in Callers : ~ Undisturbed(d)'
  BY <1>2 DEF Undisturbed
<1>. QED
  BY <1>3 DEF SearchesGather

LEMMA GatheringStep ==
  TypeInv /\ SearchesGather /\ [Next]_vars => SearchesGather'
<1> SUFFICES ASSUME TypeInv, SearchesGather, [Next]_vars
             PROVE  SearchesGather'
  OBVIOUS
<1>1. ASSUME NEW c \in Callers, NEW id \in Ids,
             \/ \E content \in Contents, given \in Given :
                  Store(c, id, content, given) \/ Update(c, id, content, given)
             \/ Delete(c, id)
      PROVE  SearchesGather'
  <2>1. {"store", "update", "delete"} \subseteq DOMAIN Steps
    BY DEF Steps
  <2>2. \E op \in DOMAIN Steps : \E at, row : Write(c, id, op, at, row)
    BY <1>1, <2>1 DEF Store, Update, Delete
  <2>. QED
    BY <2>2, GatheringWrite
<1>2. ASSUME NEW c \in Callers, NEW link \in Links, Link(c, link[1], link[2])
      PROVE  SearchesGather'
  <2>1. calls' = WithWrite({link[1], link[2]})
    BY <1>2 DEF Link
  <2>. QED
    BY <2>1, LinkEnds, GatheringWrite
<1>3. ASSUME NEW c \in Callers,
             \/ StoreMetadata(c) \/ UpdateAdd(c) \/ UpdateMetadata(c)
             \/ DeleteEdges(c) \/ DeleteLast(c)
      PROVE  SearchesGather'
  <2>1. calls \in [Callers -> Call \cup {None}]
    BY TypeParts DEF TypeInv, CallsType
  <2>2. calls[c] # None /\ calls[c].op # "search"
    BY <1>3 DEF StoreMetadata, UpdateAdd, UpdateMetadata, DeleteEdges,
                DeleteLast, In
  <2>3. Return(c) \/ \E at : Goto(c, at)
    BY <1>3 DEF StoreMetadata, UpdateAdd, UpdateMetadata, DeleteEdges,
                DeleteLast
  <2>4. \A d \in Callers : d # c => calls'[d] = calls[d]
    BY <2>1, <2>3 DEF Return, Goto
  <2>5. calls'[c] = None \/ calls'[c].op = calls[c].op
    <3>1. calls[c] \in WriteCall
      BY <2>1, <2>2, CallKinds
    <3>2. ASSUME NEW at, Goto(c, at)
          PROVE  calls'[c].op = calls[c].op
      BY <2>1, <3>1, <3>2 DEF Goto, WriteCall
    <3>. QED
      BY <2>1, <2>3, <3>2 DEF Return
  <2>. QED
    BY <2>2, <2>4, <2>5, GatheringLaterStep
<1>4. ASSUME NEW c \in Callers, Fail(c)
      PROVE  SearchesGather'
  <2>1. \A d \in Callers : calls'[d] = IF d = c THEN None ELSE calls[d]
    BY <1>4, TypeParts DEF Fail, Return, TypeInv, CallsType
  <2>2. rows' = rows /\ edges' = edges
    BY <1>4 DEF Fail, databases
  <2>. QED
    BY <2>1, <2>2, StillGathers DEF SearchesGather, Undisturbed, NoWriter
<1>5. CASE UNCHANGED vars
  <2>1. rows' = rows /\ edges' = edges /\ calls' = calls
    BY <1>5 DEF vars, databases
  <2>. QED
    BY <2>1, StillGathers DEF SearchesGather, Undisturbed, NoWriter
<1>. QED
  BY <1>1, <1>2, <1>3, <1>4, <1>5, GatheringSearchStep DEF Next, WriteStep

LEMMA GatheringInvariant == Spec => [](TypeInv /\ SearchesGather)
<1>1. Init => SearchesGather
  BY DEF Init, SearchesGather, Undisturbed
<1>. QED
  BY <1>1, InitType, StepType, GatheringStep, PTL DEF Spec

\* Ranking what has been gathered keeps what passes the filter, up to the
\* limit.
LEMMA RankIsComplete ==
  ASSUME TypeInv, NEW c \in Callers, Rank(c), Gathers(calls[c])
  PROVE  Complete(calls[c], calls'[c].results)
<1> DEFINE call    == calls[c]
           limit   == call.request.limit
           passing == {id \in Ids :
                         /\ call.found[id] # None
                         /\ Passes(call.request.filter, call.found[id])}
           weak    == {id \in passing :
                         call.request.demanding /\ meta[id] # None}
           asked(row) == Passes(call.request.filter, row)
           some == {id \in Stored : \E row \in ToSet(rows[id]) : asked(row)}
           all  == {id \in Stored : \A row \in ToSet(rows[id]) : asked(row)}
           wide == \/ Cardinality(RowsOf(Ids)) <= Overfetch * limit
                   \/ AllJoined /\ call.request.depth > 0 /\ ~ call.missed
<1>1. call # None /\ call.op = "search" /\ call.at = "rank"
  BY DEF Rank, In
<1>2. PICK dropped \in SUBSET weak :
        \E results \in kSubset(Least(limit, Cardinality(passing \ dropped)),
                               passing \ dropped) :
          calls' = [calls EXCEPT ![c] =
            [op |-> "search", at |-> "record", request |-> call.request,
             results |-> results, alone |-> call.alone]]
  BY DEF Rank
<1>3. PICK results \in kSubset(Least(limit, Cardinality(passing \ dropped)),
                               passing \ dropped) :
        calls' = [calls EXCEPT ![c] =
          [op |-> "search", at |-> "record", request |-> call.request,
           results |-> results, alone |-> call.alone]]
  BY <1>2
<1>4. calls'[c].results = results
  BY <1>3, TypeParts DEF TypeInv, CallsType
<1>5. call.request \in Requests
  BY <1>1, SearchingType DEF TypeInv
<1>6. limit \in Nat
  BY <1>5, MemoryAssumption DEF Request
<1>7. /\ \A id \in Ids : call.found[id] # None =>
                           call.found[id] \in ToSet(rows[id])
      /\ wide => \A id \in Stored : call.found[id] # None
  BY <1>1 DEF Gathers, SeesEveryRow, EdgesLeadOn, FoundAll
<1>8. \A id \in Ids : ToSet(rows[id]) # {} => id \in Stored
  BY DEF Stored, ToSet
<1>9. Stored \subseteq Ids
  BY DEF Stored
<1>10. Complete(call, results) <=>
         /\ results \subseteq some
         /\ Cardinality(results) <= limit
         /\ wide /\ ~ call.request.demanding =>
              Cardinality(results) >= Least(limit, Cardinality(all))
  BY DEF Complete
<1>11. passing \subseteq some
  BY <1>7, <1>8
<1>12. wide => all \subseteq passing
  BY <1>7, <1>9
<1>13. ~ call.request.demanding => passing \ dropped = passing
  BY <1>2
<1>14. passing \in SUBSET Ids
  OBVIOUS
<1> HIDE DEF call, limit, passing, weak, some, all, wide
<1>15. /\ IsFiniteSet(passing)
       /\ Cardinality(passing \ dropped) \in Nat
       /\ Cardinality(passing) \in Nat
       /\ all \in SUBSET passing =>
            /\ Cardinality(all) <= Cardinality(passing)
            /\ Cardinality(all) \in Nat
  <2>1. IsFiniteSet(passing)
    BY <1>14, MemoryAssumption, FS_Subset
  <2>2. passing \ dropped \in SUBSET passing
    OBVIOUS
  <2>3. IsFiniteSet(passing \ dropped)
    BY <2>1, <2>2, FS_Subset
  <2>. QED
    BY <2>1, <2>3, FS_Subset, FS_CardinalityType
<1>16. /\ results \subseteq passing
       /\ Cardinality(results) = Least(limit, Cardinality(passing \ dropped))
  BY <1>3 DEF kSubset
<1>17. Cardinality(results) <= limit
  BY <1>6, <1>15, <1>16 DEF Least
<1>18. wide /\ ~ call.request.demanding =>
         Cardinality(results) >= Least(limit, Cardinality(all))
  <2> SUFFICES ASSUME wide, ~ call.request.demanding
               PROVE  Cardinality(results) >= Least(limit, Cardinality(all))
    OBVIOUS
  <2>1. all \in SUBSET passing
    BY <1>12
  <2>2. Cardinality(all) <= Cardinality(passing) /\ Cardinality(all) \in Nat
    BY <1>15, <2>1
  <2>3. Cardinality(results) = Least(limit, Cardinality(passing))
    BY <1>13, <1>16
  <2>. QED
    BY <1>6, <1>15, <2>2, <2>3 DEF Least
<1>. QED
  BY <1>4, <1>10, <1>11, <1>16, <1>17, <1>18 DEF call

\* A search that no write overlaps returns at most its limit, only what has
\* the type asked for, and all there is room for if the vector search saw every
\* row or the edges led everywhere.
THEOREM ASearchFindsWhatFits == Spec => SearchFindsWhatFits
<1>1. ASSUME TypeInv, SearchesGather, NEW c \in Callers, Rank(c),
             calls[c].alone
      PROVE  Complete(calls[c], calls'[c].results)
  <2>1. Undisturbed(c) /\ calls[c].at = "rank"
    BY <1>1 DEF Rank, In, Undisturbed
  <2>. QED
    BY <1>1, <2>1, RankIsComplete DEF SearchesGather
<1>2. TypeInv /\ SearchesGather /\ [Next]_vars =>
        [\A c \in Callers :
           Rank(c) /\ calls[c].alone =>
             Complete(calls[c], calls'[c].results)]_vars
  BY <1>1
<1>. QED
  BY <1>2, GatheringInvariant, PTL DEF Spec, SearchFindsWhatFits

=============================================================================
