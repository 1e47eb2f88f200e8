-------------------------- MODULE QueueOrderProofs --------------------------
(***************************************************************************)
(* The poller's ORDER BY always has a first row: for every set of banks    *)
(* and units, finite or not, and every created_at a row may have.          *)
(***************************************************************************)
EXTENDS ReconcilerProofs, FiniteSetTheorems

-----------------------------------------------------------------------------
(* AUTO_INCREMENT gives every row a number of its own, which it keeps, and *)
(* a row has a text, from which its created_at follows.                    *)

RowsNumbered ==
  /\ \A k \in Key : Present(table, k) => table[k].content \in Content /\ table[k].id < nextId
  /\ \A j, k \in Key : j # k /\ Present(table, j) /\ Present(table, k) =>
       table[j].id # table[k].id

OrderInv ==
  TypeInv /\ InHandInv /\ QueuedInv /\ AskedInv /\ RowInHandExists /\ RowsNumbered

LEMMA InitOrder == Init => OrderInv
<1> SUFFICES ASSUME Init PROVE RowsNumbered /\ RowInHandExists
  BY InitTypeInv, InitInHand, InitQueued, InitAsked DEF OrderInv
<1> QED
  BY DEF Init, RowsNumbered, RowInHandExists, NoRow, EmptyTable, Present

LEMMA PollerKeepsIds ==
  ASSUME TypeInv, PollerStep \/ PollDbError, NEW k \in Key
  PROVE  table'[k].id = table[k].id
<1>1. CASE UNCHANGED table
  BY <1>1
<1>2. ASSUME p.key \in Key, NEW s \in Status, table' = SetStatus(table, p.key, s)
      PROVE  table'[k].id = table[k].id
  BY <1>2 DEF SetStatus, TypeInv, TypeOK, Table, Row
<1>3. ASSUME table' = MarkSuperseded(table, p.key[1], p.ids)
      PROVE  table'[k].id = table[k].id
  BY <1>3 DEF MarkSuperseded, TypeInv, TypeOK, Table, Row
<1>4. CASE PollDbError /\ PollWrite
  BY <1>2, <1>3, <1>4, PollerStatuses DEF PollDbError, PollWrite, TypeInv, HoldsRow
<1>5. CASE PollClaim \/ PollFinish \/ PollFail \/ PollMirror
  BY <1>2, <1>3, <1>5, PollerStatuses
     DEF PollClaim, PollFinish, PollFail, PollMirror, TypeInv, HoldsRow
<1> QED
  BY <1>1, <1>4, <1>5
     DEF PollerStep, PollDbError, PollSelect, ReconcileFails, ReconcileFindsNothing,
         ReconcileNames, Reconciled

(* A request that writes has the text of a unit Hindsight listed.          *)
LEMMA WritesListedText ==
  ASSUME OrderInv, NEW t \in Thread, req[t].pc \in {"insert", "update"}
  PROVE  req[t].key \in Key /\ req[t].snap[req[t].key] \in Content
<1>1. req[t].key \in Asked(t)
  BY DEF OrderInv, AskedInv, AtAsked
<1>2. req[t].snap \in Units
  BY DEF OrderInv, TypeInv, TypeOK, Request
<1> QED BY <1>1, <1>2 DEF Asked, Units

LEMMA RequestKeepsNumbers ==
  ASSUME OrderInv, NEW t \in Thread, RequestNext(t) \/ RequestDbError(t)
  PROVE  RowsNumbered'
<1> USE DEF OrderInv
<1> DEFINE k == req[t].key
           c == req[t].snap[k]
<1>0. table \in Table /\ nextId \in Nat
  BY DEF TypeInv, TypeOK
<1>1. CASE UNCHANGED table
  <2>1. nextId' = nextId \/ nextId' = nextId + 1
    BY DEF RequestNext, RequestStep, RequestDbError, Reject, FetchFails, FetchUnits,
           SelectPrior, Insert, Update, Answer, DoInsert, DoUpdate
  <2>2. \A j \in Key : table[j].id \in Nat
    BY <1>0 DEF Table, Row
  <2> QED BY <1>0, <1>1, <2>1, <2>2 DEF RowsNumbered
<1>2. CASE req[t].pc = "insert" /\ DoInsert(k, c) /\ ~Present(table, k)
  <2>1. k \in Key /\ c \in Content
    BY <1>2, WritesListedText
  <2>2. table'[k] = [status |-> "pending", content |-> c, id |-> nextId]
    BY <1>0, <1>2, <2>1 DEF DoInsert, InsertRow, Table
  <2>3. (\A j \in Key \ {k} : table'[j] = table[j]) /\ nextId' = nextId + 1
    BY <1>0, <1>2, <2>1 DEF DoInsert, InsertRow, Table
  <2>4. \A j \in Key : table[j].id \in Nat
    BY <1>0 DEF Table, Row
  <2> QED BY <1>0, <2>1, <2>2, <2>3, <2>4 DEF RowsNumbered, Present
<1>3. CASE req[t].pc = "update" /\ DoUpdate(k, c)
  <2>1. k \in Key /\ c \in Content
    BY <1>3, WritesListedText
  <2>2. Present(table, k)
    BY <1>3 DEF QueuedInv, Behind
  <2>3. table'[k].content = c /\ table'[k].id = table[k].id
    BY <1>0, <1>3, <2>1 DEF DoUpdate, RewriteRow, Table, Row
  <2>4. (\A j \in Key \ {k} : table'[j] = table[j]) /\ nextId' = nextId
    BY <1>0, <1>3, <2>1 DEF DoUpdate, RewriteRow, Table
  <2> QED BY <2>1, <2>2, <2>3, <2>4 DEF RowsNumbered, Present
<1> QED BY <1>1, <1>2, <1>3, RequestWrites

LEMMA NextOrder == OrderInv /\ [Next]_vars => OrderInv'
<1> SUFFICES ASSUME OrderInv, [Next]_vars PROVE RowsNumbered'
  BY NextTypeInv, NextInHand, NextQueued, NextAsked, NextRowInHand DEF OrderInv
<1> USE DEF OrderInv
<1>1. CASE UNCHANGED <<table, nextId>>
  BY <1>1 DEF RowsNumbered
<1>2. ASSUME NEW t \in Thread, RequestNext(t) \/ RequestDbError(t)
      PROVE  RowsNumbered'
  BY <1>2, RequestKeepsNumbers
<1>3. CASE PollerStep \/ PollDbError
  <2>1. nextId' = nextId
    BY <1>3 DEF PollerStep, PollDbError, PollSelect, PollClaim, ReconcileFails,
                ReconcileFindsNothing, ReconcileNames, Reconciled, PollMirror, PollFinish,
                PollFail
  <2> QED
    BY <1>3, <2>1, PollerKeepsIds, PollerKeepsTexts, PollerAddsNoRow DEF RowsNumbered
<1>4. CASE \/ \E k \in Key, c \in Content \cup {None} : Relist(k, c)
           \/ Restart \/ Crash \/ UNCHANGED vars
  BY <1>1, <1>4 DEF Relist, Restart, Crash, vars
<1> QED BY <1>2, <1>3, <1>4 DEF Next, HealthyNext, Fault

LEMMA OrderInvariant == Spec => []OrderInv
BY InitOrder, NextOrder, PTL DEF Spec

-----------------------------------------------------------------------------
(* A finite set of numbered rows has a first one.                          *)

LEMMA PendingIsFinite ==
  ASSUME OrderInv
  PROVE  IsFiniteSet(Pending(table))
<1> USE DEF OrderInv
<1> DEFINE P == Pending(table)
           f == [k \in P |-> table[k].id]
<1>1. table \in Table /\ nextId \in Nat
  BY DEF TypeInv, TypeOK
<1>2. \A k \in P : k \in Key /\ Present(table, k) /\ table[k].id \in 0..nextId
  BY <1>1 DEF Pending, Present, RowsNumbered, Table, Row
<1>3. f \in Injection(P, 0..nextId)
  BY <1>2 DEF Injection, IsInjective, RowsNumbered
<1>4. IsFiniteSet(0..nextId)
  BY <1>1, FS_Interval
<1> QED BY <1>3, <1>4, FS_Injection

(* The order is total and strict on the rows of the queue.                 *)
LEMMA StrictTotalOrder ==
  ASSUME OrderInv, NEW i \in Pending(table), NEW j \in Pending(table),
         NEW k \in Pending(table)
  PROVE  /\ ComesBefore(table, i, j) \/ ComesBefore(table, j, i) \/ i = j
         /\ ~(ComesBefore(table, i, j) /\ ComesBefore(table, j, i))
         /\ ComesBefore(table, i, j) /\ ComesBefore(table, j, k) => ComesBefore(table, i, k)
<1> USE DEF OrderInv
<1>1. ASSUME NEW m \in Pending(table)
      PROVE  m \in Key /\ Present(table, m) /\ table[m].id \in Nat /\ CreatedAt(table, m) \in Nat
  <2>1. m \in Key /\ Present(table, m) /\ table[m].id \in Nat
    BY <1>1 DEF Pending, Present, TypeInv, TypeOK, Table, Row
  <2>2. table[m].content \in Content
    BY <2>1 DEF RowsNumbered
  <2> QED BY <2>1, <2>2, MentionedAtAssumption DEF CreatedAt
<1>2. i # j => table[i].id # table[j].id
  BY <1>1 DEF RowsNumbered
<1> QED BY <1>1, <1>2 DEF ComesBefore

(* The row with the smallest set of rows before it has none before it.     *)
LEMMA QueueHead ==
  ASSUME OrderInv, Pending(table) # {}
  PROVE  \E k \in Pending(table) : PendingRow(table) = {k}
<1> DEFINE P        == Pending(table)
           Ahead(k) == {j \in P : ComesBefore(table, j, k)}
           Aheads   == {Ahead(k) : k \in P}
<1>1. IsWellFoundedOn(StrictSubsetOrdering(P), SUBSET P)
  BY PendingIsFinite, FS_FiniteSubsetsOfFinite, FS_StrictSubsetOrderingWellFounded
<1>2. \E s \in Aheads : \A r \in Aheads : ~(<<r, s>> \in StrictSubsetOrdering(P))
  <2>1. Aheads \subseteq SUBSET P /\ Aheads # {}
    OBVIOUS
  <2> HIDE DEF Aheads
  <2> QED BY <1>1, <2>1, WFMin
<1>3. PICK k \in P : \A j \in P : ~(Ahead(j) \subseteq Ahead(k) /\ Ahead(j) # Ahead(k))
  <2>1. PICK k \in P : \A j \in P : <<Ahead(j), Ahead(k)>> \notin StrictSubsetOrdering(P)
    BY <1>2
  <2>2. \A j \in P : Ahead(j) \in SUBSET P
    OBVIOUS
  <2> HIDE DEF Ahead
  <2>3. \A j \in P : ~(Ahead(j) \subseteq Ahead(k) /\ Ahead(j) # Ahead(k))
    BY <2>1, <2>2 DEF StrictSubsetOrdering
  <2> QED BY <2>3
<1>4. Ahead(k) = {}
  <2> SUFFICES ASSUME NEW j \in Ahead(k) PROVE FALSE
    OBVIOUS
  <2>1. Ahead(j) \subseteq Ahead(k)
    BY StrictTotalOrder
  <2>2. j \notin Ahead(j)
    BY StrictTotalOrder
  <2> QED BY <1>3, <2>1, <2>2
<1>5. \A j \in P \ {k} : ComesBefore(table, k, j)
  BY <1>4, StrictTotalOrder
<1>6. PendingRow(table) = {k}
  BY <1>5, StrictTotalOrder DEF PendingRow
<1> QED BY <1>6

(* fetch_pending_row_on_conn returns one row, and no other could be meant, *)
(* whenever there is a pending one: ties of created_at are broken by ids   *)
(* no two rows share, whatever order requests inserted them in, and        *)
(* whatever later texts moved them.                                        *)
THEOREM QueueAlwaysHasHead == Spec => []QueueHasHead
<1>1. OrderInv => QueueHasHead
  BY QueueHead DEF QueueHasHead
<1> QED BY <1>1, OrderInvariant, PTL
=============================================================================
