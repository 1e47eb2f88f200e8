-------------------------- MODULE ReconcilerProofs --------------------------
(***************************************************************************)
(* Theorems about Reconciler, for every set of banks, units, texts,        *)
(* threads and documents.                                                  *)
(***************************************************************************)
EXTENDS Reconciler, TLAPS

-----------------------------------------------------------------------------
(* The statements, one lemma each: what they leave a table.                *)

(* Every statement maps tables to tables.                                  *)
LEMMA TableTypes ==
  ASSUME NEW t \in Table, NEW k \in Key
  PROVE  /\ \A s \in Status : SetStatus(t, k, s) \in Table
         /\ \A b, ids : MarkSuperseded(t, b, ids) \in Table
         /\ \A c \in Content \cup {None} : RewriteRow(t, k, c) \in Table
         /\ \A c \in Content \cup {None}, n \in Nat : InsertRow(t, k, c, n) \in Table
<1>1. ASSUME NEW s \in Status PROVE SetStatus(t, k, s) \in Table
  BY <1>1 DEF SetStatus, Table, Row
<1>2. ASSUME NEW b, NEW ids PROVE MarkSuperseded(t, b, ids) \in Table
  BY DEF MarkSuperseded, Table, Row, Status, Terminal
<1>3. ASSUME NEW c \in Content \cup {None} PROVE RewriteRow(t, k, c) \in Table
  BY DEF RewriteRow, Table, Row, Status
<1>4. ASSUME NEW c \in Content \cup {None}, NEW n \in Nat
      PROVE  InsertRow(t, k, c, n) \in Table
  BY DEF InsertRow, Table, Row, Status
<1> QED BY <1>1, <1>2, <1>3, <1>4

-----------------------------------------------------------------------------
(* Type correctness.                                                       *)

(* The poller and the threads have their types by more than TypeOK says:   *)
(* a step that reads a key or a text finds one.                            *)
HoldsRow == p.pc \notin {"down", "idle"} => p.key \in Key

AtUnit == \A t \in Thread : req[t].pc \in {"insert", "update"} => req[t].key \in Key

TypeInv == TypeOK /\ HoldsRow /\ AtUnit

LEMMA InitTypeInv == Init => TypeInv
<1> USE DEF TypeInv, Init
<1>1. Init => TypeOK
  BY DEF TypeOK, Units, NoUnits, Table, Row, EmptyTable, Status, Request,
         NoRequest, Answered, Worker, NoRow
<1>2. Init => HoldsRow
  BY DEF HoldsRow, NoRow
<1>3. Init => AtUnit
  BY DEF AtUnit, NoRequest
<1> QED BY <1>1, <1>2, <1>3

(* A record NoRequest or NoRow makes is a request, a worker.               *)
LEMMA ResetTypes ==
  /\ \A pc \in Answered : NoRequest(pc) \in Request
  /\ \A pc \in {"down", "idle"} : NoRow(pc) \in Worker
BY DEF NoRequest, Request, Units, NoUnits, NoRow, Worker

LEMMA ReplyTypeInv ==
  ASSUME TypeInv, NEW t \in Thread, NEW pc \in Answered, Reply(t, pc),
         table' \in Table, nextId' \in Nat \ {0}, UNCHANGED <<listing, p>>,
         unseen' \in SUBSET Key, overtaken' \in SUBSET Key,
         orphan' \in [Key -> {"no", "crash", "error"}]
  PROVE  TypeInv'
<1> USE DEF TypeInv
<1>1. req' \in [Thread -> Request]
  BY ResetTypes DEF Reply, TypeOK
<1>2. TypeOK'
  BY <1>1 DEF TypeOK
<1>3. HoldsRow'
  BY DEF HoldsRow
<1>4. AtUnit'
  BY DEF AtUnit, Reply, NoRequest, Answered, TypeOK
<1> QED BY <1>2, <1>3, <1>4

(* The history a write of a request leaves has its type.                   *)
LEMMA WriteTypes ==
  ASSUME TypeOK, NEW k \in Key, NEW c \in Content \cup {None},
         DoInsert(k, c) \/ DoUpdate(k, c)
  PROVE  /\ table' \in Table
         /\ nextId' \in Nat \ {0}
         /\ unseen' \in SUBSET Key
         /\ overtaken' \in SUBSET Key
         /\ orphan' \in [Key -> {"no", "crash", "error"}]
<1> USE DEF TypeOK
<1>1. table' \in Table /\ nextId' \in Nat \ {0}
  BY TableTypes DEF DoInsert, DoUpdate
<1>2. Rewritten(k)
  BY DEF DoInsert, DoUpdate
<1> QED BY <1>1, <1>2 DEF Rewritten

(* A thread that is done with a unit looks for the next one.               *)
LEMMA UnitDoneTypeInv ==
  ASSUME TypeInv, NEW t \in Thread, UnitDone(t),
         table' \in Table, nextId' \in Nat \ {0}, UNCHANGED <<listing, p>>,
         unseen' \in SUBSET Key, overtaken' \in SUBSET Key,
         orphan' \in [Key -> {"no", "crash", "error"}]
  PROVE  TypeInv'
<1> USE DEF TypeInv
<1>1. req' \in [Thread -> Request]
  BY DEF UnitDone, GoOn, TypeOK, Request, Busy
<1>2. TypeOK'
  BY <1>1 DEF TypeOK
<1>3. HoldsRow'
  BY DEF HoldsRow
<1>4. AtUnit'
  BY DEF AtUnit, UnitDone, GoOn, TypeOK
<1> QED BY <1>2, <1>3, <1>4

LEMMA RequestTypeInv ==
  ASSUME TypeInv, NEW t \in Thread, RequestNext(t)
  PROVE  TypeInv'
<1> USE DEF TypeInv
<1>0. "refused" \in Answered
  BY DEF Answered
<1>1. CASE Reject(t) \/ FetchFails(t)
  BY <1>0, <1>1, ReplyTypeInv DEF Reject, FetchFails, TypeOK, history
<1>2. ASSUME NEW b \in Bank, NEW d \in Document, FetchUnits(t, b, d)
      PROVE  TypeInv'
  <2> DEFINE s    == Snapshot(b, d)
             todo == {k \in Key : s[k] # None}
  <2>1. s \in Units
    BY DEF Snapshot, Units, TypeOK
  <2>2. CASE todo = {}
    BY <1>0, <1>2, <2>2, ReplyTypeInv DEF FetchUnits, TypeOK, history
  <2>3. CASE todo # {}
    <3>1. req' = [req EXCEPT ![t] =
                    [pc |-> "next", snap |-> s, todo |-> todo, key |-> None]]
      BY <1>2, <2>3 DEF FetchUnits
    <3>2. [pc |-> "next", snap |-> s, todo |-> todo, key |-> None] \in Request
      BY <2>1 DEF Request, Busy
    <3>3. TypeOK'
      BY <1>2, <3>1, <3>2 DEF FetchUnits, TypeOK, history
    <3>4. HoldsRow' /\ AtUnit'
      BY <1>2, <3>1 DEF FetchUnits, HoldsRow, AtUnit, TypeOK
    <3> QED BY <3>3, <3>4
  <2> QED BY <2>2, <2>3
<1>3. ASSUME NEW k \in Key, SelectPrior(t, k)
      PROVE  TypeInv'
  <2>1. TypeOK'
    <3>1. Decision(table, k, req[t].snap[k]) \in {"skip"} \cup Busy
      BY DEF Decision, Busy
    <3> QED BY <1>3, <3>1 DEF SelectPrior, GoOn, TypeOK, Request, history
  <2>2. HoldsRow' /\ AtUnit'
    BY <1>3 DEF SelectPrior, GoOn, HoldsRow, AtUnit, TypeOK, Decision
  <2> QED BY <2>1, <2>2
<1>4. CASE Insert(t)
  <2>1. CASE Present(table, req[t].key)
    BY <1>0, <1>4, <2>1, ReplyTypeInv DEF Insert, TypeOK, history
  <2>2. CASE ~Present(table, req[t].key)
    <3>1. req[t].key \in Key /\ req[t].snap \in Units
      BY <1>4 DEF Insert, AtUnit, TypeOK, Request
    <3>2. DoInsert(req[t].key, req[t].snap[req[t].key])
      BY <1>4, <2>2 DEF Insert
    <3> QED BY <1>4, <2>2, <3>1, <3>2, WriteTypes, UnitDoneTypeInv DEF Insert, Units
  <2> QED BY <2>1, <2>2
<1>5. CASE Update(t)
  <2>1. req[t].key \in Key /\ req[t].snap \in Units
    BY <1>5 DEF Update, AtUnit, TypeOK, Request
  <2> QED BY <1>5, <2>1, WriteTypes, UnitDoneTypeInv DEF Update, Units
<1>6. CASE Answer(t)
  <2>1. TypeOK'
    BY <1>6 DEF Answer, GoOn, TypeOK, Request, Answered, history
  <2>2. HoldsRow' /\ AtUnit'
    BY <1>6 DEF Answer, GoOn, HoldsRow, AtUnit, TypeOK
  <2> QED BY <2>1, <2>2
<1> QED BY <1>1, <1>2, <1>3, <1>4, <1>5, <1>6 DEF RequestNext, RequestStep

(* A step that leaves the threads alone and frees the poller.              *)
LEMMA LetGoTypeInv ==
  ASSUME TypeInv, NEW pc \in {"down", "idle"}, p' = NoRow(pc),
         table' \in Table, UNCHANGED <<listing, nextId, req, unseen, overtaken>>,
         orphan' \in [Key -> {"no", "crash", "error"}]
  PROVE  TypeInv'
<1> USE DEF TypeInv
<1>1. TypeOK'
  BY ResetTypes DEF TypeOK
<1>2. HoldsRow' /\ AtUnit'
  BY DEF HoldsRow, AtUnit, NoRow
<1> QED BY <1>1, <1>2

LEMMA PollerTypeInv ==
  ASSUME TypeInv, PollerStep
  PROVE  TypeInv'
<1> USE DEF TypeInv
<1>0. {"processing", "processed", "failed"} \subseteq Status
  BY DEF Status, Terminal
<1>1. CASE PollSelect
  <2>1. PICK k \in Key :
          /\ p' = [pc |-> "fetched", key |-> k, content |-> table[k].content, ids |-> {}]
          /\ overtaken' = overtaken \ {k}
    BY <1>1 DEF PollSelect, PendingRow, Pending
  <2>2. p' \in Worker
    BY <2>1 DEF Worker, TypeOK, Table, Row
  <2>3. TypeOK'
    BY <1>1, <2>1, <2>2 DEF PollSelect, TypeOK
  <2>4. HoldsRow' /\ AtUnit'
    BY <1>1, <2>1 DEF PollSelect, HoldsRow, AtUnit
  <2> QED BY <2>3, <2>4
<1>2. CASE PollClaim
  <2>1. p.key \in Key
    BY <1>2 DEF PollClaim, HoldsRow
  <2>2. table' \in Table
    BY <1>0, <1>2, <2>1, TableTypes DEF PollClaim, TypeOK
  <2>3. p' \in Worker
    BY <1>2 DEF PollClaim, TypeOK, Worker, Claimed
  <2>4. TypeOK'
    BY <1>2, <2>2, <2>3 DEF PollClaim, TypeOK
  <2>5. HoldsRow' /\ AtUnit'
    BY <1>2, <2>1, <2>4 DEF PollClaim, HoldsRow, AtUnit, TypeOK, Worker
  <2> QED BY <2>4, <2>5
<1>3. ASSUME NEW pc \in {"finish", "fail", "mirror"}, NEW ids \in SUBSET Unit,
             Reconciled(pc, ids)
      PROVE  TypeInv'
  <2>1. p' \in Worker
    BY <1>3 DEF Reconciled, TypeOK, Worker, Claimed
  <2>2. TypeOK'
    BY <1>3, <2>1 DEF Reconciled, TypeOK, history
  <2>3. HoldsRow' /\ AtUnit'
    BY <1>3 DEF Reconciled, HoldsRow, AtUnit, TypeOK, Worker
  <2> QED BY <2>2, <2>3
<1>4. CASE PollMirror
  <2>1. table' \in Table
    BY <1>4, TableTypes, p.key \in Key DEF PollMirror, TypeOK, HoldsRow
  <2>2. p' \in Worker
    BY <1>4 DEF PollMirror, TypeOK, Worker, Claimed
  <2>3. TypeOK'
    BY <1>4, <2>1, <2>2 DEF PollMirror, TypeOK, history
  <2>4. HoldsRow' /\ AtUnit'
    BY <1>4 DEF PollMirror, HoldsRow, AtUnit, TypeOK, Worker
  <2> QED BY <2>3, <2>4
<1>5. CASE PollFinish \/ PollFail
  <2>1. p.key \in Key
    BY <1>5 DEF PollFinish, PollFail, HoldsRow
  <2>2. table' \in Table
    BY <1>0, <1>5, <2>1, TableTypes DEF PollFinish, PollFail, TypeOK
  <2> QED
    BY <1>5, <2>2, LetGoTypeInv DEF PollFinish, PollFail, TypeOK, history
<1> QED
  BY <1>1, <1>2, <1>3, <1>4, <1>5
     DEF PollerStep, ReconcileFails, ReconcileFindsNothing, ReconcileNames

LEMMA FaultTypeInv ==
  ASSUME TypeInv, Fault
  PROVE  TypeInv'
<1> USE DEF TypeInv
<1>1. ASSUME NEW t \in Thread, RequestDbError(t)
      PROVE  TypeInv'
  <2> DEFINE k == req[t].key
  <2>1. "refused" \in Answered
    BY DEF Answered
  <2>2. CASE UNCHANGED <<table, nextId, history>>
    BY <1>1, <2>1, <2>2, ReplyTypeInv DEF RequestDbError, TypeOK, history
  <2>3. CASE /\ req[t].pc \in {"insert", "update"}
             /\ DoInsert(k, req[t].snap[k]) \/ DoUpdate(k, req[t].snap[k])
    <3>1. k \in Key /\ req[t].snap \in Units
      BY <2>3 DEF AtUnit, TypeOK, Request
    <3>2. req[t].snap[k] \in Content \cup {None}
      BY <3>1 DEF Units
    <3> QED BY <1>1, <2>1, <2>3, <3>1, <3>2, WriteTypes, ReplyTypeInv DEF RequestDbError
  <2> QED BY <1>1, <2>2, <2>3 DEF RequestDbError
<1>2. CASE PollDbError
  <2>1. p.key \in Key
    BY <1>2 DEF PollDbError, HoldsRow
  <2>2. {"processing", "processed", "failed"} \subseteq Status
    BY DEF Status, Terminal
  <2>3. table' \in Table
    BY <1>2, <2>1, <2>2, TableTypes DEF PollDbError, PollWrite, TypeOK
  <2>4. orphan' \in [Key -> {"no", "crash", "error"}]
    BY <1>2, <2>1 DEF PollDbError, Abandoned, TypeOK
  <2> QED BY <1>2, <2>3, <2>4, LetGoTypeInv DEF PollDbError
<1>3. CASE Crash
  <2>1. "idle" \in Answered
    BY DEF Answered
  <2>2. req' \in [Thread -> Request]
    BY <1>3, <2>1, ResetTypes DEF Crash
  <2>3. orphan' \in [Key -> {"no", "crash", "error"}]
    BY <1>3 DEF Crash, Abandoned, TypeOK, Worker
  <2>4. TypeOK'
    BY <1>3, <2>2, <2>3, ResetTypes DEF Crash, TypeOK
  <2>5. HoldsRow' /\ AtUnit'
    BY <1>3 DEF Crash, HoldsRow, AtUnit, NoRow, NoRequest
  <2> QED BY <2>4, <2>5
<1> QED BY <1>1, <1>2, <1>3 DEF Fault

LEMMA NextTypeInv == TypeInv /\ [Next]_vars => TypeInv'
<1> SUFFICES ASSUME TypeInv, [Next]_vars PROVE TypeInv'
  OBVIOUS
<1> USE DEF TypeInv
<1>1. ASSUME NEW k \in Key, NEW c \in Content \cup {None}, Relist(k, c)
      PROVE  TypeInv'
  <2>1. TypeOK'
    BY <1>1 DEF Relist, TypeOK, Units, history
  <2>2. HoldsRow' /\ AtUnit'
    BY <1>1 DEF Relist, HoldsRow, AtUnit
  <2> QED BY <2>1, <2>2
<1>2. CASE Restart
  BY <1>2, LetGoTypeInv DEF Restart, TypeOK, history
<1>3. CASE UNCHANGED vars
  BY <1>3 DEF vars, TypeOK, HoldsRow, AtUnit
<1> QED
  BY <1>1, <1>2, <1>3, RequestTypeInv, PollerTypeInv, FaultTypeInv DEF Next, HealthyNext

LEMMA TypeInvariant == Spec => []TypeInv
BY InitTypeInv, NextTypeInv, PTL DEF Spec

(* Every variable keeps its type, whatever requests, poller, crashes and   *)
(* database errors do.                                                     *)
THEOREM TypeCorrect == Spec => []TypeOK
<1>1. TypeInv => TypeOK
  BY DEF TypeInv
<1> QED BY <1>1, TypeInvariant, PTL

-----------------------------------------------------------------------------
(* What a step may do to the rows: one of few things.                      *)

Write(k) == \E c \in Content \cup {None} : DoInsert(k, c) \/ DoUpdate(k, c)

LEMMA RequestEffect ==
  ASSUME TypeInv, NEW t \in Thread, RequestNext(t) \/ RequestDbError(t)
  PROVE  /\ UNCHANGED p
         /\ UNCHANGED <<table, history>> \/ \E k \in Key : Write(k)
<1> USE DEF TypeInv
<1>1. ASSUME req[t].pc \in {"insert", "update"}
      PROVE  /\ req[t].key \in Key
             /\ req[t].snap[req[t].key] \in Content \cup {None}
  BY <1>1 DEF AtUnit, TypeOK, Request, Units
<1>2. CASE Insert(t) \/ Update(t) \/ RequestDbError(t)
  BY <1>1, <1>2 DEF Insert, Update, RequestDbError, Write
<1>3. CASE \/ Reject(t) \/ FetchFails(t) \/ Answer(t)
           \/ \E b \in Bank, d \in Document : FetchUnits(t, b, d)
           \/ \E k \in Key : SelectPrior(t, k)
  BY <1>3 DEF Reject, FetchFails, Answer, FetchUnits, SelectPrior
<1> QED BY <1>2, <1>3 DEF RequestNext, RequestStep

(* A write makes one row pending and touches no other.                     *)
LEMMA WriteEffect ==
  ASSUME TypeInv, NEW k \in Key, Write(k)
  PROVE  /\ Rewritten(k)
         /\ table'[k].status = "pending"
         /\ \A j \in Key \ {k} : table'[j] = table[j]
BY DEF Write, DoInsert, DoUpdate, InsertRow, RewriteRow, TypeInv, TypeOK, Table, Row

Quiet == UNCHANGED <<table, p, history>>

LEMMA StepEffect ==
  ASSUME TypeInv, [Next]_vars
  PROVE  \/ Quiet
         \/ UNCHANGED p /\ \E k \in Key : Write(k)
         \/ PollSelect
         \/ PollClaim
         \/ \E pc \in {"finish", "fail", "mirror"}, ids \in SUBSET Unit : Reconciled(pc, ids)
         \/ PollMirror
         \/ PollFinish
         \/ PollFail
         \/ PollDbError
         \/ Crash
         \/ Restart
<1>1. ASSUME NEW k \in Key, NEW c \in Content \cup {None}, Relist(k, c)
      PROVE  Quiet
  BY <1>1 DEF Relist, Quiet, history
<1>2. ASSUME NEW t \in Thread, RequestNext(t) \/ RequestDbError(t)
      PROVE  Quiet \/ (UNCHANGED p /\ \E k \in Key : Write(k))
  BY <1>2, RequestEffect DEF Quiet
<1>3. CASE PollerStep
  BY <1>3 DEF PollerStep, ReconcileFails, ReconcileFindsNothing, ReconcileNames
<1>4. CASE UNCHANGED vars
  BY <1>4 DEF vars, Quiet, history
<1> QED BY <1>1, <1>2, <1>3, <1>4 DEF Next, HealthyNext, Fault

-----------------------------------------------------------------------------
(* The row in hand.  While nobody overtakes the poller, the row it fetched *)
(* has the text it fetched, and after the claim that text is being         *)
(* reconciled.                                                             *)

InHandInv ==
  /\ p.pc \in {"down", "idle"} => p.key = None
  /\ p.pc = "fetched" => table[p.key].status = "pending"
  /\ \A k \in Key : InFlight(k) /\ k \notin overtaken =>
       /\ p.pc = "fetched" => table[k].content = p.content
       /\ p.pc \in Claimed => k \notin unseen

LEMMA InitInHand == Init => InHandInv
BY NoneAssumption DEF Init, InHandInv, NoRow, InFlight, Claimed

LEMMA NextInHand == TypeInv /\ InHandInv /\ [Next]_vars => InHandInv'
<1> SUFFICES ASSUME TypeInv, InHandInv, [Next]_vars PROVE InHandInv'
  OBVIOUS
<1> USE DEF InHandInv, InFlight
<1>1. CASE Quiet
  BY <1>1 DEF Quiet, history
<1>2. ASSUME UNCHANGED p, NEW k \in Key, Write(k)
      PROVE  InHandInv'
  BY <1>2, WriteEffect DEF Rewritten, TypeInv, HoldsRow
<1>3. CASE PollSelect
  <2>1. PICK k \in Key :
          /\ p' = [pc |-> "fetched", key |-> k, content |-> table[k].content, ids |-> {}]
          /\ table[k].status = "pending"
    BY <1>3 DEF PollSelect, PendingRow, Pending
  <2> QED BY <1>3, <2>1 DEF PollSelect, Claimed
<1>4. CASE PollClaim
  <2>1. p' = [p EXCEPT !.pc = "reconciling"] /\ p \in Worker
    BY <1>4 DEF PollClaim, TypeInv, TypeOK
  <2>2. p'.pc = "reconciling" /\ p'.key = p.key
    BY <2>1 DEF Worker
  <2>3. ASSUME InFlight(p.key)', p.key \notin overtaken
        PROVE  p.key \notin unseen'
    BY <1>4, <2>3 DEF PollClaim, TypeInv, HoldsRow
  <2> QED BY <1>4, <2>2, <2>3 DEF PollClaim, Claimed
<1>5. ASSUME NEW pc \in {"finish", "fail", "mirror"}, NEW ids \in SUBSET Unit,
             Reconciled(pc, ids)
      PROVE  InHandInv'
  <2>1. p'.pc = pc /\ p'.key = p.key
    BY <1>5 DEF Reconciled, TypeInv, TypeOK, Worker
  <2> QED BY <1>5, <2>1 DEF Reconciled, Claimed, history
<1>6. CASE PollMirror
  <2>1. p'.pc = "finish" /\ p'.key = p.key
    BY <1>6 DEF PollMirror, TypeInv, TypeOK, Worker
  <2> QED BY <1>6, <2>1 DEF PollMirror, Claimed, history
<1>7. CASE PollFinish \/ PollFail \/ PollDbError \/ Crash \/ Restart
  <2>1. p' = NoRow("idle") \/ p' = NoRow("down")
    BY <1>7 DEF PollFinish, PollFail, PollDbError, Crash, Restart
  <2> QED BY <2>1, NoneAssumption DEF NoRow, Claimed
<1> QED BY <1>1, <1>2, <1>3, <1>4, <1>5, <1>6, <1>7, StepEffect

LEMMA InHandInvariant == Spec => []InHandInv
BY TypeInvariant, InitInHand, NextInHand, PTL DEF Spec

-----------------------------------------------------------------------------
(* What the statements of the poller do to the rows.                       *)

LEMMA SetStatusEffect ==
  ASSUME TypeInv, NEW k \in Key, NEW s \in Status, table' = SetStatus(table, k, s)
  PROVE  /\ table'[k].status = s
         /\ \A j \in Key \ {k} : table'[j] = table[j]
BY DEF SetStatus, TypeInv, TypeOK, Table, Row

LEMMA MarkSupersededEffect ==
  ASSUME TypeInv, NEW b, NEW ids, table' = MarkSuperseded(table, b, ids)
  PROVE  \A j \in Key :
           \/ table'[j] = table[j]
           \/ /\ j[1] = b
              /\ table[j].status \in Eligible
              /\ table'[j].status = "superseded"
BY DEF MarkSuperseded, TypeInv, TypeOK, Table, Row

LEMMA PollerStatuses == {"processing", "processed", "failed"} \subseteq Status
BY DEF Status, Terminal

-----------------------------------------------------------------------------
(* Requeueing.  InHandInv is what makes it inductive: without it nothing   *)
(* says that the row mark_processed settles was not rewritten meanwhile.   *)

LEMMA InitSettled == Init => SettledUnlessOvertaken
BY DEF Init, SettledUnlessOvertaken

LEMMA NextSettled ==
  TypeInv /\ InHandInv /\ SettledUnlessOvertaken /\ [Next]_vars => SettledUnlessOvertaken'
<1> SUFFICES ASSUME TypeInv, InHandInv, SettledUnlessOvertaken, [Next]_vars,
                    NEW k \in Key, Settled(k)', k \in unseen'
             PROVE  k \in overtaken'
  BY DEF SettledUnlessOvertaken
<1> USE DEF Settled
<1>0. table[k] = table'[k] /\ k \in unseen => k \in overtaken
  BY DEF SettledUnlessOvertaken
<1>1. CASE Quiet
  BY <1>0, <1>1 DEF Quiet, history
<1>2. ASSUME NEW j \in Key, Write(j)
      PROVE  k \in overtaken'
  BY <1>0, <1>2, WriteEffect DEF Rewritten
<1>3. CASE PollSelect
  BY <1>0, <1>3 DEF PollSelect, PendingRow, Pending
<1>4. CASE PollClaim
  <2>1. p.key \in Key /\ table'[p.key].status = "processing"
    BY <1>4, SetStatusEffect, PollerStatuses DEF PollClaim, TypeInv, HoldsRow
  <2>2. k # p.key
    BY <2>1
  <2> QED BY <1>0, <1>4, <2>1, <2>2, SetStatusEffect, PollerStatuses DEF PollClaim
<1>5. ASSUME NEW pc, NEW ids, Reconciled(pc, ids)
      PROVE  k \in overtaken'
  BY <1>0, <1>5 DEF Reconciled, history
<1>6. CASE PollMirror
  BY <1>0, <1>6, MarkSupersededEffect DEF PollMirror, history
<1>7. CASE PollFinish \/ PollFail
  <2>1. p.key \in Key /\ p.pc \in Claimed
    BY <1>7 DEF PollFinish, PollFail, TypeInv, HoldsRow, Claimed
  <2>2. CASE k = p.key
    BY <1>7, <2>1, <2>2 DEF PollFinish, PollFail, InHandInv, InFlight, history
  <2>3. CASE k # p.key
    BY <1>0, <1>7, <2>1, <2>3, SetStatusEffect, PollerStatuses
       DEF PollFinish, PollFail, history
  <2> QED BY <2>2, <2>3
<1>8. CASE PollDbError
  <2>1. p.key \in Key /\ UNCHANGED <<unseen, overtaken>>
    BY <1>8 DEF PollDbError, TypeInv, HoldsRow
  <2>2. CASE UNCHANGED table
    BY <1>0, <2>1, <2>2
  <2>3. CASE p.pc = "fetched" /\ table' = SetStatus(table, p.key, "processing")
    BY <1>0, <2>1, <2>3, SetStatusEffect, PollerStatuses
  <2>4. CASE p.pc = "mirror" /\ table' = MarkSuperseded(table, p.key[1], p.ids)
    BY <1>0, <2>1, <2>4, MarkSupersededEffect
  <2>5. ASSUME p.pc \in {"finish", "fail"}, NEW s \in {"processed", "failed"},
               table' = SetStatus(table, p.key, s)
        PROVE  k \in overtaken'
    <3>1. CASE k = p.key
      BY <2>1, <2>5, <3>1 DEF InHandInv, InFlight, Claimed
    <3>2. CASE k # p.key
      BY <1>0, <2>1, <2>5, <3>2, SetStatusEffect, PollerStatuses
    <3> QED BY <3>1, <3>2
  <2> QED BY <1>8, <2>2, <2>3, <2>4, <2>5 DEF PollDbError, PollWrite
<1>9. CASE Crash \/ Restart
  BY <1>0, <1>9 DEF Crash, Restart, history
<1> QED
  BY <1>1, <1>2, <1>3, <1>4, <1>5, <1>6, <1>7, <1>8, <1>9, StepEffect

(* A row is only settled with a text nobody reconciled if the text came    *)
(* while the poller had the row in hand: outside that window upsert's      *)
(* reset to 'pending' always brings it back to the poller.                 *)
THEOREM RequeueIsComplete == Spec => []SettledUnlessOvertaken
BY TypeInvariant, InHandInvariant, InitSettled, NextSettled, PTL DEF Spec

-----------------------------------------------------------------------------
(* Rows that are 'processing'.                                             *)

LEMMA InitProcessing == Init => ProcessingIsAccounted
BY DEF Init, ProcessingIsAccounted, EmptyTable

LEMMA NextProcessing ==
  TypeInv /\ ProcessingIsAccounted /\ [Next]_vars => ProcessingIsAccounted'
<1> SUFFICES ASSUME TypeInv, ProcessingIsAccounted, [Next]_vars,
                    NEW k \in Key, table'[k].status = "processing"
             PROVE  orphan'[k] # "no" \/ (InFlight(k) /\ p.pc \in Claimed)'
  BY DEF ProcessingIsAccounted
<1> DEFINE Accounted == orphan[k] # "no" \/ (InFlight(k) /\ p.pc \in Claimed)
<1> USE DEF InFlight
<1>0. table[k].status = "processing" => Accounted
  BY DEF ProcessingIsAccounted
<1>1. CASE Quiet
  BY <1>0, <1>1 DEF Quiet, history
<1>2. ASSUME UNCHANGED p, NEW j \in Key, Write(j)
      PROVE  Accounted'
  BY <1>0, <1>2, WriteEffect DEF Rewritten, TypeInv, TypeOK
<1>3. CASE PollSelect
  BY <1>0, <1>3 DEF PollSelect, Claimed
<1>4. CASE PollClaim
  <2>1. p.key \in Key /\ p'.key = p.key /\ p'.pc = "reconciling"
    BY <1>4 DEF PollClaim, TypeInv, TypeOK, Worker, HoldsRow
  <2> QED BY <1>0, <1>4, <2>1, SetStatusEffect, PollerStatuses DEF PollClaim, Claimed
<1>5. ASSUME NEW pc \in {"finish", "fail", "mirror"}, NEW ids \in SUBSET Unit,
             Reconciled(pc, ids)
      PROVE  Accounted'
  <2>1. p'.pc = pc /\ p'.key = p.key
    BY <1>5 DEF Reconciled, TypeInv, TypeOK, Worker
  <2> QED BY <1>0, <1>5, <2>1 DEF Reconciled, Claimed, history
<1>6. CASE PollMirror
  <2>1. p'.pc = "finish" /\ p'.key = p.key
    BY <1>6 DEF PollMirror, TypeInv, TypeOK, Worker
  <2> QED BY <1>0, <1>6, <2>1, MarkSupersededEffect DEF PollMirror, Claimed, history
<1>7. CASE PollFinish \/ PollFail
  <2>1. p.key \in Key /\ UNCHANGED orphan
    BY <1>7 DEF PollFinish, PollFail, TypeInv, HoldsRow, history
  <2>2. k # p.key /\ table'[k] = table[k]
    BY <1>7, <2>1, SetStatusEffect, PollerStatuses DEF PollFinish, PollFail
  <2> QED BY <1>0, <2>1, <2>2
<1>8. CASE PollDbError \/ Crash
  <2>1. \E why \in {"error", "crash"} : Abandoned(table', why)
    BY <1>8 DEF PollDbError, Crash
  <2>2. CASE k = p.key
    BY <2>1, <2>2, NoneAssumption DEF Abandoned, TypeInv, TypeOK
  <2>3. CASE k # p.key
    <3>1. table[k].status = "processing"
      <4>1. CASE UNCHANGED table
        BY <4>1
      <4>2. CASE PollWrite /\ p.key \in Key
        BY <2>3, <4>2, SetStatusEffect, MarkSupersededEffect, PollerStatuses DEF PollWrite
      <4> QED BY <1>8, <4>1, <4>2 DEF PollDbError, Crash, TypeInv, HoldsRow
    <3>2. orphan[k] # "no"
      BY <1>0, <2>3, <3>1
    <3> QED BY <2>1, <2>3, <3>2 DEF Abandoned, TypeInv, TypeOK
  <2> QED BY <2>2, <2>3
<1>9. CASE Restart
  BY <1>0, <1>9 DEF Restart, history, Claimed
<1> QED
  BY <1>1, <1>2, <1>3, <1>4, <1>5, <1>6, <1>7, <1>8, <1>9, StepEffect

(* However requests rewrite rows under it, the poller has one row in hand, *)
(* and it never loses a 'processing' row but by a crash or a database      *)
(* error.                                                                  *)
THEOREM ProcessingAccounted == Spec => []ProcessingIsAccounted
BY TypeInvariant, InitProcessing, NextProcessing, PTL DEF Spec

-----------------------------------------------------------------------------
(* The poller keeps to the bank of its row.                                *)

LEMMA StepKeepsToBank ==
  ASSUME TypeInv, PollerStep \/ PollDbError, NEW k \in Key, table'[k] # table[k]
  PROVE  k[1] = p.key[1]
<1>1. CASE UNCHANGED table
  BY <1>1
<1>2. CASE PollClaim \/ PollFinish \/ PollFail
  <2>1. p.key \in Key
    BY <1>2 DEF PollClaim, PollFinish, PollFail, TypeInv, HoldsRow
  <2>2. k = p.key
    BY <1>2, <2>1, SetStatusEffect, PollerStatuses DEF PollClaim, PollFinish, PollFail
  <2> QED BY <2>2
<1>3. CASE PollMirror
  BY <1>3, MarkSupersededEffect DEF PollMirror
<1>4. CASE PollDbError /\ PollWrite
  <2>1. p.key \in Key
    BY <1>4 DEF PollDbError, TypeInv, HoldsRow
  <2>2. CASE p.pc = "mirror"
    BY <1>4, <2>2, MarkSupersededEffect DEF PollWrite
  <2>3. CASE p.pc # "mirror"
    <3>1. k = p.key
      BY <1>4, <2>1, <2>3, SetStatusEffect, PollerStatuses DEF PollWrite
    <3> QED BY <3>1
  <2> QED BY <2>2, <2>3
<1> QED
  BY <1>1, <1>2, <1>3, <1>4
     DEF PollerStep, PollDbError, PollSelect, ReconcileFails, ReconcileFindsNothing,
         ReconcileNames, Reconciled

(* No verdict, however wrong, changes a row of another bank.               *)
THEOREM BanksAreIsolated == Spec => BankIsolation
<1>1. TypeInv /\ [Next]_vars =>
        [PollerStep \/ PollDbError =>
           \A k \in Key : table'[k] # table[k] => k[1] = p.key[1]]_vars
  BY StepKeepsToBank
<1> QED BY <1>1, TypeInvariant, PTL DEF Spec, BankIsolation

-----------------------------------------------------------------------------
(* Nothing is lost between the answer of /memories/list and "accepted".    *)

(* Rows are never deleted.                                                 *)
LEMMA RowsStay ==
  ASSUME TypeInv, [Next]_vars, NEW k \in Key, Present(table, k)
  PROVE  Present(table', k)
<1> USE DEF Present
<1>1. CASE UNCHANGED table
  BY <1>1
<1>2. ASSUME NEW j \in Key, Write(j)
      PROVE  table'[k].status # "absent"
  BY <1>2, WriteEffect
<1>3. CASE PollClaim \/ PollFinish \/ PollFail
  <2>1. p.key \in Key
    BY <1>3 DEF PollClaim, PollFinish, PollFail, TypeInv, HoldsRow
  <2> QED BY <1>3, <2>1, SetStatusEffect, PollerStatuses DEF PollClaim, PollFinish, PollFail
<1>4. CASE PollMirror
  BY <1>4, MarkSupersededEffect DEF PollMirror
<1>5. CASE PollDbError /\ PollWrite
  <2>1. p.key \in Key
    BY <1>5 DEF PollDbError, TypeInv, HoldsRow
  <2> QED BY <1>5, <2>1, SetStatusEffect, MarkSupersededEffect, PollerStatuses DEF PollWrite
<1> QED
  BY <1>1, <1>2, <1>3, <1>4, <1>5, StepEffect
     DEF Quiet, PollSelect, Reconciled, PollDbError, Crash, Restart

(* What a thread has put behind it has a row.                              *)
Behind(t) ==
  /\ req[t].pc \in Busy => \A k \in Asked(t) : k \notin req[t].todo => Present(table, k)
  /\ req[t].pc = "update" => Present(table, req[t].key)
  /\ req[t].pc = "accepted" => \A k \in Asked(t) : Present(table, k)

QueuedInv == \A t \in Thread : Behind(t)

LEMMA InitQueued == Init => QueuedInv
BY DEF Init, QueuedInv, Behind, NoRequest, Busy

(* A thread at rest stays as it is.                                        *)
LEMMA RestKeepsBehind ==
  ASSUME TypeInv, [Next]_vars, NEW t \in Thread, Behind(t), req'[t] = req[t]
  PROVE  Behind(t)'
<1>1. req[t].pc = "update" => req[t].key \in Key
  BY DEF TypeInv, AtUnit
<1> QED BY <1>1, RowsStay DEF Behind, Asked

LEMMA ReplyIsBehind ==
  ASSUME TypeInv, NEW t \in Thread, NEW pc \in {"idle", "refused"}, req'[t] = NoRequest(pc)
  PROVE  Behind(t)'
BY DEF Behind, NoRequest, Busy

LEMMA RequestKeepsBehind ==
  ASSUME TypeInv, [Next]_vars, NEW t \in Thread, Behind(t),
         RequestNext(t) \/ RequestDbError(t)
  PROVE  Behind(t)'
<1>0. req \in [Thread -> Request] /\ table \in Table
  BY DEF TypeInv, TypeOK
<1>1. ASSUME Reply(t, "refused")
      PROVE  Behind(t)'
  BY <1>0, <1>1, ReplyIsBehind DEF Reply
<1>2. ASSUME NEW b \in Bank, NEW d \in Document, FetchUnits(t, b, d), ~Reply(t, "refused")
      PROVE  Behind(t)'
  <2> DEFINE s == Snapshot(b, d)
  <2>1. req'[t] = [pc |-> "next", snap |-> s, todo |-> {k \in Key : s[k] # None},
                   key |-> None]
    BY <1>0, <1>2 DEF FetchUnits
  <2> QED BY <2>1 DEF Behind, Asked, Busy
<1>3. ASSUME NEW k \in Key, SelectPrior(t, k)
      PROVE  Behind(t)'
  <2>1. UNCHANGED table /\ Asked(t)' = Asked(t)
    BY <1>0, <1>3 DEF SelectPrior, GoOn, Asked
  <2>2. CASE Decision(table, k, req[t].snap[k]) = "skip"
    <3>1. Present(table, k)
      BY <2>2 DEF Decision
    <3>2. req'[t].pc = "next" /\ req'[t].todo = req[t].todo \ {k} /\ req[t].pc \in Busy
      BY <1>0, <1>3, <2>2 DEF SelectPrior, GoOn, Busy
    <3> QED BY <2>1, <3>1, <3>2 DEF Behind, Busy
  <2>3. CASE Decision(table, k, req[t].snap[k]) # "skip"
    <3>1. /\ req'[t].pc = Decision(table, k, req[t].snap[k])
          /\ req'[t].todo = req[t].todo
          /\ req'[t].key = k
          /\ req[t].pc \in Busy
      BY <1>0, <1>3, <2>3 DEF SelectPrior, GoOn, Busy
    <3> QED BY <2>1, <3>1 DEF Behind, Decision, Busy
  <2> QED BY <2>2, <2>3
<1>4. ASSUME req[t].pc \in {"insert", "update"}, UnitDone(t), Write(req[t].key)
      PROVE  Behind(t)'
  <2>1. req[t].key \in Key /\ req[t].pc \in Busy
    BY <1>4 DEF TypeInv, AtUnit, Busy
  <2>2. /\ req'[t].pc = "next"
        /\ req'[t].todo = req[t].todo \ {req[t].key}
        /\ Asked(t)' = Asked(t)
    BY <1>0, <1>4 DEF UnitDone, GoOn, Asked
  <2>3. Present(table', req[t].key)
    BY <1>4, <2>1, WriteEffect DEF Present
  <2>4. \A k \in Asked(t) : k \notin req[t].todo => Present(table', k)
    BY <2>1, RowsStay DEF Behind, Asked
  <2> QED BY <2>2, <2>3, <2>4 DEF Behind, Busy
<1>5. CASE Insert(t) \/ Update(t)
  <2>1. CASE Reply(t, "refused")
    BY <1>1, <2>1
  <2>2. CASE ~Reply(t, "refused")
    <3>1. req[t].pc \in {"insert", "update"} /\ UnitDone(t)
      BY <1>5, <2>2 DEF Insert, Update
    <3>2. req[t].key \in Key /\ req[t].snap \in Units
      BY <1>0, <3>1 DEF TypeInv, AtUnit, Request
    <3>3. req[t].snap[req[t].key] \in Content \cup {None}
      BY <3>2 DEF Units
    <3>4. Write(req[t].key)
      BY <1>5, <2>2, <3>3 DEF Insert, Update, Write
    <3> QED BY <1>4, <3>1, <3>4
  <2> QED BY <2>1, <2>2
<1>6. CASE Answer(t)
  <2>1. /\ req'[t].pc = "accepted"
        /\ req[t].pc \in Busy /\ req[t].todo = {}
        /\ Asked(t)' = Asked(t)
        /\ UNCHANGED table
    BY <1>0, <1>6 DEF Answer, GoOn, Asked, Busy
  <2> QED BY <2>1 DEF Behind, Busy
<1> QED
  BY <1>1, <1>2, <1>3, <1>5, <1>6
     DEF RequestNext, RequestStep, RequestDbError, Reject, FetchFails

LEMMA NextQueued == TypeInv /\ QueuedInv /\ [Next]_vars => QueuedInv'
<1> SUFFICES ASSUME TypeInv, QueuedInv, [Next]_vars, NEW t \in Thread
             PROVE  Behind(t)'
  BY DEF QueuedInv
<1>0. Behind(t) /\ req \in [Thread -> Request]
  BY DEF QueuedInv, TypeInv, TypeOK
<1>1. CASE UNCHANGED req
  BY <1>0, <1>1, RestKeepsBehind
<1>2. ASSUME NEW u \in Thread, RequestNext(u) \/ RequestDbError(u), u # t
      PROVE  req'[t] = req[t]
  BY <1>0, <1>2
     DEF RequestNext, RequestStep, RequestDbError, Reject, FetchFails, FetchUnits,
         SelectPrior, Insert, Update, Answer, Reply, GoOn, UnitDone
<1>3. CASE Crash
  BY <1>3, ReplyIsBehind DEF Crash
<1>4. CASE \/ \E k \in Key, c \in Content \cup {None} : Relist(k, c)
           \/ PollerStep \/ Restart \/ PollDbError \/ UNCHANGED vars
  <2>1. UNCHANGED req
    BY <1>4
       DEF Relist, PollerStep, Restart, PollDbError, PollSelect, PollClaim,
           ReconcileFails, ReconcileFindsNothing, ReconcileNames, Reconciled, PollMirror,
           PollFinish, PollFail, vars
  <2> QED BY <1>1, <2>1
<1> QED
  BY <1>0, <1>1, <1>2, <1>3, <1>4, RestKeepsBehind, RequestKeepsBehind
     DEF Next, HealthyNext, Fault

(* "accepted" means that every unit of the document has a row, whatever    *)
(* other deliveries and database errors the loop met.                      *)
THEOREM AcceptedQueued == Spec => []AcceptedIsQueued
<1>1. QueuedInv => AcceptedIsQueued
  BY DEF QueuedInv, Behind, AcceptedIsQueued
<1> QED BY <1>1, TypeInvariant, InitQueued, NextQueued, PTL DEF Spec

-----------------------------------------------------------------------------
(* The table and its poller implement WorkQueue.                           *)

Running == IF p.pc \in Claimed THEN p.key ELSE None

LEMMA InitIsWorkQueue == Init => Abstract!Init
BY DEF Init, Abstract!Init, Pending, EmptyTable, NoRow, Claimed

LEMMA StepIsWorkQueue ==
  ASSUME TypeInv, InHandInv, [Next]_vars
  PROVE  [Abstract!Next]_(Abstract!avars)
<1> DEFINE q  == Pending(table)
           q2 == Pending(table')
           Stutter == q2 = q /\ UNCHANGED Running
<1> USE DEF Running
<1>s. ASSUME Stutter PROVE UNCHANGED Abstract!avars
  BY <1>s DEF Abstract!avars
<1>k. p.pc \in Claimed \cup {"fetched"} => p.key \in Key /\ p.key # None
  BY NoneAssumption DEF TypeInv, HoldsRow, Claimed
<1>1. CASE Quiet
  BY <1>1, <1>s DEF Quiet
<1>2. ASSUME UNCHANGED p, NEW k \in Key, Write(k)
      PROVE  Abstract!Next
  <2>1. q2 = q \cup {k}
    BY <1>2, WriteEffect DEF Pending
  <2>2. Abstract!Put(k)
    BY <1>2, <2>1 DEF Abstract!Put
  <2> QED BY <2>2 DEF Abstract!Next
<1>3. CASE PollSelect \/ Restart
  <2>1. Stutter
    BY <1>3 DEF PollSelect, Restart, NoRow, Claimed
  <2> QED BY <1>s, <2>1
<1>4. CASE PollClaim
  <2>1. p.key \in q
    BY <1>4, <1>k DEF PollClaim, InHandInv, Pending
  <2>2. q2 = q \ {p.key}
    BY <1>4, <1>k, SetStatusEffect, PollerStatuses DEF PollClaim, Pending
  <2>3. p'.key = p.key /\ p'.pc = "reconciling"
    BY <1>4 DEF PollClaim, TypeInv, TypeOK, Worker
  <2>4. Abstract!Take(p.key)
    BY <1>4, <2>1, <2>2, <2>3 DEF Abstract!Take, Abstract!Free, PollClaim, Claimed
  <2> QED BY <1>4, <1>k, <2>4 DEF Abstract!Next, PollClaim
<1>5. ASSUME NEW pc \in {"finish", "fail", "mirror"}, NEW ids \in SUBSET Unit,
             Reconciled(pc, ids)
      PROVE  UNCHANGED Abstract!avars
  <2>1. p'.key = p.key /\ p'.pc = pc /\ p.pc = "reconciling"
    BY <1>5 DEF Reconciled, TypeInv, TypeOK, Worker
  <2>2. Stutter
    BY <1>5, <2>1 DEF Reconciled, Claimed
  <2> QED BY <1>s, <2>2
<1>6. ASSUME p.pc = "mirror", table' = MarkSuperseded(table, p.key[1], p.ids)
      PROVE  /\ q2 = q \ (q \ q2)
             /\ \A k \in q \ q2 :
                  [j \in Key |-> j[1]][k] = [j \in Key |-> j[1]][p.key]
  <2>1. q2 \subseteq q
    BY <1>6, MarkSupersededEffect DEF Pending
  <2>2. \A k \in q \ q2 : k \in Key /\ k[1] = p.key[1]
    BY <1>6, MarkSupersededEffect DEF Pending
  <2> QED BY <1>6, <1>k, <2>1, <2>2 DEF Claimed
<1>7. CASE PollMirror
  <2>1. p'.key = p.key /\ p'.pc = "finish" /\ p.pc = "mirror"
    BY <1>7 DEF PollMirror, TypeInv, TypeOK, Worker
  <2>2. Abstract!ThrowOut(q \ q2)
    BY <1>6, <1>7, <1>k, <2>1 DEF Abstract!ThrowOut, Abstract!Free, PollMirror, Claimed
  <2> QED BY <2>2 DEF Abstract!Next
<1>8. ASSUME p.pc \in Claimed, NEW s \in {"processed", "failed"},
             table' = SetStatus(table, p.key, s), p' = NoRow("idle")
      PROVE  Abstract!Next
  <2>1. q2 = q \ {p.key}
    BY <1>8, <1>k, SetStatusEffect, PollerStatuses DEF Pending
  <2>2. Abstract!Finish
    BY <1>8, <1>k, <2>1 DEF Abstract!Finish, Abstract!Free, NoRow, Claimed
  <2> QED BY <2>2 DEF Abstract!Next
<1>9. CASE PollFinish \/ PollFail
  BY <1>8, <1>9 DEF PollFinish, PollFail, Claimed
<1>10. ASSUME UNCHANGED table, p' = NoRow("idle") \/ p' = NoRow("down")
       PROVE  Abstract!Next \/ UNCHANGED Abstract!avars
  <2>1. CASE p.pc \in Claimed
    <3>1. Abstract!Lose({})
      BY <1>10, <1>k, <2>1 DEF Abstract!Lose, Abstract!Free, NoRow, Claimed
    <3> QED BY <3>1 DEF Abstract!Next
  <2>2. CASE p.pc \notin Claimed
    <3>1. Stutter
      BY <1>10, <2>2 DEF NoRow, Claimed
    <3> QED BY <1>s, <3>1
  <2> QED BY <2>1, <2>2
<1>11. CASE PollDbError /\ PollWrite
  <2>1. p' = NoRow("idle")
    BY <1>11 DEF PollDbError
  <2>2. CASE p.pc = "fetched"
    <3>1. p.key \in q
      BY <2>2, <1>k DEF InHandInv, Pending
    <3>2. q2 = q \ {p.key}
      BY <1>11, <1>k, <2>2, SetStatusEffect, PollerStatuses DEF PollWrite, Pending
    <3>3. Abstract!Mislay(p.key)
      BY <2>1, <2>2, <3>1, <3>2 DEF Abstract!Mislay, Abstract!Free, NoRow, Claimed
    <3> QED BY <1>k, <2>2, <3>3 DEF Abstract!Next
  <2>3. CASE p.pc = "mirror"
    <3>1. Abstract!Lose(q \ q2)
      BY <1>6, <1>11, <1>k, <2>1, <2>3
         DEF PollWrite, Abstract!Lose, Abstract!Free, NoRow, Claimed
    <3> QED BY <3>1 DEF Abstract!Next
  <2>4. CASE p.pc \in {"finish", "fail"}
    BY <1>8, <1>11, <2>1, <2>4 DEF PollWrite, Claimed
  <2> QED BY <1>11, <2>2, <2>3, <2>4 DEF PollDbError
<1>12. CASE (PollDbError /\ UNCHANGED table) \/ Crash
  BY <1>10, <1>12 DEF PollDbError, Crash
<1> QED
  BY <1>1, <1>2, <1>3, <1>4, <1>5, <1>7, <1>9, <1>11, <1>12, StepEffect DEF PollDbError

(* Seen from afar, memory_units and its poller are a work queue with one   *)
(* worker: a pending row is only ever taken by the worker, thrown out by   *)
(* the verdict on another row of its bank, or dropped with an earlier      *)
(* version of itself.                                                      *)
THEOREM ImplementsWorkQueue == Spec => IsWorkQueue
<1>1. [][Next]_vars /\ []TypeInv /\ []InHandInv => [][Abstract!Next]_(Abstract!avars)
  BY StepIsWorkQueue, PTL
<1> QED
  BY <1>1, InitIsWorkQueue, TypeInvariant, InHandInvariant, PTL
     DEF Spec, IsWorkQueue, Abstract!Spec

-----------------------------------------------------------------------------
(* A request is at units it asked for.                                     *)

AtAsked(t) ==
  /\ req[t].pc \in Busy => req[t].todo \subseteq Asked(t)
  /\ req[t].pc \in {"insert", "update"} => req[t].key \in Asked(t)

AskedInv == \A t \in Thread : AtAsked(t)

LEMMA InitAsked == Init => AskedInv
BY DEF Init, AskedInv, AtAsked, NoRequest, Busy

LEMMA RequestKeepsAsked ==
  ASSUME TypeInv, AskedInv, NEW t \in Thread, RequestNext(t) \/ RequestDbError(t)
  PROVE  AskedInv'
<1>0. req \in [Thread -> Request]
  BY DEF TypeInv, TypeOK
<1>1. ASSUME NEW s \in Thread \ {t}
      PROVE  AtAsked(s)'
  <2>1. req'[s] = req[s]
    BY <1>0
       DEF RequestNext, RequestStep, RequestDbError, Reject, FetchFails, FetchUnits,
           SelectPrior, Insert, Update, Answer, Reply, GoOn, UnitDone
  <2> QED BY <2>1 DEF AskedInv, AtAsked, Asked
<1>2. AtAsked(t)'
  <2>1. ASSUME NEW pc \in {"refused", "accepted"}, req'[t].pc = pc
        PROVE  AtAsked(t)'
    BY <2>1 DEF AtAsked, Busy
  <2>2. ASSUME NEW b \in Bank, NEW d \in Document, FetchUnits(t, b, d), ~Reply(t, "refused")
        PROVE  AtAsked(t)'
    <3> DEFINE s == Snapshot(b, d)
    <3>1. req'[t] = [pc |-> "next", snap |-> s, todo |-> {k \in Key : s[k] # None},
                     key |-> None]
      BY <1>0, <2>2 DEF FetchUnits
    <3> QED BY <3>1 DEF AtAsked, Asked
  <2>3. ASSUME NEW k \in Key, SelectPrior(t, k)
        PROVE  AtAsked(t)'
    <3>1. /\ Asked(t)' = Asked(t) /\ req[t].pc \in Busy /\ k \in req[t].todo
          /\ req'[t].todo \subseteq req[t].todo
          /\ req'[t].pc \in {"insert", "update"} => req'[t].key = k
      BY <1>0, <2>3 DEF SelectPrior, GoOn, Asked, Busy
    <3> QED BY <3>1 DEF AskedInv, AtAsked
  <2>4. ASSUME req[t].pc \in {"insert", "update"}, UnitDone(t)
        PROVE  AtAsked(t)'
    <3>1. /\ Asked(t)' = Asked(t) /\ req[t].pc \in Busy
          /\ req'[t].todo \subseteq req[t].todo /\ req'[t].pc = "next"
      BY <1>0, <2>4 DEF UnitDone, GoOn, Asked, Busy
    <3> QED BY <3>1 DEF AskedInv, AtAsked
  <2>5. Reply(t, "refused") => req'[t].pc = "refused"
    BY <1>0 DEF Reply, NoRequest
  <2>6. Answer(t) => req'[t].pc = "accepted"
    BY <1>0 DEF Answer, GoOn
  <2> QED
    BY <2>1, <2>2, <2>3, <2>4, <2>5, <2>6
       DEF RequestNext, RequestStep, RequestDbError, Reject, FetchFails, Insert, Update
<1> QED BY <1>1, <1>2 DEF AskedInv

LEMMA NextAsked == TypeInv /\ AskedInv /\ [Next]_vars => AskedInv'
<1> SUFFICES ASSUME TypeInv, AskedInv, [Next]_vars PROVE AskedInv'
  OBVIOUS
<1>1. CASE \E t \in Thread : RequestNext(t) \/ RequestDbError(t)
  BY <1>1, RequestKeepsAsked
<1>2. CASE Crash
  BY <1>2 DEF Crash, NoRequest, AskedInv, AtAsked, Busy
<1>3. CASE \/ \E k \in Key, c \in Content \cup {None} : Relist(k, c)
           \/ PollerStep \/ Restart \/ PollDbError \/ UNCHANGED vars
  <2>1. UNCHANGED req
    BY <1>3
       DEF Relist, PollerStep, Restart, PollDbError, PollSelect, PollClaim,
           ReconcileFails, ReconcileFindsNothing, ReconcileNames, Reconciled, PollMirror,
           PollFinish, PollFail, vars
  <2> QED BY <2>1 DEF AskedInv, AtAsked, Asked
<1> QED BY <1>1, <1>2, <1>3 DEF Next, HealthyNext, Fault

(* A request writes no row but the one it is at.                           *)
LEMMA RequestWrites ==
  ASSUME TypeInv, NEW t \in Thread, RequestNext(t) \/ RequestDbError(t)
  PROVE  \/ UNCHANGED table
         \/ /\ req[t].pc = "insert" /\ DoInsert(req[t].key, req[t].snap[req[t].key])
            /\ ~Present(table, req[t].key)
         \/ req[t].pc = "update" /\ DoUpdate(req[t].key, req[t].snap[req[t].key])
BY DEF RequestNext, RequestStep, RequestDbError, Reject, FetchFails, FetchUnits,
       SelectPrior, Insert, Update, Answer

-----------------------------------------------------------------------------
(* Deliveries that do not overlap.  What SELECT decided still holds at the *)
(* write, because only the poller and requests for other units can come in *)
(* between; the poller leaves the texts and the presence of rows alone,    *)
(* and a request writes nothing but rows it asked for.                     *)

DecisionHolds(t) ==
  /\ req[t].pc = "insert" => ~Present(table, req[t].key)
  /\ req[t].pc = "update" => table[req[t].key].content # req[t].snap[req[t].key]

TextsBehind(t) ==
  req[t].pc \in Busy =>
    \A k \in Asked(t) : k \notin req[t].todo => table[k].content = req[t].snap[k]

RequestOK(t) == DecisionHolds(t) /\ TextsBehind(t)

RowInHandExists == p.pc \notin {"down", "idle"} => Present(table, p.key)

SerialInv ==
  /\ RowInHandExists
  /\ AskedInv
  /\ Disjoint
  /\ \A t \in Thread : RequestOK(t)

(* The poller neither adds rows nor changes texts.                         *)
LEMMA PollerKeepsTexts ==
  ASSUME TypeInv, InHandInv, PollerStep \/ PollDbError, NEW k \in Key
  PROVE  table'[k].content = table[k].content
<1>1. CASE UNCHANGED table
  BY <1>1
<1>2. ASSUME p.key \in Key, NEW s \in Status, table' = SetStatus(table, p.key, s)
      PROVE  table'[k].content = table[k].content
  BY <1>2 DEF SetStatus, TypeInv, TypeOK, Table, Row
<1>3. ASSUME table' = MarkSuperseded(table, p.key[1], p.ids)
      PROVE  table'[k].content = table[k].content
  BY <1>3 DEF MarkSuperseded, TypeInv, TypeOK, Table, Row
<1>4. CASE PollDbError /\ PollWrite
  BY <1>2, <1>3, <1>4, PollerStatuses DEF PollDbError, PollWrite, TypeInv, HoldsRow
<1>5. CASE PollClaim \/ PollFinish \/ PollFail \/ PollMirror
  BY <1>2, <1>3, <1>5, PollerStatuses
     DEF PollClaim, PollFinish, PollFail, PollMirror, TypeInv, HoldsRow
<1> QED
  BY <1>1, <1>4, <1>5
     DEF PollerStep, PollDbError, PollSelect, ReconcileFails, ReconcileFindsNothing,
         ReconcileNames, Reconciled

LEMMA PollerAddsNoRow ==
  ASSUME TypeInv, RowInHandExists, PollerStep \/ PollDbError, NEW k \in Key,
         ~Present(table, k)
  PROVE  ~Present(table', k)
<1> USE DEF Present
<1>1. CASE UNCHANGED table
  BY <1>1
<1>2. CASE PollClaim \/ PollFinish \/ PollFail
  <2>1. p.key \in Key /\ k # p.key
    BY <1>2 DEF PollClaim, PollFinish, PollFail, TypeInv, HoldsRow, RowInHandExists
  <2> QED BY <1>2, <2>1, SetStatusEffect, PollerStatuses DEF PollClaim, PollFinish, PollFail
<1>3. CASE PollMirror
  BY <1>3, MarkSupersededEffect DEF PollMirror, Eligible
<1>4. CASE PollDbError /\ PollWrite
  <2>1. p.key \in Key /\ k # p.key
    BY <1>4 DEF PollDbError, TypeInv, HoldsRow, RowInHandExists
  <2> QED
    BY <1>4, <2>1, SetStatusEffect, MarkSupersededEffect, PollerStatuses
       DEF PollWrite, Eligible
<1> QED
  BY <1>1, <1>2, <1>3, <1>4
     DEF PollerStep, PollDbError, PollSelect, ReconcileFails, ReconcileFindsNothing,
         ReconcileNames, Reconciled

LEMMA NextRowInHand == TypeInv /\ RowInHandExists /\ [Next]_vars => RowInHandExists'
<1> SUFFICES ASSUME TypeInv, RowInHandExists, [Next]_vars,
                    p'.pc \notin {"down", "idle"}
             PROVE  Present(table', p'.key)
  BY DEF RowInHandExists
<1>1. CASE p'.key = p.key /\ p.pc \notin {"down", "idle"}
  BY <1>1, RowsStay DEF RowInHandExists, TypeInv, HoldsRow
<1>2. CASE UNCHANGED p
  BY <1>1, <1>2
<1>3. CASE PollSelect
  BY <1>3 DEF PollSelect, PendingRow, Pending, Present
<1>4. CASE PollClaim \/ PollMirror
           \/ \E pc \in {"finish", "fail", "mirror"}, ids \in SUBSET Unit : Reconciled(pc, ids)
  BY <1>1, <1>4 DEF PollClaim, PollMirror, Reconciled, TypeInv, TypeOK, Worker
<1>5. CASE PollFinish \/ PollFail \/ PollDbError \/ Crash \/ Restart
  BY <1>5 DEF PollFinish, PollFail, PollDbError, Crash, Restart, NoRow
<1> QED BY <1>2, <1>3, <1>4, <1>5, StepEffect DEF Quiet

(* A step of the poller changes nothing a request relies on.               *)
LEMMA PollerKeepsSerial ==
  ASSUME TypeInv, InHandInv, SerialInv, PollerStep \/ PollDbError, NEW t \in Thread
  PROVE  RequestOK(t)'
<1> USE DEF SerialInv, RequestOK
<1>0. UNCHANGED req
  BY DEF PollerStep, PollDbError, PollSelect, PollClaim, ReconcileFails,
         ReconcileFindsNothing, ReconcileNames, Reconciled, PollMirror, PollFinish, PollFail
<1>1. DecisionHolds(t)'
  BY <1>0, PollerKeepsTexts, PollerAddsNoRow DEF DecisionHolds, TypeInv, AtUnit
<1>2. TextsBehind(t)'
  BY <1>0, PollerKeepsTexts DEF TextsBehind, Asked
<1> QED BY <1>1, <1>2

(* What a request asked for, requests for other units leave alone.         *)
LEMMA OthersKeepSerial ==
  ASSUME TypeInv, SerialInv, NEW t \in Thread, NEW u \in Thread \ {t},
         RequestNext(u) \/ RequestDbError(u)
  PROVE  RequestOK(t)'
<1> USE DEF SerialInv, RequestOK
<1>0. req \in [Thread -> Request] /\ table \in Table
  BY DEF TypeInv, TypeOK
<1>1. req'[t] = req[t] /\ Asked(t)' = Asked(t)
  BY <1>0
     DEF RequestNext, RequestStep, RequestDbError, Reject, FetchFails, FetchUnits,
         SelectPrior, Insert, Update, Answer, Reply, GoOn, UnitDone, Asked
<1>2. ASSUME NEW k \in Asked(t), req[t].pc \in Busy
      PROVE  table'[k] = table[k]
  <2>1. CASE UNCHANGED table
    BY <2>1
  <2>2. CASE ~UNCHANGED table
    <3>1. /\ req[u].pc \in {"insert", "update"}
          /\ \/ DoInsert(req[u].key, req[u].snap[req[u].key])
             \/ DoUpdate(req[u].key, req[u].snap[req[u].key])
      BY <2>2, RequestWrites
    <3>2. req[u].key \in Asked(u) /\ req[u].pc \in Busy
      BY <3>1 DEF AskedInv, AtAsked, Busy
    <3>3. k # req[u].key /\ req[u].key \in Key /\ k \in Key
      BY <1>2, <3>2 DEF Disjoint, Asked
    <3> QED
      BY <1>0, <3>1, <3>3 DEF DoInsert, DoUpdate, InsertRow, RewriteRow, Table, Row
  <2> QED BY <2>1, <2>2
<1>3. DecisionHolds(t)'
  BY <1>1, <1>2 DEF AskedInv, AtAsked, DecisionHolds, Present, Busy
<1>4. TextsBehind(t)'
  BY <1>1, <1>2 DEF TextsBehind
<1> QED BY <1>3, <1>4

LEMMA RequestKeepsSerial ==
  ASSUME TypeInv, SerialInv, NEW t \in Thread, RequestNext(t) \/ RequestDbError(t)
  PROVE  RequestOK(t)'
<1> USE DEF SerialInv, RequestOK
<1>0. req \in [Thread -> Request] /\ table \in Table
  BY DEF TypeInv, TypeOK
<1>1. ASSUME Reply(t, "refused")
      PROVE  RequestOK(t)'
  <2>1. req'[t].pc = "refused"
    BY <1>0, <1>1 DEF Reply, NoRequest
  <2> QED BY <2>1 DEF DecisionHolds, TextsBehind, Busy
<1>2. ASSUME NEW b \in Bank, NEW d \in Document, FetchUnits(t, b, d), ~Reply(t, "refused")
      PROVE  RequestOK(t)'
  <2> DEFINE s == Snapshot(b, d)
  <2>1. req'[t] = [pc |-> "next", snap |-> s, todo |-> {k \in Key : s[k] # None},
                   key |-> None]
    BY <1>0, <1>2 DEF FetchUnits
  <2> QED BY <2>1 DEF DecisionHolds, TextsBehind, Asked, Busy
<1>3. ASSUME NEW k \in Key, SelectPrior(t, k)
      PROVE  RequestOK(t)'
  <2>1. /\ UNCHANGED table
        /\ Asked(t)' = Asked(t)
        /\ req'[t].snap = req[t].snap
        /\ req[t].pc \in Busy
    BY <1>0, <1>3 DEF SelectPrior, GoOn, Asked, Busy
  <2>2. CASE Decision(table, k, req[t].snap[k]) = "skip"
    <3>1. table[k].content = req[t].snap[k]
      BY <2>2 DEF Decision
    <3>2. req'[t].pc = "next" /\ req'[t].todo = req[t].todo \ {k}
      BY <1>0, <1>3, <2>2 DEF SelectPrior, GoOn
    <3> QED BY <2>1, <3>1, <3>2 DEF DecisionHolds, TextsBehind, Busy
  <2>3. CASE Decision(table, k, req[t].snap[k]) # "skip"
    <3>1. /\ req'[t].pc = Decision(table, k, req[t].snap[k])
          /\ req'[t].todo = req[t].todo
          /\ req'[t].key = k
      BY <1>0, <1>3, <2>3 DEF SelectPrior, GoOn
    <3> QED BY <2>1, <3>1, <2>3 DEF DecisionHolds, TextsBehind, Decision, Busy
  <2> QED BY <2>2, <2>3
<1>4. CASE (Insert(t) \/ Update(t)) /\ ~Reply(t, "refused")
  <2>1. req[t].pc \in {"insert", "update"} /\ UnitDone(t) /\ req[t].pc \in Busy
    BY <1>4 DEF Insert, Update, Busy
  <2>2. req[t].key \in Key
    BY <2>1 DEF TypeInv, AtUnit
  <2>3. /\ table'[req[t].key].content = req[t].snap[req[t].key]
        /\ \A j \in Key \ {req[t].key} : table'[j] = table[j]
    BY <1>0, <1>4, <2>2
       DEF Insert, Update, DoInsert, DoUpdate, InsertRow, RewriteRow, Table, Row
  <2>4. /\ req'[t].pc = "next"
        /\ req'[t].todo = req[t].todo \ {req[t].key}
        /\ req'[t].snap = req[t].snap
        /\ Asked(t)' = Asked(t)
    BY <1>0, <2>1 DEF UnitDone, GoOn, Asked
  <2> QED
    BY <2>1, <2>2, <2>3, <2>4 DEF DecisionHolds, TextsBehind, Asked, Busy
<1>5. CASE Answer(t)
  <2>1. req'[t].pc = "accepted"
    BY <1>0, <1>5 DEF Answer, GoOn
  <2> QED BY <2>1 DEF DecisionHolds, TextsBehind, Busy
<1> QED
  BY <1>1, <1>2, <1>3, <1>4, <1>5
     DEF RequestNext, RequestStep, RequestDbError, Reject, FetchFails

LEMMA InitSerial == Init => SerialInv
BY InitAsked
   DEF Init, SerialInv, Disjoint, RowInHandExists, NoRow, RequestOK, DecisionHolds,
       TextsBehind, NoRequest, Busy

LEMMA NextSerial ==
  ASSUME TypeInv, InHandInv, SerialInv, [Next /\ Disjoint']_vars
  PROVE  SerialInv'
<1>0. Disjoint' /\ [Next]_vars
  BY DEF SerialInv, Disjoint, Asked, vars
<1> SUFFICES ASSUME NEW t \in Thread
             PROVE  RequestOK(t)'
  BY <1>0, NextRowInHand, NextAsked DEF SerialInv
<1>1. CASE UNCHANGED <<table, req>>
  BY <1>1 DEF SerialInv, RequestOK, DecisionHolds, TextsBehind, Asked
<1>2. ASSUME NEW u \in Thread, RequestNext(u) \/ RequestDbError(u)
      PROVE  RequestOK(t)'
  BY <1>2, RequestKeepsSerial, OthersKeepSerial
<1>3. CASE PollerStep \/ PollDbError
  BY <1>3, PollerKeepsSerial
<1>4. CASE Crash
  <2>1. req'[t].pc = "idle"
    BY <1>4 DEF Crash, NoRequest
  <2> QED BY <2>1 DEF RequestOK, DecisionHolds, TextsBehind, Busy
<1>5. CASE \/ \E k \in Key, c \in Content \cup {None} : Relist(k, c)
           \/ Restart \/ UNCHANGED vars
  BY <1>1, <1>5 DEF Relist, Restart, vars
<1> QED BY <1>0, <1>2, <1>3, <1>4, <1>5 DEF Next, HealthyNext, Fault

LEMMA SerialInvariant == DisjointSpec => [](TypeInv /\ InHandInv /\ SerialInv)
<1>1. TypeInv /\ InHandInv /\ SerialInv /\ [Next /\ Disjoint']_vars =>
        (TypeInv /\ InHandInv /\ SerialInv)'
  BY NextSerial, NextTypeInv, NextInHand
<1> QED BY <1>1, InitSerial, InitTypeInv, InitInHand, PTL DEF DisjointSpec

(* As long as deliveries of the same document do not overlap, a delivery   *)
(* is only accepted when every row carries the text Hindsight listed,      *)
(* however many deliveries run, and wherever poller, errors and crashes    *)
(* come in.                                                                *)
THEOREM ListedTextStored == DisjointSpec => []ListedTextIsStored
<1>1. SerialInv => ListedTextIsStored
  BY DEF SerialInv, RequestOK, ListedTextIsStored, TextsBehind, Busy
<1> QED BY <1>1, SerialInvariant, PTL

LEMMA StepRequeues ==
  ASSUME TypeInv, InHandInv, SerialInv, [Next]_vars, NEW k \in Key,
         Present(table, k), table[k].status # "pending", table'[k].status = "pending"
  PROVE  table'[k].content # table[k].content
<1>0. table \in Table
  BY DEF TypeInv, TypeOK
<1>1. ASSUME NEW t \in Thread,
             \/ req[t].pc = "update" /\ DoUpdate(req[t].key, req[t].snap[req[t].key])
             \/ req[t].pc = "insert" /\ DoInsert(req[t].key, req[t].snap[req[t].key])
      PROVE  table'[k].content # table[k].content
  <2>1. req[t].key \in Key
    BY <1>1 DEF TypeInv, AtUnit
  <2>2. k = req[t].key
    BY <1>0, <1>1, <2>1 DEF DoUpdate, DoInsert, RewriteRow, InsertRow, Table, Row
  <2>3. req[t].pc = "update"
    BY <1>1, <2>2 DEF SerialInv, RequestOK, DecisionHolds
  <2> QED
    BY <1>0, <1>1, <2>2, <2>3
       DEF SerialInv, RequestOK, DecisionHolds, DoUpdate, RewriteRow, Table, Row
<1>2. ASSUME NEW t \in Thread, RequestNext(t) \/ RequestDbError(t)
      PROVE  table'[k].content # table[k].content
  BY <1>1, <1>2
     DEF RequestNext, RequestStep, Reject, FetchFails, FetchUnits, SelectPrior, Insert,
         Update, Answer, RequestDbError
<1>3. CASE UNCHANGED table
  BY <1>3
<1>4. ASSUME p.key \in Key, NEW s \in {"processing", "processed", "failed"},
             table' = SetStatus(table, p.key, s)
      PROVE  FALSE
  BY <1>4, SetStatusEffect, PollerStatuses
<1>5. CASE PollClaim \/ PollFinish \/ PollFail
  BY <1>4, <1>5 DEF PollClaim, PollFinish, PollFail, TypeInv, HoldsRow
<1>6. CASE PollMirror
  BY <1>6, MarkSupersededEffect DEF PollMirror
<1>7. CASE PollDbError /\ PollWrite
  BY <1>4, <1>7, MarkSupersededEffect DEF PollDbError, PollWrite, TypeInv, HoldsRow
<1> QED
  BY <1>2, <1>3, <1>5, <1>6, <1>7
     DEF Next, HealthyNext, Fault, PollerStep, Relist, Restart, PollSelect, ReconcileFails,
         ReconcileFindsNothing, ReconcileNames, Reconciled, PollDbError, Crash, vars

(* As long as deliveries of the same document do not overlap, a delivery   *)
(* of a text the row already has does not send the row back to the queue.  *)
THEOREM RequeueNeedsNewText == DisjointSpec => RequeueOnlyOnNewContent
<1>1. TypeInv /\ InHandInv /\ SerialInv /\ [Next /\ Disjoint']_vars =>
        [\A k \in Key :
           Present(table, k) /\ table[k].status # "pending" /\ table'[k].status = "pending"
             => table'[k].content # table[k].content]_vars
  BY StepRequeues
<1> QED
  BY <1>1, SerialInvariant, PTL DEF DisjointSpec, RequeueOnlyOnNewContent

=============================================================================
