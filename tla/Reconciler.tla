----------------------------- MODULE Reconciler -----------------------------
(***************************************************************************)
(* The running service: webhook request threads ingest Hindsight's units   *)
(* into memory_units, one poller thread reconciles them, and Hindsight     *)
(* changes its units meanwhile.  Requests, the poller and a crash          *)
(* interleave between any two database statements.                         *)
(*                                                                         *)
(* The verdict of run_reconcile is any set of units: it comes from an LLM. *)
(***************************************************************************)
EXTENDS MemoryUnits

CONSTANTS
  Thread,      \* request threads of the HTTP server
  Document,    \* Hindsight documents
  DocumentOf   \* the document each unit belongs to

ASSUME DocumentAssumption == DocumentOf \in [Key -> Document]

VARIABLES
  listing,    \* the text Hindsight lists for a unit, None if it lists none
  table,      \* the memory_units table
  nextId,     \* its AUTO_INCREMENT counter
  req,        \* what each request thread is doing
  p,          \* what the poller thread is doing
  unseen,     \* rows whose present text run_reconcile was never given
  overtaken,  \* rows a request rewrote while the poller had them in hand
  orphan      \* why the poller let go of a row it had set to 'processing'

service == <<listing, table, nextId, req, p>>
history == <<unseen, overtaken, orphan>>
vars    == <<listing, table, nextId, req, p, unseen, overtaken, orphan>>

-----------------------------------------------------------------------------
(* Request threads: how the last request was answered, or its next step.   *)
(* "ignored", "skipped" and "error" are one answer: all are sent with 200, *)
(* and nobody retries.                                                     *)

Answered == {"idle", "accepted", "refused"}
Busy     == {"next", "insert", "update"}
Units    == [Key -> Content \cup {None}]
NoUnits  == [k \in Key |-> None]
Request  == [pc   : Answered \cup Busy,
             snap : Units,                \* the units /memories/list returned
             todo : SUBSET Key,           \* those not yet upserted
             key  : Key \cup {None}]      \* the one being upserted

NoRequest(pc) == [pc |-> pc, snap |-> NoUnits, todo |-> {}, key |-> None]
Asked(t)      == {k \in Key : req[t].snap[k] # None}

(* The poller: down, waiting, or at a step of run_once.                    *)
Claimed == {"reconciling", "mirror", "finish", "fail"}
Worker  == [pc      : {"down", "idle", "fetched"} \cup Claimed,
            key     : Key \cup {None},     \* the row it fetched
            content : Content \cup {None}, \* the text it fetched
            ids     : SUBSET Unit]         \* the units the verdict named

NoRow(pc)   == [pc |-> pc, key |-> None, content |-> None, ids |-> {}]
InFlight(k) == p.key = k

-----------------------------------------------------------------------------
(* Hindsight: a retain or a consolidation changes what it lists.           *)

Relist(k, c) ==
  /\ listing[k] # c
  /\ listing' = [listing EXCEPT ![k] = c]
  /\ UNCHANGED <<table, nextId, req, p, history>>

-----------------------------------------------------------------------------
(* One webhook request: handle_event, _ingest_units, upsert_unit_on_conn.  *)

Ready(t) == req[t].pc \in Answered /\ p.pc # "down"

Reply(t, pc) == req' = [req EXCEPT ![t] = NoRequest(pc)]

GoOn(t, pc, todo, key) ==
  req' = [req EXCEPT ![t] =
            [pc |-> pc, snap |-> @.snap, todo |-> todo, key |-> key]]

(* Forged signature, a body parse_event rejects, or a recovered document   *)
(* outside the fallback window.                                            *)
Reject(t) ==
  /\ Ready(t)
  /\ Reply(t, "refused")
  /\ UNCHANGED <<listing, table, nextId, p, history>>

(* A Hindsight call or get_connection raised: do_POST answers 200 "error". *)
FetchFails(t) ==
  /\ Ready(t)
  /\ Reply(t, "refused")
  /\ UNCHANGED <<listing, table, nextId, p, history>>

Snapshot(b, d) ==
  [k \in Key |-> IF k[1] = b /\ DocumentOf[k] = d THEN listing[k] ELSE None]

FetchUnits(t, b, d) ==
  LET s    == Snapshot(b, d)
      todo == {k \in Key : s[k] # None}
  IN /\ Ready(t)
     /\ IF todo = {}
          THEN Reply(t, "refused")
          ELSE req' = [req EXCEPT ![t] =
                         [pc |-> "next", snap |-> s, todo |-> todo, key |-> None]]
     /\ UNCHANGED <<listing, table, nextId, p, history>>

(* The SELECT of upsert_unit_on_conn for the next unit of the answer.      *)
SelectPrior(t, k) ==
  LET what == Decision(table, k, req[t].snap[k])
  IN /\ req[t].pc = "next"
     /\ k \in req[t].todo
     /\ IF what = "skip"
          THEN GoOn(t, "next", req[t].todo \ {k}, None)
          ELSE GoOn(t, what, req[t].todo, k)
     /\ UNCHANGED <<listing, table, nextId, p, history>>

UnitDone(t) == GoOn(t, "next", req[t].todo \ {req[t].key}, None)

(* What a write of k by a request does to the history.                     *)
Rewritten(k) ==
  /\ unseen' = unseen \cup {k}
  /\ overtaken' = IF InFlight(k) THEN overtaken \cup {k} ELSE overtaken
  /\ orphan' = [orphan EXCEPT ![k] = "no"]

DoInsert(k, c) ==
  /\ table' = InsertRow(table, k, c, nextId)
  /\ nextId' = nextId + 1
  /\ Rewritten(k)

DoUpdate(k, c) ==
  /\ table' = RewriteRow(table, k, c)
  /\ Rewritten(k)
  /\ UNCHANGED nextId

(* uq_bank_unit makes the INSERT raise if another thread was faster.       *)
Insert(t) ==
  LET k == req[t].key
  IN /\ req[t].pc = "insert"
     /\ IF Present(table, k)
          THEN Reply(t, "refused") /\ UNCHANGED <<table, nextId, history>>
          ELSE UnitDone(t) /\ DoInsert(k, req[t].snap[k])
     /\ UNCHANGED <<listing, p>>

Update(t) ==
  /\ req[t].pc = "update"
  /\ UnitDone(t)
  /\ DoUpdate(req[t].key, req[t].snap[req[t].key])
  /\ UNCHANGED <<listing, p>>

Answer(t) ==
  /\ req[t].pc = "next"
  /\ req[t].todo = {}
  /\ GoOn(t, "accepted", {}, None)
  /\ UNCHANGED <<listing, table, nextId, p, history>>

(* Mutant: the error is caught per unit, and the loop goes on.             *)
SwallowDbError(t) ==
  /\ req[t].pc \in Busy \ {"next"}
  /\ UnitDone(t)
  /\ UNCHANGED <<listing, table, nextId, p, history>>

(* The database raised: the rest of the answer is dropped.  Whether the    *)
(* statement took effect is unknown.                                       *)
RequestDbError(t) ==
  LET k == req[t].key
  IN /\ req[t].pc \in Busy
     /\ req[t].todo # {}
     /\ Reply(t, "refused")
     /\ \/ UNCHANGED <<table, nextId, history>>
        \/ req[t].pc = "insert" /\ ~Present(table, k) /\ DoInsert(k, req[t].snap[k])
        \/ req[t].pc = "update" /\ DoUpdate(k, req[t].snap[k])
     /\ UNCHANGED <<listing, p>>

-----------------------------------------------------------------------------
(* The poller: ReconcilerPoller.run_once, over and over.                   *)

PollSelect ==
  /\ p.pc = "idle"
  /\ \E k \in PendingRow(table) :
       /\ p' = [pc |-> "fetched", key |-> k, content |-> table[k].content, ids |-> {}]
       /\ overtaken' = overtaken \ {k}
  /\ UNCHANGED <<listing, table, nextId, req, unseen, orphan>>

(* Mutant: the claim asks for the text of the SELECT, and is repeated until *)
(* it finds its row.                                                       *)
ClaimIfUnchanged ==
  /\ p.pc = "fetched"
  /\ table[p.key].content = p.content
  /\ table' = SetStatus(table, p.key, "processing")
  /\ p' = [p EXCEPT !.pc = "reconciling"]
  /\ unseen' = unseen \ {p.key}
  /\ UNCHANGED <<listing, nextId, req, overtaken, orphan>>

(* UPDATE ... SET status='processing' WHERE id=?: whatever the row has     *)
(* become since the SELECT.  run_reconcile gets the text of the SELECT.    *)
PollClaim ==
  /\ p.pc = "fetched"
  /\ table' = SetStatus(table, p.key, "processing")
  /\ p' = [p EXCEPT !.pc = "reconciling"]
  /\ unseen' = IF table[p.key].content = p.content THEN unseen \ {p.key} ELSE unseen
  /\ UNCHANGED <<listing, nextId, req, overtaken, orphan>>

Reconciled(pc, ids) ==
  /\ p.pc = "reconciling"
  /\ p' = [p EXCEPT !.pc = pc, !.content = None, !.ids = ids]
  /\ UNCHANGED <<listing, table, nextId, req, history>>

(* It raised, or reported reflect_failed, error or list_banks_failed.      *)
ReconcileFails == Reconciled("fail", {})

(* Mutant: a verdict that names nothing returns without marking the row.   *)
ForgetRow ==
  /\ p.pc = "reconciling"
  /\ p' = NoRow("idle")
  /\ UNCHANGED <<listing, table, nextId, req, history>>

(* abandoned, or skipped.                                                  *)
ReconcileFindsNothing == Reconciled("finish", {})

ReconcileNames(ids) == Reconciled("mirror", ids)

PollMirror ==
  /\ p.pc = "mirror"
  /\ table' = MarkSuperseded(table, p.key[1], p.ids)
  /\ p' = [p EXCEPT !.pc = "finish", !.ids = {}]
  /\ UNCHANGED <<listing, nextId, req, history>>

(* mark_processed_on_conn and mark_failed_on_conn: whatever the status is. *)
PollFinish ==
  /\ p.pc = "finish"
  /\ table' = SetStatus(table, p.key, "processed")
  /\ p' = NoRow("idle")
  /\ UNCHANGED <<listing, nextId, req, history>>

(* Mutant: a failed row goes back to the queue.                            *)
RetryForever ==
  /\ p.pc = "fail"
  /\ table' = SetStatus(table, p.key, "pending")
  /\ p' = NoRow("idle")
  /\ UNCHANGED <<listing, nextId, req, history>>

PollFail ==
  /\ p.pc = "fail"
  /\ table' = SetStatus(table, p.key, "failed")
  /\ p' = NoRow("idle")
  /\ UNCHANGED <<listing, nextId, req, history>>

(* The row the poller lets go of, if it stays 'processing'.                *)
Abandoned(t, why) ==
  orphan' = IF p.key # None /\ t[p.key].status = "processing"
              THEN [orphan EXCEPT ![p.key] = why] ELSE orphan

(* The statement of the poller's next step.                                *)
PollWrite ==
  \/ p.pc = "fetched" /\ table' = SetStatus(table, p.key, "processing")
  \/ p.pc = "mirror"  /\ table' = MarkSuperseded(table, p.key[1], p.ids)
  \/ p.pc = "finish"  /\ table' = SetStatus(table, p.key, "processed")
  \/ p.pc = "fail"    /\ table' = SetStatus(table, p.key, "failed")

(* The database raised, the statement taken effect or not: _run backs off  *)
(* and starts over with the next pending row.                              *)
PollDbError ==
  /\ p.pc \in {"fetched", "mirror", "finish", "fail"}
  /\ UNCHANGED table \/ PollWrite
  /\ p' = NoRow("idle")
  /\ Abandoned(table', "error")
  /\ UNCHANGED <<listing, nextId, req, unseen, overtaken>>

-----------------------------------------------------------------------------
(* The process ends: killed, or serve returned and took the daemon threads *)
(* with it.  Nothing looks at 'processing' rows when it starts again.      *)

Crash ==
  /\ p.pc # "down"
  /\ p' = NoRow("down")
  /\ req' = [t \in Thread |-> NoRequest("idle")]
  /\ Abandoned(table, "crash")
  /\ UNCHANGED <<listing, table, nextId, unseen, overtaken>>

Restart ==
  /\ p.pc = "down"
  /\ p' = NoRow("idle")
  /\ UNCHANGED <<listing, table, nextId, req, history>>

-----------------------------------------------------------------------------
Init ==
  /\ listing = NoUnits
  /\ table = EmptyTable
  /\ nextId = 1
  /\ req = [t \in Thread |-> NoRequest("idle")]
  /\ p = NoRow("idle")
  /\ unseen = {}
  /\ overtaken = {}
  /\ orphan = [k \in Key |-> "no"]

RequestStep(t) ==
  \/ \E k \in Key : SelectPrior(t, k)
  \/ Insert(t)
  \/ Update(t)
  \/ Answer(t)

RequestNext(t) ==
  \/ Reject(t)
  \/ FetchFails(t)
  \/ \E b \in Bank, d \in Document : FetchUnits(t, b, d)
  \/ RequestStep(t)

PollerStep ==
  \/ PollSelect
  \/ PollClaim
  \/ ReconcileFails
  \/ ReconcileFindsNothing
  \/ \E ids \in SUBSET Unit \ {{}} : ReconcileNames(ids)
  \/ PollMirror
  \/ PollFinish
  \/ PollFail

Fault ==
  \/ \E t \in Thread : RequestDbError(t)
  \/ PollDbError
  \/ Crash

HealthyNext ==
  \/ \E k \in Key, c \in Content \cup {None} : Relist(k, c)
  \/ \E t \in Thread : RequestNext(t)
  \/ PollerStep
  \/ Restart

Next == HealthyNext \/ Fault

Spec == Init /\ [][Next]_vars

(* No fault of the process or of the database, at any time.                *)
HealthySpec == Init /\ [][HealthyNext]_vars

(* No two requests ask for the same unit at a time: deliveries of one      *)
(* document do not overlap.  Those of different documents may.             *)
Disjoint ==
  \A s, t \in Thread :
    s # t /\ req[s].pc \in Busy /\ req[t].pc \in Busy => Asked(s) \cap Asked(t) = {}

DisjointSpec == Init /\ [][Next /\ Disjoint']_vars

(* A request that began and a poller that runs go on; the process is       *)
(* started again (restart: unless-stopped).                                *)
Fairness ==
  /\ \A t \in Thread : WF_vars(RequestStep(t))
  /\ WF_vars(PollerStep)
  /\ WF_vars(Restart)

FairSpec == Spec /\ Fairness

-----------------------------------------------------------------------------
(* Properties.                                                             *)

(* Every variable has its type: see the comments at their declarations.    *)
TypeOK ==
  /\ listing \in Units
  /\ table \in Table
  /\ nextId \in Nat \ {0}
  /\ req \in [Thread -> Request]
  /\ p \in Worker
  /\ unseen \in SUBSET Key
  /\ overtaken \in SUBSET Key
  /\ orphan \in [Key -> {"no", "crash", "error"}]

(* "accepted" is only answered when every unit of the document has a row:  *)
(* no interleaving of the deliveries and no database error lets a unit     *)
(* slip through the loop of _ingest_units.                                 *)
AcceptedIsQueued ==
  \A t \in Thread : req[t].pc = "accepted" => \A k \in Asked(t) : Present(table, k)

Settled(k) == table[k].status \in {"processed", "failed"}

(* Requeueing works but for one window: a row is only settled with a text  *)
(* nobody reconciled if that text arrived while the poller had the row in  *)
(* hand (between the SELECT of run_once and its mark_processed).           *)
SettledUnlessOvertaken ==
  \A k \in Key : Settled(k) /\ k \in unseen => k \in overtaken

(* A row is 'processing' only in the hands of the poller, which holds one  *)
(* row at a time, or after a crash or a database error took it away there. *)
ProcessingIsAccounted ==
  \A k \in Key : table[k].status = "processing" =>
    orphan[k] # "no" \/ (InFlight(k) /\ p.pc \in Claimed)

(* What the poller does to rows stays in the bank of the row it has in     *)
(* hand, whatever the verdict names: two banks may hold the same unit id.  *)
BankIsolation ==
  [][PollerStep \/ PollDbError =>
       \A k \in Key : table'[k] # table[k] => k[1] = p.key[1]]_vars

(* Unless deliveries of a document overlap, only a new text sends a row    *)
(* back to the queue ("Existing with same content: no-op",                 *)
(* upsert_unit_on_conn).                                                   *)
RequeueOnlyOnNewContent ==
  [][\A k \in Key :
       Present(table, k) /\ table[k].status # "pending" /\ table'[k].status = "pending"
         => table'[k].content # table[k].content]_vars

(* Unless deliveries of a document overlap, every row has the text         *)
(* /memories/list returned for it when a delivery is about to be accepted, *)
(* whatever the poller and deliveries of other documents do meanwhile.     *)
ListedTextIsStored ==
  \A t \in Thread : req[t].pc = "next" /\ req[t].todo = {} =>
    \A k \in Asked(t) : table[k].content = req[t].snap[k]

(* The handlers promise that "every unit that arrived is now durably       *)
(* queued" (handle_event) and that a changed text resets the row to        *)
(* 'pending' (upsert_unit_on_conn): no row is ever settled with a text     *)
(* that was not reconciled.                                                *)
EveryTextIsReconciled ==
  \A k \in Key : Settled(k) => k \notin unseen

(* The order of the queue names a next row whenever there is one, although *)
(* the facts of one event share a created_at.                              *)
QueueHasHead == Pending(table) # {} => \E k \in Pending(table) : PendingRow(table) = {k}

(* When faults and Hindsight's changes cease, every pending row leaves the *)
(* queue: redeliveries do not requeue it forever, and the poller's order,  *)
(* newest first, does not starve it.                                       *)
Calm == <>[][UNCHANGED listing /\ ~Fault]_vars

Drains ==
  Calm => \A k \in Key : table[k].status = "pending" ~> table[k].status # "pending"

(* The table seen from afar is a work queue with one worker: a row enters  *)
(* it as 'pending', and leaves it only into the worker's hands, thrown out *)
(* by the verdict on another row of its bank, or when the worker is done   *)
(* with an earlier version of the same row.                                *)
Abstract == INSTANCE WorkQueue WITH
  Item    <- Key,
  Nobody  <- None,
  Group   <- [k \in Key |-> k[1]],
  queued  <- Pending(table),
  running <- IF p.pc \in Claimed THEN p.key ELSE None

IsWorkQueue == Abstract!Spec
=============================================================================
