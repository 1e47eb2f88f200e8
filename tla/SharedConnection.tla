-------------------------- MODULE SharedConnection --------------------------
(***************************************************************************)
(* The database connection of Reconciler, one round trip at a time:        *)
(* db_mysql.get_connection hands every request thread the cached adapter,  *)
(* the poller keeps the one it got when the service started, statements    *)
(* and commits are separate, and connections and the server fail.          *)
(*                                                                         *)
(* An adapter (_ConnAdapter) has at most one MySQL session at a time.      *)
(* MySQL and PyMySQL are not part of the repository: a session reads from  *)
(* the snapshot of its first SELECT (REPEATABLE READ), its writes are its  *)
(* own until it commits, and end with it.  The client learns of a lost     *)
(* session when it uses it; ping(reconnect=True) replaces a lost or closed *)
(* session by a new one.                                                   *)
(*                                                                         *)
(* A request carries one unit, or asks for /healthz.  Of the columns of a  *)
(* row the text and the status matter: upsert compares the one and sets    *)
(* the other back.                                                         *)
(***************************************************************************)
EXTENDS Naturals

CONSTANTS
  Thread,    \* request threads of the HTTP server
  Unit,      \* memory_units of one bank
  Text,      \* their contents
  Adapter,   \* _ConnAdapter objects; one nobody refers to is made anew
  First,     \* the adapter opened when the service starts, the poller's
  None,      \* no adapter, no unit, no text
  Outages    \* whether the server may be away: if not, only sessions are lost

ASSUME FirstAssumption == First \in Adapter
ASSUME NoneAssumption == None \notin Adapter \cup Unit \cup Text
ASSUME OutagesAssumption == Outages \in BOOLEAN

VARIABLES
  up,       \* the server accepts connections
  stored,   \* the committed row of each unit
  link,     \* the session of each adapter
  wrote,    \* what each session wrote and did not commit
  snap,     \* what each session's snapshot holds
  cached,   \* db_mysql._connection
  req,      \* what each request thread is doing
  p,        \* what the poller thread is doing
  cut       \* requests whose session ended since their SELECT

server == <<up, stored>>
session == <<link, wrote, snap>>
vars == <<up, stored, link, wrote, snap, cached, req, p, cut>>

Status  == {"pending", "processing", "processed"}
Present == [status : Status, text : Text]

Absent  == [status |-> "absent", text |-> None]
NoWrite == [status |-> "none", text |-> None]

Rows   == [Unit -> Present \cup {Absent}]
Writes == [Unit -> Present \cup {NoWrite}]

Unwritten == [u \in Unit |-> NoWrite]
NoRows    == [u \in Unit |-> Absent]

Resting == {"idle", "accepted"}
Getting == {"bind", "ping", "clear", "open", "pinged", "opened"}
Deciding == {"insert", "update", "commit"}
Using    == {"select"} \cup Deciding
Request == [pc   : Resting \cup Getting \cup Using,
            unit : Unit \cup {None},
            text : Text \cup {None},
            conn : Adapter \cup {None}]

NoRequest == [pc |-> "idle", unit |-> None, text |-> None, conn |-> None]

(* text: what the SELECT read, forgotten when it is no longer the row's:   *)
(* only ClaimIsCommitted asks for it.                                      *)
(* row: the row is as the poller saw and left it ("kept"); a request       *)
(* rewrote it since, a change to it was rolled back with the session, or   *)
(* the SELECT did not see it as it is ("changed"); it was itself rolled    *)
(* back ("gone").                                                          *)
Worker == [pc   : {"idle", "claim", "claimed", "finish", "finished"},
           unit : Unit \cup {None},
           text : Text \cup {None},
           row  : {"kept", "changed", "gone"}]

AtRest == [pc |-> "idle", unit |-> None, text |-> None, row |-> "kept"]

-----------------------------------------------------------------------------
(* MySQL.                                                                  *)

Over(rows, w) == [u \in Unit |-> IF w[u] = NoWrite THEN rows[u] ELSE w[u]]

(* What a SELECT sees, and what an INSERT or UPDATE finds.                 *)
Seen(a)    == Over(IF snap[a].taken THEN snap[a].rows ELSE stored, wrote[a])
Current(a) == Over(stored, wrote[a])

Fresh == [taken |-> FALSE, rows |-> NoRows]
Taken == [taken |-> TRUE, rows |-> stored]

(* No other session holds the lock of u's row.                             *)
Unlocked(a, u) == \A b \in Adapter \ {a} : wrote[b][u] = NoWrite

Live(a) == link[a] = "live"

Read(a) ==
  /\ snap' = IF snap[a].taken THEN snap ELSE [snap EXCEPT ![a] = Taken]
  /\ UNCHANGED <<server, link, wrote>>

Write(a, u, row) ==
  /\ Unlocked(a, u)
  /\ wrote' = [wrote EXCEPT ![a][u] = row]
  /\ UNCHANGED <<server, link, snap>>

CommitOn(a) ==
  /\ stored' = Current(a)
  /\ wrote' = [wrote EXCEPT ![a] = Unwritten]
  /\ snap' = [snap EXCEPT ![a] = Fresh]
  /\ UNCHANGED <<up, link>>

(* The threads whose decision or write rests on the session of one of d.   *)
Users(d) == {t \in Thread : req[t].pc \in Deciding /\ req[t].conn \in d}

(* The sessions of d end: rolled back.                                     *)
End(d, how) ==
  /\ link' = [a \in Adapter |-> IF a \in d THEN how ELSE link[a]]
  /\ wrote' = [a \in Adapter |-> IF a \in d THEN Unwritten ELSE wrote[a]]
  /\ snap' = [a \in Adapter |-> IF a \in d THEN Fresh ELSE snap[a]]

Loses(row) == [p EXCEPT !.row = row, !.text = None]

Loss(d) ==
  IF /\ First \in d /\ p.row # "gone"
     /\ p.pc \in {"claim", "claimed"} /\ wrote[First][p.unit] # NoWrite
    THEN Loses(IF stored[p.unit] = Absent THEN "gone" ELSE "changed")
    ELSE p

(* The server ends the sessions of d.                                      *)
Cut(d) ==
  /\ End(d, "lost")
  /\ cut' = cut \cup Users(d)
  /\ p' = Loss(d)

(* A round trip on a session that is gone: PyMySQL raises and closes.      *)
Raises(a) ==
  /\ ~Live(a)
  /\ link' = [link EXCEPT ![a] = "closed"]
  /\ UNCHANGED <<server, wrote, snap>>

Drop(a) ==
  /\ Live(a)
  /\ Cut({a})
  /\ UNCHANGED <<server, cached, req>>

Down ==
  /\ Outages
  /\ up
  /\ up' = FALSE
  /\ Cut({a \in Adapter : Live(a)})
  /\ UNCHANGED <<stored, cached, req>>

Up ==
  /\ ~up
  /\ up' = TRUE
  /\ UNCHANGED <<stored, session, cached, req, p, cut>>

-----------------------------------------------------------------------------
(* get_connection.                                                         *)

GotoOn(t, pc, a) == req' = [req EXCEPT ![t].pc = pc, ![t].conn = a]
Goto(t, pc)      == req' = [req EXCEPT ![t].pc = pc]

(* An exception: whatever the answer is, it is not "accepted".             *)
Refuse(t) ==
  /\ req' = [req EXCEPT ![t] = NoRequest]
  /\ cut' = cut \ {t}

(* A webhook with units, or /healthz; "if _connection is not None" (226).  *)
Arrive(t) ==
  /\ req[t].pc \in Resting
  /\ req' = [req EXCEPT ![t] =
               [NoRequest EXCEPT !.pc = IF cached = None THEN "open" ELSE "bind"]]
  /\ cut' = cut \ {t}
  /\ UNCHANGED <<server, session, cached, p>>

(* "_connection.ping" reads the global again: by now it may be None, which *)
(* is an exception like any other here.                                    *)
Bind(t) ==
  /\ req[t].pc = "bind"
  /\ IF cached = None THEN Goto(t, "clear") ELSE GotoOn(t, "ping", cached)
  /\ UNCHANGED <<server, session, cached, p, cut>>

(* Mutant: ping(reconnect=False).                                          *)
PingOnly(t) ==
  LET a == req[t].conn
  IN /\ req[t].pc = "ping"
     /\ \/ Live(a) /\ GotoOn(t, "pinged", None) /\ UNCHANGED session
        \/ ~Live(a) /\ GotoOn(t, "clear", None) /\ End({a}, "closed")
     /\ UNCHANGED <<server, cached, p, cut>>

(* ping(reconnect=True), under the lock of the adapter it was bound to.    *)
Ping(t) ==
  LET a == req[t].conn
  IN /\ req[t].pc = "ping"
     /\ \/ Live(a) /\ GotoOn(t, "pinged", None) /\ UNCHANGED session
        \/ ~Live(a) /\ up /\ GotoOn(t, "pinged", None) /\ End({a}, "live")
        \/ ~Live(a) /\ ~up /\ GotoOn(t, "clear", None) /\ End({a}, "closed")
     /\ UNCHANGED <<server, cached, p, cut>>

(* "_connection = None" (232), whatever the cache holds by now.            *)
Clear(t) ==
  /\ req[t].pc = "clear"
  /\ cached' = None
  /\ Goto(t, "open")
  /\ UNCHANGED <<server, session, p, cut>>

Referenced == {First, cached} \cup {req[t].conn : t \in Thread}

(* "with _lock": until the thread returns from the block, no other enters. *)
Open(t) ==
  /\ req[t].pc = "open"
  /\ \A s \in Thread : req[s].pc # "opened"
  /\ \/ cached # None /\ Goto(t, "opened") /\ UNCHANGED <<session, cached, cut>>
     \/ /\ cached = None /\ up
        /\ \E a \in Adapter \ Referenced : cached' = a /\ End({a}, "live")
        /\ Goto(t, "opened")
        /\ UNCHANGED cut
     \/ cached = None /\ ~up /\ Refuse(t) /\ UNCHANGED <<session, cached>>
  /\ UNCHANGED <<server, p>>

(* "return _connection" reads the global once more.                        *)
Return(t) ==
  /\ req[t].pc \in {"pinged", "opened"}
  /\ IF cached = None THEN Refuse(t) ELSE GotoOn(t, "select", cached) /\ UNCHANGED cut
  /\ UNCHANGED <<server, session, cached, p>>

-----------------------------------------------------------------------------
(* upsert_unit_on_conn, and the SELECT of /healthz.                        *)

Broken(t) ==
  /\ req[t].pc \in Using
  /\ Raises(req[t].conn)
  /\ Refuse(t)
  /\ UNCHANGED <<cached, p>>

(* health_stats_on_conn: no commit ends the transaction this begins.       *)
Stats(t) ==
  /\ req[t].pc = "select"
  /\ Live(req[t].conn)
  /\ Read(req[t].conn)
  /\ Refuse(t)
  /\ UNCHANGED <<cached, p>>

(* The unit comes with some text; what to do about it is decided by what   *)
(* the SELECT sees.                                                        *)
Select(t, u, c) ==
  LET a == req[t].conn
      Decide(pc, content) ==
        req' = [req EXCEPT ![t] = [pc |-> pc, unit |-> u, text |-> content, conn |-> a]]
  IN /\ req[t].pc = "select"
     /\ Live(a)
     /\ Read(a)
     /\ \/ Seen(a)[u] = Absent /\ Decide("insert", c)
        \/ Seen(a)[u] # Absent /\ Seen(a)[u].text = c /\ Decide("commit", None)
        \/ Seen(a)[u] # Absent /\ Seen(a)[u].text # c /\ Decide("update", c)
     /\ UNCHANGED <<cached, p, cut>>

(* The statement is done, the commit is next.                              *)
ToCommit(t) == req' = [req EXCEPT ![t].pc = "commit", ![t].text = None]

(* Mutant: a status the table does not have.                               *)
InsertQueued(t) ==
  LET a == req[t].conn
      u == req[t].unit
  IN /\ req[t].pc = "insert"
     /\ Live(a)
     /\ \/ /\ Current(a)[u] = Absent
           /\ Write(a, u, [status |-> "queued", text |-> req[t].text])
           /\ ToCommit(t)
           /\ UNCHANGED cut
        \/ /\ Current(a)[u] # Absent \/ ~Unlocked(a, u)
           /\ Refuse(t)
           /\ UNCHANGED <<server, session>>
     /\ UNCHANGED <<cached, p>>

(* Another thread may have been faster (uq_bank_unit), in which case the   *)
(* INSERT raises, or another session may hold the lock of the row.         *)
Insert(t) ==
  LET a == req[t].conn
      u == req[t].unit
  IN /\ req[t].pc = "insert"
     /\ Live(a)
     /\ \/ /\ Current(a)[u] = Absent
           /\ Write(a, u, [status |-> "pending", text |-> req[t].text])
           /\ ToCommit(t)
           /\ UNCHANGED cut
        \/ /\ Current(a)[u] # Absent \/ ~Unlocked(a, u)
           /\ Refuse(t)
           /\ UNCHANGED <<server, session>>
     /\ UNCHANGED <<cached, p>>

(* WHERE bank_id=? AND unit_id=?: whatever the row has become since the    *)
(* SELECT, in the poller's hands or not; none, if the session it was seen  *)
(* on took it along.                                                       *)
Update(t) ==
  LET a == req[t].conn
      u == req[t].unit
  IN /\ req[t].pc = "update"
     /\ Live(a)
     /\ \/ /\ Current(a)[u] # Absent
           /\ Write(a, u, [status |-> "pending", text |-> req[t].text])
           /\ ToCommit(t)
           /\ p' = IF p.unit = u /\ p.row = "kept" THEN Loses("changed") ELSE p
           /\ UNCHANGED cut
        \/ /\ Current(a)[u] = Absent /\ Unlocked(a, u)
           /\ ToCommit(t)
           /\ UNCHANGED <<server, session, p, cut>>
        \/ ~Unlocked(a, u) /\ Refuse(t) /\ UNCHANGED <<server, session, p>>
     /\ UNCHANGED cached

(* Mutant: the answer does not wait for the commit.                        *)
AnswerEarly(t) ==
  /\ req[t].pc = "commit"
  /\ Live(req[t].conn)
  /\ GotoOn(t, "accepted", None)
  /\ UNCHANGED <<server, session, cached, p, cut>>

Commit(t) ==
  /\ req[t].pc = "commit"
  /\ Live(req[t].conn)
  /\ CommitOn(req[t].conn)
  /\ GotoOn(t, "accepted", None)
  /\ UNCHANGED <<cached, p, cut>>

-----------------------------------------------------------------------------
(* run_once, on First.  Reconciliation is in Reconciler and Curation.      *)

(* It raises before the adapter is used again: _run backs off.             *)
PollBroken ==
  /\ Raises(First)
  /\ p' = AtRest
  /\ UNCHANGED <<cached, req, cut>>

(* Without a row the transaction its SELECT began stays open.              *)
PollSelect ==
  /\ p.pc = "idle"
  /\ Live(First)
  /\ Read(First)
  /\ LET pending == {u \in Unit : Seen(First)[u].status = "pending"}
     IN IF pending = {}
          THEN UNCHANGED p
          ELSE \E u \in pending :
                 LET current == Seen(First)[u] = Current(First)[u] /\ Unlocked(First, u)
                 IN p' = [pc   |-> "claim",
                          unit |-> u,
                          text |-> IF current THEN Seen(First)[u].text ELSE None,
                          row  |-> IF current THEN "kept" ELSE "changed"]
  /\ UNCHANGED <<cached, req, cut>>

(* What is left of u's row when only its status is set.                    *)
Marked(u, status) == [Current(First)[u] EXCEPT !.status = status]

(* UPDATE ... WHERE id=?: a row that was rolled back does not come back    *)
(* under its id, and nothing is updated.                                   *)
PollClaim ==
  /\ p.pc = "claim"
  /\ Live(First)
  /\ IF p.row = "gone" THEN UNCHANGED <<server, session>>
                       ELSE Write(First, p.unit, Marked(p.unit, "processing"))
  /\ p' = [p EXCEPT !.pc = "claimed"]
  /\ UNCHANGED <<cached, req, cut>>

(* mark_processed_on_conn: WHERE bank_id=? AND unit_id=?, any row of them. *)
PollMark ==
  /\ p.pc = "finish"
  /\ Live(First)
  /\ IF Current(First)[p.unit] = Absent
       THEN Unlocked(First, p.unit) /\ UNCHANGED <<server, session>>
       ELSE Write(First, p.unit, Marked(p.unit, "processed"))
  /\ p' = [p EXCEPT !.pc = "finished"]
  /\ UNCHANGED <<cached, req, cut>>

(* The wait for another session's lock times out: _run backs off.          *)
PollLockTimeout ==
  /\ p.pc \in {"claim", "finish"}
  /\ Live(First)
  /\ ~Unlocked(First, p.unit)
  /\ p' = AtRest
  /\ UNCHANGED <<server, session, cached, req, cut>>

(* Mutant: one commit, at the end, for claim and result.                   *)
CommitLast(from, to) ==
  /\ p.pc = from
  /\ Live(First)
  /\ IF to = "idle" THEN CommitOn(First) ELSE UNCHANGED <<server, session>>
  /\ p' = IF to = "idle" THEN AtRest ELSE [p EXCEPT !.pc = to]
  /\ UNCHANGED <<cached, req, cut>>

PollCommit(from, to) ==
  /\ p.pc = from
  /\ Live(First)
  /\ CommitOn(First)
  /\ p' = IF to = "idle" THEN AtRest ELSE [p EXCEPT !.pc = to]
  /\ UNCHANGED <<cached, req, cut>>

PollStep ==
  \/ PollBroken
  \/ PollSelect
  \/ PollClaim
  \/ PollCommit("claimed", "finish")
  \/ PollMark
  \/ PollCommit("finished", "idle")
  \/ PollLockTimeout

-----------------------------------------------------------------------------
(* Mutant: the poller's connection is not the one get_connection caches.   *)
InitUncached ==
  /\ up = TRUE
  /\ stored = NoRows
  /\ link = [a \in Adapter |-> IF a = First THEN "live" ELSE "closed"]
  /\ wrote = [a \in Adapter |-> Unwritten]
  /\ snap = [a \in Adapter |-> Fresh]
  /\ cached = None
  /\ req = [t \in Thread |-> NoRequest]
  /\ p = AtRest
  /\ cut = {}

Init ==
  /\ up = TRUE
  /\ stored = NoRows
  /\ link = [a \in Adapter |-> IF a = First THEN "live" ELSE "closed"]
  /\ wrote = [a \in Adapter |-> Unwritten]
  /\ snap = [a \in Adapter |-> Fresh]
  /\ cached = First
  /\ req = [t \in Thread |-> NoRequest]
  /\ p = AtRest
  /\ cut = {}

RequestStep(t) ==
  \/ Bind(t)
  \/ Ping(t)
  \/ Clear(t)
  \/ Open(t)
  \/ Return(t)
  \/ Broken(t)
  \/ Stats(t)
  \/ \E u \in Unit, c \in Text : Select(t, u, c)
  \/ Insert(t)
  \/ Update(t)
  \/ Commit(t)

Fault == Down \/ \E a \in Adapter : Drop(a)

Next ==
  \/ \E t \in Thread : RequestStep(t) \/ Arrive(t)
  \/ PollStep
  \/ Up
  \/ Fault

Spec == Init /\ [][Next]_vars

(* Threads run, the server comes back, and requests keep arriving: the     *)
(* container's health check is one, every 30 s.                            *)
FairSpec ==
  /\ Spec
  /\ WF_vars(PollStep)
  /\ WF_vars(Up)
  /\ WF_vars(\E t \in Thread : Arrive(t))
  /\ \A t \in Thread : WF_vars(RequestStep(t))

-----------------------------------------------------------------------------
(* Properties.                                                             *)

TypeOK ==
  /\ up \in BOOLEAN
  /\ stored \in Rows
  /\ link \in [Adapter -> {"live", "lost", "closed"}]
  /\ wrote \in [Adapter -> Writes]
  /\ snap \in [Adapter -> [taken : BOOLEAN, rows : Rows]]
  /\ cached \in Adapter \cup {None}
  /\ req \in [Thread -> Request]
  /\ p \in Worker
  /\ cut \in SUBSET Thread

(* An accepted unit has a committed row, whichever thread's commit, or row *)
(* it found, that rests on: unless the session it wrote or read on ended   *)
(* under the request.                                                      *)
AcceptedUnlessCut ==
  \A t \in Thread :
    req[t].pc = "accepted" /\ t \notin cut => stored[req[t].unit] # Absent

(* The claim is committed when run_reconcile is called ("marking it first" *)
(* is what keeps a restarted process from doing a fact again), and on the  *)
(* text it is called with, whichever thread's commit did it and whoever    *)
(* else rolled back: unless the session ended under the claim or under     *)
(* what it claims, a request rewrote the row since the SELECT, or the      *)
(* SELECT read an old snapshot of it.                                      *)
ClaimIsCommitted ==
  p.pc \in {"finish", "finished"} /\ p.row = "kept" =>
    /\ stored[p.unit].status \in {"processing", "processed"}
    /\ stored[p.unit].text = p.text

(* No lock stays: get_connection does not close an adapter it throws out   *)
(* of its cache, and what is uncommitted on it keeps the poller and all    *)
(* later requests off the row until the thread that wrote it, or the loss  *)
(* of the session, lets go.                                                *)
Locked(u) == \E a \in Adapter : wrote[a][u] # NoWrite


(* handle_event: "every unit that arrived is now durably queued in the     *)
(* local table".                                                           *)
AcceptedIsDurable ==
  \A t \in Thread : req[t].pc = "accepted" => stored[req[t].unit] # Absent

(* "The worker thread must never die: if it does, every subsequent row     *)
(* sits at 'pending' forever" (_run).  It survives losing its session, and *)
(* the rows of the queue are taken once faults cease, and requests no      *)
(* longer rewrite them under the poller's hands.                           *)
Calm == <>[][~Fault /\ ~\E t \in Thread : Update(t)]_vars

PendingIsTaken ==
  Calm => \A u \in Unit : stored[u].status = "pending" ~> stored[u].status # "pending"

(* What that takes: no request asks for a connection while the server is   *)
(* away.  Outages the requests do not notice pass, and lost sessions too,  *)
(* with the locks they held: a ping revives the adapter of the poller.     *)
UnnoticedOutages == [](\A t \in Thread : req[t].pc = "ping" => up)

PendingIsTakenUnlessNoticed == UnnoticedOutages => PendingIsTaken

(* What it rests on: as long as no ping fails, every request pings the     *)
(* poller's own adapter, however many sessions that one loses.             *)
PollerIsPinged == UnnoticedOutages => [](cached = First)

(* While the session lasts, "a single MySQL connection is fine for this    *)
(* workload": a poller that goes on with an old snapshot for as long as it *)
(* finds nothing still sees every row, because each request's commit is a  *)
(* commit on its session, too.                                             *)
SessionLasts == []Live(First)

ReadsAreCurrent == SessionLasts => [](Seen(First) = Current(First))

(* Then a statement and its commit are as good as one step, although other *)
(* threads' statements come in between: what the threads have written, and *)
(* not yet committed, is a work queue with one worker.  This is what       *)
(* Reconciler assumes.                                                     *)
Abstract == INSTANCE WorkQueue WITH
  Item    <- Unit,
  Nobody  <- None,
  Group   <- [u \in Unit |-> "the bank"],
  queued  <- {u \in Unit : Current(First)[u].status = "pending"},
  running <- IF p.pc \in {"claimed", "finish"} THEN p.unit ELSE None

SharingIsSound == SessionLasts => Abstract!Spec
=============================================================================
