-------------------------- MODULE OneSessionProofs --------------------------
(***************************************************************************)
(* Why one session for all threads is enough while it lasts, for any       *)
(* number of threads, units and texts: every read is current, and the      *)
(* shared connection, statement by statement, implements the work queue.   *)
(***************************************************************************)
EXTENDS SharedConnectionProofs

(* Every thread uses the first adapter and its only session, whose         *)
(* snapshot, as commits all happen there, is never behind the table.       *)
AllUseFirst ==
  /\ NoneReplaced
  /\ Live(First)
  /\ \A t \in Thread : req[t].conn \in {None, First}
  /\ \A a \in Adapter \ {First} : wrote[a] = Unwritten

SnapshotIsCurrent == snap[First].taken => snap[First].rows = stored

(* No session takes the poller's row along; a request may have rewritten   *)
(* it, but then it is pending.                                             *)
RowAtHand ==
  /\ p.row # "gone"
  /\ p.pc # "idle" => HasRow(First, p.unit)
  /\ p.pc = "claim" => Current(First)[p.unit].status = "pending"

OneSession == AllUseFirst /\ SnapshotIsCurrent /\ RowAtHand

HealthyInv == ConnInv /\ OneSession

-----------------------------------------------------------------------------
LEMMA OneSessionInit == Init => HealthyInv
<1> SUFFICES ASSUME Init PROVE HealthyInv
  OBVIOUS
<1>1. ConnInv
  BY ConnInit
<1>2. OneSession
  BY FirstAssumption
  DEF Init, OneSession, AllUseFirst, SnapshotIsCurrent, RowAtHand, NoneReplaced, NoRequest,
      Live, Fresh, AtRest
<1> QED
  BY <1>1, <1>2 DEF HealthyInv

-----------------------------------------------------------------------------
(* What a statement on the first session does.                             *)

SessionStays ==
  /\ Live(First)'
  /\ \A a \in Adapter \ {First} : wrote'[a] = Unwritten
  /\ SnapshotIsCurrent'

LEMMA QuietOnFirst ==
  ASSUME HealthyInv, UNCHANGED <<stored, session>>
  PROVE  SessionStays /\ Current(First)' = Current(First)
BY DEF HealthyInv, OneSession, AllUseFirst, SnapshotIsCurrent, SessionStays, session, Live, Current

LEMMA ReadOnFirst ==
  ASSUME HealthyInv, Read(First)
  PROVE  SessionStays /\ Current(First)' = Current(First)
<1>1. stored' = stored /\ wrote' = wrote /\ link' = link
  BY DEF Read, server
<1>2. SnapshotIsCurrent'
  BY <1>1, FirstAssumption
  DEF Read, Taken, HealthyInv, ConnInv, Typed, TypeOK, OneSession, SnapshotIsCurrent
<1> QED
  BY <1>1, <1>2 DEF HealthyInv, OneSession, AllUseFirst, SessionStays, Live, Current

LEMMA WriteOnFirst ==
  ASSUME HealthyInv, NEW u \in Unit, NEW r \in Present, Write(First, u, r)
  PROVE  /\ SessionStays
         /\ \A v \in Unit : Current(First)'[v] = IF v = u THEN r ELSE Current(First)[v]
<1> USE FirstAssumption DEF HealthyInv, ConnInv, Typed
<1>1. /\ stored' = stored /\ snap' = snap /\ link' = link
      /\ \A v \in Unit : Current(First)'[v] = IF v = u THEN r ELSE Current(First)[v]
  BY WriteEffect
<1>2. \A a \in Adapter \ {First} : wrote'[a] = wrote[a]
  BY DEF Write, TypeOK
<1> QED
  BY <1>1, <1>2 DEF OneSession, AllUseFirst, SnapshotIsCurrent, SessionStays, Live

LEMMA CommitOnFirst ==
  ASSUME HealthyInv, CommitOn(First)
  PROVE  /\ SessionStays
         /\ Current(First)' = Current(First)
<1> USE FirstAssumption DEF HealthyInv, ConnInv, Typed
<1>1. /\ link' = link /\ stored' = Current(First)
      /\ \A a \in Adapter :
           /\ wrote'[a] = IF a = First THEN Unwritten ELSE wrote[a]
           /\ snap'[a] = IF a = First THEN Fresh ELSE snap[a]
  BY CommitEffect DEF CommitOn
<1>2. SessionStays
  BY <1>1 DEF OneSession, AllUseFirst, SnapshotIsCurrent, SessionStays, Live, Fresh
<1>3. Current(First)' = Current(First)
  BY <1>1, CurrentTyped DEF Current, Over, Unwritten, Rows
<1> QED
  BY <1>2, <1>3

-----------------------------------------------------------------------------
(* Requests.                                                               *)

(* What a thread with a connection uses.                                   *)
LEMMA UsesFirst ==
  ASSUME HealthyInv, NEW t \in Thread, req[t].pc \in Using \cup {"ping"}
  PROVE  req[t].conn = First /\ Live(req[t].conn)
BY DEF HealthyInv, ConnInv, Typed, WellFormed, OneSession, AllUseFirst

LEMMA MoveOnFirst ==
  ASSUME HealthyInv, NEW t \in Thread, NEW r, req' = [req EXCEPT ![t] = r],
         r.pc \notin {"clear", "open", "opened"}, r.conn \in {None, First},
         cached' = cached, SessionStays
  PROVE  AllUseFirst' /\ SnapshotIsCurrent'
<1>1. \A s \in Thread : req'[s] = IF s = t THEN r ELSE req[s]
  BY DEF HealthyInv, ConnInv, Typed, TypeOK
<1> QED
  BY <1>1 DEF HealthyInv, OneSession, AllUseFirst, NoneReplaced, SessionStays

LEMMA RefuseOnFirst ==
  ASSUME HealthyInv, NEW t \in Thread, Refuse(t), cached' = cached, SessionStays
  PROVE  AllUseFirst' /\ SnapshotIsCurrent'
BY MoveOnFirst DEF Refuse, NoRequest

(* A request gets the first adapter, and writes at most one row, which is  *)
(* pending then.                                                           *)
LEMMA RequestOnFirst ==
  ASSUME HealthyInv, NEW t \in Thread, RequestStep(t) \/ Arrive(t)
  PROVE  /\ AllUseFirst' /\ SnapshotIsCurrent'
         /\ \/ Current(First)' = Current(First)
            \/ \E u \in Unit, r \in Present :
                 /\ r.status = "pending"
                 /\ \A v \in Unit : Current(First)'[v] = IF v = u THEN r ELSE Current(First)[v]
         /\ p' \in {p, Loses("changed")}
<1> USE FirstAssumption, NoneAssumption DEF HealthyInv, ConnInv, Typed
<1>0. req \in [Thread -> Request] /\ req[t] \in Request
  BY DEF TypeOK
<1>1. CASE Arrive(t)
  <2> DEFINE r == [NoRequest EXCEPT !.pc = "bind"]
  <2>1. req' = [req EXCEPT ![t] = r] /\ r.pc = "bind" /\ r.conn = None
    BY <1>1 DEF Arrive, NoRequest, OneSession, AllUseFirst, NoneReplaced
  <2> QED
    BY <1>1, <2>1, QuietOnFirst, MoveOnFirst DEF Arrive, server
<1>2. CASE Bind(t) \/ Return(t)
  <2>1. PICK pc \in {"ping", "select"} : GotoOn(t, pc, First)
    BY <1>2 DEF Bind, Return, OneSession, AllUseFirst, NoneReplaced
  <2> QED
    BY <1>0, <1>2, <2>1, Moves, QuietOnFirst, MoveOnFirst DEF Bind, Return, server
<1>3. CASE Ping(t)
  <2>1. GotoOn(t, "pinged", None) /\ UNCHANGED session
    BY <1>3, UsesFirst DEF Ping
  <2> QED
    BY <1>0, <1>3, <2>1, Moves, QuietOnFirst, MoveOnFirst DEF Ping, server
<1>4. CASE Clear(t) \/ Open(t)
  BY <1>4 DEF Clear, Open, OneSession, AllUseFirst, NoneReplaced
<1>5. CASE Broken(t)
  BY <1>5, UsesFirst DEF Broken, Raises
<1>6. CASE Stats(t)
  <2>1. Read(First) /\ Refuse(t)
    BY <1>6, UsesFirst DEF Stats, Using
  <2> QED
    BY <1>6, <2>1, ReadOnFirst, RefuseOnFirst DEF Stats
<1>7. ASSUME NEW u \in Unit, NEW c \in Text, Select(t, u, c)
      PROVE  /\ AllUseFirst' /\ SnapshotIsCurrent'
             /\ Current(First)' = Current(First) /\ p' = p
  <2>1. req[t].conn = First /\ Read(First)
    BY <1>7, UsesFirst DEF Select, Using
  <2>2. PICK pc \in Deciding, x \in {c, None} :
          req' = [req EXCEPT ![t] = [pc |-> pc, unit |-> u, text |-> x, conn |-> First]]
    BY <1>7, <2>1 DEF Select, Deciding
  <2> QED
    BY <1>7, <2>1, <2>2, ReadOnFirst, MoveOnFirst DEF Select, Deciding
<1>8. CASE Insert(t) \/ Update(t)
  <2> DEFINE new == [status |-> "pending", text |-> req[t].text]
  <2>1. req[t].conn = First
    BY <1>8, UsesFirst DEF Insert, Update, Using, Deciding
  <2>2. PICK u \in Unit : u = req[t].unit
    BY <1>0, <1>8 DEF Insert, Update, WellFormed, Request, Deciding
  <2>3. new \in Present
    BY <1>0, <1>8, NewRow DEF Insert, Update, WellFormed, Request, Status
  <2>4. p' \in {p, Loses("changed")} /\ cached' = cached
    BY <1>8 DEF Insert, Update
  <2>5. CASE Write(First, u, new) /\ ToCommit(t)
    <3>1. AllUseFirst' /\ SnapshotIsCurrent'
      BY <1>0, <2>1, <2>3, <2>4, <2>5, Moves, WriteOnFirst, MoveOnFirst
    <3> QED
      BY <2>3, <2>4, <2>5, <3>1, WriteOnFirst
  <2>6. CASE UNCHANGED <<server, session>> /\ (ToCommit(t) \/ Refuse(t))
    BY <1>0, <2>1, <2>4, <2>6, Moves, QuietOnFirst, MoveOnFirst, RefuseOnFirst DEF server
  <2> QED
    BY <1>8, <2>1, <2>2, <2>5, <2>6 DEF Insert, Update
<1>9. CASE Commit(t)
  <2>1. CommitOn(First) /\ GotoOn(t, "accepted", None)
    BY <1>9, UsesFirst DEF Commit, Using, Deciding
  <2> QED
    BY <1>0, <1>9, <2>1, Moves, CommitOnFirst, MoveOnFirst DEF Commit
<1> QED
  BY <1>1, <1>2, <1>3, <1>4, <1>5, <1>6, <1>7, <1>8, <1>9 DEF RequestStep

-----------------------------------------------------------------------------
(* The poller.                                                             *)

(* A poller's step that commits, reads or does nothing leaves the rows.    *)
LEMMA PollerStays ==
  ASSUME HealthyInv, UNCHANGED <<req, cached>>, SessionStays
  PROVE  AllUseFirst' /\ SnapshotIsCurrent'
BY DEF HealthyInv, OneSession, AllUseFirst, NoneReplaced, SessionStays

LEMMA PollerFacts ==
  ASSUME HealthyInv
  PROVE  /\ p \in Worker
         /\ p.pc # "idle" => p.unit \in Unit /\ Unlocked(First, p.unit)
BY DEF HealthyInv, ConnInv, Typed, TypeOK, WellFormed, Worker, OneSession, AllUseFirst,
       Unlocked, Unwritten

LEMMA ClaimOnFirst ==
  ASSUME HealthyInv, PollClaim \/ PollMark
  PROVE  \E u \in Unit, s \in {"processing", "processed"} :
           /\ u = p.unit
           /\ SessionStays
           /\ Marked(u, s) \in Present /\ Marked(u, s).status = s
           /\ \A v \in Unit :
                Current(First)'[v] = IF v = u THEN Marked(u, s) ELSE Current(First)[v]
<1> USE FirstAssumption
<1>1. PICK u \in Unit : u = p.unit
  BY PollerFacts DEF PollClaim, PollMark
<1>2. Current(First)[u] # Absent
  BY <1>1 DEF PollClaim, PollMark, HealthyInv, OneSession, RowAtHand, HasRow
<1>3. PICK s \in {"processing", "processed"} : Write(First, u, Marked(u, s))
  BY <1>1, <1>2 DEF PollClaim, PollMark, HealthyInv, OneSession, RowAtHand
<1>4. Marked(u, s) \in Present /\ Marked(u, s).status = s
  BY <1>2, MarkedTyped DEF Status, HealthyInv, ConnInv, Typed
<1> QED
  BY <1>1, <1>3, <1>4, WriteOnFirst

LEMMA PollOnFirst ==
  ASSUME HealthyInv, PollStep
  PROVE  OneSession'
<1> USE FirstAssumption DEF HealthyInv
<1>0. p \in Worker /\ (p.pc # "idle" => p.unit \in Unit /\ Unlocked(First, p.unit))
  BY PollerFacts
<1>1. CASE PollBroken
  BY <1>1 DEF PollBroken, Raises, OneSession, AllUseFirst
<1>2. CASE PollSelect
  <2>1. SessionStays /\ Current(First)' = Current(First)
    BY <1>2, ReadOnFirst DEF PollSelect
  <2>2. Seen(First) = Current(First)
    BY DEF OneSession, SnapshotIsCurrent, Seen, Current
  <2>3. \/ p' = p
        \/ /\ p'.row # "gone"
           /\ Current(First)[p'.unit].status = "pending"
    BY <1>2, <2>2 DEF PollSelect
  <2>4. RowAtHand'
    BY <2>1, <2>3 DEF OneSession, RowAtHand, HasRow, Absent
  <2> QED
    BY <1>2, <2>1, <2>4, PollerStays DEF PollSelect, OneSession
<1>3. CASE PollClaim \/ PollMark
  <2>1. PICK u \in Unit, s \in {"processing", "processed"} :
          /\ u = p.unit
          /\ SessionStays
          /\ Marked(u, s) \in Present
          /\ \A v \in Unit :
               Current(First)'[v] = IF v = u THEN Marked(u, s) ELSE Current(First)[v]
    BY <1>3, ClaimOnFirst
  <2>2. p'.unit = u /\ p'.row = p.row /\ p'.pc \in {"claimed", "finished"}
    BY <1>0, <1>3, <2>1 DEF PollClaim, PollMark, Worker
  <2>3. RowAtHand'
    BY <2>1, <2>2, RowFacts DEF OneSession, RowAtHand, HasRow
  <2>4. UNCHANGED <<req, cached>>
    BY <1>3 DEF PollClaim, PollMark
  <2> QED
    BY <2>1, <2>3, <2>4, PollerStays DEF OneSession
<1>4. ASSUME NEW from \in {"claimed", "finished"}, NEW to \in {"finish", "idle"},
             PollCommit(from, to)
      PROVE  OneSession'
  <2>1. SessionStays /\ Current(First)' = Current(First)
    BY <1>4, CommitOnFirst DEF PollCommit
  <2>2. p' = AtRest \/ (p'.unit = p.unit /\ p'.row = p.row /\ p'.pc # "claim" /\ p.pc # "idle")
    BY <1>0, <1>4 DEF PollCommit, Worker
  <2>3. RowAtHand'
    BY <2>1, <2>2 DEF OneSession, RowAtHand, HasRow, AtRest
  <2> QED
    BY <1>4, <2>1, <2>3, PollerStays DEF PollCommit, OneSession
<1>5. CASE PollLockTimeout
  BY <1>0, <1>5 DEF PollLockTimeout
<1> QED
  BY <1>1, <1>2, <1>3, <1>4, <1>5 DEF PollStep

(* The loss of another session is none of First's business.                *)
LEMMA DropElsewhere ==
  ASSUME HealthyInv, NEW a \in Adapter, Drop(a), Live(First)'
  PROVE  /\ AllUseFirst' /\ SnapshotIsCurrent'
         /\ Current(First)' = Current(First)
         /\ p' = p
<1> USE FirstAssumption
<1>1. a # First
  BY DEF Drop, Cut, End, Live
<1>2. UNCHANGED <<stored, cached, req>> /\ Cut({a})
  BY DEF Drop, server
<1>3. p' = p
  BY <1>1, <1>2 DEF Cut, Loss
<1>4. /\ snap'[First] = snap[First] /\ wrote'[First] = wrote[First]
      /\ \A b \in Adapter \ {First} : wrote'[b] = IF b = a THEN Unwritten ELSE wrote[b]
  BY <1>1, <1>2 DEF Cut, End
<1>5. \A b \in Adapter \ {First} : wrote'[b] = Unwritten
  BY <1>4 DEF HealthyInv, OneSession, AllUseFirst
<1>6. Current(First)' = Current(First)
  BY <1>2, <1>4 DEF Current, Over
<1> QED
  BY <1>2, <1>3, <1>4, <1>5, <1>6
  DEF HealthyInv, OneSession, AllUseFirst, SnapshotIsCurrent, NoneReplaced

LEMMA OneSessionStep ==
  ASSUME HealthyInv, [Next]_vars, Live(First)'
  PROVE  HealthyInv'
<1> USE FirstAssumption DEF HealthyInv
<1>0. ConnInv'
  BY ConnStep
<1> SUFFICES OneSession'
  BY <1>0
<1>1. CASE UNCHANGED vars \/ Up
  <2>1. UNCHANGED <<stored, session, req, cached, p>>
    BY <1>1 DEF vars, server, session, Up
  <2>2. SessionStays /\ Current(First)' = Current(First)
    BY <2>1, QuietOnFirst DEF session
  <2> QED
    BY <2>1, <2>2, PollerStays DEF OneSession, RowAtHand, HasRow
<1>2. ASSUME NEW t \in Thread, RequestStep(t) \/ Arrive(t)
      PROVE  OneSession'
  <2>1. /\ AllUseFirst' /\ SnapshotIsCurrent'
        /\ p' \in {p, Loses("changed")}
        /\ \/ Current(First)' = Current(First)
           \/ \E u \in Unit, r \in Present :
                /\ r.status = "pending"
                /\ \A v \in Unit : Current(First)'[v] = IF v = u THEN r ELSE Current(First)[v]
    BY <1>2, RequestOnFirst
  <2>2. /\ p'.pc = p.pc /\ p'.unit = p.unit /\ p'.row # "gone"
        /\ p.pc # "idle" => p.unit \in Unit
    BY <2>1, PollerFacts DEF Loses, Worker, OneSession, RowAtHand
  <2>3. RowAtHand'
    BY <2>1, <2>2, RowFacts DEF OneSession, RowAtHand, HasRow
  <2> QED
    BY <2>1, <2>3 DEF OneSession
<1>3. CASE PollStep
  BY <1>3, PollOnFirst
<1>4. CASE Down
  BY <1>4 DEF Down, Cut, End, Live, OneSession, AllUseFirst
<1>5. ASSUME NEW a \in Adapter, Drop(a)
      PROVE  OneSession'
  BY <1>5, DropElsewhere DEF OneSession, RowAtHand, HasRow
<1> QED
  BY <1>1, <1>2, <1>3, <1>4, <1>5 DEF Next, Fault

LEMMA HealthyInvariance == Spec /\ SessionLasts => []HealthyInv
BY OneSessionInit, OneSessionStep, PTL DEF Spec, SessionLasts

-----------------------------------------------------------------------------
(* While the session lasts, no read is stale, although the poller never    *)
(* ends the transaction of a SELECT that found nothing, nor /healthz that  *)
(* of its own, and although requests rewrite rows all the time.            *)
THEOREM EveryReadIsCurrent == Spec => ReadsAreCurrent
<1>1. HealthyInv => Seen(First) = Current(First)
  BY DEF HealthyInv, OneSession, SnapshotIsCurrent, Seen, Current
<1>2. QED
  BY <1>1, HealthyInvariance, PTL DEF ReadsAreCurrent

-----------------------------------------------------------------------------
(* The statements of the threads, refined to the queue.                    *)

Waiting == {u \in Unit : Current(First)[u].status = "pending"}
At      == IF p.pc \in {"claimed", "finish"} THEN p.unit ELSE None

LEMMA QueueInit == Init => Abstract!Init
<1> SUFFICES ASSUME Init PROVE Waiting = {} /\ At = None
  BY DEF Waiting, At, Abstract!Init
<1> QED
  BY FirstAssumption
     DEF Init, AtRest, Waiting, At, Current, Over, Unwritten, NoRows, Absent

LEMMA QueueStep ==
  ASSUME HealthyInv, HealthyInv', [Next]_vars
  PROVE  [Abstract!Next]_(Abstract!avars)
<1> USE FirstAssumption, NoneAssumption
<1> DEFINE Stutters == Waiting' = Waiting /\ At' = At
<1>a. Stutters => UNCHANGED Abstract!avars
  BY DEF Abstract!avars, Waiting, At
<1>b. p \in Worker /\ (p.pc # "idle" => p.unit \in Unit /\ Unlocked(First, p.unit))
  BY PollerFacts
<1>1. CASE UNCHANGED <<stored, wrote, p>>
  BY <1>a, <1>1 DEF Waiting, At, Current
<1>2. ASSUME NEW t \in Thread, RequestStep(t) \/ Arrive(t)
      PROVE  [Abstract!Next]_(Abstract!avars)
  <2>1. /\ p' \in {p, Loses("changed")}
        /\ \/ Current(First)' = Current(First)
           \/ \E u \in Unit, r \in Present :
                /\ r.status = "pending"
                /\ \A v \in Unit : Current(First)'[v] = IF v = u THEN r ELSE Current(First)[v]
    BY <1>2, RequestOnFirst
  <2>2. p'.pc = p.pc /\ p'.unit = p.unit
    BY <1>b, <2>1 DEF Loses, Worker
  <2>3. At' = At
    BY <2>2 DEF At
  <2>4. CASE Current(First)' = Current(First)
    BY <1>a, <2>3, <2>4 DEF Waiting
  <2>5. ASSUME NEW u \in Unit, NEW r \in Present, r.status = "pending",
               \A v \in Unit : Current(First)'[v] = IF v = u THEN r ELSE Current(First)[v]
        PROVE  Abstract!Next
    <3>1. Waiting' = Waiting \cup {u}
      BY <2>5 DEF Waiting
    <3>2. Abstract!Put(u)
      BY <2>3, <3>1 DEF Abstract!Put, Waiting, At
    <3> QED
      BY <3>2 DEF Abstract!Next
  <2> QED
    BY <2>1, <2>4, <2>5
<1>3. CASE PollBroken
  BY <1>3 DEF PollBroken, Raises, HealthyInv, OneSession, AllUseFirst
<1>4. CASE PollSelect
  <2>1. Current(First)' = Current(First)
    BY <1>4, ReadOnFirst DEF PollSelect
  <2>2. At' = At
    BY <1>4 DEF PollSelect, At
  <2> QED
    BY <1>a, <2>1, <2>2 DEF Waiting
<1>5. CASE PollClaim
  <2>1. PICK u \in Unit, s \in {"processing", "processed"} :
          /\ u = p.unit
          /\ Marked(u, s).status = s
          /\ \A v \in Unit :
               Current(First)'[v] = IF v = u THEN Marked(u, s) ELSE Current(First)[v]
    BY <1>5, ClaimOnFirst
  <2>2. Current(First)[u].status = "pending" /\ At = None /\ At' = u
    BY <1>5, <1>b, <2>1 DEF PollClaim, HealthyInv, OneSession, RowAtHand, At, Worker
  <2>3. Waiting' = Waiting \ {u} /\ u \in Waiting
    BY <2>1, <2>2 DEF Waiting
  <2>4. Abstract!Take(u)
    BY <2>2, <2>3 DEF Abstract!Take, Abstract!Free, Waiting, At
  <2> QED
    BY <2>4 DEF Abstract!Next
<1>6. CASE PollCommit("claimed", "finish") \/ PollCommit("finished", "idle")
  <2>1. At' = At
    BY <1>6, <1>b DEF PollCommit, At, AtRest, Worker
  <2>2. Current(First)' = Current(First)
    BY <1>6, CommitOnFirst DEF PollCommit
  <2> QED
    BY <1>a, <2>1, <2>2 DEF Waiting
<1>7. CASE PollMark
  <2>1. PICK u \in Unit, s \in {"processing", "processed"} :
          /\ u = p.unit
          /\ Marked(u, s).status = s
          /\ \A v \in Unit :
               Current(First)'[v] = IF v = u THEN Marked(u, s) ELSE Current(First)[v]
    BY <1>7, ClaimOnFirst
  <2>2. At = u /\ At' = None
    BY <1>7, <1>b, <2>1 DEF PollMark, At, Worker
  <2>3. Waiting' = Waiting \ {u}
    BY <2>1 DEF Waiting
  <2>4. Abstract!Finish
    BY <2>2, <2>3 DEF Abstract!Finish, Abstract!Free, Waiting, At
  <2> QED
    BY <2>4 DEF Abstract!Next
<1>8. CASE PollLockTimeout
  BY <1>8, <1>b DEF PollLockTimeout
<1>9. CASE UNCHANGED vars \/ Up
  BY <1>1, <1>9 DEF vars, server, session, Up
<1>10. CASE Down
  BY <1>10 DEF Down, Cut, End, Live, HealthyInv, OneSession, AllUseFirst
<1>11. ASSUME NEW a \in Adapter, Drop(a)
       PROVE  [Abstract!Next]_(Abstract!avars)
  <2>1. Current(First)' = Current(First) /\ p' = p
    BY <1>11, DropElsewhere DEF HealthyInv, OneSession, AllUseFirst
  <2> QED
    BY <1>a, <2>1 DEF Waiting, At
<1> QED
  BY <1>2, <1>3, <1>4, <1>5, <1>6, <1>7, <1>8, <1>9, <1>10, <1>11 DEF Next, Fault, PollStep

(* Statement by statement, with other threads' statements in between, the  *)
(* shared session is a work queue with one worker: an INSERT, or an UPDATE *)
(* that rewrites a row, is a Put, the UPDATE that claims is a Take, the    *)
(* one that marks the row processed is the Finish.                         *)
THEOREM SharingIsWorkQueue == Spec => SharingIsSound
<1>1. QED
  BY QueueInit, QueueStep, HealthyInvariance, PTL
  DEF Spec, SharingIsSound, Abstract!Spec
=============================================================================
