----------------------- MODULE SharedConnectionProofs -----------------------
(***************************************************************************)
(* What an acknowledgement and a claim are worth when sessions end under   *)
(* the threads that share them, for any number of threads, units, texts    *)
(* and adapters.                                                           *)
(*                                                                         *)
(* AcceptedUnlessCut is not inductive.  The argument behind ConnInv: a     *)
(* request that is about to commit either holds a row on its session, or   *)
(* found one there, or its session ended since, and then it is in cut; and *)
(* no step makes a row that a live session sees absent again, because the  *)
(* table only grows, writes are never deletions, and snapshots are old.    *)
(***************************************************************************)
EXTENDS SharedConnection, TLAPS

-----------------------------------------------------------------------------
(* The inductive invariant.                                                *)

(* A thread has what the step it is at uses.                               *)
WellFormed ==
  /\ \A t \in Thread :
       /\ req[t].pc \in Deciding \cup {"accepted"} => req[t].unit # None
       /\ req[t].pc \in {"insert", "update"} => req[t].text # None
       /\ req[t].pc \in Using \cup {"ping"} => req[t].conn # None
  /\ p.pc # "idle" => p.unit # None

HasRow(a, u) == Current(a)[u] # Absent

(* A snapshot is behind the table, and the table only grows.               *)
SnapshotsAreOld ==
  \A a \in Adapter, u \in Unit :
    snap[a].taken /\ snap[a].rows[u] # Absent => stored[u] # Absent

(* Without this, a ping that revives a session could still roll back what  *)
(* was counted as lost, or not, when the session ended.                    *)
EndedHoldsNothing == \A a \in Adapter : ~Live(a) => wrote[a] = Unwritten

(* The UPDATE that claims finds its row.                                   *)
ClaimHasRow == p.pc = "claim" /\ p.row # "gone" => HasRow(First, p.unit)

(* Whoever lost the session of its SELECT is in cut; whoever did not has a *)
(* row to commit, or one that is committed.                                *)
ThreadOK(t) ==
  \/ t \in cut
  \/ /\ req[t].pc \in Deciding => Live(req[t].conn)
     /\ req[t].pc \in {"update", "commit"} => HasRow(req[t].conn, req[t].unit)
     /\ req[t].pc = "accepted" => stored[req[t].unit] # Absent

Typed == TypeOK /\ WellFormed

RowsOK == SnapshotsAreOld /\ EndedHoldsNothing

ConnInv == Typed /\ RowsOK /\ ClaimHasRow /\ \A t \in Thread : ThreadOK(t)

-----------------------------------------------------------------------------
(* Rows.                                                                   *)

LEMMA RowFacts ==
  /\ Absent \notin Present
  /\ NoWrite \notin Present
  /\ Absent # NoWrite
BY DEF Absent, NoWrite, Present, Status

LEMMA NewRow ==
  ASSUME NEW c \in Text, NEW s \in Status
  PROVE  [status |-> s, text |-> c] \in Present
BY DEF Present

LEMMA CurrentTyped ==
  ASSUME TypeOK, NEW a \in Adapter
  PROVE  Current(a) \in Rows
BY RowFacts DEF TypeOK, Current, Over, Rows, Writes

LEMMA MarkedTyped ==
  ASSUME TypeOK, NEW u \in Unit, Current(First)[u] # Absent, NEW s \in Status
  PROVE  /\ Marked(u, s) \in Present
         /\ Marked(u, s) = [status |-> s, text |-> Current(First)[u].text]
<1>1. Current(First)[u] \in Present
  BY CurrentTyped, FirstAssumption DEF Rows
<1> QED
  BY <1>1 DEF Marked, Present

-----------------------------------------------------------------------------
(* Types.                                                                  *)

SessionsTyped ==
  /\ link \in [Adapter -> {"live", "lost", "closed"}]
  /\ wrote \in [Adapter -> Writes]
  /\ snap \in [Adapter -> [taken : BOOLEAN, rows : Rows]]

LEMMA EndTyped ==
  ASSUME TypeOK, NEW d, NEW how \in {"live", "lost", "closed"}, End(d, how)
  PROVE  SessionsTyped'
BY DEF TypeOK, End, SessionsTyped, Unwritten, Fresh, NoRows, Writes, Rows

LEMMA RaisesTyped ==
  ASSUME TypeOK, NEW a \in Adapter, Raises(a)
  PROVE  SessionsTyped' /\ UNCHANGED server
BY DEF TypeOK, Raises, SessionsTyped

LEMMA ReadTyped ==
  ASSUME TypeOK, NEW a \in Adapter, Read(a)
  PROVE  SessionsTyped' /\ UNCHANGED server
BY DEF TypeOK, Read, SessionsTyped, Taken

LEMMA WriteTyped ==
  ASSUME TypeOK, NEW a \in Adapter, NEW u \in Unit, NEW r \in Present, Write(a, u, r)
  PROVE  SessionsTyped' /\ UNCHANGED server
BY DEF TypeOK, Write, SessionsTyped, Writes

LEMMA CommitTyped ==
  ASSUME TypeOK, NEW a \in Adapter, CommitOn(a)
  PROVE  SessionsTyped' /\ stored' \in Rows /\ up' = up
<1>1. stored' \in Rows
  BY CurrentTyped DEF CommitOn
<1>2. QED
  BY <1>1 DEF TypeOK, CommitOn, SessionsTyped, Unwritten, Fresh, NoRows, Writes, Rows

(* The ways a request moves.                                               *)
LEMMA Moves ==
  ASSUME req \in [Thread -> Request], NEW t \in Thread
  PROVE  /\ \A pc, a : GotoOn(t, pc, a) =>
              req' = [req EXCEPT ![t] = [pc |-> pc, unit |-> req[t].unit,
                                        text |-> req[t].text, conn |-> a]]
         /\ \A pc : Goto(t, pc) =>
              req' = [req EXCEPT ![t] = [pc |-> pc, unit |-> req[t].unit,
                                        text |-> req[t].text, conn |-> req[t].conn]]
         /\ ToCommit(t) =>
              req' = [req EXCEPT ![t] = [pc |-> "commit", unit |-> req[t].unit,
                                        text |-> None, conn |-> req[t].conn]]
BY DEF GotoOn, Goto, ToCommit, Request

(* A request that has what its next step needs leaves the types right.     *)
LEMMA MoveTyped ==
  ASSUME Typed, NEW t \in Thread, NEW r \in Request, req' = [req EXCEPT ![t] = r],
         r.pc \in Deciding \cup {"accepted"} => r.unit # None,
         r.pc \in {"insert", "update"} => r.text # None,
         r.pc \in Using \cup {"ping"} => r.conn # None,
         p'.pc = p.pc /\ p'.unit = p.unit
  PROVE  req' \in [Thread -> Request] /\ WellFormed'
<1>1. \A s \in Thread : req'[s] = IF s = t THEN r ELSE req[s]
  BY DEF Typed, TypeOK
<1>2. QED
  BY <1>1 DEF Typed, TypeOK, WellFormed

LEMMA RefuseTyped ==
  ASSUME Typed, NEW t \in Thread, Refuse(t), p'.pc = p.pc /\ p'.unit = p.unit
  PROVE  req' \in [Thread -> Request] /\ WellFormed' /\ cut' \in SUBSET Thread
<1>1. NoRequest \in Request
  BY DEF NoRequest, Request, Resting
<1>2. cut' \in SUBSET Thread
  BY DEF Refuse, Typed, TypeOK
<1>3. QED
  BY <1>1, <1>2, MoveTyped DEF Refuse, NoRequest, Deciding, Using

(* A request's step on its way to a connection.                            *)
LEMMA GettingTyped ==
  ASSUME Typed, NEW t \in Thread,
         Arrive(t) \/ Bind(t) \/ Ping(t) \/ Clear(t) \/ Open(t) \/ Return(t)
  PROVE  Typed'
<1> USE FirstAssumption, NoneAssumption DEF Typed
<1>0. req \in [Thread -> Request] /\ req[t] \in Request
  BY DEF TypeOK
<1>1. ASSUME NEW pc \in Getting \cup {"select"}, NEW a \in Adapter \cup {None},
             pc \in {"ping", "select"} => a # None,
             GotoOn(t, pc, a), p' = p
      PROVE  req' \in [Thread -> Request] /\ WellFormed'
  <2> DEFINE r == [pc |-> pc, unit |-> req[t].unit, text |-> req[t].text, conn |-> a]
  <2>1. req' = [req EXCEPT ![t] = r]
    BY <1>0, <1>1, Moves
  <2>2. r \in Request
    BY <1>0 DEF Request, Getting, Using
  <2>3. /\ r.pc \notin Deciding \cup {"accepted"}
        /\ r.pc \notin {"insert", "update"}
        /\ r.pc \in Using \cup {"ping"} => r.conn # None
    BY <1>1 DEF Deciding, Getting, Using
  <2> QED
    BY <1>1, <2>1, <2>2, <2>3, MoveTyped
<1>2. ASSUME NEW pc \in {"open", "opened", "clear"}, Goto(t, pc), p' = p
      PROVE  req' \in [Thread -> Request] /\ WellFormed'
  <2>1. GotoOn(t, pc, req[t].conn)
    <3>1. req' = [req EXCEPT ![t] = [pc |-> pc, unit |-> req[t].unit,
                                     text |-> req[t].text, conn |-> req[t].conn]]
      BY <1>0, <1>2, Moves
    <3> QED
      BY <1>0, <3>1 DEF GotoOn, Request
  <2>2. req[t].conn \in Adapter \cup {None}
    BY <1>0 DEF Request
  <2> QED
    BY <1>1, <1>2, <2>1, <2>2 DEF Getting
<1>3. CASE Arrive(t)
  <2> DEFINE r == [NoRequest EXCEPT !.pc = IF cached = None THEN "open" ELSE "bind"]
  <2>1. /\ r \in Request
        /\ r.pc \in {"open", "bind"}
    BY DEF NoRequest, Request, Getting
  <2>2. req' \in [Thread -> Request] /\ WellFormed'
    BY <1>3, <2>1, MoveTyped DEF Arrive, Deciding, Using
  <2> QED
    BY <1>3, <2>2 DEF Arrive, TypeOK, server, session
<1>4. CASE Bind(t)
  <2>1. req' \in [Thread -> Request] /\ WellFormed'
    BY <1>1, <1>2, <1>4 DEF Bind, TypeOK, Getting
  <2> QED
    BY <1>4, <2>1 DEF Bind, TypeOK, server, session
<1>5. CASE Ping(t)
  <2>1. SessionsTyped'
    BY <1>5, EndTyped DEF Ping, TypeOK, SessionsTyped, session
  <2>2. req' \in [Thread -> Request] /\ WellFormed'
    BY <1>1, <1>5 DEF Ping, Getting
  <2> QED
    BY <1>5, <2>1, <2>2 DEF Ping, TypeOK, SessionsTyped, server
<1>6. CASE Clear(t)
  <2>1. req' \in [Thread -> Request] /\ WellFormed'
    BY <1>2, <1>6 DEF Clear
  <2> QED
    BY <1>6, <2>1 DEF Clear, TypeOK, server, session
<1>7. CASE Open(t)
  <2>1. SessionsTyped'
    BY <1>7, EndTyped DEF Open, TypeOK, SessionsTyped, session
  <2>2. req' \in [Thread -> Request] /\ WellFormed' /\ cut' \in SUBSET Thread
    BY <1>2, <1>7, RefuseTyped DEF Open, TypeOK
  <2>3. cached' \in Adapter \cup {None}
    BY <1>7 DEF Open, TypeOK
  <2> QED
    BY <1>7, <2>1, <2>2, <2>3 DEF Open, TypeOK, SessionsTyped, server
<1>8. CASE Return(t)
  <2>1. req' \in [Thread -> Request] /\ WellFormed' /\ cut' \in SUBSET Thread
    BY <1>1, <1>8, RefuseTyped DEF Return, TypeOK
  <2> QED
    BY <1>8, <2>1 DEF Return, TypeOK, server, session
<1> QED
  BY <1>3, <1>4, <1>5, <1>6, <1>7, <1>8

(* A request's step on its connection.                                     *)
LEMMA UsingTyped ==
  ASSUME Typed, NEW t \in Thread,
         \/ Broken(t) \/ Stats(t) \/ Insert(t) \/ Update(t) \/ Commit(t)
         \/ \E u \in Unit, c \in Text : Select(t, u, c)
  PROVE  Typed'
<1> USE NoneAssumption DEF Typed
<1>0. /\ req \in [Thread -> Request] /\ req[t] \in Request
      /\ req[t].conn \in Adapter
  BY DEF TypeOK, WellFormed, Request, Using, Deciding, Broken, Stats, Select, Insert, Update,
         Commit
<1>1. ASSUME ToCommit(t), req[t].pc \in Deciding, p'.pc = p.pc, p'.unit = p.unit
      PROVE  req' \in [Thread -> Request] /\ WellFormed'
  <2> DEFINE r == [pc |-> "commit", unit |-> req[t].unit, text |-> None, conn |-> req[t].conn]
  <2>1. req' = [req EXCEPT ![t] = r]
    BY <1>0, <1>1, Moves
  <2>2. r \in Request /\ r.unit # None /\ r.conn # None
    BY <1>0, <1>1 DEF Request, Using, Deciding, WellFormed
  <2> QED
    BY <1>1, <2>1, <2>2, MoveTyped
<1>2. CASE Broken(t) \/ Stats(t)
  <2>1. SessionsTyped' /\ UNCHANGED server
    BY <1>0, <1>2, RaisesTyped, ReadTyped DEF Broken, Stats
  <2>2. req' \in [Thread -> Request] /\ WellFormed' /\ cut' \in SUBSET Thread
    BY <1>2, RefuseTyped DEF Broken, Stats
  <2> QED
    BY <1>2, <2>1, <2>2 DEF Broken, Stats, TypeOK, SessionsTyped, server
<1>3. ASSUME NEW u \in Unit, NEW c \in Text, Select(t, u, c)
      PROVE  Typed'
  <2>1. SessionsTyped' /\ UNCHANGED server
    BY <1>0, <1>3, ReadTyped DEF Select
  <2>2. PICK pc \in Deciding, x \in {c, None} :
          /\ pc \in {"insert", "update"} => x = c
          /\ req' = [req EXCEPT ![t] = [pc |-> pc, unit |-> u, text |-> x, conn |-> req[t].conn]]
    BY <1>3 DEF Select, Deciding
  <2> DEFINE r == [pc |-> pc, unit |-> u, text |-> x, conn |-> req[t].conn]
  <2>3. r \in Request /\ r.unit # None /\ r.conn # None
    BY <1>0 DEF Request, Using
  <2>4. r.pc \in {"insert", "update"} => r.text # None
    BY <2>2
  <2>5. req' \in [Thread -> Request] /\ WellFormed'
    BY <1>3, <2>2, <2>3, <2>4, MoveTyped DEF Select
  <2> QED
    BY <1>3, <2>1, <2>5 DEF Select, TypeOK, SessionsTyped, server
<1>4. CASE Insert(t) \/ Update(t)
  <2> DEFINE u   == req[t].unit
             new == [status |-> "pending", text |-> req[t].text]
  <2>1. u \in Unit /\ new \in Present
    BY <1>0, <1>4, NewRow DEF Insert, Update, WellFormed, Request, Status, Deciding
  <2>2. SessionsTyped' /\ UNCHANGED server
    BY <1>0, <1>4, <2>1, WriteTyped DEF Insert, Update, TypeOK, SessionsTyped, session, server
  <2>3. p'.pc = p.pc /\ p'.unit = p.unit /\ p' \in Worker /\ cached' = cached
    <3>1. p' \in {p, Loses("changed")} /\ cached' = cached
      BY <1>4 DEF Insert, Update
    <3>2. p \in Worker
      BY DEF TypeOK
    <3>3. Loses("changed") \in Worker /\ Loses("changed").pc = p.pc /\ Loses("changed").unit = p.unit
      BY <3>2 DEF Loses, Worker
    <3> QED
      BY <3>1, <3>2, <3>3
  <2>4. req' \in [Thread -> Request] /\ WellFormed' /\ cut' \in SUBSET Thread
    BY <1>1, <1>4, <2>3, RefuseTyped DEF Insert, Update, Deciding, TypeOK
  <2> QED
    BY <2>2, <2>3, <2>4 DEF TypeOK, SessionsTyped, server
<1>5. CASE Commit(t)
  <2> DEFINE r == [pc |-> "accepted", unit |-> req[t].unit, text |-> req[t].text, conn |-> None]
  <2>1. SessionsTyped' /\ stored' \in Rows /\ up' = up
    BY <1>0, <1>5, CommitTyped DEF Commit
  <2>2. req' = [req EXCEPT ![t] = r]
    BY <1>0, <1>5, Moves DEF Commit
  <2>3. r \in Request /\ r.unit # None
    BY <1>0, <1>5 DEF Commit, Request, Resting, Deciding, WellFormed
  <2>4. req' \in [Thread -> Request] /\ WellFormed'
    BY <1>5, <2>2, <2>3, MoveTyped DEF Commit, Using, Deciding
  <2> QED
    BY <1>5, <2>1, <2>4 DEF Commit, TypeOK, SessionsTyped
<1> QED
  BY <1>2, <1>3, <1>4, <1>5

LEMMA PollTyped ==
  ASSUME Typed, ClaimHasRow, PollStep
  PROVE  Typed'
<1> USE FirstAssumption, NoneAssumption DEF Typed
<1>0. p \in Worker /\ (p.pc # "idle" => p.unit \in Unit)
  BY DEF TypeOK, WellFormed, Worker
<1>1. CASE PollBroken
  <2>1. SessionsTyped' /\ UNCHANGED server
    BY <1>1, RaisesTyped DEF PollBroken
  <2> QED
    BY <1>1, <2>1 DEF PollBroken, AtRest, Worker, TypeOK, SessionsTyped, server, WellFormed
<1>2. CASE PollSelect
  <2>1. SessionsTyped' /\ UNCHANGED server
    BY <1>2, ReadTyped DEF PollSelect
  <2>2. ASSUME NEW u \in Unit, Seen(First)[u].status = "pending"
        PROVE  Seen(First)[u].text \in Text
    <3>1. Seen(First)[u] \in Present \cup {Absent}
      BY RowFacts DEF TypeOK, Seen, Over, Rows, Writes
    <3> QED
      BY <2>2, <3>1 DEF Present, Absent
  <2>3. p' = p \/ \E u \in Unit : p' \in Worker /\ p'.unit = u
    BY <1>2, <2>2 DEF PollSelect, Worker
  <2>4. p' \in Worker /\ (p'.pc # "idle" => p'.unit # None)
    BY <1>0, <2>3
  <2> QED
    BY <1>2, <2>1, <2>4 DEF PollSelect, TypeOK, SessionsTyped, server, WellFormed
<1>3. CASE PollClaim \/ PollMark
  <2>1. \/ UNCHANGED <<server, session>>
        \/ \E r \in Present : Write(First, p.unit, r)
    BY <1>0, <1>3, MarkedTyped DEF PollClaim, PollMark, ClaimHasRow, HasRow, Status, TypeOK
  <2>2. SessionsTyped' /\ UNCHANGED server
    BY <1>0, <1>3, <2>1, WriteTyped DEF PollClaim, PollMark, TypeOK, SessionsTyped, session, server
  <2>3. p' \in Worker /\ p'.unit = p.unit /\ p.unit # None
    BY <1>0, <1>3 DEF PollClaim, PollMark, Worker
  <2> QED
    BY <1>3, <2>2, <2>3 DEF PollClaim, PollMark, TypeOK, SessionsTyped, server, WellFormed
<1>4. ASSUME NEW from \in {"claimed", "finished"}, NEW to \in {"finish", "idle"},
             PollCommit(from, to)
      PROVE  Typed'
  <2>1. SessionsTyped' /\ stored' \in Rows /\ up' = up
    BY <1>4, CommitTyped DEF PollCommit
  <2>2. p' \in Worker /\ (p'.pc # "idle" => p'.unit # None)
    BY <1>0, <1>4 DEF PollCommit, AtRest, Worker
  <2> QED
    BY <1>4, <2>1, <2>2 DEF PollCommit, TypeOK, SessionsTyped, WellFormed
<1>5. CASE PollLockTimeout
  BY <1>5 DEF PollLockTimeout, AtRest, Worker, TypeOK, server, session, WellFormed
<1> QED
  BY <1>1, <1>2, <1>3, <1>4, <1>5 DEF PollStep

LEMMA TypeStep ==
  ASSUME Typed, ClaimHasRow, [Next]_vars
  PROVE  Typed'
<1> USE DEF Typed
<1>1. CASE UNCHANGED vars
  BY <1>1 DEF vars, server, session, TypeOK, WellFormed
<1>2. ASSUME NEW t \in Thread, RequestStep(t) \/ Arrive(t)
      PROVE  Typed'
  BY <1>2, GettingTyped, UsingTyped DEF RequestStep
<1>3. CASE PollStep
  BY <1>3, PollTyped
<1>4. CASE Up
  BY <1>4 DEF Up, TypeOK, session, WellFormed
<1>5. ASSUME NEW d \in SUBSET Adapter, Cut(d), UNCHANGED <<stored, cached, req>>,
             up' \in BOOLEAN
      PROVE  Typed'
  <2>1. SessionsTyped'
    BY <1>5, EndTyped DEF Cut
  <2>2. cut' \in SUBSET Thread
    BY <1>5 DEF Cut, Users, TypeOK
  <2>3. p' \in Worker /\ p'.pc = p.pc /\ p'.unit = p.unit
    BY <1>5 DEF Cut, Loss, Loses, TypeOK, Worker
  <2> QED
    BY <1>5, <2>1, <2>2, <2>3 DEF TypeOK, SessionsTyped, WellFormed
<1>6. CASE Fault
  BY <1>5, <1>6 DEF Fault, Down, Drop, server, TypeOK
<1> QED
  BY <1>1, <1>2, <1>3, <1>4, <1>6 DEF Next

-----------------------------------------------------------------------------
(* What a step of a session does to what every session sees.               *)

Grows == \A u \in Unit : stored[u] # Absent => stored'[u] # Absent

Keeps(a) ==
  /\ Live(a) => Live(a)'
  /\ \A u \in Unit : HasRow(a, u) => HasRow(a, u)'

LEMMA IdleRows ==
  ASSUME ConnInv, UNCHANGED <<stored, session>>
  PROVE  RowsOK' /\ Grows /\ \A a \in Adapter : Keeps(a)
BY DEF session, ConnInv, RowsOK, SnapshotsAreOld, EndedHoldsNothing, Grows, Keeps,
       Live, HasRow, Current, Over

LEMMA EndRows ==
  ASSUME ConnInv, NEW d, NEW how, End(d, how), stored' = stored
  PROVE  RowsOK' /\ Grows /\ \A a \in Adapter : a \notin d \/ ~Live(a) => Keeps(a)
<1>1. \A a \in Adapter :
        /\ wrote'[a] = IF a \in d THEN Unwritten ELSE wrote[a]
        /\ link'[a] = IF a \in d THEN how ELSE link[a]
        /\ snap'[a] = IF a \in d THEN Fresh ELSE snap[a]
  BY DEF End
<1>2. RowsOK' /\ Grows
  BY <1>1 DEF ConnInv, RowsOK, SnapshotsAreOld, EndedHoldsNothing, Grows, Live, Fresh
<1>3. ASSUME NEW a \in Adapter, a \notin d \/ ~Live(a)
      PROVE  Keeps(a)
  <2>1. wrote'[a] = wrote[a]
    BY <1>1, <1>3 DEF ConnInv, RowsOK, EndedHoldsNothing
  <2> QED
    BY <1>1, <1>3, <2>1 DEF Keeps, HasRow, Current, Over, Live
<1> QED
  BY <1>2, <1>3

LEMMA RaisesRows ==
  ASSUME ConnInv, NEW b \in Adapter, Raises(b)
  PROVE  RowsOK' /\ Grows /\ \A a \in Adapter : Keeps(a)
<1>1. stored' = stored /\ wrote' = wrote /\ snap' = snap
  BY DEF Raises, server
<1>2. \A a \in Adapter : Live(a)' = Live(a)
  BY DEF Raises, Live, ConnInv, Typed, TypeOK
<1>3. RowsOK' /\ Grows
  BY <1>1, <1>2 DEF ConnInv, RowsOK, SnapshotsAreOld, EndedHoldsNothing, Grows
<1> QED
  BY <1>1, <1>2, <1>3 DEF Keeps, HasRow, Current, Over

LEMMA ReadRows ==
  ASSUME ConnInv, NEW b \in Adapter, Read(b)
  PROVE  RowsOK' /\ Grows /\ \A a \in Adapter : Keeps(a)
<1>1. stored' = stored /\ wrote' = wrote /\ link' = link
  BY DEF Read, server
<1>2. \A a \in Adapter : snap'[a] = snap[a] \/ snap'[a].rows = stored
  BY DEF Read, Taken, ConnInv, Typed, TypeOK
<1>3. RowsOK'
  BY <1>1, <1>2 DEF ConnInv, RowsOK, SnapshotsAreOld, EndedHoldsNothing, Live
<1>4. QED
  BY <1>1, <1>3 DEF Grows, Keeps, Live, HasRow, Current, Over

LEMMA WriteEffect ==
  ASSUME TypeOK, NEW b \in Adapter, NEW v \in Unit, NEW r \in Present, Write(b, v, r)
  PROVE  /\ stored' = stored /\ snap' = snap /\ link' = link
         /\ \A a \in Adapter, u \in Unit :
              /\ wrote'[a][u] = IF a = b /\ u = v THEN r ELSE wrote[a][u]
              /\ Current(a)'[u] = IF a = b /\ u = v THEN r ELSE Current(a)[u]
<1>1. stored' = stored /\ snap' = snap /\ link' = link
  BY DEF Write, server
<1>2. \A a \in Adapter, u \in Unit :
        wrote'[a][u] = IF a = b /\ u = v THEN r ELSE wrote[a][u]
  BY DEF Write, TypeOK, Writes
<1> QED
  BY <1>1, <1>2, RowFacts DEF Current, Over

LEMMA WriteRows ==
  ASSUME ConnInv, NEW b \in Adapter, NEW v \in Unit, NEW r \in Present, Write(b, v, r), Live(b)
  PROVE  /\ RowsOK' /\ Grows /\ \A a \in Adapter : Keeps(a)
         /\ HasRow(b, v)'
<1> USE DEF ConnInv, Typed
<1>1. stored' = stored /\ snap' = snap /\ link' = link
  BY WriteEffect
<1>2. \A a \in Adapter \ {b} : wrote'[a] = wrote[a]
  BY DEF Write, TypeOK
<1>3. RowsOK'
  BY <1>1, <1>2 DEF RowsOK, SnapshotsAreOld, EndedHoldsNothing, Live
<1>4. \A a \in Adapter, u \in Unit :
        Current(a)'[u] = IF a = b /\ u = v THEN r ELSE Current(a)[u]
  BY WriteEffect
<1>5. QED
  BY <1>1, <1>3, <1>4, RowFacts DEF Grows, Keeps, Live, HasRow

LEMMA CommitEffect ==
  ASSUME TypeOK, NEW b \in Adapter, CommitOn(b)
  PROVE  /\ link' = link
         /\ \A u \in Unit :
              stored'[u] = IF wrote[b][u] = NoWrite THEN stored[u] ELSE wrote[b][u]
         /\ \A a \in Adapter :
              /\ wrote'[a] = IF a = b THEN Unwritten ELSE wrote[a]
              /\ snap'[a] = IF a = b THEN Fresh ELSE snap[a]
BY DEF CommitOn, Current, Over, TypeOK

LEMMA CommitRows ==
  ASSUME ConnInv, NEW b \in Adapter, CommitOn(b)
  PROVE  /\ RowsOK' /\ Grows /\ \A a \in Adapter : Keeps(a)
         /\ \A u \in Unit : HasRow(b, u) => stored'[u] # Absent
<1> USE DEF ConnInv, Typed
<1>1. stored' = Current(b) /\ link' = link
  BY DEF CommitOn
<1>2. \A a \in Adapter :
        /\ wrote'[a] = IF a = b THEN Unwritten ELSE wrote[a]
        /\ snap'[a] = IF a = b THEN Fresh ELSE snap[a]
  BY CommitEffect
<1>3. \A a \in Adapter, u \in Unit : wrote[a][u] # Absent
  BY RowFacts DEF TypeOK, Writes
<1>4. Grows
  BY <1>3, CommitEffect DEF Grows
<1>5. RowsOK'
  BY <1>1, <1>2, <1>4 DEF RowsOK, SnapshotsAreOld, EndedHoldsNothing, Grows, Live, Fresh
<1>6. ASSUME NEW a \in Adapter, NEW u \in Unit, HasRow(a, u)
      PROVE  HasRow(a, u)'
  <2>1. CASE a = b
    BY <1>1, <1>2, <1>6, <2>1 DEF HasRow, Current, Over, Unwritten
  <2>2. CASE a # b
    BY <1>2, <1>4, <1>6, <2>2 DEF HasRow, Current, Over, Grows
  <2> QED
    BY <2>1, <2>2
<1> QED
  BY <1>1, <1>4, <1>5, <1>6 DEF HasRow, Keeps, Live

(* A snapshot never shows a row that is not there.                         *)
LEMMA SeenIsThere ==
  ASSUME ConnInv, NEW a \in Adapter, NEW u \in Unit, Seen(a)[u] # Absent
  PROVE  HasRow(a, u)
BY DEF ConnInv, Typed, TypeOK, RowsOK, SnapshotsAreOld, Seen, HasRow, Current, Over, Rows

-----------------------------------------------------------------------------
(* Threads.                                                                *)

LEMMA ThreadKept ==
  ASSUME ConnInv, NEW t \in Thread, req'[t] = req[t], t \in cut => t \in cut', Grows,
         t \in cut' \/ (req[t].pc \in Deciding => Keeps(req[t].conn))
  PROVE  ThreadOK(t)'
<1>1. CASE t \in cut'
  BY <1>1 DEF ThreadOK
<1>2. CASE t \notin cut'
  <2>1. /\ req[t].pc \in Deciding => Live(req[t].conn) /\ Keeps(req[t].conn)
        /\ req[t].pc \in {"update", "commit"} => HasRow(req[t].conn, req[t].unit)
        /\ req[t].pc = "accepted" => stored[req[t].unit] # Absent
    BY <1>2 DEF ConnInv, ThreadOK
  <2>2. /\ req[t].pc \in Deciding \cup {"accepted"} => req[t].unit \in Unit
        /\ req[t].pc \in Deciding => req[t].conn \in Adapter
    BY DEF ConnInv, Typed, TypeOK, WellFormed, Request, Using
  <2>3. ASSUME req[t].pc \in Deciding
        PROVE  Live(req[t].conn)'
    <3>1. PICK a \in Adapter : a = req[t].conn
      BY <2>2, <2>3
    <3>2. Live(a)'
      BY <2>1, <2>3, <3>1 DEF Keeps
    <3>3. QED
      BY <3>1, <3>2
  <2>4. ASSUME req[t].pc \in {"update", "commit"}
        PROVE  HasRow(req[t].conn, req[t].unit)'
    <3>1. PICK a \in Adapter, u \in Unit : a = req[t].conn /\ u = req[t].unit
      BY <2>2, <2>4 DEF Deciding
    <3>2. HasRow(a, u)'
      BY <2>1, <2>4, <3>1 DEF Keeps, Deciding
    <3>3. QED
      BY <3>1, <3>2
  <2>5. req[t].pc = "accepted" => stored'[req[t].unit] # Absent
    BY <2>1, <2>2 DEF Grows
  <2>6. QED
    BY <2>3, <2>4, <2>5 DEF ThreadOK
<1>3. QED
  BY <1>1, <1>2

(* A step of thread t leaves the others alone.                             *)
LEMMA OthersKept ==
  ASSUME ConnInv, NEW t \in Thread,
         \A s \in Thread \ {t} : req'[s] = req[s] /\ (s \in cut => s \in cut'),
         Grows, \A a \in Adapter : Keeps(a)
  PROVE  \A s \in Thread \ {t} : ThreadOK(s)'
<1>1. ASSUME NEW s \in Thread \ {t}
      PROVE  ThreadOK(s)'
  <2>1. req[s].pc \in Deciding => req[s].conn \in Adapter
    BY DEF ConnInv, Typed, TypeOK, WellFormed, Request, Using
  <2>2. QED
    BY <2>1, ThreadKept
<1>2. QED
  BY <1>1

(* The poller's steps move no request.                                     *)
LEMMA PollerKept ==
  ASSUME ConnInv, UNCHANGED <<req, cut>>, Grows, \A a \in Adapter : Keeps(a)
  PROVE  \A s \in Thread : ThreadOK(s)'
<1>1. ASSUME NEW s \in Thread
      PROVE  ThreadOK(s)'
  <2>1. req[s].pc \in Deciding => req[s].conn \in Adapter
    BY DEF ConnInv, Typed, TypeOK, WellFormed, Request, Using
  <2>2. QED
    BY <2>1, ThreadKept
<1>2. QED
  BY <1>1

Safe == RowsOK' /\ Keeps(First) /\ \A s \in Thread : ThreadOK(s)'

(* A thread that neither decides nor is answered "accepted" owes nothing.  *)
LEMMA FreeStep ==
  ASSUME ConnInv, NEW t \in Thread, RowsOK', Grows, \A a \in Adapter : Keeps(a),
         \A s \in Thread \ {t} : req'[s] = req[s],
         req'[t].pc \notin Deciding \cup {"accepted"},
         cut' \in {cut, cut \ {t}}
  PROVE  Safe
<1>1. \A s \in Thread \ {t} : ThreadOK(s)'
  BY OthersKept
<1>2. ThreadOK(t)'
  BY DEF ThreadOK, Deciding
<1>3. QED
  BY <1>1, <1>2, FirstAssumption DEF Safe

LEMMA RefuseMoves ==
  ASSUME req \in [Thread -> Request], NEW t \in Thread, Refuse(t)
  PROVE  /\ \A s \in Thread \ {t} : req'[s] = req[s]
         /\ req'[t].pc \notin Deciding \cup {"accepted"}
         /\ cut' = cut \ {t}
BY DEF Refuse, NoRequest, Deciding

LEMMA GettingKept ==
  ASSUME ConnInv, NEW t \in Thread,
         Arrive(t) \/ Bind(t) \/ Ping(t) \/ Clear(t) \/ Open(t) \/ Return(t)
  PROVE  Safe
<1> USE DEF ConnInv, Typed
<1>0. req \in [Thread -> Request]
  BY DEF TypeOK
<1>1. /\ \A s \in Thread \ {t} : req'[s] = req[s]
      /\ req'[t].pc \notin Deciding \cup {"accepted"}
      /\ cut' \in {cut, cut \ {t}}
  <2>1. CASE Arrive(t)
    BY <1>0, <2>1 DEF Arrive, NoRequest, Deciding
  <2>2. CASE Refuse(t)
    BY <1>0, <2>2, RefuseMoves
  <2>3. CASE /\ cut' = cut
             /\ \E pc \in Getting \cup {"select"} : (\E a : GotoOn(t, pc, a)) \/ Goto(t, pc)
    BY <1>0, <2>3, Moves DEF Getting, Deciding
  <2> QED
    BY <2>1, <2>2, <2>3 DEF Bind, Ping, Clear, Open, Return, Getting
<1>2. CASE UNCHANGED <<stored, session>>
  BY <1>1, <1>2, IdleRows, FreeStep
<1>3. CASE Ping(t) /\ ~Live(req[t].conn)
  <2>1. PICK how \in {"live", "closed"} : End({req[t].conn}, how)
    BY <1>3 DEF Ping
  <2>2. stored' = stored
    BY <1>3 DEF Ping, server
  <2>3. RowsOK' /\ Grows /\ \A b \in Adapter : Keeps(b)
    BY <1>3, <2>1, <2>2, EndRows
  <2> QED
    BY <1>1, <2>3, FreeStep
<1>4. CASE Open(t) /\ \E a \in Adapter \ Referenced : End({a}, "live")
  <2>1. PICK a \in Adapter \ Referenced : End({a}, "live")
    BY <1>4
  <2>2. stored' = stored /\ a # First
    BY <1>4, <2>1 DEF Open, server, Referenced
  <2>3. RowsOK' /\ Grows /\ \A b \in Adapter \ {a} : Keeps(b)
    BY <2>1, <2>2, EndRows
  <2>4. ASSUME NEW s \in Thread \ {t}
        PROVE  ThreadOK(s)'
    <3>1. req[s].conn # a
      BY <2>1 DEF Referenced
    <3>2. req[s].pc \in Deciding => req[s].conn \in Adapter
      BY DEF TypeOK, WellFormed, Request, Using
    <3>3. QED
      BY <1>1, <2>2, <2>3, <3>1, <3>2, ThreadKept
  <2>5. ThreadOK(t)'
    BY <1>1 DEF ThreadOK, Deciding
  <2> QED
    BY <2>2, <2>3, <2>4, <2>5, FirstAssumption DEF Safe
<1> QED
  BY <1>2, <1>3, <1>4 DEF Arrive, Bind, Ping, Clear, Open, Return, server

LEMMA UsingKept ==
  ASSUME ConnInv, NEW t \in Thread,
         \/ Broken(t) \/ Stats(t) \/ Insert(t) \/ Update(t) \/ Commit(t)
         \/ \E u \in Unit, c \in Text : Select(t, u, c)
  PROVE  Safe
<1> USE FirstAssumption DEF ConnInv, Typed
<1>0. req \in [Thread -> Request] /\ req[t] \in Request /\ req[t].conn \in Adapter
  BY NoneAssumption
     DEF TypeOK, WellFormed, Request, Using, Deciding, Broken, Stats, Select, Insert, Update,
         Commit
<1>1. PICK a \in Adapter : a = req[t].conn
  BY <1>0
<1>2. CASE Broken(t) \/ Stats(t)
  <2>1. RowsOK' /\ Grows /\ \A b \in Adapter : Keeps(b)
    BY <1>1, <1>2, RaisesRows, ReadRows DEF Broken, Stats
  <2> QED
    BY <1>0, <1>2, <2>1, RefuseMoves, FreeStep DEF Broken, Stats
<1>3. ASSUME NEW u \in Unit, NEW c \in Text, Select(t, u, c)
      PROVE  Safe
  <2>1. RowsOK' /\ Grows /\ \A b \in Adapter : Keeps(b)
    BY <1>1, <1>3, ReadRows DEF Select
  <2>2. /\ \A s \in Thread \ {t} : req'[s] = req[s]
        /\ req'[t].conn = a /\ req'[t].unit = u /\ req'[t].pc \in Deciding
        /\ req'[t].pc # "insert" => Seen(a)[u] # Absent
        /\ cut' = cut
    BY <1>0, <1>1, <1>3 DEF Select, Deciding
  <2>3. Live(a)'
    BY <1>1, <1>3, <2>1 DEF Select, Keeps
  <2>4. req'[t].pc # "insert" => HasRow(a, u)'
    BY <2>1, <2>2, SeenIsThere DEF Keeps
  <2>5. ThreadOK(t)'
    BY <2>2, <2>3, <2>4 DEF ThreadOK, Deciding
  <2>6. QED
    BY <2>1, <2>2, <2>5, OthersKept DEF Safe
<1>4. CASE Insert(t) \/ Update(t)
  <2> DEFINE new == [status |-> "pending", text |-> req[t].text]
  <2>1. PICK u \in Unit : u = req[t].unit
    BY <1>0, <1>4, NoneAssumption DEF Insert, Update, WellFormed, Request, Deciding
  <2>2. new \in Present
    BY <1>0, <1>4, NewRow, NoneAssumption
       DEF Insert, Update, WellFormed, Request, Status, Deciding
  <2>3. ToCommit(t) =>
          /\ \A s \in Thread \ {t} : req'[s] = req[s]
          /\ req'[t].conn = a /\ req'[t].unit = u /\ req'[t].pc = "commit"
    BY <1>0, <1>1, <2>1, Moves
  <2>4. CASE Write(a, u, new) /\ ToCommit(t)
    <3>1. RowsOK' /\ Grows /\ (\A b \in Adapter : Keeps(b)) /\ HasRow(a, u)'
      BY <1>1, <1>4, <2>2, <2>4, WriteRows DEF Insert, Update
    <3>2. Live(a)' /\ cut' = cut
      BY <1>0, <1>1, <1>4, <2>3, <2>4, <3>1
         DEF Insert, Update, Keeps, Refuse, NoRequest
    <3>3. ThreadOK(t)'
      BY <2>3, <2>4, <3>1, <3>2 DEF ThreadOK
    <3> QED
      BY <2>3, <2>4, <3>1, <3>2, <3>3, OthersKept DEF Safe
  <2>5. CASE /\ Current(a)[u] = Absent /\ ToCommit(t) /\ req[t].pc = "update"
             /\ UNCHANGED <<server, session, p, cut>>
    <3>1. RowsOK' /\ Grows /\ \A b \in Adapter : Keeps(b)
      BY <2>5, IdleRows DEF server
    <3>2. t \in cut'
      BY <1>1, <2>1, <2>5 DEF ThreadOK, HasRow
    <3> QED
      BY <2>3, <2>5, <3>1, <3>2, OthersKept DEF Safe, ThreadOK
  <2>6. CASE Refuse(t) /\ UNCHANGED <<server, session>>
    <3>1. RowsOK' /\ Grows /\ \A b \in Adapter : Keeps(b)
      BY <2>6, IdleRows DEF server
    <3> QED
      BY <1>0, <2>6, <3>1, RefuseMoves, FreeStep
  <2> QED
    BY <1>1, <1>4, <2>1, <2>4, <2>5, <2>6 DEF Insert, Update
<1>5. CASE Commit(t)
  <2>1. PICK u \in Unit : u = req[t].unit
    BY <1>0, <1>5, NoneAssumption DEF Commit, WellFormed, Request, Deciding
  <2>2. /\ RowsOK' /\ Grows /\ \A b \in Adapter : Keeps(b)
        /\ HasRow(a, u) => stored'[u] # Absent
    BY <1>1, <1>5, CommitRows DEF Commit
  <2>3. /\ \A s \in Thread \ {t} : req'[s] = req[s]
        /\ req'[t].unit = u /\ req'[t].pc = "accepted" /\ cut' = cut
    BY <1>0, <1>5, <2>1, Moves DEF Commit
  <2>4. t \in cut \/ HasRow(a, u)
    BY <1>1, <1>5, <2>1 DEF Commit, ThreadOK
  <2>5. ThreadOK(t)'
    BY <2>2, <2>3, <2>4 DEF ThreadOK, Deciding
  <2>6. QED
    BY <2>2, <2>3, <2>5, OthersKept DEF Safe
<1>6. QED
  BY <1>2, <1>3, <1>4, <1>5

(* Sessions end: who used one is in cut, and the poller knows its row.     *)
LEMMA CutKept ==
  ASSUME ConnInv, NEW d \in SUBSET Adapter, Cut(d), stored' = stored, req' = req
  PROVE  RowsOK' /\ ClaimHasRow' /\ \A s \in Thread : ThreadOK(s)'
<1> USE FirstAssumption DEF ConnInv, Typed
<1>1. End(d, "lost") /\ cut' = cut \cup Users(d) /\ p' = Loss(d)
  BY DEF Cut
<1>2. RowsOK' /\ Grows /\ \A a \in Adapter \ d : Keeps(a)
  BY <1>1, EndRows
<1>3. ASSUME NEW s \in Thread
      PROVE  ThreadOK(s)'
  <2>1. req[s].pc \in Deciding => req[s].conn \in Adapter
    BY DEF TypeOK, WellFormed, Request, Using
  <2>2. s \in cut' \/ (req[s].pc \in Deciding => Keeps(req[s].conn))
    BY <1>1, <1>2, <2>1 DEF Users
  <2>3. QED
    BY <1>1, <1>2, <2>2, ThreadKept
<1>4. ASSUME p'.pc = "claim", p'.row # "gone"
      PROVE  HasRow(First, p.unit)'
  <2>0. /\ p' \in {p, Loses("gone"), Loses("changed")}
        /\ p.row = "gone" => p' = p
        /\ First \in d /\ p.row # "gone" /\ p.pc = "claim" /\ wrote[First][p.unit] # NoWrite
             /\ stored[p.unit] = Absent => p' = Loses("gone")
    BY <1>1 DEF Loss
  <2>1. p.pc = "claim" /\ p'.unit = p.unit /\ p.row # "gone" /\ p.unit \in Unit
    BY <1>4, <2>0 DEF Loses, TypeOK, WellFormed, Worker
  <2>2. HasRow(First, p.unit)
    BY <2>1 DEF ClaimHasRow
  <2>3. CASE First \notin d
    BY <1>2, <2>1, <2>2, <2>3 DEF Keeps
  <2>4. CASE First \in d
    <3>1. stored[p.unit] # Absent
      BY <1>4, <2>0, <2>1, <2>2, <2>4 DEF Loses, HasRow, Current, Over, TypeOK, Worker
    <3>2. wrote'[First] = Unwritten
      BY <1>1, <2>4 DEF End
    <3> QED
      BY <2>1, <3>1, <3>2 DEF HasRow, Current, Over, Unwritten
  <2> QED
    BY <2>3, <2>4
<1> QED
  BY <1>2, <1>3, <1>4 DEF ClaimHasRow

LEMMA ClaimKept ==
  ASSUME ConnInv, Keeps(First), p'.pc = p.pc, p'.unit = p.unit,
         p.row = "gone" => p'.row = "gone"
  PROVE  ClaimHasRow'
<1>1. p.pc = "claim" => p.unit \in Unit
  BY DEF ConnInv, Typed, TypeOK, WellFormed, Worker
<1> QED
  BY <1>1 DEF ConnInv, ClaimHasRow, Keeps

LEMMA RequestSteps ==
  ASSUME ConnInv, NEW t \in Thread, RequestStep(t) \/ Arrive(t)
  PROVE  RowsOK' /\ ClaimHasRow' /\ \A s \in Thread : ThreadOK(s)'
<1>1. Safe
  BY GettingKept, UsingKept DEF RequestStep
<1>2. p' \in {p, Loses("changed")} /\ (p' # p => p.row = "kept")
  <2>1. CASE Update(t)
    BY <2>1 DEF Update
  <2>2. CASE ~Update(t)
    BY <2>2 DEF RequestStep, Arrive, Bind, Ping, Clear, Open, Return, Broken, Stats, Select,
                Insert, Commit
  <2> QED
    BY <2>1, <2>2
<1>3. /\ p'.pc = p.pc /\ p'.unit = p.unit
      /\ p.row = "gone" => p'.row = "gone"
  BY <1>2 DEF Loses, ConnInv, Typed, TypeOK, Worker
<1> QED
  BY <1>1, <1>3, ClaimKept DEF Safe

LEMMA PollSteps ==
  ASSUME ConnInv, PollStep
  PROVE  RowsOK' /\ ClaimHasRow' /\ \A s \in Thread : ThreadOK(s)'
<1> USE FirstAssumption DEF ConnInv, Typed
<1>0. p \in Worker /\ (p.pc # "idle" => p.unit \in Unit)
  BY DEF TypeOK, WellFormed, Worker
<1> DEFINE Kept == RowsOK' /\ Grows /\ \A a \in Adapter : Keeps(a)
<1>1. Kept /\ UNCHANGED <<req, cut>> => RowsOK' /\ \A s \in Thread : ThreadOK(s)'
  BY PollerKept
<1>2. CASE PollBroken
  BY <1>1, <1>2, RaisesRows DEF PollBroken, AtRest, ClaimHasRow
<1>3. CASE PollSelect
  <2>1. Kept
    BY <1>3, ReadRows DEF PollSelect
  <2>2. p' = p \/ \E u \in Unit : Seen(First)[u].status = "pending" /\ p'.unit = u
    BY <1>3 DEF PollSelect
  <2>3. ASSUME NEW u \in Unit, Seen(First)[u].status = "pending"
        PROVE  HasRow(First, u)'
    BY <2>1, <2>3, SeenIsThere DEF Absent, Keeps
  <2>4. ClaimHasRow'
    BY <1>0, <2>1, <2>2, <2>3, ClaimKept DEF ClaimHasRow
  <2> QED
    BY <1>1, <1>3, <2>1, <2>4 DEF PollSelect
<1>4. CASE PollClaim \/ PollMark
  <2>1. \/ UNCHANGED <<server, session>>
        \/ \E r \in Present : Write(First, p.unit, r)
    BY <1>0, <1>4, MarkedTyped DEF PollClaim, PollMark, ClaimHasRow, HasRow, Status
  <2>2. Kept
    BY <1>0, <1>4, <2>1, IdleRows, WriteRows DEF PollClaim, PollMark, server
  <2>3. p'.pc # "claim"
    BY <1>0, <1>4 DEF PollClaim, PollMark, Worker
  <2> QED
    BY <1>1, <1>4, <2>2, <2>3 DEF PollClaim, PollMark, ClaimHasRow
<1>5. ASSUME NEW from, NEW to \in {"finish", "idle"}, PollCommit(from, to)
      PROVE  RowsOK' /\ ClaimHasRow' /\ \A s \in Thread : ThreadOK(s)'
  <2>1. Kept
    BY <1>5, CommitRows DEF PollCommit
  <2>2. p'.pc # "claim"
    BY <1>0, <1>5 DEF PollCommit, AtRest, Worker
  <2> QED
    BY <1>1, <1>5, <2>1, <2>2 DEF PollCommit, ClaimHasRow
<1>6. CASE PollLockTimeout
  BY <1>1, <1>6, IdleRows DEF PollLockTimeout, server, AtRest, ClaimHasRow
<1> QED
  BY <1>2, <1>3, <1>4, <1>5, <1>6 DEF PollStep

LEMMA ConnStep ==
  ASSUME ConnInv, [Next]_vars
  PROVE  ConnInv'
<1>0. Typed'
  BY TypeStep DEF ConnInv
<1> SUFFICES RowsOK' /\ ClaimHasRow' /\ \A s \in Thread : ThreadOK(s)'
  BY <1>0 DEF ConnInv
<1>1. CASE UNCHANGED vars \/ Up
  BY <1>1, IdleRows, PollerKept, ClaimKept, FirstAssumption DEF vars, server, session, Up
<1>2. ASSUME NEW t \in Thread, RequestStep(t) \/ Arrive(t)
      PROVE  RowsOK' /\ ClaimHasRow' /\ \A s \in Thread : ThreadOK(s)'
  BY <1>2, RequestSteps
<1>3. CASE PollStep
  BY <1>3, PollSteps
<1>4. CASE Down
  BY <1>4, CutKept DEF Down
<1>5. ASSUME NEW a \in Adapter, Drop(a)
      PROVE  RowsOK' /\ ClaimHasRow' /\ \A s \in Thread : ThreadOK(s)'
  BY <1>5, CutKept DEF Drop, server
<1>6. QED
  BY <1>1, <1>2, <1>3, <1>4, <1>5 DEF Next, Fault

LEMMA ConnInit == Init => ConnInv
<1> SUFFICES ASSUME Init PROVE ConnInv
  OBVIOUS
<1> USE FirstAssumption, NoneAssumption DEF Init
<1>1. TypeOK
  BY DEF TypeOK, Rows, Writes, Unwritten, NoRows, Fresh, Request, Resting, NoRequest, Worker,
         AtRest
<1>2. WellFormed
  BY DEF WellFormed, Using, Deciding, NoRequest, AtRest
<1>3. RowsOK
  BY DEF RowsOK, SnapshotsAreOld, EndedHoldsNothing, Fresh
<1>4. ClaimHasRow /\ \A t \in Thread : ThreadOK(t)
  BY DEF ClaimHasRow, AtRest, ThreadOK, NoRequest, Deciding
<1>5. QED
  BY <1>1, <1>2, <1>3, <1>4 DEF ConnInv, Typed

-----------------------------------------------------------------------------
(* Every variable of SharedConnection has its type.                        *)
THEOREM ConnectionTypeCorrect == Spec => []TypeOK
<1>1. ConnInv => TypeOK
  BY DEF ConnInv, Typed
<1>2. QED
  BY <1>1, ConnInit, ConnStep, PTL DEF Spec

(* However many threads share a connection, and however often sessions     *)
(* end, are replaced, or multiply: a request that is answered "accepted"   *)
(* has a row for its unit in the table for good, unless the session it     *)
(* used ended between its SELECT and its commit.                           *)
THEOREM AcceptedIsCommitted == Spec => []AcceptedUnlessCut
<1>1. ConnInv => AcceptedUnlessCut
  BY DEF ConnInv, ThreadOK, AcceptedUnlessCut
<1>2. QED
  BY <1>1, ConnInit, ConnStep, PTL DEF Spec

-----------------------------------------------------------------------------
(* The row in the poller's hands.  ClaimIsCommitted looks at the table     *)
(* only; what makes it hold is the row as the poller's session sees it,    *)
(* committed or not, and that no other session has it.                     *)

InHand ==
  /\ p.pc # "idle" /\ p.row = "kept" =>
       /\ Unlocked(First, p.unit)
       /\ Current(First)[p.unit].text = p.text
       /\ p.pc = "claim" => Current(First)[p.unit].status = "pending"
       /\ p.pc = "claimed" => Current(First)[p.unit].status = "processing"
       /\ p.pc \in {"finish", "finished"} =>
            Current(First)[p.unit].status \in {"processing", "processed"}
  /\ ClaimIsCommitted

WorkInv == ConnInv /\ InHand

(* A session's step that leaves the row to the poller.                     *)
HandKept(u) ==
  Unlocked(First, u) =>
    /\ Unlocked(First, u)'
    /\ Current(First)'[u] = Current(First)[u]
    /\ stored'[u] \in {stored[u], Current(First)[u]}

LEMMA KeptInHand ==
  ASSUME WorkInv, p.pc # "idle" /\ p.row = "kept" => HandKept(p.unit), p' = p
  PROVE  InHand'
BY DEF WorkInv, InHand, HandKept, ClaimIsCommitted

LEMMA KeptHasRow ==
  ASSUME WorkInv, p.pc # "idle", p.row = "kept"
  PROVE  /\ p.unit \in Unit
         /\ Unlocked(First, p.unit)
         /\ HasRow(First, p.unit)
<1>1. p \in Worker /\ p.unit \in Unit
  BY DEF WorkInv, ConnInv, Typed, TypeOK, WellFormed, Worker
<1>2. Current(First)[p.unit].status # "absent"
  BY <1>1 DEF WorkInv, InHand, Worker
<1> QED
  BY <1>1, <1>2 DEF WorkInv, InHand, HasRow, Absent

LEMMA NotKeptInHand ==
  ASSUME p'.pc = "idle" \/ p'.row # "kept"
  PROVE  InHand'
BY DEF InHand, ClaimIsCommitted

LEMMA QuietHand ==
  ASSUME UNCHANGED <<stored, wrote>>, NEW u \in Unit
  PROVE  HandKept(u)
BY DEF HandKept, Unlocked, Current, Over

LEMMA EndHand ==
  ASSUME WorkInv, NEW d, NEW how, End(d, how), stored' = stored, NEW u \in Unit,
         First \notin d \/ ~Live(First)
  PROVE  HandKept(u)
<1>1. \A a \in Adapter : wrote'[a] = IF a \in d THEN Unwritten ELSE wrote[a]
  BY DEF End
<1>2. wrote'[First] = wrote[First]
  BY <1>1, FirstAssumption DEF WorkInv, ConnInv, RowsOK, EndedHoldsNothing
<1>3. Unlocked(First, u) => Unlocked(First, u)'
  BY <1>1 DEF Unlocked, Unwritten
<1> QED
  BY <1>2, <1>3 DEF HandKept, Current, Over

LEMMA WriteHand ==
  ASSUME WorkInv, NEW b \in Adapter, NEW v \in Unit, NEW r \in Present, Write(b, v, r),
         NEW u \in Unit, u # v
  PROVE  HandKept(u)
<1>1. /\ stored' = stored
      /\ \A a \in Adapter : wrote'[a][u] = wrote[a][u]
      /\ Current(First)'[u] = Current(First)[u]
  BY WriteEffect, FirstAssumption DEF WorkInv, ConnInv, Typed
<1> QED
  BY <1>1 DEF HandKept, Unlocked

LEMMA CommitHand ==
  ASSUME WorkInv, NEW b \in Adapter, CommitOn(b), NEW u \in Unit
  PROVE  HandKept(u)
<1> USE FirstAssumption
<1>1. /\ stored'[u] = IF wrote[b][u] = NoWrite THEN stored[u] ELSE wrote[b][u]
      /\ \A a \in Adapter : wrote'[a] = IF a = b THEN Unwritten ELSE wrote[a]
  BY CommitEffect DEF WorkInv, ConnInv, Typed
<1>2. Unlocked(First, u) => Unlocked(First, u)'
  BY <1>1 DEF Unlocked, Unwritten
<1>3. CASE b = First
  <2>1. stored'[u] = Current(First)[u]
    BY <1>1, <1>3 DEF Current, Over
  <2>2. wrote'[First][u] = NoWrite
    BY <1>1, <1>3 DEF Unwritten
  <2>3. Current(First)'[u] = stored'[u]
    BY <2>2 DEF Current, Over
  <2> QED
    BY <1>2, <2>1, <2>3 DEF HandKept
<1>4. CASE b # First
  <2>1. Unlocked(First, u) => stored'[u] = stored[u]
    BY <1>1, <1>4 DEF Unlocked
  <2>2. wrote'[First] = wrote[First]
    BY <1>1, <1>4
  <2> QED
    BY <1>2, <2>1, <2>2 DEF HandKept, Current, Over
<1> QED
  BY <1>3, <1>4

-----------------------------------------------------------------------------
(* A request's step either leaves the row alone or is an UPDATE of it, of  *)
(* which the poller's record knows.                                        *)
LEMMA RequestHand ==
  ASSUME WorkInv, NEW t \in Thread, RequestStep(t) \/ Arrive(t)
  PROVE  InHand'
<1> USE FirstAssumption DEF WorkInv, ConnInv, Typed
<1>0. /\ req \in [Thread -> Request] /\ req[t] \in Request
      /\ p.pc # "idle" => p.unit \in Unit
  BY DEF TypeOK, WellFormed, Worker
<1>1. CASE UNCHANGED <<stored, wrote, p>>
  BY <1>0, <1>1, QuietHand, KeptInHand
<1>2. CASE Ping(t) /\ ~Live(req[t].conn)
  <2>1. PICK how \in {"live", "closed"} : End({req[t].conn}, how)
    BY <1>2 DEF Ping
  <2>2. stored' = stored /\ p' = p
    BY <1>2 DEF Ping, server
  <2> QED
    BY <1>0, <1>2, <2>1, <2>2, EndHand, KeptInHand
<1>3. CASE Open(t) /\ \E a \in Adapter \ Referenced : End({a}, "live")
  <2>1. PICK a \in Adapter \ Referenced : End({a}, "live")
    BY <1>3
  <2>2. stored' = stored /\ p' = p /\ a # First
    BY <1>3, <2>1 DEF Open, server, Referenced
  <2> QED
    BY <1>0, <2>1, <2>2, EndHand, KeptInHand
<1>4. CASE Insert(t) \/ Update(t)
  <2>1. PICK a \in Adapter, u \in Unit : a = req[t].conn /\ u = req[t].unit
    BY <1>0, <1>4, NoneAssumption
       DEF Insert, Update, WellFormed, Request, Deciding, Using
  <2> DEFINE new == [status |-> "pending", text |-> req[t].text]
  <2>2. new \in Present
    BY <1>0, <1>4, NewRow, NoneAssumption
       DEF Insert, Update, WellFormed, Request, Status, Deciding
  <2>3. \/ UNCHANGED <<stored, wrote, p>>
        \/ Write(a, u, new) /\ p' = p /\ ~HasRow(a, u)
        \/ Write(a, u, new) /\ p' = IF p.unit = u /\ p.row = "kept" THEN Loses("changed") ELSE p
    BY <1>4, <2>1 DEF Insert, Update, HasRow, server, session
  <2>4. Loses("changed").row # "kept"
    BY DEF Loses, TypeOK, Worker
  <2>5. ASSUME Write(a, u, new), ~HasRow(a, u), p.pc # "idle", p.row = "kept"
        PROVE  p.unit # u
    <3>1. Unlocked(First, p.unit) /\ HasRow(First, p.unit)
      BY <2>5, KeptHasRow
    <3>2. ASSUME p.unit = u, a # First
          PROVE  wrote[First][u] = NoWrite
      BY <2>1, <2>5, <3>2 DEF Write, Unlocked
    <3>3. ASSUME p.unit = u
          PROVE  HasRow(a, u)
      <4>1. CASE a = First
        BY <3>1, <3>3, <4>1
      <4>2. CASE a # First
        BY <2>1, <3>1, <3>2, <3>3, <4>2 DEF Unlocked, HasRow, Current, Over
      <4> QED
        BY <4>1, <4>2
    <3> QED
      BY <2>5, <3>3
  <2>6. ASSUME Write(a, u, new), p' = p, p.pc # "idle" /\ p.row = "kept" => p.unit # u
        PROVE  InHand'
    BY <1>0, <2>2, <2>6, WriteHand, KeptInHand
  <2>7. CASE Write(a, u, new) /\ p.row = "kept" /\ p.unit = u /\ p' = Loses("changed")
    BY <2>4, <2>7, NotKeptInHand
  <2> QED
    BY <1>1, <2>3, <2>5, <2>6, <2>7
<1>5. CASE Commit(t)
  <2>1. req[t].conn \in Adapter /\ CommitOn(req[t].conn) /\ p' = p
    BY <1>0, <1>5, NoneAssumption DEF Commit, WellFormed, Request, Using, Deciding
  <2> QED
    BY <1>0, <2>1, CommitHand, KeptInHand
<1> QED
  BY <1>1, <1>2, <1>3, <1>4, <1>5
  DEF RequestStep, Arrive, Bind, Ping, Clear, Open, Return, Broken, Stats, Select, Raises, Read,
      server, session

(* What the poller does, with the row in its hands.                        *)
LEMMA PollHand ==
  ASSUME WorkInv, PollStep
  PROVE  InHand'
<1> USE FirstAssumption DEF WorkInv, ConnInv, Typed
<1>0. p \in Worker /\ (p.pc # "idle" => p.unit \in Unit)
  BY DEF TypeOK, WellFormed, Worker
<1>1. CASE p' = AtRest
  BY <1>1, NotKeptInHand DEF AtRest
<1>2. CASE PollSelect
  <2>1. stored' = stored /\ wrote' = wrote
    BY <1>2 DEF PollSelect, Read, server
  <2>2. CASE p' = p
    BY <1>0, <2>1, <2>2, QuietHand, KeptInHand
  <2>3. CASE p'.row # "kept"
    BY <2>3, NotKeptInHand
  <2>4. CASE p' # p /\ p'.row = "kept"
    <3>1. PICK u \in Unit :
            /\ Seen(First)[u].status = "pending"
            /\ Seen(First)[u] = Current(First)[u] /\ Unlocked(First, u)
            /\ p' = [pc |-> "claim", unit |-> u, text |-> Seen(First)[u].text, row |-> "kept"]
      BY <1>2, <2>4 DEF PollSelect
    <3>2. Unlocked(First, u)' /\ Current(First)'[u] = Current(First)[u]
      BY <2>1, <3>1 DEF Unlocked, Current, Over
    <3> QED
      BY <3>1, <3>2 DEF InHand, ClaimIsCommitted
  <2> QED
    BY <2>2, <2>3, <2>4
<1>3. ASSUME PollClaim \/ PollMark, p.row = "kept"
      PROVE  InHand'
  <2>1. PICK u \in Unit : u = p.unit
    BY <1>0, <1>3 DEF PollClaim, PollMark
  <2>2. Unlocked(First, u) /\ Current(First)[u] # Absent /\ Current(First)[u].text = p.text
    BY <1>3, <2>1, KeptHasRow DEF PollClaim, PollMark, InHand, HasRow
  <2>3. PICK s \in {"processing", "processed"} :
          /\ Write(First, u, Marked(u, s))
          /\ \/ p.pc = "claim" /\ s = "processing" /\ p' = [p EXCEPT !.pc = "claimed"]
             \/ p.pc = "finish" /\ s = "processed" /\ p' = [p EXCEPT !.pc = "finished"]
    BY <1>3, <2>1, <2>2 DEF PollClaim, PollMark
  <2>4. /\ Marked(u, s) \in Present
        /\ Marked(u, s) = [status |-> s, text |-> p.text]
    BY <2>2, MarkedTyped DEF Status
  <2>5. /\ stored' = stored
        /\ Current(First)'[u] = Marked(u, s)
        /\ \A a \in Adapter \ {First} : wrote'[a][u] = wrote[a][u]
    BY <2>3, <2>4, WriteEffect
  <2>6. Unlocked(First, u)'
    BY <2>2, <2>5 DEF Unlocked
  <2>7. /\ p'.unit = u /\ p'.text = p.text /\ p'.pc \in {"claimed", "finished"}
        /\ p'.pc = "claimed" => s = "processing"
        /\ p'.pc = "finished" => p.pc = "finish"
    BY <1>0, <2>1, <2>3 DEF Worker
  <2>8. ClaimIsCommitted'
    BY <1>3, <2>1, <2>5, <2>7 DEF InHand, ClaimIsCommitted
  <2> QED
    BY <2>4, <2>5, <2>6, <2>7, <2>8 DEF InHand
<1>4. ASSUME PollClaim \/ PollMark \/ PollCommit("claimed", "finish"), p.row # "kept"
      PROVE  InHand'
  <2>1. p'.row = p.row
    BY <1>0, <1>4 DEF PollClaim, PollMark, PollCommit, Worker
  <2> QED
    BY <1>4, <2>1, NotKeptInHand
<1>5. ASSUME PollCommit("claimed", "finish"), p.row = "kept"
      PROVE  InHand'
  <2>1. PICK u \in Unit : u = p.unit
    BY <1>0, <1>5 DEF PollCommit
  <2>2. /\ Unlocked(First, u)
        /\ Current(First)[u].status = "processing" /\ Current(First)[u].text = p.text
    BY <1>5, <2>1 DEF PollCommit, InHand
  <2>3. CommitOn(First) /\ stored' = Current(First)
    BY <1>5 DEF PollCommit, CommitOn
  <2>4. Unlocked(First, u)' /\ Current(First)'[u] = Current(First)[u]
    BY <2>2, <2>3, CommitHand DEF HandKept
  <2>5. p'.unit = u /\ p'.text = p.text /\ p'.pc = "finish"
    BY <1>0, <1>5, <2>1 DEF PollCommit, Worker
  <2> QED
    BY <2>2, <2>3, <2>4, <2>5 DEF InHand, ClaimIsCommitted
<1> QED
  BY <1>1, <1>2, <1>3, <1>4, <1>5 DEF PollStep, PollBroken, PollCommit, PollLockTimeout

(* Sessions end: the row is as it was, or the poller's record knows.       *)
LEMMA CutHand ==
  ASSUME WorkInv, NEW d, Cut(d), stored' = stored
  PROVE  InHand'
<1> USE FirstAssumption DEF WorkInv, ConnInv, Typed
<1>1. End(d, "lost") /\ p' = Loss(d)
  BY DEF Cut
<1>2. /\ p' \in {p, Loses("gone"), Loses("changed")}
      /\ First \in d /\ p.row = "kept" /\ p.pc \in {"claim", "claimed"}
           /\ wrote[First][p.unit] # NoWrite => p' \in {Loses("gone"), Loses("changed")}
  BY <1>1 DEF Loss
<1>3. CASE p' \in {Loses("gone"), Loses("changed")}
  <2>1. p'.row # "kept"
    BY <1>3 DEF Loses, TypeOK, Worker
  <2> QED
    BY <2>1, NotKeptInHand
<1>4. CASE p' = p /\ (p.pc = "idle" \/ p.row # "kept")
  BY <1>4, NotKeptInHand
<1>5. CASE p' = p /\ p.pc # "idle" /\ p.row = "kept" /\ First \notin d
  BY <1>1, <1>5, KeptHasRow, EndHand, KeptInHand
<1>6. CASE p' = p /\ p.pc # "idle" /\ p.row = "kept" /\ First \in d
  <2>1. PICK u \in Unit : u = p.unit
    BY <1>6, KeptHasRow
  <2>2. \A a \in Adapter : wrote'[a] = IF a \in d THEN Unwritten ELSE wrote[a]
    BY <1>1 DEF End
  <2>3. Unlocked(First, u)'
    BY <1>6, <2>1, <2>2, KeptHasRow DEF Unlocked, Unwritten
  <2>4. Current(First)'[u] = stored[u]
    BY <1>6, <2>2 DEF Current, Over, Unwritten
  <2>5. Loses("gone") # p /\ Loses("changed") # p
    BY <1>6 DEF Loses, TypeOK, Worker
  <2>6. p.pc \in {"claim", "claimed"} => Current(First)[u] = stored[u]
    BY <1>2, <1>6, <2>1, <2>5 DEF Current, Over
  <2>7. p \in Worker
    BY DEF TypeOK
  <2>8. p.pc \in {"finish", "finished"} =>
          stored[u].status \in {"processing", "processed"} /\ stored[u].text = p.text
    BY <1>6, <2>1 DEF InHand, ClaimIsCommitted
  <2>9. ClaimIsCommitted'
    BY <1>6, <2>1, <2>8 DEF ClaimIsCommitted
  <2> QED
    BY <1>6, <2>1, <2>3, <2>4, <2>6, <2>7, <2>8, <2>9 DEF InHand, Worker
<1> QED
  BY <1>2, <1>3, <1>4, <1>5, <1>6

LEMMA WorkStep ==
  ASSUME WorkInv, [Next]_vars
  PROVE  WorkInv'
<1>0. ConnInv'
  BY ConnStep DEF WorkInv
<1> SUFFICES InHand'
  BY <1>0 DEF WorkInv
<1>1. CASE UNCHANGED vars
  BY <1>1 DEF WorkInv, vars, server, session, InHand, ClaimIsCommitted, Unlocked, Current, Over
<1>2. ASSUME NEW t \in Thread, RequestStep(t) \/ Arrive(t)
      PROVE  InHand'
  BY <1>2, RequestHand
<1>3. CASE PollStep
  BY <1>3, PollHand
<1>4. CASE Up
  BY <1>4 DEF Up, WorkInv, session, InHand, ClaimIsCommitted, Unlocked, Current, Over
<1>5. CASE Fault
  BY <1>5, CutHand DEF Fault, Down, Drop, server
<1> QED
  BY <1>1, <1>2, <1>3, <1>4, <1>5 DEF Next

LEMMA WorkInit == Init => WorkInv
<1> SUFFICES ASSUME Init PROVE WorkInv
  OBVIOUS
<1>1. p = AtRest
  BY DEF Init
<1>2. InHand
  BY <1>1 DEF InHand, ClaimIsCommitted, AtRest
<1> QED
  BY <1>2, ConnInit DEF WorkInv

(* The claim is committed, on the text that is about to be reconciled,     *)
(* when run_reconcile starts, and stays claimed until the poller is        *)
(* through; although requests rewrite rows on the poller's own session,    *)
(* before the claim, between it and its commit, and while run_reconcile    *)
(* runs, and although sessions end: unless one of that happened to this    *)
(* very row, or its SELECT did not see it as it is.                        *)
THEOREM ClaimCommitted == Spec => []ClaimIsCommitted
<1>1. WorkInv => ClaimIsCommitted
  BY DEF WorkInv, InHand
<1>2. QED
  BY <1>1, WorkInit, WorkStep, PTL DEF Spec

-----------------------------------------------------------------------------
(* Why the poller's adapter stays the one every request pings: nobody      *)
(* reaches the line that throws it out.                                    *)
NoneReplaced ==
  cached = First /\ \A t \in Thread : req[t].pc \notin {"clear", "open", "opened"}

AllPingsAnswered == \A t \in Thread : req[t].pc = "ping" => up

LEMMA PingStep ==
  ASSUME ConnInv, NoneReplaced, AllPingsAnswered, [Next]_vars
  PROVE  NoneReplaced'
<1> USE FirstAssumption, NoneAssumption
<1>0. req \in [Thread -> Request]
  BY DEF ConnInv, Typed, TypeOK
<1>1. CASE req' = req /\ cached' = cached
  BY <1>1 DEF NoneReplaced
<1>2. ASSUME NEW t \in Thread, cached' = cached, NEW r,
             req' = [req EXCEPT ![t] = r], r.pc \notin {"clear", "open", "opened"}
      PROVE  NoneReplaced'
  BY <1>0, <1>2 DEF NoneReplaced
<1>3. ASSUME NEW t \in Thread, RequestStep(t) \/ Arrive(t)
      PROVE  NoneReplaced'
  <2>1. CASE Arrive(t)
    <3> DEFINE r == [NoRequest EXCEPT !.pc = "bind"]
    <3>1. req' = [req EXCEPT ![t] = r]
      BY <2>1 DEF Arrive, NoneReplaced
    <3>2. r.pc = "bind" /\ cached' = cached
      BY <2>1 DEF Arrive, NoRequest
    <3> QED
      BY <1>2, <3>1, <3>2
  <2>2. CASE Bind(t) \/ Return(t)
    <3>1. PICK pc \in {"ping", "select"} : GotoOn(t, pc, cached)
      BY <2>2 DEF Bind, Return, NoneReplaced
    <3> QED
      BY <1>0, <1>2, <2>2, <3>1, Moves DEF Bind, Return
  <2>3. CASE Ping(t)
    <3>1. GotoOn(t, "pinged", None)
      BY <2>3 DEF Ping, AllPingsAnswered
    <3> QED
      BY <1>0, <1>2, <2>3, <3>1, Moves DEF Ping
  <2>4. CASE Clear(t) \/ Open(t)
    BY <2>4 DEF Clear, Open, NoneReplaced
  <2>5. CASE Refuse(t) /\ cached' = cached
    BY <1>2, <2>5 DEF Refuse, NoRequest
  <2>6. CASE ToCommit(t) /\ cached' = cached
    BY <1>0, <1>2, <2>6, Moves
  <2>7. CASE Commit(t)
    <3>1. GotoOn(t, "accepted", None)
      BY <2>7 DEF Commit
    <3> QED
      BY <1>0, <1>2, <2>7, <3>1, Moves DEF Commit
  <2>8. ASSUME NEW u \in Unit, NEW c \in Text, Select(t, u, c)
        PROVE  NoneReplaced'
    <3>1. PICK pc \in Deciding, x \in {c, None} :
            req' = [req EXCEPT ![t] = [pc |-> pc, unit |-> u, text |-> x, conn |-> req[t].conn]]
      BY <2>8 DEF Select, Deciding
    <3> QED
      BY <1>2, <2>8, <3>1 DEF Select, Deciding
  <2> QED
    BY <1>3, <2>1, <2>2, <2>3, <2>4, <2>5, <2>6, <2>7, <2>8
       DEF RequestStep, Broken, Stats, Insert, Update
<1> QED
  BY <1>1, <1>3
  DEF Next, PollStep, PollBroken, PollSelect, PollClaim, PollCommit, PollMark,
      PollLockTimeout, Up, Fault, Down, Drop, vars

(* As long as every ping is answered, sessions may be lost as often as     *)
(* they like: every request revives, and uses, the adapter of the poller.  *)
THEOREM PollerPinged == Spec => PollerIsPinged
<1>1. Init => ConnInv /\ NoneReplaced
  BY ConnInit DEF Init, NoneReplaced, NoRequest
<1>2. NoneReplaced => cached = First
  BY DEF NoneReplaced
<1>3. QED
  BY <1>1, <1>2, PingStep, ConnStep, PTL
  DEF Spec, PollerIsPinged, UnnoticedOutages, AllPingsAnswered
=============================================================================
