----------------------- MODULE PollerLifecycleProofs ------------------------
(***************************************************************************)
(* Theorems about PollerLifecycle, for every number of workers and rows.   *)
(***************************************************************************)
EXTENDS PollerLifecycle, TLAPS

(* Between the check and the start of the thread nothing but what stop     *)
(* gave up on runs.                                                        *)
NothingBefore == ctl = "spawn" => Alive \subseteq loose

(* x holds the present text of u and has not marked the row yet.           *)
AboutTo(x, u) == w[x].pc = "claim" /\ w[x].unit = u /\ w[x].current

(* A row that can be selected, or was by one worker, was not handed over.  *)
TextInv ==
  \A u \in Unit : u \in contested \/
    /\ handed[u] <= 1
    /\ row[u] = "pending" => handed[u] = 0
    /\ \A x \in Worker : AboutTo(x, u) => handed[u] = 0
    /\ \A x, y \in Worker : AboutTo(x, u) /\ AboutTo(y, u) => x = y

Inv == TypeOK /\ NothingBefore /\ SingleWorker /\ TextInv

LEMMA StepTyped ==
  ASSUME NEW pc \in {"ended", "check", "select", "wait", "backoff"}
  PROVE  Step(pc) \in State /\ Step(pc).pc = pc /\ ~Step(pc).current
BY DEF Step, State

LEMMA InitInv == Init => Inv
<1> SUFFICES ASSUME Init PROVE Inv
  OBVIOUS
<1>1. TypeOK
  <2>1. w \in [Worker -> State]
    BY StepTyped DEF Init
  <2>2. row \in [Unit -> Status] /\ handed \in [Unit -> 0..2]
    BY DEF Init, Status
  <2>3. QED
    BY <2>1, <2>2 DEF Init, TypeOK
<1>2. Alive = {} /\ \A x \in Worker : w[x].pc = "ended"
  BY DEF Init, Alive, Step
<1>3. TextInv
  BY <1>2 DEF Init, TextInv, AboutTo
<1>4. QED
  BY <1>1, <1>2, <1>3 DEF Inv, NothingBefore, SingleWorker

LEMMA GotoTyped ==
  ASSUME TypeOK, NEW x \in Worker, NEW pc \in {"ended", "check", "select", "wait", "backoff"},
         Goto(x, pc)
  PROVE  /\ w' \in [Worker -> State] /\ w'[x].pc = pc
         /\ \A y \in Worker : y # x => w'[y] = w[y]
BY StepTyped DEF TypeOK, Goto

LEMMA TypeStep ==
  ASSUME TypeOK, [Next]_vars
  PROVE  TypeOK'
<1> USE DEF TypeOK, control, history
<1>1. CASE Start \/ Stop \/ Joined
  BY <1>1 DEF Start, Stop, Joined, Alive
<1>2. CASE Restart
  BY <1>2, StepTyped DEF Restart
<1>3. ASSUME NEW x \in Worker, Spawn(x)
      PROVE  TypeOK'
  BY <1>3, StepTyped DEF Spawn
<1>4. ASSUME NEW u \in Unit, Ingest(u)
      PROVE  TypeOK'
  <2>1. ASSUME NEW x \in Worker
        PROVE  [w[x] EXCEPT !.current = FALSE] \in State
    BY DEF State
  <2>2. w' \in [Worker -> State]
    BY <1>4, <2>1 DEF Ingest
  <2>3. row' \in [Unit -> Status] /\ handed' \in [Unit -> 0..2] /\ contested' \in SUBSET Unit
    BY <1>4 DEF Ingest, Status
  <2>4. QED
    BY <1>4, <2>2, <2>3 DEF Ingest
<1>5. ASSUME NEW x \in Worker, End(x) \/ GoOn(x) \/ NothingPending(x) \/ Wait(x) \/ DbError(x)
      PROVE  TypeOK'
  <2>1. \E pc \in {"ended", "check", "select", "wait", "backoff"} : Goto(x, pc)
    BY <1>5 DEF End, GoOn, NothingPending, Wait, DbError
  <2>2. w' \in [Worker -> State]
    BY <2>1, GotoTyped
  <2>3. QED
    BY <1>5, <2>2 DEF End, GoOn, NothingPending, Wait, DbError
<1>6. ASSUME NEW x \in Worker, NEW u \in Unit, Select(x, u)
      PROVE  TypeOK'
  <2>1. [pc |-> "claim", unit |-> u, current |-> TRUE] \in State
    BY DEF State
  <2>2. w' \in [Worker -> State]
    BY <1>6, <2>1 DEF Select
  <2>3. contested' \in SUBSET Unit
    BY <1>6 DEF Select
  <2>4. QED
    BY <1>6, <2>2, <2>3 DEF Select
<1>7. ASSUME NEW x \in Worker, NEW u \in Unit, Claim(x, u)
      PROVE  TypeOK'
  <2>1. w' \in [Worker -> State]
    BY <1>7 DEF Claim, Hand, State
  <2>2. handed' \in [Unit -> 0..2]
    BY <1>7 DEF Claim, Hand
  <2>3. row' \in [Unit -> Status]
    BY <1>7 DEF Claim, Status
  <2>4. QED
    BY <1>7, <2>1, <2>2, <2>3 DEF Claim
<1>8. ASSUME NEW x \in Worker, NEW u \in Unit, Fail(x, u) \/ Finish(x, u)
      PROVE  TypeOK'
  <2>1. Goto(x, "check") /\ row' \in [Unit -> Status]
    BY <1>8 DEF Fail, Finish, Status
  <2>2. w' \in [Worker -> State]
    BY <2>1, GotoTyped
  <2>3. QED
    BY <1>8, <2>1, <2>2 DEF Fail, Finish
<1>9. ASSUME NEW x \in Worker, NEW d \in SUBSET Unit, Mirror(x, d)
      PROVE  TypeOK'
  <2>1. w' \in [Worker -> State]
    BY <1>9 DEF Mirror, State
  <2>2. row' \in [Unit -> Status]
    BY <1>9 DEF Mirror, Status
  <2>3. QED
    BY <1>9, <2>1, <2>2 DEF Mirror
<1>10. CASE UNCHANGED vars
  BY <1>10 DEF vars
<1>11. QED
  BY <1>1, <1>2, <1>3, <1>4, <1>5, <1>6, <1>7, <1>8, <1>9, <1>10
  DEF Next, Work, Ingests, DbErrors

-----------------------------------------------------------------------------
(* One worker at a time.                                                   *)

(* A step that starts no thread and leaves start and stop alone.           *)
LEMMA NobodyStarts ==
  ASSUME NothingBefore, SingleWorker, Alive' \subseteq Alive, \A x \in Alive' : x \in loose => x \in loose',
         UNCHANGED <<handle, ctl>>
  PROVE  NothingBefore' /\ SingleWorker'
BY DEF NothingBefore, SingleWorker

LEMMA WorkersStep ==
  ASSUME TypeOK, NothingBefore, SingleWorker, [Next]_vars
  PROVE  NothingBefore' /\ SingleWorker'
<1> USE DEF control, history
<1>1. CASE Start
  BY <1>1 DEF Start, Running, Alive, NothingBefore, SingleWorker
<1>2. CASE Stop
  BY <1>2 DEF Stop, Alive, NothingBefore, SingleWorker
<1>3. CASE Joined
  BY <1>3 DEF Joined, Alive, NothingBefore, SingleWorker
<1>4. CASE Restart
  <2>1. Alive' = {}
    BY <1>4, StepTyped DEF Restart, Alive
  <2>2. QED
    BY <2>1 DEF NothingBefore, SingleWorker
<1>5. ASSUME NEW x \in Worker, Spawn(x)
      PROVE  NothingBefore' /\ SingleWorker'
  <2>1. Alive' \subseteq Alive \cup {x}
    BY <1>5 DEF Spawn, Alive, TypeOK
  <2>2. QED
    BY <1>5, <2>1 DEF Spawn, NothingBefore, SingleWorker
<1>6. ASSUME NEW u \in Unit, Ingest(u)
      PROVE  NothingBefore' /\ SingleWorker'
  <2>1. \A x \in Worker : w'[x].pc = w[x].pc
    BY <1>6 DEF Ingest, TypeOK, State
  <2>2. QED
    BY <1>6, <2>1, NobodyStarts DEF Ingest, Alive
<1>7. ASSUME NEW x \in Worker, NEW pc \in {"check", "select", "wait", "backoff"},
             w[x].pc # "ended", Goto(x, pc), UNCHANGED <<handle, ctl, loose>>
      PROVE  NothingBefore' /\ SingleWorker'
  <2>1. Alive' = Alive
    BY <1>7, GotoTyped DEF Alive
  <2>2. QED
    BY <1>7, <2>1, NobodyStarts
<1>8. ASSUME NEW x \in Worker, GoOn(x) \/ NothingPending(x) \/ Wait(x) \/ DbError(x)
      PROVE  NothingBefore' /\ SingleWorker'
  BY <1>7, <1>8 DEF GoOn, NothingPending, Wait, DbError
<1>9. ASSUME NEW x \in Worker, End(x)
      PROVE  NothingBefore' /\ SingleWorker'
  <2>1. Alive' = Alive \ {x}
    BY <1>9, GotoTyped DEF End, Alive
  <2>2. QED
    BY <1>9, <2>1, NobodyStarts DEF End
<1>10. ASSUME NEW x \in Worker, NEW u \in Unit, Fail(x, u) \/ Finish(x, u)
       PROVE  NothingBefore' /\ SingleWorker'
  BY <1>7, <1>10 DEF Fail, Finish
<1>11. ASSUME NEW x \in Worker,
              (\E u \in Unit : Select(x, u) \/ Claim(x, u)) \/ (\E d \in SUBSET Unit : Mirror(x, d))
       PROVE  NothingBefore' /\ SingleWorker'
  <2>1. /\ w[x].pc # "ended" /\ w'[x].pc # "ended" /\ \A y \in Worker : y # x => w'[y] = w[y]
        /\ UNCHANGED <<handle, ctl, loose>>
    BY <1>11 DEF Select, Claim, Hand, Mirror, TypeOK, State
  <2>2. Alive' = Alive
    BY <2>1 DEF Alive
  <2>3. QED
    BY <2>1, <2>2, NobodyStarts
<1>12. CASE UNCHANGED vars
  BY <1>12 DEF vars, Alive, NothingBefore, SingleWorker
<1>13. QED
  BY <1>1, <1>2, <1>3, <1>4, <1>5, <1>6, <1>8, <1>9, <1>10, <1>11, <1>12
  DEF Next, Work, Ingests, DbErrors

-----------------------------------------------------------------------------
(* Once per text.                                                          *)

(* A step of worker x that takes no row in hand and makes none pending.    *)
LEMMA NothingTaken ==
  ASSUME TextInv, UNCHANGED history,
         \A x \in Worker, u \in Unit : AboutTo(x, u)' => AboutTo(x, u),
         \A u \in Unit : row'[u] = "pending" => row[u] = "pending"
  PROVE  TextInv'
BY DEF TextInv, history

LEMMA TextStep ==
  ASSUME TypeOK, TextInv, [Next]_vars
  PROVE  TextInv'
<1> USE DEF control, history
<1>1. CASE Start \/ Stop \/ Joined
  BY <1>1, NothingTaken DEF Start, Stop, Joined, AboutTo
<1>2. CASE Restart
  <2>1. \A x \in Worker, u \in Unit : ~AboutTo(x, u)'
    BY <1>2, StepTyped DEF Restart, AboutTo
  <2>2. QED
    BY <1>2, <2>1, NothingTaken DEF Restart
<1>3. ASSUME NEW x \in Worker, NEW pc \in {"ended", "check", "select", "wait", "backoff"},
             Goto(x, pc), UNCHANGED history,
             \A u \in Unit : row'[u] = "pending" => row[u] = "pending"
      PROVE  TextInv'
  <2>1. \A y \in Worker, u \in Unit : AboutTo(y, u)' => AboutTo(y, u)
    <3> SUFFICES ASSUME NEW y \in Worker, NEW u \in Unit, AboutTo(y, u)' PROVE AboutTo(y, u)
      OBVIOUS
    <3>1. y # x
      BY <1>3, GotoTyped DEF AboutTo
    <3>2. w'[y] = w[y]
      BY <1>3, <3>1, GotoTyped
    <3>3. QED
      BY <3>2 DEF AboutTo
  <2>2. QED
    BY <1>3, <2>1, NothingTaken
<1>4. ASSUME NEW x \in Worker, Spawn(x)
      PROVE  TextInv'
  <2>1. Goto(x, "check")
    BY <1>4 DEF Spawn, Goto
  <2>2. QED
    BY <1>3, <1>4, <2>1 DEF Spawn
<1>5. ASSUME NEW x \in Worker, End(x) \/ GoOn(x) \/ NothingPending(x) \/ Wait(x) \/ DbError(x)
      PROVE  TextInv'
  <2>1. \E pc \in {"ended", "check", "select", "wait", "backoff"} : Goto(x, pc)
    BY <1>5 DEF End, GoOn, NothingPending, Wait, DbError
  <2>2. UNCHANGED <<row, handed, contested>>
    BY <1>5 DEF End, GoOn, NothingPending, Wait, DbError
  <2>3. QED
    BY <1>3, <2>1, <2>2
<1>6. ASSUME NEW x \in Worker, NEW u \in Unit, Fail(x, u) \/ Finish(x, u)
      PROVE  TextInv'
  <2>1. Goto(x, "check") /\ UNCHANGED <<handed, contested>>
    BY <1>6 DEF Fail, Finish
  <2>2. \A v \in Unit : row'[v] = "pending" => row[v] = "pending"
    BY <1>6 DEF Fail, Finish, TypeOK
  <2>3. QED
    BY <1>3, <2>1, <2>2
<1>7. ASSUME NEW x \in Worker, NEW d \in SUBSET Unit, Mirror(x, d)
      PROVE  TextInv'
  <2>1. \A y \in Worker, u \in Unit : AboutTo(y, u)' => AboutTo(y, u)
    BY <1>7 DEF Mirror, AboutTo, TypeOK, State
  <2>2. \A u \in Unit : row'[u] = "pending" => row[u] = "pending"
    BY <1>7 DEF Mirror
  <2>3. QED
    BY <1>7, <2>1, <2>2, NothingTaken DEF Mirror
<1>8. ASSUME NEW v \in Unit, Ingest(v)
      PROVE  TextInv'
  <2>1. \A y \in Worker, u \in Unit :
          AboutTo(y, u)' => AboutTo(y, u) /\ u # v
    BY <1>8 DEF Ingest, AboutTo, TypeOK, State
  <2>2. handed'[v] = 0 /\ \A u \in Unit \ {v} : handed'[u] = handed[u] /\ row'[u] = row[u]
    BY <1>8 DEF Ingest, TypeOK
  <2>3. contested' = contested \ {v}
    BY <1>8 DEF Ingest
  <2>4. QED
    BY <2>1, <2>2, <2>3 DEF TextInv
<1>9. ASSUME NEW x \in Worker, NEW v \in Unit, Select(x, v)
      PROVE  TextInv'
  <2>1. /\ \A y \in Worker \ {x} : w'[y] = w[y]
        /\ w'[x].unit = v
    BY <1>9 DEF Select, TypeOK
  <2>2. \A y \in Worker, u \in Unit : AboutTo(y, u)' => (y = x /\ u = v) \/ (y # x /\ AboutTo(y, u))
    BY <2>1 DEF AboutTo
  <2>3. row[v] = "pending" /\ row' = row /\ handed' = handed /\ contested \subseteq contested'
    BY <1>9 DEF Select
  <2>4. v \in contested' \/ \A y \in Worker \ {x} : ~AboutTo(y, v)
    BY <1>9 DEF Select, AboutTo
  <2>5. QED
    BY <2>2, <2>3, <2>4 DEF TextInv
<1>10. ASSUME NEW x \in Worker, NEW v \in Unit, Claim(x, v)
       PROVE  TextInv'
  <2>1. \A y \in Worker, u \in Unit : AboutTo(y, u)' => y # x /\ AboutTo(y, u)
    BY <1>10 DEF Claim, Hand, AboutTo, TypeOK, State
  <2>2. /\ row'[v] = "processing" /\ contested' = contested
        /\ \A u \in Unit \ {v} : row'[u] = row[u] /\ handed'[u] = handed[u]
    BY <1>10 DEF Claim, Hand, TypeOK
  <2>3. CASE w[x].current
    <3>1. AboutTo(x, v)
      BY <1>10, <2>3 DEF Claim, AboutTo
    <3>2. v \in contested \/ (handed[v] = 0 /\ \A y \in Worker : AboutTo(y, v) => y = x)
      BY <3>1 DEF TextInv
    <3>3. handed[v] = 0 => handed'[v] = 1
      BY <1>10, <2>3 DEF Claim, Hand, TypeOK
    <3>4. QED
      BY <2>1, <2>2, <3>2, <3>3 DEF TextInv
  <2>4. CASE ~w[x].current
    <3>1. handed' = handed
      BY <1>10, <2>4 DEF Claim, Hand
    <3>2. QED
      BY <2>1, <2>2, <3>1 DEF TextInv
  <2>5. QED
    BY <2>3, <2>4
<1>11. CASE UNCHANGED vars
  BY <1>11, NothingTaken DEF vars, AboutTo
<1>12. QED
  BY <1>1, <1>2, <1>4, <1>5, <1>6, <1>7, <1>8, <1>9, <1>10, <1>11
  DEF Next, Work, Ingests, DbErrors

-----------------------------------------------------------------------------
LEMMA Invariance == Spec => []Inv
<1>1. Inv /\ [Next]_vars => Inv'
  BY TypeStep, WorkersStep, TextStep DEF Inv
<1>2. QED
  BY InitInv, <1>1, PTL DEF Spec

(* Type correctness: start, stop, the workers, webhooks and restarts keep  *)
(* every row in a known status and every thread at a known place.          *)
THEOREM TypeCorrect == Spec => []TypeOK
<1>1. Inv => TypeOK
  BY DEF Inv
<1>2. QED
  BY Invariance, <1>1, PTL

(* start makes a worker only when none runs but those whose join timed     *)
(* out, whatever the order of starts, stops and ends.                      *)
THEOREM SingleWorkerAlways == Spec => []SingleWorker
<1>1. Inv => SingleWorker
  BY DEF Inv
<1>2. QED
  BY Invariance, <1>1, PTL

(* Marking a row before run_reconcile gives each text to it once, through  *)
(* restarts, failures and workers that stop gave up on, as long as no two  *)
(* workers select the row before one of them marks it.                     *)
THEOREM OncePerTextAlways == Spec => []OncePerText
<1>1. Inv => OncePerText
  BY DEF Inv, TextInv, OncePerText
<1>2. QED
  BY Invariance, <1>1, PTL

-----------------------------------------------------------------------------
(* While no join times out.  The worker handle tells of is the only one,   *)
(* and what it selected stays pending until it marks it.                   *)

OneWorker == loose = {} /\ contested = {}

Holds(x) == w[x].pc \in {"claim", "reconcile", "finish"}

HeldRows ==
  \A x \in Worker : Holds(x) =>
    w[x].unit \in Unit /\ (w[x].pc = "claim" => row[w[x].unit] = "pending")

PatientInv == Inv /\ OneWorker /\ HeldRows

(* Any two workers that run are one, and handle tells of it.               *)
LEMMA OnlyHandle ==
  ASSUME PatientInv, NEW x \in Worker, w[x].pc # "ended"
  PROVE  /\ x = handle /\ ctl # "spawn"
         /\ \A y \in Worker \ {x} : w[y].pc = "ended"
BY DEF PatientInv, OneWorker, Inv, SingleWorker, NothingBefore, Alive

LEMMA InitPatient == Init => PatientInv
<1> SUFFICES ASSUME Init PROVE OneWorker /\ HeldRows
  BY InitInv DEF PatientInv
<1> QED BY DEF Init, OneWorker, HeldRows, Holds, Step

(* A worker goes to a step at which it holds no row.                       *)
LEMMA GotoHeld ==
  ASSUME PatientInv, NEW x \in Worker, NEW pc \in {"ended", "check", "select", "wait", "backoff"},
         Goto(x, pc), row' = row \/ w[x].pc # "ended"
  PROVE  HeldRows'
<1>1. w'[x].pc = pc /\ \A y \in Worker \ {x} : w'[y] = w[y]
  BY GotoTyped DEF PatientInv, Inv
<1>2. CASE row' = row
  BY <1>1, <1>2 DEF PatientInv, HeldRows, Holds
<1>3. CASE w[x].pc # "ended"
  BY <1>1, <1>3, OnlyHandle DEF HeldRows, Holds
<1> QED BY <1>2, <1>3

LEMMA HeldStep ==
  ASSUME PatientInv, [Next]_vars
  PROVE  HeldRows'
<1> USE DEF PatientInv, Inv
<1>1. CASE UNCHANGED <<row, w>>
  BY <1>1 DEF HeldRows, Holds
<1>2. CASE Restart
  BY <1>2 DEF Restart, HeldRows, Holds, Step
<1>3. ASSUME NEW x \in Worker, Spawn(x)
      PROVE  HeldRows'
  BY <1>3, GotoHeld DEF Spawn, Goto
<1>4. ASSUME NEW u \in Unit, Ingest(u)
      PROVE  HeldRows'
  <2>1. \A x \in Worker : w'[x].pc = w[x].pc /\ w'[x].unit = w[x].unit
    BY <1>4 DEF Ingest, TypeOK, State
  <2> QED BY <1>4, <2>1 DEF Ingest, HeldRows, Holds, TypeOK
<1>5. ASSUME NEW x \in Worker, End(x) \/ GoOn(x) \/ NothingPending(x) \/ Wait(x) \/ DbError(x)
      PROVE  HeldRows'
  <2>1. PICK pc \in {"ended", "check", "select", "wait", "backoff"} : Goto(x, pc)
    BY <1>5 DEF End, GoOn, NothingPending, Wait, DbError
  <2>2. row' = row
    BY <1>5 DEF End, GoOn, NothingPending, Wait, DbError
  <2> QED BY <2>1, <2>2, GotoHeld
<1>6. ASSUME NEW x \in Worker, NEW u \in Unit, Fail(x, u) \/ Finish(x, u)
      PROVE  HeldRows'
  <2>1. Goto(x, "check") /\ w[x].pc # "ended"
    BY <1>6 DEF Fail, Finish
  <2> QED BY <2>1, GotoHeld
<1>7. ASSUME NEW x \in Worker, NEW u \in Unit, Select(x, u)
      PROVE  HeldRows'
  <2>1. w'[x] = [pc |-> "claim", unit |-> u, current |-> TRUE]
    BY <1>7 DEF Select, TypeOK
  <2>2. row[u] = "pending" /\ row' = row /\ \A y \in Worker \ {x} : w'[y] = w[y]
    BY <1>7 DEF Select, TypeOK
  <2> QED BY <2>1, <2>2 DEF HeldRows, Holds
<1>8. ASSUME NEW x \in Worker,
             (\E u \in Unit : Claim(x, u)) \/ (\E d \in SUBSET Unit : Mirror(x, d))
      PROVE  HeldRows'
  <2>1. /\ Holds(x) /\ w[x].pc # "ended" /\ w'[x].unit = w[x].unit
        /\ w'[x].pc \in {"reconcile", "finish"}
        /\ \A y \in Worker \ {x} : w'[y] = w[y]
    BY <1>8 DEF Claim, Hand, Mirror, Holds, TypeOK, State
  <2> QED BY <2>1, OnlyHandle DEF HeldRows, Holds
<1>9. CASE Start \/ Stop \/ Joined \/ UNCHANGED vars
  BY <1>1, <1>9 DEF Start, Stop, Joined, vars
<1> QED
  BY <1>2, <1>3, <1>4, <1>5, <1>6, <1>7, <1>8, <1>9 DEF Next, Work, Ingests, DbErrors

LEMMA StepPatient ==
  ASSUME PatientInv, [Next]_vars, (loose = {})'
  PROVE  PatientInv'
<1>1. Inv'
  BY TypeStep, WorkersStep, TextStep DEF PatientInv, Inv
<1>2. HeldRows'
  BY HeldStep
<1>3. contested' = {}
  <2>1. ASSUME NEW x \in Worker, NEW u \in Unit, Select(x, u)
        PROVE  contested' = {}
    BY <2>1, OnlyHandle DEF Select, PatientInv, OneWorker
  <2>2. CASE contested' \subseteq contested
    BY <2>2 DEF PatientInv, OneWorker
  <2> QED
    BY <2>1, <2>2
    DEF Next, Work, Ingests, DbErrors, Start, Stop, Joined, Restart, Spawn, End, GoOn,
        NothingPending, Wait, Claim, Fail, Finish, Mirror, Ingest, DbError, vars, history
<1> QED BY <1>1, <1>2, <1>3 DEF PatientInv, OneWorker

LEMMA PatientInvariance == Spec /\ NoJoinTimesOut => []PatientInv
BY InitPatient, StepPatient, PTL DEF Spec, NoJoinTimesOut

(* While stop's join waits for the end of the worker, each text is given   *)
(* to run_reconcile once: restarts at any point, errors and failed rows    *)
(* included.                                                               *)
THEOREM OnceEachAlways == Spec => OnceEach
<1>1. PatientInv => \A u \in Unit : handed[u] <= 1
  BY DEF PatientInv, OneWorker, Inv, TextInv
<1> QED BY <1>1, PatientInvariance, PTL DEF OnceEach

-----------------------------------------------------------------------------
(* The workers, refined to the queue's one worker.                         *)

Waiting == {u \in Unit : row[u] = "pending"}
AtRow   == IF handle \in Worker /\ w[handle].pc \in {"reconcile", "finish"}
             THEN w[handle].unit ELSE None

LEMMA QueueInit == Init => Abstract!Init
<1> SUFFICES ASSUME Init PROVE Waiting = {} /\ AtRow = None
  BY DEF Waiting, AtRow, Abstract!Init
<1> QED BY DEF Init, Step, Waiting, AtRow

(* A step that ends what the worker does with its row, if it had one.      *)
LEMMA LetsGo ==
  ASSUME PatientInv, Waiting' = Waiting, AtRow' = None
  PROVE  [Abstract!Next]_(Abstract!avars)
<1>1. CASE AtRow = None
  BY <1>1 DEF Abstract!avars, Waiting, AtRow
<1>2. CASE AtRow # None
  <2>1. Abstract!Lose({})
    BY <1>2 DEF Abstract!Lose, Abstract!Free, Waiting, AtRow
  <2> QED BY <2>1 DEF Abstract!Next
<1> QED BY <1>1, <1>2

LEMMA QueueStep ==
  ASSUME PatientInv, PatientInv', [Next]_vars
  PROVE  [Abstract!Next]_(Abstract!avars)
<1> USE DEF PatientInv, Inv
<1>0. Waiting' = Waiting /\ AtRow' = AtRow => UNCHANGED Abstract!avars
  BY DEF Abstract!avars, Waiting, AtRow
<1>1. CASE UNCHANGED <<row, handle, w>>
  BY <1>0, <1>1 DEF Waiting, AtRow
<1>2. CASE Restart
  BY <1>2, LetsGo, NoneIsNoWorker DEF Restart, Waiting, AtRow
<1>3. CASE Joined
  <2>1. handle' \notin Worker /\ row' = row
    BY <1>3, NoneIsNoWorker DEF Joined
  <2> QED BY <2>1, LetsGo DEF Waiting, AtRow
<1>4. ASSUME NEW x \in Worker, Spawn(x)
      PROVE  [Abstract!Next]_(Abstract!avars)
  BY <1>4, LetsGo DEF Spawn, Step, Waiting, AtRow, TypeOK
<1>5. ASSUME NEW u \in Unit, Ingest(u)
      PROVE  [Abstract!Next]_(Abstract!avars)
  <2>1. \A x \in Worker : w'[x].pc = w[x].pc /\ w'[x].unit = w[x].unit
    BY <1>5 DEF Ingest, TypeOK, State
  <2>2. AtRow' = AtRow
    BY <1>5, <2>1 DEF Ingest, control, AtRow
  <2>3. Waiting' = Waiting \cup {u}
    BY <1>5 DEF Ingest, Waiting, TypeOK
  <2>4. Abstract!Put(u)
    BY <2>2, <2>3 DEF Abstract!Put, Waiting, AtRow
  <2> QED BY <2>4 DEF Abstract!Next
<1>6. ASSUME NEW x \in Worker, End(x) \/ GoOn(x) \/ NothingPending(x) \/ Wait(x) \/ DbError(x)
      PROVE  [Abstract!Next]_(Abstract!avars)
  <2>1. PICK pc \in {"ended", "check", "select", "wait", "backoff"} : Goto(x, pc)
    BY <1>6 DEF End, GoOn, NothingPending, Wait, DbError
  <2>2. row' = row /\ handle' = handle /\ w[x].pc # "ended"
    BY <1>6 DEF End, GoOn, NothingPending, Wait, DbError, control
  <2>3. w'[handle].pc = pc
    BY <2>1, <2>2, OnlyHandle, GotoTyped
  <2> QED BY <2>2, <2>3, LetsGo DEF Waiting, AtRow
<1>7. ASSUME NEW x \in Worker, NEW u \in Unit, Select(x, u)
      PROVE  [Abstract!Next]_(Abstract!avars)
  <2>1. x = handle /\ w'[x].pc = "claim" /\ row' = row /\ handle' = handle
    BY <1>7, OnlyHandle DEF Select, control, TypeOK
  <2> QED BY <1>0, <1>7, <2>1 DEF Select, Waiting, AtRow
<1>8. ASSUME NEW x \in Worker, NEW u \in Unit, Claim(x, u)
      PROVE  [Abstract!Next]_(Abstract!avars)
  <2>1. x = handle /\ w[x].unit = u /\ row[u] = "pending" /\ handle' = handle
    BY <1>8, OnlyHandle DEF Claim, control, HeldRows, Holds
  <2>2. w'[x].pc = "reconcile" /\ w'[x].unit = u
    BY <1>8, <2>1 DEF Claim, Hand, TypeOK, State
  <2>3. AtRow = None /\ AtRow' = u
    BY <1>8, <2>1, <2>2 DEF Claim, AtRow
  <2>4. Waiting' = Waiting \ {u} /\ u \in Waiting
    BY <1>8, <2>1 DEF Claim, Waiting, TypeOK
  <2>5. Abstract!Take(u)
    BY <2>3, <2>4 DEF Abstract!Take, Abstract!Free, Waiting, AtRow
  <2> QED BY <2>5 DEF Abstract!Next
<1>9. ASSUME NEW x \in Worker, NEW u \in Unit, Fail(x, u) \/ Finish(x, u)
      PROVE  [Abstract!Next]_(Abstract!avars)
  <2>1. x = handle /\ w[x].unit = u /\ handle' = handle /\ Goto(x, "check")
    BY <1>9, OnlyHandle DEF Fail, Finish, control
  <2>2. AtRow = u /\ AtRow' = None
    BY <1>9, <2>1, GotoTyped DEF Fail, Finish, AtRow
  <2>3. Waiting' = Waiting \ {u}
    BY <1>9 DEF Fail, Finish, Waiting, TypeOK
  <2>4. Abstract!Finish
    BY <2>2, <2>3, NoneIsNoUnit DEF Abstract!Finish, Abstract!Free, Waiting, AtRow
  <2> QED BY <2>4 DEF Abstract!Next
<1>10. ASSUME NEW x \in Worker, NEW d \in SUBSET Unit, Mirror(x, d)
       PROVE  [Abstract!Next]_(Abstract!avars)
  <2>1. x = handle /\ handle' = handle /\ w'[x].pc = "finish" /\ w'[x].unit = w[x].unit
    BY <1>10, OnlyHandle DEF Mirror, control, TypeOK, State
  <2>2. AtRow' = AtRow /\ AtRow \in Unit
    BY <1>10, <2>1 DEF Mirror, AtRow, HeldRows, Holds
  <2>3. Waiting' = Waiting \ (d \cap Waiting)
    BY <1>10 DEF Mirror, Waiting
  <2>4. PICK e \in SUBSET Waiting : e = d \cap Waiting
    OBVIOUS
  <2>5. Abstract!ThrowOut(e)
    BY <2>2, <2>3, <2>4, NoneIsNoUnit DEF Abstract!ThrowOut, Abstract!Free, Waiting, AtRow
  <2> QED BY <2>5 DEF Abstract!Next, Waiting
<1>11. CASE Start \/ Stop \/ UNCHANGED vars
  BY <1>1, <1>11 DEF Start, Stop, vars
<1> QED
  BY <1>2, <1>3, <1>4, <1>5, <1>6, <1>7, <1>8, <1>9, <1>10, <1>11
  DEF Next, Work, Ingests, DbErrors

(* While stop's join waits for the end of the worker, start, stop and the  *)
(* end of the process leave memory_units what Reconciler takes it for: a   *)
(* queue with one worker, in every process and across processes.           *)
THEOREM WorkersAreWorkQueue == Spec => WorkersAreOne
<1>1. QED
  BY PatientInvariance, QueueInit, QueueStep, PTL
  DEF Spec, WorkersAreOne, Abstract!Spec
=============================================================================
