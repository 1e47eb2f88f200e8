--------------------------- MODULE PollerLifecycle --------------------------
(***************************************************************************)
(* ReconcilerPoller: start, stop and the worker threads they make and end. *)
(* A worker that is inside run_reconcile when stop's join times out goes   *)
(* on; a start after that makes another one beside it, and clears the      *)
(* event the first was told to stop by.  serve starts one poller in every  *)
(* process; memory_units outlives them.                                    *)
(*                                                                         *)
(* What a worker does to a row is coarse here: Reconciler and Curation     *)
(* have the details.                                                       *)
(***************************************************************************)
EXTENDS Integers, FiniteSets

CONSTANTS
  Worker,   \* threads that may run at once (bounds how many stop gives up on)
  Unit,
  None      \* self._thread is None; no row in hand

ASSUME NoneIsNoWorker == None \notin Worker
ASSUME NoneIsNoUnit == None \notin Unit

VARIABLES
  row,        \* status of each row
  stopEvent,  \* self._stop_event
  handle,     \* self._thread
  ctl,        \* where the thread that calls start and stop is
  w,          \* where each worker is
  loose,      \* workers that run and that stop has given up on
  handed,     \* how often the present text of a row was given to run_reconcile
  contested   \* rows whose present text two workers were to claim at once

vars == <<row, stopEvent, handle, ctl, w, loose, handed, contested>>
control == <<stopEvent, handle, ctl>>
history == <<handed, contested>>

Status == {"absent", "pending", "processing", "processed", "superseded", "failed"}

(* current: the text in hand is still that of the row.                     *)
State == [pc      : {"ended", "check", "select", "claim", "reconcile", "finish", "wait", "backoff"},
          unit    : Unit \cup {None},
          current : BOOLEAN]

Step(pc) == [pc |-> pc, unit |-> None, current |-> FALSE]

Alive == {x \in Worker : w[x].pc # "ended"}

(* is_alive, and what /healthz calls poller_running.                       *)
Running == handle \in Alive

-----------------------------------------------------------------------------
(* start and stop, called by one thread.                                   *)

(* Mutant: start does not look whether a worker is there.                  *)
StartAlways ==
  /\ ctl = "idle"
  /\ stopEvent' = FALSE
  /\ ctl' = "spawn"
  /\ UNCHANGED <<row, handle, w, loose, history>>

(* A start while a worker runs returns at once.                            *)
Start ==
  /\ ctl = "idle"
  /\ ~Running
  /\ stopEvent' = FALSE
  /\ ctl' = "spawn"
  /\ UNCHANGED <<row, handle, w, loose, history>>

Spawn(x) ==
  /\ ctl = "spawn"
  /\ x \notin Alive
  /\ handle' = x
  /\ w' = [w EXCEPT ![x] = Step("check")]
  /\ ctl' = "idle"
  /\ UNCHANGED <<row, stopEvent, loose, history>>

(* A stop without a worker returns at once.                                *)
Stop ==
  /\ ctl = "idle"
  /\ handle # None
  /\ stopEvent' = TRUE
  /\ ctl' = "join"
  /\ UNCHANGED <<row, handle, w, loose, history>>

(* join returns, as the worker has ended or after its timeout of 10 s.     *)
Joined ==
  /\ ctl = "join"
  /\ loose' = loose \cup ({handle} \cap Alive)
  /\ handle' = None
  /\ ctl' = "idle"
  /\ UNCHANGED <<row, stopEvent, w, history>>

(* The process ends, after stop or without it, and is started again.       *)
Restart ==
  /\ w' = [x \in Worker |-> Step("ended")]
  /\ loose' = {}
  /\ stopEvent' = FALSE
  /\ handle' = None
  /\ ctl' = "spawn"
  /\ UNCHANGED <<row, history>>

-----------------------------------------------------------------------------
(* The webhook gives a row a new text: upsert_unit_on_conn.                *)
Ingest(u) ==
  /\ row' = [row EXCEPT ![u] = "pending"]
  /\ handed' = [handed EXCEPT ![u] = 0]
  /\ contested' = contested \ {u}
  /\ w' = [x \in Worker |-> IF w[x].unit = u THEN [w[x] EXCEPT !.current = FALSE] ELSE w[x]]
  /\ UNCHANGED <<control, loose>>

-----------------------------------------------------------------------------
(* A worker: _run and run_once.                                            *)

Goto(x, pc) == w' = [w EXCEPT ![x] = Step(pc)]

End(x) ==
  /\ w[x].pc = "check"
  /\ stopEvent
  /\ Goto(x, "ended")
  /\ loose' = loose \ {x}
  /\ UNCHANGED <<row, control, history>>

GoOn(x) ==
  /\ w[x].pc = "check"
  /\ ~stopEvent
  /\ Goto(x, "select")
  /\ UNCHANGED <<row, control, loose, history>>

(* fetch_pending_row_on_conn, and what it returns.                         *)
Select(x, u) ==
  /\ w[x].pc = "select"
  /\ row[u] = "pending"
  /\ w' = [w EXCEPT ![x] = [pc |-> "claim", unit |-> u, current |-> TRUE]]
  /\ contested' = IF \E y \in Worker \ {x} : w[y].pc = "claim" /\ w[y].unit = u /\ w[y].current
                    THEN contested \cup {u} ELSE contested
  /\ UNCHANGED <<row, control, loose, handed>>

NothingPending(x) ==
  /\ w[x].pc = "select"
  /\ \A u \in Unit : row[u] # "pending"
  /\ Goto(x, "wait")
  /\ UNCHANGED <<row, control, loose, history>>

(* Mutant: a row that was waited for is taken without a look at the event. *)
WaitAndSelect(x) ==
  /\ w[x].pc \in {"wait", "backoff"}
  /\ Goto(x, "select")
  /\ UNCHANGED <<row, control, loose, history>>

(* The event's wait ends: the interval is over, or stop sets the event.    *)
Wait(x) ==
  /\ w[x].pc \in {"wait", "backoff"}
  /\ Goto(x, "check")
  /\ UNCHANGED <<row, control, loose, history>>

Hand(x, u) ==
  /\ w' = [w EXCEPT ![x].pc = "reconcile"]
  /\ handed' = IF w[x].current /\ handed[u] < 2 THEN [handed EXCEPT ![u] = @ + 1] ELSE handed

(* Mutant: a row is marked when it is done, not before.                    *)
HandUnmarked(x, u) ==
  /\ w[x].pc = "claim" /\ w[x].unit = u
  /\ Hand(x, u)
  /\ UNCHANGED <<row, control, loose, contested>>

(* The row, whatever its status by now, is marked and goes to              *)
(* run_reconcile.  (handed counts to 2.)                                   *)
Claim(x, u) ==
  /\ w[x].pc = "claim" /\ w[x].unit = u
  /\ row' = [row EXCEPT ![u] = "processing"]
  /\ Hand(x, u)
  /\ UNCHANGED <<control, loose, contested>>

(* Mutant: the row gets the status that run_reconcile returned.            *)
FailWithResult(x, u) ==
  /\ w[x].pc = "reconcile" /\ w[x].unit = u
  /\ row' = [row EXCEPT ![u] = "reflect_failed"]
  /\ Goto(x, "check")
  /\ UNCHANGED <<control, loose, history>>

(* run_reconcile raised or reported a failure.                             *)
Fail(x, u) ==
  /\ w[x].pc = "reconcile" /\ w[x].unit = u
  /\ row' = [row EXCEPT ![u] = "failed"]
  /\ Goto(x, "check")
  /\ UNCHANGED <<control, loose, history>>

(* curate_superseded_in_db marks the units d the verdict named.            *)
Mirror(x, d) ==
  /\ w[x].pc = "reconcile"
  /\ row' = [u \in Unit |-> IF u \in d /\ row[u] \in {"pending", "processed"}
                              THEN "superseded" ELSE row[u]]
  /\ w' = [w EXCEPT ![x].pc = "finish"]
  /\ UNCHANGED <<control, loose, history>>

Finish(x, u) ==
  /\ w[x].pc = "finish" /\ w[x].unit = u
  /\ row' = [row EXCEPT ![u] = "processed"]
  /\ Goto(x, "check")
  /\ UNCHANGED <<control, loose, history>>

(* Mutant: what run_once raises ends the thread.                           *)
DbErrorKills(x) ==
  /\ w[x].pc \in {"select", "claim", "reconcile", "finish"}
  /\ Goto(x, "ended")
  /\ loose' = loose \ {x}
  /\ UNCHANGED <<row, control, history>>

(* A statement of run_once raises: the row in hand is forgotten.           *)
DbError(x) ==
  /\ w[x].pc \in {"select", "claim", "reconcile", "finish"}
  /\ Goto(x, "backoff")
  /\ UNCHANGED <<row, control, loose, history>>

-----------------------------------------------------------------------------
Init ==
  /\ row = [u \in Unit |-> "absent"]
  /\ stopEvent = FALSE
  /\ handle = None
  /\ ctl = "spawn"
  /\ w = [x \in Worker |-> Step("ended")]
  /\ loose = {}
  /\ handed = [u \in Unit |-> 0]
  /\ contested = {}

Work(x) ==
  \/ End(x) \/ GoOn(x) \/ NothingPending(x) \/ Wait(x)
  \/ \E u \in Unit : Select(x, u) \/ Claim(x, u) \/ Fail(x, u) \/ Finish(x, u)
  \/ \E d \in SUBSET Unit : Mirror(x, d)

Ingests == \E u \in Unit : Ingest(u)
DbErrors == \E x \in Worker : DbError(x)

Next ==
  \/ Start \/ Stop \/ Joined \/ Restart
  \/ \E x \in Worker : Spawn(x) \/ Work(x)
  \/ Ingests \/ DbErrors

Spec == Init /\ [][Next]_vars

(* Threads are scheduled, and every call a worker makes returns: requests  *)
(* to Hindsight have a timeout.                                            *)
Fairness == \A x \in Worker : WF_vars(Work(x))

FairSpec == Spec /\ Fairness

-----------------------------------------------------------------------------
(* Properties.                                                             *)

TypeOK ==
  /\ row \in [Unit -> Status]
  /\ stopEvent \in BOOLEAN
  /\ handle \in Worker \cup {None}
  /\ ctl \in {"idle", "spawn", "join"}
  /\ w \in [Worker -> State]
  /\ loose \in SUBSET Worker
  /\ handed \in [Unit -> 0..2]
  /\ contested \in SUBSET Unit

(* "Single-threaded drain of the memory_units queue": no worker runs but   *)
(* the one is_alive tells of and those stop has given up on.               *)
SingleWorker == Alive \subseteq {handle} \cup loose

(* The crash semantics of the poller: marking a row first keeps a restarted *)
(* process from reflecting on the same fact again.  A text is given to      *)
(* run_reconcile once, across restarts, failures and stops that gave up,   *)
(* unless two workers were about to claim it at once.                      *)
OncePerText == \A u \in Unit : handed[u] <= 1 \/ u \in contested

(* While no join times out, that is: once, whatever starts, stops, ends of *)
(* the process, errors and failed rows come in between.                    *)
NoJoinTimesOut == [](loose = {})

OnceEach == NoJoinTimesOut => [](\A u \in Unit : handed[u] <= 1)

(* And the workers, one after the other, are the one worker of the queue   *)
(* that Reconciler takes them for: none goes on with a row that another    *)
(* took, and the end of the process only loses the row in hand.            *)
Abstract == INSTANCE WorkQueue WITH
  Item    <- Unit,
  Nobody  <- None,
  Group   <- [u \in Unit |-> "the bank"],
  queued  <- {u \in Unit : row[u] = "pending"},
  running <- IF handle \in Worker /\ w[handle].pc \in {"reconcile", "finish"}
               THEN w[handle].unit ELSE None

WorkersAreOne == NoJoinTimesOut => Abstract!Spec

(* stop: "Ask the worker to finish the current row and exit".  Every       *)
(* worker does, those given up on before too, if start is not called.      *)
StopIsObeyed == stopEvent ~> (~stopEvent \/ Alive = {})

(* "The worker thread must never die: if it does, every subsequent row     *)
(* sits at 'pending' forever".  Once a poller is started and not stopped,  *)
(* nothing is ingested and the database answers, no row stays pending.     *)
StartedForGood == <>[](ctl = "idle" /\ handle # None)
Calm == <>[][~Ingests /\ ~DbErrors]_vars

PendingIsDrained ==
  StartedForGood /\ Calm => \A u \in Unit : row[u] = "pending" ~> row[u] # "pending"
=============================================================================
