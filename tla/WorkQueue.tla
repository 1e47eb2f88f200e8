----------------------------- MODULE WorkQueue ------------------------------
(***************************************************************************)
(* What memory_units and its poller are meant to be: a set of items that   *)
(* wait, and a single worker that takes them one at a time.  Any worker    *)
(* item may throw out waiting items of its own group, and is lost when the *)
(* process dies.                                                           *)
(***************************************************************************)
CONSTANTS
  Item,    \* what can be queued
  Nobody,  \* the worker is free
  Group    \* the group of each item

VARIABLES
  queued,  \* the items that wait
  running  \* the item the worker is at, or Nobody

avars == <<queued, running>>

Free == running = Nobody

Init == queued = {} /\ running = Nobody

(* A new or changed item; one the worker is at waits for its next turn.    *)
Put(k) ==
  /\ queued' = queued \cup {k}
  /\ UNCHANGED running

Take(k) ==
  /\ Free
  /\ k \in queued
  /\ queued' = queued \ {k}
  /\ running' = k

ThrowOut(d) ==
  /\ ~Free
  /\ \A k \in d : Group[k] = Group[running]
  /\ queued' = queued \ d
  /\ UNCHANGED running

(* Done with an item, one way or the other: it does not wait any more.     *)
Finish ==
  /\ ~Free
  /\ queued' = queued \ {running}
  /\ running' = Nobody

(* The worker dies, or its last act on the queue fails halfway: the item   *)
(* is lost, unless it was put again, and some may just have been thrown    *)
(* out.                                                                    *)
Lose(d) ==
  /\ ~Free
  /\ \A k \in d : Group[k] = Group[running]
  /\ queued' = queued \ d
  /\ running' = Nobody

(* The worker took an item and failed before it could begin.               *)
Mislay(k) ==
  /\ Free
  /\ k \in queued
  /\ queued' = queued \ {k}
  /\ UNCHANGED running

Next ==
  \/ \E k \in Item : Put(k) \/ Take(k) \/ Mislay(k)
  \/ \E d \in SUBSET queued : ThrowOut(d) \/ Lose(d)
  \/ Finish

Spec == Init /\ [][Next]_avars
=============================================================================
