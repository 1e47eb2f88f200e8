------------------------------ MODULE Delivery ------------------------------
(***************************************************************************)
(* From a retain.completed event to the units that are ingested: the part  *)
(* of handle_event between the signature check and _ingest_units.  A       *)
(* handler thread reads Hindsight page by page while others retain into    *)
(* the same bank.  Handler threads share nothing before the ingest, so one *)
(* request at a time is modelled, against any activity of the bank.        *)
(***************************************************************************)
EXTENDS Integers, SequencesExt

CONSTANTS
  Unit,       \* memory units of one bank
  Document,
  None,       \* no document: the value of document_id of an observation
  DocOf,      \* the document of each unit, or None
  Limit,      \* units in a page
  MaxPages,   \* list_memory_units stops after that many pages
  Recent,     \* how many units list_recent_units returns
  Window,     \* FALLBACK_TIMESTAMP_WINDOW_SECONDS
  MaxTime,    \* bound on the clock
  MaxRetain   \* bound on the number of retains

ASSUME UnitsAreFinite == IsFiniteSet(Unit)
ASSUME NoneIsNoDocument == None \notin Document
ASSUME DocOfType == DocOf \in [Unit -> Document \cup {None}]
ASSUME Sizes ==
  /\ Limit \in Nat \ {0} /\ MaxPages \in Nat \ {0} /\ Recent \in Nat \ {0}
  /\ Window \in Nat /\ MaxTime \in Nat /\ MaxRetain \in Nat

VARIABLES
  clock,
  list,     \* per document, the units Hindsight lists for it, newest first
  log,      \* what was retained, in order: the document and the time
  batch,    \* the number of the retain that listed each unit
  broken,   \* the retains of which a unit is not listed any more
  req,      \* the request
  kept,     \* units of the document listed ever since the first page was read
  left,     \* how many units left the document since
  whole     \* the last page read was a short one

vars == <<clock, list, log, batch, broken, req, kept, left, whole>>
hindsight == <<clock, list, log, batch, broken>>
fetch == <<kept, left, whole>>

Group == Document \cup {None}

(* doc is None until it is known; own is the retain the event is about;    *)
(* timed: the payload and the recovered unit have a readable timestamp.    *)
Request == [pc    : {"idle", "recent", "page", "ingest"},
            own   : Nat,
            doc   : Group,
            timed : BOOLEAN,
            page  : 0..MaxPages,
            got   : SUBSET Unit]

Entry == [doc : Group, time : 0..MaxTime]

Idle == [pc |-> "idle", own |-> 0, doc |-> None, timed |-> FALSE, page |-> 0, got |-> {}]

At(pc) == req.pc = pc

Listed == {u \in Unit : u \in ToSet(list[DocOf[u]])}

-----------------------------------------------------------------------------
(* Hindsight.                                                              *)

Tick ==
  /\ clock < MaxTime
  /\ clock' = clock + 1
  /\ UNCHANGED <<list, log, batch, broken, req, fetch>>

(* Units of one document become the newest of the bank: a retain, or, for  *)
(* None, an observation derived from what was retained.                    *)
Facts(d) == {u \in Unit \ Listed : DocOf[u] = d}

Retain(d, s) ==
  /\ Len(log) < MaxRetain
  /\ d = None => log # <<>>
  /\ IsInjective(s)
  /\ list' = [list EXCEPT ![d] = s \o @]
  /\ log' = Append(log, [doc |-> d, time |-> clock])
  /\ batch' = [u \in Unit |-> IF u \in ToSet(s) THEN Len(log) + 1 ELSE batch[u]]
  /\ UNCHANGED <<clock, broken, req, fetch>>

(* A unit is not listed any more: invalidated, deleted or replaced.        *)
TakeOff(d, i) ==
  LET gone == list[d][i]
  IN /\ list' = [list EXCEPT ![d] = RemoveAt(@, i)]
     /\ broken' = broken \cup {batch[gone]}
     /\ IF At("page") /\ req.doc = d
          THEN kept' = kept \ {gone} /\ left' = left + 1
          ELSE UNCHANGED <<kept, left>>
     /\ UNCHANGED <<clock, log, batch, req, whole>>

-----------------------------------------------------------------------------
(* handle_event.                                                           *)

(* The event of retain n arrives, late or once more; its payload may lack  *)
(* the document and the timestamp.                                         *)
Arrive(n, named, timed) ==
  /\ At("idle")
  /\ log[n].doc # None
  /\ req' = [pc    |-> IF named THEN "page" ELSE "recent",
             own   |-> n,
             doc   |-> IF named THEN log[n].doc ELSE None,
             timed |-> timed,
             page  |-> 0,
             got   |-> {}]
  /\ kept' = {} /\ left' = 0 /\ whole' = FALSE
  /\ UNCHANGED hindsight

(* list_recent_units: the newest units of the bank.                        *)
Newest(top) ==
  /\ Cardinality(top) <= Recent
  /\ Cardinality(top) < Recent => top = Listed
  /\ \A u \in top, v \in Listed \ top : batch[u] >= batch[v]

(* Mutant: no abs(): only a unit older than the event is ever too far off. *)
WithinBefore(n, m) == log[n].time - log[m].time <= Window

(* _within_fallback_window, for the times of two retains.                  *)
Within(n, m) ==
  /\ log[n].time - log[m].time <= Window
  /\ log[m].time - log[n].time <= Window

(* Mutant: the newest unit counts, with a document or without.             *)
FirstOfAny(top) == {u \in top : \A v \in top : batch[v] <= batch[u]}

(* fetch_recent_doc: the first that has a document, if any.                *)
FirstWithDocument(top) ==
  {u \in top : /\ DocOf[u] # None
               /\ \A v \in top : DocOf[v] # None => batch[v] <= batch[u]}

(* The newest unit's document is taken for the event's.  No document, or   *)
(* one mentioned too long before or after: the event is skipped.           *)
Recover(top) ==
  /\ At("recent")
  /\ Newest(top)
  /\ IF FirstWithDocument(top) = {}
       THEN req' = Idle
       ELSE \E u \in FirstWithDocument(top) :
              req' = IF req.timed => Within(req.own, batch[u])
                       THEN [req EXCEPT !.pc = "page", !.doc = DocOf[u]]
                       ELSE Idle
  /\ UNCHANGED <<hindsight, fetch>>

(* The page of a list at an offset.                                        *)
Page(l, offset) ==
  SubSeq(l, offset + 1, IF Len(l) < offset + Limit THEN Len(l) ELSE offset + Limit)

(* Mutant: a full page, too, is taken for the last one.                    *)
ShortOrFull(page) == Len(page) <= Limit

Short(page) == Len(page) < Limit

(* One GET of list_memory_units; the pages are taken by position.          *)
FetchPage ==
  LET l == list[req.doc]
      page == Page(l, Limit * req.page)
  IN /\ At("page")
     /\ req' = [req EXCEPT
          !.page = @ + 1,
          !.got = @ \cup ToSet(page),
          !.pc = IF Short(page) \/ req.page + 1 = MaxPages THEN "ingest" ELSE "page"]
     /\ kept' = IF req.page = 0 THEN ToSet(l) ELSE kept
     /\ left' = IF req.page = 0 THEN 0 ELSE left
     /\ whole' = Short(page)
     /\ UNCHANGED hindsight

(* A request to Hindsight failed: the event is answered with 200 and gone. *)
ApiFails ==
  /\ At("recent") \/ At("page")
  /\ req' = Idle
  /\ UNCHANGED <<hindsight, fetch>>

(* _ingest_units gets the units: what it does with them is in Reconciler.  *)
Answer ==
  /\ At("ingest")
  /\ req' = Idle
  /\ UNCHANGED <<hindsight, fetch>>

-----------------------------------------------------------------------------
Init ==
  /\ clock = 0
  /\ list = [d \in Group |-> <<>>]
  /\ log = <<>>
  /\ batch = [u \in Unit |-> 0]
  /\ broken = {}
  /\ req = Idle
  /\ kept = {} /\ left = 0 /\ whole = FALSE

Bank ==
  \/ Tick
  \/ \E d \in Group : \E k \in 1..Cardinality(Facts(d)) : \E s \in [1..k -> Facts(d)] : Retain(d, s)
  \/ \E d \in Group : \E i \in 1..Len(list[d]) : TakeOff(d, i)

Handler ==
  \/ \E n \in 1..Len(log) : \E named, timed \in BOOLEAN : Arrive(n, named, timed)
  \/ \E top \in SUBSET Listed : Recover(top)
  \/ FetchPage
  \/ ApiFails
  \/ Answer

Next == Bank \/ Handler

Spec == Init /\ [][Next]_vars

-----------------------------------------------------------------------------
(* Properties.                                                             *)

TypeOK ==
  /\ clock \in 0..MaxTime
  /\ list \in [Group -> Seq(Unit)]
  /\ log \in Seq(Entry)
  /\ batch \in [Unit -> Nat]
  /\ broken \in SUBSET Nat
  /\ req \in Request
  /\ At("page") \/ At("ingest") => req.doc \in Document
  /\ kept \in SUBSET Unit
  /\ left \in Nat
  /\ whole \in BOOLEAN

(* "the race is rare": a document recovered for an event without one is    *)
(* the event's own, unless the bank retained the other document after it,  *)
(* within the window, or a unit of the event's retain was taken off the    *)
(* list meanwhile, and then the other document is still within the window. *)
RecoveredIsOwn ==
  (At("page") \/ At("ingest")) /\ req.doc # log[req.own].doc =>
    \E m \in 1..Len(log) :
      /\ log[m].doc = req.doc
      /\ req.timed => log[m].time - log[req.own].time \in (-Window)..Window
      /\ m > req.own \/ req.own \in broken

(* list_memory_units reads by position a list that changes meanwhile: of   *)
(* the units that were listed all the time it misses at most as many as    *)
(* left the list, and none if the list only grew, unless it was cut off at *)
(* its ceiling of pages.                                                   *)
FetchMissesOnlyWhatLeft ==
  At("ingest") /\ whole => Cardinality(kept \ req.got) <= left
=============================================================================
