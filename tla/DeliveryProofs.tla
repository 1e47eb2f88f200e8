--------------------------- MODULE DeliveryProofs ---------------------------
(***************************************************************************)
(* Theorems about Delivery, for every bank, page size and window.          *)
(***************************************************************************)
EXTENDS Delivery, SequenceTheorems, FiniteSetTheorems, TLAPS

LEMMA PutBefore ==
  ASSUME NEW S, NEW s \in Seq(S), NEW l \in Seq(S)
  PROVE  /\ s \o l \in Seq(S)
         /\ Len(s \o l) = Len(s) + Len(l)
         /\ \A i \in 1..Len(s \o l) : (s \o l)[i] = IF i <= Len(s) THEN s[i] ELSE l[i - Len(s)]
BY ConcatProperties

LEMMA TakeOut ==
  ASSUME NEW S, NEW l \in Seq(S), NEW i \in 1..Len(l)
  PROVE  /\ RemoveAt(l, i) \in Seq(S)
         /\ Len(RemoveAt(l, i)) = Len(l) - 1
         /\ \A j \in 1..(Len(l) - 1) : RemoveAt(l, i)[j] = IF j < i THEN l[j] ELSE l[j + 1]
<1> DEFINE a == SubSeq(l, 1, i - 1)
           b == SubSeq(l, i + 1, Len(l))
<1>1. a \in Seq(S) /\ Len(a) = i - 1 /\ \A j \in 1..(i - 1) : a[j] = l[j]
  BY SubSeqProperties
<1>2. b \in Seq(S) /\ Len(b) = Len(l) - i /\ \A j \in 1..(Len(l) - i) : b[j] = l[i + j]
  BY SubSeqProperties
<1> HIDE DEF a, b
<1>3. a \o b \in Seq(S) /\ Len(a \o b) = Len(l) - 1
  <2>1. a \o b \in Seq(S) /\ Len(a \o b) = Len(a) + Len(b)
    BY <1>1, <1>2, PutBefore
  <2>2. QED
    BY <1>1, <1>2, <2>1
<1>4. ASSUME NEW j \in 1..(Len(l) - 1)
      PROVE  (a \o b)[j] = IF j < i THEN l[j] ELSE l[j + 1]
  BY <1>1, <1>2, PutBefore
<1>5. RemoveAt(l, i) = a \o b
  BY DEF RemoveAt, a, b
<1>6. QED
  BY <1>3, <1>4, <1>5

LEMMA PageContents ==
  ASSUME NEW l \in Seq(Unit), NEW n \in Nat
  PROVE  /\ ToSet(Page(l, n)) = {l[i] : i \in {j \in 1..Len(l) : n < j /\ j <= n + Limit}}
         /\ Short(Page(l, n)) <=> Len(l) < n + Limit
<1> USE Sizes
<1> DEFINE m == IF Len(l) < n + Limit THEN Len(l) ELSE n + Limit
           page == SubSeq(l, n + 1, m)
<1>1. m \in Nat /\ \A i \in (n + 1)..m : l[i] \in Unit
  OBVIOUS
<1>2. /\ page \in Seq(Unit)
      /\ Len(page) = IF n + 1 <= m THEN m - n ELSE 0
      /\ \A i \in 1..(m - n) : page[i] = l[n + i]
  BY <1>1, SubSeqProperties
<1>3. Page(l, n) = page
  BY DEF Page
<1> HIDE DEF page
<1>4. ToSet(page) = {page[i] : i \in 1..Len(page)}
  BY <1>2 DEF ToSet
<1> DEFINE Here == {l[i] : i \in {j \in 1..Len(l) : n < j /\ j <= n + Limit}}
<1>5. ToSet(page) = Here
  <2>1. ASSUME NEW i \in 1..Len(page)
        PROVE  page[i] = l[n + i] /\ n + i \in 1..Len(l) /\ n < n + i /\ n + i <= n + Limit
    BY <1>2
  <2>2. ASSUME NEW j \in 1..Len(l), n < j, j <= n + Limit
        PROVE  j - n \in 1..Len(page) /\ l[j] = page[j - n]
    <3>1. j <= m /\ j - n \in 1..(m - n)
      BY <2>2
    <3>2. page[j - n] = l[n + (j - n)] /\ n + (j - n) = j
      BY <1>2, <3>1
    <3>3. QED
      BY <1>1, <1>2, <3>1, <3>2
  <2>3. \A v \in ToSet(page) : v \in Here
    BY <1>4, <2>1
  <2>4. \A v \in Here : v \in ToSet(page)
    BY <1>4, <2>2
  <2>5. QED
    BY <2>3, <2>4
<1>6. Short(page) <=> Len(l) < n + Limit
  BY <1>2 DEF Short
<1>7. QED
  BY <1>3, <1>5, <1>6

-----------------------------------------------------------------------------
(* Types.                                                                  *)

TypeInv ==
  /\ TypeOK
  /\ At("recent") => req.page = 0
  /\ At("page") => req.page < MaxPages

(* A retain takes a nonempty sequence of units of one document.            *)
LEMMA RetainedFacts ==
  ASSUME NEW d \in Group, NEW k \in 1..Cardinality(Facts(d)), NEW s \in [1..k -> Facts(d)]
  PROVE  /\ s \in Seq(Unit) /\ s # <<>> /\ Len(s) >= 1
         /\ \A i \in 1..Len(s) : s[i] \in Unit \ Listed /\ DocOf[s[i]] = d
<1>1. IsFiniteSet(Facts(d))
  BY UnitsAreFinite, FS_Subset DEF Facts
<1>2. Cardinality(Facts(d)) \in Nat
  BY <1>1, FS_CardinalityType
<1>3. k \in Nat /\ k >= 1
  BY <1>2
<1>4. Facts(d) \subseteq Unit
  BY DEF Facts
<1>5. s \in Seq(Unit) /\ Len(s) = k
  BY <1>3, <1>4
<1>6. QED
  BY <1>3, <1>5 DEF Facts

LEMMA TypeInit == Init => TypeInv
<1> SUFFICES ASSUME Init PROVE TypeInv
  OBVIOUS
<1>1. <<>> \in Seq(Unit) /\ <<>> \in Seq(Entry)
  BY EmptySeq
<1>2. req \in Request /\ ~At("page") /\ ~At("recent") /\ ~At("ingest")
  BY Sizes DEF Init, Idle, Request, Group, At
<1>3. list \in [Group -> Seq(Unit)] /\ log \in Seq(Entry) /\ batch \in [Unit -> Nat]
  BY <1>1 DEF Init
<1>4. whole \in BOOLEAN
  BY DEF Init
<1>5. QED
  BY <1>2, <1>3, <1>4, Sizes DEF Init, TypeInv, TypeOK

LEMMA TypeStep ==
  ASSUME TypeInv, [Next]_vars
  PROVE  TypeInv'
<1> USE Sizes, NoneIsNoDocument, DocOfType DEF TypeInv, At
<1>0. Idle \in Request
  BY DEF Idle, Request, Group
<1>1. CASE Tick
  BY <1>1 DEF Tick, TypeOK, fetch
<1>2. ASSUME NEW d \in Group, NEW k \in 1..Cardinality(Facts(d)), NEW s \in [1..k -> Facts(d)],
             Retain(d, s)
      PROVE  TypeInv'
  <2>1. s \in Seq(Unit)
    BY RetainedFacts
  <2>2. list' \in [Group -> Seq(Unit)]
    <3>1. s \o list[d] \in Seq(Unit)
      BY <2>1, PutBefore DEF TypeOK
    <3>2. QED
      BY <1>2, <3>1 DEF Retain, TypeOK
  <2>3. log' \in Seq(Entry)
    <3>1. [doc |-> d, time |-> clock] \in Entry
      BY DEF Entry, TypeOK
    <3>2. QED
      BY <1>2, <3>1, AppendProperties DEF Retain, TypeOK
  <2>4. batch' \in [Unit -> Nat]
    BY <1>2 DEF Retain, TypeOK
  <2>5. QED
    BY <1>2, <2>2, <2>3, <2>4 DEF Retain, TypeOK, fetch
<1>3. ASSUME NEW d \in Group, NEW i \in 1..Len(list[d]), TakeOff(d, i)
      PROVE  TypeInv'
  <2>1. list[d] \in Seq(Unit) /\ list[d][i] \in Unit
    BY DEF TypeOK
  <2>2. list' \in [Group -> Seq(Unit)]
    BY <1>3, <2>1, TakeOut DEF TakeOff, TypeOK
  <2>3. broken' \in SUBSET Nat /\ kept' \in SUBSET Unit /\ left' \in Nat
    <3>1. batch[list[d][i]] \in Nat
      BY <2>1 DEF TypeOK
    <3>2. /\ broken' = broken \cup {batch[list[d][i]]}
          /\ \/ kept' = kept \ {list[d][i]} /\ left' = left + 1
             \/ kept' = kept /\ left' = left
      BY <1>3 DEF TakeOff
    <3>3. broken' \in SUBSET Nat
      BY <3>1, <3>2 DEF TypeOK
    <3>4. kept' \in SUBSET Unit /\ left' \in Nat
      BY <3>2 DEF TypeOK
    <3>5. QED
      BY <3>3, <3>4
  <2>4. QED
    BY <1>3, <2>2, <2>3 DEF TakeOff, TypeOK
<1>4. ASSUME NEW n \in 1..Len(log), NEW named \in BOOLEAN, NEW timed \in BOOLEAN,
             Arrive(n, named, timed)
      PROVE  TypeInv'
  <2>1. log[n] \in Entry /\ n \in Nat
    BY ElementOfSeq DEF TypeOK
  <2>2. log[n].doc \in Document
    BY <1>4, <2>1 DEF Arrive, Group, Entry
  <2>3. req' \in Request
    BY <1>4, <2>1, <2>2 DEF Arrive, Idle, Request, Group
  <2>4. req'.page = 0 /\ (req'.pc = "page" => req'.doc \in Document) /\ req'.pc # "ingest"
    BY <1>4, <2>2 DEF Arrive
  <2>5. whole' \in BOOLEAN /\ kept' = {} /\ left' = 0 /\ UNCHANGED hindsight
    BY <1>4 DEF Arrive
  <2>6. QED
    BY <2>3, <2>4, <2>5 DEF TypeOK, hindsight
<1>5. ASSUME NEW top \in SUBSET Listed, Recover(top)
      PROVE  TypeInv'
  <2>1. CASE req' = Idle
    BY <1>0, <1>5, <2>1 DEF Recover, TypeOK, Idle, hindsight, fetch
  <2>2. ASSUME NEW u \in FirstWithDocument(top),
               req' = [req EXCEPT !.pc = "page", !.doc = DocOf[u]]
        PROVE  TypeInv'
    <3>1. DocOf[u] \in Document
      BY DEF FirstWithDocument, Listed, Group
    <3>2. req.page = 0
      BY <1>5 DEF Recover
    <3>3. req' \in Request
      BY <2>2, <3>1 DEF TypeOK, Request, Group
    <3>4. req'.pc = "page" /\ req'.doc = DocOf[u] /\ req'.page = 0
      BY <2>2, <3>2 DEF TypeOK, Request
    <3>5. UNCHANGED <<hindsight, fetch>>
      BY <1>5 DEF Recover
    <3>6. QED
      BY <3>1, <3>2, <3>3, <3>4, <3>5 DEF TypeOK, hindsight, fetch
  <2>3. QED
    BY <1>5, <2>1, <2>2 DEF Recover
<1>6. CASE FetchPage
  <2> DEFINE l == list[req.doc]
             page == Page(l, Limit * req.page)
             pc == IF Short(page) \/ req.page + 1 = MaxPages THEN "ingest" ELSE "page"
  <2>1. req.doc \in Document /\ l \in Seq(Unit) /\ req.page \in Nat /\ req.page < MaxPages
    BY <1>6 DEF FetchPage, TypeOK, Request, Group
  <2>2. ToSet(l) \subseteq Unit
    BY <2>1 DEF ToSet
  <2>3. ToSet(page) \subseteq Unit
    <3>1. Limit * req.page \in Nat
      BY <2>1
    <3>2. ToSet(page) = {l[i] : i \in {j \in 1..Len(l) : Limit * req.page < j /\ j <= Limit * req.page + Limit}}
      BY <2>1, <3>1, PageContents
    <3>3. QED
      BY <2>1, <3>2
  <2>4. /\ req' = [req EXCEPT !.page = req.page + 1, !.got = req.got \cup ToSet(page), !.pc = pc]
        /\ kept' = IF req.page = 0 THEN ToSet(l) ELSE kept
        /\ left' = IF req.page = 0 THEN 0 ELSE left
        /\ whole' = Short(page)
        /\ UNCHANGED hindsight
    BY <1>6 DEF FetchPage
  <2>5. whole' \in BOOLEAN
    BY <2>4 DEF Short
  <2> HIDE DEF l, page
  <2>6. req' \in Request /\ req'.doc = req.doc /\ req'.pc = pc /\ req'.page = req.page + 1
    <3>1. req' = [pc |-> pc, own |-> req.own, doc |-> req.doc, timed |-> req.timed,
                  page |-> req.page + 1, got |-> req.got \cup ToSet(page)]
      BY <2>4 DEF TypeOK, Request
    <3>2. req.page + 1 \in 0..MaxPages /\ req.got \cup ToSet(page) \in SUBSET Unit
      BY <2>1, <2>3 DEF TypeOK, Request
    <3>3. pc \in {"page", "ingest"}
      OBVIOUS
    <3> HIDE DEF pc
    <3>4. QED
      BY <3>1, <3>2, <3>3 DEF TypeOK, Request
  <2>7. kept' \in SUBSET Unit /\ left' \in Nat
    BY <2>2, <2>4 DEF TypeOK
  <2>8. pc = "page" => req.page + 1 # MaxPages
    OBVIOUS
  <2>9. pc \in {"page", "ingest"}
    OBVIOUS
  <2> HIDE DEF pc
  <2>10. /\ At("page")' \/ At("ingest")' => req'.doc \in Document
         /\ At("page")' => req'.page < MaxPages
         /\ ~At("recent")'
    BY <2>1, <2>6, <2>8, <2>9
  <2>11. QED
    BY <2>4, <2>5, <2>6, <2>7, <2>10 DEF TypeOK, hindsight
<1>7. CASE ApiFails \/ Answer
  <2>1. req' = Idle /\ UNCHANGED <<hindsight, fetch>>
    BY <1>7 DEF ApiFails, Answer
  <2>2. QED
    BY <1>0, <2>1 DEF TypeOK, Idle, hindsight, fetch
<1>8. CASE UNCHANGED vars
  BY <1>8 DEF vars, TypeOK
<1>9. QED
  BY <1>1, <1>2, <1>3, <1>4, <1>5, <1>6, <1>7, <1>8 DEF Next, Bank, Handler

(* Every variable keeps its type; a page is asked for below the ceiling    *)
(* only, and for a document.                                               *)
THEOREM TypeCorrect == Spec => []TypeOK
<1>1. TypeInv /\ [Next]_vars => TypeInv'
  BY TypeStep
<1>2. TypeInv => TypeOK
  BY DEF TypeInv
<1>3. QED
  BY TypeInit, <1>1, <1>2, PTL DEF Spec

-----------------------------------------------------------------------------
(* Lists as sets.                                                          *)

LEMMA Members ==
  ASSUME NEW S, NEW s \in Seq(S)
  PROVE  ToSet(s) = {s[i] : i \in 1..Len(s)}
BY DEF ToSet

LEMMA MembersPut ==
  ASSUME NEW S, NEW s \in Seq(S), NEW l \in Seq(S)
  PROVE  ToSet(s \o l) = ToSet(s) \cup ToSet(l)
<1> DEFINE c == s \o l
<1>1. /\ c \in Seq(S) /\ Len(c) = Len(s) + Len(l)
      /\ \A i \in 1..Len(c) : c[i] = IF i <= Len(s) THEN s[i] ELSE l[i - Len(s)]
  BY PutBefore
<1> HIDE DEF c
<1>2. ToSet(c) = {c[i] : i \in 1..Len(c)} /\ ToSet(s) = {s[i] : i \in 1..Len(s)}
      /\ ToSet(l) = {l[i] : i \in 1..Len(l)}
  BY <1>1, Members
<1>3. Len(s) \in Nat /\ Len(l) \in Nat
  OBVIOUS
<1>4. ASSUME NEW i \in 1..Len(c)
      PROVE  c[i] \in ToSet(s) \cup ToSet(l)
  BY <1>1, <1>2, <1>3
<1>5. ASSUME NEW i \in 1..Len(s)
      PROVE  s[i] \in ToSet(c)
  <2>1. i \in 1..Len(c) /\ c[i] = s[i]
    BY <1>1, <1>3
  <2>2. QED
    BY <1>2, <2>1
<1>6. ASSUME NEW i \in 1..Len(l)
      PROVE  l[i] \in ToSet(c)
  <2>1. i + Len(s) \in 1..Len(c) /\ c[i + Len(s)] = l[i]
    BY <1>1, <1>3
  <2>2. QED
    BY <1>2, <2>1
<1>7. QED
  BY <1>2, <1>4, <1>5, <1>6 DEF c

LEMMA MembersLeft ==
  ASSUME NEW S, NEW l \in Seq(S), NEW i \in 1..Len(l)
  PROVE  /\ ToSet(RemoveAt(l, i)) \subseteq ToSet(l)
         /\ \A v \in ToSet(l) : v # l[i] => v \in ToSet(RemoveAt(l, i))
<1> DEFINE r == RemoveAt(l, i)
<1>1. /\ r \in Seq(S) /\ Len(r) = Len(l) - 1
      /\ \A j \in 1..(Len(l) - 1) : r[j] = IF j < i THEN l[j] ELSE l[j + 1]
  BY TakeOut
<1> HIDE DEF r
<1>2. ToSet(r) = {r[j] : j \in 1..Len(r)} /\ ToSet(l) = {l[j] : j \in 1..Len(l)}
  BY <1>1, Members
<1>3. Len(l) \in Nat
  OBVIOUS
<1>4. ASSUME NEW j \in 1..Len(r)
      PROVE  r[j] \in ToSet(l)
  <2>1. j \in 1..Len(l) /\ j + 1 \in 1..Len(l)
    BY <1>1, <1>3
  <2>2. QED
    BY <1>1, <1>2, <1>3, <2>1
<1>5. ASSUME NEW j \in 1..Len(l), l[j] # l[i]
      PROVE  l[j] \in ToSet(r)
  <2>1. CASE j < i
    <3>1. j \in 1..Len(r) /\ r[j] = l[j]
      BY <1>1, <1>3, <2>1
    <3>2. QED
      BY <1>2, <3>1
  <2>2. CASE j > i
    <3>1. j - 1 \in 1..Len(r) /\ r[j - 1] = l[j]
      BY <1>1, <1>3, <2>2
    <3>2. QED
      BY <1>2, <3>1
  <2>3. QED
    BY <1>5, <2>1, <2>2
<1>6. QED
  BY <1>2, <1>4, <1>5 DEF r

-----------------------------------------------------------------------------
(* Recovery.  Every unit that is listed knows its retain, and every retain *)
(* of which no unit was taken off still has one on the list; so the newest *)
(* unit with a document is the event's or of a later retain.               *)

Dated ==
  \A u \in Listed : batch[u] \in 1..Len(log) /\ log[batch[u]].doc = DocOf[u]

Represented ==
  \A n \in 1..Len(log) : n \in broken \/ \E u \in Listed : batch[u] = n

OwnKnown == ~At("idle") => req.own \in 1..Len(log) /\ log[req.own].doc \in Document

RecoveryInv == TypeInv /\ Dated /\ Represented /\ OwnKnown /\ RecoveredIsOwn

LogGrows ==
  /\ Len(log) <= Len(log')
  /\ \A n \in 1..Len(log) : log'[n] = log[n]
  /\ broken \subseteq broken'

(* A request that has its document, or gets none in this step.             *)
Fetching == At("page") \/ At("ingest")

LEMMA RetainListed ==
  ASSUME TypeInv, NEW d \in Group, NEW k \in 1..Cardinality(Facts(d)), NEW s \in [1..k -> Facts(d)],
         Retain(d, s)
  PROVE  Listed' = Listed \cup ToSet(s) /\ ToSet(s) # {} /\ ToSet(s) \subseteq Facts(d)
<1>1. s \in Seq(Unit) /\ Len(s) >= 1 /\ \A i \in 1..Len(s) : s[i] \in Unit \ Listed /\ DocOf[s[i]] = d
  BY RetainedFacts
<1>2. ToSet(s) = {s[i] : i \in 1..Len(s)}
  BY <1>1, Members
<1>3. ToSet(s) # {} /\ ToSet(s) \subseteq Facts(d)
  BY <1>1, <1>2 DEF Facts
<1>4. ASSUME NEW e \in Group
      PROVE  ToSet(list'[e]) = IF e = d THEN ToSet(s) \cup ToSet(list[e]) ELSE ToSet(list[e])
  <2>1. list'[e] = IF e = d THEN s \o list[e] ELSE list[e]
    BY DEF Retain, TypeInv, TypeOK
  <2>2. list[e] \in Seq(Unit)
    BY DEF TypeInv, TypeOK
  <2>3. ToSet(s \o list[e]) = ToSet(s) \cup ToSet(list[e])
    BY <1>1, <2>2, MembersPut
  <2>4. QED
    BY <2>1, <2>3
<1>5. \A u \in Unit : DocOf[u] \in Group
  BY DocOfType DEF Group
<1>6. \A u \in Unit : u \in Listed' <=> u \in ToSet(list'[DocOf[u]])
  BY DEF Listed
<1>7. \A u \in Unit : u \in Listed <=> u \in ToSet(list[DocOf[u]])
  BY DEF Listed
<1>8. Listed' \subseteq Unit /\ Listed \subseteq Unit
  BY DEF Listed
<1>9. ASSUME NEW u \in Unit
      PROVE  u \in Listed' <=> u \in Listed \/ u \in ToSet(s)
  <2>1. CASE DocOf[u] = d
    BY <1>4, <1>5, <1>6, <1>7, <2>1
  <2>2. CASE DocOf[u] # d
    <3>1. u \notin ToSet(s)
      BY <1>3, <2>2 DEF Facts
    <3>2. QED
      BY <1>4, <1>5, <1>6, <1>7, <2>2, <3>1
  <2>3. QED
    BY <2>1, <2>2
<1>10. ToSet(s) \subseteq Unit
  BY <1>3 DEF Facts
<1>11. QED
  BY <1>3, <1>8, <1>9, <1>10

LEMMA TakeOffListed ==
  ASSUME TypeInv, NEW d \in Group, NEW i \in 1..Len(list[d]), TakeOff(d, i)
  PROVE  Listed' \subseteq Listed /\ \A u \in Listed : u # list[d][i] => u \in Listed'
<1>1. ASSUME NEW e \in Group
      PROVE  /\ ToSet(list'[e]) \subseteq ToSet(list[e])
             /\ \A v \in ToSet(list[e]) : v # list[d][i] => v \in ToSet(list'[e])
  <2>1. list'[e] = IF e = d THEN RemoveAt(list[e], i) ELSE list[e]
    BY DEF TakeOff, TypeInv, TypeOK
  <2>2. list[e] \in Seq(Unit)
    BY DEF TypeInv, TypeOK
  <2>3. QED
    BY <2>1, <2>2, MembersLeft
<1>2. \A u \in Unit : DocOf[u] \in Group
  BY DocOfType DEF Group
<1>3. QED
  BY <1>1, <1>2 DEF Listed

(* A step that leaves the document of a request alone.                     *)
LEMMA StillOwn ==
  ASSUME TypeInv, OwnKnown, RecoveredIsOwn, LogGrows,
         log' \in Seq(Entry),
         Fetching' => /\ Fetching
                      /\ req'.own = req.own /\ req'.doc = req.doc /\ req'.timed = req.timed
  PROVE  RecoveredIsOwn'
<1> SUFFICES ASSUME Fetching', req'.doc # log'[req'.own].doc
             PROVE  \E m \in 1..Len(log') :
                      /\ log'[m].doc = req'.doc
                      /\ req'.timed => log'[m].time - log'[req'.own].time \in (-Window)..Window
                      /\ m > req'.own \/ req'.own \in broken'
  BY DEF RecoveredIsOwn, Fetching
<1>1. req.own \in 1..Len(log) /\ log'[req.own] = log[req.own]
  BY DEF Fetching, OwnKnown, At, LogGrows
<1>2. PICK m \in 1..Len(log) :
        /\ log[m].doc = req.doc
        /\ req.timed => log[m].time - log[req.own].time \in (-Window)..Window
        /\ m > req.own \/ req.own \in broken
  BY <1>1 DEF RecoveredIsOwn, Fetching
<1>3. m \in 1..Len(log') /\ log'[m] = log[m]
  BY DEF LogGrows, TypeInv, TypeOK
<1>4. QED
  BY <1>1, <1>2, <1>3 DEF LogGrows
(* The newest of the top units is not older than the event's own retain.   *)
LEMMA NewestIsNotOlder ==
  ASSUME RecoveryInv, At("recent"), NEW top \in SUBSET Listed, Newest(top),
         NEW u \in FirstWithDocument(top)
  PROVE  req.own \in broken \/ batch[u] >= req.own
<1> SUFFICES ASSUME req.own \notin broken PROVE batch[u] >= req.own
  OBVIOUS
<1>1. req.own \in 1..Len(log) /\ log[req.own].doc \in Document
  BY DEF RecoveryInv, OwnKnown, At
<1>2. PICK v \in Listed : batch[v] = req.own
  BY <1>1 DEF RecoveryInv, Represented
<1>3. DocOf[v] # None
  BY <1>1, <1>2, NoneIsNoDocument DEF RecoveryInv, Dated
<1>4. u \in top /\ u \in Listed /\ batch[u] \in Nat /\ batch[v] \in Nat
  BY DEF FirstWithDocument, Listed, RecoveryInv, TypeInv, TypeOK
<1>5. CASE v \in top
  BY <1>2, <1>3, <1>4, <1>5 DEF FirstWithDocument
<1>6. CASE v \notin top
  BY <1>2, <1>4, <1>6 DEF Newest
<1>7. QED
  BY <1>5, <1>6

LEMMA RecoverStep ==
  ASSUME RecoveryInv, At("recent"), NEW top \in SUBSET Listed, Newest(top),
         NEW u \in FirstWithDocument(top),
         req.timed => Within(req.own, batch[u]),
         req'.own = req.own, req'.doc = DocOf[u], req'.timed = req.timed,
         UNCHANGED hindsight
  PROVE  RecoveredIsOwn'
<1> SUFFICES ASSUME DocOf[u] # log[req.own].doc
             PROVE  \E m \in 1..Len(log) :
                      /\ log[m].doc = DocOf[u]
                      /\ req.timed => log[m].time - log[req.own].time \in (-Window)..Window
                      /\ m > req.own \/ req.own \in broken
  BY DEF RecoveredIsOwn, hindsight
<1>1. u \in Listed /\ batch[u] \in 1..Len(log) /\ log[batch[u]].doc = DocOf[u]
  BY DEF FirstWithDocument, RecoveryInv, Dated
<1>2. req.own \in 1..Len(log)
  BY DEF RecoveryInv, OwnKnown, At
<1>3. batch[u] > req.own \/ req.own \in broken
  BY <1>1, <1>2, NewestIsNotOlder
<1>4. \A n \in 1..Len(log) : log[n].time \in Int
  <2>1. ASSUME NEW n \in 1..Len(log) PROVE log[n] \in Entry
    BY ElementOfSeq DEF RecoveryInv, TypeInv, TypeOK
  <2>2. QED
    BY <2>1, Sizes DEF Entry
<1>5. req.timed => log[batch[u]].time - log[req.own].time \in (-Window)..Window
  BY <1>1, <1>2, <1>4, Sizes DEF Within
<1>6. QED
  BY <1>1, <1>3, <1>5

LEMMA BankStill ==
  ASSUME Dated, Represented, UNCHANGED <<list, log, batch, broken>>
  PROVE  Dated' /\ Represented' /\ LogGrows
<1>1. Listed' = Listed
  BY DEF Listed
<1>2. QED
  BY <1>1 DEF Dated, Represented, LogGrows

LEMMA RecoveryStep ==
  ASSUME RecoveryInv, [Next]_vars
  PROVE  RecoveryInv'
<1>0. TypeInv' /\ log' \in Seq(Entry)
  BY TypeStep DEF RecoveryInv, TypeInv, TypeOK
<1> USE <1>0
<1>1. ASSUME NEW d \in Group, NEW k \in 1..Cardinality(Facts(d)), NEW s \in [1..k -> Facts(d)],
             Retain(d, s)
      PROVE  RecoveryInv'
  <2>1. Listed' = Listed \cup ToSet(s) /\ ToSet(s) # {} /\ ToSet(s) \subseteq Facts(d)
    BY <1>1, RetainListed DEF RecoveryInv
  <2>2. /\ Len(log') = Len(log) + 1
        /\ \A n \in 1..Len(log) : log'[n] = log[n]
        /\ log'[Len(log) + 1] = [doc |-> d, time |-> clock]
        /\ Len(log) \in Nat
    BY <1>1, AppendProperties DEF Retain, RecoveryInv, TypeInv, TypeOK
  <2>3. batch' = [u \in Unit |-> IF u \in ToSet(s) THEN Len(log) + 1 ELSE batch[u]] /\ req' = req
        /\ broken' = broken
    BY <1>1 DEF Retain
  <2>4. \A u \in ToSet(s) : u \in Unit /\ u \notin Listed /\ DocOf[u] = d
    BY <2>1 DEF Facts
  <2>5. \A u \in Listed : u \in Unit /\ batch'[u] = batch[u]
    BY <2>3, <2>4 DEF Listed
  <2>6. Dated'
    BY <2>1, <2>2, <2>3, <2>4, <2>5 DEF RecoveryInv, Dated
  <2>7. Represented'
    <3>1. ASSUME NEW n \in 1..Len(log)
          PROVE  n \in broken \/ \E u \in Listed' : batch'[u] = n
      BY <2>1, <2>5 DEF RecoveryInv, Represented
    <3>2. \E u \in Listed' : batch'[u] = Len(log) + 1
      BY <2>1, <2>3, <2>4
    <3>3. \A n \in 1..Len(log') : n \in 1..Len(log) \/ n = Len(log) + 1
      BY <2>2
    <3>4. \A n \in 1..Len(log') : n \in broken' \/ \E u \in Listed' : batch'[u] = n
      BY <2>3, <3>1, <3>2, <3>3
    <3>5. QED
      BY <3>4 DEF Represented
  <2>8. LogGrows
    BY <2>2, <2>3 DEF LogGrows
  <2>9. OwnKnown'
    BY <2>2, <2>3 DEF RecoveryInv, OwnKnown, At
  <2>10. RecoveredIsOwn'
    BY <2>3, <2>8, StillOwn DEF RecoveryInv, Fetching, At
  <2>11. QED
    BY <2>6, <2>7, <2>9, <2>10 DEF RecoveryInv
<1>2. ASSUME NEW d \in Group, NEW i \in 1..Len(list[d]), TakeOff(d, i)
      PROVE  RecoveryInv'
  <2>1. Listed' \subseteq Listed /\ \A u \in Listed : u # list[d][i] => u \in Listed'
    BY <1>2, TakeOffListed DEF RecoveryInv
  <2>2. broken' = broken \cup {batch[list[d][i]]} /\ UNCHANGED <<log, batch, req>>
    BY <1>2 DEF TakeOff
  <2>3. Dated' /\ Represented'
    BY <2>1, <2>2 DEF RecoveryInv, Dated, Represented
  <2>4. LogGrows
    BY <2>2 DEF LogGrows, RecoveryInv, TypeInv, TypeOK
  <2>5. OwnKnown' /\ RecoveredIsOwn'
    BY <2>2, <2>4, StillOwn DEF RecoveryInv, OwnKnown, Fetching, At
  <2>6. QED
    BY <2>3, <2>5 DEF RecoveryInv
<1>3. ASSUME UNCHANGED <<list, log, batch, broken>>,
             ~At("idle")' => ~At("idle") /\ req'.own = req.own,
             Fetching' => Fetching /\ req'.own = req.own /\ req'.doc = req.doc /\ req'.timed = req.timed
      PROVE  RecoveryInv'
  <2>1. Dated' /\ Represented' /\ LogGrows
    BY <1>3, BankStill DEF RecoveryInv
  <2>2. OwnKnown'
    BY <1>3 DEF RecoveryInv, OwnKnown
  <2>3. RecoveredIsOwn'
    BY <1>3, <2>1, StillOwn DEF RecoveryInv
  <2>4. QED
    BY <2>1, <2>2, <2>3 DEF RecoveryInv
<1>4. CASE Tick \/ UNCHANGED vars
  BY <1>3, <1>4 DEF Tick, vars, At, Fetching
<1>5. CASE ApiFails \/ Answer
  BY <1>3, <1>5 DEF ApiFails, Answer, hindsight, At, Fetching, Idle
<1>6. CASE FetchPage
  <2>1. /\ UNCHANGED hindsight /\ At("page")
        /\ req'.own = req.own /\ req'.doc = req.doc /\ req'.timed = req.timed
    BY <1>6 DEF FetchPage, RecoveryInv, TypeInv, TypeOK, Request
  <2>2. QED
    BY <1>3, <2>1 DEF hindsight, At, Fetching
<1>7. ASSUME NEW n \in 1..Len(log), NEW named \in BOOLEAN, NEW timed \in BOOLEAN,
             Arrive(n, named, timed)
      PROVE  RecoveryInv'
  <2>1. UNCHANGED hindsight /\ req'.own = n /\ (Fetching' => req'.doc = log[n].doc)
    BY <1>7 DEF Arrive, Fetching, At
  <2>2. Dated' /\ Represented'
    BY <2>1, BankStill DEF RecoveryInv, hindsight
  <2>3. log[n].doc \in Document
    <3>1. log[n] \in Entry
      BY ElementOfSeq DEF RecoveryInv, TypeInv, TypeOK
    <3>2. QED
      BY <1>7, <3>1 DEF Arrive, Entry, Group
  <2>4. OwnKnown' /\ RecoveredIsOwn'
    BY <2>1, <2>3 DEF OwnKnown, RecoveredIsOwn, hindsight, Fetching
  <2>5. QED
    BY <2>2, <2>4 DEF RecoveryInv
<1>8. ASSUME NEW top \in SUBSET Listed, Recover(top)
      PROVE  RecoveryInv'
  <2>1. UNCHANGED hindsight /\ At("recent") /\ Newest(top)
    BY <1>8 DEF Recover
  <2>2. CASE req' = Idle
    BY <1>3, <2>1, <2>2 DEF hindsight, At, Fetching, Idle
  <2>3. ASSUME NEW u \in FirstWithDocument(top), req.timed => Within(req.own, batch[u]),
               req' = [req EXCEPT !.pc = "page", !.doc = DocOf[u]]
        PROVE  RecoveryInv'
    <3>1. req'.own = req.own /\ req'.doc = DocOf[u] /\ req'.timed = req.timed
      BY <2>3 DEF RecoveryInv, TypeInv, TypeOK, Request
    <3>2. RecoveredIsOwn'
      BY <2>1, <2>3, <3>1, RecoverStep
    <3>3. Dated' /\ Represented'
      BY <2>1, BankStill DEF RecoveryInv, hindsight
    <3>4. OwnKnown'
      <4>1. req.own \in 1..Len(log) /\ log[req.own].doc \in Document
        BY <2>1 DEF RecoveryInv, OwnKnown, At
      <4>2. log' = log
        BY <2>1 DEF hindsight
      <4>3. QED
        BY <3>1, <4>1, <4>2 DEF OwnKnown
    <3>5. QED
      BY <3>2, <3>3, <3>4 DEF RecoveryInv
  <2>4. QED
    BY <1>8, <2>2, <2>3 DEF Recover
<1>9. QED
  BY <1>1, <1>2, <1>4, <1>5, <1>6, <1>7, <1>8 DEF Next, Bank, Handler

(* An event without a document gets its own, unless another was retained   *)
(* later or a unit of its own retain is gone, and then one in the window:  *)
(* for any number of documents, units and retains.                         *)
THEOREM RecoveredIsOwnAlways == Spec => []RecoveredIsOwn
<1>1. Init => RecoveryInv
  <2> SUFFICES ASSUME Init PROVE RecoveryInv
    OBVIOUS
  <2>1. Len(log) = 0 /\ Listed = {}
    <3>1. \A d \in Group : ToSet(list[d]) = {}
      BY DEF Init, ToSet
    <3>2. QED
      BY <3>1, DocOfType DEF Init, Listed, Group
  <2>2. At("idle")
    BY DEF Init, At, Idle
  <2>3. QED
    BY <2>1, <2>2, TypeInit DEF RecoveryInv, Dated, Represented, OwnKnown, RecoveredIsOwn, At
<1>2. RecoveryInv /\ [Next]_vars => RecoveryInv'
  BY RecoveryStep
<1>3. RecoveryInv => RecoveredIsOwn
  BY DEF RecoveryInv
<1>4. QED
  BY <1>1, <1>2, <1>3, PTL DEF Spec
-----------------------------------------------------------------------------
(* Paging.  Of the positions read so far, those that hold a unit that was  *)
(* listed all the time and was not seen are no more than the units that    *)
(* left: only a removal moves a unit towards the front, and by one.        *)

Read == Limit * req.page

Missed ==
  {u \in kept \ req.got : \E i \in 1..Len(list[req.doc]) : i <= Read /\ list[req.doc][i] = u}

MissedOK ==
  At("page") /\ req.page > 0 =>
    kept \subseteq ToSet(list[req.doc]) /\ Cardinality(Missed) <= left

FetchInv == TypeInv /\ MissedOK /\ FetchMissesOnlyWhatLeft

LEMMA SubsetCount ==
  ASSUME NEW S \in SUBSET Unit, NEW T \in SUBSET S
  PROVE  IsFiniteSet(S) /\ IsFiniteSet(T) /\ Cardinality(S) \in Nat /\ Cardinality(T) \in Nat
         /\ Cardinality(T) <= Cardinality(S)
<1>1. IsFiniteSet(S)
  BY UnitsAreFinite, FS_Subset
<1>2. IsFiniteSet(T) /\ Cardinality(T) <= Cardinality(S)
  BY <1>1, FS_Subset
<1>3. QED
  BY <1>1, <1>2, FS_CardinalityType

LEMMA RequestTyped ==
  ASSUME TypeInv
  PROVE  /\ req.page \in Nat /\ req.got \in SUBSET Unit /\ kept \in SUBSET Unit /\ left \in Nat
         /\ Read \in Nat /\ (req.page = 0 => Read = 0) /\ Missed \in SUBSET Unit
         /\ At("page") => req.doc \in Group /\ list[req.doc] \in Seq(Unit)
<1>1. req.page \in Nat /\ req.got \in SUBSET Unit /\ kept \in SUBSET Unit /\ left \in Nat
  BY Sizes DEF TypeInv, TypeOK, Request
<1>2. Read \in Nat /\ (req.page = 0 => Read = 0)
  BY <1>1, Sizes DEF Read
<1>3. At("page") => req.doc \in Group /\ list[req.doc] \in Seq(Unit)
  BY DEF TypeInv, TypeOK, Request
<1>4. QED
  BY <1>1, <1>2, <1>3 DEF Missed

LEMMA FetchPageStep ==
  ASSUME FetchInv, FetchPage
  PROVE  MissedOK' /\ FetchMissesOnlyWhatLeft'
<1> DEFINE l == list[req.doc]
           page == Page(l, Read)
           before == IF req.page = 0 THEN {} ELSE Missed
<1>1. At("page") /\ TypeInv /\ MissedOK
  BY DEF FetchInv, FetchPage
<1>2. /\ req.page \in Nat /\ req.got \in SUBSET Unit /\ kept \in SUBSET Unit /\ left \in Nat
      /\ Read \in Nat /\ (req.page = 0 => Read = 0) /\ Missed \in SUBSET Unit /\ l \in Seq(Unit)
  BY <1>1, RequestTyped
<1>3. /\ req'.page = req.page + 1 /\ req'.doc = req.doc /\ req'.got = req.got \cup ToSet(page)
      /\ list' = list
      /\ kept' = IF req.page = 0 THEN ToSet(l) ELSE kept
      /\ left' = IF req.page = 0 THEN 0 ELSE left
      /\ whole' = Short(page)
  BY DEF FetchPage, Read, FetchInv, TypeInv, TypeOK, Request, hindsight
<1>4. Read' = Read + Limit
  BY <1>2, <1>3, Sizes DEF Read
<1>5. /\ ToSet(page) = {l[i] : i \in {j \in 1..Len(l) : Read < j /\ j <= Read + Limit}}
      /\ Short(page) <=> Len(l) < Read + Limit
  BY <1>2, PageContents
<1>6. ToSet(l) = {l[i] : i \in 1..Len(l)}
  BY <1>2, Members
<1> HIDE DEF page
<1>7. ASSUME NEW u \in kept' \ req'.got, NEW i \in 1..Len(l), i <= Read + Limit, l[i] = u
      PROVE  u \in before
  <2>1. u \notin ToSet(page) /\ u \notin req.got
    BY <1>3
  <2>2. ~(Read < i)
    BY <1>5, <1>7, <2>1
  <2>3. req.page # 0 /\ i <= Read
    BY <1>2, <2>2
  <2>4. u \in kept \ req.got
    BY <1>3, <2>1, <2>3
  <2>5. QED
    BY <1>7, <2>3, <2>4 DEF Missed
<1>8. kept' \subseteq ToSet(l)
  BY <1>1, <1>2, <1>3 DEF MissedOK
<1>9. before \in SUBSET Unit /\ Cardinality(before) <= left'
  BY <1>1, <1>2, <1>3, FS_EmptySet DEF MissedOK
<1>10. Missed' \subseteq before
  BY <1>3, <1>4, <1>7 DEF Missed
<1>11. Short(page) => kept' \ req'.got \subseteq before
  <2>1. SUFFICES ASSUME Short(page), NEW u \in kept' \ req'.got
                 PROVE  u \in before
    OBVIOUS
  <2>2. PICK i \in 1..Len(l) : l[i] = u
    BY <1>6, <1>8
  <2>3. i <= Read + Limit
    BY <1>2, <1>5, <2>1, Sizes
  <2>4. QED
    BY <1>7, <2>2, <2>3
<1> HIDE DEF before
<1>12. Cardinality(Missed') <= left'
  <2>1. left' \in Nat /\ Cardinality(Missed') <= Cardinality(before)
        /\ Cardinality(before) \in Nat /\ Cardinality(Missed') \in Nat
    BY <1>2, <1>3, <1>9, <1>10, SubsetCount
  <2>2. QED
    BY <1>9, <2>1
<1>13. Short(page) => Cardinality(kept' \ req'.got) <= left'
  <2>1. SUFFICES ASSUME Short(page) PROVE Cardinality(kept' \ req'.got) <= left'
    OBVIOUS
  <2>2. left' \in Nat /\ Cardinality(kept' \ req'.got) <= Cardinality(before)
        /\ Cardinality(before) \in Nat /\ Cardinality(kept' \ req'.got) \in Nat
    BY <1>2, <1>3, <1>9, <1>11, <2>1, SubsetCount
  <2>3. QED
    BY <1>9, <2>2
<1>14. QED
  BY <1>3, <1>8, <1>12, <1>13 DEF MissedOK, FetchMissesOnlyWhatLeft
LEMMA FewerMissed ==
  ASSUME TypeInv, TypeInv', MissedOK, At("page") /\ req.page > 0, left' = left, Missed' \subseteq Missed
  PROVE  Cardinality(Missed') <= left'
<1>1. Cardinality(Missed) <= left /\ left \in Nat /\ Missed \in SUBSET Unit
  BY RequestTyped DEF MissedOK
<1>2. Cardinality(Missed') <= Cardinality(Missed) /\ Cardinality(Missed) \in Nat /\ Cardinality(Missed') \in Nat
  BY <1>1, SubsetCount
<1>3. QED
  BY <1>1, <1>2

(* What is put in front moves no unit into the part already read.          *)
LEMMA RetainMisses ==
  ASSUME FetchInv, TypeInv', NEW d \in Group, NEW k \in 1..Cardinality(Facts(d)),
         NEW s \in [1..k -> Facts(d)], Retain(d, s), At("page"), req.page > 0
  PROVE  MissedOK'
<1> DEFINE l == list[req.doc]
<1>1. /\ s \in Seq(Unit) /\ Len(s) >= 1
      /\ \A i \in 1..Len(s) : s[i] \in Unit \ Listed /\ DocOf[s[i]] = d
  BY RetainedFacts
<1>2. /\ kept \in SUBSET Unit /\ left \in Nat /\ Read \in Nat /\ l \in Seq(Unit) /\ req.doc \in Group
      /\ kept \subseteq ToSet(l) /\ MissedOK /\ TypeInv
  BY RequestTyped DEF FetchInv, MissedOK
<1>3. /\ UNCHANGED <<req, kept, left>>
      /\ list'[req.doc] = IF req.doc = d THEN s \o l ELSE l
  BY <1>2 DEF Retain, fetch, TypeInv, TypeOK
<1>4. CASE req.doc # d
  BY <1>2, <1>3, <1>4, FewerMissed DEF MissedOK, Missed, Read
<1>5. CASE req.doc = d
  <2> DEFINE c == s \o l
  <2>1. /\ Len(c) = Len(s) + Len(l) /\ ToSet(c) = ToSet(s) \cup ToSet(l)
        /\ \A i \in 1..Len(c) : c[i] = IF i <= Len(s) THEN s[i] ELSE l[i - Len(s)]
    BY <1>1, <1>2, PutBefore, MembersPut
  <2> HIDE DEF c
  <2>2. list'[req.doc] = c
    BY <1>3, <1>5 DEF c
  <2>3. kept \subseteq ToSet(c)
    BY <1>2, <2>1
  <2>4. ASSUME NEW u \in kept \ req.got, NEW i \in 1..Len(c), i <= Read, c[i] = u
        PROVE  u \in Missed
    <3>1. u \in ToSet(l) /\ u \in Unit
      BY <1>2
    <3>2. ~(i <= Len(s))
      <4>1. SUFFICES ASSUME i <= Len(s) PROVE FALSE
        OBVIOUS
      <4>2. i \in 1..Len(s) /\ u = s[i]
        BY <1>1, <2>1, <2>4, <4>1
      <4>3. u \notin Listed /\ DocOf[u] = req.doc
        BY <1>1, <1>5, <4>2
      <4>4. QED
        BY <3>1, <4>3 DEF Listed
    <3>3. i - Len(s) \in 1..Len(l) /\ i - Len(s) <= Read /\ l[i - Len(s)] = u
      BY <1>1, <1>2, <2>1, <2>4, <3>2
    <3>4. QED
      BY <3>3 DEF Missed
  <2>5. Missed' \subseteq Missed
    BY <1>3, <2>2, <2>4 DEF Missed, Read
  <2>6. QED
    BY <1>2, <1>3, <2>2, <2>3, <2>5, FewerMissed DEF MissedOK
<1>6. QED
  BY <1>4, <1>5

(* What is taken off moves one unit into the part already read.            *)
LEMMA TakeOffMisses ==
  ASSUME FetchInv, TypeInv', NEW d \in Group, NEW i \in 1..Len(list[d]), TakeOff(d, i),
         At("page"), req.page > 0
  PROVE  MissedOK'
<1> DEFINE l == list[req.doc]
<1>1. /\ kept \in SUBSET Unit /\ left \in Nat /\ Read \in Nat /\ l \in Seq(Unit) /\ req.doc \in Group
      /\ kept \subseteq ToSet(l) /\ MissedOK /\ TypeInv /\ Missed \in SUBSET Unit
      /\ Cardinality(Missed) <= left
  BY RequestTyped DEF FetchInv, MissedOK
<1>2. CASE req.doc # d
  <2>1. UNCHANGED <<req, kept, left>> /\ list'[req.doc] = l
    BY <1>1, <1>2 DEF TakeOff, TypeInv, TypeOK
  <2>2. QED
    BY <1>1, <2>1, FewerMissed DEF MissedOK, Missed, Read
<1>3. CASE req.doc = d
  <2> DEFINE r == RemoveAt(l, i)
             next == l[Read + 1]
  <2>1. /\ req' = req /\ kept' = kept \ {l[i]} /\ left' = left + 1 /\ list'[req.doc] = r
    BY <1>1, <1>3 DEF TakeOff, TypeInv, TypeOK
  <2>2. /\ Len(r) = Len(l) - 1
        /\ \A j \in 1..(Len(l) - 1) : r[j] = IF j < i THEN l[j] ELSE l[j + 1]
        /\ \A v \in ToSet(l) : v # l[i] => v \in ToSet(r)
    BY <1>1, <1>3, TakeOut, MembersLeft
  <2> HIDE DEF r, next
  <2>3. kept' \subseteq ToSet(r)
    BY <1>1, <2>1, <2>2
  <2>4. ASSUME NEW u \in kept' \ req.got, NEW j \in 1..Len(r), j <= Read, r[j] = u
        PROVE  u \in Missed \cup {next}
    <3>1. u \in kept \ req.got
      BY <2>1
    <3>2. j \in 1..Len(l) /\ j + 1 \in 1..Len(l) /\ (u = l[j] \/ u = l[j + 1])
      BY <1>1, <2>2, <2>4
    <3>3. CASE u = l[j]
      BY <2>4, <3>1, <3>2, <3>3 DEF Missed
    <3>4. CASE u = l[j + 1] /\ j + 1 <= Read
      BY <3>1, <3>2, <3>4 DEF Missed
    <3>5. CASE u = l[j + 1] /\ ~(j + 1 <= Read)
      <4>1. j + 1 = Read + 1
        BY <1>1, <2>4, <3>2, <3>5
      <4>2. QED
        BY <3>5, <4>1 DEF next
    <3>6. QED
      BY <3>2, <3>3, <3>4, <3>5
  <2>5. Missed' \subseteq Missed \cup {next}
    <3>1. Missed' = {u \in kept' \ req.got : \E j \in 1..Len(r) : j <= Read /\ r[j] = u}
      BY <2>1 DEF Missed, Read
    <3>2. QED
      BY <2>1, <2>4, <3>1
  <2>6. IsFiniteSet(Missed) /\ Cardinality(Missed) \in Nat
    BY <1>1, SubsetCount
  <2>7. /\ IsFiniteSet(Missed \cup {next})
        /\ Cardinality(Missed \cup {next}) <= Cardinality(Missed) + 1
        /\ Cardinality(Missed \cup {next}) \in Nat
    <3>1. /\ IsFiniteSet(Missed \cup {next})
          /\ Cardinality(Missed \cup {next})
               = IF next \in Missed THEN Cardinality(Missed) ELSE Cardinality(Missed) + 1
      BY <2>6, FS_AddElement
    <3>2. QED
      BY <2>6, <3>1
  <2>8. IsFiniteSet(Missed') /\ Cardinality(Missed') <= Cardinality(Missed \cup {next})
    BY <2>5, <2>7, FS_Subset
  <2>9. Cardinality(Missed') \in Nat
    BY <2>8, FS_CardinalityType
  <2>10. Cardinality(Missed') <= left'
    BY <1>1, <2>1, <2>6, <2>7, <2>8, <2>9
  <2>11. QED
    BY <2>1, <2>3, <2>10 DEF MissedOK
<1>4. QED
  BY <1>2, <1>3

LEMMA FetchStep ==
  ASSUME FetchInv, [Next]_vars
  PROVE  FetchInv'
<1>0. TypeInv /\ TypeInv'
  BY TypeStep DEF FetchInv
<1>1. ASSUME NEW d \in Group, NEW k \in 1..Cardinality(Facts(d)), NEW s \in [1..k -> Facts(d)],
             Retain(d, s)
      PROVE  FetchInv'
  <2>1. UNCHANGED <<req, fetch>>
    BY <1>1 DEF Retain
  <2>2. MissedOK'
    BY <1>0, <1>1, <2>1, RetainMisses DEF MissedOK, At
  <2>3. QED
    BY <1>0, <2>1, <2>2 DEF FetchInv, FetchMissesOnlyWhatLeft, fetch, At
<1>2. ASSUME NEW d \in Group, NEW i \in 1..Len(list[d]), TakeOff(d, i)
      PROVE  FetchInv'
  <2>1. UNCHANGED <<req, whole>> /\ (At("page") \/ UNCHANGED <<kept, left>>)
    BY <1>2 DEF TakeOff
  <2>2. MissedOK'
    BY <1>0, <1>2, <2>1, TakeOffMisses DEF MissedOK, At
  <2>3. QED
    BY <1>0, <2>1, <2>2 DEF FetchInv, FetchMissesOnlyWhatLeft, At
<1>3. CASE FetchPage
  BY <1>0, <1>3, FetchPageStep DEF FetchInv
<1>4. ASSUME ~At("ingest")', At("page")' => req'.page = 0
      PROVE  FetchInv'
  BY <1>0, <1>4 DEF FetchInv, MissedOK, FetchMissesOnlyWhatLeft
<1>5. CASE ApiFails \/ Answer
  BY <1>4, <1>5 DEF ApiFails, Answer, Idle, At
<1>6. ASSUME NEW n \in 1..Len(log), NEW named \in BOOLEAN, NEW timed \in BOOLEAN,
             Arrive(n, named, timed)
      PROVE  FetchInv'
  <2>1. ~At("ingest")' /\ req'.page = 0
    BY <1>6 DEF Arrive, At
  <2>2. QED
    BY <1>4, <2>1
<1>7. ASSUME NEW top \in SUBSET Listed, Recover(top)
      PROVE  FetchInv'
  <2>1. At("recent") /\ req.page = 0
    BY <1>0, <1>7 DEF Recover, TypeInv
  <2>2. req'.pc # "ingest" /\ req'.page = 0
    <3>1. CASE req' = Idle
      BY <3>1 DEF Idle
    <3>2. ASSUME NEW u \in Unit, req' = [req EXCEPT !.pc = "page", !.doc = DocOf[u]]
          PROVE  req'.pc # "ingest" /\ req'.page = 0
      BY <1>0, <2>1, <3>2 DEF TypeInv, TypeOK, Request
    <3>3. QED
      BY <1>7, <3>1, <3>2 DEF Recover, FirstWithDocument, Listed
  <2>3. QED
    BY <1>4, <2>2 DEF At
<1>8. CASE Tick \/ UNCHANGED vars
  <2>1. UNCHANGED <<list, req, kept, left, whole>>
    BY <1>8 DEF Tick, vars, fetch
  <2>2. Missed' = Missed
    BY <2>1 DEF Missed, Read
  <2>3. QED
    BY <1>0, <2>1, <2>2 DEF FetchInv, MissedOK, FetchMissesOnlyWhatLeft, At
<1>9. QED
  BY <1>1, <1>2, <1>3, <1>5, <1>6, <1>7, <1>8 DEF Next, Bank, Handler

(* A list read to its end by position misses no more than what left it     *)
(* meanwhile, however large the pages and whatever else changes.           *)
THEOREM FetchMissesOnlyWhatLeftAlways == Spec => []FetchMissesOnlyWhatLeft
<1>1. Init => FetchInv
  <2>1. Init => ~At("page") /\ ~At("ingest")
    BY DEF Init, Idle, At
  <2>2. QED
    BY <2>1, TypeInit DEF FetchInv, MissedOK, FetchMissesOnlyWhatLeft
<1>2. FetchInv /\ [Next]_vars => FetchInv'
  BY FetchStep
<1>3. FetchInv => FetchMissesOnlyWhatLeft
  BY DEF FetchInv
<1>4. QED
  BY <1>1, <1>2, <1>3, PTL DEF Spec
=============================================================================
