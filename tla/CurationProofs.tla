--------------------------- MODULE CurationProofs ---------------------------
(***************************************************************************)
(* Theorems about Curation, for every set of units.                        *)
(***************************************************************************)
EXTENDS Curation, TLAPS

(* The state of a run.  What was reported stays true while the run lasts;  *)
(* whatever it named but has not mirrored is still named; and a run that   *)
(* fails has excused its ids.                                              *)
RunInv ==
  /\ At("idle") \/ At("banks") \/ At("reflect") =>
       run.named = {} /\ \A u \in Unit : run.result[u] = "untried"
  /\ At("clear") => \E u \in Left : run.at = {u} /\ fact[u] = "invalidated"
  /\ \A u \in run.named : run.result[u] = "cleared" => fact[u] = "invalidated" /\ u \notin derived
  /\ At("mirror") => Left = {}
  /\ At("fail") => run.named \subseteq excused
  /\ At("finish") => \A u \in run.named : row[u] \in Eligible => u \in excused
  /\ \A u \in run.unit : fact[u] = "invalidated" => u \in excused \cup run.named

Inv == TypeOK /\ RunInv /\ RowsFollowHindsight

LEMMA InitInv == Init => Inv
BY DEF Init, Inv, TypeOK, RunInv, RowsFollowHindsight, Fact, Status, Run, Outcome, Resting,
       Untried, At, Eligible, Left

LEMMA NextType == Inv /\ [Next]_vars => TypeOK'
<1> SUFFICES ASSUME Inv, [Next]_vars PROVE TypeOK'
  OBVIOUS
<1> USE DEF Inv, TypeOK
<1>0. Resting \in Run
  BY DEF Resting, Run, Untried, Outcome
<1>1. ASSUME NEW u \in Unit, Ingest(u) \/ Consolidate(u)
      PROVE  TypeOK'
  BY <1>1 DEF Ingest, Consolidate, Status
<1>2. ASSUME NEW u \in Unit, Call(u)
      PROVE  TypeOK'
  <2>1. run' \in Run
    BY <1>2 DEF Call, Resting, Run, Untried, Outcome
  <2> QED BY <1>2, <2>1 DEF Call, Status
<1>3. CASE Skip \/ BanksFail \/ BankListed \/ ReflectFails
  <2>1. run' \in Run
    BY <1>3 DEF Skip, BanksFail, BankListed, ReflectFails, Goto, Run
  <2> QED BY <1>3, <2>1 DEF Skip, BanksFail, BankListed, ReflectFails
<1>4. ASSUME NEW canonical \in SUBSET Unit, NEW other \in SUBSET Unit,
             Reflect(canonical, other)
      PROVE  TypeOK'
  <2>1. Superseded(canonical, other) \in SUBSET Unit
    BY DEF Superseded
  <2>2. run' \in Run
    BY <1>4, <2>1 DEF Reflect, Run
  <2> QED BY <1>4, <2>2 DEF Reflect
<1>5. ASSUME NEW u \in Unit, NEW outcome \in Outcome, Report(u, outcome)
      PROVE  run' \in Run
  BY <1>5 DEF Report, Run
<1>6. ASSUME NEW u \in Unit, Patch(u) \/ PatchFails(u) \/ PatchRaises(u)
      PROVE  TypeOK'
  <2>1. run' \in Run
    <3>1. CASE Patch(u)
      BY <3>1 DEF Patch, Run
    <3>2. CASE PatchFails(u)
      BY <1>5, <3>2 DEF PatchFails, Outcome
    <3>3. CASE PatchRaises(u)
      BY <3>3 DEF PatchRaises, Raise, Run
    <3> QED BY <1>6, <3>1, <3>2, <3>3
  <2>2. fact' \in [Unit -> Fact] /\ excused' \in SUBSET Unit
    BY <1>6 DEF Patch, PatchFails, PatchRaises, Raise, Invalidate, Lost, Fact, Run
  <2> QED BY <1>6, <2>1, <2>2 DEF Patch, PatchFails, PatchRaises
<1>7. ASSUME NEW u \in Unit, Clear(u) \/ ClearFails(u) \/ ClearRaises(u)
      PROVE  TypeOK'
  <2>1. run' \in Run
    <3>1. CASE Clear(u) \/ ClearFails(u)
      BY <1>5, <3>1 DEF Clear, ClearFails, Outcome
    <3>2. CASE ClearRaises(u)
      BY <3>2 DEF ClearRaises, Raise, Run
    <3> QED BY <1>7, <3>1, <3>2
  <2> QED BY <1>7, <2>1 DEF Clear, ClearFails, ClearRaises, Raise, Run
<1>8. CASE Mirror
  <2>1. run' \in Run
    BY <1>8 DEF Mirror, Goto, Run
  <2> QED BY <1>8, <2>1 DEF Mirror, Status
<1>9. CASE Finish \/ Fail
  BY <1>0, <1>9 DEF Finish, Fail, Close, Status, Run
<1>10. CASE Abandon
  BY <1>0, <1>10 DEF Abandon, Run
<1>11. CASE UNCHANGED vars
  BY <1>11 DEF vars
<1> QED
  BY <1>1, <1>2, <1>3, <1>4, <1>6, <1>7, <1>8, <1>9, <1>10, <1>11 DEF Next, Reconcile

(* The conjuncts of RunInv and RowsFollowHindsight, for a step that leaves *)
(* the run alone.                                                          *)
LEMMA OutsideStep ==
  ASSUME Inv, NEW u \in Unit, Ingest(u) \/ Consolidate(u)
  PROVE  RunInv' /\ RowsFollowHindsight'
<1> USE DEF Inv, TypeOK
<1>1. CASE Ingest(u)
  BY <1>1 DEF Ingest, RunInv, RowsFollowHindsight, At, Left, Eligible
<1>2. CASE Consolidate(u)
  BY <1>2 DEF Consolidate, RunInv, RowsFollowHindsight, At, Left, Eligible
<1> QED BY <1>1, <1>2

LEMMA VerdictStep ==
  ASSUME Inv,
         \/ \E u \in Unit : Call(u)
         \/ Skip \/ BanksFail \/ BankListed \/ ReflectFails
         \/ \E canonical, other \in SUBSET Unit : Reflect(canonical, other)
  PROVE  RunInv' /\ RowsFollowHindsight'
<1> USE DEF Inv, TypeOK
<1>1. ASSUME NEW u \in Unit, Call(u)
      PROVE  RunInv' /\ RowsFollowHindsight'
  <2>1. run' = [pc |-> "banks", unit |-> {u}, named |-> {}, at |-> {}, result |-> Untried]
    BY <1>1 DEF Call, Resting
  <2>2. fact[u] = "invalidated" => u \in excused
    BY <1>1 DEF Call, RunInv, RowsFollowHindsight, Eligible
  <2>3. RowsFollowHindsight'
    BY <1>1, <2>1 DEF Call, RunInv, RowsFollowHindsight, Eligible
  <2>4. /\ run'.pc = "banks" /\ run'.unit = {u} /\ run'.named = {}
        /\ \A v \in Unit : run'.result[v] = "untried"
    BY <2>1 DEF Untried
  <2>5. RunInv'
    BY <1>1, <2>2, <2>4 DEF Call, RunInv, At
  <2> QED BY <2>3, <2>5
<1>2. CASE Skip \/ BanksFail \/ BankListed \/ ReflectFails
  <2>1. \E pc \in {"finish", "fail", "reflect"} : run' = [run EXCEPT !.pc = pc]
    BY <1>2 DEF Skip, BanksFail, BankListed, ReflectFails, Goto
  <2>2. /\ run'.pc \in {"finish", "fail", "reflect"}
        /\ run'.unit = run.unit /\ run'.named = run.named /\ run'.result = run.result
    BY <2>1 DEF Run
  <2>3. run.named = {} /\ \A u \in Unit : run.result[u] = "untried"
    BY <1>2 DEF Skip, BanksFail, BankListed, ReflectFails, RunInv, At
  <2>4. UNCHANGED <<fact, derived, row, excused>>
    BY <1>2 DEF Skip, BanksFail, BankListed, ReflectFails
  <2>5. RunInv'
    BY <2>2, <2>3, <2>4 DEF RunInv, At
  <2>6. RowsFollowHindsight'
    BY <2>2, <2>4 DEF RowsFollowHindsight
  <2> QED BY <2>5, <2>6
<1>3. ASSUME NEW canonical \in SUBSET Unit, NEW other \in SUBSET Unit,
             Reflect(canonical, other)
      PROVE  RunInv' /\ RowsFollowHindsight'
  <2> DEFINE named == Superseded(canonical, other)
  <2>1. /\ named \subseteq Unit
        /\ run.named = {} /\ \A u \in Unit : run.result[u] = "untried"
        /\ UNCHANGED <<fact, derived, row, excused>>
    BY <1>3 DEF Reflect, RunInv, At, Superseded
  <2>2. /\ run'.pc \in {"finish", "patch"}
        /\ run'.pc = "finish" => run'.named = {}
        /\ run'.named \subseteq Unit
        /\ run'.unit = run.unit /\ run'.result = run.result
    BY <1>3, <2>1 DEF Reflect, Run
  <2>3. RunInv'
    BY <2>1, <2>2 DEF RunInv, At
  <2>4. RowsFollowHindsight'
    BY <2>1 DEF RowsFollowHindsight
  <2> QED BY <2>3, <2>4
<1> QED BY <1>1, <1>2, <1>3

LEMMA PatchStep ==
  ASSUME Inv, NEW u \in Unit, Patch(u) \/ PatchFails(u) \/ PatchRaises(u)
  PROVE  RunInv' /\ RowsFollowHindsight'
<1> USE DEF Inv, TypeOK
<1>0. /\ u \in run.named /\ run.result[u] = "untried" /\ At("patch")
      /\ fact' = fact \/ fact' = [fact EXCEPT ![u] = "invalidated"]
      /\ UNCHANGED <<derived, row>>
  BY DEF Patch, PatchFails, PatchRaises, Left, Invalidate, Lost
<1>f. /\ \A v \in Unit : fact[v] = "invalidated" => fact'[v] = "invalidated"
      /\ \A v \in Unit \ {u} : fact'[v] = fact[v]
      /\ run.named \subseteq Unit /\ run.unit \subseteq Unit
  BY <1>0 DEF Run
<1>1. CASE Patch(u)
  <2>1. /\ run'.pc = "clear" /\ run'.at = {u}
        /\ run'.unit = run.unit /\ run'.named = run.named /\ run'.result = run.result
    BY <1>1 DEF Patch, Run
  <2>2. fact'[u] = "invalidated" /\ excused' = excused \ {u}
    BY <1>1 DEF Patch, Invalidate
  <2>3. u \in Left'
    BY <1>0, <2>1 DEF Left
  <2>4. RunInv'
    BY <1>0, <1>f, <2>1, <2>2, <2>3 DEF RunInv, At
  <2>5. RowsFollowHindsight'
    BY <1>0, <2>1, <2>2 DEF RowsFollowHindsight
  <2> QED BY <2>4, <2>5
<1>2. CASE PatchFails(u)
  <2>1. /\ run'.pc \in {"patch", "mirror"}
        /\ run'.unit = run.unit /\ run'.named = run.named
        /\ run'.result = [run.result EXCEPT ![u] = "failed"]
    BY <1>2 DEF PatchFails, Report, Run
  <2>2. run'.pc = "mirror" => Left = {u}
    BY <1>2 DEF PatchFails, Report, Run
  <2>3. excused' = excused \/ excused' = excused \ {u}
    BY <1>2 DEF PatchFails, Invalidate, Lost
  <2>4. /\ Left' = Left \ {u}
        /\ \A v \in run.named : run'.result[v] = "cleared" => run.result[v] = "cleared"
    BY <2>1, <1>0 DEF Left, Run
  <2>5. RunInv'
    <3>1. \A v \in run'.named : run'.result[v] = "cleared" =>
            fact'[v] = "invalidated" /\ v \notin derived'
      BY <1>0, <2>1, <2>4, <1>f DEF RunInv, Run
    <3>2. \A v \in run'.unit : fact'[v] = "invalidated" => v \in excused' \cup run'.named
      BY <1>0, <2>1, <2>3, <1>f DEF RunInv, Run
    <3>3. run'.pc = "mirror" => Left' = {}
      BY <2>2, <2>4
    <3> QED BY <2>1, <3>1, <3>2, <3>3 DEF RunInv, At
  <2>6. RowsFollowHindsight'
    BY <1>0, <2>1, <2>3 DEF RowsFollowHindsight
  <2> QED BY <2>5, <2>6
<1>3. CASE PatchRaises(u)
  <2>1. /\ run'.pc = "fail"
        /\ run'.unit = run.unit /\ run'.named = run.named /\ run'.result = run.result
        /\ excused' = excused \cup run.named
    BY <1>3 DEF PatchRaises, Raise, Run
  <2>2. RunInv'
    BY <1>0, <1>f, <2>1 DEF RunInv, At
  <2>3. RowsFollowHindsight'
    BY <1>0, <2>1 DEF RowsFollowHindsight
  <2> QED BY <2>2, <2>3
<1> QED BY <1>1, <1>2, <1>3

LEMMA ClearStep ==
  ASSUME Inv, NEW u \in Unit, Clear(u) \/ ClearFails(u) \/ ClearRaises(u)
  PROVE  RunInv' /\ RowsFollowHindsight'
<1> USE DEF Inv, TypeOK
<1>0. /\ u \in Left /\ fact[u] = "invalidated"
      /\ derived' = derived \/ derived' = derived \ {u}
      /\ UNCHANGED <<fact, row>>
  BY DEF Clear, ClearFails, ClearRaises, RunInv
<1>1. CASE Clear(u) \/ ClearFails(u)
  <2>1. PICK outcome \in {"cleared", "invalidated"} :
          /\ Report(u, outcome)
          /\ outcome = "cleared" => derived' = derived \ {u}
    BY <1>1 DEF Clear, ClearFails
  <2>2. /\ run'.pc \in {"patch", "mirror"}
        /\ run'.unit = run.unit /\ run'.named = run.named
        /\ run'.result = [run.result EXCEPT ![u] = outcome]
        /\ run'.pc = "mirror" => Left = {u}
    BY <2>1 DEF Report, Run
  <2>3. /\ Left' = Left \ {u}
        /\ \A v \in run.named \ {u} : run'.result[v] = run.result[v]
        /\ run'.result[u] = outcome
    BY <1>0, <2>2 DEF Left, Run
  <2>4. UNCHANGED excused
    BY <1>1 DEF Clear, ClearFails
  <2>5. RunInv'
    <3>1. \A v \in run'.named : run'.result[v] = "cleared" =>
            fact'[v] = "invalidated" /\ v \notin derived'
      BY <1>0, <2>1, <2>2, <2>3 DEF RunInv, Run
    <3>2. \A v \in run'.unit : fact'[v] = "invalidated" => v \in excused' \cup run'.named
      BY <1>0, <2>2, <2>4 DEF RunInv, Run
    <3>3. run'.pc = "mirror" => Left' = {}
      BY <2>2, <2>3
    <3> QED BY <2>2, <3>1, <3>2, <3>3 DEF RunInv, At
  <2>6. RowsFollowHindsight'
    BY <1>0, <2>2, <2>4 DEF RowsFollowHindsight
  <2> QED BY <2>5, <2>6
<1>2. CASE ClearRaises(u)
  <2>1. /\ run'.pc = "fail"
        /\ run'.unit = run.unit /\ run'.named = run.named /\ run'.result = run.result
        /\ excused' = excused \cup run.named
    BY <1>2 DEF ClearRaises, Raise, Run
  <2>2. RunInv'
    BY <1>0, <2>1 DEF RunInv, At
  <2>3. RowsFollowHindsight'
    BY <1>0, <2>1 DEF RowsFollowHindsight
  <2> QED BY <2>2, <2>3
<1> QED BY <1>1, <1>2

LEMMA ClosingStep ==
  ASSUME Inv, Mirror \/ Finish \/ Fail \/ Abandon
  PROVE  RunInv' /\ RowsFollowHindsight'
<1> USE DEF Inv, TypeOK
<1>1. CASE Mirror
  <2>1. /\ run'.pc = "finish"
        /\ run'.unit = run.unit /\ run'.named = run.named /\ run'.result = run.result
        /\ UNCHANGED <<fact, derived, excused>>
    BY <1>1 DEF Mirror, Goto, Run
  <2>2. \A u \in Unit : row'[u] \in Eligible => u \notin run.named /\ row[u] \in Eligible
    BY <1>1 DEF Mirror, Eligible
  <2>3. RunInv'
    BY <2>1, <2>2 DEF RunInv, At, Run
  <2>4. RowsFollowHindsight'
    BY <2>1, <2>2 DEF RowsFollowHindsight
  <2> QED BY <2>3, <2>4
<1>2. ASSUME run' = Resting, UNCHANGED fact
      PROVE  RunInv'
  BY <1>2 DEF RunInv, Resting, Untried, At, Left
<1>3. CASE Finish
  <2>1. /\ run' = Resting /\ UNCHANGED fact
        /\ excused' = excused \cup (run.unit \cap run.named)
        /\ \A u \in Unit : row'[u] \in Eligible => u \in run.unit \/ row[u] \in Eligible
        /\ At("finish")
    BY <1>3 DEF Finish, Close
  <2>2. RowsFollowHindsight'
    BY <2>1 DEF RowsFollowHindsight, RunInv
  <2> QED BY <1>2, <2>1, <2>2
<1>4. CASE Fail
  <2>1. /\ run' = Resting /\ UNCHANGED fact
        /\ excused \subseteq excused'
        /\ \A u \in Unit : row'[u] \in Eligible => row[u] \in Eligible
        /\ At("fail")
    BY <1>4 DEF Fail, Close, Eligible
  <2>2. RowsFollowHindsight'
    BY <2>1 DEF RowsFollowHindsight, RunInv
  <2> QED BY <1>2, <2>1, <2>2
<1>5. CASE Abandon
  <2>1. run' = Resting /\ UNCHANGED <<fact, row>> /\ excused' = excused \cup run.named
    BY <1>5 DEF Abandon
  <2>2. RowsFollowHindsight'
    BY <2>1 DEF RowsFollowHindsight
  <2> QED BY <1>2, <2>1, <2>2
<1> QED BY <1>1, <1>3, <1>4, <1>5

LEMMA NextInv == Inv /\ [Next]_vars => Inv'
<1> SUFFICES ASSUME Inv, [Next]_vars PROVE RunInv' /\ RowsFollowHindsight'
  BY NextType DEF Inv
<1>1. CASE UNCHANGED vars
  BY <1>1 DEF vars, Inv, RunInv, RowsFollowHindsight, At, Left
<1> QED
  BY <1>1, OutsideStep, VerdictStep, PatchStep, ClearStep, ClosingStep DEF Next, Reconcile

LEMMA Invariant == Spec => []Inv
BY InitInv, NextInv, PTL DEF Spec

(* Every variable of Curation has its type.                                *)
THEOREM CurationTypeCorrect == Spec => []TypeOK
<1>1. Inv => TypeOK
  BY DEF Inv
<1> QED BY <1>1, Invariant, PTL

(* Local rows follow Hindsight, but for the excused ones: an error of a    *)
(* single PATCH or DELETE never leaves an invalidated fact with a row that *)
(* passes for current.                                                     *)
THEOREM RowsFollow == Spec => []RowsFollowHindsight
<1>1. Inv => RowsFollowHindsight
  BY DEF Inv
<1> QED BY <1>1, Invariant, PTL

(* The report curate_many returns is complete, and true of Hindsight.      *)
THEOREM ReportTrue == Spec => []ReportIsTrue
<1>1. Inv => ReportIsTrue
  BY DEF Inv, RunInv, ReportIsTrue
<1> QED BY <1>1, Invariant, PTL

LEMMA StepKeepsObservations ==
  ASSUME Inv, [Next]_vars, NEW u \in derived \ derived'
  PROVE  fact[u] = "invalidated"
<1>1. PICK v \in Unit : Clear(v) \/ ClearFails(v) \/ ClearRaises(v)
  BY DEF Next, Reconcile, vars, Ingest, Consolidate, Call, Skip, BanksFail, BankListed,
         ReflectFails, Reflect, Patch, PatchFails, PatchRaises, Mirror, Finish, Fail,
         Close, Abandon
<1>2. v = u
  BY <1>1 DEF Clear, ClearFails, ClearRaises
<1> QED BY <1>1, <1>2 DEF Clear, ClearFails, ClearRaises, Inv, RunInv

(* No lost request or answer makes memorial clear the observations of a    *)
(* fact that is still live.                                                *)
THEOREM ObservationsKept == Spec => LiveFactsKeepObservations
<1>1. Inv /\ [Next]_vars => [\A u \in derived \ derived' : fact[u] = "invalidated"]_vars
  BY StepKeepsObservations
<1> QED BY <1>1, Invariant, PTL DEF Spec, LiveFactsKeepObservations

-----------------------------------------------------------------------------
(* The poller is at one row, and at none when it rests.                    *)
OneRow ==
  /\ At("idle") => run.unit = {}
  /\ ~At("idle") => run.unit \in Items

LEMMA OneRowStep ==
  ASSUME TypeOK, OneRow, [Next]_vars
  PROVE  OneRow'
<1>1. ASSUME NEW u \in Unit, Call(u)
      PROVE  OneRow'
  BY <1>1 DEF Call, Resting, OneRow, At, Items
<1>2. CASE Finish \/ Fail \/ Abandon
  BY <1>2 DEF Finish, Fail, Close, Abandon, Resting, OneRow, At
<1>3. ASSUME run' = run \/ (~At("idle") /\ run'.pc # "idle" /\ run'.unit = run.unit)
      PROVE  OneRow'
  BY <1>3 DEF OneRow, At
<1>4. CASE Skip \/ BanksFail \/ BankListed \/ ReflectFails \/ Mirror
  BY <1>3, <1>4 DEF Skip, BanksFail, BankListed, ReflectFails, Mirror, Goto, At, TypeOK, Run
<1>5. ASSUME NEW canonical \in SUBSET Unit, NEW other \in SUBSET Unit, Reflect(canonical, other)
      PROVE  OneRow'
  BY <1>3, <1>5 DEF Reflect, At, TypeOK, Run
<1>6. ASSUME NEW u \in Unit,
             Patch(u) \/ PatchFails(u) \/ PatchRaises(u) \/ Clear(u) \/ ClearFails(u) \/ ClearRaises(u)
      PROVE  OneRow'
  BY <1>3, <1>6 DEF Patch, PatchFails, PatchRaises, Clear, ClearFails, ClearRaises,
                    Report, Raise, At, TypeOK, Run
<1>7. CASE UNCHANGED vars \/ \E u \in Unit : Ingest(u) \/ Consolidate(u)
  BY <1>3, <1>7 DEF vars, Ingest, Consolidate
<1> QED
  BY <1>1, <1>2, <1>4, <1>5, <1>6, <1>7 DEF Next, Reconcile

LEMMA StepIsWorkQueue ==
  ASSUME TypeOK, OneRow, [Next]_vars
  PROVE  [Abstract!Next]_(Abstract!avars)
<1> DEFINE q  == {k \in Items : \A u \in k : row[u] = "pending"}
           q2 == {k \in Items : \A u \in k : row'[u] = "pending"}
<1>1. ASSUME run'.unit = run.unit, row' = row
      PROVE  UNCHANGED Abstract!avars
  BY <1>1 DEF Abstract!avars
<1>2. ASSUME NEW u \in Unit, Ingest(u)
      PROVE  Abstract!Next
  <2>1. q2 = q \cup {{u}} /\ {u} \in Items
    BY <1>2 DEF Ingest, TypeOK, Items
  <2>2. Abstract!Put({u})
    BY <1>2, <2>1 DEF Ingest, Abstract!Put
  <2> QED BY <2>1, <2>2 DEF Abstract!Next
<1>3. ASSUME NEW u \in Unit, Call(u)
      PROVE  Abstract!Next
  <2>1. {u} \in q /\ q2 = q \ {{u}} /\ run'.unit = {u} /\ run.unit = {}
    BY <1>3 DEF Call, Resting, OneRow, TypeOK, Items
  <2>2. Abstract!Take({u})
    BY <2>1 DEF Abstract!Take, Abstract!Free
  <2> QED BY <2>1, <2>2 DEF Abstract!Next
<1>4. CASE Mirror
  <2>1. q2 \subseteq q /\ run'.unit = run.unit
    BY <1>4 DEF Mirror, Goto, TypeOK, Run, Items
  <2>2. run.unit \in Items /\ run.unit # {}
    BY <1>4 DEF Mirror, OneRow, At, Items
  <2>3. PICK d \in SUBSET q : d = q \ q2
    OBVIOUS
  <2>4. Abstract!ThrowOut(d)
    BY <2>1, <2>2, <2>3 DEF Abstract!ThrowOut, Abstract!Free
  <2> QED BY <2>4 DEF Abstract!Next
<1>5. CASE Finish \/ Fail
  <2>1. run.unit \in Items /\ run.unit # {}
    BY <1>5 DEF Finish, Fail, OneRow, At, Items
  <2>2. PICK status \in {"processed", "failed"} : Close(status)
    BY <1>5 DEF Finish, Fail
  <2>3. q2 = q \ {run.unit} /\ run'.unit = {}
    BY <2>1, <2>2 DEF Close, Resting, TypeOK, Items
  <2>4. Abstract!Finish
    BY <2>1, <2>3 DEF Abstract!Finish, Abstract!Free
  <2> QED BY <2>4 DEF Abstract!Next
<1>6. CASE Abandon
  <2>1. run.unit \in Items /\ run.unit # {} /\ run'.unit = {} /\ row' = row
    BY <1>6 DEF Abandon, Resting, OneRow, At, Items
  <2>2. Abstract!Lose({})
    BY <2>1 DEF Abstract!Lose, Abstract!Free
  <2> QED BY <2>2 DEF Abstract!Next
<1>7. CASE UNCHANGED vars \/ \E u \in Unit : Consolidate(u)
  BY <1>1, <1>7 DEF vars, Consolidate
<1>8. CASE Skip \/ BanksFail \/ BankListed \/ ReflectFails
  BY <1>1, <1>8 DEF Skip, BanksFail, BankListed, ReflectFails, Goto, TypeOK, Run
<1>9. ASSUME NEW canonical \in SUBSET Unit, NEW other \in SUBSET Unit, Reflect(canonical, other)
      PROVE  UNCHANGED Abstract!avars
  BY <1>1, <1>9 DEF Reflect, TypeOK, Run
<1>10. ASSUME NEW u \in Unit,
              Patch(u) \/ PatchFails(u) \/ PatchRaises(u) \/ Clear(u) \/ ClearFails(u) \/ ClearRaises(u)
       PROVE  UNCHANGED Abstract!avars
  BY <1>1, <1>10 DEF Patch, PatchFails, PatchRaises, Clear, ClearFails, ClearRaises,
                     Report, Raise, TypeOK, Run
<1> QED
  BY <1>2, <1>3, <1>4, <1>5, <1>6, <1>7, <1>8, <1>9, <1>10 DEF Next, Reconcile

(* run_reconcile and curate_*, each request with every way it can fail,    *)
(* are an implementation of the work queue the table and the poller are    *)
(* meant to be.                                                            *)
THEOREM CurationIsWorkQueue == Spec => IsWorkQueue
<1>1. Init => OneRow /\ Abstract!Init
  BY DEF Init, OneRow, At, Resting, Abstract!Init, Items
<1>2. Inv => TypeOK
  BY DEF Inv
<1>3. Spec => []OneRow
  BY <1>1, <1>2, OneRowStep, Invariant, PTL DEF Spec
<1>4. [][Next]_vars /\ []TypeOK /\ []OneRow => [][Abstract!Next]_(Abstract!avars)
  BY StepIsWorkQueue, PTL
<1> QED
  BY <1>1, <1>2, <1>3, <1>4, Invariant, PTL DEF Spec, IsWorkQueue, Abstract!Spec
=============================================================================
