------------------------------ MODULE Curation ------------------------------
(***************************************************************************)
(* The step Reconciler calls "reconciling", one HTTP request at a time:    *)
(* run_reconcile asks Hindsight which facts of a bank a new unit makes     *)
(* stale, curate_many invalidates them there one by one, and the poller    *)
(* mirrors the verdict in memory_units.                                    *)
(*                                                                         *)
(* A request may be lost on its way or its answer on the way back: the     *)
(* client cannot tell, and both reach it as HindsightAPIError.  An answer  *)
(* it cannot read (cut short, not JSON) is no HindsightAPIError and ends   *)
(* run_reconcile.                                                          *)
(***************************************************************************)
CONSTANTS
  Unit   \* the memory_units of one bank

VARIABLES
  fact,     \* the state of each unit in Hindsight
  derived,  \* the units Hindsight keeps observations derived from
  row,      \* the status of each unit in the local table
  run,      \* what the poller thread is doing
  excused   \* units whose row may lag behind: see RowsFollowHindsight

vars == <<fact, derived, row, run, excused>>

Fact    == {"live", "invalidated"}
Status  == {"absent", "pending", "processing", "processed", "superseded", "failed"}
Outcome == {"untried", "failed", "invalidated", "cleared"}

(* What of a CurateResult is read or logged: the id, how far it came.      *)
Run == [pc     : {"idle", "banks", "reflect", "patch", "clear", "mirror", "finish", "fail"},
        unit   : SUBSET Unit,   \* the row in hand, if any
        named  : SUBSET Unit,   \* the ids extract_superseded_ids kept
        at     : SUBSET Unit,   \* the id curate_memory is at, if any
        result : [Unit -> Outcome]]

Untried == [u \in Unit |-> "untried"]
Resting == [pc |-> "idle", unit |-> {}, named |-> {}, at |-> {}, result |-> Untried]

At(pc) == run.pc = pc
Goto(pc) == run' = [run EXCEPT !.pc = pc]

-----------------------------------------------------------------------------
(* Hindsight and the webhook, meanwhile.                                   *)

(* A retain or a rewrite of u is ingested: upsert_unit_on_conn.            *)
Ingest(u) ==
  /\ row[u] # "pending"
  /\ row' = [row EXCEPT ![u] = "pending"]
  /\ excused' = excused \cup {u}
  /\ UNCHANGED <<fact, derived, run>>

(* Hindsight consolidates a live fact into observations.                   *)
Consolidate(u) ==
  /\ fact[u] = "live"
  /\ derived' = derived \cup {u}
  /\ UNCHANGED <<fact, row, run, excused>>

-----------------------------------------------------------------------------
(* run_reconcile up to the verdict.                                        *)

(* The poller claims a row and calls run_reconcile: what happens between   *)
(* its SELECT and its UPDATE is in Reconciler.                             *)
Call(u) ==
  /\ At("idle")
  /\ row[u] = "pending"
  /\ row' = [row EXCEPT ![u] = "processing"]
  /\ run' = [Resting EXCEPT !.pc = "banks", !.unit = {u}]
  /\ UNCHANGED <<fact, derived, excused>>

(* status "skipped": no configuration, no api_url, or the bank is not in   *)
(* list_banks.  The poller takes it for success.                           *)
Skip ==
  /\ At("banks")
  /\ Goto("finish")
  /\ UNCHANGED <<fact, derived, row, excused>>

(* status "error" or "list_banks_failed", or list_banks raised.            *)
BanksFail ==
  /\ At("banks")
  /\ Goto("fail")
  /\ UNCHANGED <<fact, derived, row, excused>>

BankListed ==
  /\ At("banks")
  /\ Goto("reflect")
  /\ UNCHANGED <<fact, derived, row, excused>>

(* status "reflect_failed", or reflect raised.                             *)
ReflectFails ==
  /\ At("reflect")
  /\ Goto("fail")
  /\ UNCHANGED <<fact, derived, row, excused>>

(* extract_superseded_ids.  The LLM names units in the canonical spelling  *)
(* or in another one uuid.UUID accepts (no hyphens, braces, urn:uuid:).    *)
(* The filter on the unit's own id compares spellings, and what passes it  *)
(* is normalised afterwards.                                               *)
Superseded(canonical, other) == (canonical \ run.unit) \cup other

(* Status "abandoned" if no id is left.                                    *)
Reflect(canonical, other) ==
  LET named == Superseded(canonical, other)
  IN /\ At("reflect")
     /\ run' = IF named = {} THEN [run EXCEPT !.pc = "finish"]
                             ELSE [run EXCEPT !.pc = "patch", !.named = named]
     /\ UNCHANGED <<fact, derived, row, excused>>

-----------------------------------------------------------------------------
(* curate_many: curate_memory for each id.                                 *)

Left == {u \in run.named : run.result[u] = "untried"}

(* How curate_memory ended for u; curate_many goes on with the next id, or *)
(* returns its report.                                                     *)
Report(u, outcome) ==
  run' = [run EXCEPT !.pc = IF Left = {u} THEN "mirror" ELSE "patch",
                     !.at = {}, !.result[u] = outcome]

Raise ==
  /\ run' = [run EXCEPT !.pc = "fail", !.at = {}]
  /\ excused' = excused \cup run.named

(* What a PATCH that reaches Hindsight does.                               *)
Invalidate(u) ==
  /\ fact' = [fact EXCEPT ![u] = "invalidated"]
  /\ excused' = excused \ {u}

Lost == UNCHANGED <<fact, excused>>

Patch(u) ==
  /\ At("patch")
  /\ u \in Left
  /\ Invalidate(u)
  /\ run' = [run EXCEPT !.pc = "clear", !.at = {u}]
  /\ UNCHANGED <<derived, row>>

(* Mutant: the error is noted, and the observations are cleared anyway.    *)
PatchFailsAndGoesOn(u) ==
  /\ At("patch")
  /\ u \in Left
  /\ Invalidate(u) \/ Lost
  /\ run' = [run EXCEPT !.pc = "clear", !.at = {u}]
  /\ UNCHANGED <<derived, row>>

(* Mutant: the first failure ends the loop of curate_many.                 *)
PatchFailsAndBreaks(u) ==
  /\ At("patch")
  /\ u \in Left
  /\ Invalidate(u) \/ Lost
  /\ run' = [run EXCEPT !.pc = "mirror", !.result[u] = "failed"]
  /\ UNCHANGED <<derived, row>>

(* HindsightAPIError: the PATCH may have been carried out all the same.    *)
PatchFails(u) ==
  /\ At("patch")
  /\ u \in Left
  /\ Invalidate(u) \/ Lost
  /\ Report(u, "failed")
  /\ UNCHANGED <<derived, row>>

(* The answer to the PATCH is cut short or no JSON.                        *)
PatchRaises(u) ==
  /\ At("patch")
  /\ u \in Left
  /\ fact' \in {fact, [fact EXCEPT ![u] = "invalidated"]}
  /\ Raise
  /\ UNCHANGED <<derived, row>>

Clear(u) ==
  /\ At("clear")
  /\ u \in run.at
  /\ derived' = derived \ {u}
  /\ Report(u, "cleared")
  /\ UNCHANGED <<fact, row, excused>>

ClearFails(u) ==
  /\ At("clear")
  /\ u \in run.at
  /\ derived' \in {derived, derived \ {u}}
  /\ Report(u, "invalidated")
  /\ UNCHANGED <<fact, row, excused>>

ClearRaises(u) ==
  /\ At("clear")
  /\ u \in run.at
  /\ derived' \in {derived, derived \ {u}}
  /\ Raise
  /\ UNCHANGED <<fact, row>>

-----------------------------------------------------------------------------
(* Back in run_once.                                                       *)

Eligible == {"pending", "processed"}

(* Mutant: only the ids that were curated without any error are mirrored.  *)
MirrorCleared ==
  /\ At("mirror")
  /\ row' = [u \in Unit |-> IF run.result[u] = "cleared" /\ row[u] \in Eligible
                              THEN "superseded" ELSE row[u]]
  /\ Goto("finish")
  /\ UNCHANGED <<fact, derived, excused>>

(* Mutant: the row gets the outcome curate_memory reports for the fact.    *)
MirrorOutcome ==
  /\ At("mirror")
  /\ row' = [u \in Unit |-> IF u \in run.named /\ row[u] \in Eligible
                              THEN run.result[u] ELSE row[u]]
  /\ Goto("finish")
  /\ UNCHANGED <<fact, derived, excused>>

(* curate_superseded_in_db gets the id of every result, failed or not.     *)
Mirror ==
  /\ At("mirror")
  /\ row' = [u \in Unit |-> IF u \in run.named /\ row[u] \in Eligible
                              THEN "superseded" ELSE row[u]]
  /\ Goto("finish")
  /\ UNCHANGED <<fact, derived, excused>>

Close(status) ==
  /\ row' = [u \in Unit |-> IF u \in run.unit THEN status ELSE row[u]]
  /\ run' = Resting
  /\ excused' = excused \cup (run.unit \cap run.named)
  /\ UNCHANGED <<fact, derived>>

Finish == At("finish") /\ Close("processed")

(* Mutant: a row whose run failed goes back to the queue.                  *)
RetryLater == At("fail") /\ Close("pending")

Fail == At("fail") /\ Close("failed")

(* The process dies, or a statement of the poller raises.                  *)
Abandon ==
  /\ ~At("idle")
  /\ run' = Resting
  /\ excused' = excused \cup run.named
  /\ UNCHANGED <<fact, derived, row>>

-----------------------------------------------------------------------------
Init ==
  /\ fact = [u \in Unit |-> "live"]
  /\ derived = {}
  /\ row = [u \in Unit |-> "absent"]
  /\ run = Resting
  /\ excused = {}

Reconcile ==
  \/ \E u \in Unit : Call(u)
  \/ Skip
  \/ BanksFail
  \/ BankListed
  \/ ReflectFails
  \/ \E canonical, other \in SUBSET Unit : Reflect(canonical, other)
  \/ \E u \in Unit : Patch(u) \/ PatchFails(u) \/ PatchRaises(u)
  \/ \E u \in Unit : Clear(u) \/ ClearFails(u) \/ ClearRaises(u)
  \/ Mirror
  \/ Finish
  \/ Fail

Next ==
  \/ \E u \in Unit : Ingest(u) \/ Consolidate(u)
  \/ Reconcile
  \/ Abandon

Spec == Init /\ [][Next]_vars

-----------------------------------------------------------------------------
(* Properties.                                                             *)

TypeOK ==
  /\ fact \in [Unit -> Fact]
  /\ derived \in SUBSET Unit
  /\ row \in [Unit -> Status]
  /\ run \in Run
  /\ excused \in SUBSET Unit

(* curate_memory's "step 1 failing aborts step 2": whatever requests and   *)
(* answers are lost, no fact that is still live loses its observations.    *)
LiveFactsKeepObservations ==
  [][\A u \in derived \ derived' : fact[u] = "invalidated"]_vars

(* curate_many's report: when it returns, every id the verdict named was   *)
(* tried, and one reported without an error is gone from recall and has no *)
(* observations left.                                                      *)
ReportIsTrue ==
  At("mirror") =>
    /\ Left = {}
    /\ \A u \in run.named : run.result[u] = "cleared" => fact[u] = "invalidated" /\ u \notin derived

(* A row that could still be reconciled, or passes for current, has a live *)
(* fact in Hindsight, unless it was ingested or its curation broke off     *)
(* since the fact was invalidated, or it named itself.                     *)
RowsFollowHindsight ==
  \A u \in Unit :
    row[u] \in Eligible /\ fact[u] = "invalidated" => u \in excused \cup run.named

(* curate_superseded_in_db says rows are flipped "after the Hindsight side *)
(* has invalidated the matching facts there".                              *)
SupersededIsInvalidated ==
  \A u \in Unit : row[u] = "superseded" => fact[u] = "invalidated"

(* run_reconcile: "The freshly retained unit's id is automatically         *)
(* excluded from the reflect verdict".                                     *)
OwnFactSurvives == \A u \in run.unit : u \notin run.named

(* The work queue the poller is of Reconciler's table it also is with      *)
(* run_reconcile in full: whatever fails in Hindsight, a row that waits is *)
(* taken in its turn or thrown out by the verdict on another, and a run    *)
(* that ends leaves nothing behind in the queue.                           *)
Items == {{u} : u \in Unit}

Abstract == INSTANCE WorkQueue WITH
  Item    <- Items,
  Nobody  <- {},
  Group   <- [k \in Items |-> "the bank"],
  queued  <- {k \in Items : \A u \in k : row[u] = "pending"},
  running <- run.unit

IsWorkQueue == Abstract!Spec
=============================================================================
