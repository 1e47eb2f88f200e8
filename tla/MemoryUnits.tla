---------------------------- MODULE MemoryUnits ----------------------------
(***************************************************************************)
(* The memory_units table and the SQL statements hindsight_memorial/db.py  *)
(* runs on it, as operators from a table to a table.  A statement and the  *)
(* commit that follows it are one step: every connection a process opens   *)
(* is shared by its threads, statement by statement.                       *)
(*                                                                         *)
(* A row keeps the columns some statement reads back: status, content and  *)
(* id.  created_at is a function of the unit and of the content it was     *)
(* listed with, MentionedAt; the reasons and the other timestamps are      *)
(* written and never read.                                                 *)
(***************************************************************************)
EXTENDS Naturals

CONSTANTS
  Bank,         \* Hindsight bank ids
  Unit,         \* Hindsight memory_unit ids
  Content,      \* texts a unit can carry
  None,         \* no text: the unit is not listed, or the row is missing
  MentionedAt   \* created_at of a unit listed with a given text

(* uq_bank_unit: a row is identified by its bank and its unit. *)
Key == Bank \X Unit

ASSUME NoneAssumption == None \notin Content \cup Key
ASSUME MentionedAtAssumption == MentionedAt \in [Key -> [Content -> Nat]]

Terminal == {"processed", "superseded", "failed"}
Status   == {"absent", "pending", "processing"} \cup Terminal

Row   == [status : Status, content : Content \cup {None}, id : Nat]
Table == [Key -> Row]

EmptyTable == [k \in Key |-> [status |-> "absent", content |-> None, id |-> 0]]

Present(t, k) == t[k].status # "absent"
Pending(t)    == {k \in Key : t[k].status = "pending"}

-----------------------------------------------------------------------------
(* upsert_unit_on_conn: a SELECT that decides, then at most one write.     *)

(* Mutant: INSERT IGNORE, an existing row is left alone.                   *)
InsertOnly(t, k, c) == IF ~Present(t, k) THEN "insert" ELSE "skip"

(* Mutant: an existing row is rewritten without comparing the texts.       *)
AlwaysRewrite(t, k, c) == IF ~Present(t, k) THEN "insert" ELSE "update"

Decision(t, k, c) ==
  IF ~Present(t, k) THEN "insert"
  ELSE IF t[k].content = c THEN "skip" ELSE "update"

InsertRow(t, k, c, n) ==
  [t EXCEPT ![k] = [status |-> "pending", content |-> c, id |-> n]]

(* Mutant: the rewrite of a changed text forgets to reset the status. *)
RewriteKeepingStatus(t, k, c) == [t EXCEPT ![k].content = c]

RewriteRow(t, k, c) == [t EXCEPT ![k].content = c, ![k].status = "pending"]

-----------------------------------------------------------------------------
(* The statements of the poller.                                           *)

CreatedAt(t, k) == MentionedAt[k][t[k].content]

(* Mutant: ORDER BY created_at DESC alone, and a tie has no first row.     *)
NewerText(t, j, k) == CreatedAt(t, j) > CreatedAt(t, k)

(* ORDER BY created_at DESC, id DESC. *)
ComesBefore(t, j, k) ==
  \/ CreatedAt(t, j) > CreatedAt(t, k)
  \/ CreatedAt(t, j) = CreatedAt(t, k) /\ t[j].id > t[k].id

(* Mutant: the query resumes rows that were left 'processing', too.        *)
UnfinishedRow(t) ==
  LET unfinished == {k \in Key : t[k].status \in {"pending", "processing"}}
  IN {k \in unfinished : \A j \in unfinished \ {k} : ComesBefore(t, k, j)}

(* fetch_pending_row_on_conn: no row, or the first one of the order. *)
PendingRow(t) ==
  {k \in Pending(t) : \A j \in Pending(t) \ {k} : ComesBefore(t, k, j)}

SetStatus(t, k, s) == [t EXCEPT ![k].status = s]

(* The statuses mark_superseded_on_conn may overwrite. *)
Eligible == {"pending", "processed"}

(* Mutant: the WHERE clause forgets the bank.                              *)
MarkInAnyBank(t, b, ids) ==
  [k \in Key |->
     IF k[2] \in ids /\ t[k].status \in Eligible
       THEN [t[k] EXCEPT !.status = "superseded"]
       ELSE t[k]]

(* Mutant: the row gets the word Hindsight has for the fact.               *)
MarkInvalidated(t, b, ids) ==
  [k \in Key |->
     IF k[1] = b /\ k[2] \in ids /\ t[k].status \in Eligible
       THEN [t[k] EXCEPT !.status = "invalidated"]
       ELSE t[k]]

MarkSuperseded(t, b, ids) ==
  [k \in Key |->
     IF k[1] = b /\ k[2] \in ids /\ t[k].status \in Eligible
       THEN [t[k] EXCEPT !.status = "superseded"]
       ELSE t[k]]
=============================================================================
