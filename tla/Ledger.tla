-------------------------------- MODULE Ledger --------------------------------
(***************************************************************************)
(* resume.py: the rows that the launches of one problem leave, and the     *)
(* ledger a launch makes of them row by row.  An identity has one row, but *)
(* earlier versions of the pipeline issued truncated responses again.      *)
(*                                                                         *)
(* Names that start with Bug are variants of the definition that follows   *)
(* them, as a plausible mistake in the code would write it.                *)
(***************************************************************************)
EXTENDS Integers, Sequences, FiniteSets, Journal

CONSTANTS
  Ids,          \* the identities of a problem's requests
  NumFiles,     \* the files with their rows, in the order scan reads them
  FileOf,       \* the file of each identity's rows
  SlotsOf,      \* {its slot} for a judgment, {} for any other identity
  Replies,      \* what a response may say
  Truncated,    \* those without a complete finish reason
  NoRow,        \* no row for an identity
  MaxLaunches,  \* bound on launches
  Tears         \* how an append that is cut short can cut its line

Files == 1..NumFiles
Lists(i) == {<<"file", FileOf[i]>>} \cup {<<"slot", s>> : s \in SlotsOf[i]}
Keys == UNION {Lists(i) : i \in Ids}

Launches == 1..MaxLaunches
Rows == [id: Ids, says: Replies]
Complete(row) == row.says \notin Truncated

ASSUME IdAssumption ==
  /\ NumFiles \in Nat \ {0} /\ FileOf \in [Ids -> Files] /\ DOMAIN SlotsOf = Ids
  /\ MaxLaunches \in Nat \ {0} /\ NoRow \notin Rows
ASSUME LineAssumption == Tears \subseteq Tails \ {"newline"}

VARIABLES
  disk,    \* the files
  launch,  \* launches so far
  older,   \* the launch is one of an earlier version
  main,    \* "scanning", "running", "ended"
  at,      \* file and line of the next row to add
  rowOf,   \* _row_by_identity
  listed,  \* _rows_by_role_round and _judge_attempts
  fresh,   \* the responses this launch has received
  merged   \* an append has run into an unfinished line

index == <<rowOf, listed>>
ledgerVars == <<disk, launch, older, main, at, index, fresh, merged>>

NoRows == [i \in Ids |-> NoRow]

-----------------------------------------------------------------------------
(* Ledger.scan, with the branches of Ledger._add *)

Row == disk[at[1]].rows[at[2]]
Reading == main = "scanning" /\ at[2] <= Len(disk[at[1]].rows)
Enter(row) == rowOf' = [rowOf EXCEPT ![row.id] = row]
NextLine ==
  /\ at' = <<at[1], at[2] + 1>>
  /\ UNCHANGED <<disk, launch, older, main, fresh, merged>>

AddFirst ==
  /\ Reading /\ rowOf[Row.id] = NoRow
  /\ Enter(Row)
  /\ listed' = [k \in Keys |-> IF k \in Lists(Row.id) THEN Append(listed[k], Row) ELSE listed[k]]
  /\ NextLine

\* A complete row supersedes a truncated one, in its place of every list.
BugSupersedes(row) == FALSE
Supersedes(row) == Complete(row) /\ ~Complete(rowOf[row.id])
BugReplace ==
  /\ Reading /\ rowOf[Row.id] # NoRow /\ Supersedes(Row)
  /\ Enter(Row)
  /\ UNCHANGED listed
  /\ NextLine
Replace ==
  /\ Reading /\ rowOf[Row.id] # NoRow /\ Supersedes(Row)
  /\ Enter(Row)
  /\ listed' = [k \in Keys |-> [n \in DOMAIN listed[k] |->
                  IF listed[k][n] = rowOf[Row.id] THEN Row ELSE listed[k][n]]]
  /\ NextLine

KeepFirst ==
  /\ Reading /\ rowOf[Row.id] # NoRow /\ ~Supersedes(Row)
  /\ UNCHANGED index
  /\ NextLine

NextFile ==
  /\ main = "scanning" /\ at[2] > Len(disk[at[1]].rows)
  /\ IF at[1] < NumFiles THEN at' = <<at[1] + 1, 1>> /\ UNCHANGED main
     ELSE main' = "running" /\ UNCHANGED at
  /\ UNCHANGED <<disk, launch, older, index, fresh, merged>>

-----------------------------------------------------------------------------
(* A launch *)

\* A request is issued once, unless it is on disk; an earlier version issued it
\* again when the row was truncated.
Needed(i) ==
  /\ fresh[i] = NoRow
  /\ rowOf[i] # NoRow => older /\ rowOf[i].says \in Truncated
Answer(i) == IF fresh[i] = NoRow THEN rowOf[i] ELSE fresh[i]

Received(i, reply) == [id |-> i, says |-> reply]
Receive(i, reply) ==
  /\ main = "running" /\ Needed(i)
  /\ disk' = [disk EXCEPT ![FileOf[i]] = AppendRow(@, Received(i, reply))]
  /\ fresh' = [fresh EXCEPT ![i] = Received(i, reply)]
  /\ merged' = (merged \/ disk[FileOf[i]].tail # "newline")
  /\ UNCHANGED <<launch, older, main, at, index>>

\* The process is killed while it appends a row, or at any other moment.
CutShort(i, reply) ==
  /\ main = "running" /\ Needed(i)
  /\ \E f \in CutRow(disk[FileOf[i]], Received(i, reply), Tears) :
       disk' = [disk EXCEPT ![FileOf[i]] = f]
  /\ main' = "ended"
  /\ UNCHANGED <<launch, older, at, index, fresh, merged>>

End ==
  /\ main # "ended"
  /\ main' = "ended"
  /\ UNCHANGED <<disk, launch, older, at, index, fresh, merged>>

\* The next launch may be the first of the current version.
Relaunch ==
  /\ main = "ended" /\ launch < MaxLaunches
  /\ launch' = launch + 1
  /\ older' \in {older, FALSE}
  /\ main' = "scanning" /\ at' = <<1, 1>>
  /\ rowOf' = NoRows /\ listed' = [k \in Keys |-> <<>>]
  /\ fresh' = NoRows
  /\ UNCHANGED <<disk, merged>>

LedgerInit ==
  /\ disk = [f \in Files |-> Empty]
  /\ launch = 1 /\ older \in BOOLEAN /\ main = "scanning" /\ at = <<1, 1>>
  /\ rowOf = NoRows /\ listed = [k \in Keys |-> <<>>]
  /\ fresh = NoRows /\ merged = FALSE

Scan == AddFirst \/ Replace \/ KeepFirst \/ NextFile

LedgerNext ==
  \/ Scan \/ End \/ Relaunch
  \/ \E i \in Ids, reply \in Replies : Receive(i, reply) \/ CutShort(i, reply)

LedgerSpec == LedgerInit /\ [][LedgerNext]_ledgerVars

-----------------------------------------------------------------------------
(* Properties *)

\* Every variable keeps its type.
LedgerTypeOK ==
  /\ disk \in [Files -> [rows: Seq(Rows), tail: Tails]]
  /\ launch \in Launches /\ {older, merged} \subseteq BOOLEAN
  /\ main \in {"scanning", "running", "ended"}
  /\ at \in Files \X (Nat \ {0})
  /\ rowOf \in [Ids -> Rows \cup {NoRow}] /\ fresh \in [Ids -> Rows \cup {NoRow}]
  /\ listed \in [Keys -> Seq(Rows)]

\* Whatever is on disk, in whatever order: an identity's row is listed wherever
\* the identity belongs, once, and it is the row that lookup gives (resume.py:127-163).
LedgerAgrees ==
  \A k \in Keys :
    /\ \A n \in DOMAIN listed[k] :
         /\ k \in Lists(listed[k][n].id) /\ rowOf[listed[k][n].id] = listed[k][n]
         /\ \A m \in DOMAIN listed[k] : listed[k][m].id = listed[k][n].id => m = n
    /\ \A i \in Ids : k \in Lists(i) /\ rowOf[i] # NoRow =>
         \E n \in DOMAIN listed[k] : listed[k][n] = rowOf[i]

=============================================================================
