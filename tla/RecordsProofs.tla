---------------------------- MODULE RecordsProofs ----------------------------
(***************************************************************************)
(* The ledger is consistent whatever rows are on disk, for any identities, *)
(* files, slots, tears and number of launches: alone, and with the panel   *)
(* that reads it.  Inductive with the types of the rows and the fact that  *)
(* lookup gives an identity a row of its own: a row that is listed is the  *)
(* one lookup gives, so that a row of a new identity cannot be listed      *)
(* already, and the row that is superseded is listed once wherever it      *)
(* belongs.                                                                *)
(*                                                                         *)
(* What is retained of a panel is balanced for any numbers of verifiers,   *)
(* judgments and critiques.  Inductive with what a batch holds: a judgment *)
(* of each verifier that had its turn, behind all that was taken of it.    *)
(*                                                                         *)
(* The prompt a relaunch comes to is the one that was sent.  The votes are *)
(* the first complete rows of their identities on disk, and what is chosen *)
(* of them is where the turns of retain_critiques lead from the start.     *)
(***************************************************************************)
EXTENDS Records, SequenceTheorems, FiniteSetTheorems, WellFoundedInduction, TLAPS

\* The row of an identity is its own.
RowsAreTheirs == \A i \in Ids : rowOf[i] # NoRow => rowOf[i].id = i

LInv == LedgerTypeOK /\ RowsAreTheirs /\ LedgerAgrees

FileType == [rows: Seq(Rows), tail: Tails]

-----------------------------------------------------------------------------
(* Files *)

\* What is left of a file when something runs into its last line.
LEMMA SurvivorsType ==
  ASSUME NEW f \in FileType
  PROVE  Survivors(f) \in Seq(Rows)
<1>1. CASE f.tail = "whole"
  <2>1. Len(f.rows) - 1 \in Int /\ f.rows \in Seq(Rows)
    BY DEF FileType
  <2>2. \A k \in 1..(Len(f.rows) - 1) : f.rows[k] \in Rows
    BY <2>1
  <2>3. CASE Len(f.rows) = 0
    <3>1. SubSeq(f.rows, 1, Len(f.rows) - 1) = <<>> /\ <<>> \in Seq(Rows)
      BY <2>1, <2>3
    <3> QED BY <1>1, <3>1 DEF Survivors
  <2>4. CASE Len(f.rows) # 0
    <3>1. SubSeq(f.rows, 1, Len(f.rows) - 1) \in Seq(Rows)
      BY <2>1, <2>4
    <3> QED BY <1>1, <3>1 DEF Survivors
  <2> QED BY <2>3, <2>4
<1>2. CASE f.tail # "whole"
  BY <1>2 DEF Survivors, FileType
<1> QED BY <1>1, <1>2

\* An append leaves a file of rows (text.py:166-170).
LEMMA AppendType ==
  ASSUME NEW f \in FileType, NEW row \in Rows
  PROVE  AppendRow(f, row) \in FileType
<1>1. (IF f.tail = "newline" THEN Append(f.rows, row) ELSE Survivors(f)) \in Seq(Rows)
  BY SurvivorsType DEF FileType
<1> QED BY <1>1 DEF AppendRow, FileType, Tails

\* So does one that is cut short.
LEMMA CutType ==
  ASSUME NEW f \in FileType, NEW row \in Rows, NEW tears, NEW g \in CutRow(f, row, tears)
  PROVE  g \in FileType
<1>1. Append(f.rows, row) \in Seq(Rows) /\ Survivors(f) \in Seq(Rows)
  BY SurvivorsType DEF FileType
<1>2. /\ [rows |-> Append(f.rows, row), tail |-> "whole"] \in FileType
      /\ [rows |-> Survivors(f), tail |-> "part"] \in FileType
  BY <1>1 DEF FileType, Tails
<1>3. \/ g = f
      \/ g = [rows |-> Append(f.rows, row), tail |-> "whole"]
      \/ g = [rows |-> Survivors(f), tail |-> "part"]
  BY DEF CutRow
<1> QED BY <1>2, <1>3

-----------------------------------------------------------------------------
(* Steps of the ledger *)

\* The next row of the scan is a row.
LEMMA RowType == LedgerTypeOK /\ Reading => Row \in Rows
<1> SUFFICES ASSUME LedgerTypeOK, Reading PROVE Row \in Rows
  OBVIOUS
<1>1. at[1] \in Files /\ at[2] \in Nat \ {0} /\ disk[at[1]].rows \in Seq(Rows)
  BY DEF LedgerTypeOK
<1>2. at[2] \in 1..Len(disk[at[1]].rows)
  BY <1>1 DEF Reading
<1> QED BY <1>1, <1>2 DEF Row

\* So is every row that is listed.
LEMMA ListedType ==
  ASSUME LedgerTypeOK, NEW k \in Keys, NEW n \in DOMAIN listed[k]
  PROVE  listed[k][n] \in Rows /\ listed[k][n].id \in Ids
<1>1. listed[k] \in Seq(Rows)
  BY DEF LedgerTypeOK
<1>2. listed[k][n] \in Rows
  BY <1>1
<1> QED BY <1>2 DEF Rows

\* The first row of an identity is listed where it belongs and nowhere else.
LEMMA AddFirstInv == LInv /\ AddFirst => LInv'
<1> SUFFICES ASSUME LInv, AddFirst PROVE LInv'
  OBVIOUS
<1> USE DEF LInv
<1>1. Row \in Rows /\ Row.id \in Ids /\ Row # NoRow
  BY RowType, IdAssumption DEF AddFirst, Rows
<1>2. /\ rowOf[Row.id] = NoRow /\ rowOf' = [rowOf EXCEPT ![Row.id] = Row]
      /\ listed' = [k \in Keys |-> IF k \in Lists(Row.id) THEN Append(listed[k], Row) ELSE listed[k]]
      /\ at' = <<at[1], at[2] + 1>> /\ UNCHANGED <<disk, launch, older, main, fresh, merged>>
  BY DEF AddFirst, Enter, NextLine
<1>3. LedgerTypeOK'
  <2>1. \A k \in Keys : listed'[k] \in Seq(Rows)
    BY <1>1, <1>2 DEF LedgerTypeOK
  <2>2. listed' \in [Keys -> Seq(Rows)]
    BY <1>2, <2>1
  <2>3. rowOf' \in [Ids -> Rows \cup {NoRow}]
    BY <1>1, <1>2 DEF LedgerTypeOK
  <2>4. at' \in Files \X (Nat \ {0})
    BY <1>2 DEF LedgerTypeOK
  <2> QED BY <1>2, <2>2, <2>3, <2>4 DEF LedgerTypeOK
<1>4. LedgerAgrees'
  <2> SUFFICES ASSUME NEW k \in Keys
               PROVE  /\ \A n \in DOMAIN listed'[k] :
                           /\ k \in Lists(listed'[k][n].id) /\ rowOf'[listed'[k][n].id] = listed'[k][n]
                           /\ \A m \in DOMAIN listed'[k] : listed'[k][m].id = listed'[k][n].id => m = n
                      /\ \A i \in Ids : k \in Lists(i) /\ rowOf'[i] # NoRow =>
                           \E n \in DOMAIN listed'[k] : listed'[k][n] = rowOf'[i]
    BY DEF LedgerAgrees, Lists
  <2> DEFINE L == listed[k]
  <2>1. L \in Seq(Rows) /\ \A n \in DOMAIN L : L[n] \in Rows /\ L[n].id \in Ids
    BY ListedType DEF LedgerTypeOK
  <2>2. \A n \in DOMAIN L : k \in Lists(L[n].id) /\ rowOf[L[n].id] = L[n] /\ L[n].id # Row.id
    BY <1>2, <2>1, IdAssumption DEF LedgerAgrees
  <2>3. \A n, m \in DOMAIN L : L[m].id = L[n].id => m = n
    BY DEF LedgerAgrees
  <2>4. \A i \in Ids \ {Row.id} : k \in Lists(i) /\ rowOf[i] # NoRow => \E n \in DOMAIN L : L[n] = rowOf[i]
    BY DEF LedgerAgrees
  <2>5. /\ rowOf'[Row.id] = Row
        /\ \A i \in Ids \ {Row.id} : rowOf'[i] = rowOf[i]
    BY <1>1, <1>2 DEF LedgerTypeOK
  <2> HIDE DEF L
  <2>6. CASE k \notin Lists(Row.id)
    <3>1. listed'[k] = L
      BY <1>2, <2>6 DEF L
    <3> QED BY <2>1, <2>2, <2>3, <2>4, <2>5, <2>6, <3>1
  <2>7. CASE k \in Lists(Row.id)
    <3>1. listed'[k] = Append(L, Row)
      BY <1>2, <2>7 DEF L
    <3>2. /\ DOMAIN listed'[k] = 1..(Len(L) + 1) /\ DOMAIN L = 1..Len(L) /\ Len(L) \in Nat
          /\ \A n \in 1..Len(L) : listed'[k][n] = L[n]
          /\ listed'[k][Len(L) + 1] = Row
      BY <1>1, <2>1, <3>1
    <3>3. \A n \in DOMAIN listed'[k] : n \in DOMAIN L \/ n = Len(L) + 1
      BY <3>2
    <3>4. ASSUME NEW n \in DOMAIN listed'[k]
          PROVE  k \in Lists(listed'[k][n].id) /\ rowOf'[listed'[k][n].id] = listed'[k][n]
      BY <2>1, <2>2, <2>5, <2>7, <3>2, <3>3
    <3>5. ASSUME NEW n \in DOMAIN listed'[k], NEW m \in DOMAIN listed'[k], listed'[k][m].id = listed'[k][n].id
          PROVE  m = n
      BY <2>1, <2>2, <2>3, <3>2, <3>3, <3>5
    <3>6. ASSUME NEW i \in Ids, k \in Lists(i), rowOf'[i] # NoRow
          PROVE  \E n \in DOMAIN listed'[k] : listed'[k][n] = rowOf'[i]
      <4>1. CASE i = Row.id
        <5>1. Len(L) + 1 \in DOMAIN listed'[k]
          BY <3>2
        <5> QED BY <2>5, <3>2, <4>1, <5>1
      <4>2. CASE i # Row.id
        <5>1. PICK n \in DOMAIN L : L[n] = rowOf[i]
          BY <2>4, <2>5, <3>6, <4>2
        <5> QED BY <2>5, <3>2, <4>2, <5>1
      <4> QED BY <4>1, <4>2
    <3> QED BY <3>4, <3>5, <3>6
  <2> QED BY <2>6, <2>7
<1>5. RowsAreTheirs'
  BY <1>1, <1>2 DEF RowsAreTheirs, LedgerTypeOK
<1> QED BY <1>3, <1>4, <1>5

\* A row that supersedes another takes its place wherever that was listed.
LEMMA ReplaceInv == LInv /\ Replace => LInv'
<1> SUFFICES ASSUME LInv, Replace PROVE LInv'
  OBVIOUS
<1> USE DEF LInv
<1> DEFINE old == rowOf[Row.id]
<1>1. Row \in Rows /\ Row.id \in Ids /\ Row # NoRow
  BY RowType, IdAssumption DEF Replace, Rows
<1>2. /\ old # NoRow /\ rowOf' = [rowOf EXCEPT ![Row.id] = Row]
      /\ listed' = [k \in Keys |-> [n \in DOMAIN listed[k] |-> IF listed[k][n] = old THEN Row ELSE listed[k][n]]]
      /\ at' = <<at[1], at[2] + 1>> /\ UNCHANGED <<disk, launch, older, main, fresh, merged>>
  BY DEF Replace, Enter, NextLine
<1>3. LedgerTypeOK'
  <2>1. ASSUME NEW k \in Keys PROVE listed'[k] \in Seq(Rows)
    <3>1. /\ listed[k] \in Seq(Rows)
          /\ listed'[k] = [n \in 1..Len(listed[k]) |-> IF listed[k][n] = old THEN Row ELSE listed[k][n]]
      BY <1>2 DEF LedgerTypeOK
    <3>2. Len(listed[k]) \in Nat /\ \A n \in 1..Len(listed[k]) : listed[k][n] \in Rows
      BY <3>1
    <3>3. listed'[k] \in [1..Len(listed[k]) -> Rows]
      BY <1>1, <3>1, <3>2
    <3> QED BY <3>2, <3>3, SeqDef
  <2>2. listed' \in [Keys -> Seq(Rows)]
    BY <1>2, <2>1
  <2>3. rowOf' \in [Ids -> Rows \cup {NoRow}]
    BY <1>1, <1>2 DEF LedgerTypeOK
  <2>4. at' \in Files \X (Nat \ {0})
    BY <1>2 DEF LedgerTypeOK
  <2> QED BY <1>2, <2>2, <2>3, <2>4 DEF LedgerTypeOK
<1>4. LedgerAgrees'
  <2> SUFFICES ASSUME NEW k \in Keys
               PROVE  /\ \A n \in DOMAIN listed'[k] :
                           /\ k \in Lists(listed'[k][n].id) /\ rowOf'[listed'[k][n].id] = listed'[k][n]
                           /\ \A m \in DOMAIN listed'[k] : listed'[k][m].id = listed'[k][n].id => m = n
                      /\ \A i \in Ids : k \in Lists(i) /\ rowOf'[i] # NoRow =>
                           \E n \in DOMAIN listed'[k] : listed'[k][n] = rowOf'[i]
    BY DEF LedgerAgrees, Lists
  <2> DEFINE L == listed[k]
  <2>1. \A n \in DOMAIN L : L[n] \in Rows /\ L[n].id \in Ids
    BY ListedType
  <2>2. \A n \in DOMAIN L : k \in Lists(L[n].id) /\ rowOf[L[n].id] = L[n]
    BY DEF LedgerAgrees
  <2>3. \A n, m \in DOMAIN L : L[m].id = L[n].id => m = n
    BY DEF LedgerAgrees
  <2>4. \A i \in Ids : k \in Lists(i) /\ rowOf[i] # NoRow => \E n \in DOMAIN L : L[n] = rowOf[i]
    BY DEF LedgerAgrees
  <2>5. /\ rowOf'[Row.id] = Row
        /\ \A i \in Ids \ {Row.id} : rowOf'[i] = rowOf[i]
    BY <1>1, <1>2 DEF LedgerTypeOK
  <2>6. old \in Rows /\ old.id \in Ids
    BY <1>1, <1>2 DEF LedgerTypeOK, Rows
  <2>7. /\ DOMAIN listed'[k] = DOMAIN L
        /\ \A n \in DOMAIN L : listed'[k][n] = IF L[n] = old THEN Row ELSE L[n]
    BY <1>2
  <2>8. old.id = Row.id /\ \A n \in DOMAIN L : L[n].id = Row.id => L[n] = old
    BY <1>1, <1>2, <2>2 DEF RowsAreTheirs
  <2> HIDE DEF L, old
  <2>9. \A n \in DOMAIN L : listed'[k][n].id = L[n].id
    BY <2>7, <2>8
  <2>10. ASSUME NEW n \in DOMAIN listed'[k]
         PROVE  k \in Lists(listed'[k][n].id) /\ rowOf'[listed'[k][n].id] = listed'[k][n]
    <3>1. n \in DOMAIN L /\ k \in Lists(L[n].id) /\ rowOf[L[n].id] = L[n] /\ L[n].id \in Ids
      BY <2>1, <2>2, <2>7
    <3>2. CASE L[n] = old
      BY <2>5, <2>7, <2>8, <3>1, <3>2
    <3>3. CASE L[n] # old
      BY <2>5, <2>7, <2>8, <3>1, <3>3
    <3> QED BY <3>2, <3>3
  <2>11. ASSUME NEW n \in DOMAIN listed'[k], NEW m \in DOMAIN listed'[k], listed'[k][m].id = listed'[k][n].id
         PROVE  m = n
    BY <2>3, <2>7, <2>9, <2>11
  <2>12. ASSUME NEW i \in Ids, k \in Lists(i), rowOf'[i] # NoRow
         PROVE  \E n \in DOMAIN listed'[k] : listed'[k][n] = rowOf'[i]
    <3>1. CASE i = Row.id
      <4>1. rowOf[i] = old /\ old # NoRow
        BY <1>2, <3>1 DEF old
      <4>2. PICK n \in DOMAIN L : L[n] = old
        BY <2>4, <2>12, <4>1
      <4> QED BY <2>5, <2>7, <3>1, <4>2
    <3>2. CASE i # Row.id
      <4>1. PICK n \in DOMAIN L : L[n] = rowOf[i]
        BY <2>4, <2>5, <2>12, <3>2
      <4>2. L[n].id = i
        BY <2>2, <2>5, <2>12, <3>2, <4>1 DEF RowsAreTheirs
      <4>3. L[n] # old
        BY <2>8, <3>2, <4>2
      <4> QED BY <2>5, <2>7, <3>2, <4>1, <4>3
    <3> QED BY <3>1, <3>2
  <2> QED BY <2>10, <2>11, <2>12
<1>5. RowsAreTheirs'
  BY <1>1, <1>2 DEF RowsAreTheirs, LedgerTypeOK
<1> QED BY <1>3, <1>4, <1>5

\* The other steps leave the lists and the rows as they are.
LEMMA KeepFirstInv == LInv /\ KeepFirst => LInv'
<1> SUFFICES ASSUME LInv, KeepFirst PROVE LInv'
  OBVIOUS
<1>1. UNCHANGED <<disk, launch, older, main, rowOf, listed, fresh, merged>> /\ at' = <<at[1], at[2] + 1>>
  BY DEF KeepFirst, NextLine, index
<1>2. LedgerTypeOK'
  BY <1>1 DEF LInv, LedgerTypeOK
<1> QED BY <1>1, <1>2 DEF LInv, LedgerAgrees, RowsAreTheirs

LEMMA NextFileInv == LInv /\ NextFile => LInv'
<1> SUFFICES ASSUME LInv, NextFile PROVE LInv'
  OBVIOUS
<1>1. /\ UNCHANGED <<disk, launch, older, rowOf, listed, fresh, merged>>
      /\ \/ at' = <<at[1] + 1, 1>> /\ at[1] < NumFiles /\ main' = main
         \/ main' = "running" /\ at' = at
  BY DEF NextFile, index
<1>2. at' \in Files \X (Nat \ {0})
  BY <1>1, IdAssumption DEF LInv, LedgerTypeOK, Files
<1>3. LedgerTypeOK'
  BY <1>1, <1>2 DEF LInv, LedgerTypeOK
<1> QED BY <1>1, <1>3 DEF LInv, LedgerAgrees, RowsAreTheirs

LEMMA ReceiveInv ==
  ASSUME LInv, NEW i \in Ids, NEW reply \in Replies, Receive(i, reply)
  PROVE  LInv'
<1>1. FileOf[i] \in Files /\ disk[FileOf[i]] \in FileType /\ Received(i, reply) \in Rows
  BY IdAssumption DEF LInv, LedgerTypeOK, FileType, Received, Rows
<1>2. AppendRow(disk[FileOf[i]], Received(i, reply)) \in FileType
  BY <1>1, AppendType
<1>3. disk' \in [Files -> FileType]
  BY <1>2 DEF Receive, LInv, LedgerTypeOK, FileType
<1>4. fresh' \in [Ids -> Rows \cup {NoRow}]
  BY <1>1 DEF Receive, LInv, LedgerTypeOK
<1>5. UNCHANGED <<launch, older, main, at, rowOf, listed>> /\ merged' \in BOOLEAN
  BY DEF Receive, LInv, LedgerTypeOK, index
<1>6. LedgerTypeOK'
  BY <1>3, <1>4, <1>5 DEF LInv, LedgerTypeOK, FileType
<1> QED BY <1>5, <1>6 DEF LInv, LedgerAgrees, RowsAreTheirs

LEMMA CutShortInv ==
  ASSUME LInv, NEW i \in Ids, NEW reply \in Replies, CutShort(i, reply)
  PROVE  LInv'
<1>1. FileOf[i] \in Files /\ disk[FileOf[i]] \in FileType /\ Received(i, reply) \in Rows
  BY IdAssumption DEF LInv, LedgerTypeOK, FileType, Received, Rows
<1>2. PICK f \in CutRow(disk[FileOf[i]], Received(i, reply), Tears) : disk' = [disk EXCEPT ![FileOf[i]] = f]
  BY DEF CutShort
<1>3. f \in FileType
  BY <1>1, CutType
<1>4. disk' \in [Files -> FileType]
  BY <1>2, <1>3 DEF LInv, LedgerTypeOK, FileType
<1>5. UNCHANGED <<launch, older, at, rowOf, listed, fresh, merged>> /\ main' = "ended"
  BY DEF CutShort, index
<1>6. LedgerTypeOK'
  BY <1>4, <1>5 DEF LInv, LedgerTypeOK, FileType
<1> QED BY <1>5, <1>6 DEF LInv, LedgerAgrees, RowsAreTheirs

LEMMA EndInv == LInv /\ End => LInv'
<1> SUFFICES ASSUME LInv, End PROVE LInv'
  OBVIOUS
<1>1. UNCHANGED <<disk, launch, older, at, rowOf, listed, fresh, merged>> /\ main' = "ended"
  BY DEF End, index
<1>2. LedgerTypeOK'
  BY <1>1 DEF LInv, LedgerTypeOK
<1> QED BY <1>1, <1>2 DEF LInv, LedgerAgrees, RowsAreTheirs

\* A ledger that has read nothing is consistent.
LEMMA EmptyAgrees ==
  rowOf = NoRows /\ listed = [k \in Keys |-> <<>>] => RowsAreTheirs /\ LedgerAgrees
BY DEF NoRows, RowsAreTheirs, LedgerAgrees

LEMMA RelaunchInv == LInv /\ Relaunch => LInv'
<1> SUFFICES ASSUME LInv, Relaunch PROVE LInv'
  OBVIOUS
<1>1. /\ UNCHANGED <<disk, merged>> /\ launch < MaxLaunches /\ launch' = launch + 1
      /\ older' \in {older, FALSE} /\ main' = "scanning" /\ at' = <<1, 1>>
      /\ rowOf' = NoRows /\ listed' = [k \in Keys |-> <<>>] /\ fresh' = NoRows
  BY DEF Relaunch
<1>2. launch' \in Launches /\ at' \in Files \X (Nat \ {0})
  BY <1>1, IdAssumption DEF LInv, LedgerTypeOK, Launches, Files
<1>3. listed' \in [Keys -> Seq(Rows)]
  <2>1. <<>> \in Seq(Rows)
    OBVIOUS
  <2> QED BY <1>1, <2>1
<1>4. LedgerTypeOK'
  BY <1>1, <1>2, <1>3 DEF LInv, LedgerTypeOK, NoRows
<1>5. RowsAreTheirs' /\ LedgerAgrees'
  BY <1>1 DEF NoRows, RowsAreTheirs, LedgerAgrees
<1> QED BY <1>4, <1>5 DEF LInv

LEMMA LedgerInitInv == LedgerInit => LInv
<1> SUFFICES ASSUME LedgerInit PROVE LInv
  OBVIOUS
<1>1. disk \in [Files -> [rows: Seq(Rows), tail: Tails]]
  BY DEF LedgerInit, Empty, Tails
<1>2. launch \in Launches /\ at \in Files \X (Nat \ {0})
  BY IdAssumption DEF LedgerInit, Launches, Files
<1>3. listed \in [Keys -> Seq(Rows)]
  <2>1. <<>> \in Seq(Rows)
    OBVIOUS
  <2> QED BY <2>1 DEF LedgerInit
<1>4. LedgerTypeOK
  BY <1>1, <1>2, <1>3 DEF LedgerInit, LedgerTypeOK, NoRows
<1> QED BY <1>4, EmptyAgrees DEF LInv, LedgerInit

LEMMA LedgerStep == LInv /\ [LedgerNext]_ledgerVars => LInv'
<1> SUFFICES ASSUME LInv, [LedgerNext]_ledgerVars PROVE LInv'
  OBVIOUS
<1>1. CASE AddFirst BY <1>1, AddFirstInv
<1>2. CASE Replace BY <1>2, ReplaceInv
<1>3. CASE KeepFirst BY <1>3, KeepFirstInv
<1>4. CASE NextFile BY <1>4, NextFileInv
<1>5. CASE End BY <1>5, EndInv
<1>6. CASE Relaunch BY <1>6, RelaunchInv
<1>7. ASSUME NEW i \in Ids, NEW reply \in Replies, Receive(i, reply) PROVE LInv'
  BY <1>7, ReceiveInv
<1>8. ASSUME NEW i \in Ids, NEW reply \in Replies, CutShort(i, reply) PROVE LInv'
  BY <1>8, CutShortInv
<1>9. CASE UNCHANGED ledgerVars
  BY <1>9 DEF ledgerVars, index, LInv, LedgerTypeOK, LedgerAgrees, RowsAreTheirs
<1> QED
  BY <1>1, <1>2, <1>3, <1>4, <1>5, <1>6, <1>7, <1>8, <1>9 DEF LedgerNext, Scan

-----------------------------------------------------------------------------
(* The theorems *)

\* resume.py alone: whatever rows its launches and the launches of the earlier
\* version leave, every list and lookup give the same row (resume.py:127-163).
THEOREM LedgerAlone == LedgerSpec => []LedgerAgrees
<1>1. LedgerSpec => []LInv
  BY LedgerInitInv, LedgerStep, PTL DEF LedgerSpec
<1>2. LInv => LedgerAgrees
  BY DEF LInv
<1> QED BY <1>1, <1>2, PTL

\* What a panel does besides leaves the ledger alone.
LEMMA StepOfLedger == [Next]_vars => [LedgerNext]_ledgerVars
<1> SUFFICES ASSUME [Next]_vars PROVE [LedgerNext]_ledgerVars
  OBVIOUS
<1>1. CASE Judge BY <1>1 DEF Judge
<1>2. CASE Retain BY <1>2 DEF Retain
<1>3. CASE Refine BY <1>3 DEF Refine
<1>4. CASE Scan \/ End \/ Relaunch BY <1>4 DEF LedgerNext
<1>5. CASE \E i \in Ids, reply \in Replies : Receive(i, reply) \/ CutShort(i, reply)
  BY <1>5 DEF LedgerNext
<1>6. CASE UNCHANGED vars BY <1>6 DEF vars
<1> QED BY <1>1, <1>2, <1>3, <1>4, <1>5, <1>6 DEF Next

\* A step of Records is a step of the ledger or none.
THEOREM ImplementsLedger == Spec => LedgerSpec
<1>1. Init => LedgerInit
  BY DEF Init
<1> QED BY <1>1, StepOfLedger, PTL DEF Spec, LedgerSpec

\* The same, while a panel's votes are issued, judged and retained.
THEOREM LedgerIsConsistent == Spec => []LedgerAgrees
BY ImplementsLedger, LedgerAlone, PTL

-----------------------------------------------------------------------------
(* What is retained *)

\* The finished batches.
Batches == Cardinality(Of(selected, 1))

CritiqueTypes ==
  /\ queues \in [Verifiers -> Seq(Scores)]
  /\ place \in [Verifiers -> Nat] /\ reached \in [Verifiers -> Nat] /\ turn \in Verifiers
  /\ state \in {"idle", "choosing", "chosen"}
  /\ selected \in SUBSET (Verifiers \X Nat) /\ IsFiniteSet(selected) /\ IsFiniteSet(batch)

\* A batch has one judgment of each verifier that had its turn, behind all that
\* finished batches took of it.
BatchInv ==
  /\ \A v \in Verifiers : v >= turn => reached[v] = place[v]
  /\ \A v \in Verifiers : v < turn => reached[v] > place[v]
  /\ batch = {<<v, reached[v]>> : v \in 1..(turn - 1)}
  /\ Cardinality(batch) = turn - 1

\* Finished batches have as many judgments of every verifier.
SelectedInv ==
  /\ \A c \in selected : c[2] <= place[c[1]]
  /\ selected = {} => \A v \in Verifiers : place[v] = 0
  /\ \A v \in Verifiers : Cardinality(Of(selected, v)) = Batches
  /\ Cardinality(selected) = Batches * NumVerifiers
  /\ Batches \in Nat /\ Batches <= PerVerifier
  /\ state = "choosing" => Batches < PerVerifier

SomeFit == NumVerifiers <= PerScore /\ PerScore <= MaxCritiques /\ \A v \in Verifiers : queues[v] # <<>>

BalanceInv ==
  /\ CritiqueTypes /\ BatchInv /\ SelectedInv
  /\ \A s \in Scores : Counted(s) <= ScoreLimit
  /\ state = "chosen" /\ SomeFit => selected # {}

LEMMA VerifierRange == NumVerifiers \in Nat \ {0} /\ 1 \in Verifiers /\ NumVerifiers \in Verifiers
                       /\ MaxCritiques \in Nat \ {0} /\ PerScore \in Nat \ {0} /\ Verifiers \subseteq Nat
BY CritiqueAssumption DEF Verifiers

\* As many batches as there may be have no more judgments than there may be.
LEMMA BatchesFit ==
  /\ PerVerifier \in Nat
  /\ PerVerifier * NumVerifiers <= MaxCritiques
  /\ NumVerifiers <= MaxCritiques => PerVerifier >= 1
<1>1. NumVerifiers \in Nat /\ NumVerifiers > 0 /\ MaxCritiques \in Nat
  BY VerifierRange
<1>2. PerVerifier = MaxCritiques \div NumVerifiers
  BY DEF PerVerifier
<1>3. PerVerifier \in Nat
  BY <1>1, <1>2
<1>4. PerVerifier * NumVerifiers <= MaxCritiques
  BY <1>1, <1>2
<1>5. NumVerifiers <= MaxCritiques => PerVerifier >= 1
  BY <1>1, <1>2
<1> QED BY <1>3, <1>4, <1>5

LEMMA ProductGrows ==
  ASSUME NEW a \in Nat, NEW b \in Nat, NEW n \in Nat, a <= b
  PROVE  a * n <= b * n /\ a * n \in Nat /\ (a + 1) * n = a * n + n
<1>1. (b - a) * n >= 0
  OBVIOUS
<1>2. (b - a) * n = b * n - a * n
  OBVIOUS
<1> QED BY <1>1, <1>2

\* Min is a least element.
LEMMA MinIsLeast ==
  ASSUME NEW S \in SUBSET Nat, S # {}
  PROVE  Min(S) \in S /\ \A y \in S : Min(S) <= y
<1> DEFINE R == OpToRel(<, Nat)
<1>1. IsWellFoundedOn(R, Nat)
  BY NatLessThanWellFounded
<1>2. \A x, y \in Nat : <<y, x>> \in R <=> y < x
  BY DEF OpToRel
<1> HIDE DEF R
<1>3. \E x \in S : \A y \in S : x <= y
  <2>1. PICK x \in S : \A y \in S : <<y, x>> \notin R
    BY <1>1, WFMin
  <2>2. \A y \in S : ~(y < x)
    BY <1>2, <2>1
  <2> QED BY <2>2
<1> QED BY <1>3 DEF Min

\* A verifier's next judgment is one of its queue, behind those it went past.
LEMMA NextJudgment ==
  ASSUME CritiqueTypes, Eligible(turn) # {}
  PROVE  LET p == Min(Eligible(turn)) IN
           /\ p \in Nat /\ p \in DOMAIN queues[turn] /\ p > place[turn]
           /\ queues[turn][p] \in Scores /\ Counted(queues[turn][p]) < ScoreLimit
<1> DEFINE p == Min(Eligible(turn))
<1>1. turn \in Verifiers /\ queues[turn] \in Seq(Scores)
  BY DEF CritiqueTypes
<1>2. DOMAIN queues[turn] \subseteq Nat
  BY <1>1
<1>3. Eligible(turn) \in SUBSET Nat
  BY <1>2 DEF Eligible
<1>4. p \in Eligible(turn)
  BY <1>3, MinIsLeast
<1>5. p \in DOMAIN queues[turn] /\ p > place[turn] /\ Counted(queues[turn][p]) < ScoreLimit
  BY <1>4 DEF Eligible
<1>6. queues[turn][p] \in Scores
  BY <1>1, <1>5
<1> QED BY <1>2, <1>5, <1>6

LEMMA ScoreLimitType == ScoreLimit \in Nat
BY VerifierRange DEF ScoreLimit

\* A judgment is chosen only while there are not enough of its score.
LEMMA CountWith ==
  ASSUME NEW A, IsFiniteSet(A), NEW v \in Verifiers, NEW p \in Nat,
         \A s \in Scores : Cardinality(With(A, s)) <= ScoreLimit,
         Cardinality(With(A, queues[v][p])) < ScoreLimit
  PROVE  \A s \in Scores : Cardinality(With(A \cup {<<v, p>>}, s)) <= ScoreLimit
<1> SUFFICES ASSUME NEW s \in Scores PROVE Cardinality(With(A \cup {<<v, p>>}, s)) <= ScoreLimit
  OBVIOUS
<1>1. ScoreOf(<<v, p>>) = queues[v][p]
  BY DEF ScoreOf
<1>2. CASE queues[v][p] = s
  <2>1. With(A \cup {<<v, p>>}, s) = With(A, s) \cup {<<v, p>>}
    BY <1>1, <1>2 DEF With
  <2>2. IsFiniteSet(With(A, s)) /\ Cardinality(With(A, s)) \in Nat
    <3>1. With(A, s) \in SUBSET A
      BY DEF With
    <3> QED BY <3>1, FS_Subset, FS_CardinalityType
  <2>3. Cardinality(With(A, s) \cup {<<v, p>>}) \in {Cardinality(With(A, s)), Cardinality(With(A, s)) + 1}
    BY <2>2, FS_AddElement
  <2>4. Cardinality(With(A, s) \cup {<<v, p>>}) \in Nat
    <3>1. IsFiniteSet(With(A, s) \cup {<<v, p>>})
      BY <2>2, FS_AddElement
    <3> QED BY <3>1, FS_CardinalityType
  <2>5. Cardinality(With(A, s)) < ScoreLimit
    BY <1>2
  <2>6. Cardinality(With(A, s) \cup {<<v, p>>}) <= ScoreLimit
    <3> DEFINE n == Cardinality(With(A, s))
               m == Cardinality(With(A, s) \cup {<<v, p>>})
    <3>1. n \in Nat /\ m \in {n, n + 1} /\ n < ScoreLimit
      BY <2>2, <2>3, <2>5
    <3> HIDE DEF n, m
    <3>2. m <= ScoreLimit
      BY <3>1, ScoreLimitType
    <3> QED BY <3>2 DEF m
  <2> QED BY <2>1, <2>6
<1>3. CASE queues[v][p] # s
  <2>1. With(A \cup {<<v, p>>}, s) = With(A, s)
    BY <1>1, <1>3 DEF With
  <2> QED BY <2>1
<1> QED BY <1>2, <1>3


LEMMA ChooseInv ==
  ASSUME NEW votes \in [Verifiers -> Seq(Scores)], Choose(votes)
  PROVE  BalanceInv'
<1>1. /\ queues' = votes /\ place' = [v \in Verifiers |-> 0] /\ reached' = [v \in Verifiers |-> 0]
      /\ selected' = {} /\ batch' = {} /\ turn' = 1
      /\ state' = IF PerVerifier = 0 THEN "chosen" ELSE "choosing"
  BY DEF Choose
<1>2. IsFiniteSet({}) /\ Cardinality({}) = 0
  BY FS_EmptySet
<1>3. CritiqueTypes'
  BY <1>1, <1>2, VerifierRange DEF CritiqueTypes
<1>4. BatchInv'
  <2>1. 1..(turn' - 1) = {} /\ turn' - 1 = 0
    BY <1>1
  <2>2. \A v \in Verifiers : ~(v < turn')
    BY <1>1 DEF Verifiers
  <2> QED BY <1>1, <1>2, <2>1, <2>2 DEF BatchInv
<1>5. SelectedInv'
  <2>1. \A v \in Verifiers : Of(selected, v)' = {}
    BY <1>1 DEF Of
  <2>2. Batches' = 0 /\ \A v \in Verifiers : Cardinality(Of(selected, v))' = 0
    BY <1>2, <2>1, VerifierRange DEF Batches
  <2>3. Cardinality(selected)' = 0 /\ 0 * NumVerifiers = 0
    BY <1>1, <1>2, VerifierRange
  <2>4. state' = "choosing" => PerVerifier > 0
    BY <1>1, BatchesFit
  <2> QED BY <1>1, <2>2, <2>3, <2>4, BatchesFit DEF SelectedInv
<1>6. \A s \in Scores : (Counted(s) <= ScoreLimit)'
  <2> TAKE s \in Scores
  <2>1. Counted(s)' = 0
    BY <1>1, <1>2 DEF Counted, With
  <2>2. ScoreLimit' \in Nat
    BY VerifierRange DEF ScoreLimit
  <2> QED BY <2>1, <2>2
<1>7. (state = "chosen" /\ SomeFit)' => FALSE
  <2>1. SomeFit' => NumVerifiers <= MaxCritiques
    BY VerifierRange DEF SomeFit
  <2> QED BY <1>1, <2>1, BatchesFit
<1> QED BY <1>3, <1>4, <1>5, <1>6, <1>7 DEF BalanceInv

LEMMA PickInv == BalanceInv /\ Pick => BalanceInv'
<1> SUFFICES ASSUME BalanceInv, Pick PROVE BalanceInv'
  OBVIOUS
<1> DEFINE p == Min(Eligible(turn))
<1>1. /\ CritiqueTypes /\ BatchInv /\ SelectedInv /\ turn < NumVerifiers /\ turn \in Verifiers
      /\ \A s \in Scores : Counted(s) <= ScoreLimit
      /\ state = "choosing" /\ Eligible(turn) # {}
  BY DEF BalanceInv, Pick, CritiqueTypes
<1>2. /\ p \in Nat /\ p \in DOMAIN queues[turn] /\ p > place[turn]
      /\ queues[turn][p] \in Scores /\ Counted(queues[turn][p]) < ScoreLimit
  BY <1>1, NextJudgment
<1>3. /\ batch' = batch \cup {<<turn, p>>} /\ reached' = [reached EXCEPT ![turn] = p] /\ turn' = turn + 1
      /\ state' = state /\ queues' = queues /\ place' = place /\ selected' = selected
  BY DEF Pick
<1> HIDE DEF p
<1>4. turn' \in Verifiers /\ turn \in Nat /\ turn >= 1
  BY <1>1, <1>3, VerifierRange DEF Verifiers
<1>5. <<turn, p>> \notin batch
  BY <1>1, <1>4 DEF BatchInv
<1>6. CritiqueTypes'
  <2>1. IsFiniteSet(batch')
    BY <1>1, <1>3, FS_AddElement DEF CritiqueTypes
  <2>2. reached' \in [Verifiers -> Nat]
    BY <1>1, <1>2, <1>3 DEF CritiqueTypes
  <2> QED BY <1>1, <1>3, <1>4, <2>1, <2>2 DEF CritiqueTypes
<1>7. BatchInv'
  <2>1. \A v \in Verifiers : v # turn => reached'[v] = reached[v]
    BY <1>1, <1>3 DEF CritiqueTypes
  <2>2. reached'[turn] = p
    BY <1>1, <1>3 DEF CritiqueTypes
  <2>3. \A v \in Verifiers : v \in Nat
    BY VerifierRange
  <2>4. \A v \in Verifiers : v >= turn' => reached'[v] = place'[v]
    BY <1>1, <1>3, <1>4, <2>1, <2>3 DEF BatchInv
  <2>5. \A v \in Verifiers : v < turn' => reached'[v] > place'[v]
    BY <1>1, <1>2, <1>3, <1>4, <2>1, <2>2, <2>3 DEF BatchInv
  <2>6. 1..(turn' - 1) = (1..(turn - 1)) \cup {turn}
    BY <1>3, <1>4
  <2>7. \A v \in 1..(turn - 1) : v \in Verifiers /\ v # turn
    BY <1>1, <1>4, VerifierRange DEF Verifiers
  <2>8. batch' = {<<v, reached'[v]>> : v \in 1..(turn' - 1)}
    <3>1. {<<v, reached'[v]>> : v \in 1..(turn' - 1)}
            = {<<v, reached'[v]>> : v \in 1..(turn - 1)} \cup {<<turn, reached'[turn]>>}
      BY <2>6
    <3>2. {<<v, reached'[v]>> : v \in 1..(turn - 1)} = {<<v, reached[v]>> : v \in 1..(turn - 1)}
      BY <2>1, <2>7
    <3> QED BY <1>1, <1>3, <2>2, <3>1, <3>2 DEF BatchInv
  <2>9. Cardinality(batch') = turn' - 1
    <3>1. Cardinality(batch') = Cardinality(batch) + 1
      BY <1>1, <1>3, <1>5, FS_AddElement DEF CritiqueTypes
    <3> QED BY <1>1, <1>3, <1>4, <3>1 DEF BatchInv
  <2> QED BY <2>4, <2>5, <2>8, <2>9 DEF BatchInv
<1>8. SelectedInv'
  BY <1>1, <1>3 DEF SelectedInv, Batches, Of
<1>9. \A s \in Scores : (Counted(s) <= ScoreLimit)'
  <2> DEFINE A == selected \cup batch
  <2>1. IsFiniteSet(A)
    BY <1>1, FS_Union DEF CritiqueTypes
  <2>2. \A s \in Scores : Cardinality(With(A, s)) <= ScoreLimit
    BY <1>1 DEF Counted
  <2>3. Cardinality(With(A, queues[turn][p])) < ScoreLimit
    BY <1>2 DEF Counted
  <2>4. selected' \cup batch' = A \cup {<<turn, p>>}
    BY <1>3
  <2> HIDE DEF A
  <2>5. \A s \in Scores : Cardinality(With(A \cup {<<turn, p>>}, s)) <= ScoreLimit
    BY <1>1, <1>2, <2>1, <2>2, <2>3, CountWith
  <2>6. \A s \in Scores : Counted(s)' = Cardinality(With(A \cup {<<turn, p>>}, s))
    BY <1>3, <2>4 DEF Counted, With, ScoreOf
  <2>7. ScoreLimit' = ScoreLimit
    BY <1>3 DEF ScoreLimit, AllScores
  <2> QED BY <2>5, <2>6, <2>7
<1> QED BY <1>1, <1>3, <1>6, <1>7, <1>8, <1>9 DEF BalanceInv

\* A batch that ends adds one judgment of every verifier.
LEMMA PickLastInv == BalanceInv /\ PickLast => BalanceInv'
<1> SUFFICES ASSUME BalanceInv, PickLast PROVE BalanceInv'
  OBVIOUS
<1> DEFINE p == Min(Eligible(turn))
           whole == batch \cup {<<turn, p>>}
<1>1. /\ CritiqueTypes /\ BatchInv /\ SelectedInv /\ turn = NumVerifiers /\ turn \in Verifiers
      /\ \A s \in Scores : Counted(s) <= ScoreLimit
      /\ state = "choosing" /\ Eligible(turn) # {}
  BY DEF BalanceInv, PickLast, CritiqueTypes
<1>2. /\ p \in Nat /\ p \in DOMAIN queues[turn] /\ p > place[turn]
      /\ queues[turn][p] \in Scores /\ Counted(queues[turn][p]) < ScoreLimit
  BY <1>1, NextJudgment
<1>3. /\ selected' = selected \cup whole /\ place' = [reached EXCEPT ![turn] = p] /\ reached' = place'
      /\ batch' = {} /\ turn' = 1 /\ queues' = queues
      /\ state' = IF Cardinality(selected') = PerVerifier * NumVerifiers THEN "chosen" ELSE "choosing"
  BY DEF PickLast
<1> HIDE DEF p
<1>4. turn \in Nat /\ turn >= 1 /\ \A v \in Verifiers : v \in Nat /\ v <= turn
  BY <1>1, VerifierRange DEF Verifiers
<1>5. /\ \A v \in Verifiers : v # turn => place'[v] = reached[v] /\ place'[v] > place[v]
      /\ place'[turn] = p
  BY <1>1, <1>3, <1>4 DEF CritiqueTypes, BatchInv
<1>6. whole = {<<v, place'[v]>> : v \in Verifiers}
  <2>1. Verifiers = (1..(turn - 1)) \cup {turn}
    BY <1>1, <1>4 DEF Verifiers
  <2>2. {<<v, place'[v]>> : v \in Verifiers} = {<<v, place'[v]>> : v \in 1..(turn - 1)} \cup {<<turn, p>>}
    BY <1>5, <2>1
  <2>3. {<<v, place'[v]>> : v \in 1..(turn - 1)} = {<<v, reached[v]>> : v \in 1..(turn - 1)}
    BY <1>4, <1>5, <2>1
  <2> QED BY <1>1, <2>2, <2>3 DEF BatchInv
<1>7. IsFiniteSet(whole) /\ Cardinality(whole) = NumVerifiers
  <2>1. <<turn, p>> \notin batch
    BY <1>1, <1>4 DEF BatchInv
  <2>2. IsFiniteSet(whole) /\ Cardinality(whole) = Cardinality(batch) + 1
    BY <1>1, <2>1, FS_AddElement DEF CritiqueTypes
  <2> QED BY <1>1, <1>4, <2>2 DEF BatchInv
<1> HIDE DEF whole
<1>8. \A v \in Verifiers : place'[v] \in Nat /\ place[v] \in Nat /\ place'[v] > place[v]
  BY <1>1, <1>2, <1>5 DEF CritiqueTypes
<1>9. selected \cap whole = {}
  <2> SUFFICES ASSUME NEW v \in Verifiers, <<v, place'[v]>> \in selected PROVE FALSE
    BY <1>6
  <2>1. place'[v] <= place[v]
    BY <1>1 DEF SelectedInv
  <2> QED BY <1>8, <2>1
<1>10. IsFiniteSet(selected') /\ Cardinality(selected') = Cardinality(selected) + NumVerifiers
  <2>1. /\ IsFiniteSet(selected \cup whole)
        /\ Cardinality(selected \cup whole)
             = Cardinality(selected) + Cardinality(whole) - Cardinality(selected \cap whole)
    BY <1>1, <1>7, FS_Union DEF CritiqueTypes
  <2>2. Cardinality(selected) \in Nat
    BY <1>1, FS_CardinalityType DEF CritiqueTypes
  <2>3. Cardinality(selected \cap whole) = 0
    BY <1>9, FS_EmptySet
  <2>4. Cardinality(selected \cup whole) = Cardinality(selected) + NumVerifiers
    BY <1>7, <2>1, <2>2, <2>3, VerifierRange
  <2> QED BY <1>3, <2>1, <2>4
<1>11. CritiqueTypes'
  <2>1. place' \in [Verifiers -> Nat]
    BY <1>1, <1>2, <1>3 DEF CritiqueTypes
  <2>2. whole \in SUBSET (Verifiers \X Nat)
    BY <1>6, <1>8
  <2>3. IsFiniteSet(batch')
    BY <1>3, FS_EmptySet
  <2> QED BY <1>1, <1>3, <1>10, <2>1, <2>2, <2>3, VerifierRange DEF CritiqueTypes
<1>12. BatchInv'
  <2>1. batch' = {<<v, reached'[v]>> : v \in 1..(turn' - 1)} /\ Cardinality(batch') = turn' - 1
    <3>1. 1..(turn' - 1) = {}
      BY <1>3
    <3> QED BY <1>3, <3>1, FS_EmptySet
  <2>2. \A v \in Verifiers : ~(v < turn')
    BY <1>3 DEF Verifiers
  <2> QED BY <1>3, <2>1, <2>2 DEF BatchInv
<1>13. \A v \in Verifiers : Cardinality(Of(selected', v)) = Batches + 1
  <2> TAKE v \in Verifiers
  <2>1. Of(selected', v) = Of(selected, v) \cup {<<v, place'[v]>>}
    BY <1>3, <1>6 DEF Of
  <2>2. <<v, place'[v]>> \notin Of(selected, v)
    BY <1>6, <1>9 DEF Of
  <2>3. IsFiniteSet(Of(selected, v))
    <3>1. Of(selected, v) \in SUBSET selected
      BY DEF Of
    <3> QED BY <1>1, <3>1, FS_Subset DEF CritiqueTypes
  <2>4. Cardinality(Of(selected, v) \cup {<<v, place'[v]>>}) = Cardinality(Of(selected, v)) + 1
    BY <2>2, <2>3, FS_AddElement
  <2> QED BY <1>1, <2>1, <2>4 DEF SelectedInv
<1>14. SelectedInv'
  <2> DEFINE b == Batches
  <2>0. b \in Nat /\ b < PerVerifier /\ PerVerifier \in Nat /\ NumVerifiers \in Nat /\ NumVerifiers > 0
    BY <1>1, BatchesFit, VerifierRange DEF SelectedInv
  <2>1. Batches' = b + 1
    BY <1>13, VerifierRange DEF Batches
  <2>2. Cardinality(selected') = (b + 1) * NumVerifiers
    <3>1. Cardinality(selected) = b * NumVerifiers
      BY <1>1 DEF SelectedInv
    <3> HIDE DEF b
    <3> QED BY <1>10, <2>0, <3>1, ProductGrows
  <2>3. \A c \in selected' : c[2] <= place'[c[1]]
    <3> SUFFICES ASSUME NEW c \in selected' PROVE c[2] <= place'[c[1]]
      OBVIOUS
    <3>1. CASE c \in selected
      <4>1. c[1] \in Verifiers /\ c[2] \in Nat /\ c[2] <= place[c[1]]
        BY <1>1, <3>1 DEF CritiqueTypes, SelectedInv
      <4> QED BY <1>8, <4>1
    <3>2. CASE c \in whole
      BY <1>6, <1>8, <3>2
    <3> QED BY <1>3, <3>1, <3>2
  <2>4. selected' # {}
    BY <1>3, <1>6, VerifierRange
  <2>5. state' = "choosing" => b + 1 # PerVerifier
    <3> HIDE DEF b
    <3> QED BY <1>3, <2>2
  <2>6. b + 1 <= PerVerifier /\ (state' = "choosing" => b + 1 < PerVerifier)
    <3> HIDE DEF b
    <3> QED BY <2>0, <2>5
  <2>7. \A v \in Verifiers : Cardinality(Of(selected, v))' = b + 1
    BY <1>13 DEF Of
  <2>8. b + 1 \in Nat
    BY <2>0
  <2> HIDE DEF b
  <2> QED BY <2>1, <2>2, <2>3, <2>4, <2>6, <2>7, <2>8 DEF SelectedInv
<1>15. \A s \in Scores : (Counted(s) <= ScoreLimit)'
  <2> DEFINE A == selected \cup batch
  <2>1. IsFiniteSet(A)
    BY <1>1, FS_Union DEF CritiqueTypes
  <2>2. \A s \in Scores : Cardinality(With(A, s)) <= ScoreLimit
    BY <1>1 DEF Counted
  <2>3. Cardinality(With(A, queues[turn][p])) < ScoreLimit
    BY <1>2 DEF Counted
  <2>4. selected' \cup batch' = A \cup {<<turn, p>>}
    BY <1>3 DEF whole
  <2> HIDE DEF A
  <2>5. \A s \in Scores : Cardinality(With(A \cup {<<turn, p>>}, s)) <= ScoreLimit
    BY <1>1, <1>2, <2>1, <2>2, <2>3, CountWith
  <2>6. \A s \in Scores : Counted(s)' = Cardinality(With(A \cup {<<turn, p>>}, s))
    BY <1>3, <2>4 DEF Counted, With, ScoreOf
  <2>7. ScoreLimit' = ScoreLimit
    BY <1>3 DEF ScoreLimit, AllScores
  <2> QED BY <2>5, <2>6, <2>7
<1>16. selected' # {}
  BY <1>3, <1>6, VerifierRange
<1> QED BY <1>11, <1>12, <1>14, <1>15, <1>16 DEF BalanceInv

\* A verifier with a judgment runs out only behind a finished batch, if every
\* verifier of a batch may give the same score.
LEMMA RunOutInv == BalanceInv /\ RunOut => BalanceInv'
<1> SUFFICES ASSUME BalanceInv, RunOut PROVE BalanceInv'
  OBVIOUS
<1>1. /\ CritiqueTypes /\ BatchInv /\ SelectedInv
      /\ \A s \in Scores : Counted(s) <= ScoreLimit
      /\ state = "choosing" /\ Eligible(turn) = {} /\ state' = "chosen"
      /\ queues' = queues /\ place' = place /\ reached' = reached /\ selected' = selected
      /\ batch' = batch /\ turn' = turn
  BY DEF BalanceInv, RunOut
<1>2. CritiqueTypes' /\ BatchInv' /\ SelectedInv'
  <2>1. CritiqueTypes'
    BY <1>1 DEF CritiqueTypes
  <2>2. BatchInv'
    BY <1>1 DEF BatchInv
  <2>3. SelectedInv'
    BY <1>1 DEF SelectedInv, Batches, Of
  <2> QED BY <2>1, <2>2, <2>3
<1>3. \A s \in Scores : (Counted(s) <= ScoreLimit)'
  BY <1>1 DEF Counted, With, ScoreOf, ScoreLimit, AllScores
<1>4. SomeFit /\ selected = {} => FALSE
  <2> SUFFICES ASSUME SomeFit, selected = {} PROVE FALSE
    OBVIOUS
  <2> DEFINE s == queues[turn][1]
  <2>1. queues[turn] \in Seq(Scores) /\ queues[turn] # <<>> /\ turn \in Verifiers
    BY <1>1 DEF CritiqueTypes, SomeFit
  <2>2. 1 \in DOMAIN queues[turn]
    BY <2>1
  <2>3. place[turn] = 0
    BY <1>1, <2>1 DEF SelectedInv
  <2>4. Counted(s) >= ScoreLimit /\ Counted(s) \in Nat /\ Counted(s) <= Cardinality(batch)
    <3>1. With(selected \cup batch, s) \in SUBSET batch
      BY DEF With
    <3>2. IsFiniteSet(batch)
      BY <1>1 DEF CritiqueTypes
    <3>3. Counted(s) \in Nat /\ Counted(s) <= Cardinality(batch)
      BY <3>1, <3>2, FS_Subset, FS_CardinalityType DEF Counted
    <3>4. ~(Counted(s) < ScoreLimit)
      BY <1>1, <2>2, <2>3 DEF Eligible
    <3> QED BY <3>3, <3>4, ScoreLimitType
  <2>5. ScoreLimit >= NumVerifiers /\ Cardinality(batch) = turn - 1 /\ turn <= NumVerifiers /\ turn \in Nat
    BY <1>1, <2>1, VerifierRange DEF SomeFit, ScoreLimit, BatchInv, Verifiers
  <2> HIDE DEF s
  <2> QED BY <2>4, <2>5, ScoreLimitType, VerifierRange
<1>5. (state = "chosen" /\ SomeFit)' => selected' # {}
  BY <1>1, <1>4 DEF SomeFit
<1> QED BY <1>2, <1>3, <1>5 DEF BalanceInv

\* Nothing chosen yet, at the start and after a process ends.
LEMMA NothingChosen == CritiquesInit => BalanceInv
<1> SUFFICES ASSUME CritiquesInit PROVE BalanceInv
  OBVIOUS
<1>0. /\ state = "idle" /\ queues = [v \in Verifiers |-> <<>>] /\ place = [v \in Verifiers |-> 0]
      /\ reached = [v \in Verifiers |-> 0] /\ selected = {} /\ batch = {} /\ turn = 1
  BY DEF CritiquesInit
<1>1. IsFiniteSet({}) /\ Cardinality({}) = 0
  BY FS_EmptySet
<1>2. <<>> \in Seq(Scores)
  OBVIOUS
<1>3. CritiqueTypes
  BY <1>0, <1>1, <1>2, VerifierRange DEF CritiqueTypes
<1>4. BatchInv
  <2>1. 1..(turn - 1) = {} /\ turn - 1 = 0
    BY <1>0
  <2>2. \A v \in Verifiers : ~(v < turn)
    BY <1>0 DEF Verifiers
  <2> QED BY <1>0, <1>1, <2>1, <2>2 DEF BatchInv
<1>5. SelectedInv
  <2>1. \A v \in Verifiers : Of(selected, v) = {}
    BY <1>0 DEF Of
  <2>2. Batches = 0 /\ \A v \in Verifiers : Cardinality(Of(selected, v)) = 0
    BY <1>1, <2>1, VerifierRange DEF Batches
  <2>3. Cardinality(selected) = 0 /\ 0 * NumVerifiers = 0
    BY <1>0, <1>1, VerifierRange
  <2> QED BY <1>0, <2>2, <2>3, BatchesFit DEF SelectedInv
<1>6. \A s \in Scores : Counted(s) <= ScoreLimit
  <2> TAKE s \in Scores
  <2>1. Counted(s) = 0
    BY <1>0, <1>1 DEF Counted, With
  <2> QED BY <2>1, ScoreLimitType
<1> QED BY <1>0, <1>3, <1>4, <1>5, <1>6 DEF BalanceInv

LEMMA ForgetInv == Forget => BalanceInv'
<1> SUFFICES ASSUME Forget PROVE BalanceInv'
  OBVIOUS
<1>1. CritiquesInit'
  BY DEF Forget, CritiquesInit
<1> QED BY <1>1, NothingChosen, PTL

\* What is retained is balanced.
LEMMA Balanced == BalanceInv => RetainedIsBalanced
<1> SUFFICES ASSUME BalanceInv, state = "chosen" PROVE RetainedIsBalanced
  BY DEF RetainedIsBalanced
<1>1. CritiqueTypes /\ SelectedInv /\ \A s \in Scores : Counted(s) <= ScoreLimit
  BY DEF BalanceInv
<1>2. \A v, u \in Verifiers : Cardinality(Of(selected, v)) = Cardinality(Of(selected, u))
  BY <1>1 DEF SelectedInv
<1>3. Cardinality(selected) <= MaxCritiques
  <2>1. Batches * NumVerifiers <= PerVerifier * NumVerifiers /\ Batches * NumVerifiers \in Nat
    BY <1>1, BatchesFit, ProductGrows, VerifierRange DEF SelectedInv
  <2>2. PerVerifier * NumVerifiers \in Nat
    BY BatchesFit, VerifierRange, ProductGrows
  <2> QED BY <1>1, <2>1, <2>2, BatchesFit, VerifierRange DEF SelectedInv
<1>4. \A s \in AllScores : Cardinality(With(selected, s)) <= ScoreLimit
  <2> TAKE s \in AllScores
  <2>1. s \in Scores
    BY <1>1 DEF AllScores, CritiqueTypes
  <2>2. With(selected, s) \in SUBSET With(selected \cup batch, s)
    BY DEF With
  <2>3. IsFiniteSet(With(selected \cup batch, s))
    <3>1. IsFiniteSet(selected \cup batch)
      BY <1>1, FS_Union DEF CritiqueTypes
    <3>2. With(selected \cup batch, s) \in SUBSET (selected \cup batch)
      BY DEF With
    <3> QED BY <3>1, <3>2, FS_Subset
  <2>4. /\ Cardinality(With(selected, s)) <= Counted(s)
        /\ Cardinality(With(selected, s)) \in Nat /\ Counted(s) \in Nat
    BY <2>2, <2>3, FS_Subset, FS_CardinalityType DEF Counted
  <2>5. Counted(s) <= ScoreLimit
    BY <1>1, <2>1
  <2> QED BY <2>4, <2>5, ScoreLimitType
<1>5. NumVerifiers <= PerScore /\ PerScore <= MaxCritiques /\ (\A v \in Verifiers : queues[v] # <<>>)
         => selected # {}
  BY DEF BalanceInv, SomeFit
<1> QED BY <1>2, <1>3, <1>4, <1>5 DEF RetainedIsBalanced

\* The panel's votes, as retain_critiques gets them.
LEMMA JudgeInv == Judge => BalanceInv'
<1> SUFFICES ASSUME Judge PROVE BalanceInv'
  OBVIOUS
<1> DEFINE votes == [v \in Verifiers |-> [p \in 1..NumSeeds |-> Answer(<<v, p>>).says]]
<1>1. \A v \in Verifiers, p \in 1..NumSeeds : Answer(<<v, p>>).says \in Scores
  BY DEF Judge, Votes
<1>2. NumSeeds \in Nat
  BY VoteAssumption
<1>3. \A v \in Verifiers : [p \in 1..NumSeeds |-> Answer(<<v, p>>).says] \in Seq(Scores)
  BY <1>1, <1>2
<1>4. votes \in [Verifiers -> Seq(Scores)]
  BY <1>3
<1>5. Choose(votes)
  BY DEF Judge
<1> HIDE DEF votes
<1> QED BY <1>4, <1>5, ChooseInv

LEMMA BalanceStep == BalanceInv /\ [Next]_vars => BalanceInv'
<1> SUFFICES ASSUME BalanceInv, [Next]_vars PROVE BalanceInv'
  OBVIOUS
<1>1. CASE Judge
  BY <1>1, JudgeInv
<1>2. CASE Retain
  BY <1>2, PickInv, PickLastInv, RunOutInv DEF Retain, CritiquesStep
<1>3. CASE End /\ Forget
  BY <1>3, ForgetInv
<1>4. CASE UNCHANGED critiqueVars
  <2>1. /\ state' = state /\ queues' = queues /\ place' = place /\ reached' = reached
        /\ selected' = selected /\ batch' = batch /\ turn' = turn
    BY <1>4 DEF critiqueVars
  <2>2. CritiqueTypes' /\ BatchInv'
    BY <2>1 DEF BalanceInv, CritiqueTypes, BatchInv
  <2>3. SelectedInv'
    BY <2>1 DEF BalanceInv, SelectedInv, Batches, Of
  <2>4. \A s \in Scores : (Counted(s) <= ScoreLimit)'
    BY <2>1 DEF BalanceInv, Counted, With, ScoreOf, ScoreLimit, AllScores
  <2>5. (state = "chosen" /\ SomeFit => selected # {})'
    BY <2>1 DEF BalanceInv, SomeFit
  <2> QED BY <2>2, <2>3, <2>4, <2>5 DEF BalanceInv
<1> QED BY <1>1, <1>2, <1>3, <1>4 DEF Next, Refine, vars

\* Critiques are balanced over the verifiers, fit, and are some if they can be,
\* for any panels, limits and launches (scoring.py:70-116).
THEOREM CritiquesBalanced == Spec => []RetainedIsBalanced
<1>1. Init => BalanceInv
  BY NothingChosen DEF Init
<1> QED BY <1>1, BalanceStep, Balanced, PTL DEF Spec

-----------------------------------------------------------------------------
(* The prompt.  What is retained is a function of the queues: the turns of *)
(* retain_critiques lead from the same start to the same end.              *)

Conf == [state |-> state, place |-> place, reached |-> reached, selected |-> selected, batch |-> batch, turn |-> turn]

FirstConf ==
  [state |-> IF PerVerifier = 0 THEN "chosen" ELSE "choosing",
   place |-> [v \in Verifiers |-> 0], reached |-> [v \in Verifiers |-> 0],
   selected |-> {}, batch |-> {}, turn |-> 1]

LimitOf(q) ==
  IF Cardinality(UNION {{q[v][p] : p \in DOMAIN q[v]} : v \in Verifiers}) = 1 THEN MaxCritiques ELSE PerScore
EligibleIn(q, c) ==
  {p \in DOMAIN q[c.turn] :
     /\ p > c.place[c.turn]
     /\ Cardinality({x \in c.selected \cup c.batch : q[x[1]][x[2]] = q[c.turn][p]}) < LimitOf(q)}

\* One verifier's turn.
AfterPick(c, p) ==
  [state |-> c.state, place |-> c.place, reached |-> [c.reached EXCEPT ![c.turn] = p],
   selected |-> c.selected, batch |-> c.batch \cup {<<c.turn, p>>}, turn |-> c.turn + 1]
AfterLast(c, p) ==
  [state |-> IF Cardinality(c.selected \cup c.batch \cup {<<c.turn, p>>}) = PerVerifier * NumVerifiers
             THEN "chosen" ELSE "choosing",
   place |-> [c.reached EXCEPT ![c.turn] = p], reached |-> [c.reached EXCEPT ![c.turn] = p],
   selected |-> c.selected \cup c.batch \cup {<<c.turn, p>>}, batch |-> {}, turn |-> 1]
AfterNone(c) ==
  [state |-> "chosen", place |-> c.place, reached |-> c.reached,
   selected |-> c.selected, batch |-> c.batch, turn |-> c.turn]
NextConf(q, c) ==
  IF EligibleIn(q, c) = {} THEN AfterNone(c)
  ELSE IF c.turn = NumVerifiers THEN AfterLast(c, Min(EligibleIn(q, c)))
  ELSE AfterPick(c, Min(EligibleIn(q, c)))

\* k turns from the start.
Turns(q, k, h) ==
  /\ h[0] = FirstConf
  /\ \A j \in 0..(k - 1) : h[j].state = "choosing" /\ h[j + 1] = NextConf(q, h[j])
Reaches(q, c) == \E k \in Nat : \E h : Turns(q, k, h) /\ h[k] = c

LEMMA ReachesFirst ==
  ASSUME NEW q
  PROVE  Reaches(q, FirstConf)
<1> DEFINE h == [j \in {0} |-> FirstConf]
<1>1. Turns(q, 0, h)
  BY DEF Turns
<1>2. h[0] = FirstConf
  OBVIOUS
<1> HIDE DEF h
<1> QED BY <1>1, <1>2 DEF Reaches

LEMMA ReachesNext ==
  ASSUME NEW q, NEW c, Reaches(q, c), c.state = "choosing"
  PROVE  Reaches(q, NextConf(q, c))
<1>1. PICK k \in Nat : \E h : Turns(q, k, h) /\ h[k] = c
  BY DEF Reaches
<1>2. PICK h : Turns(q, k, h) /\ h[k] = c
  BY <1>1
<1> DEFINE g == [j \in 0..(k + 1) |-> IF j = k + 1 THEN NextConf(q, c) ELSE h[j]]
<1>3. g[k + 1] = NextConf(q, c) /\ \A j \in 0..k : g[j] = h[j]
  OBVIOUS
<1> HIDE DEF g
<1>4. Turns(q, k + 1, g)
  <2>1. g[0] = FirstConf
    BY <1>2, <1>3 DEF Turns
  <2>2. \A j \in 0..k : g[j].state = "choosing" /\ g[j + 1] = NextConf(q, g[j])
    <3> TAKE j \in 0..k
    <3>1. CASE j = k
      BY <1>2, <1>3, <3>1
    <3>2. CASE j # k
      <4>1. j \in 0..(k - 1) /\ j + 1 \in 0..k
        BY <3>2
      <4>2. g[j] = h[j] /\ g[j + 1] = h[j + 1]
        BY <1>3, <4>1
      <4>3. h[j].state = "choosing" /\ h[j + 1] = NextConf(q, h[j])
        BY <1>2, <4>1 DEF Turns
      <4> QED BY <4>2, <4>3
    <3> QED BY <3>1, <3>2
  <2>3. (k + 1) - 1 = k
    OBVIOUS
  <2> QED BY <2>1, <2>2, <2>3 DEF Turns
<1>5. k + 1 \in Nat
  OBVIOUS
<1> QED BY <1>3, <1>4, <1>5 DEF Reaches

LEMMA TurnsAgree ==
  ASSUME NEW q, NEW k \in Nat, NEW h, NEW l \in Nat, NEW g, Turns(q, k, h), Turns(q, l, g), k <= l
  PROVE  \A j \in 0..k : h[j] = g[j]
<1> DEFINE B == {j \in 0..k : h[j] # g[j]}
<1>1. SUFFICES ASSUME B # {} PROVE FALSE
  OBVIOUS
<1>2. B \in SUBSET Nat
  OBVIOUS
<1>3. PICK m \in B : \A j \in B : m <= j
  <2> HIDE DEF B
  <2> QED BY <1>1, <1>2, MinIsLeast
<1>4. m \in 0..k /\ h[m] # g[m]
  BY <1>3
<1>5. m # 0
  BY <1>4 DEF Turns
<1>6. m - 1 \in 0..(k - 1) /\ m - 1 \in 0..(l - 1) /\ m - 1 \in 0..k /\ (m - 1) + 1 = m
  BY <1>4, <1>5
<1>7. h[m - 1] = g[m - 1]
  <2>1. m - 1 \notin B
    <3> HIDE DEF B
    <3> QED BY <1>2, <1>3, <1>6
  <2> QED BY <1>6, <2>1
<1>8. h[m] = NextConf(q, h[m - 1]) /\ g[m] = NextConf(q, g[m - 1])
  BY <1>6 DEF Turns
<1> QED BY <1>4, <1>7, <1>8

\* The same queues end with the same choice.
LEMMA ReachesOnce ==
  ASSUME NEW q, NEW c, NEW d, Reaches(q, c), Reaches(q, d), c.state = "chosen", d.state = "chosen"
  PROVE  c = d
<1>1. ASSUME NEW k \in Nat, NEW h, NEW l \in Nat, NEW g, Turns(q, k, h), Turns(q, l, g), k <= l,
             h[k].state = "chosen"
      PROVE  h[k] = g[l]
  <2>1. h[k] = g[k]
    BY <1>1, TurnsAgree
  <2>2. k = l
    <3> SUFFICES ASSUME k < l PROVE FALSE
      BY <1>1
    <3>1. k \in 0..(l - 1)
      OBVIOUS
    <3> QED BY <1>1, <2>1, <3>1 DEF Turns
  <2> QED BY <2>1, <2>2
<1>2. PICK k \in Nat : \E h : Turns(q, k, h) /\ h[k] = c
  BY DEF Reaches
<1>3. PICK h : Turns(q, k, h) /\ h[k] = c
  BY <1>2
<1>4. PICK l \in Nat : \E g : Turns(q, l, g) /\ g[l] = d
  BY DEF Reaches
<1>5. PICK g : Turns(q, l, g) /\ g[l] = d
  BY <1>4
<1>6. k <= l \/ l <= k
  OBVIOUS
<1> QED BY <1>1, <1>3, <1>5, <1>6

\* What is being retained has been reached by turns.
ChoiceInv == state # "idle" => Reaches(queues, Conf)

LEMMA StepIsTurn == CritiquesStep => state = "choosing" /\ queues' = queues /\ Conf' = NextConf(queues, Conf)
<1> SUFFICES ASSUME CritiquesStep PROVE state = "choosing" /\ queues' = queues /\ Conf' = NextConf(queues, Conf)
  OBVIOUS
<1>1. LimitOf(queues) = ScoreLimit
  BY DEF LimitOf, ScoreLimit, AllScores
<1>2. EligibleIn(queues, Conf) = Eligible(turn)
  BY <1>1 DEF EligibleIn, Eligible, Conf, Counted, With, ScoreOf
<1>3. Conf' = [state |-> state', place |-> place', reached |-> reached', selected |-> selected', batch |-> batch', turn |-> turn']
  BY DEF Conf
<1>4. CASE Pick
  <2>1. Conf' = AfterPick(Conf, Min(Eligible(turn)))
    BY <1>3, <1>4 DEF Pick, AfterPick, Conf
  <2>2. Conf.turn # NumVerifiers /\ Eligible(turn) # {}
    BY <1>4, VerifierRange DEF Pick, Conf
  <2> QED BY <1>2, <1>4, <2>1, <2>2 DEF NextConf, Pick
<1>5. CASE PickLast
  <2>1. Conf' = AfterLast(Conf, Min(Eligible(turn)))
    BY <1>3, <1>5 DEF PickLast, AfterLast, Conf
  <2>2. Conf.turn = NumVerifiers /\ Eligible(turn) # {}
    BY <1>5 DEF PickLast, Conf
  <2> QED BY <1>2, <1>5, <2>1, <2>2 DEF NextConf, PickLast
<1>6. CASE RunOut
  <2>1. Conf' = AfterNone(Conf)
    BY <1>3, <1>6 DEF RunOut, AfterNone, Conf
  <2> QED BY <1>2, <1>6, <2>1 DEF NextConf, RunOut
<1> QED BY <1>4, <1>5, <1>6 DEF CritiquesStep

LEMMA ChoiceStep == ChoiceInv /\ [Next]_vars => ChoiceInv'
<1> SUFFICES ASSUME ChoiceInv, [Next]_vars PROVE ChoiceInv'
  OBVIOUS
<1>1. ASSUME NEW votes, Choose(votes) PROVE ChoiceInv'
  <2>1. Conf' = FirstConf
    BY <1>1 DEF Choose, Conf, FirstConf
  <2> QED BY <2>1, ReachesFirst DEF ChoiceInv
<1>2. CASE CritiquesStep
  <2>1. Conf.state = state
    BY DEF Conf
  <2>2. Reaches(queues, NextConf(queues, Conf))
    BY <1>2, <2>1, StepIsTurn, ReachesNext DEF ChoiceInv
  <2> QED BY <1>2, <2>2, StepIsTurn DEF ChoiceInv
<1>3. CASE Forget
  BY <1>3 DEF Forget, ChoiceInv
<1>4. CASE UNCHANGED critiqueVars
  BY <1>4 DEF critiqueVars, ChoiceInv, Conf
<1> QED BY <1>1, <1>2, <1>3, <1>4 DEF Next, Judge, Retain, Refine, vars

-----------------------------------------------------------------------------
(* The rows that feed it.  The answer of an identity is its first complete *)
(* row on disk, if it has one: an append leaves that row the first, and    *)
(* only a cut append onto a line without newline can lose it, in which     *)
(* case the next append runs into a cut line.                              *)

Full(row, i) == row.id = i /\ Complete(row)

\* row is what a scan of the first k rows finds of i.
Finds(r, k, i, row) ==
  IF row # NoRow /\ Complete(row)
  THEN row.id = i /\ \E n \in DOMAIN r : n <= k /\ r[n] = row /\ \A m \in DOMAIN r : m < n => ~Full(r[m], i)
  ELSE \A m \in DOMAIN r : m <= k => ~Full(r[m], i)

\* A launch that reads the file and asks for i only if it must, finds s or writes
\* into a cut line.
Keeps(f, i, s) ==
  \E row \in Rows :
    /\ Complete(row) /\ row.says = s
    /\ \/ Finds(f.rows, Len(f.rows), i, row)
       \/ f.tail = "part" /\ Finds(f.rows, Len(f.rows), i, NoRow)

LEMMA FindsOne ==
  ASSUME NEW r, NEW k, NEW i, NEW row \in Rows, NEW other, r \in Seq(Rows), Complete(row),
         Finds(r, k, i, row), Finds(r, k, i, other)
  PROVE  row = other
<1>0. DOMAIN r \subseteq Nat
  OBVIOUS
<1>1. row # NoRow
  BY IdAssumption
<1>2. PICK n \in DOMAIN r : n <= k /\ r[n] = row /\ row.id = i /\ \A m \in DOMAIN r : m < n => ~Full(r[m], i)
  BY <1>1 DEF Finds
<1>3. Full(r[n], i)
  BY <1>2 DEF Full
<1>4. other # NoRow /\ Complete(other)
  BY <1>2, <1>3 DEF Finds
<1>5. PICK m \in DOMAIN r : m <= k /\ r[m] = other /\ other.id = i /\ \A l \in DOMAIN r : l < m => ~Full(r[l], i)
  BY <1>4 DEF Finds
<1>6. Full(r[m], i)
  BY <1>4, <1>5 DEF Full
<1>7. m = n
  BY <1>0, <1>2, <1>3, <1>5, <1>6
<1> QED BY <1>2, <1>5, <1>7

\* The scan's next row.
LEMMA FindsNext ==
  ASSUME NEW r \in Seq(Rows), NEW k \in Nat, k + 1 \in DOMAIN r, NEW i, NEW row, NEW new,
         Finds(r, k, i, row),
         IF Full(r[k + 1], i) /\ ~(row # NoRow /\ Complete(row)) THEN new = r[k + 1]
         ELSE new = row \/ (~(row # NoRow /\ Complete(row)) /\ ~(new # NoRow /\ Complete(new)))
  PROVE  Finds(r, k + 1, i, new)
<1>0. DOMAIN r \subseteq Nat /\ r[k + 1] \in Rows /\ NoRow \notin Rows
  BY IdAssumption
<1>1. CASE row # NoRow /\ Complete(row)
  <2>1. new = row
    BY <1>1
  <2>2. PICK n \in DOMAIN r : n <= k /\ r[n] = row /\ row.id = i /\ \A m \in DOMAIN r : m < n => ~Full(r[m], i)
    BY <1>1 DEF Finds
  <2>3. n <= k + 1
    BY <1>0, <2>2
  <2> QED BY <1>1, <2>1, <2>2, <2>3 DEF Finds
<1>2. CASE ~(row # NoRow /\ Complete(row))
  <2>1. \A m \in DOMAIN r : m <= k => ~Full(r[m], i)
    BY <1>2 DEF Finds
  <2>2. CASE Full(r[k + 1], i)
    <3>1. new = r[k + 1] /\ new # NoRow /\ Complete(new) /\ new.id = i
      BY <1>0, <1>2, <2>2 DEF Full
    <3>2. \A m \in DOMAIN r : m < k + 1 => ~Full(r[m], i)
      BY <1>0, <2>1
    <3> QED BY <3>1, <3>2 DEF Finds
  <2>3. CASE ~Full(r[k + 1], i)
    <3>1. ~(new # NoRow /\ Complete(new))
      BY <1>2, <2>3
    <3>2. \A m \in DOMAIN r : m <= k + 1 => ~Full(r[m], i)
      BY <1>0, <2>1, <2>3
    <3> QED BY <3>1, <3>2 DEF Finds
  <2> QED BY <2>2, <2>3
<1> QED BY <1>1, <1>2

\* A scan of rows that are there already finds the same after an append.
LEMMA FindsPrefix ==
  ASSUME NEW r \in Seq(Rows), NEW x \in Rows, NEW i, NEW row, Finds(r, Len(r), i, row)
  PROVE  Finds(Append(r, x), Len(r), i, row)
<1>1. /\ Append(r, x) \in Seq(Rows) /\ Len(Append(r, x)) = Len(r) + 1 /\ Len(r) \in Nat
      /\ DOMAIN r = 1..Len(r) /\ DOMAIN Append(r, x) = 1..(Len(r) + 1)
      /\ \A m \in DOMAIN r : Append(r, x)[m] = r[m]
  OBVIOUS
<1>2. CASE row # NoRow /\ Complete(row)
  <2>1. PICK n \in DOMAIN r : n <= Len(r) /\ r[n] = row /\ row.id = i /\ \A m \in DOMAIN r : m < n => ~Full(r[m], i)
    BY <1>2 DEF Finds
  <2>2. n \in DOMAIN Append(r, x) /\ Append(r, x)[n] = row
    BY <1>1, <2>1
  <2>3. \A m \in DOMAIN Append(r, x) : m < n => ~Full(Append(r, x)[m], i)
    <3> SUFFICES ASSUME NEW m \in DOMAIN Append(r, x), m < n PROVE ~Full(Append(r, x)[m], i)
      OBVIOUS
    <3>1. m \in DOMAIN r
      BY <1>1, <2>1
    <3> QED BY <1>1, <2>1, <3>1
  <2> QED BY <1>2, <2>1, <2>2, <2>3 DEF Finds
<1>3. CASE ~(row # NoRow /\ Complete(row))
  <2>1. \A m \in DOMAIN Append(r, x) : m <= Len(r) => ~Full(Append(r, x)[m], i)
    <3> SUFFICES ASSUME NEW m \in DOMAIN Append(r, x), m <= Len(r) PROVE ~Full(Append(r, x)[m], i)
      OBVIOUS
    <3>1. m \in DOMAIN r /\ m <= Len(r)
      BY <1>1
    <3> QED BY <1>1, <1>3, <3>1 DEF Finds
  <2> QED BY <1>3, <2>1 DEF Finds
<1> QED BY <1>2, <1>3

LEMMA FindsAppend ==
  ASSUME NEW r \in Seq(Rows), NEW x \in Rows, NEW i, NEW row, NEW new, Finds(r, Len(r), i, row),
         IF Full(x, i) /\ ~(row # NoRow /\ Complete(row)) THEN new = x
         ELSE new = row \/ (~(row # NoRow /\ Complete(row)) /\ ~(new # NoRow /\ Complete(new)))
  PROVE  Finds(Append(r, x), Len(Append(r, x)), i, new)
<1>1. /\ Append(r, x) \in Seq(Rows) /\ Len(Append(r, x)) = Len(r) + 1 /\ Len(r) \in Nat
      /\ Append(r, x)[Len(r) + 1] = x
  OBVIOUS
<1>2. Len(r) + 1 \in DOMAIN Append(r, x)
  BY <1>1
<1>3. Finds(Append(r, x), Len(r), i, row)
  BY FindsPrefix
<1>4. Finds(Append(r, x), Len(r) + 1, i, new)
  BY <1>1, <1>2, <1>3, FindsNext
<1> QED BY <1>1, <1>4

\* A row that is lost leaves a complete row the first, or none is left.
LEMMA FindsShorter ==
  ASSUME NEW r \in Seq(Rows), Len(r) > 0, NEW i, NEW row \in Rows, Complete(row), Finds(r, Len(r), i, row)
  PROVE  LET s == SubSeq(r, 1, Len(r) - 1) IN Finds(s, Len(s), i, row) \/ Finds(s, Len(s), i, NoRow)
<1> DEFINE s == SubSeq(r, 1, Len(r) - 1)
<1>1. /\ Len(r) \in Nat /\ Len(s) = Len(r) - 1 /\ DOMAIN r = 1..Len(r) /\ DOMAIN s = 1..(Len(r) - 1)
      /\ \A m \in DOMAIN s : s[m] = r[m] /\ m \in DOMAIN r
  <2>1. Len(r) \in Nat /\ Len(r) - 1 \in Nat /\ DOMAIN r = 1..Len(r)
    OBVIOUS
  <2>2. \A m \in 1..(Len(r) - 1) : r[m] \in Rows /\ m \in DOMAIN r
    BY <2>1
  <2>3. s \in Seq(Rows) /\ Len(s) = Len(r) - 1 /\ \A m \in 1..(Len(r) - 1) : s[m] = r[m]
    BY <2>1, <2>2
  <2>4. DOMAIN s = 1..(Len(r) - 1)
    BY <2>3
  <2> HIDE DEF s
  <2> QED BY <2>1, <2>2, <2>3, <2>4
<1> HIDE DEF s
<1>2. row # NoRow
  BY IdAssumption
<1>3. PICK n \in DOMAIN r : n <= Len(r) /\ r[n] = row /\ row.id = i /\ \A m \in DOMAIN r : m < n => ~Full(r[m], i)
  BY <1>2 DEF Finds
<1>4. CASE n = Len(r)
  <2>1. \A m \in DOMAIN s : ~Full(s[m], i)
    BY <1>1, <1>3, <1>4
  <2> QED BY <2>1 DEF Finds, s
<1>5. CASE n # Len(r)
  <2>1. n \in DOMAIN s /\ n <= Len(s) /\ s[n] = row
    BY <1>1, <1>3, <1>5
  <2>2. \A m \in DOMAIN s : m < n => ~Full(s[m], i)
    BY <1>1, <1>3
  <2>3. Finds(s, Len(s), i, row)
    BY <1>2, <1>3, <2>1, <2>2 DEF Finds
  <2> QED BY <2>3 DEF s
<1> QED BY <1>4, <1>5

LEMMA KeepsSurvivors ==
  ASSUME NEW f \in FileType, NEW i, NEW s, Keeps(f, i, s)
  PROVE  Keeps([rows |-> Survivors(f), tail |-> "part"], i, s)
<1> DEFINE g == [rows |-> Survivors(f), tail |-> "part"]
<1>1. PICK row \in Rows :
        /\ Complete(row) /\ row.says = s
        /\ \/ Finds(f.rows, Len(f.rows), i, row)
           \/ f.tail = "part" /\ Finds(f.rows, Len(f.rows), i, NoRow)
  BY DEF Keeps
<1>2. Finds(g.rows, Len(g.rows), i, row) \/ Finds(g.rows, Len(g.rows), i, NoRow)
  <2>1. CASE f.tail # "whole" \/ Len(f.rows) = 0
    <3>1. g.rows = f.rows
      <4>1. CASE f.tail # "whole"
        BY <4>1 DEF Survivors
      <4>2. CASE Len(f.rows) = 0
        <5>1. f.rows \in Seq(Rows)
          BY DEF FileType
        <5>2. f.rows = <<>> /\ SubSeq(f.rows, 1, Len(f.rows) - 1) = <<>>
          BY <4>2, <5>1
        <5> QED BY <5>2 DEF Survivors
      <4> QED BY <2>1, <4>1, <4>2
    <3> QED BY <1>1, <3>1
  <2>2. CASE f.tail = "whole" /\ Len(f.rows) # 0
    <3>1. f.rows \in Seq(Rows) /\ Len(f.rows) > 0
      <4>1. f.rows \in Seq(Rows)
        BY DEF FileType
      <4> QED BY <2>2, <4>1
    <3>2. g.rows = SubSeq(f.rows, 1, Len(f.rows) - 1)
      BY <2>2 DEF Survivors
    <3>3. Finds(f.rows, Len(f.rows), i, row)
      BY <1>1, <2>2
    <3> HIDE DEF g
    <3> QED BY <1>1, <3>1, <3>2, <3>3, FindsShorter
  <2> QED BY <2>1, <2>2
<1>3. g.tail = "part"
  OBVIOUS
<1> HIDE DEF g
<1>4. Keeps(g, i, s)
  BY <1>1, <1>2, <1>3 DEF Keeps
<1> QED BY <1>4 DEF g

LEMMA KeepsAppend ==
  ASSUME NEW f \in FileType, NEW i, NEW s, Keeps(f, i, s), f.tail = "newline", NEW x \in Rows, NEW tail
  PROVE  Keeps([rows |-> Append(f.rows, x), tail |-> tail], i, s)
<1>1. PICK row \in Rows : Complete(row) /\ row.says = s /\ Finds(f.rows, Len(f.rows), i, row)
  BY DEF Keeps
<1>2. row # NoRow
  BY IdAssumption
<1>3. f.rows \in Seq(Rows)
  BY DEF FileType
<1>4. Finds(Append(f.rows, x), Len(Append(f.rows, x)), i, row)
  BY <1>1, <1>2, <1>3, FindsAppend
<1> QED BY <1>1, <1>4 DEF Keeps

\* A vote that a prompt rests on is kept by every append but one into an
\* unfinished line.
LEMMA KeepsCut ==
  ASSUME NEW f \in FileType, NEW i, NEW s, Keeps(f, i, s), NEW x \in Rows, NEW g \in CutRow(f, x, Tears)
  PROVE  Keeps(g, i, s)
<1>1. CASE g = f
  BY <1>1
<1>2. CASE f.tail = "newline" /\ g = [rows |-> Append(f.rows, x), tail |-> "whole"]
  BY <1>2, KeepsAppend
<1>3. CASE g = [rows |-> Survivors(f), tail |-> "part"]
  BY <1>3, KeepsSurvivors
<1> QED BY <1>1, <1>2, <1>3 DEF CutRow


FileAt(i) == disk[FileOf[i]]

\* How many rows of the identity's file the scan has passed.
Passed(i) == IF at[1] > FileOf[i] THEN Len(FileAt(i).rows) ELSE IF at[1] = FileOf[i] THEN at[2] - 1 ELSE 0

RowsHome == \A f \in Files : \A n \in DOMAIN disk[f].rows : FileOf[disk[f].rows[n].id] = f

ScanFinds ==
  main = "scanning" => fresh = NoRows /\ \A i \in Ids : Finds(FileAt(i).rows, Passed(i), i, rowOf[i])

AnswersFind ==
  main = "running" /\ ~merged => \A i \in Ids : Finds(FileAt(i).rows, Len(FileAt(i).rows), i, Answer(i))

\* The panel that critiques are retained of.
Panel == [v \in Verifiers |-> [p \in 1..NumSeeds |-> Answer(<<v, p>>).says]]
QueuesAnswer ==
  state # "idle" =>
    /\ main = "running" /\ queues = Panel
    /\ \A i \in Votes : Answer(i) \in Rows /\ Answer(i).says \in Scores

PromptKept ==
  prompt # Nothing /\ ~merged =>
    \A i \in Votes : Keeps(FileAt(i), i, prompt.queues[i[1]][i[2]])

PromptChosen ==
  prompt # Nothing =>
    /\ prompt.queues = [v \in Verifiers |-> [p \in 1..NumSeeds |-> prompt.queues[v][p]]]
    /\ \E c : Reaches(prompt.queues, c) /\ c.state = "chosen"
              /\ prompt = [queues |-> prompt.queues, selected |-> c.selected]

RepeatInv == RowsHome /\ ScanFinds /\ AnswersFind /\ QueuesAnswer /\ PromptKept /\ PromptChosen

LEMMA FilesHere ==
  ASSUME LedgerTypeOK, NEW i \in Ids
  PROVE  FileAt(i) \in FileType /\ FileOf[i] \in Files /\ FileAt(i).rows \in Seq(Rows)
BY IdAssumption DEF LedgerTypeOK, FileAt, FileType

LEMMA VotesAreIds == Votes \subseteq Ids
BY VoteAssumption

\* The scan's next row, in a file of the identity or another.
LEMMA ScanRow ==
  ASSUME LInv, RowsHome, ScanFinds, Reading, NextLine, NEW i \in Ids,
         IF Full(Row, i) /\ ~(rowOf[i] # NoRow /\ Complete(rowOf[i])) THEN rowOf'[i] = Row
         ELSE \/ rowOf'[i] = rowOf[i]
              \/ ~(rowOf[i] # NoRow /\ Complete(rowOf[i])) /\ ~(rowOf'[i] # NoRow /\ Complete(rowOf'[i])),
         Row.id # i => rowOf'[i] = rowOf[i]
  PROVE  Finds(FileAt(i).rows, Passed(i), i, rowOf[i])'
<1>1. /\ at \in Files \X (Nat \ {0}) /\ FileAt(i).rows \in Seq(Rows) /\ FileOf[i] \in Files
      /\ disk[at[1]].rows \in Seq(Rows)
  BY FilesHere DEF LInv, LedgerTypeOK
<1>2. at[1] \in Nat /\ at[2] \in Nat \ {0} /\ FileOf[i] \in Nat
  BY <1>1 DEF Files
<1>3. main = "scanning" /\ at[2] <= Len(disk[at[1]].rows) /\ at' = <<at[1], at[2] + 1>> /\ disk' = disk
  BY DEF Reading, NextLine
<1>4. FileAt(i)' = FileAt(i)
  BY <1>3 DEF FileAt
<1>5. Finds(FileAt(i).rows, Passed(i), i, rowOf[i])
  BY <1>3 DEF ScanFinds
<1>6. CASE at[1] # FileOf[i]
  <2>1. Passed(i)' = Passed(i)
    BY <1>3, <1>4, <1>6 DEF Passed
  <2>2. Row.id # i
    <3>1. at[2] \in DOMAIN disk[at[1]].rows
      BY <1>1, <1>2, <1>3
    <3>2. FileOf[Row.id] = at[1]
      BY <1>1, <3>1 DEF RowsHome, Row
    <3> QED BY <1>6, <3>2
  <2>3. Finds(FileAt(i).rows, Passed(i), i, rowOf[i])' = Finds(FileAt(i).rows, Passed(i), i, rowOf[i])
    BY <1>4, <2>1, <2>2 DEF Finds
  <2> QED BY <1>5, <2>3
<1>7. CASE at[1] = FileOf[i]
  <2> DEFINE k == at[2] - 1
             r == FileAt(i).rows
  <2>1. Passed(i) = k /\ k \in Nat /\ k + 1 = at[2] /\ Passed(i)' = k + 1
    BY <1>2, <1>3, <1>7 DEF Passed
  <2>2. r[k + 1] = Row /\ k + 1 \in DOMAIN r /\ r \in Seq(Rows)
    BY <1>1, <1>2, <1>3, <1>7 DEF Row, FileAt
  <2> DEFINE old == rowOf[i]
             new == rowOf'[i]
  <2>3. Finds(r, k, i, old)
    BY <1>5, <2>1
  <2> HIDE DEF k, r
  <2>4. IF Full(r[k + 1], i) /\ ~(old # NoRow /\ Complete(old)) THEN new = r[k + 1]
        ELSE new = old \/ (~(old # NoRow /\ Complete(old)) /\ ~(new # NoRow /\ Complete(new)))
    BY <2>2
  <2> HIDE DEF old, new
  <2>5. Finds(r, k + 1, i, new)
    BY <2>1, <2>2, <2>3, <2>4, FindsNext
  <2>6. FileAt(i).rows' = r
    BY <1>4 DEF r
  <2>7. Finds(FileAt(i).rows, Passed(i), i, rowOf[i])' = Finds(r, k + 1, i, new)
    BY <2>1, <2>6 DEF Finds, new, Complete
  <2> QED BY <2>5, <2>7
<1> QED BY <1>6, <1>7

\* A file that has lost a row holds others of the same file.
LEMMA SurvivorsHome ==
  ASSUME RowsHome, NEW f \in Files, disk[f] \in FileType, NEW n \in DOMAIN Survivors(disk[f])
  PROVE  FileOf[Survivors(disk[f])[n].id] = f
<1> DEFINE r == disk[f].rows
<1>1. r \in Seq(Rows)
  BY DEF FileType
<1>2. CASE disk[f].tail # "whole" \/ Len(r) = 0
  <2>1. Survivors(disk[f]) = r
    <3>1. Len(r) = 0 => r = <<>> /\ SubSeq(r, 1, Len(r) - 1) = <<>>
      BY <1>1
    <3> QED BY <1>2, <3>1 DEF Survivors
  <2> QED BY <2>1 DEF RowsHome
<1>3. CASE disk[f].tail = "whole" /\ Len(r) # 0
  <2>1. Survivors(disk[f]) = SubSeq(r, 1, Len(r) - 1) /\ Len(r) - 1 \in Nat
    BY <1>1, <1>3 DEF Survivors
  <2>2. \A m \in 1..(Len(r) - 1) : r[m] \in Rows /\ m \in DOMAIN r
    BY <1>1, <2>1
  <2> HIDE DEF r
  <2>3. /\ SubSeq(r, 1, Len(r) - 1) \in Seq(Rows) /\ Len(SubSeq(r, 1, Len(r) - 1)) = Len(r) - 1
        /\ \A m \in 1..(Len(r) - 1) : SubSeq(r, 1, Len(r) - 1)[m] = r[m]
    BY <1>1, <2>1, <2>2
  <2>4. n \in 1..(Len(r) - 1)
    BY <2>1, <2>3
  <2>5. Survivors(disk[f])[n] = r[n] /\ n \in DOMAIN r
    BY <2>1, <2>2, <2>3, <2>4
  <2> QED BY <2>5 DEF RowsHome, r
<1> QED BY <1>2, <1>3

LEMMA ScanRepeats ==
  ASSUME LInv, RepeatInv, Scan, state = "idle", UNCHANGED critiqueVars, UNCHANGED prompt
  PROVE  RepeatInv'
<1>1. RowsHome /\ ScanFinds /\ PromptKept /\ PromptChosen
  BY DEF RepeatInv
<1>2. main = "scanning" /\ disk' = disk /\ merged' = merged /\ fresh' = fresh /\ state' = "idle" /\ prompt' = prompt
  BY DEF Scan, AddFirst, Replace, KeepFirst, NextFile, Reading, NextLine, critiqueVars
<1>3. RowsHome' /\ PromptKept' /\ PromptChosen' /\ QueuesAnswer'
  <2>1. RowsHome'
    BY <1>1, <1>2 DEF RowsHome
  <2>2. PromptKept'
    BY <1>1, <1>2 DEF PromptKept, FileAt
  <2>3. PromptChosen'
    BY <1>1, <1>2 DEF PromptChosen
  <2> QED BY <1>2, <2>1, <2>2, <2>3 DEF QueuesAnswer
<1>4. fresh = NoRows
  BY <1>1, <1>2 DEF ScanFinds
<1>5. CASE AddFirst \/ Replace \/ KeepFirst
  <2>1. Reading /\ NextLine /\ main' = "scanning"
    BY <1>2, <1>5 DEF AddFirst, Replace, KeepFirst, NextLine
  <2>2. Row \in Rows /\ Row # NoRow /\ rowOf \in [Ids -> Rows \cup {NoRow}]
    BY <2>1, RowType, IdAssumption DEF LInv, LedgerTypeOK
  <2>3. Row.id \in Ids
    BY <2>2 DEF Rows
  <2>4. ASSUME NEW i \in Ids PROVE Finds(FileAt(i).rows, Passed(i), i, rowOf[i])'
    <3>1. Row.id # i => rowOf'[i] = rowOf[i]
      BY <1>5, <2>2, <2>3 DEF AddFirst, Replace, KeepFirst, Enter, index
    <3>2. CASE AddFirst
      <4>1. Row.id = i => rowOf[i] = NoRow /\ rowOf'[i] = Row
        BY <2>2, <2>3, <3>2 DEF AddFirst, Enter
      <4> QED BY <1>1, <2>1, <2>2, <3>1, <4>1, ScanRow DEF Full
    <3>3. CASE Replace
      <4>1. Row.id = i => rowOf'[i] = Row /\ Complete(Row) /\ ~Complete(rowOf[i])
        BY <2>2, <2>3, <3>3 DEF Replace, Enter, Supersedes
      <4> QED BY <1>1, <2>1, <2>2, <3>1, <4>1, ScanRow DEF Full
    <3>4. CASE KeepFirst
      <4>1. rowOf' = rowOf /\ (Row.id = i => rowOf[i] # NoRow /\ ~(Complete(Row) /\ ~Complete(rowOf[i])))
        BY <3>4 DEF KeepFirst, index, Supersedes
      <4> QED BY <1>1, <2>1, <2>2, <3>1, <4>1, ScanRow DEF Full
    <3> QED BY <1>5, <3>2, <3>3, <3>4
  <2>5. ScanFinds'
    BY <1>2, <1>4, <2>4 DEF ScanFinds, NoRows
  <2>6. AnswersFind'
    BY <2>1 DEF AnswersFind
  <2> QED BY <1>3, <2>5, <2>6 DEF RepeatInv
<1>6. CASE NextFile
  <2>1. /\ rowOf' = rowOf /\ at[2] > Len(disk[at[1]].rows)
        /\ IF at[1] < NumFiles THEN at' = <<at[1] + 1, 1>> /\ main' = main ELSE main' = "running" /\ at' = at
    BY <1>6 DEF NextFile, index
  <2>2. at \in Files \X (Nat \ {0}) /\ NumFiles \in Nat
    BY IdAssumption DEF LInv, LedgerTypeOK
  <2>3. at[1] \in 1..NumFiles /\ at[2] \in Nat
    BY <2>2 DEF Files
  <2>4. ASSUME NEW i \in Ids PROVE Finds(FileAt(i).rows, Passed(i), i, rowOf[i])
    BY <1>1, <1>2 DEF ScanFinds
  <2>5. ASSUME NEW i \in Ids, at[1] >= FileOf[i]
        PROVE  Finds(FileAt(i).rows, Len(FileAt(i).rows), i, rowOf[i])
    <3>1. FileAt(i).rows \in Seq(Rows) /\ FileOf[i] \in Nat
      BY FilesHere DEF LInv, Files
    <3>2. CASE at[1] > FileOf[i]
      BY <2>3, <2>4, <3>1, <3>2 DEF Passed
    <3>3. CASE at[1] = FileOf[i]
      <4>1. Passed(i) = at[2] - 1 /\ at[2] > Len(FileAt(i).rows)
        BY <2>1, <2>3, <3>3 DEF Passed, FileAt
      <4>2. \A m \in DOMAIN FileAt(i).rows : m \in Nat /\ m <= Len(FileAt(i).rows) /\ m <= at[2] - 1
        BY <2>3, <3>1, <4>1
      <4>3. Finds(FileAt(i).rows, at[2] - 1, i, rowOf[i])
        BY <2>4, <4>1
      <4> QED BY <4>2, <4>3 DEF Finds
    <3> QED BY <2>3, <2>5, <3>1, <3>2, <3>3
  <2>6. CASE at[1] < NumFiles
    <3>1. at' = <<at[1] + 1, 1>> /\ main' = "scanning"
      BY <1>2, <2>1, <2>6
    <3>2. ASSUME NEW i \in Ids PROVE Finds(FileAt(i).rows, Passed(i), i, rowOf[i])'
      <4>0. FileOf[i] \in Nat /\ FileAt(i)' = FileAt(i)
        BY <1>2, FilesHere DEF LInv, Files, FileAt
      <4>1. CASE at[1] >= FileOf[i]
        <5>1. Passed(i)' = Len(FileAt(i).rows)
          BY <2>3, <3>1, <4>0, <4>1 DEF Passed
        <5> QED BY <2>1, <2>5, <4>0, <4>1, <5>1 DEF Finds
      <4>2. CASE at[1] < FileOf[i]
        <5>1. Passed(i)' = 0 /\ Passed(i) = 0
          BY <2>3, <3>1, <4>0, <4>2 DEF Passed
        <5> QED BY <2>1, <2>4, <4>0, <5>1 DEF Finds
      <4> QED BY <2>3, <4>0, <4>1, <4>2
    <3>3. ScanFinds'
      BY <1>2, <1>4, <3>2 DEF ScanFinds, NoRows
    <3>4. AnswersFind'
      BY <3>1 DEF AnswersFind
    <3> QED BY <1>3, <3>3, <3>4 DEF RepeatInv
  <2>7. CASE ~(at[1] < NumFiles)
    <3>1. main' = "running"
      BY <2>1, <2>7
    <3>2. ASSUME NEW i \in Ids
          PROVE  Finds(FileAt(i).rows, Len(FileAt(i).rows), i, Answer(i))'
      <4>1. at[1] >= FileOf[i]
        BY <2>2, <2>3, <2>7, FilesHere DEF LInv, Files
      <4>2. Answer(i)' = rowOf[i]
        BY <1>2, <1>4, <2>1 DEF Answer, NoRows
      <4>3. FileAt(i)' = FileAt(i)
        BY <1>2 DEF FileAt
      <4> QED BY <2>5, <4>1, <4>2, <4>3 DEF Finds
    <3>3. AnswersFind' /\ ScanFinds'
      BY <3>1, <3>2 DEF AnswersFind, ScanFinds
    <3> QED BY <1>3, <3>3 DEF RepeatInv
  <2> QED BY <2>6, <2>7
<1> QED BY <1>5, <1>6 DEF Scan

\* Received: the row of an identity that had no complete one.
LEMMA ReceiveRepeats ==
  ASSUME LInv, RepeatInv, NEW i \in Ids, NEW reply \in Replies, Receive(i, reply), state = "idle",
         UNCHANGED critiqueVars, UNCHANGED prompt
  PROVE  RepeatInv'
<1> DEFINE row == Received(i, reply)
<1>0. row \in Rows /\ row.id = i /\ row # NoRow
  <2>1. row \in Rows /\ row.id = i
    BY DEF Received, Rows
  <2> QED BY <2>1, IdAssumption
<1>1. RowsHome /\ AnswersFind /\ PromptKept /\ PromptChosen /\ LedgerTypeOK
  BY DEF RepeatInv, LInv
<1>2. /\ main = "running" /\ main' = main /\ Needed(i) /\ rowOf' = rowOf /\ at' = at
      /\ disk' = [disk EXCEPT ![FileOf[i]] = AppendRow(@, row)]
      /\ fresh' = [fresh EXCEPT ![i] = row]
      /\ merged' = (merged \/ disk[FileOf[i]].tail # "newline")
      /\ state' = "idle" /\ prompt' = prompt
  BY DEF Receive, critiqueVars, index
<1> HIDE DEF row
<1>3. FileOf[i] \in Files /\ FileAt(i) \in FileType /\ disk \in [Files -> FileType]
      /\ fresh \in [Ids -> Rows \cup {NoRow}]
  BY <1>1, FilesHere DEF LedgerTypeOK, FileType
<1>4. /\ disk'[FileOf[i]] = AppendRow(FileAt(i), row)
      /\ \A f \in Files : f # FileOf[i] => disk'[f] = disk[f]
  BY <1>2, <1>3 DEF FileAt
<1>5. RowsHome'
  <2> SUFFICES ASSUME NEW f \in Files, NEW n \in DOMAIN disk'[f].rows PROVE FileOf[disk'[f].rows[n].id] = f
    BY DEF RowsHome
  <2>1. CASE f # FileOf[i]
    BY <1>1, <1>4, <2>1 DEF RowsHome
  <2>2. CASE f = FileOf[i]
    <3>1. disk[f].rows \in Seq(Rows) /\ disk[f] = FileAt(i)
      BY <1>3, <2>2 DEF FileType, FileAt
    <3>2. disk'[f].rows \in {Append(disk[f].rows, row), Survivors(disk[f])}
      BY <1>4, <2>2, <3>1 DEF AppendRow
    <3>3. CASE disk'[f].rows = Append(disk[f].rows, row)
      <4>1. n \in 1..(Len(disk[f].rows) + 1)
        BY <3>1, <3>3
      <4>2. CASE n = Len(disk[f].rows) + 1
        BY <1>0, <2>2, <3>1, <3>3, <4>2
      <4>3. CASE n # Len(disk[f].rows) + 1
        <5>1. n \in DOMAIN disk[f].rows /\ disk'[f].rows[n] = disk[f].rows[n]
          BY <3>1, <3>3, <4>1, <4>3
        <5> QED BY <1>1, <5>1 DEF RowsHome
      <4> QED BY <4>2, <4>3
    <3>4. CASE disk'[f].rows = Survivors(disk[f])
      <4>1. disk[f] \in FileType /\ n \in DOMAIN Survivors(disk[f])
        BY <1>3, <3>4
      <4>2. FileOf[Survivors(disk[f])[n].id] = f
        BY <1>1, <4>1, SurvivorsHome
      <4> QED BY <3>4, <4>2
    <3> QED BY <3>2, <3>3, <3>4
  <2> QED BY <2>1, <2>2
<1>6. ASSUME ~merged' PROVE ~merged /\ FileAt(i).tail = "newline"
                            /\ FileAt(i)' = [rows |-> Append(FileAt(i).rows, row), tail |-> "newline"]
  <2>1. ~merged /\ FileAt(i).tail = "newline"
    BY <1>2, <1>6 DEF FileAt
  <2> QED BY <1>4, <2>1 DEF AppendRow, FileAt
<1>7. \A j \in Ids : FileOf[j] # FileOf[i] => FileAt(j)' = FileAt(j)
  BY <1>1, <1>4, FilesHere DEF FileAt
<1>8. AnswersFind'
  <2> SUFFICES ASSUME ~merged', NEW j \in Ids PROVE Finds(FileAt(j).rows, Len(FileAt(j).rows), j, Answer(j))'
    BY DEF AnswersFind
  <2>1. Finds(FileAt(j).rows, Len(FileAt(j).rows), j, Answer(j))
    BY <1>1, <1>2, <1>6 DEF AnswersFind
  <2>2. j # i => Answer(j)' = Answer(j)
    BY <1>2, <1>3 DEF Answer
  <2>3. CASE FileOf[j] # FileOf[i]
    BY <1>7, <2>1, <2>2, <2>3 DEF Finds
  <2>4. CASE FileOf[j] = FileOf[i]
    <3> DEFINE r == FileAt(i).rows
               old == Answer(j)
               new == Answer(j)'
    <3>1. FileAt(j) = FileAt(i) /\ FileAt(j).rows' = Append(r, row) /\ r \in Seq(Rows)
      BY <1>3, <1>6, <2>4 DEF FileAt, FileType
    <3>2. j = i => ~(old # NoRow /\ Complete(old)) /\ new = row
      BY <1>0, <1>2, <1>3 DEF Needed, Answer, Complete
    <3>3. j # i => ~Full(row, j) /\ new = old
      BY <1>0, <2>2 DEF Full
    <3>4. Finds(r, Len(r), j, old)
      BY <2>1, <3>1
    <3>5. IF Full(row, j) /\ ~(old # NoRow /\ Complete(old)) THEN new = row
          ELSE new = old \/ (~(old # NoRow /\ Complete(old)) /\ ~(new # NoRow /\ Complete(new)))
      BY <1>0, <3>2, <3>3 DEF Full
    <3> HIDE DEF r, old, new
    <3>6. Finds(Append(r, row), Len(Append(r, row)), j, new)
      BY <1>0, <3>1, <3>4, <3>5, FindsAppend
    <3> QED BY <3>1, <3>6 DEF Finds, new, Complete
  <2> QED BY <2>3, <2>4
<1>9. PromptKept'
  <2> SUFFICES ASSUME prompt # Nothing, ~merged', NEW j \in Votes
               PROVE  Keeps(FileAt(j)', j, prompt.queues[j[1]][j[2]])
    BY <1>2 DEF PromptKept, Keeps, Finds, Complete
  <2>1. Keeps(FileAt(j), j, prompt.queues[j[1]][j[2]]) /\ j \in Ids
    BY <1>1, <1>6, VotesAreIds DEF PromptKept
  <2>2. CASE FileOf[j] # FileOf[i]
    BY <1>7, <2>1, <2>2
  <2>3. CASE FileOf[j] = FileOf[i]
    <3>1. FileAt(j) = FileAt(i) /\ FileAt(j)' = FileAt(i)'
      BY <2>3 DEF FileAt
    <3> QED BY <1>0, <1>3, <1>6, <2>1, <3>1, KeepsAppend
  <2> QED BY <2>2, <2>3
<1>10. PromptChosen' /\ QueuesAnswer' /\ ScanFinds'
  BY <1>1, <1>2 DEF PromptChosen, QueuesAnswer, ScanFinds
<1> QED BY <1>5, <1>8, <1>9, <1>10 DEF RepeatInv


\* A step that leaves the ledger and the prompt alone.
LEMMA LedgerKept ==
  ASSUME RepeatInv, main' = main, disk' = disk, merged' = merged, rowOf' = rowOf, fresh' = fresh, at' = at
  PROVE  /\ RowsHome' /\ ScanFinds' /\ AnswersFind'
         /\ prompt' = prompt => PromptKept' /\ PromptChosen'
<1>1. \A i : FileAt(i)' = FileAt(i) /\ Passed(i)' = Passed(i) /\ Answer(i)' = Answer(i)
  BY DEF FileAt, Passed, Answer
<1>2. RowsHome'
  BY DEF RepeatInv, RowsHome
<1>3. ScanFinds'
  BY <1>1 DEF RepeatInv, ScanFinds, Finds
<1>4. AnswersFind'
  BY <1>1 DEF RepeatInv, AnswersFind, Finds
<1>5. prompt' = prompt => PromptKept'
  BY <1>1 DEF RepeatInv, PromptKept, Keeps, Finds
<1>6. prompt' = prompt => PromptChosen'
  BY DEF RepeatInv, PromptChosen
<1> QED BY <1>2, <1>3, <1>4, <1>5, <1>6

\* A process that ends, in the middle of an append or not, answers no more.
LEMMA CutRepeats ==
  ASSUME LInv, RepeatInv, NEW i \in Ids, NEW reply \in Replies, CutShort(i, reply), state = "idle",
         UNCHANGED critiqueVars, UNCHANGED prompt
  PROVE  RepeatInv'
<1> DEFINE row == Received(i, reply)
<1>0. row \in Rows /\ row.id = i
  BY DEF Received, Rows
<1>1. RowsHome /\ PromptKept /\ PromptChosen /\ LedgerTypeOK
  BY DEF RepeatInv, LInv
<1>2. main' = "ended" /\ merged' = merged /\ state' = "idle" /\ prompt' = prompt
  BY DEF CutShort, critiqueVars
<1>3. PICK g \in CutRow(FileAt(i), row, Tears) : disk' = [disk EXCEPT ![FileOf[i]] = g]
  BY DEF CutShort, FileAt
<1> HIDE DEF row
<1>4. /\ FileOf[i] \in Files /\ FileAt(i) \in FileType /\ disk \in [Files -> FileType]
      /\ disk'[FileOf[i]] = g /\ \A f \in Files : f # FileOf[i] => disk'[f] = disk[f]
  BY <1>1, <1>3, FilesHere DEF LedgerTypeOK, FileType
<1>5. RowsHome'
  <2> SUFFICES ASSUME NEW f \in Files, NEW n \in DOMAIN disk'[f].rows PROVE FileOf[disk'[f].rows[n].id] = f
    BY DEF RowsHome
  <2>1. CASE f # FileOf[i]
    BY <1>1, <1>4, <2>1 DEF RowsHome
  <2>2. CASE f = FileOf[i]
    <3>1. disk[f].rows \in Seq(Rows) /\ disk[f] = FileAt(i) /\ disk[f] \in FileType
      BY <1>4, <2>2 DEF FileType, FileAt
    <3>2. g.rows \in {disk[f].rows, Append(disk[f].rows, row), Survivors(disk[f])}
      BY <1>3, <3>1 DEF CutRow
    <3>3. CASE g.rows = Append(disk[f].rows, row)
      <4>1. disk'[f].rows = Append(disk[f].rows, row)
        BY <1>4, <2>2, <3>3
      <4>2. n \in 1..(Len(disk[f].rows) + 1)
        BY <3>1, <4>1
      <4>3. CASE n = Len(disk[f].rows) + 1
        BY <1>0, <2>2, <3>1, <4>1, <4>3
      <4>4. CASE n # Len(disk[f].rows) + 1
        <5>1. n \in DOMAIN disk[f].rows /\ disk'[f].rows[n] = disk[f].rows[n]
          BY <3>1, <4>1, <4>2, <4>4
        <5> QED BY <1>1, <5>1 DEF RowsHome
      <4> QED BY <4>3, <4>4
    <3>4. CASE g.rows = Survivors(disk[f])
      <4>1. disk'[f].rows = Survivors(disk[f]) /\ n \in DOMAIN Survivors(disk[f])
        BY <1>4, <2>2, <3>4
      <4>2. FileOf[Survivors(disk[f])[n].id] = f
        BY <1>1, <3>1, <4>1, SurvivorsHome
      <4> QED BY <4>1, <4>2
    <3>5. CASE g.rows = disk[f].rows
      BY <1>1, <1>4, <2>2, <3>5 DEF RowsHome
    <3> QED BY <3>2, <3>3, <3>4, <3>5
  <2> QED BY <2>1, <2>2
<1>6. PromptKept'
  <2> SUFFICES ASSUME prompt # Nothing, ~merged, NEW j \in Votes
               PROVE  Keeps(FileAt(j)', j, prompt.queues[j[1]][j[2]])
    BY <1>2 DEF PromptKept, Keeps, Finds, Complete
  <2>1. Keeps(FileAt(j), j, prompt.queues[j[1]][j[2]]) /\ j \in Ids
    BY <1>1, VotesAreIds DEF PromptKept
  <2>2. CASE FileOf[j] # FileOf[i]
    <3>1. FileAt(j)' = FileAt(j)
      BY <1>1, <1>4, <2>1, <2>2, FilesHere DEF FileAt
    <3> QED BY <2>1, <3>1
  <2>3. CASE FileOf[j] = FileOf[i]
    <3>1. FileAt(j) = FileAt(i) /\ FileAt(j)' = g
      BY <1>4, <2>3 DEF FileAt
    <3>2. Keeps(g, j, prompt.queues[j[1]][j[2]])
      BY <1>0, <1>4, <2>1, <3>1, KeepsCut
    <3> QED BY <3>1, <3>2
  <2> QED BY <2>2, <2>3
<1>7. PromptChosen' /\ QueuesAnswer' /\ ScanFinds' /\ AnswersFind'
  BY <1>1, <1>2 DEF PromptChosen, QueuesAnswer, ScanFinds, AnswersFind
<1> QED BY <1>5, <1>6, <1>7 DEF RepeatInv

LEMMA EndRepeats ==
  ASSUME RepeatInv, End, Forget, UNCHANGED prompt
  PROVE  RepeatInv'
<1>1. main' = "ended" /\ merged' = merged /\ state' = "idle" /\ prompt' = prompt /\ disk' = disk
  BY DEF End, Forget
<1>2. RowsHome'
  BY <1>1 DEF RepeatInv, RowsHome
<1>3. PromptKept'
  BY <1>1 DEF RepeatInv, PromptKept, FileAt
<1>4. PromptChosen'
  BY <1>1 DEF RepeatInv, PromptChosen
<1> QED BY <1>1, <1>2, <1>3, <1>4 DEF RepeatInv, QueuesAnswer, ScanFinds, AnswersFind

LEMMA RelaunchRepeats ==
  ASSUME LInv, RepeatInv, Relaunch, UNCHANGED critiqueVars, UNCHANGED prompt
  PROVE  RepeatInv'
<1>1. /\ main = "ended" /\ main' = "scanning" /\ at' = <<1, 1>> /\ rowOf' = NoRows /\ fresh' = NoRows
      /\ merged' = merged /\ state' = state /\ prompt' = prompt /\ disk' = disk
  BY DEF Relaunch, critiqueVars
<1>2. RowsHome'
  BY <1>1 DEF RepeatInv, RowsHome
<1>3. PromptKept'
  BY <1>1 DEF RepeatInv, PromptKept, FileAt
<1>4. PromptChosen'
  BY <1>1 DEF RepeatInv, PromptChosen
<1>5. QueuesAnswer'
  <2>1. state = "idle"
    BY <1>1 DEF RepeatInv, QueuesAnswer
  <2> QED BY <1>1, <2>1 DEF QueuesAnswer
<1>6. ScanFinds'
  <2>1. ASSUME NEW i \in Ids PROVE Finds(FileAt(i).rows, Passed(i), i, rowOf[i])'
    <3>1. FileAt(i)' = FileAt(i) /\ FileAt(i).rows \in Seq(Rows) /\ FileOf[i] \in Nat /\ FileOf[i] >= 1
      BY <1>1, FilesHere DEF LInv, FileAt, Files
    <3>2. Passed(i)' = 0
      BY <1>1, <3>1 DEF Passed
    <3>3. rowOf'[i] = NoRow
      BY <1>1 DEF NoRows
    <3>4. \A m \in DOMAIN FileAt(i).rows : ~(m <= 0)
      BY <3>1
    <3> QED BY <3>1, <3>2, <3>3, <3>4 DEF Finds
  <2> QED BY <1>1, <2>1 DEF ScanFinds, NoRows
<1>7. AnswersFind'
  BY <1>1 DEF AnswersFind
<1> QED BY <1>2, <1>3, <1>4, <1>5, <1>6, <1>7 DEF RepeatInv

LEMMA InitRepeats == Init => RepeatInv
<1> SUFFICES ASSUME Init PROVE RepeatInv
  OBVIOUS
<1>1. /\ disk = [f \in Files |-> Empty] /\ main = "scanning" /\ at = <<1, 1>> /\ rowOf = NoRows /\ fresh = NoRows
      /\ state = "idle" /\ prompt = Nothing
  BY DEF Init, LedgerInit, CritiquesInit
<1>2. \A f \in Files : disk[f].rows = <<>>
  BY <1>1 DEF Empty
<1>3. RowsHome
  BY <1>2 DEF RowsHome
<1>4. ScanFinds
  <2>1. ASSUME NEW i \in Ids PROVE Finds(FileAt(i).rows, Passed(i), i, rowOf[i])
    <3>1. FileAt(i).rows = <<>>
      BY <1>2, IdAssumption DEF FileAt
    <3>2. rowOf[i] = NoRow
      BY <1>1 DEF NoRows
    <3>3. DOMAIN FileAt(i).rows = {}
      BY <3>1
    <3> QED BY <3>2, <3>3 DEF Finds
  <2> QED BY <1>1, <2>1 DEF ScanFinds
<1> QED BY <1>1, <1>3, <1>4 DEF RepeatInv, AnswersFind, QueuesAnswer, PromptKept, PromptChosen

LEMMA JudgeRepeats == LInv /\ RepeatInv /\ Judge => RepeatInv'
<1> SUFFICES ASSUME LInv, RepeatInv, Judge PROVE RepeatInv'
  OBVIOUS
<1>1. UNCHANGED ledgerVars /\ prompt' = prompt /\ main = "running" /\ queues' = Panel
  BY DEF Judge, PanelIn, Choose, Panel
<1>2. main' = main /\ disk' = disk /\ merged' = merged /\ rowOf' = rowOf /\ fresh' = fresh /\ at' = at
  BY <1>1 DEF ledgerVars, index
<1>3. RowsHome' /\ ScanFinds' /\ AnswersFind' /\ PromptKept' /\ PromptChosen'
  BY <1>1, <1>2, LedgerKept
<1>4. \A i \in Votes : Answer(i) \in Rows /\ Answer(i).says \in Scores
  <2> SUFFICES ASSUME NEW i \in Votes PROVE Answer(i) \in Rows /\ Answer(i).says \in Scores
    OBVIOUS
  <2>1. ~Needed(i) /\ Answer(i).says \in Scores
    BY DEF Judge, PanelIn
  <2>2. rowOf[i] \in Rows \cup {NoRow} /\ fresh[i] \in Rows \cup {NoRow}
    BY VotesAreIds DEF LInv, LedgerTypeOK
  <2>3. Answer(i) # NoRow
    BY <2>1 DEF Needed, Answer
  <2> QED BY <2>1, <2>2, <2>3 DEF Answer
<1>5. QueuesAnswer'
  <2>1. \A i : Answer(i)' = Answer(i)
    BY <1>2 DEF Answer
  <2> QED BY <1>1, <1>2, <1>4, <2>1 DEF QueuesAnswer, Panel
<1> QED BY <1>3, <1>5 DEF RepeatInv

LEMMA RetainRepeats == RepeatInv /\ Retain => RepeatInv'
<1> SUFFICES ASSUME RepeatInv, Retain PROVE RepeatInv'
  OBVIOUS
<1>1. UNCHANGED ledgerVars /\ prompt' = prompt /\ main = "running" /\ state = "choosing" /\ queues' = queues
  BY StepIsTurn DEF Retain
<1>2. main' = main /\ disk' = disk /\ merged' = merged /\ rowOf' = rowOf /\ fresh' = fresh /\ at' = at
  BY <1>1 DEF ledgerVars, index
<1>3. RowsHome' /\ ScanFinds' /\ AnswersFind' /\ PromptKept' /\ PromptChosen'
  BY <1>1, <1>2, LedgerKept
<1>4. QueuesAnswer'
  <2>1. \A i : Answer(i)' = Answer(i)
    BY <1>2 DEF Answer
  <2> QED BY <1>1, <1>2, <2>1 DEF RepeatInv, QueuesAnswer, Panel
<1> QED BY <1>3, <1>4 DEF RepeatInv

\* A prompt is sent of votes that are the first complete ones on disk.
LEMMA RefineRepeats == LInv /\ RepeatInv /\ ChoiceInv /\ Refine => RepeatInv'
<1> SUFFICES ASSUME LInv, RepeatInv, ChoiceInv, Refine PROVE RepeatInv'
  OBVIOUS
<1>1. /\ UNCHANGED ledgerVars /\ UNCHANGED critiqueVars /\ main = "running" /\ state = "chosen"
      /\ prompt' = [queues |-> queues, selected |-> selected]
  BY DEF Refine
<1>2. main' = main /\ disk' = disk /\ merged' = merged /\ rowOf' = rowOf /\ fresh' = fresh /\ at' = at
      /\ state' = state /\ queues' = queues
  BY <1>1 DEF ledgerVars, index, critiqueVars
<1>3. /\ queues = Panel /\ AnswersFind
      /\ \A i \in Votes : Answer(i) \in Rows /\ Answer(i).says \in Scores
  BY <1>1 DEF RepeatInv, QueuesAnswer
<1>4. RowsHome' /\ ScanFinds' /\ AnswersFind'
  BY <1>2, LedgerKept DEF RepeatInv
<1>5. QueuesAnswer'
  <2>1. \A i : Answer(i)' = Answer(i)
    BY <1>2 DEF Answer
  <2> QED BY <1>2, <2>1 DEF RepeatInv, QueuesAnswer, Panel
<1>6. PromptKept'
  <2> SUFFICES ASSUME ~merged, NEW i \in Votes PROVE Keeps(FileAt(i), i, queues[i[1]][i[2]])
    BY <1>1, <1>2 DEF PromptKept, FileAt, Keeps, Finds, Complete
  <2>1. i[1] \in Verifiers /\ i[2] \in 1..NumSeeds /\ i = <<i[1], i[2]>> /\ i \in Ids
    BY VotesAreIds DEF Votes
  <2>2. queues[i[1]][i[2]] = Answer(i).says
    BY <1>3, <2>1 DEF Panel
  <2>3. Answer(i) \in Rows /\ Complete(Answer(i))
    BY <1>3, VoteAssumption DEF Complete
  <2>4. Finds(FileAt(i).rows, Len(FileAt(i).rows), i, Answer(i))
    BY <1>1, <1>3, <2>1 DEF AnswersFind
  <2> QED BY <2>2, <2>3, <2>4 DEF Keeps
<1>7. PromptChosen'
  <2>1. Reaches(queues, Conf) /\ Conf.state = "chosen" /\ Conf.selected = selected
    BY <1>1 DEF ChoiceInv, Conf
  <2>2. queues = [v \in Verifiers |-> [p \in 1..NumSeeds |-> queues[v][p]]]
    BY <1>3 DEF Panel
  <2>3. prompt'.queues = queues /\ prompt'.selected = selected
    BY <1>1
  <2> DEFINE c == Conf
  <2>4. prompt' = [queues |-> prompt'.queues, selected |-> c.selected]
    BY <1>1, <2>1, <2>3
  <2> HIDE DEF c
  <2> QED BY <2>1, <2>2, <2>3, <2>4 DEF PromptChosen, c
<1> QED BY <1>4, <1>5, <1>6, <1>7 DEF RepeatInv

LEMMA NextRepeats == LInv /\ ChoiceInv /\ RepeatInv /\ [Next]_vars => RepeatInv'
<1> SUFFICES ASSUME LInv, ChoiceInv, RepeatInv, [Next]_vars PROVE RepeatInv'
  OBVIOUS
<1>1. CASE Judge \/ Retain \/ Refine
  BY <1>1, JudgeRepeats, RetainRepeats, RefineRepeats
<1>2. CASE /\ state = "idle" /\ (Scan \/ \E i \in Ids, reply \in Replies :
                            InOrder(i) /\ (Receive(i, reply) \/ CutShort(i, reply)))
           /\ UNCHANGED <<critiqueVars, prompt>>
  BY <1>2, ScanRepeats, ReceiveRepeats, CutRepeats
<1>3. CASE End /\ Forget /\ UNCHANGED prompt
  BY <1>3, EndRepeats
<1>4. CASE Relaunch /\ UNCHANGED <<critiqueVars, prompt>>
  BY <1>4, RelaunchRepeats
<1>5. CASE UNCHANGED vars
  <2>1. UNCHANGED ledgerVars /\ UNCHANGED critiqueVars /\ prompt' = prompt
    BY <1>5 DEF vars
  <2>2. main' = main /\ disk' = disk /\ merged' = merged /\ rowOf' = rowOf /\ fresh' = fresh /\ at' = at
        /\ state' = state /\ queues' = queues
    BY <2>1 DEF ledgerVars, index, critiqueVars
  <2>3. RowsHome' /\ ScanFinds' /\ AnswersFind' /\ PromptKept' /\ PromptChosen'
    BY <2>1, <2>2, LedgerKept
  <2>4. QueuesAnswer'
    <3>1. \A i : Answer(i)' = Answer(i)
      BY <2>2 DEF Answer
    <3> QED BY <2>2, <3>1 DEF RepeatInv, QueuesAnswer, Panel
  <2> QED BY <2>3, <2>4 DEF RepeatInv
<1> QED BY <1>1, <1>2, <1>3, <1>4, <1>5 DEF Next

\* The prompt that was sent is the one that a later launch comes to.
LEMMA Repeated == LInv /\ ChoiceInv /\ RepeatInv => PromptIsRepeatable
<1> SUFFICES ASSUME LInv, ChoiceInv, RepeatInv, state = "chosen", prompt # Nothing, ~merged
             PROVE  prompt = [queues |-> queues, selected |-> selected]
  BY DEF PromptIsRepeatable
<1>1. /\ main = "running" /\ queues = Panel /\ AnswersFind /\ PromptKept /\ PromptChosen
      /\ \A i \in Votes : Answer(i) \in Rows /\ Answer(i).says \in Scores
  BY DEF RepeatInv, QueuesAnswer
<1>2. ASSUME NEW v \in Verifiers, NEW p \in 1..NumSeeds PROVE prompt.queues[v][p] = Answer(<<v, p>>).says
  <2> DEFINE i == <<v, p>>
             r == FileAt(i).rows
             row == Answer(i)
  <2>1. i \in Votes /\ i \in Ids /\ i[1] = v /\ i[2] = p
    BY VotesAreIds DEF Votes
  <2>2. r \in Seq(Rows)
    BY <2>1, FilesHere DEF LInv
  <2>3. row \in Rows /\ Complete(row)
    BY <1>1, <2>1, VoteAssumption DEF Complete
  <2>4. Finds(r, Len(r), i, row)
    BY <1>1, <2>1 DEF AnswersFind
  <2>5. Keeps(FileAt(i), i, prompt.queues[v][p])
    BY <1>1, <2>1 DEF PromptKept
  <2> HIDE DEF i, row
  <2>6. PICK kept \in Rows :
          /\ Complete(kept) /\ kept.says = prompt.queues[v][p]
          /\ Finds(r, Len(r), i, kept) \/ Finds(r, Len(r), i, NoRow)
    BY <2>5 DEF Keeps
  <2> HIDE DEF r
  <2>7. row # NoRow
    BY <2>3, IdAssumption
  <2>8. row = kept \/ row = NoRow
    BY <2>2, <2>3, <2>4, <2>6, FindsOne
  <2> QED BY <2>6, <2>7, <2>8 DEF row, i
<1>3. prompt.queues = queues
  BY <1>1, <1>2 DEF PromptChosen, Panel
<1>4. PICK c : Reaches(prompt.queues, c) /\ c.state = "chosen"
               /\ prompt = [queues |-> prompt.queues, selected |-> c.selected]
  BY <1>1 DEF PromptChosen
<1>5. Reaches(queues, Conf) /\ Conf.state = "chosen" /\ Conf.selected = selected
  BY DEF ChoiceInv, Conf
<1>6. c = Conf
  BY <1>3, <1>4, <1>5, ReachesOnce
<1> QED BY <1>3, <1>4, <1>5, <1>6

\* A relaunch rebuilds the prompt that was sent, of whatever votes, after any
\* crashes and torn lines that no append has run into (resume.py:132-141).
THEOREM PromptRepeats == Spec => []PromptIsRepeatable
<1>1. Init => LInv /\ ChoiceInv /\ RepeatInv
  <2>1. Init => ChoiceInv
    BY DEF Init, CritiquesInit, ChoiceInv
  <2> QED BY <2>1, LedgerInitInv, InitRepeats DEF Init
<1>2. LInv /\ [Next]_vars => LInv'
  BY LedgerStep, StepOfLedger
<1> QED BY <1>1, <1>2, ChoiceStep, NextRepeats, Repeated, PTL DEF Spec
==============================================================================
