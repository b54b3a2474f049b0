---------------------------- MODULE SelectionProofs ----------------------------
(***************************************************************************)
(* Judging, for any finalists, judges, scores and launches: an attempt is  *)
(* recorded once, in order and only after invalid ones; a slot counts with *)
(* what is on disk; and the finalist that is selected has the highest mean *)
(* of its valid judgments.                                                 *)
(*                                                                         *)
(* What makes it inductive is what a slot's task, or a writer thread that  *)
(* has outlived it, knows of the disk: its attempt is the slot's next one, *)
(* and until its first attempt the ledger has all of the slot's rows.      *)
(* What is selected rests on Beats being a total order, and that on totals *)
(* being numbers: FoldSet is taken from its definition, and what it yields *)
(* shown for the least set that would yield something else.                *)
(***************************************************************************)
EXTENDS Selection, TLAPS, FiniteSetTheorems, WellFoundedInduction

\* Attempt a is the next one that slot s has to record.
NextAttempt(s, a) == rows[s][a] = <<>> /\ \A b \in 0..(a - 1) : rows[s][b] = <<Invalid>>

SlotKnows(s) ==
  /\ pc[s] = "created" => \A a \in Attempts : rows[s][a] # <<>> => <<s, a>> \in ledger
  /\ pc[s] \in {"requesting", "locking", "writing", "noting"} => NextAttempt(s, attempt[s])

LedgerOnDisk == \A s \in Slots, a \in Attempts : <<s, a>> \in ledger => rows[s][a] # <<>>

\* A writer goes on alone only for a slot that was cancelled, one for each.
ThreadsOwn ==
  /\ main = "judging" => cancel = {} /\ threads = {}
  /\ \A w \in threads :
       /\ Up /\ pc[w[1]] = "cancelled" /\ NextAttempt(w[1], w[2])
       /\ \A v \in threads : v[1] = w[1] => v = w

SlotCounts(s) ==
  pc[s] = "done" =>
    IF result[s] # Invalid
    THEN \E a \in Attempts : rows[s][a] = <<result[s]>>
    ELSE \A a \in Attempts : rows[s][a] \in {<<>>, <<Invalid>>}

SelInv == /\ TypeOK /\ LedgerOnDisk /\ ThreadsOwn
          /\ Up => \A s \in Slots : SlotKnows(s)
          /\ AttemptsInOrder /\ ResultsFromDisk

-----------------------------------------------------------------------------
(* A slot's attempts                                                       *)

\* A set of natural numbers has a least one.
LEMMA MinIsLeast ==
  ASSUME NEW S \in SUBSET Nat, S # {}
  PROVE  Min(S) \in S /\ \A y \in S : Min(S) <= y
<1> DEFINE R == OpToRel(<, Nat)
<1>1. IsWellFoundedOn(R, Nat)
  BY NatLessThanWellFounded
<1>2. \A x, y \in Nat : <<y, x>> \in R <=> y < x
  BY DEF OpToRel
<1> HIDE DEF R
<1>3. \E x \in S : \A y \in S : x <= y
  <2>1. PICK x \in S : \A y \in S : <<y, x>> \notin R
    BY <1>1, WFMin
  <2>2. \A y \in S : ~(y < x)
    BY <1>2, <2>1
  <2> QED BY <2>2
<1> QED BY <1>3 DEF Min

\* A row of the next attempt keeps the order.
LEMMA Recorded ==
  ASSUME TypeOK, AttemptsInOrder, NEW s \in Slots, NEW a \in Attempts, NEW r \in Replies,
         NextAttempt(s, a), Record(s, a, r)
  PROVE  /\ rows' \in [Slots -> [Attempts -> Seq(Replies)]]
         /\ \A q \in Slots : q # s => rows'[q] = rows[q]
         /\ rows'[s][a] = <<r>>
         /\ \A b \in Attempts : b # a => rows'[s][b] = rows[s][b]
         /\ \A b \in Attempts : b > a => rows[s][b] = <<>>
         /\ AttemptsInOrder'
<1>1. /\ rows \in [Slots -> [Attempts -> Seq(Replies)]]
      /\ MaxResamples \in Nat /\ Attempts = 0..MaxResamples /\ a \in Nat /\ a <= MaxResamples
  BY JudgeAssumption DEF TypeOK, Attempts
<1>2. rows' = [rows EXCEPT ![s] = [rows[s] EXCEPT ![a] = <<r>>]]
  BY <1>1 DEF Record, NextAttempt
<1>3. /\ rows' \in [Slots -> [Attempts -> Seq(Replies)]]
      /\ \A q \in Slots : q # s => rows'[q] = rows[q]
      /\ rows'[s][a] = <<r>>
      /\ \A b \in Attempts : b # a => rows'[s][b] = rows[s][b]
  BY <1>1, <1>2
<1>4. \A b \in Attempts : b > a => rows[s][b] = <<>>
  <2> SUFFICES ASSUME NEW b \in Attempts, b > a, rows[s][b] # <<>> PROVE FALSE
    OBVIOUS
  <2>1. a \in 0..(b - 1)
    BY <1>1
  <2>2. rows[s][a] = <<Invalid>>
    BY <2>1 DEF AttemptsInOrder
  <2>3. rows[s][a] = <<>> /\ <<Invalid>> # <<>>
    BY DEF NextAttempt
  <2> QED BY <2>2, <2>3
<1>5. ASSUME NEW q \in Slots, NEW b \in Attempts
      PROVE  /\ Len(rows'[q][b]) <= 1
             /\ rows'[q][b] # <<>> => \A c \in 0..(b - 1) : rows'[q][c] = <<Invalid>>
  <2>0. b = a \/ b > a \/ b < a
    BY <1>1
  <2>1. CASE q # s
    BY <1>3, <2>1 DEF AttemptsInOrder
  <2>2. CASE q = s /\ b = a
    <3>1. \A c \in 0..(a - 1) : c \in Attempts /\ c # a
      BY <1>1
    <3>2. Len(rows'[q][b]) = 1
      BY <1>3, <2>2
    <3>3. \A c \in 0..(b - 1) : rows'[q][c] = <<Invalid>>
      BY <1>3, <2>2, <3>1 DEF NextAttempt
    <3> QED BY <3>2, <3>3
  <2>3. CASE q = s /\ b > a
    <3>1. rows'[q][b] = <<>>
      BY <1>1, <1>3, <1>4, <2>3
    <3>2. Len(rows'[q][b]) = 0
      BY <3>1
    <3> QED BY <3>1, <3>2
  <2>4. CASE q = s /\ b < a
    <3>1. b \in 0..(a - 1) /\ \A c \in 0..(b - 1) : c \in 0..(a - 1) /\ c \in Attempts /\ c # a
      BY <1>1, <2>4
    <3>2. rows'[q][b] = <<Invalid>> /\ \A c \in 0..(b - 1) : rows'[q][c] = <<Invalid>>
      BY <1>3, <2>4, <3>1 DEF NextAttempt
    <3>3. Len(rows'[q][b]) = 1
      BY <3>2
    <3> QED BY <3>2, <3>3
  <2> QED BY <2>0, <2>1, <2>2, <2>3, <2>4
<1> QED BY <1>3, <1>4, <1>5 DEF AttemptsInOrder

\* What a slot does once its attempts before a are on disk and invalid, when the
\* ledger has those of its rows that come later.
LEMMA Proceeds ==
  ASSUME TypeOK, LedgerOnDisk, NEW s \in Slots, NEW a \in 0..(MaxResamples + 1),
         AttemptsInOrder', Proceed(s, a),
         \A b \in Attempts : b >= a => /\ rows'[s][b] = rows[s][b]
                                       /\ rows[s][b] # <<>> => <<s, b>> \in ledger,
         \A b \in 0..(a - 1) : rows'[s][b] = <<Invalid>>,
         rows' \in [Slots -> [Attempts -> Seq(Replies)]]
  PROVE  /\ \A q \in Slots : q # s =>
              pc'[q] = pc[q] /\ attempt'[q] = attempt[q] /\ result'[q] = result[q]
         /\ pc' \in [Slots -> {"created", "requesting", "locking", "writing", "noting",
                               "done", "failed", "cancelled"}]
         /\ attempt' \in [Slots -> Attempts] /\ result' \in [Slots -> Replies]
         /\ pc'[s] \in {"requesting", "done"}
         /\ SlotCounts(s)'
         /\ pc'[s] = "requesting" => NextAttempt(s, attempt[s])'
<1> DEFINE open == {b \in Attempts : b >= a /\ (<<s, b>> \notin ledger \/ Saved(s, b) # Invalid)}
<1>0. /\ MaxResamples \in Nat /\ Invalid \in Replies
      /\ Attempts = 0..MaxResamples /\ a \in Nat /\ a <= MaxResamples + 1
      /\ Attempts \subseteq Nat
  BY JudgeAssumption DEF Replies, Attempts
\* Later rows in the ledger that hold nothing valid are invalid ones.
<1>1. \A b \in Attempts : b >= a /\ b \notin open => rows'[s][b] = <<Invalid>>
  <2> SUFFICES ASSUME NEW b \in Attempts, b >= a, b \notin open PROVE rows'[s][b] = <<Invalid>>
    OBVIOUS
  <2>1. rows[s][b] # <<>> /\ rows[s][b][1] = Invalid /\ rows'[s][b] = rows[s][b]
    BY DEF LedgerOnDisk, Saved
  <2>2. Len(rows'[s][b]) <= 1 /\ rows'[s][b] \in Seq(Replies)
    BY DEF AttemptsInOrder
  <2> QED BY <2>1, <2>2
<1>2. CASE open = {}
  <2>1. Ends(s, Invalid)
    BY <1>2 DEF Proceed
  <2>2. \A b \in Attempts : rows'[s][b] = <<Invalid>>
    <3> TAKE b \in Attempts
    <3>1. b >= a \/ b \in 0..(a - 1)
      BY <1>0
    <3> HIDE DEF open
    <3> QED BY <1>1, <1>2, <3>1
  <2> QED BY <1>0, <2>1, <2>2 DEF Ends, Moves, TypeOK, SlotCounts
<1>3. CASE open # {}
  <2> DEFINE b == Min(open)
  <2>1. b \in Attempts /\ b >= a /\ (<<s, b>> \notin ledger \/ Saved(s, b) # Invalid)
        /\ \A c \in open : b <= c
    BY <1>0, <1>3, MinIsLeast
  <2>2. \A c \in 0..(b - 1) : rows'[s][c] = <<Invalid>>
    <3> TAKE c \in 0..(b - 1)
    <3>0. b \in Nat /\ b <= MaxResamples
      BY <1>0, <2>1
    <3> HIDE DEF b
    <3>1. c \in Attempts /\ c < b
      BY <1>0, <3>0
    <3>4. c \notin open
      <4> HIDE DEF open
      <4> QED BY <1>0, <2>1, <3>0, <3>1
    <3>2. CASE c >= a
      BY <1>1, <3>1, <3>2, <3>4
    <3>3. CASE c < a
      <4>1. c \in 0..(a - 1)
        BY <1>0, <3>1, <3>3
      <4> QED BY <4>1
    <3> QED BY <1>0, <3>1, <3>2, <3>3
  <2>3. IF <<s, b>> \in ledger THEN Ends(s, Saved(s, b))
        ELSE /\ Moves(s, "requesting")
             /\ attempt' = [attempt EXCEPT ![s] = b]
             /\ UNCHANGED result
    BY <1>3 DEF Proceed
  <2> HIDE DEF b, open
  <2>4. CASE <<s, b>> \in ledger
    <3>1. Ends(s, Saved(s, b)) /\ Saved(s, b) # Invalid
      BY <2>1, <2>3, <2>4
    <3>2. rows'[s][b] = rows[s][b] /\ rows'[s][b] \in Seq(Replies) /\ rows'[s][b] # <<>>
          /\ Len(rows'[s][b]) <= 1
      BY <2>1, <2>4 DEF LedgerOnDisk, AttemptsInOrder
    <3>3. rows'[s][b] = <<Saved(s, b)>> /\ Saved(s, b) \in Replies
      BY <3>2 DEF Saved
    <3> QED BY <2>1, <3>1, <3>3 DEF Ends, Moves, TypeOK, SlotCounts
  <2>5. CASE <<s, b>> \notin ledger
    <3>1. /\ Moves(s, "requesting") /\ UNCHANGED result
          /\ attempt' = [attempt EXCEPT ![s] = b]
      BY <2>3, <2>5
    <3>2. rows'[s][b] = <<>> /\ attempt'[s] = b
      BY <2>1, <2>5, <3>1 DEF TypeOK
    <3>3. NextAttempt(s, attempt[s])'
      BY <2>2, <3>2 DEF NextAttempt
    <3> QED BY <2>1, <3>1, <3>3 DEF Moves, TypeOK, SlotCounts
  <2> QED BY <2>4, <2>5
<1> QED BY <1>2, <1>3

-----------------------------------------------------------------------------
(* The steps *)

LEMMA InitSel == Init => SelInv
<1> SUFFICES ASSUME Init PROVE SelInv
  OBVIOUS
<1>1. Invalid \in Replies /\ 0 \in Attempts
  BY JudgeAssumption DEF Replies, Attempts
<1>2. \A s \in Slots, a \in Attempts : rows[s][a] = <<>>
  BY DEF Init
<1>3. TypeOK
  <2>1. /\ rows \in [Slots -> [Attempts -> Seq(Replies)]]
        /\ pc = [s \in Slots |-> "created"]
        /\ attempt \in [Slots -> Attempts]
        /\ reply \in [Slots -> Replies] /\ result \in [Slots -> Replies]
    BY <1>1 DEF Init
  <2> QED BY <2>1 DEF Init, TypeOK
<1> QED
  BY <1>2, <1>3
  DEF Init, SelInv, LedgerOnDisk, ThreadsOwn, SlotKnows, AttemptsInOrder, ResultsFromDisk

\* The slots that do not move, when one does.
LEMMA OneSlotMoves ==
  ASSUME SelInv, Up, NEW s \in Slots, TypeOK', AttemptsInOrder',
         UNCHANGED <<ledger, main>>,
         \A q \in Slots : q # s => /\ rows'[q] = rows[q] /\ pc'[q] = pc[q]
                                   /\ attempt'[q] = attempt[q] /\ result'[q] = result[q],
         \A a \in Attempts : rows[s][a] # <<>> => rows'[s][a] # <<>>,
         SlotKnows(s)', SlotCounts(s)',
         cancel' \subseteq cancel, ThreadsOwn'
  PROVE  SelInv'
<1>1. LedgerOnDisk'
  BY DEF SelInv, LedgerOnDisk
<1>2. \A q \in Slots : SlotKnows(q)'
  <2>1. ASSUME NEW q \in Slots, q # s PROVE SlotKnows(q)'
    BY <2>1 DEF SelInv, SlotKnows, NextAttempt
  <2> QED BY <2>1
<1>3. ResultsFromDisk'
  <2>1. ASSUME NEW q \in Slots, q # s, pc'[q] = "done"
        PROVE  IF result'[q] # Invalid
               THEN \E a \in Attempts : rows'[q][a] = <<result'[q]>>
               ELSE \A a \in Attempts : rows'[q][a] \in {<<>>, <<Invalid>>}
    BY <2>1 DEF SelInv, ResultsFromDisk
  <2> QED BY <2>1 DEF ResultsFromDisk, SlotCounts
<1> QED BY <1>1, <1>2, <1>3 DEF SelInv

\* Threads do not mind a step that writes nothing.
LEMMA ThreadsGoOn ==
  ASSUME SelInv, Up, UNCHANGED <<rows, main, threads>>, cancel' \subseteq cancel,
         NEW s \in Slots, pc[s] # "cancelled",
         \A q \in Slots : q # s => pc'[q] = pc[q]
  PROVE  ThreadsOwn'
<1>1. \A w \in threads : w[1] \in Slots
  BY DEF SelInv, TypeOK
<1> QED BY <1>1 DEF SelInv, ThreadsOwn, NextAttempt, Up

\* A slot that writes leaves the threads of others alone.
LEMMA ThreadsElsewhere ==
  ASSUME SelInv, Up, UNCHANGED <<main, cancel, threads>>,
         NEW s \in Slots, pc[s] # "cancelled",
         \A q \in Slots : q # s => pc'[q] = pc[q] /\ rows'[q] = rows[q]
  PROVE  ThreadsOwn'
<1>1. \A w \in threads : w[1] \in Slots /\ w[1] # s
  BY DEF SelInv, TypeOK, ThreadsOwn
<1> QED BY <1>1 DEF SelInv, ThreadsOwn, NextAttempt, Up

LEMMA SlotStep ==
  ASSUME SelInv, Up, NEW s \in Slots, Slot(s)
  PROVE  SelInv'
<1>0. TypeOK /\ AttemptsInOrder /\ LedgerOnDisk /\ SlotKnows(s) /\ main' = main
  BY DEF SelInv, Slot, Begin, Respond, Park, Noted, Lock, Written, Raise, Deliver
<1>1. CASE Begin(s)
  <2>1. /\ pc[s] = "created" /\ Proceed(s, 0)
        /\ UNCHANGED <<rows, ledger, launches, main, reply, cancel, threads, choice>>
    BY <1>1 DEF Begin
  <2>2. /\ AttemptsInOrder' /\ rows' \in [Slots -> [Attempts -> Seq(Replies)]]
        /\ \A b \in Attempts : rows'[s][b] = rows[s][b] /\ (rows[s][b] # <<>> => <<s, b>> \in ledger)
        /\ 0 \in 0..(MaxResamples + 1)
    BY <1>0, <2>1, JudgeAssumption DEF AttemptsInOrder, TypeOK, SlotKnows
  <2>3. /\ \A q \in Slots : q # s =>
             pc'[q] = pc[q] /\ attempt'[q] = attempt[q] /\ result'[q] = result[q]
        /\ pc' \in [Slots -> {"created", "requesting", "locking", "writing", "noting",
                              "done", "failed", "cancelled"}]
        /\ attempt' \in [Slots -> Attempts] /\ result' \in [Slots -> Replies]
        /\ pc'[s] \in {"requesting", "done"}
        /\ SlotCounts(s)'
        /\ pc'[s] = "requesting" => NextAttempt(s, attempt[s])'
    BY <1>0, <2>1, <2>2, Proceeds
  <2>4. TypeOK'
    BY <1>0, <2>1, <2>3 DEF TypeOK
  <2>5. ThreadsOwn'
    BY <2>1, <2>3, ThreadsGoOn
  <2>6. SlotKnows(s)'
    BY <2>3 DEF SlotKnows, NextAttempt
  <2> QED BY <2>1, <2>2, <2>3, <2>4, <2>5, <2>6, OneSlotMoves
<1>2. CASE Written(s)
  <2> DEFINE a == attempt[s]
             r == reply[s]
  <2>1. /\ pc[s] = "writing" /\ Record(s, a, r)
        /\ IF r # Invalid THEN Ends(s, r) ELSE Proceed(s, a + 1)
        /\ UNCHANGED <<ledger, launches, main, reply, cancel, threads, choice>>
    BY <1>2 DEF Written
  <2>2. a \in Attempts /\ r \in Replies /\ NextAttempt(s, a)
    BY <1>0, <2>1 DEF TypeOK, SlotKnows
  <2>3. /\ rows' \in [Slots -> [Attempts -> Seq(Replies)]]
        /\ \A q \in Slots : q # s => rows'[q] = rows[q]
        /\ rows'[s][a] = <<r>>
        /\ \A b \in Attempts : b # a => rows'[s][b] = rows[s][b]
        /\ \A b \in Attempts : b > a => rows[s][b] = <<>>
        /\ AttemptsInOrder'
    BY <1>0, <2>1, <2>2, Recorded
  <2>4. MaxResamples \in Nat /\ a \in 0..MaxResamples /\ a + 1 \in 0..(MaxResamples + 1)
    BY <2>2, JudgeAssumption DEF Attempts
  <2>5. /\ \A q \in Slots : q # s =>
             pc'[q] = pc[q] /\ attempt'[q] = attempt[q] /\ result'[q] = result[q]
        /\ pc' \in [Slots -> {"created", "requesting", "locking", "writing", "noting",
                              "done", "failed", "cancelled"}]
        /\ attempt' \in [Slots -> Attempts] /\ result' \in [Slots -> Replies]
        /\ pc'[s] \in {"requesting", "done"}
        /\ SlotCounts(s)'
        /\ pc'[s] = "requesting" => NextAttempt(s, attempt[s])'
    <3>1. CASE r # Invalid
      <4>1. Ends(s, r)
        BY <2>1, <3>1
      <4> HIDE DEF a, r
      <4> QED BY <1>0, <2>2, <2>3, <3>1, <4>1 DEF Ends, Moves, TypeOK, SlotCounts
    <3>2. CASE r = Invalid
      <4>1. Proceed(s, a + 1)
        BY <2>1, <3>2
      <4> HIDE DEF a, r
      <4>2. \A b \in Attempts : b >= a + 1 =>
              rows'[s][b] = rows[s][b] /\ (rows[s][b] # <<>> => <<s, b>> \in ledger)
        BY <2>3, <2>4 DEF Attempts
      <4>3. \A b \in 0..((a + 1) - 1) : rows'[s][b] = <<Invalid>>
        <5> TAKE b \in 0..((a + 1) - 1)
        <5>1. CASE b = a
          BY <2>3, <3>2, <5>1
        <5>2. CASE b # a
          <6>1. b \in 0..(a - 1) /\ b \in Attempts
            BY <2>4, <5>2 DEF Attempts
          <6> QED BY <2>2, <2>3, <5>2, <6>1 DEF NextAttempt
        <5> QED BY <5>1, <5>2
      <4> QED BY <1>0, <2>3, <2>4, <4>1, <4>2, <4>3, Proceeds
    <3> QED BY <3>1, <3>2
  <2> HIDE DEF a, r
  <2>6. TypeOK'
    BY <1>0, <2>1, <2>3, <2>5 DEF TypeOK
  <2>7. ThreadsOwn'
    BY <2>1, <2>3, <2>5, ThreadsElsewhere
  <2>8. SlotKnows(s)'
    BY <2>5 DEF SlotKnows, NextAttempt
  <2>9. \A b \in Attempts : rows[s][b] # <<>> => rows'[s][b] # <<>>
    BY <2>2, <2>3 DEF NextAttempt
  <2> QED BY <2>1, <2>3, <2>5, <2>6, <2>7, <2>8, <2>9, OneSlotMoves
<1>3. CASE Deliver(s)
  <2>1. /\ s \in cancel /\ pc[s] # "cancelled"
        /\ pc' = [pc EXCEPT ![s] = "cancelled"]
        /\ cancel' = cancel \ {s}
        /\ threads' = IF pc[s] = "writing" THEN threads \cup {<<s, attempt[s], reply[s]>>} ELSE threads
        /\ UNCHANGED <<rows, ledger, launches, main, attempt, reply, result, choice>>
    BY <1>3 DEF Deliver, Over, Moves
  <2>2. main # "judging"
    BY <2>1 DEF SelInv, ThreadsOwn
  <2>3. TypeOK'
    BY <1>0, <2>1 DEF TypeOK
  <2>4. ThreadsOwn'
    <3>1. \A w \in threads : w[1] \in Slots /\ w[1] # s
      BY <1>0, <2>1 DEF SelInv, TypeOK, ThreadsOwn
    <3>2. pc[s] = "writing" => NextAttempt(s, attempt[s])
      BY <1>0 DEF SlotKnows
    <3>3. pc'[s] = "cancelled" /\ \A q \in Slots : q # s => pc'[q] = pc[q]
      BY <1>0, <2>1 DEF TypeOK
    <3>4. ASSUME NEW w \in threads'
          PROVE  /\ Up' /\ pc'[w[1]] = "cancelled" /\ NextAttempt(w[1], w[2])
                 /\ \A v \in threads' : v[1] = w[1] => v = w
      BY <2>1, <3>1, <3>2, <3>3, <3>4 DEF SelInv, ThreadsOwn, Up
    <3> QED BY <2>1, <2>2, <3>4 DEF ThreadsOwn, NextAttempt
  <2>5. SlotKnows(s)' /\ SlotCounts(s)' /\ AttemptsInOrder'
    BY <1>0, <2>1 DEF SlotKnows, SlotCounts, AttemptsInOrder, TypeOK
  <2>6. \A q \in Slots : q # s => pc'[q] = pc[q]
    BY <1>0, <2>1 DEF TypeOK
  <2> QED BY <2>1, <2>3, <2>4, <2>5, <2>6, OneSlotMoves
<1>4. CASE Noted(s)
  <2>1. /\ pc[s] = "noting" /\ Ends(s, Invalid)
        /\ UNCHANGED <<rows, ledger, launches, main, reply, cancel, threads, choice>>
    BY <1>4 DEF Noted
  <2>2. /\ pc' = [pc EXCEPT ![s] = "done"] /\ result' = [result EXCEPT ![s] = Invalid]
        /\ attempt' = attempt /\ Invalid \in Replies
    BY <2>1 DEF Ends, Moves, Replies
  <2>3. TypeOK' /\ AttemptsInOrder'
    BY <1>0, <2>1, <2>2 DEF TypeOK, AttemptsInOrder
  <2>4. ThreadsOwn'
    BY <1>0, <2>1, <2>2, ThreadsGoOn DEF TypeOK
  <2>5. SlotKnows(s)' /\ SlotCounts(s)'
    <3>1. \A b \in Attempts : rows[s][b] \in {<<>>, <<Invalid>>}
      <4> TAKE b \in Attempts
      <4>1. NextAttempt(s, attempt[s]) /\ attempt[s] \in Attempts
        BY <1>0, <2>1 DEF SlotKnows, TypeOK
      <4>4. b \in Nat /\ attempt[s] \in Nat
        BY <4>1, JudgeAssumption DEF Attempts
      <4>2. CASE b < attempt[s]
        <5>1. b \in 0..(attempt[s] - 1)
          BY <4>2, <4>4
        <5> QED BY <4>1, <5>1 DEF NextAttempt
      <4>3. CASE b > attempt[s]
        <5>1. attempt[s] \in 0..(b - 1)
          BY <4>3, <4>4
        <5>2. rows[s][attempt[s]] # <<Invalid>>
          BY <4>1 DEF NextAttempt
        <5> QED BY <1>0, <5>1, <5>2 DEF AttemptsInOrder
      <4>5. CASE b = attempt[s]
        BY <4>1, <4>5 DEF NextAttempt
      <4> QED BY <4>2, <4>3, <4>4, <4>5
    <3> QED BY <1>0, <2>1, <2>2, <3>1 DEF SlotKnows, SlotCounts, TypeOK
  <2> QED BY <1>0, <2>1, <2>2, <2>3, <2>4, <2>5, OneSlotMoves DEF TypeOK
<1>5. CASE Respond(s) \/ Park(s) \/ Lock(s) \/ Raise(s)
  <2>1. PICK where \in {"locking", "noting", "writing", "failed"} :
          /\ pc[s] \in {"requesting", "locking", "writing", "noting"}
          /\ pc' = [pc EXCEPT ![s] = where]
          /\ cancel' \subseteq cancel
          /\ UNCHANGED <<rows, ledger, launches, main, attempt, result, threads, choice>>
    BY <1>5 DEF Respond, Park, Lock, Raise, Moves
  <2>2. reply' \in [Slots -> Replies]
    BY <1>0, <1>5 DEF Respond, Park, Lock, Raise, TypeOK
  <2>3. TypeOK' /\ AttemptsInOrder'
    BY <1>0, <2>1, <2>2 DEF TypeOK, AttemptsInOrder
  <2>4. ThreadsOwn'
    BY <1>0, <2>1, ThreadsGoOn DEF TypeOK
  <2>5. SlotKnows(s)' /\ SlotCounts(s)'
    BY <1>0, <2>1 DEF SlotKnows, SlotCounts, NextAttempt, TypeOK
  <2> QED BY <1>0, <2>1, <2>3, <2>4, <2>5, OneSlotMoves DEF TypeOK
<1> QED BY <1>1, <1>2, <1>3, <1>4, <1>5 DEF Slot

LEMMA NextSel == SelInv /\ [Next]_vars => SelInv'
<1> SUFFICES ASSUME SelInv, [Next]_vars PROVE SelInv'
  OBVIOUS
<1>0. TypeOK
  BY DEF SelInv
<1>1. ASSUME NEW s \in Slots, Up, Slot(s) PROVE SelInv'
  BY <1>1, SlotStep
<1>2. CASE ThreadWrites
  <2>1. PICK w \in threads :
          /\ Record(w[1], w[2], w[3]) /\ threads' = threads \ {w}
          /\ UNCHANGED <<ledger, launches, main, slotVars, cancel, choice>>
    BY <1>2 DEF ThreadWrites
  <2>2. PICK s \in Slots, a \in Attempts, r \in Replies : w = <<s, a, r>>
    BY <1>0, <2>1 DEF TypeOK
  <2>3. Up /\ pc[s] = "cancelled" /\ NextAttempt(s, a) /\ \A v \in threads : v[1] = s => v = w
    BY <2>1, <2>2 DEF SelInv, ThreadsOwn
  <2>4. /\ rows' \in [Slots -> [Attempts -> Seq(Replies)]]
        /\ \A q \in Slots : q # s => rows'[q] = rows[q]
        /\ rows'[s][a] = <<r>>
        /\ \A b \in Attempts : b # a => rows'[s][b] = rows[s][b]
        /\ AttemptsInOrder'
    BY <1>0, <2>1, <2>2, <2>3, Recorded DEF SelInv
  <2>5. TypeOK'
    BY <1>0, <2>1, <2>4 DEF TypeOK, slotVars
  <2>6. ThreadsOwn'
    <3>1. \A v \in threads' : v \in threads /\ v[1] \in Slots /\ v[1] # s
      BY <1>0, <2>1, <2>3 DEF TypeOK
    <3>2. /\ UNCHANGED <<main, cancel, pc>> /\ main # "judging"
          /\ \A v \in threads' : rows'[v[1]] = rows[v[1]]
      BY <2>1, <2>4, <3>1 DEF SelInv, ThreadsOwn, slotVars
    <3>3. \A v \in threads' : NextAttempt(v[1], v[2]) /\ rows'[v[1]] = rows[v[1]]
      BY <3>1, <3>2 DEF SelInv, ThreadsOwn
    <3>4. \A v \in threads' : rows'[v[1]][v[2]] = <<>> /\ \A b \in 0..(v[2] - 1) : rows'[v[1]][b] = <<Invalid>>
      BY <3>3 DEF NextAttempt
    <3>5. \A v \in threads' : pc[v[1]] = "cancelled" /\ \A u \in threads' : u[1] = v[1] => u = v
      BY <3>1 DEF SelInv, ThreadsOwn
    <3> QED BY <2>3, <3>2, <3>4, <3>5 DEF ThreadsOwn, NextAttempt, Up
  <2>7. SlotKnows(s)' /\ SlotCounts(s)'
    BY <2>1, <2>3 DEF SlotKnows, SlotCounts, slotVars
  <2>8. \A b \in Attempts : rows[s][b] # <<>> => rows'[s][b] # <<>>
    BY <2>3, <2>4 DEF NextAttempt
  <2> QED BY <2>1, <2>3, <2>4, <2>5, <2>6, <2>7, <2>8, OneSlotMoves DEF slotVars
<1>3. CASE Select \/ Stop \/ Fails \/ Stopped
  <2>1. /\ UNCHANGED <<rows, ledger, launches, slotVars, threads>>
        /\ Up /\ (main' \in {"selected", "stopped"} => threads = {})
        /\ main' \in {"selected", "stopped", "stopping"}
        /\ cancel' = cancel \/ cancel' \subseteq Slots
        /\ choice' = choice \/ choice' \subseteq Finalists
    BY <1>3 DEF Select, Stop, Fails, Stopped, CancelAll, Up, SelInv, ThreadsOwn
  <2>2. TypeOK'
    BY <1>0, <2>1 DEF TypeOK, slotVars
  <2>3. LedgerOnDisk' /\ AttemptsInOrder' /\ ResultsFromDisk'
    BY <2>1 DEF SelInv, LedgerOnDisk, AttemptsInOrder, ResultsFromDisk, slotVars
  <2>4. ThreadsOwn'
    BY <2>1 DEF SelInv, ThreadsOwn, NextAttempt, Up, slotVars
  <2>5. Up' => \A s \in Slots : SlotKnows(s)'
    BY <2>1 DEF SelInv, SlotKnows, NextAttempt, slotVars
  <2> QED BY <2>2, <2>3, <2>4, <2>5 DEF SelInv
<1>4. CASE Crash
  <2>1. /\ Up /\ ~Up' /\ main' = "crashed" /\ threads' = {}
        /\ UNCHANGED <<ledger, launches, slotVars, cancel, choice>>
    BY <1>4 DEF Crash, Up
  <2>2. CASE UNCHANGED rows
    BY <1>0, <2>1, <2>2
    DEF SelInv, TypeOK, LedgerOnDisk, ThreadsOwn, AttemptsInOrder, ResultsFromDisk, slotVars
  <2>3. ASSUME NEW s \in Slots, pc[s] = "writing", Record(s, attempt[s], reply[s]) PROVE SelInv'
    <3> DEFINE a == attempt[s]
               r == reply[s]
    <3>1. a \in Attempts /\ r \in Replies /\ NextAttempt(s, a) /\ AttemptsInOrder
      BY <1>0, <2>1, <2>3 DEF SelInv, SlotKnows, TypeOK
    <3>2. /\ rows' \in [Slots -> [Attempts -> Seq(Replies)]]
          /\ \A q \in Slots : q # s => rows'[q] = rows[q]
          /\ rows'[s][a] = <<r>>
          /\ \A b \in Attempts : b # a => rows'[s][b] = rows[s][b]
          /\ AttemptsInOrder'
      BY <1>0, <2>3, <3>1, Recorded
    <3> HIDE DEF a, r
    <3>3. TypeOK'
      BY <1>0, <2>1, <3>2 DEF TypeOK, slotVars
    <3>4. LedgerOnDisk'
      <4>1. \A q \in Slots, b \in Attempts : rows[q][b] # <<>> => rows'[q][b] # <<>>
        <5> TAKE q \in Slots, b \in Attempts
        <5>1. CASE q # s
          BY <3>2, <5>1
        <5>2. CASE q = s /\ b # a
          BY <3>2, <5>2
        <5>3. CASE q = s /\ b = a
          BY <3>1, <5>3 DEF NextAttempt
        <5> QED BY <5>1, <5>2, <5>3
      <4> QED BY <2>1, <4>1 DEF SelInv, LedgerOnDisk
    <3>5. ResultsFromDisk'
      BY <2>1, <2>3, <3>2 DEF SelInv, ResultsFromDisk, slotVars
    <3> QED BY <2>1, <3>2, <3>3, <3>4, <3>5 DEF SelInv, ThreadsOwn
  <2> QED BY <1>4, <2>2, <2>3 DEF Crash
<1>5. CASE Relaunch
  <2>1. Invalid \in Replies /\ 0 \in Attempts
    BY JudgeAssumption DEF Replies, Attempts
  <2>2. /\ ledger' = OnDisk /\ rows' = rows /\ cancel' = {} /\ threads' = {} /\ choice' = choice
        /\ pc' = [s \in Slots |-> "created"] /\ attempt' = [s \in Slots |-> 0]
        /\ reply' = [s \in Slots |-> Invalid] /\ result' = [s \in Slots |-> Invalid]
        /\ main' = "judging" /\ launches' = launches + 1
    BY <1>5 DEF Relaunch
  <2>3. ledger' \subseteq Slots \X Attempts
        /\ \A s \in Slots, a \in Attempts : <<s, a>> \in ledger' <=> rows'[s][a] # <<>>
    BY <2>2 DEF OnDisk
  <2>4. TypeOK'
    <3>1. /\ pc' \in [Slots -> {"created", "requesting", "locking", "writing", "noting",
                                "done", "failed", "cancelled"}]
          /\ attempt' \in [Slots -> Attempts]
          /\ reply' \in [Slots -> Replies] /\ result' \in [Slots -> Replies]
      BY <2>1, <2>2
    <3> QED BY <1>0, <2>2, <2>3, <3>1 DEF TypeOK
  <2>5. LedgerOnDisk' /\ ThreadsOwn'
    BY <2>2, <2>3 DEF LedgerOnDisk, ThreadsOwn
  <2>6. (\A s \in Slots : SlotKnows(s)') /\ AttemptsInOrder' /\ ResultsFromDisk'
    BY <2>2, <2>3 DEF SelInv, SlotKnows, AttemptsInOrder, ResultsFromDisk
  <2> QED BY <2>4, <2>5, <2>6 DEF SelInv
<1>6. CASE UNCHANGED vars
  BY <1>6
  DEF vars, slotVars, SelInv, TypeOK, LedgerOnDisk, ThreadsOwn, SlotKnows, NextAttempt,
      AttemptsInOrder, ResultsFromDisk, Up
<1> QED BY <1>1, <1>2, <1>3, <1>4, <1>5, <1>6 DEF Next, Process

\* The inductive invariant of judging.
THEOREM JudgingInvariant == Spec => []SelInv
BY InitSel, NextSel, PTL DEF Spec

\* Every variable of the judging keeps its type.
THEOREM JudgingTypes == Spec => []TypeOK
<1>1. SelInv => TypeOK
  BY DEF SelInv
<1> QED BY <1>1, JudgingInvariant, PTL

\* No attempt is sampled twice, and no slot again once it has a score, whatever
\* crashes, cancellations and writers that outlive their task do
\* (selection.py:87-128).
THEOREM InOrder == Spec => []AttemptsInOrder
<1>1. SelInv => AttemptsInOrder
  BY DEF SelInv
<1> QED BY <1>1, JudgingInvariant, PTL

\* A slot counts with the score that is on disk, replayed or received.
THEOREM CountsFromDisk == Spec => []ResultsFromDisk
<1>1. SelInv => ResultsFromDisk
  BY DEF SelInv
<1> QED BY <1>1, JudgingInvariant, PTL

-----------------------------------------------------------------------------
(* Sums                                                                    *)

\* What FoldSet picks of a set, and its recursion over T when it sums h.
Picked(s) == CHOOSE x \in s : TRUE
Sums(h, T, g) == g = [s \in T |-> IF s = {} THEN 0 ELSE g[s \ {Picked(s)}] + h[Picked(s)]]

Small(S, n) == {s \in SUBSET S : Cardinality(s) <= n}

\* Without the element that is picked a set is smaller.
LEMMA PickedLess ==
  ASSUME NEW S, IsFiniteSet(S), NEW n \in Nat, NEW s \in Small(S, n), s # {}
  PROVE  /\ Picked(s) \in s /\ s \ {Picked(s)} \in SUBSET S
         /\ n # 0 /\ s \ {Picked(s)} \in Small(S, n - 1)
         /\ Cardinality(s) \in Nat /\ Cardinality(s \ {Picked(s)}) = Cardinality(s) - 1
<1>1. s \in SUBSET S /\ Cardinality(s) <= n
  BY DEF Small
<1>2. IsFiniteSet(s)
  BY <1>1, FS_Subset
<1>3. Picked(s) \in s
  BY DEF Picked
<1>4. Cardinality(s) \in Nat /\ Cardinality(s) # 0
  BY <1>2, FS_CardinalityType, FS_EmptySet
<1> DEFINE x == Picked(s)
<1> HIDE DEF x
<1>5. IsFiniteSet(s \ {x})
      /\ Cardinality(s \ {x}) = IF x \in s THEN Cardinality(s) - 1 ELSE Cardinality(s)
  BY <1>2, FS_RemoveElement
<1>6. x \in s
  BY <1>3 DEF x
<1>7. Cardinality(s \ {x}) = Cardinality(s) - 1
  BY <1>5, <1>6
<1>8. s \ {x} \in Small(S, n - 1)
  BY <1>1, <1>4, <1>7 DEF Small
<1> QED BY <1>1, <1>3, <1>4, <1>7, <1>8 DEF x

\* FoldSet's recursion has a solution.
LEMMA SumsExist ==
  ASSUME NEW S, IsFiniteSet(S), NEW h
  PROVE  \E g : Sums(h, SUBSET S, g)
<1> DEFINE bad == {n \in Nat : ~ \E g : Sums(h, Small(S, n), g)}
<1>1. bad = {}
  <2> SUFFICES ASSUME bad # {} PROVE FALSE
    OBVIOUS
  <2>1. bad \in SUBSET Nat
    OBVIOUS
  <2>2. Min(bad) \in bad /\ \A y \in bad : Min(bad) <= y
    BY <2>1, MinIsLeast
  <2>3. PICK n \in Nat : n \in bad /\ \A y \in bad : n <= y
    BY <2>1, <2>2
  <2>4. ~ \E g : Sums(h, Small(S, n), g)
    BY <2>3
  <2>5. CASE n = 0
    <3> DEFINE g == [s \in Small(S, n) |-> 0]
    <3>1. \A s \in Small(S, n) : s = {}
      BY <2>5, PickedLess
    <3>2. Sums(h, Small(S, n), g)
      BY <3>1 DEF Sums
    <3> QED BY <2>4, <3>2
  <2>6. CASE n # 0
    <3>1. n - 1 \in Nat /\ ~(n <= n - 1)
      BY <2>6
    <3>2. n - 1 \notin bad
      BY <2>3, <3>1
    <3>3. PICK f : Sums(h, Small(S, n - 1), f)
      BY <3>1, <3>2
    <3> DEFINE g == [s \in Small(S, n) |-> IF s = {} THEN 0 ELSE f[s \ {Picked(s)}] + h[Picked(s)]]
    <3>4. ASSUME NEW s \in Small(S, n - 1) PROVE s \in Small(S, n) /\ g[s] = f[s]
      <4>1. s \in Small(S, n)
        <5>1. s \in SUBSET S /\ Cardinality(s) <= n - 1
          BY <3>4 DEF Small
        <5>2. IsFiniteSet(s)
          BY <5>1, FS_Subset
        <5>3. Cardinality(s) \in Nat
          BY <5>2, FS_CardinalityType
        <5> QED BY <3>1, <5>1, <5>3 DEF Small
      <4>2. f[s] = IF s = {} THEN 0 ELSE f[s \ {Picked(s)}] + h[Picked(s)]
        BY <3>3 DEF Sums
      <4> QED BY <4>1, <4>2
    <3>5. \A s \in Small(S, n) : s # {} => s \ {Picked(s)} \in Small(S, n - 1)
      BY PickedLess
    <3>6. \A s \in Small(S, n) :
            g[s] = IF s = {} THEN 0 ELSE g[s \ {Picked(s)}] + h[Picked(s)]
      BY <3>4, <3>5
    <3>7. g = [s \in Small(S, n) |-> g[s]]
      OBVIOUS
    <3> HIDE DEF g
    <3>8. Sums(h, Small(S, n), g)
      BY <3>6, <3>7 DEF Sums
    <3> QED BY <2>4, <3>8
  <2> QED BY <2>5, <2>6
<1>2. Cardinality(S) \in Nat
  BY FS_CardinalityType
<1>3. SUBSET S = Small(S, Cardinality(S))
  <2>1. \A s \in SUBSET S : Cardinality(s) <= Cardinality(S)
    BY FS_Subset
  <2> QED BY <2>1 DEF Small
<1>4. \E g : Sums(h, Small(S, Cardinality(S)), g)
  BY <1>1, <1>2
<1> QED BY <1>3, <1>4

\* The sum is what such a solution gives.
SumOf(h, S) == FoldSet(LAMBDA s, sum : sum + h[s], 0, S)
Solves(g, h, S) == \A s \in SUBSET S : g[s] = IF s = {} THEN 0 ELSE g[s \ {Picked(s)}] + h[Picked(s)]

LEMMA SumsSolve ==
  ASSUME NEW S, IsFiniteSet(S), NEW h
  PROVE  \E g : SumOf(h, S) = g[S] /\ Solves(g, h, S)
<1> DEFINE G == CHOOSE g : Sums(h, SUBSET S, g)
<1>1. SumOf(h, S) = G[S]
  BY DEF SumOf, FoldSet, MapThenFoldSet, Sums, Picked
<1>2. Sums(h, SUBSET S, G)
  BY SumsExist
<1> HIDE DEF G
<1>3. Solves(G, h, S)
  BY <1>2 DEF Sums, Solves
<1> QED BY <1>1, <1>3

LEMMA SumOfNone ==
  ASSUME NEW S, S = {}, NEW h
  PROVE  SumOf(h, S) = 0
<1>1. IsFiniteSet(S)
  BY FS_EmptySet
<1>2. PICK G : SumOf(h, S) = G[S] /\ Solves(G, h, S)
  BY <1>1, SumsSolve
<1> QED BY <1>2 DEF Solves

\* A sum of natural numbers is one.
LEMMA SumIsNat ==
  ASSUME NEW S, IsFiniteSet(S), NEW h, \A x \in S : h[x] \in Nat
  PROVE  SumOf(h, S) \in Nat
<1>1. PICK G : SumOf(h, S) = G[S] /\ Solves(G, h, S)
  BY SumsSolve
<1>2. \A s \in SUBSET S : G[s] = IF s = {} THEN 0 ELSE G[s \ {Picked(s)}] + h[Picked(s)]
  BY <1>1 DEF Solves
<1> DEFINE bad == {n \in Nat : \E s \in Small(S, n) : G[s] \notin Nat}
<1>3. bad = {}
  <2> SUFFICES ASSUME bad # {} PROVE FALSE
    OBVIOUS
  <2>1. bad \in SUBSET Nat
    OBVIOUS
  <2>2. Min(bad) \in bad /\ \A y \in bad : Min(bad) <= y
    BY <2>1, MinIsLeast
  <2>3. PICK n \in Nat : n \in bad /\ \A y \in bad : n <= y
    BY <2>1, <2>2
  <2>4. PICK s \in Small(S, n) : G[s] \notin Nat
    BY <2>3
  <2>5. s \in SUBSET S
    BY DEF Small
  <2>6. s # {}
    BY <1>2, <2>4, <2>5
  <2>7. Picked(s) \in s /\ n # 0 /\ s \ {Picked(s)} \in Small(S, n - 1)
    BY <2>6, PickedLess
  <2>8. n - 1 \in Nat /\ ~(n <= n - 1)
    BY <2>7
  <2>9. n - 1 \notin bad
    BY <2>3, <2>8
  <2>10. G[s \ {Picked(s)}] \in Nat
    BY <2>7, <2>8, <2>9
  <2>11. h[Picked(s)] \in Nat
    BY <2>5, <2>7
  <2>12. G[s] = G[s \ {Picked(s)}] + h[Picked(s)]
    BY <1>2, <2>5, <2>6
  <2> QED BY <2>4, <2>10, <2>11, <2>12
<1>4. Cardinality(S) \in Nat
  BY FS_CardinalityType
<1>5. S \in Small(S, Cardinality(S))
  BY <1>4 DEF Small
<1> QED BY <1>1, <1>3, <1>4, <1>5

-----------------------------------------------------------------------------
(* The order of the finalists                                              *)

\* The slots are finitely many, so counts and totals are numbers.
LEMMA SlotsFinite == IsFiniteSet(Slots)
<1>1. IsFiniteSet(Finalists) /\ IsFiniteSet(Judges) /\ Judgments \in [Judges -> Nat \ {0}]
  BY JudgeAssumption
<1> DEFINE P == Finalists \X Judges
           of(f, j) == {<<f, j, k>> : k \in 0..(Judgments[j] - 1)}
           All == {of(f, j) : f \in Finalists, j \in Judges}
<1>2. IsFiniteSet(P)
  BY <1>1, FS_Product
<1>3. IsFiniteSet(All)
  <2> DEFINE m == [p \in P |-> of(p[1], p[2])]
  <2>1. m \in [P -> All]
    <3>1. \A p \in P : of(p[1], p[2]) \in All
      OBVIOUS
    <3> QED BY <3>1
  <2>2. ASSUME NEW t \in All PROVE \E p \in P : m[p] = t
    <3>1. PICK f \in Finalists, j \in Judges : t = of(f, j)
      OBVIOUS
    <3> HIDE DEF of
    <3>2. <<f, j>> \in P /\ m[<<f, j>>] = of(f, j)
      OBVIOUS
    <3> QED BY <3>1, <3>2
  <2> HIDE DEF m, P, All
  <2>3. m \in Surjection(P, All)
    BY <2>1, <2>2 DEF Surjection
  <2> QED BY <1>2, <2>3, FS_Surjection
<1>4. \A t \in All : IsFiniteSet(t)
  <2> TAKE t \in All
  <2>1. PICK f \in Finalists, j \in Judges : t = of(f, j)
    OBVIOUS
  <2> DEFINE K == 0..(Judgments[j] - 1)
             m == [k \in K |-> <<f, j, k>>]
  <2>2. Judgments[j] - 1 \in Int /\ 0 \in Int
    BY <1>1
  <2>3. IsFiniteSet(K)
    BY <2>2, FS_Interval
  <2>4. m \in [K -> t] /\ \A x \in t : \E k \in K : m[k] = x
    BY <2>1
  <2> HIDE DEF m, K
  <2>5. m \in Surjection(K, t)
    BY <2>4 DEF Surjection
  <2> QED BY <2>3, <2>5, FS_Surjection
<1>5. IsFiniteSet(UNION All)
  <2> HIDE DEF All
  <2> QED BY <1>3, <1>4, FS_UNION
<1>6. UNION All = Slots
  BY DEF Slots
<1> QED BY <1>5, <1>6

LEMMA Graded ==
  ASSUME TypeOK, NEW f \in Finalists
  PROVE  Count(f) \in Nat /\ Total(f) \in Nat /\ (Count(f) = 0 => Total(f) = 0)
<1>1. IsFiniteSet(Valid(f))
  <2>1. Valid(f) \in SUBSET Slots
    BY DEF Valid
  <2> QED BY <2>1, SlotsFinite, FS_Subset
<1>2. \A s \in Valid(f) : result[s] \in Nat
  <2>1. \A s \in Valid(f) : result[s] \in Scores
    BY DEF TypeOK, Valid, Replies
  <2>2. Scores \subseteq Nat
    BY ScoreAssumption
  <2> QED BY <2>1, <2>2
<1>3. Total(f) = SumOf(result, Valid(f))
  BY DEF Total, SumOf, FoldSet, MapThenFoldSet
<1>4. Total(f) \in Nat
  BY <1>1, <1>2, <1>3, SumIsNat
<1>5. Count(f) \in Nat
  BY <1>1, FS_CardinalityType DEF Count
<1>6. ASSUME Count(f) = 0 PROVE Total(f) = 0
  <2>1. Valid(f) = {}
    BY <1>1, <1>6, FS_EmptySet DEF Count
  <2> QED BY <1>3, <2>1, SumOfNone
<1> QED BY <1>4, <1>5, <1>6

\* A higher mean, or any before none.
Above(f, g) == Count(f) # 0 /\ (Count(g) = 0 \/ MeanAbove(f, g))
Tied(f, g) == ~Above(f, g) /\ ~Above(g, f)
Before(f, g) == ProofLength[f] < ProofLength[g] \/ (ProofLength[f] = ProofLength[g] /\ Place[f] < Place[g])

\* Products of natural numbers keep their order, and tell it.
LEMMA Products ==
  ASSUME NEW a \in Nat, NEW b \in Nat, NEW n \in Nat
  PROVE  /\ a * n \in Nat /\ (a <= b => a * n <= b * n)
         /\ (n # 0 /\ a * n <= b * n => a <= b)
<1>1. a * n \in Nat
  OBVIOUS
<1>2. ASSUME a <= b PROVE a * n <= b * n
  <2>1. (b - a) * n >= 0
    BY <1>2
  <2>2. (b - a) * n = b * n - a * n
    OBVIOUS
  <2> QED BY <2>1, <2>2
<1>3. ASSUME n # 0, a * n <= b * n PROVE a <= b
  <2> SUFFICES ASSUME b < a PROVE FALSE
    OBVIOUS
  <2>1. (a - b) * n >= 1
    BY <1>3
  <2>2. (a - b) * n = a * n - b * n
    OBVIOUS
  <2> QED BY <1>3, <2>1, <2>2
<1> QED BY <1>1, <1>2, <1>3

\* a / x <= b / y and b / y <= c / z give a / x <= c / z.
LEMMA MeansCompose ==
  ASSUME NEW a \in Nat, NEW b \in Nat, NEW c \in Nat,
         NEW x \in Nat, NEW y \in Nat, NEW z \in Nat, y # 0,
         a * y <= b * x, b * z <= c * y
  PROVE  a * z <= c * x
<1>1. /\ a * y \in Nat /\ b * x \in Nat /\ b * z \in Nat /\ c * y \in Nat
      /\ a * z \in Nat /\ c * x \in Nat
  BY Products
<1>2. (a * y) * z <= (b * x) * z
  BY <1>1, Products
<1>3. (b * z) * x <= (c * y) * x
  BY <1>1, Products
<1>4. (a * y) * z = (a * z) * y /\ (b * x) * z = (b * z) * x /\ (c * y) * x = (c * x) * y
  OBVIOUS
<1>5. (a * z) * y \in Nat /\ (b * z) * x \in Nat /\ (c * x) * y \in Nat
  BY <1>1, Products
<1>6. (a * z) * y <= (c * x) * y
  BY <1>2, <1>3, <1>4, <1>5
<1> QED BY <1>1, <1>6, Products

\* Comparing means is a weak order: what is not above does not become so by way of a third.
LEMMA AboveIsWeakOrder ==
  ASSUME TypeOK
  PROVE  \A f, g, h \in Finalists : /\ ~(Above(f, g) /\ Above(g, f))
                                    /\ Above(f, h) => Above(f, g) \/ Above(g, h)
<1> TAKE f, g, h \in Finalists
<1>1. /\ Count(f) \in Nat /\ Count(g) \in Nat /\ Count(h) \in Nat
      /\ Total(f) \in Nat /\ Total(g) \in Nat /\ Total(h) \in Nat
  BY Graded
<1> DEFINE a == Total(f)
           b == Total(g)
           c == Total(h)
           x == Count(f)
           y == Count(g)
           z == Count(h)
<1>2. /\ MeanAbove(f, g) <=> a * y > b * x
      /\ MeanAbove(g, f) <=> b * x > a * y
      /\ MeanAbove(f, h) <=> a * z > c * x
      /\ MeanAbove(g, h) <=> b * z > c * y
  BY DEF MeanAbove
<1>3. a \in Nat /\ b \in Nat /\ c \in Nat /\ x \in Nat /\ y \in Nat /\ z \in Nat
  BY <1>1
<1>4. /\ Above(f, g) <=> x # 0 /\ (y = 0 \/ MeanAbove(f, g))
      /\ Above(g, f) <=> y # 0 /\ (x = 0 \/ MeanAbove(g, f))
      /\ Above(f, h) <=> x # 0 /\ (z = 0 \/ MeanAbove(f, h))
      /\ Above(g, h) <=> y # 0 /\ (z = 0 \/ MeanAbove(g, h))
  BY DEF Above
<1> HIDE DEF a, b, c, x, y, z
<1>5. a * y \in Nat /\ b * x \in Nat /\ b * z \in Nat /\ c * y \in Nat /\ a * z \in Nat /\ c * x \in Nat
  BY <1>3, Products
<1>6. ~(Above(f, g) /\ Above(g, f))
  BY <1>2, <1>4, <1>5
<1>7. ASSUME Above(f, h), ~Above(f, g), ~Above(g, h) PROVE FALSE
  <2>1. x # 0 /\ y # 0 /\ z # 0
    BY <1>4, <1>7
  <2>2. a * y <= b * x /\ b * z <= c * y /\ a * z > c * x
    BY <1>2, <1>4, <1>5, <1>7, <2>1
  <2>3. a * z <= c * x
    BY <1>3, <2>1, <2>2, MeansCompose
  <2> QED BY <1>5, <2>2, <2>3
<1> QED BY <1>6, <1>7

\* Beats compares means first, then lengths and places.
LEMMA BeatsIs ==
  ASSUME TypeOK, NEW f \in Finalists, NEW g \in Finalists
  PROVE  Beats(f, g) <=> Above(f, g) \/ (Tied(f, g) /\ Before(f, g))
<1>1. /\ Count(f) \in Nat /\ Count(g) \in Nat /\ Total(f) \in Nat /\ Total(g) \in Nat
      /\ (Count(f) = 0 => Total(f) = 0) /\ (Count(g) = 0 => Total(g) = 0)
  BY Graded
<1>2. Count(f) = 0 /\ Count(g) = 0 => ~MeanAbove(f, g) /\ ~MeanAbove(g, f)
  BY <1>1 DEF MeanAbove
<1>3. Tied(f, g) <=> (Count(f) = 0 <=> Count(g) = 0) /\ ~MeanAbove(f, g) /\ ~MeanAbove(g, f)
  <2>1. CASE Count(f) = 0 /\ Count(g) = 0
    BY <1>2, <2>1 DEF Tied, Above
  <2>2. CASE Count(f) # 0 /\ Count(g) # 0
    BY <2>2 DEF Tied, Above
  <2>3. CASE ~(Count(f) = 0 <=> Count(g) = 0)
    BY <2>3 DEF Tied, Above
  <2> QED BY <2>1, <2>2, <2>3
<1> QED BY <1>3 DEF Beats, Above, Before

LEMMA BeforeIsOrder ==
  \A f, g, h \in Finalists : /\ ~(Before(f, g) /\ Before(g, f))
                             /\ f # g => Before(f, g) \/ Before(g, f)
                             /\ Before(f, g) /\ Before(g, h) => Before(f, h)
<1> TAKE f, g, h \in Finalists
<1>1. /\ ProofLength[f] \in Nat /\ ProofLength[g] \in Nat /\ ProofLength[h] \in Nat
      /\ Place[f] \in Nat /\ Place[g] \in Nat /\ Place[h] \in Nat
      /\ f # g => Place[f] # Place[g]
  BY FinalistAssumption
<1> QED BY <1>1 DEF Before

\* finalist_rank_key orders the finalists.
LEMMA BeatsIsOrder ==
  ASSUME TypeOK, NEW f \in Finalists, NEW g \in Finalists, NEW h \in Finalists
  PROVE  /\ ~(Beats(f, g) /\ Beats(g, f))
         /\ f # g => Beats(f, g) \/ Beats(g, f)
         /\ Beats(f, g) /\ Beats(g, h) => Beats(f, h)
<1>1. /\ ~(Above(f, g) /\ Above(g, f)) /\ ~(Above(f, h) /\ Above(h, f)) /\ ~(Above(g, h) /\ Above(h, g))
      /\ Above(f, g) => Above(f, h) \/ Above(h, g)
      /\ Above(g, h) => Above(g, f) \/ Above(f, h)
      /\ Above(h, f) => Above(h, g) \/ Above(g, f)
  BY AboveIsWeakOrder
<1>2. /\ Beats(f, g) <=> Above(f, g) \/ (Tied(f, g) /\ Before(f, g))
      /\ Beats(g, f) <=> Above(g, f) \/ (Tied(g, f) /\ Before(g, f))
      /\ Beats(g, h) <=> Above(g, h) \/ (Tied(g, h) /\ Before(g, h))
      /\ Beats(f, h) <=> Above(f, h) \/ (Tied(f, h) /\ Before(f, h))
  BY BeatsIs
<1>3. /\ ~(Before(f, g) /\ Before(g, f))
      /\ f # g => Before(f, g) \/ Before(g, f)
      /\ Before(f, g) /\ Before(g, h) => Before(f, h)
  BY BeforeIsOrder
<1> QED BY <1>1, <1>2, <1>3 DEF Tied

\* So there is a best one of some of them.
LEMMA BestExists ==
  ASSUME TypeOK
  PROVE  \E f \in Finalists : \A g \in Finalists \ {f} : Beats(f, g)
<1> DEFINE best(T, f) == \A g \in T \ {f} : Beats(f, g)
           bad == {n \in Nat : \E T \in SUBSET Finalists : T # {} /\ Cardinality(T) = n /\ ~ \E f \in T : best(T, f)}
<1>1. bad = {}
  <2> SUFFICES ASSUME bad # {} PROVE FALSE
    OBVIOUS
  <2>1. bad \in SUBSET Nat
    OBVIOUS
  <2>2. Min(bad) \in bad /\ \A y \in bad : Min(bad) <= y
    BY <2>1, MinIsLeast
  <2>3. PICK n \in Nat : n \in bad /\ \A y \in bad : n <= y
    BY <2>1, <2>2
  <2>4. PICK T \in SUBSET Finalists : T # {} /\ Cardinality(T) = n /\ ~ \E f \in T : best(T, f)
    BY <2>3
  <2>5. PICK x \in T : TRUE
    BY <2>4
  <2>6. IsFiniteSet(T)
    BY JudgeAssumption, FS_Subset
  <2> DEFINE U == T \ {x}
  <2>7. Cardinality(U) = n - 1
    <3>1. Cardinality(T \ {x}) = IF x \in T THEN Cardinality(T) - 1 ELSE Cardinality(T)
      BY <2>6, FS_RemoveElement
    <3> QED BY <2>4, <3>1
  <2>8. IsFiniteSet(U) /\ U \in SUBSET Finalists
    BY <2>6, FS_RemoveElement
  <2>9. Cardinality(U) \in Nat
    BY <2>8, FS_CardinalityType
  <2>10. n - 1 \in Nat /\ ~(n <= n - 1)
    BY <2>7, <2>9
  <2>11. n - 1 \notin bad
    BY <2>3, <2>10
  <2>12. CASE U = {}
    <3>1. best(T, x)
      BY <2>12
    <3> QED BY <2>4, <3>1
  <2>13. CASE U # {}
    <3>1. PICK m \in U : best(U, m)
      BY <2>7, <2>8, <2>10, <2>11, <2>13
    <3>2. m \in T /\ m # x /\ m \in Finalists /\ x \in Finalists
      OBVIOUS
    <3>3. CASE Beats(m, x)
      <4>1. best(T, m)
        BY <3>1, <3>3
      <4> QED BY <2>4, <3>2, <4>1
    <3>4. CASE Beats(x, m)
      <4>1. ASSUME NEW g \in T \ {x} PROVE Beats(x, g)
        <5>1. CASE g = m
          BY <3>4, <5>1
        <5>2. CASE g # m
          <6>1. Beats(m, g)
            BY <3>1, <5>2
          <6> QED BY <3>2, <3>4, <6>1, BeatsIsOrder
        <5> QED BY <5>1, <5>2
      <4> QED BY <2>4, <4>1
    <3> QED BY <3>2, <3>3, <3>4, BeatsIsOrder
  <2> QED BY <2>12, <2>13
<1>2. IsFiniteSet(Finalists) /\ Finalists # {} /\ Finalists \in SUBSET Finalists
  BY JudgeAssumption
<1>3. Cardinality(Finalists) \in Nat
  BY <1>2, FS_CardinalityType
<1>4. \E f \in Finalists : best(Finalists, f)
  BY <1>1, <1>2, <1>3
<1> QED BY <1>4

\* What is selected is the first in that order.
ChoiceInv == main = "selected" => choice = {f \in Finalists : \A g \in Finalists \ {f} : Beats(f, g)}

\* Ranks depend on the results alone.
LEMMA RanksStay ==
  ASSUME result' = result, NEW f, NEW g
  PROVE  Beats(f, g)' <=> Beats(f, g)
<1>1. ASSUME NEW x PROVE Valid(x)' = Valid(x)
  BY DEF Valid
<1>2. ASSUME NEW x PROVE Total(x)' = Total(x)
  <2>1. Total(x) = SumOf(result, Valid(x))
    BY DEF Total, SumOf, FoldSet, MapThenFoldSet
  <2>2. Total(x)' = SumOf(result', Valid(x)')
    BY DEF Total, SumOf, FoldSet, MapThenFoldSet
  <2> QED BY <1>1, <2>1, <2>2
<1>3. ASSUME NEW x PROVE Count(x)' = Count(x)
  BY <1>1 DEF Count
<1>4. ASSUME NEW x, NEW y PROVE MeanAbove(x, y)' <=> MeanAbove(x, y)
  BY <1>2, <1>3 DEF MeanAbove
<1> QED BY <1>3, <1>4 DEF Beats

LEMMA NextChoice == SelInv /\ ChoiceInv /\ [Next]_vars => ChoiceInv'
<1> SUFFICES ASSUME SelInv, ChoiceInv, [Next]_vars, main' = "selected"
             PROVE  choice' = {f \in Finalists : \A g \in Finalists \ {f} : Beats(f, g)}'
  BY DEF ChoiceInv
<1>1. CASE Select
  <2>1. choice' = {f \in Finalists : \A g \in Finalists \ {f} : Beats(f, g)} /\ result' = result
    BY <1>1 DEF Select, slotVars
  <2> QED BY <2>1, RanksStay
<1>2. CASE UNCHANGED vars
  <2>1. UNCHANGED <<main, choice, result>>
    BY <1>2 DEF vars, slotVars
  <2> QED BY <2>1, RanksStay DEF ChoiceInv
<1>3. ASSUME Next, ~Select PROVE FALSE
  <2>1. ASSUME NEW s \in Slots, Up, Slot(s) PROVE FALSE
    <3>1. main' = main
      BY <2>1 DEF Slot, Begin, Respond, Park, Noted, Lock, Written, Raise, Deliver
    <3> QED BY <2>1, <3>1 DEF Up
  <2>2. CASE ThreadWrites
    <3>1. threads # {} /\ main' = main
      BY <2>2 DEF ThreadWrites
    <3>2. Up
      BY <3>1 DEF SelInv, ThreadsOwn
    <3> QED BY <3>1, <3>2 DEF Up
  <2>3. CASE Fails \/ Stopped \/ Stop \/ Crash \/ Relaunch
    BY <2>3 DEF Fails, Stopped, Stop, Crash, Relaunch, CancelAll
  <2> QED BY <1>3, <2>1, <2>2, <2>3 DEF Next, Process
<1> QED BY <1>1, <1>2, <1>3

\* The selected finalist is one, and no other has a higher mean of valid judgments
\* (scoring.py, finalist_rank_key).
THEOREM Selected == Spec => []SelectionIsBest
<1>1. SelInv /\ ChoiceInv => SelectionIsBest
  <2> SUFFICES ASSUME SelInv, ChoiceInv, main = "selected"
               PROVE  /\ Cardinality(choice) = 1
                      /\ \A f \in choice, g \in Finalists :
                           /\ Count(f) = 0 => Count(g) = 0
                           /\ Total(g) * Count(f) <= Total(f) * Count(g)
    BY DEF SelectionIsBest
  <2>1. TypeOK /\ choice = {f \in Finalists : \A g \in Finalists \ {f} : Beats(f, g)}
    BY DEF SelInv, ChoiceInv
  <2>2. PICK b \in Finalists : \A g \in Finalists \ {b} : Beats(b, g)
    BY <2>1, BestExists
  <2>3. ASSUME NEW f \in choice PROVE f = b
    <3>1. f \in Finalists /\ \A g \in Finalists \ {f} : Beats(f, g)
      BY <2>1
    <3>2. f # b => Beats(f, b) /\ Beats(b, f)
      BY <2>2, <3>1
    <3> QED BY <2>1, <3>1, <3>2, BeatsIsOrder
  <2>4. choice = {b}
    BY <2>1, <2>2, <2>3
  <2>5. Cardinality(choice) = 1
    BY <2>4, FS_Singleton
  <2>6. ASSUME NEW g \in Finalists
        PROVE  (Count(b) = 0 => Count(g) = 0) /\ Total(g) * Count(b) <= Total(b) * Count(g)
    <3>1. /\ Count(b) \in Nat /\ Count(g) \in Nat /\ Total(b) \in Nat /\ Total(g) \in Nat
          /\ (Count(g) = 0 => Total(g) = 0)
      BY <2>1, Graded
    <3>2. Total(g) * Count(b) \in Nat /\ Total(b) * Count(g) \in Nat
      BY <3>1, Products
    <3>3. CASE g = b
      BY <3>2, <3>3
    <3>4. CASE g # b
      <4>1. Above(b, g) \/ Tied(b, g)
        BY <2>1, <2>2, <3>4, BeatsIs
      <4>2. CASE Above(b, g) /\ Count(g) = 0
        <5>1. Total(g) * Count(b) = 0 /\ Total(b) * Count(g) = 0
          BY <3>1, <4>2
        <5> QED BY <4>2, <5>1
      <4>3. CASE Above(b, g) /\ Count(g) # 0
        BY <3>2, <4>3 DEF Above, MeanAbove
      <4>4. CASE Tied(b, g)
        <5>1. Count(b) = 0 <=> Count(g) = 0
          BY <4>4 DEF Tied, Above
        <5>2. CASE Count(g) = 0
          <6>1. Total(g) * Count(b) = 0 /\ Total(b) * Count(g) = 0
            BY <3>1, <5>1, <5>2
          <6> QED BY <5>1, <5>2, <6>1
        <5>3. CASE Count(g) # 0
          BY <3>2, <4>4, <5>1, <5>3 DEF Tied, Above, MeanAbove
        <5> QED BY <5>2, <5>3
      <4> QED BY <4>1, <4>2, <4>3, <4>4
    <3> QED BY <3>3, <3>4
  <2> QED BY <2>4, <2>5, <2>6
<1>2. Init => ChoiceInv
  BY DEF Init, ChoiceInv
<1>3. Spec => []ChoiceInv
  BY <1>2, NextChoice, JudgingInvariant, PTL DEF Spec
<1> QED BY <1>1, <1>3, JudgingInvariant, PTL
=============================================================================
