-------------------------- MODULE RequestLayerProofs --------------------------
(***************************************************************************)
(* Proofs about RequestLayer for every number of requests, lanes and       *)
(* widths, every budget and every set of errors.                           *)
(***************************************************************************)
EXTENDS RequestLayer, FiniteSetTheorems, SequenceTheorems, TLAPS

Active == {"calling", "aborting"}

\* A request has ended exactly when its outcome is known, it has a call exactly
\* while it holds a place of its lane, and only a cancellation aborts a call.
Inv ==
  /\ TypeOK
  /\ \A r \in Requests : outcome[r] = "pending" <=> pc[r] # "ended"
  /\ \A r \in Requests : call[r] # NoCall => pc[r] \in Active
  /\ \A r \in Requests : pc[r] \in Active => call[r] # NoCall
  /\ \A r \in Requests : pc[r] = "aborting" => r \in cancel

-----------------------------------------------------------------------------
\* The states of a call are told apart by what they are at.
LEMMA CallsDiffer ==
  /\ NoCall # Flying /\ Flying # Completed /\ NoCall # Completed
  /\ \A e \in Errors : Failed(e) \notin {NoCall, Flying, Completed}
  /\ \A c \in CallType : c.at = "failed" => \E e \in Errors : c = Failed(e)
PROOF BY DEF NoCall, Flying, Completed, Failed, CallType

\* Every failure is fatal, parked or retried.
LEMMA KindsOfError ==
  ASSUME NEW e
  PROVE  Classify(e) \in {"fatal", "parked", "retry"}
PROOF BY DEF Classify

\* A request that leaves its lane's queue leaves a queue of requests.
LEMMA Waiting ==
  ASSUME Inv, NEW r \in Requests
  PROVE  /\ Enqueue(r) => queue' \in [Lanes -> Seq(Requests)]
         /\ Leave(r) => queue' \in [Lanes -> Seq(Requests)]
<1>1. queue[LaneOf[r]] \in Seq(Requests)
  BY LaneAssumption DEF Inv, TypeOK
<1>2. Append(queue[LaneOf[r]], r) \in Seq(Requests)
  BY <1>1, AppendProperties
<1>3. ASSUME NEW q \in Seq(Requests), NEW i \in DOMAIN q
      PROVE  Without(q, i) \in Seq(Requests)
  <2>1. i \in 1..Len(q) /\ Len(q) \in Nat
    BY <1>3, LenProperties
  <2>2. SubSeq(q, 1, i - 1) \in Seq(Requests)
    BY <1>3, <2>1, SubSeqProperties
  <2>3. SubSeq(q, i + 1, Len(q)) \in Seq(Requests)
    BY <1>3, <2>1, SubSeqProperties
  <2>. QED BY <2>2, <2>3, ConcatProperties DEF Without
<1>4. Enqueue(r) => queue' \in [Lanes -> Seq(Requests)]
  BY <1>2 DEF Enqueue, Inv, TypeOK
<1>5. Leave(r) => queue' \in [Lanes -> Seq(Requests)]
  BY <1>1, <1>3 DEF Leave, Inv, TypeOK
<1>. QED BY <1>4, <1>5

\* A request that ends keeps the invariant.
LEMMA EndKeepsInv ==
  ASSUME Inv, NEW r \in Requests, NEW how \in {"returned", "parked", "fatal", "abandoned"},
         End(r, how), queue' \in [Lanes -> Seq(Requests)]
  PROVE  Inv'
PROOF BY CallsDiffer DEF Inv, TypeOK, End, Active, CallType

\* Types, and which calls go with which place of the coroutine of request, always hold.
THEOREM InvInvariant == Spec => []Inv
<1>1. Init => Inv
  BY DEF Init, Inv, TypeOK, Active, CallType
<1>2. Inv /\ [Next]_vars => Inv'
  <2>. SUFFICES ASSUME Inv, [Next]_vars PROVE Inv'
    OBVIOUS
  <2>1. ASSUME NEW r \in Requests, Submit(r) PROVE Inv'
    <3>1. CASE TooLong(r) /\ End(r, "parked") /\ UNCHANGED queue
      BY <3>1, EndKeepsInv DEF Inv, TypeOK
    <3>2. CASE ~TooLong(r)
      BY <2>1, <3>2, Waiting DEF Submit, Inv, TypeOK, Active
    <3>. QED BY <2>1, <3>1, <3>2 DEF Submit
  <2>2. ASSUME NEW r \in Requests, Acquire(r) PROVE Inv'
    <3>1. queue' \in [Lanes -> Seq(Requests)]
      BY <2>2, LaneAssumption, HeadTailProperties DEF Acquire, Inv, TypeOK
    <3>2. /\ pc' = [pc EXCEPT ![r] = "calling"]
          /\ call' = [call EXCEPT ![r] = Flying]
          /\ UNCHANGED <<expired, cancel, outcome>>
          /\ pc[r] = "queued"
      BY <2>2 DEF Acquire
    <3>. QED BY <3>1, <3>2, CallsDiffer DEF Inv, TypeOK, Active, CallType
  <2>3. ASSUME NEW r \in Requests, Return(r) PROVE Inv'
    BY <2>3, EndKeepsInv DEF Return, Inv, TypeOK
  <2>4. ASSUME NEW r \in Requests, Handle(r) PROVE Inv'
    <3>. DEFINE kind == Classify(call[r].error)
    <3>1. CASE Backoff(r) /\ UNCHANGED queue
      BY <2>4, <3>1, CallsDiffer DEF Handle, Backoff, Inv, TypeOK, Active, CallType
    <3>2. CASE End(r, "parked") /\ UNCHANGED queue
      BY <3>2, EndKeepsInv DEF Inv, TypeOK
    <3>3. CASE kind # "retry" /\ End(r, kind) /\ UNCHANGED queue
      <4>1. kind \in {"fatal", "parked"}
        BY <3>3, KindsOfError
      <4>. QED BY <3>3, <4>1, EndKeepsInv DEF Inv, TypeOK
    <3>. QED BY <2>4, <3>1, <3>2, <3>3 DEF Handle
  <2>5. ASSUME NEW r \in Requests, Wake(r) PROVE Inv'
    BY <2>5, Waiting DEF Wake, Inv, TypeOK, Active
  <2>6. ASSUME NEW r \in Requests, Abort(r) PROVE Inv'
    BY <2>6 DEF Abort, Inv, TypeOK, Active
  <2>7. ASSUME NEW r \in Requests, Aborted(r) PROVE Inv'
    BY <2>7, EndKeepsInv DEF Aborted, Inv, TypeOK
  <2>8. ASSUME NEW r \in Requests, Abandon(r) PROVE Inv'
    <3>1. queue' \in [Lanes -> Seq(Requests)]
      BY <2>8, Waiting DEF Abandon, Inv, TypeOK
    <3>. QED BY <2>8, <3>1, EndKeepsInv DEF Abandon
  <2>9. ASSUME NEW r \in Requests, CallEnds(r) PROVE Inv'
    BY <2>9, CallsDiffer DEF CallEnds, Inv, TypeOK, Active, CallType
  <2>10. ASSUME NEW r \in Requests, Expire(r) PROVE Inv'
    BY <2>10 DEF Expire, Inv, TypeOK
  <2>11. ASSUME NEW r \in Requests, Cancel(r) PROVE Inv'
    BY <2>11 DEF Cancel, Inv, TypeOK
  <2>12. CASE UNCHANGED vars
    BY <2>12 DEF vars, Inv, TypeOK
  <2>. QED
    BY <2>1, <2>2, <2>3, <2>4, <2>5, <2>6, <2>7, <2>8, <2>9, <2>10, <2>11, <2>12
    DEF Next, Step, Quiet
<1>. QED BY <1>1, <1>2, PTL DEF Spec

\* The request layer keeps to its types, whatever the requests, the widths and
\* the errors of the endpoint.
THEOREM RequestTypes == Spec => []TypeOK
BY InvInvariant, PTL DEF Inv

-----------------------------------------------------------------------------
(* Lanes *)

LaneInv == \A l \in Lanes : Cardinality(Holders(l)) <= Width[l]

\* The holders of a lane can be counted.
LEMMA HoldersFinite ==
  ASSUME NEW l \in Lanes
  PROVE  IsFiniteSet(Holders(l)) /\ Cardinality(Holders(l)) \in Nat
<1>1. Holders(l) \subseteq Requests
  BY DEF Holders
<1>. QED BY <1>1, FS_Subset, FS_CardinalityType, LaneAssumption

\* A step after which no request holds a place it did not hold before.
LEMMA NobodyEnters ==
  ASSUME LaneInv, \A r \in Requests : pc'[r] \in Active => pc[r] \in Active
  PROVE  LaneInv'
<1>. SUFFICES ASSUME NEW l \in Lanes PROVE Cardinality(Holders(l)') <= Width[l]
  BY DEF LaneInv
<1>1. Holders(l)' \subseteq Holders(l)
  BY DEF Holders, Active
<1>2. Cardinality(Holders(l)') <= Cardinality(Holders(l))
  BY <1>1, HoldersFinite, FS_Subset
<1>3. Cardinality(Holders(l)') \in Nat
  BY <1>1, HoldersFinite, FS_Subset, FS_CardinalityType
<1>4. Cardinality(Holders(l)) <= Width[l] /\ Width[l] \in Nat
  BY LaneAssumption DEF LaneInv
<1>. QED BY <1>2, <1>3, <1>4, HoldersFinite

\* One request that enters a lane with room for it leaves the lane within its width.
LEMMA OneEnters ==
  ASSUME Inv, LaneInv, NEW r \in Requests, Acquire(r)
  PROVE  LaneInv'
<1>. SUFFICES ASSUME NEW l \in Lanes PROVE Cardinality(Holders(l)') <= Width[l]
  BY DEF LaneInv
<1>. DEFINE m == LaneOf[r]
<1>1. pc[r] = "queued" /\ pc' = [pc EXCEPT ![r] = "calling"]
  BY DEF Acquire
<1>. DOMAIN pc = Requests
  BY DEF Inv, TypeOK
<1>2. CASE l # m
  <2>1. \A q \in Requests : LaneOf[q] = l => pc'[q] = pc[q]
    BY <1>1, <1>2 DEF Inv, TypeOK
  <2>2. Holders(l)' = Holders(l)
    BY <2>1 DEF Holders
  <2>. QED BY <2>2 DEF LaneInv
<1>3. CASE l = m
  <2>1. Holders(l)' = Holders(l) \cup {r} /\ r \notin Holders(l)
    BY <1>1, <1>3 DEF Holders
  <2>2. Cardinality(Holders(l)') = Cardinality(Holders(l)) + 1
    BY <2>1, HoldersFinite, FS_AddElement
  <2>3. Cardinality(Holders(l)) < Width[l]
    BY <1>3 DEF Acquire
  <2>. QED BY <2>2, <2>3, HoldersFinite, LaneAssumption
<1>. QED BY <1>2, <1>3

\* A lane never has more holders than its width: a place is taken only when one is free.
THEOREM LaneInvariant == Spec => []LaneInv
<1>1. Init => LaneInv
  <2>. SUFFICES ASSUME Init, NEW l \in Lanes PROVE Cardinality(Holders(l)) <= Width[l]
    BY DEF LaneInv
  <2>1. Holders(l) = {}
    BY DEF Init, Holders
  <2>. QED BY <2>1, FS_EmptySet, LaneAssumption
<1>2. Inv /\ LaneInv /\ [Next]_vars => LaneInv'
  <2>. SUFFICES ASSUME Inv, LaneInv, [Next]_vars PROVE LaneInv'
    OBVIOUS
  <2>1. ASSUME NEW r \in Requests, Acquire(r) PROVE LaneInv'
    BY <2>1, OneEnters
  <2>2. ASSUME NEW r \in Requests, Step(r), ~Acquire(r) PROVE LaneInv'
    <3>1. ASSUME NEW to \in {"ended", "queued", "sleeping"}, pc' = [pc EXCEPT ![r] = to]
          PROVE  LaneInv'
      BY <3>1, NobodyEnters DEF Active, Inv, TypeOK
    <3>2. CASE Submit(r)
      BY <3>1, <3>2 DEF Submit, End
    <3>3. CASE Return(r) \/ Aborted(r) \/ Abandon(r)
      BY <3>1, <3>3 DEF Return, Aborted, Abandon, End
    <3>4. CASE Handle(r)
      BY <3>1, <3>4 DEF Handle, Backoff, End
    <3>5. CASE Wake(r)
      BY <3>1, <3>5 DEF Wake
    <3>6. CASE Abort(r)
      BY <3>6, NobodyEnters DEF Abort, Active, Inv, TypeOK
    <3>. QED BY <2>2, <3>2, <3>3, <3>4, <3>5, <3>6 DEF Step
  <2>3. ASSUME NEW r \in Requests, CallEnds(r) \/ Expire(r) \/ Cancel(r) PROVE LaneInv'
    BY <2>3, NobodyEnters DEF CallEnds, Expire, Cancel
  <2>4. CASE UNCHANGED vars
    BY <2>4, NobodyEnters DEF vars
  <2>. QED BY <2>1, <2>2, <2>3, <2>4 DEF Next, Quiet
<1>. QED BY <1>1, <1>2, InvInvariant, PTL DEF Spec

\* No lane ever has more calls on the wire than its width, whatever fails, is
\* retried or is cancelled.
THEOREM LanesBoundCalls == Spec => []CallsWithinLane
<1>1. Inv /\ LaneInv => CallsWithinLane
  <2>. SUFFICES ASSUME Inv, LaneInv, NEW l \in Lanes
                PROVE  Cardinality({r \in Requests : LaneOf[r] = l /\ call[r] = Flying}) <= Width[l]
    BY DEF CallsWithinLane
  <2>. DEFINE F == {r \in Requests : LaneOf[r] = l /\ call[r] = Flying}
  <2>1. F \subseteq Holders(l)
    BY CallsDiffer DEF Holders, Inv, Active
  <2>2. Cardinality(F) <= Cardinality(Holders(l)) /\ IsFiniteSet(F)
    BY <2>1, HoldersFinite, FS_Subset
  <2>3. Cardinality(F) \in Nat
    BY <2>2, FS_CardinalityType
  <2>. QED BY <2>2, <2>3, HoldersFinite, LaneAssumption DEF LaneInv
<1>. QED BY <1>1, InvInvariant, LaneInvariant, PTL

-----------------------------------------------------------------------------
(* The contract *)

\* Whatever happens to the calls of a request, its caller sees the contract.
THEOREM ContractHolds == Spec => ImplementsContract
<1>1. Init => Contract!Init
  BY DEF Init, Contract!Init
<1>2. Inv /\ [Next]_vars => [Contract!Next]_<<outcome, cancel>>
  <2>. SUFFICES ASSUME Inv, [Next]_vars
                PROVE  Contract!Next \/ UNCHANGED <<outcome, cancel>>
    OBVIOUS
  <2>1. ASSUME NEW r \in Requests, Return(r) PROVE Contract!Return(r)
    BY <2>1 DEF Return, End, Inv, Contract!Return, Contract!End
  <2>2. ASSUME NEW r \in Requests, End(r, "parked") \/ End(r, "fatal"), pc[r] # "ended",
               r \notin cancel
        PROVE  Contract!Fail(r)
    BY <2>2 DEF End, Inv, Contract!Fail, Contract!End
  <2>3. ASSUME NEW r \in Requests, Submit(r)
        PROVE  Contract!Fail(r) \/ UNCHANGED <<outcome, cancel>>
    BY <2>2, <2>3 DEF Submit
  <2>4. ASSUME NEW r \in Requests, Handle(r)
        PROVE  Contract!Fail(r) \/ UNCHANGED <<outcome, cancel>>
    BY <2>2, <2>4, KindsOfError DEF Handle, Backoff
  <2>5. ASSUME NEW r \in Requests, Aborted(r) \/ Abandon(r)
        PROVE  Contract!Abandon(r)
    BY <2>5 DEF Aborted, Abandon, End, Inv, Contract!Abandon, Contract!End
  <2>6. ASSUME NEW r \in Requests, Cancel(r) PROVE Contract!Cancel(r)
    BY <2>6 DEF Cancel, Inv, Contract!Cancel
  <2>7. ASSUME NEW r \in Requests, Acquire(r) \/ Wake(r) \/ Abort(r) \/ CallEnds(r) \/ Expire(r)
        PROVE  UNCHANGED <<outcome, cancel>>
    BY <2>7 DEF Acquire, Wake, Abort, CallEnds, Expire
  <2>. QED BY <2>1, <2>3, <2>4, <2>5, <2>6, <2>7 DEF Next, Step, Quiet, vars, Contract!Next
<1>. QED BY <1>1, <1>2, InvInvariant, PTL DEF Spec, ImplementsContract, Contract!Spec

-----------------------------------------------------------------------------
(* Responses and budgets *)

\* A response that has arrived is returned: only Return moves a request whose
\* call has completed.
THEOREM ArrivedReturned == Spec => ArrivedIsReturned
<1>. DEFINE Kept == \A r \in Requests :
              call[r] = Completed /\ pc[r] = "calling" /\ <<call[r], pc[r]>>' # <<call[r], pc[r]>>
                => outcome'[r] = "returned"
<1>1. Inv /\ [Next]_vars => [Kept]_vars
  <2>. SUFFICES ASSUME Inv, [Next]_vars, NEW r \in Requests, call[r] = Completed, pc[r] = "calling",
                       <<call'[r], pc'[r]>> # <<call[r], pc[r]>>
                PROVE  outcome'[r] = "returned"
    OBVIOUS
  <2>1. call[r].at = "completed" /\ call[r] # Flying
    BY CallsDiffer DEF Completed
  <2>2. ASSUME NEW q \in Requests, q # r, Step(q) \/ CallEnds(q)
        PROVE  FALSE
    BY <2>2 DEF Inv, TypeOK, Step, Submit, Acquire, Return, Handle, Backoff, Wake, Abort, Aborted,
                Abandon, End, CallEnds
  <2>3. ASSUME NEW q \in Requests, Expire(q) \/ Cancel(q) PROVE FALSE
    BY <2>3 DEF Expire, Cancel
  <2>4. vars' # vars
    BY DEF vars
  <2>5. Step(r) => Return(r)
    BY <2>1 DEF Step, Submit, Acquire, Handle, Wake, Abort, Aborted, Abandon
  <2>6. ~CallEnds(r)
    BY <2>1 DEF CallEnds
  <2>7. Return(r) => outcome'[r] = "returned"
    BY DEF Return, End, Inv, TypeOK
  <2>. QED BY <2>2, <2>3, <2>4, <2>5, <2>6, <2>7 DEF Next, Quiet
<1>. QED BY <1>1, InvInvariant, PTL DEF Spec, ArrivedIsReturned

BudgetInv == \A r \in Requests : pc[r] \notin {"budget", "ended"} => ~TooLong(r)

\* Every call leaves room for its prompt, its completion and the margin.
THEOREM BudgetFits == Spec => []CallsFitContext
<1>1. Init => BudgetInv
  BY DEF Init, BudgetInv
<1>2. Inv /\ BudgetInv /\ [Next]_vars => BudgetInv'
  <2>. SUFFICES ASSUME Inv, BudgetInv, [Next]_vars, NEW r \in Requests,
                       pc'[r] \notin {"budget", "ended"}
                PROVE  ~TooLong(r)
    BY DEF BudgetInv, TooLong, Available
  <2>1. ASSUME NEW q \in Requests, Step(q)
        PROVE  ~TooLong(r) \/ pc'[r] = pc[r]
    BY <2>1 DEF Inv, TypeOK, BudgetInv, Step, Submit, Acquire, Return, Handle, Backoff, Wake, Abort,
                Aborted, Abandon, End
  <2>2. ASSUME NEW q \in Requests, CallEnds(q) \/ Expire(q) \/ Cancel(q) PROVE pc' = pc
    BY <2>2 DEF CallEnds, Expire, Cancel
  <2>. QED BY <2>1, <2>2 DEF Next, Quiet, vars, BudgetInv
<1>3. Inv /\ BudgetInv => CallsFitContext
  <2>. SUFFICES ASSUME Inv, BudgetInv, NEW r \in Requests, call[r] # NoCall
                PROVE  /\ Effective(r) \in 1..MaxTokens
                       /\ Prompt[r] # Unknown => Prompt[r] + Effective(r) + Margin <= MaxLen
    BY DEF CallsFitContext
  <2>1. ~TooLong(r)
    BY DEF Inv, BudgetInv, Active
  <2>2. CASE Prompt[r] = Unknown
    BY <2>2, BudgetAssumption DEF Effective
  <2>3. CASE Prompt[r] # Unknown
    <3>1. Prompt[r] \in Nat
      BY <2>3, BudgetAssumption
    <3>. QED BY <2>1, <2>3, <3>1, BudgetAssumption DEF TooLong, Available, Effective
  <2>. QED BY <2>2, <2>3
<1>. QED BY <1>1, <1>2, <1>3, InvInvariant, PTL DEF Spec
=============================================================================
