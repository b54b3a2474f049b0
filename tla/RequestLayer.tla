---------------------------- MODULE RequestLayer ----------------------------
(***************************************************************************)
(* client.py: logical requests that take a place in their role's lane, put *)
(* one call at a time on the wire, and retry, park or fail on its errors.  *)
(* Each request runs in its caller's task; the caller can cancel it at any *)
(* of its awaits.                                                          *)
(*                                                                         *)
(* Names that start with Bug are variants of the definition that follows   *)
(* them, as a plausible mistake in the code would write it.                *)
(***************************************************************************)
EXTENDS Integers, Sequences, FiniteSets

CONSTANTS
  Requests,  \* logical requests (one identity each)
  Lanes,     \* generation, verification, refinement, judging
  LaneOf,    \* the lane of each request's role
  Width,     \* calls a lane admits at once (concurrency.<lane>)
  Prompt,    \* tokens of each request's prompt, Unknown without a tokenizer
  Unknown,
  MaxTokens, MaxLen, Margin,  \* completion budget, context window, safety margin
  Errors     \* the failures a call may end with

\* A failure: out of file descriptors, HTTP status (0 for none), whether its
\* message holds a context marker, and whether the transport failed.
ErrorType == [fds: BOOLEAN, status: Nat, marker: BOOLEAN, transport: BOOLEAN]

ASSUME LaneAssumption ==
  /\ IsFiniteSet(Requests)
  /\ LaneOf \in [Requests -> Lanes]
  /\ Width \in [Lanes -> Nat \ {0}]
ASSUME BudgetAssumption ==
  /\ Unknown \notin Nat
  /\ Prompt \in [Requests -> Nat \cup {Unknown}]
  /\ MaxTokens \in Nat \ {0} /\ MaxLen \in Nat \ {0} /\ Margin \in Int
ASSUME ErrorAssumption == Errors \subseteq ErrorType

VARIABLES
  pc,       \* where each request's coroutine is
  queue,    \* the requests waiting for each lane, in the order they arrived
  call,     \* the call each request has on the wire, or how it has ended
  expired,  \* the requests whose retry window has elapsed
  cancel,   \* the requests whose caller has been cancelled
  outcome   \* how each request has ended

vars == <<pc, queue, call, expired, cancel, outcome>>

----------------------------------------------------------------------------
(* The context budget *)

Available(r) == MaxLen - Prompt[r] - Margin

\* prompt_too_long: the prompt leaves no completion budget.
BugTooLong(r) == Prompt[r] # Unknown /\ Available(r) < 0
TooLong(r) == Prompt[r] # Unknown /\ Available(r) <= 0

\* effective_max_tokens of the calls of r.
Effective(r) ==
  IF Prompt[r] = Unknown \/ MaxTokens <= Available(r) THEN MaxTokens ELSE Available(r)

----------------------------------------------------------------------------
(* Errors *)

ParkStatuses == {400, 409, 413, 415, 422}
FatalStatuses == {401, 403, 404}
RetryStatuses == {408, 429}

Fatal(e) == e.fds \/ e.status \in FatalStatuses

Transient(e) == e.transport \/ e.status \in RetryStatuses \/ e.status >= 500

\* classify_error: the tests are made in this order.
Classify(e) ==
  IF Fatal(e) THEN "fatal"
  ELSE IF e.status \in ParkStatuses \/ e.marker THEN "parked"
  ELSE IF Transient(e) THEN "retry"
  ELSE "parked"

----------------------------------------------------------------------------
(* Calls and lanes *)

NoCall == [at |-> "none"]
Flying == [at |-> "flying"]
Completed == [at |-> "completed"]
Failed(e) == [at |-> "failed", error |-> e]
CallType == {NoCall, Flying, Completed} \cup {Failed(e) : e \in Errors}

Holders(l) == {r \in Requests : LaneOf[r] = l /\ pc[r] \in {"calling", "aborting"}}

Enqueue(r) == queue' = [queue EXCEPT ![LaneOf[r]] = Append(@, r)]
Without(q, i) == SubSeq(q, 1, i - 1) \o SubSeq(q, i + 1, Len(q))
Leave(r) == \E i \in DOMAIN queue[LaneOf[r]] :
  /\ queue[LaneOf[r]][i] = r
  /\ queue' = [queue EXCEPT ![LaneOf[r]] = Without(@, i)]

Init ==
  /\ pc = [r \in Requests |-> "budget"]
  /\ queue = [l \in Lanes |-> <<>>]
  /\ call = [r \in Requests |-> NoCall]
  /\ expired = {}
  /\ cancel = {}
  /\ outcome = [r \in Requests |-> "pending"]

End(r, how) ==
  /\ pc' = [pc EXCEPT ![r] = "ended"]
  /\ call' = [call EXCEPT ![r] = NoCall]
  /\ outcome' = [outcome EXCEPT ![r] = how]
  /\ UNCHANGED <<expired, cancel>>

\* The budget is known: a prompt that is too long is parked without a call,
\* any other starts its retry window and asks for its lane.
Submit(r) ==
  /\ pc[r] = "budget" /\ r \notin cancel
  /\ \/ TooLong(r) /\ End(r, "parked") /\ UNCHANGED queue
     \/ /\ ~TooLong(r)
        /\ pc' = [pc EXCEPT ![r] = "queued"]
        /\ Enqueue(r)
        /\ UNCHANGED <<call, expired, cancel, outcome>>

\* The lane admits its waiters in order; the call starts at once.
Acquire(r) ==
  LET l == LaneOf[r] IN
  /\ pc[r] = "queued" /\ r \notin cancel
  /\ queue[l] # <<>> /\ Head(queue[l]) = r
  /\ Cardinality(Holders(l)) < Width[l]
  /\ queue' = [queue EXCEPT ![l] = Tail(@)]
  /\ pc' = [pc EXCEPT ![r] = "calling"]
  /\ call' = [call EXCEPT ![r] = Flying]
  /\ UNCHANGED <<expired, cancel, outcome>>

\* A response, wanted or not: a call that had completed when the cancellation
\* arrived is returned all the same.
Return(r) ==
  /\ pc[r] = "calling" /\ call[r] = Completed
  /\ End(r, "returned") /\ UNCHANGED queue

\* Out of the lane, to sleep before the next attempt.
Backoff(r) ==
  /\ pc' = [pc EXCEPT ![r] = "sleeping"]
  /\ call' = [call EXCEPT ![r] = NoCall]
  /\ UNCHANGED <<expired, cancel, outcome>>

\* A failed call leaves the lane, and ends its request or backs off.
BugHandleForever(r) ==
  /\ pc[r] = "calling" /\ call[r].at = "failed" /\ r \notin cancel
  /\ LET kind == Classify(call[r].error) IN
       \/ kind = "retry" /\ r \notin expired /\ Backoff(r)
       \/ kind = "retry" /\ r \in expired /\ Backoff(r)
       \/ kind # "retry" /\ End(r, kind)
  /\ UNCHANGED queue
BugHandleKind(r) ==
  /\ pc[r] = "calling" /\ call[r].at = "failed" /\ r \notin cancel
  /\ LET kind == Classify(call[r].error) IN
       \/ kind = "retry" /\ r \notin expired /\ Backoff(r)
       \/ kind = "retry" /\ r \in expired /\ End(r, kind)
       \/ kind # "retry" /\ End(r, kind)
  /\ UNCHANGED queue
BugHandleCancelled(r) ==
  /\ pc[r] = "calling" /\ call[r].at = "failed"
  /\ LET kind == Classify(call[r].error) IN
       \/ kind = "retry" /\ r \notin expired /\ Backoff(r)
       \/ kind = "retry" /\ r \in expired /\ End(r, "parked")
       \/ kind # "retry" /\ End(r, kind)
  /\ UNCHANGED queue
Handle(r) ==
  /\ pc[r] = "calling" /\ call[r].at = "failed" /\ r \notin cancel
  /\ LET kind == Classify(call[r].error) IN
       \/ kind = "retry" /\ r \notin expired /\ Backoff(r)
       \/ kind = "retry" /\ r \in expired /\ End(r, "parked")
       \/ kind # "retry" /\ End(r, kind)
  /\ UNCHANGED queue

\* The backoff is over: the request goes to the back of its lane.
Wake(r) ==
  /\ pc[r] = "sleeping" /\ r \notin cancel
  /\ pc' = [pc EXCEPT ![r] = "queued"]
  /\ Enqueue(r)
  /\ UNCHANGED <<call, expired, cancel, outcome>>

\* A cancellation that finds the call unfinished, or failed, cancels it and
\* waits for it to be over before it leaves the lane.
BugAbort(r) ==
  /\ pc[r] = "calling" /\ r \in cancel /\ call[r].at \in {"flying", "failed"}
  /\ pc' = [pc EXCEPT ![r] = "ended"]
  /\ outcome' = [outcome EXCEPT ![r] = "abandoned"]
  /\ UNCHANGED <<queue, call, expired, cancel>>
BugAbortCompleted(r) ==
  /\ pc[r] = "calling" /\ r \in cancel
  /\ pc' = [pc EXCEPT ![r] = "aborting"]
  /\ UNCHANGED <<queue, call, expired, cancel, outcome>>
Abort(r) ==
  /\ pc[r] = "calling" /\ r \in cancel /\ call[r].at \in {"flying", "failed"}
  /\ pc' = [pc EXCEPT ![r] = "aborting"]
  /\ UNCHANGED <<queue, call, expired, cancel, outcome>>

Aborted(r) ==
  /\ pc[r] = "aborting" /\ call[r].at # "flying"
  /\ End(r, "abandoned") /\ UNCHANGED queue

\* A cancellation at any other await ends the request there.
Abandon(r) ==
  /\ r \in cancel
  /\ \/ pc[r] \in {"budget", "sleeping"} /\ UNCHANGED queue
     \/ pc[r] = "queued" /\ Leave(r)
  /\ End(r, "abandoned")

\* The server, the transport or the client's own timeout ends a call.
CallEnds(r) ==
  /\ call[r] = Flying
  /\ \E how \in {Completed} \cup {Failed(e) : e \in Errors} :
       call' = [call EXCEPT ![r] = how]
  /\ UNCHANGED <<pc, queue, expired, cancel, outcome>>

\* The retry window runs from the first time the request asks for its lane.
Expire(r) ==
  /\ pc[r] \notin {"budget", "ended"} /\ r \notin expired
  /\ expired' = expired \cup {r}
  /\ UNCHANGED <<pc, queue, call, cancel, outcome>>

\* The caller's task is cancelled (by a sibling's acceptance, STOP or a failure).
Cancel(r) ==
  /\ pc[r] # "ended" /\ r \notin cancel
  /\ cancel' = cancel \cup {r}
  /\ UNCHANGED <<pc, queue, call, expired, outcome>>

Step(r) ==
  \/ Submit(r) \/ Acquire(r) \/ Return(r) \/ Handle(r) \/ Wake(r)
  \/ Abort(r) \/ Aborted(r) \/ Abandon(r)

\* Every request has ended and the process goes on with its answers.
Quiet == (\A r \in Requests : pc[r] = "ended") /\ UNCHANGED vars

Next == (\E r \in Requests : Step(r) \/ CallEnds(r) \/ Expire(r) \/ Cancel(r)) \/ Quiet

Spec == Init /\ [][Next]_vars

\* The event loop runs whatever is ready, endpoint.timeout_s ends every call,
\* and the clock reaches the end of every retry window.
Fairness == \A r \in Requests : WF_vars(Step(r)) /\ WF_vars(CallEnds(r)) /\ WF_vars(Expire(r))

FairSpec == Spec /\ Fairness

----------------------------------------------------------------------------
(* Properties *)

\* Every variable keeps its type; a request waits in its own lane only.
TypeOK ==
  /\ pc \in [Requests -> {"budget", "queued", "calling", "aborting", "sleeping", "ended"}]
  /\ queue \in [Lanes -> Seq(Requests)]
  /\ call \in [Requests -> CallType]
  /\ expired \subseteq Requests
  /\ cancel \subseteq Requests
  /\ outcome \in [Requests -> {"pending", "returned", "parked", "fatal", "abandoned"}]

\* However requests fail, retry and are cancelled, a lane never has more calls
\* on the wire than its width, those being cancelled included (client.py:280).
CallsWithinLane ==
  \A l \in Lanes :
    Cardinality({r \in Requests : LaneOf[r] = l /\ call[r] = Flying}) <= Width[l]

\* Every call on the wire asks for at least one token, and its prompt, budget
\* and margin fit the model's context whenever the prompt could be counted.
CallsFitContext ==
  \A r \in Requests :
    call[r] # NoCall =>
      /\ Effective(r) \in 1..MaxTokens
      /\ Prompt[r] # Unknown => Prompt[r] + Effective(r) + Margin <= MaxLen

\* A call whose response has arrived is never thrown away: the request returns
\* it, cancelled or not, unless the cancellation came first (client.py:275).
ArrivedIsReturned ==
  [][\A r \in Requests :
       call[r] = Completed /\ pc[r] = "calling" /\ <<call[r], pc[r]>>' # <<call[r], pc[r]>>
         => outcome'[r] = "returned"]_vars

\* What the callers rely on: see RequestContract.
Contract == INSTANCE RequestContract WITH
  Requests <- Requests, outcome <- outcome, cancel <- cancel
ImplementsContract == Contract!Spec

\* Every request ends: retries stop with the window, and no request is passed
\* over for ever by others of its lane.
EveryRequestEnds == \A r \in Requests : <>(outcome[r] # "pending")

\* The claim of client.py:17 and of the README: a transient failure is parked
\* only once the retry window has elapsed.
TransientIsRetried ==
  [][\A r \in Requests :
       call[r].at = "failed" /\ outcome'[r] = "parked"
         => ~Transient(call[r].error) \/ r \in expired]_vars
=============================================================================
