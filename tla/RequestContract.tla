--------------------------- MODULE RequestContract ---------------------------
(***************************************************************************)
(* What the search and the final selection rely on when they await         *)
(* layer.request(...): a request ends once, with a response, parked, fatal *)
(* or abandoned; and from the moment its caller is cancelled it is either  *)
(* abandoned or, when the response had already arrived, returned.          *)
(***************************************************************************)
CONSTANT Requests

VARIABLES
  outcome,   \* how each request has ended, "pending" until it has
  cancel     \* the requests whose caller has been cancelled

Init ==
  /\ outcome = [r \in Requests |-> "pending"]
  /\ cancel = {}

Cancel(r) ==
  /\ r \notin cancel
  /\ outcome[r] = "pending"
  /\ cancel' = cancel \cup {r}
  /\ UNCHANGED outcome

End(r, how) ==
  /\ outcome[r] = "pending"
  /\ outcome' = [outcome EXCEPT ![r] = how]
  /\ UNCHANGED cancel

Return(r) == End(r, "returned")

\* A failure is the caller's business only while the caller still listens.
Fail(r) == r \notin cancel /\ (End(r, "parked") \/ End(r, "fatal"))

Abandon(r) == r \in cancel /\ End(r, "abandoned")

Next == \E r \in Requests : Cancel(r) \/ Return(r) \/ Fail(r) \/ Abandon(r)

Spec == Init /\ [][Next]_<<outcome, cancel>>
=============================================================================
