-------------------------------- MODULE Search --------------------------------
(***************************************************************************)
(* What the search of one problem promises those who read its outcome (the *)
(* driver's rows and the final selection), without pipelines, requests,    *)
(* rows or cancellations: grades are only ever added, a checkpoint wins    *)
(* once and with full marks that can be read back, it finds nothing new    *)
(* afterwards, and the outcome is a function of the grades of what was     *)
(* found.  Orchestrator implements it.                                     *)
(***************************************************************************)
EXTENDS Integers

CONSTANTS
  Checkpoints, Texts, Rounds,
  Full,    \* the points of a proof every judgment of which is one
  NoText   \* a checkpoint without a winner

VARIABLES
  graded,  \* on disk: <<round, text, points>> of each panel that is complete
  found,   \* who found a text and in which round; <<0, 0>>: nobody yet
  winner,  \* the accepted proof of each checkpoint
  result   \* status and finalists

vars == <<graded, found, winner, result>>

Unfound == <<0, 0>>
Nobody  == [c \in Checkpoints |-> NoText]
Pending == [status |-> "none", finalists |-> Nobody]

\* The launch's proofs with a complete panel, and their points.
Candidates == {<<g[2], g[3]>> : g \in {h \in graded : h[1] = found[h[2]][2]}}

Init ==
  /\ graded = {}
  /\ found = [x \in Texts |-> Unfound] /\ winner = Nobody /\ result = Pending

\* A text is found by a checkpoint that has not won.
Find(x, c, r) ==
  /\ found[x] = Unfound /\ winner[c] = NoText
  /\ found' = [found EXCEPT ![x] = <<c, r>>]
  /\ UNCHANGED <<graded, winner, result>>

\* The panel of a text that was found gets its last vote; no panel is graded twice.
Grade(x, n) ==
  /\ found[x] # Unfound
  /\ \A g \in graded : ~(g[1] = found[x][2] /\ g[2] = x)
  /\ graded' = graded \cup {<<found[x][2], x, n>>}

\* The text's checkpoint wins, at the moment of the last vote or later.
Win(x) ==
  /\ found[x] # Unfound /\ winner[found[x][1]] = NoText
  /\ Grade(x, Full) \/ UNCHANGED graded
  /\ <<found[x][2], x, Full>> \in graded'
  /\ winner' = [winner EXCEPT ![found[x][1]] = x]
  /\ UNCHANGED <<found, result>>

Ends(status, list) ==
  /\ result = Pending
  /\ result' = [status |-> status, finalists |-> list]
  /\ UNCHANGED <<graded, found, winner>>

EndAccepted == winner # Nobody /\ Ends("accepted", winner)

\* Without a winner nothing with full marks was passed over, and the fallback
\* has the most points.
EndFallback ==
  /\ winner = Nobody
  /\ \E best \in Candidates :
       /\ \A other \in Candidates : other[2] <= best[2] /\ other[2] # Full
       /\ Ends("fallback", [Nobody EXCEPT ![found[best[1]][1]] = best[1]])

EndEmpty == winner = Nobody /\ Candidates = {} /\ Ends("no_candidates", Nobody)

\* The process is gone, and with it all but what is on disk.
Restart ==
  /\ found' = [x \in Texts |-> Unfound] /\ winner' = Nobody /\ result' = Pending
  /\ UNCHANGED graded

Next ==
  \/ \E x \in Texts, c \in Checkpoints, r \in Rounds : Find(x, c, r)
  \/ \E x \in Texts, n \in 0..Full : Grade(x, n) /\ UNCHANGED <<found, winner, result>>
  \/ \E x \in Texts : Win(x)
  \/ EndAccepted \/ EndFallback \/ EndEmpty \/ Restart

Spec == Init /\ [][Next]_vars
=============================================================================
