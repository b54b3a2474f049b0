------------------------------- MODULE Records -------------------------------
(***************************************************************************)
(* One proof's verifier panel over launches (orchestrator.py _verify_proof,*)
(* with resume.py and scoring.py): votes are looked up or requested, and   *)
(* once all are valid some are retained for refinement prompts.            *)
(***************************************************************************)
EXTENDS Ledger, Critiques

CONSTANTS
  NumSeeds,  \* judgments_per_proof
  Nothing    \* no prompt yet

\* The identities of the panel's votes; any others in Ids just share the ledger.
Votes == Verifiers \X (1..NumSeeds)
ASSUME VoteAssumption == NumSeeds \in Nat \ {0} /\ Votes \subseteq Ids /\ Scores \cap Truncated = {}

VARIABLES
  prompt  \* the votes and the critiques that launches have refined the proof with

vars == <<ledgerVars, critiqueVars, prompt>>

\* The rows of a panel are appended in the order of its requests.
InOrder(i) ==
  i \in Votes => \A j \in Votes : fresh[j] # NoRow => j[1] < i[1] \/ (j[1] = i[1] /\ j[2] < i[2])

PanelIn == main = "running" /\ \A i \in Votes : ~Needed(i)

\* A panel with an invalid vote has no critiques.
Judge ==
  /\ PanelIn /\ state = "idle"
  /\ \A i \in Votes : Answer(i).says \in Scores
  /\ Choose([v \in Verifiers |-> [p \in 1..NumSeeds |-> Answer(<<v, p>>).says]])
  /\ UNCHANGED <<ledgerVars, prompt>>

Retain == main = "running" /\ CritiquesStep /\ UNCHANGED <<ledgerVars, prompt>>

\* The next round's prompt.
Refine ==
  /\ main = "running" /\ state = "chosen" /\ prompt = Nothing
  /\ prompt' = [queues |-> queues, selected |-> selected]
  /\ UNCHANGED <<ledgerVars, critiqueVars>>

\* What was being retained is forgotten with the process.
Forget ==
  /\ state' = "idle"
  /\ queues' = [v \in Verifiers |-> <<>>]
  /\ place' = [v \in Verifiers |-> 0] /\ reached' = place'
  /\ selected' = {} /\ batch' = {} /\ turn' = 1

Init == LedgerInit /\ CritiquesInit /\ prompt = Nothing

Next ==
  \/ Judge \/ Retain \/ Refine
  \/ /\ state = "idle" /\ (Scan \/ \E i \in Ids, reply \in Replies :
                            InOrder(i) /\ (Receive(i, reply) \/ CutShort(i, reply)))
     /\ UNCHANGED <<critiqueVars, prompt>>
  \/ End /\ Forget /\ UNCHANGED prompt
  \/ Relaunch /\ UNCHANGED <<critiqueVars, prompt>>

Spec == Init /\ [][Next]_vars

\* Every later launch, of whichever version, comes to the prompt that the first
\* one to refine the proof has sent, as long as no row ran into an unfinished line:
\* its votes are replayed from the rows that fed it (resume.py:132-141).
PromptIsRepeatable ==
  state = "chosen" /\ prompt # Nothing /\ ~merged =>
    prompt = [queues |-> queues, selected |-> selected]

=============================================================================
