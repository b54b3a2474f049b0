------------------------------- MODULE Critiques -------------------------------
(***************************************************************************)
(* scoring.py, retain_critiques: which judgments of a complete panel a     *)
(* refinement prompt quotes.  Batches of one judgment of each verifier, by *)
(* seed, until there are enough or a verifier has none left.  A step is    *)
(* one verifier's turn in a batch.                                         *)
(*                                                                         *)
(* Names that start with Bug are variants of the definition that follows   *)
(* them, as a plausible mistake in the code would write it.                *)
(***************************************************************************)
EXTENDS Integers, Sequences, FiniteSets, FiniteSetsExt

CONSTANTS
  NumVerifiers,  \* the verifiers, in configuration order
  Scores,        \* the scores of valid judgments
  MaxCritiques,  \* MAX_CRITIQUES
  PerScore       \* MAX_CRITIQUES_PER_SCORE

ASSUME CritiqueAssumption == {NumVerifiers, MaxCritiques, PerScore} \subseteq Nat \ {0}

Verifiers == 1..NumVerifiers

VARIABLES
  state,     \* "idle", "choosing", "chosen"
  queues,    \* each verifier's scores, by seed
  place,     \* how far each verifier's queue has been used by finished batches
  reached,   \* the same in this batch, for the verifiers that had their turn
  selected,  \* <<verifier, place>> of what finished batches have taken
  batch,     \* the same of this batch
  turn       \* the verifier whose turn it is

critiqueVars == <<state, queues, place, reached, selected, batch, turn>>

PerVerifier == MaxCritiques \div NumVerifiers
ScoreOf(c) == queues[c[1]][c[2]]
AllScores == UNION {{queues[v][p] : p \in DOMAIN queues[v]} : v \in Verifiers}
ScoreLimit == IF Cardinality(AllScores) = 1 THEN MaxCritiques ELSE PerScore
Of(chosen, v) == {c \in chosen : c[1] = v}
With(chosen, s) == {c \in chosen : ScoreOf(c) = s}

BugCounted(s) == Cardinality(With(selected, s))
Counted(s) == Cardinality(With(selected \cup batch, s))

\* The judgments a verifier may still give: behind those it went past, and not
\* of a score there are enough of.
Eligible(v) == {p \in DOMAIN queues[v] : p > place[v] /\ Counted(queues[v][p]) < ScoreLimit}

Choose(votes) ==
  /\ state \in {"idle", "chosen"}
  /\ queues' = votes
  /\ place' = [v \in Verifiers |-> 0] /\ reached' = place'
  /\ selected' = {} /\ batch' = {} /\ turn' = 1
  /\ state' = IF PerVerifier = 0 THEN "chosen" ELSE "choosing"

Pick ==
  /\ state = "choosing" /\ Eligible(turn) # {} /\ turn < NumVerifiers
  /\ LET p == Min(Eligible(turn)) IN
       /\ batch' = batch \cup {<<turn, p>>}
       /\ reached' = [reached EXCEPT ![turn] = p]
  /\ turn' = turn + 1
  /\ UNCHANGED <<state, queues, place, selected>>

\* The last verifier completes the batch, and all of it counts.
PickLast ==
  /\ state = "choosing" /\ Eligible(turn) # {} /\ turn = NumVerifiers
  /\ LET p == Min(Eligible(turn)) IN
       /\ selected' = selected \cup batch \cup {<<turn, p>>}
       /\ place' = [reached EXCEPT ![turn] = p]
  /\ reached' = place' /\ batch' = {} /\ turn' = 1
  /\ state' = IF Cardinality(selected') = PerVerifier * NumVerifiers THEN "chosen" ELSE "choosing"
  /\ UNCHANGED queues

\* A verifier has none left: what the others gave to this batch is dropped.
BugRunOut ==
  /\ state = "choosing" /\ Eligible(turn) = {}
  /\ selected' = selected \cup batch
  /\ state' = "chosen"
  /\ UNCHANGED <<queues, place, reached, batch, turn>>
RunOut ==
  /\ state = "choosing" /\ Eligible(turn) = {}
  /\ state' = "chosen"
  /\ UNCHANGED <<queues, place, reached, selected, batch, turn>>

CritiquesInit ==
  /\ state = "idle"
  /\ queues = [v \in Verifiers |-> <<>>]
  /\ place = [v \in Verifiers |-> 0] /\ reached = place
  /\ selected = {} /\ batch = {} /\ turn = 1

CritiquesStep == Pick \/ PickLast \/ RunOut

CritiquesSpec ==
  CritiquesInit /\ [][CritiquesStep \/ \E votes \in [Verifiers -> Seq(Scores)] : Choose(votes)]_critiqueVars

-----------------------------------------------------------------------------
(* Properties *)

\* A refinement prompt quotes equally many judgments of every verifier, no more
\* than fit, and not too many of one score when scores differ; unless there are
\* more verifiers than that, it quotes some (scoring.py:70-116).
RetainedIsBalanced ==
  state = "chosen" =>
    /\ \A v, u \in Verifiers : Cardinality(Of(selected, v)) = Cardinality(Of(selected, u))
    /\ Cardinality(selected) <= MaxCritiques
    /\ \A s \in AllScores : Cardinality(With(selected, s)) <= ScoreLimit
    /\ NumVerifiers <= PerScore /\ PerScore <= MaxCritiques /\ (\A v \in Verifiers : queues[v] # <<>>)
         => selected # {}

=============================================================================
