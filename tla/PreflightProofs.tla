--------------------------- MODULE PreflightProofs ---------------------------
(***************************************************************************)
(* Types, and that a run directory is pinned to one experiment, for any    *)
(* inputs, settings and number of launches.  What makes RunIsPinned        *)
(* inductive is the hash in the run manifest: no launch and no edit changes *)
(* it, and a launch that gets past the manifest holds what was hashed.     *)
(* Then: configurations with the same keys ask for the same, refusals have *)
(* causes, and the derived counts are the counts of what is asked for.     *)
(***************************************************************************)
EXTENDS Preflight, FiniteSetTheorems, WellFoundedInduction, TLAPS

IInv ==
  /\ TypeOK
  /\ main \in Steps => config \in Accepted
  /\ main \in {"frozen", "loaded", "checked", "pinned"} => sha \in FileType /\ sha.rows = source
  /\ main \in {"loaded", "checked", "pinned"} => prompts \in Versions
  /\ main \in {"checked", "pinned"} => doc \in Versions
  /\ main = "pinned" => runManifest # NoFile /\ runManifest.hash = Pin
  /\ \A a \in ran :
       /\ runManifest # NoFile /\ a.config \in Accepted
       /\ a.rows = runManifest.hash.input.rows
       /\ a.hashed = runManifest.hash.prompts
       /\ KeysOf[a.config] = runManifest.hash.keys

\* What write_jsonl leaves behind is a file of problems.
LEMMA PrefixIsFile ==
  ASSUME NEW s \in Seq(Problems), NEW f \in Prefixes(s)
  PROVE  f \in FileType
<1>1. PICK k \in 0..Len(s) : f.rows = SubSeq(s, 1, k)
  BY DEF Prefixes
<1>2. SubSeq(s, 1, k) \in Seq(Problems)
  BY <1>1
<1> QED BY <1>1, <1>2 DEF Prefixes, FileType

\* The keys of an accepted configuration (config.py:367-397).
LEMMA KeysType == ASSUME NEW d \in Accepted PROVE KeysOf[d] \in Keys
  BY DEF Keys

\* The identity a launch pins has its type (manifest.py:129-135).
LEMMA PinType == IInv /\ main \in {"checked", "pinned"} => Pin \in Pins
  BY KeysType DEF IInv, Pin, Pins, Steps

\* A manifest is not the absence of one.
LEMMA ManifestIsFile == ASSUME NEW m \in Manifests PROVE m # NoFile
  BY NoFileAssumption

LEMMA InitInv == Init => IInv
<1> SUFFICES ASSUME Init PROVE IInv
  OBVIOUS
<1>1. TypeOK
  BY DEF Init, TypeOK, Ends
<1>2. main = "new" /\ main \notin Steps /\ ran = {}
  BY DEF Init, Steps
<1> QED BY <1>1, <1>2 DEF IInv

LEMMA NextInv == IInv /\ [Next]_vars => IInv'
<1> SUFFICES ASSUME IInv, [Next]_vars PROVE IInv'
  OBVIOUS
<1> USE DEF IInv
<1>1. CASE Launch
  <2>1. main' \in {"configured", "invalid"} /\ (main' = "configured" => config \in Accepted)
    BY <1>1 DEF Launch, Usable, Accepted, TypeOK
  <2> QED BY <1>1, <2>1 DEF Launch, TypeOK, Steps, Ends, files, pinned, memory, history
<1>2. CASE InvalidInput
  BY <1>2 DEF InvalidInput, End, TypeOK, Steps, Ends, files, pinned, history
<1>3. CASE Freeze
  <2>1. frozen' \in FileType
    BY <1>3, InputAssumption DEF Freeze, FileType, Tails, TypeOK
  <2> QED BY <1>3, <2>1 DEF Freeze, TypeOK, Steps, Ends, files, history
<1>4. CASE FreezeCut
  <2>1. frozen' \in FileType
    BY <1>4, PrefixIsFile, InputAssumption DEF FreezeCut, TypeOK
  <2> QED BY <1>4, <2>1 DEF FreezeCut, End, TypeOK, Steps, Ends, files
<1>5. CASE FreezeVerify
  BY <1>5 DEF FreezeVerify, End, TypeOK, Steps, Ends, files, pinned, history
<1>6. CASE LoadPrompts
  BY <1>6 DEF LoadPrompts, TypeOK, Steps, Ends, files, pinned, history
<1>7. CASE PinPrompts
  BY <1>7 DEF PinPrompts, End, TypeOK, Steps, Ends, files, history
<1>8. CASE PinRun
  <2>1. UNCHANGED <<files, frozen, promptManifest, launches, history>> /\ main = "checked"
    BY <1>8 DEF PinRun
  <2>2. Pin \in Pins
    BY <2>1, PinType
  <2>3. CASE runManifest = NoFile
    <3>1. runManifest' = [keys |-> Pin, hash |-> Pin] /\ main' = "pinned" /\ UNCHANGED memory
      BY <1>8, <2>3 DEF PinRun
    <3>2. runManifest' \in Manifests /\ runManifest'.hash = Pin /\ Pin' = Pin
      BY <2>1, <3>1, <2>2 DEF Manifests, Pin, memory, files
    <3>3. ran' = {}
      BY <2>1, <2>3 DEF history, TypeOK
    <3> QED BY <2>1, <3>1, <3>2, <3>3, ManifestIsFile DEF TypeOK, Steps, files, memory, history
  <2>4. CASE runManifest # NoFile /\ main' = "pinned"
    <3>1. runManifest' = runManifest /\ UNCHANGED memory /\ runManifest.hash = Pin
      BY <1>8, <2>4 DEF PinRun, End
    <3>2. Pin' = Pin
      BY <2>1, <3>1 DEF Pin, memory, files
    <3> QED BY <2>1, <2>4, <3>1, <3>2 DEF TypeOK, Steps, files, memory, history
  <2>5. CASE runManifest # NoFile /\ main' # "pinned"
    <3>1. runManifest' = runManifest /\ End("refused")
      BY <1>8, <2>5 DEF PinRun
    <3> QED BY <2>1, <3>1 DEF End, TypeOK, Steps, Ends, files, history
  <2> QED BY <2>3, <2>4, <2>5
<1>9. CASE Run
  <2>1. runManifest.hash = [input |-> sha, prompts |-> doc, keys |-> KeysOf[config]] /\ sha.rows = source
    BY <1>9 DEF Run, Pin
  <2> QED BY <1>9, <2>1 DEF Run, End, TypeOK, Steps, Ends, files, pinned
<1>10. CASE Skip
  BY <1>10 DEF Skip, End, TypeOK, Steps, Ends, files, pinned, history
<1>11. CASE Crash
  BY <1>11 DEF Crash, End, TypeOK, Steps, Ends, files, pinned, history
<1>12. CASE EditFree
  <2>1. config' \in Documents /\ main \notin Steps
    BY <1>12 DEF EditFree, Accepted, Steps, Ends
  <2> QED BY <1>12, <2>1 DEF EditFree, TypeOK, Steps, pinned, memory, history
<1>13. CASE EditExperiment
  <2>1. config' \in Documents /\ source' \in Inputs /\ promptFiles' \in Versions
    BY <1>13 DEF EditExperiment, TypeOK
  <2>2. main \in Steps => config' = config /\ source' = source
    BY <1>13 DEF EditExperiment, Steps, Ends
  <2>3. UNCHANGED <<pinned, main, memory, launches, ran, torn>> /\ touched' = TRUE
    BY <1>13 DEF EditExperiment
  <2>4. main = "pinned" => Pin' = Pin
    BY <2>2, <2>3 DEF Pin, memory, Steps
  <2> QED BY <2>1, <2>2, <2>3, <2>4 DEF TypeOK, Steps, pinned, memory
<1>14. CASE EditPinned
  <2>1. UNCHANGED <<files, main, memory, launches, ran, torn>> /\ touched' = TRUE
    BY <1>14 DEF EditPinned
  <2>2. /\ frozen' \in {frozen, NoFile} /\ promptManifest' \in {promptManifest, NoFile}
    BY <1>14 DEF EditPinned
  <2>3. CASE runManifest' = runManifest
    BY <2>1, <2>2, <2>3 DEF TypeOK, files, memory, Pin
  <2>4. CASE /\ runManifest # NoFile /\ config \in Accepted
             /\ runManifest' = [runManifest EXCEPT !.keys.keys = KeysOf[config]]
    <3>1. runManifest \in Manifests
      BY <2>4 DEF TypeOK
    <3>2. runManifest' \in Manifests /\ runManifest'.hash = runManifest.hash
      BY <2>4, <3>1, KeysType DEF Manifests, Pins
    <3> QED BY <2>1, <2>2, <3>2, ManifestIsFile DEF TypeOK, files, memory, Pin
  <2> QED BY <1>14, <2>3, <2>4 DEF EditPinned
<1>15. CASE UNCHANGED vars
  BY <1>15 DEF vars, TypeOK, files, pinned, memory, history, Pin
<1> QED
  BY <1>1, <1>2, <1>3, <1>4, <1>5, <1>6, <1>7, <1>8, <1>9, <1>10, <1>11, <1>12, <1>13, <1>14, <1>15
  DEF Next, Check

\* The inductive invariant holds in every reachable state.
THEOREM PreflightInvariant == Spec => []IInv
  BY InitInv, NextInv, PTL DEF Spec

\* Every variable of the preflight keeps its type.
THEOREM PreflightTypes == Spec => []TypeOK
<1>1. IInv => TypeOK
  BY DEF IInv
<1> QED BY PreflightInvariant, <1>1, PTL

\* One run directory, one experiment: no launch that gets to the driver computes
\* with other problems, settings or prompt hashes than another (manifest.py:138-175).
THEOREM OneExperiment == Spec => []RunIsPinned
<1>1. IInv => RunIsPinned
  BY DEF IInv, RunIsPinned
<1> QED BY PreflightInvariant, <1>1, PTL

-----------------------------------------------------------------------------
(* Configurations with the same keys ask for the same. *)

\* Lists with the same keys have entries that agree in all that a request is made of.
LEMMA SpecsAgree ==
  ASSUME NEW E, NEW F, SpecKeys(E) = SpecKeys(F), NEW c \in EntriesOf(E)
  PROVE  \E f \in EntriesOf(F) :
           /\ f.id.parts = c.id.parts /\ f.model = c.model
           /\ f.max_len = c.max_len /\ f.max_tokens = c.max_tokens /\ f.counts = c.counts
<1>1. PICK i \in DOMAIN E : c = E[i]
  BY DEF EntriesOf
<1>2. DOMAIN E = DOMAIN F
  BY DEF SpecKeys
<1>3. SpecKeys(E)[i] = [id |-> E[i].id.parts, model |-> E[i].model, max_len |-> E[i].max_len,
                        max_tokens |-> E[i].max_tokens, counts |-> E[i].counts]
  BY <1>1 DEF SpecKeys
<1>4. SpecKeys(F)[i] = [id |-> F[i].id.parts, model |-> F[i].model, max_len |-> F[i].max_len,
                        max_tokens |-> F[i].max_tokens, counts |-> F[i].counts]
  BY <1>1, <1>2 DEF SpecKeys
<1>5. F[i] \in EntriesOf(F)
  BY <1>1, <1>2 DEF EntriesOf
<1> QED BY <1>1, <1>3, <1>4, <1>5

\* The parameters outside the lists, too, are those of the keys.
LEMMA ParametersAgree ==
  ASSUME NEW d, NEW e, ExperimentKeys(d) = ExperimentKeys(e)
  PROVE  /\ SpecKeys(d.checkpoints) = SpecKeys(e.checkpoints)
         /\ SpecKeys(d.verifiers) = SpecKeys(e.verifiers)
         /\ d.search = e.search
         /\ Optional(d.sampling, DefaultSampling) = Optional(e.sampling, DefaultSampling)
         /\ Optional(d.endpoint.extra_body, {}) = Optional(e.endpoint.extra_body, {})
         /\ BudgetKeys(d.context_budget) = BudgetKeys(e.context_budget)
  BY DEF ExperimentKeys

LEMMA SentAgree ==
  ASSUME NEW d, NEW e, ExperimentKeys(d) = ExperimentKeys(e), NEW c, NEW f, NEW identity,
         f.model = c.model, f.max_len = c.max_len, f.max_tokens = c.max_tokens
  PROVE  Sent(d, c, identity) = Sent(e, f, identity)
  BY ParametersAgree DEF Sent

\* A request of one configuration is one of the other.
LEMMA GenerationsAgree ==
  ASSUME NEW d, NEW e, ExperimentKeys(d) = ExperimentKeys(e)
  PROVE  Generations(d) \subseteq Generations(e)
<1> SUFFICES ASSUME NEW r \in Generations(d) PROVE r \in Generations(e)
  OBVIOUS
<1>1. PICK c \in EntriesOf(d.checkpoints), p \in Prompts(d) :
        \E s \in Slots(c, 1) : r = Sent(d, c, GenIdentity(p, c.id.parts, s))
  BY DEF Generations
<1>2. PICK f \in EntriesOf(e.checkpoints) :
        /\ f.id.parts = c.id.parts /\ f.model = c.model
        /\ f.max_len = c.max_len /\ f.max_tokens = c.max_tokens /\ f.counts = c.counts
  BY SpecsAgree, ParametersAgree
<1>3. PICK s \in Slots(c, 1) : r = Sent(d, c, GenIdentity(p, c.id.parts, s))
  BY <1>1
<1>4. r = Sent(e, f, GenIdentity(p, f.id.parts, s))
  BY <1>2, <1>3, SentAgree
<1>5. p \in Prompts(e) /\ s \in Slots(f, 1)
  BY <1>1, <1>2, ParametersAgree DEF Prompts, Slots
<1> QED BY <1>2, <1>4, <1>5 DEF Generations

LEMMA RefinementsAgree ==
  ASSUME NEW d, NEW e, ExperimentKeys(d) = ExperimentKeys(e)
  PROVE  Refinements(d) \subseteq Refinements(e)
<1> SUFFICES ASSUME NEW r \in Refinements(d) PROVE r \in Refinements(e)
  OBVIOUS
<1>1. PICK c \in EntriesOf(d.checkpoints), t \in 0..(d.search.refinement_prompts_per_round - 1) :
        \E s \in Slots(c, 2) : r = Sent(d, c, RefineIdentity(t, c.id.parts, s))
  BY DEF Refinements
<1>2. PICK f \in EntriesOf(e.checkpoints) :
        /\ f.id.parts = c.id.parts /\ f.model = c.model
        /\ f.max_len = c.max_len /\ f.max_tokens = c.max_tokens /\ f.counts = c.counts
  BY SpecsAgree, ParametersAgree
<1>3. PICK s \in Slots(c, 2) : r = Sent(d, c, RefineIdentity(t, c.id.parts, s))
  BY <1>1
<1>4. r = Sent(e, f, RefineIdentity(t, f.id.parts, s))
  BY <1>2, <1>3, SentAgree
<1>5. t \in 0..(e.search.refinement_prompts_per_round - 1) /\ s \in Slots(f, 2)
  BY <1>1, <1>2, ParametersAgree DEF Slots
<1> QED BY <1>2, <1>4, <1>5 DEF Refinements

LEMMA PanelsAgree ==
  ASSUME NEW d, NEW e, ExperimentKeys(d) = ExperimentKeys(e), NEW E, NEW F, SpecKeys(E) = SpecKeys(F)
  PROVE  Panel(d, E) \subseteq Panel(e, F)
<1> SUFFICES ASSUME NEW r \in Panel(d, E) PROVE r \in Panel(e, F)
  OBVIOUS
<1>1. PICK c \in EntriesOf(E) :
        \E s \in Slots(c, 1) : r = Sent(d, c, PanelIdentity(c.id.parts, s))
  BY DEF Panel
<1>2. PICK f \in EntriesOf(F) :
        /\ f.id.parts = c.id.parts /\ f.model = c.model
        /\ f.max_len = c.max_len /\ f.max_tokens = c.max_tokens /\ f.counts = c.counts
  BY SpecsAgree
<1>3. PICK s \in Slots(c, 1) : r = Sent(d, c, PanelIdentity(c.id.parts, s))
  BY <1>1
<1>4. r = Sent(e, f, PanelIdentity(f.id.parts, s))
  BY <1>2, <1>3, SentAgree
<1>5. s \in Slots(f, 1)
  BY <1>1, <1>2 DEF Slots
<1> QED BY <1>2, <1>4, <1>5 DEF Panel

LEMMA OrderAgrees ==
  ASSUME NEW E, NEW F, SpecKeys(E) = SpecKeys(F)
  PROVE  [i \in DOMAIN E |-> E[i].id.parts] = [i \in DOMAIN F |-> F[i].id.parts]
<1>1. DOMAIN E = DOMAIN F
  BY DEF SpecKeys
<1>2. ASSUME NEW i \in DOMAIN E PROVE E[i].id.parts = F[i].id.parts
  <2>1. SpecKeys(E)[i].id = E[i].id.parts /\ SpecKeys(F)[i].id = F[i].id.parts
    BY <1>1, <1>2 DEF SpecKeys
  <2> QED BY <2>1
<1> QED BY <1>1, <1>2

\* Accepted configurations with the same keys ask for the same work (config.py:367-397).
LEMMA WorkAgrees ==
  ASSUME NEW d \in Accepted, NEW e \in Accepted, ExperimentKeys(d) = ExperimentKeys(e)
  PROVE  Work(d) = Work(e)
<1>1. Generations(d) = Generations(e)
  BY GenerationsAgree
<1>2. Refinements(d) = Refinements(e)
  BY RefinementsAgree
<1>3. Panel(d, d.verifiers) = Panel(e, e.verifiers)
  <2>1. SpecKeys(d.verifiers) = SpecKeys(e.verifiers)
    BY ParametersAgree
  <2> QED BY <2>1, PanelsAgree
<1>4. (IF Given(d.judges) THEN Panel(d, d.judges) ELSE {}) = (IF Given(e.judges) THEN Panel(e, e.judges) ELSE {})
  <2>1. (IF Given(d.judges) THEN SpecKeys(d.judges) ELSE Null) = (IF Given(e.judges) THEN SpecKeys(e.judges) ELSE Null)
    BY DEF ExperimentKeys
  <2>2. /\ Given(d.judges) => SpecKeys(d.judges) # Null
        /\ Given(e.judges) => SpecKeys(e.judges) # Null
    BY NullAssumption DEF Accepted
  <2>3. Given(d.judges) <=> Given(e.judges)
    BY <2>1, <2>2
  <2>4. CASE Given(d.judges)
    <3>1. SpecKeys(d.judges) = SpecKeys(e.judges)
      BY <2>1, <2>3, <2>4
    <3>2. Panel(d, d.judges) \subseteq Panel(e, e.judges)
      BY <3>1, PanelsAgree
    <3>3. Panel(e, e.judges) \subseteq Panel(d, d.judges)
      BY <3>1, PanelsAgree
    <3> QED BY <2>3, <2>4, <3>2, <3>3
  <2>5. CASE ~Given(d.judges)
    BY <2>3, <2>5
  <2> QED BY <2>4, <2>5
<1>5. [i \in DOMAIN d.checkpoints |-> d.checkpoints[i].id.parts] = [i \in DOMAIN e.checkpoints |-> e.checkpoints[i].id.parts]
  BY ParametersAgree, OrderAgrees
<1>6. d.search.max_rounds = e.search.max_rounds
  BY ParametersAgree
<1> QED BY <1>1, <1>2, <1>3, <1>4, <1>5, <1>6 DEF Work

\* Every launch of a run directory that gets to the driver asks for the same
\* requests, whatever documents the operator can write (manifest.py:138-175).
THEOREM OneDirectoryOneWork == Spec => []SameWork
<1>1. IInv => SameWork
  <2> SUFFICES ASSUME IInv, NEW a \in ran, NEW b \in ran PROVE Work(a.config) = Work(b.config)
    BY DEF SameWork
  <2>1. KeysOf[a.config] = KeysOf[b.config]
    BY DEF IInv
  <2>2. a.config \in Accepted /\ b.config \in Accepted
    BY DEF IInv
  <2>3. ExperimentKeys(a.config) = ExperimentKeys(b.config)
    BY <2>1, <2>2 DEF KeysOf
  <2> QED BY <2>2, <2>3, WorkAgrees
<1> QED BY PreflightInvariant, <1>1, PTL
-----------------------------------------------------------------------------
(* Refusals.  Until the operator touches what defines the experiment or a  *)
(* launch dies while it freezes the input, everything that is pinned is    *)
(* what a launch would pin now, so that no launch is refused.              *)

Whole == [rows |-> source, tail |-> "newline"]

\* What is pinned, and what a launch holds, is what the files say.
PinnedIsCurrent ==
  /\ frozen \in {NoFile, Whole}
  /\ promptManifest \in {NoFile, promptFiles}
  /\ runManifest # NoFile =>
       /\ runManifest.hash = runManifest.keys
       /\ runManifest.hash = [input |-> Whole, prompts |-> promptFiles, keys |-> KeysOf[config]]
  /\ main \in {"frozen", "loaded", "checked", "pinned"} => sha = Whole
  /\ main \in {"checked", "pinned"} => doc = promptFiles
  /\ main # "refused"

\* A row is cut in the frozen input only by a launch that died there.
CutIsTorn ==
  /\ frozen # NoFile /\ frozen.tail = "part" => torn
  /\ main = "traceback" => torn

CauseInv == (touched \/ torn \/ PinnedIsCurrent) /\ CutIsTorn

LEMMA NextCut == CutIsTorn /\ [Next]_vars => CutIsTorn'
<1> SUFFICES ASSUME CutIsTorn, [Next]_vars PROVE CutIsTorn'
  OBVIOUS
<1> USE DEF CutIsTorn
<1>1. CASE Launch
  BY <1>1 DEF Launch, pinned, history
<1>2. CASE InvalidInput \/ Skip \/ Crash \/ Run \/ LoadPrompts
  BY <1>2 DEF InvalidInput, Skip, Crash, Run, LoadPrompts, End, pinned, history
<1>3. CASE Freeze
  <2>1. frozen'.tail = "newline" /\ main' = "frozen" /\ torn' = torn
    BY <1>3 DEF Freeze, history
  <2> QED BY <2>1
<1>4. CASE FreezeCut
  BY <1>4 DEF FreezeCut
<1>5. CASE FreezeVerify
  BY <1>5 DEF FreezeVerify, End, pinned, history
<1>6. CASE PinPrompts \/ PinRun
  <2>1. UNCHANGED <<frozen, torn>> /\ main' # "traceback"
    BY <1>6 DEF PinPrompts, PinRun, End, history
  <2> QED BY <2>1
<1>7. CASE EditFree \/ EditExperiment
  BY <1>7 DEF EditFree, EditExperiment, pinned, history
<1>8. CASE EditPinned
  BY <1>8 DEF EditPinned
<1>9. CASE UNCHANGED vars
  BY <1>9 DEF vars, pinned, history
<1> QED BY <1>1, <1>2, <1>3, <1>4, <1>5, <1>6, <1>7, <1>8, <1>9 DEF Next, Check

\* A step of a launch that nobody interferes with.
LEMMA NextCurrent ==
  ASSUME IInv, PinnedIsCurrent, [Next]_vars, ~touched', ~torn'
  PROVE  PinnedIsCurrent'
<1> USE DEF PinnedIsCurrent
<1>0. /\ TypeOK
      /\ main \in Steps => config \in Accepted
      /\ main \in {"loaded", "checked", "pinned"} => prompts \in Versions
  BY DEF IInv
<1>1. CASE Launch
  <2>1. UNCHANGED <<files, pinned, memory>> /\ main' \in {"configured", "invalid"}
    BY <1>1 DEF Launch
  <2> QED BY <2>1 DEF files, pinned, memory, Whole
<1>2. CASE InvalidInput \/ Skip \/ Crash \/ Run
  <2>1. UNCHANGED <<files, pinned>> /\ main' \in {"invalid", "dry", "crashed", "ran"}
    BY <1>2 DEF InvalidInput, Skip, Crash, Run, End
  <2> QED BY <2>1 DEF files, pinned, Whole
<1>3. CASE Freeze
  <2>1. frozen' = Whole /\ sha' = Whole /\ main' = "frozen"
        /\ UNCHANGED <<files, promptManifest, runManifest>>
    BY <1>3 DEF Freeze, Whole
  <2> QED BY <2>1 DEF files, Whole
<1>4. CASE FreezeCut
  BY <1>4 DEF FreezeCut
<1>5. CASE FreezeVerify
  <2>1. frozen = Whole
    BY <1>5 DEF FreezeVerify
  <2>2. frozen.tail # "part" /\ frozen.rows = source
    BY <2>1 DEF Whole
  <2>3. main' = "frozen" /\ sha' = Whole /\ UNCHANGED <<files, pinned>>
    BY <1>5, <2>1, <2>2 DEF FreezeVerify
  <2> QED BY <2>3 DEF files, pinned, Whole
<1>6. CASE LoadPrompts
  <2>1. main = "frozen" /\ main' = "loaded" /\ UNCHANGED <<files, pinned, sha>>
    BY <1>6 DEF LoadPrompts
  <2> QED BY <2>1 DEF files, pinned, Whole
<1>7. CASE PinPrompts
  <2>1. /\ main = "loaded" /\ main' = "checked" /\ doc' = promptFiles /\ sha' = sha
        /\ promptManifest' = promptFiles
        /\ UNCHANGED <<files, frozen, runManifest>>
    BY <1>7 DEF PinPrompts
  <2> QED BY <2>1 DEF files, Whole
<1>8. CASE PinRun
  <2>1. /\ main = "checked" /\ UNCHANGED <<files, frozen, promptManifest>>
        /\ Pin = [input |-> Whole, prompts |-> promptFiles, keys |-> KeysOf[config]]
    BY <1>8 DEF PinRun, Pin
  <2>2. CASE runManifest = NoFile
    <3>1. runManifest' = [keys |-> Pin, hash |-> Pin] /\ main' = "pinned" /\ UNCHANGED memory
      BY <1>8, <2>2 DEF PinRun
    <3>2. runManifest'.hash = Pin /\ runManifest'.keys = Pin
      BY <3>1
    <3> QED BY <2>1, <3>1, <3>2 DEF files, memory, Whole
  <2>3. CASE runManifest # NoFile
    <3>1. runManifest.hash = runManifest.keys /\ runManifest.keys = Pin
      BY <2>1, <2>3
    <3>2. main' = "pinned" /\ UNCHANGED <<memory, runManifest>>
      BY <1>8, <2>3, <3>1 DEF PinRun
    <3> QED BY <2>1, <2>3, <3>1, <3>2 DEF files, memory, Whole
  <2> QED BY <2>2, <2>3
<1>9. CASE EditFree
  <2>1. /\ KeysOf[config'] = KeysOf[config]
        /\ UNCHANGED <<source, promptFiles, pinned, main, memory>>
    BY <1>9 DEF EditFree
  <2> QED BY <2>1 DEF pinned, memory, Whole
<1>10. CASE EditExperiment \/ EditPinned
  BY <1>10 DEF EditExperiment, EditPinned
<1>11. CASE UNCHANGED vars
  BY <1>11 DEF vars, files, pinned, memory, Whole
<1> QED
  BY <1>1, <1>2, <1>3, <1>4, <1>5, <1>6, <1>7, <1>8, <1>9, <1>10, <1>11 DEF Next, Check

\* What has been touched or torn stays so.
LEMMA CausesStay ==
  ASSUME TypeOK, [Next]_vars
  PROVE  (touched => touched') /\ (torn => torn')
<1>1. Launch \/ Check \/ EditFree \/ EditExperiment \/ EditPinned \/ UNCHANGED vars
  BY DEF Next
<1>2. CASE Launch \/ EditFree \/ UNCHANGED vars
  BY <1>2 DEF Launch, EditFree, vars, history
<1>3. CASE Check
  BY <1>3
  DEF Check, InvalidInput, Freeze, FreezeCut, FreezeVerify, LoadPrompts, PinPrompts, PinRun, Run,
      Skip, Crash, history
<1>4. CASE EditExperiment \/ EditPinned
  BY <1>4 DEF EditExperiment, EditPinned
<1> QED BY <1>1, <1>2, <1>3, <1>4

\* The same command is refused only when the operator has touched what is pinned,
\* or when a launch has died while it froze the input (README.md:183-187).
THEOREM RefusalsHaveCauses == Spec => []RefusalHasCause
<1>1. Init => CauseInv
  BY DEF Init, CauseInv, PinnedIsCurrent, CutIsTorn
<1>2. IInv /\ CauseInv /\ [Next]_vars => CauseInv'
  <2> SUFFICES ASSUME IInv, CauseInv, [Next]_vars PROVE CauseInv'
    OBVIOUS
  <2>1. CutIsTorn'
    BY NextCut DEF CauseInv
  <2>2. ASSUME ~touched', ~torn' PROVE PinnedIsCurrent'
    <3>1. ~touched /\ ~torn
      BY <2>2, CausesStay DEF IInv
    <3> QED BY <2>2, <3>1, NextCurrent DEF CauseInv
  <2> QED BY <2>1, <2>2 DEF CauseInv
<1>3. CauseInv => RefusalHasCause
  BY DEF CauseInv, PinnedIsCurrent, CutIsTorn, RefusalHasCause
<1> QED BY <1>1, <1>2, <1>3, PreflightInvariant, PTL DEF Spec
-----------------------------------------------------------------------------
(* Counts.  What a configuration asks for is numbered by pairs of an entry  *)
(* and a slot, and a total counts these pairs.  A total is a fold: it is    *)
(* unfolded once, into a function that solves the fold's recursion, and     *)
(* what holds of the function is shown of a least set for which it fails.   *)

\* A set of natural numbers has a least one.
LEMMA LeastExists ==
  ASSUME NEW S \in SUBSET Nat, S # {}
  PROVE  \E x \in S : \A y \in S : x <= y
<1> DEFINE R == OpToRel(<, Nat)
<1>1. IsWellFoundedOn(R, Nat)
  BY NatLessThanWellFounded
<1>2. \A x, y \in Nat : <<y, x>> \in R <=> y < x
  BY DEF OpToRel
<1> HIDE DEF R
<1>3. PICK x \in S : \A y \in S : <<y, x>> \notin R
  BY <1>1, WFMin
<1>4. \A y \in S : ~(y < x)
  BY <1>2, <1>3
<1> QED BY <1>4

\* What the fold picks of a set, and its recursion over T when it sums h.
Picked(s) == CHOOSE x \in s : TRUE
Sums(h, T, g) == g = [s \in T |-> IF s = {} THEN 0 ELSE h[Picked(s)] + g[s \ {Picked(s)}]]

Small(S, n) == {s \in SUBSET S : Cardinality(s) <= n}

\* Without the element that is picked a set is smaller.
LEMMA PickedLess ==
  ASSUME NEW S, IsFiniteSet(S), NEW n \in Nat, NEW s \in Small(S, n), s # {}
  PROVE  /\ Picked(s) \in s /\ s \ {Picked(s)} \in SUBSET S
         /\ n # 0 /\ s \ {Picked(s)} \in Small(S, n - 1)
<1>1. s \in SUBSET S /\ Cardinality(s) <= n
  BY DEF Small
<1>2. IsFiniteSet(s)
  BY <1>1, FS_Subset
<1>3. Picked(s) \in s
  BY DEF Picked
<1>4. Cardinality(s) \in Nat /\ Cardinality(s) # 0
  BY <1>2, FS_CardinalityType, FS_EmptySet
<1> DEFINE x == Picked(s)
<1> HIDE DEF x
<1>5. IsFiniteSet(s \ {x})
      /\ Cardinality(s \ {x}) = IF x \in s THEN Cardinality(s) - 1 ELSE Cardinality(s)
  BY <1>2, FS_RemoveElement
<1>6. x \in s
  BY <1>3 DEF x
<1>7. Cardinality(s \ {x}) = Cardinality(s) - 1
  BY <1>5, <1>6
<1>8. s \ {x} \in Small(S, n - 1)
  BY <1>1, <1>4, <1>7 DEF Small
<1> QED BY <1>1, <1>3, <1>4, <1>8 DEF x

\* The fold's recursion has a solution.
LEMMA SumsExist ==
  ASSUME NEW S, IsFiniteSet(S), NEW h
  PROVE  \E g : Sums(h, SUBSET S, g)
<1> DEFINE bad == {n \in Nat : ~ \E g : Sums(h, Small(S, n), g)}
<1>1. bad = {}
  <2> SUFFICES ASSUME bad # {} PROVE FALSE
    OBVIOUS
  <2>1. bad \in SUBSET Nat
    OBVIOUS
  <2>2. PICK n \in bad : \A y \in bad : n <= y
    BY <2>1, LeastExists
  <2>3. n \in Nat /\ ~ \E g : Sums(h, Small(S, n), g)
    BY <2>2
  <2>4. CASE n = 0
    <3> DEFINE g == [s \in Small(S, n) |-> 0]
    <3>1. \A s \in Small(S, n) : s = {}
      BY <2>3, <2>4, PickedLess
    <3>2. Sums(h, Small(S, n), g)
      BY <3>1 DEF Sums
    <3> QED BY <2>3, <3>2
  <2>5. CASE n # 0
    <3>1. n - 1 \in Nat /\ ~(n <= n - 1)
      BY <2>3, <2>5
    <3>2. n - 1 \notin bad
      BY <2>2, <3>1
    <3>3. PICK f : Sums(h, Small(S, n - 1), f)
      BY <3>1, <3>2
    <3> DEFINE g == [s \in Small(S, n) |-> IF s = {} THEN 0 ELSE h[Picked(s)] + f[s \ {Picked(s)}]]
    <3>4. ASSUME NEW s \in Small(S, n - 1) PROVE s \in Small(S, n) /\ g[s] = f[s]
      <4>1. s \in Small(S, n)
        <5>1. s \in SUBSET S /\ Cardinality(s) <= n - 1
          BY <3>4 DEF Small
        <5>2. IsFiniteSet(s)
          BY <5>1, FS_Subset
        <5>3. Cardinality(s) \in Nat
          BY <5>2, FS_CardinalityType
        <5> QED BY <2>3, <5>1, <5>3 DEF Small
      <4>2. f[s] = IF s = {} THEN 0 ELSE h[Picked(s)] + f[s \ {Picked(s)}]
        BY <3>3 DEF Sums
      <4> QED BY <4>1, <4>2
    <3>5. \A s \in Small(S, n) : s # {} => s \ {Picked(s)} \in Small(S, n - 1)
      BY <2>3, PickedLess
    <3>6. \A s \in Small(S, n) :
            g[s] = IF s = {} THEN 0 ELSE h[Picked(s)] + g[s \ {Picked(s)}]
      BY <3>4, <3>5
    <3>7. g = [s \in Small(S, n) |-> g[s]]
      OBVIOUS
    <3> HIDE DEF g
    <3>8. Sums(h, Small(S, n), g)
      BY <3>6, <3>7 DEF Sums
    <3> QED BY <2>3, <3>8
  <2> QED BY <2>4, <2>5
<1>2. Cardinality(S) \in Nat
  BY FS_CardinalityType
<1>3. SUBSET S = Small(S, Cardinality(S))
  <2>1. \A s \in SUBSET S : Cardinality(s) <= Cardinality(S)
    BY FS_Subset
  <2> QED BY <2>1 DEF Small
<1>4. \E g : Sums(h, Small(S, Cardinality(S)), g)
  BY <1>1, <1>2
<1> QED BY <1>3, <1>4

\* A total is what such a solution gives.
Solves(g, h, S) == \A s \in SUBSET S : g[s] = IF s = {} THEN 0 ELSE h[Picked(s)] + g[s \ {Picked(s)}]
Totals(E, n, T, g) ==
  g = [s \in T |-> IF s = {} THEN 0 ELSE E[Picked(s)].counts[n] + g[s \ {Picked(s)}]]
CountsOf(E, n) == [i \in DOMAIN E |-> E[i].counts[n]]

LEMMA TotalSolves ==
  ASSUME NEW E, IsFiniteSet(DOMAIN E), NEW n
  PROVE  \E g : Total(E, n) = g[DOMAIN E] /\ Solves(g, CountsOf(E, n), DOMAIN E)
<1> DEFINE S == DOMAIN E
           h == CountsOf(E, n)
           G == CHOOSE g : Totals(E, n, SUBSET S, g)
<1>1. Total(E, n) = G[S]
  BY DEF Total, MapThenSumSet, MapThenFoldSet, Totals, Picked
<1>2. ASSUME NEW s \in SUBSET S, s # {} PROVE h[Picked(s)] = E[Picked(s)].counts[n]
  <2>1. Picked(s) \in s
    BY <1>2 DEF Picked
  <2> QED BY <2>1 DEF CountsOf
<1>3. PICK f : Sums(h, SUBSET S, f)
  BY SumsExist
<1>4. f = [s \in SUBSET S |-> IF s = {} THEN 0 ELSE h[Picked(s)] + f[s \ {Picked(s)}]]
  BY <1>3 DEF Sums
<1> HIDE DEF h
<1>5. \A s \in SUBSET S :
        f[s] = IF s = {} THEN 0 ELSE E[Picked(s)].counts[n] + f[s \ {Picked(s)}]
  BY <1>2, <1>4
<1>6. f = [s \in SUBSET S |-> f[s]]
  BY <1>4
<1>7. Totals(E, n, SUBSET S, f)
  BY <1>5, <1>6 DEF Totals
<1>8. Totals(E, n, SUBSET S, G)
  BY <1>7
<1> HIDE DEF G
<1>9. \A s \in SUBSET S :
        G[s] = IF s = {} THEN 0 ELSE E[Picked(s)].counts[n] + G[s \ {Picked(s)}]
  BY <1>8 DEF Totals
<1>10. Solves(G, h, S)
  BY <1>2, <1>9 DEF Solves
<1> QED BY <1>1, <1>10 DEF h

\* A sum counts the slots of its summands.
SlotsOf(h, S) == UNION {{<<x, s>> : s \in 0..(h[x] - 1)} : x \in S}

LEMMA SumCounts ==
  ASSUME NEW S, IsFiniteSet(S), NEW h, \A x \in S : h[x] \in Nat, NEW G, Solves(G, h, S)
  PROVE  IsFiniteSet(SlotsOf(h, S)) /\ Cardinality(SlotsOf(h, S)) = G[S]
<1>2. \A s \in SUBSET S : G[s] = IF s = {} THEN 0 ELSE h[Picked(s)] + G[s \ {Picked(s)}]
  BY DEF Solves
<1> DEFINE counts(s) == IsFiniteSet(SlotsOf(h, s)) /\ Cardinality(SlotsOf(h, s)) = G[s]
           bad == {n \in Nat : \E s \in Small(S, n) : ~counts(s)}
<1>3. bad = {}
  <2> SUFFICES ASSUME bad # {} PROVE FALSE
    OBVIOUS
  <2>1. bad \in SUBSET Nat
    OBVIOUS
  <2>2. PICK n \in bad : \A y \in bad : n <= y
    BY <2>1, LeastExists
  <2>3. n \in Nat
    OBVIOUS
  <2>4. PICK s \in Small(S, n) : ~counts(s)
    BY <2>2
  <2>5. s \in SUBSET S
    BY DEF Small
  <2>6. CASE s = {}
    <3>1. SlotsOf(h, s) = {}
      BY <2>6 DEF SlotsOf
    <3>2. G[s] = 0
      BY <1>2, <2>5, <2>6
    <3> QED BY <2>4, <3>1, <3>2, FS_EmptySet
  <2>7. CASE s # {}
    <3> DEFINE x == Picked(s)
               r == s \ {x}
               A == {<<x, k>> : k \in 0..(h[x] - 1)}
               B == SlotsOf(h, r)
    <3>1. x \in s /\ n # 0 /\ r \in Small(S, n - 1)
      BY <2>3, <2>7, PickedLess
    <3>2. n - 1 \in Nat /\ ~(n <= n - 1)
      BY <2>3, <3>1
    <3>3. n - 1 \notin bad
      BY <2>2, <3>2
    <3>4. counts(r)
      BY <3>1, <3>2, <3>3
    <3>5. h[x] \in Nat
      BY <2>5, <3>1
    <3>6. G[s] = h[x] + G[r]
      BY <1>2, <2>5, <2>7
    <3> HIDE DEF x
    <3>7. SlotsOf(h, s) = A \cup B /\ A \cap B = {}
      <4>1. s = r \cup {x} /\ x \notin r
        BY <3>1
      <4>2. ASSUME NEW e \in A, e \in B PROVE FALSE
        <5>1. PICK k \in 0..(h[x] - 1) : e = <<x, k>>
          BY <4>2
        <5>2. PICK y \in r : e \in {<<y, j>> : j \in 0..(h[y] - 1)}
          BY <4>2 DEF SlotsOf
        <5>3. PICK j \in 0..(h[y] - 1) : e = <<y, j>>
          BY <5>2
        <5>4. x = y
          BY <5>1, <5>3
        <5> QED BY <4>1, <5>4
      <4>3. A \cap B = {}
        BY <4>2
      <4>4. SlotsOf(h, s) = A \cup B
        BY <4>1 DEF SlotsOf
      <4> QED BY <4>3, <4>4
    <3>8. IsFiniteSet(A) /\ Cardinality(A) = h[x]
      <4> DEFINE K == 0..(h[x] - 1)
                 m == [k \in K |-> <<x, k>>]
      <4>1. h[x] - 1 \in Int /\ 0 \in Int
        BY <3>5
      <4>2. IsFiniteSet(K) /\ Cardinality(K) = IF 0 > h[x] - 1 THEN 0 ELSE h[x] - 1 - 0 + 1
        BY <4>1, FS_Interval
      <4>3. Cardinality(K) = h[x]
        BY <3>5, <4>2
      <4>4. m \in [K -> A] /\ (\A a, b \in K : m[a] = m[b] => a = b) /\ \A t \in A : \E k \in K : m[k] = t
        OBVIOUS
      <4> HIDE DEF K, m, A
      <4>5. m \in Injection(K, A)
        BY <4>4 DEF Injection, IsInjective
      <4>6. m \in Surjection(K, A)
        BY <4>4 DEF Surjection
      <4>7. ExistsBijection(K, A)
        BY <4>5, <4>6 DEF ExistsBijection, Bijection
      <4> QED BY <4>2, <4>3, <4>7, FS_Bijection
    <3> HIDE DEF A, B
    <3>9. IsFiniteSet(B) /\ Cardinality(B) = G[r]
      BY <3>4 DEF B
    <3>10. /\ IsFiniteSet(A \cup B)
           /\ Cardinality(A \cup B) = Cardinality(A) + Cardinality(B) - Cardinality(A \cap B)
      BY <3>8, <3>9, FS_Union
    <3>11. Cardinality(A \cap B) = 0
      BY <3>7, FS_EmptySet
    <3>12. Cardinality(B) \in Nat
      BY <3>9, FS_CardinalityType
    <3>13. Cardinality(A \cup B) = G[s]
      BY <3>5, <3>6, <3>8, <3>9, <3>10, <3>11, <3>12
    <3> QED BY <2>4, <3>7, <3>10, <3>13
  <2> QED BY <2>6, <2>7
<1>4. Cardinality(S) \in Nat
  BY FS_CardinalityType
<1>5. S \in Small(S, Cardinality(S))
  BY <1>4 DEF Small
<1>6. counts(S)
  BY <1>3, <1>4, <1>5
<1> QED BY <1>6

\* Total(E, n) is a number, and the number of the slots of the entries.
SlotsIn(E, n) == SlotsOf(CountsOf(E, n), DOMAIN E)

LEMMA TotalCounts ==
  ASSUME NEW E, IsFiniteSet(DOMAIN E), NEW n, \A i \in DOMAIN E : E[i].counts[n] \in Nat
  PROVE  /\ IsFiniteSet(SlotsIn(E, n)) /\ Cardinality(SlotsIn(E, n)) = Total(E, n)
         /\ Total(E, n) \in Nat
<1>1. PICK G : Total(E, n) = G[DOMAIN E] /\ Solves(G, CountsOf(E, n), DOMAIN E)
  BY TotalSolves
<1>2. \A i \in DOMAIN E : CountsOf(E, n)[i] \in Nat
  BY DEF CountsOf
<1>3. IsFiniteSet(SlotsIn(E, n)) /\ Cardinality(SlotsIn(E, n)) = Total(E, n)
  BY <1>1, <1>2, SumCounts DEF SlotsIn
<1> QED BY <1>3, FS_CardinalityType

\* An entry and one of its slots.
LEMMA InSlots ==
  ASSUME NEW E, NEW n
  PROVE  /\ \A t \in SlotsIn(E, n) : /\ t = <<t[1], t[2]>> /\ t[1] \in DOMAIN E
                                     /\ t[2] \in Slots(E[t[1]], n)
         /\ \A i \in DOMAIN E : \A s \in Slots(E[i], n) : <<i, s>> \in SlotsIn(E, n)
<1>1. ASSUME NEW t \in SlotsIn(E, n)
      PROVE  t = <<t[1], t[2]>> /\ t[1] \in DOMAIN E /\ t[2] \in Slots(E[t[1]], n)
  <2>1. PICK i \in DOMAIN E : t \in {<<i, s>> : s \in 0..(CountsOf(E, n)[i] - 1)}
    BY <1>1 DEF SlotsIn, SlotsOf
  <2>2. PICK s \in 0..(CountsOf(E, n)[i] - 1) : t = <<i, s>>
    BY <2>1
  <2>3. s \in Slots(E[i], n)
    BY <2>2 DEF Slots, CountsOf
  <2> QED BY <2>2, <2>3
<1>2. ASSUME NEW i \in DOMAIN E, NEW s \in Slots(E[i], n) PROVE <<i, s>> \in SlotsIn(E, n)
  <2>1. s \in 0..(CountsOf(E, n)[i] - 1)
    BY <1>2 DEF Slots, CountsOf
  <2>2. <<i, s>> \in {<<i, k>> : k \in 0..(CountsOf(E, n)[i] - 1)}
    BY <2>1
  <2> QED BY <2>2 DEF SlotsIn, SlotsOf
<1> QED BY <1>1, <1>2

\* As many images as arguments.
LEMMA ImageCounts ==
  ASSUME NEW T, IsFiniteSet(T), NEW m, \A t, u \in T : m[t] = m[u] => t = u
  PROVE  Cardinality({m[t] : t \in T}) = Cardinality(T)
<1> DEFINE A == {m[t] : t \in T}
           f == [t \in T |-> m[t]]
<1>1. f \in [T -> A] /\ (\A t, u \in T : f[t] = f[u] => t = u) /\ \A e \in A : \E t \in T : f[t] = e
  OBVIOUS
<1> HIDE DEF f, A
<1>2. f \in Injection(T, A)
  BY <1>1 DEF Injection, IsInjective
<1>3. f \in Surjection(T, A)
  BY <1>1 DEF Surjection
<1>4. ExistsBijection(T, A)
  BY <1>2, <1>3 DEF ExistsBijection, Bijection
<1>5. Cardinality(A) = Cardinality(T)
  BY <1>4, FS_Bijection
<1> QED BY <1>5 DEF A

\* The entries of a list that passes: ids without colons, no two alike.
Named(E, n) ==
  /\ IsFiniteSet(DOMAIN E)
  /\ \A i \in DOMAIN E :
       /\ E[i].id.parts = <<E[i].id.parts[1]>>
       /\ E[i].counts[n] \in Nat
  /\ \A i, j \in DOMAIN E : E[i].id.parts = E[j].id.parts => i = j

\* A panel has as many identities as its entries have slots (resume.py:38-46).
LEMMA PanelCounts ==
  ASSUME NEW d, NEW E, Named(E, 1)
  PROVE  Cardinality(Identities(Panel(d, E))) = Total(E, 1)
<1> DEFINE T == SlotsIn(E, 1)
           m == [t \in T |-> PanelIdentity(E[t[1]].id.parts, t[2])]
<1>1. IsFiniteSet(T) /\ Cardinality(T) = Total(E, 1)
  BY TotalCounts DEF Named
<1>2. ASSUME NEW t \in T, NEW u \in T, m[t] = m[u] PROVE t = u
  <2>1. /\ t = <<t[1], t[2]>> /\ t[1] \in DOMAIN E
        /\ u = <<u[1], u[2]>> /\ u[1] \in DOMAIN E
    BY InSlots
  <2>2. /\ E[t[1]].id.parts = <<E[t[1]].id.parts[1]>>
        /\ E[u[1]].id.parts = <<E[u[1]].id.parts[1]>>
    BY <2>1 DEF Named
  <2> DEFINE a == E[t[1]].id.parts[1]
             b == E[u[1]].id.parts[1]
  <2>3. PanelIdentity(<<a>>, t[2]) = PanelIdentity(<<b>>, u[2])
    BY <1>2, <2>2
  <2> HIDE DEF a, b
  <2>4. <<a, t[2]>> = <<b, u[2]>>
    BY <2>3 DEF PanelIdentity
  <2>5. a = b /\ t[2] = u[2]
    BY <2>4
  <2>6. E[t[1]].id.parts = E[u[1]].id.parts
    BY <2>2, <2>5 DEF a, b
  <2>7. t[1] = u[1]
    BY <2>1, <2>6 DEF Named
  <2> QED BY <2>1, <2>5, <2>7
<1>3. Identities(Panel(d, E)) = {m[t] : t \in T}
  <2>1. ASSUME NEW r \in Panel(d, E) PROVE \E t \in T : r.identity = m[t]
    <3>1. PICK i \in DOMAIN E : \E s \in Slots(E[i], 1) : r = Sent(d, E[i], PanelIdentity(E[i].id.parts, s))
      BY <2>1 DEF Panel, EntriesOf
    <3>2. PICK s \in Slots(E[i], 1) : r = Sent(d, E[i], PanelIdentity(E[i].id.parts, s))
      BY <3>1
    <3>3. <<i, s>> \in T
      BY <3>2, InSlots
    <3> QED BY <3>2, <3>3 DEF Sent
  <2>2. ASSUME NEW t \in T PROVE \E r \in Panel(d, E) : r.identity = m[t]
    <3>1. t[1] \in DOMAIN E /\ t[2] \in Slots(E[t[1]], 1)
      BY InSlots
    <3> DEFINE r == Sent(d, E[t[1]], PanelIdentity(E[t[1]].id.parts, t[2]))
    <3>2. r \in Panel(d, E)
      BY <3>1 DEF Panel, EntriesOf
    <3>3. r.identity = m[t]
      BY DEF Sent
    <3> QED BY <3>2, <3>3
  <2> QED BY <2>1, <2>2 DEF Identities
<1> HIDE DEF T, m
<1>4. Cardinality({m[t] : t \in T}) = Cardinality(T)
  BY <1>1, <1>2, ImageCounts
<1> QED BY <1>1, <1>3, <1>4

\* With one part before it that ranges over K, |K| times as many.
Headed(head, K, E, n) ==
  UNION {{<<head[k]>> \o E[t[1]].id.parts \o <<t[2]>> : t \in SlotsIn(E, n)} : k \in K}

LEMMA InHeaded ==
  ASSUME NEW K, NEW head, NEW E, NEW n, NEW k \in K, NEW t \in SlotsIn(E, n), NEW x,
         x = <<head[k]>> \o E[t[1]].id.parts \o <<t[2]>>
  PROVE  x \in Headed(head, K, E, n)
<1> DEFINE C(l) == {<<head[l]>> \o E[u[1]].id.parts \o <<u[2]>> : u \in SlotsIn(E, n)}
<1>1. x \in C(k)
  OBVIOUS
<1>2. Headed(head, K, E, n) = UNION {C(l) : l \in K}
  BY DEF Headed
<1> HIDE DEF C
<1> QED BY <1>1, <1>2

LEMMA HeadedCounts ==
  ASSUME NEW K, IsFiniteSet(K), NEW head, \A k, l \in K : head[k] = head[l] => k = l,
         NEW E, NEW n, Named(E, n)
  PROVE  Cardinality(Headed(head, K, E, n)) = Cardinality(K) * Total(E, n)
<1> DEFINE S == SlotsIn(E, n)
           T == K \X S
           m == [p \in T |-> <<head[p[1]]>> \o E[p[2][1]].id.parts \o <<p[2][2]>>]
<1>1. IsFiniteSet(S) /\ Cardinality(S) = Total(E, n)
  BY TotalCounts DEF Named
<1>2. ASSUME NEW p \in T, NEW q \in T, m[p] = m[q] PROVE p = q
  <2> HIDE DEF m, S
  <2>0. p = <<p[1], p[2]>> /\ p[1] \in K /\ p[2] \in S /\ q = <<q[1], q[2]>> /\ q[1] \in K /\ q[2] \in S
    OBVIOUS
  <2> DEFINE t == p[2]
             u == q[2]
  <2>1. /\ t = <<t[1], t[2]>> /\ t[1] \in DOMAIN E
        /\ u = <<u[1], u[2]>> /\ u[1] \in DOMAIN E
    BY <2>0, InSlots DEF S
  <2>2. /\ E[t[1]].id.parts = <<E[t[1]].id.parts[1]>>
        /\ E[u[1]].id.parts = <<E[u[1]].id.parts[1]>>
    BY <2>1 DEF Named
  <2> DEFINE a == E[t[1]].id.parts[1]
             b == E[u[1]].id.parts[1]
  <2>3. <<head[p[1]]>> \o <<a>> \o <<t[2]>> = <<head[q[1]]>> \o <<b>> \o <<u[2]>>
    BY <1>2, <2>2 DEF m
  <2> HIDE DEF a, b, t, u
  <2>4. <<head[p[1]], a, t[2]>> = <<head[q[1]], b, u[2]>>
    BY <2>3
  <2>5. head[p[1]] = head[q[1]] /\ a = b /\ t[2] = u[2]
    BY <2>4
  <2>6. E[t[1]].id.parts = E[u[1]].id.parts
    BY <2>2, <2>5 DEF a, b
  <2>7. t[1] = u[1]
    BY <2>1, <2>6 DEF Named
  <2>8. t = u
    BY <2>1, <2>5, <2>7
  <2>9. p[1] = q[1]
    BY <2>0, <2>5
  <2> QED BY <2>0, <2>8, <2>9 DEF t, u
<1>3. Headed(head, K, E, n) = {m[p] : p \in T}
  <2>1. ASSUME NEW k \in K, NEW t \in S
        PROVE  <<k, t>> \in T /\ m[<<k, t>>] = <<head[k]>> \o E[t[1]].id.parts \o <<t[2]>>
    OBVIOUS
  <2>2. ASSUME NEW p \in T
        PROVE  /\ p[1] \in K /\ p[2] \in S
               /\ m[p] = <<head[p[1]]>> \o E[p[2][1]].id.parts \o <<p[2][2]>>
    OBVIOUS
  <2> HIDE DEF T, m, S
  <2>3. ASSUME NEW r \in Headed(head, K, E, n) PROVE r \in {m[p] : p \in T}
    <3>1. PICK k \in K : \E t \in S : r = <<head[k]>> \o E[t[1]].id.parts \o <<t[2]>>
      BY <2>3 DEF Headed, S
    <3>2. PICK t \in S : r = <<head[k]>> \o E[t[1]].id.parts \o <<t[2]>>
      BY <3>1
    <3>3. <<k, t>> \in T /\ m[<<k, t>>] = r
      BY <2>1, <3>2
    <3> QED BY <3>3
  <2>4. ASSUME NEW p \in T PROVE m[p] \in Headed(head, K, E, n)
    <3>1. p[1] \in K /\ p[2] \in S /\ m[p] = <<head[p[1]]>> \o E[p[2][1]].id.parts \o <<p[2][2]>>
      BY <2>2, <2>4
    <3> QED BY <3>1, InHeaded DEF S
  <2> QED BY <2>3, <2>4
<1>4. IsFiniteSet(T) /\ Cardinality(T) = Cardinality(K) * Cardinality(S)
  BY <1>1, FS_Product
<1> HIDE DEF T, m
<1>5. Cardinality({m[p] : p \in T}) = Cardinality(T)
  BY <1>2, <1>4, ImageCounts
<1> QED BY <1>1, <1>3, <1>4, <1>5

\* A sequence of one part.
LEMMA Single == ASSUME NEW A, NEW p \in Seq(A), Len(p) = 1 PROVE p = <<p[1]>>
  OBVIOUS

\* A list that passes is named, if none of its ids has a colon.
LEMMA ListsAreNamed ==
  ASSUME NEW d \in Documents, Accepts(d), Plain(d),
         NEW E \in {d.checkpoints, d.verifiers} \cup (IF Given(d.judges) THEN {d.judges} ELSE {})
  PROVE  Named(E, 1) /\ (E = d.checkpoints => Named(E, 2))
<1>1. ListOK(E)
  BY DEF Accepts
<1>2. /\ Len(E) \in Nat /\ DOMAIN E = 1..Len(E)
      /\ \A i \in DOMAIN E : E[i].id.parts \in Seq(STRING) /\ 1 \in DOMAIN E[i].counts
      /\ E = d.checkpoints => \A i \in DOMAIN E : 2 \in DOMAIN E[i].counts
  BY DocumentAssumption
<1>3. \A i \in DOMAIN E : E[i] \in Entries(d)
  BY DEF Entries
<1>4. \A i \in DOMAIN E : E[i].id.parts = <<E[i].id.parts[1]>>
  BY <1>2, <1>3, Single DEF Plain
<1>5. \A i \in DOMAIN E : /\ E[i].counts[1] \in Nat
                          /\ E = d.checkpoints => E[i].counts[2] \in Nat
  BY <1>1, <1>2 DEF ListOK, EntryOK, Positive
<1>6. \A i, j \in DOMAIN E : E[i].id.parts = E[j].id.parts => i = j
  BY <1>1 DEF ListOK, SameId
<1>7. IsFiniteSet(DOMAIN E)
  <2>1. IsFiniteSet(1..Len(E))
    BY <1>2, FS_Interval
  <2> QED BY <1>2, <2>1
<1> QED BY <1>4, <1>5, <1>6, <1>7 DEF Named

\* Every prompt asks every checkpoint for its samples (config.py:330-340).
LEMMA GenerationCounts ==
  ASSUME NEW d \in Documents, Accepts(d), Plain(d)
  PROVE  Cardinality(Identities(Generations(d)))
           = Len(d.search.generation_prompts) * Total(d.checkpoints, 1)
<1> DEFINE P == d.search.generation_prompts
           E == d.checkpoints
           K == DOMAIN P
           head == [k \in K |-> P[k].parts[1]]
<1>1. K = 1..Len(P) /\ Len(P) \in Nat
  BY DocumentAssumption
<1>2. IsFiniteSet(K) /\ Cardinality(K) = Len(P)
  <2>1. IsFiniteSet(1..Len(P)) /\ Cardinality(1..Len(P)) = IF 1 > Len(P) THEN 0 ELSE Len(P) - 1 + 1
    BY <1>1, FS_Interval
  <2> QED BY <1>1, <2>1
<1>3. /\ \A k \in K : P[k] \in PromptFiles
      /\ \A k, l \in K : P[k] = P[l] => k = l
  BY DEF Accepts, SearchOK
<1>4. \A k \in K : P[k].parts = <<head[k]>>
  <2> SUFFICES ASSUME NEW k \in K PROVE P[k].parts = <<P[k].parts[1]>>
    OBVIOUS
  <2>1. P[k] \in Prompts(d)
    BY DEF Prompts
  <2>2. P[k].parts \in Seq(STRING)
    BY <1>3, PromptAssumption
  <2> QED BY <2>1, <2>2, Single DEF Plain
<1>5. Named(E, 1)
  BY ListsAreNamed
<1> HIDE DEF head, K
<1>6. \A k, l \in K : head[k] = head[l] => k = l
  BY <1>3, <1>4, PromptAssumption
<1>7. Identities(Generations(d)) = Headed(head, K, E, 1)
  <2>1. ASSUME NEW r \in Generations(d) PROVE r.identity \in Headed(head, K, E, 1)
    <3>1. PICK i \in DOMAIN E, k \in K :
            \E s \in Slots(E[i], 1) : r = Sent(d, E[i], GenIdentity(P[k], E[i].id.parts, s))
      BY <2>1 DEF Generations, EntriesOf, Prompts, K
    <3>2. PICK s \in Slots(E[i], 1) : r = Sent(d, E[i], GenIdentity(P[k], E[i].id.parts, s))
      BY <3>1
    <3> DEFINE t == <<i, s>>
    <3>3. t \in SlotsIn(E, 1) /\ t[1] = i /\ t[2] = s
      BY <3>2, InSlots
    <3> HIDE DEF t
    <3>4. r.identity = <<head[k]>> \o E[t[1]].id.parts \o <<t[2]>>
      BY <1>4, <3>1, <3>2, <3>3 DEF Sent, GenIdentity
    <3> QED BY <3>1, <3>3, <3>4, InHeaded
  <2>2. ASSUME NEW x \in Headed(head, K, E, 1) PROVE \E r \in Generations(d) : r.identity = x
    <3>1. PICK k \in K : \E t \in SlotsIn(E, 1) : x = <<head[k]>> \o E[t[1]].id.parts \o <<t[2]>>
      BY <2>2 DEF Headed
    <3>2. PICK t \in SlotsIn(E, 1) : x = <<head[k]>> \o E[t[1]].id.parts \o <<t[2]>>
      BY <3>1
    <3>3. t[1] \in DOMAIN E /\ t[2] \in Slots(E[t[1]], 1)
      BY InSlots
    <3> DEFINE r == Sent(d, E[t[1]], GenIdentity(P[k], E[t[1]].id.parts, t[2]))
    <3>4. E[t[1]] \in EntriesOf(d.checkpoints) /\ P[k] \in Prompts(d)
      BY <3>1, <3>3 DEF EntriesOf, Prompts, K
    <3>5. r \in Generations(d)
      BY <3>3, <3>4 DEF Generations
    <3>6. r.identity = x
      BY <1>4, <3>1, <3>2 DEF Sent, GenIdentity
    <3> QED BY <3>5, <3>6
  <2> QED BY <2>1, <2>2 DEF Identities
<1>8. Cardinality(Headed(head, K, E, 1)) = Cardinality(K) * Total(E, 1)
  BY <1>2, <1>5, <1>6, HeadedCounts
<1> QED BY <1>2, <1>7, <1>8

\* Every trial asks every checkpoint for its refinements (config.py:335-337).
LEMMA RefinementCounts ==
  ASSUME NEW d \in Documents, Accepts(d), Plain(d)
  PROVE  Cardinality(Identities(Refinements(d)))
           = d.search.refinement_prompts_per_round * Total(d.checkpoints, 2)
<1> DEFINE R == d.search.refinement_prompts_per_round
           E == d.checkpoints
           K == 0..(R - 1)
           head == [k \in K |-> k]
<1>1. R \in Nat \ {0}
  BY DEF Accepts, SearchOK, Positive
<1>2. IsFiniteSet(K) /\ Cardinality(K) = R
  <2>1. R - 1 \in Int /\ 0 \in Int
    BY <1>1
  <2>2. IsFiniteSet(K) /\ Cardinality(K) = IF 0 > R - 1 THEN 0 ELSE R - 1 - 0 + 1
    BY <2>1, FS_Interval
  <2> QED BY <1>1, <2>2
<1>3. \A k \in K : head[k] = k
  OBVIOUS
<1>4. Named(E, 2)
  BY ListsAreNamed
<1> HIDE DEF head, K
<1>5. \A k, l \in K : head[k] = head[l] => k = l
  BY <1>3
<1>6. Identities(Refinements(d)) = Headed(head, K, E, 2)
  <2>1. ASSUME NEW r \in Refinements(d) PROVE r.identity \in Headed(head, K, E, 2)
    <3>0. PICK c \in EntriesOf(d.checkpoints), k \in 0..(d.search.refinement_prompts_per_round - 1) :
            \E s \in Slots(c, 2) : r = Sent(d, c, RefineIdentity(k, c.id.parts, s))
      BY <2>1 DEF Refinements
    <3>1. PICK i \in DOMAIN E : c = E[i]
      BY DEF EntriesOf
    <3>2. PICK s \in Slots(E[i], 2) : r = Sent(d, E[i], RefineIdentity(k, E[i].id.parts, s))
      BY <3>0, <3>1
    <3> DEFINE t == <<i, s>>
    <3>3. t \in SlotsIn(E, 2) /\ t[1] = i /\ t[2] = s
      BY <3>2, InSlots
    <3> HIDE DEF t
    <3>5. k \in K
      BY DEF K
    <3>4. r.identity = <<head[k]>> \o E[t[1]].id.parts \o <<t[2]>>
      BY <1>3, <3>2, <3>3, <3>5 DEF Sent, RefineIdentity
    <3> QED BY <3>3, <3>4, <3>5, InHeaded
  <2>2. ASSUME NEW x \in Headed(head, K, E, 2) PROVE \E r \in Refinements(d) : r.identity = x
    <3>1. PICK k \in K : \E t \in SlotsIn(E, 2) : x = <<head[k]>> \o E[t[1]].id.parts \o <<t[2]>>
      BY <2>2 DEF Headed
    <3>2. PICK t \in SlotsIn(E, 2) : x = <<head[k]>> \o E[t[1]].id.parts \o <<t[2]>>
      BY <3>1
    <3>3. t[1] \in DOMAIN E /\ t[2] \in Slots(E[t[1]], 2)
      BY InSlots
    <3> DEFINE r == Sent(d, E[t[1]], RefineIdentity(k, E[t[1]].id.parts, t[2]))
    <3>4. E[t[1]] \in EntriesOf(d.checkpoints)
      BY <3>3 DEF EntriesOf
    <3>5. k \in 0..(d.search.refinement_prompts_per_round - 1)
      BY <3>1 DEF K
    <3>7. r \in {Sent(d, E[t[1]], RefineIdentity(k, E[t[1]].id.parts, s)) : s \in Slots(E[t[1]], 2)}
      BY <3>3
    <3>8. r \in Refinements(d)
      BY <3>4, <3>5, <3>7 DEF Refinements
    <3>6. r.identity = x
      BY <1>3, <3>1, <3>2 DEF Sent, RefineIdentity
    <3> QED BY <3>6, <3>8
  <2> QED BY <2>1, <2>2 DEF Identities
<1>7. Cardinality(Headed(head, K, E, 2)) = Cardinality(K) * Total(E, 2)
  BY <1>2, <1>4, <1>5, HeadedCounts
<1> QED BY <1>2, <1>6, <1>7

\* What a configuration that passes without colons in its ids asks for is what
\* derived_counts says, for any lists, counts and prompts (config.py:330-340).
THEOREM CountsHold == Spec => []CountsAreRequests
<1>1. IInv => CountsAreRequests
  <2> SUFFICES ASSUME IInv, main = "configured", Plain(config)
      PROVE [generations_per_problem |-> Cardinality(Identities(Work(config).generations)),
             judgments_per_proof |-> Cardinality(Identities(Work(config).verifications)),
             refinements_per_round |-> Cardinality(Identities(Work(config).refinements)),
             judgments_per_finalist |-> Cardinality(Identities(Work(config).judgments))]
            = DerivedCounts(config)
    BY DEF CountsAreRequests
  <2> DEFINE d == config
  <2>1. d \in Documents /\ Accepts(d) /\ Plain(d)
    BY DEF IInv, Steps, Accepted
  <2> HIDE DEF d
  <2>2. Cardinality(Identities(Work(d).generations)) = DerivedCounts(d).generations_per_problem
    BY <2>1, GenerationCounts DEF Work, DerivedCounts
  <2>3. Cardinality(Identities(Work(d).refinements)) = DerivedCounts(d).refinements_per_round
    BY <2>1, RefinementCounts DEF Work, DerivedCounts
  <2>4. Cardinality(Identities(Work(d).verifications)) = DerivedCounts(d).judgments_per_proof
    <3>1. Named(d.verifiers, 1)
      BY <2>1, ListsAreNamed
    <3> QED BY <3>1, PanelCounts DEF Work, DerivedCounts
  <2>5. Cardinality(Identities(Work(d).judgments)) = DerivedCounts(d).judgments_per_finalist
    <3>1. CASE Given(d.judges)
      <4>1. Named(d.judges, 1)
        BY <2>1, <3>1, ListsAreNamed
      <4> QED BY <3>1, <4>1, PanelCounts DEF Work, DerivedCounts
    <3>2. CASE ~Given(d.judges)
      <4>1. Identities({}) = {}
        BY DEF Identities
      <4> QED BY <3>2, <4>1, FS_EmptySet DEF Work, DerivedCounts
    <3> QED BY <3>1, <3>2
  <2> QED BY <2>2, <2>3, <2>4, <2>5 DEF DerivedCounts, d
<1> QED BY PreflightInvariant, <1>1, PTL
=============================================================================
