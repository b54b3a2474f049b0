------------------------------ MODULE Preflight ------------------------------
(***************************************************************************)
(* run.py and manifest.py: what a launch checks before the driver runs, and *)
(* the files that pin a run directory to one experiment: the frozen input,  *)
(* the prompt manifest and the run manifest.                                *)
(*                                                                         *)
(* The operator may edit the configuration, the input and the prompt files, *)
(* and remove or edit what is pinned.  A launch reads the configuration and *)
(* the input once, so that an edit of these during a launch is one after   *)
(* it.  A hash is the value it was taken of.                               *)
(*                                                                         *)
(* Names that start with Bug are variants of the definition that follows   *)
(* them, as a plausible mistake in the code would write it.                *)
(***************************************************************************)
EXTENDS Config, Journal, FiniteSets

CONSTANTS
  Problems,     \* rows of an input
  Inputs,       \* what the configured input may hold
  Versions,     \* of the prompt files
  MaxLaunches,  \* bound on the launches of one run directory
  NoFile        \* in the place of a file that does not exist

FileType == [rows: Seq(Problems), tail: Tails]

Accepted == {d \in Documents : Accepts(d)}
KeysOf == [d \in Accepted |-> ExperimentKeys(d)]
Keys == {KeysOf[d] : d \in Accepted}

\* run_manifest_keys: what a run directory is pinned to.
Pins == [input: FileType, prompts: Versions, keys: Keys]
Manifests == [keys: Pins, hash: Pins]

ASSUME InputAssumption == Inputs \subseteq Seq(Problems)
\* A list of judges is not the null in its place.
ASSUME NullAssumption == \A d \in Documents : Accepts(d) /\ Given(d.judges) => SpecKeys(d.judges) # Null
ASSUME LaunchAssumption == MaxLaunches \in Nat
ASSUME NoFileAssumption == NoFile \notin FileType \cup Versions \cup Manifests

VARIABLES
  config, source, promptFiles,          \* what the operator edits
  frozen, promptManifest, runManifest,  \* the run directory
  main,                                 \* where the launch is, or how it ended
  sha, prompts, doc,                    \* what a launch holds in memory, or NoFile
  launches,                             \* launches so far
  ran,                                  \* what each launch that ran computed with
  touched,                              \* the operator has edited what defines the experiment
  torn                                  \* a launch has died while it froze the input

files == <<config, source, promptFiles>>
pinned == <<frozen, promptManifest, runManifest>>
memory == <<sha, prompts, doc>>
history == <<ran, touched, torn>>
vars == <<files, pinned, main, memory, launches, history>>

Steps == {"configured", "frozen", "loaded", "checked", "pinned"}
Ends == {"new", "invalid", "refused", "traceback", "crashed", "dry", "ran"}

Init ==
  /\ config \in Documents /\ source \in Inputs /\ promptFiles \in Versions
  /\ frozen = NoFile /\ promptManifest = NoFile /\ runManifest = NoFile
  /\ main = "new"
  /\ sha = NoFile /\ prompts = NoFile /\ doc = NoFile
  /\ launches = 0
  /\ ran = {} /\ touched = FALSE /\ torn = FALSE

\* The launch ends, and what it held in memory with it.
End(how) == main' = how /\ sha' = NoFile /\ prompts' = NoFile /\ doc' = NoFile

----------------------------------------------------------------------------
(* A launch, from main to the start of the driver *)

\* load_config, resolve_api_key and check_open_file_limit.
Launch ==
  /\ main \in Ends /\ launches < MaxLaunches
  /\ launches' = launches + 1
  /\ main' = IF Usable(config) THEN "configured" ELSE "invalid"
  /\ UNCHANGED <<files, pinned, memory, history>>

\* load_problems: there is a problem, and no two have one problem_idx.
Valid(problems) ==
  /\ problems # <<>>
  /\ \A i, j \in DOMAIN problems : problems[i] = problems[j] => i = j

InvalidInput ==
  /\ main = "configured" /\ ~Valid(source)
  /\ End("invalid")
  /\ UNCHANGED <<files, pinned, launches, history>>

\* freeze_input, the first time.
BugFreeze ==
  /\ main = "configured" /\ Valid(source) /\ frozen = NoFile
  /\ frozen' = [rows |-> source, tail |-> "newline"]
  /\ sha' = [frozen' EXCEPT !.tail = "whole"]
  /\ main' = "frozen"
  /\ UNCHANGED <<files, promptManifest, runManifest, prompts, doc, launches, history>>
Freeze ==
  /\ main = "configured" /\ Valid(source) /\ frozen = NoFile
  /\ frozen' = [rows |-> source, tail |-> "newline"]
  /\ sha' = frozen'
  /\ main' = "frozen"
  /\ UNCHANGED <<files, promptManifest, runManifest, prompts, doc, launches, history>>

\* write_jsonl writes in place: what a launch that dies meanwhile leaves, all
\* of the file but its last newline included.
Prefixes(problems) ==
  {f \in [rows: {SubSeq(problems, 1, k) : k \in 0..Len(problems)}, tail: Tails] :
     /\ f.tail = "part" => f.rows # problems
     /\ f.tail = "whole" => f.rows # <<>>}

FreezeCut ==
  /\ main = "configured" /\ Valid(source) /\ frozen = NoFile
  /\ frozen' \in Prefixes(source)
  /\ torn' = TRUE
  /\ End("crashed")
  /\ UNCHANGED <<files, promptManifest, runManifest, launches, ran, touched>>

\* freeze_input on a frozen file: a row that was cut is a ValueError, which main
\* does not catch.
FreezeVerify ==
  /\ main = "configured" /\ Valid(source) /\ frozen # NoFile
  /\ \/ frozen.tail = "part" /\ End("traceback")
     \/ frozen.tail # "part" /\ frozen.rows # source /\ End("refused")
     \/ /\ frozen.tail # "part" /\ frozen.rows = source
        /\ main' = "frozen" /\ sha' = frozen /\ UNCHANGED <<prompts, doc>>
  /\ UNCHANGED <<files, pinned, launches, history>>

\* load_prompt_set.
LoadPrompts ==
  /\ main = "frozen"
  /\ prompts' = promptFiles
  /\ main' = "loaded"
  /\ UNCHANGED <<files, pinned, sha, doc, launches, history>>

\* prompt_manifest reads the files once more; write_or_verify.
PinPrompts ==
  /\ main = "loaded"
  /\ \/ /\ promptManifest = NoFile
        /\ promptManifest' = promptFiles
        /\ main' = "checked" /\ doc' = promptFiles /\ UNCHANGED <<sha, prompts>>
     \/ /\ promptManifest = promptFiles
        /\ main' = "checked" /\ doc' = promptFiles /\ UNCHANGED <<promptManifest, sha, prompts>>
     \/ promptManifest \notin {promptFiles, NoFile} /\ End("refused") /\ UNCHANGED promptManifest
  /\ UNCHANGED <<files, frozen, runManifest, launches, history>>

Pin == [input |-> sha, prompts |-> doc, keys |-> KeysOf[config]]

\* write_or_verify_run_manifest: the recorded hash must be that of the recorded
\* keys, and the keys those of this launch.
BugPinRun ==
  /\ main = "checked"
  /\ \/ /\ runManifest = NoFile
        /\ runManifest' = [keys |-> Pin, hash |-> Pin]
        /\ main' = "pinned" /\ UNCHANGED memory
     \/ /\ runManifest # NoFile
        /\ IF runManifest.keys = Pin
           THEN main' = "pinned" /\ UNCHANGED memory ELSE End("refused")
        /\ UNCHANGED runManifest
  /\ UNCHANGED <<files, frozen, promptManifest, launches, history>>
PinRun ==
  /\ main = "checked"
  /\ \/ /\ runManifest = NoFile
        /\ runManifest' = [keys |-> Pin, hash |-> Pin]
        /\ main' = "pinned" /\ UNCHANGED memory
     \/ /\ runManifest # NoFile
        /\ IF runManifest.hash = runManifest.keys /\ runManifest.keys = Pin
           THEN main' = "pinned" /\ UNCHANGED memory ELSE End("refused")
        /\ UNCHANGED runManifest
  /\ UNCHANGED <<files, frozen, promptManifest, launches, history>>

\* async_main: the driver runs with what is in memory.
Run ==
  /\ main = "pinned"
  /\ End("ran")
  /\ ran' = ran \cup {[rows |-> source, prompts |-> prompts, hashed |-> doc, config |-> config]}
  /\ UNCHANGED <<files, pinned, launches, touched, torn>>

\* --dry-run, or a tokenizer that cannot be loaded.
Skip ==
  /\ main = "pinned"
  /\ End("dry")
  /\ UNCHANGED <<files, pinned, launches, history>>

\* The manifests are replaced as a whole, so that a crash leaves either state.
Crash ==
  /\ main \in Steps
  /\ End("crashed")
  /\ UNCHANGED <<files, pinned, launches, history>>

----------------------------------------------------------------------------
(* The operator *)

\* What is not among the experiment's keys: endpoints, API keys, timeouts, lanes.
EditFree ==
  /\ main \in Ends /\ config \in Accepted
  /\ config' \in Accepted /\ KeysOf[config'] = KeysOf[config]
  /\ UNCHANGED <<source, promptFiles, pinned, main, memory, launches, history>>

EditExperiment ==
  /\ \/ /\ main \in Ends
        /\ config' \in Documents /\ UNCHANGED <<source, promptFiles>>
     \/ /\ main \in Ends
        /\ source' \in Inputs /\ UNCHANGED <<config, promptFiles>>
     \/ promptFiles' \in Versions /\ UNCHANGED <<config, source>>
  /\ touched' = TRUE
  /\ UNCHANGED <<pinned, main, memory, launches, ran, torn>>

\* The frozen input or the prompt manifest is removed, or the keys of the run
\* manifest are edited by hand to fit the configuration.
EditPinned ==
  /\ \/ frozen' = NoFile /\ UNCHANGED <<promptManifest, runManifest>>
     \/ promptManifest' = NoFile /\ UNCHANGED <<frozen, runManifest>>
     \/ /\ runManifest # NoFile /\ config \in Accepted
        /\ runManifest' = [runManifest EXCEPT !.keys.keys = KeysOf[config]]
        /\ UNCHANGED <<frozen, promptManifest>>
  /\ touched' = TRUE
  /\ UNCHANGED <<files, main, memory, launches, ran, torn>>

Check == InvalidInput \/ Freeze \/ FreezeCut \/ FreezeVerify \/ LoadPrompts \/ PinPrompts
           \/ PinRun \/ Run \/ Skip \/ Crash

Next == Launch \/ Check \/ EditFree \/ EditExperiment \/ EditPinned

Spec == Init /\ [][Next]_vars

----------------------------------------------------------------------------
(* Properties *)

\* Every variable keeps its type.
TypeOK ==
  /\ config \in Documents /\ source \in Inputs /\ promptFiles \in Versions
  /\ frozen \in FileType \cup {NoFile}
  /\ promptManifest \in Versions \cup {NoFile}
  /\ runManifest \in Manifests \cup {NoFile}
  /\ main \in Steps \cup Ends
  /\ sha \in FileType \cup {NoFile} /\ {prompts, doc} \subseteq Versions \cup {NoFile}
  /\ launches \in Nat
  /\ ran \subseteq [rows: Inputs, prompts: Versions, hashed: Versions, config: Documents]
  /\ touched \in BOOLEAN /\ torn \in BOOLEAN

\* All launches that get to the driver compute with the same problems, settings
\* and prompt hashes, whatever is edited, removed or cut short between them and
\* during them (manifest.py:138-175).  The prompts in use are those that were
\* hashed unless their files were edited between the two readings
\* (run.py:136-139), which nothing in the code excludes.
RunIsPinned ==
  \A a, b \in ran :
    a.rows = b.rows /\ a.hashed = b.hashed /\ KeysOf[a.config] = KeysOf[b.config]

\* And they ask for the same: the requests of every stage have the same identities,
\* models, limits and parameters, whatever else their configurations change
\* (config.py:343-387: "everything that changes what is computed").
SameWork == \A a, b \in ran : Work(a.config) = Work(b.config)

\* A configuration that passes asks for as many different requests as its derived
\* counts say (config.py:330-340, resume.py:30-46), unless its ids have colons.
CountsAreRequests ==
  main = "configured" /\ Plain(config) =>
    [generations_per_problem |-> Cardinality(Identities(Work(config).generations)),
     judgments_per_proof |-> Cardinality(Identities(Work(config).verifications)),
     refinements_per_round |-> Cardinality(Identities(Work(config).refinements)),
     judgments_per_finalist |-> Cardinality(Identities(Work(config).judgments))]
    = DerivedCounts(config)

\* The same command, with whatever endpoints and concurrency, is refused only if
\* an earlier launch died while it froze the input (README.md:183-187).
RefusalHasCause ==
  /\ main = "refused" => touched \/ torn
  /\ main = "traceback" => torn
=============================================================================
