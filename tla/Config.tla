-------------------------------- MODULE Config --------------------------------
(***************************************************************************)
(* config.py: which documents parse_config accepts, what it makes of them, *)
(* and the keys that pin a run directory to what is computed.              *)
(*                                                                         *)
(* A document is a record of its sections.  In the place of a value can be *)
(* that its key is absent, null, a value of a wrong type (a boolean for a  *)
(* number included), or a placeholder the user was to fill in.  An id is   *)
(* the sequence of its parts between colons, beside whether blanks surround *)
(* it, because identities join ids with colons.                            *)
(*                                                                         *)
(* Names that start with Bug are variants of the definition that follows   *)
(* them, as a plausible mistake in the code would write it.                *)
(***************************************************************************)
EXTENDS Integers, Sequences, FiniteSetsExt

CONSTANTS
  Documents,    \* what the configuration file may hold
  PromptFiles,  \* the prompt ids that have a file
  Exported,     \* the environment variables that are set
  FileLimit,    \* on open files
  Absent, Null, Wrong, Unfilled

\* _require, _optional, _positive.
Given(v) == v \notin {Absent, Null}
Optional(v, default) == IF Given(v) THEN v ELSE default
Filled(v) == v \notin {Absent, Null, Wrong, Unfilled}
Positive(v) == v \in Nat \ {0}

Margin == 64
Lanes == {"generation", "verification", "refinement", "judging"}
DefaultLane ==
  [problems |-> 30, generation |-> 320, verification |-> 1280, refinement |-> 320, judging |-> 256]
DefaultSampling == <<100, 95>>  \* temperature and top_p, in hundredths

-----------------------------------------------------------------------------
(* parse_config *)

\* _model_common, and the entry's counts.
EntryOK(e) ==
  /\ e.id.parts # <<>> /\ Filled(e.model)
  /\ Positive(e.max_len) /\ Positive(e.max_tokens) /\ e.max_tokens < e.max_len
  /\ e.base_url \notin {Wrong, Unfilled} /\ e.api_key_env # Wrong
  /\ \A n \in DOMAIN e.counts : Positive(e.counts[n])

\* Ids are compared without the blanks around them.
BugSameId(e, f) == e.id = f.id
SameId(e, f) == e.id.parts = f.id.parts

ListOK(entries) ==
  /\ entries \notin {Absent, Null, Wrong, <<>>}
  /\ \A i \in DOMAIN entries : EntryOK(entries[i])
  /\ \A i, j \in DOMAIN entries : SameId(entries[i], entries[j]) => i = j

EndpointOK(ep) ==
  /\ Filled(ep.base_url) /\ ep.api_key_env # Wrong
  /\ Positive(Optional(ep.timeout_s, 1)) /\ Optional(ep.retry_window_s, 0) \in Nat
  /\ ep.extra_body # Wrong
SearchOK(s) ==
  /\ s.generation_prompts \notin {Absent, Null, Wrong, <<>>}
  /\ \A i \in DOMAIN s.generation_prompts : s.generation_prompts[i] \in PromptFiles
  /\ \A i, j \in DOMAIN s.generation_prompts :
       s.generation_prompts[i] = s.generation_prompts[j] => i = j
  /\ Positive(s.max_rounds) /\ Positive(s.refinement_prompts_per_round)
Lane(d, name) == Optional(d.concurrency[name], DefaultLane[name])
BudgetOK(b) ==
  Given(b) => Filled(b.tokenizer) /\ Optional(b.safety_margin_tokens, 4096) \in Int

\* A document is well formed if its sections are there and are mappings that
\* hold no unknown key.  Every verifier judges a proof equally often.
Accepts(d) ==
  /\ d.wellFormed /\ EndpointOK(d.endpoint)
  /\ ListOK(d.checkpoints) /\ ListOK(d.verifiers)
  /\ \A i, j \in DOMAIN d.verifiers : d.verifiers[i].counts = d.verifiers[j].counts
  /\ Given(d.judges) => ListOK(d.judges)
  /\ SearchOK(d.search) /\ d.sampling # Wrong /\ Filled(d.input)
  /\ \A name \in DOMAIN DefaultLane : Positive(Lane(d, name))
  /\ BudgetOK(d.context_budget)

Entries(d) ==
  {d.checkpoints[i] : i \in DOMAIN d.checkpoints} \cup {d.verifiers[i] : i \in DOMAIN d.verifiers}
    \cup (IF Given(d.judges) THEN {d.judges[i] : i \in DOMAIN d.judges} ELSE {})

\* resolve_api_key: a null needs no key, an absent one is the endpoint's.
KeyVariable(d, e) ==
  IF e.api_key_env = Absent THEN Optional(d.endpoint.api_key_env, Null) ELSE e.api_key_env
ResolvesKeys(d) == \A e \in Entries(d) : KeyVariable(d, e) \in Exported \cup {Null}

\* check_open_file_limit.
FitsLimit(d) == Margin + MapThenSumSet(LAMBDA name : Lane(d, name), Lanes) <= FileLimit

\* What main lets pass before it looks at the input.
Usable(d) == Accepts(d) /\ ResolvesKeys(d) /\ FitsLimit(d)

\* A prompt is its id.  What is accepted has lists in the places of lists, and an
\* entry has the counts of its stage: samples and refinements of a checkpoint,
\* judgments of the others.
ASSUME PromptAssumption ==
  \A p, q \in PromptFiles : p.parts \in Seq(STRING) /\ (p.parts = q.parts => p = q)
ASSUME DocumentAssumption ==
  \A d \in Documents : Accepts(d) =>
    /\ \A list \in {d.checkpoints, d.verifiers} \cup (IF Given(d.judges) THEN {d.judges} ELSE {}) :
         /\ Len(list) \in Nat /\ DOMAIN list = 1..Len(list)
         /\ \A i \in DOMAIN list : list[i].id.parts \in Seq(STRING) /\ 1 \in DOMAIN list[i].counts
    /\ \A i \in DOMAIN d.checkpoints : 2 \in DOMAIN d.checkpoints[i].counts
    /\ Len(d.search.generation_prompts) \in Nat
    /\ DOMAIN d.search.generation_prompts = 1..Len(d.search.generation_prompts)

-----------------------------------------------------------------------------
(* experiment_keys, derived_counts *)

SpecKeys(entries) ==
  [i \in DOMAIN entries |-> [id |-> entries[i].id.parts, model |-> entries[i].model,
     max_len |-> entries[i].max_len, max_tokens |-> entries[i].max_tokens, counts |-> entries[i].counts]]

BudgetKeys(b) ==
  IF Given(b) THEN [tokenizer |-> b.tokenizer, margin |-> Optional(b.safety_margin_tokens, 4096)]
  ELSE Null

BugExperimentKeys(d) ==
  [checkpoints |-> SpecKeys(d.checkpoints), verifiers |-> SpecKeys(d.verifiers),
   judges |-> IF Given(d.judges) THEN SpecKeys(d.judges) ELSE Null,
   search |-> d.search, sampling |-> Optional(d.sampling, DefaultSampling),
   context_budget |-> BudgetKeys(d.context_budget)]
ExperimentKeys(d) ==
  [checkpoints |-> SpecKeys(d.checkpoints), verifiers |-> SpecKeys(d.verifiers),
   judges |-> IF Given(d.judges) THEN SpecKeys(d.judges) ELSE Null,
   search |-> d.search, sampling |-> Optional(d.sampling, DefaultSampling),
   extra_body |-> Optional(d.endpoint.extra_body, {}),
   context_budget |-> BudgetKeys(d.context_budget)]

Total(entries, n) == MapThenSumSet(LAMBDA i : entries[i].counts[n], DOMAIN entries)
DerivedCounts(d) ==
  [generations_per_problem |-> Len(d.search.generation_prompts) * Total(d.checkpoints, 1),
   judgments_per_proof |-> Total(d.verifiers, 1),
   refinements_per_round |-> d.search.refinement_prompts_per_round * Total(d.checkpoints, 2),
   judgments_per_finalist |-> IF Given(d.judges) THEN Total(d.judges, 1) ELSE 0]

-----------------------------------------------------------------------------
(* The requests of one problem (orchestrator.py, selection.py): what the    *)
(* identity of each is made of in one round, for one proof or one finalist, *)
(* and what it is sent with.                                                *)

GenIdentity(prompt, id, slot) == prompt.parts \o id \o <<slot>>
RefineIdentity(trial, id, slot) == <<trial>> \o id \o <<slot>>
PanelIdentity(id, slot) == id \o <<slot>>

Slots(e, n) == 0..(e.counts[n] - 1)
Sent(d, e, identity) ==
  [identity |-> identity, model |-> e.model, max_len |-> e.max_len, max_tokens |-> e.max_tokens,
   sampling |-> Optional(d.sampling, DefaultSampling), extra_body |-> Optional(d.endpoint.extra_body, {}),
   context_budget |-> BudgetKeys(d.context_budget)]

Prompts(d) == {d.search.generation_prompts[i] : i \in DOMAIN d.search.generation_prompts}
EntriesOf(entries) == {entries[i] : i \in DOMAIN entries}

Generations(d) ==
  UNION {UNION {{Sent(d, c, GenIdentity(p, c.id.parts, s)) : s \in Slots(c, 1)} :
           p \in Prompts(d)} : c \in EntriesOf(d.checkpoints)}
Refinements(d) ==
  UNION {UNION {{Sent(d, c, RefineIdentity(t, c.id.parts, s)) : s \in Slots(c, 2)} :
           t \in 0..(d.search.refinement_prompts_per_round - 1)} : c \in EntriesOf(d.checkpoints)}
Panel(d, entries) ==
  UNION {{Sent(d, e, PanelIdentity(e.id.parts, s)) : s \in Slots(e, 1)} : e \in EntriesOf(entries)}

\* Everything an experiment asks for.
Work(d) ==
  [generations |-> Generations(d), refinements |-> Refinements(d),
   verifications |-> Panel(d, d.verifiers),
   judgments |-> IF Given(d.judges) THEN Panel(d, d.judges) ELSE {},
   max_rounds |-> d.search.max_rounds,
   order |-> [i \in DOMAIN d.checkpoints |-> d.checkpoints[i].id.parts]]

Identities(requests) == {r.identity : r \in requests}

\* No id has a colon of its own.
Plain(d) ==
  /\ \A e \in Entries(d) : Len(e.id.parts) = 1
  /\ \A p \in Prompts(d) : Len(p.parts) = 1
=============================================================================
