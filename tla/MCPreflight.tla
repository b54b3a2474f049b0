----------------------------- MODULE MCPreflight -----------------------------
(* Constants for TLC: a configuration with two checkpoints and one of everything *)
(* else, and documents that differ from it in a few places.                      *)
EXTENDS Preflight, TLC

CONSTANTS v1, v2

\* Two problem sets, one the beginning of the other, and one that is invalid.
SomeInputs == {<<1, 2>>, <<1>>, <<1, 1>>}

Id(parts) == [parts |-> parts, padded |-> FALSE]
Entry(id, counts) ==
  [id |-> id, model |-> "m", max_len |-> 4, max_tokens |-> 2, base_url |-> Absent,
   api_key_env |-> Absent, counts |-> counts]

Base ==
  [wellFormed |-> TRUE,
   endpoint |-> [base_url |-> "u", api_key_env |-> "KEY", timeout_s |-> Absent,
                 retry_window_s |-> Absent, extra_body |-> Absent],
   checkpoints |-> <<Entry(Id(<<"c">>), <<1, 2>>), Entry(Id(<<"x", "c">>), <<1, 1>>)>>,
   verifiers |-> <<Entry(Id(<<"c">>), <<2>>)>>,
   judges |-> <<Entry(Id(<<"c">>), <<1>>)>>,
   search |-> [generation_prompts |-> <<Id(<<"p">>)>>, max_rounds |-> 2,
               refinement_prompts_per_round |-> 2],
   sampling |-> Absent, input |-> "problems",
   concurrency |-> [name \in DOMAIN DefaultLane |-> IF name = "problems" THEN Null ELSE 10],
   context_budget |-> [tokenizer |-> "t", safety_margin_tokens |-> Absent]]

\* The experiment is the same: defaults spelled out, other endpoints and lanes.
SameExperiments ==
  {[Base EXCEPT !.endpoint.base_url = "v", !.endpoint.api_key_env = Null,
                !.endpoint.retry_window_s = 0, !.concurrency["judging"] = 20,
                !.checkpoints[1].id.padded = TRUE, !.endpoint.extra_body = Null,
                !.context_budget.safety_margin_tokens = 4096]}

OtherExperiments ==
  {[Base EXCEPT !.endpoint.extra_body = {"think"}],
   [Base EXCEPT !.judges = Null],
   [Base EXCEPT !.checkpoints[2].id = Id(<<"d">>), !.search.generation_prompts = <<Id(<<"p">>), Id(<<"q">>)>>],
   \* p:x with c, and p with x:c, are one identity.
   [Base EXCEPT !.search.generation_prompts = <<Id(<<"p">>), Id(<<"p", "x">>)>>]}

Refused ==
  {[Base EXCEPT !.checkpoints[2].id = [parts |-> <<"c">>, padded |-> TRUE]],
   [Base EXCEPT !.judges[1].api_key_env = "UNSET", !.concurrency["judging"] = Absent]}

TheDocuments == {Base} \cup SameExperiments \cup OtherExperiments \cup Refused
\* Versions of the prompt files are only compared.
TheVersions == {v1, v2}
Sym == Permutations(TheVersions)

ThePrompts == {Id(<<"p">>), Id(<<"q">>), Id(<<"p", "x">>)}
=============================================================================
