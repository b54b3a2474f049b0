--------------------------- MODULE MCOrchestrator ---------------------------
(***************************************************************************)
(* Small instances of Orchestrator for TLC.                                *)
(***************************************************************************)
EXTENDS Orchestrator, TLC

CONSTANTS X, Y,          \* proof texts
          rx, ry, bad    \* a response with text X, one with Y, an invalid one

MCReplies  == {rx, ry, bad}
MCProofOf  == rx :> X @@ ry :> Y @@ bad :> NoText
MCSelfEval == rx :> 0 @@ ry :> 1 @@ bad :> 0

(* Samples of each checkpoint.                                             *)
OneEach   == <<1, 1>>
JustOne   == <<1>>
JustTwo   == <<2>>

PassFail    == {"one", "zero"}
AllScores   == {"one", "half", "zero"}
=============================================================================
