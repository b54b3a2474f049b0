------------------------------- MODULE MCRecords -------------------------------
(* Constants for TLC: two verifiers with two judgments each, and a judgment of a *)
(* finalist, which is listed under its slot too.                                 *)
EXTENDS Records

CONSTANTS cut, s1

TheIds == Votes
ThePlaces == [i \in Ids |-> 1]
NoSlots == [i \in Ids |-> {}]
AnyTear == {"part", "whole"}
=============================================================================
