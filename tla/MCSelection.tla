------------------------------ MODULE MCSelection ------------------------------
EXTENDS Selection, TLC

CONSTANTS f, g, j

OneEach == [x \in Judges |-> 1]
\* The finalist that comes first in checkpoint order has the longer proof.
LongerFirst == [x \in Finalists |-> IF x = f THEN 2 ELSE 1]
FirstFirst == [x \in Finalists |-> IF x = f THEN 0 ELSE 1]
=============================================================================
