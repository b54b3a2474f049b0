------------------------------ MODULE MCSandbox ------------------------------
EXTENDS Sandbox

CONSTANTS n1, n2

Nothing == [n \in Nodes |-> {}]
\* Another service holds the first port of n1, and the first retry port too.
FirstTwo == [n \in Nodes |-> IF n = n1 THEN {1, 3} ELSE {}]
=============================================================================
