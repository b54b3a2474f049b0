------------------------------- MODULE MCDriver -------------------------------
EXTENDS Driver

NoTears == {}
=============================================================================
