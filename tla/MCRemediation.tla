--------------------------- MODULE MCRemediation ---------------------------
EXTENDS Remediation, TLC

Symmetric == Permutations(Worker) \union Permutations(Decider)
=============================================================================
