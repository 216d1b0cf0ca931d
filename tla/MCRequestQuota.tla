--------------------------- MODULE MCRequestQuota ---------------------------
(* Instances of RequestQuota for TLC. *)
EXTENDS RequestQuota, TLC

\* Which unused charge each format of one transaction gets is chosen, but
\* charges are compared only within a user and a format (Newest), and a format
\* has one covering row: swapping formats or rows changes names alone.
Symmetry == Permutations(User \ Admin) \union Permutations(Request) \union Permutations(Format)

\* One request in the shorter window, by default; some users have an override
\* that allows none and looks further back.
MCSettings ==
    {[uf \in User \X Format |-> IF uf[1] \in over THEN [count |-> 0, window |-> 2]
                                ELSE [count |-> 1, window |-> 1]] : over \in SUBSET User}
=============================================================================
