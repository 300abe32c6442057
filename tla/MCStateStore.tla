---------------------------- MODULE MCStateStore ----------------------------
(* Small instance of StateStore. *)
EXTENDS StateStore, TLC

CONSTANTS c1, c2, name, id, e1, e2

TwoCallers == {c1, c2}
OneName    == {name}
OneJob     == {id}
TwoEntries == {e1, e2}

Symmetry == Permutations(TwoCallers) \cup Permutations(TwoEntries)
=============================================================================
