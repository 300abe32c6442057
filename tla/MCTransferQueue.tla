-------------------------- MODULE MCTransferQueue --------------------------
(* Small instances of TransferQueue: model values and their symmetry. *)
EXTENDS TransferQueue, TLC

CONSTANTS j1, j2, r1, r2, c1, c2

OneJob   == {j1}
TwoJobs  == {j1, j2}
TwoRuns  == {r1, r2}
OneCaller  == {c1}
TwoCallers == {c1, c2}

NoJobs == {}

CallerSymmetry == Permutations(TwoCallers) \cup Permutations(TwoRuns)
=============================================================================
