------------------------------ MODULE MCUpload ------------------------------
(* Small instances of Upload. *)
EXTENDS Upload, TLC

CONSTANTS t1, t2, f1, f2, f3, f4

OneTransfer  == {t1}
TwoTransfers == {t1, t2}
ThreeFiles   == {f1, f2, f3}
FourFiles    == {f1, f2, f3, f4}

\* Two versions that differ after the prefix, one that differs in it and one
\* that is a prefix of others.
FourVersions == {<<"a", "b">>, <<"a", "c">>, <<"d", "c">>, <<"a">>}
OneVersion   == {<<"a", "b">>}
ForeignFile   == <<"foreign">>

Plain     == NoOptions
Resuming  == [NoOptions EXCEPT !.resume = TRUE]
Replacing == [Resuming EXCEPT !.overwrite = TRUE]
Keeping   == [NoOptions EXCEPT !.noClobber = TRUE]
Planning  == [NoOptions EXCEPT !.dryRun = TRUE]

AllOptions   == {Plain, Resuming, Replacing, Keeping, Planning}
PlainOptions == {Plain}

\* What was in an inode that has been reclaimed makes no difference.
Reclaimed == [f \in Files |-> IF f \in Unused THEN NoFile ELSE file[f]]
Distinct == <<source, dest, partial, sidecar, Reclaimed, xfer, versions, decayed>>

FileSymmetry == Permutations(ThreeFiles)
PairSymmetry == Permutations(FourFiles) \cup Permutations(TwoTransfers)
=============================================================================
