----------------------------- MODULE MCDownload -----------------------------
(* Small instances of Download. *)
EXTENDS Download, TLC

CONSTANTS t1, f1, f2, f3

OneTransfer == {t1}
ThreeFiles  == {f1, f2, f3}

\* Two versions that differ after the prefix, one that differs in it and one
\* that is a prefix of others.
FourVersions == {<<"a", "b">>, <<"a", "c">>, <<"d", "c">>, <<"a">>}
ForeignFile  == <<"foreign">>

Plain     == NoOptions
Resuming  == [NoOptions EXCEPT !.resume = TRUE]
Replacing == [Resuming EXCEPT !.overwrite = TRUE]
Keeping   == [NoOptions EXCEPT !.noClobber = TRUE]
Planning  == [NoOptions EXCEPT !.dryRun = TRUE]

AllOptions    == {Plain, Resuming, Replacing, Keeping, Planning}

\* What was in an inode that has been reclaimed makes no difference.
Reclaimed == [f \in Files |-> IF f \in Unused THEN NoFile ELSE file[f]]
Distinct == <<source, dest, partial, sidecar, Reclaimed, xfer, versions>>

FileSymmetry == Permutations(ThreeFiles)
=============================================================================
