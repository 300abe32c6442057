----------------------------- MODULE MCTreeCopy -----------------------------
(* A small tree: "v" is an episode with the thumbnail "i", "y" the same episode
   with the release year in its name, "n" a file that is no video. *)
EXTENDS TreeCopy

CONSTANTS absent, directory, foreign, thumbnail, empty, noName

SmallTree == << <<>>, <<"i">>, <<"s">>, <<"s", "n">>, <<"v">>, <<"y">> >>
SmallFolders == {<<>>, <<"s">>}

Names == {"i", "s", "n", "v", "y", "j"}
Fixed == [n \in Names |-> IF n = "y" THEN "v" ELSE n]
Thumb == [n \in Names |-> CASE n = "v" -> "i" [] n = "y" -> "j" [] OTHER -> noName]

SmallPlaces == {<<>>, <<"i">>, <<"j">>, <<"s">>, <<"v">>, <<"y">>,
                <<"s", "n">>, <<"s", "n", "n">>, <<"i", "i">>,
                <<"v", "v">>, <<"v", "i">>, <<"y", "y">>, <<"y", "v">>, <<"y", "j">>, <<"y", "i">>}

Showing(files, directories) ==
  [q \in SmallPlaces |-> IF q \in files THEN foreign
                         ELSE IF q \in directories THEN directory ELSE absent]
SmallBefore == {Showing({}, {}), Showing({<<"i">>, <<"s", "n">>}, {<<>>, <<"s">>}),
                Showing({<<"y">>}, {<<>>, <<"v">>})}

Plain     == NoRequest
Merging   == [NoRequest EXCEPT !.overwrite = TRUE, !.preserveTime = TRUE]
Adding    == [NoRequest EXCEPT !.noClobber = TRUE, !.preserveTime = TRUE, !.fixNames = TRUE]
Media     == [NoRequest EXCEPT !.overwrite = TRUE, !.fixNames = TRUE, !.thumbnails = TRUE]
Planning  == [NoRequest EXCEPT !.overwrite = TRUE, !.dryRun = TRUE]
AddMedia  == [NoRequest EXCEPT !.noClobber = TRUE, !.thumbnails = TRUE]

SmallRequests == {Plain, Merging, Adding, AddMedia, Media, Planning}
=============================================================================
