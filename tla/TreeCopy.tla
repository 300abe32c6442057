------------------------------ MODULE TreeCopy ------------------------------
(***************************************************************************)
(* The copy of a directory tree in either direction: copyDirectory and     *)
(* downloadDirectory of internal/transfer/engine.go, with what they do to  *)
(* one file seen from the outside (Upload and Download look inside): the   *)
(* choice of its name, its publication and its placeholder thumbnail.      *)
(*                                                                         *)
(* Paths are sequences of names relative to the two roots.  While a copy   *)
(* walks, files appear in and vanish from the source, and the user works   *)
(* on the destination with the browser of the desktop application.         *)
(***************************************************************************)
EXTENDS Naturals, Sequences, FiniteSets, SequencesExt

CONSTANTS
  Walk,       \* the paths the source may have, in the order of a sorted walk
  Folders,    \* those that are directories; the others are regular files
  Places,     \* paths of the destination
  FixedName,  \* function: a name without the release year before an episode
  ThumbName,  \* function: the name of an episode's thumbnail, or NoName
  NoName,     \* null value
  Absent, Directory, Foreign, Thumbnail, Empty,  \* what a place may show,
              \* beside the source file whose copy it is
  Before,     \* what the destination may show at first
  Requests,   \* the options a copy may be started with
  MaxMeddling \* bound of the model: how often others intervene

Paths == Range(Walk)
Options == [overwrite : BOOLEAN, noClobber : BOOLEAN, preserveTime : BOOLEAN,
            fixNames : BOOLEAN, thumbnails : BOOLEAN, dryRun : BOOLEAN]
Shown == {Absent, Directory, Foreign, Thumbnail, Empty} \cup (Paths \ Folders)

Renamed(q, name) == Append(Front(q), name)

\* Walk lists a tree, and Places has every place a file of it may come to.
ASSUME TreeAssumption ==
  /\ <<>> \in Folders
  /\ Folders \subseteq Paths
  /\ Paths \subseteq Places
  /\ Walk \in Seq(Paths)
  /\ Places \subseteq Seq(DOMAIN FixedName)
  /\ \A p \in Paths : \A n \in 0..(Len(p) - 1) : SubSeq(p, 1, n) \in Folders
  /\ \A p \in Places : p # <<>> => Front(p) \in Places
  /\ \A p \in Paths \ Folders : Append(p, Last(p)) \in Places
  /\ \A q \in Places : q # <<>> =>
       /\ Renamed(q, FixedName[Last(q)]) \in Places
       /\ ThumbName[Last(q)] # NoName => Renamed(q, ThumbName[Last(q)]) \in Places
  /\ {Absent, Directory, Foreign, Thumbnail, Empty} \cap Paths = {}
  /\ Absent \notin {Directory, Foreign, Thumbnail, Empty}
  /\ Directory \notin {Foreign, Thumbnail, Empty}
  /\ Before \subseteq [Places -> Shown]
  /\ Requests \subseteq Options
  /\ MaxMeddling \in Nat

VARIABLES
  uploading,  \* the destination is on the server
  source,     \* the paths of the source that exist
  dest,       \* what each place of the destination shows
  dirs,       \* of each directory there: whose mode it has, who touched it last
  copy,       \* the copy in progress
  stable,     \* history: paths of the source that existed all along
  disturbed,  \* history: places others have changed during the copy
  meddling    \* how often others may still intervene

vars == <<uploading, source, dest, dirs, copy, stable, disturbed, meddling>>

NoRequest == [overwrite |-> FALSE, noClobber |-> FALSE, preserveTime |-> FALSE,
              fixNames |-> FALSE, thumbnails |-> FALSE, dryRun |-> FALSE]
Idle == [pc |-> "idle", request |-> NoRequest, pending |-> {}, target |-> <<>>,
         partial |-> FALSE, visited |-> <<>>, left |-> 0]

Init ==
  /\ uploading \in BOOLEAN
  /\ source = Paths
  /\ dest \in Before
  /\ dirs = [q \in Places |-> [mode |-> "others", time |-> "others"]]
  /\ copy = Idle
  /\ stable = Paths
  /\ disturbed = {}
  /\ meddling = MaxMeddling

-----------------------------------------------------------------------------
At(pc) == copy.pc = pc
Goto(pc) == copy' = [copy EXCEPT !.pc = pc]

\* The walk visits what it has listed in the order of Walk.
Rank(p) == CHOOSE i \in DOMAIN Walk : Walk[i] = p
First(S) == CHOOSE p \in S : \A q \in S : Rank(p) <= Rank(q)
Current == First(copy.pending)

Below(q) == {r \in Places : IsPrefix(q, r)}
Above(q) == {r \in Places : IsPrefix(r, q)}

\* The directories after the entries S were made, and others touched, by who.
Touched(S, parents, who) ==
  [q \in Places |-> [mode |-> IF q \in S THEN "default" ELSE dirs[q].mode,
                     time |-> IF q \in S \cup parents THEN who ELSE dirs[q].time]]

\* MkdirAll makes the missing directories of a path; a file in the way stops it.
Missing(q) == {r \in Above(q) : dest[r] = Absent}
CanMake(q) == \A r \in Above(q) : dest[r] \in {Absent, Directory}
MkdirAll(q, alsoTouched) ==
  /\ CanMake(q)
  /\ dest' = [r \in Places |-> IF r \in Missing(q) THEN Directory ELSE dest[r]]
  /\ dirs' = Touched(Missing(q), {Front(r) : r \in Missing(q)} \cup alsoTouched, "copy")

ThumbOf(q) == Renamed(q, ThumbName[Last(q)])

-----------------------------------------------------------------------------
(***************************************************************************)
(* The walk of the directories.                                            *)
(***************************************************************************)
\* Copy and Download: the root may exist only if that was asked for.
Begin(request) ==
  /\ copy.pc \in {"idle", "done"}
  /\ ~(request.overwrite /\ request.noClobber)
  /\ dest[<<>>] = Absent \/ request.overwrite \/ request.noClobber
  /\ copy' = [Idle EXCEPT !.pc = "walk", !.request = request, !.pending = {<<>>}]
  /\ stable' = source
  /\ disturbed' = {}
  /\ UNCHANGED <<uploading, source, dest, dirs, meddling>>

\* A directory is recorded and, unless this is a dry run, made.
VisitFolder ==
  /\ At("walk") /\ copy.pending # {} /\ Current \in Folders
  /\ copy' = [copy EXCEPT !.visited = Append(@, Current),
                          !.pc = IF uploading /\ ~copy.request.dryRun THEN "restrict" ELSE "list"]
  /\ \/ copy.request.dryRun /\ UNCHANGED <<dest, dirs>>
     \/ ~copy.request.dryRun /\ MkdirAll(Current, {})
  /\ UNCHANGED <<uploading, source, stable, disturbed, meddling>>

\* Fault: a directory that others had made keeps their mode.
RestrictOwnFolder ==
  /\ At("restrict")
  /\ dest[Current] = Directory
  /\ dirs' = IF dirs[Current].mode = "default"
             THEN [dirs EXCEPT ![Current].mode = "policy"] ELSE dirs
  /\ Goto("list")
  /\ UNCHANGED <<uploading, source, dest, stable, disturbed, meddling>>

\* An upload applies the group and the mode of the policy, also to a directory
\* that existed.
RestrictFolder ==
  /\ At("restrict")
  /\ dest[Current] = Directory
  /\ dirs' = [dirs EXCEPT ![Current].mode = "policy"]
  /\ Goto("list")
  /\ UNCHANGED <<uploading, source, dest, stable, disturbed, meddling>>

\* Fault: what the walk had listed before is forgotten.
ListFolderOnly ==
  /\ At("list")
  /\ copy' = [copy EXCEPT !.pc = "walk",
                          !.pending = {p \in source : p # <<>> /\ Front(p) = Current}]
  /\ UNCHANGED <<uploading, source, dest, dirs, stable, disturbed, meddling>>

\* Then the entries of the directory are read.
ListFolder ==
  /\ At("list")
  /\ copy' = [copy EXCEPT !.pc = "walk",
                          !.pending = (@ \ {Current}) \cup
                             {p \in source : p # <<>> /\ Front(p) = Current}]
  /\ UNCHANGED <<uploading, source, dest, dirs, stable, disturbed, meddling>>

-----------------------------------------------------------------------------
(***************************************************************************)
(* One file: copyFile and downloadFile.                                    *)
(***************************************************************************)
\* resolveDestination: into a directory of that name, then under a fixed name.
Appended(p) == IF dest[p] = Directory THEN Append(p, Last(p)) ELSE p
NameFor(q, request) == IF request.fixNames THEN Renamed(q, FixedName[Last(q)]) ELSE q
TargetOf(p) == NameFor(Appended(p), copy.request)

FileDone == copy' = [copy EXCEPT !.pc = "walk", !.pending = @ \ {Current},
                                 !.target = <<>>, !.partial = FALSE]

\* Fault: the existing destination is looked for under the name it had before.
ResolveUnfixed ==
  LET target == TargetOf(Current)
      seen   == dest[Appended(Current)]
  IN /\ At("walk") /\ copy.pending # {} /\ Current \notin Folders
     /\ Current \in source
     /\ \/ seen # Absent /\ copy.request.noClobber /\ FileDone
        \/ /\ seen = Absent \/ copy.request.overwrite
           /\ \/ copy.request.dryRun /\ FileDone
              \/ /\ ~copy.request.dryRun
                 /\ copy' = [copy EXCEPT !.pc = "receive", !.target = target]
     /\ UNCHANGED <<uploading, source, dest, dirs, stable, disturbed, meddling>>

\* A dry run and a file that is skipped end here; an existing destination is
\* an error otherwise.
Resolve ==
  LET target == TargetOf(Current)
  IN /\ At("walk") /\ copy.pending # {} /\ Current \notin Folders
     /\ Current \in source
     /\ \/ dest[target] # Absent /\ copy.request.noClobber /\ FileDone
        \/ /\ dest[target] = Absent \/ copy.request.overwrite
           /\ \/ copy.request.dryRun /\ FileDone
              \/ /\ ~copy.request.dryRun
                 /\ copy' = [copy EXCEPT !.pc = "receive", !.target = target]
     /\ UNCHANGED <<uploading, source, dest, dirs, stable, disturbed, meddling>>

\* The parent is made if need be, and the partial file in it.
Receive ==
  /\ At("receive")
  /\ MkdirAll(Front(copy.target), {Front(copy.target)})
  /\ copy' = [copy EXCEPT !.pc = "verify", !.partial = TRUE]
  /\ UNCHANGED <<uploading, source, stable, disturbed, meddling>>

\* The source is still there, and what arrived is what it has.
Verify ==
  /\ At("verify")
  /\ Current \in source
  /\ Goto(IF copy.request.overwrite THEN "replace" ELSE "publish")
  /\ UNCHANGED <<uploading, source, dest, dirs, stable, disturbed, meddling>>

\* Overwrite removes what is there: a file, or a directory if it is empty.
Replace ==
  /\ At("replace")
  /\ \A r \in Below(copy.target) \ {copy.target} : dest[r] = Absent
  /\ dest' = [dest EXCEPT ![copy.target] = Absent]
  /\ dirs' = IF dest[copy.target] = Absent THEN dirs
             ELSE Touched({}, {Front(copy.target)}, "copy")
  /\ Goto("publish")
  /\ UNCHANGED <<uploading, source, stable, disturbed, meddling>>

\* The rename: on the server it does not replace, locally it replaces a file.
Publish ==
  /\ At("publish")
  /\ copy.partial
  /\ dest[copy.target] = Absent \/ (~uploading /\ dest[copy.target] # Directory)
  /\ dest' = [dest EXCEPT ![copy.target] = Current]
  /\ dirs' = Touched({}, {Front(copy.target)}, "copy")
  /\ IF copy.request.thumbnails /\ ThumbName[Last(copy.target)] # NoName
     THEN Goto("thumbnail") ELSE FileDone
  /\ UNCHANGED <<uploading, source, stable, disturbed, meddling>>

\* uploadThumbnail and downloadThumbnail: the file is opened and truncated ...
OpenThumbnail ==
  LET thumb == ThumbOf(copy.target)
  IN /\ At("thumbnail")
     /\ dest[Front(thumb)] = Directory /\ dest[thumb] # Directory
     /\ dest' = [dest EXCEPT ![thumb] = Empty]
     /\ dirs' = IF dest[thumb] # Absent THEN dirs
                ELSE Touched({}, {Front(thumb)}, "copy")
     /\ Goto("fill")
     /\ UNCHANGED <<uploading, source, stable, disturbed, meddling>>

\* ... and written; its mode is set by name.
FillThumbnail ==
  LET thumb == ThumbOf(copy.target)
  IN /\ At("fill")
     /\ uploading => dest[thumb] # Absent
     /\ dest' = IF dest[thumb] = Empty THEN [dest EXCEPT ![thumb] = Thumbnail] ELSE dest
     /\ FileDone
     /\ UNCHANGED <<uploading, source, dirs, stable, disturbed, meddling>>

-----------------------------------------------------------------------------
\* Fault: the loop over the directories starts after the last one.
EndWalkBeyond ==
  /\ At("walk") /\ copy.pending = {}
  /\ copy' = [copy EXCEPT !.pc = "times",
       !.left = IF copy.request.preserveTime /\ ~copy.request.dryRun
                THEN Len(copy.visited) + 1 ELSE 0]
  /\ UNCHANGED <<uploading, source, dest, dirs, stable, disturbed, meddling>>

\* After the walk, the recorded directories get the time they had when they
\* were visited, the last one first.
EndWalk ==
  /\ At("walk") /\ copy.pending = {}
  /\ copy' = [copy EXCEPT !.pc = "times",
       !.left = IF copy.request.preserveTime /\ ~copy.request.dryRun
                THEN Len(copy.visited) ELSE 0]
  /\ UNCHANGED <<uploading, source, dest, dirs, stable, disturbed, meddling>>

SetTime ==
  LET folder == copy.visited[copy.left]
  IN /\ At("times") /\ copy.left > 0
     /\ dest[folder] = Directory
     /\ dirs' = [dirs EXCEPT ![folder].time = "source"]
     /\ copy' = [copy EXCEPT !.left = @ - 1]
     /\ UNCHANGED <<uploading, source, dest, stable, disturbed, meddling>>

\* Fault: the loop over the directories ends before the first one, the root.
SucceedEarly ==
  /\ At("times") /\ copy.left <= 1
  /\ Goto("done")
  /\ UNCHANGED <<uploading, source, dest, dirs, stable, disturbed, meddling>>

Succeed ==
  /\ At("times") /\ copy.left = 0
  /\ Goto("done")
  /\ UNCHANGED <<uploading, source, dest, dirs, stable, disturbed, meddling>>

\* Every error return, the cancelled context and the end of the process.
Stop ==
  /\ copy.pc \notin {"idle", "done"}
  /\ copy' = Idle
  /\ UNCHANGED <<uploading, source, dest, dirs, stable, disturbed, meddling>>

-----------------------------------------------------------------------------
(***************************************************************************)
(* What others do.                                                         *)
(***************************************************************************)
Meddle == meddling > 0 /\ meddling' = meddling - 1

\* A file appears in the source or vanishes from it.
EditSource ==
  /\ Meddle
  /\ \E p \in Paths \ Folders :
       /\ source' = IF p \in source THEN source \ {p} ELSE source \cup {p}
       /\ stable' = stable \ {p}
  /\ UNCHANGED <<uploading, dest, dirs, copy, disturbed>>

\* DeleteRemotePaths and DeleteLocalPaths, with all that is below a directory
\* and the partial file of a transfer in it.
Delete(q) ==
  /\ Meddle
  /\ dest[q] # Absent
  /\ dest' = [r \in Places |-> IF r \in Below(q) THEN Absent ELSE dest[r]]
  /\ dirs' = Touched({}, {Front(q)}, "others")
  /\ copy' = IF IsPrefix(q, Front(copy.target)) THEN [copy EXCEPT !.partial = FALSE] ELSE copy
  /\ disturbed' = disturbed \cup Below(q)
  /\ UNCHANGED <<uploading, source, stable>>

\* FixRemoteMediaNames renames a file on the server unless the name is taken.
FixRemoteMediaName(q) ==
  LET fixed == Renamed(q, FixedName[Last(q)])
  IN /\ Meddle /\ uploading
     /\ q # <<>> /\ dest[q] \notin {Absent, Directory}
     /\ dest[fixed] = Absent
     /\ dest' = [dest EXCEPT ![fixed] = dest[q], ![q] = Absent]
     /\ dirs' = Touched({}, {Front(q)}, "others")
     /\ disturbed' = disturbed \cup {q, fixed}
     /\ UNCHANGED <<uploading, source, copy, stable>>

\* GenerateRemoteThumbnails may fail between the truncation and the write.
GenerateRemoteThumbnail(q) ==
  LET thumb == ThumbOf(q)
  IN /\ Meddle /\ uploading
     /\ q # <<>> /\ dest[q] # Absent /\ ThumbName[Last(q)] # NoName
     /\ dest[thumb] # Directory
     /\ \E shown \in {Empty, Thumbnail} : dest' = [dest EXCEPT ![thumb] = shown]
     /\ dirs' = IF dest[thumb] # Absent THEN dirs ELSE Touched({}, {Front(q)}, "others")
     /\ disturbed' = disturbed \cup {thumb}
     /\ UNCHANGED <<uploading, source, copy, stable>>

Browse == \E q \in Places : Delete(q) \/ FixRemoteMediaName(q) \/ GenerateRemoteThumbnail(q)

-----------------------------------------------------------------------------
WalkTree == VisitFolder \/ RestrictFolder \/ ListFolder \/ EndWalk \/ SetTime \/ Succeed

CopyOneFile == Resolve \/ Receive \/ Verify \/ Replace \/ Publish
               \/ OpenThumbnail \/ FillThumbnail

Copying == (\E request \in Requests : Begin(request)) \/ WalkTree \/ CopyOneFile \/ Stop

Next == Copying \/ EditSource \/ Browse

Spec == Init /\ [][Next]_vars

-----------------------------------------------------------------------------
(***************************************************************************)
(* Properties.                                                             *)
(***************************************************************************)
Phases == {"idle", "walk", "restrict", "list", "receive", "verify", "replace",
           "publish", "thumbnail", "fill", "times", "done"}

\* Every variable keeps the shape of the structure or directory it stands for.
TypeOK ==
  /\ uploading \in BOOLEAN
  /\ source \in SUBSET Paths /\ Folders \subseteq source
  /\ dest \in [Places -> Shown]
  /\ dirs \in [Places -> [mode : {"others", "default", "policy"},
                          time : {"others", "copy", "source"}]]
  /\ copy.pc \in Phases
  /\ copy.request \in Requests \cup {NoRequest}
  /\ copy.pending \subseteq Paths
  /\ copy.target \in Places /\ copy.partial \in BOOLEAN
  /\ Range(copy.visited) \subseteq Folders
  /\ copy.left \in 0..Len(copy.visited)
  /\ stable \subseteq source
  /\ disturbed \subseteq Places
  /\ meddling \in 0..MaxMeddling

Succeeded == At("done") /\ ~copy.request.dryRun
Visited == Range(copy.visited)

\* Where a file may land: under its name, or in a directory of that name.
Landings(p) == {NameFor(q, copy.request) : q \in {p, Append(p, Last(p))}}

\* What a place shows after a copy that wanted to put p there: p, what was there
\* when existing files are to be kept, or what a later file of the same copy
\* brought, whose fixed name or thumbnail is the same.
Accounted(p, q) ==
  \/ q \in disturbed
  \/ dest[q] = p
  \/ copy.request.noClobber /\ dest[q] # Absent
  \/ \E r \in Paths \ Folders : dest[q] = r /\ q \in Landings(r)
  \/ copy.request.thumbnails /\ dest[q] = Thumbnail

\* When a copy reports success, every directory, and every file that was in the
\* source all along, has its place at the destination.
TreeIsComplete ==
  Succeeded => /\ \A d \in Folders : dest[d] = Directory \/ d \in disturbed
               /\ \A p \in stable \ Folders : \E q \in Landings(p) : Accounted(p, q)

\* ... every directory of an upload has the mode of the policy, ...
FoldersCarryPolicy ==
  Succeeded /\ uploading =>
    \A d \in Visited : dirs[d].mode = "policy" \/ d \in disturbed

\* ... and, if asked for, no directory has the time of a change the copy made.
FolderTimesPreserved ==
  Succeeded /\ copy.request.preserveTime =>
    \A d \in Visited : dirs[d].time # "copy" \/ d \in disturbed

\* A dry run changes nothing; a copy that may not overwrite changes no file but
\* the thumbnail of an episode.
OnlyAskedChanges ==
  [][\A q \in Places : meddling' = meddling /\ dest'[q] # dest[q] =>
       /\ ~copy.request.dryRun
       /\ \/ dest[q] = Absent
          \/ copy.request.overwrite
          \/ copy.request.thumbnails /\ q = ThumbOf(copy.target)]_vars
=============================================================================
