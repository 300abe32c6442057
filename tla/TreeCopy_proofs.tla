-------------------------- MODULE TreeCopy_proofs --------------------------
(***************************************************************************)
(* Proofs about TreeCopy for every tree, every destination and every set   *)
(* of names, and any number of attempts and of interventions.              *)
(***************************************************************************)
EXTENDS TreeCopy, SequenceTheorems, WellFoundedInduction, TLAPS

Files == Paths \ Folders

-----------------------------------------------------------------------------
(* The operators *)

\* The null values are no paths and differ where it matters.
LEMMA Marks ==
  /\ Absent \notin Paths /\ Directory \notin Paths /\ Thumbnail \notin Paths /\ Empty \notin Paths
  /\ Absent # Directory /\ Absent # Thumbnail /\ Absent # Empty
  /\ Directory # Thumbnail /\ Directory # Empty
BY TreeAssumption

\* Paths are sequences of names.
LEMMA PathsAreSequences ==
  ASSUME NEW p \in Places
  PROVE  /\ p \in Seq(DOMAIN FixedName) /\ Len(p) \in Nat
         /\ p # <<>> => Len(p) > 0
<1>1. p \in Seq(DOMAIN FixedName)
  BY TreeAssumption
<1> QED
  BY <1>1, EmptySeq, LenProperties

\* A path of the source has a place in the walk, ...
LEMMA RankIsNatural ==
  ASSUME NEW p \in Paths
  PROVE  Rank(p) \in Nat
<1>1. DOMAIN Walk = 1..Len(Walk) /\ Len(Walk) \in Nat
  BY TreeAssumption, LenProperties
<1>2. \E i \in DOMAIN Walk : Walk[i] = p
  BY DEF Paths, Range
<1> QED
  BY <1>1, <1>2 DEF Rank

\* ... so the walk goes on with one of the paths it has listed.
LEMMA FirstIsListed ==
  ASSUME NEW S \in SUBSET Paths, S # {}
  PROVE  First(S) \in S
<1> DEFINE Ranks == {Rank(p) : p \in S}
<1>1. Ranks \subseteq Nat /\ Ranks # {}
  BY RankIsNatural
<1>2. PICK m \in Ranks : \A k \in Ranks : <<k, m>> \notin OpToRel(<, Nat)
  BY <1>1, WFMin, NatLessThanWellFounded, Zenon
<1>3. \A k \in Ranks : ~(k < m)
  BY <1>1, <1>2, Zenon DEF OpToRel
<1>4. m \in Ranks /\ \A k \in Ranks : m <= k
  <2> HIDE DEF Ranks
  <2> QED
    BY <1>1, <1>3
<1>5. \E p \in S : \A q \in S : Rank(p) <= Rank(q)
  BY <1>4
<1> QED
  BY <1>5 DEF First

LEMMA WholePath ==
  ASSUME NEW p \in Places
  PROVE  SubSeq(p, 1, Len(p)) = p
BY PathsAreSequences, SubSeqProperties, SeqEqual, ElementOfSeq

\* From one directory above a path to the next there is one name.
LEMMA NextOnTheWay ==
  ASSUME NEW p \in Paths, NEW n \in 0..(Len(p) - 1)
  PROVE  /\ SubSeq(p, 1, n + 1) # <<>>
         /\ Front(SubSeq(p, 1, n + 1)) = SubSeq(p, 1, n)
<1> DEFINE S == DOMAIN FixedName
           t == SubSeq(p, 1, n + 1)
<1>1. p \in Seq(S) /\ Len(p) \in Nat
  BY TreeAssumption, PathsAreSequences
<1>2. t \in Seq(S) /\ Len(t) = n + 1 /\ \A i \in 1..(n + 1) : t[i] = p[i]
  BY <1>1, SubSeqProperties, ElementOfSeq
<1>3. SubSeq(p, 1, n) \in Seq(S) /\ Len(SubSeq(p, 1, n)) = n
      /\ \A i \in 1..n : SubSeq(p, 1, n)[i] = p[i]
  BY <1>1, SubSeqProperties, ElementOfSeq
<1>4. SubSeq(t, 1, n) \in Seq(S) /\ Len(SubSeq(t, 1, n)) = n
      /\ \A i \in 1..n : SubSeq(t, 1, n)[i] = t[i]
  BY <1>2, SubSeqProperties, ElementOfSeq
<1>5. SubSeq(t, 1, n) = SubSeq(p, 1, n)
  BY <1>2, <1>3, <1>4, SeqEqual
<1>6. t # <<>>
  <2> HIDE DEF t
  <2> QED
    BY <1>1, <1>2, EmptySeq
<1>7. Front(t) = SubSeq(t, 1, n)
  BY <1>1, <1>2 DEF Front
<1> QED
  BY <1>5, <1>6, <1>7

\* A directory made for a file is not where the file goes.
LEMMA NotAboveItsFolder ==
  ASSUME NEW q \in Places, q # <<>>
  PROVE  q \notin Above(Front(q))
<1>1. q \in Seq(DOMAIN FixedName) /\ Len(q) \in Nat /\ Len(q) > 0
  BY PathsAreSequences
<1>2. \A i \in 1..(Len(q) - 1) : q[i] \in DOMAIN FixedName
  BY <1>1, ElementOfSeq
<1>3. Len(SubSeq(q, 1, Len(q) - 1)) = Len(q) - 1
  <2> DEFINE n == Len(q) - 1
  <2>1. n \in Nat /\ \A i \in 1..n : q[i] \in DOMAIN FixedName
    BY <1>1, <1>2
  <2> HIDE DEF n
  <2>2. Len(SubSeq(q, 1, n)) = n
    BY <2>1, SubSeqProperties
  <2> QED
    BY <2>2 DEF n
<1> QED
  BY <1>1, <1>3 DEF Above, IsPrefix, Front

LEMMA AboveItself ==
  ASSUME NEW q \in Places
  PROVE  q \in Above(q)
BY PathsAreSequences DEF Above, IsPrefix

\* What follows the last name of a path.
LEMMA Appending ==
  ASSUME NEW p \in Places, NEW x
  PROVE  /\ Append(p, x) # <<>>
         /\ SubSeq(Append(p, x), 1, Len(p)) = p
         /\ Front(Append(p, x)) = p
<1> DEFINE S == DOMAIN FixedName \cup {x}
           t == Append(p, x)
<1>1. p \in Seq(S) /\ Len(p) \in Nat
  BY PathsAreSequences, SeqMonotonic
<1>2. t \in Seq(S) /\ Len(t) = Len(p) + 1 /\ \A i \in 1..Len(p) : t[i] = p[i]
  BY <1>1, AppendProperties
<1>3. SubSeq(t, 1, Len(p)) \in Seq(S) /\ Len(SubSeq(t, 1, Len(p))) = Len(p)
      /\ \A i \in 1..Len(p) : SubSeq(t, 1, Len(p))[i] = t[i]
  BY <1>1, <1>2, SubSeqProperties, ElementOfSeq
<1>4. SubSeq(t, 1, Len(p)) = p
  BY <1>1, <1>2, <1>3, SeqEqual
<1>5. t # <<>>
  <2> HIDE DEF t
  <2> QED
    BY <1>1, <1>2, EmptySeq
<1>6. Front(t) = SubSeq(t, 1, Len(p))
  BY <1>1, <1>2 DEF Front
<1> QED
  BY <1>4, <1>5, <1>6

LEMMA EveryRequestHasOptions == Requests \cup {NoRequest} \subseteq Options
<1>1. NoRequest \in Options
  BY DEF NoRequest, Options
<1> QED
  BY <1>1, TreeAssumption

\* The names a file may get are places, and below no other file.
LEMMA NamesOfAFile ==
  ASSUME NEW p \in Files, NEW request \in Options, NEW q \in {p, Append(p, Last(p))}
  PROVE  /\ p # <<>> /\ p \in Places
         /\ q # <<>> /\ q \in Places
         /\ NameFor(q, request) # <<>> /\ NameFor(q, request) \in Places
<1>1. p # <<>> /\ p \in Places /\ Append(p, Last(p)) \in Places
  BY TreeAssumption DEF Files
<1>2. q # <<>> /\ q \in Places
  BY <1>1, Appending
<1>3. Front(q) \in Places /\ Renamed(q, FixedName[Last(q)]) \in Places
  BY <1>2, TreeAssumption
<1>4. Renamed(q, FixedName[Last(q)]) # <<>>
  BY <1>3, Appending DEF Renamed
<1> QED
  BY <1>1, <1>2, <1>3, <1>4 DEF NameFor

-----------------------------------------------------------------------------
(***************************************************************************)
(* The types, and what each step of the copy works on.                     *)
(***************************************************************************)
DirStates == [Places -> [mode : {"others", "default", "policy"},
                         time : {"others", "copy", "source"}]]
CopyStates == [pc : Phases, request : Requests \cup {NoRequest}, pending : SUBSET Paths,
               target : Places, partial : BOOLEAN, visited : Seq(Folders), left : Nat]

Shape ==
  /\ uploading \in BOOLEAN
  /\ source \in SUBSET Paths /\ Folders \subseteq source
  /\ dest \in [Places -> Shown]
  /\ dirs \in DirStates
  /\ copy \in CopyStates
  /\ copy.left <= Len(copy.visited)
  /\ stable \subseteq source
  /\ disturbed \subseteq Places
  /\ meddling \in 0..MaxMeddling

FilePhases == {"receive", "verify", "replace", "publish", "thumbnail", "fill"}
FolderPhases == {"restrict", "list"}

\* The steps for a file are about the file the walk has come to, ...
OnFile == copy.pc \in FilePhases =>
  /\ ~copy.request.dryRun
  /\ copy.pending # {} /\ Current \notin Folders
  /\ copy.target \in Landings(Current)

\* ... those for a directory about one that is recorded, ...
OnFolder == copy.pc \in FolderPhases =>
  /\ copy.pending # {} /\ Current \in Visited
  /\ At("restrict") => ~copy.request.dryRun

\* ... each only if it was asked for, and the walk ends when nothing is left.
AsAsked ==
  /\ At("replace") => copy.request.overwrite
  /\ copy.pc \in {"thumbnail", "fill"} => copy.request.thumbnails
  /\ copy.pc \in {"times", "done"} => copy.pending = {}
  /\ At("done") => copy.left = 0

Focus == OnFile /\ OnFolder /\ AsAsked
-----------------------------------------------------------------------------
LEMMA ShapeImpliesTypeOK == Shape => TypeOK
<1> SUFFICES ASSUME Shape PROVE TypeOK
  OBVIOUS
<1>1. copy.visited \in Seq(Folders) /\ Len(copy.visited) \in Nat /\ copy.left \in Nat
      /\ copy.left <= Len(copy.visited)
  BY LenProperties DEF Shape, CopyStates
<1>2. Range(copy.visited) \subseteq Folders
  BY <1>1, LenProperties, ElementOfSeq DEF Range
<1>3. copy.left \in 0..Len(copy.visited)
  BY <1>1
<1> QED
  BY <1>2, <1>3 DEF Shape, TypeOK, CopyStates, DirStates

\* The directories around a change keep their shape, and only those named change.
LEMMA WhatTouchedDoes ==
  ASSUME dirs \in DirStates, NEW S, NEW parents, NEW who \in {"others", "copy"}
  PROVE  /\ Touched(S, parents, who) \in DirStates
         /\ \A q \in Places :
              /\ q \notin S => Touched(S, parents, who)[q].mode = dirs[q].mode
              /\ Touched(S, parents, who)[q].time \in {who, dirs[q].time}
<1>1. \A q \in Places : dirs[q].mode \in {"others", "default", "policy"}
                        /\ dirs[q].time \in {"others", "copy", "source"}
  BY DEF DirStates
<1> QED
  BY <1>1 DEF Touched, DirStates

\* MkdirAll makes directories of places that were free, all on one path.
LEMMA WhatMkdirAllDoes ==
  ASSUME Shape, NEW q, NEW alsoTouched, MkdirAll(q, alsoTouched)
  PROVE  /\ dest' \in [Places -> Shown] /\ dirs' \in DirStates
         /\ \A r \in Places : dest'[r] = dest[r] \/ (dest[r] = Absent /\ dest'[r] = Directory)
         /\ \A r \in Places : dest[r] # Absent => dirs'[r].mode = dirs[r].mode
         /\ \A r \in Above(q) : dest'[r] = Directory
         /\ \A r \in Places \ Above(q) : dest'[r] = dest[r]
<1>1. dest \in [Places -> Shown] /\ Directory \in Shown
  BY DEF Shape, Shown
<1>2. dest' = [r \in Places |-> IF r \in Missing(q) THEN Directory ELSE dest[r]]
  BY DEF MkdirAll
<1>3. Above(q) \subseteq Places /\ Missing(q) = {r \in Above(q) : dest[r] = Absent}
  BY DEF Above, Missing
<1>4. \A r \in Above(q) : dest[r] \in {Absent, Directory}
  BY DEF MkdirAll, CanMake
<1>5. dirs' = Touched(Missing(q), {Front(r) : r \in Missing(q)} \cup alsoTouched, "copy")
  BY DEF MkdirAll
<1>6. dirs \in DirStates
  BY DEF Shape
<1>7. dirs' \in DirStates /\ \A r \in Places : r \notin Missing(q) => dirs'[r].mode = dirs[r].mode
  BY <1>5, <1>6, WhatTouchedDoes
<1>8. dest' \in [Places -> Shown]
  BY <1>1, <1>2
<1>9. \A r \in Places : dest[r] # Absent => dirs'[r].mode = dirs[r].mode
  BY <1>3, <1>7
<1> QED
  BY <1>2, <1>3, <1>4, <1>7, <1>8, <1>9

LEMMA CurrentIsListed ==
  ASSUME Shape, copy.pending # {}
  PROVE  Current \in copy.pending /\ Current \in Paths
BY FirstIsListed DEF Shape, CopyStates, Current

LEMMA LandingsArePlaces ==
  ASSUME Shape, NEW p \in Files
  PROVE  Landings(p) \subseteq Places \ {<<>>}
<1>1. copy.request \in Options
  BY EveryRequestHasOptions DEF Shape, CopyStates
<1> QED
  BY <1>1, NamesOfAFile DEF Landings

LEMMA TargetIsALanding ==
  ASSUME NEW p
  PROVE  TargetOf(p) \in Landings(p)
BY DEF TargetOf, Appended, Landings

LEMMA SameCurrent ==
  ASSUME copy'.pending = copy.pending
  PROVE  Current' = Current
BY DEF Current

LEMMA SameLandings ==
  ASSUME copy'.request = copy.request, Current' = Current
  PROVE  Landings(Current)' = Landings(Current)
BY DEF Landings

LEMMA InitTyped == Init => Shape /\ Focus
<1> SUFFICES ASSUME Init PROVE Shape /\ Focus
  OBVIOUS
<1>1. dest \in [Places -> Shown]
  BY TreeAssumption DEF Init
<1>2. dirs \in DirStates
  BY DEF Init, DirStates
<1>3. <<>> \in Places /\ <<>> \in Seq(Folders) /\ Len(<<>>) = 0
  BY TreeAssumption, EmptySeq
<1>4. copy \in CopyStates /\ copy.left <= Len(copy.visited)
  BY <1>3 DEF Init, Idle, CopyStates, Phases
<1>5. Shape
  BY <1>1, <1>2, <1>4, TreeAssumption DEF Init, Shape
<1>6. Focus
  BY DEF Init, Idle, Focus, OnFile, OnFolder, AsAsked, At, FilePhases, FolderPhases
<1> QED
  BY <1>5, <1>6

\* A step that only moves the copy leaves the other types alone.
LEMMA OnlyCopyMoves ==
  ASSUME Shape, UNCHANGED <<uploading, source, dest, dirs, stable, disturbed, meddling>>,
         copy' \in CopyStates, copy'.left <= Len(copy'.visited)
  PROVE  Shape'
BY DEF Shape

\* When a file is done, the walk goes on.
LEMMA FileDoneTyped ==
  ASSUME Shape, FileDone
  PROVE  /\ copy' \in CopyStates /\ copy'.left <= Len(copy'.visited)
         /\ copy'.pc = "walk" /\ copy'.request = copy.request /\ copy'.visited = copy.visited
         /\ copy'.pending = copy.pending \ {Current}
         /\ Focus'
<1>1. <<>> \in Places
  BY TreeAssumption
<1>2. copy \in CopyStates /\ copy.left <= Len(copy.visited)
  BY DEF Shape
<1>3. copy' = [copy EXCEPT !.pc = "walk", !.pending = copy.pending \ {Current},
                           !.target = <<>>, !.partial = FALSE]
  BY DEF FileDone
<1>4. /\ copy' \in CopyStates /\ copy'.left <= Len(copy'.visited)
      /\ copy'.pc = "walk" /\ copy'.request = copy.request /\ copy'.visited = copy.visited
      /\ copy'.pending = copy.pending \ {Current}
  BY <1>1, <1>2, <1>3 DEF CopyStates, Phases
<1>5. Focus'
  BY <1>4 DEF Focus, OnFile, OnFolder, AsAsked, At, FilePhases, FolderPhases
<1> QED
  BY <1>4, <1>5

\* A step from one phase to another, when the new one is not of the kind that
\* needs more.
LEMMA GotoTyped ==
  ASSUME Shape, NEW pc \in Phases, Goto(pc)
  PROVE  /\ copy' \in CopyStates /\ copy'.left <= Len(copy'.visited)
         /\ copy'.pc = pc
         /\ copy'.request = copy.request /\ copy'.pending = copy.pending
         /\ copy'.target = copy.target /\ copy'.visited = copy.visited
         /\ copy'.left = copy.left /\ copy'.partial = copy.partial
         /\ Current' = Current
<1>1. copy \in CopyStates /\ copy.left <= Len(copy.visited)
  BY DEF Shape
<1>2. copy' = [copy EXCEPT !.pc = pc]
  BY DEF Goto
<1>3. copy'.pending = copy.pending
  BY <1>1, <1>2 DEF CopyStates
<1> QED
  BY <1>1, <1>2, <1>3, SameCurrent DEF CopyStates

\* A file stays in hand while its name and what was asked for do.
LEMMA StaysOnFile ==
  ASSUME OnFile, copy.pc \in FilePhases,
         copy'.request = copy.request, copy'.pending = copy.pending, copy'.target = copy.target
  PROVE  OnFile'
<1>1. Current' = Current
  BY SameCurrent
<1>2. Landings(Current)' = Landings(Current)
  BY <1>1, SameLandings
<1> QED
  BY <1>1, <1>2 DEF OnFile

LEMMA BeginTyped ==
  ASSUME Shape, NEW request \in Requests, Begin(request)
  PROVE  Shape' /\ Focus'
<1>1. <<>> \in Places /\ <<>> \in Paths /\ <<>> \in Seq(Folders) /\ Len(<<>>) = 0
  BY TreeAssumption, EmptySeq
<1>2. copy' = [Idle EXCEPT !.pc = "walk", !.request = request, !.pending = {<<>>}]
  BY DEF Begin
<1>3. copy' = [pc |-> "walk", request |-> request, pending |-> {<<>>}, target |-> <<>>,
               partial |-> FALSE, visited |-> <<>>, left |-> 0]
  BY <1>2 DEF Idle
<1>4. {<<>>} \in SUBSET Paths /\ request \in Requests \cup {NoRequest} /\ "walk" \in Phases
  BY <1>1 DEF Phases
<1>5. copy' \in CopyStates /\ copy'.left <= Len(copy'.visited) /\ copy'.pc = "walk"
  BY <1>1, <1>3, <1>4 DEF CopyStates
<1>6. Shape'
  BY <1>5 DEF Begin, Shape
<1>7. Focus'
  BY <1>5 DEF Focus, OnFile, OnFolder, AsAsked, At, FilePhases, FolderPhases
<1> QED
  BY <1>6, <1>7

LEMMA VisitFolderTyped ==
  ASSUME Shape, VisitFolder
  PROVE  /\ Shape' /\ Focus'
         /\ copy'.pc \in {"restrict", "list"}
         /\ ~uploading \/ copy.request.dryRun => copy'.pc = "list"
         /\ copy'.request = copy.request /\ copy'.pending = copy.pending
         /\ Current' = Current /\ Current \in Folders
         /\ copy'.visited = Append(copy.visited, Current)
         /\ Visited' = Visited \cup {Current}
<1>1. copy \in CopyStates /\ copy.left <= Len(copy.visited) /\ Current \in Folders
      /\ copy.pending # {}
  BY DEF Shape, VisitFolder
<1>2. copy.visited \in Seq(Folders) /\ copy.left \in Nat
  BY <1>1 DEF CopyStates
<1> DEFINE longer == Append(copy.visited, Current)
           pc == IF uploading /\ ~copy.request.dryRun THEN "restrict" ELSE "list"
<1>3. /\ longer \in Seq(Folders) /\ Len(longer) = Len(copy.visited) + 1
      /\ Len(copy.visited) \in Nat
      /\ \A i \in 1..Len(copy.visited) : longer[i] = copy.visited[i]
      /\ longer[Len(copy.visited) + 1] = Current
  BY <1>1, <1>2, AppendProperties, LenProperties
<1>4. copy' = [copy EXCEPT !.visited = longer, !.pc = pc]
  BY DEF VisitFolder
<1>5. Range(longer) = Range(copy.visited) \cup {Current}
  <2> HIDE DEF longer
  <2>1. DOMAIN longer = 1..(Len(copy.visited) + 1) /\ DOMAIN copy.visited = 1..Len(copy.visited)
    BY <1>2, <1>3, LenProperties
  <2> QED
    BY <1>3, <2>1 DEF Range
<1>6. /\ copy' \in CopyStates /\ copy'.left <= Len(copy'.visited)
      /\ copy'.pc = pc /\ pc \in {"restrict", "list"}
      /\ copy'.request = copy.request /\ copy'.pending = copy.pending
      /\ copy'.visited = longer
  <2>1. pc \in Phases /\ pc \in {"restrict", "list"}
    BY DEF Phases
  <2> HIDE DEF longer, pc
  <2>2. copy' \in CopyStates
    BY <1>1, <1>3, <1>4, <2>1 DEF CopyStates
  <2>3. /\ copy'.pc = pc /\ copy'.request = copy.request /\ copy'.pending = copy.pending
        /\ copy'.visited = longer /\ copy'.left = copy.left
    BY <1>1, <1>4 DEF CopyStates
  <2> QED
    BY <1>1, <1>2, <1>3, <2>1, <2>2, <2>3
<1>7. Current' = Current
  BY <1>6, SameCurrent
<1>8. Visited' = Visited \cup {Current}
  BY <1>5, <1>6 DEF Visited
<1>9. dest' \in [Places -> Shown] /\ dirs' \in DirStates
  BY WhatMkdirAllDoes DEF VisitFolder, Shape
<1>10. Shape'
  BY <1>6, <1>9 DEF VisitFolder, Shape
<1>11. OnFile' /\ AsAsked'
  BY <1>6 DEF OnFile, AsAsked, At, FilePhases
<1>12. OnFolder'
  BY <1>1, <1>6, <1>7, <1>8 DEF OnFolder, At
<1> QED
  BY <1>1, <1>6, <1>7, <1>8, <1>10, <1>11, <1>12 DEF Focus

LEMMA RestrictFolderTyped ==
  ASSUME Shape, Focus, RestrictFolder
  PROVE  Shape' /\ Focus'
<1>1. /\ copy' \in CopyStates /\ copy'.left <= Len(copy'.visited) /\ copy'.pc = "list"
      /\ copy'.pending = copy.pending /\ copy'.visited = copy.visited /\ Current' = Current
  BY GotoTyped DEF RestrictFolder, Phases
<1>2. dirs' \in DirStates
  BY DEF RestrictFolder, Shape, DirStates
<1>3. Shape'
  BY <1>1, <1>2 DEF RestrictFolder, Shape
<1>4. OnFile' /\ AsAsked'
  BY <1>1 DEF OnFile, AsAsked, At, FilePhases
<1>5. Visited' = Visited /\ Current \in Visited /\ copy.pending # {}
  BY <1>1 DEF Visited, RestrictFolder, Focus, OnFolder, FolderPhases, At
<1>6. OnFolder'
  BY <1>1, <1>5 DEF OnFolder, At
<1> QED
  BY <1>3, <1>4, <1>6 DEF Focus

LEMMA ListFolderTyped ==
  ASSUME Shape, Focus, ListFolder
  PROVE  /\ Shape' /\ Focus'
         /\ copy'.pc = "walk" /\ copy'.request = copy.request /\ copy'.visited = copy.visited
         /\ copy'.pending = (copy.pending \ {Current}) \cup
                               {p \in source : p # <<>> /\ Front(p) = Current}
<1> DEFINE listed == (copy.pending \ {Current}) \cup
                        {p \in source : p # <<>> /\ Front(p) = Current}
<1>1. copy \in CopyStates /\ copy.left <= Len(copy.visited) /\ source \subseteq Paths
  BY DEF Shape
<1>2. listed \in SUBSET Paths
  BY <1>1 DEF CopyStates
<1>3. copy' = [copy EXCEPT !.pc = "walk", !.pending = listed]
  BY DEF ListFolder
<1>4. /\ copy' \in CopyStates /\ copy'.left <= Len(copy'.visited)
      /\ copy'.pc = "walk" /\ copy'.request = copy.request /\ copy'.visited = copy.visited
      /\ copy'.pending = listed
  <2> HIDE DEF listed
  <2> QED
    BY <1>1, <1>2, <1>3 DEF CopyStates, Phases
<1>5. Shape'
  BY <1>4, OnlyCopyMoves DEF ListFolder
<1>6. Focus'
  BY <1>4 DEF Focus, OnFile, OnFolder, AsAsked, At, FilePhases, FolderPhases
<1> QED
  BY <1>4, <1>5, <1>6

LEMMA EndWalkTyped ==
  ASSUME Shape, EndWalk
  PROVE  /\ Shape' /\ Focus'
         /\ copy'.pc = "times" /\ copy'.request = copy.request /\ copy'.visited = copy.visited
         /\ copy'.pending = copy.pending
         /\ copy.request.preserveTime /\ ~copy.request.dryRun
              => copy'.left = Len(copy.visited)
<1> DEFINE left == IF copy.request.preserveTime /\ ~copy.request.dryRun
                   THEN Len(copy.visited) ELSE 0
<1>1. copy \in CopyStates
  BY DEF Shape
<1>2. left \in Nat /\ left <= Len(copy.visited)
  BY <1>1, LenProperties DEF CopyStates
<1>3. copy' = [copy EXCEPT !.pc = "times", !.left = left]
  BY DEF EndWalk
<1>4. /\ copy' \in CopyStates
      /\ copy'.pc = "times" /\ copy'.request = copy.request /\ copy'.visited = copy.visited
      /\ copy'.pending = copy.pending /\ copy'.left = left
  <2> HIDE DEF left
  <2> QED
    BY <1>1, <1>2, <1>3 DEF CopyStates, Phases
<1>5. Shape'
  BY <1>2, <1>4, OnlyCopyMoves DEF EndWalk
<1>6. Focus'
  BY <1>4 DEF Focus, OnFile, OnFolder, AsAsked, At, FilePhases, FolderPhases, EndWalk
<1> QED
  BY <1>4, <1>5, <1>6

LEMMA SetTimeTyped ==
  ASSUME Shape, Focus, SetTime
  PROVE  /\ Shape' /\ Focus'
         /\ copy'.pc = copy.pc /\ copy'.request = copy.request /\ copy'.visited = copy.visited
         /\ copy'.pending = copy.pending /\ copy'.left = copy.left - 1
<1>1. copy \in CopyStates /\ copy.left <= Len(copy.visited)
  BY DEF Shape
<1>2. copy.left \in Nat /\ copy.left - 1 \in Nat /\ copy.visited \in Seq(Folders)
      /\ Len(copy.visited) \in Nat
  BY <1>1, LenProperties DEF CopyStates, SetTime
<1> DEFINE left == copy.left - 1
<1>3. copy' = [copy EXCEPT !.left = left]
  BY DEF SetTime
<1>4. /\ copy' \in CopyStates
      /\ copy'.pc = copy.pc /\ copy'.request = copy.request /\ copy'.visited = copy.visited
      /\ copy'.pending = copy.pending /\ copy'.left = left
  <2>1. left \in Nat
    BY <1>2
  <2> HIDE DEF left
  <2> QED
    BY <1>1, <1>3, <2>1 DEF CopyStates
<1>5. dirs' \in DirStates
  BY DEF SetTime, Shape, DirStates
<1>6. Shape'
  BY <1>1, <1>2, <1>4, <1>5 DEF SetTime, Shape
<1>7. Focus'
  BY <1>4 DEF Focus, OnFile, OnFolder, AsAsked, At, FilePhases, FolderPhases, SetTime
<1> QED
  BY <1>4, <1>6, <1>7

LEMMA SucceedTyped ==
  ASSUME Shape, Focus, Succeed
  PROVE  Shape' /\ Focus'
<1>1. /\ copy' \in CopyStates /\ copy'.left <= Len(copy'.visited) /\ copy'.pc = "done"
      /\ copy'.pending = copy.pending /\ copy'.left = copy.left
  BY GotoTyped DEF Succeed, Phases
<1>2. Shape'
  BY <1>1, OnlyCopyMoves DEF Succeed
<1>3. Focus'
  BY <1>1 DEF Focus, OnFile, OnFolder, AsAsked, At, FilePhases, FolderPhases, Succeed
<1> QED
  BY <1>2, <1>3

LEMMA StopTyped ==
  ASSUME Shape, Stop
  PROVE  Shape' /\ Focus'
<1>1. <<>> \in Places /\ <<>> \in Seq(Folders) /\ Len(<<>>) = 0
  BY TreeAssumption, EmptySeq
<1>2. copy' \in CopyStates /\ copy'.left <= Len(copy'.visited)
  BY <1>1 DEF Stop, Idle, CopyStates, Phases
<1>3. Shape'
  BY <1>2, OnlyCopyMoves DEF Stop
<1>4. Focus'
  BY DEF Stop, Idle, Focus, OnFile, OnFolder, AsAsked, At, FilePhases, FolderPhases
<1> QED
  BY <1>3, <1>4

\* Resolve ends the file, or goes on to receive it under one of its names.
LEMMA ResolveTyped ==
  ASSUME Shape, Resolve
  PROVE  /\ Shape' /\ Focus'
         /\ Current \in Files
         /\ \/ /\ FileDone
               /\ copy.request.dryRun \/ (copy.request.noClobber /\ dest[TargetOf(Current)] # Absent)
            \/ /\ copy'.pc = "receive" /\ copy'.request = copy.request
               /\ copy'.pending = copy.pending /\ copy'.visited = copy.visited
               /\ Current' = Current
               /\ dest[copy'.target] = Absent \/ copy.request.overwrite
<1> DEFINE target == TargetOf(Current)
<1>1. copy \in CopyStates /\ copy.left <= Len(copy.visited)
  BY DEF Shape
<1>2. Current \in Files /\ copy.pending # {}
  BY CurrentIsListed DEF Resolve, Files
<1>3. target \in Landings(Current) /\ target \in Places
  BY <1>2, TargetIsALanding, LandingsArePlaces
<1>4. CASE FileDone /\ (copy.request.dryRun \/ (copy.request.noClobber /\ dest[target] # Absent))
  <2>1. copy' \in CopyStates /\ copy'.left <= Len(copy'.visited) /\ Focus'
    BY <1>4, FileDoneTyped
  <2>2. Shape'
    BY <2>1, OnlyCopyMoves DEF Resolve
  <2> QED
    BY <1>2, <1>4, <2>1, <2>2
<1>5. CASE /\ dest[target] = Absent \/ copy.request.overwrite
           /\ ~copy.request.dryRun
           /\ copy' = [copy EXCEPT !.pc = "receive", !.target = target]
  <2> HIDE DEF target
  <2>1. /\ copy' \in CopyStates
        /\ copy'.pc = "receive" /\ copy'.request = copy.request /\ copy'.target = target
        /\ copy'.pending = copy.pending /\ copy'.visited = copy.visited
        /\ copy'.left = copy.left
    BY <1>1, <1>3, <1>5 DEF CopyStates, Phases
  <2>2. Shape'
    BY <1>1, <2>1, OnlyCopyMoves DEF Resolve
  <2>3. Current' = Current
    BY <2>1, SameCurrent
  <2>4. Landings(Current)' = Landings(Current)
    BY <2>1, <2>3, SameLandings
  <2>5. OnFile'
    BY <1>2, <1>3, <1>5, <2>1, <2>3, <2>4 DEF OnFile, Files
  <2>6. OnFolder' /\ AsAsked'
    BY <2>1 DEF OnFolder, AsAsked, At, FolderPhases
  <2> QED
    BY <1>2, <1>5, <2>1, <2>2, <2>3, <2>5, <2>6 DEF Focus
<1> QED
  BY <1>4, <1>5 DEF Resolve

LEMMA ReceiveTyped ==
  ASSUME Shape, Focus, Receive
  PROVE  /\ Shape' /\ Focus'
         /\ copy'.pc = "verify" /\ copy'.request = copy.request
         /\ copy'.pending = copy.pending /\ copy'.visited = copy.visited
         /\ copy'.target = copy.target /\ Current' = Current
<1>1. copy \in CopyStates /\ copy.left <= Len(copy.visited)
  BY DEF Shape
<1>2. copy' = [copy EXCEPT !.pc = "verify", !.partial = TRUE]
  BY DEF Receive
<1>3. /\ copy' \in CopyStates
      /\ copy'.pc = "verify" /\ copy'.request = copy.request /\ copy'.target = copy.target
      /\ copy'.pending = copy.pending /\ copy'.visited = copy.visited
      /\ copy'.left = copy.left
  BY <1>1, <1>2 DEF CopyStates, Phases
<1>4. dest' \in [Places -> Shown] /\ dirs' \in DirStates
  BY WhatMkdirAllDoes DEF Receive
<1>5. Shape'
  BY <1>1, <1>3, <1>4 DEF Receive, Shape
<1>6. OnFile'
  BY <1>3, StaysOnFile DEF Receive, Focus, At, FilePhases
<1>7. OnFolder' /\ AsAsked'
  BY <1>3 DEF OnFolder, AsAsked, At, FolderPhases
<1> QED
  BY <1>3, <1>5, <1>6, <1>7, SameCurrent DEF Focus

LEMMA VerifyTyped ==
  ASSUME Shape, Focus, Verify
  PROVE  Shape' /\ Focus'
<1> DEFINE pc == IF copy.request.overwrite THEN "replace" ELSE "publish"
<1>1. pc \in Phases
  BY DEF Phases
<1>2. /\ copy' \in CopyStates /\ copy'.left <= Len(copy'.visited) /\ copy'.pc = pc
      /\ copy'.pending = copy.pending /\ copy'.target = copy.target
      /\ copy'.request = copy.request
  BY <1>1, GotoTyped DEF Verify
<1>3. Shape'
  BY <1>2, OnlyCopyMoves DEF Verify
<1>4. OnFile'
  BY <1>2, StaysOnFile DEF Verify, Focus, At, FilePhases
<1>5. OnFolder' /\ AsAsked'
  BY <1>2 DEF OnFolder, AsAsked, At, FolderPhases
<1> QED
  BY <1>3, <1>4, <1>5 DEF Focus

LEMMA ReplaceTyped ==
  ASSUME Shape, Focus, Replace
  PROVE  Shape' /\ Focus'
<1>1. /\ copy' \in CopyStates /\ copy'.left <= Len(copy'.visited) /\ copy'.pc = "publish"
      /\ copy'.pending = copy.pending /\ copy'.target = copy.target
      /\ copy'.request = copy.request
  BY GotoTyped DEF Replace, Phases
<1>2. dest' \in [Places -> Shown]
  BY DEF Replace, Shape, Shown
<1>3. dirs \in DirStates
  BY DEF Shape
<1>4. dirs' \in DirStates
  BY <1>3, WhatTouchedDoes DEF Replace
<1>5. Shape'
  BY <1>1, <1>2, <1>4 DEF Replace, Shape
<1>6. OnFile'
  BY <1>1, StaysOnFile DEF Replace, Focus, At, FilePhases
<1>7. OnFolder' /\ AsAsked'
  BY <1>1 DEF OnFolder, AsAsked, At, FolderPhases
<1> QED
  BY <1>5, <1>6, <1>7 DEF Focus

LEMMA PublishTyped ==
  ASSUME Shape, Focus, Publish
  PROVE  /\ Shape' /\ Focus'
         /\ Current \in Files /\ copy.target \in Landings(Current)
         /\ copy'.request = copy.request /\ copy'.visited = copy.visited
         /\ \/ FileDone
            \/ /\ copy'.pc = "thumbnail" /\ copy'.pending = copy.pending
               /\ copy'.target = copy.target /\ Current' = Current
<1>1. copy.pc \in FilePhases
  BY DEF Publish, At, FilePhases
<1>2. Current \in Files /\ copy.target \in Landings(Current)
  BY <1>1, CurrentIsListed DEF Focus, OnFile, Files
<1>3. dest' \in [Places -> Shown]
  BY <1>2 DEF Publish, Shape, Shown, Files
<1>4. dirs \in DirStates
  BY DEF Shape
<1>5. dirs' \in DirStates
  BY <1>4, WhatTouchedDoes DEF Publish
<1>6. CASE FileDone
  <2>1. copy' \in CopyStates /\ copy'.left <= Len(copy'.visited) /\ Focus'
        /\ copy'.request = copy.request /\ copy'.visited = copy.visited
    BY <1>6, FileDoneTyped
  <2>2. Shape'
    BY <1>3, <1>5, <2>1 DEF Publish, Shape
  <2> QED
    BY <1>2, <1>6, <2>1, <2>2
<1>7. CASE copy.request.thumbnails /\ Goto("thumbnail")
  <2>1. /\ copy' \in CopyStates /\ copy'.left <= Len(copy'.visited) /\ copy'.pc = "thumbnail"
        /\ copy'.pending = copy.pending /\ copy'.target = copy.target
        /\ copy'.request = copy.request /\ copy'.visited = copy.visited /\ Current' = Current
    BY <1>7, GotoTyped DEF Phases
  <2>2. Shape'
    BY <1>3, <1>5, <2>1 DEF Publish, Shape
  <2>3. OnFile'
    BY <1>1, <2>1, StaysOnFile DEF Focus
  <2>4. OnFolder' /\ AsAsked'
    BY <1>7, <2>1 DEF OnFolder, AsAsked, At, FolderPhases
  <2> QED
    BY <1>2, <2>1, <2>2, <2>3, <2>4 DEF Focus
<1> QED
  BY <1>6, <1>7 DEF Publish

LEMMA OpenThumbnailTyped ==
  ASSUME Shape, Focus, OpenThumbnail
  PROVE  /\ Shape' /\ Focus'
         /\ copy'.pc = "fill" /\ copy'.request = copy.request
         /\ copy'.pending = copy.pending /\ copy'.visited = copy.visited
         /\ copy'.target = copy.target /\ Current' = Current
<1>1. /\ copy' \in CopyStates /\ copy'.left <= Len(copy'.visited) /\ copy'.pc = "fill"
      /\ copy'.pending = copy.pending /\ copy'.target = copy.target
      /\ copy'.request = copy.request /\ copy'.visited = copy.visited /\ Current' = Current
  BY GotoTyped DEF OpenThumbnail, Phases
<1>2. dest' \in [Places -> Shown]
  BY DEF OpenThumbnail, Shape, Shown
<1>3. dirs \in DirStates
  BY DEF Shape
<1>4. dirs' \in DirStates
  BY <1>3, WhatTouchedDoes DEF OpenThumbnail
<1>5. Shape'
  BY <1>1, <1>2, <1>4 DEF OpenThumbnail, Shape
<1>6. OnFile'
  BY <1>1, StaysOnFile DEF OpenThumbnail, Focus, At, FilePhases
<1>7. OnFolder' /\ AsAsked'
  BY <1>1 DEF OnFolder, AsAsked, At, FolderPhases, OpenThumbnail, Focus
<1> QED
  BY <1>1, <1>5, <1>6, <1>7 DEF Focus

LEMMA FillThumbnailTyped ==
  ASSUME Shape, FillThumbnail
  PROVE  Shape' /\ Focus'
<1>1. copy' \in CopyStates /\ copy'.left <= Len(copy'.visited) /\ Focus'
  BY FileDoneTyped DEF FillThumbnail
<1>2. dest' \in [Places -> Shown]
  BY DEF FillThumbnail, Shape, Shown
<1>3. Shape'
  BY <1>1, <1>2 DEF FillThumbnail, Shape
<1> QED
  BY <1>1, <1>3

\* What others do changes no more of the copy than its partial file.
LEMMA OthersKeepFocus ==
  ASSUME Shape, Focus, copy' \in {copy, [copy EXCEPT !.partial = FALSE]}
  PROVE  /\ copy' \in CopyStates /\ copy'.left <= Len(copy'.visited)
         /\ copy'.pc = copy.pc /\ copy'.request = copy.request /\ copy'.pending = copy.pending
         /\ copy'.target = copy.target /\ copy'.visited = copy.visited
         /\ copy'.left = copy.left /\ Current' = Current
         /\ Focus'
<1>1. copy \in CopyStates /\ copy.left <= Len(copy.visited)
  BY DEF Shape
<1>2. /\ copy' \in CopyStates /\ copy'.left <= Len(copy'.visited)
      /\ copy'.pc = copy.pc /\ copy'.request = copy.request /\ copy'.pending = copy.pending
      /\ copy'.target = copy.target /\ copy'.visited = copy.visited
      /\ copy'.left = copy.left
  BY <1>1 DEF CopyStates
<1>3. Current' = Current
  BY <1>2, SameCurrent
<1>4. OnFile'
  <2>1. CASE copy.pc \in FilePhases
    BY <1>2, <2>1, StaysOnFile DEF Focus
  <2>2. CASE copy.pc \notin FilePhases
    BY <1>2, <2>2 DEF OnFile
  <2> QED
    BY <2>1, <2>2
<1>5. OnFolder' /\ AsAsked'
  BY <1>2, <1>3 DEF Focus, OnFolder, AsAsked, At, Visited
<1> QED
  BY <1>2, <1>3, <1>4, <1>5 DEF Focus

LEMMA Meddled ==
  ASSUME Shape, Meddle
  PROVE  meddling' \in 0..MaxMeddling /\ meddling' # meddling
BY TreeAssumption DEF Shape, Meddle

LEMMA EditSourceTyped ==
  ASSUME Shape, Focus, EditSource
  PROVE  Shape' /\ Focus'
<1>1. copy' = copy
  BY DEF EditSource
<1>2. Focus'
  BY <1>1, OthersKeepFocus
<1>3. PICK p \in Files : /\ source' = IF p \in source THEN source \ {p} ELSE source \cup {p}
                         /\ stable' = stable \ {p}
  BY DEF EditSource, Files
<1>4. source' \in SUBSET Paths /\ Folders \subseteq source' /\ stable' \subseteq source'
  BY <1>3 DEF Shape, Files
<1>5. meddling' \in 0..MaxMeddling
  BY Meddled DEF EditSource
<1>6. Shape'
  BY <1>1, <1>4, <1>5 DEF Shape, EditSource
<1> QED
  BY <1>2, <1>6

\* The browser changes what it deletes, renames or makes, and what it changes
\* is on record.
LEMMA BrowseTyped ==
  ASSUME Shape, Focus, NEW q \in Places,
         Delete(q) \/ FixRemoteMediaName(q) \/ GenerateRemoteThumbnail(q)
  PROVE  /\ Shape' /\ Focus'
         /\ copy' \in {copy, [copy EXCEPT !.partial = FALSE]}
         /\ disturbed \subseteq disturbed' /\ stable' = stable /\ uploading' = uploading
         /\ source' = source
         /\ \A r \in Places \ disturbed' : dest'[r] = dest[r]
         /\ \A r \in Places : dirs'[r].mode = dirs[r].mode
         /\ \A r \in Places : dirs'[r].time \in {"others", dirs[r].time}
         /\ meddling' # meddling
         /\ ~uploading => \A r \in Places : dest'[r] \in {Absent, dest[r]}
<1>1. dest \in [Places -> Shown] /\ dirs \in DirStates
  BY DEF Shape
<1>2. copy' \in {copy, [copy EXCEPT !.partial = FALSE]}
  BY DEF Delete, FixRemoteMediaName, GenerateRemoteThumbnail
<1>3. meddling' \in 0..MaxMeddling /\ meddling' # meddling
  BY Meddled DEF Delete, FixRemoteMediaName, GenerateRemoteThumbnail
<1>4. copy' \in CopyStates /\ copy'.left <= Len(copy'.visited) /\ Focus'
  BY <1>2, OthersKeepFocus
<1>5. stable' = stable /\ uploading' = uploading /\ source' = source
  BY DEF Delete, FixRemoteMediaName, GenerateRemoteThumbnail
<1>6. dirs' = dirs \/ dirs' = Touched({}, {Front(q)}, "others")
  BY DEF Delete, FixRemoteMediaName, GenerateRemoteThumbnail
<1>7. /\ dirs' \in DirStates
      /\ \A r \in Places : dirs'[r].mode = dirs[r].mode
      /\ \A r \in Places : dirs'[r].time \in {"others", dirs[r].time}
  BY <1>1, <1>6, WhatTouchedDoes
<1>8. /\ dest' \in [Places -> Shown] /\ disturbed \subseteq disturbed' /\ disturbed' \subseteq Places
      /\ \A r \in Places \ disturbed' : dest'[r] = dest[r]
      /\ ~uploading => \A r \in Places : dest'[r] \in {Absent, dest[r]}
  <2>1. CASE Delete(q)
    <3>1. Below(q) \subseteq Places /\ Absent \in Shown
      BY DEF Below, Shown
    <3> QED
      BY <1>1, <2>1, <3>1 DEF Delete, Shape
  <2>2. CASE FixRemoteMediaName(q)
    <3> DEFINE fixed == Renamed(q, FixedName[Last(q)])
    <3>1. fixed \in Places
      BY <2>2, TreeAssumption DEF FixRemoteMediaName
    <3>2. dest' = [dest EXCEPT ![fixed] = dest[q], ![q] = Absent]
          /\ disturbed' = disturbed \cup {q, fixed} /\ uploading
      BY <2>2 DEF FixRemoteMediaName
    <3> HIDE DEF fixed
    <3> QED
      BY <1>1, <3>1, <3>2 DEF Shape, Shown
  <2>3. CASE GenerateRemoteThumbnail(q)
    <3> DEFINE thumb == ThumbOf(q)
    <3>1. thumb \in Places
      BY <2>3, TreeAssumption DEF GenerateRemoteThumbnail, ThumbOf
    <3>2. PICK shown \in {Empty, Thumbnail} : dest' = [dest EXCEPT ![thumb] = shown]
      BY <2>3 DEF GenerateRemoteThumbnail
    <3>3. disturbed' = disturbed \cup {thumb} /\ uploading
      BY <2>3 DEF GenerateRemoteThumbnail
    <3> HIDE DEF thumb
    <3> QED
      BY <1>1, <3>1, <3>2, <3>3 DEF Shape, Shown
  <2> QED
    BY <2>1, <2>2, <2>3
<1>9. Shape'
  BY <1>3, <1>4, <1>5, <1>7, <1>8 DEF Shape
<1> QED
  BY <1>2, <1>3, <1>4, <1>5, <1>7, <1>8, <1>9

LEMMA StutterTyped ==
  ASSUME Shape, Focus, UNCHANGED vars
  PROVE  Shape' /\ Focus'
<1>1. Focus'
  BY OthersKeepFocus DEF vars
<1>2. Shape'
  BY DEF Shape, vars
<1> QED
  BY <1>1, <1>2

LEMMA StepTyped == Shape /\ Focus /\ [Next]_vars => Shape' /\ Focus'
<1> SUFFICES ASSUME Shape, Focus, [Next]_vars PROVE Shape' /\ Focus'
  OBVIOUS
<1>1. CASE \E request \in Requests : Begin(request)
  BY <1>1, BeginTyped
<1>2. CASE WalkTree
  BY <1>2, VisitFolderTyped, RestrictFolderTyped, ListFolderTyped, EndWalkTyped,
     SetTimeTyped, SucceedTyped DEF WalkTree
<1>3. CASE CopyOneFile
  BY <1>3, ResolveTyped, ReceiveTyped, VerifyTyped, ReplaceTyped, PublishTyped,
     OpenThumbnailTyped, FillThumbnailTyped DEF CopyOneFile
<1>4. CASE Stop
  BY <1>4, StopTyped
<1>5. CASE EditSource
  BY <1>5, EditSourceTyped
<1>6. CASE Browse
  BY <1>6, BrowseTyped DEF Browse
<1>7. CASE UNCHANGED vars
  BY <1>7, StutterTyped
<1> QED
  BY <1>1, <1>2, <1>3, <1>4, <1>5, <1>6, <1>7 DEF Next, Copying

\* The copy of a tree keeps the shape of its state: whatever the tree, the
\* names and the meddling, no step of copyDirectory or downloadDirectory leads
\* outside the tree.
THEOREM TypeCorrect == Spec => []TypeOK
<1>1. Init => Shape /\ Focus
  BY InitTyped
<1>2. Shape /\ Focus /\ [Next]_vars => (Shape /\ Focus)'
  BY StepTyped
<1>3. Shape => TypeOK
  BY ShapeImpliesTypeOK
<1> QED
  BY <1>1, <1>2, <1>3, PTL DEF Spec
-----------------------------------------------------------------------------
(***************************************************************************)
(* What a copy may change.                                                 *)
(***************************************************************************)
\* Locally nobody else makes files, so a place that was free stays free.
TargetFree ==
  copy.pc \in {"receive", "verify", "publish"} /\ ~uploading /\ ~copy.request.overwrite
    => dest[copy.target] = Absent

LEMMA TargetIsAPlace ==
  ASSUME Shape, Focus, copy.pc \in FilePhases
  PROVE  copy.target \in Places /\ copy.target # <<>> /\ Current \in Files
<1>1. Current \in Files /\ copy.target \in Landings(Current)
  BY CurrentIsListed DEF Focus, OnFile, Files
<1> QED
  BY <1>1, LandingsArePlaces

LEMMA InitTargetFree == Init => TargetFree
BY DEF Init, Idle, TargetFree

LEMMA TargetFreeStep ==
  ASSUME Shape, Focus, TargetFree, [Next]_vars
  PROVE  TargetFree'
<1>1. CASE Resolve
  <2>1. CASE FileDone
    BY <2>1, FileDoneTyped DEF TargetFree
  <2>2. CASE dest[copy'.target] = Absent \/ copy.request.overwrite
    <3>1. CASE FileDone
      BY <3>1, <2>1
    <3>2. CASE copy'.pc = "receive" /\ copy'.request = copy.request
      BY <1>1, <2>2, <3>2 DEF Resolve, TargetFree
    <3> QED
      BY <1>1, <3>1, <3>2, ResolveTyped
  <2> QED
    BY <1>1, <2>1, <2>2, ResolveTyped
<1>2. CASE Receive
  <2>1. copy.target \in Places /\ copy.target # <<>>
    BY <1>2, TargetIsAPlace DEF Receive, At, FilePhases
  <2>2. copy.target \in Places \ Above(Front(copy.target))
    BY <2>1, NotAboveItsFolder
  <2>3. dest'[copy.target] = dest[copy.target]
    BY <1>2, <2>2, WhatMkdirAllDoes DEF Receive
  <2>4. copy'.target = copy.target /\ copy'.request = copy.request /\ uploading' = uploading
        /\ copy.pc = "receive"
    BY <1>2, ReceiveTyped DEF Receive, At
  <2> QED
    BY <2>3, <2>4 DEF TargetFree
<1>3. CASE Verify
  <2>1. copy' = [copy EXCEPT !.pc = IF copy.request.overwrite THEN "replace" ELSE "publish"]
    BY <1>3 DEF Verify, Goto
  <2>2. copy \in CopyStates
    BY DEF Shape
  <2>3. copy'.target = copy.target /\ copy'.request = copy.request
    BY <2>1, <2>2 DEF CopyStates
  <2>4. copy.pc = "verify" /\ uploading' = uploading /\ dest' = dest
    BY <1>3 DEF Verify, At
  <2> QED
    BY <2>3, <2>4 DEF TargetFree
<1>4. CASE Replace
  <2>1. copy'.request = copy.request
    BY <1>4, GotoTyped DEF Replace, Phases
  <2>2. copy.request.overwrite
    BY <1>4 DEF Replace, Focus, AsAsked
  <2> QED
    BY <2>1, <2>2 DEF TargetFree
<1>5. CASE Browse
  <2>1. PICK q \in Places : Delete(q) \/ FixRemoteMediaName(q) \/ GenerateRemoteThumbnail(q)
    BY <1>5 DEF Browse
  <2>2. /\ copy' \in {copy, [copy EXCEPT !.partial = FALSE]} /\ uploading' = uploading
        /\ ~uploading => \A r \in Places : dest'[r] \in {Absent, dest[r]}
    BY <2>1, BrowseTyped
  <2>3. copy'.pc = copy.pc /\ copy'.request = copy.request /\ copy'.target = copy.target
    BY <2>2, OthersKeepFocus
  <2>4. copy.target \in Places
    BY DEF Shape, CopyStates
  <2> QED
    BY <2>2, <2>3, <2>4 DEF TargetFree
<1>6. CASE EditSource \/ UNCHANGED vars
  BY <1>6 DEF EditSource, vars, TargetFree
<1>7. CASE (\E request \in Requests : Begin(request)) \/ Stop
  <2>1. CASE Stop
    BY <2>1 DEF Stop, Idle, TargetFree
  <2>2. CASE \E request \in Requests : Begin(request)
    <3>1. PICK request \in Requests :
            copy' = [Idle EXCEPT !.pc = "walk", !.request = request, !.pending = {<<>>}]
      BY <2>2 DEF Begin
    <3>2. copy'.pc = "walk"
      BY <3>1 DEF Idle
    <3> QED
      BY <3>2 DEF TargetFree
  <2> QED
    BY <1>7, <2>1, <2>2
<1>8. CASE WalkTree
  <2>1. CASE VisitFolder
    BY <2>1, VisitFolderTyped DEF TargetFree
  <2>2. CASE RestrictFolder
    BY <2>2, GotoTyped DEF RestrictFolder, Phases, TargetFree
  <2>3. CASE ListFolder
    BY <2>3, ListFolderTyped DEF TargetFree
  <2>4. CASE EndWalk
    BY <2>4, EndWalkTyped DEF TargetFree
  <2>5. CASE SetTime
    BY <2>5, SetTimeTyped DEF SetTime, At, TargetFree
  <2>6. CASE Succeed
    BY <2>6, GotoTyped DEF Succeed, Phases, TargetFree
  <2> QED
    BY <1>8, <2>1, <2>2, <2>3, <2>4, <2>5, <2>6 DEF WalkTree
<1>9. CASE Publish
  <2>1. CASE FileDone
    BY <2>1, FileDoneTyped DEF TargetFree
  <2>2. CASE copy'.pc = "thumbnail"
    BY <2>2 DEF TargetFree
  <2> QED
    BY <1>9, <2>1, <2>2, PublishTyped
<1>10. CASE OpenThumbnail
  BY <1>10, OpenThumbnailTyped DEF TargetFree
<1>11. CASE FillThumbnail
  BY <1>11, FileDoneTyped DEF FillThumbnail, TargetFree
<1> QED
  BY <1>1, <1>2, <1>3, <1>4, <1>5, <1>6, <1>7, <1>8, <1>9, <1>10, <1>11
  DEF Next, Copying, CopyOneFile

ChangeIsAsked ==
  \A q \in Places : meddling' = meddling /\ dest'[q] # dest[q] =>
    /\ ~copy.request.dryRun
    /\ \/ dest[q] = Absent
       \/ copy.request.overwrite
       \/ copy.request.thumbnails /\ q = ThumbOf(copy.target)

LEMMA EveryChangeIsAsked ==
  ASSUME Shape, Focus, TargetFree, [Next]_vars
  PROVE  ChangeIsAsked
<1>1. dest \in [Places -> Shown]
  BY DEF Shape
<1>2. CASE dest' = dest
  BY <1>2 DEF ChangeIsAsked
<1>3. CASE meddling' # meddling
  BY <1>3 DEF ChangeIsAsked
<1>4. CASE VisitFolder
  <2>1. CASE copy.request.dryRun
    BY <1>2, <1>4, <2>1 DEF VisitFolder
  <2>2. CASE ~copy.request.dryRun
    <3>1. MkdirAll(Current, {})
      BY <1>4, <2>2 DEF VisitFolder
    <3>2. \A r \in Places : dest'[r] = dest[r] \/ dest[r] = Absent
      BY <3>1, WhatMkdirAllDoes
    <3> QED
      BY <2>2, <3>2 DEF ChangeIsAsked
  <2> QED
    BY <2>1, <2>2
<1>5. CASE Receive
  <2>1. \A r \in Places : dest'[r] = dest[r] \/ dest[r] = Absent
    BY <1>5, WhatMkdirAllDoes DEF Receive
  <2>2. ~copy.request.dryRun
    BY <1>5 DEF Receive, At, Focus, OnFile, FilePhases
  <2> QED
    BY <2>1, <2>2 DEF ChangeIsAsked
<1>6. CASE Replace
  <2>1. ~copy.request.dryRun /\ copy.request.overwrite
    BY <1>6 DEF Replace, At, Focus, OnFile, AsAsked, FilePhases
  <2> QED
    BY <2>1 DEF ChangeIsAsked
<1>7. CASE Publish
  <2>1. ~copy.request.dryRun /\ copy.pc = "publish"
    BY <1>7 DEF Publish, At, Focus, OnFile, FilePhases
  <2>2. dest[copy.target] = Absent \/ copy.request.overwrite
    BY <1>7, <2>1 DEF Publish, TargetFree
  <2>3. \A q \in Places : q # copy.target => dest'[q] = dest[q]
    BY <1>1, <1>7 DEF Publish
  <2> QED
    BY <2>1, <2>2, <2>3 DEF ChangeIsAsked
<1>8. CASE OpenThumbnail \/ FillThumbnail
  <2>1. ~copy.request.dryRun /\ copy.request.thumbnails
    BY <1>8 DEF OpenThumbnail, FillThumbnail, At, Focus, OnFile, AsAsked, FilePhases
  <2>2. \A q \in Places : q # ThumbOf(copy.target) => dest'[q] = dest[q]
    BY <1>1, <1>8 DEF OpenThumbnail, FillThumbnail
  <2> QED
    BY <2>1, <2>2 DEF ChangeIsAsked
<1>9. CASE EditSource \/ Browse
  <2>1. Meddle
    BY <1>9 DEF EditSource, Browse, Delete, FixRemoteMediaName, GenerateRemoteThumbnail
  <2> QED
    BY <1>3, <2>1, Meddled
<1>10. CASE \/ \E request \in Requests : Begin(request)
            \/ RestrictFolder \/ ListFolder \/ EndWalk \/ SetTime \/ Succeed
            \/ Resolve \/ Verify \/ Stop \/ UNCHANGED vars
  <2>1. dest' = dest
    BY <1>10 DEF Begin, RestrictFolder, ListFolder, EndWalk, SetTime, Succeed,
                Resolve, Verify, Stop, vars
  <2> QED
    BY <1>2, <2>1
<1> QED
  BY <1>4, <1>5, <1>6, <1>7, <1>8, <1>9, <1>10 DEF Next, Copying, WalkTree, CopyOneFile

\* For any tree, names and number of interventions: a dry run changes nothing,
\* and without overwrite a copy changes no file but the thumbnail of an episode.
THEOREM OnlyAskedEver == Spec => OnlyAskedChanges
<1>1. Init => Shape /\ Focus /\ TargetFree
  BY InitTyped, InitTargetFree
<1>2. Shape /\ Focus /\ TargetFree /\ [Next]_vars => (Shape /\ Focus /\ TargetFree)'
  BY StepTyped, TargetFreeStep
<1>3. Shape /\ Focus /\ TargetFree /\ [Next]_vars => [ChangeIsAsked]_vars
  BY EveryChangeIsAsked
<1>4. Spec => [][ChangeIsAsked]_vars
  BY <1>1, <1>2, <1>3, PTL DEF Spec
<1> QED
  BY <1>4 DEF OnlyAskedChanges, ChangeIsAsked
-----------------------------------------------------------------------------
(***************************************************************************)
(* The tree that a copy leaves behind.                                     *)
(***************************************************************************)
InProgress == copy.pc # "idle" /\ ~copy.request.dryRun

\* Something of the way to p is still listed.
PendingAbove(p) == \E n \in 0..Len(p) : SubSeq(p, 1, n) \in copy.pending

\* What the step in hand is about to fill ...
InHand(q) == \/ At("publish") /\ q = copy.target
             \/ At("fill") /\ q = ThumbOf(copy.target)
\* ... and what a copy, or others, brought.
Brought(q) == \/ \E r \in Files : dest[q] = r /\ q \in Landings(r)
              \/ copy.request.thumbnails /\ dest[q] = Thumbnail
              \/ q \in disturbed

Settled(p) == \E q \in Landings(p) : Accounted(p, q) \/ InHand(q)

\* Every directory is recorded or will be reached, every file has its place or
\* will be reached, and the file in hand keeps its place while its thumbnail is made.
FoldersReached == InProgress => \A d \in Folders : d \in Visited \/ PendingAbove(d)
FilesReached   == InProgress => \A p \in stable \ Folders : PendingAbove(p) \/ Settled(p)
CurrentSettled == copy.pc \in {"thumbnail", "fill"} =>
                    \A p \in Files : p = Current => Settled(p)

\* A thumbnail that is open is of an episode, and empty.
ThumbnailOpen ==
  /\ copy.pc \in {"thumbnail", "fill"} => ThumbName[Last(copy.target)] # NoName
  /\ At("fill") => dest[ThumbOf(copy.target)] = Empty \/ ThumbOf(copy.target) \in disturbed

\* A recorded directory stays, but for the moment between removal and rename, ...
FoldersShow ==
  InProgress => \A d \in Visited : \/ dest[d] # Absent \/ d \in disturbed
                                   \/ At("publish") /\ d = copy.target

\* ... and keeps the mode of the policy, ...
ModesSet ==
  InProgress /\ uploading =>
    \A d \in Visited : \/ dirs[d].mode = "policy" \/ d \in disturbed
                       \/ At("restrict") /\ d = Current

\* ... and those the last loop has passed keep their time.
TimesSet ==
  InProgress /\ copy.pc \in {"times", "done"} /\ copy.request.preserveTime =>
    \A i \in 1..Len(copy.visited) : i > copy.left => dirs[copy.visited[i]].time # "copy"

TreeInv == /\ FoldersReached /\ FilesReached /\ CurrentSettled /\ ThumbnailOpen
           /\ FoldersShow /\ ModesSet /\ TimesSet
-----------------------------------------------------------------------------
(* What a step of a copy does to a place *)

\* What has been accounted for stays so,
KeepsAccount(q) ==
  /\ dest'[q] = dest[q] \/ dest[q] = Absent \/ Brought(q)' \/ InHand(q)'
  /\ InHand(q) => Brought(q)' \/ InHand(q)'

\* a directory goes only to make room for a file,
KeepsFolder(q) ==
  dest[q] = Directory => \/ dest'[q] = Directory \/ q \in disturbed'
                         \/ copy.pc = "replace" /\ q = copy.target

\* and only a new directory loses the mode of the policy.
KeepsMode(q) == \/ dirs'[q].mode = dirs[q].mode \/ dirs'[q].mode = "policy"
                \/ copy.pc \in {"walk", "receive"} /\ dest[q] = Absent

Effects ==
  /\ copy'.request = copy.request /\ uploading' = uploading
  /\ disturbed \subseteq disturbed' /\ stable' \subseteq stable
  /\ \A q \in Places : KeepsAccount(q) /\ KeepsFolder(q) /\ KeepsMode(q)

\* A step that changes neither a place nor the file in hand.
LEMMA QuietEffects ==
  ASSUME UNCHANGED <<uploading, dest, disturbed>>, stable' \subseteq stable,
         copy'.request = copy.request,
         \/ copy.pc \notin {"publish", "fill"}
         \/ copy'.pc = copy.pc /\ copy'.target = copy.target,
         \A q \in Places : dirs'[q].mode \in {"policy", dirs[q].mode}
  PROVE  Effects
<1>1. \A q \in Places : KeepsAccount(q)
  <2> TAKE q \in Places
  <2>1. InHand(q) => InHand(q)'
    BY DEF InHand, At
  <2> QED
    BY <2>1 DEF KeepsAccount
<1>2. \A q \in Places : KeepsFolder(q) /\ KeepsMode(q)
  BY DEF KeepsFolder, KeepsMode
<1> QED
  BY <1>1, <1>2 DEF Effects

LEMMA MkdirAllEffects ==
  ASSUME Shape, NEW q, NEW alsoTouched, MkdirAll(q, alsoTouched),
         copy.pc \in {"walk", "receive"},
         copy'.request = copy.request, UNCHANGED <<uploading, stable, disturbed>>
  PROVE  Effects
<1>1. /\ \A r \in Places : dest'[r] = dest[r] \/ (dest[r] = Absent /\ dest'[r] = Directory)
      /\ \A r \in Places : dest[r] # Absent => dirs'[r].mode = dirs[r].mode
  BY WhatMkdirAllDoes
<1>2. \A r \in Places : KeepsAccount(r)
  BY <1>1 DEF KeepsAccount, InHand, At
<1>3. \A r \in Places : KeepsFolder(r) /\ KeepsMode(r)
  BY <1>1, Marks DEF KeepsFolder, KeepsMode
<1> QED
  BY <1>2, <1>3 DEF Effects

LEMMA ReplaceEffects ==
  ASSUME Shape, Replace
  PROVE  Effects
<1>1. copy'.request = copy.request /\ copy'.pc = "publish" /\ copy'.target = copy.target
      /\ copy.pc = "replace"
  BY GotoTyped DEF Replace, Phases, At
<1>2. \A q \in Places : q # copy.target => dest'[q] = dest[q]
  BY DEF Replace, Shape
<1>3. dirs \in DirStates
  BY DEF Shape
<1>4. \A q \in Places : dirs'[q].mode = dirs[q].mode
  BY <1>3, WhatTouchedDoes DEF Replace
<1>5. \A q \in Places : KeepsAccount(q)
  BY <1>1, <1>2 DEF KeepsAccount, InHand, At
<1>6. \A q \in Places : KeepsFolder(q) /\ KeepsMode(q)
  BY <1>1, <1>2, <1>4 DEF KeepsFolder, KeepsMode
<1> QED
  BY <1>1, <1>5, <1>6 DEF Effects, Replace

\* After the rename the place shows the file, which may land there.
LEMMA PublishEffects ==
  ASSUME Shape, Focus, Publish
  PROVE  /\ Effects
         /\ \A p : p = Current => Settled(p)'
<1>1. copy'.request = copy.request /\ copy.pc = "publish" /\ copy.target \in Places
      /\ Current \in Files /\ copy.target \in Landings(Current)
  BY PublishTyped, TargetIsAPlace DEF Publish, At, FilePhases
<1>2. dest' = [dest EXCEPT ![copy.target] = Current] /\ dest \in [Places -> Shown]
  BY DEF Publish, Shape
<1>3. /\ dest'[copy.target] = Current
      /\ \A q \in Places : q # copy.target => dest'[q] = dest[q]
  BY <1>1, <1>2
<1>4. dirs \in DirStates
  BY DEF Shape
<1>5. \A q \in Places : dirs'[q].mode = dirs[q].mode
  BY <1>4, WhatTouchedDoes DEF Publish
<1>6. \A r : r = Current => copy.target \in Landings(r)'
  BY <1>1 DEF Landings
<1>7. \A q \in Places : q = copy.target => Brought(q)'
  BY <1>1, <1>3, <1>6 DEF Brought
<1>8. \A q \in Places : KeepsAccount(q)
  BY <1>1, <1>3, <1>7 DEF KeepsAccount, InHand, At
<1>9. dest[copy.target] # Directory
  BY Marks DEF Publish
<1>10. \A q \in Places : KeepsFolder(q) /\ KeepsMode(q)
  BY <1>3, <1>5, <1>9 DEF KeepsFolder, KeepsMode
<1>11. \A p : p = Current => Settled(p)'
  BY <1>3, <1>6 DEF Settled, Accounted
<1> QED
  BY <1>1, <1>8, <1>10, <1>11 DEF Effects, Publish

LEMMA ThumbnailPlace ==
  ASSUME Shape, Focus, ThumbnailOpen, copy.pc \in {"thumbnail", "fill"}
  PROVE  ThumbOf(copy.target) \in Places
<1>1. copy.target \in Places /\ copy.target # <<>>
  BY TargetIsAPlace DEF FilePhases
<1> QED
  BY <1>1, TreeAssumption DEF ThumbnailOpen, ThumbOf

LEMMA OpenThumbnailEffects ==
  ASSUME Shape, Focus, ThumbnailOpen, OpenThumbnail
  PROVE  Effects /\ ThumbnailOpen'
<1>1. copy'.request = copy.request /\ copy'.pc = "fill" /\ copy'.target = copy.target
      /\ copy.pc = "thumbnail"
  BY OpenThumbnailTyped DEF OpenThumbnail, At
<1> DEFINE thumb == ThumbOf(copy.target)
<1>2. thumb \in Places
  BY <1>1, ThumbnailPlace
<1>3. dest' = [dest EXCEPT ![thumb] = Empty] /\ dest \in [Places -> Shown]
      /\ dest[thumb] # Directory
  BY DEF OpenThumbnail, Shape
<1>4. /\ dest'[thumb] = Empty
      /\ \A q \in Places : q # thumb => dest'[q] = dest[q]
  BY <1>2, <1>3
<1>5. dirs \in DirStates
  BY DEF Shape
<1>6. \A q \in Places : dirs'[q].mode = dirs[q].mode
  BY <1>5, WhatTouchedDoes DEF OpenThumbnail
<1>7. \A q \in Places : KeepsAccount(q)
  BY <1>1, <1>4 DEF KeepsAccount, InHand, At
<1>8. \A q \in Places : KeepsFolder(q) /\ KeepsMode(q)
  BY <1>3, <1>4, <1>6 DEF KeepsFolder, KeepsMode
<1>9. ThumbnailOpen'
  BY <1>1, <1>4 DEF ThumbnailOpen, At
<1> QED
  BY <1>1, <1>7, <1>8, <1>9 DEF Effects, OpenThumbnail

LEMMA FillThumbnailEffects ==
  ASSUME Shape, Focus, ThumbnailOpen, FillThumbnail
  PROVE  Effects
<1>1. copy'.request = copy.request /\ copy'.pc = "walk" /\ copy.pc = "fill"
      /\ copy.request.thumbnails
  BY FileDoneTyped DEF FillThumbnail, At, Focus, AsAsked
<1> DEFINE thumb == ThumbOf(copy.target)
<1>2. thumb \in Places
  BY <1>1, ThumbnailPlace
<1>3. dest' = (IF dest[thumb] = Empty THEN [dest EXCEPT ![thumb] = Thumbnail] ELSE dest)
      /\ dest \in [Places -> Shown]
  BY DEF FillThumbnail, Shape
<1>4. /\ dest[thumb] = Empty => dest'[thumb] = Thumbnail
      /\ dest[thumb] # Empty => dest'[thumb] = dest[thumb]
      /\ \A q \in Places : q # thumb => dest'[q] = dest[q]
  BY <1>2, <1>3
<1>5. disturbed' = disturbed /\ dirs' = dirs
  BY DEF FillThumbnail
<1>6. \A q \in Places : q = thumb => Brought(q)'
  BY <1>1, <1>4, <1>5 DEF ThumbnailOpen, Brought, At
<1>7. \A q \in Places : KeepsAccount(q)
  BY <1>1, <1>4, <1>6 DEF KeepsAccount, InHand, At
<1>8. \A q \in Places : KeepsFolder(q) /\ KeepsMode(q)
  BY <1>4, <1>5, Marks DEF KeepsFolder, KeepsMode
<1> QED
  BY <1>1, <1>7, <1>8 DEF Effects, FillThumbnail

\* What others change is on record.
LEMMA BrowseEffects ==
  ASSUME Shape, Focus, ThumbnailOpen, Browse
  PROVE  Effects /\ ThumbnailOpen'
<1>1. PICK q \in Places : Delete(q) \/ FixRemoteMediaName(q) \/ GenerateRemoteThumbnail(q)
  BY DEF Browse
<1>2. /\ copy' \in {copy, [copy EXCEPT !.partial = FALSE]}
      /\ disturbed \subseteq disturbed' /\ stable' = stable /\ uploading' = uploading
      /\ \A r \in Places \ disturbed' : dest'[r] = dest[r]
      /\ \A r \in Places : dirs'[r].mode = dirs[r].mode
  BY <1>1, BrowseTyped
<1>3. copy'.pc = copy.pc /\ copy'.request = copy.request /\ copy'.target = copy.target
  BY <1>2, OthersKeepFocus
<1>4. \A r \in Places : InHand(r) => InHand(r)'
  BY <1>3 DEF InHand, At
<1>5. \A r \in Places : r \in disturbed' => Brought(r)'
  BY DEF Brought
<1>6. \A r \in Places : KeepsAccount(r)
  BY <1>2, <1>4, <1>5 DEF KeepsAccount
<1>7. \A r \in Places : KeepsFolder(r) /\ KeepsMode(r)
  BY <1>2 DEF KeepsFolder, KeepsMode
<1>8. ThumbnailOpen'
  <2>1. CASE copy.pc \in {"thumbnail", "fill"}
    <3>1. ThumbOf(copy.target) \in Places
      BY <2>1, ThumbnailPlace
    <3> QED
      BY <1>2, <1>3, <3>1 DEF ThumbnailOpen, At
  <2>2. CASE copy.pc \notin {"thumbnail", "fill"}
    BY <1>3, <2>2 DEF ThumbnailOpen, At
  <2> QED
    BY <2>1, <2>2
<1> QED
  BY <1>2, <1>3, <1>6, <1>7, <1>8 DEF Effects

\* A step of the copy that goes on, or of others, while the copy is no dry run.
GoesOn == WalkTree \/ CopyOneFile \/ EditSource \/ Browse \/ UNCHANGED vars

LEMMA StepEffects ==
  ASSUME Shape, Focus, ThumbnailOpen, GoesOn, ~copy.request.dryRun
  PROVE  Effects
<1>1. CASE VisitFolder
  <2>1. MkdirAll(Current, {}) /\ copy.pc = "walk"
    BY <1>1 DEF VisitFolder, At
  <2>2. copy'.request = copy.request
    BY <1>1, VisitFolderTyped
  <2> QED
    BY <1>1, <2>1, <2>2, MkdirAllEffects DEF VisitFolder
<1>2. CASE RestrictFolder
  <2>1. copy'.request = copy.request /\ copy.pc = "restrict"
    BY <1>2, GotoTyped DEF RestrictFolder, Phases, At
  <2>2. \A q \in Places : dirs'[q].mode \in {"policy", dirs[q].mode}
    BY <1>2 DEF RestrictFolder, Shape, DirStates
  <2> QED
    BY <1>2, <2>1, <2>2, QuietEffects DEF RestrictFolder
<1>3. CASE ListFolder
  BY <1>3, ListFolderTyped, QuietEffects DEF ListFolder, At
<1>4. CASE EndWalk
  BY <1>4, EndWalkTyped, QuietEffects DEF EndWalk, At
<1>5. CASE SetTime
  <2>1. \A q \in Places : dirs'[q].mode \in {"policy", dirs[q].mode}
    BY <1>5 DEF SetTime, Shape, DirStates
  <2> QED
    BY <1>5, <2>1, SetTimeTyped, QuietEffects DEF SetTime, At
<1>6. CASE Succeed
  BY <1>6, GotoTyped, QuietEffects DEF Succeed, Phases, At
<1>7. CASE Resolve
  <2>1. copy'.request = copy.request
    BY <1>7, ResolveTyped, FileDoneTyped
  <2> QED
    BY <1>7, <2>1, QuietEffects DEF Resolve, At
<1>8. CASE Receive
  <2>1. MkdirAll(Front(copy.target), {Front(copy.target)}) /\ copy.pc = "receive"
    BY <1>8 DEF Receive, At
  <2>2. copy'.request = copy.request
    BY <1>8, ReceiveTyped
  <2> QED
    BY <1>8, <2>1, <2>2, MkdirAllEffects DEF Receive
<1>9. CASE Verify
  <2>1. copy'.request = copy.request
    BY <1>9, GotoTyped DEF Verify, Phases
  <2> QED
    BY <1>9, <2>1, QuietEffects DEF Verify, At
<1>10. CASE Replace
  BY <1>10, ReplaceEffects
<1>11. CASE Publish
  BY <1>11, PublishEffects
<1>12. CASE OpenThumbnail
  BY <1>12, OpenThumbnailEffects
<1>13. CASE FillThumbnail
  BY <1>13, FillThumbnailEffects
<1>14. CASE EditSource
  <2>1. stable' \subseteq stable
    BY <1>14 DEF EditSource
  <2> QED
    BY <1>14, <2>1, QuietEffects DEF EditSource
<1>15. CASE Browse
  BY <1>15, BrowseEffects
<1>16. CASE UNCHANGED vars
  BY <1>16, QuietEffects DEF vars
<1> QED
  BY <1>1, <1>2, <1>3, <1>4, <1>5, <1>6, <1>7, <1>8, <1>9, <1>10, <1>11, <1>12,
     <1>13, <1>14, <1>15, <1>16 DEF GoesOn, WalkTree, CopyOneFile

\* So a file that has its place keeps it.
LEMMA StaysSettled ==
  ASSUME Shape, Effects, NEW p \in Files, Settled(p)
  PROVE  Settled(p)'
<1>1. PICK q \in Landings(p) : Accounted(p, q) \/ InHand(q)
  BY DEF Settled
<1>2. q \in Places
  BY LandingsArePlaces
<1>3. KeepsAccount(q) /\ copy'.request = copy.request /\ disturbed \subseteq disturbed'
  BY <1>2 DEF Effects
<1>4. \A r : Landings(r)' = Landings(r)
  BY <1>3 DEF Landings
<1>5. Brought(q)' => Accounted(p, q)'
  BY DEF Brought, Accounted, Files
<1>6. CASE Brought(q)' \/ InHand(q)'
  BY <1>1, <1>4, <1>5, <1>6 DEF Settled
<1>7. CASE Accounted(p, q) /\ dest'[q] = dest[q]
  <2>1. Accounted(p, q)'
    BY <1>3, <1>4, <1>7 DEF Accounted
  <2> QED
    BY <1>1, <1>4, <2>1 DEF Settled
<1>8. CASE Accounted(p, q) /\ dest[q] = Absent
  <2>1. q \in disturbed
    BY <1>8, Marks DEF Accounted, Files
  <2>2. Brought(q)'
    BY <1>3, <2>1 DEF Brought
  <2> QED
    BY <1>6, <2>2
<1> QED
  BY <1>1, <1>3, <1>6, <1>7, <1>8 DEF KeepsAccount
-----------------------------------------------------------------------------
(* What a step of a copy does to the walk *)

LEMMA VisitedAreFolders ==
  ASSUME Shape
  PROVE  Visited \subseteq Folders
BY ShapeImpliesTypeOK DEF TypeOK, Visited

\* A step that goes on keeps the request and forgets no directory.
LEMMA StaysTheSameCopy ==
  ASSUME Shape, Focus, GoesOn
  PROVE  /\ copy'.request = copy.request /\ uploading' = uploading
         /\ copy.pc = "idle" => copy'.pc = "idle"
         /\ Visited \subseteq Visited'
<1>1. CASE WalkTree
  <2>1. CASE VisitFolder
    BY <2>1, VisitFolderTyped DEF VisitFolder, At
  <2>2. CASE RestrictFolder \/ Succeed
    BY <2>2, GotoTyped DEF RestrictFolder, Succeed, Phases, At, Visited
  <2>3. CASE ListFolder
    BY <2>3, ListFolderTyped DEF ListFolder, At, Visited
  <2>4. CASE EndWalk
    BY <2>4, EndWalkTyped DEF EndWalk, At, Visited
  <2>5. CASE SetTime
    BY <2>5, SetTimeTyped DEF SetTime, At, Visited
  <2> QED
    BY <1>1, <2>1, <2>2, <2>3, <2>4, <2>5 DEF WalkTree
<1>2. CASE CopyOneFile
  <2>1. CASE Resolve
    BY <2>1, ResolveTyped, FileDoneTyped DEF Resolve, At, Visited
  <2>2. CASE Receive
    BY <2>2, ReceiveTyped DEF Receive, At, Visited
  <2>3. CASE Verify
    BY <2>3, GotoTyped DEF Verify, Phases, At, Visited
  <2>4. CASE Replace
    BY <2>4, GotoTyped DEF Replace, Phases, At, Visited
  <2>5. CASE Publish
    BY <2>5, PublishTyped DEF Publish, At, Visited
  <2>6. CASE OpenThumbnail
    BY <2>6, OpenThumbnailTyped DEF OpenThumbnail, At, Visited
  <2>7. CASE FillThumbnail
    BY <2>7, FileDoneTyped DEF FillThumbnail, At, Visited
  <2> QED
    BY <1>2, <2>1, <2>2, <2>3, <2>4, <2>5, <2>6, <2>7 DEF CopyOneFile
<1>3. CASE EditSource \/ UNCHANGED vars
  BY <1>3 DEF EditSource, vars, Visited
<1>4. CASE Browse
  <2>1. PICK q \in Places : Delete(q) \/ FixRemoteMediaName(q) \/ GenerateRemoteThumbnail(q)
    BY <1>4 DEF Browse
  <2>2. copy' \in {copy, [copy EXCEPT !.partial = FALSE]} /\ uploading' = uploading
    BY <2>1, BrowseTyped
  <2> QED
    BY <2>2, OthersKeepFocus DEF Visited
<1> QED
  BY <1>1, <1>2, <1>3, <1>4 DEF GoesOn

\* What is listed changes when a directory is read and when a file is done.
LEMMA WhatIsListed ==
  ASSUME Shape, Focus, GoesOn
  PROVE  \/ copy'.pending = copy.pending
         \/ ListFolder
         \/ FileDone /\ (Resolve \/ Publish \/ FillThumbnail)
<1>1. CASE VisitFolder \/ EndWalk \/ SetTime
  BY <1>1, VisitFolderTyped, EndWalkTyped, SetTimeTyped
<1>2. CASE RestrictFolder \/ Succeed
  BY <1>2, GotoTyped DEF RestrictFolder, Succeed, Phases
<1>3. CASE Resolve
  BY <1>3, ResolveTyped
<1>4. CASE Receive
  BY <1>4, ReceiveTyped
<1>5. CASE Verify \/ Replace
  BY <1>5, GotoTyped DEF Verify, Replace, Phases
<1>6. CASE Publish
  BY <1>6, PublishTyped
<1>7. CASE OpenThumbnail
  BY <1>7, OpenThumbnailTyped
<1>8. CASE FillThumbnail
  BY <1>8 DEF FillThumbnail
<1>9. CASE EditSource \/ UNCHANGED vars
  BY <1>9 DEF EditSource, vars
<1>10. CASE Browse
  <2>1. PICK q \in Places : Delete(q) \/ FixRemoteMediaName(q) \/ GenerateRemoteThumbnail(q)
    BY <1>10 DEF Browse
  <2>2. copy' \in {copy, [copy EXCEPT !.partial = FALSE]}
    BY <2>1, BrowseTyped
  <2> QED
    BY <2>2, OthersKeepFocus
<1> QED
  BY <1>1, <1>2, <1>3, <1>4, <1>5, <1>6, <1>7, <1>8, <1>9, <1>10
  DEF GoesOn, WalkTree, CopyOneFile

\* A file that is done is on the way to no other path,
LEMMA OtherPathsStayListed ==
  ASSUME Shape, Current \in Files, FileDone,
         NEW p \in Paths, p # Current, PendingAbove(p)
  PROVE  PendingAbove(p)'
<1>1. copy'.pending = copy.pending \ {Current}
  BY FileDoneTyped
<1>2. PICK n \in 0..Len(p) : SubSeq(p, 1, n) \in copy.pending
  BY DEF PendingAbove
<1>3. p \in Places /\ Len(p) \in Nat
  BY TreeAssumption, PathsAreSequences
<1>4. SubSeq(p, 1, n) # Current
  <2>1. CASE n = Len(p)
    BY <1>3, <2>1, WholePath
  <2>2. CASE n # Len(p)
    <3>1. n \in 0..(Len(p) - 1)
      BY <1>3, <2>2
    <3>2. SubSeq(p, 1, n) \in Folders
      BY <3>1, TreeAssumption
    <3> QED
      BY <3>2 DEF Files
  <2> QED
    BY <2>1, <2>2
<1> QED
  BY <1>1, <1>2, <1>4 DEF PendingAbove

\* and a directory that was read is replaced by the next one on the way.
LEMMA ReadingLeadsOn ==
  ASSUME Shape, Focus, ListFolder,
         NEW p \in source, p # Current, PendingAbove(p)
  PROVE  PendingAbove(p)'
<1>1. copy'.pending = (copy.pending \ {Current}) \cup
                         {r \in source : r # <<>> /\ Front(r) = Current}
  BY ListFolderTyped
<1>2. PICK n \in 0..Len(p) : SubSeq(p, 1, n) \in copy.pending
  BY DEF PendingAbove
<1>3. p \in Paths /\ p \in Places /\ Len(p) \in Nat /\ Folders \subseteq source
  BY TreeAssumption, PathsAreSequences DEF Shape
<1>4. CASE SubSeq(p, 1, n) # Current
  BY <1>1, <1>2, <1>4 DEF PendingAbove
<1>5. CASE SubSeq(p, 1, n) = Current
  <2>1. n # Len(p)
    BY <1>3, <1>5, WholePath
  <2>2. n \in 0..(Len(p) - 1) /\ n + 1 \in 0..Len(p)
    BY <1>3, <2>1
  <2>3. SubSeq(p, 1, n + 1) # <<>> /\ Front(SubSeq(p, 1, n + 1)) = Current
    BY <1>3, <1>5, <2>2, NextOnTheWay
  <2>4. SubSeq(p, 1, n + 1) \in source
    <3>1. CASE n + 1 = Len(p)
      BY <1>3, <3>1, WholePath
    <3>2. CASE n + 1 # Len(p)
      <4>1. n + 1 \in 0..(Len(p) - 1)
        BY <1>3, <2>2, <3>2
      <4> QED
        BY <1>3, <4>1, TreeAssumption
    <3> QED
      BY <3>1, <3>2
  <2> QED
    BY <1>1, <2>2, <2>3, <2>4 DEF PendingAbove
<1> QED
  BY <1>4, <1>5

LEMMA ThumbnailPhases ==
  ASSUME Shape, Focus, GoesOn, copy'.pc \in {"thumbnail", "fill"}
  PROVE  /\ Publish \/ OpenThumbnail \/ Browse \/ EditSource \/ UNCHANGED vars
         /\ Current' = Current
<1>1. CASE WalkTree
  <2>1. CASE RestrictFolder \/ Succeed
    BY <2>1, GotoTyped DEF RestrictFolder, Succeed, Phases
  <2> QED
    BY <1>1, <2>1, VisitFolderTyped, ListFolderTyped, EndWalkTyped, SetTimeTyped
    DEF WalkTree, SetTime, At
<1>2. CASE Resolve \/ FillThumbnail
  BY <1>2, ResolveTyped, FileDoneTyped DEF FillThumbnail
<1>3. CASE Receive
  BY <1>3, ReceiveTyped
<1>4. CASE Verify \/ Replace
  BY <1>4, GotoTyped DEF Verify, Replace, Phases
<1>5. CASE Publish
  BY <1>5, PublishTyped, FileDoneTyped
<1>6. CASE OpenThumbnail
  BY <1>6, OpenThumbnailTyped
<1>7. CASE EditSource \/ UNCHANGED vars
  BY <1>7, SameCurrent DEF EditSource, vars
<1>8. CASE Browse
  <2>1. PICK q \in Places : Delete(q) \/ FixRemoteMediaName(q) \/ GenerateRemoteThumbnail(q)
    BY <1>8 DEF Browse
  <2>2. copy' \in {copy, [copy EXCEPT !.partial = FALSE]}
    BY <2>1, BrowseTyped
  <2> QED
    BY <1>8, <2>2, OthersKeepFocus
<1> QED
  BY <1>1, <1>2, <1>3, <1>4, <1>5, <1>6, <1>7, <1>8 DEF GoesOn, CopyOneFile

LEMMA ThumbnailOpenStep ==
  ASSUME Shape, Focus, ThumbnailOpen, GoesOn
  PROVE  ThumbnailOpen'
<1>1. CASE copy'.pc \notin {"thumbnail", "fill"}
  BY <1>1 DEF ThumbnailOpen, At
<1>2. CASE Publish /\ copy'.pc \in {"thumbnail", "fill"}
  <2>1. ~FileDone
    BY <1>2, FileDoneTyped
  <2>2. Goto("thumbnail") /\ ThumbName[Last(copy.target)] # NoName
    BY <1>2, <2>1 DEF Publish
  <2>3. copy'.pc = "thumbnail" /\ copy'.target = copy.target
    BY <2>2, GotoTyped DEF Phases
  <2> QED
    BY <2>2, <2>3 DEF ThumbnailOpen, At
<1>3. CASE OpenThumbnail
  BY <1>3, OpenThumbnailEffects
<1>4. CASE Browse
  BY <1>4, BrowseEffects
<1>5. CASE EditSource \/ UNCHANGED vars
  BY <1>5 DEF EditSource, vars, ThumbnailOpen, At
<1> QED
  BY <1>1, <1>2, <1>3, <1>4, <1>5, ThumbnailPhases
-----------------------------------------------------------------------------
(* The invariant of a copy that goes on *)

LEMMA FoldersReachedStep ==
  ASSUME Shape, Focus, FoldersReached, InProgress, GoesOn
  PROVE  FoldersReached'
<1> SUFFICES ASSUME NEW d \in Folders, ~(d \in Visited') PROVE PendingAbove(d)'
  BY DEF FoldersReached
<1>1. Visited \subseteq Visited' /\ d \in Paths /\ d \in source
  BY StaysTheSameCopy, TreeAssumption DEF Shape
<1>2. PendingAbove(d)
  BY <1>1 DEF FoldersReached
<1>3. CASE copy'.pending = copy.pending
  BY <1>2, <1>3 DEF PendingAbove
<1>4. CASE ListFolder
  <2>1. Current \in Visited
    BY <1>4 DEF ListFolder, At, Focus, OnFolder, FolderPhases
  <2> QED
    BY <1>1, <1>2, <1>4, <2>1, ReadingLeadsOn
<1>5. CASE FileDone /\ (Resolve \/ Publish \/ FillThumbnail)
  <2>1. Current \in Files
    BY <1>5, ResolveTyped, TargetIsAPlace DEF Publish, FillThumbnail, At, FilePhases
  <2> QED
    BY <1>1, <1>2, <1>5, <2>1, OtherPathsStayListed DEF Files
<1> QED
  BY <1>3, <1>4, <1>5, WhatIsListed

\* A file that is done has its place.
LEMMA DoneIsSettled ==
  ASSUME Shape, Focus, CurrentSettled, ThumbnailOpen, ~copy.request.dryRun,
         FileDone, Resolve \/ Publish \/ FillThumbnail,
         NEW p \in Files, p = Current
  PROVE  Settled(p)'
<1>1. CASE Resolve
  <2>1. copy'.request = copy.request /\ copy'.pc = "walk"
    BY FileDoneTyped
  <2>2. dest' = dest
    BY <1>1 DEF Resolve
  <2>3. copy.request.noClobber /\ dest[TargetOf(Current)] # Absent
    BY <1>1, <2>1, ResolveTyped
  <2>4. TargetOf(p) \in Landings(p) /\ dest[TargetOf(p)] # Absent
    BY <2>3, TargetIsALanding
  <2>5. PICK q \in Landings(p) : dest[q] # Absent
    BY <2>4
  <2>6. q \in Landings(p)'
    BY <2>1, <2>5 DEF Landings
  <2>7. Accounted(p, q)'
    BY <2>1, <2>2, <2>3, <2>5 DEF Accounted
  <2> QED
    BY <2>6, <2>7 DEF Settled
<1>2. CASE Publish
  BY <1>2, PublishEffects
<1>3. CASE FillThumbnail
  <2>1. Settled(p)
    BY <1>3 DEF CurrentSettled, FillThumbnail, At
  <2> QED
    BY <1>3, <2>1, FillThumbnailEffects, StaysSettled
<1> QED
  BY <1>1, <1>2, <1>3

LEMMA FilesReachedStep ==
  ASSUME Shape, Focus, TreeInv, InProgress, GoesOn
  PROVE  FilesReached'
<1>1. Effects /\ ~copy.request.dryRun
  BY StepEffects DEF InProgress, TreeInv
<1> SUFFICES ASSUME NEW p \in stable' \ Folders, ~PendingAbove(p)' PROVE Settled(p)'
  BY DEF FilesReached
<1>2. p \in stable /\ p \in Files /\ p \in Paths /\ p \in source
  BY <1>1 DEF Effects, Shape, Files
<1>3. CASE Settled(p)
  BY <1>1, <1>2, <1>3, StaysSettled
<1>4. CASE PendingAbove(p)
  <2>1. CASE copy'.pending = copy.pending
    BY <1>4, <2>1 DEF PendingAbove
  <2>2. CASE ListFolder
    <3>1. Current \in Folders
      BY <2>2, VisitedAreFolders DEF ListFolder, At, Focus, OnFolder, FolderPhases
    <3> QED
      BY <1>2, <1>4, <2>2, <3>1, ReadingLeadsOn DEF Files
  <2>3. CASE FileDone /\ (Resolve \/ Publish \/ FillThumbnail)
    <3>1. Current \in Files
      BY <2>3, ResolveTyped, TargetIsAPlace DEF Publish, FillThumbnail, At, FilePhases
    <3>2. p = Current
      BY <1>2, <1>4, <2>3, <3>1, OtherPathsStayListed
    <3> QED
      BY <1>1, <1>2, <2>3, <3>2, DoneIsSettled DEF TreeInv
  <2> QED
    BY <2>1, <2>2, <2>3, WhatIsListed
<1> QED
  BY <1>2, <1>3, <1>4 DEF TreeInv, FilesReached

LEMMA CurrentSettledStep ==
  ASSUME Shape, Focus, TreeInv, ~copy.request.dryRun, GoesOn
  PROVE  CurrentSettled'
<1>1. Effects
  BY StepEffects DEF TreeInv
<1> SUFFICES ASSUME copy'.pc \in {"thumbnail", "fill"}, NEW p \in Files, p = Current'
             PROVE  Settled(p)'
  BY DEF CurrentSettled
<1>2. p = Current
  BY ThumbnailPhases
<1>3. CASE Publish
  BY <1>2, <1>3, PublishEffects
<1>4. CASE copy.pc \in {"thumbnail", "fill"}
  <2>1. Settled(p)
    BY <1>2, <1>4 DEF TreeInv, CurrentSettled
  <2> QED
    BY <1>1, <2>1, StaysSettled
<1>5. CASE OpenThumbnail
  BY <1>4, <1>5 DEF OpenThumbnail, At
<1>6. CASE EditSource \/ UNCHANGED vars
  <2>1. copy' = copy
    BY <1>6 DEF EditSource, vars
  <2> QED
    BY <1>4, <2>1
<1>7. CASE Browse
  <2>1. PICK q \in Places : Delete(q) \/ FixRemoteMediaName(q) \/ GenerateRemoteThumbnail(q)
    BY <1>7 DEF Browse
  <2>2. copy' \in {copy, [copy EXCEPT !.partial = FALSE]}
    BY <2>1, BrowseTyped
  <2>3. copy'.pc = copy.pc
    BY <2>2, OthersKeepFocus
  <2> QED
    BY <1>4, <2>3
<1> QED
  BY <1>3, <1>5, <1>6, <1>7, ThumbnailPhases

LEMMA NewDirectory ==
  ASSUME Shape, VisitFolder, ~copy.request.dryRun
  PROVE  dest'[Current] = Directory
<1>1. Current \in Places
  BY TreeAssumption DEF VisitFolder
<1>2. Current \in Above(Current)
  BY <1>1, AboveItself
<1> QED
  BY <1>2, WhatMkdirAllDoes DEF VisitFolder

\* Only a visit records a directory.
LEMMA OnlyVisitsRecord ==
  ASSUME Shape, Focus, GoesOn, ~VisitFolder
  PROVE  Visited' = Visited
<1>1. CASE RestrictFolder \/ Succeed
  BY <1>1, GotoTyped DEF RestrictFolder, Succeed, Phases, Visited
<1>2. CASE ListFolder \/ EndWalk \/ SetTime
  BY <1>2, ListFolderTyped, EndWalkTyped, SetTimeTyped DEF Visited
<1>3. CASE Resolve \/ FillThumbnail
  BY <1>3, ResolveTyped, FileDoneTyped DEF FillThumbnail, Visited
<1>4. CASE Receive \/ Publish \/ OpenThumbnail
  BY <1>4, ReceiveTyped, PublishTyped, OpenThumbnailTyped DEF Visited
<1>5. CASE Verify \/ Replace
  BY <1>5, GotoTyped DEF Verify, Replace, Phases, Visited
<1>6. CASE EditSource \/ UNCHANGED vars
  BY <1>6 DEF EditSource, vars, Visited
<1>7. CASE Browse
  <2>1. PICK q \in Places : Delete(q) \/ FixRemoteMediaName(q) \/ GenerateRemoteThumbnail(q)
    BY <1>7 DEF Browse
  <2>2. copy' \in {copy, [copy EXCEPT !.partial = FALSE]}
    BY <2>1, BrowseTyped
  <2> QED
    BY <2>2, OthersKeepFocus DEF Visited
<1> QED
  BY <1>1, <1>2, <1>3, <1>4, <1>5, <1>6, <1>7 DEF GoesOn, WalkTree, CopyOneFile

LEMMA FoldersShowStep ==
  ASSUME Shape, Focus, TreeInv, InProgress, GoesOn
  PROVE  FoldersShow'
<1>1. Effects /\ ThumbnailOpen' /\ ~copy.request.dryRun
  BY StepEffects, ThumbnailOpenStep DEF InProgress, TreeInv
<1> DEFINE Shows(d) == \/ dest[d] # Absent \/ d \in disturbed
                       \/ At("publish") /\ d = copy.target
<1>2. ASSUME NEW d \in Visited PROVE Shows(d)'
  <2>1. d \in Places /\ KeepsAccount(d) /\ disturbed \subseteq disturbed'
    BY <1>1, VisitedAreFolders, TreeAssumption DEF Effects
  <2>2. Brought(d)' => Shows(d)'
    BY Marks DEF Brought, Files
  <2>3. InHand(d)' => Shows(d)'
    BY <1>1, Marks DEF InHand, ThumbnailOpen
  <2>4. dest[d] # Absent \/ d \in disturbed \/ InHand(d)
    BY DEF TreeInv, FoldersShow, InHand, InProgress
  <2> QED
    BY <2>1, <2>2, <2>3, <2>4 DEF KeepsAccount
<1>3. CASE VisitFolder
  <2>1. dest'[Current] = Directory /\ Visited' = Visited \cup {Current}
    BY <1>1, <1>3, NewDirectory, VisitFolderTyped
  <2>2. \A d : d = Current => Shows(d)'
    BY <2>1, Marks
  <2> QED
    BY <1>2, <2>1, <2>2 DEF FoldersShow
<1>4. CASE ~VisitFolder
  BY <1>2, <1>4, OnlyVisitsRecord DEF FoldersShow
<1> QED
  BY <1>3, <1>4

\* A directory under restriction stays so until it has the mode of the policy.
LEMMA RestrictionLasts ==
  ASSUME Shape, Focus, GoesOn, At("restrict")
  PROVE  \/ RestrictFolder
         \/ copy'.pc = "restrict" /\ Current' = Current
<1>1. CASE EditSource \/ UNCHANGED vars
  BY <1>1, SameCurrent DEF EditSource, vars, At
<1>2. CASE Browse
  <2>1. PICK q \in Places : Delete(q) \/ FixRemoteMediaName(q) \/ GenerateRemoteThumbnail(q)
    BY <1>2 DEF Browse
  <2>2. copy' \in {copy, [copy EXCEPT !.partial = FALSE]}
    BY <2>1, BrowseTyped
  <2> QED
    BY <2>2, OthersKeepFocus DEF At
<1>3. CASE WalkTree \/ CopyOneFile
  BY <1>3 DEF WalkTree, CopyOneFile, VisitFolder, ListFolder, EndWalk, SetTime, Succeed,
              Resolve, Receive, Verify, Replace, Publish, OpenThumbnail, FillThumbnail, At
<1> QED
  BY <1>1, <1>2, <1>3 DEF GoesOn

LEMMA ModesSetStep ==
  ASSUME Shape, Focus, TreeInv, InProgress, GoesOn
  PROVE  ModesSet'
<1> SUFFICES ASSUME uploading' PROVE ModesSet'
  BY DEF ModesSet
<1>1. Effects /\ ~copy.request.dryRun /\ uploading
  BY StepEffects, StaysTheSameCopy DEF InProgress, TreeInv
<1> DEFINE IsSet(d) == \/ dirs[d].mode = "policy" \/ d \in disturbed
                       \/ At("restrict") /\ d = Current
<1>2. ASSUME NEW d \in Visited PROVE IsSet(d)'
  <2>1. d \in Places /\ KeepsMode(d) /\ disturbed \subseteq disturbed'
    BY <1>1, VisitedAreFolders, TreeAssumption DEF Effects
  <2>2. dirs[d].mode = "policy" \/ d \in disturbed \/ (At("restrict") /\ d = Current)
    BY <1>1 DEF TreeInv, ModesSet, InProgress
  <2>3. CASE copy.pc \in {"walk", "receive"} /\ dest[d] = Absent
    <3>1. d \in disturbed
      BY <2>3 DEF TreeInv, FoldersShow, InProgress, At
    <3> QED
      BY <2>1, <3>1
  <2>4. CASE At("restrict") /\ d = Current
    <3>1. CASE RestrictFolder
      <4>1. dirs' = [dirs EXCEPT ![Current].mode = "policy"] /\ dirs \in DirStates
        BY <3>1 DEF RestrictFolder, Shape
      <4>2. dirs'[d].mode = "policy"
        BY <2>1, <2>4, <4>1 DEF DirStates
      <4> QED
        BY <4>2
    <3>2. CASE copy'.pc = "restrict" /\ Current' = Current
      BY <2>4, <3>2 DEF At
    <3> QED
      BY <2>4, <3>1, <3>2, RestrictionLasts
  <2> QED
    BY <2>1, <2>2, <2>3, <2>4 DEF KeepsMode
<1>3. CASE VisitFolder
  <2>1. Visited' = Visited \cup {Current} /\ Current' = Current /\ copy'.pc = "restrict"
    <3>1. copy'.pc = IF uploading /\ ~copy.request.dryRun THEN "restrict" ELSE "list"
      BY <1>3 DEF VisitFolder, Shape, CopyStates
    <3> QED
      BY <1>1, <1>3, <3>1, VisitFolderTyped
  <2>2. \A d : d = Current => IsSet(d)'
    BY <2>1 DEF At
  <2> QED
    BY <1>2, <2>1, <2>2 DEF ModesSet
<1>4. CASE ~VisitFolder
  BY <1>2, <1>4, OnlyVisitsRecord DEF ModesSet
<1> QED
  BY <1>3, <1>4

LEMMA TimesSetStep ==
  ASSUME Shape, Focus, TreeInv, InProgress, GoesOn
  PROVE  TimesSet'
<1>1. copy.visited \in Seq(Folders) /\ Len(copy.visited) \in Nat /\ copy.left \in Nat
      /\ ~copy.request.dryRun /\ Folders \subseteq Places
  BY TreeAssumption, LenProperties DEF Shape, CopyStates, InProgress
<1>2. \A i \in 1..Len(copy.visited) : copy.visited[i] \in Places
  BY <1>1, ElementOfSeq
<1>3. CASE copy'.pc \notin {"times", "done"}
  BY <1>3 DEF TimesSet
<1>4. CASE EndWalk
  <2>1. /\ copy'.visited = copy.visited /\ copy'.request = copy.request
        /\ copy.request.preserveTime => copy'.left = Len(copy.visited)
    BY <1>1, <1>4, EndWalkTyped
  <2> QED
    BY <1>1, <2>1 DEF TimesSet
<1>5. CASE SetTime
  <2>1. /\ copy'.visited = copy.visited /\ copy'.request = copy.request
        /\ copy'.left = copy.left - 1 /\ copy.pc = "times" /\ copy.left > 0
    BY <1>5, SetTimeTyped DEF SetTime, At
  <2>2. dirs' = [dirs EXCEPT ![copy.visited[copy.left]].time = "source"] /\ dirs \in DirStates
    BY <1>5 DEF SetTime, Shape
  <2>3. \A r \in Places : /\ dirs'[r].time \in {"source", dirs[r].time}
                          /\ r = copy.visited[copy.left] => dirs'[r].time = "source"
    BY <2>2 DEF DirStates
  <2> SUFFICES ASSUME copy.request.preserveTime,
                      NEW i \in 1..Len(copy.visited), i > copy.left - 1
               PROVE  dirs'[copy.visited[i]].time # "copy"
    BY <2>1 DEF TimesSet
  <2>4. CASE i = copy.left
    BY <1>2, <2>3, <2>4
  <2>5. CASE i > copy.left
    <3>1. dirs[copy.visited[i]].time # "copy"
      BY <2>1, <2>5 DEF TreeInv, TimesSet, InProgress
    <3> QED
      BY <1>2, <2>3, <3>1
  <2> QED
    BY <1>1, <2>4, <2>5
<1>6. CASE Succeed
  <2>1. copy'.visited = copy.visited /\ copy'.request = copy.request /\ copy'.left = copy.left
    BY <1>6, GotoTyped DEF Succeed, Phases
  <2> QED
    BY <1>6, <2>1 DEF TreeInv, TimesSet, InProgress, Succeed, At
<1>7. CASE EditSource \/ UNCHANGED vars
  BY <1>7 DEF EditSource, vars, TreeInv, TimesSet, InProgress
<1>8. CASE Browse
  <2>1. PICK q \in Places : Delete(q) \/ FixRemoteMediaName(q) \/ GenerateRemoteThumbnail(q)
    BY <1>8 DEF Browse
  <2>2. /\ copy' \in {copy, [copy EXCEPT !.partial = FALSE]}
        /\ \A r \in Places : dirs'[r].time \in {"others", dirs[r].time}
    BY <2>1, BrowseTyped
  <2>3. copy'.pc = copy.pc /\ copy'.visited = copy.visited /\ copy'.request = copy.request
        /\ copy'.left = copy.left
    BY <2>2, OthersKeepFocus
  <2> QED
    BY <1>2, <2>2, <2>3 DEF TreeInv, TimesSet, InProgress
<1>9. CASE VisitFolder \/ ListFolder
  BY <1>3, <1>9, VisitFolderTyped, ListFolderTyped
<1>10. CASE RestrictFolder
  BY <1>3, <1>10, GotoTyped DEF RestrictFolder, Phases
<1>11. CASE CopyOneFile
  <2>1. CASE Resolve \/ FillThumbnail
    BY <1>3, <2>1, ResolveTyped, FileDoneTyped DEF FillThumbnail
  <2>2. CASE Receive \/ OpenThumbnail
    BY <1>3, <2>2, ReceiveTyped, OpenThumbnailTyped
  <2>3. CASE Verify
    <3>1. copy'.pc \in {"replace", "publish"}
      BY <2>3, GotoTyped DEF Verify, Phases
    <3> QED
      BY <1>3, <3>1
  <2>4. CASE Replace
    BY <1>3, <2>4, GotoTyped DEF Replace, Phases
  <2>5. CASE Publish
    BY <1>3, <2>5, PublishTyped, FileDoneTyped
  <2> QED
    BY <1>11, <2>1, <2>2, <2>3, <2>4, <2>5 DEF CopyOneFile
<1> QED
  BY <1>4, <1>5, <1>6, <1>7, <1>8, <1>9, <1>10, <1>11 DEF GoesOn, WalkTree

\* A copy begins with the root alone, from which every path is reached, ...
LEMMA BeginTreeInv ==
  ASSUME Shape, NEW request \in Requests, Begin(request)
  PROVE  TreeInv' /\ Visited' = {}
<1>1. copy' = [Idle EXCEPT !.pc = "walk", !.request = request, !.pending = {<<>>}]
  BY DEF Begin
<1>2. copy'.pc = "walk" /\ copy'.pending = {<<>>} /\ copy'.visited = <<>>
  BY <1>1 DEF Idle
<1>3. Visited' = {}
  BY <1>2 DEF Visited, Range
<1>4. \A p \in Places : PendingAbove(p)'
  <2> TAKE p \in Places
  <2>1. 0 \in 0..Len(p) /\ SubSeq(p, 1, 0) = <<>>
    BY PathsAreSequences, SubSeqEmpty
  <2> QED
    BY <1>2, <2>1 DEF PendingAbove
<1>5. stable' \subseteq Places /\ Folders \subseteq Places
  BY TreeAssumption DEF Begin, Shape
<1>6. FoldersReached' /\ FilesReached'
  BY <1>4, <1>5 DEF FoldersReached, FilesReached
<1>7. CurrentSettled' /\ ThumbnailOpen' /\ TimesSet'
  BY <1>2 DEF CurrentSettled, ThumbnailOpen, TimesSet, At
<1>8. FoldersShow' /\ ModesSet'
  BY <1>3 DEF FoldersShow, ModesSet
<1> QED
  BY <1>3, <1>6, <1>7, <1>8 DEF TreeInv

\* ... and one that is not in progress promises nothing.
LEMMA NoCopyTreeInv ==
  /\ copy.pc = "idle" => TreeInv
  /\ (copy.pc = "idle" => TreeInv)'
BY DEF TreeInv, FoldersReached, FilesReached, CurrentSettled, ThumbnailOpen, FoldersShow,
       ModesSet, TimesSet, InProgress, At

LEMMA NextGoesOn ==
  ASSUME [Next]_vars
  PROVE  GoesOn \/ Stop \/ \E request \in Requests : Begin(request)
BY DEF GoesOn, Next, Copying

LEMMA TreeInvStep ==
  ASSUME Shape, Focus, TreeInv, [Next]_vars
  PROVE  TreeInv'
<1>1. CASE \E request \in Requests : Begin(request)
  BY <1>1, BeginTreeInv
<1>2. CASE Stop
  <2>1. copy'.pc = "idle"
    BY <1>2 DEF Stop, Idle
  <2> QED
    BY <2>1, NoCopyTreeInv
<1>3. CASE GoesOn /\ InProgress
  <2>1. ~copy.request.dryRun /\ GoesOn
    BY <1>3 DEF InProgress
  <2>2. FoldersReached' /\ FilesReached'
    BY <1>3, FoldersReachedStep, FilesReachedStep DEF TreeInv
  <2>3. CurrentSettled' /\ ThumbnailOpen'
    BY <2>1, CurrentSettledStep, ThumbnailOpenStep DEF TreeInv
  <2>4. FoldersShow' /\ ModesSet' /\ TimesSet'
    BY <1>3, FoldersShowStep, ModesSetStep, TimesSetStep
  <2> QED
    BY <2>2, <2>3, <2>4 DEF TreeInv
<1>4. CASE GoesOn /\ ~InProgress
  <2>1. ~InProgress'
    BY <1>4, StaysTheSameCopy DEF InProgress
  <2>2. copy'.pc \notin {"thumbnail", "fill"}
    <3>1. Focus'
      BY StepTyped
    <3> QED
      BY <2>1, <3>1 DEF InProgress, Focus, OnFile, FilePhases
  <2> QED
    BY <2>1, <2>2 DEF TreeInv, FoldersReached, FilesReached, CurrentSettled, ThumbnailOpen,
                      FoldersShow, ModesSet, TimesSet, At
<1> QED
  BY <1>1, <1>2, <1>3, <1>4, NextGoesOn

LEMMA Invariance == Spec => [](Shape /\ Focus /\ TreeInv)
<1>1. Init => Shape /\ Focus /\ TreeInv
  <2>1. Init => copy.pc = "idle"
    BY DEF Init, Idle
  <2> QED
    BY <2>1, InitTyped, NoCopyTreeInv
<1>2. Shape /\ Focus /\ TreeInv /\ [Next]_vars => (Shape /\ Focus /\ TreeInv)'
  BY StepTyped, TreeInvStep
<1> QED
  BY <1>1, <1>2, PTL DEF Spec

\* When an upload of any tree succeeds, every directory it recorded has the mode
\* of the policy, unless others removed it meanwhile.
THEOREM FoldersAlwaysRestricted == Spec => []FoldersCarryPolicy
<1>1. Shape /\ Focus /\ TreeInv => FoldersCarryPolicy
  BY DEF TreeInv, ModesSet, InProgress, FoldersCarryPolicy, Succeeded, At
<1> QED
  BY <1>1, Invariance, PTL

\* When a copy of any tree that was to preserve times succeeds, no directory has
\* the time of a change the copy made, however files went through it meanwhile.
THEOREM FolderTimesAlwaysPreserved == Spec => []FolderTimesPreserved
<1>1. ASSUME Shape, Focus, TreeInv, Succeeded, copy.request.preserveTime, NEW d \in Visited
      PROVE  dirs[d].time # "copy"
  <2>1. InProgress /\ copy.pc = "done" /\ copy.left = 0
    BY <1>1 DEF Succeeded, InProgress, At, Focus, AsAsked
  <2>2. copy.visited \in Seq(Folders)
    BY <1>1 DEF Shape, CopyStates
  <2>3. PICK i \in 1..Len(copy.visited) : d = copy.visited[i]
    BY <2>2, LenProperties DEF Visited, Range
  <2>4. i > copy.left
    BY <2>1, <2>2, LenProperties
  <2> QED
    BY <1>1, <2>1, <2>3, <2>4 DEF TreeInv, TimesSet
<1>2. Shape /\ Focus /\ TreeInv => FolderTimesPreserved
  BY <1>1 DEF FolderTimesPreserved
<1> QED
  BY <1>2, Invariance, PTL
-----------------------------------------------------------------------------
(***************************************************************************)
(* The copy of a tree is complete.                                         *)
(***************************************************************************)
\* No directory of the tree has the name a file beside it gets.  If an empty
\* one has, an overwriting copy that fixes names replaces it by the file.
NamesApart == \A p \in Files : Renamed(p, FixedName[Last(p)]) \notin Folders

\* A recorded directory is one until others change it.
FoldersStand == InProgress => \A d \in Visited : dest[d] = Directory \/ d \in disturbed

LEMMA NoFileLandsOnAFolder ==
  ASSUME NamesApart, NEW p \in Files
  PROVE  Landings(p) \cap Folders = {}
<1>1. p \in Places /\ p # <<>> /\ p \notin Folders
  BY TreeAssumption DEF Files
<1>2. Len(p) \in Nat /\ Len(p) > 0
  BY <1>1, PathsAreSequences
<1>3. ASSUME NEW x PROVE Append(p, x) \notin Folders
  <2> SUFFICES ASSUME Append(p, x) \in Folders PROVE FALSE
    OBVIOUS
  <2>1. Append(p, x) \in Paths /\ Append(p, x) \in Seq(DOMAIN FixedName)
    BY TreeAssumption
  <2>2. Len(Append(p, x)) = Len(p) + 1
    <3>1. p \in Seq(DOMAIN FixedName \cup {x})
      BY <1>1, PathsAreSequences, SeqMonotonic
    <3> QED
      BY <3>1, AppendProperties
  <2>3. SubSeq(Append(p, x), 1, Len(p)) \in Folders
    <3>1. Len(p) \in 0..(Len(Append(p, x)) - 1)
      BY <1>2, <2>2
    <3> QED
      BY <2>1, <3>1, TreeAssumption
  <2> QED
    BY <1>1, <2>3, Appending
<1>4. Renamed(Append(p, Last(p)), FixedName[Last(Append(p, Last(p)))]) \notin Folders
  BY <1>1, <1>3, Appending DEF Renamed
<1>5. Renamed(p, FixedName[Last(p)]) \notin Folders
  BY DEF NamesApart
<1> QED
  BY <1>1, <1>3, <1>4, <1>5 DEF Landings, NameFor

LEMMA FoldersStandStep ==
  ASSUME NamesApart, Shape, Focus, TreeInv, FoldersStand, [Next]_vars
  PROVE  FoldersStand'
<1>1. CASE \E request \in Requests : Begin(request)
  BY <1>1, BeginTreeInv DEF FoldersStand
<1>2. CASE Stop
  BY <1>2 DEF Stop, Idle, FoldersStand, InProgress
<1>3. CASE GoesOn /\ ~InProgress
  BY <1>3, StaysTheSameCopy DEF FoldersStand, InProgress
<1>4. CASE GoesOn /\ InProgress
  <2>1. Effects /\ ~copy.request.dryRun
    BY <1>4, StepEffects DEF InProgress, TreeInv
  <2>2. ASSUME NEW d \in Visited PROVE dest'[d] = Directory \/ d \in disturbed'
    <3>1. d \in Folders /\ d \in Places
      BY VisitedAreFolders, TreeAssumption
    <3>2. KeepsFolder(d) /\ disturbed \subseteq disturbed'
      BY <2>1, <3>1 DEF Effects
    <3>3. copy.pc = "replace" => d # copy.target
      <4> SUFFICES ASSUME copy.pc = "replace" PROVE d # copy.target
        OBVIOUS
      <4>1. Current \in Files /\ copy.target \in Landings(Current)
        BY TargetIsAPlace DEF FilePhases, Focus, OnFile
      <4> QED
        BY <3>1, <4>1, NoFileLandsOnAFolder
    <3> QED
      BY <1>4, <3>2, <3>3 DEF FoldersStand, KeepsFolder
  <2>3. CASE VisitFolder
    <3>1. dest'[Current] = Directory /\ Visited' = Visited \cup {Current}
      BY <2>1, <2>3, NewDirectory, VisitFolderTyped
    <3> QED
      BY <2>2, <3>1 DEF FoldersStand
  <2>4. CASE ~VisitFolder
    BY <1>4, <2>2, <2>4, OnlyVisitsRecord DEF FoldersStand
  <2> QED
    BY <2>3, <2>4
<1> QED
  BY <1>1, <1>2, <1>3, <1>4, NextGoesOn

LEMMA CompleteWhenDone ==
  ASSUME Shape, Focus, TreeInv, FoldersStand
  PROVE  TreeIsComplete
<1> SUFFICES ASSUME Succeeded PROVE TreeIsComplete
  BY DEF TreeIsComplete
<1>1. InProgress /\ copy.pc = "done" /\ copy.pending = {}
  BY DEF Succeeded, InProgress, At, Focus, AsAsked
<1>2. \A p : ~PendingAbove(p)
  BY <1>1 DEF PendingAbove
<1>3. \A d \in Folders : dest[d] = Directory \/ d \in disturbed
  BY <1>1, <1>2 DEF TreeInv, FoldersReached, FoldersStand
<1>4. \A p \in stable \ Folders : \E q \in Landings(p) : Accounted(p, q)
  BY <1>1, <1>2 DEF TreeInv, FilesReached, Settled, InHand, At
<1> QED
  BY <1>3, <1>4 DEF TreeIsComplete

\* For any tree whose directories do not take the names of its files, any
\* destination, and files that come, go and are renamed meanwhile: a copy that
\* reports success has brought every directory, and every file that was there
\* all along.
THEOREM TreesAlwaysComplete ==
  ASSUME NamesApart
  PROVE  Spec => []TreeIsComplete
<1>1. Init => FoldersStand
  BY DEF Init, Idle, FoldersStand, InProgress
<1>2. Shape /\ Focus /\ TreeInv /\ FoldersStand /\ [Next]_vars => FoldersStand'
  BY FoldersStandStep
<1>3. Shape /\ Focus /\ TreeInv /\ FoldersStand => TreeIsComplete
  BY CompleteWhenDone
<1> QED
  BY <1>1, <1>2, <1>3, Invariance, PTL DEF Spec
=============================================================================
