-------------------------- MODULE Commands_proofs --------------------------
(***************************************************************************)
(* Proofs about Commands for every site, every script of commands and      *)
(* however often others intervene.                                         *)
(***************************************************************************)
EXTENDS Commands, SequenceTheorems, WellFoundedInduction, TLAPS

Ops == {"copy", "upload", "rsync", "download", "verify", "check", "preview"}

\* cmd is a record of these fields, so that EXCEPT keeps the others.
IsCommand ==
  cmd = [pc |-> cmd.pc, request |-> cmd.request, site |-> cmd.site,
         answer |-> cmd.answer, info |-> cmd.info, place |-> cmd.place,
         aim |-> cmd.aim, found |-> cmd.found, digest |-> cmd.digest,
         skipped |-> cmd.skipped, peer |-> cmd.peer, at |-> cmd.at,
         blocked |-> cmd.blocked]

Shape == /\ TypeOK /\ IsCommand
         /\ script \in Seq(Lines)
         /\ cmd.request.policy \in Modes \cup {Preserve}
         /\ cmd.digest \in Contents

\* Which command may be where, and what has been decided on the way there.
Phase ==
  /\ At("dial") => cmd.request.op \in Ops
  /\ cmd.pc \in {"inspect", "ssh", "look", "write", "chown", "chmod", "chtimes"} =>
       cmd.request.op = "rsync"
  /\ At("engine") => cmd.request.op \in {"copy", "upload", "download"}
  /\ At("group") => cmd.request.op \in {"copy", "upload", "rsync"}
  /\ cmd.pc \in {"local", "remote"} => cmd.request.op \in {"rsync", "verify"}
  /\ At("list") => cmd.request.op = "preview"
  /\ cmd.pc \in {"write", "group", "local", "remote", "chown", "chmod", "chtimes"}
       /\ cmd.request.op = "rsync" => ~cmd.request.dryRun
  /\ At("engine") /\ cmd.request.op # "download" =>
       cmd.request.group \in Groups \cup {NoGroup}
  /\ At("chown") => cmd.request.group \in Groups
  /\ At("write") /\ cmd.found => cmd.request.overwrite
  /\ cmd.pc \notin {"access", "success", "failure"} => cmd.at = 1 /\ cmd.blocked = FALSE

Compared(entry) == entry.kind = "file" /\ entry.content = cmd.digest

\* How much of what was asked for the destination already has, unless others have
\* changed it.
Progress ==
  cmd.place \notin touched =>
    /\ At("remote") => file[cmd.place].kind = "file"
    /\ \/ cmd.pc \in {"chown", "chmod", "chtimes"}
       \/ At("group") /\ cmd.request.op = "rsync"
       => Compared(file[cmd.place])
    /\ cmd.pc \in {"chmod", "chtimes"} /\ cmd.request.group # NoGroup =>
         file[cmd.place].gid = cmd.request.group
    /\ At("chtimes") => file[cmd.place].mode = AskedMode(cmd.info)
    /\ /\ cmd.pc \in {"account", "access", "success"}
       /\ cmd.request.op \in {"copy", "upload", "rsync"}
       /\ ~cmd.request.dryRun /\ ~cmd.skipped
       => AsAsked(file[cmd.place])

\* The walk of the access check, as far as it has come.
Walk ==
  LET who   == Accounts[cmd.request.readableBy]
      chain == Chain(cmd.place)
  IN /\ At("access") => cmd.at \in 1..Len(chain)
     /\ At("access") /\ ~cmd.blocked =>
          \A i \in 1..cmd.at - 1 : chain[i] \in stale \/ MayDo(who, file[chain[i]], "traverse")
     /\ At("success") /\ cmd.request.op \in {"copy", "upload", "rsync", "check"}
        /\ cmd.request.readableBy # NoAccount /\ ~cmd.request.dryRun
          => \A i \in 1..Len(chain) :
               chain[i] \in stale \/ MayDo(who, file[chain[i]], Deed(chain, i))

Inv == Shape /\ Phase /\ Progress /\ Walk

-----------------------------------------------------------------------------
(* Lemmas about the operators *)

Asks == cmd'.request = cmd.request /\ cmd'.site = cmd.site /\ cmd'.answer = cmd.answer
Locals == /\ cmd'.info = cmd.info /\ cmd'.place = cmd.place /\ cmd'.digest = cmd.digest
          /\ cmd'.skipped = cmd.skipped /\ cmd'.at = cmd.at /\ cmd'.blocked = cmd.blocked
Aims == cmd'.aim = cmd.aim /\ cmd'.found = cmd.found /\ cmd'.peer = cmd.peer

\* Goto changes nothing but pc.
LEMMA GotoKeeps ==
  ASSUME IsCommand, NEW pc, Goto(pc)
  PROVE  IsCommand' /\ cmd'.pc = pc /\ Asks /\ Locals /\ Aims
BY DEF IsCommand, Goto, Asks, Locals, Aims

LEMMA NothingIsEntry ==
  Nothing \in Entries
BY CommandsAssumption DEF Nothing, Entries, Contents, Times

LEMMA NewFileIsEntry ==
  ASSUME NEW content \in Contents, NEW mode \in Modes, NEW gid \in Groups, NEW time \in Times
  PROVE  /\ NewFile(content, mode, gid, time) \in Entries
         /\ NewFile(content, mode, gid, time).kind = "file"
         /\ NewFile(content, mode, gid, time).content = content
         /\ NewFile(content, mode, gid, time).mode = mode
         /\ NewFile(content, mode, gid, time).gid = gid
         /\ NewFile(content, mode, gid, time).time = time
BY CommandsAssumption DEF NewFile, Entries

LEMMA SourceFacts ==
  ASSUME NEW s \in Sources
  PROVE  s.content \in Contents /\ s.mode \in Modes /\ s.time \in Times
BY CommandsAssumption DEF Contents, Times

LEMMA InfoFacts ==
  ASSUME TypeOK
  PROVE  cmd.info.mode \in Modes /\ cmd.info.time \in Times
<1>1. CASE cmd.info \in Sources
  BY <1>1, SourceFacts
<1>2. CASE cmd.info = Nothing
  BY <1>2, NothingIsEntry DEF Entries
<1> QED
  BY <1>1, <1>2 DEF TypeOK

LEMMA AskedModeType ==
  ASSUME Shape
  PROVE  /\ AskedMode(cmd.info) \in Modes
         /\ \A s \in Sources : AskedMode(s) \in Modes
BY InfoFacts, SourceFacts DEF Shape, AskedMode

\* An entry that keeps its kind and content is still an entry.
LEMMA EntryChanges ==
  ASSUME NEW entry \in Entries, NEW gid \in Groups, NEW mode \in Modes, NEW time \in Times
  PROVE  /\ [entry EXCEPT !.gid = gid, !.mode = mode] \in Entries
         /\ [entry EXCEPT !.mode = mode] \in Entries
         /\ [entry EXCEPT !.time = time] \in Entries
BY DEF Entries

\* What the permission bits allow is what the server would let the account do.
LEMMA AllowedIsMayDo ==
  ASSUME NEW entry, NEW who, NEW last \in BOOLEAN, Allowed(entry, who, last)
  PROVE  MayDo(who, entry, IF last THEN "read" ELSE "traverse")
BY DEF Allowed, Required, AllowedBits, MayDo

-----------------------------------------------------------------------------
(* Parts of the invariant that a step leaves alone *)

LEMMA ShapeKept ==
  ASSUME Shape, IsCommand', Asks, Locals, Aims, cmd'.pc \in Phases,
         script' = script, source' \in Sources, file' \in [Places -> Entries],
         touched' \subseteq Places, stale' \subseteq Places, meddling' \in 0..MaxMeddling
  PROVE  Shape'
BY DEF Shape, TypeOK, Asks, Locals, Aims

\* Before the destination is there and compared, nothing is claimed about it.
LEMMA NoProgress ==
  ASSUME cmd'.pc \notin {"remote", "group", "chown", "chmod", "chtimes", "account", "access", "success"}
  PROVE  Progress'
BY DEF Progress, At

LEMMA NoWalk ==
  ASSUME cmd'.pc \notin {"access", "success"}
  PROVE  Walk'
BY DEF Walk, At

\* A copy may succeed without a walk only where none was asked for.
LEMMA WalkNotAsked ==
  ASSUME cmd'.pc # "access",
         cmd'.pc = "success" => \/ cmd'.request.op \notin {"copy", "upload", "rsync", "check"}
                                \/ cmd'.request.readableBy = NoAccount
                                \/ cmd'.request.dryRun
  PROVE  Walk'
BY DEF Walk, At

\* A step to a place where no command does anything to a file yet, or no longer.
LEMMA QuietStep ==
  ASSUME Inv, NEW pc \in Phases, Goto(pc),
         UNCHANGED <<script, source, file, touched, stale, meddling>>,
         pc \notin {"remote", "group", "chown", "chmod", "chtimes", "account", "access", "success"},
         Phase'
  PROVE  Inv'
<1>1. IsCommand' /\ cmd'.pc = pc /\ Asks /\ Locals /\ Aims
  BY GotoKeeps DEF Inv, Shape
<1>2. Shape'
  BY <1>1, ShapeKept DEF Inv, Shape, TypeOK
<1> QED
  BY <1>1, <1>2, NoProgress, NoWalk DEF Inv

-----------------------------------------------------------------------------
(* One lemma per action *)

LEMMA InitInv ==
  ASSUME Init
  PROVE  Inv
<1>1. /\ cmd.pc = "idle" /\ cmd.request = NoRequest /\ cmd.info = Nothing
      /\ cmd.place = "target" /\ cmd.aim = "target" /\ cmd.found = FALSE
      /\ cmd.digest = NoContent /\ cmd.skipped = FALSE /\ cmd.at = 1 /\ cmd.blocked = FALSE
      /\ IsCommand
  BY DEF Init, Idle, IsCommand
<1>2. Shape
  <2>1. NoContent \in Contents
    BY DEF Contents
  <2>2. cmd.request.policy = Preserve
    BY <1>1 DEF NoRequest
  <2>3. /\ script \in Seq(Lines) /\ source \in Sources /\ file \in [Places -> Entries]
        /\ touched = {} /\ stale = {} /\ meddling \in 0..MaxMeddling
    BY CommandsAssumption DEF Init
  <2>4. cmd.pc \in Phases
    BY <1>1 DEF Phases, Ended
  <2> QED
    <3>1. cmd.found \in BOOLEAN /\ cmd.skipped \in BOOLEAN /\ cmd.blocked \in BOOLEAN
      BY <1>1
    <3>2. cmd.at \in 1..3 /\ touched \subseteq Places /\ stale \subseteq Places
      BY <1>1, <2>3
    <3>3. cmd.info \in Sources \cup {Nothing}
      BY <1>1
    <3>4. cmd.place \in {"target", "inside"} /\ cmd.aim \in {"target", "inside"}
      BY <1>1
    <3> QED
      BY <1>1, <2>1, <2>2, <2>3, <2>4, <3>1, <3>2, <3>3, <3>4 DEF Shape, TypeOK
<1>3. Phase
  BY <1>1 DEF Phase, At
<1>4. Progress /\ Walk
  BY <1>1 DEF Progress, Walk, At
<1> QED
  BY <1>2, <1>3, <1>4 DEF Inv

LEMMA BeginInv ==
  ASSUME Inv, Begin
  PROVE  Inv'
<1> DEFINE line == Head(script)
<1>1. line \in Lines /\ script' \in Seq(Lines)
  BY HeadTailProperties DEF Inv, Shape, Begin
<1>2. /\ line.request.op \in Ops /\ line.request.policy \in Modes \cup {Preserve}
  BY <1>1, CommandsAssumption DEF Ops
<1>3. cmd' = [Idle EXCEPT !.pc = "dial", !.request = line.request, !.site = line.site,
                          !.info = source]
  BY DEF Begin
<1>4. /\ cmd'.pc = "dial" /\ cmd'.request = line.request /\ cmd'.info = source
      /\ cmd'.place = "target" /\ cmd'.aim = "target" /\ cmd'.found = FALSE
      /\ cmd'.digest = NoContent /\ cmd'.skipped = FALSE /\ cmd'.at = 1
      /\ cmd'.blocked = FALSE /\ IsCommand'
  BY <1>3 DEF Idle, IsCommand
<1>5. source' = source /\ file' = file /\ touched' = {} /\ stale' = {} /\ meddling' = meddling
  BY DEF Begin
<1>6. Shape'
  <2>1. NoContent \in Contents
    BY DEF Contents
  <2>2. cmd'.pc \in Phases
    BY <1>4 DEF Phases
  <2> QED
    <3>1. cmd'.found \in BOOLEAN /\ cmd'.skipped \in BOOLEAN /\ cmd'.blocked \in BOOLEAN
      BY <1>4
    <3>2. cmd'.at \in 1..3 /\ touched' \subseteq Places /\ stale' \subseteq Places
      BY <1>4, <1>5
    <3>3. cmd'.info \in Sources \cup {Nothing} /\ source' \in Sources
      BY <1>4, <1>5 DEF Inv, Shape, TypeOK
    <3>4. cmd'.place \in {"target", "inside"} /\ cmd'.aim \in {"target", "inside"}
      BY <1>4
    <3>5. file' \in [Places -> Entries] /\ meddling' \in 0..MaxMeddling
      BY <1>5 DEF Inv, Shape, TypeOK
    <3> QED
      BY <1>1, <1>2, <1>4, <2>1, <2>2, <3>1, <3>2, <3>3, <3>4, <3>5 DEF Shape, TypeOK
<1>7. Phase'
  BY <1>2, <1>4 DEF Phase, At
<1> QED
  BY <1>4, <1>6, <1>7, NoProgress, NoWalk DEF Inv

LEMMA ConnectInv ==
  ASSUME Inv, Connect
  PROVE  Inv'
<1>1. PICK answer : cmd' = [cmd EXCEPT !.answer = answer,
        !.pc = IF answer.code = "OK" THEN FirstStep(cmd.request) ELSE "failure"]
  BY DEF Connect
<1>2. /\ cmd.pc = "dial" /\ cmd.request.op \in Ops
      /\ UNCHANGED <<script, source, file, touched, stale, meddling>>
  BY DEF Connect, Inv, Phase, At
<1>3. /\ IsCommand' /\ Locals /\ Aims /\ cmd'.request = cmd.request
      /\ cmd'.pc \in {FirstStep(cmd.request), "failure"}
  BY <1>1 DEF Inv, Shape, IsCommand, Locals, Aims
<1>4. FirstStep(cmd.request) \in {"engine", "group", "inspect", "local", "account", "list"}
  BY <1>2 DEF FirstStep, EngineFirst, Ops
<1>5. Shape'
  BY <1>2, <1>3, <1>4 DEF Inv, Shape, TypeOK, Locals, Aims, Phases, Ended
<1>6. Phase'
  BY <1>2, <1>3 DEF Inv, Phase, At, FirstStep, EngineFirst, Ops, Locals
<1>7. Progress'
  BY <1>2, <1>3 DEF Progress, At, FirstStep, EngineFirst, Ops
<1>8. Walk'
  BY <1>3, <1>4, NoWalk
<1> QED
  BY <1>5, <1>6, <1>7, <1>8 DEF Inv

LEMMA ResolveGroupInv ==
  ASSUME Inv, ResolveGroup
  PROVE  Inv'
<1> DEFINE pc == IF cmd.request.op = "rsync" THEN "chown" ELSE "engine"
<1>1. /\ cmd.pc = "group" /\ cmd.request.group \in Groups /\ Goto(pc)
      /\ UNCHANGED <<script, source, file, touched, stale, meddling>>
  BY DEF ResolveGroup, At
<1>2. IsCommand' /\ cmd'.pc = pc /\ Asks /\ Locals /\ Aims
  BY <1>1, GotoKeeps DEF Inv, Shape
<1>3. Shape'
  BY <1>1, <1>2, ShapeKept DEF Inv, Shape, TypeOK, Phases
<1>4. Phase'
  BY <1>1, <1>2 DEF Inv, Phase, At, Asks, Locals
<1>5. Progress'
  BY <1>1, <1>2 DEF Inv, Progress, At, Asks, Locals, Compared
<1> QED
  BY <1>2, <1>3, <1>4, <1>5, NoWalk DEF Inv

\* The engine: Copy and Download.
LEMMA EngineInv ==
  ASSUME Inv, EngineStep
  PROVE  Inv'
<1>1. /\ cmd.pc = "engine" /\ cmd.request.op \in {"copy", "upload", "download"}
      /\ cmd.at = 1 /\ cmd.blocked = FALSE
      /\ UNCHANGED <<script, source, stale, meddling>>
      /\ file \in [Places -> Entries] /\ PlaceNow \in {"target", "inside"}
      /\ source \in Sources
  BY DEF Inv, Shape, TypeOK, Phase, At, EngineStep, EngineSkips, EnginePlans,
         EngineWrites, EngineCut, Engine, PlaceNow
<1>2. Afterwards \in {"success", "account"} /\ {"success", "account", "failure"} \subseteq Phases
  BY DEF Afterwards, Phases, Ended
<1>3. CASE EngineSkips \/ EnginePlans
  <2>1. /\ IsCommand' /\ Asks /\ Aims /\ cmd'.info = cmd.info /\ cmd'.digest = cmd.digest
        /\ cmd'.at = cmd.at /\ cmd'.blocked = cmd.blocked /\ cmd'.place = PlaceNow
        /\ cmd'.skipped \in BOOLEAN
        /\ IF cmd.request.dryRun THEN cmd'.pc = "success"
           ELSE cmd'.pc = Afterwards /\ cmd'.skipped = TRUE
        /\ UNCHANGED <<file, touched>>
    BY <1>3 DEF EngineSkips, EnginePlans, Inv, Shape, TypeOK, IsCommand, Asks, Aims
  <2>2. Shape'
    BY <1>1, <1>2, <2>1 DEF Inv, Shape, TypeOK, Asks, Aims
  <2>3. Phase'
    BY <1>1, <1>2, <2>1 DEF Phase, At
  <2>4. Progress'
    BY <1>2, <2>1 DEF Progress, At, Asks
  <2>5. Walk'
    BY <2>1, WalkNotAsked DEF Afterwards, Asks
  <2> QED
    BY <2>2, <2>3, <2>4, <2>5 DEF Inv
<1>4. CASE EngineWrites
  <2>1. /\ IsCommand' /\ Asks /\ Aims /\ cmd'.info = source /\ cmd'.digest = source.content
        /\ cmd'.skipped = cmd.skipped /\ cmd'.at = cmd.at /\ cmd'.blocked = cmd.blocked
        /\ cmd'.place = PlaceNow /\ cmd'.pc = Afterwards
        /\ touched' = {} /\ ~cmd.request.dryRun
    BY <1>4 DEF EngineWrites, Inv, Shape, IsCommand, Asks, Aims
  <2> DEFINE entry == file'[PlaceNow]
  <2>2. /\ source.content \in Contents /\ source.time \in Times
        /\ AskedMode(source) \in Modes /\ Restrictive \in Modes
        /\ DefaultGroup \in Groups /\ Now \in Times
    BY <1>1, SourceFacts, AskedModeType, CommandsAssumption DEF Inv, Times
  <2>3. CASE cmd.request.op = "download"
    <3>1. file' = [file EXCEPT ![PlaceNow] =
                     NewFile(source.content, Restrictive, DefaultGroup, Now)]
      BY <1>4, <2>3 DEF EngineWrites
    <3>2. file' \in [Places -> Entries]
      BY <1>1, <2>2, <3>1, NewFileIsEntry
    <3>3. Shape'
      BY <1>1, <1>2, <2>1, <2>2, <3>2 DEF Inv, Shape, TypeOK, Asks, Aims
    <3>4. Phase'
      BY <1>1, <1>2, <2>1 DEF Phase, At
    <3>5. Progress'
      BY <1>2, <2>1, <2>3 DEF Progress, At, Asks
    <3>6. Walk'
      BY <1>2, <2>1, <2>3, WalkNotAsked DEF Asks
    <3> QED
      BY <3>3, <3>4, <3>5, <3>6 DEF Inv
  <2>4. CASE cmd.request.op # "download"
    <3> DEFINE time == IF cmd.request.preserveTime THEN source.time ELSE Now
    <3>1. file' = [file EXCEPT ![PlaceNow] =
                     NewFile(source.content, AskedMode(source), AskedGroup, time)]
      BY <1>4, <2>4 DEF EngineWrites
    <3>2. AskedGroup \in Groups /\ time \in Times
      BY <1>1, <2>2, <2>4 DEF AskedGroup, Inv, Phase, At
    <3>3. /\ file' \in [Places -> Entries] /\ entry.kind = "file"
          /\ entry.content = source.content /\ entry.mode = AskedMode(source)
          /\ entry.gid = AskedGroup /\ entry.time = time
      <4>1. file'[PlaceNow] = NewFile(source.content, AskedMode(source), AskedGroup, time)
        BY <1>1, <3>1 DEF Places
      <4> QED
        <5> DEFINE new == NewFile(source.content, AskedMode(source), AskedGroup, time)
        <5>1. /\ new \in Entries /\ new.kind = "file" /\ new.content = source.content
              /\ new.mode = AskedMode(source) /\ new.gid = AskedGroup /\ new.time = time
          <6> HIDE DEF time
          <6> QED
            BY <2>2, <3>2, NewFileIsEntry
        <5> HIDE DEF new
        <5>2. file' \in [Places -> Entries]
          BY <1>1, <3>1, <5>1 DEF new
        <5> QED
          BY <4>1, <5>1, <5>2 DEF new
    <3>4. Shape'
      BY <1>1, <1>2, <2>1, <2>2, <3>3 DEF Inv, Shape, TypeOK, Asks, Aims
    <3>5. Phase'
      BY <1>1, <1>2, <2>1 DEF Phase, At
    <3>6. AsAsked(file[cmd.place])'
      <4>1. AskedMode(cmd.info)' = AskedMode(source)
        BY <2>1 DEF AskedMode, Asks
      <4> QED
        BY <2>1, <3>3, <4>1 DEF AsAsked, Asks, AskedGroup
    <3>7. Progress'
      BY <1>2, <2>1, <3>6 DEF Progress, At
    <3>8. Walk'
      BY <2>1, WalkNotAsked DEF Afterwards, Asks
    <3> QED
      BY <3>4, <3>5, <3>7, <3>8 DEF Inv
  <2> QED
    BY <2>3, <2>4
<1>5. CASE EngineCut
  <2>1. /\ IsCommand' /\ cmd'.pc = "failure" /\ Asks /\ Locals /\ Aims
        /\ touched' = touched /\ file' = [file EXCEPT ![PlaceNow] = Nothing]
    BY <1>5, GotoKeeps DEF EngineCut, Inv, Shape
  <2>2. file' \in [Places -> Entries]
    BY <1>1, <2>1, NothingIsEntry
  <2>3. Shape'
    BY <1>1, <1>2, <2>1, <2>2, ShapeKept DEF Inv, Shape, TypeOK
  <2>4. Phase'
    BY <2>1 DEF Phase, At
  <2> QED
    BY <2>1, <2>3, <2>4, NoProgress, NoWalk DEF Inv
<1> QED
  BY <1>3, <1>4, <1>5 DEF EngineStep

\* The rsync command up to the end of the program.
LEMMA InspectInv ==
  ASSUME Inv, Inspect
  PROVE  Inv'
<1>1. /\ cmd.pc = "inspect" /\ PlaceNow \in {"target", "inside"}
      /\ UNCHANGED <<script, source, file, touched, stale, meddling>>
  BY DEF Inspect, At, PlaceNow
<1>2. /\ IsCommand' /\ Asks /\ Aims /\ cmd'.pc = "ssh" /\ cmd'.place = PlaceNow
      /\ cmd'.info = cmd.info /\ cmd'.digest = cmd.digest /\ cmd'.skipped = cmd.skipped
      /\ cmd'.at = cmd.at /\ cmd'.blocked = cmd.blocked
  BY DEF Inspect, Inv, Shape, IsCommand, Asks, Aims
<1>3. "ssh" \in Phases
  BY DEF Phases
<1>4. Shape'
  BY <1>1, <1>2, <1>3 DEF Inv, Shape, TypeOK, Asks, Aims
<1>5. Phase'
  BY <1>1, <1>2 DEF Inv, Phase, At, Asks
<1> QED
  BY <1>2, <1>4, <1>5, NoProgress, NoWalk DEF Inv

LEMMA RsyncConnectsInv ==
  ASSUME Inv, RsyncConnects
  PROVE  Inv'
<1>1. /\ cmd.pc = "ssh"
      /\ UNCHANGED <<script, source, file, touched, stale, meddling>>
  BY DEF RsyncConnects, At
<1>2. PICK machine :
        cmd' = [cmd EXCEPT !.peer = machine,
            !.pc = IF machine = Machine(cmd.site) THEN "look"
                   ELSE IF cmd.request.dryRun THEN "success" ELSE "local"]
  BY DEF RsyncConnects
<1>3. /\ IsCommand' /\ Asks /\ Locals /\ cmd'.aim = cmd.aim /\ cmd'.found = cmd.found
      /\ cmd'.pc \in {"look", "success", "local"}
      /\ cmd'.pc = "success" => cmd.request.dryRun
      /\ cmd'.pc = "local" => ~cmd.request.dryRun
  BY <1>2 DEF Inv, Shape, IsCommand, Asks, Locals
<1>4. {"look", "success", "local"} \subseteq Phases
  BY DEF Phases, Ended
<1>5. Shape'
  BY <1>1, <1>3, <1>4 DEF Inv, Shape, TypeOK, Asks, Locals
<1>6. Phase'
  BY <1>1, <1>3 DEF Inv, Phase, At, Asks, Locals
<1>7. Progress'
  BY <1>3 DEF Progress, At, Asks
<1>8. Walk'
  BY <1>3, WalkNotAsked DEF Asks
<1> QED
  BY <1>5, <1>6, <1>7, <1>8 DEF Inv

LEMMA RsyncLeavesInv ==
  ASSUME Inv, RsyncLeaves
  PROVE  Inv'
<1> DEFINE pc == IF cmd.request.dryRun THEN "success" ELSE "local"
<1>1. /\ cmd.pc = "look" /\ Goto(pc)
      /\ UNCHANGED <<script, source, file, touched, stale, meddling>>
  BY DEF RsyncLeaves, At
<1>2. IsCommand' /\ cmd'.pc = pc /\ Asks /\ Locals /\ Aims
  BY <1>1, GotoKeeps DEF Inv, Shape
<1>3. Shape'
  BY <1>1, <1>2, ShapeKept DEF Inv, Shape, TypeOK, Phases, Ended
<1>4. Phase'
  BY <1>1, <1>2 DEF Inv, Phase, At, Asks, Locals
<1>5. Progress'
  BY <1>2 DEF Progress, At, Asks
<1>6. Walk'
  BY <1>2, WalkNotAsked DEF Asks
<1> QED
  BY <1>3, <1>4, <1>5, <1>6 DEF Inv

LEMMA RsyncLooksInv ==
  ASSUME Inv, RsyncLooks
  PROVE  Inv'
<1>1. /\ cmd.pc = "look" /\ PlaceNow \in {"target", "inside"} /\ MayWrite
      /\ UNCHANGED <<script, source, file, touched, stale, meddling>>
  BY DEF RsyncLooks, At, PlaceNow
<1>2. /\ IsCommand' /\ Asks /\ Locals /\ cmd'.aim = PlaceNow
      /\ cmd'.found \in BOOLEAN /\ (cmd'.found => file[PlaceNow].kind # "absent")
      /\ cmd'.pc = IF cmd.request.dryRun THEN "success" ELSE "write"
  BY DEF RsyncLooks, Inv, Shape, IsCommand, Asks, Locals
<1>3. {"success", "write"} \subseteq Phases
  BY DEF Phases, Ended
<1>4. Shape'
  BY <1>1, <1>2, <1>3 DEF Inv, Shape, TypeOK, Asks, Locals
<1>5. Phase'
  BY <1>1, <1>2 DEF Inv, Phase, At, Asks, Locals, MayWrite
<1>6. Progress'
  BY <1>2 DEF Progress, At, Asks
<1>7. Walk'
  BY <1>2, WalkNotAsked DEF Asks
<1> QED
  BY <1>4, <1>5, <1>6, <1>7 DEF Inv

LEMMA ReceivedIsEntry ==
  ASSUME Shape, NEW content \in Contents
  PROVE  Received(content) \in Entries
<1> DEFINE mode == IF file[cmd.aim].kind = "file" THEN file[cmd.aim].mode ELSE Umasked
           time == IF cmd.request.preserveTime THEN source.time ELSE Now
<1>1. mode \in Modes
  BY CommandsAssumption DEF Shape, TypeOK, Places, Entries
<1>2. time \in Times
  BY SourceFacts DEF Shape, TypeOK, Times
<1>3. DefaultGroup \in Groups
  BY CommandsAssumption
<1>4. Received(content) = NewFile(content, mode, DefaultGroup, time)
  BY DEF Received
<1> HIDE DEF mode, time
<1> QED
  BY <1>1, <1>2, <1>3, <1>4, NewFileIsEntry

LEMMA RsyncWritesInv ==
  ASSUME Inv, NEW content \in {source.content, Part}, RsyncWrites(content)
  PROVE  Inv'
<1> DEFINE pc == IF content = Part THEN "failure" ELSE "local"
<1>1. /\ cmd.pc = "write" /\ Goto(pc)
      /\ UNCHANGED <<script, source, touched, stale, meddling>>
      /\ file' = [file EXCEPT ![cmd.aim] = Received(content)]
  BY DEF RsyncWrites, At
<1>2. IsCommand' /\ cmd'.pc = pc /\ Asks /\ Locals /\ Aims
  BY <1>1, GotoKeeps DEF Inv, Shape
<1>3. content \in Contents
  BY SourceFacts DEF Inv, Shape, TypeOK, Contents
<1>4. file' \in [Places -> Entries]
  BY <1>1, <1>3, ReceivedIsEntry DEF Inv, Shape, TypeOK
<1>5. Shape'
  BY <1>1, <1>2, <1>4, ShapeKept DEF Inv, Shape, TypeOK, Phases, Ended
<1>6. Phase'
  BY <1>1, <1>2 DEF Inv, Phase, At, Asks, Locals
<1> QED
  BY <1>2, <1>5, <1>6, NoProgress, NoWalk DEF Inv

\* The comparison, alone and after rsync.
LEMMA VerifyLocalInv ==
  ASSUME Inv, VerifyLocal
  PROVE  Inv'
<1>1. /\ cmd.pc = "local" /\ UNCHANGED <<script, source, file, touched, stale, meddling>>
  BY DEF VerifyLocal, At
<1>2. /\ IsCommand' /\ Asks /\ Aims /\ cmd'.pc = "remote" /\ cmd'.place = cmd.place
      /\ cmd'.info = cmd.info /\ cmd'.digest = source.content
      /\ cmd'.skipped = cmd.skipped /\ cmd'.at = cmd.at /\ cmd'.blocked = cmd.blocked
  BY DEF VerifyLocal, Inv, Shape, IsCommand, Asks, Aims
<1>3. "remote" \in Phases /\ source.content \in Contents
  BY SourceFacts DEF Phases, Inv, Shape, TypeOK
<1>4. Shape'
  BY <1>1, <1>2, <1>3 DEF Inv, Shape, TypeOK, Asks, Aims
<1>5. Phase'
  BY <1>1, <1>2 DEF Inv, Phase, At, Asks
<1>6. Progress'
  <2>1. file[cmd.place].kind = "file"
    BY DEF VerifyLocal
  <2> QED
    BY <1>1, <1>2, <2>1 DEF Progress, At
<1> QED
  BY <1>2, <1>4, <1>5, <1>6, NoWalk DEF Inv

LEMMA VerifyRemoteInv ==
  ASSUME Inv, VerifyRemote
  PROVE  Inv'
<1> DEFINE pc == IF cmd.request.op = "verify" THEN "success"
                 ELSE IF cmd.request.group = NoGroup THEN "chmod" ELSE "group"
<1>1. /\ cmd.pc = "remote" /\ Goto(pc)
      /\ UNCHANGED <<script, source, file, stale, meddling>>
      /\ file[cmd.place].content = cmd.digest
      /\ touched' = IF file[cmd.place].kind = "file" THEN {} ELSE touched
  BY DEF VerifyRemote, At
<1>2. IsCommand' /\ cmd'.pc = pc /\ Asks /\ Locals /\ Aims
  BY <1>1, GotoKeeps DEF Inv, Shape
<1>3. Shape'
  BY <1>1, <1>2, ShapeKept DEF Inv, Shape, TypeOK, Phases, Ended
<1>4. Phase'
  BY <1>1, <1>2 DEF Inv, Phase, At, Asks, Locals
<1>5. cmd.place \notin touched' => file[cmd.place].kind = "file"
  BY <1>1 DEF Inv, Progress, At
<1>6. Progress'
  BY <1>1, <1>2, <1>5 DEF Progress, At, Asks, Locals, Compared
<1>7. Walk'
  BY <1>2, WalkNotAsked DEF Asks
<1> QED
  BY <1>3, <1>4, <1>6, <1>7 DEF Inv

\* The policy rsync gets afterwards.
LEMMA ApplyFacts ==
  ASSUME Shape, NEW entry \in Entries, Apply(entry)
  PROVE  /\ file' \in [Places -> Entries]
         /\ UNCHANGED <<script, source, touched, stale, meddling>>
         /\ \A p \in Places : p # cmd.place => file'[p] = file[p]
         /\ file[cmd.place].kind = "file" => file'[cmd.place] = entry
         /\ file[cmd.place].kind = "symlink" => file' = file
         /\ file[cmd.place].kind # "symlink" => file'[cmd.place] = entry
BY DEF Apply, Shape, TypeOK, Places

LEMMA AfterwardsPhase ==
  Afterwards \in {"success", "account"} /\ Afterwards \in Phases
BY DEF Afterwards, Phases, Ended

LEMMA ChownFacts ==
  ASSUME Shape, cmd.request.group \in Groups
  PROVE  LET old == file[cmd.place]
             new == [old EXCEPT !.gid = cmd.request.group, !.mode = Ordinary[@]]
         IN /\ new \in Entries
            /\ new.kind = old.kind /\ new.content = old.content
            /\ new.gid = cmd.request.group
<1>1. file[cmd.place] \in Entries
  BY DEF Shape, TypeOK, Places
<1>2. Ordinary[file[cmd.place].mode] \in Modes
  BY <1>1, CommandsAssumption DEF Entries
<1> QED
  BY <1>1, <1>2 DEF Entries

LEMMA ChownInv ==
  ASSUME Inv, Chown
  PROVE  Inv'
<1> DEFINE new == [file[cmd.place] EXCEPT !.gid = cmd.request.group, !.mode = Ordinary[@]]
<1>1. /\ cmd.pc = "chown" /\ Goto("chmod") /\ Apply(new) /\ cmd.request.group \in Groups
  BY DEF Chown, At, Inv, Phase
<1>2. IsCommand' /\ cmd'.pc = "chmod" /\ Asks /\ Locals /\ Aims
  BY <1>1, GotoKeeps DEF Inv, Shape
<1>3. /\ new \in Entries /\ new.kind = file[cmd.place].kind
      /\ new.content = file[cmd.place].content /\ new.gid = cmd.request.group
  BY <1>1, ChownFacts DEF Inv
<1> HIDE DEF new
<1>4. /\ file' \in [Places -> Entries] /\ UNCHANGED <<script, source, touched, stale, meddling>>
      /\ file[cmd.place].kind = "file" => file'[cmd.place] = new
  BY <1>1, <1>3, ApplyFacts DEF Inv
<1>5. Shape'
  BY <1>1, <1>2, <1>4, ShapeKept DEF Inv, Shape, TypeOK, Phases
<1>6. Phase'
  BY <1>1, <1>2 DEF Inv, Phase, At, Asks, Locals
<1>7. Progress'
  BY <1>1, <1>2, <1>3, <1>4 DEF Inv, Progress, At, Asks, Locals, Compared
<1> QED
  BY <1>2, <1>5, <1>6, <1>7, NoWalk DEF Inv

LEMMA ChmodInv ==
  ASSUME Inv, Chmod
  PROVE  Inv'
<1> DEFINE new == [file[cmd.place] EXCEPT !.mode = AskedMode(cmd.info)]
           pc == IF cmd.request.preserveTime THEN "chtimes" ELSE Afterwards
<1>1. /\ cmd.pc = "chmod" /\ Goto(pc) /\ Apply(new) /\ cmd.request.op = "rsync"
  BY DEF Chmod, At, Inv, Phase
<1>2. IsCommand' /\ cmd'.pc = pc /\ Asks /\ Locals /\ Aims
  BY <1>1, GotoKeeps DEF Inv, Shape
<1>3. /\ new \in Entries /\ new.kind = file[cmd.place].kind
      /\ new.content = file[cmd.place].content /\ new.gid = file[cmd.place].gid
      /\ new.mode = AskedMode(cmd.info)
  BY AskedModeType DEF Inv, Shape, TypeOK, Places, Entries
<1> HIDE DEF new
<1>4. /\ file' \in [Places -> Entries] /\ UNCHANGED <<script, source, touched, stale, meddling>>
      /\ file[cmd.place].kind = "file" => file'[cmd.place] = new
  BY <1>1, <1>3, ApplyFacts DEF Inv
<1>5. pc \in Phases
  BY AfterwardsPhase DEF Phases
<1>6. Shape'
  BY <1>1, <1>2, <1>4, <1>5, ShapeKept DEF Inv, Shape, TypeOK
<1>7. Phase'
  BY <1>1, <1>2, AfterwardsPhase DEF Inv, Phase, At, Asks, Locals
<1>8. Progress'
  <2>1. AskedMode(cmd.info)' = AskedMode(cmd.info)
    BY <1>2 DEF AskedMode, Asks, Locals
  <2> QED
    BY <1>1, <1>2, <1>3, <1>4, <2>1, AfterwardsPhase
    DEF Inv, Progress, At, Asks, Locals, Compared, AsAsked
<1>9. Walk'
  BY <1>2, WalkNotAsked DEF Asks, Afterwards
<1> QED
  BY <1>6, <1>7, <1>8, <1>9 DEF Inv

LEMMA ChtimesInv ==
  ASSUME Inv, Chtimes
  PROVE  Inv'
<1> DEFINE new == [file[cmd.place] EXCEPT !.time = cmd.info.time]
<1>1. /\ cmd.pc = "chtimes" /\ Goto(Afterwards) /\ Apply(new) /\ cmd.request.op = "rsync"
  BY DEF Chtimes, At, Inv, Phase
<1>2. IsCommand' /\ cmd'.pc = Afterwards /\ Asks /\ Locals /\ Aims
  BY <1>1, GotoKeeps DEF Inv, Shape
<1>3. /\ new \in Entries /\ new.kind = file[cmd.place].kind
      /\ new.content = file[cmd.place].content /\ new.gid = file[cmd.place].gid
      /\ new.mode = file[cmd.place].mode /\ new.time = cmd.info.time
  BY InfoFacts DEF Inv, Shape, TypeOK, Places, Entries
<1> HIDE DEF new
<1>4. /\ file' \in [Places -> Entries] /\ UNCHANGED <<script, source, touched, stale, meddling>>
      /\ file[cmd.place].kind = "file" => file'[cmd.place] = new
  BY <1>1, <1>3, ApplyFacts DEF Inv
<1>5. Shape'
  BY <1>1, <1>2, <1>4, AfterwardsPhase, ShapeKept DEF Inv, Shape, TypeOK
<1>6. Phase'
  BY <1>1, <1>2, AfterwardsPhase DEF Inv, Phase, At, Asks, Locals
<1>7. Progress'
  <2>1. AskedMode(cmd.info)' = AskedMode(cmd.info)
    BY <1>2 DEF AskedMode, Asks, Locals
  <2> QED
    BY <1>1, <1>2, <1>3, <1>4, <2>1, AfterwardsPhase
    DEF Inv, Progress, At, Asks, Locals, Compared, AsAsked
<1>8. Walk'
  BY <1>2, WalkNotAsked DEF Asks, Afterwards
<1> QED
  BY <1>5, <1>6, <1>7, <1>8 DEF Inv

\* The access check.
LEMMA ResolveAccountInv ==
  ASSUME Inv, ResolveAccount
  PROVE  Inv'
<1>1. /\ cmd.pc = "account" /\ Goto("access")
      /\ UNCHANGED <<script, source, file, touched, stale, meddling>>
  BY DEF ResolveAccount, At
<1>2. IsCommand' /\ cmd'.pc = "access" /\ Asks /\ Locals /\ Aims
  BY <1>1, GotoKeeps DEF Inv, Shape
<1>3. Shape'
  BY <1>1, <1>2, ShapeKept DEF Inv, Shape, TypeOK, Phases
<1>4. Phase'
  BY <1>2 DEF Phase, At
<1>5. Progress'
  <2>1. AskedMode(cmd.info)' = AskedMode(cmd.info)
    BY <1>2 DEF AskedMode, Asks, Locals
  <2> QED
    BY <1>1, <1>2, <2>1 DEF Inv, Progress, At, Asks, Locals, AsAsked
<1>6. Walk'
  <2>1. cmd'.at = 1
    BY <1>1, <1>2 DEF Inv, Phase, Locals
  <2>2. Len(Chain(cmd.place)') \in {2, 3}
    BY DEF Chain
  <2> QED
    BY <1>2, <2>1, <2>2 DEF Walk, At, Chain
<1> QED
  BY <1>3, <1>4, <1>5, <1>6 DEF Inv

LEMMA ChainFacts ==
  ASSUME NEW place
  PROVE  Len(Chain(place)) \in {2, 3} /\ DOMAIN Chain(place) = 1..Len(Chain(place))
<1>1. CASE place = "inside"
  BY <1>1 DEF Chain
<1>2. CASE place # "inside"
  BY <1>2 DEF Chain
<1> QED
  BY <1>1, <1>2

LEMMA ChainDistinct ==
  ASSUME NEW place, NEW i \in 1..Len(Chain(place)), NEW k \in 1..Len(Chain(place)), i # k
  PROVE  Chain(place)[i] # Chain(place)[k]
BY DEF Chain

LEMMA CheckComponentInv ==
  ASSUME Inv, CheckComponent
  PROVE  Inv'
<1> DEFINE chain   == Chain(cmd.place)
           who     == Accounts[cmd.request.readableBy]
           entry   == file[chain[cmd.at]]
           last    == cmd.at = Len(chain)
           blocked == cmd.blocked \/ ~Allowed(entry, who, last)
<1>1. /\ cmd.pc = "access" /\ UNCHANGED <<script, source, file, touched, meddling>>
      /\ stale' = stale \ {chain[cmd.at]}
      /\ cmd' = [cmd EXCEPT !.blocked = blocked, !.at = IF last THEN @ ELSE @ + 1,
           !.pc = IF ~last THEN @ ELSE IF blocked THEN "failure" ELSE "success"]
  BY DEF CheckComponent, At
<1>2. /\ IsCommand' /\ Asks /\ Aims /\ cmd'.info = cmd.info /\ cmd'.place = cmd.place
      /\ cmd'.digest = cmd.digest /\ cmd'.skipped = cmd.skipped
      /\ cmd'.at = (IF last THEN cmd.at ELSE cmd.at + 1)
      /\ cmd'.pc = (IF ~last THEN "access" ELSE IF blocked THEN "failure" ELSE "success")
      /\ cmd'.blocked \in BOOLEAN
      /\ ~cmd'.blocked => ~cmd.blocked /\ Allowed(entry, who, last)
      /\ cmd'.pc = "success" => ~cmd.blocked /\ Allowed(entry, who, last)
  <2> HIDE DEF chain, who, entry
  <2>1. blocked \in BOOLEAN
    OBVIOUS
  <2> QED
    BY <1>1, <2>1 DEF Inv, Shape, TypeOK, IsCommand, Asks, Aims
<1>3. Len(chain) \in {2, 3} /\ cmd.at \in 1..Len(chain)
  BY <1>1, ChainFacts DEF Inv, Walk, At
<1>4. cmd'.at \in 1..Len(chain) /\ cmd'.at \in 1..3 /\ cmd'.pc \in Phases
  <2> HIDE DEF chain, who, entry, blocked
  <2>1. cmd'.at \in 1..Len(chain) /\ cmd'.at \in 1..3
    <3> DEFINE n == Len(chain)
    <3>1. n \in {2, 3} /\ cmd.at \in 1..n
      BY <1>3
    <3>2. cmd'.at = (IF cmd.at = n THEN cmd.at ELSE cmd.at + 1)
      BY <1>2
    <3> HIDE DEF n
    <3>3. cmd'.at \in 1..n /\ cmd'.at \in 1..3
      BY <3>1, <3>2
    <3> QED
      BY <3>3 DEF n
  <2>2. cmd'.pc \in Phases
    BY <1>2 DEF Phases, Ended
  <2> QED
    BY <2>1, <2>2
<1>5. Shape'
  <2> HIDE DEF chain, who, entry
  <2>1. cmd'.blocked \in BOOLEAN
    BY <1>2
  <2> QED
    BY <1>1, <1>2, <1>4, <2>1 DEF Inv, Shape, TypeOK, Asks, Aims
<1>6. Phase'
  BY <1>2 DEF Phase, At
<1>7. Progress'
  <2>1. AskedMode(cmd.info)' = AskedMode(cmd.info)
    BY <1>2 DEF AskedMode, Asks
  <2> QED
    BY <1>1, <1>2, <2>1 DEF Inv, Progress, At, Asks, AsAsked
<1>8. ~cmd.blocked /\ Allowed(entry, who, last) =>
        MayDo(who, entry, IF last THEN "read" ELSE "traverse")
  BY AllowedIsMayDo
<1>9. ~cmd.blocked => \A i \in 1..cmd.at - 1 :
        chain[i] \in stale \/ MayDo(who, file[chain[i]], "traverse")
  BY <1>1 DEF Inv, Walk, At
<1>10. /\ Chain(cmd.place)' = chain /\ Accounts[cmd.request.readableBy]' = who
       /\ stale' = stale \ {chain[cmd.at]} /\ file' = file
  BY <1>1, <1>2 DEF Asks, Chain
<1>11. \A i \in 1..cmd.at - 1 : chain[i] \in stale => chain[i] \in stale'
  BY <1>3, <1>10, ChainDistinct
<1>12. ASSUME cmd'.pc = "access" PROVE Walk'
  <2>1. ~last /\ cmd'.at = cmd.at + 1
    BY <1>2, <1>12
  <2>2. ~cmd'.blocked => \A i \in 1..cmd.at :
          chain[i] \in stale' \/ MayDo(who, file[chain[i]], "traverse")
    BY <1>2, <1>3, <1>8, <1>9, <1>11, <2>1
  <2>3. cmd'.at - 1 = cmd.at
    BY <1>3, <2>1
  <2> HIDE DEF chain, who, entry
  <2> QED
    BY <1>4, <1>10, <1>12, <2>2, <2>3 DEF Walk, At, MayDo
<1>13. ASSUME cmd'.pc # "access" PROVE Walk'
  <2>1. cmd'.pc = "success" => last
    BY <1>2, <1>13
  <2>2. ASSUME cmd'.pc = "success", NEW i \in 1..Len(chain)
        PROVE  chain[i] \in stale' \/ MayDo(who, file[chain[i]], Deed(chain, i))
    <3>1. CASE i = Len(chain)
      BY <1>2, <1>8, <2>1, <2>2, <3>1 DEF Deed
    <3>2. CASE i # Len(chain)
      BY <1>2, <1>3, <1>9, <1>11, <2>1, <2>2, <3>2 DEF Deed
    <3> QED
      BY <3>1, <3>2
  <2> HIDE DEF chain, who, entry
  <2> QED
    BY <1>10, <1>13, <2>2 DEF Walk, At, MayDo, Deed
<1> QED
  BY <1>5, <1>6, <1>7, <1>12, <1>13 DEF Inv

\* The listing of a preview, and every end in failure.
LEMMA ListInv ==
  ASSUME Inv, List
  PROVE  Inv'
<1>1. /\ cmd.pc = "list" /\ cmd.request.op = "preview" /\ Goto("success")
      /\ UNCHANGED <<script, source, file, touched, stale, meddling>>
  BY DEF List, At, Inv, Phase
<1>2. IsCommand' /\ cmd'.pc = "success" /\ Asks /\ Locals /\ Aims
  BY <1>1, GotoKeeps DEF Inv, Shape
<1>3. Shape'
  BY <1>1, <1>2, ShapeKept DEF Inv, Shape, TypeOK, Phases, Ended
<1>4. Phase'
  BY <1>2 DEF Phase, At
<1>5. Progress'
  BY <1>1, <1>2 DEF Progress, At, Asks
<1>6. Walk'
  BY <1>1, <1>2, WalkNotAsked DEF Asks
<1> QED
  BY <1>3, <1>4, <1>5, <1>6 DEF Inv

LEMMA StopInv ==
  ASSUME Inv, Stop
  PROVE  Inv'
<1>1. Goto("failure") /\ UNCHANGED <<script, source, file, touched, stale, meddling>>
  BY DEF Stop
<1>2. cmd'.pc = "failure"
  BY <1>1, GotoKeeps DEF Inv, Shape
<1>3. Phase'
  BY <1>2 DEF Phase, At
<1>4. "failure" \in Phases
  BY DEF Phases, Ended
<1> QED
  BY <1>1, <1>3, <1>4, QuietStep

-----------------------------------------------------------------------------
(* What others do, and steps that change nothing *)

\* Whoever changes a place is noticed.
LEMMA OthersFacts ==
  ASSUME Shape, Others
  PROVE  /\ cmd' = cmd /\ script' = script /\ source' \in Sources
         /\ file' \in [Places -> Entries] /\ touched' \subseteq Places
         /\ meddling' \in 0..MaxMeddling /\ meddling' # meddling
         /\ touched \subseteq touched' /\ stale \subseteq stale' /\ stale' \subseteq Places
         /\ \A p \in {"target", "inside"} : p \notin touched' => file'[p] = file[p]
         /\ \A p \in Places : p \notin stale' => file'[p] = file[p]
<1>1. meddling' \in 0..MaxMeddling /\ meddling' # meddling
  BY CommandsAssumption
  DEF Shape, TypeOK, Others, EditSource, ChangeParent, Occupy, Meddle
<1>2. CASE EditSource
  BY <1>1, <1>2 DEF EditSource, Shape, TypeOK
<1>3. CASE ChangeParent
  <2>1. PICK mode \in Modes : file' = [file EXCEPT !["parent"].mode = mode]
    BY <1>3 DEF ChangeParent
  <2>2. file["parent"] \in Entries
    BY DEF Shape, TypeOK, Places
  <2>3. [file["parent"] EXCEPT !.mode = mode] \in Entries
    BY <2>2 DEF Entries
  <2>4. /\ file' \in [Places -> Entries]
        /\ \A p \in Places : p # "parent" => file'[p] = file[p]
    BY <2>1, <2>3 DEF Shape, TypeOK
  <2> QED
    BY <1>1, <1>3, <2>4 DEF ChangeParent, Shape, TypeOK, Places
<1>4. ASSUME NEW place \in {"target", "inside"}, NEW entry \in OtherEntries \cup {Nothing},
             Occupy(place, entry)
      PROVE  /\ cmd' = cmd /\ script' = script /\ source' \in Sources
             /\ file' \in [Places -> Entries] /\ touched' \subseteq Places
             /\ touched \subseteq touched' /\ stale \subseteq stale'
             /\ stale' \subseteq Places
             /\ \A p \in {"target", "inside"} : p \notin touched' => file'[p] = file[p]
             /\ \A p \in Places : p \notin stale' => file'[p] = file[p]
  <2>1. entry \in Entries /\ Nothing \in Entries
    BY NothingIsEntry, CommandsAssumption
  <2>2. file' = [p \in Places |-> IF p = place THEN entry
                                  ELSE IF p = "inside" THEN Nothing ELSE file[p]]
    BY <1>4 DEF Occupy
  <2>3. file' \in [Places -> Entries]
    BY <2>1, <2>2 DEF Shape, TypeOK
  <2>4. /\ touched' = touched \cup {place, "inside"} /\ stale' = stale \cup {place, "inside"}
        /\ UNCHANGED <<script, source, cmd>>
    BY <1>4 DEF Occupy
  <2> QED
    BY <2>2, <2>3, <2>4 DEF Shape, TypeOK, Places
<1>5. CASE \E place \in {"target", "inside"}, entry \in OtherEntries \cup {Nothing} :
             Occupy(place, entry)
  BY <1>1, <1>4, <1>5
<1> QED
  BY <1>2, <1>3, <1>5 DEF Others

LEMMA OthersInv ==
  ASSUME Inv, Others
  PROVE  Inv'
<1>1. /\ cmd' = cmd /\ script' = script /\ source' \in Sources
      /\ file' \in [Places -> Entries] /\ touched' \subseteq Places
      /\ meddling' \in 0..MaxMeddling /\ touched \subseteq touched'
      /\ stale \subseteq stale' /\ stale' \subseteq Places
      /\ \A p \in {"target", "inside"} : p \notin touched' => file'[p] = file[p]
      /\ \A p \in Places : p \notin stale' => file'[p] = file[p]
  BY OthersFacts DEF Inv
<1>2. Shape'
  BY <1>1 DEF Inv, Shape, TypeOK, IsCommand
<1>3. Phase'
  BY <1>1 DEF Inv, Phase, At
<1>4. Progress'
  <2>1. cmd.place \notin touched' => file'[cmd.place] = file[cmd.place]
    BY <1>1 DEF Inv, Shape, TypeOK, Places
  <2> QED
    BY <1>1, <2>1 DEF Inv, Progress, At, Compared, AsAsked, AskedMode
<1>5. Walk'
  <2> DEFINE who == Accounts[cmd.request.readableBy]
             chain == Chain(cmd.place)
  <2>1. \A i \in 1..Len(chain) : chain[i] \in Places
    BY DEF Chain, Places
  <2>2. \A i \in 1..Len(chain) : chain[i] \notin stale' =>
          chain[i] \notin stale /\ file'[chain[i]] = file[chain[i]]
    BY <1>1, <2>1
  <2>3. /\ Accounts[cmd.request.readableBy]' = who /\ Chain(cmd.place)' = chain
        /\ cmd' = cmd
    BY <1>1 DEF Chain
  <2>4. At("access") => cmd.at \in 1..Len(chain)
    BY DEF Inv, Walk
  <2> QED
    BY <2>2, <2>3, <2>4 DEF Inv, Walk, At, MayDo, Deed
<1> QED
  BY <1>2, <1>3, <1>4, <1>5 DEF Inv

LEMMA StutterInv ==
  ASSUME Inv, UNCHANGED vars
  PROVE  Inv'
<1>1. /\ script' = script /\ source' = source /\ file' = file /\ cmd' = cmd
      /\ touched' = touched /\ stale' = stale /\ meddling' = meddling
  BY DEF vars
<1>2. Shape'
  BY <1>1 DEF Inv, Shape, TypeOK, IsCommand
<1>3. Phase' /\ Progress'
  BY <1>1 DEF Inv, Phase, At, Progress, Compared, AsAsked, AskedMode
<1>4. Walk'
  BY <1>1 DEF Inv, Walk, At, Chain, Deed, MayDo
<1> QED
  BY <1>2, <1>3, <1>4 DEF Inv
LEMMA NextInv ==
  ASSUME Inv, [Next]_vars
  PROVE  Inv'
<1>1. CASE Command
  <2>1. CASE \E content \in {source.content, Part} : RsyncWrites(content)
    BY <2>1, RsyncWritesInv
  <2> QED
    BY <1>1, <2>1, BeginInv, ConnectInv, ResolveGroupInv, EngineInv, InspectInv,
       RsyncConnectsInv, RsyncLeavesInv, RsyncLooksInv, ChownInv, ChmodInv, ChtimesInv, VerifyLocalInv,
       VerifyRemoteInv, ResolveAccountInv, CheckComponentInv, ListInv, StopInv
    DEF Command, RsyncStep
<1>2. CASE Others
  BY <1>2, OthersInv
<1>3. CASE UNCHANGED vars
  BY <1>3, StutterInv
<1> QED
  BY <1>1, <1>2, <1>3 DEF Next

LEMMA InvAlways ==
  Spec => []Inv
BY InitInv, NextInv, PTL DEF Spec

-----------------------------------------------------------------------------
(* Who may change what a place holds *)

\* A transfer writes where nothing was, or where it may replace what it found.
Written(p) ==
  /\ ~cmd.request.dryRun
  /\ cmd.request.op \in {"copy", "upload", "download", "rsync"}
  /\ \/ file[p].kind = "absent" /\ file'[p].kind = "file"
     \/ cmd.request.overwrite
     \/ At("write") /\ ~cmd.found

\* What the policy changes was compared before, or is not the command's any more.
Adjusted(p) ==
  /\ Holds(file'[p]) = Holds(file[p])
  /\ p \in touched \/ file[p].content = cmd.digest

LEMMA EngineChanges ==
  ASSUME Inv, EngineStep, NEW p \in Places, file'[p] # file[p]
  PROVE  Written(p)
<1>1. /\ cmd.request.op \in {"copy", "upload", "download"}
      /\ file \in [Places -> Entries] /\ PlaceNow \in Places
  BY DEF Inv, Shape, TypeOK, Phase, At, EngineStep, EngineSkips, EnginePlans,
         EngineWrites, EngineCut, Engine, PlaceNow, Places
<1>2. CASE EngineWrites
  <2>1. \A content, mode, gid, time : NewFile(content, mode, gid, time).kind = "file"
    BY DEF NewFile
  <2>2. \E content, mode, gid, time :
          file' = [file EXCEPT ![PlaceNow] = NewFile(content, mode, gid, time)]
    BY <1>2 DEF EngineWrites
  <2>3. p = PlaceNow /\ file'[p].kind = "file"
    BY <1>1, <2>1, <2>2
  <2> QED
    BY <1>1, <1>2, <2>3 DEF EngineWrites, MayWrite, Written
<1>3. CASE EngineCut
  BY <1>1, <1>3 DEF EngineCut, Written
<1> QED
  BY <1>2, <1>3 DEF EngineStep, EngineSkips, EnginePlans

LEMMA RsyncChanges ==
  ASSUME Inv, NEW content, RsyncWrites(content), NEW p \in Places, file'[p] # file[p]
  PROVE  Written(p)
BY DEF RsyncWrites, Inv, Phase, At, Written

LEMMA PolicyChanges ==
  ASSUME Inv, NEW new \in Entries, Apply(new), cmd.pc \in {"chown", "chmod", "chtimes"},
         new.kind = file[cmd.place].kind, new.content = file[cmd.place].content,
         NEW p \in Places, file'[p] # file[p]
  PROVE  Adjusted(p)
<1>1. p = cmd.place /\ file'[p] = new
  BY ApplyFacts DEF Inv
<1>2. p \in touched \/ file[p].content = cmd.digest
  BY <1>1 DEF Inv, Progress, Compared
<1> QED
  BY <1>1, <1>2 DEF Adjusted, Holds

LEMMA Changes ==
  ASSUME Inv, Command, NEW p \in Places, file'[p] # file[p]
  PROVE  Written(p) \/ Adjusted(p)
<1>1. CASE EngineStep
  BY <1>1, EngineChanges
<1>2. CASE \E content \in {source.content, Part} : RsyncWrites(content)
  BY <1>2, RsyncChanges
<1>3. CASE Chown
  <2> DEFINE new == [file[cmd.place] EXCEPT !.gid = cmd.request.group, !.mode = Ordinary[@]]
  <2>1. Apply(new) /\ cmd.pc = "chown" /\ cmd.request.group \in Groups
    BY <1>3 DEF Chown, At, Inv, Phase
  <2>2. /\ new \in Entries /\ new.kind = file[cmd.place].kind
        /\ new.content = file[cmd.place].content
    BY <2>1, ChownFacts DEF Inv
  <2> HIDE DEF new
  <2> QED
    BY <2>1, <2>2, PolicyChanges
<1>4. CASE Chmod
  <2> DEFINE new == [file[cmd.place] EXCEPT !.mode = AskedMode(cmd.info)]
  <2>1. Apply(new) /\ cmd.pc = "chmod"
    BY <1>4 DEF Chmod, At
  <2>2. /\ new \in Entries /\ new.kind = file[cmd.place].kind
        /\ new.content = file[cmd.place].content
    BY AskedModeType DEF Inv, Shape, TypeOK, Places, Entries
  <2> HIDE DEF new
  <2> QED
    BY <2>1, <2>2, PolicyChanges
<1>5. CASE Chtimes
  <2> DEFINE new == [file[cmd.place] EXCEPT !.time = cmd.info.time]
  <2>1. Apply(new) /\ cmd.pc = "chtimes"
    BY <1>5 DEF Chtimes, At
  <2>2. /\ new \in Entries /\ new.kind = file[cmd.place].kind
        /\ new.content = file[cmd.place].content
    BY InfoFacts DEF Inv, Shape, TypeOK, Places, Entries
  <2> HIDE DEF new
  <2> QED
    BY <2>1, <2>2, PolicyChanges
<1> QED
  BY <1>1, <1>2, <1>3, <1>4, <1>5
  DEF Command, RsyncStep, Begin, Connect, ResolveGroup, Inspect, RsyncConnects, RsyncLeaves, RsyncLooks,
      VerifyLocal, VerifyRemote, ResolveAccount, CheckComponent, List, Stop

LEMMA OwnSteps ==
  ASSUME Inv, [Next]_vars, meddling' = meddling, NEW p \in Places, file'[p] # file[p]
  PROVE  Written(p) \/ Adjusted(p)
BY Changes, OthersFacts DEF Next, Inv, vars

-----------------------------------------------------------------------------
(* Who was connected to *)

Recorded(site, machine) ==
  \E i \in DOMAIN site.recorded : site.recorded[i].machine = machine

\* The two parts of StrangersRefused: the command's own connection and that of rsync.
Dialled == cmd.pc \notin {"idle", "dial", "failure"} =>
             /\ cmd.answer.code = "OK"
             /\ \E i \in DOMAIN cmd.site.recorded :
                  /\ cmd.site.recorded[i].type = cmd.answer.key.type
                  /\ cmd.site.recorded[i].machine = Machine(cmd.site)
Joined == cmd.peer # "none" => Recorded(cmd.site, cmd.peer)

LEMMA ShakenRecorded ==
  ASSUME NEW site, NEW answer, Dials(site, answer), answer.code = "OK"
  PROVE  \E i \in DOMAIN site.recorded : /\ site.recorded[i].type = answer.key.type
                                         /\ site.recorded[i].machine = Machine(site)
<1>1. PICK type \in NegotiatedTypes(site) : answer = Shaken(site, Key(type, Machine(site)))
  BY DEF Dials, Refused
<1>2. answer.key = Key(type, Machine(site)) /\ IsRecorded(site, answer.key)
  BY <1>1 DEF Shaken
<1> QED
  BY <1>2 DEF IsRecorded, Key

LEMMA ConnectRecorded ==
  ASSUME Inv, Joined, Connect
  PROVE  Dialled' /\ Joined'
<1>1. PICK answer :
        /\ Dials(cmd.site, answer)
        /\ cmd' = [cmd EXCEPT !.answer = answer,
             !.pc = IF answer.code = "OK" THEN FirstStep(cmd.request) ELSE "failure"]
  BY DEF Connect
<1>2. /\ cmd'.answer = answer /\ cmd'.site = cmd.site /\ cmd'.peer = cmd.peer
      /\ cmd'.pc = "failure" \/ answer.code = "OK"
  BY <1>1 DEF Inv, Shape, IsCommand
<1>3. Machine(cmd'.site) = Machine(cmd.site)
  BY <1>2
<1>4. Dialled'
  BY <1>1, <1>2, <1>3, ShakenRecorded DEF Dialled
<1> QED
  BY <1>2, <1>4 DEF Joined, Recorded

LEMMA RsyncConnectsRecorded ==
  ASSUME Inv, Dialled, RsyncConnects
  PROVE  Dialled' /\ Joined'
<1>1. PICK machine \in Reachable(cmd.site) :
        /\ SshAccepts(cmd.site, machine)
        /\ cmd' = [cmd EXCEPT !.peer = machine,
             !.pc = IF machine = Machine(cmd.site) THEN "look"
                    ELSE IF cmd.request.dryRun THEN "success" ELSE "local"]
  BY DEF RsyncConnects
<1>2. cmd'.peer = machine /\ cmd'.site = cmd.site /\ cmd'.answer = cmd.answer
  BY <1>1 DEF Inv, Shape, IsCommand
<1>3. Recorded(cmd.site, machine)
  BY <1>1 DEF SshAccepts, Recorded
<1>4. cmd.pc = "ssh" /\ Machine(cmd'.site) = Machine(cmd.site)
  BY <1>2 DEF RsyncConnects, At
<1> QED
  BY <1>2, <1>3, <1>4 DEF Dialled, Joined, Recorded

\* Every other step keeps what was asked and answered, and only goes on from where
\* a command may be that has connected.
LEMMA OthersKeepAnswer ==
  ASSUME Inv, Next, ~Begin, ~Connect
  PROVE  /\ cmd'.answer = cmd.answer /\ cmd'.site = cmd.site /\ cmd'.request = cmd.request
         /\ cmd'.peer = cmd.peer \/ RsyncConnects
         /\ cmd'.pc \in {cmd.pc, "failure"} \/ cmd.pc \notin {"idle", "dial", "failure"}
<1>1. CASE Others
  BY <1>1, OthersFacts DEF Inv
<1>2. CASE Command
  BY <1>2, GotoKeeps
  DEF Inv, Shape, IsCommand, Asks, Aims, At, Command, ResolveGroup, EngineStep, EngineSkips,
      EnginePlans, EngineWrites, EngineCut, Engine, RsyncStep, Inspect, RsyncConnects,
      RsyncLeaves, RsyncLooks, RsyncWrites, Chown, Chmod, Chtimes, VerifyLocal,
      VerifyRemote, ResolveAccount, CheckComponent, List, Stop
<1> QED
  BY <1>1, <1>2 DEF Next

LEMMA StrangersInductive ==
  ASSUME Inv, Dialled, Joined, [Next]_vars
  PROVE  Dialled' /\ Joined'
<1>1. CASE Begin
  <2>1. cmd'.pc = "dial" /\ cmd'.peer = "none"
    BY <1>1 DEF Begin, Idle
  <2> QED
    BY <2>1 DEF Dialled, Joined
<1>2. CASE Connect
  BY <1>2, ConnectRecorded
<1>3. CASE RsyncConnects
  BY <1>3, RsyncConnectsRecorded
<1>4. CASE UNCHANGED vars
  BY <1>4 DEF vars, Dialled, Joined, Recorded, Machine, MulticastAnswers
<1>5. CASE Next /\ ~Begin /\ ~Connect /\ ~RsyncConnects
  <2>1. /\ cmd'.answer = cmd.answer /\ cmd'.site = cmd.site /\ cmd'.peer = cmd.peer
        /\ cmd'.pc \in {cmd.pc, "failure"} \/ cmd.pc \notin {"idle", "dial", "failure"}
    BY <1>5, OthersKeepAnswer
  <2>2. Machine(cmd'.site) = Machine(cmd.site)
    BY <2>1
  <2> QED
    BY <2>1, <2>2 DEF Dialled, Joined, Recorded
<1> QED
  BY <1>1, <1>2, <1>3, <1>4, <1>5

\* A site that is dialled is one the user may name.
SiteKnown == cmd.request.op \in Ops => IsSite(cmd.site)

\* Nothing has been answered, or the answer is one the site may give.
Answered == cmd.answer.code # "NONE" => /\ IsSite(cmd.site)
                                        /\ Dials(cmd.site, cmd.answer)

LEMMA AnsweredInductive ==
  ASSUME Inv, SiteKnown, Answered, [Next]_vars
  PROVE  SiteKnown' /\ Answered'
<1>1. CASE Begin
  <2>1. script \in Seq(Lines) /\ script # <<>>
    BY <1>1 DEF Begin, Inv, Shape
  <2>2. Head(script) \in Lines
    BY <2>1
  <2>3. cmd'.answer = Refused("NONE") /\ cmd'.site = Head(script).site
    BY <1>1 DEF Begin, Idle
  <2>4. IsSite(cmd'.site)
    BY <2>2, <2>3, CommandsAssumption
  <2> QED
    BY <2>3, <2>4 DEF SiteKnown, Answered, Refused
<1>2. CASE Connect
  <2>1. PICK answer :
          /\ Dials(cmd.site, answer)
          /\ cmd' = [cmd EXCEPT !.answer = answer,
               !.pc = IF answer.code = "OK" THEN FirstStep(cmd.request) ELSE "failure"]
    BY <1>2 DEF Connect
  <2>2. cmd'.answer = answer /\ cmd'.site = cmd.site /\ cmd'.request = cmd.request
    BY <2>1 DEF Inv, Shape, IsCommand
  <2>3. IsSite(cmd.site)
    BY <1>2 DEF Connect, Inv, Phase, SiteKnown, At
  <2>4. IsSite(cmd'.site) /\ Dials(cmd'.site, cmd'.answer)
    BY <2>1, <2>2, <2>3
  <2> QED
    BY <2>4 DEF SiteKnown, Answered
<1>3. CASE cmd'.answer = cmd.answer /\ cmd'.site = cmd.site /\ cmd'.request = cmd.request
  <2>1. IsSite(cmd'.site) <=> IsSite(cmd.site)
    BY <1>3
  <2>2. Dials(cmd'.site, cmd'.answer) <=> Dials(cmd.site, cmd.answer)
    BY <1>3
  <2> QED
    BY <1>3, <2>1, <2>2 DEF SiteKnown, Answered
<1> QED
  BY <1>1, <1>2, <1>3, OthersKeepAnswer DEF vars

LEMMA AnsweredAlways == Spec => [](SiteKnown /\ Answered)
<1>1. Init => SiteKnown /\ Answered
  BY DEF Init, Idle, NoRequest, SiteKnown, Answered, Refused, Ops
<1> QED
  BY <1>1, InvAlways, AnsweredInductive, PTL DEF Spec

LEMMA LeastOf ==
  ASSUME NEW S \in SUBSET Nat, S # {}
  PROVE  \E least \in S : \A k \in S : least <= k
<1>1. PICK least \in S : \A k \in S : <<k, least>> \notin OpToRel(<, Nat)
  BY WFMin, NatLessThanWellFounded, Zenon
<1>2. \A k \in S : ~(k < least)
  BY <1>1, Zenon DEF OpToRel
<1>3. least \in S
  BY <1>1
<1>4. \A k \in S : least <= k
  BY <1>2, <1>3
<1> QED
  BY <1>3, <1>4

\* What is negotiated with a machine that has a key recorded is a recorded type.
LEMMA NegotiatedRecorded ==
  ASSUME NEW site, site.recorded # <<>>, IsSite(site),
         NEW type \in NegotiatedTypes(site)
  PROVE  \E i \in DOMAIN site.recorded : site.recorded[i].type = type
<1>1. DOMAIN site.recorded # {}
  BY DEF IsSite
<1>2. PreferredHostKeyAlgorithms(site) # <<>>
  BY <1>1 DEF PreferredHostKeyAlgorithms
<1> QED
  BY <1>2 DEF NegotiatedTypes, PreferredHostKeyAlgorithms

LEMMA FamiliarKey ==
  ASSUME NEW site, IsSite(site), Familiar(site), NEW type \in NegotiatedTypes(site)
  PROVE  IsRecorded(site, Key(type, Machine(site)))
<1>1. PICK i \in DOMAIN site.recorded : site.recorded[i].type = type
  BY NegotiatedRecorded DEF Familiar
<1>2. site.recorded[i] = Key(type, Machine(site))
  BY <1>1 DEF Familiar, IsSite
<1> QED
  BY <1>2 DEF IsRecorded

\* A server that signs with a recorded key agrees on one.
LEMMA SomeNegotiated ==
  ASSUME NEW site, IsSite(site),
         \E i \in DOMAIN site.recorded : Signs(site, site.recorded[i].type)
  PROVE  NegotiatedTypes(site) # {}
<1> DEFINE asked  == PreferredHostKeyAlgorithms(site)
           usable == {i \in DOMAIN asked : Signs(site, asked[i])}
<1>1. DOMAIN asked = DOMAIN site.recorded /\ DOMAIN asked \subseteq Nat
  BY DEF PreferredHostKeyAlgorithms, IsSite
<1>2. usable # {} /\ usable \subseteq Nat
  BY <1>1 DEF PreferredHostKeyAlgorithms
<1>3. asked # <<>>
  BY <1>2
<1>4. PICK least \in usable : \A k \in usable : least <= k
  BY <1>2, LeastOf
<1> QED
  BY <1>3, <1>4 DEF NegotiatedTypes

\* The agent is the first to be asked.
LEMMA AgentIsFirst ==
  ASSUME NEW site, IsSite(site), site.authentication = "key", site.agent = "good"
  PROVE  Authenticates(site) /\ Usable(site) # {}
<1>1. Methods(site) = <<site.agent>> \o site.keys
  BY DEF Methods
<1>2. /\ DOMAIN Methods(site) \subseteq Nat \ {0} /\ 1 \in DOMAIN Methods(site)
      /\ Methods(site)[1] = "good"
  BY <1>1 DEF IsSite
<1>3. 1 \in Usable(site) /\ \A k \in Usable(site) : 1 <= k
  BY <1>2 DEF Usable
<1> QED
  BY <1>2, <1>3 DEF Authenticates

-----------------------------------------------------------------------------
(* Theorems *)

\* Every variable keeps its shape, whatever the commands and whoever meddles.
THEOREM TypeCorrect == Spec => []TypeOK
<1>1. Inv => TypeOK
  BY DEF Inv, Shape
<1> QED
  BY <1>1, InvAlways, PTL

\* runCopy, runRsync and Check: a command that reports success left what it was
\* asked for at its destination, readable by the account that was named, as far as
\* others did not change it after the look that settled it.
THEOREM SuccessAlwaysEarned == Spec => []SuccessIsEarned
<1>1. Inv => SuccessIsEarned
  <2>1. DOMAIN Chain(cmd.place) = 1..Len(Chain(cmd.place))
    BY ChainFacts
  <2> QED
    BY <2>1 DEF Inv, SuccessIsEarned, Progress, Walk, Wrote, At
<1> QED
  BY <1>1, InvAlways, PTL

\* NewHostKeyCallback and the ssh that rsync starts: no command gets past its dial,
\* and rsync connects nowhere, unless a key of the machine is recorded.
THEOREM StrangersAlwaysRefused == Spec => []StrangersRefused
<1>1. Init => Dialled /\ Joined
  BY DEF Init, Idle, Dialled, Joined
<1>2. Dialled /\ Joined => StrangersRefused
  BY DEF Dialled, Joined, Recorded, StrangersRefused
<1> QED
  BY <1>1, <1>2, InvAlways, StrangersInductive, PTL DEF Spec

\* preferredHostKeyAlgorithms: a server that has a key recorded for it is not taken
\* for another one because of the other keys it has, whatever is recorded.
THEOREM FamiliarServersAlwaysAccepted == Spec => []FamiliarServersAccepted
<1>1. ASSUME Answered PROVE FamiliarServersAccepted
  <2> SUFFICES ASSUME cmd.answer.code = "HOST_KEY_REJECTED", Familiar(cmd.site) PROVE FALSE
    BY DEF FamiliarServersAccepted
  <2>1. IsSite(cmd.site) /\ Dials(cmd.site, cmd.answer)
    BY <1>1 DEF Answered
  <2>2. PICK type \in NegotiatedTypes(cmd.site) :
          cmd.answer = Shaken(cmd.site, Key(type, Machine(cmd.site)))
    BY <2>1 DEF Dials, Refused
  <2>3. IsRecorded(cmd.site, Key(type, Machine(cmd.site)))
    BY <2>1, FamiliarKey
  <2> QED
    BY <2>2, <2>3 DEF Shaken
<1> QED
  BY <1>1, AnsweredAlways, PTL

\* authenticationMethods and Dial: a key of the agent that a familiar server takes is
\* enough, unless a key file that is read as well stands in the way.
THEOREM AgentKeyAlwaysSuffices == Spec => []AgentKeySuffices
<1>1. ASSUME Answered PROVE AgentKeySuffices
  <2> DEFINE site == cmd.site
  <2> SUFFICES ASSUME cmd.answer.code = "AUTHENTICATION_FAILED", Familiar(site),
                      \E i \in DOMAIN site.recorded : Signs(site, site.recorded[i].type),
                      site.authentication = "key", site.agent = "good",
                      site.selected => site.keys[1] # "absent",
                      \A i \in DOMAIN site.keys : site.keys[i] # "locked"
               PROVE  FALSE
    BY DEF AgentKeySuffices
  <2>1. IsSite(site) /\ Dials(site, cmd.answer)
    BY <1>1 DEF Answered
  <2>2. Authenticates(site) /\ ~NoMethods(site)
    BY <2>1, AgentIsFirst DEF NoMethods
  <2>3. NegotiatedTypes(site) # {}
    BY <2>1, SomeNegotiated
  <2>4. PICK type \in NegotiatedTypes(site) :
          cmd.answer = Shaken(site, Key(type, Machine(site)))
    BY <2>1, <2>2, <2>3 DEF Dials, Refused
  <2> QED
    BY <2>2, <2>4 DEF Shaken
<1> QED
  BY <1>1, AnsweredAlways, PTL

\* Only a transfer that is no dry run changes what a place holds, and without
\* overwrite it loses nothing that was there when the writer looked.
THEOREM OnlyAskedEver == Spec => OnlyAskedChanges
<1> DEFINE Asked == \A p \in Places : meddling' = meddling /\ Holds(file'[p]) # Holds(file[p]) =>
       /\ ~cmd.request.dryRun
       /\ cmd.request.op \in {"copy", "upload", "download", "rsync"}
       /\ \/ file[p].kind = "absent"
          \/ cmd.request.overwrite
          \/ At("write") /\ ~cmd.found
<1>1. ASSUME Inv, [Next]_vars PROVE Asked
  <2> SUFFICES ASSUME NEW p \in Places, meddling' = meddling, Holds(file'[p]) # Holds(file[p])
               PROVE  Written(p)
    BY DEF Written
  <2>1. file'[p] # file[p]
    OBVIOUS
  <2> QED
    BY <1>1, <2>1, OwnSteps DEF Adjusted
<1>2. Inv /\ [Next]_vars => [Asked]_vars
  BY <1>1
<1>3. Spec => [][Asked]_vars
  <2> HIDE DEF Asked
  <2> QED
    BY <1>2, InvAlways, PTL DEF Spec
<1> QED
  BY <1>3 DEF OnlyAskedChanges

\* runRsync changes mode, group and time only of what Verify has compared.
THEOREM PolicyAlwaysFollows == Spec => PolicyFollowsVerification
<1> DEFINE Follows == \A p \in Places : meddling' = meddling /\ file'[p] # file[p]
                       /\ Holds(file'[p]) = Holds(file[p]) =>
       \/ p \in touched
       \/ file[p].content = cmd.digest
       \/ cmd.request.overwrite
       \/ At("write") /\ ~cmd.found
<1>1. ASSUME Inv, [Next]_vars PROVE Follows
  <2> SUFFICES ASSUME NEW p \in Places, meddling' = meddling, file'[p] # file[p],
                      Holds(file'[p]) = Holds(file[p])
               PROVE  \/ p \in touched
                      \/ file[p].content = cmd.digest
                      \/ cmd.request.overwrite
                      \/ At("write") /\ ~cmd.found
    OBVIOUS
  <2>1. file'[p].kind = file[p].kind
    BY DEF Holds
  <2>2. Written(p) \/ Adjusted(p)
    BY <1>1, OwnSteps
  <2> QED
    BY <2>1, <2>2 DEF Written, Adjusted
<1>2. Inv /\ [Next]_vars => [Follows]_vars
  BY <1>1
<1>3. Spec => [][Follows]_vars
  <2> HIDE DEF Follows
  <2> QED
    BY <1>2, InvAlways, PTL DEF Spec
<1> QED
  BY <1>3 DEF PolicyFollowsVerification
=============================================================================
