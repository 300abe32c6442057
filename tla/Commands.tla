------------------------------ MODULE Commands ------------------------------
(***************************************************************************)
(* One command from its validation to its answer: runCopy and runRsync of  *)
(* internal/app/app.go with the commands verify and check-access, and what *)
(* the desktop service does for a transfer and a preview (prepare,         *)
(* executePrepared, PreviewDestination of internal/desktop/service.go).    *)
(*                                                                         *)
(* The engine is seen from the outside: what Upload and Download promise   *)
(* of one file is one step.  The rsync program is not ours: it looks, and  *)
(* then writes under the final name, in its own time.  While a command is  *)
(* at work others edit the source and put entries of their own, or nothing,*)
(* at the places it uses.                                                  *)
(***************************************************************************)
EXTENDS Connection, AccessCheck

CONSTANTS
  Lines,        \* what the user may run: a request and its site
  Scripts,      \* sequences of lines
  Sources,      \* what the local file may be: its content, mode and time
  Before,       \* what the places may hold at first
  OtherEntries, \* what others may put at a place
  Modes,        \* the modes of files
  Ordinary,     \* function: a mode without the bits that chown takes away
  Umasked,      \* the mode rsync gives a new file
  Restrictive,  \* the mode of a downloaded file
  Preserve,     \* the policy that keeps the mode of the source
  Groups, DefaultGroup, NoGroup,  \* groups of the server, that of new files
  Accounts, Me, NoAccount,  \* function: uid and groups of the accounts; our uid
  Now,          \* the time of a file that was just written
  Part, NoContent, \* the content of an interrupted rsync; null value
  MaxMeddling   \* bound of the model: how often others intervene

\* The directory the destination is in, the destination, and the name of the
\* source in it where the destination is a directory.
Places == {"parent", "target", "inside"}

VARIABLES
  script,    \* the commands that are still to be run
  source,    \* the local file
  file,      \* what each place holds
  cmd,       \* the command
  touched,   \* history: places others have changed since the command last
             \* looked at their content, and found a file
  stale,     \* history: places others have changed since the access check
             \* looked at them
  meddling   \* how often others may still intervene

vars == <<script, source, file, cmd, touched, stale, meddling>>

Contents == {s.content : s \in Sources} \cup {Part, NoContent}
            \cup {entry.content : entry \in OtherEntries}
Times    == {s.time : s \in Sources} \cup {Now}
Entries == [kind : {"absent", "file", "directory", "symlink"}, content : Contents,
            mode : Modes, uid : Nat, gid : Groups, time : Times]

\* Modes and groups are those of the server; a request asks for a mode, or for
\* that of the source.
ASSUME CommandsAssumption ==
  /\ Scripts \subseteq Seq(Lines)
  /\ \A line \in Lines :
       /\ line.request.op \in {"copy", "upload", "rsync", "download", "verify", "check",
                              "preview"}
       /\ IsSite(line.site)
       /\ line.request.policy \in Modes \cup {Preserve}
  /\ \A s \in Sources : s.mode \in Modes
  /\ Before \subseteq [Places -> Entries] /\ OtherEntries \subseteq Entries
  /\ Restrictive \in Modes /\ Umasked \in Modes /\ Ordinary \in [Modes -> Modes]
  /\ DefaultGroup \in Groups /\ Me \in Nat /\ MaxMeddling \in Nat

Nothing == [kind |-> "absent", content |-> NoContent, mode |-> Restrictive,
            uid |-> Me, gid |-> DefaultGroup, time |-> Now]
NewFile(content, mode, gid, time) ==
  [kind |-> "file", content |-> content, mode |-> mode, uid |-> Me, gid |-> gid,
   time |-> time]

NoRequest == [op |-> "none", overwrite |-> FALSE, noClobber |-> FALSE,
              dryRun |-> FALSE, preserveTime |-> FALSE, policy |-> Preserve,
              group |-> NoGroup, readableBy |-> NoAccount, absolute |-> TRUE]
NoSite == [knownHosts |-> "missing"]

Idle == [pc |-> "idle", request |-> NoRequest, site |-> NoSite,
         answer |-> Refused("NONE"), info |-> Nothing, place |-> "target",
         aim |-> "target", found |-> FALSE, digest |-> NoContent,
         skipped |-> FALSE, peer |-> "none", at |-> 1, blocked |-> FALSE]

Init == /\ script \in Scripts
        /\ source \in Sources
        /\ file \in Before
        /\ cmd = Idle
        /\ touched = {} /\ stale = {}
        /\ meddling = MaxMeddling

-----------------------------------------------------------------------------
Ended == {"idle", "success", "failure"}
At(pc) == cmd.pc = pc
Goto(pc) == cmd' = [cmd EXCEPT !.pc = pc]

AskedMode(info) == IF cmd.request.policy = Preserve THEN info.mode ELSE cmd.request.policy
AskedGroup == IF cmd.request.group = NoGroup THEN DefaultGroup ELSE cmd.request.group

\* Into a directory the source goes under its own name.
PlaceNow == IF file["target"].kind = "directory" THEN "inside" ELSE "target"

\* What is left to do when the destination is as it should be.
Afterwards == IF cmd.request.readableBy = NoAccount \/ cmd.request.op = "download"
              THEN "success" ELSE "account"

-----------------------------------------------------------------------------
(***************************************************************************)
(* Validation and connection.                                              *)
(***************************************************************************)
Consistent(request) == ~(request.overwrite /\ request.noClobber)

\* A download looks at its destination before it connects.
LocalPlaceUsable(request) ==
  request.op = "download" => file["target"].kind # "symlink"

\* The flags and the local path are checked before anything is dialled.
Begin ==
  LET request == Head(script).request
  IN /\ cmd.pc \in Ended
     /\ script # <<>> /\ script' = Tail(script)
     /\ Consistent(request) /\ LocalPlaceUsable(request)
     /\ cmd' = [Idle EXCEPT !.pc = "dial", !.request = request,
                            !.site = Head(script).site, !.info = source]
     /\ touched' = {} /\ stale' = {}
     /\ UNCHANGED <<source, file, meddling>>

\* An upload is not begun with a group the server does not know.
EngineFirst(request) ==
  IF request.op = "download" \/ request.group = NoGroup THEN "engine" ELSE "group"

FirstStep(request) ==
  CASE request.op \in {"copy", "upload", "download"} -> EngineFirst(request)
    [] request.op = "rsync"    -> "inspect"
    [] request.op = "verify"   -> "local"
    [] request.op = "check"    -> "account"
    [] request.op = "preview"  -> "list"

Connect ==
  /\ At("dial")
  /\ \E answer \in {Refused(code) : code \in {"KNOWN_HOSTS_UNAVAILABLE",
                      "CONNECTION_FAILED", "AUTHENTICATION_FAILED"}}
                   \cup {Shaken(cmd.site, Key(type, Machine(cmd.site))) :
                           type \in cmd.site.offers} :
       /\ Dials(cmd.site, answer)
       /\ cmd' = [cmd EXCEPT !.answer = answer,
            !.pc = IF answer.code = "OK" THEN FirstStep(cmd.request) ELSE "failure"]
  /\ UNCHANGED <<script, source, file, touched, stale, meddling>>

\* Resolver.Group: before the copy of the engine, after the one of rsync.
ResolveGroup ==
  /\ At("group")
  /\ cmd.request.group \in Groups
  /\ Goto(IF cmd.request.op = "rsync" THEN "chown" ELSE "engine")
  /\ UNCHANGED <<script, source, file, touched, stale, meddling>>

-----------------------------------------------------------------------------
(***************************************************************************)
(* Engine.Copy and Engine.Download, for one file.                          *)
(***************************************************************************)
Engine == /\ At("engine")
          /\ file[PlaceNow].kind \in {"absent", "file"}
          /\ UNCHANGED <<script, source, stale, meddling>>

EngineSkips ==
  /\ Engine
  /\ file[PlaceNow].kind = "file" /\ cmd.request.noClobber
  /\ cmd' = [cmd EXCEPT !.place = PlaceNow, !.skipped = TRUE,
                        !.pc = IF cmd.request.dryRun THEN "success" ELSE Afterwards]
  /\ UNCHANGED <<file, touched>>

MayWrite == file[PlaceNow].kind = "absent" \/ cmd.request.overwrite

EnginePlans ==
  /\ Engine /\ MayWrite
  /\ cmd.request.dryRun
  /\ cmd' = [cmd EXCEPT !.place = PlaceNow, !.pc = "success"]
  /\ UNCHANGED <<file, touched>>

\* A verified copy appears, with its group, mode and time; a download gets neither.
EngineWrites ==
  /\ Engine /\ MayWrite
  /\ ~cmd.request.dryRun
  /\ file' = [file EXCEPT ![PlaceNow] =
       IF cmd.request.op = "download"
       THEN NewFile(source.content, Restrictive, DefaultGroup, Now)
       ELSE NewFile(source.content, AskedMode(source), AskedGroup,
                    IF cmd.request.preserveTime THEN source.time ELSE Now)]
  /\ cmd' = [cmd EXCEPT !.place = PlaceNow, !.info = source,
                        !.digest = source.content, !.pc = Afterwards]
  /\ touched' = {}

\* An overwrite that ends between the removal and the rename.
EngineCut ==
  /\ Engine
  /\ file[PlaceNow].kind = "file" /\ cmd.request.overwrite /\ ~cmd.request.dryRun
  /\ file' = [file EXCEPT ![PlaceNow] = Nothing]
  /\ Goto("failure")
  /\ UNCHANGED touched

EngineStep == EngineSkips \/ EnginePlans \/ EngineWrites \/ EngineCut

-----------------------------------------------------------------------------
(***************************************************************************)
(* runRsync up to the end of the program.                                  *)
(***************************************************************************)
\* Links are refused, and an existing destination unless it may be replaced.
Inspect ==
  /\ At("inspect")
  /\ "symlink" \notin {file["target"].kind, file[PlaceNow].kind}
  /\ file[PlaceNow].kind = "absent" \/ cmd.request.overwrite
  /\ cmd' = [cmd EXCEPT !.place = PlaceNow, !.pc = "ssh"]
  /\ UNCHANGED <<script, source, file, touched, stale, meddling>>

\* The program opens a connection of its own, through ssh, which resolves the
\* name again, takes no key that is not recorded and asks nobody
\* (StrictHostKeyChecking=yes, BatchMode=yes).  What it does on another machine
\* than ours leaves our places alone.
RsyncConnects ==
  /\ At("ssh")
  /\ \E machine \in Reachable(cmd.site) :
       /\ SshAccepts(cmd.site, machine)
       /\ cmd' = [cmd EXCEPT !.peer = machine,
            !.pc = IF machine = Machine(cmd.site) THEN "look"
                   ELSE IF cmd.request.dryRun THEN "success" ELSE "local"]
  /\ UNCHANGED <<script, source, file, touched, stale, meddling>>

\* The program decides for itself where to write.  It leaves alone what exists
\* (--ignore-existing) and what looks complete, and a dry run ends here.
RsyncLeaves ==
  /\ At("look")
  /\ file[PlaceNow].kind # "absent"
  /\ ~cmd.request.overwrite \/ file[PlaceNow].kind = "file"
  /\ Goto(IF cmd.request.dryRun THEN "success" ELSE "local")
  /\ UNCHANGED <<script, source, file, touched, stale, meddling>>

\* Fault: --ignore-existing is not passed on.
RsyncLooksBoldly ==
  /\ At("look")
  /\ cmd' = [cmd EXCEPT !.aim = PlaceNow, !.found = file[PlaceNow].kind # "absent",
                        !.pc = IF cmd.request.dryRun THEN "success" ELSE "write"]
  /\ UNCHANGED <<script, source, file, touched, stale, meddling>>

RsyncLooks ==
  /\ At("look")
  /\ MayWrite
  /\ cmd' = [cmd EXCEPT !.aim = PlaceNow, !.found = file[PlaceNow].kind # "absent",
                        !.pc = IF cmd.request.dryRun THEN "success" ELSE "write"]
  /\ UNCHANGED <<script, source, file, touched, stale, meddling>>

Received(content) ==
  NewFile(content, IF file[cmd.aim].kind = "file" THEN file[cmd.aim].mode ELSE Umasked,
          DefaultGroup, IF cmd.request.preserveTime THEN source.time ELSE Now)

\* What arrived is renamed into place; an interrupted transfer leaves what it
\* has there as well (--partial).
RsyncWrites(content) ==
  /\ At("write")
  /\ file[cmd.aim].kind # "directory"
  /\ cmd.aim = "inside" => file["target"].kind = "directory"
  /\ file' = [file EXCEPT ![cmd.aim] = Received(content)]
  /\ Goto(IF content = Part THEN "failure" ELSE "local")
  /\ UNCHANGED <<script, source, touched, stale, meddling>>

-----------------------------------------------------------------------------
(***************************************************************************)
(* Engine.Verify, alone and after rsync.                                   *)
(***************************************************************************)
\* Both kinds are checked, and then the local file is read.
VerifyLocal ==
  /\ At("local")
  /\ file[cmd.place].kind = "file"
  /\ cmd' = [cmd EXCEPT !.digest = source.content, !.pc = "remote"]
  /\ UNCHANGED <<script, source, file, touched, stale, meddling>>

\* Fault: the policy does not wait for the comparison.
VerifyNothing ==
  /\ At("remote")
  /\ touched' = {}
  /\ Goto(IF cmd.request.op = "verify" THEN "success"
          ELSE IF cmd.request.group = NoGroup THEN "chmod" ELSE "group")
  /\ UNCHANGED <<script, source, file, stale, meddling>>

\* The name is opened without another look at its kind: a link that was put there
\* since is followed, and its content stands for that of the file it leads to.
VerifyRemote ==
  /\ At("remote")
  /\ file[cmd.place].kind \in {"file", "symlink"}
  /\ file[cmd.place].content = cmd.digest
  /\ touched' = IF file[cmd.place].kind = "file" THEN {} ELSE touched
  /\ Goto(IF cmd.request.op = "verify" THEN "success"
          ELSE IF cmd.request.group = NoGroup THEN "chmod" ELSE "group")
  /\ UNCHANGED <<script, source, file, stale, meddling>>

-----------------------------------------------------------------------------
(***************************************************************************)
(* The policy runRsync applies afterwards, by name.                        *)
(***************************************************************************)
\* The calls follow a link that was put there; what it points to is not ours.
Apply(entry) ==
  /\ file[cmd.place].kind # "absent"
  /\ file' = IF file[cmd.place].kind = "symlink" THEN file
             ELSE [file EXCEPT ![cmd.place] = entry]
  /\ UNCHANGED <<script, source, touched, stale, meddling>>

\* Fault: the group is applied after the mode.
ChownLast ==
  /\ At("chown")
  /\ Apply([file[cmd.place] EXCEPT !.gid = cmd.request.group,
                                   !.mode = Ordinary[AskedMode(cmd.info)]])
  /\ Goto(IF cmd.request.preserveTime THEN "chtimes" ELSE Afterwards)

\* A change of the group takes the set-id bits away.
Chown ==
  /\ At("chown")
  /\ Apply([file[cmd.place] EXCEPT !.gid = cmd.request.group, !.mode = Ordinary[@]])
  /\ Goto("chmod")

Chmod ==
  /\ At("chmod")
  /\ Apply([file[cmd.place] EXCEPT !.mode = AskedMode(cmd.info)])
  /\ Goto(IF cmd.request.preserveTime THEN "chtimes" ELSE Afterwards)

\* The time the source had when it was inspected.
Chtimes ==
  /\ At("chtimes")
  /\ Apply([file[cmd.place] EXCEPT !.time = cmd.info.time])
  /\ Goto(Afterwards)

RsyncStep == Inspect \/ RsyncConnects \/ RsyncLeaves \/ RsyncLooks
             \/ (\E content \in {source.content, Part} : RsyncWrites(content))
             \/ Chown \/ Chmod \/ Chtimes

-----------------------------------------------------------------------------
(***************************************************************************)
(* The access check, and the preview of the desktop.                       *)
(***************************************************************************)
\* Resolver.User, and then a path that must be absolute.
ResolveAccount ==
  /\ At("account")
  /\ cmd.request.readableBy \in DOMAIN Accounts
  /\ cmd.request.absolute
  /\ Goto("access")
  /\ UNCHANGED <<script, source, file, touched, stale, meddling>>

Chain(place) == IF place = "inside" THEN <<"parent", "target", "inside">>
                ELSE <<"parent", "target">>

\* Check: every component is looked at, and only then the answer is given.
CheckComponent ==
  LET chain   == Chain(cmd.place)
      entry   == file[chain[cmd.at]]
      last    == cmd.at = Len(chain)
      blocked == cmd.blocked \/ ~Allowed(entry, Accounts[cmd.request.readableBy], last)
  IN /\ At("access")
     /\ Inspectable(entry)
     /\ cmd' = [cmd EXCEPT !.blocked = blocked, !.at = IF last THEN @ ELSE @ + 1,
          !.pc = IF ~last THEN @ ELSE IF blocked THEN "failure" ELSE "success"]
     /\ stale' = stale \ {chain[cmd.at]}
     /\ UNCHANGED <<script, source, file, touched, meddling>>

\* PreviewDestination lists a directory and changes nothing.
List ==
  /\ At("list")
  /\ Goto("success")
  /\ UNCHANGED <<script, source, file, touched, stale, meddling>>

\* Every error return, a lost connection and a signal.
Stop ==
  /\ cmd.pc \notin Ended
  /\ Goto("failure")
  /\ UNCHANGED <<script, source, file, touched, stale, meddling>>

-----------------------------------------------------------------------------
(***************************************************************************)
(* What others do.                                                         *)
(***************************************************************************)
Meddle == meddling > 0 /\ meddling' = meddling - 1

EditSource ==
  /\ Meddle
  /\ \E s \in Sources : source' = s
  /\ UNCHANGED <<script, file, cmd, touched, stale>>

Occupy(place, entry) ==
  /\ Meddle
  /\ place = "inside" => file["target"].kind = "directory" /\ entry.kind # "directory"
  /\ file' = [p \in Places |-> IF p = place THEN entry
                               ELSE IF p = "inside" THEN Nothing ELSE file[p]]
  /\ touched' = touched \cup {place, "inside"}
  /\ stale' = stale \cup {place, "inside"}
  /\ UNCHANGED <<script, source, cmd>>

ChangeParent ==
  /\ Meddle
  /\ \E mode \in Modes : file' = [file EXCEPT !["parent"].mode = mode]
  /\ stale' = stale \cup {"parent"}
  /\ UNCHANGED <<script, source, cmd, touched>>

Others == \/ EditSource \/ ChangeParent
          \/ \E place \in {"target", "inside"}, entry \in OtherEntries \cup {Nothing} :
               Occupy(place, entry)

-----------------------------------------------------------------------------
Command == \/ Begin
           \/ Connect \/ ResolveGroup \/ EngineStep \/ RsyncStep
           \/ VerifyLocal \/ VerifyRemote
           \/ ResolveAccount \/ CheckComponent \/ List \/ Stop

Next == Command \/ Others

Spec == Init /\ [][Next]_vars

-----------------------------------------------------------------------------
(***************************************************************************)
(* Properties.                                                             *)
(***************************************************************************)
Phases == Ended \cup {"dial", "group", "engine", "inspect", "ssh", "look", "write",
                      "local", "remote", "chown", "chmod", "chtimes", "account", "access",
                      "list"}

\* Every variable keeps the shape of what it stands for.
TypeOK ==
  /\ source \in Sources
  /\ file \in [Places -> Entries]
  /\ cmd.pc \in Phases
  /\ cmd.place \in {"target", "inside"} /\ cmd.aim \in {"target", "inside"}
  /\ cmd.info \in Sources \cup {Nothing}
  /\ cmd.at \in 1..3
  /\ cmd.found \in BOOLEAN /\ cmd.skipped \in BOOLEAN /\ cmd.blocked \in BOOLEAN
  /\ touched \subseteq Places /\ stale \subseteq Places
  /\ meddling \in 0..MaxMeddling

Wrote == /\ At("success") /\ cmd.request.op \in {"copy", "upload", "rsync"}
         /\ ~cmd.request.dryRun /\ ~cmd.skipped

AsAsked(entry) ==
  /\ entry.kind = "file" /\ entry.content = cmd.digest
  /\ entry.mode = AskedMode(cmd.info)
  /\ cmd.request.group # NoGroup => entry.gid = cmd.request.group
  /\ cmd.request.preserveTime => entry.time = cmd.info.time

\* What the server would say if the account opened the path: the walk is
\* stated from the account's point of view.
MayDo(who, entry, deed) ==
  \/ who.uid = RootUid
  \/ who.uid = entry.uid /\ deed \in Grants[entry.mode].owner
  \/ who.uid # entry.uid /\ entry.gid \in who.groups /\ deed \in Grants[entry.mode].group
  \/ who.uid # entry.uid /\ entry.gid \notin who.groups /\ deed \in Grants[entry.mode].other
Deed(chain, i) == IF i = Len(chain) THEN "read" ELSE "traverse"

\* A command that reports success left the destination with the content it
\* compared, the mode, group and time that were asked for, unless others have
\* changed it since it was seen as a file; and the account that was named may
\* traverse or read every part of the path that others have not changed since the
\* access check looked at it.
SuccessIsEarned ==
  /\ Wrote /\ cmd.place \notin touched => AsAsked(file[cmd.place])
  /\ At("success") /\ cmd.request.op \in {"copy", "upload", "rsync", "check"}
     /\ cmd.request.readableBy # NoAccount /\ ~cmd.request.dryRun
       => LET chain == Chain(cmd.place)
          IN \A i \in DOMAIN chain :
               \/ chain[i] \in stale
               \/ MayDo(Accounts[cmd.request.readableBy], file[chain[i]], Deed(chain, i))

Holds(entry) == [kind |-> entry.kind, content |-> entry.content]

\* Only a transfer that is no dry run changes what a place holds; without
\* overwrite nothing that was there when the writer looked is lost.
OnlyAskedChanges ==
  [][\A p \in Places : meddling' = meddling /\ Holds(file'[p]) # Holds(file[p]) =>
       /\ ~cmd.request.dryRun
       /\ cmd.request.op \in {"copy", "upload", "download", "rsync"}
       /\ \/ file[p].kind = "absent"
          \/ cmd.request.overwrite
          \/ At("write") /\ ~cmd.found]_vars

\* Mode, group and time of an entry whose content stays are changed only where
\* that content was compared with the source, or may be replaced.
PolicyFollowsVerification ==
  [][\A p \in Places : meddling' = meddling /\ file'[p] # file[p]
                       /\ Holds(file'[p]) = Holds(file[p]) =>
       \/ p \in touched
       \/ file[p].content = cmd.digest
       \/ cmd.request.overwrite
       \/ At("write") /\ ~cmd.found]_vars

\* No command does anything but dial, and rsync connects nowhere, where the key of
\* the machine that answers is not recorded for the address.
StrangersRefused ==
  LET recorded == cmd.site.recorded
  IN /\ cmd.pc \notin {"idle", "dial", "failure"} =>
          /\ cmd.answer.code = "OK"
          /\ \E i \in DOMAIN recorded : /\ recorded[i].type = cmd.answer.key.type
                                        /\ recorded[i].machine = Machine(cmd.site)
     /\ cmd.peer # "none" =>
          \E i \in DOMAIN recorded : recorded[i].machine = cmd.peer

\* A server that still has a key recorded for it is not taken for another one,
\* whatever other keys it has got in the meantime.
Familiar(site) ==
  /\ site.recorded # <<>>
  /\ \A i \in DOMAIN site.recorded : site.recorded[i].machine = Machine(site)
  /\ \E i \in DOMAIN site.recorded : site.recorded[i].type \in site.offers

FamiliarServersAccepted ==
  cmd.answer.code = "HOST_KEY_REJECTED" => ~Familiar(cmd.site)

\* A familiar server that can sign with a recorded key and takes one the agent
\* holds can be connected to, unless a key file that is read as well stands in the
\* way: a selected one that is missing, or any that does not parse.
AgentKeySuffices ==
  LET site == cmd.site
  IN cmd.answer.code = "AUTHENTICATION_FAILED" =>
       ~ /\ Familiar(site)
         /\ \E i \in DOMAIN site.recorded : Signs(site, site.recorded[i].type)
         /\ site.authentication = "key" /\ site.agent = "good"
         /\ site.selected => site.keys[1] # "absent"
         /\ \A i \in DOMAIN site.keys : site.keys[i] # "locked"
=============================================================================
