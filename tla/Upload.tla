------------------------------- MODULE Upload -------------------------------
(***************************************************************************)
(* The upload of one regular file: copyFile of internal/transfer/engine.go *)
(* and what it calls, from the first stat of the source to the removal of  *)
(* the resume metadata, for transfers that share a source and a            *)
(* destination.                                                            *)
(*                                                                         *)
(* Each access to the source or to the server is a step, because the       *)
(* source may be edited, another program may use the destination and a     *)
(* second transfer may run between any two of them.  Every error return of *)
(* the code leaves things as they are and ends the attempt: so does a      *)
(* cancelled context, a lost connection and the end of the process, at any *)
(* step, and all of them are the one action Stop.                          *)
(***************************************************************************)
EXTENDS PartialFiles, FiniteSets

CONSTANTS
  Transfers,     \* transfers from the source to the destination
  Files,         \* names for the inodes of the server
  NoFile, NoTransfer,   \* null values
  Foreign,       \* the content another program writes to the destination
  Junk,          \* a block that storage has corrupted
  OptionSets,    \* the options an attempt may be started with
  MaxTime,       \* bound of the model: the last modification time
  Environment    \* what may happen beside the transfers in an instance: the
                 \* source is edited, others use the destination, a partial
                 \* file decays while no transfer is active

SourceBlocks == UNION {{c[i] : i \in 1..Len(c)} : c \in Contents}
Options == [resume : BOOLEAN, overwrite : BOOLEAN, noClobber : BOOLEAN,
            dryRun : BOOLEAN]

ASSUME UploadAssumption ==
  /\ IsFiniteSet(Files)
  /\ NoFile \notin Files
  /\ NoTransfer \notin Transfers
  /\ \A c \in Contents : c \in Seq(SourceBlocks) /\ Len(c) > 0
  /\ Foreign \notin Contents
  /\ OptionSets \subseteq Options
  /\ MaxTime \in Nat \ {0}
  /\ Environment \subseteq {"edit", "others", "decay"}

Blocks == SourceBlocks \cup {Junk}

VARIABLES
  source,    \* the local file: its content and modification time
  dest,      \* the inode at the destination path
  partial,   \* the inode at each partial path
  sidecar,   \* the resume metadata beside it, and the attempt that created it
  file,      \* content and mode of each inode
  xfer,      \* the local state of each transfer
  versions,  \* history: the contents the source has had
  decayed    \* history: storage has corrupted a partial file

vars == <<source, dest, partial, sidecar, file, xfer, versions, decayed>>

Phases == {"idle", "resolve", "fingerprint", "inspect", "compatible", "discard",
           "discardSidecar", "lone", "describe", "encode", "create", "restrict",
           "open", "copy", "recheck", "verify", "policy", "clear", "rename",
           "cleanup"}
NoOptions == [resume |-> FALSE, overwrite |-> FALSE, noClobber |-> FALSE,
              dryRun |-> FALSE]
Idle == [pc |-> "idle", options |-> NoOptions, mtime |-> 0, print |-> NoPrint,
         offset |-> 0, handle |-> NoFile, hashed |-> <<>>]
NoSidecar == [by |-> NoTransfer, metadata |-> NoMetadata]

Init ==
  /\ \E c \in Contents : /\ source = [content |-> c, mtime |-> 1]
                         /\ versions = {c}
  /\ dest = NoFile
  /\ partial = [p \in Fingerprints |-> NoFile]
  /\ sidecar = [p \in Fingerprints |-> NoSidecar]
  /\ file = [f \in Files |-> [content |-> <<>>, mode |-> "default"]]
  /\ xfer = [t \in Transfers |-> Idle]
  /\ decayed = FALSE

-----------------------------------------------------------------------------
(***************************************************************************)
(* Helpers.                                                                *)
(***************************************************************************)
At(t, pc) == xfer[t].pc = pc
Goto(t, pc) == xfer' = [xfer EXCEPT ![t].pc = pc]
Return(t) == xfer' = [xfer EXCEPT ![t] = Idle]

PartialOf(t) == partial[xfer[t].print]
SidecarOf(t) == sidecar[xfer[t].print]

\* An inode with no name and no open handle is reclaimed.
Unused == {f \in Files : /\ f # dest
                         /\ \A p \in Fingerprints : f # partial[p]
                         /\ \A t \in Transfers : f # xfer[t].handle}

\* The metadata an attempt writes, and asks for when it resumes.
Expected(t) == Metadata(xfer[t].print, xfer[t].mtime)

-----------------------------------------------------------------------------
(***************************************************************************)
(* The steps of copyFile.                                                  *)
(***************************************************************************)
\* Copy rejects contradictory options.
Accepted(options) == ~(options.overwrite /\ options.noClobber)

\* copyFile stats the source.
Begin(t, options) ==
  /\ At(t, "idle")
  /\ Accepted(options)
  /\ xfer' = [xfer EXCEPT ![t] =
       [Idle EXCEPT !.pc = "resolve", !.options = options, !.mtime = source.mtime,
                    !.print = [NoPrint EXCEPT !.size = Len(source.content)]]]
  /\ UNCHANGED <<source, dest, partial, sidecar, file, versions, decayed>>

\* resolveDestination: an existing destination is skipped, or replaced later.
Resolve(t) ==
  /\ At(t, "resolve")
  /\ \/ dest = NoFile /\ Goto(t, "fingerprint")
     \/ dest # NoFile /\ xfer[t].options.noClobber /\ Return(t)
     \/ dest # NoFile /\ xfer[t].options.overwrite /\ Goto(t, "fingerprint")
  /\ UNCHANGED <<source, dest, partial, sidecar, file, versions, decayed>>

\* Fault: the fingerprint is the size alone.
TakeFingerprintSize(t) ==
  /\ At(t, "fingerprint")
  /\ IF xfer[t].options.dryRun THEN Return(t) ELSE Goto(t, "inspect")
  /\ UNCHANGED <<source, dest, partial, sidecar, file, versions, decayed>>

\* The prefix is read after the stat and may be that of a later version.
TakeFingerprint(t) ==
  /\ At(t, "fingerprint")
  /\ \/ xfer[t].options.dryRun /\ Return(t)
     \/ /\ ~xfer[t].options.dryRun
        /\ xfer' = [xfer EXCEPT ![t].pc = "inspect",
             ![t].print.prefix = Prefix(source.content, Len(source.content))]
  /\ UNCHANGED <<source, dest, partial, sidecar, file, versions, decayed>>

\* preparePartial, from here to RestrictPartial: is there state to resume from?
Inspect(t) ==
  /\ At(t, "inspect")
  /\ \/ PartialOf(t) = NoFile /\ Goto(t, "lone")
     \/ PartialOf(t) # NoFile /\ ~xfer[t].options.resume /\ Goto(t, "discard")
     \/ /\ PartialOf(t) # NoFile /\ xfer[t].options.resume
        /\ xfer' = [xfer EXCEPT ![t].pc = "compatible",
                                ![t].offset = Len(file[PartialOf(t)].content)]
  /\ UNCHANGED <<source, dest, partial, sidecar, file, versions, decayed>>

\* The metadata and the prefix agree with the source; nothing is written.
Resume(t) ==
  LET size == xfer[t].offset
  IN /\ At(t, "compatible")
     /\ ResumeCompatible(Expected(t), SidecarOf(t).metadata, size)
     /\ PartialOf(t) # NoFile
     /\ Prefix(file[PartialOf(t)].content, size) = Prefix(source.content, size)
     /\ Goto(t, "open")
     /\ UNCHANGED <<source, dest, partial, sidecar, file, versions, decayed>>

\* Fault: the metadata is removed before the partial file it describes.
DiscardSidecarFirst(t) ==
  /\ At(t, "discard")
  /\ sidecar' = [sidecar EXCEPT ![xfer[t].print] = NoSidecar]
  /\ Goto(t, "discardSidecar")
  /\ UNCHANGED <<source, dest, partial, file, versions, decayed>>

Discard(t) ==
  /\ At(t, "discard")
  /\ PartialOf(t) # NoFile
  /\ partial' = [partial EXCEPT ![xfer[t].print] = NoFile]
  /\ Goto(t, "discardSidecar")
  /\ UNCHANGED <<source, dest, sidecar, file, versions, decayed>>

\* An error of this removal is ignored.
DiscardSidecar(t) ==
  /\ At(t, "discardSidecar")
  /\ \/ sidecar' = [sidecar EXCEPT ![xfer[t].print] = NoSidecar]
     \/ UNCHANGED sidecar
  /\ Goto(t, "describe")
  /\ UNCHANGED <<source, dest, partial, file, versions, decayed>>

\* Metadata without a partial file is stale.
DiscardLoneSidecar(t) ==
  /\ At(t, "lone")
  /\ sidecar' = [sidecar EXCEPT ![xfer[t].print] = NoSidecar]
  /\ Goto(t, "describe")
  /\ UNCHANGED <<source, dest, partial, file, versions, decayed>>

\* writeMetadata creates the file exclusively, restricts it and fills it; what
\* is written after another attempt removed the file goes nowhere.
CreateSidecar(t) ==
  /\ At(t, "describe")
  /\ SidecarOf(t) = NoSidecar
  /\ sidecar' = [sidecar EXCEPT ![xfer[t].print] = [NoSidecar EXCEPT !.by = t]]
  /\ Goto(t, "encode")
  /\ UNCHANGED <<source, dest, partial, file, versions, decayed>>

WriteSidecar(t) ==
  /\ At(t, "encode")
  /\ sidecar' = IF SidecarOf(t).by = t
                THEN [sidecar EXCEPT ![xfer[t].print].metadata = Expected(t)]
                ELSE sidecar
  /\ Goto(t, "create")
  /\ UNCHANGED <<source, dest, partial, file, versions, decayed>>

\* The partial file is created exclusively, with the mode the server chooses.
CreatePartial(t) ==
  /\ At(t, "create")
  /\ PartialOf(t) = NoFile
  /\ \E f \in Unused :
       /\ file' = [file EXCEPT ![f] = [content |-> <<>>, mode |-> "default"]]
       /\ partial' = [partial EXCEPT ![xfer[t].print] = f]
  /\ Goto(t, "restrict")
  /\ UNCHANGED <<source, dest, sidecar, versions, decayed>>

RestrictPartial(t) ==
  /\ At(t, "restrict")
  /\ PartialOf(t) # NoFile
  /\ file' = [file EXCEPT ![PartialOf(t)].mode = "private"]
  /\ Goto(t, "open")
  /\ UNCHANGED <<source, dest, partial, sidecar, versions, decayed>>

\* upload: the resumed part of the source is hashed, the partial file opened.
Open(t) ==
  /\ At(t, "open")
  /\ xfer[t].offset <= Len(source.content)
  /\ PartialOf(t) # NoFile
  /\ xfer' = [xfer EXCEPT ![t].pc = "copy", ![t].handle = PartialOf(t),
                          ![t].hashed = SubSeq(source.content, 1, xfer[t].offset)]
  /\ UNCHANGED <<source, dest, partial, sidecar, file, versions, decayed>>

\* One block of the source goes to the file and into the digest.
CopyBlock(t) ==
  LET n == Len(xfer[t].hashed) + 1
  IN /\ At(t, "copy")
     /\ n <= Len(source.content)
     /\ file' = [file EXCEPT ![xfer[t].handle].content =
                               Written(@, n, source.content[n])]
     /\ xfer' = [xfer EXCEPT ![t].hashed = Append(@, source.content[n])]
     /\ UNCHANGED <<source, dest, partial, sidecar, versions, decayed>>

CopyEnds(t) ==
  /\ At(t, "copy")
  /\ Len(xfer[t].hashed) >= Len(source.content)
  /\ xfer' = [xfer EXCEPT ![t].pc = "recheck", ![t].handle = NoFile]
  /\ UNCHANGED <<source, dest, partial, sidecar, file, versions, decayed>>

\* Fault: only the size is looked at again.
RecheckSize(t) ==
  /\ At(t, "recheck")
  /\ Len(source.content) = xfer[t].print.size
  /\ Goto(t, "verify")
  /\ UNCHANGED <<source, dest, partial, sidecar, file, versions, decayed>>

\* The source still has the size and the modification time of the first stat.
Recheck(t) ==
  /\ At(t, "recheck")
  /\ Len(source.content) = xfer[t].print.size
  /\ source.mtime = xfer[t].mtime
  /\ Goto(t, "verify")
  /\ UNCHANGED <<source, dest, partial, sidecar, file, versions, decayed>>

\* Fault: the size is compared and the digest is not.
VerifySize(t) ==
  /\ At(t, "verify")
  /\ PartialOf(t) # NoFile
  /\ Len(file[PartialOf(t)].content) = Len(xfer[t].hashed)
  /\ Goto(t, "policy")
  /\ UNCHANGED <<source, dest, partial, sidecar, file, versions, decayed>>

\* verifyRemoteFast or the read-back: both compare size and digest of what is
\* at the partial path, and only equality passes either of them.
Verify(t) ==
  /\ At(t, "verify")
  /\ PartialOf(t) # NoFile
  /\ file[PartialOf(t)].content = xfer[t].hashed
  /\ Goto(t, "policy")
  /\ UNCHANGED <<source, dest, partial, sidecar, file, versions, decayed>>

\* applyFilePolicy: chown, chmod and chtimes of the partial path.
ApplyPolicy(t) ==
  /\ At(t, "policy")
  /\ PartialOf(t) # NoFile
  /\ file' = [file EXCEPT ![PartialOf(t)].mode = "policy"]
  /\ Goto(t, IF xfer[t].options.overwrite THEN "clear" ELSE "rename")
  /\ UNCHANGED <<source, dest, partial, sidecar, versions, decayed>>

\* Overwrite removes an existing destination just before the rename.
Clear(t) ==
  /\ At(t, "clear")
  /\ dest' = NoFile
  /\ Goto(t, "rename")
  /\ UNCHANGED <<source, partial, sidecar, file, versions, decayed>>

\* Fault: the rename replaces what is at the destination.
RenameReplacing(t) ==
  /\ At(t, "rename")
  /\ PartialOf(t) # NoFile
  /\ dest' = PartialOf(t)
  /\ partial' = [partial EXCEPT ![xfer[t].print] = NoFile]
  /\ Goto(t, "cleanup")
  /\ UNCHANGED <<source, sidecar, file, versions, decayed>>

\* The rename of SFTP version 3 fails if the new name exists.
Rename(t) ==
  /\ At(t, "rename")
  /\ PartialOf(t) # NoFile
  /\ dest = NoFile
  /\ dest' = PartialOf(t)
  /\ partial' = [partial EXCEPT ![xfer[t].print] = NoFile]
  /\ Goto(t, "cleanup")
  /\ UNCHANGED <<source, sidecar, file, versions, decayed>>

\* An error of this removal is ignored as well.
Cleanup(t) ==
  /\ At(t, "cleanup")
  /\ \/ sidecar' = [sidecar EXCEPT ![xfer[t].print] = NoSidecar]
     \/ UNCHANGED sidecar
  /\ Return(t)
  /\ UNCHANGED <<source, dest, partial, file, versions, decayed>>

Stop(t) ==
  /\ ~At(t, "idle")
  /\ Return(t)
  /\ UNCHANGED <<source, dest, partial, sidecar, file, versions, decayed>>

-----------------------------------------------------------------------------
(***************************************************************************)
(* What happens beside the transfers.                                      *)
(***************************************************************************)
\* The user edits the source: its modification time advances.
Edit ==
  /\ "edit" \in Environment
  /\ source.mtime < MaxTime
  /\ \E c \in Contents : /\ source' = [content |-> c, mtime |-> source.mtime + 1]
                         /\ versions' = versions \cup {c}
  /\ UNCHANGED <<dest, partial, sidecar, file, xfer, decayed>>

\* Another program, or the server browser, creates or deletes the destination.
OthersCreate ==
  /\ "others" \in Environment
  /\ dest = NoFile
  /\ \E f \in Unused :
       /\ dest' = f
       /\ file' = [file EXCEPT ![f] = [content |-> Foreign, mode |-> "default"]]
  /\ UNCHANGED <<source, partial, sidecar, xfer, versions, decayed>>

OthersRemove ==
  /\ "others" \in Environment
  /\ dest # NoFile
  /\ dest' = NoFile
  /\ UNCHANGED <<source, partial, sidecar, file, xfer, versions, decayed>>

\* A block of a partial file is damaged while it waits to be resumed.
Decay ==
  /\ "decay" \in Environment
  /\ \A t \in Transfers : At(t, "idle")
  /\ \E p \in Fingerprints :
       /\ partial[p] # NoFile
       /\ \E n \in 1..Len(file[partial[p]].content) :
            file' = [file EXCEPT ![partial[p]].content[n] = Junk]
  /\ decayed' = TRUE
  /\ UNCHANGED <<source, dest, partial, sidecar, xfer, versions>>

-----------------------------------------------------------------------------
Prepare(t) ==
  \/ \E options \in OptionSets : Begin(t, options)
  \/ Resolve(t) \/ TakeFingerprint(t) \/ Inspect(t) \/ Resume(t)
  \/ Discard(t) \/ DiscardSidecar(t) \/ DiscardLoneSidecar(t)
  \/ CreateSidecar(t) \/ WriteSidecar(t) \/ CreatePartial(t) \/ RestrictPartial(t)

Transmit(t) == Open(t) \/ CopyBlock(t) \/ CopyEnds(t)

Finalize(t) == Recheck(t) \/ Verify(t) \/ ApplyPolicy(t) \/ Clear(t)
               \/ Rename(t) \/ Cleanup(t)

Others == Edit \/ OthersCreate \/ OthersRemove \/ Decay

Next == (\E t \in Transfers : Prepare(t) \/ Transmit(t) \/ Finalize(t) \/ Stop(t))
        \/ Others

Spec == Init /\ [][Next]_vars

-----------------------------------------------------------------------------
(***************************************************************************)
(* Properties.                                                             *)
(***************************************************************************)
FileOrNone == Files \cup {NoFile}
AllMetadata == [print : Fingerprints, mtime : 0..MaxTime] \cup {NoMetadata}

\* Every variable keeps the shape of the file or structure it stands for.
TypeOK ==
  /\ source \in [content : Contents, mtime : 1..MaxTime]
  /\ dest \in FileOrNone
  /\ partial \in [Fingerprints -> FileOrNone]
  /\ sidecar \in [Fingerprints -> [by : Transfers \cup {NoTransfer},
                                   metadata : AllMetadata]]
  /\ \A f \in Files : /\ file[f].content \in Seq(Blocks) \cup {Foreign}
                      /\ file[f].mode \in {"default", "private", "policy"}
  /\ \A t \in Transfers :
       /\ xfer[t].pc \in Phases
       /\ xfer[t].options \in OptionSets \cup {NoOptions}
       /\ xfer[t].pc \notin {"idle", "resolve", "fingerprint"}
            => xfer[t].print \in Fingerprints
       /\ xfer[t].handle \in FileOrNone
  /\ versions \in SUBSET Contents

\* The destination never shows part of a version or a mix of two.
Published == INSTANCE Publication WITH
  Absent    <- NoFile,
  Replacing <- FALSE,
  final     <- IF dest = NoFile THEN NoFile ELSE file[dest].content
ImplementsPublication == Published!Spec

\* A partial file never exists without the complete metadata that a later
\* attempt needs to resume it, at whatever step an attempt was cut short.
PartialHasSidecar ==
  \A p \in Fingerprints : partial[p] # NoFile => sidecar[p].metadata # NoMetadata

\* Only an attempt told to overwrite removes a destination, and only when the
\* bytes that will replace it are complete and verified.
ReplacementReady ==
  [][dest # NoFile /\ dest' # dest /\ ~OthersRemove =>
       \E t \in Transfers :
         /\ xfer[t].options.overwrite
         /\ PartialOf(t) # NoFile
         /\ file[PartialOf(t)].content = xfer[t].hashed]_vars

\* Resuming is worth it: with sound storage, an attempt that has sent all of a
\* source nobody edited meanwhile passes the verification that follows.
ResumeIsSound ==
  \A t \in Transfers :
    xfer[t].pc = "verify" /\ source.mtime = xfer[t].mtime /\ ~decayed
      => /\ PartialOf(t) # NoFile
         /\ file[PartialOf(t)].content = source.content

\* At the rename the destination has the bytes whose digest was verified and
\* the mode of the policy.
DestinationMatches ==
  [][\A t \in Transfers : xfer[t].pc = "rename" /\ xfer'[t].pc = "cleanup"
       => file[dest'] = [content |-> xfer[t].hashed, mode |-> "policy"]]_vars
=============================================================================
