------------------------------ MODULE Download ------------------------------
(***************************************************************************)
(* The download of one regular file: downloadFile of                       *)
(* internal/transfer/engine.go and what it calls.  It mirrors the upload   *)
(* with source and destination exchanged, but for four things: the partial *)
(* file is created with its restrictive mode at once, no policy is applied *)
(* to it, the digest of what was received is compared with the source and  *)
(* not with the partial file, and the local rename replaces a destination. *)
(*                                                                         *)
(* As in Upload, each access to a file is a step and every error return, a *)
(* cancelled context, a lost connection and the end of the process are the *)
(* one action Stop.                                                        *)
(***************************************************************************)
EXTENDS PartialFiles, FiniteSets

CONSTANTS
  Transfers,     \* transfers from the source to the destination
  Files,         \* names for the inodes of the local disk
  NoFile, NoTransfer,   \* null values
  Foreign,       \* the content another program writes to the destination
  Junk,          \* a block that storage has corrupted or never received
  OptionSets,    \* the options an attempt may be started with
  MaxTime,       \* bound of the model: the last modification time
  Environment    \* what may happen beside the transfers in an instance: the
                 \* source is edited, others use the destination, the machine
                 \* fails and a partial file loses a block

SourceBlocks == UNION {{c[i] : i \in 1..Len(c)} : c \in Contents}
Options == [resume : BOOLEAN, overwrite : BOOLEAN, noClobber : BOOLEAN,
            dryRun : BOOLEAN]

ASSUME DownloadAssumption ==
  /\ IsFiniteSet(Files)
  /\ NoFile \notin Files
  /\ NoTransfer \notin Transfers
  /\ \A c \in Contents : c \in Seq(SourceBlocks) /\ Len(c) > 0
  /\ Foreign \notin Contents
  /\ OptionSets \subseteq Options
  /\ MaxTime \in Nat \ {0}
  /\ Environment \subseteq {"edit", "others", "decay"}

Blocks == SourceBlocks \cup {Junk}

VARIABLES
  source,    \* the remote file: its content and modification time
  dest,      \* the inode at the local destination
  partial,   \* the inode at each partial path
  sidecar,   \* the resume metadata beside it, and the attempt that created it
  file,      \* content of each inode
  xfer,      \* the local state of each transfer
  versions   \* history: the contents the source has had

vars == <<source, dest, partial, sidecar, file, xfer, versions>>

Phases == {"idle", "resolve", "fingerprint", "inspect", "compatible", "discard",
           "discardSidecar", "lone", "describe", "encode", "create", "open",
           "receive", "recheck", "verify", "clear", "rename", "cleanup"}
NoOptions == [resume |-> FALSE, overwrite |-> FALSE, noClobber |-> FALSE,
              dryRun |-> FALSE]
Idle == [pc |-> "idle", options |-> NoOptions, mtime |-> 0, print |-> NoPrint,
         offset |-> 0, handle |-> NoFile, hashed |-> <<>>]
NoSidecar == [by |-> NoTransfer, metadata |-> NoMetadata]

Init ==
  /\ \E c \in Contents : /\ source = [content |-> c, mtime |-> 1]
                         /\ versions = {c}
  /\ dest = NoFile
  /\ partial = [p \in Fingerprints |-> NoFile]
  /\ sidecar = [p \in Fingerprints |-> NoSidecar]
  /\ file = [f \in Files |-> <<>>]
  /\ xfer = [t \in Transfers |-> Idle]

-----------------------------------------------------------------------------
At(t, pc) == xfer[t].pc = pc
Goto(t, pc) == xfer' = [xfer EXCEPT ![t].pc = pc]
Return(t) == xfer' = [xfer EXCEPT ![t] = Idle]

PartialOf(t) == partial[xfer[t].print]
SidecarOf(t) == sidecar[xfer[t].print]
Expected(t)  == Metadata(xfer[t].print, xfer[t].mtime)

\* An inode with no name and no open handle is reclaimed.
Unused == {f \in Files : /\ f # dest
                         /\ \A p \in Fingerprints : f # partial[p]
                         /\ \A t \in Transfers : f # xfer[t].handle}

-----------------------------------------------------------------------------
(***************************************************************************)
(* The steps of downloadFile.                                              *)
(***************************************************************************)
\* Download rejects contradictory options.
Accepted(options) == ~(options.overwrite /\ options.noClobber)

\* downloadFile stats the source.
Begin(t, options) ==
  /\ At(t, "idle")
  /\ Accepted(options)
  /\ xfer' = [xfer EXCEPT ![t] =
       [Idle EXCEPT !.pc = "resolve", !.options = options, !.mtime = source.mtime,
                    !.print = [NoPrint EXCEPT !.size = Len(source.content)]]]
  /\ UNCHANGED <<source, dest, partial, sidecar, file, versions>>

\* Fault: overwriting removes the destination before anything was received.
ResolveRemoving(t) ==
  /\ At(t, "resolve")
  /\ dest = NoFile \/ xfer[t].options.overwrite
  /\ dest' = NoFile
  /\ Goto(t, "fingerprint")
  /\ UNCHANGED <<source, partial, sidecar, file, versions>>

\* resolveLocalDestination: an existing destination is skipped, or replaced later.
Resolve(t) ==
  /\ At(t, "resolve")
  /\ \/ dest = NoFile /\ Goto(t, "fingerprint")
     \/ dest # NoFile /\ xfer[t].options.noClobber /\ Return(t)
     \/ dest # NoFile /\ xfer[t].options.overwrite /\ Goto(t, "fingerprint")
  /\ UNCHANGED <<source, dest, partial, sidecar, file, versions>>

\* Fault: the fingerprint is the size alone.
TakeFingerprintSize(t) ==
  /\ At(t, "fingerprint")
  /\ IF xfer[t].options.dryRun THEN Return(t) ELSE Goto(t, "inspect")
  /\ UNCHANGED <<source, dest, partial, sidecar, file, versions>>

\* remotePrefixSHA256 reads the prefix after the stat.
TakeFingerprint(t) ==
  /\ At(t, "fingerprint")
  /\ \/ xfer[t].options.dryRun /\ Return(t)
     \/ /\ ~xfer[t].options.dryRun
        /\ xfer' = [xfer EXCEPT ![t].pc = "inspect",
             ![t].print.prefix = Prefix(source.content, Len(source.content))]
  /\ UNCHANGED <<source, dest, partial, sidecar, file, versions>>

\* prepareLocalPartial, from here to CreatePartial.
Inspect(t) ==
  /\ At(t, "inspect")
  /\ \/ PartialOf(t) = NoFile /\ Goto(t, "lone")
     \/ PartialOf(t) # NoFile /\ ~xfer[t].options.resume /\ Goto(t, "discard")
     \/ /\ PartialOf(t) # NoFile /\ xfer[t].options.resume
        /\ xfer' = [xfer EXCEPT ![t].pc = "compatible",
                                ![t].offset = Len(file[PartialOf(t)])]
  /\ UNCHANGED <<source, dest, partial, sidecar, file, versions>>

\* The metadata and the prefix agree with the source; nothing is written.
Resume(t) ==
  LET size == xfer[t].offset
  IN /\ At(t, "compatible")
     /\ ResumeCompatible(Expected(t), SidecarOf(t).metadata, size)
     /\ PartialOf(t) # NoFile
     /\ Prefix(file[PartialOf(t)], size) = Prefix(source.content, size)
     /\ Goto(t, "open")
     /\ UNCHANGED <<source, dest, partial, sidecar, file, versions>>

Discard(t) ==
  /\ At(t, "discard")
  /\ PartialOf(t) # NoFile
  /\ partial' = [partial EXCEPT ![xfer[t].print] = NoFile]
  /\ Goto(t, "discardSidecar")
  /\ UNCHANGED <<source, dest, sidecar, file, versions>>

\* An error of this removal is ignored.
DiscardSidecar(t) ==
  /\ At(t, "discardSidecar")
  /\ \/ sidecar' = [sidecar EXCEPT ![xfer[t].print] = NoSidecar]
     \/ UNCHANGED sidecar
  /\ Goto(t, "describe")
  /\ UNCHANGED <<source, dest, partial, file, versions>>

\* Metadata without a partial file is stale.
DiscardLoneSidecar(t) ==
  /\ At(t, "lone")
  /\ sidecar' = [sidecar EXCEPT ![xfer[t].print] = NoSidecar]
  /\ Goto(t, "describe")
  /\ UNCHANGED <<source, dest, partial, file, versions>>

\* writeLocalMetadata creates the file exclusively and fills it.
CreateSidecar(t) ==
  /\ At(t, "describe")
  /\ SidecarOf(t) = NoSidecar
  /\ sidecar' = [sidecar EXCEPT ![xfer[t].print] = [NoSidecar EXCEPT !.by = t]]
  /\ Goto(t, "encode")
  /\ UNCHANGED <<source, dest, partial, file, versions>>

WriteSidecar(t) ==
  /\ At(t, "encode")
  /\ sidecar' = IF SidecarOf(t).by = t
                THEN [sidecar EXCEPT ![xfer[t].print].metadata = Expected(t)]
                ELSE sidecar
  /\ Goto(t, "create")
  /\ UNCHANGED <<source, dest, partial, file, versions>>

\* The partial file is created exclusively.
CreatePartial(t) ==
  /\ At(t, "create")
  /\ PartialOf(t) = NoFile
  /\ \E f \in Unused :
       /\ file' = [file EXCEPT ![f] = <<>>]
       /\ partial' = [partial EXCEPT ![xfer[t].print] = f]
  /\ Goto(t, "open")
  /\ UNCHANGED <<source, dest, sidecar, versions>>

\* download: the remote reader cannot seek, so the resumed part is read from
\* the source again and hashed; then the partial file is opened.
Open(t) ==
  /\ At(t, "open")
  /\ xfer[t].offset <= Len(source.content)
  /\ PartialOf(t) # NoFile
  /\ xfer' = [xfer EXCEPT ![t].pc = "receive", ![t].handle = PartialOf(t),
                          ![t].hashed = SubSeq(source.content, 1, xfer[t].offset)]
  /\ UNCHANGED <<source, dest, partial, sidecar, file, versions>>

ReceiveBlock(t) ==
  LET n == Len(xfer[t].hashed) + 1
  IN /\ At(t, "receive")
     /\ n <= Len(source.content)
     /\ file' = [file EXCEPT ![xfer[t].handle] = Written(@, n, source.content[n])]
     /\ xfer' = [xfer EXCEPT ![t].hashed = Append(@, source.content[n])]
     /\ UNCHANGED <<source, dest, partial, sidecar, versions>>

ReceiveEnds(t) ==
  /\ At(t, "receive")
  /\ Len(xfer[t].hashed) >= Len(source.content)
  /\ xfer' = [xfer EXCEPT ![t].pc = "recheck", ![t].handle = NoFile]
  /\ UNCHANGED <<source, dest, partial, sidecar, file, versions>>

\* The source still has the size and the modification time of the first stat.
Recheck(t) ==
  /\ At(t, "recheck")
  /\ Len(source.content) = xfer[t].print.size
  /\ source.mtime = xfer[t].mtime
  /\ Goto(t, "verify")
  /\ UNCHANGED <<source, dest, partial, sidecar, file, versions>>

\* The digest of what was received equals that of the source as it is now, by
\* the digest the server computes or by reading it once more.
Verify(t) ==
  /\ At(t, "verify")
  /\ source.content = xfer[t].hashed
  /\ Goto(t, IF xfer[t].options.overwrite THEN "clear" ELSE "rename")
  /\ UNCHANGED <<source, dest, partial, sidecar, file, versions>>

\* Overwrite removes an existing destination just before the rename.
Clear(t) ==
  /\ At(t, "clear")
  /\ dest' = NoFile
  /\ Goto(t, "rename")
  /\ UNCHANGED <<source, partial, sidecar, file, versions>>

\* os.Rename replaces whatever is at the destination by now.
Rename(t) ==
  /\ At(t, "rename")
  /\ PartialOf(t) # NoFile
  /\ dest' = PartialOf(t)
  /\ partial' = [partial EXCEPT ![xfer[t].print] = NoFile]
  /\ Goto(t, "cleanup")
  /\ UNCHANGED <<source, sidecar, file, versions>>

\* An error of this removal is ignored as well.
Cleanup(t) ==
  /\ At(t, "cleanup")
  /\ \/ sidecar' = [sidecar EXCEPT ![xfer[t].print] = NoSidecar]
     \/ UNCHANGED sidecar
  /\ Return(t)
  /\ UNCHANGED <<source, dest, partial, file, versions>>

\* Nothing syncs a partial file: when the machine fails, a block of it may not
\* be what was written although the file has its length.
Damaged(f) == {[file EXCEPT ![f][n] = Junk] : n \in 1..Len(file[f])}
MachineFails(t) == "decay" \in Environment /\ \A u \in Transfers \ {t} : At(u, "idle")
FilesAfter(t) ==
  {file} \cup UNION {Damaged(partial[p]) :
                       p \in {q \in Fingerprints : MachineFails(t) /\ partial[q] # NoFile}}

Stop(t) ==
  /\ ~At(t, "idle")
  /\ Return(t)
  /\ file' \in FilesAfter(t)
  /\ UNCHANGED <<source, dest, partial, sidecar, versions>>

-----------------------------------------------------------------------------
(***************************************************************************)
(* What happens beside the transfers.                                      *)
(***************************************************************************)
Edit ==
  /\ "edit" \in Environment
  /\ source.mtime < MaxTime
  /\ \E c \in Contents : /\ source' = [content |-> c, mtime |-> source.mtime + 1]
                         /\ versions' = versions \cup {c}
  /\ UNCHANGED <<dest, partial, sidecar, file, xfer>>

OthersCreate ==
  /\ "others" \in Environment
  /\ dest = NoFile
  /\ \E f \in Unused : dest' = f /\ file' = [file EXCEPT ![f] = Foreign]
  /\ UNCHANGED <<source, partial, sidecar, xfer, versions>>

OthersRemove ==
  /\ "others" \in Environment
  /\ dest # NoFile
  /\ dest' = NoFile
  /\ UNCHANGED <<source, partial, sidecar, file, xfer, versions>>

-----------------------------------------------------------------------------
Prepare(t) ==
  \/ \E options \in OptionSets : Begin(t, options)
  \/ Resolve(t) \/ TakeFingerprint(t) \/ Inspect(t) \/ Resume(t)
  \/ Discard(t) \/ DiscardSidecar(t) \/ DiscardLoneSidecar(t)
  \/ CreateSidecar(t) \/ WriteSidecar(t) \/ CreatePartial(t)

Receive(t) == Open(t) \/ ReceiveBlock(t) \/ ReceiveEnds(t)

Finalize(t) == Recheck(t) \/ Verify(t) \/ Clear(t) \/ Rename(t) \/ Cleanup(t)

Others == Edit \/ OthersCreate \/ OthersRemove

Next == (\E t \in Transfers : Prepare(t) \/ Receive(t) \/ Finalize(t) \/ Stop(t))
        \/ Others

Spec == Init /\ [][Next]_vars

-----------------------------------------------------------------------------
(***************************************************************************)
(* Properties.                                                             *)
(***************************************************************************)
FileOrNone == Files \cup {NoFile}
AllMetadata == [print : Fingerprints, mtime : 0..MaxTime] \cup {NoMetadata}

\* Every variable keeps the shape of the file or structure it stands for.
TypeOK ==
  /\ source \in [content : Contents, mtime : 1..MaxTime]
  /\ dest \in FileOrNone
  /\ partial \in [Fingerprints -> FileOrNone]
  /\ sidecar \in [Fingerprints -> [by : Transfers \cup {NoTransfer},
                                   metadata : AllMetadata]]
  /\ \A f \in Files : file[f] \in Seq(Blocks) \cup {Foreign}
  /\ \A t \in Transfers :
       /\ xfer[t].pc \in Phases
       /\ xfer[t].options \in OptionSets \cup {NoOptions}
       /\ xfer[t].pc \notin {"idle", "resolve", "fingerprint"}
            => xfer[t].print \in Fingerprints
       /\ xfer[t].handle \in FileOrNone
  /\ versions \in SUBSET Contents

\* The destination never shows part of a version or a mix of two.
Published == INSTANCE Publication WITH
  Absent    <- NoFile,
  Replacing <- TRUE,
  final     <- IF dest = NoFile THEN NoFile ELSE file[dest]
ImplementsPublication == Published!Spec

\* At the rename the destination has the bytes that were hashed as they
\* arrived, although the partial file is not read again.
DestinationMatches ==
  [][\A t \in Transfers : xfer[t].pc = "rename" /\ xfer'[t].pc = "cleanup"
       => file[dest'] = xfer[t].hashed]_vars

\* Only the end of an attempt takes a destination away, and only when one whole
\* version of the source is ready to take its place.
ReplacementReady ==
  [][dest # NoFile /\ dest' # dest /\ ~OthersRemove =>
       \E t \in Transfers : /\ xfer[t].pc \in {"clear", "rename"}
                            /\ PartialOf(t) # NoFile
                            /\ file[PartialOf(t)] \in versions]_vars
=============================================================================
