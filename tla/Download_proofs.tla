--------------------------- MODULE Download_proofs ---------------------------
(***************************************************************************)
(* Proofs about Download for every set of transfers, inodes and contents   *)
(* and every set of options.                                               *)
(*                                                                         *)
(* Type correctness holds for any number of transfers and every            *)
(* Environment.  The other theorems are about one transfer at a time on a  *)
(* machine that keeps what was written: the run download_damaged_partial   *)
(* shows what becomes of the destination when it does not.                 *)
(***************************************************************************)
EXTENDS Download, SequenceTheorems, TLAPS

USE DownloadAssumption

\* What an attempt knows of the fingerprint at each place.
Started == {[size |-> Len(c), prefix |-> <<>>] : c \in Contents}
PrintsAt(pc) ==
  IF pc = "idle" THEN {NoPrint}
  ELSE IF pc \in {"resolve", "fingerprint"} THEN Started ELSE Fingerprints

Entries == [pc : Phases, options : OptionSets \cup {NoOptions}, mtime : 0..MaxTime,
            print : Fingerprints \cup Started \cup {NoPrint}, offset : Nat,
            handle : FileOrNone, hashed : Seq(SourceBlocks)]

\* The partial file is open while it is received, and at no other place.
Attempts == {e \in Entries : /\ e.print \in PrintsAt(e.pc)
                             /\ e.pc = "receive" <=> e.handle # NoFile}

Stored == Seq(Blocks) \cup {Foreign}
Sidecars == [by : Transfers \cup {NoTransfer}, metadata : AllMetadata]

Shape ==
  /\ source \in [content : Contents, mtime : 1..MaxTime]
  /\ dest \in FileOrNone
  /\ partial \in [Fingerprints -> FileOrNone]
  /\ sidecar \in [Fingerprints -> Sidecars]
  /\ file \in [Files -> Stored]
  /\ xfer \in [Transfers -> Attempts]
  /\ versions \in SUBSET Contents

\* Nobody but the transfers writes to a partial file or through a handle.
Ours(f) == f # NoFile => file[f] \in Seq(Blocks)
OursAreBlocks == /\ \A p \in Fingerprints : Ours(partial[p])
                 /\ \A t \in Transfers : Ours(xfer[t].handle)

TypeInv == Shape /\ OursAreBlocks
-----------------------------------------------------------------------------
(* Contents *)

LEMMA ContentFacts ==
  ASSUME NEW c \in Contents
  PROVE  /\ c \in Seq(SourceBlocks) /\ Len(c) \in Nat /\ Len(c) > 0
         /\ \A i \in 1..Len(c) : c[i] \in SourceBlocks
<1>1. c \in Seq(SourceBlocks) /\ Len(c) > 0
  OBVIOUS
<1> QED
  BY <1>1, ElementOfSeq, LenProperties

\* The part of a source that is hashed again when a transfer resumes.
LEMMA SubSeqFacts ==
  ASSUME NEW S, NEW c \in Seq(S), NEW n \in Nat, n <= Len(c)
  PROVE  /\ SubSeq(c, 1, n) \in Seq(S) /\ Len(SubSeq(c, 1, n)) = n
         /\ \A i \in 1..n : SubSeq(c, 1, n)[i] = c[i]
  BY SubSeqProperties, \A i \in 1..n : c[i] \in S

LEMMA PrintFacts ==
  ASSUME NEW S, NEW P, NEW e \in [size : S, prefix : P], NEW q
  PROVE  /\ [e EXCEPT !.size = q] = [size |-> q, prefix |-> e.prefix]
         /\ [e EXCEPT !.prefix = q] = [size |-> e.size, prefix |-> q]
<1>1. [e EXCEPT !.size = q] = [size |-> q, prefix |-> e.prefix]
  OBVIOUS
<1>2. ASSUME NEW T, NEW g \in [size : S, prefix : T]
      PROVE  g = [size |-> g.size, prefix |-> g.prefix]
  OBVIOUS
<1>3. /\ [e EXCEPT !.prefix = q] \in [size : S, prefix : {q}]
      /\ [e EXCEPT !.prefix = q].size = e.size
      /\ [e EXCEPT !.prefix = q].prefix = q
  OBVIOUS
<1> QED
  BY <1>1, <1>2, <1>3

\* The stat gives the size, the read of the prefix completes the fingerprint.
LEMMA StartedFacts ==
  ASSUME NEW c \in Contents
  PROVE  [NoPrint EXCEPT !.size = Len(c)] \in Started
<1>1. NoPrint \in [size : {0}, prefix : {<<>>}] /\ NoPrint.prefix = <<>>
  BY DEF NoPrint
<1>2. [NoPrint EXCEPT !.size = Len(c)] = [size |-> Len(c), prefix |-> <<>>]
  BY <1>1, PrintFacts
<1> QED
  BY <1>2 DEF Started

LEMMA FingerprintFacts ==
  ASSUME NEW e \in Started, NEW d \in Contents
  PROVE  [e EXCEPT !.prefix = Prefix(d, Len(d))] \in Fingerprints
<1>1. PICK c \in Contents : e = [size |-> Len(c), prefix |-> <<>>]
  BY DEF Started
<1>2. e \in [size : {Len(c)}, prefix : {<<>>}]
  BY <1>1
<1>3. [e EXCEPT !.prefix = Prefix(d, Len(d))]
        = [size |-> Len(c), prefix |-> Prefix(d, Len(d))]
  BY <1>1, <1>2, PrintFacts
<1> QED
  BY <1>3 DEF Fingerprints

\* Writing a block keeps a file a sequence of blocks.
LEMMA WrittenFacts ==
  ASSUME NEW c \in Seq(Blocks), NEW n \in Nat \ {0}, NEW b \in Blocks
  PROVE  /\ Written(c, n, b) \in Seq(Blocks)
         /\ n = Len(c) + 1 => Written(c, n, b) = Append(c, b)
<1>1. Len(c) \in Nat
  OBVIOUS
<1>2. CASE n <= Len(c)
  BY <1>1, <1>2, ExceptSeq DEF Written
<1>3. CASE ~(n <= Len(c))
  BY <1>1, <1>3, AppendProperties DEF Written
<1> QED
  BY <1>1, <1>2, <1>3
-----------------------------------------------------------------------------
(* Moves of one attempt *)

\* An entry is an attempt before, at and after the fingerprint.
LEMMA StartedAttempt ==
  ASSUME NEW e \in Entries, e.pc = "resolve", e.print \in Started, e.handle = NoFile
  PROVE  e \in Attempts
  BY DEF Attempts, PrintsAt

LEMMA LateAttempt ==
  ASSUME NEW e \in Entries, e.pc \notin {"idle", "resolve", "fingerprint"},
         e.print \in Fingerprints, e.pc = "receive" <=> e.handle # NoFile
  PROVE  e \in Attempts
  BY DEF Attempts, PrintsAt

\* What a step that only moves an attempt on keeps of it.
Moved(t, pc) ==
  /\ xfer' \in [Transfers -> Attempts]
  /\ \A u \in Transfers \ {t} : xfer'[u] = xfer[u]
  /\ xfer'[t].pc = pc
  /\ xfer'[t].options = xfer[t].options /\ xfer'[t].mtime = xfer[t].mtime
  /\ xfer'[t].print = xfer[t].print /\ xfer'[t].offset = xfer[t].offset
  /\ xfer'[t].handle = xfer[t].handle /\ xfer'[t].hashed = xfer[t].hashed

Early == {"idle", "resolve", "fingerprint"}

LEMMA GotoMoves ==
  ASSUME NEW t \in Transfers, NEW pc \in Phases \ {"receive"},
         xfer \in [Transfers -> Attempts], Goto(t, pc), xfer[t].pc # "receive",
         xfer[t].print \in PrintsAt(pc)
  PROVE  Moved(t, pc)
<1> DEFINE e == [xfer[t] EXCEPT !.pc = pc]
<1>1. xfer' = [xfer EXCEPT ![t] = e]
  BY DEF Goto
<1>2. xfer[t] \in Entries /\ xfer[t].handle = NoFile
  BY DEF Attempts
<1>3. e \in Entries /\ e.pc = pc /\ e.print = xfer[t].print /\ e.handle = NoFile
  BY <1>2 DEF Entries
<1>4. e \in Attempts
  BY <1>3 DEF Attempts
<1> QED
  BY <1>1, <1>2, <1>3, <1>4 DEF Moved, Entries

\* After the fingerprint is taken, every place knows it.
LEMMA LateMoves ==
  ASSUME NEW t \in Transfers, NEW pc \in Phases \ (Early \cup {"receive"}),
         xfer \in [Transfers -> Attempts], Goto(t, pc),
         xfer[t].pc \notin Early \cup {"receive"}
  PROVE  Moved(t, pc) /\ xfer[t].print \in Fingerprints
<1>1. xfer[t].print \in Fingerprints
  BY DEF Attempts, PrintsAt, Early
<1>2. PrintsAt(pc) = Fingerprints
  BY DEF PrintsAt, Early
<1> QED
  BY <1>1, <1>2, GotoMoves DEF Early

LEMMA IdleFacts == Idle \in Attempts /\ Idle.pc = "idle" /\ Idle.handle = NoFile
<1>1. Idle \in Entries
  BY EmptySeq DEF Idle, Entries, Phases, FileOrNone
<1> QED
  BY <1>1 DEF Idle, Attempts, PrintsAt

LEMMA ReturnMoves ==
  ASSUME NEW t \in Transfers, xfer \in [Transfers -> Attempts], Return(t)
  PROVE  /\ xfer' \in [Transfers -> Attempts] /\ xfer'[t] = Idle
         /\ \A u \in Transfers \ {t} : xfer'[u] = xfer[u]
  BY IdleFacts DEF Return

LEMMA MovedHandles ==
  ASSUME NEW t \in Transfers, NEW pc, Moved(t, pc)
  PROVE  /\ xfer' \in [Transfers -> Attempts]
         /\ \A u \in Transfers : xfer'[u].handle = xfer[u].handle
  BY DEF Moved

LEMMA ReturnHandles ==
  ASSUME NEW t \in Transfers, xfer \in [Transfers -> Attempts], Return(t)
  PROVE  /\ xfer' \in [Transfers -> Attempts]
         /\ \A u \in Transfers : xfer'[u].handle \in {xfer[u].handle, NoFile}
  BY ReturnMoves, IdleFacts

\* Where the steps that only move an attempt on take it.
LEMMA GotoSteps ==
  ASSUME TypeInv, NEW t \in Transfers
  PROVE  /\ Resume(t) => Moved(t, "open")
         /\ Discard(t) => Moved(t, "discardSidecar")
         /\ DiscardSidecar(t) => Moved(t, "describe")
         /\ DiscardLoneSidecar(t) => Moved(t, "describe")
         /\ CreateSidecar(t) => Moved(t, "encode")
         /\ WriteSidecar(t) => Moved(t, "create")
         /\ CreatePartial(t) => Moved(t, "open")
         /\ Recheck(t) => Moved(t, "verify")
         /\ Clear(t) => Moved(t, "rename")
         /\ Rename(t) => Moved(t, "cleanup")
         /\ Verify(t)
              => Moved(t, IF xfer[t].options.overwrite THEN "clear" ELSE "rename")
<1>1. xfer \in [Transfers -> Attempts]
  BY DEF TypeInv, Shape
<1>2. ASSUME NEW pc \in Phases \ (Early \cup {"receive"}), Goto(t, pc),
             xfer[t].pc \notin Early \cup {"receive"}
      PROVE  Moved(t, pc)
  BY <1>1, <1>2, LateMoves
<1> USE <1>2 DEF At, Phases, Early
<1>3. Resume(t) => Moved(t, "open")
  BY DEF Resume
<1>4. Discard(t) => Moved(t, "discardSidecar")
  BY DEF Discard
<1>5. DiscardSidecar(t) => Moved(t, "describe")
  BY DEF DiscardSidecar
<1>6. DiscardLoneSidecar(t) => Moved(t, "describe")
  BY DEF DiscardLoneSidecar
<1>7. CreateSidecar(t) => Moved(t, "encode")
  BY DEF CreateSidecar
<1>8. WriteSidecar(t) => Moved(t, "create")
  BY DEF WriteSidecar
<1>9. CreatePartial(t) => Moved(t, "open")
  BY DEF CreatePartial
<1>10. Recheck(t) => Moved(t, "verify")
  BY DEF Recheck
<1>11. Clear(t) => Moved(t, "rename")
  BY DEF Clear
<1>12. Rename(t) => Moved(t, "cleanup")
  BY DEF Rename
<1>13. Verify(t)
         => Moved(t, IF xfer[t].options.overwrite THEN "clear" ELSE "rename")
  BY DEF Verify
<1> QED
  BY <1>3, <1>4, <1>5, <1>6, <1>7, <1>8, <1>9, <1>10, <1>11, <1>12, <1>13

LEMMA BeginMoves ==
  ASSUME TypeInv, NEW t \in Transfers, NEW options \in OptionSets,
         Begin(t, options)
  PROVE  /\ xfer' \in [Transfers -> Attempts]
         /\ \A u \in Transfers \ {t} : xfer'[u] = xfer[u]
         /\ xfer'[t].pc = "resolve" /\ xfer'[t].mtime = source.mtime
         /\ xfer'[t].offset = 0 /\ xfer'[t].handle = NoFile
<1> DEFINE begun == [NoPrint EXCEPT !.size = Len(source.content)]
           e == [Idle EXCEPT !.pc = "resolve", !.options = options,
                             !.mtime = source.mtime, !.print = begun]
<1>1. begun \in Started /\ source.mtime \in 0..MaxTime
  BY StartedFacts DEF TypeInv, Shape
<1>2. xfer' = [xfer EXCEPT ![t] = e]
  BY DEF Begin
<1> HIDE DEF begun
<1>3. /\ e \in Entries /\ e.pc = "resolve" /\ e.print = begun /\ e.handle = NoFile
      /\ e.mtime = source.mtime /\ e.offset = 0
  BY <1>1, EmptySeq DEF Entries, Idle, Phases, FileOrNone
<1>4. e \in Attempts
  <2> HIDE DEF e
  <2> QED
    BY <1>1, <1>3, StartedAttempt
<1> QED
  BY <1>2, <1>3, <1>4 DEF TypeInv, Shape

LEMMA ResolveMoves ==
  ASSUME TypeInv, NEW t \in Transfers, Resolve(t)
  PROVE  \/ Moved(t, "fingerprint")
         \/ /\ xfer' \in [Transfers -> Attempts] /\ xfer'[t] = Idle
            /\ \A u \in Transfers \ {t} : xfer'[u] = xfer[u]
<1>1. xfer \in [Transfers -> Attempts]
  BY DEF TypeInv, Shape
<1>2. xfer[t].pc = "resolve" /\ xfer[t].print \in PrintsAt("fingerprint")
  BY <1>1 DEF Resolve, At, Attempts, PrintsAt
<1>3. Goto(t, "fingerprint") => Moved(t, "fingerprint")
  BY <1>1, <1>2, GotoMoves DEF Phases
<1> QED
  BY <1>1, <1>3, ReturnMoves DEF Resolve

LEMMA FingerprintMoves ==
  ASSUME TypeInv, NEW t \in Transfers, TakeFingerprint(t)
  PROVE  /\ xfer' \in [Transfers -> Attempts]
         /\ \A u \in Transfers \ {t} : xfer'[u] = xfer[u]
         /\ \/ xfer'[t] = Idle
            \/ /\ xfer'[t].pc = "inspect"
               /\ xfer'[t].mtime = xfer[t].mtime
               /\ xfer'[t].offset = xfer[t].offset
               /\ xfer'[t].handle = NoFile
<1>1. CASE Return(t)
  BY <1>1, ReturnMoves DEF TypeInv, Shape
<1>2. CASE ~xfer[t].options.dryRun
  <2> DEFINE taken == [xfer[t].print EXCEPT !.prefix =
                         Prefix(source.content, Len(source.content))]
             e == [xfer[t] EXCEPT !.pc = "inspect", !.print = taken]
  <2>1. /\ xfer[t] \in Entries /\ xfer[t].handle = NoFile
        /\ xfer[t].print \in Started
    BY DEF TypeInv, Shape, Attempts, PrintsAt, TakeFingerprint, At
  <2>2. taken \in Fingerprints
    BY <2>1, FingerprintFacts DEF TypeInv, Shape
  <2>3. xfer' = [xfer EXCEPT ![t].pc = "inspect", ![t].print.prefix =
                   Prefix(source.content, Len(source.content))]
    BY <1>2 DEF TakeFingerprint
  <2>4. xfer' = [xfer EXCEPT ![t] = e]
    BY <2>1, <2>3 DEF TypeInv, Shape, Entries
  <2> HIDE DEF taken
  <2>5. /\ e \in Entries /\ e.pc = "inspect" /\ e.print = taken
        /\ e.handle = NoFile /\ e.mtime = xfer[t].mtime /\ e.offset = xfer[t].offset
    BY <2>1, <2>2 DEF Entries, Phases
  <2>6. e \in Attempts
    <3> HIDE DEF e
    <3> QED
      BY <2>2, <2>5, LateAttempt
  <2> QED
    BY <2>4, <2>5, <2>6 DEF TypeInv, Shape
<1> QED
  BY <1>1, <1>2 DEF TakeFingerprint

\* The three ways on from the look at the partial file.
LEMMA InspectMoves ==
  ASSUME TypeInv, NEW t \in Transfers, Inspect(t)
  PROVE  \/ Moved(t, "lone") /\ PartialOf(t) = NoFile
         \/ Moved(t, "discard") /\ PartialOf(t) # NoFile
         \/ /\ xfer' \in [Transfers -> Attempts]
            /\ \A u \in Transfers \ {t} : xfer'[u] = xfer[u]
            /\ xfer'[t].pc = "compatible" /\ PartialOf(t) # NoFile
            /\ xfer'[t].mtime = xfer[t].mtime /\ xfer'[t].print = xfer[t].print
            /\ xfer'[t].handle = NoFile
            /\ xfer'[t].offset = Len(file[PartialOf(t)])
<1>1. xfer[t].pc = "inspect" /\ xfer \in [Transfers -> Attempts]
  BY DEF Inspect, At, TypeInv, Shape
<1>2. ASSUME NEW pc \in {"lone", "discard"}, Goto(t, pc)
      PROVE  Moved(t, pc)
  BY <1>1, <1>2, LateMoves DEF Phases, Early
<1>3. CASE /\ PartialOf(t) # NoFile /\ xfer[t].options.resume
           /\ xfer' = [xfer EXCEPT ![t].pc = "compatible",
                                   ![t].offset = Len(file[PartialOf(t)])]
  <2> DEFINE size == Len(file[PartialOf(t)])
             e == [xfer[t] EXCEPT !.pc = "compatible", !.offset = size]
  <2>1. /\ xfer[t] \in Entries /\ xfer[t].handle = NoFile
        /\ xfer[t].print \in Fingerprints
    BY <1>1 DEF Attempts, PrintsAt
  <2>2. size \in Nat
    BY <1>3, <2>1 DEF TypeInv, OursAreBlocks, Ours, PartialOf
  <2>3. xfer' = [xfer EXCEPT ![t] = e]
    BY <1>3, <2>1 DEF TypeInv, Shape
  <2> HIDE DEF size
  <2>4. /\ e \in Entries /\ e.pc = "compatible" /\ e.print = xfer[t].print
        /\ e.handle = NoFile /\ e.mtime = xfer[t].mtime /\ e.offset = size
    BY <2>1, <2>2 DEF Entries, Phases
  <2>5. e \in Attempts
    <3> HIDE DEF e
    <3> QED
      BY <2>1, <2>4, LateAttempt
  <2> QED
    BY <1>1, <1>3, <2>3, <2>4, <2>5 DEF size
<1> QED
  BY <1>2, <1>3 DEF Inspect

LEMMA OpenMoves ==
  ASSUME TypeInv, NEW t \in Transfers, Open(t)
  PROVE  /\ xfer' \in [Transfers -> Attempts]
         /\ \A u \in Transfers \ {t} : xfer'[u] = xfer[u]
         /\ xfer[t].print \in Fingerprints
         /\ xfer'[t].pc = "receive" /\ xfer'[t].handle = PartialOf(t)
         /\ xfer'[t].mtime = xfer[t].mtime /\ xfer'[t].print = xfer[t].print
         /\ xfer'[t].hashed = SubSeq(source.content, 1, xfer[t].offset)
<1> DEFINE part == SubSeq(source.content, 1, xfer[t].offset)
           e == [xfer[t] EXCEPT !.pc = "receive", !.handle = PartialOf(t), !.hashed = part]
<1>1. /\ xfer[t] \in Entries /\ xfer[t].print \in Fingerprints
      /\ xfer[t].offset \in Nat /\ PartialOf(t) \in Files
  BY DEF TypeInv, Shape, Attempts, Entries, PrintsAt, Open, At, PartialOf, FileOrNone
<1>2. part \in Seq(SourceBlocks)
  BY <1>1, ContentFacts, SubSeqFacts DEF Open, TypeInv, Shape
<1>3. xfer' = [xfer EXCEPT ![t] = e]
  BY <1>1 DEF Open, TypeInv, Shape
<1> HIDE DEF part
<1>4. /\ e \in Entries /\ e.pc = "receive" /\ e.print = xfer[t].print
      /\ e.handle = PartialOf(t) /\ e.mtime = xfer[t].mtime /\ e.hashed = part
  BY <1>1, <1>2 DEF Entries, Phases, FileOrNone
<1>5. e \in Attempts
  <2> HIDE DEF e
  <2> QED
    BY <1>1, <1>4, LateAttempt
<1> QED
  BY <1>1, <1>3, <1>4, <1>5 DEF part, TypeInv, Shape

LEMMA ReceiveMoves ==
  ASSUME TypeInv, NEW t \in Transfers, ReceiveBlock(t),
         NEW n, n = Len(xfer[t].hashed) + 1
  PROVE  /\ xfer' \in [Transfers -> Attempts]
         /\ \A u \in Transfers \ {t} : xfer'[u] = xfer[u]
         /\ xfer[t].handle \in Files /\ xfer[t].print \in Fingerprints
         /\ n \in Nat \ {0} /\ source.content[n] \in SourceBlocks
         /\ xfer'[t].pc = "receive" /\ xfer'[t].handle = xfer[t].handle
         /\ xfer'[t].mtime = xfer[t].mtime /\ xfer'[t].print = xfer[t].print
         /\ xfer'[t].hashed = Append(xfer[t].hashed, source.content[n])
<1> DEFINE more == Append(xfer[t].hashed, source.content[n])
           e == [xfer[t] EXCEPT !.hashed = more]
<1>1. /\ xfer[t] \in Entries /\ xfer[t].print \in Fingerprints /\ xfer[t].pc = "receive"
      /\ xfer[t].handle \in Files /\ xfer[t].hashed \in Seq(SourceBlocks)
  BY DEF TypeInv, Shape, Attempts, Entries, PrintsAt, ReceiveBlock, At, FileOrNone
<1>2. n \in Nat \ {0} /\ n <= Len(source.content)
  BY <1>1 DEF ReceiveBlock
<1>3. source.content[n] \in SourceBlocks
  BY <1>2, ContentFacts DEF TypeInv, Shape
<1>4. more \in Seq(SourceBlocks)
  BY <1>1, <1>3
<1>5. xfer' = [xfer EXCEPT ![t] = e]
  BY <1>1 DEF ReceiveBlock, TypeInv, Shape
<1> HIDE DEF more
<1>6. /\ e \in Entries /\ e.pc = "receive" /\ e.print = xfer[t].print
      /\ e.handle = xfer[t].handle /\ e.mtime = xfer[t].mtime /\ e.hashed = more
  BY <1>1, <1>4 DEF Entries
<1>7. e \in Attempts
  <2> HIDE DEF e
  <2> QED
    BY <1>1, <1>6, LateAttempt
<1> QED
  BY <1>1, <1>2, <1>3, <1>5, <1>6, <1>7 DEF more, TypeInv, Shape

LEMMA ReceiveEndMoves ==
  ASSUME TypeInv, NEW t \in Transfers, ReceiveEnds(t)
  PROVE  /\ xfer' \in [Transfers -> Attempts]
         /\ \A u \in Transfers \ {t} : xfer'[u] = xfer[u]
         /\ xfer[t].print \in Fingerprints
         /\ xfer'[t].pc = "recheck" /\ xfer'[t].handle = NoFile
         /\ xfer'[t].mtime = xfer[t].mtime /\ xfer'[t].print = xfer[t].print
         /\ xfer'[t].hashed = xfer[t].hashed
<1> DEFINE e == [xfer[t] EXCEPT !.pc = "recheck", !.handle = NoFile]
<1>1. xfer[t] \in Entries /\ xfer[t].print \in Fingerprints
  BY DEF TypeInv, Shape, Attempts, PrintsAt, ReceiveEnds, At
<1>2. xfer' = [xfer EXCEPT ![t] = e]
  BY <1>1 DEF ReceiveEnds, TypeInv, Shape
<1>3. /\ e \in Entries /\ e.pc = "recheck" /\ e.print = xfer[t].print
      /\ e.handle = NoFile /\ e.mtime = xfer[t].mtime /\ e.hashed = xfer[t].hashed
  BY <1>1 DEF Entries, Phases, FileOrNone
<1>4. e \in Attempts
  <2> HIDE DEF e
  <2> QED
    BY <1>1, <1>3, LateAttempt
<1> QED
  BY <1>1, <1>2, <1>3, <1>4 DEF TypeInv, Shape
-----------------------------------------------------------------------------
(* Type correctness *)

LEMMA TypeInit == Init => TypeInv
<1> SUFFICES ASSUME Init PROVE TypeInv
  OBVIOUS
<1>1. PICK c \in Contents : source = [content |-> c, mtime |-> 1] /\ versions = {c}
  BY DEF Init
<1>2. /\ source \in [content : Contents, mtime : 1..MaxTime]
      /\ versions \in SUBSET Contents
  BY <1>1
<1>3. NoSidecar \in Sidecars
  BY DEF NoSidecar, Sidecars, AllMetadata
<1>4. <<>> \in Stored
  BY EmptySeq DEF Stored
<1>5. Shape
  BY <1>2, <1>3, <1>4, IdleFacts DEF Init, Shape, FileOrNone
<1>6. OursAreBlocks
  BY IdleFacts DEF Init, OursAreBlocks, Ours
<1> QED
  BY <1>5, <1>6 DEF TypeInv

\* A step that writes to no inode and opens none.
LEMMA TypeKept ==
  ASSUME TypeInv, UNCHANGED <<source, file, versions>>,
         xfer' \in [Transfers -> Attempts],
         \A u \in Transfers : xfer'[u].handle \in {xfer[u].handle, NoFile},
         sidecar' \in [Fingerprints -> Sidecars], dest' \in FileOrNone,
         partial' \in [Fingerprints -> FileOrNone],
         \A p \in Fingerprints : partial'[p] \in {partial[p], NoFile}
  PROVE  TypeInv'
<1>1. Shape'
  BY DEF TypeInv, Shape
<1>2. OursAreBlocks'
  BY DEF TypeInv, OursAreBlocks, Ours
<1> QED
  BY <1>1, <1>2 DEF TypeInv

\* A step that writes a content to one inode.
LEMMA TypeWritten ==
  ASSUME TypeInv, UNCHANGED <<source, sidecar, versions>>,
         NEW f \in Files, NEW s \in Stored, file' = [file EXCEPT ![f] = s],
         xfer' \in [Transfers -> Attempts],
         \A u \in Transfers : xfer'[u].handle \in {xfer[u].handle, NoFile},
         dest' \in FileOrNone, partial' \in [Fingerprints -> FileOrNone],
         \A p \in Fingerprints : partial'[p] \in {partial[p], f},
         \/ s \in Seq(Blocks)
         \/ f \in Unused /\ partial' = partial
  PROVE  TypeInv'
<1>1. Shape'
  BY DEF TypeInv, Shape
<1>2. \A g \in Files : file'[g] = IF g = f THEN s ELSE file[g]
  BY DEF TypeInv, Shape
<1>3. ASSUME NEW p \in Fingerprints, partial'[p] # NoFile
      PROVE  file'[partial'[p]] \in Seq(Blocks)
  BY <1>2, <1>3 DEF TypeInv, Shape, OursAreBlocks, Ours, FileOrNone, Unused
<1>4. ASSUME NEW u \in Transfers, xfer'[u].handle # NoFile
      PROVE  file'[xfer'[u].handle] \in Seq(Blocks)
  <2>1. xfer[u].handle \in Files
    BY <1>4 DEF TypeInv, Shape, Attempts, Entries, FileOrNone
  <2> QED
    BY <1>2, <1>4, <2>1 DEF TypeInv, OursAreBlocks, Ours, Unused
<1> QED
  BY <1>1, <1>3, <1>4 DEF TypeInv, OursAreBlocks, Ours

LEMMA SidecarFacts ==
  /\ NoSidecar \in Sidecars
  /\ \A t \in Transfers : [NoSidecar EXCEPT !.by = t] \in Sidecars
  /\ \A s \in Sidecars, m \in AllMetadata : [s EXCEPT !.metadata = m] \in Sidecars
  BY DEF NoSidecar, Sidecars, AllMetadata

LEMMA ExpectedFacts ==
  ASSUME TypeInv, NEW t \in Transfers, xfer[t].pc \notin Early
  PROVE  /\ xfer[t].print \in Fingerprints
         /\ Expected(t) \in [print : Fingerprints, mtime : 0..MaxTime]
         /\ Expected(t) # NoMetadata
         /\ Expected(t).mtime = xfer[t].mtime
<1>1. xfer[t].print \in Fingerprints /\ xfer[t].mtime \in 0..MaxTime
  BY DEF TypeInv, Shape, Attempts, Entries, PrintsAt, Early
<1> QED
  BY <1>1, MetadataAssumption DEF Expected, Metadata

\* The steps that move an attempt on and change nothing else.
LEMMA MoveType ==
  ASSUME TypeInv, NEW t \in Transfers,
         \/ \E options \in OptionSets : Begin(t, options)
         \/ Resolve(t) \/ TakeFingerprint(t) \/ Inspect(t) \/ Resume(t)
         \/ ReceiveEnds(t) \/ Recheck(t) \/ Verify(t)
  PROVE  TypeInv'
<1>1. /\ xfer \in [Transfers -> Attempts] /\ sidecar \in [Fingerprints -> Sidecars]
      /\ dest \in FileOrNone /\ partial \in [Fingerprints -> FileOrNone]
  BY DEF TypeInv, Shape
<1>2. /\ xfer' \in [Transfers -> Attempts]
      /\ \A u \in Transfers : xfer'[u].handle \in {xfer[u].handle, NoFile}
  <2>1. CASE \E options \in OptionSets : Begin(t, options)
    BY <2>1, BeginMoves
  <2>2. CASE Resolve(t)
    BY <2>2, ResolveMoves, MovedHandles, IdleFacts
  <2>3. CASE TakeFingerprint(t)
    BY <2>3, FingerprintMoves, IdleFacts
  <2>4. CASE Inspect(t)
    BY <2>4, InspectMoves, MovedHandles
  <2>5. CASE Resume(t)
    BY <2>5, GotoSteps, MovedHandles
  <2>6. CASE ReceiveEnds(t)
    BY <2>6, ReceiveEndMoves
  <2>7. CASE Recheck(t)
    BY <2>7, GotoSteps, MovedHandles
  <2>8. CASE Verify(t)
    BY <2>8, GotoSteps, MovedHandles
  <2> QED
    BY <2>1, <2>2, <2>3, <2>4, <2>5, <2>6, <2>7, <2>8
<1>3. UNCHANGED <<source, dest, partial, sidecar, file, versions>>
  BY DEF Begin, Resolve, TakeFingerprint, Inspect, Resume, ReceiveEnds, Recheck, Verify
<1> QED
  BY <1>1, <1>2, <1>3, TypeKept

\* The steps that change what a path leads to, and no file.
LEMMA NameType ==
  ASSUME TypeInv, NEW t \in Transfers,
         \/ Discard(t) \/ DiscardSidecar(t) \/ DiscardLoneSidecar(t)
         \/ CreateSidecar(t) \/ WriteSidecar(t) \/ Clear(t) \/ Rename(t) \/ Cleanup(t)
  PROVE  TypeInv'
<1>1. /\ xfer \in [Transfers -> Attempts] /\ sidecar \in [Fingerprints -> Sidecars]
      /\ dest \in FileOrNone /\ partial \in [Fingerprints -> FileOrNone]
      /\ NoFile \in FileOrNone
  BY DEF TypeInv, Shape, FileOrNone
<1>2. xfer[t].print \in Fingerprints
  BY ExpectedFacts DEF Discard, DiscardSidecar, DiscardLoneSidecar, CreateSidecar,
       WriteSidecar, Clear, Rename, Cleanup, At, Early
<1>3. /\ xfer' \in [Transfers -> Attempts]
      /\ \A u \in Transfers : xfer'[u].handle \in {xfer[u].handle, NoFile}
  <2>1. CASE Cleanup(t)
    BY <1>1, <2>1, ReturnHandles DEF Cleanup
  <2>2. CASE ~Cleanup(t)
    BY <2>2, GotoSteps, MovedHandles
  <2> QED
    BY <2>1, <2>2
<1>4. sidecar' \in [Fingerprints -> Sidecars]
  <2>1. CASE WriteSidecar(t)
    <3>1. Expected(t) \in AllMetadata
      BY <2>1, ExpectedFacts DEF WriteSidecar, At, Early, AllMetadata
    <3>2. [SidecarOf(t) EXCEPT !.metadata = Expected(t)] \in Sidecars
      BY <1>1, <1>2, <3>1, SidecarFacts DEF SidecarOf
    <3> QED
      BY <1>1, <1>2, <2>1, <3>2 DEF WriteSidecar, SidecarOf
  <2>2. CASE ~WriteSidecar(t)
    BY <1>1, <1>2, <2>2, SidecarFacts DEF Discard, DiscardSidecar, DiscardLoneSidecar,
         CreateSidecar, Clear, Rename, Cleanup
  <2> QED
    BY <2>1, <2>2
<1>5. /\ dest' \in FileOrNone /\ partial' \in [Fingerprints -> FileOrNone]
      /\ \A p \in Fingerprints : partial'[p] \in {partial[p], NoFile}
      /\ UNCHANGED <<source, file, versions>>
  BY <1>1, <1>2 DEF Discard, DiscardSidecar, DiscardLoneSidecar, CreateSidecar,
       WriteSidecar, Clear, Rename, Cleanup, PartialOf
<1> QED
  BY <1>3, <1>4, <1>5, TypeKept

LEMMA CreatePartialType ==
  ASSUME TypeInv, NEW t \in Transfers, CreatePartial(t)
  PROVE  TypeInv'
<1>1. PICK f \in Unused : /\ file' = [file EXCEPT ![f] = <<>>]
                          /\ partial' = [partial EXCEPT ![xfer[t].print] = f]
  BY DEF CreatePartial
<1>2. <<>> \in Stored /\ <<>> \in Seq(Blocks) /\ f \in Files
  BY EmptySeq DEF Stored, Unused
<1>3. Moved(t, "open") /\ xfer[t].print \in Fingerprints
  BY GotoSteps, ExpectedFacts DEF CreatePartial, At, Early
<1>4. /\ dest' \in FileOrNone /\ partial' \in [Fingerprints -> FileOrNone]
      /\ \A p \in Fingerprints : partial'[p] \in {partial[p], f}
      /\ UNCHANGED <<source, sidecar, versions>>
  BY <1>1, <1>2, <1>3 DEF CreatePartial, TypeInv, Shape, FileOrNone
<1> QED
  BY <1>1, <1>2, <1>3, <1>4, MovedHandles, TypeWritten

LEMMA OpenType ==
  ASSUME TypeInv, NEW t \in Transfers, Open(t)
  PROVE  TypeInv'
<1>1. /\ xfer' \in [Transfers -> Attempts] /\ xfer'[t].handle = PartialOf(t)
      /\ \A u \in Transfers \ {t} : xfer'[u] = xfer[u]
      /\ xfer[t].print \in Fingerprints
      /\ UNCHANGED <<source, dest, partial, sidecar, file, versions>>
  BY OpenMoves DEF Open
<1>2. Shape'
  BY <1>1 DEF TypeInv, Shape
<1>3. Ours(PartialOf(t))
  BY <1>1 DEF TypeInv, OursAreBlocks, PartialOf
<1>4. OursAreBlocks'
  BY <1>1, <1>3 DEF TypeInv, OursAreBlocks, Ours
<1> QED
  BY <1>2, <1>4 DEF TypeInv

LEMMA ReceiveType ==
  ASSUME TypeInv, NEW t \in Transfers, ReceiveBlock(t)
  PROVE  TypeInv'
<1> DEFINE n == Len(xfer[t].hashed) + 1
           b == source.content[n]
           f == xfer[t].handle
           c == file[f]
           s == Written(c, n, b)
<1>1. /\ xfer' \in [Transfers -> Attempts] /\ xfer'[t].handle = f /\ f \in Files
      /\ \A u \in Transfers \ {t} : xfer'[u] = xfer[u]
      /\ n \in Nat \ {0} /\ b \in SourceBlocks
  BY ReceiveMoves
<1>2. file \in [Files -> Stored] /\ c \in Seq(Blocks)
  BY <1>1 DEF TypeInv, Shape, OursAreBlocks, Ours
<1>3. Written(c, n, b) \in Seq(Blocks)
  BY <1>1, <1>2, WrittenFacts DEF Blocks
<1>4. file' = [file EXCEPT ![f] = s]
  BY <1>1, <1>2 DEF ReceiveBlock
<1>5. s \in Stored /\ s \in Seq(Blocks)
  BY <1>1, <1>2, <1>3 DEF Stored
<1>6. /\ UNCHANGED <<source, dest, partial, sidecar, versions>>
      /\ dest \in FileOrNone /\ partial \in [Fingerprints -> FileOrNone]
  BY DEF ReceiveBlock, TypeInv, Shape
<1>7. \A u \in Transfers : xfer'[u].handle = xfer[u].handle
  BY <1>1
<1> HIDE DEF s, f, n, b, c
<1> QED
  BY <1>1, <1>4, <1>5, <1>6, <1>7, TypeWritten

LEMMA OthersType ==
  ASSUME TypeInv, Others
  PROVE  TypeInv'
<1> USE DEF TypeInv, Shape
<1>1. CASE Edit
  <2>1. Shape'
    BY <1>1 DEF Edit
  <2>2. OursAreBlocks'
    BY <1>1 DEF Edit, OursAreBlocks, Ours
  <2> QED
    BY <2>1, <2>2
<1>2. CASE OthersRemove
  <2>1. Shape'
    BY <1>2 DEF OthersRemove, FileOrNone
  <2>2. OursAreBlocks'
    BY <1>2 DEF OthersRemove, OursAreBlocks, Ours
  <2> QED
    BY <2>1, <2>2
<1>3. CASE OthersCreate
  <2>1. PICK f \in Unused : dest' = f /\ file' = [file EXCEPT ![f] = Foreign]
    BY <1>3 DEF OthersCreate
  <2>2. Foreign \in Stored /\ f \in Files /\ f \in FileOrNone
    BY DEF Stored, Unused, FileOrNone
  <2>3. UNCHANGED <<source, partial, sidecar, xfer, versions>>
    BY <1>3 DEF OthersCreate
  <2> QED
    BY <2>1, <2>2, <2>3, TypeWritten
<1> QED
  BY <1>1, <1>2, <1>3 DEF Others

\* A machine that fails leaves the files as they are or damages a partial file.
LEMMA StopFiles ==
  ASSUME TypeInv, NEW t \in Transfers, Stop(t)
  PROVE  \/ file' = file
         \/ \E p \in Fingerprints :
              /\ "decay" \in Environment /\ partial[p] # NoFile
              /\ \E n \in 1..Len(file[partial[p]]) :
                   file' = [file EXCEPT ![partial[p]] =
                              [file[partial[p]] EXCEPT ![n] = Junk]]
<1>1. CASE file' # file
  <2>1. PICK p \in Fingerprints :
          /\ "decay" \in Environment /\ partial[p] # NoFile
          /\ file' \in Damaged(partial[p])
    BY <1>1 DEF Stop, FilesAfter, MachineFails
  <2>2. PICK n \in 1..Len(file[partial[p]]) :
          file' = [file EXCEPT ![partial[p]][n] = Junk]
    BY <2>1 DEF Damaged
  <2> QED
    BY <2>1, <2>2
<1> QED
  BY <1>1

LEMMA StopType ==
  ASSUME TypeInv, NEW t \in Transfers, Stop(t)
  PROVE  TypeInv'
<1>1. /\ xfer \in [Transfers -> Attempts] /\ sidecar \in [Fingerprints -> Sidecars]
      /\ dest \in FileOrNone /\ partial \in [Fingerprints -> FileOrNone]
      /\ UNCHANGED <<source, dest, partial, sidecar, versions>>
  BY DEF TypeInv, Shape, Stop
<1>2. /\ xfer' \in [Transfers -> Attempts]
      /\ \A u \in Transfers : xfer'[u].handle \in {xfer[u].handle, NoFile}
  BY <1>1, ReturnHandles DEF Stop
<1>3. CASE file' = file
  BY <1>1, <1>2, <1>3, TypeKept
<1>4. CASE file' # file
  <2>1. PICK p \in Fingerprints :
          /\ partial[p] # NoFile
          /\ \E n \in 1..Len(file[partial[p]]) :
               file' = [file EXCEPT ![partial[p]] =
                          [file[partial[p]] EXCEPT ![n] = Junk]]
    BY <1>4, StopFiles
  <2>5. PICK n \in 1..Len(file[partial[p]]) :
          file' = [file EXCEPT ![partial[p]] = [file[partial[p]] EXCEPT ![n] = Junk]]
    BY <2>1
  <2> DEFINE s == [file[partial[p]] EXCEPT ![n] = Junk]
  <2>2. partial[p] \in Files /\ file[partial[p]] \in Seq(Blocks)
    BY <1>1, <2>1 DEF FileOrNone, TypeInv, OursAreBlocks, Ours
  <2>3. s \in Seq(Blocks) /\ s \in Stored
    BY <2>2, ExceptSeq DEF Blocks, Stored
  <2>4. file' = [file EXCEPT ![partial[p]] = s]
    BY <2>5
  <2> HIDE DEF s
  <2> QED
    BY <1>1, <1>2, <2>2, <2>3, <2>4, TypeWritten
<1> QED
  BY <1>3, <1>4

LEMMA TypeNext == TypeInv /\ [Next]_vars => TypeInv'
<1> SUFFICES ASSUME TypeInv, [Next]_vars PROVE TypeInv'
  OBVIOUS
<1>1. ASSUME NEW t \in Transfers, Prepare(t)
      PROVE  TypeInv'
  BY <1>1, MoveType, NameType, CreatePartialType DEF Prepare
<1>2. ASSUME NEW t \in Transfers, Receive(t)
      PROVE  TypeInv'
  BY <1>2, OpenType, ReceiveType, MoveType DEF Receive
<1>3. ASSUME NEW t \in Transfers, Finalize(t)
      PROVE  TypeInv'
  BY <1>3, MoveType, NameType DEF Finalize
<1>4. CASE UNCHANGED vars
  BY <1>4 DEF vars, TypeInv, Shape, OursAreBlocks, Ours
<1> QED
  BY <1>1, <1>2, <1>3, <1>4, StopType, OthersType DEF Next

LEMMA TypeAlways == Spec => []TypeInv
  BY TypeInit, TypeNext, PTL DEF Spec

\* Every variable keeps its shape, whatever several transfers do to each other's
\* files and whatever block a failing machine loses: the partial files and what is
\* written through an open one stay sequences of blocks.
THEOREM TypeCorrect == Spec => []TypeOK
<1>1. TypeInv => TypeOK
  <2> SUFFICES ASSUME TypeInv PROVE TypeOK
    OBVIOUS
  <2>1. ASSUME NEW t \in Transfers
        PROVE  /\ xfer[t].pc \in Phases
               /\ xfer[t].options \in OptionSets \cup {NoOptions}
               /\ xfer[t].pc \notin {"idle", "resolve", "fingerprint"}
                    => xfer[t].print \in Fingerprints
               /\ xfer[t].handle \in FileOrNone
    BY DEF TypeInv, Shape, Attempts, Entries, PrintsAt
  <2>2. ASSUME NEW f \in Files
        PROVE  file[f] \in Seq(Blocks) \cup {Foreign}
    BY DEF TypeInv, Shape, Stored
  <2> QED
    BY <2>1, <2>2 DEF TypeOK, TypeInv, Shape, Sidecars
<1> QED
  BY <1>1, TypeAlways, PTL
-----------------------------------------------------------------------------
(* Names and times, for any number of transfers *)

\* A partial file has no other name.
Apart ==
  \A p \in Fingerprints : partial[p] # NoFile =>
    partial[p] # dest /\ \A q \in Fingerprints : partial[q] = partial[p] => q = p

\* Nobody knows a modification time the source has not had.
TimesPassed ==
  /\ \A t \in Transfers : xfer[t].mtime <= source.mtime
  /\ \A p \in Fingerprints : sidecar[p].metadata # NoMetadata
                              => sidecar[p].metadata.mtime <= source.mtime
  /\ source.content \in versions

LEMMA ApartInit == Init => Apart
  BY DEF Init, Apart

LEMMA ApartNext ==
  ASSUME TypeInv, Apart, [Next]_vars
  PROVE  Apart'
<1> USE DEF Apart
<1>1. CASE UNCHANGED <<dest, partial>>
  BY <1>1
<1>2. ASSUME NEW t \in Transfers, Discard(t)
      PROVE  Apart'
  BY <1>2, ExpectedFacts DEF Discard, At, Early, TypeInv, Shape
<1>3. ASSUME NEW t \in Transfers, CreatePartial(t)
      PROVE  Apart'
  <2>1. PICK f \in Unused : partial' = [partial EXCEPT ![xfer[t].print] = f]
    BY <1>3 DEF CreatePartial
  <2>2. f # dest /\ \A p \in Fingerprints : f # partial[p]
    BY <2>1 DEF Unused
  <2>3. xfer[t].print \in Fingerprints /\ partial \in [Fingerprints -> FileOrNone]
    BY <1>3, ExpectedFacts DEF CreatePartial, At, Early, TypeInv, Shape
  <2>4. dest' = dest
    BY <1>3 DEF CreatePartial
  <2> QED
    BY <2>1, <2>2, <2>3, <2>4
<1>4. ASSUME NEW t \in Transfers, Clear(t)
      PROVE  Apart'
  BY <1>4 DEF Clear
<1>5. ASSUME NEW t \in Transfers, Rename(t)
      PROVE  Apart'
  BY <1>5, ExpectedFacts DEF Rename, At, Early, PartialOf, TypeInv, Shape
<1>6. CASE OthersCreate
  BY <1>6 DEF OthersCreate, Unused
<1>7. CASE OthersRemove
  BY <1>7 DEF OthersRemove
<1>8. ASSUME NEW t \in Transfers, Prepare(t)
      PROVE  UNCHANGED <<dest, partial>> \/ Discard(t) \/ CreatePartial(t)
  BY <1>8 DEF Prepare, Begin, Resolve, TakeFingerprint, Inspect, Resume, DiscardSidecar,
              DiscardLoneSidecar, CreateSidecar, WriteSidecar
<1>9. ASSUME NEW t \in Transfers, Receive(t) \/ Finalize(t) \/ Stop(t)
      PROVE  UNCHANGED <<dest, partial>> \/ Clear(t) \/ Rename(t)
  BY <1>9 DEF Receive, Open, ReceiveBlock, ReceiveEnds, Finalize, Recheck, Verify,
              Cleanup, Stop
<1>10. CASE Edit \/ UNCHANGED vars
  BY <1>10 DEF Edit, vars
<1> QED
  BY <1>1, <1>2, <1>3, <1>4, <1>5, <1>6, <1>7, <1>8, <1>9, <1>10 DEF Next, Others

LEMMA TimesInit == Init => TimesPassed
<1> SUFFICES ASSUME Init PROVE TimesPassed
  OBVIOUS
<1>1. source.mtime = 1 /\ source.content \in versions
  BY DEF Init
<1> QED
  BY <1>1 DEF Init, TimesPassed, Idle, NoSidecar

\* The times an attempt and its metadata have are those of the first stat.
LEMMA TimesNext ==
  ASSUME TypeInv, TimesPassed, [Next]_vars
  PROVE  TimesPassed'
<1> USE DEF TimesPassed
<1>1. source.mtime \in Nat /\ 0 <= source.mtime /\ source.content \in Contents
  BY DEF TypeInv, Shape
<1>2. CASE Edit
  <2>1. /\ source'.mtime = source.mtime + 1 /\ source'.content \in versions'
        /\ UNCHANGED <<sidecar, xfer>>
    BY <1>2 DEF Edit
  <2>2. \A t \in Transfers : xfer[t].mtime \in Nat
    BY DEF TypeInv, Shape, Attempts, Entries
  <2>3. ASSUME NEW p \in Fingerprints, sidecar[p].metadata # NoMetadata
        PROVE  sidecar[p].metadata.mtime \in Nat
    BY <2>3 DEF TypeInv, Shape, Sidecars, AllMetadata
  <2> QED
    BY <1>1, <2>1, <2>2, <2>3
<1>3. ASSUME UNCHANGED <<source, versions, sidecar>>, NEW t \in Transfers,
             xfer'[t].mtime \in {xfer[t].mtime, source.mtime, 0},
             \A u \in Transfers \ {t} : xfer'[u] = xfer[u]
      PROVE  TimesPassed'
  BY <1>1, <1>3
<1>4. ASSUME UNCHANGED <<source, versions>>,
             NEW t \in Transfers, NEW p \in Fingerprints,
             sidecar' \in {sidecar, [sidecar EXCEPT ![p] = NoSidecar],
                           [sidecar EXCEPT ![p] = [NoSidecar EXCEPT !.by = t]],
                           [sidecar EXCEPT ![p].metadata = Expected(t)]},
             xfer[t].pc \notin Early,
             xfer'[t].mtime \in {xfer[t].mtime, 0},
             \A u \in Transfers \ {t} : xfer'[u] = xfer[u]
      PROVE  TimesPassed'
  <2>1. Expected(t).mtime <= source.mtime
    BY <1>4, ExpectedFacts
  <2>2. /\ NoSidecar.metadata = NoMetadata
        /\ [NoSidecar EXCEPT !.by = t].metadata = NoMetadata
    BY DEF NoSidecar
  <2>3. sidecar \in [Fingerprints -> Sidecars]
    BY DEF TypeInv, Shape
  <2>4. ASSUME NEW q \in Fingerprints
        PROVE  sidecar'[q].metadata \in {sidecar[q].metadata, NoMetadata, Expected(t)}
    BY <1>4, <2>2, <2>3, <2>4 DEF Sidecars
  <2> QED
    BY <1>1, <1>4, <2>1, <2>4
<1>5. ASSUME NEW t \in Transfers,
             \/ Prepare(t) \/ Receive(t) \/ Finalize(t) \/ Stop(t)
      PROVE  TimesPassed'
  <2>1. CASE \E options \in OptionSets : Begin(t, options)
    BY <1>3, <2>1, BeginMoves DEF Begin
  <2>2. CASE Resolve(t)
    BY <1>3, <2>2, ResolveMoves DEF Resolve, Moved, Idle
  <2>3. CASE TakeFingerprint(t)
    <3>1. UNCHANGED <<source, versions, sidecar>>
      BY <2>3 DEF TakeFingerprint
    <3>2. Idle.mtime = 0
      BY DEF Idle
    <3> QED
      BY <1>3, <2>3, <3>1, <3>2, FingerprintMoves
  <2>4. CASE Inspect(t)
    BY <1>3, <2>4, InspectMoves DEF Inspect, Moved
  <2>5. CASE Open(t)
    BY <1>3, <2>5, OpenMoves DEF Open
  <2>6. CASE ReceiveBlock(t)
    BY <1>3, <2>6, ReceiveMoves DEF ReceiveBlock
  <2>7. CASE ReceiveEnds(t)
    BY <1>3, <2>7, ReceiveEndMoves DEF ReceiveEnds
  <2>8. CASE Stop(t)
    <3>1. xfer'[t].mtime = 0 /\ \A u \in Transfers \ {t} : xfer'[u] = xfer[u]
      BY <2>8, ReturnMoves DEF Stop, TypeInv, Shape, Idle
    <3> QED
      BY <1>3, <2>8, <3>1 DEF Stop
  <2>9. CASE \/ Resume(t) \/ Discard(t) \/ CreatePartial(t) \/ Recheck(t) \/ Verify(t)
             \/ Clear(t) \/ Rename(t)
    <3>1. /\ xfer'[t].mtime = xfer[t].mtime
          /\ \A u \in Transfers \ {t} : xfer'[u] = xfer[u]
      BY <2>9, GotoSteps DEF Moved
    <3>2. UNCHANGED <<source, versions, sidecar>>
      BY <2>9 DEF Resume, Discard, CreatePartial, Recheck, Verify, Clear, Rename
    <3> QED
      BY <1>3, <3>1, <3>2
  <2>10. CASE \/ DiscardSidecar(t) \/ DiscardLoneSidecar(t) \/ CreateSidecar(t)
              \/ WriteSidecar(t) \/ Cleanup(t)
    <3>1. /\ xfer'[t].mtime \in {xfer[t].mtime, 0}
          /\ \A u \in Transfers \ {t} : xfer'[u] = xfer[u]
      <4>1. CASE Cleanup(t)
        BY <4>1, ReturnMoves DEF Cleanup, TypeInv, Shape, Idle
      <4> QED
        BY <2>10, <4>1, GotoSteps DEF Moved
    <3>2. xfer[t].pc \notin Early
      BY <2>10 DEF DiscardSidecar, DiscardLoneSidecar, CreateSidecar, WriteSidecar,
                   Cleanup, At, Early
    <3> DEFINE p == xfer[t].print
    <3>3. UNCHANGED <<source, versions>>
      BY <2>10 DEF DiscardSidecar, DiscardLoneSidecar, CreateSidecar, WriteSidecar,
                   Cleanup
    <3>4. sidecar' \in {sidecar, [sidecar EXCEPT ![p] = NoSidecar],
                        [sidecar EXCEPT ![p] = [NoSidecar EXCEPT !.by = t]],
                        [sidecar EXCEPT ![p].metadata = Expected(t)]}
      BY <2>10 DEF DiscardSidecar, DiscardLoneSidecar, CreateSidecar, WriteSidecar,
                   Cleanup
    <3>5. p \in Fingerprints
      BY <3>2, ExpectedFacts
    <3> HIDE DEF p
    <3> QED
      BY <1>4, <3>1, <3>2, <3>3, <3>4, <3>5
  <2> QED
    BY <1>5, <2>1, <2>2, <2>3, <2>4, <2>5, <2>6, <2>7, <2>8, <2>9, <2>10
       DEF Prepare, Receive, Finalize
<1> QED
  BY <1>2, <1>5 DEF Next, Others, OthersCreate, OthersRemove, vars
-----------------------------------------------------------------------------
(* One transfer at a time *)

OneAtATime == \A t, u \in Transfers : t = u
NothingIsLost == "decay" \notin Environment

\* The first blocks of a content.
Starts(c, d) == Len(c) <= Len(d) /\ \A i \in 1..Len(c) : c[i] = d[i]

\* While the source is what it was when the metadata was written, a partial file
\* is the beginning of it: this is what makes resuming sound.
PartialIsPrefix ==
  \A p \in Fingerprints :
    /\ partial[p] # NoFile
    /\ sidecar[p].metadata # NoMetadata /\ sidecar[p].metadata.mtime = source.mtime
    => Starts(file[partial[p]], source.content)

\* Places by what the attempt knows there of its partial file.
GoneAt      == {"lone", "discardSidecar", "describe", "encode", "create", "cleanup"}
NewAt       == {"resolve", "fingerprint", "inspect", "lone", "discard",
                "discardSidecar", "describe", "encode", "create"}
WholeAt     == {"verify", "clear", "rename"}
OpenedAt    == {"open", "receive", "recheck"} \cup WholeAt
DescribedAt == {"create"} \cup OpenedAt
ThereAt     == {"compatible", "discard"} \cup OpenedAt

Content(t) == file[PartialOf(t)]
Fresh(t)   == source.mtime = xfer[t].mtime

NamesKnown(t) ==
  /\ xfer[t].pc \in GoneAt => PartialOf(t) = NoFile
  /\ xfer[t].pc \in ThereAt => PartialOf(t) # NoFile
  /\ xfer[t].pc = "encode" => SidecarOf(t).by = t
  /\ xfer[t].pc \in DescribedAt => SidecarOf(t).metadata = Expected(t)

SizeKnown(t) ==
  /\ xfer[t].pc \in NewAt => xfer[t].offset = 0
  /\ xfer[t].pc \in {"compatible", "open"} => xfer[t].offset = Len(Content(t))
  /\ xfer[t].pc = "receive" => xfer[t].handle = PartialOf(t)
  /\ xfer[t].pc \in {"receive", "recheck"} => Len(Content(t)) = Len(xfer[t].hashed)

DigestKnown(t) ==
  /\ xfer[t].pc = "receive" /\ Fresh(t) => Starts(xfer[t].hashed, source.content)
  /\ xfer[t].pc = "recheck" /\ Fresh(t) => xfer[t].hashed = source.content
  /\ xfer[t].pc \in WholeAt
       => Content(t) = xfer[t].hashed /\ xfer[t].hashed \in versions

Stage(t) == NamesKnown(t) /\ SizeKnown(t) /\ DigestKnown(t)

IInv == /\ TypeInv /\ Apart /\ TimesPassed
        /\ PartialIsPrefix
        /\ \A t \in Transfers : Stage(t)

LEMMA IdleStage ==
  ASSUME NEW t \in Transfers, xfer'[t] = Idle
  PROVE  Stage(t)'
<1>1. xfer'[t].pc = "idle"
  BY DEF Idle
<1> QED
  BY <1>1 DEF Stage, NamesKnown, SizeKnown, DigestKnown, GoneAt, NewAt, ThereAt,
              DescribedAt, OpenedAt, WholeAt

\* A step that moves an attempt on, and changes neither files nor paths.
LEMMA MovedView ==
  ASSUME NEW t \in Transfers, xfer'[t].print = xfer[t].print,
         UNCHANGED <<partial, sidecar, file>>
  PROVE  /\ PartialOf(t)' = PartialOf(t) /\ SidecarOf(t)' = SidecarOf(t)
         /\ Content(t)' = Content(t)
         /\ xfer'[t].mtime = xfer[t].mtime => Expected(t)' = Expected(t)
  BY DEF PartialOf, SidecarOf, Content, Expected

LEMMA PrepareStage ==
  ASSUME IInv, NEW t \in Transfers, Prepare(t)
  PROVE  Stage(t)'
<1> USE DEF GoneAt, NewAt, ThereAt, DescribedAt, OpenedAt, WholeAt, At
<1>1. /\ TypeInv /\ NamesKnown(t) /\ SizeKnown(t)
      /\ partial \in [Fingerprints -> FileOrNone]
      /\ sidecar \in [Fingerprints -> Sidecars]
  BY DEF IInv, Stage, TypeInv, Shape
<1>2. ASSUME NEW pc, Moved(t, pc), UNCHANGED <<partial, sidecar, file>>
      PROVE  /\ PartialOf(t)' = PartialOf(t) /\ SidecarOf(t)' = SidecarOf(t)
             /\ Content(t)' = Content(t) /\ Expected(t)' = Expected(t)
             /\ xfer'[t].pc = pc /\ xfer'[t].offset = xfer[t].offset
  BY <1>2, MovedView DEF Moved
<1>3. CASE \E options \in OptionSets : Begin(t, options)
  <2>1. xfer'[t].pc = "resolve" /\ xfer'[t].offset = 0
    BY <1>1, <1>3, BeginMoves
  <2> QED
    BY <2>1 DEF Stage, NamesKnown, SizeKnown, DigestKnown
<1>4. CASE Resolve(t)
  <2>1. CASE Moved(t, "fingerprint")
    <3>1. xfer'[t].pc = "fingerprint" /\ xfer'[t].offset = 0
      BY <1>1, <1>4, <2>1 DEF Resolve, Moved, SizeKnown
    <3> QED
      BY <3>1 DEF Stage, NamesKnown, SizeKnown, DigestKnown
  <2>2. CASE xfer'[t] = Idle
    BY <2>2, IdleStage
  <2> QED
    BY <1>1, <1>4, <2>1, <2>2, ResolveMoves
<1>5. CASE TakeFingerprint(t)
  <2>1. CASE xfer'[t].pc = "inspect" /\ xfer'[t].offset = xfer[t].offset
    <3>1. xfer'[t].offset = 0
      BY <1>1, <1>5, <2>1 DEF TakeFingerprint, SizeKnown
    <3> QED
      BY <2>1, <3>1 DEF Stage, NamesKnown, SizeKnown, DigestKnown
  <2>2. CASE xfer'[t] = Idle
    BY <2>2, IdleStage
  <2> QED
    BY <1>1, <1>5, <2>1, <2>2, FingerprintMoves
<1>6. CASE Inspect(t)
  <2>1. xfer[t].offset = 0 /\ UNCHANGED <<partial, sidecar, file>>
    BY <1>1, <1>6 DEF Inspect, SizeKnown
  <2>2. CASE Moved(t, "lone") /\ PartialOf(t) = NoFile
    BY <1>2, <2>1, <2>2 DEF Stage, NamesKnown, SizeKnown, DigestKnown
  <2>3. CASE Moved(t, "discard") /\ PartialOf(t) # NoFile
    BY <1>2, <2>1, <2>3 DEF Stage, NamesKnown, SizeKnown, DigestKnown
  <2>4. CASE /\ xfer'[t].pc = "compatible" /\ PartialOf(t) # NoFile
             /\ xfer'[t].print = xfer[t].print
             /\ xfer'[t].offset = Len(file[PartialOf(t)])
    <3>1. PartialOf(t)' = PartialOf(t) /\ Content(t)' = file[PartialOf(t)]
      BY <2>1, <2>4 DEF PartialOf, Content
    <3> QED
      BY <2>4, <3>1 DEF Stage, NamesKnown, SizeKnown, DigestKnown
  <2> QED
    BY <1>1, <1>6, <2>2, <2>3, <2>4, InspectMoves
<1>7. CASE Resume(t)
  <2>1. Moved(t, "open") /\ UNCHANGED <<partial, sidecar, file>>
    BY <1>1, <1>7, GotoSteps DEF Resume
  <2>2. /\ PartialOf(t) # NoFile /\ SidecarOf(t).metadata = Expected(t)
        /\ xfer[t].offset = Len(Content(t))
    BY <1>1, <1>7 DEF Resume, ResumeCompatible, SizeKnown
  <2> QED
    BY <1>2, <2>1, <2>2 DEF Stage, NamesKnown, SizeKnown, DigestKnown
<1>8. CASE Discard(t) \/ DiscardSidecar(t) \/ DiscardLoneSidecar(t) \/ CreateSidecar(t)
           \/ WriteSidecar(t)
  <2>1. PICK pc \in {"discardSidecar", "describe", "encode", "create"} :
          /\ Moved(t, pc)
          /\ pc = "encode" => CreateSidecar(t)
          /\ pc = "create" => WriteSidecar(t)
    BY <1>1, <1>8, GotoSteps
  <2>2. /\ xfer'[t].pc = pc /\ xfer'[t].offset = 0 /\ xfer'[t].print = xfer[t].print
        /\ Expected(t)' = Expected(t)
    BY <1>1, <1>8, <2>1
       DEF Moved, SizeKnown, Expected, Discard, DiscardSidecar, DiscardLoneSidecar,
           CreateSidecar, WriteSidecar
  <2>3. xfer[t].print \in Fingerprints
    BY <1>1, <1>8, ExpectedFacts DEF Discard, DiscardSidecar, DiscardLoneSidecar,
         CreateSidecar, WriteSidecar, Early
  <2>4. PartialOf(t)' = NoFile
    BY <1>1, <1>8, <2>2, <2>3 DEF PartialOf, NamesKnown, Discard, DiscardSidecar,
         DiscardLoneSidecar, CreateSidecar, WriteSidecar
  <2>5. pc = "encode" => SidecarOf(t)'.by = t
    BY <1>1, <2>1, <2>2, <2>3 DEF CreateSidecar, SidecarOf, NoSidecar
  <2>6. pc = "create" => SidecarOf(t)'.metadata = Expected(t)
    <3>1. SUFFICES ASSUME pc = "create"
                   PROVE  SidecarOf(t)'.metadata = Expected(t)
      OBVIOUS
    <3>2. sidecar' = [sidecar EXCEPT ![xfer[t].print].metadata = Expected(t)]
      BY <1>1, <2>1, <3>1 DEF WriteSidecar, NamesKnown
    <3>3. sidecar[xfer[t].print] \in [by : Transfers \cup {NoTransfer},
                                     metadata : AllMetadata]
      BY <1>1, <2>3 DEF Sidecars
    <3> QED
      BY <1>1, <2>2, <2>3, <3>2, <3>3 DEF SidecarOf
  <2> QED
    BY <2>1, <2>2, <2>4, <2>5, <2>6 DEF Stage, NamesKnown, SizeKnown, DigestKnown
<1>9. CASE CreatePartial(t)
  <2>1. /\ Moved(t, "open") /\ xfer[t].print \in Fingerprints
        /\ SidecarOf(t).metadata = Expected(t) /\ xfer[t].offset = 0
    BY <1>1, <1>9, GotoSteps, ExpectedFacts
       DEF CreatePartial, Early, NamesKnown, SizeKnown
  <2>2. PICK f \in Unused : /\ file' = [file EXCEPT ![f] = <<>>]
                            /\ partial' = [partial EXCEPT ![xfer[t].print] = f]
    BY <1>9 DEF CreatePartial
  <2>3. f \in Files /\ f # NoFile
    BY <2>2 DEF Unused
  <2>4. /\ xfer'[t].pc = "open" /\ xfer'[t].offset = 0
        /\ xfer'[t].print = xfer[t].print /\ xfer'[t].mtime = xfer[t].mtime
        /\ UNCHANGED sidecar
    BY <1>9, <2>1 DEF Moved, CreatePartial
  <2>5. PartialOf(t)' = f
    BY <1>1, <2>1, <2>2, <2>4 DEF PartialOf
  <2>6. Content(t)' = <<>> /\ Len(<<>>) = 0
    BY <1>1, <2>2, <2>3, <2>5 DEF Content, TypeInv, Shape
  <2>7. SidecarOf(t)' = SidecarOf(t) /\ Expected(t)' = Expected(t)
    BY <2>4 DEF SidecarOf, Expected
  <2> QED
    BY <2>1, <2>3, <2>4, <2>5, <2>6, <2>7 DEF Stage, NamesKnown, SizeKnown, DigestKnown
<1> QED
  BY <1>3, <1>4, <1>5, <1>6, <1>7, <1>8, <1>9 DEF Prepare

LEMMA StartsFacts ==
  ASSUME NEW S, NEW T, NEW c \in Seq(S), NEW d \in Seq(T), Starts(c, d)
  PROVE  /\ Len(c) >= Len(d) => c = d
         /\ Len(c) + 1 <= Len(d) => Starts(Append(c, d[Len(c) + 1]), d)
<1>1. Len(c) \in Nat /\ Len(d) \in Nat
  OBVIOUS
<1>2. ASSUME Len(c) >= Len(d)
      PROVE  c = d
  <2>1. Len(c) = Len(d) /\ \A i \in 1..Len(c) : c[i] = d[i]
    BY <1>1, <1>2 DEF Starts
  <2>2. c \in Seq(S \cup T) /\ d \in Seq(S \cup T)
    BY SeqMonotonic
  <2> QED
    BY <2>1, <2>2, SeqEqual
<1>3. ASSUME Len(c) + 1 <= Len(d)
      PROVE  Starts(Append(c, d[Len(c) + 1]), d)
  <2> DEFINE e == Append(c, d[Len(c) + 1])
  <2>1. d[Len(c) + 1] \in T
    BY <1>1, <1>3, ElementOfSeq
  <2>2. c \in Seq(S \cup T) /\ d[Len(c) + 1] \in S \cup T
    BY <2>1, SeqMonotonic
  <2>3. /\ Len(e) = Len(c) + 1 /\ e[Len(c) + 1] = d[Len(c) + 1]
        /\ \A i \in 1..Len(c) : e[i] = c[i]
    BY <1>1, <2>2, AppendProperties
  <2> HIDE DEF e
  <2>4. Starts(e, d)
    BY <1>1, <1>3, <2>3 DEF Starts
  <2> QED
    BY <2>4 DEF e
<1> QED
  BY <1>2, <1>3

LEMMA ReceiveStage ==
  ASSUME IInv, NEW t \in Transfers, Receive(t)
  PROVE  Stage(t)'
<1> USE DEF GoneAt, NewAt, ThereAt, DescribedAt, OpenedAt, WholeAt, At
<1>1. /\ TypeInv /\ NamesKnown(t) /\ SizeKnown(t) /\ DigestKnown(t)
      /\ partial \in [Fingerprints -> FileOrNone] /\ source.content \in Contents
  BY DEF IInv, Stage, TypeInv, Shape
<1>2. source.content \in Seq(SourceBlocks)
  BY <1>1, ContentFacts
<1>3. xfer[t].hashed \in Seq(SourceBlocks)
  BY <1>1 DEF TypeInv, Shape, Attempts, Entries
<1>4. /\ PartialOf(t) # NoFile /\ SidecarOf(t).metadata = Expected(t)
      /\ UNCHANGED <<source, partial, sidecar>>
  BY <1>1 DEF Receive, Open, ReceiveBlock, ReceiveEnds, NamesKnown
<1>5. ASSUME xfer'[t].print = xfer[t].print, xfer'[t].mtime = xfer[t].mtime
      PROVE  /\ PartialOf(t)' = PartialOf(t) /\ SidecarOf(t)' = SidecarOf(t)
             /\ Expected(t)' = Expected(t) /\ Fresh(t)' = Fresh(t)
  BY <1>4, <1>5 DEF PartialOf, SidecarOf, Expected, Fresh
<1>6. CASE Open(t)
  <2> DEFINE n == xfer[t].offset
  <2>1. n \in Nat /\ n <= Len(source.content) /\ n = Len(Content(t))
    BY <1>1, <1>6 DEF Open, SizeKnown, TypeInv, Shape, Attempts, Entries
  <2>2. /\ xfer'[t].pc = "receive" /\ xfer'[t].handle = PartialOf(t)
        /\ xfer'[t].hashed = SubSeq(source.content, 1, n)
        /\ xfer'[t].print = xfer[t].print /\ xfer'[t].mtime = xfer[t].mtime
        /\ UNCHANGED file
    BY <1>1, <1>6, OpenMoves DEF Open
  <2>3. /\ Len(xfer'[t].hashed) = n
        /\ \A i \in 1..n : xfer'[t].hashed[i] = source.content[i]
    BY <1>2, <2>1, <2>2, SubSeqFacts
  <2>4. Starts(xfer'[t].hashed, source.content)
    BY <2>1, <2>3 DEF Starts
  <2>5. Content(t)' = Content(t)
    BY <1>5, <2>2 DEF Content
  <2> HIDE DEF n
  <2> QED
    BY <1>4, <1>5, <2>1, <2>2, <2>3, <2>4, <2>5
       DEF Stage, NamesKnown, SizeKnown, DigestKnown
<1>7. CASE ReceiveBlock(t)
  <2> DEFINE n == Len(xfer[t].hashed) + 1
             b == source.content[n]
  <2>1. /\ xfer[t].handle \in Files /\ n \in Nat \ {0} /\ b \in SourceBlocks
        /\ xfer[t].print \in Fingerprints
        /\ xfer'[t].pc = "receive" /\ xfer'[t].handle = xfer[t].handle
        /\ xfer'[t].hashed = Append(xfer[t].hashed, b)
        /\ xfer'[t].print = xfer[t].print /\ xfer'[t].mtime = xfer[t].mtime
    BY <1>1, <1>7, ReceiveMoves
  <2>2. xfer[t].handle = PartialOf(t) /\ Len(Content(t)) = Len(xfer[t].hashed)
    BY <1>1, <1>7 DEF ReceiveBlock, SizeKnown
  <2>3. Content(t) \in Seq(Blocks) /\ b \in Blocks
    BY <1>1, <2>1, <2>2 DEF TypeInv, OursAreBlocks, Ours, Content, PartialOf, Blocks
  <2>4. Written(Content(t), n, b) = Append(Content(t), b)
    BY <2>1, <2>2, <2>3, WrittenFacts
  <2>5. Content(t)' = Append(Content(t), b)
    <3>1. file' = [file EXCEPT ![PartialOf(t)] = Written(@, n, b)]
      BY <1>7, <2>2 DEF ReceiveBlock
    <3>2. file'[PartialOf(t)] = Written(Content(t), n, b)
      BY <1>1, <2>1, <2>2, <3>1 DEF TypeInv, Shape, Content
    <3> QED
      BY <1>5, <2>1, <2>4, <3>2 DEF Content
  <2>6. /\ Len(Append(Content(t), b)) = Len(Content(t)) + 1
        /\ Len(Append(xfer[t].hashed, b)) = Len(xfer[t].hashed) + 1
    BY <1>3, <2>1, <2>3, AppendProperties
  <2>7. Fresh(t) => Starts(Append(xfer[t].hashed, b), source.content)
    BY <1>1, <1>2, <1>3, <1>7, StartsFacts DEF ReceiveBlock, DigestKnown
  <2> HIDE DEF n, b
  <2> QED
    BY <1>4, <1>5, <2>1, <2>2, <2>5, <2>6, <2>7
       DEF Stage, NamesKnown, SizeKnown, DigestKnown
<1>8. CASE ReceiveEnds(t)
  <2>1. /\ xfer'[t].pc = "recheck" /\ xfer'[t].hashed = xfer[t].hashed
        /\ xfer'[t].print = xfer[t].print /\ xfer'[t].mtime = xfer[t].mtime
        /\ UNCHANGED file
    BY <1>1, <1>8, ReceiveEndMoves DEF ReceiveEnds
  <2>2. Content(t)' = Content(t) /\ Len(Content(t)) = Len(xfer[t].hashed)
    BY <1>1, <1>5, <1>8, <2>1 DEF Content, ReceiveEnds, SizeKnown
  <2>3. Fresh(t) => xfer[t].hashed = source.content
    BY <1>1, <1>2, <1>3, <1>8, StartsFacts DEF ReceiveEnds, DigestKnown
  <2> QED
    BY <1>4, <1>5, <2>1, <2>2, <2>3 DEF Stage, NamesKnown, SizeKnown, DigestKnown
<1> QED
  BY <1>6, <1>7, <1>8 DEF Receive

LEMMA FinalizeStage ==
  ASSUME IInv, NEW t \in Transfers, Finalize(t) \/ Stop(t)
  PROVE  Stage(t)'
<1> USE DEF GoneAt, NewAt, ThereAt, DescribedAt, OpenedAt, WholeAt, At
<1>1. /\ TypeInv /\ NamesKnown(t) /\ SizeKnown(t) /\ DigestKnown(t)
      /\ xfer \in [Transfers -> Attempts] /\ partial \in [Fingerprints -> FileOrNone]
  BY DEF IInv, Stage, TypeInv, Shape
<1>2. ASSUME NEW pc, Moved(t, pc), UNCHANGED <<source, versions, partial, sidecar>>
      PROVE  /\ PartialOf(t)' = PartialOf(t) /\ SidecarOf(t)' = SidecarOf(t)
             /\ Expected(t)' = Expected(t) /\ Fresh(t)' = Fresh(t)
             /\ xfer'[t].pc = pc /\ xfer'[t].hashed = xfer[t].hashed
             /\ xfer'[t].options = xfer[t].options
  BY <1>2 DEF Moved, PartialOf, SidecarOf, Expected, Fresh
<1>3. CASE Recheck(t)
  <2>1. /\ Moved(t, "verify")
        /\ UNCHANGED <<source, versions, partial, sidecar, file>>
    BY <1>1, <1>3, GotoSteps DEF Recheck
  <2>2. Content(t)' = Content(t) /\ versions' = versions
    BY <1>2, <2>1 DEF Content
  <2>3. xfer[t].hashed = source.content /\ source.content \in versions
    BY <1>1, <1>3 DEF Recheck, Fresh, DigestKnown, IInv, TimesPassed
  <2>4. /\ PartialOf(t) # NoFile /\ SidecarOf(t).metadata = Expected(t)
        /\ Len(Content(t)) = Len(xfer[t].hashed)
    BY <1>1, <1>3 DEF Recheck, NamesKnown, SizeKnown
  <2>5. /\ xfer[t].print \in Fingerprints /\ Expected(t) # NoMetadata
        /\ Expected(t).mtime = source.mtime
    BY <1>1, <1>3, ExpectedFacts DEF Recheck, Early
  <2>6. Starts(Content(t), source.content)
    BY <2>4, <2>5 DEF IInv, PartialIsPrefix, Content, PartialOf, SidecarOf
  <2>7. Content(t) \in Seq(Blocks) /\ source.content \in Seq(SourceBlocks)
    BY <1>1, <2>4, <2>5, ContentFacts
       DEF TypeInv, Shape, OursAreBlocks, Ours, Content, PartialOf
  <2>8. Content(t) = xfer[t].hashed
    BY <2>3, <2>4, <2>6, <2>7, StartsFacts
  <2> QED
    BY <1>2, <2>1, <2>2, <2>3, <2>4, <2>8 DEF Stage, NamesKnown, SizeKnown, DigestKnown
<1>4. CASE Verify(t) \/ Clear(t)
  <2>1. PICK pc \in {"clear", "rename"} : Moved(t, pc)
    BY <1>1, <1>4, GotoSteps
  <2>2. UNCHANGED <<source, versions, partial, sidecar, file>>
    BY <1>4 DEF Verify, Clear
  <2>3. Content(t)' = Content(t) /\ versions' = versions
    BY <1>2, <2>1, <2>2 DEF Content
  <2>4. /\ PartialOf(t) # NoFile /\ SidecarOf(t).metadata = Expected(t)
        /\ Content(t) = xfer[t].hashed /\ xfer[t].hashed \in versions
    BY <1>1, <1>4 DEF Verify, Clear, NamesKnown, DigestKnown
  <2> QED
    BY <1>2, <2>1, <2>2, <2>3, <2>4 DEF Stage, NamesKnown, SizeKnown, DigestKnown
<1>5. CASE Rename(t)
  <2>1. /\ xfer'[t].pc = "cleanup" /\ xfer'[t].print = xfer[t].print
        /\ xfer[t].print \in Fingerprints
    BY <1>1, <1>5, GotoSteps, ExpectedFacts DEF Moved, Rename, Early
  <2>2. PartialOf(t)' = NoFile
    BY <1>1, <1>5, <2>1 DEF Rename, PartialOf
  <2> QED
    BY <2>1, <2>2 DEF Stage, NamesKnown, SizeKnown, DigestKnown
<1>6. CASE Cleanup(t) \/ Stop(t)
  BY <1>1, <1>6, ReturnMoves, IdleStage DEF Cleanup, Stop
<1> QED
  BY <1>3, <1>4, <1>5, <1>6 DEF Finalize

\* What happens beside the transfer takes nothing from what it knows: an edit
\* makes it stale, and others do not write to a partial file.
LEMMA OthersStage ==
  ASSUME IInv, NEW t \in Transfers, Others
  PROVE  Stage(t)'
<1>1. TypeInv /\ Stage(t) /\ xfer' = xfer /\ UNCHANGED <<partial, sidecar>>
  BY DEF IInv, Others, Edit, OthersCreate, OthersRemove
<1>2. /\ PartialOf(t)' = PartialOf(t) /\ SidecarOf(t)' = SidecarOf(t)
      /\ Expected(t)' = Expected(t) /\ versions \subseteq versions'
  BY <1>1 DEF PartialOf, SidecarOf, Expected, Others, Edit, OthersCreate, OthersRemove
<1>3. Fresh(t)' => Fresh(t) /\ source' = source
  <2>1. CASE Edit
    BY <1>1, <2>1
       DEF Edit, Fresh, IInv, TimesPassed, TypeInv, Shape, Attempts, Entries
  <2> QED
    BY <1>1, <2>1 DEF Others, OthersCreate, OthersRemove, Fresh
<1>4. PartialOf(t) # NoFile /\ xfer[t].print \in Fingerprints
        => file'[PartialOf(t)] = file[PartialOf(t)]
  <2>1. CASE OthersCreate
    BY <1>1, <2>1 DEF OthersCreate, Unused, PartialOf, TypeInv, Shape, FileOrNone
  <2> QED
    BY <2>1 DEF Others, Edit, OthersRemove
<1>5. xfer[t].pc \in ThereAt => Content(t)' = Content(t)
  <2>1. xfer[t].pc \in ThereAt
          => PartialOf(t) # NoFile /\ xfer[t].print \in Fingerprints
    BY <1>1, ExpectedFacts DEF Stage, NamesKnown, ThereAt, OpenedAt, WholeAt, Early
  <2> QED
    BY <1>2, <1>4, <2>1 DEF Content
<1>6. WholeAt \cup {"compatible", "open", "receive", "recheck"} \subseteq ThereAt
  BY DEF ThereAt, OpenedAt, WholeAt
<1>7. NamesKnown(t)'
  BY <1>1, <1>2 DEF Stage, NamesKnown
<1>8. SizeKnown(t)'
  BY <1>1, <1>2, <1>5, <1>6 DEF Stage, SizeKnown
<1>9. DigestKnown(t)'
  BY <1>1, <1>2, <1>3, <1>5, <1>6 DEF Stage, DigestKnown
<1> QED
  BY <1>7, <1>8, <1>9 DEF Stage

\* What one path and its metadata say of the partial file.
Sound(p) ==
  /\ partial[p] # NoFile
  /\ sidecar[p].metadata # NoMetadata /\ sidecar[p].metadata.mtime = source.mtime
  => Starts(file[partial[p]], source.content)

LEMMA SoundFacts ==
  /\ PartialIsPrefix <=> \A p \in Fingerprints : Sound(p)
  /\ PartialIsPrefix' <=> \A p \in Fingerprints : Sound(p)'
  BY DEF PartialIsPrefix, Sound

\* A step leaves a path and its metadata alone, or takes the partial file away, or
\* writes what keeps it the beginning of the source.
LEMMA TransferFiles ==
  ASSUME NothingIsLost, IInv, NEW t \in Transfers,
         Prepare(t) \/ Receive(t) \/ Finalize(t) \/ Stop(t)
  PROVE  PartialIsPrefix'
<1> USE DEF GoneAt, NewAt, ThereAt, DescribedAt, OpenedAt, WholeAt, At
<1>1. /\ TypeInv /\ Stage(t) /\ partial \in [Fingerprints -> FileOrNone]
      /\ sidecar \in [Fingerprints -> Sidecars] /\ file \in [Files -> Stored]
      /\ \A p \in Fingerprints : Sound(p)
  BY SoundFacts DEF IInv, TypeInv, Shape
<1>2. source' = source
  BY DEF Prepare, Begin, Resolve, TakeFingerprint, Inspect, Resume, Discard,
         DiscardSidecar, DiscardLoneSidecar, CreateSidecar, WriteSidecar, CreatePartial,
         Receive, Open, ReceiveBlock, ReceiveEnds, Finalize, Recheck, Verify, Clear,
         Rename, Cleanup, Stop
<1>3. ASSUME NEW p \in Fingerprints, sidecar'[p] = sidecar[p],
             partial'[p] = partial[p],
             partial[p] # NoFile
               => file'[partial[p]] = file[partial[p]]
      PROVE  Sound(p)'
  BY <1>1, <1>2, <1>3 DEF Sound
<1>4. ASSUME NEW p \in Fingerprints, partial'[p] = NoFile
      PROVE  Sound(p)'
  BY <1>4 DEF Sound
<1>5. CASE Discard(t) \/ Rename(t)
  BY <1>1, <1>3, <1>4, <1>5, ExpectedFacts, SoundFacts DEF Discard, Rename, Early
<1>6. CASE \/ DiscardSidecar(t) \/ DiscardLoneSidecar(t) \/ CreateSidecar(t)
           \/ WriteSidecar(t) \/ Cleanup(t)
  <2>1. xfer[t].print \in Fingerprints /\ PartialOf(t) = NoFile
    BY <1>1, <1>6, ExpectedFacts DEF DiscardSidecar, DiscardLoneSidecar, CreateSidecar,
         WriteSidecar, Cleanup, Early, Stage, NamesKnown
  <2>2. /\ UNCHANGED <<partial, file>>
        /\ \A p \in Fingerprints \ {xfer[t].print} : sidecar'[p] = sidecar[p]
    BY <1>1, <1>6, <2>1 DEF DiscardSidecar, DiscardLoneSidecar, CreateSidecar,
         WriteSidecar, Cleanup
  <2>3. partial'[xfer[t].print] = NoFile
    BY <2>1, <2>2 DEF PartialOf
  <2> QED
    BY <1>3, <1>4, <2>2, <2>3, SoundFacts
<1>7. CASE CreatePartial(t)
  <2>1. /\ xfer[t].print \in Fingerprints /\ SidecarOf(t).metadata = Expected(t)
        /\ Expected(t) # NoMetadata
    BY <1>1, <1>7, ExpectedFacts DEF CreatePartial, Early, Stage, NamesKnown
  <2>2. PICK f \in Unused :
          /\ file' = [file EXCEPT ![f] = <<>>]
          /\ partial' = [partial EXCEPT ![xfer[t].print] = f]
    BY <1>7 DEF CreatePartial
  <2>3. f \in Files /\ \A p \in Fingerprints : partial[p] # f
    BY <2>2 DEF Unused
  <2>4. sidecar' = sidecar
    BY <1>7 DEF CreatePartial
  <2>5. ASSUME NEW p \in Fingerprints, p # xfer[t].print
        PROVE  Sound(p)'
    BY <1>1, <1>3, <2>2, <2>3, <2>4, <2>5 DEF FileOrNone
  <2>6. ASSUME NEW p \in Fingerprints, p = xfer[t].print
        PROVE  Sound(p)'
    <3>1. partial'[p] = f /\ file'[f] = <<>>
      BY <1>1, <2>2, <2>3, <2>6
    <3>2. Len(source.content) \in Nat /\ Len(<<>>) = 0
      BY <1>1, ContentFacts DEF TypeInv, Shape
    <3>3. Starts(<<>>, source.content)
      BY <3>2 DEF Starts
    <3> QED
      BY <1>2, <2>1, <2>4, <2>6, <3>1, <3>3 DEF Sound, SidecarOf
  <2> QED
    BY <2>5, <2>6, SoundFacts
<1>8. CASE ReceiveBlock(t)
  <2> DEFINE n == Len(xfer[t].hashed) + 1
             b == source.content[n]
  <2> PICK q : q = xfer[t].print
    OBVIOUS
  <2>1. /\ xfer[t].handle \in Files /\ n \in Nat \ {0} /\ b \in SourceBlocks
        /\ q \in Fingerprints /\ n <= Len(source.content)
    BY <1>1, <1>8, ReceiveMoves DEF ReceiveBlock
  <2>2. /\ xfer[t].handle = partial[q] /\ Len(Content(t)) = Len(xfer[t].hashed)
    BY <1>1, <1>8 DEF ReceiveBlock, Stage, SizeKnown, PartialOf
  <2>3. Content(t) \in Seq(Blocks) /\ b \in Blocks /\ partial[q] # NoFile
    BY <1>1, <2>1, <2>2 DEF TypeInv, OursAreBlocks, Ours, Content, PartialOf, Blocks
  <2>4. Written(Content(t), n, b) = Append(Content(t), b)
    BY <2>1, <2>2, <2>3, WrittenFacts
  <2>5. file' = [file EXCEPT ![partial[q]] = Written(@, n, b)]
    BY <1>8, <2>2 DEF ReceiveBlock
  <2>6. file'[partial[q]] = Append(Content(t), b)
    BY <1>1, <2>1, <2>2, <2>4, <2>5 DEF Content, PartialOf
  <2>7. /\ UNCHANGED <<partial, sidecar>>
        /\ \A g \in Files \ {partial[q]} : file'[g] = file[g]
    BY <1>1, <1>8, <2>5 DEF ReceiveBlock
  <2>8. ASSUME NEW p \in Fingerprints, p # q
        PROVE  Sound(p)'
    <3>1. partial[p] # NoFile => partial[p] \in Files \ {partial[q]}
      BY <1>1, <2>1, <2>3, <2>8 DEF IInv, Apart, FileOrNone
    <3> QED
      BY <1>3, <2>7, <2>8, <3>1
  <2>9. Sound(q)'
    <3>1. Starts(Content(t), source.content)
            => Starts(Append(Content(t), b), source.content)
      <4>1. source.content \in Seq(SourceBlocks)
        BY <1>1, ContentFacts DEF TypeInv, Shape
      <4> QED
        BY <2>1, <2>2, <2>3, <4>1, StartsFacts
    <3>2. Sound(q) /\ Content(t) = file[partial[q]]
      BY <1>1, <2>1 DEF Content, PartialOf
    <3> HIDE DEF n, b
    <3> QED
      BY <1>2, <2>6, <2>7, <3>1, <3>2 DEF Sound
  <2> QED
    BY <2>8, <2>9, SoundFacts
<1>9. CASE UNCHANGED <<partial, sidecar, file>>
  BY <1>3, <1>9, SoundFacts
<1>10. \/ Discard(t) \/ Rename(t) \/ DiscardSidecar(t) \/ DiscardLoneSidecar(t)
       \/ CreateSidecar(t) \/ WriteSidecar(t) \/ Cleanup(t) \/ CreatePartial(t)
       \/ ReceiveBlock(t) \/ UNCHANGED <<partial, sidecar, file>>
  <2>1. CASE Stop(t)
    BY <1>1, <2>1, StopFiles DEF NothingIsLost, Stop
  <2> QED
    BY <2>1 DEF Prepare, Begin, Resolve, TakeFingerprint, Inspect, Resume, Receive, Open,
         ReceiveEnds, Finalize, Recheck, Verify, Clear
<1> QED
  BY <1>5, <1>6, <1>7, <1>8, <1>9, <1>10

LEMMA IInvInit == Init => IInv
<1> SUFFICES ASSUME Init PROVE IInv
  OBVIOUS
<1>1. TypeInv /\ Apart /\ TimesPassed
  BY TypeInit, ApartInit, TimesInit
<1>2. PartialIsPrefix
  BY DEF Init, PartialIsPrefix
<1>3. ASSUME NEW t \in Transfers
      PROVE  Stage(t)
  <2>1. xfer[t].pc = "idle"
    BY DEF Init, Idle
  <2> QED
    BY <2>1 DEF Stage, NamesKnown, SizeKnown, DigestKnown, GoneAt, NewAt, ThereAt,
                DescribedAt, OpenedAt, WholeAt
<1> QED
  BY <1>1, <1>2, <1>3 DEF IInv

LEMMA OthersFiles ==
  ASSUME IInv, Others
  PROVE  PartialIsPrefix'
<1>1. /\ TypeInv /\ UNCHANGED <<partial, sidecar>>
      /\ \A p \in Fingerprints : Sound(p)
  BY SoundFacts DEF IInv, Others, Edit, OthersCreate, OthersRemove
<1>2. ASSUME NEW p \in Fingerprints
      PROVE  Sound(p)'
  <2>1. CASE Edit
    <3>1. sidecar[p].metadata # NoMetadata
            => /\ sidecar[p].metadata.mtime \in Nat
               /\ sidecar[p].metadata.mtime <= source.mtime
      BY <1>1 DEF IInv, TimesPassed, TypeInv, Shape, Sidecars, AllMetadata
    <3>2. source'.mtime = source.mtime + 1 /\ source.mtime \in Nat
      BY <1>1, <2>1 DEF Edit, TypeInv, Shape
    <3> QED
      BY <1>1, <3>1, <3>2 DEF Sound
  <2>2. CASE OthersCreate
    <3>1. partial[p] # NoFile => file'[partial[p]] = file[partial[p]]
      BY <1>1, <2>2 DEF OthersCreate, Unused, TypeInv, Shape, FileOrNone
    <3>2. source' = source
      BY <2>2 DEF OthersCreate
    <3> QED
      BY <1>1, <3>1, <3>2 DEF Sound
  <2>3. CASE OthersRemove
    BY <1>1, <2>3 DEF OthersRemove, Sound
  <2> QED
    BY <2>1, <2>2, <2>3 DEF Others
<1> QED
  BY <1>2, SoundFacts

LEMMA IInvNext ==
  ASSUME OneAtATime, NothingIsLost
  PROVE  IInv /\ [Next]_vars => IInv'
<1> SUFFICES ASSUME IInv, [Next]_vars PROVE IInv'
  OBVIOUS
<1>1. TypeInv' /\ Apart' /\ TimesPassed'
  BY TypeNext, ApartNext, TimesNext DEF IInv
<1>2. CASE UNCHANGED vars
  <2>1. PartialIsPrefix'
    BY <1>2 DEF vars, IInv, PartialIsPrefix
  <2>2. ASSUME NEW t \in Transfers
        PROVE  Stage(t)'
    BY <1>2 DEF vars, IInv, Stage, NamesKnown, SizeKnown, DigestKnown, PartialOf,
                SidecarOf, Expected, Content, Fresh
  <2> QED
    BY <1>1, <2>1, <2>2 DEF IInv
<1>3. ASSUME NEW t \in Transfers, Prepare(t) \/ Receive(t) \/ Finalize(t) \/ Stop(t)
      PROVE  IInv'
  <2>1. Stage(t)'
    BY <1>3, PrepareStage, ReceiveStage, FinalizeStage
  <2>2. \A u \in Transfers : u = t
    BY DEF OneAtATime
  <2>3. \A u \in Transfers : Stage(u)'
    BY <2>1, <2>2
  <2> QED
    BY <1>1, <1>3, <2>3, TransferFiles DEF IInv
<1>4. CASE Others
  BY <1>1, <1>4, OthersStage, OthersFiles DEF IInv
<1> QED
  BY <1>2, <1>3, <1>4 DEF Next

LEMMA IInvAlways ==
  ASSUME OneAtATime, NothingIsLost
  PROVE  Spec => []IInv
<1>1. IInv /\ [Next]_vars => IInv'
  BY IInvNext
<1> QED
  BY <1>1, IInvInit, PTL DEF Spec

\* The steps of a transfer that change the destination.
LEMMA DestinationSteps ==
  ASSUME [Next]_vars, dest' # dest
  PROVE  \/ \E t \in Transfers : Clear(t) \/ Rename(t)
         \/ OthersCreate \/ OthersRemove
  BY DEF Next, vars, Prepare, Begin, Resolve, TakeFingerprint, Inspect, Resume, Discard,
         DiscardSidecar, DiscardLoneSidecar, CreateSidecar, WriteSidecar, CreatePartial,
         Receive, Open, ReceiveBlock, ReceiveEnds, Finalize, Recheck, Verify, Cleanup,
         Stop, Others, Edit

\* What is ready at the end of an attempt.
LEMMA ReadyFacts ==
  ASSUME IInv, NEW t \in Transfers, xfer[t].pc \in {"clear", "rename"}
  PROVE  /\ PartialOf(t) \in Files /\ PartialOf(t) # dest
         /\ file[PartialOf(t)] = xfer[t].hashed /\ xfer[t].hashed \in versions
<1>1. /\ TypeInv /\ Apart /\ PartialOf(t) # NoFile
      /\ Content(t) = xfer[t].hashed /\ xfer[t].hashed \in versions
  BY DEF IInv, Stage, NamesKnown, DigestKnown, ThereAt, OpenedAt, WholeAt
<1>2. xfer[t].print \in Fingerprints
  BY <1>1, ExpectedFacts DEF Early
<1>3. PartialOf(t) \in Files /\ PartialOf(t) # dest
  BY <1>1, <1>2 DEF PartialOf, TypeInv, Shape, FileOrNone, Apart
<1> QED
  BY <1>1, <1>3 DEF Content

\* A destination is taken away only at the end of an attempt, when one whole
\* version of the source is at the partial path.
THEOREM ReplacementIsReady ==
  ASSUME OneAtATime, NothingIsLost
  PROVE  Spec => ReplacementReady
<1>1. IInv /\ [Next]_vars =>
        [dest # NoFile /\ dest' # dest /\ ~OthersRemove =>
           \E t \in Transfers : /\ xfer[t].pc \in {"clear", "rename"}
                                /\ PartialOf(t) # NoFile
                                /\ file[PartialOf(t)] \in versions]_vars
  <2> SUFFICES ASSUME IInv, [Next]_vars, dest # NoFile, dest' # dest, ~OthersRemove
               PROVE  \E t \in Transfers : /\ xfer[t].pc \in {"clear", "rename"}
                                           /\ PartialOf(t) # NoFile
                                           /\ file[PartialOf(t)] \in versions
    OBVIOUS
  <2>1. PICK t \in Transfers : Clear(t) \/ Rename(t)
    BY DestinationSteps DEF OthersCreate
  <2>2. xfer[t].pc \in {"clear", "rename"}
    BY <2>1 DEF Clear, Rename, At
  <2>3. PartialOf(t) # NoFile /\ file[PartialOf(t)] \in versions
    BY <2>2, ReadyFacts
  <2> QED
    BY <2>2, <2>3
<1> QED
  BY <1>1, IInvAlways, PTL DEF Spec, ReplacementReady

\* What the rename puts at the destination is what was hashed while it arrived,
\* although the partial file is not read again.
THEOREM DestinationIsVerified ==
  ASSUME OneAtATime, NothingIsLost
  PROVE  Spec => DestinationMatches
<1>1. IInv /\ [Next]_vars =>
        [\A t \in Transfers : xfer[t].pc = "rename" /\ xfer'[t].pc = "cleanup"
           => file[dest'] = xfer[t].hashed]_vars
  <2> SUFFICES ASSUME IInv, [Next]_vars, NEW t \in Transfers,
                      xfer[t].pc = "rename", xfer'[t].pc = "cleanup"
               PROVE  file[dest'] = xfer[t].hashed
    OBVIOUS
  <2>1. \A u \in Transfers : u = t
    BY DEF OneAtATime
  <2>2. TypeInv /\ xfer' # xfer
    BY DEF IInv
  <2>3. ~Stop(t)
    BY <2>2, ReturnMoves DEF Stop, Idle, TypeInv, Shape
  <2>4. Rename(t)
    <3>1. ~Others /\ ~UNCHANGED vars
      BY <2>2 DEF Others, Edit, OthersCreate, OthersRemove, vars
    <3>2. ~Prepare(t) /\ ~Receive(t)
      BY DEF Prepare, Begin, Resolve, TakeFingerprint, Inspect, Resume, Discard,
             DiscardSidecar, DiscardLoneSidecar, CreateSidecar, WriteSidecar,
             CreatePartial, Receive, Open, ReceiveBlock, ReceiveEnds, At
    <3> QED
      BY <2>1, <2>3, <3>1, <3>2 DEF Next, Finalize, Recheck, Verify, Clear, Cleanup, At
  <2> QED
    BY <2>4, ReadyFacts DEF Rename
<1> QED
  BY <1>1, IInvAlways, PTL DEF Spec, DestinationMatches
-----------------------------------------------------------------------------
(* Publication *)

Shown == IF dest = NoFile THEN NoFile ELSE file[dest]

\* A download is a Publication whose rename may replace a destination: what it
\* shows is nothing, what others put there, or one whole version the source had.
THEOREM DownloadPublishes ==
  ASSUME OneAtATime, NothingIsLost
  PROVE  Spec => ImplementsPublication
<1>1. Init => Published!Init
  BY DEF Init, Published!Init
<1>2. IInv /\ [Next]_vars => [Published!Next]_<<versions, Shown>>
  <2> SUFFICES ASSUME IInv, [Next]_vars
               PROVE  Published!Next \/ UNCHANGED <<versions, Shown>>
    BY DEF Shown
  <2> USE DEF Shown
  <2>1. TypeInv
    BY DEF IInv
  <2>2. ASSUME versions' = versions, dest' = dest,
               dest # NoFile => file'[dest] = file[dest]
        PROVE  UNCHANGED <<versions, Shown>>
    BY <2>2
  <2>3. ASSUME versions' = versions, dest # NoFile, dest' = NoFile
        PROVE  Published!Next \/ UNCHANGED <<versions, Shown>>
    BY <2>3 DEF Published!Next, Published!Vacate
  <2>4. CASE Edit
    <3>1. PICK c \in Contents : versions' = versions \cup {c}
      BY <2>4 DEF Edit
    <3>2. UNCHANGED Shown
      BY <2>4 DEF Edit
    <3> QED
      BY <3>1, <3>2 DEF Published!Next, Published!Edit
  <2>5. CASE OthersCreate
    <3>1. PICK f \in Unused : dest' = f /\ file' = [file EXCEPT ![f] = Foreign]
      BY <2>5 DEF OthersCreate
    <3>2. f \in Files /\ f # NoFile
      BY <3>1 DEF Unused
    <3>3. file'[f] = Foreign
      BY <2>1, <3>1, <3>2 DEF TypeInv, Shape
    <3>4. dest = NoFile /\ versions' = versions
      BY <2>5 DEF OthersCreate
    <3> QED
      BY <3>1, <3>2, <3>3, <3>4 DEF Published!Next, Published!Occupy
  <2>6. CASE OthersRemove
    BY <2>3, <2>6 DEF OthersRemove
  <2>7. ASSUME NEW t \in Transfers, Rename(t)
        PROVE  Published!Publish
    <3>1. xfer[t].pc = "rename"
      BY <2>7 DEF Rename, At
    <3>2. /\ PartialOf(t) \in Files /\ xfer[t].hashed \in versions
          /\ file[PartialOf(t)] = xfer[t].hashed
      BY <3>1, ReadyFacts
    <3> QED
      BY <2>7, <3>2 DEF Rename, Published!Publish
  <2>8. ASSUME NEW t \in Transfers, Clear(t)
        PROVE  Published!Next \/ UNCHANGED <<versions, Shown>>
    BY <2>2, <2>3, <2>8 DEF Clear
  <2>9. ASSUME NEW t \in Transfers, CreatePartial(t)
        PROVE  UNCHANGED <<versions, Shown>>
    BY <2>1, <2>2, <2>9 DEF CreatePartial, Unused, TypeInv, Shape, FileOrNone
  <2>10. ASSUME NEW t \in Transfers, ReceiveBlock(t)
         PROVE  UNCHANGED <<versions, Shown>>
    <3>1. /\ xfer[t].print \in Fingerprints /\ xfer[t].handle = PartialOf(t)
          /\ PartialOf(t) # NoFile /\ versions' = versions /\ dest' = dest
      BY <2>1, <2>10, ExpectedFacts DEF ReceiveBlock, At, Early, IInv, Stage, NamesKnown,
           SizeKnown, ThereAt, OpenedAt
    <3>2. PartialOf(t) # dest
      BY <3>1 DEF IInv, Apart, PartialOf
    <3>3. dest # NoFile => file'[dest] = file[dest]
      BY <2>1, <2>10, <3>1, <3>2 DEF ReceiveBlock, TypeInv, Shape, FileOrNone
    <3> QED
      BY <2>2, <3>1, <3>3
  <2>11. ASSUME NEW t \in Transfers, Prepare(t) \/ Receive(t) \/ Finalize(t) \/ Stop(t)
         PROVE  \/ Rename(t) \/ Clear(t) \/ CreatePartial(t) \/ ReceiveBlock(t)
                \/ UNCHANGED <<versions, dest, file>>
    <3>1. CASE Stop(t)
      BY <2>1, <3>1, StopFiles DEF NothingIsLost, Stop
    <3> QED
      BY <2>11, <3>1 DEF Prepare, Begin, Resolve, TakeFingerprint, Inspect, Resume,
           Discard, DiscardSidecar, DiscardLoneSidecar, CreateSidecar, WriteSidecar,
           Receive, Open, ReceiveEnds, Finalize, Recheck, Verify, Cleanup
  <2>12. CASE UNCHANGED <<versions, dest, file>>
    BY <2>12
  <2> QED
    BY <2>4, <2>5, <2>6, <2>7, <2>8, <2>9, <2>10, <2>11, <2>12
       DEF Next, Others, vars, Published!Next
<1> QED
  BY <1>1, <1>2, IInvAlways, PTL
     DEF Spec, ImplementsPublication, Published!Spec, Shown
=============================================================================
