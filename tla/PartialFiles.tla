---------------------------- MODULE PartialFiles ----------------------------
(***************************************************************************)
(* What uploads and downloads share about resumable files: partial.go and  *)
(* the digest of a prefix.                                                 *)
(*                                                                         *)
(* A content is a sequence of blocks and its own digest, and prefixLimit   *)
(* is one block.  A partial path depends on the destination, the size and  *)
(* the prefix digest of the source: for one destination it is one path per *)
(* fingerprint.                                                            *)
(***************************************************************************)
EXTENDS Naturals, Sequences

CONSTANTS Contents,    \* contents the source may have
          NoMetadata   \* read from a metadata file that is not complete

Prefix(content, n) == SubSeq(content, 1, IF n < 1 THEN n ELSE 1)

Fingerprints == {[size |-> Len(c), prefix |-> Prefix(d, Len(d))] :
                   c \in Contents, d \in Contents}

\* Metadata that is not complete tells nothing: it is no metadata.
ASSUME MetadataAssumption == NoMetadata \notin [print : Fingerprints, mtime : Nat]

NoPrint == [size |-> 0, prefix |-> <<>>]

Metadata(print, mtime) == [print |-> print, mtime |-> mtime]

\* Fault: the modification time is not part of the comparison.
ResumeCompatibleAnyTime(expected, stored, partialSize) ==
  /\ stored # NoMetadata
  /\ stored.print = expected.print
  /\ partialSize <= expected.print.size

ResumeCompatible(expected, stored, partialSize) ==
  /\ stored = expected
  /\ partialSize <= expected.print.size

\* Block n of a file is written: it is replaced, or the file grows by it.
Written(content, n, block) ==
  IF n <= Len(content) THEN [content EXCEPT ![n] = block]
                       ELSE Append(content, block)
=============================================================================
