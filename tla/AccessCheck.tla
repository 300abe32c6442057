----------------------------- MODULE AccessCheck -----------------------------
(***************************************************************************)
(* The check of internal/access/access.go whether an account can read a    *)
(* path of the server, one component at a time, from what Lstat tells.     *)
(*                                                                         *)
(* An entry is a record with its kind, uid, gid and mode, and Grants says  *)
(* what a mode lets its owner, its group and others do; an account has a   *)
(* uid and the groups it is in.                                            *)
(***************************************************************************)
CONSTANTS Grants,  \* function: of a mode, what it lets owner, group, other do
          RootUid  \* the uid no permission stops

\* allowedBits: the first class the account belongs to decides alone.
AllowedBits(entry, who) ==
  IF who.uid = entry.uid THEN Grants[entry.mode].owner
  ELSE IF entry.gid \in who.groups THEN Grants[entry.mode].group
  ELSE Grants[entry.mode].other

\* What a component must allow: to pass through it, or to read the last one.
Required(entry, last) ==
  IF ~last THEN {"traverse"}
  ELSE IF entry.kind = "directory" THEN {"read", "traverse"} ELSE {"read"}

\* A missing component and a symbolic link end the check.
Inspectable(entry) == entry.kind \in {"file", "directory"}

Allowed(entry, who, last) ==
  who.uid = RootUid \/ Required(entry, last) \subseteq AllowedBits(entry, who)
=============================================================================
