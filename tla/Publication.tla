---------------------------- MODULE Publication ----------------------------
(***************************************************************************)
(* What a file transfer promises about its destination: it shows nothing,  *)
(* a file somebody else put there, or one complete version the source had; *)
(* never a part of a version or a mix of two.  Where the rename does not   *)
(* replace an existing file, what the destination shows does not change    *)
(* unless it has been free in between.                                     *)
(***************************************************************************)
CONSTANTS Contents,   \* the contents the source may have
          Foreign,    \* the content of a file the transfer did not write
          Absent,     \* shown by a destination that does not exist
          Replacing   \* the final rename replaces an existing destination

VARIABLES versions,  \* the contents the source has had so far
          final      \* what the destination shows

Init == /\ versions \in {{c} : c \in Contents}
        /\ final = Absent

Edit == /\ \E c \in Contents : versions' = versions \cup {c}
        /\ UNCHANGED final

Publish == /\ final = Absent \/ Replacing
           /\ final' \in versions
           /\ UNCHANGED versions

Vacate == /\ final # Absent
          /\ final' = Absent
          /\ UNCHANGED versions

Occupy == /\ final = Absent
          /\ final' = Foreign
          /\ UNCHANGED versions

Next == Edit \/ Publish \/ Vacate \/ Occupy

Spec == Init /\ [][Next]_<<versions, final>>
=============================================================================
