------------------------------ MODULE Relocation ------------------------------
(***************************************************************************)
(* What flat-layout migration promises whoever reads the account's data:   *)
(* the flat files are authoritative until, in one step, their copies are,  *)
(* all of them complete; and an original goes only after that step, and    *)
(* only while another complete copy of it exists.                          *)
(***************************************************************************)
CONSTANT Source

VARIABLES
    authority,  \* "flat" or "copies"
    safe,       \* sources with a complete copy besides the original
    retired     \* sources whose original is gone from the flat layout

vars == <<authority, safe, retired>>

Init == /\ authority = "flat"
        /\ safe \subseteq Source
        /\ retired = {}

(* Copies come and go while the originals are there. *)
Copy == /\ safe' \subseteq Source
        /\ retired \cap safe \subseteq safe'
        /\ UNCHANGED <<authority, retired>>

Switch == /\ authority = "flat"
          /\ safe = Source
          /\ authority' = "copies"
          /\ UNCHANGED <<safe, retired>>

Retire(i) == /\ authority = "copies"
             /\ i \in safe'
             /\ safe' \in {safe, safe \cup {i}}
             /\ retired' = retired \cup {i}
             /\ UNCHANGED authority

Next == Copy \/ Switch \/ \E i \in Source : Retire(i)

Spec == Init /\ [][Next]_vars
=============================================================================
