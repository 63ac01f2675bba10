----------------------------- MODULE AccountStore -----------------------------
(***************************************************************************)
(* What the running program promises of the account's data, to the user    *)
(* who edits them and to the process that comes after it: nothing is       *)
(* stored that was not known, what is known and not stored is marked, the  *)
(* stored data never go back, a successor is started only when they are    *)
(* all that is known, every edit among it, and then nothing is written     *)
(* over them.                                                              *)
(***************************************************************************)
EXTENDS Naturals

VARIABLES
    given,   \* edits the user made
    known,   \* what the program knows: the edits taken in, and how much it was told
    stored,  \* what is on disk of it
    marked,  \* some of it may not be
    life     \* of the process: "open", "leaving", and then "replaced" or "ended"

vars == <<given, known, stored, marked, life>>

Data == [edits : Nat, live : Nat]

Init ==
    /\ given = 0 /\ known = [edits |-> 0, live |-> 0]
    /\ stored = known /\ ~marked /\ life = "open"

Running == life \in {"open", "leaving"}

Edit ==
    /\ life = "open" /\ given' = given + 1
    /\ UNCHANGED <<known, stored, marked, life>>

(* One edit more, or news of the account; no edit that the user did not make. *)
Grows ==
    /\ known' \in Data
    /\ known'.edits \in {known.edits, known.edits + 1} /\ known'.edits <= given
    /\ known'.live >= known.live

Learn ==
    /\ Running /\ Grows /\ marked'
    /\ UNCHANGED <<given, stored, life>>

Save ==
    /\ Running /\ stored' = known /\ ~marked'
    /\ UNCHANGED <<given, known, life>>

(* The last save takes in what comes with the shutdown. *)
LastSave ==
    /\ life = "leaving" /\ Grows /\ stored' = known'
    /\ marked' = (marked \/ known' # known)
    /\ UNCHANGED <<given, life>>

Leave ==
    /\ life = "open" /\ life' = "leaving"
    /\ UNCHANGED <<given, known, stored, marked>>

Replace ==
    /\ life = "leaving" /\ stored = known /\ known.edits = given /\ life' = "replaced"
    /\ UNCHANGED <<given, known, stored, marked>>

End ==
    /\ Running /\ life' = "ended"
    /\ UNCHANGED <<given, known, stored, marked>>

Next == Edit \/ Learn \/ Save \/ LastSave \/ Leave \/ Replace \/ End

Spec == Init /\ [][Next]_vars
=============================================================================
