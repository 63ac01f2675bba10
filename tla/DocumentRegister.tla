-------------------------- MODULE DocumentRegister --------------------------
(***************************************************************************)
(* What storage/atomic.rs promises its callers: a document is a register.  *)
(* A write is pending until it either takes effect as a whole or has no    *)
(* effect; nothing else changes what a load returns.                       *)
(***************************************************************************)
CONSTANTS
    Value,   \* documents
    Missing  \* no document

VARIABLES
    stored,  \* what a load returns
    pending  \* the write in progress, Missing when there is none

vars == <<stored, pending>>

Init == stored = Missing /\ pending = Missing

Begin(v) ==
    /\ pending = Missing
    /\ pending' = v
    /\ UNCHANGED stored

Commit ==
    /\ pending # Missing
    /\ stored' = pending
    /\ pending' = Missing

(* The call failed, or the process was killed before the commit point. *)
Abort ==
    /\ pending # Missing
    /\ pending' = Missing
    /\ UNCHANGED stored

Next == (\E v \in Value : Begin(v)) \/ Commit \/ Abort

Spec == Init /\ [][Next]_vars
=============================================================================
