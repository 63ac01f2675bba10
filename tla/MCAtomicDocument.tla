-------------------------- MODULE MCAtomicDocument --------------------------
(* Model values for AtomicDocument: three documents are enough for the three
   generations (committed, previous, in progress) the properties tell apart. *)
EXTENDS AtomicDocument

CONSTANTS d1, d2, d3

Documents == {d1, d2, d3}
=============================================================================
