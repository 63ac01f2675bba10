----------------------------- MODULE MCPipeline -----------------------------
(* Three inputs overflow the packet queue; two updates, the update channel. *)
EXTENDS Pipeline
=============================================================================
