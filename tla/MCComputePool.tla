--------------------------- MODULE MCComputePool ---------------------------
(* Model values for ComputePool: machines, sessions and requests are named in the cfg. *)
EXTENDS ComputePool
=============================================================================
