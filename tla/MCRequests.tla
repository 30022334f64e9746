----------------------------- MODULE MCRequests -----------------------------
(* Values of IdempotentRequests' parameters for TLC. *)
EXTENDS IdempotentRequests, TLC

CONSTANTS r1, r2, r3
=============================================================================
