----------------------------- MODULE MCOutbox -----------------------------
(* Values of Outbox's parameters for TLC. *)
EXTENDS Outbox, TLC

CONSTANTS r1, r2, audit, email

\* Event 1 has handlers, event 2 is of a type nobody registered for.
AuditAndEmail == [e \in Events |-> IF e = 1 THEN {audit, email} ELSE {}]
EmailOnly == [e \in Events |-> IF e = 1 THEN {email} ELSE {}]

RelaySymmetry == Permutations({r1, r2})
=============================================================================
