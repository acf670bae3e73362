---------------------------- MODULE MCOutboxRelay ----------------------------
(***************************************************************************)
(* OutboxRelay for TLC: workers and keys are interchangeable model values. *)
(***************************************************************************)
EXTENDS OutboxRelay, TLC

Symmetry == Permutations(Workers) \cup Permutations(Keys)

=============================================================================
