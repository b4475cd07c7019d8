--------------------------- MODULE MCProvisioning ---------------------------
(* A small exchange for TLC. *)
EXTENDS Provisioning, TLC

Symmetry == Permutations(Key) \cup Permutations(Number) \cup Permutations(Token)
              \cup Permutations(Conn)
=============================================================================
