-------------------------- MODULE MCSignatureStore --------------------------
(* A small instance of SignatureStore for TLC. *)
EXTENDS SignatureStore, TLC

CONSTANTS p1, p2, transfer, target, pause

MCSymmetry == Permutations({p1, p2})
=============================================================================
