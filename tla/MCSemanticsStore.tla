-------------------------- MODULE MCSemanticsStore --------------------------
(* Small instances of SemanticsStore for TLC. *)
EXTENDS SemanticsStore, TLC

CONSTANTS p1, p2, twin1, twin2, code

\* Two accounts with the same code, one of them verified; the other may be looked
\* up before it has any.
MCCodeOf == [a \in {twin1, twin2} |-> IF a = twin1 THEN {code} ELSE {code, Zero}]

MCSymmetry == Permutations({p1, p2})

\* The second account was met without code.
MetWithoutCode ==
  \/ \E p \in Instance : desc[p] # Null /\ desc[p].contract = Zero
  \/ Zero \in dropped \/ ~Absent(contracts[Zero])

\* Bound: no document is there twice once a contract document was deleted, or
\* where the second account is met without code.
MCOneCopy ==
  dropped # {} \/ MetWithoutCode =>
    /\ \A h \in Hash : Cardinality({q \in Instance : contracts[h][q] # Null}) <= 1
    /\ \A a \in Account : Cardinality({q \in Instance : addresses[a][q] # Null}) <= 1

\* Bound: there the first account is not used.
MCOneAccount ==
  MetWithoutCode =>
    /\ Absent(addresses[twin1])
    /\ \A p \in Instance : subject[p] # twin1 /\ addressCache[p][twin1] = Miss
=============================================================================
