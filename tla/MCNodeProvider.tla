--------------------------- MODULE MCNodeProvider ---------------------------
(***************************************************************************)
(* Two nodes of one chain, in the order of the configuration, and one node *)
(* of another chain, whose heads do not move.                              *)
(***************************************************************************)
EXTENDS NodeProvider

CONSTANTS main, side, elsewhere, n1, n2, n3

MCNodes    == [c \in {main, side} |-> IF c = main THEN <<n1, n2>> ELSE <<n3>>]
MCKinds    == [n \in {n1, n2, n3} |-> CASE n = n1 -> {"steady", "rejecting", "flaky"}
                                     [] n = n2 -> {"steady", "rejecting"}
                                     [] n = n3 -> {"steady"}]
MCMaxHeads == [c \in {main, side} |-> IF c = main THEN 2 ELSE 1]
=============================================================================
