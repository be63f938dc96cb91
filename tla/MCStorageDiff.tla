----------------------------- MODULE MCStorageDiff -----------------------------
(***************************************************************************)
(* A contract with a variable of every kind of type the layout may have.   *)
(***************************************************************************)
EXTENDS StorageDiff

V(l, s, o, t) == Member(l, s, o, t)
uint  == Leaf("uint256", 32)
half  == Leaf("uint128", 16)
bool  == Leaf("bool", 1)
list  == Array("uint256[]", 0)
three == Array("uint256[3]", 3)
point == Struct({V("x", 0, 0, half), V("y", 0, 16, half), V("z", 1, 0, uint)}, 2)
inner == Struct({V("b", 0, 0, uint), V("c", 1, 0, uint)}, 2)
outer == Struct({V("a", 0, 0, uint), V("in", 1, 0, inner)}, 3)
role  == Struct({V("members", 0, 0, Map("address", bool)), V("admin", 1, 0, uint)}, 2)
book  == Struct({V("size", 0, 0, uint), V("lines", 1, 0, Map("bytes32", point))}, 2)
log   == Struct({V("lines", 0, 0, Map("bytes32", list)), V("marks", 1, 0, Map("address", list))}, 2)
MCTypeLevels == <<
  {uint, half, bool, list, three},
  {point, inner, Map("address", uint), Map("address", bool), Map("address", list), Map("address", three),
   Map("bool", uint), Map("bytes32", list)},
  {outer, role, log, Map("bytes32", point), Map("uint256", point), Map("address", Map("address", uint))},
  {book, Map("uint256", log), Map("bytes32", role), Map("address", outer)},
  {Map("uint256", book)}>>

MCVariables == {
  V("supply", 0, 0, half), V("paused", 0, 16, bool),
  V("balances", 1, 0, Map("address", uint)), V("flags", 2, 0, Map("bool", uint)),
  V("points", 3, 0, Map("uint256", point)),
  V("allowed", 4, 0, Map("address", Map("address", uint))),
  V("origin", 5, 0, point), V("list", 7, 0, list),
  V("roles", 8, 0, Map("bytes32", role)), V("triples", 9, 0, Map("address", three)),
  V("outers", 10, 0, Map("address", outer)), V("logs", 12, 0, Map("uint256", log)),
  V("books", 13, 0, Map("uint256", book))}

MCCells == {<<0>>, <<1, 1, 0>>, <<1, 2, 0>>, <<2, 0, 0>>, <<2, 1, 0>>, <<3, 1, 0>>, <<3, 1, 1>>,
  <<3, 2, 1>>, <<4, 1, 0, 2, 0>>, <<4, 2, 0, 2, 0>>, <<5>>, <<6>>, <<7>>, <<7, None, 0>>, <<7, None, 19>>,
  <<7, None, 20>>, <<8, 1, 0, 2, 0>>, <<8, 1, 1>>, <<9, 1, 0>>, <<9, 1, 1>>, <<10, 1, 1>>,
  <<10, 1, 2>>, <<11, 1, 0>>,
  <<12, 1, 0, 2, 0, None, 0>>, <<12, 1, 1, 2, 0, None, 0>>,
  <<13, 1, 0>>, <<13, 1, 1, 2, 1>>}

Word(lo, hi) == {<<0, lo>>, <<16, hi>>} \ {<<0, 0>>, <<16, 0>>}
MCChanges == {[original |-> Word(1, 1), dirty |-> Word(a, b)] : a, b \in {0, 1}}
               \ {[original |-> Word(1, 1), dirty |-> Word(a, a)] : a \in {0, 1}}
MCShortHashes == {<<3, 2, 0>>}

\* The theorems about what is shown are about such layouts.
ASSUME SimpleStructs
=============================================================================
