----------------------------- MODULE MCParameters -----------------------------
(***************************************************************************)
(* All lists of up to two parameters of the types below, and some of three.*)
(***************************************************************************)
EXTENDS Parameters

P(b, ds, cs) == [base |-> b, dims |-> ds, components |-> cs]
uint  == P("uint", <<>>, <<>>)
int   == P("int", <<>>, <<>>)
bytes == P("bytes", <<>>, <<>>)
pair  == P("uint", <<2>>, <<>>)

Flat == {P(b, <<>>, <<>>) : b \in {"uint", "int", "bytes"}}
  \cup {P("uint", ds, <<>>) : ds \in {<<0>>, <<2>>, <<2, 2>>, <<0, 2>>, <<2, 0>>, <<0, 0>>}}
  \cup {P("bytes", ds, <<>>) : ds \in {<<0>>, <<2>>}}

Inner == {P("tuple", <<>>, cs) : cs \in {<<uint, int>>, <<uint, bytes>>, <<pair, uint>>}}
Structs == {P("tuple", ds, cs) :
  ds \in {<<>>, <<0>>, <<2>>},
  cs \in {<<uint, int>>, <<uint, bytes>>, <<P("bytes", <<2>>, <<>>)>>}
           \cup {<<t>> \o r : t \in Inner, r \in {<<>>, <<uint>>}}
           \cup {<<pair, t>> : t \in Inner}}

Types == Flat \cup Structs
MCSignatures ==
  {<<>>, <<P("raw", <<>>, <<>>)>>} \cup {<<t>> : t \in Types} \cup {<<t, u>> : t, u \in Types}
    \cup {<<t, u, uint>> : t, u \in Flat}
=============================================================================
