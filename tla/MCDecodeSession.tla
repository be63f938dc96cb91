--------------------------- MODULE MCDecodeSession ---------------------------
(* A small instance of DecodeSession for TLC: one process. *)
EXTENDS DecodeSession

CONSTANTS contract, eoa, hash

\* A contract, which has no code before it is deployed, and an EOA.
MCCodeOf == [a \in {contract, eoa} |-> IF a = eoa THEN {Zero} ELSE {hash, Zero}]

\* A decode that looks one account up twice, and one that looks up both.
MCPlan == {<<contract, contract>>, <<contract, eoa>>}
=============================================================================
