-------------------------------- MODULE MCTokens --------------------------------
(* Nine tokens, and the anonymous events of semantics/protocols/anonymous.py   *)
(* with one that has a number in third place.                                  *)
EXTENDS Tokens

Token(indexed, abi, bytes, decimals, strings) ==
  [indexed |-> indexed, abi |-> abi, bytes |-> bytes,
   decimals |-> decimals, strings |-> strings]

MCNatures == {
  Token(2, "ERC20", TRUE, TRUE, TRUE),
  Token(0, "ERC20", TRUE, TRUE, TRUE),     \* nothing indexed
  Token(2, "ERC20", TRUE, TRUE, FALSE),    \* bytes32 names
  Token(2, "ERC20", TRUE, FALSE, TRUE),    \* without decimals()
  Token(2, "other", TRUE, TRUE, TRUE),     \* without totalSupply()
  Token(2, "ERC20", FALSE, TRUE, TRUE),    \* another compiler's byte code
  Token(3, "ERC721", FALSE, FALSE, TRUE),
  Token(0, "ERC20", TRUE, FALSE, TRUE),    \* early NFTs, with ERC20's functions
  Token(0, "other", TRUE, TRUE, TRUE)}

LogCall == [indexed |-> 2, number |-> FALSE]
LogNote == [indexed |-> 4, number |-> FALSE]
Booking == [indexed |-> 2, number |-> TRUE]

MCNotes == {LogCall, LogNote, Booking}
=============================================================================
