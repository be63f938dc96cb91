------------------------------ MODULE MCCallNames ------------------------------
(* Four text signatures with one hash, in pages of one. *)
EXTENDS CallNames

CONSTANTS s1, s2, s3, s4

Call(to, type, data, abi, fits) ==
  [to |-> to, type |-> type, data |-> data, abi |-> abi, fits |-> fits]

Guessed == {Call("contract", "call", "selector", {}, fits) :
              fits \in {{s1, s2}, {s2, s3}, {}}}

MCCalls == Guessed
  \cup {Call("contract", "call", "selector", {a, "standard"}, {}) : a \in {"own", "delegate", "standard"}}
  \cup {Call("contract", "call", "empty", {}, {}), Call("contract", "create2", "selector", {}, {}),
        Call("account", "selfdestruct", "none", {}, {}), Call("account", "call", "none", {}, {}),
        Call("contract", "event", "selector", {}, Texts), Call("contract", "event", "selector", {"own"}, {}),
        Call("precompile", "call", "selector", {}, {})}
=============================================================================
