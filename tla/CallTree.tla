------------------------------ MODULE CallTree ------------------------------
(***************************************************************************)
(* What DecoderService and ABIDecoder make of the calls of one             *)
(* transaction, pass after pass: the tree of W3CallTree objects built from *)
(* the trace, the delegations between its accounts, the tree of decoded    *)
(* calls, the ether transfers and balances, and at last the tree without   *)
(* chains of delegatecalls.                                                *)
(*                                                                         *)
(* Each pass walks the tree with a worklist, or recursively, which is a    *)
(* worklist taken from the front.  One step is one element of it.          *)
(* Function names, arguments, events and tokens are left out.  Every       *)
(* decoded call has status TRUE: _decode_nested_calls passes down what     *)
(* decode started with, and the status of the call itself is not looked    *)
(* at; so a failed call is a call like any other here.                     *)
(***************************************************************************)
EXTENDS Integers, Sequences, SequencesExt

CONSTANTS
  MaxCalls,  \* bound: calls below the root call
  Address,   \* accounts
  Origin,    \* the account that sent the transaction
  ZeroAddr,  \* ZERO_ADDRESS
  Amount,    \* the amounts of ether a call may carry
  None       \* no call

ASSUME TreeAssumption ==
  /\ MaxCalls \in Nat
  /\ Origin \in Address \ {ZeroAddr} /\ ZeroAddr \in Address
  /\ Amount \subseteq Nat /\ 0 \in Amount
  /\ None \notin Nat

Call == 0 .. MaxCalls

\* A transaction: its calls, each below an earlier one and after its earlier
\* siblings; a delegatecall carries no ether.
OfSize(n) ==
  {t \in [size : {n}, parent : [1 .. n -> 0 .. n - 1], to : [0 .. n -> Address],
          type : [0 .. n -> {"call", "delegatecall"}], value : [0 .. n -> Amount]] :
     /\ t.type[0] = "call"
     /\ \A c \in 1 .. n : /\ t.parent[c] < c
                          /\ t.type[c] = "delegatecall" => t.value[c] = 0}

Transaction == UNION {OfSize(n) : n \in 0 .. MaxCalls}

VARIABLES
  tx,           \* the transaction
  phase,        \* the pass under way
  work,         \* what that pass has still to visit
  later,        \* new_call_tree: what its next round visits
  subcalls,     \* W3CallTree.calls, and Call.subcalls made from it
  delegations,  \* get_delegations: delegator -> delegates, <<>> for no key
  decoded,      \* DecodedCall.subcalls
  id,           \* DecodedCall.call_id, as the indices it is made of
  worth,        \* DecodedCall.value
  transfers,    \* the ether transfers
  sheet         \* balance_sheet, for ether

vars == <<tx, phase, work, later, subcalls, delegations, decoded, id, worth, transfers, sheet>>

Calls == 0 .. tx.size

Below(c) == {k \in 1 .. tx.size : tx.parent[k] = c}

\* The calls of a set in the order they were made.
Ascending ==
  {s \in UNION {[1 .. n -> 1 .. MaxCalls] : n \in 0 .. MaxCalls} :
     \A i, j \in DOMAIN s : i < j => s[i] < s[j]}

Ordered == [calls \in SUBSET (1 .. MaxCalls) |-> CHOOSE s \in Ascending : ToSet(s) = calls]

Kids(c) == Ordered[Below(c)]

\* addFrom: a call is sent by the target of the nearest call above it that is
\* not a delegatecall.
Holder[c \in Calls] == IF tx.type[c] = "delegatecall" THEN Holder[tx.parent[c]] ELSE tx.to[c]

From(c) == IF c = 0 THEN Origin ELSE Holder[tx.parent[c]]

\* The calls below c, to be visited next; index is the position among them.
Entries(c, below) ==
  [i \in DOMAIN below |-> [call |-> below[i], above |-> c, index |-> i]]

Root == <<[call |-> 0, above |-> None, index |-> 0]>>

Init ==
  /\ tx \in Transaction
  /\ phase = "convert" /\ work = <<0>> /\ later = <<>>
  /\ subcalls = [c \in Calls |-> <<>>]
  /\ delegations = [a \in Address |-> <<>>]
  /\ decoded = [c \in Calls |-> <<>>]
  /\ id = [c \in Calls |-> <<>>]
  /\ worth = [c \in Calls |-> 0]
  /\ transfers = <<>>
  /\ sheet = [a \in Address |-> 0]

-----------------------------------------------------------------------------
(***************************************************************************)
(* _create_call_from_debug_trace_tx: level after level; a round goes       *)
(* through the pairs of a parent, whose object exists, and its children.   *)
(***************************************************************************)
\* Of the root's children only those with children of their own are paired.
Paired(c) == Ordered[IF c = 0 THEN {k \in Below(c) : Below(k) # {}} ELSE Below(c)]

\* Mutant of NextRound: the calls found in the last pair of a round are lost.
NextRoundEarly(found) ==
  IF Len(work) = 1 THEN work' = later /\ later' = <<>>
  ELSE work' = Tail(work) /\ later' = later \o found

NextRound(found) ==
  IF Len(work) = 1 THEN work' = later \o found /\ later' = <<>>
  ELSE work' = Tail(work) /\ later' = later \o found

Convert ==
  /\ phase = "convert" /\ work # <<>>
  /\ LET c == Head(work) IN
     /\ subcalls' = [subcalls EXCEPT ![c] = @ \o Kids(c)]
     /\ NextRound(Paired(c))
  /\ UNCHANGED <<tx, phase, delegations, decoded, id, worth, transfers, sheet>>

(***************************************************************************)
(* get_delegations: a queue, filled at its front and popped at its end.    *)
(***************************************************************************)
\* Mutant of Queued: the calls below are put at the end, which is popped next.
QueuedLast(c) == Front(work) \o subcalls[c]

Queued(c) == Reverse(subcalls[c]) \o Front(work)

Delegate ==
  /\ phase = "delegations" /\ work # <<>>
  /\ LET c == Last(work) IN
     /\ work' = Queued(c)
     /\ delegations' =
          IF tx.type[c] = "delegatecall" /\ ~Contains(delegations[From(c)], tx.to[c])
          THEN [delegations EXCEPT ![From(c)] = Append(@, tx.to[c])]
          ELSE delegations
  /\ UNCHANGED <<tx, phase, later, subcalls, decoded, id, worth, transfers, sheet>>

(***************************************************************************)
(* ABICallsDecoder.decode: decode_call for the root, then                  *)
(* _decode_nested_calls.                                                   *)
(***************************************************************************)
\* Mutant of Numbered: a call gets the level of its caller.
NumberedAbove(e) == Append(id[e.above], Len(id[e.above]))

\* "_".join([call.call_id, str(i)]); the root has no id, its subcalls only theirs.
Numbered(e) == Append(id[e.above], e.index - 1)

Decode ==
  /\ phase = "decode" /\ work # <<>>
  /\ LET e == Head(work)  c == e.call IN
     /\ IF e.above = None THEN UNCHANGED <<decoded, id>>
        ELSE /\ decoded' = [decoded EXCEPT ![e.above] = Append(@, c)]
             /\ id' = [id EXCEPT ![c] = Numbered(e)]
     /\ worth' = [worth EXCEPT ![c] = tx.value[c]]
     /\ work' = Entries(c, subcalls[c]) \o Tail(work)
  /\ UNCHANGED <<tx, phase, later, subcalls, delegations, transfers, sheet>>

(***************************************************************************)
(* ABITransfersDecoder.decode for ether, and ABIBalancesDecoder.decode.    *)
(***************************************************************************)
Transfer ==
  /\ phase = "transfers" /\ work # <<>>
  /\ LET c == Head(work) IN
     /\ transfers' =
          IF worth[c] = 0 THEN transfers
          ELSE Append(transfers, [from |-> From(c), to |-> tx.to[c], value |-> worth[c]])
     /\ work' = decoded[c] \o Tail(work)
  /\ UNCHANGED <<tx, phase, later, subcalls, delegations, decoded, id, worth, sheet>>

\* ZERO_ADDRESS holds no balance.
Booked(balances, holder, amount) ==
  IF holder = ZeroAddr THEN balances ELSE [balances EXCEPT ![holder] = @ + amount]

\* Mutant of Book: ether for or from ZERO_ADDRESS is not booked at all.
BookBetween(balances, t) ==
  IF ZeroAddr \in {t.from, t.to} THEN balances
  ELSE Booked(Booked(balances, t.from, -t.value), t.to, t.value)

Book(balances, t) == Booked(Booked(balances, t.from, -t.value), t.to, t.value)

Balance ==
  /\ phase = "balances"
  /\ sheet' = FoldLeft(Book, sheet, transfers)
  /\ phase' = "prune" /\ work' = Root
  /\ UNCHANGED <<tx, later, subcalls, delegations, decoded, id, worth, transfers>>

(***************************************************************************)
(* prune_delegates: a call whose only subcall is a delegatecall gives way  *)
(* to that subcall, which takes its value; so does that one in turn.       *)
(***************************************************************************)
Lone(c) == Len(decoded[c]) = 1 /\ tx.type[decoded[c][1]] = "delegatecall"

\* The calls of such a chain from c on, c first.
Chain[c \in Calls] == IF Lone(c) THEN <<c>> \o Chain[decoded[c][1]] ELSE <<c>>

\* Mutant of ChainFrom: one call gives way at most.
ChainOnce(c) == IF Lone(c) THEN <<c, decoded[c][1]>> ELSE <<c>>

ChainFrom(c) == Chain[c]

Carried(chain) ==
  [c \in Calls |-> IF Contains(chain, c) THEN worth[Head(chain)] ELSE worth[c]]

\* The root itself has no place in a list: what prune_delegates returns for it
\* is not used.
Prune ==
  /\ phase = "prune" /\ work # <<>>
  /\ LET e == Head(work)
         chain == ChainFrom(e.call)
         c == Last(chain)
     IN /\ decoded' = IF e.above = None THEN decoded
                      ELSE [decoded EXCEPT ![e.above][e.index] = c]
        /\ worth' = Carried(chain)
        /\ work' = Entries(c, decoded[c]) \o Tail(work)
  /\ UNCHANGED <<tx, phase, later, subcalls, delegations, id, transfers, sheet>>

-----------------------------------------------------------------------------
(***************************************************************************)
(* The passes follow one another.                                          *)
(***************************************************************************)
Begin(this, next, first) ==
  /\ phase = this /\ work = <<>>
  /\ phase' = next /\ work' = first
  /\ UNCHANGED <<tx, later, subcalls, delegations, decoded, id, worth, transfers, sheet>>

NextPass ==
  \/ Begin("convert", "delegations", <<0>>)
  \/ Begin("delegations", "decode", Root)
  \/ Begin("decode", "transfers", <<0>>)
  \/ Begin("transfers", "balances", <<>>)
  \/ Begin("prune", "done", <<>>)

Finished == phase = "done" /\ UNCHANGED vars

Next == Convert \/ Delegate \/ Decode \/ Transfer \/ Balance \/ Prune \/ NextPass \/ Finished

Spec == Init /\ [][Next]_vars

-----------------------------------------------------------------------------
Passes == <<"convert", "delegations", "decode", "transfers", "balances", "prune", "done">>

Position(pass) == CHOOSE i \in DOMAIN Passes : Passes[i] = pass

After(pass) == Position(phase) > Position(pass)

Entry == [call : Call, above : Call \cup {None}, index : Nat]

TypeOK ==
  /\ tx \in Transaction
  /\ phase \in Range(Passes)
  /\ IF phase \in {"decode", "prune"} THEN work \in Seq(Entry) ELSE work \in Seq(Call)
  /\ later \in Seq(Call)
  /\ subcalls \in [Calls -> Seq(Call)] /\ decoded \in [Calls -> Seq(Call)]
  /\ delegations \in [Address -> Seq(Address)]
  /\ id \in [Calls -> Seq(Nat)] /\ worth \in [Calls -> Amount]
  /\ transfers \in Seq([from : Address, to : Address, value : Amount])
  /\ sheet \in [Address -> Int]

\* Every call of the transaction becomes an object once, below its caller and
\* after its earlier siblings, though the rounds take one level at a time and
\* the root's children are treated apart.
Converted == After("convert") => subcalls = [c \in Calls |-> Kids(c)]

Level[c \in Calls] == IF c = 0 THEN 0 ELSE Level[tx.parent[c]] + 1

DelegatesOf(a) == {c \in 1 .. tx.size : tx.type[c] = "delegatecall" /\ From(c) = a}

\* The delegates of an account are those its code was lent by, each once, and
\* the first, which get_proxies takes for the implementation, is the target of
\* an outermost delegatecall.
DelegationsRight ==
  After("delegations") => \A a \in Address :
    /\ ToSet(delegations[a]) = {tx.to[c] : c \in DelegatesOf(a)}
    /\ IsInjective(delegations[a])
    /\ delegations[a] # <<>> => \E c \in DelegatesOf(a) :
         /\ tx.to[c] = Head(delegations[a])
         /\ \A d \in DelegatesOf(a) : Level[c] <= Level[d]

\* The decoded tree is the tree of calls, and an id leads to one call only.
DecodedAsCalled ==
  After("decode") =>
    /\ phase # "prune" /\ phase # "done" => decoded = subcalls
    /\ \A c, d \in Calls : id[c] = id[d] => c = d

Ether(calls) == FoldSet(LAMBDA c, n : tx.value[c] + n, 0, calls)

\* The balances of all accounts add up to what ZERO_ADDRESS gave away, less what
\* it was given, and each is what the account received less what it sent.
SheetBalanced ==
  After("balances") => \A a \in Address \ {ZeroAddr} :
    sheet[a] = Ether({c \in Calls : tx.to[c] = a}) - Ether({c \in Calls : From(c) = a})

-----------------------------------------------------------------------------
(***************************************************************************)
(* The pruned tree.                                                        *)
(***************************************************************************)
\* c made one call only, a delegatecall.
Delegator(c) == Len(Kids(c)) = 1 /\ tx.type[Kids(c)[1]] = "delegatecall"

\* The first call of the chain that c is one of.
First[c \in Calls] ==
  IF c # 0 /\ Delegator(tx.parent[c]) THEN First[tx.parent[c]] ELSE c

\* The chain that begins at the root is in no list.
Pruned(c) == Delegator(c) /\ First[c] # 0

\* The calls of a set in the order in which a walk of a tree comes to them.
Preorder(children, calls) ==
  LET walk[c \in Calls] ==
        (IF c \in calls THEN <<c>> ELSE <<>>) \o
          FlattenSeq([i \in DOMAIN children[c] |-> walk[children[c][i]]])
  IN walk[0]

\* Pruning takes away the delegators below the root chain and nothing else; the
\* calls that stay keep their order, and show the ether of the first call of
\* their chain.
PrunesDelegators ==
  phase = "done" =>
    LET stay == {c \in Calls : ~Pruned(c)} IN
    /\ Preorder(decoded, Calls) = Preorder(subcalls, stay)
    /\ \A c \in stay : worth[c] = tx.value[First[c]]

\* Does not hold, see the README. decoder.py:327 "remove chained delegatecalls
\* from the tree": no call of the decoded transaction has a delegatecall as its
\* only subcall.
ChainsRemoved ==
  phase = "done" => \A c \in ToSet(Preorder(decoded, Calls)) : ~Lone(c)

-----------------------------------------------------------------------------
(***************************************************************************)
(* The strengthenings that make Converted, DelegationsRight,               *)
(* DecodedAsCalled, SheetBalanced and PrunesDelegators inductive.  seen    *)
(* are the calls the pass has visited.                                     *)
(***************************************************************************)
\* What is visited and what waits, when every child but those of rest waits or
\* was visited once its parent was.
Walked(seen, waiting, rest) ==
  /\ 0 \in seen \cup waiting /\ seen \cap waiting = {}
  /\ \A c \in (seen \cup waiting) \ {0} : tx.parent[c] \in seen
  /\ \A c \in 1 .. tx.size : tx.parent[c] \in seen => c \in seen \cup waiting \cup rest

Childless == {c \in Calls : Below(c) = {}}

ConvertedSoFar(seen, waiting) ==
  /\ Walked(seen, waiting, Childless)
  /\ subcalls = [c \in Calls |-> IF c \in seen THEN Kids(c) ELSE <<>>]

\* Calls without children need no visit in the first pass.
Converting == phase = "convert" =>
  /\ work \in Seq(Calls) /\ later \in Seq(Calls) /\ (work = <<>> => later = <<>>)
  /\ IsInjective(work \o later)
  /\ \E seen \in SUBSET Calls : ConvertedSoFar(seen, ToSet(work \o later))

ConvertInv == tx \in Transaction /\ phase \in Range(Passes) /\ Converting /\ Converted

\* The queue holds at most two levels, the deeper one in front, and nothing
\* visited is deeper than what waits.
Levelled(seen) ==
  /\ \A i, j \in DOMAIN work : i <= j =>
       Level[work[j]] <= Level[work[i]] /\ Level[work[i]] <= Level[work[j]] + 1
  /\ \A c \in seen, i \in DOMAIN work : Level[c] <= Level[work[i]]

\* The delegates that the calls of a set make known, first the outermost.
DelegatesBy(lenders, delegates) ==
  /\ ToSet(delegates) = {tx.to[c] : c \in lenders} /\ IsInjective(delegates)
  /\ delegates # <<>> => \E c \in lenders :
       tx.to[c] = Head(delegates) /\ \A d \in lenders : Level[c] <= Level[d]

DelegatedSoFar(seen) ==
  /\ Walked(seen, ToSet(work), {}) /\ Levelled(seen)
  /\ \A a \in Address : DelegatesBy(DelegatesOf(a) \cap seen, delegations[a])

Delegating == phase = "delegations" =>
  /\ work \in Seq(Calls) /\ IsInjective(work)
  /\ \E seen \in SUBSET Calls : DelegatedSoFar(seen)

DelegateInv ==
  /\ delegations \in [Address -> Seq(Address)]
  /\ phase = "convert" => delegations = [a \in Address |-> <<>>]
  /\ Delegating /\ DelegationsRight

\* An entry of the worklist is a call yet to be put below its caller.
EntryGood(e) ==
  IF e.above = None THEN e.call = 0
  ELSE /\ e.above \in Calls /\ e.index \in DOMAIN Kids(e.above) /\ Kids(e.above)[e.index] = e.call
       /\ e.index > Len(decoded[e.above])

EntriesGood ==
  /\ work \in Seq(Entry) /\ \A i \in DOMAIN work : EntryGood(work[i])
  /\ \A i, j \in DOMAIN work : work[i].call = work[j].call => i = j
  /\ \A i, j \in DOMAIN work : i < j /\ work[i].above = work[j].above => work[i].index < work[j].index

\* What has been put below a call are its first children, and the others wait.
ChildrenSoFar(a, seen) ==
  IF a \notin seen THEN decoded[a] = <<>>
  ELSE /\ Len(decoded[a]) <= Len(Kids(a)) /\ \A n \in DOMAIN decoded[a] : decoded[a][n] = Kids(a)[n]
       /\ \A n \in Len(decoded[a]) + 1 .. Len(Kids(a)) :
            \E i \in DOMAIN work : work[i].above = a /\ work[i].index = n

\* An id is that of the call above and the place among its children.
IdRight(c) ==
  IF c = 0 THEN id[c] = <<>>
  ELSE \E n \in DOMAIN Kids(tx.parent[c]) :
         Kids(tx.parent[c])[n] = c /\ id[c] = Append(id[tx.parent[c]], n - 1)

DecodedSoFar(seen) ==
  /\ Walked(seen, {work[i].call : i \in DOMAIN work}, {})
  /\ \A c \in Calls : ChildrenSoFar(c, seen)
  /\ \A c \in Calls : IF c \in seen THEN IdRight(c) ELSE id[c] = <<>>

Decoding == phase = "decode" =>
  EntriesGood /\ \E seen \in SUBSET Calls : DecodedSoFar(seen)

DecodeInv ==
  /\ id \in [Calls -> Seq(Nat)]
  /\ ~After("decode") => decoded \in [Calls -> Seq(Calls)]
  /\ phase \in {"convert", "delegations"} =>
       decoded = [c \in Calls |-> <<>>] /\ id = [c \in Calls |-> <<>>]
  /\ Decoding
  /\ After("decode") => \A c \in Calls : IdRight(c)
  /\ After("decode") /\ phase \notin {"prune", "done"} => decoded = subcalls

\* The ether transfers made for the calls of a set: one for each that carries
\* ether, between the account it comes from and its target.
Listed(calls) ==
  /\ Len(transfers) \in Nat
  /\ \E order \in [1 .. Len(transfers) -> Calls] :
       /\ IsInjective(order) /\ Range(order) = {c \in calls : tx.value[c] # 0}
       /\ transfers = [i \in 1 .. Len(transfers) |->
            [from |-> From(order[i]), to |-> tx.to[order[i]], value |-> tx.value[order[i]]]]

ValuedSoFar == phase = "decode" => \E seen \in SUBSET Calls :
  /\ Walked(seen, {work[i].call : i \in DOMAIN work}, {})
  /\ worth = [c \in Calls |-> IF c \in seen THEN tx.value[c] ELSE 0]

Transferring == phase = "transfers" =>
  /\ work \in Seq(Calls) /\ IsInjective(work)
  /\ \E seen \in SUBSET Calls : Walked(seen, ToSet(work), {}) /\ Listed(seen)

SheetInv ==
  /\ phase \in {"convert", "delegations"} => worth = [c \in Calls |-> 0]
  /\ ValuedSoFar
  /\ phase \in {"transfers", "balances"} => worth = [c \in Calls |-> tx.value[c]]
  /\ phase \in {"convert", "delegations", "decode"} => transfers = <<>>
  /\ Transferring
  /\ phase = "balances" => Listed(Calls)
  /\ phase \notin {"prune", "done"} => sheet = [a \in Address |-> 0]
  /\ SheetBalanced

\* The first calls of the chains, and the last call of a chain.
Heads == {c \in Calls : First[c] = c}

End[c \in Calls] == IF Delegator(c) THEN End[Kids(c)[1]] ELSE c

\* An entry of the worklist is the first call of a chain, in its caller's list.
HeadGood(e) ==
  /\ e.call \in Heads
  /\ IF e.above = None THEN e.call = 0
     ELSE /\ e.call # 0 /\ e.above = tx.parent[e.call]
          /\ e.index \in DOMAIN Kids(e.above) /\ Kids(e.above)[e.index] = e.call

\* Chains are walked like calls: a chain is called by that of the caller of its
\* first call.
HeadsWalked(seen, waiting) ==
  /\ 0 \in seen \cup waiting /\ seen \cap waiting = {}
  /\ \A c \in (seen \cup waiting) \ {0} : First[tx.parent[c]] \in seen
  /\ \A c \in Heads \ {0} : First[tx.parent[c]] \in seen => c \in seen \cup waiting

\* In its caller's list a visited chain is its last call, and all of it shows the
\* ether of its first call.
PrunedBy(seen) ==
  /\ decoded = [c \in Calls |-> [i \in DOMAIN Kids(c) |->
                  IF Kids(c)[i] \in seen THEN End[Kids(c)[i]] ELSE Kids(c)[i]]]
  /\ worth = [c \in Calls |-> tx.value[IF First[c] \in seen THEN First[c] ELSE c]]

Pruning == phase = "prune" =>
  /\ work \in Seq(Entry) /\ \A i \in DOMAIN work : HeadGood(work[i])
  /\ \A i, j \in DOMAIN work : work[i].call = work[j].call => i = j
  /\ \E seen \in SUBSET Heads :
       HeadsWalked(seen, {work[i].call : i \in DOMAIN work}) /\ PrunedBy(seen)

PruneInv == Pruning /\ (phase = "done" => PrunedBy(Heads))
=============================================================================
