----------------------------- MODULE NodeProvider -----------------------------
(***************************************************************************)
(* Web3Provider: one process that asks the nodes of a chain.  Every method *)
(* opens a connection of its own (_get_node_connection walks the pool) and *)
(* most methods remember their answers for the life of the process.  While *)
(* a call is under way the nodes learn of new heads, at different times,   *)
(* and a new head may come with a reorganisation; a node may be off,       *)
(* refuse, or fail in a way the loop does not handle.                      *)
(*                                                                         *)
(* An answer is told apart by the chain and the branch of it that it comes *)
(* from.  DecoderService.decode_transaction is followed as far as it talks *)
(* to the nodes; the lookups of semantics in between are DecodeSession's.  *)
(***************************************************************************)
EXTENDS Naturals, Sequences, SequencesExt

CONSTANTS
  Configured,  \* the chains of the configuration
  Foreign,     \* chain names outside the configuration
  Node,
  Nodes,       \* Nodes[c]: the nodes of a chain as configured, in order
  Kinds,       \* Kinds[n]: the ways node n may fail, see Outcomes
  Defaults,    \* values of default_chain, Null if none is configured
  MaxHeads,    \* bound: heads per chain
  CacheSize,   \* CACHE_SIZE
  Jobs,        \* the calls that are made: methods, and "decode"
  MaxCalls,    \* bound: calls that are followed
  Null

\* A node is a node of one chain.
ASSUME NodesAssumption ==
  /\ Nodes \in [Configured -> Seq(Node)] /\ \A c \in Configured : Nodes[c] # <<>>
  /\ \A c, d \in Configured : c # d => ToSet(Nodes[c]) \cap ToSet(Nodes[d]) = {}
  /\ Kinds \in [Node -> SUBSET {"steady", "rejecting", "flaky"}]
  /\ Null \notin Configured \cup Foreign \cup Node /\ Defaults \subseteq Configured \cup {Null}
  /\ MaxHeads \in [Configured -> Nat \ {0}] /\ CacheSize \in Nat \ {0}
  /\ MaxCalls \in Nat /\ Jobs \subseteq {"transaction", "receipt", "calls", "statediff", "full", "decode",
                     "block", "code", "token"}

VARIABLES
  heads,    \* heads[c][h]: the branch that is canonical at head h of the chain
  seen,     \* seen[n]: the newest head node n knows
  kind,     \* kind[n]: how node n may fail
  default,  \* Web3Provider.default_chain
  cache,    \* cache[m]: the lru_cache of method m, the latest use first
  latest,   \* _latestBlockNum, and the chain it was read from
  job,      \* the call that is under way: its operation and chain_id
  doing,    \* the method it has reached
  at,       \* the connection _get_node_connection tries next, 0 before it
  node,     \* the node it is connected to
  parts,    \* the answers the call has so far
  returned, \* history: the last method that returned, and what
  outcome,  \* history: how the last call ended
  calls     \* history: the calls made

world    == <<heads, seen, kind, default>>
provider == <<cache, latest>>
run      == <<job, doing, at, node, parts>>
history  == <<returned, outcome, calls>>
vars     == <<world, provider, run, history>>

Part     == {"transaction", "receipt", "calls", "statediff"}
Cached   == {"transaction", "receipt", "statediff", "full", "block", "code", "token"}
Single   == Part \cup {"block", "code", "token"}
ChainArg == Configured \cup Foreign \cup {Null}

-----------------------------------------------------------------------------
(***************************************************************************)
(* Nodes.  Contacting one ends in                                          *)
(*   ok       isConnected, and block_number answers                        *)
(*   off      isConnected returns False                                    *)
(*   refuses  AssertionError: the node is there, its RPC is not            *)
(*   raises   any other exception, of isConnected or of block_number       *)
(***************************************************************************)
Outcomes(k) ==
  CASE k = "steady"    -> {"ok"}
    [] k = "rejecting" -> {"off", "refuses"}
    [] k = "flaky"     -> {"ok", "raises"}

ChainOf(n) == CHOOSE c \in Configured : n \in ToSet(Nodes[c])

View(n) == [chain |-> ChainOf(n), branch |-> heads[ChainOf(n)][seen[n]]]

\* What a node knows is of interest while the process is connected to it, so
\* this is when it learns of a head: one the other nodes know, or a new one.
Learn(n) ==
  LET c == ChainOf(n) IN
  /\ node = n /\ seen[n] < MaxHeads[c]
  /\ seen' = [seen EXCEPT ![n] = @ + 1]
  /\ IF seen[n] < Len(heads[c]) THEN UNCHANGED heads
     ELSE \E b \in {Last(heads[c]), Last(heads[c]) + 1} :
            heads' = [heads EXCEPT ![c] = Append(@, b)]
  /\ UNCHANGED <<kind, default, provider, run, history>>

-----------------------------------------------------------------------------
(***************************************************************************)
(* What each method makes of a node's answer: chain is chain_id or the     *)
(* default, number the block the transaction is in, which is another one   *)
(* on another branch.                                                      *)
(***************************************************************************)
Resolve(c) == IF c = Null THEN default ELSE c

GetTransaction(n, c) == [view |-> View(n), chain |-> c, number |-> View(n).branch]
GetReceipt(n, c)     == [view |-> View(n), chain |-> c, number |-> View(n).branch]
GetCalls(n, c)       == [view |-> View(n), chain |-> c]
GetStatediff(n)      == [view |-> View(n)]
GetBlock(n, c)       == [view |-> View(n), chain |-> c]
GetCodeHash(n)       == [view |-> View(n)]
\* guess_erc20_token and guess_erc20_proxy of a contract that is a token: the
\* calls of name, symbol and decimals answer, or one fails and None is returned.
GuessToken(n)        == [view |-> View(n)]
NotAToken            == [view |-> Null]

AnswerOf(m, n, c) ==
  CASE m = "transaction" -> GetTransaction(n, c)
    [] m = "receipt"     -> GetReceipt(n, c)
    [] m = "calls"       -> GetCalls(n, c)
    [] m = "statediff"   -> GetStatediff(n)
    [] m = "block"       -> GetBlock(n, c)
    [] m = "code"        -> GetCodeHash(n)
    [] m = "token"       -> GuessToken(n)

\* Transaction.from_raw: metadata of transaction and receipt, events of the
\* receipt, the calls and the state diff.
Assembled(ps) ==
  [number |-> ps.transaction.number, metadata |-> {ps.transaction.view, ps.receipt.view},
   events |-> ps.receipt.view, root_call |-> ps.calls.view, statediff |-> ps.statediff.view]

Views(full) == full.metadata \cup {full.events, full.root_call, full.statediff}

-----------------------------------------------------------------------------
(***************************************************************************)
(* The caches: a method's answers by its arguments, chain_id as it was     *)
(* given (the decode passes the chain, or the default, to every method).   *)
(***************************************************************************)
NoParts == [p \in Part |-> Null]

\* The chain_id argument of the methods of a call.
Passed == IF job.op = "decode" THEN Resolve(job.chain) ELSE job.chain

\* Mutant of Key: one cache for all chains.
KeyNoChain(m) ==
  [chain |-> Null,
   arg |-> IF m = "block" /\ parts.transaction # Null THEN parts.transaction.number ELSE 1]

\* There is one transaction and one account; a block is asked for by number.
Key(m) ==
  [chain |-> Passed,
   arg |-> IF m = "block" /\ parts.transaction # Null THEN parts.transaction.number ELSE 1]

\* Where the answer for a key is remembered, if it is.
Places(m, key) == {i \in DOMAIN cache[m] : cache[m][i].key = key}

Hits(m) == IF m \in Cached THEN Places(m, Key(m)) ELSE {}

Others(m) ==
  IF Hits(m) = {} THEN cache[m] ELSE RemoveAt(cache[m], CHOOSE i \in Hits(m) : TRUE)

\* Mutant of Use: nothing is dropped.
UseUnbounded(m, a) ==
  cache' = [cache EXCEPT ![m] = <<[key |-> Key(m), answer |-> a]>> \o Others(m)]

\* lru_cache: what was used last comes first, what does not fit is dropped.
Use(m, a) ==
  LET entries == <<[key |-> Key(m), answer |-> a]>> \o Others(m)
      kept == IF Len(entries) < CacheSize THEN Len(entries) ELSE CacheSize
  IN cache' = [cache EXCEPT ![m] = SubSeq(entries, 1, kept)]

-----------------------------------------------------------------------------
(***************************************************************************)
(* A call.                                                                 *)
(***************************************************************************)
End(how) ==
  /\ job' = Null /\ doing' = Null /\ at' = 0 /\ node' = Null /\ parts' = NoParts
  /\ outcome' = [ended |-> how, op |-> job.op, chain |-> Passed]

GoOn(m) == doing' = m /\ at' = 0 /\ node' = Null /\ UNCHANGED <<job, outcome>>

Raise(what) == End(what) /\ UNCHANGED <<world, provider, returned, calls>>

Call(op, c) ==
  /\ job = Null /\ calls < MaxCalls
  /\ job' = [op |-> op, chain |-> c]
  /\ doing' = IF op = "decode" THEN "full" ELSE op
  /\ calls' = calls + 1 /\ outcome' = Null /\ returned' = Null
  /\ UNCHANGED <<world, provider, at, node, parts>>

\* The method that follows m in get_full_transaction.
After(m) ==
  CASE m = "transaction" -> "receipt"
    [] m = "receipt"     -> "calls"
    [] m = "calls"       -> "statediff"
    [] m = "statediff"   -> "assemble"

\* Method m returns a.
Return(m, a) ==
  /\ returned' = [method |-> m, key |-> Key(m), answer |-> a]
  /\ \/ /\ m = job.op
        /\ End("returned")
     \/ /\ m # job.op /\ m \in Part
        /\ parts' = [parts EXCEPT ![m] = a] /\ GoOn(After(m))
     \/ /\ m # job.op /\ m = "full"
        /\ parts' = [NoParts EXCEPT !.transaction = a] /\ GoOn("block")
     \/ /\ m # job.op /\ m = "block"
        /\ GoOn("proxies") /\ UNCHANGED parts

\* The wrapper of lru_cache finds the arguments.
Hit(m) ==
  /\ doing = m /\ at = 0
  /\ \E i \in Hits(m) : Use(m, cache[m][i].answer) /\ Return(m, cache[m][i].answer)
  /\ UNCHANGED <<world, latest, calls>>

\* get_full_transaction has no connection of its own.
EnterFull ==
  /\ doing = "full" /\ Hits("full") = {}
  /\ GoOn("transaction")
  /\ UNCHANGED <<world, provider, parts, returned, calls>>

Assemble ==
  /\ doing = "assemble"
  /\ Use("full", Assembled(parts)) /\ Return("full", Assembled(parts))
  /\ UNCHANGED <<world, latest, calls>>

-----------------------------------------------------------------------------
(***************************************************************************)
(* _get_node_connection, of any method and of get_proxies.                 *)
(***************************************************************************)
Connecting == doing \in Single \cup {"proxies"} /\ node = Null

OpenPool ==
  /\ Connecting /\ at = 0 /\ Hits(doing) = {}
  /\ \/ /\ Resolve(Passed) \in Configured
        /\ at' = 1
        /\ UNCHANGED <<world, provider, job, doing, node, parts, history>>
     \/ /\ Resolve(Passed) \notin Configured
        /\ Raise("ProcessingException")

Pool == Nodes[Resolve(Passed)]

Connected(n) ==
  /\ latest' = [height |-> seen[n], chain |-> ChainOf(n)]
  /\ node' = n
  /\ UNCHANGED <<world, cache, job, doing, at, parts, history>>

NextNode ==
  /\ at' = at + 1
  /\ UNCHANGED <<world, provider, job, doing, node, parts, history>>

\* Mutant of TryNode: AssertionError is caught around the loop.
TryNodeOnce(n, o) ==
  \/ o = "ok" /\ Connected(n)
  \/ o = "off" /\ NextNode
  \/ o = "refuses" /\ Raise("NodeConnectionException")
  \/ o = "raises" /\ Raise("connection")

\* Mutant of TryNode: a node that does not answer is tried again.
TryNodeAgain(n, o) ==
  \/ o = "ok" /\ Connected(n)
  \/ o \in {"off", "refuses"} /\ UNCHANGED vars
  \/ o = "raises" /\ Raise("connection")

TryNode(n, o) ==
  \/ o = "ok" /\ Connected(n)
  \/ o \in {"off", "refuses"} /\ NextNode
  \/ o = "raises" /\ Raise("connection")

\* The method has its answer.
Answered(m, a) ==
  /\ IF m \in Cached THEN Use(m, a) ELSE UNCHANGED cache
  /\ Return(m, a)
  /\ UNCHANGED <<world, latest, calls>>

Connect ==
  /\ Connecting /\ at > 0
  /\ \/ at <= Len(Pool) /\ \E o \in Outcomes(kind[Pool[at]]) : TryNode(Pool[at], o)
     \/ at > Len(Pool) /\ Raise("NodeConnectionException")

-----------------------------------------------------------------------------
(***************************************************************************)
(* The request on the open connection.                                     *)
(***************************************************************************)
\* Mutant of Request: get_code_hash catches exceptions as the guesses do.
RequestSwallows(m) ==
  /\ doing = m /\ m \in Single /\ node # Null
  /\ \/ Answered(m, AnswerOf(m, node, Resolve(Passed)))
     \/ kind[node] = "flaky" /\ m \notin {"token", "code"} /\ Raise("request")
     \/ kind[node] = "flaky" /\ m \in {"token", "code"} /\ Answered(m, NotAToken)

Request(m) ==
  /\ doing = m /\ m \in Single /\ node # Null
  /\ \/ Answered(m, AnswerOf(m, node, Resolve(Passed)))
     \/ kind[node] = "flaky" /\ m # "token" /\ Raise("request")
     \/ kind[node] = "flaky" /\ m = "token" /\ Answered(m, NotAToken)

\* Mutant of EndDecode: get_proxies connects when there are delegations only.
EndUnconnected ==
  /\ doing = "proxies"
  /\ End("returned")
  /\ UNCHANGED <<world, provider, returned, calls>>

\* get_proxies uses its connection for EIP-1969 slots only; the decode ends
\* with the current _latestBlockNum.
EndDecode ==
  /\ doing = "proxies" /\ node # Null
  /\ End("returned")
  /\ UNCHANGED <<world, provider, returned, calls>>

-----------------------------------------------------------------------------
Init ==
  /\ heads = [c \in Configured |-> <<1>>]
  /\ seen = [n \in Node |-> 1]
  /\ kind \in [Node -> {"steady", "rejecting", "flaky"}] /\ \A n \in Node : kind[n] \in Kinds[n]
  /\ default \in Defaults
  /\ cache = [m \in Cached |-> <<>>]
  /\ latest = [height |-> 0, chain |-> Null]
  /\ job = Null /\ doing = Null /\ at = 0 /\ node = Null /\ parts = NoParts
  /\ returned = Null /\ outcome = Null /\ calls = 0

Step ==
  \/ \E m \in Cached : Hit(m)
  \/ EnterFull \/ Assemble \/ OpenPool \/ Connect \/ EndDecode
  \/ \E m \in Single : Request(m)

Next ==
  \/ \E n \in Node : Learn(n)
  \/ \E op \in Jobs, c \in ChainArg : Call(op, c)
  \/ Step

\* The process runs; calls, nodes and heads come as they please.
Fairness == WF_vars(Step)

Spec == Init /\ [][Next]_vars /\ Fairness

-----------------------------------------------------------------------------
Sight  == [chain : Configured, branch : Nat]
Answer == [view : Sight, chain : Configured, number : Nat] \cup [view : Sight, chain : Configured]
            \cup [view : Sight \cup {Null}]
            \cup [number : Nat, metadata : SUBSET Sight, events : Sight, root_call : Sight,
                  statediff : Sight]

ASSUME NullAssumption ==
  Null \notin Answer \cup [op : Jobs, chain : ChainArg]
                \cup Single \cup {"full", "assemble", "proxies"}
                \cup [method : Single \cup {"full"}, key : [chain : ChainArg, arg : Nat],
                      answer : Answer]

TypeOK ==
  /\ heads \in [Configured -> Seq(Nat)] /\ seen \in [Node -> Nat]
  /\ kind \in [Node -> {"steady", "rejecting", "flaky"}] /\ default \in Configured \cup {Null}
  /\ cache \in [Cached -> Seq([key : [chain : ChainArg, arg : Nat], answer : Answer])]
  /\ \A m \in Cached : Len(cache[m]) <= CacheSize
  /\ latest \in [height : Nat, chain : Configured \cup {Null}]
  /\ job \in [op : Jobs, chain : ChainArg] \cup {Null}
  /\ doing \in Single \cup {"full", "assemble", "proxies", Null}
  /\ job = Null <=> doing = Null
  /\ at \in Nat /\ node \in Node \cup {Null}
  /\ parts \in [Part -> Answer \cup {Null}]
  /\ calls \in 0 .. MaxCalls

\* The parts of an assembled transaction come from nodes of its own chain,
\* whatever was asked for other chains before; they come from different
\* branches only if the chain was reorganised.
PartsAgree ==
  \A i \in DOMAIN cache.full :
    LET views == Views(cache.full[i].answer)
        c == Resolve(cache.full[i].key.chain)
    IN /\ \A v \in views : v.chain = c
       /\ (\A v, w \in views : v = w) \/ Last(heads[c]) > heads[c][1]

\* A call fails to connect only if every node of its chain is off or refuses.
AllRejected ==
  outcome # Null /\ outcome.ended = "NodeConnectionException" =>
    \A n \in ToSet(Nodes[Resolve(outcome.chain)]) : kind[n] = "rejecting"

\* latestBlockNum of a decoded transaction is a height of its own chain,
\* also when everything else came from the caches.
LatestOfChain ==
  outcome # Null /\ outcome.ended = "returned" /\ outcome.op = "decode" =>
    latest.chain = outcome.chain

\* Every call ends, however the nodes fail and whatever heads come meanwhile.
EveryCallEnds == (job # Null) ~> (job = Null)

\* Does not hold, see the README. CHANGELOG.md:190 "Added node switcher - if one
\* is unavailable, it uses the others available to connect".
SwitchesNode ==
  outcome # Null /\ outcome.ended = "connection" =>
    ~ \E n \in ToSet(Nodes[Resolve(outcome.chain)]) : kind[n] = "steady"

-----------------------------------------------------------------------------
(***************************************************************************)
(* The methods as cached readers of their source.                          *)
(***************************************************************************)
Branches == UNION {1 .. MaxHeads[c] : c \in Configured}

\* Only a block is asked for by number.
Asked(m) == [chain : Configured \cup {Null}, arg : IF m = "block" THEN Branches ELSE {1}]

Questions == UNION {[method : {m}, key : Asked(m)] : m \in Cached \ {"full"}}

\* What the nodes of the chain would make the method answer now.
Says(q) ==
  LET c == Resolve(q.key.chain)
      nodes == IF c \in Configured THEN ToSet(Nodes[c]) ELSE {}
  IN {AnswerOf(q.method, n, c) : n \in nodes}
       \cup {NotAToken : n \in {n \in nodes : q.method = "token" /\ kind[n] = "flaky"}}

Recalled(q) ==
  LET places == Places(q.method, q.key)
  IN IF places = {} THEN Null ELSE cache[q.method][CHOOSE i \in places : TRUE].answer

Replied ==
  IF returned = Null \/ returned.method \notin Cached \ {"full"} THEN Null
  ELSE [question |-> [method |-> returned.method, key |-> returned.key],
        answer |-> returned.answer]

Reads == INSTANCE CachedReads WITH
           Question <- Questions, Unknown <- Null,
           says <- [q \in Questions |-> Says(q)],
           memory <- [q \in Questions |-> Recalled(q)],
           reply <- Replied

\* Every method answers with what a node of its chain says at that moment or
\* with what was remembered for the same arguments, and remembers nothing else.
AnswersHonest == Reads!ReadSpec

-----------------------------------------------------------------------------
(***************************************************************************)
(* The strengthenings that make the invariants above inductive.            *)
(***************************************************************************)
\* A reorganisation starts a branch, and nodes know heads of their own chain.
HeadsOrdered ==
  \A c \in Configured :
    /\ Len(heads[c]) \in 1 .. MaxHeads[c] /\ heads[c][1] = 1
    /\ \A i \in DOMAIN heads[c] : heads[c][i] \in 1 .. i
    /\ \A i, j \in DOMAIN heads[c] : i <= j => heads[c][i] <= heads[c][j]
    /\ \A n \in ToSet(Nodes[c]) : seen[n] \in DOMAIN heads[c]

\* A view a node of chain c has, or had.
Genuine(v, c) == v \in Sight /\ v.chain = c /\ v.branch \in 1 .. Last(heads[c])

PartGood(m, a, c) ==
  /\ c \in Configured /\ a \in Answer /\ Genuine(a.view, c)
  /\ m = "transaction" => a.number \in 1 .. MaxHeads[c]

FullGood(a, c) ==
  /\ c \in Configured /\ a \in Answer
  /\ \A v \in Views(a) : Genuine(v, c)
  /\ a.number \in 1 .. MaxHeads[c]

\* A remembered answer is one of the chain that its key resolves to.
EntryGood(m, e) ==
  LET c == Resolve(e.key.chain) IN
  /\ c \in Configured /\ e.key.arg \in IF m = "block" THEN Branches ELSE {1}
  /\ m \in Part => PartGood(m, e.answer, c)
  /\ m = "full" => FullGood(e.answer, c)

CachesGood ==
  \A m \in Cached :
    /\ \A i \in DOMAIN cache[m] : EntryGood(m, cache[m][i])
    /\ \A i, j \in DOMAIN cache[m] : cache[m][i].key = cache[m][j].key => i = j

\* The parts get_full_transaction has when it reaches m.
Gathered(m) ==
  CASE m = "transaction" -> {}
    [] m = "receipt"     -> {"transaction"}
    [] m = "calls"       -> {"transaction", "receipt"}
    [] m = "statediff"   -> {"transaction", "receipt", "calls"}
    [] m = "assemble"    -> Part

\* How far the call has got, and what it has by then.
RunGood ==
  \/ doing = Null /\ parts = NoParts
  \/ doing \in Single \cup {"full"} /\ job.op = doing /\ parts = NoParts
  \/ doing = "full" /\ job.op = "decode" /\ parts = NoParts
  \/ /\ doing \in Part \cup {"assemble"} /\ job.op \in {"full", "decode"}
     /\ \A m \in Gathered(doing) : PartGood(m, parts[m], Resolve(Passed))
  \/ /\ doing = "block" /\ job.op = "decode"
     /\ parts.transaction.number \in Branches
  \/ doing = "proxies" /\ job.op = "decode"

\* The connection: nothing was remembered, the nodes passed over reject.
ConnectionGood ==
  /\ doing # Null => outcome = Null
  /\ at = 0 => node = Null
  /\ at > 0 =>
       /\ doing \in Single \cup {"proxies"}
       /\ Resolve(Passed) \in Configured /\ Hits(doing) = {}
       /\ \A i \in DOMAIN Pool : i < at => kind[Pool[i]] = "rejecting"
  /\ node # Null =>
       at \in DOMAIN Pool /\ node = Pool[at] /\ latest.chain = Resolve(Passed)

ProviderInv == TypeOK /\ HeadsOrdered /\ CachesGood /\ RunGood /\ ConnectionGood
=============================================================================
