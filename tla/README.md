# EthTx in TLA+

EthTx decodes Ethereum transactions: it fetches a transaction, its receipt, its
trace and its state changes from a node, rebuilds the tree of calls, gives names
and types to calls, events and parameters with semantics it collects from
Etherscan, ENS and 4byte.directory and keeps in a Mongo database, and derives
transfers, balances and storage changes. This directory models the parts of it
that keep state, walk the calls or decode data, checks them with TLC on small
instances and proves main invariants with TLAPS for every value of the constants.

## Inventory

| Component (under `src/ethtx/`) | State | Operations | Hard behaviour | What makes it correct |
|---|---|---|---|---|
| Semantics repository and database (`providers/semantic_providers/`) | collections `addresses`, `contracts`, `signatures`; per process two LRU caches and `_records` | `get_semantics`, `update_semantics`, `delete_semantics`, `record`, `end_record` | two documents per account written one after the other, by upserts that are not atomic, contract documents shared by code hash, caches that remember absences and are emptied only by a delete, several processes, failures between writes | an address document never names a missing contract document; reading never fails for want of one; signatures are counted once for every contract document |
| Decode session (`decoders/decoder_service.py`) | the records of the running decode | `decode_transaction` with `recreate_semantics` | deletes what a first pass looked up and decodes again, over caches that are not emptied; the second pass may look up other accounts | no address document the first pass used is older than the decode |
| Signature store (`repository.py`, `decoders/abi/helpers/utils.py`) | documents of one signature hash with counts and a guessed flag | verified insert, guess, upsert of a guess | read-modify-write without a lock | an answer not flagged as guessed is not a guess; counts |
| Trace convertor (`providers/trace_convertor.py`) | its call stack, return data, flags, SHA3 preimages | one handler per struct log item | ends of calls, and hashes, are inferred from the next item, which may be another frame's | the tree is the tree of the execution, a hash is recorded with what was hashed |
| Call tree (`web3_provider.py`, `decoders/abi/calls.py`, `decoder.py`, `transfers.py`, `balances.py`, `decoder_service.get_delegations`) | trees of objects, worklists | conversion, delegations, decoding, transfers, balances, pruning | in-place changes during a walk, queues whose order decides results | no call is lost or moved; the balances add up |
| Node provider (`providers/web3_provider.py`, `providers/node/`) | LRU caches, `_latestBlockNum`, `default_chain` | connection over a pool, cached reads, `get_full_transaction` | every method connects for itself, nodes that lag behind, reorganisations between two requests, failures half-way | what is put together belongs together; a failing node is passed over; a cached answer is one a node gave |
| Etherscan client (`providers/etherscan/`) | an LRU cache of answers | `get_contract_abi`, `_parse_abi` | answers that report errors with status 200 | an outage is not taken for an answer |
| Signature provider (`providers/signature_provider.py`) | remembered pages | `list_function_signatures`, `list_event_signatures` | paging over a list that grows while pages are remembered, errors in the middle | paging ends; the name is the one the data fits |
| Parameter decoder (`decoders/decoders/`) | none | `decode_function_parameters`, `decode_event_parameters` | heads and tails, offsets, nested types, three sources of an ABI | decodes what was encoded |
| State diffs (`decoders/abi/diffs.py`, `contracts/`) | storage layout, SHA3 preimages, results | `get_statediff`, `decodeStorageDiff` | cells found through recorded hashes, packed and nested variables, merging | a change is shown of the variable it belongs to, or raw |
| ABI event and transfer decoders, semantic decoder (`decoders/abi/`, `decoders/semantic/`), static semantics (`semantics/`) | the decoded objects, rewritten in place | `decode_event`, transfers, transformations | what a contract is is decided once, with sources that fail; decimals from three places | transfer, event and call agree; a second decode shows the same |
| Facade and models (`ethtx.py`, `models/`) | none | wiring | none | the parts of `Transaction` agree (`NodeProvider`) |

How they interact: `DecoderService` asks the node provider for the transaction,
which runs the trace convertor and builds the call tree; it computes delegations
and looks the accounts up in the repository; the ABI decoder walks the tree and
looks up every account, contract and signature in the repository, which goes
through its caches to Mongo and, for what is not there, to the node, Etherscan
and ENS; the semantic decoder rewrites the result. Everything runs in one thread
per process; processes share the database and nothing else.

## Modules

`SemanticsStore` is the repository over the database. An `Account` is a pair
(chain, address). `addresses` and `contracts` are the two collections; a document
is reduced to what decides the control flow: the code hash and whether a name
was found, a decoded ABI or none. `addressCache` and `contractCache` are the two
`lru_cache`s of `database.py` for each process, with `Miss` for no entry and
`Null` for a remembered absence; of a remembered contract document only that it was
there matters. An insertion into a full cache evicts any entry.
Every database operation and every answer of a source is an action, so processes
interleave between them: `Get` is the cached `find_one` of the address document,
`ReadContract` the one in `from_mongo_record` (`RaiseTypeError` is its `None["events"]`),
`Create` is `_create_address_semantics`, `RefreshName` the ENS branch of
`_read_stored_semantics`, `ReplaceContract`, `MissContract`, `InsertContract`, the same three of
the address and `PutSignature` are `update_semantics`, `Delete`, `DeleteAddress`, `DeleteContract` and `ClearCaches` are
`delete_semantics_by_address`. `Fail` is an exception at any point, `Crash` the end
of a process. Documents are written with `replace_one(..., upsert=True)` to collections without a unique index
(the indexes were removed, CHANGELOG.md:213). An upsert that finds nothing and its insertion are therefore two steps, between which another process may insert: a
key has up to one document for each process. `find_one` answers with any of them, `delete_one` removes any one, and each
process that inserted counts the signatures. `counted` holds what each code hash added to the counts of its
functions, `dropped` is history: the code hashes some delete has taken away.

`DecodeSession` extends it with `DecoderService.decode_transaction`. `plan` is
the accounts the current pass looks up, any member of `Plan`; the second pass decodes afresh and has lookups of its own
(`DecodeAgain`), since what is looked up depends on the ABIs that were found. `records` is `_records`, `used` the list given to
`delete_semantics`. The world changes between decodes: code appears or goes
(`ChangeCode`), source is published (`Publish`). The sources are read through their
own
caches (`codeCache` for `get_code_hash`, `abiCache` for `_get_contract_abi`), which
no delete empties. An outage of Etherscan is logged and taken for "not decoded"; a rate limit, which arrives with
status 200, is remembered as that answer (`Answers`). `rewritten` and `torn` are history.

`SignatureStore` is the `signatures` collection for one signature hash. `Read` and
`Write` are the two database operations of `update_or_insert_signature`; `Verify`
starts it for a function of a verified contract, `Guess` and `Fetch` for one that
`decode_call` guessed. `Merge` is what the update does to names, flag and count, with
the code's test for "arg" in the first argument (`ArgLike`).

`EvmTrace` is the execution behind a trace: frames, calls and how they end, one
action per executed operation. It is not code of this repository; it is modelled
as far as `decode` reads it. One assumption is about the code that runs: RETURN, REVERT
and the calls need operands, so an operation of the same frame that pushes or tests
something precedes them (`ready`). `TraceConvertor` extends it: every action is an operation of the
execution together with the handlers its item passes through, in the order of
`decode`. Calls are numbers; what is kept of gas and return data is the call it came
from. `FaultSpec` adds the items of CALL, RETURN and REVERT operations that
fail themselves.

`CallTree` is what happens to the calls afterwards, one pass after the other
(`phase`), one step per element of the pass's worklist (`work`): `Convert`
(`_create_call_from_debug_trace_tx`), `Delegate` (`get_delegations`), `Decode`
(`_decode_nested_calls`), `Transfer`, `Balance`, `Prune` (`prune_delegates`). The
transaction is any tree of calls and delegatecalls and is chosen in `Init`. Ether is
in whole units; the code adds floats.

`NodeProvider` is one `Web3Provider` and the nodes of two chains. `heads` and `seen` are
the nodes' side: the branches of each chain and how far each node has got (`Learn`
moves one on, at any moment of a call). `Call` starts a method, or `decode`, which is
`decode_transaction` as far as it talks to nodes. `OpenPool` and `Connect` are
`_get_node_connection`: a node that is not connected or answers with an `AssertionError`
is passed over, any other exception leaves the call. `Request` is the request on the
connection, `Hit` the `lru_cache` of the method (kept in order of use, so eviction is
the code's), `EnterFull` and `Assemble` are `get_full_transaction` with
`Transaction.from_raw`, `EndDecode` is `get_proxies`, which connects once more, and
the use of `_latestBlockNum`. `CachedReads` is the abstract specification of a cached reader: an answer is what
the source says at that moment or what is remembered for the same question, and nothing else is
remembered. `NodeProvider` implements it (`AnswersHonest`): the questions are method and
arguments, `Says` is what the nodes of the chain would answer, `Recalled` the cache.

`Parameters` goes from a JSON ABI, a text signature or a stored guess
(`source`) to the values that are shown: `Parse` is `_parse_abi` with `_parse_components`,
`Store` `decode_events_and_functions`, `Guess` `_parse_text_signature_response` and the way of
its result into and out of the database, `Decode` the `decode_*_parameters` functions over `decode_struct`,
`decode_array`, `decode_tuple`, `decode_dynamic_array`. `MakeCall` and `Emit` choose values and
encode them with the reference, Solidity's encoder (`Encode`, `EncodeList`). Data are
sequences of words and offsets count words.

`StorageDiff` follows one contract's changed cells. `TraceItem` is `handleSHA`, which
reads a hash off the next item's stack; `ParseReplay` is `get_statediff`; `DecodeEntry` is
one pass of `decodeStorageDiff`: `decodeDiff` looks for the variable behind a cell,
`recursiveGenStateDiffResult` (`Shown`, step by step `ShownStep`) takes the values out of the word, `mergeData` puts them
beside what the variable shows already. A storage key is the sequence it is computed
from, a word the set of its bytes that are not zero. Types come in levels, parts before wholes (`TypeLevels`).
`PlacesOf` is the reference: where Solidity keeps each part of a variable. The code and the reference are recursive functions over
types that walk differently: the code counts steps on the path it has found and looks for a struct's member by the offset it was handed,
the reference counts words from where a part begins.

`CallNames` is `decode_call` and the guess of an event's name, with the stored signatures and
`FourByteProvider._get_all`. `Start` takes every branch up to the directory; `Get`, `GetRemembered` and
`GetFails` are one page each (`Answer` is a page of the directory); `GoOn` is the loop, `Settle` what is made of the
list, which is tried from its end (`Tried`, `Chosen`). `Publish` and `Expire` change the directory and the remembered
pages between any two pages. `Store` and `StoreVerified` are `update_or_insert_signature` of the process itself and of another
one (`Updated`, `Merged`), here in one step; updates that overlap are `SignatureStore`'s.

`Tokens` is one transaction with a Transfer event, decoded again and again by the
whole pipeline in its order: `DescribeToken`, `DescribeDelegate` (`_create_address_semantics`
with the recognition of ERC20 and ERC721), `DetectPattern` and `GetProxies` (`get_proxies`),
`DecodeEvent`, `DecodeCall`, `DecodeTransfers`, `DecodeEventSemantics`, `DecodeCallSemantics`. An amount is
told apart by how it is shown (raw, hex, scaled by which decimals, as an NFT, or lost). A token (`Nature`) is told apart by every test the code
makes of it: whether its ABI has the five functions and two events of ERC20 (`Declares`) or ERC721's, whether its byte code has the three
functions and two events that `guess_erc20_token` looks for (`Bears`), whether it answers `decimals()`, and `name()` and
`symbol()` with strings (`Asked`; a bytes32 name makes all three fail). `front` says what a delegator has itself: nothing, an ABI with the token's functions, as
Compound's delegators have, or code for them too. `bare` is what the delegate answers from its own storage, and the delegate
is the token's implementation. `note` is the one anonymous event a delegator's ABI may have, as those of
`semantics/protocols/anonymous.py`: LogNote, whose four indexed parameters fit an NFT's topics, LOG_CALL, whose third parameter is no number, or one with a number. The
pattern of a proxy is asked for in every decode, because the cache of `is_eip1969_proxy` is keyed on the connection, which
is a new object each time; a failing read gives another name. All of this is chosen in `Init`; nodes and Etherscan
fail at any lookup, sources are published at any time, the process restarts. The operators that read what a decode has
found out take the proxies as a parameter, as the functions of the code do (`EventAbi(p)`, `Transferred(p, shown)`).

The modules with the prefix `MC` give the constants of the small instances; a module with the suffix `_proofs`
holds the theorems about the module it is named after. Definitions
commented as mutants are faulty variants of the definition after them; no
specification uses them. They record which fault each property detects.

## Runs

| Run | Instance | Shows |
|---|---|---|
| `semantics_store` | 2 processes; 2 accounts that share code, one verified, or the other alone when it is first seen without code; caches of 1 | `NoDanglingAddress`, `TypeErrorNeedsDrop`, `CountedPerDocument` with overlapping upserts, failures and crashes anywhere |
| `semantics_signatures` | 1 process, the same accounts, caches of 2, no failures | finding: a contract first stored undecoded never has its signatures stored (`SignaturesStored`) |
| `decode_session` | 1 process, a contract and an EOA, caches of 1, outages and rate limits of Etherscan, a second pass with other lookups than the first | `RecreateRewrites`, `RecordsAreThisDecode`, `TypeErrorNeedsTornDelete` |
| `signature_store` | 2 processes, 3 functions (plain, without arguments, with an "arg" name), 4 updates | `AnswerHonest`, `Exact`, `VerifiedStays` |
| `trace_convertor` | every execution of at most 3 calls without CALLCODE, whose CALL, RETURN and REVERT operations do not fail themselves | `InSync`, `TreeMatches`, `RevertsMarked`, `ResultsOwn`, `FromIsAccount`: stack, tree, reverts, gas, output and senders are the execution's |
| `trace_faults` | the same with failing operand operations | finding: failed calls are lost (`FaultsFlattened`) |
| `call_tree` | every tree of at most 3 calls below the root, 3 accounts, 2 amounts | `Converted`, `DelegationsRight`, `DecodedAsCalled`, `SheetBalanced`, `PrunesDelegators`: every pass gives what the execution has |
| `node_provider` | 2 chains of the configuration and one outside it; nodes n1 (steady, rejecting or flaky), n2 (steady or rejecting), n3 of the other chain; 2 heads, caches of 1, 3 calls | `PartsAgree`, `AllRejected`, `LatestOfChain`, liveness `EveryCallEnds`, refinement `AnswersHonest` |
| `parameters` | every list of up to 2 parameters of 47 types, lists of 3 of the flat ones, dynamic values of length 0 to 2 | `ArgumentsRight`, `OutputsRight`, `EventsRight`, `GuessesRight`: what was encoded is decoded, and of which types it is not |
| `storage` | a contract with 13 variables of every kind of type; up to 2 of 27 cells change; one SHA3 operation fails | `HashesTrue`, `ShownRight`, `NothingHidden`, `RawExact`, `RaisedExactly` |
| `call_names` | 4 text signatures, one unreadable, one without arguments, one with an "arg" name; pages of one; up to 3 entries; 2 decodes; a verified signature stored by another process at any moment | `OneName`, action property `RightGuess`, liveness `EveryCallEnds` |
| `tokens` | 9 tokens (ERC20 with and without `decimals()`, strings for names, `totalSupply()`, indexed parameters or readable byte code; ERC721, early NFTs), alone or behind a proxy that is bare, declares them or has code; 3 anonymous events; 2 decodes | `KindRight`, `AmountRight`, `AmountsAgree`, `SameAgain`: what is an amount, whose decimals scale it, where transfer, event and call differ, and that a second decode shows the same |

Bounds. Two processes are enough for the races of the store: each is a
read of one process overtaken by a write of another. One code hash is shared by
two accounts, which is what sharing can do to them. The constraints of `semantics_store`
stop at states in which a document is there twice after a contract document was deleted (`MCOneCopy`; without it the two accounts alone give 3.4 million states), and
leave the account that is seen without code to itself (`MCOneAccount`). A cache of one entry evicts at
every second account, one of two never evicts. `CountCap` = 2 tells "once" from "more
than once". Four updates of a signature let two processes overlap twice. Three
calls give nesting of depth four, siblings, chains of two delegatecalls, and a
delegate before, after or below another. In `NodeProvider` two heads are one reorganisation (or none), three
calls are enough to remember an answer, evict it or move `_latestBlockNum` by a call to another chain, and decode again;
two nodes are a first and a last of the pool. In `Parameters` two parameters show whether the first
leaves the second in step, and three whether that goes on; `WordRange` stands for 2^256 and is above every word
of an example; `MaxCount` caps the tuples decoded of a list whose length was read from the wrong word.
Two changed cells are what `mergeData` needs to meet itself. Pages of one entry make every list
of the directory longer than one page. Two decodes are a first and one that
finds what the first has stored. `MaxWrites`, `MaxCalls`, `MaxHeads`, `MaxCount`, `MaxChanges`, `MaxFaults`, `MaxTexts`, `MaxDecodes` and `CountCap`
are bounds of the models, `CacheSize` is the code's `CACHE_SIZE`.

Fairness. `NodeProvider` and `CallNames` state weak fairness of the process's own steps
(`WF_vars(Step)`) and nothing else: a process that is in a call goes on with it, since a
call neither waits for another process nor for a lock, and every request is answered
or fails (`requests` and `web3` have timeouts). New heads, nodes, callers, publications and
expiry are not assumed to happen or to stop. In the other modules the processes may stop at any
point, and all properties are safety properties.

Deadlock is checked in the runs of the store, the session, the signatures, the convertor and the
call tree: an idle process can always start a call, and one computation ends in a step
that changes nothing (`Done`, `Finished`). It is not checked for `NodeProvider`, `CallNames` and `Tokens`,
where a bounded number of calls is followed, nor for `Parameters` and `StorageDiff`, which are one
computation that ends.

## Findings

Two runs are expected to violate their property.

- `semantics_signatures`: CHANGELOG.md:258 "All known signatures (from contracts or external
  sources) are stored into the database". `update_semantics` stores signatures only when the contract
  document is inserted; one that replaces an undecoded document never has them stored.
- `trace_faults`: tracer.js:237 and 254 "fault is invoked when the actual execution of an opcode
  fails", "Flatten the failed call into its parent". The convertor has no such handler.

Seven more properties are stated in the modules with the text they come from and do not hold.
They are not among the runs; each is found violated when it takes the place of the properties of the
configuration named here.

| Property | Configuration | Text | What the code does |
|---|---|---|---|
| `NameWrittenOnce` (PROPERTY) | `DecodeSession.cfg` | CHANGELOG.md:109 "Do not update semantics every time from `ENS`" | an EOA whose document is remembered without a name is asked for and written again at every lookup |
| `RecreateReadsSources` | `DecodeSession.cfg` with `CacheSize` = 2, `Outages` = FALSE | CHANGELOG.md:60 "Added an option to recreate semantics used for transaction decoding" | the caches of `get_code_hash` and `_get_contract_abi` are not emptied; recreated semantics repeat what they hold |
| `FailuresMarked` | `TraceConvertor.cfg` | tracer.js:218-219, the error "internal failure" | only REVERT marks a call |
| `ChainsRemoved` | `CallTree.cfg` | decoder.py:327 "remove chained delegatecalls from the tree" | the chain that begins at the root stays |
| `StructsDecoded` | `Parameters.cfg` | parameters.py:338 "helper function to decode ABI 2.0 structs" | a struct without dynamic members is read at its index, not at its slot, once something of several words precedes it |
| `SwitchesNode` | `NodeProvider.cfg` | CHANGELOG.md:190 "Added node switcher - if one is unavailable, it uses the others available to connect" | any exception but `AssertionError` ends the walk over the pool |
| `CustomKept` | `Tokens.cfg` | semantic/events.py:134 "decode ERC20 events if transformations for them are not defined" | the standard's transformation replaces the contract's own |

## Proofs

Every theorem is about all values of the constants that the named assumptions allow: any number of processes, accounts,
nodes, calls, entries, and any size of caches and pages. An invariant a run checks is seldom inductive; the strengthening
is part of the module, at its end, and TLC has checked it on the run's instance before it was proved. Each proof has
one step per action, and lemmas for what the operators return or keep.

| Module | Strengthening | Theorems |
|---|---|---|
| `DecodeSession_proofs`, about `SemanticsStore` | `IntegrityInv`, `CountInv` | `StoreIntegrity`, `LookupsSucceed`, `SignaturesCountedPerDocument` |
| `SignatureStore_proofs` | `HonestInv`, `ExactInv` | `AnswersHonest`, `SignaturesExact`, action property `VerifiedSignaturesStay` |
| `TraceConvertor_proofs` | `StackInv`, `ResultInv`, `FamilyInv` | `ConvertorInSync`, `ConvertorTreeMatches`, `ConvertorLosesNothing`, `ConvertorRevertsMarked`, `ConvertorResultsOwn`, `ConvertorFromIsAccount` |
| `DecodeSession_proofs`, about `DecodeSession` | `SessionInv`, `RenewalInv`, `WholeInv` | refinement `SessionImplementsStore`, `SessionRecords`, `RecreatingRewrites`, `OnlyTornDeletesBreakReads` |
| `NodeProvider_proofs` | `CallInv` | `ProviderAllRejected`, `ProviderLatestOfChain`, `ProviderPartsAgree`, refinement `ProviderAnswersHonest` |
| `Tokens_proofs` | `TokensInv` | `TokensSameAgain`, `TokensKindRight`, `TokensAmountRight`, `TokensAmountsAgree` |
| `CallTree_proofs` | `ConvertInv`, `DelegateInv`, `DecodeInv`, `SheetInv`, `PruneInv` | `TreeConverted`, `TreeDelegations`, `TreeDecoded`, `TreeBalances`, `TreePruned` |
| `CallNames_proofs` | `NamesInv` | `NamesOne`, action property `NamesRightGuess` |
| `StorageDiff_proofs` | `HashInv`, `RawInv`, `ShownInv` | `HashesAreTrue`, `RawIsExact`; for `SimpleStructs`, `ShownIsRight`, `NothingIsHidden`, `IsRaisedExactly` |

`DecodeSession_proofs`, the store. `NoDanglingAddress` and `TypeErrorNeedsDrop` are not inductive:
a process may hold a description it read long ago. `IntegrityInv` adds that the
code hash of every cached address document, and of every description in the hands
of a process that has read or written it, is backed (`CachesBacked`, `HeldBacked`): it has
a contract document or was dropped. A remembered absence of a contract document
means it was dropped, because a contract is looked up only through an address
document. `CountInv` shows `CountedPerDocument`: a process that has a function still to
count has inserted a document of that code hash (`CountersInserted`), and no function is counted more often than there are processes that have inserted one and are
done with it (`SharesCounted`). Counting takes a process from the one side to the other. The proofs rely on
`ConstantsAssumption`, `BoundsAssumption` and, for the last, `ProcessesAssumption` (finitely many processes).

`SignatureStore_proofs`. `HonestInv`: every document, and every copy a process holds,
is flagged as guessed or is of a verified function, and the copy is of the function
it is being updated with. `ExactInv` adds that without an overlap at most one process is between its
read and its write, and what it read is what the collection still has.

`TraceConvertor_proofs`. `StackInv`: the frames are a path of open calls in the order
they were made (`FramesOK`), calls not yet made are open (`Unborn`), and an operation with operands finds
the convertor's stack equal to the frames (`ReadyPopped`), which is what lets REVERT and
the calls skip the pop. With it the convertor is at most one finished call
behind (`InSync`) and the tree it has built is the tree of the finished calls but for
that one (`TreeMatches`), for any number of calls; at the end nothing is lost (`NothingLost`).
`ResultInv` says which calls are marked, what `returnData` holds between the items, and which calls have their gas and output (`Marked`, `DataHeld`, `GasTaken`, `Settled`). All
of this is about `Spec`, executions whose CALL, RETURN and REVERT operations do not fail themselves; of the others `trace_faults` shows that calls are lost.
`FromIsAccount` is proved of executions without CALLCODE: `addFrom` reads CALLCODE as CALL, so with it the sender
may be wrong, and the theorem says so in its hypothesis. `FamilyInv` ties `account` to the nearest call above that is no delegatecall.

`DecodeSession_proofs`, the session. Every step of the session is a step of the store or leaves the store alone
(`SessionImplementsStore`), so what is proved of the store holds of it. `SessionInv`:
the records are the accounts the running decode has looked up, in order. `RenewalInv`: in the first pass an account remembered as absent is absent, or this decode has written it (`PassInv`); one whose delete is over,
or was skipped, has been written or will be by its next lookup (`DeletingInv`), if the second pass looks it up at all (`SecondPassInv`). `WholeInv`: no document, cached or stored, lacks its contract
document, unless a delete was torn. `SessionRecords`, that `delete_semantics` gets the list of this decode's lookups, holds with any number of processes. `RecreatingRewrites` says that no address document recorded
by the first pass outlives the decode, whatever the second pass looks up; not that the new one is true (`RecreateReadsSources` is not: the sources are cached). It
is about one process (with a second one a lookup may find what that one has written in between), `OnlyTornDeletesBreakReads`
about one whose accounts share no code hash (a delete takes the contract document away from the other account): `OneProcess` and
`NoSharedCode` are hypotheses of the theorems, and hold in the run's instance.

`NodeProvider_proofs`. `CallInv` says where everything in the provider's hands comes from: each cached answer, each part gathered so far and
each connection is of the chain that is asked, an answer is of a branch its node has seen, and the nodes passed over before the one connected to all
reject. That the pools of two chains have no node in common is an assumption on the configuration (`NodesAssumption`). `AnswersHonest` is a refinement: with the caches,
read as functions from questions to answers, every step of the provider is a step of `CachedReads` or a stutter. An answer out of a cache is its `Recall`, one
of a node its `Learn`, in which other answers may be forgotten as the `lru_cache` evicts them, a new head its `SourceChanges`, a call that fails or is on its way its `Silence`.
`get_full_transaction` is not among the questions: what it puts together is `PartsAgree`'s.

`Tokens_proofs`. `TokensInv` follows the pipeline (`StageGood`): after each stage the proxies, the abi and the standard that have been found are those that the
stored descriptions give, and stored descriptions change only for unknown accounts and only as the token's nature and the published sources allow (`WorldGood`, `KnownGood`).
`SameAgain` then compares a result with the first of the same stored descriptions (`FirstGood`), which does not depend on the proxy's pattern except
for the label, and that is one of two (`Called`). `KindRight` and `AmountRight` rest on `ContractKnown`: what a stored description says of a contract, in terms of what the
token is, whose ABI was found and which calls were answered. They say what goes wrong as exactly as what goes right: a verified ERC20, a delegator that has
ERC20's ABI among them, has the placeholder's 18 decimals; a bytes32 name or a failed call at the first lookup hides the token for good.
`AmountsAgree` names the three ways in which transfer and event differ: ERC721's ABI at the delegator, decimals known of the delegate only (the event is scaled by the
placeholder), and decimals known nowhere (the transfer is scaled by the placeholder, the event is raw).

`CallTree_proofs`. Each of the first three passes has an invariant over the set of the calls it has visited (`Walked`): no visited call waits, the caller of
every call that is visited or waits was visited, and every child of a visited call is visited or waits. An empty worklist then means that all calls were
visited, by the least call that was not. `ConvertInv`: the visited calls have their children, and the others none; only calls without children
are never visited. `DelegateInv`: the queue of `get_delegations` holds two levels at most, the deeper in front, so calls are visited level by level (`Levelled`) and the first delegate
recorded is that of an outermost call. `DecodeInv`: an entry of the worklist is a child, not decoded yet, of a visited call, and the entries of one caller keep their order, so that a decoded
call is appended at its index; an id is its caller's id and its index (`IdRight`), hence unique, by the least call that shares its id. That children can be listed in order (`OrderedIs`) and that the recursive function
`Level` exists (`LevelIs`) are proved the same way. `SheetInv`: the decoded calls have the values of their calls, and the transfers made so far are one for each visited
call that carries ether, between its sender and its target (`Listed`). The balances are then booked transfer by transfer (`ListBooked`), each adding to what the calls so far leave in
an account. That the folds compute sums and balances, in whatever order the calls of a set are added up, is proved from the definitions of the community modules: `EtherAdds` and `SheetSteps`.
`PruneInv` follows the walk from chain to chain: the calls of a chain of delegatecalls have the same first and the same last call (`ChainFacts`), the calls below the last are
the heads of the next chains (`CalledByChain`), and a chain not reached yet is as it was decoded (`Untouched`), so the call that `prune_delegates` finds at its end is the end in the tree
of calls (`HeadChain`). That the walks of the two trees then agree (`WalkedAlike`) is shown from the last call back to the root. The recursive functions `First`, `End`, `Chain` and the walk
itself exist because each depends on lower ranks only (`Recursion`).

`CallNames_proofs`. An entry of the directory is identified by its age, which publishing never changes (`Ages`, `Grown`). `NamesInv`: a remembered page is the page of the directory
at the size it had (`PageGood`), later pages are of no smaller a directory (`PagesGood`), and the list that `_get_all` has so far begins with the newest entry of the
directory at its smallest and goes to older ones by steps of at most one age (`Gapless`), though entries repeat when the directory grows between two
pages (`ResultsGood`). When the last page is reached such a list misses no entry (`Descent`), so the last of it that fits is the oldest that fits (`OldestFits`, `ChosenLast`). Stale pages, taken from memory after a
later one was read, are exactly where this fails, and `RightGuess` excludes them. `OneName` rests on `NameStored` alone.

`StorageDiff_proofs`. `HashInv`: what is to be recorded next is what the item before asked the hash of (`asked`), and only hashes are recorded, no word after one.
So `decodeDiff`, which walks back from a cell through the recorded hashes, goes along the cell's own key (`StepIs`), whichever hashes a failed SHA3 has spoilt; that its recursion
defines a function is `DecodeExists`, and that it ends in a slot exactly if every hash on the way was recorded and can be found is `FirstEntry`, by the shortest key for which it
fails. `RawInv` adds that nothing is shown raw before the hashes are complete. The proofs use that the layout has a variable at slot 0 (`LayoutAssumption`): of the entry a failed SHA3 leaves for zero nothing is then read.
Types are not looked into, so `HashesAreTrue` and `RawIsExact` hold for every layout.

What is shown depends on types, and the three theorems about it are about layouts with `SimpleStructs`: a mapping in a struct holds
plain values, arrays or structs with nothing behind a hash, and the struct is not a part of another. There is no restriction on structs without mappings, on mappings outside
structs, or on how they nest. Without `SimpleStructs` the statements are not true: at a mapping in a struct `recursiveGenStateDiffResult` has taken one entry
of the path too many, so that below a mapping to structs with mappings it shows another member of the struct (TLC finds `ShownRight` violated), below a mapping to mappings of
arrays it looks for the key of the inner one, and in a struct in a struct it looks for the member by the wrong word and may show nothing, without an exception (`RaisedExactly`). The instance is `SimpleStructs` (assumed in `MCStorageDiff`) and
has three structs with mappings. The other assumptions are Solidity's: `LayoutAssumption` and `LaidOut` (types are not parts of themselves, members have different names,
variables do not overlap, those that share a word are plain), `CellsAssumption` (a key is a slot, then pairs of a mapping's key and a number of words),
`WordsAssumption`, and `PlacedAssumption` (a cell that changes is part of the variable at its slot).
The argument: the level of a type is a rank (`RankExists`), so both recursions define functions
(`ShownExists`, `PlacesExist`); `PathIs` says which keys and words the path has that `decodeDiff` found. `Good` says of
what is shown of a part and of its places in the cell all that the properties say of a variable. It holds of plain types (`PlainGood`), is kept under names and in unions
(`UnderGood`, `UnionGood`), holds of a mapping in a struct, where the two recursions part (`MapMemberGood`, `StructMapGood`), and of a struct, since what spans
a word in which a member begins begins there too (`StructGood`, `SameSlot`); hence of every part at which the two recursions are aligned, by the lowest rank for which it
fails (`AlignedGood`), and of every resolved cell (`CellGood`). `ShownInv` says of the cells decoded so far what the properties say in the end: one more cell replaces an entry only by one of
the same path (`MergedRight`, `MergedAccounted`), and its order does not matter, because what is replaced is `Overwritten` whichever came first.

Induction over numbers is done by least counterexamples (`LeastNumber`, from `WFMin`), since the library's induction theorems are beyond the
backends here.

Only model-checked: `Parameters`, which recurses over types and data with RECURSIVE operators that the prover does not
read. Out of the prover's reach altogether: liveness (`EveryCallEnds` of
`NodeProvider` and `CallNames`), ENABLED, and induction over data, except over numbers and finite sets as above.

## Not modelled

- Repository: `update_address`, which nothing calls, and `get_constructor_abi`; constructors are not decoded.
- Trace convertor: jump positions, the arithmetic of gas. CREATE, CREATE2 and SELFDESTRUCT items make `decode` raise
  (`OnCreateOrSelfdestruct`), so no call tree contains them. CALLCODE is left out of
  the instance's operations: `addFrom` treats it as CALL.
- Contracts: `getStateVariables`, `findStateVariables` and reading compiler output from files; `decoders/fakedata` is data.
- Tokens: TransferSingle, balances of several tokens, floating point rounding.
- Parameters: `decode_graffiti_parameters`; addresses, booleans and strings are the words and bytes that stand for them.
- Semantic decoder: badges, names of parties, metadata, which are wording.
- HTTP, retries inside `web3` and `requests`, how ENS resolves a name, logging, formatting, configuration.

## Plan

1. Done: all modules above; proofs of the stores, the session, the convertor, the call tree, the node provider, the tokens and the names, and of `StorageDiff`.
2. An abstract store, in which a lookup returns semantics and a delete forgets them in
   one step, implemented by `SemanticsStore` without deletes.
