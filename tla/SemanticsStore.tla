--------------------------- MODULE SemanticsStore ---------------------------
(***************************************************************************)
(* The semantics repository (providers/semantic_providers/repository.py)   *)
(* over the Mongo semantics database (database.py), as several EthTx       *)
(* processes use it at once.                                               *)
(*                                                                         *)
(* An Account stands for a (chain_id, address) pair.  Its semantics are    *)
(* kept in two documents: an address document, which names a code hash,    *)
(* and the contract document of that code hash, which every account with   *)
(* the same code shares.  Every process keeps an LRU cache of the address  *)
(* documents and one of the contract documents it has looked up; both      *)
(* also remember that a document was NOT there, and only a completed       *)
(* delete empties them.                                                    *)
(*                                                                         *)
(* Documents are written by upserts (replace_one(filter, doc, upsert=True))*)
(* to collections without a unique index.  An upsert that finds a document *)
(* replaces it; one that finds none inserts, and what another process has  *)
(* inserted in between is then there twice.  A collection therefore maps a *)
(* key to the documents stored under it, by the process that inserted      *)
(* them: a process inserts only where it found none, so it has one at most.*)
(*                                                                         *)
(* Grain: one action per database operation or remote read, two for an     *)
(* upsert that inserts.  A process is single-threaded, processes           *)
(* interleave between these steps.                                         *)
(***************************************************************************)
EXTENDS Integers, FiniteSets

CONSTANTS
  Instance,     \* the EthTx processes that share the database
  Account,      \* (chain_id, address) pairs
  CodeHash,     \* hashes of non-empty code
  Zero,         \* ZERO_HASH, the hash of empty code: an externally owned account
  Function,     \* the functions of a verified contract's ABI
  CodeOf,       \* CodeOf[a]: the code hashes a node may report for account a
  Verified,     \* the accounts whose source code Etherscan knows
  CacheSize,    \* CACHE_SIZE
  CountCap,     \* bound: signature counts above it are not told apart
  RefreshENS,   \* refresh_ens
  Null,         \* None
  Miss          \* "not in the cache"

Hash == CodeHash \cup {Zero}

\* What the program knows of an account: the hash of its code and whether a
\* name was found for it (in the verified source, or in ENS for an EOA).
AddressDoc == [contract : Hash, known : BOOLEAN]

\* A contract document holds a decoded ABI or empty dictionaries.
ContractDoc == {"abi", "bare"}

\* What a process remembers of a contract document: that it was there.
RememberedContract == {"found"}

ASSUME ConstantsAssumption ==
  /\ Zero \notin CodeHash
  /\ CodeOf \in [Account -> SUBSET Hash]
  /\ Verified \subseteq Account
  /\ RefreshENS \in BOOLEAN
  /\ Null \notin AddressDoc \cup ContractDoc \cup RememberedContract \cup Account
  /\ Miss \notin AddressDoc \cup ContractDoc \cup RememberedContract \cup {Null}

ASSUME ProcessesAssumption == IsFiniteSet(Instance)

ASSUME BoundsAssumption ==
  /\ CacheSize \in Nat \ {0}
  /\ CountCap \in Nat \ {0}

PC == {"idle", "contract", "ens", "create", "putContract", "insertContract",
       "putAddress", "insertAddress", "putSignatures", "delAddress", "delContract", "clear", "error"}

VARIABLES
  addresses,      \* Mongo collection "addresses": account -> inserter -> document
  contracts,      \* Mongo collection "contracts": code hash -> inserter -> document
  counted,        \* counted[h][f]: h's share in the count of f's signature document
  addressCache,   \* per process: lru_cache of get_address_semantics
  contractCache,  \* per process: lru_cache of get_contract_semantics
  pc,             \* per process: the next step of the call it is in
  subject,        \* per process: the account that call is about
  desc,           \* per process: the semantics it holds in memory
  todo,           \* per process: functions whose signatures it has still to count
  dropped         \* history: code hashes whose contract document was deleted

db      == <<addresses, contracts, counted>>
caches  == <<addressCache, contractCache>>
control == <<pc, subject, desc, todo>>
vars    == <<db, caches, control, dropped>>

(***************************************************************************)
(* lru_cache.  What a miss evicts from a full cache is the least recently  *)
(* used entry; recency is not tracked, so any entry may go.                *)
(***************************************************************************)
Held(cache) == {k \in DOMAIN cache : cache[k] # Miss}

Fill(cache, key, value) ==
  IF Cardinality(Held(cache)) < CacheSize
  THEN {[cache EXCEPT ![key] = value]}
  ELSE {[cache EXCEPT ![key] = value, ![victim] = Miss] : victim \in Held(cache)}

\* The caches a cached read of key may leave behind, stored being the database's answer.
Lookup(cache, key, stored) ==
  IF cache[key] # Miss THEN {cache} ELSE Fill(cache, key, stored)

Empty(keys) == [k \in keys |-> Miss]

(***************************************************************************)
(* The documents under one key of a collection: find_one answers with any  *)
(* of them, and delete_one takes one of them away, if there are any.       *)
(***************************************************************************)
Absent(docs) == \A q \in Instance : docs[q] = Null

FindOne(docs) ==
  IF Absent(docs) THEN {Null} ELSE {docs[q] : q \in Instance} \ {Null}

DeleteOne(docs) == {q \in Instance : docs[q] # Null \/ Absent(docs)}

\* The caches that get_address_semantics, a cached find_one, may leave behind.
CachedFind(cache, key, docs) ==
  UNION {Lookup(cache, key, stored) : stored \in FindOne(docs)}

\* What a cached read of a contract document is told.
Remembered(docs) == IF Absent(docs) THEN Null ELSE "found"

(***************************************************************************)
(* The semantics _create_address_semantics may come back with: the node    *)
(* says what code the account has; Etherscan answers for a contract, and   *)
(* an error, a rate limit or a missing verification all read "not          *)
(* decoded"; ENS answers for an externally owned account.                  *)
(***************************************************************************)
Descriptions(a) ==
  {d \in AddressDoc : /\ d.contract \in CodeOf[a]
                      /\ d.contract # Zero /\ d.known => a \in Verified}

AbiOf(d) == IF d.contract # Zero /\ d.known THEN "abi" ELSE "bare"

-----------------------------------------------------------------------------
Init ==
  /\ addresses = [a \in Account |-> [q \in Instance |-> Null]]
  /\ contracts = [h \in Hash |-> [q \in Instance |-> Null]]
  /\ counted = [h \in Hash |-> [f \in Function |-> 0]]
  /\ addressCache = [p \in Instance |-> Empty(Account)]
  /\ contractCache = [p \in Instance |-> Empty(Hash)]
  /\ pc = [p \in Instance |-> "idle"]
  /\ subject = [p \in Instance |-> Null]
  /\ desc = [p \in Instance |-> Null]
  /\ todo = [p \in Instance |-> {}]
  /\ dropped = {}

Goto(p, label) == pc' = [pc EXCEPT ![p] = label]

\* The call p is in returns, or an exception leaves it.
Return(p) ==
  /\ Goto(p, "idle")
  /\ subject' = [subject EXCEPT ![p] = Null]
  /\ desc' = [desc EXCEPT ![p] = Null]
  /\ todo' = [todo EXCEPT ![p] = {}]

\* The call p is in goes on at label, holding description d of account a.
Continue(p, label, a, d) ==
  /\ Goto(p, label)
  /\ subject' = [subject EXCEPT ![p] = a]
  /\ desc' = [desc EXCEPT ![p] = d]
  /\ UNCHANGED todo

(***************************************************************************)
(* get_semantics: read through the address cache; a document that is not   *)
(* there is created, one that is there is completed from the contract      *)
(* document or, for an EOA without a name, from ENS.                       *)
(***************************************************************************)
\* An EOA needs no contract document; one without a name is asked for in ENS.
NamedEOA(p, a, doc) ==
  IF RefreshENS /\ ~doc.known THEN Continue(p, "ens", a, doc) ELSE UNCHANGED control

Get(p, a) ==
  /\ pc[p] = "idle"
  /\ \E cache \in CachedFind(addressCache[p], a, addresses[a]) :
       /\ addressCache' = [addressCache EXCEPT ![p] = cache]
       /\ LET doc == cache[a] IN
          \/ doc = Null /\ Continue(p, "create", a, Null)
          \/ doc # Null /\ doc.contract # Zero /\ Continue(p, "contract", a, doc)
          \/ doc # Null /\ doc.contract = Zero /\ NamedEOA(p, a, doc)
  /\ UNCHANGED <<db, contractCache, dropped>>

\* from_mongo_record reads the contract document; None has no ["events"].
ReadContract(p) ==
  /\ pc[p] = "contract"
  /\ LET h == desc[p].contract IN
     \E cache \in Lookup(contractCache[p], h, Remembered(contracts[h])) :
       /\ contractCache' = [contractCache EXCEPT ![p] = cache]
       /\ IF cache[h] = Null
          THEN Continue(p, "error", subject[p], desc[p])
          ELSE Return(p)
  /\ UNCHANGED <<db, addressCache, dropped>>

\* The TypeError of from_mongo_record reaches the caller.
RaiseTypeError(p) ==
  /\ pc[p] = "error"
  /\ Return(p)
  /\ UNCHANGED <<db, caches, dropped>>

\* _read_stored_semantics asks ENS again for an EOA without a name.
RefreshName(p) ==
  /\ pc[p] = "ens"
  /\ \/ Return(p)
     \/ Continue(p, "putContract", subject[p], [desc[p] EXCEPT !.known = TRUE])
  /\ UNCHANGED <<db, caches, dropped>>

CreateAs(p, d) ==
  /\ Continue(p, "putContract", subject[p], d)
  /\ UNCHANGED <<db, caches, dropped>>

Create(p) ==
  /\ pc[p] = "create"
  /\ \E d \in Descriptions(subject[p]) : CreateAs(p, d)

(***************************************************************************)
(* update_semantics: the contract document, then the address document,     *)
(* then the signatures of a contract document that was not there before    *)
(* (only an upsert that inserts returns an id).                            *)
(***************************************************************************)
\* Mutant of NewSignatures: contract_id is not looked at.
EverySignature(inserted, doc) == IF doc = "abi" THEN Function ELSE {}

NewSignatures(inserted, doc) == IF inserted /\ doc = "abi" THEN Function ELSE {}

WriteContract(p, q, inserted) ==
  /\ LET h == desc[p].contract  doc == AbiOf(desc[p]) IN
     /\ contracts' = [contracts EXCEPT ![h][q] = doc]
     /\ todo' = [todo EXCEPT ![p] = NewSignatures(inserted, doc)]
  /\ Goto(p, "putAddress")
  /\ UNCHANGED <<addresses, counted, caches, subject, desc, dropped>>

ReplaceContract(p) ==
  /\ pc[p] = "putContract"
  /\ \E q \in Instance :
       contracts[desc[p].contract][q] # Null /\ WriteContract(p, q, FALSE)

\* Mutant of MissContract: an undecoded contract is not worth a document.
MissDecodedContract(p) ==
  /\ pc[p] = "putContract"
  /\ Absent(contracts[desc[p].contract])
  /\ Goto(p, IF AbiOf(desc[p]) = "abi" THEN "insertContract" ELSE "putAddress")
  /\ UNCHANGED <<db, caches, subject, desc, todo, dropped>>

MissContract(p) ==
  /\ pc[p] = "putContract"
  /\ Absent(contracts[desc[p].contract])
  /\ Goto(p, "insertContract")
  /\ UNCHANGED <<db, caches, subject, desc, todo, dropped>>

InsertContract(p) == pc[p] = "insertContract" /\ WriteContract(p, p, TRUE)

WriteAddress(p, q) ==
  /\ addresses' = [addresses EXCEPT ![subject[p]][q] = desc[p]]
  /\ IF todo[p] = {} THEN Return(p)
     ELSE Goto(p, "putSignatures") /\ UNCHANGED <<subject, desc, todo>>
  /\ UNCHANGED <<contracts, counted, caches, dropped>>

ReplaceAddress(p) ==
  /\ pc[p] = "putAddress"
  /\ \E q \in Instance : addresses[subject[p]][q] # Null /\ WriteAddress(p, q)

MissAddress(p) ==
  /\ pc[p] = "putAddress"
  /\ Absent(addresses[subject[p]])
  /\ Goto(p, "insertAddress")
  /\ UNCHANGED <<db, caches, subject, desc, todo, dropped>>

InsertAddress(p) == pc[p] = "insertAddress" /\ WriteAddress(p, p)

\* insert_contract_signatures, one function of the ABI at a time.
PutSignature(p, f) ==
  /\ pc[p] = "putSignatures"
  /\ f \in todo[p]
  /\ counted' = [counted EXCEPT ![desc[p].contract][f] =
                   IF @ < CountCap THEN @ + 1 ELSE @]
  /\ IF todo[p] = {f} THEN Return(p)
     ELSE todo' = [todo EXCEPT ![p] = @ \ {f}] /\ UNCHANGED <<pc, subject, desc>>
  /\ UNCHANGED <<addresses, contracts, caches, dropped>>

(***************************************************************************)
(* delete_semantics_by_address: it looks the account up through the cache, *)
(* so a remembered absence ends it; then one address document, one         *)
(* contract document of its code hash, and both caches.                    *)
(***************************************************************************)
Delete(p, a) ==
  /\ pc[p] = "idle"
  /\ \E cache \in CachedFind(addressCache[p], a, addresses[a]) :
       /\ addressCache' = [addressCache EXCEPT ![p] = cache]
       /\ IF cache[a] = Null THEN UNCHANGED control
          ELSE Continue(p, "delAddress", a, cache[a])
  /\ UNCHANGED <<db, contractCache, dropped>>

\* Mutant of DeleteAddress: the address document is not deleted.
DeleteNoAddress(p) ==
  /\ pc[p] = "delAddress"
  /\ Goto(p, "delContract")
  /\ UNCHANGED <<db, caches, subject, desc, todo, dropped>>

DeleteAddress(p) ==
  /\ pc[p] = "delAddress"
  /\ \E q \in DeleteOne(addresses[subject[p]]) :
       addresses' = [addresses EXCEPT ![subject[p]][q] = Null]
  /\ Goto(p, "delContract")
  /\ UNCHANGED <<contracts, counted, caches, subject, desc, todo, dropped>>

DeleteContract(p) ==
  /\ pc[p] = "delContract"
  /\ \E q \in DeleteOne(contracts[desc[p].contract]) :
       contracts' = [contracts EXCEPT ![desc[p].contract][q] = Null]
  /\ dropped' = dropped \cup {desc[p].contract}
  /\ Goto(p, "clear")
  /\ UNCHANGED <<addresses, counted, caches, subject, desc, todo>>

\* Mutant of ClearCaches: only one of the caches is emptied.
ClearContractCache(p) ==
  /\ pc[p] = "clear"
  /\ contractCache' = [contractCache EXCEPT ![p] = Empty(Hash)]
  /\ Return(p)
  /\ UNCHANGED <<db, addressCache, dropped>>

ClearCaches(p) ==
  /\ pc[p] = "clear"
  /\ addressCache' = [addressCache EXCEPT ![p] = Empty(Account)]
  /\ contractCache' = [contractCache EXCEPT ![p] = Empty(Hash)]
  /\ Return(p)
  /\ UNCHANGED <<db, dropped>>

(***************************************************************************)
(* A database operation, or the node, or ENS raises: the exception leaves  *)
(* the call, what was written stays written, the caches stay as they are.  *)
(* A process dies: its caches are gone too.                                *)
(***************************************************************************)
Fail(p) ==
  /\ pc[p] # "idle"
  /\ Return(p)
  /\ UNCHANGED <<db, caches, dropped>>

Crash(p) ==
  /\ addressCache' = [addressCache EXCEPT ![p] = Empty(Account)]
  /\ contractCache' = [contractCache EXCEPT ![p] = Empty(Hash)]
  /\ Return(p)
  /\ UNCHANGED <<db, dropped>>

Step(p) ==
  \/ \E a \in Account : Get(p, a) \/ Delete(p, a)
  \/ ReadContract(p) \/ RaiseTypeError(p) \/ RefreshName(p) \/ Create(p)
  \/ ReplaceContract(p) \/ MissContract(p) \/ InsertContract(p)
  \/ ReplaceAddress(p) \/ MissAddress(p) \/ InsertAddress(p)
  \/ \E f \in Function : PutSignature(p, f)
  \/ DeleteAddress(p) \/ DeleteContract(p) \/ ClearCaches(p)

Next == \E p \in Instance : Step(p) \/ Fail(p) \/ Crash(p)

Spec == Init /\ [][Next]_vars

\* No operation fails and no process dies.
CalmSpec == Init /\ [][\E p \in Instance : Step(p)]_vars

-----------------------------------------------------------------------------
TypeOK ==
  /\ addresses \in [Account -> [Instance -> AddressDoc \cup {Null}]]
  /\ contracts \in [Hash -> [Instance -> ContractDoc \cup {Null}]]
  /\ counted \in [Hash -> [Function -> 0 .. CountCap]]
  /\ addressCache \in [Instance -> [Account -> AddressDoc \cup {Null, Miss}]]
  /\ contractCache \in [Instance -> [Hash -> RememberedContract \cup {Null, Miss}]]
  /\ pc \in [Instance -> PC]
  /\ subject \in [Instance -> Account \cup {Null}]
  /\ desc \in [Instance -> AddressDoc \cup {Null}]
  /\ todo \in [Instance -> SUBSET Function]
  /\ dropped \subseteq Hash
  /\ \A p \in Instance : pc[p] # "idle" => subject[p] # Null
  /\ \A p \in Instance : pc[p] \notin {"idle", "create"} => desc[p] # Null

Backed(h) == ~Absent(contracts[h]) \/ h \in dropped

\* An address document never names a code hash without a contract document,
\* however processes interleave, fail between the two writes of
\* update_semantics or die there; only a delete of an account with the same
\* code can take the contract document away.
NoDanglingAddress ==
  \A a \in Account : \A q \in Instance :
    addresses[a][q] # Null => Backed(addresses[a][q].contract)

\* Reading stored semantics fails for want of the contract document
\* (from_mongo_record's None["events"]) only if some process has deleted the
\* semantics of an account with that code hash, whatever is in the caches.
TypeErrorNeedsDrop ==
  \A p \in Instance : pc[p] = "error" => desc[p].contract \in dropped

\* The signatures of a contract are counted once for every document of it,
\* although update_semantics runs again for every account that shares the
\* code, in every process and every time a remembered absence makes a process
\* create the account again: once, unless upserts of the same code hash
\* overlapped and left the document twice.
CountedPerDocument ==
  \A h \in Hash \ dropped : \A f \in Function :
    counted[h][f] <= Cardinality({q \in Instance : contracts[h][q] # Null})

\* CHANGELOG.md:258 "All known signatures (from contracts or external sources)
\* are stored into the database": once its writer is done, the signatures of a
\* decoded contract have been counted.
SignaturesStored ==
  \A h \in Hash : \A f \in Function :
    /\ \E q \in Instance : contracts[h][q] = "abi"
    /\ \A p \in Instance : pc[p] \notin {"putAddress", "insertAddress", "putSignatures"}
    => counted[h][f] > 0

\* Does not hold, see the README. CHANGELOG.md:109 "Do not update semantics
\* every time from `ENS`": a name found in ENS is written for an account whose
\* document still lacks one.
NameWrittenOnce ==
  [][\A p \in Instance :
       pc[p] = "ens" /\ pc'[p] = "putContract" =>
         \E doc \in FindOne(addresses[subject[p]]) : doc = Null \/ ~doc.known]_vars

-----------------------------------------------------------------------------
(***************************************************************************)
(* The strengthenings that make the invariants above inductive.            *)
(***************************************************************************)
\* What a process remembers or holds names only code hashes that are backed.
CachesBacked ==
  \A p \in Instance :
    /\ \A a \in Account :
         addressCache[p][a] \notin {Null, Miss} => Backed(addressCache[p][a].contract)
    /\ \A h \in Hash : contractCache[p][h] = Null => h \in dropped

HeldBacked ==
  \A p \in Instance :
    pc[p] \in {"contract", "putAddress", "insertAddress", "putSignatures"} =>
      Backed(desc[p].contract)

IntegrityInv ==
  TypeOK /\ NoDanglingAddress /\ TypeErrorNeedsDrop /\ CachesBacked /\ HeldBacked

Counting(p, h, f) ==
  /\ pc[p] \in {"putAddress", "insertAddress", "putSignatures"}
  /\ desc[p].contract = h /\ f \in todo[p]

\* The processes that inserted a document of h and have not still to count f.
CountedBy(h, f) == {q \in Instance : contracts[h][q] # Null /\ ~Counting(q, h, f)}

\* Who still counts has inserted a document; who inserts has none there.
CountersInserted ==
  \A p \in Instance :
    /\ \A h \in Hash \ dropped : \A f \in Function :
         Counting(p, h, f) => contracts[h][p] # Null
    /\ pc[p] = "insertContract" => contracts[desc[p].contract][p] = Null

SharesCounted ==
  \A h \in Hash \ dropped : \A f \in Function :
    counted[h][f] <= Cardinality(CountedBy(h, f))

CountInv == IntegrityInv /\ CountersInserted /\ SharesCounted
=============================================================================
