---------------------------- MODULE DecodeSession ----------------------------
(***************************************************************************)
(* DecoderService.decode_transaction over the semantics store: a decode    *)
(* records the accounts whose semantics it looks up; with                  *)
(* recreate_semantics it then deletes their semantics and decodes the      *)
(* transaction once more.  What a pass looks up depends on the semantics   *)
(* it finds, so the second may look up other accounts than the first.      *)
(*                                                                         *)
(* The sources of new semantics are modelled here: the node, whose answer  *)
(* for an account's code hash, and Etherscan, whose answer for its ABI,    *)
(* each process caches for itself (Web3Provider.get_code_hash,             *)
(* EtherscanContract._get_contract_abi), and which change between decodes  *)
(* as code is deployed and as source code is published.                    *)
(***************************************************************************)
EXTENDS SemanticsStore, Sequences, Functions

CONSTANTS
  Plan,      \* the lookups a decode may consist of: sequences of accounts
  Outages    \* Etherscan may fail to answer, or answer that its rate limit is reached

ASSUME PlanAssumption == Plan \subseteq Seq(Account) /\ Outages \in BOOLEAN

VARIABLES
  code,       \* code[a]: the hash of the account's code on its chain
  published,  \* accounts whose source code Etherscan knows
  codeCache,  \* per process: lru_cache of get_code_hash
  abiCache,   \* per process: lru_cache of _get_contract_abi, TRUE for "decoded"
  stage,      \* per process: "out", "first" pass, "deleting", "second" pass
  again,      \* per process: recreate_semantics of the running decode
  plan,       \* per process: the lookups of the pass it is in
  pos,        \* per process: the lookup, or the deletion, that comes next
  busy,       \* per process: the lookup at pos is under way
  records,    \* per process: SemanticsRepository._records
  used,       \* per process: used_semantics
  rewritten,  \* history: accounts written since the decode began
  torn        \* history: some delete was left by an exception

world   == <<code, published>>
sources == <<codeCache, abiCache>>
session == <<stage, again, plan, pos, busy, records, used>>
history == <<rewritten, torn>>
allVars == <<vars, world, sources, session, history>>

SessionInit ==
  /\ Init
  /\ code \in [Account -> Hash] /\ \A a \in Account : code[a] \in CodeOf[a]
  /\ published \in SUBSET {a \in Verified : code[a] # Zero}
  /\ codeCache = [p \in Instance |-> Empty(Account)]
  /\ abiCache = [p \in Instance |-> Empty(Account)]
  /\ stage = [p \in Instance |-> "out"]
  /\ again = [p \in Instance |-> FALSE]
  /\ plan = [p \in Instance |-> <<>>]
  /\ pos = [p \in Instance |-> 1]
  /\ busy = [p \in Instance |-> FALSE]
  /\ records = [p \in Instance |-> Null]
  /\ used = [p \in Instance |-> <<>>]
  /\ rewritten = [p \in Instance |-> {}]
  /\ torn = FALSE

-----------------------------------------------------------------------------
(***************************************************************************)
(* The world outside: code appears at an address, or goes; source code of  *)
(* an account with code is published.                                      *)
(***************************************************************************)
Idle == \A p \in Instance : stage[p] = "out"

ChangeCode(a) ==
  /\ Idle
  /\ \E h \in CodeOf[a] \ {code[a]} : code' = [code EXCEPT ![a] = h]
  /\ UNCHANGED <<vars, published, sources, session, history>>

Publish(a) ==
  /\ Idle
  /\ a \in Verified \ published /\ code[a] # Zero
  /\ published' = published \cup {a}
  /\ UNCHANGED <<vars, code, sources, session, history>>

-----------------------------------------------------------------------------
(***************************************************************************)
(* The decode.                                                             *)
(***************************************************************************)
\* Mutant of Begin: records are reset by end_record only.
BeginKeeping(p, lookups, recreate) ==
  /\ stage[p] = "out" /\ pc[p] = "idle"
  /\ stage' = [stage EXCEPT ![p] = "first"]
  /\ again' = [again EXCEPT ![p] = recreate]
  /\ plan' = [plan EXCEPT ![p] = lookups]
  /\ pos' = [pos EXCEPT ![p] = 1]
  /\ records' = [records EXCEPT ![p] = IF @ = Null THEN <<>> ELSE @]
  /\ UNCHANGED <<vars, world, sources, busy, used, history>>

Begin(p, lookups, recreate) ==
  /\ stage[p] = "out" /\ pc[p] = "idle"
  /\ stage' = [stage EXCEPT ![p] = "first"]
  /\ again' = [again EXCEPT ![p] = recreate]
  /\ plan' = [plan EXCEPT ![p] = lookups]
  /\ pos' = [pos EXCEPT ![p] = 1]
  /\ records' = [records EXCEPT ![p] = <<>>]
  /\ UNCHANGED <<vars, world, sources, busy, used, history>>

InPass(p) == stage[p] \in {"first", "second"} /\ pc[p] = "idle"

LookUp(p) ==
  /\ InPass(p) /\ ~busy[p] /\ pos[p] <= Len(plan[p])
  /\ Get(p, plan[p][pos[p]])
  /\ busy' = [busy EXCEPT ![p] = TRUE]
  /\ UNCHANGED <<world, sources, stage, again, plan, pos, records, used, history>>

\* get_semantics returns: the account is appended to the records.
Record(p) ==
  /\ InPass(p) /\ busy[p]
  /\ records' = [records EXCEPT ![p] = Append(@, plan[p][pos[p]])]
  /\ busy' = [busy EXCEPT ![p] = FALSE]
  /\ pos' = [pos EXCEPT ![p] = @ + 1]
  /\ UNCHANGED <<vars, world, sources, stage, again, plan, used, history>>

PassDone(p) == InPass(p) /\ pos[p] > Len(plan[p])

\* What was local to the decode is gone.
Forget(p) ==
  /\ plan' = [plan EXCEPT ![p] = <<>>]
  /\ used' = [used EXCEPT ![p] = <<>>]
  /\ rewritten' = [rewritten EXCEPT ![p] = {}]

\* end_record, and the deletes if semantics are to be recreated.
EndPass(p) ==
  /\ PassDone(p)
  /\ records' = [records EXCEPT ![p] = Null]
  /\ pos' = [pos EXCEPT ![p] = 1]
  /\ IF again[p]
     THEN /\ stage' = [stage EXCEPT ![p] = "deleting"]
          /\ used' = [used EXCEPT ![p] = records[p]]
          /\ UNCHANGED <<plan, rewritten>>
     ELSE stage' = [stage EXCEPT ![p] = "out"] /\ Forget(p)
  /\ UNCHANGED <<vars, world, sources, again, busy, torn>>

\* delete_semantics: one account after the other, as often as it was recorded.
DeleteUsed(p) ==
  /\ stage[p] = "deleting" /\ pc[p] = "idle" /\ pos[p] <= Len(used[p])
  /\ Delete(p, used[p][pos[p]])
  /\ pos' = [pos EXCEPT ![p] = @ + 1]
  /\ UNCHANGED <<world, sources, stage, again, plan, busy, records, used, history>>

\* The whole transaction is decoded afresh.
DecodeAgain(p, lookups) ==
  /\ stage[p] = "deleting" /\ pc[p] = "idle" /\ pos[p] > Len(used[p])
  /\ stage' = [stage EXCEPT ![p] = "second"]
  /\ again' = [again EXCEPT ![p] = FALSE]
  /\ plan' = [plan EXCEPT ![p] = lookups]
  /\ pos' = [pos EXCEPT ![p] = 1]
  /\ records' = [records EXCEPT ![p] = <<>>]
  /\ UNCHANGED <<vars, world, sources, busy, used, history>>

-----------------------------------------------------------------------------
(***************************************************************************)
(* _create_address_semantics with its sources.                             *)
(***************************************************************************)
\* What an answer of Etherscan amounts to: a rate limit arrives with status 200
\* and reads like a contract that is not verified.
Answers(a) == {a \in published} \cup (IF Outages THEN {FALSE} ELSE {})

Sourced(p, h, decoded) ==
  CreateAs(p, [contract |-> h, known |-> decoded])

CreateFromSources(p) ==
  LET a == subject[p] IN
  /\ pc[p] = "create"
  /\ \E seen \in Lookup(codeCache[p], a, code[a]) :
       /\ codeCache' = [codeCache EXCEPT ![p] = seen]
       /\ \/ \* an externally owned account, named by ENS or not
             /\ seen[a] = Zero
             /\ \E named \in BOOLEAN : Sourced(p, Zero, named)
             /\ UNCHANGED abiCache
          \/ \* Etherscan answers, and the answer is remembered whatever it is
             /\ seen[a] # Zero
             /\ \E decoded \in Answers(a) : \E asked \in Lookup(abiCache[p], a, decoded) :
                  /\ abiCache' = [abiCache EXCEPT ![p] = asked]
                  /\ Sourced(p, seen[a], asked[a])
          \/ \* Etherscan fails: logged, and taken for "not decoded"
             /\ seen[a] # Zero /\ Outages /\ abiCache[p][a] = Miss
             /\ Sourced(p, seen[a], FALSE)
             /\ UNCHANGED abiCache
  /\ UNCHANGED <<world, session, history>>

Store(p) ==
  /\ ReplaceAddress(p) \/ InsertAddress(p)
  /\ rewritten' = [rewritten EXCEPT ![p] = @ \cup {subject[p]}]
  /\ UNCHANGED <<world, sources, session, torn>>

RepositoryStep(p) ==
  /\ \/ ReadContract(p) \/ RefreshName(p) \/ MissAddress(p)
     \/ ReplaceContract(p) \/ MissContract(p) \/ InsertContract(p)
     \/ \E f \in Function : PutSignature(p, f)
     \/ DeleteAddress(p) \/ DeleteContract(p) \/ ClearCaches(p)
  /\ UNCHANGED <<world, sources, session, history>>

-----------------------------------------------------------------------------
(***************************************************************************)
(* An exception ends the decode; _records is left as it is.                *)
(***************************************************************************)
Leave(p) ==
  /\ stage' = [stage EXCEPT ![p] = "out"]
  /\ again' = [again EXCEPT ![p] = FALSE]
  /\ busy' = [busy EXCEPT ![p] = FALSE]
  /\ pos' = [pos EXCEPT ![p] = 1]
  /\ Forget(p)

Abort(p) ==
  /\ Fail(p) \/ RaiseTypeError(p)
  /\ Leave(p)
  /\ torn' = (torn \/ pc[p] \in {"delContract", "clear"})
  /\ UNCHANGED <<world, sources, records>>

Restart(p) ==
  /\ Crash(p) /\ Leave(p)
  /\ codeCache' = [codeCache EXCEPT ![p] = Empty(Account)]
  /\ abiCache' = [abiCache EXCEPT ![p] = Empty(Account)]
  /\ records' = [records EXCEPT ![p] = Null]
  /\ torn' = (torn \/ pc[p] = "delContract")
  /\ UNCHANGED world

Progress(p) ==
  \/ LookUp(p) \/ Record(p) \/ EndPass(p) \/ DeleteUsed(p)
  \/ \E lookups \in Plan : DecodeAgain(p, lookups)
  \/ CreateFromSources(p) \/ Store(p) \/ RepositoryStep(p) \/ Abort(p)

SessionNext ==
  \/ \E a \in Account : ChangeCode(a) \/ Publish(a)
  \/ \E p \in Instance :
       \/ \E lookups \in Plan, recreate \in BOOLEAN : Begin(p, lookups, recreate)
       \/ Progress(p)
       \/ Restart(p)

SessionSpec == SessionInit /\ [][SessionNext]_allVars

-----------------------------------------------------------------------------
SessionTypeOK ==
  /\ TypeOK
  /\ code \in [Account -> Hash] /\ published \subseteq Account
  /\ codeCache \in [Instance -> [Account -> Hash \cup {Miss}]]
  /\ abiCache \in [Instance -> [Account -> BOOLEAN \cup {Miss}]]
  /\ stage \in [Instance -> {"out", "first", "deleting", "second"}]
  /\ again \in [Instance -> BOOLEAN] /\ busy \in [Instance -> BOOLEAN]
  /\ plan \in [Instance -> Plan \cup {<<>>}] /\ pos \in [Instance -> Nat \ {0}]
  /\ records \in [Instance -> Seq(Account) \cup {Null}]
  /\ used \in [Instance -> Seq(Account)]
  /\ rewritten \in [Instance -> SUBSET Account] /\ torn \in BOOLEAN

\* When a decode with recreate_semantics ends, no address document of the
\* accounts its first pass recorded is older than the decode, although
\* delete_semantics skips accounts remembered as absent: each has been written
\* since the decode began or is, not looked up again, not stored.  (Written
\* from what the process remembers of the node and of Etherscan, that is: see
\* RecreateReadsSources.)
RecreateRewrites ==
  \A p \in Instance :
    stage[p] = "second" /\ PassDone(p) =>
      \A a \in Range(used[p]) :
        \/ a \in rewritten[p]
        \/ a \notin Range(plan[p]) /\ Absent(addresses[a])

\* What delete_semantics is given is what this decode looked up, in its order,
\* whatever a decode that failed before it left in _records.
RecordsAreThisDecode ==
  \A p \in Instance : stage[p] = "deleting" => used[p] = plan[p]

\* One process whose accounts share no code hash: reading stored semantics
\* fails for want of a contract document only after an exception or a crash
\* has cut a delete short.
TypeErrorNeedsTornDelete == \A p \in Instance : pc[p] = "error" => torn

\* Does not hold, see the README. CHANGELOG.md:60 "Added an option to recreate
\* semantics used for transaction decoding": what a recreating decode leaves in
\* the store is what the sources say, unless Etherscan failed to answer.
RecreateReadsSources ==
  \A p \in Instance :
    stage[p] = "second" /\ PassDone(p) =>
      \A a \in Range(plan[p]) : \A doc \in FindOne(addresses[a]) :
        /\ doc # Null
        /\ doc.contract = code[a]
        /\ code[a] # Zero => doc.known = (a \in published)

-----------------------------------------------------------------------------
(***************************************************************************)
(* The strengthenings that make the invariants above inductive.            *)
(***************************************************************************)
\* Nothing is remembered of the node or of Etherscan that they could not have
\* answered: what is created is one of the store's Descriptions.
SourcesHonest ==
  /\ \A a \in Account : code[a] \in CodeOf[a]
  /\ published \subseteq Verified
  /\ \A p \in Instance : \A a \in Account :
       /\ codeCache[p][a] # Miss => codeCache[p][a] \in CodeOf[a]
       /\ abiCache[p][a] # Miss /\ abiCache[p][a] => a \in Verified

Deletes == {"delAddress", "delContract", "clear"}
Writes  == {"create", "putContract", "insertContract", "putAddress", "insertAddress"}

\* The call a process is in is the one its decode made last.
Paced(p) ==
  /\ stage[p] = "out" => pc[p] = "idle" /\ ~busy[p]
  /\ stage[p] = "deleting" => ~busy[p] /\ pc[p] \in Deletes \cup {"idle"}
  /\ stage[p] \in {"first", "second"} =>
       /\ pos[p] <= Len(plan[p]) + 1 /\ pc[p] \notin Deletes
       /\ pc[p] # "idle" => busy[p] /\ subject[p] = plan[p][pos[p]]
       /\ busy[p] => pos[p] <= Len(plan[p])

\* The records of the pass so far; none are kept between the passes.
Recorded(p) ==
  /\ stage[p] \in {"first", "second"} =>
       /\ records[p] \in Seq(Account) /\ Len(records[p]) = pos[p] - 1
       /\ \A i \in 1 .. pos[p] - 1 : records[p][i] = plan[p][i]
  /\ stage[p] = "deleting" => used[p] = plan[p]

SessionInv ==
  /\ SessionTypeOK /\ SourcesHonest
  /\ \A p \in Instance : Paced(p) /\ Recorded(p)

\* An account remembered as absent is, unless this decode has written it since.
Unmissed(p, a) ==
  addressCache[p][a] = Null /\ ~Absent(addresses[a]) => a \in rewritten[p]

\* The next lookup of the account writes it, or this decode has done so.
Renewed(p, a) ==
  \/ a \in rewritten[p]
  \/ Absent(addresses[a]) /\ addressCache[p][a] \in {Null, Miss}

\* How far a recreating decode has got, while no other process interferes.
PassInv(p) ==
  stage[p] \in {"first", "second"} =>
    /\ \A i \in 1 .. pos[p] - 1 : Unmissed(p, plan[p][i])
    /\ busy[p] /\ pc[p] \notin Writes => Unmissed(p, plan[p][pos[p]])

DeletingInv(p) ==
  stage[p] = "deleting" =>
    /\ \A i \in 1 .. Len(plan[p]) : Unmissed(p, plan[p][i])
    /\ \A i \in 1 .. Len(plan[p]) : i < pos[p] =>
         \/ Renewed(p, plan[p][i])
         \/ pc[p] \in Deletes /\ subject[p] = plan[p][i]
    /\ pc[p] \in {"delContract", "clear"} => Absent(addresses[subject[p]])

SecondPassInv(p) ==
  stage[p] = "second" =>
    \A a \in Range(used[p]) :
      /\ \A i \in 1 .. pos[p] - 1 : plan[p][i] = a => a \in rewritten[p]
      /\ busy[p] /\ plan[p][pos[p]] = a =>
           pc[p] \in Writes \/ a \in rewritten[p]
      /\ Renewed(p, a) \/ (busy[p] /\ plan[p][pos[p]] = a)

RenewalInv == \A p \in Instance : PassInv(p) /\ DeletingInv(p) /\ SecondPassInv(p)

\* What a process reads of a contract is in the store, as long as every delete
\* was completed.
Whole(doc) == doc.contract # Zero => ~Absent(contracts[doc.contract])

StoreWhole ==
  \A a \in Account : \A q \in Instance : addresses[a][q] # Null =>
    addresses[a][q].contract \in CodeOf[a] /\ Whole(addresses[a][q])

CachesWhole(p) ==
  /\ \A h \in Hash : contractCache[p][h] # Null
  /\ \A a \in Account : addressCache[p][a] \notin {Null, Miss} =>
       \/ /\ addresses[a][p] # Null
          /\ addresses[a][p].contract = addressCache[p][a].contract
       \/ pc[p] \in {"delContract", "clear"} /\ subject[p] = a

CallWhole(p) ==
  /\ desc[p] # Null => desc[p].contract \in CodeOf[subject[p]]
  /\ pc[p] = "contract" => ~Absent(contracts[desc[p].contract])
  /\ pc[p] \in {"putAddress", "insertAddress"} => Whole(desc[p])
  /\ pc[p] \in {"delContract", "clear"} => Absent(addresses[subject[p]])
  /\ pc[p] = "create" => addressCache[p][subject[p]] = Null
  /\ pc[p] \in {"ens", "putContract", "insertContract", "putAddress", "insertAddress"} =>
       \/ addressCache[p][subject[p]] \in {Null, Miss}
       \/ addressCache[p][subject[p]].contract = desc[p].contract
  /\ pc[p] # "error"

WholeInv == ~torn => StoreWhole /\ \A p \in Instance : CachesWhole(p) /\ CallWhole(p)
=============================================================================
