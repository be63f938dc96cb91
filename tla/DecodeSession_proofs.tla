------------------------ MODULE DecodeSession_proofs ------------------------
(***************************************************************************)
(* Proofs about the semantics store and the decodes over it.  First the    *)
(* store (theorems about Spec): descriptions are never dangling, lookups   *)
(* succeed unless a delete took the contract document, and signatures are  *)
(* counted once per document of the contract.  Then sessions (theorems     *)
(* about SessionSpec): a session of any number of processes does to the    *)
(* store what SemanticsStore says, so its theorems hold of it; the records *)
(* are those of the decode; and, for one process, recreating rewrites and  *)
(* only a torn delete breaks a read.                                       *)
(***************************************************************************)
EXTENDS DecodeSession, FiniteSetTheorems, SequenceTheorems, TLAPS

(***************************************************************************)
(* A cached read: the cache keeps its type, answers with what it           *)
(* remembers or else with the database's answer, and every other entry is  *)
(* what it was or is evicted.                                              *)
(***************************************************************************)
LEMMA LookupLemma ==
  ASSUME NEW Key, NEW Value, NEW cache \in [Key -> Value], NEW key \in Key,
         NEW stored \in Value, Miss \in Value,
         NEW after \in Lookup(cache, key, stored)
  PROVE  /\ after \in [Key -> Value]
         /\ after[key] = IF cache[key] # Miss THEN cache[key] ELSE stored
         /\ \A k \in Key \ {key} : after[k] \in {cache[k], Miss}
<1>1. CASE cache[key] # Miss
  BY <1>1 DEF Lookup
<1>2. CASE cache[key] = Miss
  <2>1. after \in Fill(cache, key, stored)
    BY <1>2 DEF Lookup
  <2>2. CASE after = [cache EXCEPT ![key] = stored]
    BY <1>2, <2>2
  <2>3. CASE \E victim \in Held(cache) :
                after = [cache EXCEPT ![key] = stored, ![victim] = Miss]
    <3>1. PICK victim \in Held(cache) :
                after = [cache EXCEPT ![key] = stored, ![victim] = Miss]
      BY <2>3
    <3>2. victim \in Key /\ victim # key
      BY <1>2 DEF Held
    <3> QED
      BY <1>2, <3>1, <3>2
  <2> QED
    BY <2>1, <2>2, <2>3 DEF Fill
<1> QED
  BY <1>1, <1>2

LEMMA EmptyType ==
  ASSUME NEW Key, NEW Value, Miss \in Value
  PROVE  Empty(Key) \in [Key -> Value] /\ \A k \in Key : Empty(Key)[k] = Miss
BY DEF Empty

\* Null and Miss are neither documents nor each other.
LEMMA Sentinels ==
  /\ Null \notin AddressDoc /\ Null \notin ContractDoc /\ Null \notin Account
  /\ Miss \notin AddressDoc /\ Miss \notin ContractDoc /\ Miss # Null
  /\ Null \notin RememberedContract /\ Miss \notin RememberedContract
BY ConstantsAssumption

\* What find_one may answer, of the documents under a key.
LEMMA FoundOne ==
  ASSUME NEW docs, NEW stored \in FindOne(docs)
  PROVE  /\ stored = Null => Absent(docs)
         /\ stored # Null => \E q \in Instance : docs[q] = stored
BY DEF FindOne, Absent

LEMMA AbiOfType == \A d : AbiOf(d) \in ContractDoc
BY DEF AbiOf, ContractDoc

LEMMA DescriptionsType == \A a : Descriptions(a) \subseteq AddressDoc
BY DEF Descriptions

-----------------------------------------------------------------------------
LEMMA InitIntegrity == Init => IntegrityInv
<1> SUFFICES ASSUME Init PROVE IntegrityInv
  OBVIOUS
<1> USE DEF Init
<1>1. TypeOK
  <2>1. counted \in [Hash -> [Function -> 0 .. CountCap]]
    BY BoundsAssumption
  <2>2. addressCache \in [Instance -> [Account -> AddressDoc \cup {Null, Miss}]]
    BY EmptyType
  <2>3. contractCache \in [Instance -> [Hash -> RememberedContract \cup {Null, Miss}]]
    BY EmptyType
  <2> QED
    BY <2>1, <2>2, <2>3 DEF TypeOK, PC
<1>2. NoDanglingAddress /\ TypeErrorNeedsDrop /\ HeldBacked
  BY DEF NoDanglingAddress, TypeErrorNeedsDrop, HeldBacked
<1>3. CachesBacked
  BY EmptyType, Sentinels DEF CachesBacked
<1> QED
  BY <1>1, <1>2, <1>3 DEF IntegrityInv

(***************************************************************************)
(* Steps that leave the database alone: what they make of the control of a *)
(* process, given that the caches stay good.                               *)
(***************************************************************************)
CachesGood ==
  /\ addressCache \in [Instance -> [Account -> AddressDoc \cup {Null, Miss}]]
  /\ contractCache \in [Instance -> [Hash -> RememberedContract \cup {Null, Miss}]]
  /\ CachesBacked

LEMMA UnchangedCaches ==
  ASSUME IntegrityInv, UNCHANGED <<db, caches, dropped>>
  PROVE  CachesGood'
BY DEF IntegrityInv, TypeOK, CachesGood, CachesBacked, Backed, db, caches

LEMMA BackedStays ==
  ASSUME contracts' = contracts, dropped' = dropped
  PROVE  \A h : Backed(h)' <=> Backed(h)
BY DEF Backed, Absent

LEMMA StayIntegrity ==
  ASSUME IntegrityInv, UNCHANGED control, CachesGood', UNCHANGED <<db, dropped>>
  PROVE  IntegrityInv'
BY DEF IntegrityInv, TypeOK, NoDanglingAddress, TypeErrorNeedsDrop, HeldBacked, Backed,
       CachesGood, control, db

LEMMA ReturnIntegrity ==
  ASSUME IntegrityInv, NEW p \in Instance, Return(p), CachesGood', UNCHANGED <<db, dropped>>
  PROVE  IntegrityInv'
<1> USE DEF IntegrityInv, Return, Goto, db
<1>1. TypeOK' /\ CachesBacked'
  BY DEF TypeOK, PC, CachesGood
<1>2. NoDanglingAddress'
  BY BackedStays DEF NoDanglingAddress
<1>3. TypeErrorNeedsDrop'
  BY DEF TypeErrorNeedsDrop, TypeOK
<1>4. HeldBacked'
  BY BackedStays DEF HeldBacked, TypeOK
<1> QED
  BY <1>1, <1>2, <1>3, <1>4

LEMMA ContinueIntegrity ==
  ASSUME IntegrityInv, NEW p \in Instance, NEW label \in PC, NEW a \in Account,
         NEW d \in AddressDoc \cup {Null}, Continue(p, label, a, d),
         CachesGood', UNCHANGED <<db, dropped>>,
         label # "idle", label = "create" \/ d # Null,
         label \in {"contract", "putAddress", "insertAddress", "putSignatures"} =>
           Backed(d.contract),
         label = "error" => d.contract \in dropped
  PROVE  IntegrityInv'
<1> USE DEF IntegrityInv, Continue, Goto, db
<1>1. TypeOK' /\ CachesBacked'
  BY Sentinels DEF TypeOK, PC, CachesGood
<1>2. NoDanglingAddress'
  BY BackedStays DEF NoDanglingAddress
<1>3. TypeErrorNeedsDrop'
  BY DEF TypeErrorNeedsDrop, TypeOK
<1>4. HeldBacked'
  BY BackedStays DEF HeldBacked, TypeOK
<1> QED
  BY <1>1, <1>2, <1>3, <1>4

(***************************************************************************)
(* A cached read of an address document, and what it answers.              *)
(***************************************************************************)
LEMMA AddressRead ==
  ASSUME IntegrityInv, NEW p \in Instance, NEW a \in Account,
         NEW cache \in CachedFind(addressCache[p], a, addresses[a]),
         addressCache' = [addressCache EXCEPT ![p] = cache],
         UNCHANGED <<db, contractCache, dropped>>
  PROVE  /\ CachesGood'
         /\ cache[a] \in AddressDoc \cup {Null}
         /\ cache[a] # Null => Backed(cache[a].contract)
<1> DEFINE Value == AddressDoc \cup {Null, Miss}
<1>1. PICK stored \in FindOne(addresses[a]) : cache \in Lookup(addressCache[p], a, stored)
  BY DEF CachedFind
<1>2. /\ addressCache[p] \in [Account -> Value]
      /\ stored \in Value /\ stored # Miss /\ Miss \in Value
      /\ stored # Null => Backed(stored.contract)
  <2>1. CASE stored = Null
    BY <2>1, Sentinels DEF IntegrityInv, TypeOK
  <2>2. CASE stored # Null
    <3>1. PICK q \in Instance : addresses[a][q] = stored
      BY <2>2, FoundOne
    <3> QED
      BY <2>2, <3>1, Sentinels DEF IntegrityInv, TypeOK, NoDanglingAddress
  <2> QED
    BY <2>1, <2>2
<1>3. /\ cache \in [Account -> Value]
      /\ cache[a] = IF addressCache[p][a] # Miss THEN addressCache[p][a] ELSE stored
      /\ \A k \in Account \ {a} : cache[k] \in {addressCache[p][k], Miss}
  <2> HIDE DEF Value
  <2> QED
    BY <1>1, <1>2, LookupLemma
<1>4. \A k \in Account : cache[k] \notin {Null, Miss} => Backed(cache[k].contract)
  BY <1>2, <1>3 DEF IntegrityInv, CachesBacked
<1>5. CachesBacked'
  BY <1>4 DEF IntegrityInv, TypeOK, CachesBacked, Backed, db
<1>6. CachesGood'
  BY <1>3, <1>5 DEF IntegrityInv, TypeOK, CachesGood
<1> QED
  BY <1>2, <1>3, <1>4, <1>6

LEMMA GetIntegrity ==
  ASSUME IntegrityInv, NEW p \in Instance, NEW a \in Account, Get(p, a)
  PROVE  IntegrityInv'
<1>1. PICK cache \in CachedFind(addressCache[p], a, addresses[a]) :
         /\ addressCache' = [addressCache EXCEPT ![p] = cache]
         /\ \/ cache[a] = Null /\ Continue(p, "create", a, Null)
            \/ cache[a] # Null /\ Continue(p, "contract", a, cache[a])
            \/ cache[a] # Null /\ NamedEOA(p, a, cache[a])
  BY DEF Get
<1>2. UNCHANGED <<db, contractCache, dropped>>
  BY DEF Get
<1>3. /\ CachesGood'
      /\ cache[a] \in AddressDoc \cup {Null}
      /\ cache[a] # Null => Backed(cache[a].contract)
  BY <1>1, <1>2, AddressRead
<1>4. CASE cache[a] = Null /\ Continue(p, "create", a, Null)
  BY <1>2, <1>3, <1>4, ContinueIntegrity DEF PC
<1>5. CASE cache[a] # Null /\ Continue(p, "contract", a, cache[a])
  BY <1>2, <1>3, <1>5, ContinueIntegrity DEF PC
<1>6. CASE cache[a] # Null /\ Continue(p, "ens", a, cache[a])
  BY <1>2, <1>3, <1>6, ContinueIntegrity DEF PC
<1>7. CASE UNCHANGED control
  BY <1>2, <1>3, <1>7, StayIntegrity
<1> QED
  BY <1>1, <1>4, <1>5, <1>6, <1>7 DEF NamedEOA

LEMMA DeleteIntegrity ==
  ASSUME IntegrityInv, NEW p \in Instance, NEW a \in Account, Delete(p, a)
  PROVE  IntegrityInv'
<1>1. PICK cache \in CachedFind(addressCache[p], a, addresses[a]) :
         /\ addressCache' = [addressCache EXCEPT ![p] = cache]
         /\ IF cache[a] = Null THEN UNCHANGED control
            ELSE Continue(p, "delAddress", a, cache[a])
  BY DEF Delete
<1>2. UNCHANGED <<db, contractCache, dropped>>
  BY DEF Delete
<1>3. CachesGood' /\ cache[a] \in AddressDoc \cup {Null}
  BY <1>1, <1>2, AddressRead
<1>4. CASE UNCHANGED control
  BY <1>2, <1>3, <1>4, StayIntegrity
<1>5. CASE cache[a] # Null /\ Continue(p, "delAddress", a, cache[a])
  BY <1>2, <1>3, <1>5, ContinueIntegrity DEF PC
<1> QED
  BY <1>1, <1>4, <1>5

LEMMA ReadContractIntegrity ==
  ASSUME IntegrityInv, NEW p \in Instance, ReadContract(p)
  PROVE  IntegrityInv'
<1> DEFINE h == desc[p].contract
           Value == RememberedContract \cup {Null, Miss}
           stored == Remembered(contracts[h])
<1>1. PICK cache \in Lookup(contractCache[p], h, stored) :
         /\ contractCache' = [contractCache EXCEPT ![p] = cache]
         /\ IF cache[h] = Null
            THEN Continue(p, "error", subject[p], desc[p])
            ELSE Return(p)
  BY DEF ReadContract
<1>2. UNCHANGED <<db, addressCache, dropped>> /\ pc[p] = "contract"
  BY DEF ReadContract
<1>3. desc[p] \in AddressDoc /\ h \in Hash /\ subject[p] \in Account
  BY <1>2 DEF IntegrityInv, TypeOK, AddressDoc
<1>4. /\ contractCache[p] \in [Hash -> Value]
      /\ stored \in Value /\ stored # Miss /\ Miss \in Value
      /\ stored = Null <=> Absent(contracts[h])
  BY <1>3, Sentinels DEF IntegrityInv, TypeOK, Remembered, RememberedContract
<1>5. /\ cache \in [Hash -> Value]
      /\ cache[h] = IF contractCache[p][h] # Miss THEN contractCache[p][h] ELSE stored
      /\ \A k \in Hash \ {h} : cache[k] \in {contractCache[p][k], Miss}
  <2> HIDE DEF h, Value, stored
  <2> QED
    BY <1>1, <1>3, <1>4, LookupLemma
<1>6. Backed(h)
  BY <1>2 DEF IntegrityInv, HeldBacked
<1>7. \A k \in Hash : cache[k] = Null => k \in dropped
  <2> HIDE DEF h, stored
  <2> QED
    BY <1>4, <1>5, <1>6, Sentinels DEF IntegrityInv, CachesBacked, Backed
<1>8. CachesGood'
  <2> HIDE DEF h
  <2>1. CachesBacked'
    BY <1>1, <1>2, <1>7 DEF IntegrityInv, TypeOK, CachesBacked, Backed, db
  <2> QED
    BY <1>1, <1>2, <1>5, <2>1 DEF IntegrityInv, TypeOK, CachesGood
<1>9. CASE cache[h] = Null
  <2>1. Continue(p, "error", subject[p], desc[p])
    BY <1>1, <1>9
  <2>2. h \in dropped
    BY <1>3, <1>7, <1>9
  <2> QED
    BY <1>2, <1>3, <1>8, <2>1, <2>2, Sentinels, ContinueIntegrity DEF PC
<1>10. CASE cache[h] # Null
  BY <1>1, <1>2, <1>8, <1>10, ReturnIntegrity
<1> QED
  BY <1>9, <1>10

LEMMA RefreshNameIntegrity ==
  ASSUME IntegrityInv, NEW p \in Instance, RefreshName(p)
  PROVE  IntegrityInv'
<1>1. UNCHANGED <<db, caches, dropped>> /\ pc[p] = "ens"
  BY DEF RefreshName
<1>2. CachesGood'
  BY <1>1, UnchangedCaches
<1>3. desc[p] \in AddressDoc /\ subject[p] \in Account
  BY <1>1 DEF IntegrityInv, TypeOK
<1>4. CASE Continue(p, "putContract", subject[p], [desc[p] EXCEPT !.known = TRUE])
  <2>1. [desc[p] EXCEPT !.known = TRUE] \in AddressDoc
    BY <1>3 DEF AddressDoc
  <2> QED
    BY <1>1, <1>2, <1>3, <1>4, <2>1, Sentinels, ContinueIntegrity DEF PC
<1>5. CASE Return(p)
  BY <1>1, <1>2, <1>5, ReturnIntegrity
<1> QED
  BY <1>4, <1>5 DEF RefreshName

LEMMA CreateIntegrity ==
  ASSUME IntegrityInv, NEW p \in Instance, Create(p)
  PROVE  IntegrityInv'
<1>1. UNCHANGED <<db, caches, dropped>> /\ pc[p] = "create"
  BY DEF Create, CreateAs
<1>2. PICK d \in AddressDoc : Continue(p, "putContract", subject[p], d)
  BY DescriptionsType DEF Create, CreateAs
<1>3. CachesGood'
  BY <1>1, UnchangedCaches
<1>4. subject[p] \in Account
  BY <1>1 DEF IntegrityInv, TypeOK
<1> QED
  BY <1>1, <1>2, <1>3, <1>4, Sentinels, ContinueIntegrity DEF PC

LEMMA QuietIntegrity ==
  ASSUME IntegrityInv, NEW p \in Instance, Return(p), UNCHANGED <<db, caches, dropped>>
  PROVE  IntegrityInv'
BY UnchangedCaches, ReturnIntegrity

LEMMA EmptyCachesIntegrity ==
  ASSUME IntegrityInv, NEW p \in Instance, Return(p), UNCHANGED <<db, dropped>>,
         addressCache' = [addressCache EXCEPT ![p] = Empty(Account)],
         contractCache' = [contractCache EXCEPT ![p] = Empty(Hash)]
  PROVE  IntegrityInv'
<1>1. /\ Empty(Account) \in [Account -> AddressDoc \cup {Null, Miss}]
      /\ Empty(Hash) \in [Hash -> RememberedContract \cup {Null, Miss}]
  BY EmptyType
<1>2. CachesBacked'
  BY Sentinels, EmptyType DEF IntegrityInv, TypeOK, CachesBacked, Backed, db
<1>3. CachesGood'
  BY <1>1, <1>2 DEF IntegrityInv, TypeOK, CachesGood
<1> QED
  BY <1>3, ReturnIntegrity

-----------------------------------------------------------------------------
(***************************************************************************)
(* The steps that write to the database.                                   *)
(***************************************************************************)
\* A document written under a key is there, and so are the others.
LEMMA WrittenThere ==
  ASSUME NEW Key, NEW Value, Null \notin Value,
         NEW old \in [Key -> [Instance -> Value \cup {Null}]],
         NEW k \in Key, NEW q \in Instance, NEW doc \in Value,
         NEW new, new = [old EXCEPT ![k][q] = doc]
  PROVE  /\ new \in [Key -> [Instance -> Value \cup {Null}]]
         /\ ~Absent(new[k]) /\ new[k][q] = doc
         /\ \A j \in Key : ~Absent(old[j]) => ~Absent(new[j])
         /\ \A j \in Key, i \in Instance : j # k \/ i # q => new[j][i] = old[j][i]
<1>1. /\ new \in [Key -> [Instance -> Value \cup {Null}]] /\ new[k][q] = doc
      /\ \A j \in Key, i \in Instance : j # k \/ i # q => new[j][i] = old[j][i]
  OBVIOUS
<1>2. ~Absent(new[k])
  BY <1>1 DEF Absent
<1>3. ASSUME NEW j \in Key, ~Absent(old[j]) PROVE ~Absent(new[j])
  BY <1>1, <1>3 DEF Absent
<1> QED
  BY <1>1, <1>2, <1>3

LEMMA WriteContractIntegrity ==
  ASSUME IntegrityInv, NEW p \in Instance, NEW q \in Instance, NEW inserted \in BOOLEAN,
         pc[p] \in {"putContract", "insertContract"}, WriteContract(p, q, inserted)
  PROVE  IntegrityInv'
<1> DEFINE h == desc[p].contract
           doc == AbiOf(desc[p])
<1>1. /\ contracts' = [contracts EXCEPT ![h][q] = doc]
      /\ todo' = [todo EXCEPT ![p] = NewSignatures(inserted, doc)]
      /\ pc' = [pc EXCEPT ![p] = "putAddress"]
      /\ UNCHANGED <<addresses, counted, caches, subject, desc, dropped>>
  BY DEF WriteContract, Goto
<1>2. h \in Hash /\ doc \in ContractDoc /\ NewSignatures(inserted, doc) \subseteq Function
  BY <1>1, AbiOfType DEF IntegrityInv, TypeOK, AddressDoc, NewSignatures
<1> HIDE DEF h, doc
<1>3. /\ contracts' \in [Hash -> [Instance -> ContractDoc \cup {Null}]]
      /\ ~Absent(contracts'[h])
      /\ \A k \in Hash : ~Absent(contracts[k]) => ~Absent(contracts'[k])
  <2>1. contracts \in [Hash -> [Instance -> ContractDoc \cup {Null}]]
    BY DEF IntegrityInv, TypeOK
  <2>2. /\ contracts' \in [Hash -> [Instance -> ContractDoc \cup {Null}]]
        /\ contracts'[h][q] = doc
        /\ \A j \in Hash, i \in Instance : j # h \/ i # q => contracts'[j][i] = contracts[j][i]
    BY <1>1, <1>2, <2>1
  <2>3. doc # Null
    BY <1>2, Sentinels
  <2> QED
    BY <2>2, <2>3 DEF Absent
<1>4. \A k \in Hash : Backed(k) => Backed(k)'
  BY <1>1, <1>3 DEF Backed, Absent
<1>5. TypeOK'
  BY <1>1, <1>2, <1>3 DEF IntegrityInv, TypeOK, PC, caches
<1>6. NoDanglingAddress'
  BY <1>1, <1>4 DEF IntegrityInv, TypeOK, NoDanglingAddress, AddressDoc
<1>7. CachesBacked'
  BY <1>1, <1>4 DEF IntegrityInv, TypeOK, CachesBacked, caches, AddressDoc
<1>8. TypeErrorNeedsDrop' /\ HeldBacked'
  <2>1. Backed(desc[p].contract)'
    BY <1>1, <1>3 DEF Backed, Absent, h
  <2>2. TypeErrorNeedsDrop'
    BY <1>1 DEF IntegrityInv, TypeOK, TypeErrorNeedsDrop
  <2>3. ASSUME NEW r \in Instance,
               pc'[r] \in {"contract", "putAddress", "insertAddress", "putSignatures"}
        PROVE  Backed(desc[r].contract)'
    <3>1. CASE r = p
      BY <2>1, <3>1
    <3>2. CASE r # p
      <4>1. pc[r] \in {"contract", "putAddress", "insertAddress", "putSignatures"}
        BY <1>1, <2>3, <3>2 DEF IntegrityInv, TypeOK
      <4>2. desc[r].contract \in Hash /\ Backed(desc[r].contract)
        BY <4>1 DEF IntegrityInv, TypeOK, HeldBacked, AddressDoc
      <4> QED
        BY <1>1, <1>4, <4>2
    <3> QED
      BY <3>1, <3>2
  <2> QED
    BY <2>2, <2>3 DEF HeldBacked
<1> QED
  BY <1>5, <1>6, <1>7, <1>8 DEF IntegrityInv

LEMMA WriteAddressIntegrity ==
  ASSUME IntegrityInv, NEW p \in Instance, NEW q \in Instance,
         pc[p] \in {"putAddress", "insertAddress"}, WriteAddress(p, q)
  PROVE  IntegrityInv'
<1>1. /\ addresses' = [addresses EXCEPT ![subject[p]][q] = desc[p]]
      /\ UNCHANGED <<contracts, counted, caches, dropped>>
      /\ \/ Return(p)
         \/ Goto(p, "putSignatures") /\ UNCHANGED <<subject, desc, todo>>
  BY DEF WriteAddress
<1>2. desc[p] \in AddressDoc /\ subject[p] \in Account /\ Backed(desc[p].contract)
  BY <1>1 DEF IntegrityInv, TypeOK, HeldBacked
<1>3. /\ addresses' \in [Account -> [Instance -> AddressDoc \cup {Null}]]
      /\ addresses'[subject[p]][q] = desc[p]
      /\ \A a \in Account, i \in Instance :
           a # subject[p] \/ i # q => addresses'[a][i] = addresses[a][i]
  BY <1>1, <1>2, Sentinels, WrittenThere DEF IntegrityInv, TypeOK
<1>4. \A k : Backed(k)' <=> Backed(k)
  BY <1>1 DEF Backed, Absent
<1>5. NoDanglingAddress'
  BY <1>2, <1>3, <1>4 DEF IntegrityInv, NoDanglingAddress
<1>6. CachesBacked'
  BY <1>1, <1>4 DEF IntegrityInv, CachesBacked, caches
<1>7. TypeOK'
  <2>1. pc' \in [Instance -> PC] /\ todo' \in [Instance -> SUBSET Function]
    BY <1>1 DEF IntegrityInv, TypeOK, PC, Return, Goto
  <2>2. /\ subject' \in [Instance -> Account \cup {Null}]
        /\ desc' \in [Instance -> AddressDoc \cup {Null}]
        /\ \A r \in Instance : pc'[r] # "idle" => subject'[r] # Null
        /\ \A r \in Instance : pc'[r] \notin {"idle", "create"} => desc'[r] # Null
    BY <1>1, <1>2 DEF IntegrityInv, TypeOK, Return, Goto
  <2> QED
    BY <1>1, <1>3, <2>1, <2>2 DEF IntegrityInv, TypeOK, caches
<1>8. TypeErrorNeedsDrop' /\ HeldBacked'
  BY <1>1, <1>2, <1>4
  DEF IntegrityInv, TypeOK, TypeErrorNeedsDrop, HeldBacked, Return, Goto
<1> QED
  BY <1>5, <1>6, <1>7, <1>8 DEF IntegrityInv

\* An upsert that finds no document goes on to insert one.
LEMMA MissIntegrity ==
  ASSUME IntegrityInv, NEW p \in Instance, MissContract(p) \/ MissAddress(p)
  PROVE  IntegrityInv'
<1>1. /\ UNCHANGED <<db, caches, subject, desc, todo, dropped>>
      /\ \/ pc[p] = "putContract" /\ pc' = [pc EXCEPT ![p] = "insertContract"]
         \/ pc[p] = "putAddress" /\ pc' = [pc EXCEPT ![p] = "insertAddress"]
  BY DEF MissContract, MissAddress, Goto
<1>2. TypeOK'
  BY <1>1 DEF IntegrityInv, TypeOK, PC, db, caches
<1>3. NoDanglingAddress' /\ CachesBacked'
  BY <1>1 DEF IntegrityInv, NoDanglingAddress, CachesBacked, Backed, Absent, db, caches
<1>4. TypeErrorNeedsDrop' /\ HeldBacked'
  BY <1>1 DEF IntegrityInv, TypeOK, TypeErrorNeedsDrop, HeldBacked, Backed, Absent, db
<1> QED
  BY <1>2, <1>3, <1>4 DEF IntegrityInv

LEMMA PutSignatureIntegrity ==
  ASSUME IntegrityInv, NEW p \in Instance, NEW f \in Function, PutSignature(p, f)
  PROVE  IntegrityInv'
<1> DEFINE h == desc[p].contract
           n == IF counted[h][f] < CountCap THEN counted[h][f] + 1 ELSE counted[h][f]
<1>1. /\ pc[p] = "putSignatures"
      /\ counted' = [counted EXCEPT ![h][f] = n]
      /\ UNCHANGED <<addresses, contracts, caches, dropped>>
      /\ \/ Return(p)
         \/ todo' = [todo EXCEPT ![p] = @ \ {f}] /\ UNCHANGED <<pc, subject, desc>>
  BY DEF PutSignature
<1>2. h \in Hash
  BY <1>1 DEF IntegrityInv, TypeOK, AddressDoc
<1>3. counted[h][f] \in 0 .. CountCap
  BY <1>2 DEF IntegrityInv, TypeOK
<1>4. n \in 0 .. CountCap
  BY <1>3, BoundsAssumption
<1> HIDE DEF h, n
<1>5. counted' \in [Hash -> [Function -> 0 .. CountCap]]
  BY <1>1, <1>2, <1>4 DEF IntegrityInv, TypeOK
<1>6. TypeOK'
  <2>1. pc' \in [Instance -> PC]
    BY <1>1 DEF IntegrityInv, TypeOK, PC, Return, Goto
  <2>2. todo' \in [Instance -> SUBSET Function]
    <3>1. todo \in [Instance -> SUBSET Function]
      BY DEF IntegrityInv, TypeOK
    <3>2. \/ todo' = [todo EXCEPT ![p] = {}]
          \/ todo' = [todo EXCEPT ![p] = @ \ {f}]
      BY <1>1 DEF Return
    <3> QED
      BY <3>1, <3>2
  <2>3. /\ subject' \in [Instance -> Account \cup {Null}]
        /\ desc' \in [Instance -> AddressDoc \cup {Null}]
        /\ \A q \in Instance : pc'[q] # "idle" => subject'[q] # Null
        /\ \A q \in Instance : pc'[q] \notin {"idle", "create"} => desc'[q] # Null
    BY <1>1 DEF IntegrityInv, TypeOK, Return, Goto
  <2> QED
    BY <1>1, <1>5, <2>1, <2>3, <2>2 DEF IntegrityInv, TypeOK, caches
<1>7. NoDanglingAddress' /\ CachesBacked'
  BY <1>1, BackedStays DEF IntegrityInv, NoDanglingAddress, CachesBacked, caches
<1>8. TypeErrorNeedsDrop' /\ HeldBacked'
  BY <1>1, BackedStays DEF IntegrityInv, TypeOK, TypeErrorNeedsDrop, HeldBacked, Return, Goto
<1> QED
  BY <1>6, <1>7, <1>8 DEF IntegrityInv

LEMMA DeleteAddressIntegrity ==
  ASSUME IntegrityInv, NEW p \in Instance, DeleteAddress(p)
  PROVE  IntegrityInv'
<1>1. /\ pc[p] = "delAddress" /\ pc' = [pc EXCEPT ![p] = "delContract"]
      /\ UNCHANGED <<contracts, counted, caches, subject, desc, todo, dropped>>
  BY DEF DeleteAddress, Goto
<1>2. PICK q \in Instance : addresses' = [addresses EXCEPT ![subject[p]][q] = Null]
  BY DEF DeleteAddress, DeleteOne
<1>3. /\ addresses' \in [Account -> [Instance -> AddressDoc \cup {Null}]]
      /\ \A a \in Account, i \in Instance : addresses'[a][i] \in {addresses[a][i], Null}
  BY <1>1, <1>2 DEF IntegrityInv, TypeOK
<1>4. TypeOK'
  BY <1>1, <1>3 DEF IntegrityInv, TypeOK, PC, caches
<1>5. \A k : Backed(k)' <=> Backed(k)
  BY <1>1 DEF Backed, Absent
<1>6. NoDanglingAddress' /\ CachesBacked'
  BY <1>1, <1>3, <1>5 DEF IntegrityInv, NoDanglingAddress, CachesBacked, caches
<1>7. TypeErrorNeedsDrop' /\ HeldBacked'
  BY <1>1, <1>5 DEF IntegrityInv, TypeOK, TypeErrorNeedsDrop, HeldBacked
<1> QED
  BY <1>4, <1>6, <1>7 DEF IntegrityInv

LEMMA DeleteContractIntegrity ==
  ASSUME IntegrityInv, NEW p \in Instance, DeleteContract(p)
  PROVE  IntegrityInv'
<1> DEFINE h == desc[p].contract
<1>1. /\ pc[p] = "delContract"
      /\ dropped' = dropped \cup {h}
      /\ pc' = [pc EXCEPT ![p] = "clear"]
      /\ UNCHANGED <<addresses, counted, caches, subject, desc, todo>>
  BY DEF DeleteContract, Goto
<1>2. PICK q \in Instance : contracts' = [contracts EXCEPT ![h][q] = Null]
  BY DEF DeleteContract, DeleteOne
<1>3. h \in Hash
  BY <1>1 DEF IntegrityInv, TypeOK, AddressDoc
<1> HIDE DEF h
<1>4. /\ contracts' \in [Hash -> [Instance -> ContractDoc \cup {Null}]]
      /\ \A k \in Hash : k # h => contracts'[k] = contracts[k]
  BY <1>2, <1>3 DEF IntegrityInv, TypeOK
<1>5. \A k \in Hash : Backed(k) => Backed(k)'
  BY <1>1, <1>4 DEF Backed, Absent
<1>6. TypeOK'
  BY <1>1, <1>3, <1>4 DEF IntegrityInv, TypeOK, PC, caches
<1>7. NoDanglingAddress'
  BY <1>1, <1>5 DEF IntegrityInv, TypeOK, NoDanglingAddress, AddressDoc
<1>8. CachesBacked'
  BY <1>1, <1>5 DEF IntegrityInv, TypeOK, CachesBacked, AddressDoc, caches
<1>9. TypeErrorNeedsDrop' /\ HeldBacked'
  <2>1. TypeErrorNeedsDrop'
    BY <1>1 DEF IntegrityInv, TypeOK, TypeErrorNeedsDrop
  <2>2. ASSUME NEW r \in Instance,
               pc'[r] \in {"contract", "putAddress", "insertAddress", "putSignatures"}
        PROVE  Backed(desc[r].contract)'
    <3>1. pc[r] \in {"contract", "putAddress", "insertAddress", "putSignatures"}
      BY <1>1, <2>2 DEF IntegrityInv, TypeOK
    <3>2. desc[r].contract \in Hash /\ Backed(desc[r].contract)
      BY <3>1 DEF IntegrityInv, TypeOK, HeldBacked, AddressDoc
    <3> QED
      BY <1>1, <1>5, <3>2
  <2> QED
    BY <2>1, <2>2 DEF HeldBacked
<1> QED
  BY <1>6, <1>7, <1>8, <1>9 DEF IntegrityInv

LEMMA NextIntegrity == IntegrityInv /\ [Next]_vars => IntegrityInv'
<1> SUFFICES ASSUME IntegrityInv, [Next]_vars PROVE IntegrityInv'
  OBVIOUS
<1>1. CASE UNCHANGED vars
  <2>1. CachesGood' /\ UNCHANGED control /\ UNCHANGED <<db, dropped>>
    BY <1>1, UnchangedCaches DEF vars
  <2> QED
    BY <2>1, StayIntegrity
<1>2. ASSUME NEW p \in Instance, NEW a \in Account, Get(p, a) \/ Delete(p, a)
      PROVE  IntegrityInv'
  BY <1>2, GetIntegrity, DeleteIntegrity
<1>3. ASSUME NEW p \in Instance, ReadContract(p) \/ RefreshName(p) \/ Create(p)
      PROVE  IntegrityInv'
  BY <1>3, ReadContractIntegrity, RefreshNameIntegrity, CreateIntegrity
<1>4. ASSUME NEW p \in Instance,
             \/ ReplaceContract(p) \/ MissContract(p) \/ InsertContract(p)
             \/ ReplaceAddress(p) \/ MissAddress(p) \/ InsertAddress(p)
             \/ DeleteAddress(p) \/ DeleteContract(p)
      PROVE  IntegrityInv'
  BY <1>4, WriteContractIntegrity, WriteAddressIntegrity, MissIntegrity,
     DeleteAddressIntegrity, DeleteContractIntegrity
  DEF ReplaceContract, InsertContract, ReplaceAddress, InsertAddress
<1>5. ASSUME NEW p \in Instance, NEW f \in Function, PutSignature(p, f)
      PROVE  IntegrityInv'
  BY <1>5, PutSignatureIntegrity
<1>6. ASSUME NEW p \in Instance, RaiseTypeError(p) \/ Fail(p)
      PROVE  IntegrityInv'
  BY <1>6, QuietIntegrity DEF RaiseTypeError, Fail
<1>7. ASSUME NEW p \in Instance, ClearCaches(p) \/ Crash(p)
      PROVE  IntegrityInv'
  BY <1>7, EmptyCachesIntegrity DEF ClearCaches, Crash
<1> QED
  BY <1>1, <1>2, <1>3, <1>4, <1>5, <1>6, <1>7 DEF Next, Step

THEOREM IntegrityInvariant == Spec => []IntegrityInv
BY InitIntegrity, NextIntegrity, PTL DEF Spec

\* The documents, the caches and the control of every process are always well formed.
THEOREM TypeCorrect == Spec => []TypeOK
<1>1. IntegrityInv => TypeOK
  BY DEF IntegrityInv
<1> QED
  BY <1>1, IntegrityInvariant, PTL

\* However many processes write, fail or die, no address document is left
\* without a contract document unless that code hash has been deleted.
THEOREM StoreIntegrity == Spec => []NoDanglingAddress
<1>1. IntegrityInv => NoDanglingAddress
  BY DEF IntegrityInv
<1> QED
  BY <1>1, IntegrityInvariant, PTL

\* Reading stored semantics raises the TypeError only for a deleted code hash.
THEOREM LookupsSucceed == Spec => []TypeErrorNeedsDrop
<1>1. IntegrityInv => TypeErrorNeedsDrop
  BY DEF IntegrityInv
<1> QED
  BY <1>1, IntegrityInvariant, PTL

-----------------------------------------------------------------------------
(***************************************************************************)
(* CountedPerDocument.  Most steps leave the contract documents and the    *)
(* counts alone and start nobody counting or inserting.                    *)
(***************************************************************************)
StartsNoCount ==
  \A q \in Instance :
    /\ \A h, f : Counting(q, h, f)' => Counting(q, h, f)
    /\ pc'[q] = "insertContract" => pc[q] = "insertContract" /\ desc'[q] = desc[q]

\* A count that stays has the inserters it had, as long as none is lost.
LEMMA SharesStay ==
  ASSUME TypeOK, NEW h \in Hash, NEW f \in Function,
         counted[h][f] <= Cardinality(CountedBy(h, f)),
         CountedBy(h, f) \subseteq CountedBy(h, f)', counted'[h][f] = counted[h][f]
  PROVE  counted'[h][f] <= Cardinality(CountedBy(h, f)')
<1> DEFINE S == CountedBy(h, f)
           T == CountedBy(h, f)'
<1>1. IsFiniteSet(T)
  <2>1. T \subseteq Instance
    BY DEF CountedBy
  <2> QED
    BY <2>1, ProcessesAssumption, FS_Subset
<1>2. counted[h][f] \in Nat
  BY BoundsAssumption DEF TypeOK
<1> HIDE DEF S, T
<1>3. IsFiniteSet(S) /\ Cardinality(S) <= Cardinality(T)
  BY <1>1, FS_Subset DEF S, T
<1>4. Cardinality(S) \in Nat /\ Cardinality(T) \in Nat
  BY <1>1, <1>3, FS_CardinalityType
<1> QED
  BY <1>2, <1>3, <1>4 DEF S, T

LEMMA QuietCount ==
  ASSUME CountInv, IntegrityInv', UNCHANGED <<counted, contracts, dropped>>, StartsNoCount
  PROVE  CountInv'
<1>1. CountersInserted'
  BY DEF CountInv, CountersInserted, StartsNoCount
<1>2. ASSUME NEW h \in Hash \ dropped, NEW f \in Function
      PROVE  counted'[h][f] <= Cardinality(CountedBy(h, f)')
  <2>1. CountedBy(h, f) \subseteq CountedBy(h, f)'
    BY DEF CountedBy, StartsNoCount
  <2>2. TypeOK /\ counted[h][f] <= Cardinality(CountedBy(h, f))
    BY DEF CountInv, SharesCounted, IntegrityInv
  <2> QED
    BY <2>1, <2>2, SharesStay
<1>3. SharesCounted'
  BY <1>2 DEF SharesCounted
<1> QED
  BY <1>1, <1>3 DEF CountInv

LEMMA ReturnStartsNoCount ==
  ASSUME IntegrityInv, NEW p \in Instance, Return(p)
  PROVE  StartsNoCount
BY DEF IntegrityInv, TypeOK, Return, Goto, Counting, StartsNoCount

LEMMA ContinueStartsNoCount ==
  ASSUME IntegrityInv, NEW p \in Instance, NEW label, NEW a, NEW d,
         Continue(p, label, a, d),
         label \notin {"insertContract", "putAddress", "insertAddress", "putSignatures"}
  PROVE  StartsNoCount
BY DEF IntegrityInv, TypeOK, Continue, Goto, Counting, StartsNoCount

LEMMA StayStartsNoCount ==
  ASSUME UNCHANGED control
  PROVE  StartsNoCount
BY DEF control, Counting, StartsNoCount

LEMMA MissContractCount ==
  ASSUME CountInv, IntegrityInv', NEW p \in Instance, MissContract(p)
  PROVE  CountInv'
<1>1. /\ pc[p] = "putContract" /\ Absent(contracts[desc[p].contract])
      /\ pc' = [pc EXCEPT ![p] = "insertContract"]
      /\ UNCHANGED <<contracts, counted, dropped, desc, todo>>
  BY DEF MissContract, Goto, db
<1>2. TypeOK
  BY DEF CountInv, IntegrityInv
<1>3. \A q \in Instance : \A h, f : Counting(q, h, f)' => Counting(q, h, f)
  BY <1>1, <1>2 DEF TypeOK, Counting
<1>4. CountersInserted'
  BY <1>1, <1>2, <1>3 DEF TypeOK, CountInv, CountersInserted, Absent
<1>5. ASSUME NEW h \in Hash \ dropped, NEW f \in Function
      PROVE  counted'[h][f] <= Cardinality(CountedBy(h, f)')
  <2>1. CountedBy(h, f) \subseteq CountedBy(h, f)'
    BY <1>1, <1>3 DEF CountedBy
  <2>2. counted[h][f] <= Cardinality(CountedBy(h, f)) /\ counted' = counted
    BY <1>1 DEF CountInv, SharesCounted
  <2> QED
    BY <1>2, <2>1, <2>2, SharesStay
<1>6. SharesCounted'
  BY <1>1, <1>5 DEF SharesCounted
<1> QED
  BY <1>4, <1>6 DEF CountInv

LEMMA WriteContractCount ==
  ASSUME CountInv, IntegrityInv', NEW p \in Instance, ReplaceContract(p) \/ InsertContract(p)
  PROVE  CountInv'
<1> DEFINE h == desc[p].contract
           doc == AbiOf(desc[p])
<1>1. PICK q \in Instance, inserted \in BOOLEAN :
        /\ contracts' = [contracts EXCEPT ![h][q] = doc]
        /\ todo' = [todo EXCEPT ![p] = NewSignatures(inserted, doc)]
        /\ pc' = [pc EXCEPT ![p] = "putAddress"]
        /\ UNCHANGED <<counted, desc, dropped>>
        /\ \/ inserted /\ q = p /\ pc[p] = "insertContract"
           \/ ~inserted /\ contracts[h][q] # Null /\ pc[p] = "putContract"
  BY DEF ReplaceContract, InsertContract, WriteContract, Goto
<1>2. TypeOK /\ h \in Hash /\ doc \in ContractDoc
  BY <1>1, AbiOfType DEF CountInv, IntegrityInv, TypeOK, AddressDoc
<1>3. /\ contracts'[h][q] = doc /\ doc # Null
      /\ \A k \in Hash, i \in Instance : k # h \/ i # q => contracts'[k][i] = contracts[k][i]
  BY <1>1, <1>2, Sentinels, WrittenThere DEF TypeOK
<1>4. inserted => contracts[h][p] = Null
  BY <1>1 DEF CountInv, CountersInserted
<1>5. \A i \in Instance \ {p} : \A k, f : Counting(i, k, f)' <=> Counting(i, k, f)
  BY <1>1, <1>2 DEF TypeOK, Counting
<1>6. \A k, f : Counting(p, k, f)' => k = h /\ inserted
  BY <1>1, <1>2 DEF TypeOK, Counting, NewSignatures
<1> HIDE DEF h, doc
<1>7. CountersInserted'
  <2>1. ASSUME NEW i \in Instance, NEW k \in Hash \ dropped, NEW f \in Function,
               Counting(i, k, f)'
        PROVE  contracts'[k][i] # Null
    <3>1. CASE i = p
      BY <1>1, <1>3, <1>6, <2>1, <3>1
    <3>2. CASE i # p
      <4>1. contracts[k][i] # Null
        BY <1>5, <2>1, <3>2 DEF CountInv, CountersInserted
      <4> QED
        BY <1>3, <4>1
    <3> QED
      BY <3>1, <3>2
  <2>2. ASSUME NEW i \in Instance, pc'[i] = "insertContract"
        PROVE  contracts'[desc[i].contract][i] = Null
    <3>1. i # p /\ pc[i] = "insertContract"
      BY <1>1, <1>2, <2>2 DEF TypeOK
    <3>2. contracts[desc[i].contract][i] = Null /\ desc[i].contract \in Hash
      BY <1>2, <3>1 DEF CountInv, CountersInserted, TypeOK, AddressDoc
    <3>3. desc[i].contract # h \/ i # q
      BY <1>1, <3>1, <3>2
    <3> QED
      BY <1>3, <3>2, <3>3
  <2> QED
    BY <1>1, <2>1, <2>2 DEF CountersInserted
<1>8. ASSUME NEW k \in Hash \ dropped, NEW f \in Function
      PROVE  counted'[k][f] <= Cardinality(CountedBy(k, f)')
  <2>1. ASSUME NEW i \in Instance, contracts[k][i] # Null, ~Counting(i, k, f)
        PROVE  contracts'[k][i] # Null /\ ~Counting(i, k, f)'
    <3>1. contracts'[k][i] # Null
      BY <1>3, <2>1
    <3>2. CASE i = p
      BY <1>4, <1>6, <2>1, <3>1, <3>2
    <3>3. CASE i # p
      BY <1>5, <2>1, <3>1, <3>3
    <3> QED
      BY <3>2, <3>3
  <2>2. CountedBy(k, f) \subseteq CountedBy(k, f)'
    BY <2>1 DEF CountedBy
  <2>3. counted[k][f] <= Cardinality(CountedBy(k, f)) /\ counted' = counted
    BY <1>1 DEF CountInv, SharesCounted
  <2> QED
    BY <1>2, <2>2, <2>3, SharesStay
<1>9. SharesCounted'
  BY <1>1, <1>8 DEF SharesCounted
<1> QED
  BY <1>7, <1>9 DEF CountInv

LEMMA PutSignatureCount ==
  ASSUME CountInv, IntegrityInv', NEW p \in Instance, NEW g \in Function,
         PutSignature(p, g)
  PROVE  CountInv'
<1> DEFINE h == desc[p].contract
<1>1. /\ pc[p] = "putSignatures" /\ g \in todo[p]
      /\ counted' = [counted EXCEPT ![h][g] = IF @ < CountCap THEN @ + 1 ELSE @]
      /\ UNCHANGED <<contracts, dropped>>
      /\ \/ Return(p)
         \/ todo' = [todo EXCEPT ![p] = @ \ {g}] /\ UNCHANGED <<pc, subject, desc>>
  BY DEF PutSignature
<1>2. TypeOK /\ h \in Hash
  BY <1>1 DEF CountInv, IntegrityInv, TypeOK, AddressDoc
<1>3. Counting(p, h, g)
  BY <1>1 DEF Counting
<1>4. ASSUME NEW q \in Instance, NEW k, NEW f, Counting(q, k, f)'
      PROVE  Counting(q, k, f) /\ (q = p => f # g)
  BY <1>1, <1>2, <1>4 DEF TypeOK, Return, Goto, Counting
<1>5. \A q \in Instance : pc'[q] = "insertContract" =>
         pc[q] = "insertContract" /\ desc'[q] = desc[q]
  BY <1>1, <1>2 DEF TypeOK, Return, Goto
<1> HIDE DEF h
<1>6. CountersInserted'
  BY <1>1, <1>4, <1>5 DEF CountInv, CountersInserted
<1>7. ASSUME NEW k \in Hash, NEW f \in Function, k # h \/ f # g
      PROVE  counted'[k][f] = counted[k][f]
  BY <1>1, <1>2, <1>7 DEF TypeOK
<1>8. ASSUME NEW k \in Hash \ dropped, NEW f \in Function
      PROVE  counted'[k][f] <= Cardinality(CountedBy(k, f)')
  <2>1. CountedBy(k, f) \subseteq CountedBy(k, f)'
    BY <1>1, <1>4 DEF CountedBy
  <2>2. counted[k][f] <= Cardinality(CountedBy(k, f))
    BY DEF CountInv, SharesCounted
  <2>3. CASE k = h /\ f = g
    <3> DEFINE S == CountedBy(k, f)
               T == CountedBy(k, f)'
    <3>1. contracts[k][p] # Null
      BY <1>2, <1>3, <2>3 DEF CountInv, CountersInserted
    <3>2. p \notin S /\ p \in T /\ S \subseteq T /\ T \subseteq Instance
      BY <1>1, <1>3, <1>4, <2>1, <2>3, <3>1 DEF CountedBy
    <3>3. counted[k][f] \in 0 .. CountCap /\ counted[k][f] <= Cardinality(S)
      BY <1>2, <2>2, <2>3 DEF TypeOK
    <3>4. counted'[k][f] <= counted[k][f] + 1
      BY <1>1, <1>2, <2>3, <3>3, BoundsAssumption DEF TypeOK
    <3>5. counted'[k][f] \in Nat
      BY <1>1, <1>2, <2>3, <3>3, BoundsAssumption DEF TypeOK
    <3> HIDE DEF S, T
    <3>6. IsFiniteSet(S) /\ IsFiniteSet(T)
      BY <3>2, ProcessesAssumption, FS_Subset
    <3>7. Cardinality(S \cup {p}) = Cardinality(S) + 1 /\ S \cup {p} \subseteq T
      BY <3>2, <3>6, FS_AddElement
    <3>8. Cardinality(S \cup {p}) <= Cardinality(T)
      BY <3>6, <3>7, FS_Subset
    <3>9. Cardinality(S) \in Nat /\ Cardinality(T) \in Nat
      BY <3>6, FS_CardinalityType
    <3> QED
      BY <3>3, <3>4, <3>5, <3>7, <3>8, <3>9, BoundsAssumption DEF T
  <2>4. CASE k # h \/ f # g
    BY <1>2, <1>7, <2>1, <2>2, <2>4, SharesStay
  <2> QED
    BY <2>3, <2>4
<1>9. SharesCounted'
  BY <1>1, <1>8 DEF SharesCounted
<1> QED
  BY <1>6, <1>9 DEF CountInv

LEMMA DeleteContractCount ==
  ASSUME CountInv, IntegrityInv', NEW p \in Instance, DeleteContract(p)
  PROVE  CountInv'
<1> DEFINE h == desc[p].contract
<1>1. /\ pc[p] = "delContract" /\ dropped' = dropped \cup {h}
      /\ pc' = [pc EXCEPT ![p] = "clear"]
      /\ UNCHANGED <<counted, desc, todo>>
  BY DEF DeleteContract, Goto
<1>2. PICK q \in Instance : contracts' = [contracts EXCEPT ![h][q] = Null]
  BY DEF DeleteContract, DeleteOne
<1>3. TypeOK /\ h \in Hash
  BY <1>1 DEF CountInv, IntegrityInv, TypeOK, AddressDoc
<1> HIDE DEF h
<1>4. StartsNoCount
  BY <1>1, <1>3 DEF TypeOK, StartsNoCount, Counting
<1>5. /\ \A k \in Hash \ dropped' : k \in Hash \ dropped /\ contracts'[k] = contracts[k]
      /\ \A k \in Hash, i \in Instance : contracts'[k][i] \in {contracts[k][i], Null}
  BY <1>1, <1>2, <1>3 DEF TypeOK
<1>6. CountersInserted'
  <2>1. ASSUME NEW i \in Instance, pc'[i] = "insertContract"
        PROVE  contracts'[desc'[i].contract][i] = Null
    <3>1. pc[i] = "insertContract" /\ desc'[i] = desc[i]
      BY <1>4, <2>1 DEF StartsNoCount
    <3>2. desc[i] \in AddressDoc
      BY <1>3, <3>1 DEF TypeOK
    <3>3. desc[i].contract \in Hash
      BY <3>2 DEF AddressDoc
    <3>4. contracts[desc[i].contract][i] = Null
      BY <3>1 DEF CountInv, CountersInserted
    <3> QED
      BY <1>5, <3>1, <3>3, <3>4
  <2> QED
    BY <1>4, <1>5, <2>1 DEF CountInv, CountersInserted, StartsNoCount
<1>7. ASSUME NEW k \in Hash \ dropped', NEW f \in Function
      PROVE  counted'[k][f] <= Cardinality(CountedBy(k, f)')
  <2>1. CountedBy(k, f) \subseteq CountedBy(k, f)'
    BY <1>4, <1>5 DEF CountedBy, StartsNoCount
  <2>2. k \in Hash /\ counted[k][f] <= Cardinality(CountedBy(k, f)) /\ counted' = counted
    BY <1>1, <1>5 DEF CountInv, SharesCounted
  <2> QED
    BY <1>3, <2>1, <2>2, SharesStay
<1>8. SharesCounted'
  BY <1>7 DEF SharesCounted
<1> QED
  BY <1>6, <1>8 DEF CountInv

LEMMA InitCount == Init => CountInv
<1> SUFFICES ASSUME Init PROVE CountInv
  OBVIOUS
<1>1. IntegrityInv /\ CountersInserted
  BY InitIntegrity DEF Init, CountersInserted, Counting
<1>2. ASSUME NEW h \in Hash, NEW f \in Function
      PROVE  counted[h][f] <= Cardinality(CountedBy(h, f))
  <2>1. IsFiniteSet(CountedBy(h, f))
    <3>1. CountedBy(h, f) \subseteq Instance
      BY DEF CountedBy
    <3> QED
      BY <3>1, ProcessesAssumption, FS_Subset
  <2>2. Cardinality(CountedBy(h, f)) \in Nat
    BY <2>1, FS_CardinalityType
  <2>3. counted[h][f] = 0
    BY DEF Init
  <2> QED
    BY <2>2, <2>3
<1> QED
  BY <1>1, <1>2 DEF CountInv, SharesCounted

LEMMA NextCount == CountInv /\ [Next]_vars => CountInv'
<1> SUFFICES ASSUME CountInv, [Next]_vars PROVE CountInv'
  OBVIOUS
<1>0. IntegrityInv /\ IntegrityInv'
  BY NextIntegrity DEF CountInv
<1>1. CASE UNCHANGED vars
  BY <1>0, <1>1, QuietCount, StayStartsNoCount DEF vars, db
<1>2. ASSUME NEW p \in Instance, NEW a \in Account, Get(p, a) \/ Delete(p, a)
      PROVE  CountInv'
  <2>1. UNCHANGED <<counted, contracts, dropped>>
    BY <1>2 DEF Get, Delete, db
  <2>2. \/ UNCHANGED control
        \/ \E label \in {"create", "contract", "ens", "delAddress"} : \E d :
             Continue(p, label, a, d)
    BY <1>2 DEF Get, Delete, NamedEOA
  <2>3. StartsNoCount
    BY <1>0, <2>2, StayStartsNoCount, ContinueStartsNoCount
  <2> QED
    BY <1>0, <2>1, <2>3, QuietCount
<1>3. ASSUME NEW p \in Instance, ReadContract(p) \/ RefreshName(p) \/ Create(p)
      PROVE  CountInv'
  <2>1. UNCHANGED <<counted, contracts, dropped>>
    BY <1>3 DEF ReadContract, RefreshName, Create, CreateAs, db
  <2>2. \/ Return(p)
        \/ \E label \in {"error", "putContract"} : \E d : Continue(p, label, subject[p], d)
    BY <1>3 DEF ReadContract, RefreshName, Create, CreateAs
  <2>3. StartsNoCount
    BY <1>0, <2>2, ReturnStartsNoCount, ContinueStartsNoCount
  <2> QED
    BY <1>0, <2>1, <2>3, QuietCount
<1>4. ASSUME NEW p \in Instance,
             ReplaceAddress(p) \/ MissAddress(p) \/ InsertAddress(p) \/ DeleteAddress(p)
      PROVE  CountInv'
  <2>1. UNCHANGED <<counted, contracts, dropped>>
    BY <1>4 DEF ReplaceAddress, MissAddress, InsertAddress, WriteAddress, DeleteAddress, db
  <2>2. \/ Return(p)
        \/ /\ pc[p] \in {"putAddress", "insertAddress"}
           /\ \/ pc' = [pc EXCEPT ![p] = "putSignatures"]
              \/ pc' = [pc EXCEPT ![p] = "insertAddress"]
           /\ UNCHANGED <<desc, todo>>
        \/ pc' = [pc EXCEPT ![p] = "delContract"] /\ UNCHANGED <<desc, todo>>
    BY <1>4 DEF ReplaceAddress, MissAddress, InsertAddress, WriteAddress, DeleteAddress, Goto
  <2>3. StartsNoCount
    <3>1. CASE Return(p)
      BY <1>0, <3>1, ReturnStartsNoCount
    <3>2. CASE ~Return(p)
      BY <1>0, <2>2, <3>2 DEF IntegrityInv, TypeOK, StartsNoCount, Counting
    <3> QED
      BY <3>1, <3>2
  <2> QED
    BY <1>0, <2>1, <2>3, QuietCount
<1>5. ASSUME NEW p \in Instance, RaiseTypeError(p) \/ Fail(p) \/ ClearCaches(p) \/ Crash(p)
      PROVE  CountInv'
  <2>1. UNCHANGED <<counted, contracts, dropped>> /\ Return(p)
    BY <1>5 DEF RaiseTypeError, Fail, ClearCaches, Crash, db
  <2> QED
    BY <1>0, <2>1, ReturnStartsNoCount, QuietCount
<1> QED
  BY <1>0, <1>1, <1>2, <1>3, <1>4, <1>5, MissContractCount, WriteContractCount,
     PutSignatureCount, DeleteContractCount DEF Next, Step

\* The signatures of a contract whose code hash nobody deleted are counted at
\* most once for every document of it, however many processes create accounts
\* with that code: only upserts that overlap, of which each inserts a document,
\* count them more than once.
THEOREM SignaturesCountedPerDocument == Spec => []CountedPerDocument
<1>1. CountInv => CountedPerDocument
  <2> SUFFICES ASSUME CountInv, NEW h \in Hash \ dropped, NEW f \in Function
               PROVE  counted[h][f] <= Cardinality({q \in Instance : contracts[h][q] # Null})
    BY DEF CountedPerDocument
  <2> DEFINE S == CountedBy(h, f)
             T == {q \in Instance : contracts[h][q] # Null}
  <2>1. counted[h][f] \in Nat /\ counted[h][f] <= Cardinality(S)
    BY BoundsAssumption DEF CountInv, SharesCounted, IntegrityInv, TypeOK
  <2>2. S \subseteq T /\ T \subseteq Instance
    BY DEF CountedBy
  <2> HIDE DEF S, T
  <2>3. IsFiniteSet(T)
    BY <2>2, ProcessesAssumption, FS_Subset
  <2>4. IsFiniteSet(S) /\ Cardinality(S) <= Cardinality(T)
    BY <2>2, <2>3, FS_Subset
  <2>5. Cardinality(S) \in Nat /\ Cardinality(T) \in Nat
    BY <2>3, <2>4, FS_CardinalityType
  <2> QED
    BY <2>1, <2>4, <2>5 DEF T
<1> QED
  BY InitCount, NextCount, <1>1, PTL DEF Spec

-----------------------------------------------------------------------------
(***************************************************************************)
(* How the store's steps move a process.                                   *)
(***************************************************************************)
\* Only p is at another step, or about another account, than before.
OnlyMoves(p) ==
  /\ pc' \in [Instance -> PC]
  /\ \A q \in Instance \ {p} : pc'[q] = pc[q] /\ subject'[q] = subject[q]

LEMMA GetMoves ==
  ASSUME TypeOK, NEW p \in Instance, NEW a \in Account, Get(p, a)
  PROVE  /\ OnlyMoves(p) /\ pc'[p] \in {"idle", "create", "contract", "ens"}
         /\ pc'[p] # "idle" => subject'[p] = a
<1> USE DEF TypeOK, OnlyMoves, PC
<1>1. \/ UNCHANGED control
      \/ \E label \in {"create", "contract", "ens"} : \E d : Continue(p, label, a, d)
  BY DEF Get, NamedEOA
<1>2. pc[p] = "idle"
  BY DEF Get
<1>3. CASE UNCHANGED control
  BY <1>2, <1>3 DEF control
<1>4. CASE \E label \in {"create", "contract", "ens"} : \E d : Continue(p, label, a, d)
  BY <1>4 DEF Continue, Goto
<1> QED
  BY <1>1, <1>3, <1>4

LEMMA DeleteMoves ==
  ASSUME TypeOK, NEW p \in Instance, NEW a \in Account, Delete(p, a)
  PROVE  /\ OnlyMoves(p) /\ pc'[p] \in {"idle", "delAddress"}
         /\ pc'[p] # "idle" => subject'[p] = a
<1> USE DEF TypeOK, OnlyMoves, PC
<1>1. pc[p] = "idle" /\ (UNCHANGED control \/ \E d : Continue(p, "delAddress", a, d))
  BY DEF Delete
<1>2. CASE UNCHANGED control
  BY <1>1, <1>2 DEF control
<1>3. CASE \E d : Continue(p, "delAddress", a, d)
  BY <1>3 DEF Continue, Goto
<1> QED
  BY <1>1, <1>2, <1>3

LEMMA WriteMoves ==
  ASSUME TypeOK, NEW p \in Instance,
         \/ ReadContract(p) \/ RefreshName(p)
         \/ ReplaceContract(p) \/ MissContract(p) \/ InsertContract(p)
         \/ ReplaceAddress(p) \/ MissAddress(p) \/ InsertAddress(p)
         \/ \E f \in Function : PutSignature(p, f)
         \/ pc[p] = "create" /\ \E d : CreateAs(p, d)
  PROVE  /\ OnlyMoves(p) /\ pc[p] \notin Deletes \cup {"idle"} /\ pc'[p] \notin Deletes
         /\ pc'[p] # "idle" => subject'[p] = subject[p]
<1> USE DEF TypeOK, OnlyMoves, PC, Deletes
<1>1. CASE Return(p) /\ pc[p] \notin Deletes \cup {"idle"}
  BY <1>1 DEF Return, Goto
<1>2. CASE \E label \in {"error", "putContract"} : \E d :
             Continue(p, label, subject[p], d) /\ pc[p] \notin Deletes \cup {"idle"}
  BY <1>2 DEF Continue, Goto
<1>3. CASE ReadContract(p)
  BY <1>1, <1>2, <1>3 DEF ReadContract
<1>4. CASE RefreshName(p)
  BY <1>1, <1>2, <1>4 DEF RefreshName
<1>5. CASE ReplaceContract(p) \/ MissContract(p) \/ InsertContract(p)
  BY <1>5 DEF ReplaceContract, MissContract, InsertContract, WriteContract, Goto
<1>6. CASE ReplaceAddress(p) \/ MissAddress(p) \/ InsertAddress(p)
  <2>1. pc[p] \in {"putAddress", "insertAddress"}
    BY <1>6 DEF ReplaceAddress, MissAddress, InsertAddress
  <2>2. \/ Return(p)
        \/ /\ \E label \in {"putSignatures", "insertAddress"} : Goto(p, label)
           /\ subject' = subject
    BY <1>6 DEF ReplaceAddress, MissAddress, InsertAddress, WriteAddress
  <2> QED
    BY <1>1, <2>1, <2>2 DEF Goto
<1>7. CASE \E f \in Function : PutSignature(p, f)
  BY <1>1, <1>7 DEF PutSignature
<1>8. CASE pc[p] = "create" /\ \E d : CreateAs(p, d)
  BY <1>2, <1>8 DEF CreateAs
<1> QED
  BY <1>3, <1>4, <1>5, <1>6, <1>7, <1>8

LEMMA DeletingMoves ==
  ASSUME TypeOK, NEW p \in Instance, DeleteAddress(p) \/ DeleteContract(p) \/ ClearCaches(p)
  PROVE  /\ OnlyMoves(p) /\ pc[p] \in Deletes /\ pc'[p] \in Deletes \cup {"idle"}
         /\ pc'[p] # "idle" => subject'[p] = subject[p]
BY DEF TypeOK, OnlyMoves, PC, Deletes, DeleteAddress, DeleteContract, ClearCaches, Return, Goto

LEMMA ReturnMoves ==
  ASSUME TypeOK, NEW p \in Instance, Return(p)
  PROVE  OnlyMoves(p) /\ pc'[p] = "idle"
BY DEF TypeOK, OnlyMoves, PC, Return, Goto

-----------------------------------------------------------------------------
(***************************************************************************)
(* The session's steps are the store's, or leave the store alone.          *)
(***************************************************************************)
\* A cached read of the node, and one of Etherscan.
LEMMA CodeRead ==
  ASSUME SessionTypeOK, SourcesHonest, NEW p \in Instance, NEW a \in Account,
         NEW seen \in Lookup(codeCache[p], a, code[a])
  PROVE  /\ seen \in [Account -> Hash \cup {Miss}] /\ seen[a] \in CodeOf[a]
         /\ \A b \in Account : seen[b] # Miss => seen[b] \in CodeOf[b]
<1> DEFINE Value == Hash \cup {Miss}
<1>1. codeCache[p] \in [Account -> Value] /\ code[a] \in Value /\ Miss \in Value
  BY DEF SessionTypeOK
<1> HIDE DEF Value
<1>2. /\ seen \in [Account -> Value]
      /\ seen[a] = IF codeCache[p][a] # Miss THEN codeCache[p][a] ELSE code[a]
      /\ \A b \in Account \ {a} : seen[b] \in {codeCache[p][b], Miss}
  BY <1>1, LookupLemma
<1>3. seen[a] \in CodeOf[a]
  BY <1>2 DEF SourcesHonest
<1> QED
  BY <1>2, <1>3 DEF SourcesHonest, Value

LEMMA AbiRead ==
  ASSUME SessionTypeOK, SourcesHonest, NEW p \in Instance, NEW a \in Account,
         NEW stored \in Answers(a),
         NEW asked \in Lookup(abiCache[p], a, stored)
  PROVE  /\ asked \in [Account -> BOOLEAN \cup {Miss}]
         /\ asked[a] \in BOOLEAN /\ (asked[a] => a \in Verified)
         /\ \A b \in Account : asked[b] # Miss /\ asked[b] => b \in Verified
<1> DEFINE Value == BOOLEAN \cup {Miss}
<1>1. stored \in BOOLEAN
  BY DEF Answers
<1>2. abiCache[p] \in [Account -> Value] /\ stored \in Value /\ Miss \in Value
  BY <1>1 DEF SessionTypeOK
<1>3. stored => a \in Verified
  BY DEF SourcesHonest, Answers
<1> HIDE DEF Value
<1>4. /\ asked \in [Account -> Value]
      /\ asked[a] = IF abiCache[p][a] # Miss THEN abiCache[p][a] ELSE stored
      /\ \A b \in Account \ {a} : asked[b] \in {abiCache[p][b], Miss}
  BY <1>2, LookupLemma
<1>5. abiCache[p][a] # Miss => abiCache[p][a] \in BOOLEAN
  BY DEF SessionTypeOK
<1>6. asked[a] \in BOOLEAN /\ (asked[a] => a \in Verified)
  <2>1. CASE abiCache[p][a] # Miss
    BY <1>4, <1>5, <2>1 DEF SourcesHonest
  <2>2. CASE abiCache[p][a] = Miss
    BY <1>1, <1>3, <1>4, <2>2
  <2> QED
    BY <2>1, <2>2
<1>7. ASSUME NEW b \in Account, asked[b] # Miss, asked[b] PROVE b \in Verified
  <2>1. CASE b = a
    BY <1>6, <1>7, <2>1
  <2>2. CASE b # a
    <3>1. asked[b] = abiCache[p][b]
      BY <1>4, <1>7, <2>2
    <3> QED
      BY <1>7, <3>1 DEF SourcesHonest
  <2> QED
    BY <2>1, <2>2
<1> QED
  BY <1>4, <1>6, <1>7 DEF Value

\* What a process remembers of its sources when it creates semantics is honest,
\* and so are the semantics it creates.
LEMMA HonestSources ==
  ASSUME SessionTypeOK, SourcesHonest, NEW p \in Instance, CreateFromSources(p)
  PROVE  /\ Create(p)
         /\ codeCache' \in [Instance -> [Account -> Hash \cup {Miss}]]
         /\ abiCache' \in [Instance -> [Account -> BOOLEAN \cup {Miss}]]
         /\ SourcesHonest'
<1> DEFINE a == subject[p]
<1>1. /\ a \in Account /\ pc[p] = "create" /\ code' = code /\ published' = published
      /\ codeCache \in [Instance -> [Account -> Hash \cup {Miss}]]
      /\ abiCache \in [Instance -> [Account -> BOOLEAN \cup {Miss}]]
  BY DEF CreateFromSources, SessionTypeOK, TypeOK, world
<1> HIDE DEF a
<1>2. PICK seen \in Lookup(codeCache[p], a, code[a]) :
        /\ codeCache' = [codeCache EXCEPT ![p] = seen]
        /\ \/ /\ seen[a] = Zero
              /\ \E named \in BOOLEAN : Sourced(p, Zero, named)
              /\ UNCHANGED abiCache
           \/ /\ seen[a] # Zero
              /\ \E decoded \in Answers(a) : \E asked \in Lookup(abiCache[p], a, decoded) :
                   /\ abiCache' = [abiCache EXCEPT ![p] = asked]
                   /\ Sourced(p, seen[a], asked[a])
           \/ /\ seen[a] # Zero
              /\ Sourced(p, seen[a], FALSE)
              /\ UNCHANGED abiCache
  BY DEF CreateFromSources, a
<1>3. /\ seen \in [Account -> Hash \cup {Miss}] /\ seen[a] \in CodeOf[a]
      /\ \A b \in Account : seen[b] # Miss => seen[b] \in CodeOf[b]
  BY <1>1, CodeRead
<1>4. seen[a] \in Hash
  BY <1>1, <1>3, ConstantsAssumption
<1>5. /\ codeCache' \in [Instance -> [Account -> Hash \cup {Miss}]]
      /\ \A q \in Instance : \A b \in Account :
           codeCache'[q][b] # Miss => codeCache'[q][b] \in CodeOf[b]
  BY <1>1, <1>2, <1>3 DEF SourcesHonest
<1>6. ASSUME NEW known \in BOOLEAN, Sourced(p, seen[a], known),
             seen[a] # Zero /\ known => a \in Verified
      PROVE  Create(p)
  <2>1. [contract |-> seen[a], known |-> known] \in Descriptions(a)
    BY <1>3, <1>4, <1>6 DEF Descriptions, AddressDoc
  <2> QED
    BY <1>1, <1>6, <2>1 DEF Create, Sourced, a
<1>7. CASE /\ UNCHANGED abiCache
           /\ \/ \E named \in BOOLEAN : seen[a] = Zero /\ Sourced(p, Zero, named)
              \/ Sourced(p, seen[a], FALSE)
  <2>1. abiCache' \in [Instance -> [Account -> BOOLEAN \cup {Miss}]] /\ SourcesHonest'
    BY <1>1, <1>5, <1>7 DEF SourcesHonest
  <2>2. \E known \in BOOLEAN : Sourced(p, seen[a], known) /\ (seen[a] = Zero \/ ~known)
    BY <1>7
  <2>3. Create(p)
    BY <1>6, <2>2
  <2> QED
    BY <1>5, <2>1, <2>3
<1>8. ASSUME NEW decoded \in Answers(a), NEW asked \in Lookup(abiCache[p], a, decoded),
             abiCache' = [abiCache EXCEPT ![p] = asked], Sourced(p, seen[a], asked[a])
      PROVE  /\ Create(p)
             /\ abiCache' \in [Instance -> [Account -> BOOLEAN \cup {Miss}]]
             /\ SourcesHonest'
  <2>1. /\ asked \in [Account -> BOOLEAN \cup {Miss}]
        /\ asked[a] \in BOOLEAN /\ (asked[a] => a \in Verified)
        /\ \A b \in Account : asked[b] # Miss /\ asked[b] => b \in Verified
    BY <1>1, AbiRead
  <2>2. Create(p)
    BY <1>6, <1>8, <2>1
  <2>3. abiCache' \in [Instance -> [Account -> BOOLEAN \cup {Miss}]]
    BY <1>1, <1>8, <2>1
  <2>4. ASSUME NEW q \in Instance, NEW b \in Account, abiCache'[q][b] # Miss, abiCache'[q][b]
        PROVE  b \in Verified
    <3>1. CASE q = p
      <4>1. abiCache'[q] = asked
        BY <1>1, <1>8, <3>1
      <4> QED
        BY <2>1, <2>4, <4>1
    <3>2. CASE q # p
      <4>1. abiCache'[q] = abiCache[q]
        BY <1>1, <1>8, <3>2
      <4> QED
        BY <2>4, <4>1 DEF SourcesHonest
    <3> QED
      BY <3>1, <3>2
  <2>5. SourcesHonest'
    BY <1>1, <1>5, <2>4 DEF SourcesHonest
  <2> QED
    BY <2>2, <2>3, <2>5
<1> QED
  BY <1>2, <1>5, <1>7, <1>8

LEMMA SessionIsStoreStep ==
  ASSUME SessionInv, [SessionNext]_allVars
  PROVE  [Next]_vars
<1>1. CASE UNCHANGED allVars
  BY <1>1 DEF allVars
<1>2. CASE \E a \in Account : ChangeCode(a) \/ Publish(a)
  BY <1>2 DEF ChangeCode, Publish
<1>3. CASE \E p \in Instance, lookups \in Plan, recreate \in BOOLEAN :
             Begin(p, lookups, recreate)
  BY <1>3 DEF Begin
<1>4. ASSUME NEW p \in Instance, Progress(p) \/ Restart(p) PROVE [Next]_vars
  <2>1. CASE LookUp(p)
    <3>1. Get(p, plan[p][pos[p]]) /\ plan[p][pos[p]] \in Account
      <4>1. plan[p] \in Seq(Account)
        BY PlanAssumption, EmptySeq DEF SessionInv, SessionTypeOK
      <4>2. pos[p] \in 1 .. Len(plan[p])
        BY <2>1, <4>1 DEF LookUp, SessionInv, SessionTypeOK
      <4> QED
        BY <2>1, <4>1, <4>2 DEF LookUp
    <3> QED
      BY <3>1 DEF Next, Step
  <2>2. CASE DeleteUsed(p)
    <3>1. Delete(p, used[p][pos[p]]) /\ used[p][pos[p]] \in Account
      <4>1. plan[p] \in Seq(Account) /\ used[p] = plan[p]
        BY <2>2, PlanAssumption, EmptySeq
        DEF DeleteUsed, SessionInv, SessionTypeOK, Recorded
      <4>2. pos[p] \in 1 .. Len(plan[p])
        BY <2>2, <4>1 DEF DeleteUsed, SessionInv, SessionTypeOK
      <4> QED
        BY <2>2, <4>1, <4>2 DEF DeleteUsed
    <3> QED
      BY <3>1 DEF Next, Step
  <2>3. CASE Record(p) \/ EndPass(p) \/ \E lookups \in Plan : DecodeAgain(p, lookups)
    BY <2>3 DEF Record, EndPass, DecodeAgain
  <2>4. CASE CreateFromSources(p)
    BY <2>4, HonestSources DEF SessionInv, Next, Step
  <2>5. CASE Store(p) \/ RepositoryStep(p)
    BY <2>5 DEF Store, RepositoryStep, Next, Step
  <2>6. CASE Abort(p) \/ Restart(p)
    BY <2>6 DEF Abort, Restart, Next, Step
  <2> QED
    BY <1>4, <2>1, <2>2, <2>3, <2>4, <2>5, <2>6 DEF Progress
<1> QED
  BY <1>1, <1>2, <1>3, <1>4 DEF SessionNext

-----------------------------------------------------------------------------
(***************************************************************************)
(* SessionInv is inductive.  A step of p leaves every other process alone. *)
(***************************************************************************)
SessionControl == <<stage, again, plan, pos, busy, records, used>>

SessionTypes ==
  /\ stage \in [Instance -> {"out", "first", "deleting", "second"}]
  /\ again \in [Instance -> BOOLEAN] /\ busy \in [Instance -> BOOLEAN]
  /\ plan \in [Instance -> Plan \cup {<<>>}] /\ pos \in [Instance -> Nat \ {0}]
  /\ records \in [Instance -> Seq(Account) \cup {Null}]
  /\ used \in [Instance -> Seq(Account)]

SourceTypes ==
  /\ code \in [Account -> Hash] /\ published \subseteq Account
  /\ codeCache \in [Instance -> [Account -> Hash \cup {Miss}]]
  /\ abiCache \in [Instance -> [Account -> BOOLEAN \cup {Miss}]]

HistoryTypes == rewritten \in [Instance -> SUBSET Account] /\ torn \in BOOLEAN

LEMMA TypesTogether ==
  SessionTypeOK <=> TypeOK /\ SourceTypes /\ SessionTypes /\ HistoryTypes
BY DEF SessionTypeOK, SourceTypes, SessionTypes, HistoryTypes

OthersSame(p) ==
  \A q \in Instance \ {p} :
    /\ pc'[q] = pc[q] /\ subject'[q] = subject[q]
    /\ stage'[q] = stage[q] /\ pos'[q] = pos[q] /\ plan'[q] = plan[q]
    /\ busy'[q] = busy[q] /\ records'[q] = records[q] /\ used'[q] = used[q]

LEMMA OthersKeep ==
  ASSUME SessionInv, TypeOK', SourceTypes', SessionTypes', HistoryTypes', SourcesHonest',
         NEW p \in Instance, OthersSame(p), Paced(p)', Recorded(p)'
  PROVE  SessionInv'
<1>1. SessionTypeOK'
  BY TypesTogether DEF SessionTypeOK, SourceTypes, SessionTypes, HistoryTypes
<1>2. ASSUME NEW q \in Instance, q # p PROVE Paced(q)' /\ Recorded(q)'
  BY <1>2 DEF OthersSame, SessionInv, Paced, Recorded
<1> QED
  BY <1>1, <1>2 DEF SessionInv

LEMMA PlansAreSequences ==
  ASSUME SessionTypes, NEW p \in Instance
  PROVE  /\ plan[p] \in Seq(Account) /\ pos[p] \in Nat \ {0} /\ Len(plan[p]) \in Nat
         /\ \A i \in 1 .. Len(plan[p]) : plan[p][i] \in Account
<1>1. plan[p] \in Seq(Account)
  BY PlanAssumption, EmptySeq DEF SessionTypes
<1> QED
  BY <1>1 DEF SessionTypes

\* The steps between the operations of the repository.
LEMMA BeginKeeps ==
  ASSUME SessionInv, TypeOK', NEW p \in Instance, NEW lookups \in Plan,
         NEW recreate \in BOOLEAN, Begin(p, lookups, recreate)
  PROVE  SessionInv'
<1>1. SourceTypes /\ SessionTypes /\ HistoryTypes /\ SourcesHonest
  BY TypesTogether DEF SessionInv
<1>2. SourceTypes' /\ HistoryTypes' /\ SourcesHonest'
  BY <1>1 DEF Begin, world, sources, history, SourceTypes, HistoryTypes, SourcesHonest
<1>3. SessionTypes'
  BY <1>1, EmptySeq DEF SessionTypes, Begin
<1>4. OthersSame(p)
  BY <1>1 DEF OthersSame, SessionTypes, Begin, vars, control
<1>5. /\ stage'[p] = "first" /\ pos'[p] = 1 /\ plan'[p] = lookups /\ records'[p] = <<>>
      /\ pc'[p] = "idle" /\ ~busy'[p] /\ Len(lookups) \in Nat
  BY <1>1, PlanAssumption DEF SessionTypes, Begin, vars, control, SessionInv, Paced
<1>6. Paced(p)' /\ Recorded(p)'
  BY <1>5, EmptySeq DEF Paced, Recorded, Deletes
<1> QED
  BY <1>2, <1>3, <1>4, <1>6, OthersKeep

LEMMA LookUpKeeps ==
  ASSUME SessionInv, TypeOK', NEW p \in Instance, LookUp(p)
  PROVE  SessionInv'
<1>1. SourceTypes /\ SessionTypes /\ HistoryTypes /\ SourcesHonest /\ TypeOK
  BY TypesTogether DEF SessionInv
<1>2. SourceTypes' /\ HistoryTypes' /\ SourcesHonest' /\ SessionTypes'
  BY <1>1 DEF LookUp, world, sources, history, SourceTypes, HistoryTypes, SourcesHonest,
              SessionTypes
<1>3. /\ OnlyMoves(p) /\ pc'[p] \in {"idle", "create", "contract", "ens"}
      /\ pc'[p] # "idle" => subject'[p] = plan[p][pos[p]]
      /\ pos[p] <= Len(plan[p]) /\ Len(plan[p]) \in Nat /\ pos[p] \in Nat
  <2>1. plan[p][pos[p]] \in Account /\ pos[p] <= Len(plan[p]) /\ Len(plan[p]) \in Nat
        /\ pos[p] \in Nat
    BY <1>1, PlansAreSequences DEF LookUp
  <2> QED
    BY <1>1, <2>1, GetMoves DEF LookUp
<1>4. OthersSame(p)
  BY <1>1, <1>3 DEF OthersSame, OnlyMoves, SessionTypes, LookUp
<1>5. stage[p] \in {"first", "second"}
  BY DEF LookUp, InPass
<1>6. Paced(p)' /\ Recorded(p)'
  BY <1>1, <1>3, <1>5 DEF Paced, Recorded, Deletes, LookUp, SessionInv, SessionTypes
<1> QED
  BY <1>2, <1>4, <1>6, OthersKeep

LEMMA RecordKeeps ==
  ASSUME SessionInv, TypeOK', NEW p \in Instance, Record(p)
  PROVE  SessionInv'
<1> DEFINE n == pos[p]
<1>1. SourceTypes /\ SessionTypes /\ HistoryTypes /\ SourcesHonest
  BY TypesTogether DEF SessionInv
<1>2. SourceTypes' /\ HistoryTypes' /\ SourcesHonest'
  BY <1>1 DEF Record, world, sources, history, SourceTypes, HistoryTypes, SourcesHonest
<1>3. /\ stage[p] \in {"first", "second"} /\ n <= Len(plan[p]) /\ plan[p][n] \in Account
      /\ records[p] \in Seq(Account) /\ Len(records[p]) = n - 1 /\ n \in Nat \ {0}
      /\ \A i \in 1 .. n - 1 : records[p][i] = plan[p][i]
      /\ pc[p] = "idle" /\ Len(plan[p]) \in Nat
  BY <1>1, PlansAreSequences DEF Record, InPass, SessionInv, Paced, Recorded
<1>4. /\ records'[p] = Append(records[p], plan[p][n]) /\ pos'[p] = n + 1 /\ ~busy'[p]
      /\ UNCHANGED <<pc, subject, stage, plan, used, again>>
  BY <1>1 DEF Record, SessionTypes, vars, control
<1>5. SessionTypes'
  BY <1>1, <1>3, <1>4 DEF SessionTypes, Record
<1>6. OthersSame(p)
  BY <1>1, <1>4 DEF OthersSame, SessionTypes, Record
<1> HIDE DEF n
<1>7. /\ Append(records[p], plan[p][n]) \in Seq(Account)
      /\ Len(Append(records[p], plan[p][n])) = n
      /\ \A i \in 1 .. n : Append(records[p], plan[p][n])[i] = plan[p][i]
  <2>1. /\ Append(records[p], plan[p][n]) \in Seq(Account)
        /\ Len(Append(records[p], plan[p][n])) = Len(records[p]) + 1
        /\ \A i \in 1 .. Len(records[p]) :
             Append(records[p], plan[p][n])[i] = records[p][i]
        /\ Append(records[p], plan[p][n])[Len(records[p]) + 1] = plan[p][n]
    BY <1>3, AppendProperties
  <2> QED
    BY <1>3, <2>1
<1>8. Paced(p)' /\ Recorded(p)'
  BY <1>3, <1>4, <1>7 DEF Paced, Recorded, Deletes
<1> QED
  BY <1>2, <1>5, <1>6, <1>8, OthersKeep

LEMMA EndPassKeeps ==
  ASSUME SessionInv, TypeOK', NEW p \in Instance, EndPass(p)
  PROVE  SessionInv'
<1>1. SourceTypes /\ SessionTypes /\ HistoryTypes /\ SourcesHonest
  BY TypesTogether DEF SessionInv
<1>2. SourceTypes' /\ SourcesHonest'
  BY <1>1 DEF EndPass, world, sources, SourceTypes, SourcesHonest
<1>3. /\ stage[p] \in {"first", "second"} /\ pos[p] > Len(plan[p])
      /\ pos[p] <= Len(plan[p]) + 1 /\ Len(plan[p]) \in Nat /\ pos[p] \in Nat
      /\ plan[p] \in Seq(Account)
      /\ records[p] \in Seq(Account) /\ Len(records[p]) = pos[p] - 1
      /\ \A i \in 1 .. pos[p] - 1 : records[p][i] = plan[p][i]
      /\ pc[p] = "idle" /\ ~busy[p]
  <2>1. stage[p] \in {"first", "second"} /\ pos[p] > Len(plan[p]) /\ pc[p] = "idle"
    BY DEF EndPass, PassDone, InPass
  <2>2. plan[p] \in Seq(Account) /\ Len(plan[p]) \in Nat /\ pos[p] \in Nat
    BY <1>1, PlansAreSequences
  <2>3. ~busy[p]
    BY <2>1, <2>2 DEF SessionInv, Paced
  <2> QED
    BY <2>1, <2>2, <2>3 DEF SessionInv, Paced, Recorded
<1>4. records[p] = plan[p]
  <2>1. Len(records[p]) = Len(plan[p])
    BY <1>3
  <2> QED
    BY <1>3, <2>1, SeqEqual
<1>5. /\ UNCHANGED <<pc, subject, again, busy, torn>>
      /\ records' = [records EXCEPT ![p] = Null] /\ pos' = [pos EXCEPT ![p] = 1]
      /\ \/ /\ stage' = [stage EXCEPT ![p] = "deleting"]
            /\ used' = [used EXCEPT ![p] = records[p]] /\ plan' = plan
            /\ rewritten' = rewritten
         \/ stage' = [stage EXCEPT ![p] = "out"] /\ Forget(p)
  BY DEF EndPass, vars, control
<1>6. SessionTypes' /\ HistoryTypes'
  <2>1. records' \in [Instance -> Seq(Account) \cup {Null}] /\ pos' \in [Instance -> Nat \ {0}]
    BY <1>1, <1>5 DEF SessionTypes
  <2>2. /\ stage' \in [Instance -> {"out", "first", "deleting", "second"}]
        /\ again' \in [Instance -> BOOLEAN] /\ busy' \in [Instance -> BOOLEAN]
    BY <1>1, <1>5 DEF SessionTypes
  <2>3. CASE used' = [used EXCEPT ![p] = records[p]] /\ plan' = plan /\ rewritten' = rewritten
    BY <1>1, <1>3, <1>5, <2>1, <2>2, <2>3 DEF SessionTypes, HistoryTypes
  <2>4. CASE Forget(p)
    <3>1. /\ plan' \in [Instance -> Plan \cup {<<>>}] /\ used' \in [Instance -> Seq(Account)]
          /\ rewritten' \in [Instance -> SUBSET Account]
      BY <1>1, <2>4, EmptySeq DEF SessionTypes, HistoryTypes, Forget
    <3> QED
      BY <1>1, <1>5, <2>1, <2>2, <3>1 DEF SessionTypes, HistoryTypes
  <2> QED
    BY <1>5, <2>3, <2>4
<1>7. OthersSame(p)
  BY <1>1, <1>5 DEF OthersSame, SessionTypes, Forget
<1>8. Paced(p)' /\ Recorded(p)'
  BY <1>1, <1>3, <1>4, <1>5 DEF Paced, Recorded, SessionTypes, Forget
<1> QED
  BY <1>2, <1>6, <1>7, <1>8, OthersKeep

LEMMA DeleteUsedKeeps ==
  ASSUME SessionInv, TypeOK', NEW p \in Instance, DeleteUsed(p)
  PROVE  SessionInv'
<1>1. SourceTypes /\ SessionTypes /\ HistoryTypes /\ SourcesHonest /\ TypeOK
  BY TypesTogether DEF SessionInv
<1>2. SourceTypes' /\ HistoryTypes' /\ SourcesHonest'
  BY <1>1 DEF DeleteUsed, world, sources, history, SourceTypes, HistoryTypes, SourcesHonest
<1>3. stage[p] = "deleting" /\ used[p] = plan[p] /\ ~busy[p] /\ pos[p] <= Len(plan[p])
  BY DEF DeleteUsed, SessionInv, Paced, Recorded
<1>4. used[p][pos[p]] \in Account /\ Len(plan[p]) \in Nat /\ pos[p] \in Nat \ {0}
  BY <1>1, <1>3, PlansAreSequences
<1>5. OnlyMoves(p) /\ pc'[p] \in {"idle", "delAddress"}
  BY <1>1, <1>4, DeleteMoves DEF DeleteUsed
<1>6. SessionTypes'
  BY <1>1, <1>4 DEF SessionTypes, DeleteUsed
<1>7. OthersSame(p)
  BY <1>1, <1>5 DEF OthersSame, OnlyMoves, SessionTypes, DeleteUsed
<1>8. Paced(p)' /\ Recorded(p)'
  BY <1>3, <1>5 DEF Paced, Recorded, Deletes, DeleteUsed
<1> QED
  BY <1>2, <1>6, <1>7, <1>8, OthersKeep

LEMMA DecodeAgainKeeps ==
  ASSUME SessionInv, TypeOK', NEW p \in Instance, NEW lookups \in Plan,
         DecodeAgain(p, lookups)
  PROVE  SessionInv'
<1>1. SourceTypes /\ SessionTypes /\ HistoryTypes /\ SourcesHonest
  BY TypesTogether DEF SessionInv
<1>2. SourceTypes' /\ HistoryTypes' /\ SourcesHonest'
  BY <1>1 DEF DecodeAgain, world, sources, history, SourceTypes, HistoryTypes, SourcesHonest
<1>3. SessionTypes'
  BY <1>1, EmptySeq DEF SessionTypes, DecodeAgain
<1>4. OthersSame(p)
  BY <1>1 DEF OthersSame, SessionTypes, DecodeAgain, vars, control
<1>5. /\ stage'[p] = "second" /\ pos'[p] = 1 /\ plan'[p] = lookups /\ records'[p] = <<>>
      /\ pc'[p] = "idle" /\ ~busy'[p] /\ Len(lookups) \in Nat
  BY <1>1, PlanAssumption
  DEF SessionTypes, DecodeAgain, vars, control, SessionInv, Paced
<1>6. Paced(p)' /\ Recorded(p)'
  BY <1>5, EmptySeq DEF Paced, Recorded, Deletes
<1> QED
  BY <1>2, <1>3, <1>4, <1>6, OthersKeep

\* A step of the call that is under way.
LEMMA CallStepKeeps ==
  ASSUME SessionInv, TypeOK', NEW p \in Instance, UNCHANGED session,
         SourceTypes', SourcesHonest', HistoryTypes',
         \/ ReadContract(p) \/ RefreshName(p)
         \/ ReplaceContract(p) \/ MissContract(p) \/ InsertContract(p)
         \/ ReplaceAddress(p) \/ MissAddress(p) \/ InsertAddress(p)
         \/ \E f \in Function : PutSignature(p, f)
         \/ pc[p] = "create" /\ \E d : CreateAs(p, d)
         \/ DeleteAddress(p) \/ DeleteContract(p) \/ ClearCaches(p)
  PROVE  SessionInv'
<1>1. SessionTypes /\ TypeOK /\ Paced(p) /\ Recorded(p)
  BY TypesTogether DEF SessionInv
<1>2. SessionTypes' /\ stage' = stage /\ pos' = pos /\ plan' = plan /\ busy' = busy
      /\ records' = records /\ used' = used
  BY <1>1 DEF SessionTypes, session
<1>3. /\ OnlyMoves(p)
      /\ \/ pc[p] \notin Deletes \cup {"idle"} /\ pc'[p] \notin Deletes
         \/ pc[p] \in Deletes /\ pc'[p] \in Deletes \cup {"idle"}
      /\ pc'[p] # "idle" => subject'[p] = subject[p]
  BY <1>1, WriteMoves, DeletingMoves
<1>4. OthersSame(p)
  BY <1>2, <1>3 DEF OthersSame, OnlyMoves
<1>5. pc[p] # "idle" /\ stage[p] \in {"out", "first", "deleting", "second"}
  BY <1>1, <1>3 DEF SessionTypes, Deletes
<1>6. Paced(p)'
  BY <1>1, <1>2, <1>3, <1>5 DEF Paced
<1>7. Recorded(p)'
  BY <1>1, <1>2 DEF Recorded
<1> QED
  BY <1>2, <1>4, <1>6, <1>7, OthersKeep

LEMMA CreateKeeps ==
  ASSUME SessionInv, TypeOK', NEW p \in Instance, CreateFromSources(p)
  PROVE  SessionInv'
<1>1. SourceTypes /\ HistoryTypes /\ SessionTypeOK /\ SourcesHonest
  BY TypesTogether DEF SessionInv
<1>2. SourceTypes' /\ SourcesHonest' /\ Create(p)
  BY <1>1, HonestSources DEF CreateFromSources, SourceTypes, world
<1>3. HistoryTypes' /\ UNCHANGED session
  BY <1>1 DEF CreateFromSources, HistoryTypes, history
<1>4. pc[p] = "create" /\ \E d : CreateAs(p, d)
  BY <1>2 DEF Create
<1> QED
  BY <1>2, <1>3, <1>4, CallStepKeeps

LEMMA StoreKeeps ==
  ASSUME SessionInv, TypeOK', NEW p \in Instance, Store(p) \/ RepositoryStep(p)
  PROVE  SessionInv'
<1>1. SourceTypes /\ HistoryTypes /\ SourcesHonest /\ TypeOK
  BY TypesTogether DEF SessionInv
<1>2. SourceTypes' /\ SourcesHonest' /\ UNCHANGED session
  BY <1>1 DEF Store, RepositoryStep, SourceTypes, SourcesHonest, world, sources
<1>3. CASE Store(p)
  <2>1. pc[p] # "idle"
    BY <1>3 DEF Store, ReplaceAddress, InsertAddress
  <2>2. subject[p] \in Account
    BY <1>1, <2>1 DEF TypeOK
  <2>3. HistoryTypes'
    BY <1>1, <1>3, <2>2 DEF Store, HistoryTypes
  <2> QED
    BY <1>2, <1>3, <2>3, CallStepKeeps DEF Store
<1>4. CASE RepositoryStep(p)
  <2>1. HistoryTypes'
    BY <1>1, <1>4 DEF RepositoryStep, HistoryTypes, history
  <2> QED
    BY <1>2, <1>4, <2>1, CallStepKeeps DEF RepositoryStep
<1> QED
  BY <1>3, <1>4

LEMMA LeaveKeeps ==
  ASSUME SessionInv, TypeOK', NEW p \in Instance, Abort(p) \/ Restart(p)
  PROVE  SessionInv'
<1>1. SourceTypes /\ SessionTypes /\ HistoryTypes /\ SourcesHonest /\ TypeOK
  BY TypesTogether DEF SessionInv
<1>2. Leave(p) /\ Return(p)
  BY DEF Abort, Restart, Fail, RaiseTypeError, Crash
<1>3. SourceTypes' /\ SourcesHonest'
  <2>1. CASE Abort(p)
    BY <1>1, <2>1 DEF Abort, world, sources, SourceTypes, SourcesHonest
  <2>2. CASE Restart(p)
    <3>1. /\ code' = code /\ published' = published
          /\ codeCache' = [codeCache EXCEPT ![p] = Empty(Account)]
          /\ abiCache' = [abiCache EXCEPT ![p] = Empty(Account)]
      BY <2>2 DEF Restart, world
    <3>2. /\ Empty(Account) \in [Account -> Hash \cup {Miss}]
          /\ Empty(Account) \in [Account -> BOOLEAN \cup {Miss}]
          /\ \A a \in Account : Empty(Account)[a] = Miss
      BY DEF Empty
    <3>3. SourceTypes'
      BY <1>1, <3>1, <3>2 DEF SourceTypes
    <3>4. SourcesHonest'
      BY <1>1, <3>1, <3>2 DEF SourceTypes, SourcesHonest
    <3> QED
      BY <3>3, <3>4
  <2> QED
    BY <2>1, <2>2
<1>4. records' \in [Instance -> Seq(Account) \cup {Null}]
      /\ \A q \in Instance \ {p} : records'[q] = records[q]
  BY <1>1 DEF Abort, Restart, SessionTypes
<1>5. /\ plan' = [plan EXCEPT ![p] = <<>>] /\ used' = [used EXCEPT ![p] = <<>>]
      /\ rewritten' = [rewritten EXCEPT ![p] = {}]
      /\ stage' = [stage EXCEPT ![p] = "out"] /\ again' = [again EXCEPT ![p] = FALSE]
      /\ busy' = [busy EXCEPT ![p] = FALSE] /\ pos' = [pos EXCEPT ![p] = 1]
  BY <1>2 DEF Leave, Forget
<1>6. SessionTypes'
  BY <1>1, <1>4, <1>5, EmptySeq DEF SessionTypes
<1>7. torn' \in BOOLEAN
  BY <1>1 DEF Abort, Restart, HistoryTypes
<1>8. HistoryTypes'
  BY <1>1, <1>5, <1>7 DEF HistoryTypes
<1>9. OnlyMoves(p) /\ pc'[p] = "idle"
  BY <1>1, <1>2, ReturnMoves
<1>10. OthersSame(p)
  BY <1>1, <1>4, <1>5, <1>9 DEF OthersSame, OnlyMoves, SessionTypes
<1>11. Paced(p)' /\ Recorded(p)'
  BY <1>1, <1>5, <1>9 DEF Paced, Recorded, SessionTypes
<1> QED
  BY <1>3, <1>6, <1>8, <1>10, <1>11, OthersKeep

LEMMA WorldKeeps ==
  ASSUME SessionInv, TypeOK', NEW a \in Account, ChangeCode(a) \/ Publish(a)
  PROVE  SessionInv'
<1>1. SourceTypes /\ SessionTypes /\ HistoryTypes /\ SourcesHonest
  BY TypesTogether DEF SessionInv
<1>2. /\ UNCHANGED <<vars, sources, session, history>>
      /\ code' \in [Account -> Hash] /\ \A b \in Account : code'[b] \in CodeOf[b]
      /\ published' \subseteq Verified
  <2>1. CASE ChangeCode(a)
    <3>1. PICK h \in CodeOf[a] : code' = [code EXCEPT ![a] = h]
      BY <2>1 DEF ChangeCode
    <3>2. h \in Hash
      BY <3>1, ConstantsAssumption
    <3> QED
      BY <1>1, <2>1, <3>1, <3>2 DEF ChangeCode, SourceTypes, SourcesHonest
  <2>2. CASE Publish(a)
    BY <1>1, <2>2 DEF Publish, SourceTypes, SourcesHonest
  <2> QED
    BY <2>1, <2>2
<1>3. published' \subseteq Account
  BY <1>2, ConstantsAssumption
<1>4. SessionTypeOK'
  BY <1>1, <1>2, <1>3 DEF SessionTypeOK, SourceTypes, SessionTypes, HistoryTypes,
     sources, session, history
<1>5. SourcesHonest'
  BY <1>1, <1>2 DEF SourcesHonest, sources
<1>6. \A q \in Instance : Paced(q)' /\ Recorded(q)'
  BY <1>2 DEF SessionInv, Paced, Recorded, session, vars, control
<1> QED
  BY <1>4, <1>5, <1>6 DEF SessionInv

LEMMA InitSession == SessionInit => SessionInv /\ IntegrityInv
<1> SUFFICES ASSUME SessionInit PROVE SessionInv /\ IntegrityInv
  OBVIOUS
<1> USE DEF SessionInit
<1>1. IntegrityInv /\ TypeOK
  BY InitIntegrity DEF IntegrityInv
<1>2. /\ Empty(Account) \in [Account -> Hash \cup {Miss}]
      /\ Empty(Account) \in [Account -> BOOLEAN \cup {Miss}]
      /\ \A a \in Account : Empty(Account)[a] = Miss
  BY DEF Empty
<1>3. published \subseteq Verified /\ published \subseteq Account
  BY ConstantsAssumption
<1>4. SourceTypes /\ SourcesHonest
  BY <1>2, <1>3 DEF SourceTypes, SourcesHonest
<1>5. SessionTypes /\ HistoryTypes
  <2>1. used \in [Instance -> Seq(Account)] /\ plan \in [Instance -> Plan \cup {<<>>}]
    BY EmptySeq
  <2>2. records \in [Instance -> Seq(Account) \cup {Null}] /\ pos \in [Instance -> Nat \ {0}]
    OBVIOUS
  <2>3. /\ stage \in [Instance -> {"out", "first", "deleting", "second"}]
        /\ again \in [Instance -> BOOLEAN] /\ busy \in [Instance -> BOOLEAN]
        /\ rewritten \in [Instance -> SUBSET Account] /\ torn \in BOOLEAN
    OBVIOUS
  <2> QED
    BY <2>1, <2>2, <2>3 DEF SessionTypes, HistoryTypes
<1>6. \A p \in Instance : Paced(p) /\ Recorded(p)
  BY DEF Paced, Recorded, Init
<1> QED
  BY <1>1, <1>4, <1>5, <1>6, TypesTogether DEF SessionInv

LEMMA NextSession == SessionInv /\ TypeOK' /\ [SessionNext]_allVars => SessionInv'
<1> SUFFICES ASSUME SessionInv, TypeOK', [SessionNext]_allVars PROVE SessionInv'
  OBVIOUS
<1>1. CASE UNCHANGED allVars
  BY <1>1 DEF allVars, vars, control, world, sources, session, history, SessionInv,
     SessionTypeOK, SourcesHonest, Paced, Recorded
<1>2. CASE \E a \in Account : ChangeCode(a) \/ Publish(a)
  BY <1>2, WorldKeeps
<1>3. CASE \E p \in Instance, lookups \in Plan, recreate \in BOOLEAN :
             Begin(p, lookups, recreate)
  BY <1>3, BeginKeeps
<1>4. CASE \E p \in Instance : Progress(p) \/ Restart(p)
  BY <1>4, LookUpKeeps, RecordKeeps, EndPassKeeps, DeleteUsedKeeps, DecodeAgainKeeps,
     CreateKeeps, StoreKeeps, LeaveKeeps DEF Progress
<1> QED
  BY <1>1, <1>2, <1>3, <1>4 DEF SessionNext

\* The session and the store's IntegrityInv hold together.
THEOREM SessionInvariant == SessionSpec => [](SessionInv /\ IntegrityInv)
<1>1. SessionInv /\ IntegrityInv /\ [SessionNext]_allVars => SessionInv' /\ IntegrityInv'
  <2>1. SessionInv /\ IntegrityInv /\ [SessionNext]_allVars => IntegrityInv' /\ TypeOK'
    BY SessionIsStoreStep, NextIntegrity DEF IntegrityInv
  <2> QED
    BY <2>1, NextSession
<1> QED
  BY <1>1, InitSession, PTL DEF SessionSpec

\* What a decode does to the semantics store, with the node's and Etherscan's
\* answers cached as the program caches them, is what SemanticsStore says: all
\* that is proved of the store holds while decodes use it.
THEOREM SessionImplementsStore == SessionSpec => Spec
<1>1. SessionInit => Init
  BY DEF SessionInit
<1>2. SessionInv /\ [SessionNext]_allVars => [Next]_vars
  BY SessionIsStoreStep
<1> QED
  BY <1>1, <1>2, SessionInvariant, PTL DEF SessionSpec, Spec

\* delete_semantics is given what this decode looked up, in its order, by any
\* number of processes and whatever an earlier decode left in _records.
THEOREM SessionRecords == SessionSpec => []RecordsAreThisDecode
<1>1. SessionInv => RecordsAreThisDecode
  BY DEF SessionInv, Recorded, RecordsAreThisDecode
<1> QED
  BY <1>1, SessionInvariant, PTL

-----------------------------------------------------------------------------
(***************************************************************************)
(* One process: a decode that recreates semantics leaves none of what it   *)
(* knew of the accounts it recorded.                                       *)
(***************************************************************************)
OneProcess == \A p, q \in Instance : p = q

LEMMA OnlyOne ==
  ASSUME OneProcess, NEW p \in Instance, PassInv(p)', DeletingInv(p)', SecondPassInv(p)'
  PROVE  RenewalInv'
BY DEF OneProcess, RenewalInv

LEMMA UsedAreAccounts ==
  ASSUME SessionTypes, NEW p \in Instance
  PROVE  /\ Range(used[p]) \subseteq Account /\ used[p] \in Seq(Account)
         /\ \A a \in Range(used[p]) : \E i \in 1 .. Len(used[p]) : used[p][i] = a
<1>1. used[p] \in Seq(Account)
  BY DEF SessionTypes
<1>2. DOMAIN used[p] = 1 .. Len(used[p]) /\ \A i \in 1 .. Len(used[p]) : used[p][i] \in Account
  BY <1>1
<1> QED
  BY <1>1, <1>2 DEF Range

\* A cached read of an account: it answers with what is remembered or else with
\* a stored document.
LEMMA CachedRead ==
  ASSUME TypeOK, NEW p \in Instance, NEW a \in Account,
         NEW cache \in CachedFind(addressCache[p], a, addresses[a])
  PROVE  /\ addressCache[p][a] # Miss => cache[a] = addressCache[p][a]
         /\ addressCache[p][a] = Miss /\ cache[a] = Null => Absent(addresses[a])
         /\ addressCache[p][a] = Miss /\ cache[a] # Null =>
              \E q \in Instance : addresses[a][q] = cache[a]
         /\ cache[a] # Miss /\ cache \in [Account -> AddressDoc \cup {Null, Miss}]
         /\ \A b \in Account \ {a} : cache[b] \in {addressCache[p][b], Miss}
<1> DEFINE Value == AddressDoc \cup {Null, Miss}
<1>1. PICK stored \in FindOne(addresses[a]) : cache \in Lookup(addressCache[p], a, stored)
  BY DEF CachedFind
<1>2. /\ stored = Null => Absent(addresses[a])
      /\ stored # Null => \E q \in Instance : addresses[a][q] = stored
  BY <1>1, FoundOne
<1>3. addressCache[p] \in [Account -> Value] /\ Miss \in Value
  BY DEF TypeOK
<1>4. stored \in Value /\ stored # Miss
  <2>1. CASE stored = Null
    BY <2>1, Sentinels
  <2>2. CASE stored # Null
    BY <1>2, <2>2, Sentinels DEF TypeOK
  <2> QED
    BY <2>1, <2>2
<1> HIDE DEF Value
<1>5. /\ cache \in [Account -> Value]
      /\ cache[a] = IF addressCache[p][a] # Miss THEN addressCache[p][a] ELSE stored
      /\ \A b \in Account \ {a} : cache[b] \in {addressCache[p][b], Miss}
  BY <1>1, <1>3, <1>4, LookupLemma
<1> QED
  BY <1>2, <1>4, <1>5 DEF Value

\* It makes nobody stale.
LEMMA ReadKeepsRenewal ==
  ASSUME TypeOK, NEW p \in Instance, NEW a \in Account,
         NEW cache \in CachedFind(addressCache[p], a, addresses[a]),
         addressCache'[p] = cache,
         addresses' = addresses, rewritten' = rewritten
  PROVE  \A b \in Account : /\ Unmissed(p, b) => Unmissed(p, b)'
                            /\ Renewed(p, b) => Renewed(p, b)'
<1>1. /\ addressCache[p][a] # Miss => cache[a] = addressCache[p][a]
      /\ addressCache[p][a] = Miss /\ cache[a] = Null => Absent(addresses[a])
      /\ addressCache[p][a] = Miss /\ cache[a] # Null =>
           \E q \in Instance : addresses[a][q] = cache[a]
      /\ \A b \in Account \ {a} : cache[b] \in {addressCache[p][b], Miss}
  BY CachedRead
<1>2. \A b \in Account : Absent(addresses'[b]) <=> Absent(addresses[b])
  OBVIOUS
<1>3. Absent(addresses[a]) /\ addressCache[p][a] = Miss => cache[a] = Null
  BY <1>1 DEF Absent
<1>4. ASSUME NEW b \in Account
      PROVE  /\ addressCache'[p][b] = Null => addressCache[p][b] = Null \/ Absent(addresses[b])
             /\ Absent(addresses[b]) /\ addressCache[p][b] \in {Null, Miss} =>
                  addressCache'[p][b] \in {Null, Miss}
  <2>1. CASE b = a
    BY <1>1, <1>3, <2>1
  <2>2. CASE b # a
    BY <1>1, <2>2, Sentinels
  <2> QED
    BY <2>1, <2>2
<1>5. ASSUME NEW b \in Account, Unmissed(p, b) PROVE Unmissed(p, b)'
  BY <1>2, <1>4, <1>5 DEF Unmissed
<1>6. ASSUME NEW b \in Account, Renewed(p, b) PROVE Renewed(p, b)'
  BY <1>2, <1>4, <1>6 DEF Renewed
<1> QED
  BY <1>5, <1>6

LEMMA LookUpRenews ==
  ASSUME OneProcess, SessionInv, RenewalInv, NEW p \in Instance, LookUp(p)
  PROVE  RenewalInv'
<1>1. SessionTypes /\ TypeOK /\ stage[p] \in {"first", "second"} /\ ~busy[p] /\ pc[p] = "idle"
  BY TypesTogether DEF SessionInv, LookUp, InPass
<1>2. /\ plan[p] \in Seq(Account) /\ pos[p] \in 1 .. Len(plan[p])
      /\ \A i \in 1 .. Len(plan[p]) : plan[p][i] \in Account
      /\ Len(plan[p]) \in Nat
  BY <1>1, PlansAreSequences DEF LookUp
<1>3. PICK a \in Account : a = plan[p][pos[p]]
  BY <1>2
<1>4. /\ Get(p, a) /\ busy'[p] = TRUE /\ used' = used
      /\ stage' = stage /\ plan' = plan /\ pos' = pos /\ rewritten' = rewritten
  BY <1>1, <1>3 DEF LookUp, history, SessionTypes
<1>5. addresses' = addresses
  BY <1>4 DEF Get, db
<1>6. PICK cache \in CachedFind(addressCache[p], a, addresses[a]) :
        /\ addressCache' = [addressCache EXCEPT ![p] = cache]
        /\ cache[a] = Null => pc'[p] = "create"
  BY <1>1, <1>4, Sentinels DEF Get, Continue, Goto, TypeOK
<1>7. addressCache'[p] = cache
  BY <1>1, <1>6 DEF TypeOK
<1>8. /\ addressCache[p][a] # Miss => cache[a] = addressCache[p][a]
      /\ addressCache[p][a] = Miss /\ cache[a] # Null =>
           \E q \in Instance : addresses[a][q] = cache[a]
  BY <1>1, CachedRead
<1>9. \A b \in Account : /\ Unmissed(p, b) => Unmissed(p, b)'
                         /\ Renewed(p, b) => Renewed(p, b)'
  BY <1>1, <1>4, <1>5, <1>7, ReadKeepsRenewal
<1>10. pc'[p] \notin Writes => cache[a] # Null
  BY <1>6 DEF Writes
<1>11. PassInv(p)'
  <2>1. pc'[p] \notin Writes => Unmissed(p, a)'
    BY <1>7, <1>10 DEF Unmissed
  <2>2. \A i \in 1 .. pos[p] - 1 : Unmissed(p, plan[p][i])
    BY <1>1 DEF RenewalInv, PassInv
  <2>3. \A i \in 1 .. pos[p] - 1 : Unmissed(p, plan[p][i])'
    BY <1>2, <1>4, <1>9, <2>2 DEF Unmissed
  <2> QED
    BY <1>3, <1>4, <2>1, <2>3 DEF PassInv, Unmissed
<1>12. SecondPassInv(p)'
  <2> SUFFICES ASSUME stage[p] = "second", NEW c \in Range(used[p])
               PROVE  /\ \A i \in 1 .. pos[p] - 1 : plan[p][i] = c => c \in rewritten[p]
                      /\ plan[p][pos[p]] = c => pc'[p] \in Writes \/ c \in rewritten[p]
                      /\ Renewed(p, c)'
    BY <1>4 DEF SecondPassInv, Renewed
  <2>1. c \in Account
    BY <1>1, UsedAreAccounts
  <2>2. /\ \A i \in 1 .. pos[p] - 1 : plan[p][i] = c => c \in rewritten[p]
        /\ Renewed(p, c)
    BY <1>1 DEF RenewalInv, SecondPassInv
  <2>3. ASSUME plan[p][pos[p]] = c, pc'[p] \notin Writes PROVE c \in rewritten[p]
    <3>1. cache[a] # Null /\ c = a
      BY <1>3, <1>10, <2>3
    <3>2. ~(Absent(addresses[a]) /\ addressCache[p][a] \in {Null, Miss})
      BY <1>8, <3>1 DEF Absent
    <3> QED
      BY <2>2, <3>1, <3>2 DEF Renewed
  <2>4. Renewed(p, c)'
    BY <1>9, <2>1, <2>2
  <2> QED
    BY <2>2, <2>3, <2>4
<1>13. DeletingInv(p)'
  BY <1>1, <1>4 DEF DeletingInv
<1> QED
  BY <1>11, <1>12, <1>13, OnlyOne

LEMMA DeleteUsedRenews ==
  ASSUME OneProcess, SessionInv, RenewalInv, NEW p \in Instance, DeleteUsed(p)
  PROVE  RenewalInv'
<1>1. SessionTypes /\ TypeOK /\ stage[p] = "deleting" /\ pc[p] = "idle" /\ used[p] = plan[p]
  BY TypesTogether DEF SessionInv, DeleteUsed, Recorded
<1>2. /\ plan[p] \in Seq(Account) /\ pos[p] \in 1 .. Len(plan[p])
      /\ \A i \in 1 .. Len(plan[p]) : plan[p][i] \in Account
      /\ Len(plan[p]) \in Nat
  BY <1>1, PlansAreSequences DEF DeleteUsed
<1>3. PICK a \in Account : a = plan[p][pos[p]]
  BY <1>2
<1>4. /\ Delete(p, a) /\ pos'[p] = pos[p] + 1
      /\ stage' = stage /\ plan' = plan /\ rewritten' = rewritten
  BY <1>1, <1>3 DEF DeleteUsed, history, SessionTypes
<1>5. addresses' = addresses
  BY <1>4 DEF Delete, db
<1>6. PICK cache \in CachedFind(addressCache[p], a, addresses[a]) :
        /\ addressCache' = [addressCache EXCEPT ![p] = cache]
        /\ IF cache[a] = Null
           THEN UNCHANGED control
           ELSE Continue(p, "delAddress", a, cache[a])
  BY <1>4 DEF Delete
<1>7. addressCache'[p] = cache
  BY <1>1, <1>6 DEF TypeOK
<1>8. /\ addressCache[p][a] # Miss => cache[a] = addressCache[p][a]
      /\ addressCache[p][a] = Miss /\ cache[a] = Null => Absent(addresses[a])
  BY <1>1, CachedRead
<1>9. \A b \in Account : /\ Unmissed(p, b) => Unmissed(p, b)'
                         /\ Renewed(p, b) => Renewed(p, b)'
  BY <1>1, <1>4, <1>5, <1>7, ReadKeepsRenewal
<1>10. /\ cache[a] = Null => pc'[p] = "idle"
       /\ cache[a] # Null => pc'[p] = "delAddress" /\ subject'[p] = a
  BY <1>1, <1>6 DEF control, Continue, Goto, TypeOK
<1>11. \A i \in 1 .. Len(plan[p]) : Unmissed(p, plan[p][i])
  BY <1>1 DEF RenewalInv, DeletingInv
<1>12. \A i \in 1 .. Len(plan[p]) : i < pos[p] => Renewed(p, plan[p][i])
  BY <1>1 DEF RenewalInv, DeletingInv, Deletes
<1>13. cache[a] = Null => Renewed(p, a)'
  <2>1. Unmissed(p, a)
    BY <1>2, <1>3, <1>11
  <2>2. Absent(addresses'[a]) <=> Absent(addresses[a])
    BY <1>5
  <2> QED
    BY <1>4, <1>7, <1>8, <2>1, <2>2 DEF Unmissed, Renewed
<1>14. ASSUME NEW i \in 1 .. Len(plan[p]), i < pos[p] + 1
       PROVE  \/ Renewed(p, plan[p][i])'
              \/ pc'[p] \in Deletes /\ subject'[p] = plan[p][i]
  <2>1. CASE i = pos[p]
    BY <1>3, <1>4, <1>10, <1>13, <2>1 DEF Deletes, Renewed
  <2>2. CASE i < pos[p]
    BY <1>2, <1>4, <1>9, <1>12, <2>2 DEF Renewed
  <2> QED
    BY <1>2, <1>14, <2>1, <2>2
<1>15. DeletingInv(p)'
  <2>1. \A i \in 1 .. Len(plan[p]) : Unmissed(p, plan[p][i])'
    BY <1>2, <1>4, <1>9, <1>11 DEF Unmissed
  <2>2. pc'[p] \notin {"delContract", "clear"}
    BY <1>10
  <2> QED
    BY <1>4, <1>14, <2>1, <2>2 DEF DeletingInv, Unmissed, Renewed
<1>16. PassInv(p)' /\ SecondPassInv(p)'
  BY <1>1, <1>4 DEF PassInv, SecondPassInv
<1> QED
  BY <1>15, <1>16, OnlyOne

LEMMA BeginRenews ==
  ASSUME OneProcess, SessionInv, NEW p \in Instance,
         NEW lookups \in Plan, NEW recreate \in BOOLEAN, Begin(p, lookups, recreate)
  PROVE  RenewalInv'
<1>1. SessionTypes /\ ~busy[p]
  BY TypesTogether DEF SessionInv, Begin, Paced
<1>2. stage'[p] = "first" /\ pos'[p] = 1 /\ ~busy'[p]
  BY <1>1 DEF Begin, SessionTypes
<1>3. PassInv(p)' /\ DeletingInv(p)' /\ SecondPassInv(p)'
  BY <1>2 DEF PassInv, DeletingInv, SecondPassInv
<1> QED
  BY <1>3, OnlyOne

LEMMA RecordRenews ==
  ASSUME OneProcess, SessionInv, RenewalInv, NEW p \in Instance, Record(p)
  PROVE  RenewalInv'
<1>1. SessionTypes /\ stage[p] \in {"first", "second"} /\ busy[p] /\ pc[p] \notin Writes
  BY TypesTogether DEF SessionInv, Record, InPass, Writes
<1>2. pos[p] \in 1 .. Len(plan[p]) /\ Len(plan[p]) \in Nat
  BY <1>1, PlansAreSequences DEF SessionInv, Paced
<1>3. /\ stage' = stage /\ plan' = plan /\ rewritten' = rewritten /\ used' = used
      /\ addresses' = addresses /\ addressCache' = addressCache
      /\ pos'[p] = pos[p] + 1 /\ ~busy'[p]
  BY <1>1 DEF Record, SessionTypes, vars, db, caches, history
<1>4. PassInv(p)'
  <2>1. \A i \in 1 .. pos[p] : Unmissed(p, plan[p][i])
    BY <1>1, <1>2 DEF RenewalInv, PassInv
  <2> QED
    BY <1>2, <1>3, <2>1 DEF PassInv, Unmissed, Absent
<1>5. SecondPassInv(p)'
  <2> SUFFICES ASSUME stage[p] = "second", NEW c \in Range(used[p])
               PROVE  /\ \A i \in 1 .. pos[p] : plan[p][i] = c => c \in rewritten[p]
                      /\ Renewed(p, c)'
    BY <1>2, <1>3 DEF SecondPassInv, Renewed
  <2>1. /\ \A i \in 1 .. pos[p] - 1 : plan[p][i] = c => c \in rewritten[p]
        /\ plan[p][pos[p]] = c => c \in rewritten[p]
        /\ Renewed(p, c) \/ plan[p][pos[p]] = c
    BY <1>1 DEF RenewalInv, SecondPassInv
  <2>2. \A i \in 1 .. pos[p] : plan[p][i] = c => c \in rewritten[p]
    BY <1>2, <2>1
  <2> QED
    BY <1>3, <2>1, <2>2 DEF Renewed, Absent
<1>6. DeletingInv(p)'
  BY <1>1, <1>3 DEF DeletingInv
<1> QED
  BY <1>4, <1>5, <1>6, OnlyOne

LEMMA EndPassRenews ==
  ASSUME OneProcess, SessionInv, RenewalInv, NEW p \in Instance, EndPass(p)
  PROVE  RenewalInv'
<1>1. /\ SessionTypes /\ stage[p] \in {"first", "second"} /\ pc[p] = "idle"
      /\ pos[p] > Len(plan[p]) /\ pos[p] \in Nat /\ Len(plan[p]) \in Nat /\ ~busy[p]
  BY TypesTogether, PlansAreSequences DEF SessionInv, EndPass, PassDone, InPass, Paced
<1>2. /\ addresses' = addresses /\ addressCache' = addressCache /\ pc' = pc
      /\ pos'[p] = 1
  BY <1>1 DEF EndPass, vars, db, caches, control, SessionTypes
<1>3. CASE again[p]
  <2>1. stage'[p] = "deleting" /\ plan' = plan /\ rewritten' = rewritten
    BY <1>1, <1>3 DEF EndPass, SessionTypes
  <2>2. \A i \in 1 .. Len(plan[p]) : Unmissed(p, plan[p][i])
    BY <1>1 DEF RenewalInv, PassInv
  <2>3. DeletingInv(p)'
    BY <1>1, <1>2, <2>1, <2>2 DEF DeletingInv, Unmissed, Absent
  <2>4. PassInv(p)' /\ SecondPassInv(p)'
    BY <2>1 DEF PassInv, SecondPassInv
  <2> QED
    BY <2>3, <2>4, OnlyOne
<1>4. CASE ~again[p]
  <2>1. stage'[p] = "out"
    BY <1>1, <1>4 DEF EndPass, SessionTypes
  <2>2. PassInv(p)' /\ DeletingInv(p)' /\ SecondPassInv(p)'
    BY <2>1 DEF PassInv, DeletingInv, SecondPassInv
  <2> QED
    BY <2>2, OnlyOne
<1> QED
  BY <1>3, <1>4

LEMMA DecodeAgainRenews ==
  ASSUME OneProcess, SessionInv, RenewalInv, NEW p \in Instance, NEW lookups \in Plan,
         DecodeAgain(p, lookups)
  PROVE  RenewalInv'
<1>1. /\ SessionTypes /\ stage[p] = "deleting" /\ pc[p] = "idle" /\ used[p] = plan[p]
      /\ pos[p] > Len(plan[p]) /\ pos[p] \in Nat /\ Len(plan[p]) \in Nat /\ ~busy[p]
  BY TypesTogether, PlansAreSequences DEF SessionInv, DecodeAgain, Paced, Recorded
<1>2. /\ stage'[p] = "second" /\ pos'[p] = 1 /\ ~busy'[p]
      /\ used' = used /\ rewritten' = rewritten
      /\ addresses' = addresses /\ addressCache' = addressCache
  BY <1>1 DEF DecodeAgain, SessionTypes, vars, db, caches, history
<1>3. \A i \in 1 .. Len(plan[p]) : Renewed(p, plan[p][i])
  BY <1>1 DEF RenewalInv, DeletingInv, Deletes
<1>4. ASSUME NEW a \in Range(used[p]) PROVE Renewed(p, a)
  <2>1. PICK i \in 1 .. Len(used[p]) : used[p][i] = a
    BY <1>1, UsedAreAccounts
  <2> QED
    BY <1>1, <1>3, <2>1
<1>5. SecondPassInv(p)'
  BY <1>2, <1>4 DEF SecondPassInv, Renewed, Absent
<1>6. PassInv(p)' /\ DeletingInv(p)'
  BY <1>2 DEF PassInv, DeletingInv
<1> QED
  BY <1>5, <1>6, OnlyOne

\* The steps of a lookup that store no address document.
LEMMA WritingRenews ==
  ASSUME OneProcess, SessionInv, RenewalInv, NEW p \in Instance,
         pc[p] \notin Deletes \cup {"idle"}, pc[p] \in Writes => pc'[p] \in Writes,
         addresses' = addresses, addressCache' = addressCache, rewritten' = rewritten,
         stage' = stage, plan' = plan, pos' = pos, busy' = busy, used' = used
  PROVE  RenewalInv'
<1>1. stage[p] \in {"first", "second"}
  BY TypesTogether DEF SessionInv, Paced, SessionTypes
<1>2. PassInv(p)' /\ DeletingInv(p)' /\ SecondPassInv(p)'
  BY <1>1 DEF RenewalInv, PassInv, DeletingInv, SecondPassInv, Unmissed, Renewed, Absent
<1> QED
  BY <1>2, OnlyOne

LEMMA RepositoryWritesRenew ==
  ASSUME OneProcess, SessionInv, RenewalInv, NEW p \in Instance,
         \/ CreateFromSources(p)
         \/ /\ \/ ReadContract(p) \/ RefreshName(p) \/ MissAddress(p)
               \/ ReplaceContract(p) \/ MissContract(p) \/ InsertContract(p)
               \/ \E f \in Function : PutSignature(p, f)
            /\ UNCHANGED <<session, history>>
  PROVE  RenewalInv'
<1>1. TypeOK
  BY TypesTogether DEF SessionInv
<1>2. /\ rewritten' = rewritten /\ stage' = stage /\ plan' = plan /\ pos' = pos
      /\ busy' = busy /\ used' = used
  BY DEF CreateFromSources, session, history
<1>3. CASE CreateFromSources(p)
  <2>1. pc[p] = "create" /\ \E d : CreateAs(p, d)
    BY <1>3 DEF CreateFromSources, Sourced
  <2>2. pc'[p] = "putContract" /\ addresses' = addresses /\ addressCache' = addressCache
    BY <1>1, <2>1 DEF CreateAs, Continue, Goto, db, caches, TypeOK
  <2> QED
    BY <1>2, <2>1, <2>2, WritingRenews DEF Writes, Deletes
<1>4. CASE ReadContract(p)
  BY <1>2, <1>4, WritingRenews DEF ReadContract, Writes, Deletes, db
<1>5. CASE RefreshName(p)
  BY <1>2, <1>5, WritingRenews DEF RefreshName, Writes, Deletes, db, caches
<1>6. CASE ReplaceContract(p) \/ InsertContract(p)
  <2>1. pc[p] \in {"putContract", "insertContract"} /\ pc'[p] = "putAddress"
        /\ UNCHANGED <<addresses, addressCache>>
    BY <1>1, <1>6 DEF ReplaceContract, InsertContract, WriteContract, Goto, TypeOK, caches
  <2> QED
    BY <1>2, <2>1, WritingRenews DEF Writes, Deletes
<1>7. CASE MissContract(p) \/ MissAddress(p)
  <2>1. /\ pc[p] \in {"putContract", "putAddress"}
        /\ pc'[p] \in {"insertContract", "insertAddress"}
        /\ UNCHANGED <<addresses, addressCache>>
    BY <1>1, <1>7 DEF MissContract, MissAddress, Goto, TypeOK, caches, db
  <2> QED
    BY <1>2, <2>1, WritingRenews DEF Writes, Deletes
<1>8. CASE \E f \in Function : PutSignature(p, f)
  BY <1>2, <1>8, WritingRenews DEF PutSignature, Writes, Deletes, caches
<1> QED
  BY <1>3, <1>4, <1>5, <1>6, <1>7, <1>8

LEMMA StoreRenews ==
  ASSUME OneProcess, SessionInv, RenewalInv, NEW p \in Instance, Store(p)
  PROVE  RenewalInv'
<1>1. /\ TypeOK /\ SessionTypes /\ HistoryTypes /\ pc[p] \in {"putAddress", "insertAddress"}
  BY TypesTogether DEF SessionInv, Store, ReplaceAddress, InsertAddress
<1>2. stage[p] \in {"first", "second"} /\ busy[p] /\ pos[p] \in 1 .. Len(plan[p])
  <2>1. stage[p] \in {"first", "second"} /\ busy[p] /\ pos[p] <= Len(plan[p])
    BY <1>1 DEF SessionInv, Paced, SessionTypes, Deletes
  <2> QED
    BY <1>1, <2>1, PlansAreSequences
<1>3. PICK a \in Account : a = subject[p] /\ a = plan[p][pos[p]]
  BY <1>1, <1>2, PlansAreSequences DEF SessionInv, Paced
<1>4. /\ stage' = stage /\ plan' = plan /\ pos' = pos /\ busy' = busy /\ used' = used
      /\ addressCache' = addressCache
      /\ \A b \in Account \ {a} : addresses'[b] = addresses[b]
      /\ rewritten'[p] = rewritten[p] \cup {a}
  BY <1>1, <1>3
  DEF Store, ReplaceAddress, InsertAddress, WriteAddress, session, caches, TypeOK, HistoryTypes
<1>5. \A b \in Account : /\ Unmissed(p, b) => Unmissed(p, b)'
                         /\ Renewed(p, b) => Renewed(p, b)'
  BY <1>4 DEF Unmissed, Renewed
<1>6. Unmissed(p, a)' /\ Renewed(p, a)' /\ a \in rewritten'[p]
  BY <1>4 DEF Unmissed, Renewed
<1>7. \A i \in 1 .. Len(plan[p]) : plan[p][i] \in Account
  BY <1>1, PlansAreSequences
<1>8. pos[p] \in Nat /\ Len(plan[p]) \in Nat
  BY <1>1, PlansAreSequences
<1>9. PassInv(p)'
  <2>1. \A i \in 1 .. pos[p] - 1 : Unmissed(p, plan[p][i])
    BY <1>2 DEF RenewalInv, PassInv
  <2>2. \A i \in 1 .. pos[p] - 1 : Unmissed(p, plan[p][i])'
    BY <1>2, <1>4, <1>5, <1>7, <1>8, <2>1 DEF Unmissed
  <2> QED
    BY <1>3, <1>4, <1>6, <2>2 DEF PassInv, Unmissed
<1>10. SecondPassInv(p)'
  <2> SUFFICES ASSUME stage[p] = "second", NEW c \in Range(used[p])
               PROVE  /\ \A i \in 1 .. pos[p] - 1 : plan[p][i] = c => c \in rewritten'[p]
                      /\ plan[p][pos[p]] = c => c \in rewritten'[p]
                      /\ Renewed(p, c)' \/ plan[p][pos[p]] = c
    BY <1>2, <1>4 DEF SecondPassInv, Renewed
  <2>1. c \in Account
    BY <1>1, UsedAreAccounts
  <2>2. /\ \A i \in 1 .. pos[p] - 1 : plan[p][i] = c => c \in rewritten[p]
        /\ Renewed(p, c) \/ plan[p][pos[p]] = c
    BY DEF RenewalInv, SecondPassInv
  <2> QED
    BY <1>3, <1>4, <1>5, <1>6, <2>1, <2>2
<1>11. DeletingInv(p)'
  BY <1>2, <1>4 DEF DeletingInv
<1> QED
  BY <1>9, <1>10, <1>11, OnlyOne

LEMMA DeletingRenews ==
  ASSUME OneProcess, SessionInv, RenewalInv, NEW p \in Instance,
         DeleteAddress(p) \/ DeleteContract(p) \/ ClearCaches(p),
         UNCHANGED <<session, history>>
  PROVE  RenewalInv'
<1>1. TypeOK /\ SessionTypes /\ pc[p] \in Deletes
  BY TypesTogether DEF SessionInv, DeleteAddress, DeleteContract, ClearCaches, Deletes
<1>2. stage[p] = "deleting"
  BY <1>1 DEF SessionInv, Paced, SessionTypes, Deletes
<1>3. PICK a \in Account : a = subject[p]
  BY <1>1 DEF TypeOK, Deletes
<1>4. stage' = stage /\ plan' = plan /\ pos' = pos /\ rewritten' = rewritten
  BY DEF session, history
<1>5. \A i \in 1 .. Len(plan[p]) : plan[p][i] \in Account
  BY <1>1, PlansAreSequences
<1>6. /\ \A i \in 1 .. Len(plan[p]) : Unmissed(p, plan[p][i])
      /\ \A i \in 1 .. Len(plan[p]) : i < pos[p] => Renewed(p, plan[p][i]) \/ plan[p][i] = a
      /\ pc[p] \in {"delContract", "clear"} => Absent(addresses[a])
  BY <1>2, <1>3 DEF RenewalInv, DeletingInv
<1>7. CASE \/ DeleteAddress(p) \/ DeleteContract(p)
  <2>1. addressCache' = addressCache /\ subject'[p] = a /\ pc'[p] \in {"delContract", "clear"}
    BY <1>1, <1>3, <1>7 DEF DeleteAddress, DeleteContract, Goto, caches, TypeOK
  <2>2. (\A b \in Account \ {a} : addresses'[b] = addresses[b]) /\ Absent(addresses'[a])
    <3>1. CASE DeleteAddress(p)
      <4>1. PICK q \in Instance : addresses' = [addresses EXCEPT ![a][q] = Null]
        BY <1>3, <3>1 DEF DeleteAddress, DeleteOne
      <4>2. addresses'[a][q] = Null /\ \A b \in Account \ {a} : addresses'[b] = addresses[b]
        BY <1>1, <4>1 DEF TypeOK
      <4> QED
        BY <4>2 DEF OneProcess, Absent
    <3>2. CASE DeleteContract(p)
      BY <1>6, <3>2 DEF DeleteContract
    <3> QED
      BY <1>7, <3>1, <3>2
  <2>3. \A b \in Account : /\ Unmissed(p, b) => Unmissed(p, b)'
                           /\ Renewed(p, b) => Renewed(p, b)'
    BY <1>4, <2>1, <2>2 DEF Unmissed, Renewed
  <2>4. /\ \A i \in 1 .. Len(plan[p]) : Unmissed(p, plan[p][i])'
        /\ \A i \in 1 .. Len(plan[p]) : i < pos[p] => Renewed(p, plan[p][i])' \/ plan[p][i] = a
    BY <1>4, <1>5, <1>6, <2>3 DEF Unmissed, Renewed
  <2>5. DeletingInv(p)'
    BY <1>4, <2>1, <2>2, <2>4 DEF DeletingInv, Deletes, Unmissed, Renewed
  <2>6. PassInv(p)' /\ SecondPassInv(p)'
    BY <1>2, <1>4 DEF PassInv, SecondPassInv
  <2> QED
    BY <2>5, <2>6, OnlyOne
<1>8. CASE ClearCaches(p)
  <2>1. /\ addresses' = addresses /\ pc'[p] = "idle" /\ Absent(addresses[a])
        /\ \A b \in Account : addressCache'[p][b] = Miss
    BY <1>1, <1>6, <1>8 DEF ClearCaches, Empty, Return, Goto, db, TypeOK
  <2>2. /\ Renewed(p, a)'
        /\ \A b \in Account : Unmissed(p, b)' /\ (Renewed(p, b) => Renewed(p, b)')
    BY <1>4, <2>1, Sentinels DEF Unmissed, Renewed, Absent
  <2>3. /\ \A i \in 1 .. Len(plan[p]) : Unmissed(p, plan[p][i])'
        /\ \A i \in 1 .. Len(plan[p]) : i < pos[p] => Renewed(p, plan[p][i])'
    BY <1>4, <1>5, <1>6, <2>2 DEF Unmissed, Renewed
  <2>4. DeletingInv(p)'
    BY <1>4, <2>1, <2>3 DEF DeletingInv, Unmissed, Renewed
  <2>5. PassInv(p)' /\ SecondPassInv(p)'
    BY <1>2, <1>4 DEF PassInv, SecondPassInv
  <2> QED
    BY <2>4, <2>5, OnlyOne
<1> QED
  BY <1>7, <1>8

LEMMA LeaveRenews ==
  ASSUME OneProcess, SessionInv, NEW p \in Instance, Abort(p) \/ Restart(p)
  PROVE  RenewalInv'
<1>1. stage'[p] = "out"
  BY TypesTogether DEF SessionInv, Abort, Restart, Leave, SessionTypes
<1>2. PassInv(p)' /\ DeletingInv(p)' /\ SecondPassInv(p)'
  BY <1>1 DEF PassInv, DeletingInv, SecondPassInv
<1> QED
  BY <1>2, OnlyOne

LEMMA InitRenewal == SessionInit => RenewalInv
BY DEF SessionInit, RenewalInv, PassInv, DeletingInv, SecondPassInv

LEMMA NextRenewal ==
  ASSUME OneProcess PROVE SessionInv /\ RenewalInv /\ [SessionNext]_allVars => RenewalInv'
<1> SUFFICES ASSUME SessionInv, RenewalInv, [SessionNext]_allVars PROVE RenewalInv'
  OBVIOUS
<1>1. CASE \/ UNCHANGED allVars
           \/ \E a \in Account : ChangeCode(a) \/ Publish(a)
  <2>1. UNCHANGED <<vars, session, history>>
    BY <1>1 DEF allVars, ChangeCode, Publish
  <2> QED
    BY <2>1 DEF vars, db, caches, control, session, history, RenewalInv, PassInv,
       DeletingInv, SecondPassInv, Unmissed, Renewed, Absent
<1>2. CASE \E p \in Instance, lookups \in Plan, recreate \in BOOLEAN :
             Begin(p, lookups, recreate)
  BY <1>2, BeginRenews
<1>3. ASSUME NEW p \in Instance, Progress(p) \/ Restart(p) PROVE RenewalInv'
  <2>1. CASE \/ LookUp(p) \/ Record(p) \/ EndPass(p) \/ DeleteUsed(p)
             \/ \E lookups \in Plan : DecodeAgain(p, lookups)
    BY <2>1, LookUpRenews, RecordRenews, EndPassRenews, DeleteUsedRenews, DecodeAgainRenews
  <2>2. CASE CreateFromSources(p) \/ Store(p)
    BY <2>2, RepositoryWritesRenew, StoreRenews
  <2>3. CASE RepositoryStep(p)
    BY <2>3, RepositoryWritesRenew, DeletingRenews DEF RepositoryStep
  <2>4. CASE Abort(p) \/ Restart(p)
    BY <2>4, LeaveRenews
  <2> QED
    BY <1>3, <2>1, <2>2, <2>3, <2>4 DEF Progress
<1> QED
  BY <1>1, <1>2, <1>3 DEF SessionNext

\* With one process, whatever a recreating decode's second pass looks up, every
\* account its first pass recorded has been written since the decode began or is
\* not stored any more, although delete_semantics skips an account that the
\* process remembers as absent.  (With a second process it may find what that
\* one has written in between; what the sources answered may be remembered.)
THEOREM RecreatingRewrites == ASSUME OneProcess PROVE SessionSpec => []RecreateRewrites
<1>1. SessionInv /\ RenewalInv => RecreateRewrites
  <2> SUFFICES ASSUME SessionInv, RenewalInv, NEW p \in Instance,
                      stage[p] = "second", PassDone(p), NEW a \in Range(used[p])
               PROVE  \/ a \in rewritten[p]
                      \/ a \notin Range(plan[p]) /\ Absent(addresses[a])
    BY DEF RecreateRewrites
  <2>1. /\ pos[p] > Len(plan[p]) /\ pos[p] \in Nat /\ Len(plan[p]) \in Nat
        /\ DOMAIN plan[p] = 1 .. Len(plan[p])
    BY TypesTogether, PlansAreSequences DEF SessionInv, PassDone
  <2>2. ~busy[p]
    BY <2>1 DEF SessionInv, Paced
  <2>3. /\ \A i \in 1 .. pos[p] - 1 : plan[p][i] = a => a \in rewritten[p]
        /\ Renewed(p, a)
    BY <2>2 DEF RenewalInv, SecondPassInv
  <2>4. a \in Range(plan[p]) => a \in rewritten[p]
    BY <2>1, <2>3 DEF Range
  <2> QED
    BY <2>3, <2>4 DEF Renewed
<1>2. SessionInv /\ IntegrityInv /\ RenewalInv /\ [SessionNext]_allVars => RenewalInv'
  BY NextRenewal
<1> QED
  BY <1>1, <1>2, InitRenewal, SessionInvariant, PTL DEF SessionSpec

-----------------------------------------------------------------------------
(***************************************************************************)
(* One process, no code hash shared: stored semantics are whole, unless a  *)
(* delete was torn.                                                        *)
(***************************************************************************)
NoSharedCode ==
  \A a, b \in Account : a # b => CodeOf[a] \cap CodeOf[b] \subseteq {Zero}

LEMMA OnlyWhole ==
  ASSUME OneProcess, NEW p \in Instance, StoreWhole', CachesWhole(p)', CallWhole(p)'
  PROVE  WholeInv'
BY DEF OneProcess, WholeInv

\* What a cached read of an account answers.
LEMMA WholeRead ==
  ASSUME OneProcess, TypeOK, NEW p \in Instance, pc[p] = "idle", StoreWhole, CachesWhole(p),
         NEW a \in Account, NEW cache \in CachedFind(addressCache[p], a, addresses[a])
  PROVE  /\ cache[a] # Null =>
              /\ cache[a] \in AddressDoc /\ cache[a].contract \in CodeOf[a]
              /\ Whole(cache[a])
         /\ \A b \in Account : cache[b] \notin {Null, Miss} =>
              addresses[b][p] # Null /\ addresses[b][p].contract = cache[b].contract
<1>1. /\ addressCache[p][a] # Miss => cache[a] = addressCache[p][a]
      /\ addressCache[p][a] = Miss /\ cache[a] # Null =>
           \E q \in Instance : addresses[a][q] = cache[a]
      /\ cache[a] # Miss /\ cache \in [Account -> AddressDoc \cup {Null, Miss}]
      /\ \A b \in Account \ {a} : cache[b] \in {addressCache[p][b], Miss}
  BY CachedRead
<1>2. \A b \in Account : addressCache[p][b] \notin {Null, Miss} =>
         addresses[b][p] # Null /\ addresses[b][p].contract = addressCache[p][b].contract
  BY DEF CachesWhole
<1>3. cache[a] # Null => addresses[a][p] # Null /\ addresses[a][p].contract = cache[a].contract
  <2>1. CASE addressCache[p][a] # Miss
    BY <1>1, <1>2, <2>1
  <2>2. CASE addressCache[p][a] = Miss
    BY <1>1, <2>2 DEF OneProcess
  <2> QED
    BY <2>1, <2>2
<1>4. \A b \in Account : cache[b] \notin {Null, Miss} =>
         addresses[b][p] # Null /\ addresses[b][p].contract = cache[b].contract
  BY <1>1, <1>2, <1>3
<1>5. cache[a] # Null => cache[a] \in AddressDoc
  BY <1>1
<1> QED
  BY <1>3, <1>4, <1>5 DEF StoreWhole, Whole

LEMMA LookUpWhole ==
  ASSUME OneProcess, TypeOK, NEW p \in Instance, NEW a \in Account, Get(p, a),
         StoreWhole, CachesWhole(p), CallWhole(p)
  PROVE  WholeInv'
<1>1. PICK cache \in CachedFind(addressCache[p], a, addresses[a]) :
        /\ addressCache' = [addressCache EXCEPT ![p] = cache]
        /\ \/ cache[a] = Null /\ Continue(p, "create", a, Null)
           \/ cache[a] # Null /\ cache[a].contract # Zero /\ Continue(p, "contract", a, cache[a])
           \/ cache[a] # Null /\ cache[a].contract = Zero /\ NamedEOA(p, a, cache[a])
  BY DEF Get
<1>2. /\ pc[p] = "idle" /\ addresses' = addresses /\ contracts' = contracts
      /\ contractCache' = contractCache
  BY DEF Get, db
<1>3. /\ cache[a] # Null =>
           /\ cache[a] \in AddressDoc /\ cache[a].contract \in CodeOf[a]
           /\ Whole(cache[a])
      /\ \A b \in Account : cache[b] \notin {Null, Miss} =>
           addresses[b][p] # Null /\ addresses[b][p].contract = cache[b].contract
  BY <1>2, WholeRead
<1>4. addressCache'[p] = cache
  BY <1>1 DEF TypeOK
<1>5. StoreWhole'
  BY <1>2 DEF StoreWhole, Whole, Absent
<1>6. CachesWhole(p)'
  BY <1>2, <1>3, <1>4 DEF CachesWhole
<1>7. CallWhole(p)'
  <2>1. CASE UNCHANGED control /\ cache[a] # Null
    BY <1>2, <1>4, <2>1 DEF control, CallWhole
  <2>2. CASE Continue(p, "create", a, Null) /\ cache[a] = Null
    <3>1. pc'[p] = "create" /\ subject'[p] = a /\ desc'[p] = Null
      BY <2>2 DEF Continue, Goto, TypeOK
    <3> QED
      BY <1>4, <2>2, <3>1 DEF CallWhole
  <2>3. CASE Continue(p, "contract", a, cache[a]) /\ cache[a] # Null /\ cache[a].contract # Zero
    <3>1. pc'[p] = "contract" /\ subject'[p] = a /\ desc'[p] = cache[a]
      BY <2>3 DEF Continue, Goto, TypeOK
    <3>2. ~Absent(contracts'[cache[a].contract])
      BY <1>2, <1>3, <2>3 DEF Whole, Absent
    <3> QED
      BY <1>3, <2>3, <3>1, <3>2 DEF CallWhole
  <2>4. CASE Continue(p, "ens", a, cache[a]) /\ cache[a] # Null
    <3>1. pc'[p] = "ens" /\ subject'[p] = a /\ desc'[p] = cache[a]
      BY <2>4 DEF Continue, Goto, TypeOK
    <3> QED
      BY <1>3, <1>4, <2>4, <3>1 DEF CallWhole
  <2> QED
    BY <1>1, <2>1, <2>2, <2>3, <2>4 DEF NamedEOA
<1> QED
  BY <1>5, <1>6, <1>7, OnlyWhole

LEMMA DeleteWhole ==
  ASSUME OneProcess, TypeOK, NEW p \in Instance, NEW a \in Account, Delete(p, a),
         StoreWhole, CachesWhole(p), CallWhole(p)
  PROVE  WholeInv'
<1>1. PICK cache \in CachedFind(addressCache[p], a, addresses[a]) :
        /\ addressCache' = [addressCache EXCEPT ![p] = cache]
        /\ IF cache[a] = Null
           THEN UNCHANGED control
           ELSE Continue(p, "delAddress", a, cache[a])
  BY DEF Delete
<1>2. /\ pc[p] = "idle" /\ addresses' = addresses /\ contracts' = contracts
      /\ contractCache' = contractCache
  BY DEF Delete, db
<1>3. /\ cache[a] # Null =>
           /\ cache[a] \in AddressDoc /\ cache[a].contract \in CodeOf[a]
           /\ Whole(cache[a])
      /\ \A b \in Account : cache[b] \notin {Null, Miss} =>
           addresses[b][p] # Null /\ addresses[b][p].contract = cache[b].contract
  BY <1>2, WholeRead
<1>4. addressCache'[p] = cache
  BY <1>1 DEF TypeOK
<1>5. StoreWhole'
  BY <1>2 DEF StoreWhole, Whole, Absent
<1>6. CachesWhole(p)'
  BY <1>2, <1>3, <1>4 DEF CachesWhole
<1>7. CallWhole(p)'
  <2>1. CASE cache[a] = Null
    BY <1>1, <1>2, <2>1 DEF control, CallWhole
  <2>2. CASE cache[a] # Null
    <3>1. pc'[p] = "delAddress" /\ subject'[p] = a /\ desc'[p] = cache[a]
      BY <1>1, <2>2 DEF Continue, Goto, TypeOK
    <3> QED
      BY <1>3, <2>2, <3>1 DEF CallWhole
  <2> QED
    BY <2>1, <2>2
<1> QED
  BY <1>5, <1>6, <1>7, OnlyWhole

\* A call that returns takes nothing with it.
LEMMA ReturnWhole ==
  ASSUME TypeOK, NEW p \in Instance, Return(p) PROVE CallWhole(p)'
<1>1. pc'[p] = "idle" /\ desc'[p] = Null
  BY DEF Return, Goto, TypeOK
<1> QED
  BY <1>1 DEF CallWhole

LEMMA ReadContractWhole ==
  ASSUME OneProcess, TypeOK, NEW p \in Instance, ReadContract(p),
         StoreWhole, CachesWhole(p), CallWhole(p)
  PROVE  WholeInv'
<1> DEFINE h == desc[p].contract
<1>1. PICK cache \in Lookup(contractCache[p], h, Remembered(contracts[h])) :
        /\ contractCache' = [contractCache EXCEPT ![p] = cache]
        /\ IF cache[h] = Null
           THEN Continue(p, "error", subject[p], desc[p])
           ELSE Return(p)
  BY DEF ReadContract
<1>2. /\ pc[p] = "contract" /\ addresses' = addresses /\ contracts' = contracts
      /\ addressCache' = addressCache
  BY DEF ReadContract, db
<1>3. h \in Hash
  BY <1>2 DEF TypeOK, AddressDoc
<1> DEFINE Value == RememberedContract \cup {Null, Miss}
<1>4. /\ contractCache[p] \in [Hash -> Value] /\ Remembered(contracts[h]) \in Value
      /\ Miss \in Value
  BY DEF TypeOK, Remembered, RememberedContract
<1>5. Remembered(contracts[h]) # Null
  BY <1>2, Sentinels DEF CallWhole, Remembered, RememberedContract
<1> HIDE DEF Value, h
<1>6. /\ cache[h] = IF contractCache[p][h] # Miss THEN contractCache[p][h]
                    ELSE Remembered(contracts[h])
      /\ \A k \in Hash \ {h} : cache[k] \in {contractCache[p][k], Miss}
  BY <1>3, <1>4, LookupLemma
<1>7. \A k \in Hash : cache[k] # Null
  BY <1>5, <1>6, Sentinels DEF CachesWhole
<1>8. CallWhole(p)' /\ pc'[p] = "idle"
  BY <1>1, <1>3, <1>7, ReturnWhole DEF Return, Goto, TypeOK
<1>9. contractCache'[p] = cache
  BY <1>1 DEF TypeOK
<1>10. CachesWhole(p)'
  BY <1>2, <1>7, <1>9 DEF CachesWhole
<1>11. StoreWhole'
  BY <1>2 DEF StoreWhole, Whole, Absent
<1> QED
  BY <1>8, <1>10, <1>11, OnlyWhole

\* The steps after which the store and the caches are the same.
LEMMA QuietWhole ==
  ASSUME OneProcess, NEW p \in Instance, pc[p] \notin {"delContract", "clear"},
         UNCHANGED <<addresses, contracts, addressCache, contractCache>>,
         StoreWhole, CachesWhole(p), CallWhole(p)'
  PROVE  WholeInv'
<1>1. StoreWhole' /\ CachesWhole(p)'
  BY DEF StoreWhole, CachesWhole, Whole, Absent
<1> QED
  BY <1>1, OnlyWhole

LEMMA RefreshNameWhole ==
  ASSUME OneProcess, TypeOK, NEW p \in Instance, RefreshName(p),
         StoreWhole, CachesWhole(p), CallWhole(p)
  PROVE  WholeInv'
<1>1. pc[p] = "ens" /\ UNCHANGED <<addresses, contracts, addressCache, contractCache>>
  BY DEF RefreshName, db, caches
<1>2. CallWhole(p)'
  <2>1. CASE Continue(p, "putContract", subject[p], [desc[p] EXCEPT !.known = TRUE])
    <3>1. desc[p] \in AddressDoc
      BY <1>1 DEF TypeOK
    <3>2. /\ pc'[p] = "putContract" /\ subject'[p] = subject[p]
          /\ desc'[p].contract = desc[p].contract
      BY <2>1, <3>1 DEF Continue, Goto, TypeOK, AddressDoc
    <3> QED
      BY <1>1, <3>1, <3>2, Sentinels DEF CallWhole
  <2> QED
    BY <2>1, ReturnWhole DEF RefreshName
<1> QED
  BY <1>1, <1>2, QuietWhole

LEMMA CreateWhole ==
  ASSUME OneProcess, TypeOK, NEW p \in Instance, Create(p),
         StoreWhole, CachesWhole(p), CallWhole(p)
  PROVE  WholeInv'
<1>1. pc[p] = "create" /\ UNCHANGED <<addresses, contracts, addressCache, contractCache>>
  BY DEF Create, CreateAs, db, caches
<1>2. PICK d \in Descriptions(subject[p]) : CreateAs(p, d)
  BY DEF Create
<1>3. pc'[p] = "putContract" /\ subject'[p] = subject[p] /\ desc'[p] = d
  BY <1>2 DEF CreateAs, Continue, Goto, TypeOK
<1>4. CallWhole(p)'
  BY <1>1, <1>3 DEF CallWhole, Descriptions
<1> QED
  BY <1>1, <1>4, QuietWhole

LEMMA WriteContractWhole ==
  ASSUME OneProcess, TypeOK, NEW p \in Instance, ReplaceContract(p) \/ InsertContract(p),
         StoreWhole, CachesWhole(p), CallWhole(p)
  PROVE  WholeInv'
<1> DEFINE h == desc[p].contract
<1>1. /\ pc[p] \in {"putContract", "insertContract"} /\ pc'[p] = "putAddress"
      /\ \E q \in Instance : contracts' = [contracts EXCEPT ![h][q] = AbiOf(desc[p])]
      /\ UNCHANGED <<addresses, addressCache, contractCache, subject, desc>>
  BY DEF ReplaceContract, InsertContract, WriteContract, caches, Goto, TypeOK
<1>2. PICK q \in Instance : contracts' = [contracts EXCEPT ![h][q] = AbiOf(desc[p])]
  BY <1>1
<1>3. h \in Hash
  BY <1>1 DEF TypeOK, AddressDoc
<1> HIDE DEF h
<1>4. /\ contracts'[h][q] # Null
      /\ \A k \in Hash, i \in Instance : k # h \/ i # q => contracts'[k][i] = contracts[k][i]
  BY <1>2, <1>3, AbiOfType, Sentinels DEF TypeOK
<1>5. ~Absent(contracts'[h]) /\ \A k \in Hash : ~Absent(contracts[k]) => ~Absent(contracts'[k])
  BY <1>4 DEF Absent
<1>6. StoreWhole'
  <2>1. \A a \in Account : \A i \in Instance :
           addresses[a][i] # Null => addresses[a][i].contract \in Hash
    BY DEF TypeOK, AddressDoc
  <2> QED
    BY <1>1, <1>5, <2>1 DEF StoreWhole, Whole
<1>7. CachesWhole(p)'
  BY <1>1 DEF CachesWhole
<1>8. CallWhole(p)'
  BY <1>1, <1>5 DEF CallWhole, Whole, h
<1> QED
  BY <1>6, <1>7, <1>8, OnlyWhole

LEMMA MissWhole ==
  ASSUME OneProcess, TypeOK, NEW p \in Instance, MissContract(p) \/ MissAddress(p),
         StoreWhole, CachesWhole(p), CallWhole(p)
  PROVE  WholeInv'
<1>1. /\ \/ pc[p] = "putContract" /\ pc'[p] = "insertContract"
         \/ pc[p] = "putAddress" /\ pc'[p] = "insertAddress"
      /\ UNCHANGED <<addresses, contracts, addressCache, contractCache, subject, desc>>
  BY DEF MissContract, MissAddress, Goto, db, caches, TypeOK
<1>2. CallWhole(p)'
  BY <1>1 DEF CallWhole, Whole
<1> QED
  BY <1>1, <1>2, QuietWhole

LEMMA WriteAddressWhole ==
  ASSUME OneProcess, TypeOK, NEW p \in Instance, ReplaceAddress(p) \/ InsertAddress(p),
         StoreWhole, CachesWhole(p), CallWhole(p)
  PROVE  WholeInv'
<1>1. PICK q \in Instance : WriteAddress(p, q) /\ pc[p] \in {"putAddress", "insertAddress"}
  BY DEF ReplaceAddress, InsertAddress
<1>2. /\ pc[p] \in {"putAddress", "insertAddress"} /\ desc[p] \in AddressDoc
      /\ subject[p] \in Account /\ q = p
  BY <1>1 DEF TypeOK, OneProcess
<1>3. /\ addresses'[subject[p]][p] = desc[p] /\ desc[p] # Null
      /\ \A a \in Account \ {subject[p]} : addresses'[a] = addresses[a]
      /\ contracts' = contracts /\ addressCache' = addressCache
      /\ contractCache' = contractCache
  BY <1>1, <1>2, Sentinels DEF WriteAddress, caches, TypeOK
<1>4. StoreWhole'
  <2>1. \A i \in Instance : i = p
    BY DEF OneProcess
  <2> QED
    BY <1>2, <1>3, <2>1 DEF StoreWhole, CallWhole, Whole
<1>5. CachesWhole(p)'
  BY <1>2, <1>3 DEF CachesWhole, CallWhole
<1>6. CallWhole(p)'
  <2>1. CASE Goto(p, "putSignatures") /\ UNCHANGED <<subject, desc, todo>>
    <3>1. pc'[p] = "putSignatures" /\ subject' = subject /\ desc' = desc
      BY <2>1 DEF Goto, TypeOK
    <3> QED
      BY <3>1 DEF CallWhole
  <2> QED
    BY <1>1, <2>1, ReturnWhole DEF WriteAddress
<1> QED
  BY <1>4, <1>5, <1>6, OnlyWhole

LEMMA PutSignatureWhole ==
  ASSUME OneProcess, TypeOK, NEW p \in Instance, NEW f \in Function, PutSignature(p, f),
         StoreWhole, CachesWhole(p), CallWhole(p)
  PROVE  WholeInv'
<1>1. pc[p] = "putSignatures" /\ UNCHANGED <<addresses, contracts, addressCache, contractCache>>
  BY DEF PutSignature, caches
<1>2. CallWhole(p)'
  <2>1. CASE UNCHANGED <<pc, subject, desc>>
    BY <1>1, <2>1 DEF CallWhole
  <2> QED
    BY <2>1, ReturnWhole DEF PutSignature
<1> QED
  BY <1>1, <1>2, QuietWhole

LEMMA DeleteAddressWhole ==
  ASSUME OneProcess, TypeOK, NEW p \in Instance, DeleteAddress(p),
         StoreWhole, CachesWhole(p), CallWhole(p)
  PROVE  WholeInv'
<1>1. pc[p] = "delAddress" /\ subject[p] \in Account
  BY DEF DeleteAddress, TypeOK
<1>2. PICK q \in Instance : addresses' = [addresses EXCEPT ![subject[p]][q] = Null]
  BY DEF DeleteAddress, DeleteOne
<1>3. /\ addresses'[subject[p]][q] = Null /\ pc'[p] = "delContract"
      /\ \A a \in Account \ {subject[p]} : addresses'[a] = addresses[a]
      /\ UNCHANGED <<contracts, addressCache, contractCache, subject, desc>>
  BY <1>2, <1>1 DEF DeleteAddress, Goto, caches, TypeOK
<1>4. Absent(addresses'[subject[p]])
  BY <1>3 DEF OneProcess, Absent
<1>5. StoreWhole'
  BY <1>3, <1>4 DEF StoreWhole, Whole, Absent
<1>6. CachesWhole(p)'
  BY <1>1, <1>3 DEF CachesWhole
<1>7. CallWhole(p)'
  BY <1>3, <1>4 DEF CallWhole
<1> QED
  BY <1>5, <1>6, <1>7, OnlyWhole

LEMMA DeleteContractWhole ==
  ASSUME OneProcess, NoSharedCode, TypeOK, NEW p \in Instance, DeleteContract(p),
         StoreWhole, CachesWhole(p), CallWhole(p)
  PROVE  WholeInv'
<1>1. /\ pc[p] = "delContract" /\ subject[p] \in Account /\ desc[p] # Null
      /\ desc[p].contract \in CodeOf[subject[p]]
  BY DEF DeleteContract, TypeOK, CallWhole
<1>2. /\ \E q \in Instance : contracts' = [contracts EXCEPT ![desc[p].contract][q] = Null]
      /\ pc'[p] = "clear"
      /\ UNCHANGED <<addresses, addressCache, contractCache, subject, desc>>
  BY DEF DeleteContract, DeleteOne, Goto, caches, TypeOK
<1>3. \A h \in Hash : h # desc[p].contract => contracts'[h] = contracts[h]
  BY <1>2 DEF TypeOK
<1>4. ASSUME NEW a \in Account, NEW i \in Instance, addresses[a][i] # Null
      PROVE  /\ addresses[a][i].contract \in CodeOf[a]
             /\ addresses[a][i].contract # Zero => ~Absent(contracts'[addresses[a][i].contract])
  <2> DEFINE k == addresses[a][i].contract
  <2>1. a # subject[p]
    BY <1>1, <1>4 DEF CallWhole, Absent
  <2>2. k \in Hash /\ k \in CodeOf[a]
    BY <1>4 DEF TypeOK, AddressDoc, StoreWhole
  <2>3. k # Zero => k # desc[p].contract
    BY <1>1, <2>1, <2>2 DEF NoSharedCode
  <2>4. k # Zero => ~Absent(contracts[k])
    BY <1>4 DEF StoreWhole, Whole
  <2> QED
    BY <1>3, <2>2, <2>3, <2>4
<1>5. StoreWhole'
  BY <1>2, <1>4 DEF StoreWhole, Whole
<1>6. CachesWhole(p)'
  BY <1>1, <1>2 DEF CachesWhole
<1>7. CallWhole(p)'
  BY <1>1, <1>2 DEF CallWhole
<1> QED
  BY <1>5, <1>6, <1>7, OnlyWhole

\* With caches that remember nothing.
LEMMA EmptiedWhole ==
  ASSUME OneProcess, TypeOK, NEW p \in Instance, UNCHANGED <<addresses, contracts>>,
         addressCache' = [addressCache EXCEPT ![p] = Empty(Account)],
         contractCache' = [contractCache EXCEPT ![p] = Empty(Hash)],
         Return(p), StoreWhole
  PROVE  WholeInv'
<1>1. /\ \A a \in Account : addressCache'[p][a] = Miss
      /\ \A h \in Hash : contractCache'[p][h] = Miss
  BY DEF TypeOK, Empty
<1>2. CachesWhole(p)'
  BY <1>1, Sentinels DEF CachesWhole
<1>3. StoreWhole'
  BY DEF StoreWhole, Whole, Absent
<1> QED
  BY <1>2, <1>3, ReturnWhole, OnlyWhole

LEMMA InitWhole == SessionInit => WholeInv
<1> SUFFICES ASSUME SessionInit
             PROVE  StoreWhole /\ \A p \in Instance : CachesWhole(p) /\ CallWhole(p)
  BY DEF WholeInv
<1>1. StoreWhole
  BY DEF SessionInit, Init, StoreWhole
<1>2. ASSUME NEW p \in Instance PROVE CachesWhole(p) /\ CallWhole(p)
  BY Sentinels DEF SessionInit, Init, Empty, CachesWhole, CallWhole
<1> QED
  BY <1>1, <1>2

LEMMA NextWhole ==
  ASSUME OneProcess, NoSharedCode
  PROVE  SessionInv /\ WholeInv /\ [SessionNext]_allVars => WholeInv'
<1> SUFFICES ASSUME SessionInv, WholeInv, [SessionNext]_allVars, ~torn' PROVE WholeInv'
  BY DEF WholeInv
<1>1. TypeOK /\ HistoryTypes
  BY TypesTogether DEF SessionInv
<1>2. CASE UNCHANGED <<vars, torn>>
  BY <1>2 DEF vars, db, caches, control, WholeInv, StoreWhole, CachesWhole, CallWhole, Whole, Absent
<1>3. CASE \/ UNCHANGED allVars
           \/ \E a \in Account : ChangeCode(a) \/ Publish(a)
           \/ \E p \in Instance, lookups \in Plan, recreate \in BOOLEAN :
                Begin(p, lookups, recreate)
  BY <1>2, <1>3 DEF allVars, history, ChangeCode, Publish, Begin
<1>4. ASSUME NEW p \in Instance, Progress(p) \/ Restart(p) PROVE WholeInv'
  <2>1. CASE Record(p) \/ EndPass(p) \/ \E lookups \in Plan : DecodeAgain(p, lookups)
    BY <1>2, <2>1 DEF Record, EndPass, DecodeAgain, history
  <2>2. CASE /\ ~(Record(p) \/ EndPass(p) \/ \E lookups \in Plan : DecodeAgain(p, lookups))
             /\ Progress(p) /\ ~Abort(p)
    <3>1. torn' = torn
      BY <2>2 DEF Progress, LookUp, DeleteUsed, CreateFromSources, Store, RepositoryStep, history
    <3>2. StoreWhole /\ CachesWhole(p) /\ CallWhole(p)
      BY <3>1 DEF WholeInv
    <3>3. CASE LookUp(p)
      <4>1. plan[p][pos[p]] \in Account /\ Get(p, plan[p][pos[p]])
        BY <3>3, TypesTogether, PlansAreSequences DEF SessionInv, LookUp
      <4> QED
        BY <1>1, <3>2, <4>1, LookUpWhole
    <3>4. CASE DeleteUsed(p)
      <4>1. used[p][pos[p]] \in Account /\ Delete(p, used[p][pos[p]])
        <5>1. used[p] = plan[p]
          BY <3>4 DEF SessionInv, Recorded, DeleteUsed
        <5> QED
          BY <3>4, <5>1, TypesTogether, PlansAreSequences DEF SessionInv, DeleteUsed
      <4> QED
        BY <1>1, <3>2, <4>1, DeleteWhole
    <3>5. CASE CreateFromSources(p)
      <4>1. Create(p)
        BY <3>5, HonestSources DEF SessionInv
      <4> QED
        BY <1>1, <3>2, <4>1, CreateWhole
    <3>6. CASE Store(p)
      BY <1>1, <3>2, <3>6, WriteAddressWhole DEF Store
    <3>7. CASE RepositoryStep(p)
      <4>1. CASE ClearCaches(p)
        BY <1>1, <3>2, <4>1, EmptiedWhole DEF ClearCaches, db
      <4> QED
        BY <1>1, <3>2, <3>7, <4>1, ReadContractWhole, RefreshNameWhole, WriteContractWhole,
           MissWhole, PutSignatureWhole, DeleteAddressWhole, DeleteContractWhole DEF RepositoryStep
    <3> QED
      BY <2>2, <3>3, <3>4, <3>5, <3>6, <3>7 DEF Progress
  <2>3. CASE Abort(p)
    <3>1. ~torn /\ pc[p] \notin {"delContract", "clear"}
      BY <1>1, <2>3 DEF Abort, HistoryTypes
    <3>2. StoreWhole /\ CachesWhole(p)
      BY <3>1 DEF WholeInv
    <3>3. Return(p) /\ UNCHANGED <<addresses, contracts, addressCache, contractCache>>
      BY <2>3 DEF Abort, Fail, RaiseTypeError, db, caches
    <3> QED
      BY <1>1, <3>1, <3>2, <3>3, ReturnWhole, QuietWhole
  <2>4. CASE Restart(p)
    <3>1. ~torn
      BY <1>1, <2>4 DEF Restart, HistoryTypes
    <3>2. StoreWhole
      BY <3>1 DEF WholeInv
    <3> QED
      BY <1>1, <2>4, <3>2, EmptiedWhole DEF Restart, Crash, db
  <2> QED
    BY <1>4, <2>1, <2>2, <2>3, <2>4
<1> QED
  BY <1>3, <1>4 DEF SessionNext

\* One process whose accounts share no code hash meets the TypeError of
\* from_mongo_record only after an exception or a crash has cut a delete short:
\* otherwise every address document it reads, in the store or in its cache,
\* has its contract document.
THEOREM OnlyTornDeletesBreakReads ==
  ASSUME OneProcess, NoSharedCode PROVE SessionSpec => []TypeErrorNeedsTornDelete
<1>1. WholeInv => TypeErrorNeedsTornDelete
  BY DEF WholeInv, CallWhole, TypeErrorNeedsTornDelete
<1>2. SessionInv /\ IntegrityInv /\ WholeInv /\ [SessionNext]_allVars => WholeInv'
  BY NextWhole
<1> QED
  BY <1>1, <1>2, InitWhole, SessionInvariant, PTL DEF SessionSpec
=============================================================================
