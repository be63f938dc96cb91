---------------------------- MODULE CallTree_proofs ----------------------------
(***************************************************************************)
(* Proofs about the passes over the tree of calls, for transactions with   *)
(* any number of calls.                                                    *)
(***************************************************************************)
EXTENDS CallTree, TLAPS, SequenceTheorems, FiniteSetTheorems, WellFoundedInduction

-----------------------------------------------------------------------------
(***************************************************************************)
(* The calls of a set in the order they were made.                         *)
(***************************************************************************)
LEMMA LeastNumber ==
  ASSUME NEW T, T \subseteq Nat, T # {}
  PROVE  \E x \in T : \A y \in T : x <= y
<1> DEFINE R == {ss \in Nat \X Nat : ss[1] < ss[2]}
<1>1. R = OpToRel(<, Nat)
  BY Zenon DEF OpToRel
<1>2. IsWellFoundedOn(R, Nat)
  BY <1>1, NatLessThanWellFounded, Zenon
<1>3. \A x, y \in Nat : y < x => <<y, x>> \in R
  OBVIOUS
<1> HIDE DEF R
<1>4. PICK x \in T : \A y \in T : ~(<<y, x>> \in R)
  BY <1>2, WFMin
<1>5. \A y \in T : x <= y
  <2> SUFFICES ASSUME NEW y \in T PROVE x <= y
    OBVIOUS
  <2>1. x \in Nat /\ y \in Nat /\ ~ (y < x)
    BY <1>3, <1>4
  <2> QED
    BY <2>1
<1> QED
  BY <1>5, Zenon

\* Every set of numbers up to n has its elements in some ascending list.
Sortable(n) ==
  \A S \in SUBSET (1 .. n) : \E m \in 0 .. n : \E s \in [1 .. m -> 1 .. n] :
    (\A i, j \in 1 .. m : i < j => s[i] < s[j]) /\ {s[i] : i \in 1 .. m} = S

LEMMA OneMore ==
  ASSUME NEW n \in Nat, Sortable(n)
  PROVE  Sortable(n + 1)
<1> SUFFICES ASSUME NEW S \in SUBSET (1 .. n + 1)
             PROVE  \E m \in 0 .. n + 1 : \E s \in [1 .. m -> 1 .. n + 1] :
                      (\A i, j \in 1 .. m : i < j => s[i] < s[j]) /\ {s[i] : i \in 1 .. m} = S
  BY DEF Sortable
<1>1. S \ {n + 1} \in SUBSET (1 .. n)
  OBVIOUS
<1>p. PICK m \in 0 .. n : \E s \in [1 .. m -> 1 .. n] :
        (\A i, j \in 1 .. m : i < j => s[i] < s[j]) /\ {s[i] : i \in 1 .. m} = S \ {n + 1}
  BY <1>1 DEF Sortable
<1>2. PICK s \in [1 .. m -> 1 .. n] :
        (\A i, j \in 1 .. m : i < j => s[i] < s[j]) /\ {s[i] : i \in 1 .. m} = S \ {n + 1}
  BY <1>p
<1>3. CASE n + 1 \notin S
  <2>1. m \in 0 .. n + 1 /\ s \in [1 .. m -> 1 .. n + 1] /\ S \ {n + 1} = S
    BY <1>3
  <2> QED
    BY <1>2, <2>1
<1>4. CASE n + 1 \in S
  <2> DEFINE t == [i \in 1 .. m + 1 |-> IF i = m + 1 THEN n + 1 ELSE s[i]]
  <2>1. m + 1 \in 0 .. n + 1 /\ t \in [1 .. m + 1 -> 1 .. n + 1]
    OBVIOUS
  <2>2. \A i, j \in 1 .. m + 1 : i < j => t[i] < t[j]
    <3> SUFFICES ASSUME NEW i \in 1 .. m + 1, NEW j \in 1 .. m + 1, i < j PROVE t[i] < t[j]
      OBVIOUS
    <3>1. i \in 1 .. m /\ t[i] = s[i] /\ s[i] \in 1 .. n
      OBVIOUS
    <3>2. CASE j = m + 1
      BY <3>1, <3>2
    <3>3. CASE j # m + 1
      BY <1>2, <3>1, <3>3
    <3> QED
      BY <3>2, <3>3
  <2>3. {t[i] : i \in 1 .. m + 1} = S
    <3>1. m + 1 \in 1 .. m + 1 /\ t[m + 1] = n + 1
      OBVIOUS
    <3>2. \A i \in 1 .. m : i \in 1 .. m + 1 /\ t[i] = s[i] /\ s[i] \in S
      BY <1>2
    <3>3. \A i \in 1 .. m + 1 : i = m + 1 \/ i \in 1 .. m
      OBVIOUS
    <3>4. \A x \in S : x = n + 1 \/ \E i \in 1 .. m : x = s[i]
      BY <1>2
    <3> HIDE DEF t
    <3>5. \A i \in 1 .. m + 1 : t[i] \in S
      BY <1>4, <3>1, <3>2, <3>3
    <3>6. \A x \in S : \E i \in 1 .. m + 1 : x = t[i]
      BY <3>1, <3>2, <3>4
    <3> QED
      BY ONLY <3>5, <3>6
  <2> QED
    BY <2>1, <2>2, <2>3
<1> QED
  BY <1>3, <1>4

LEMMA AllSortable ==
  ASSUME NEW n \in Nat
  PROVE  Sortable(n)
<1> DEFINE T == {k \in Nat : ~Sortable(k)}
<1> SUFFICES ASSUME T # {} PROVE FALSE
  OBVIOUS
<1>1. PICK k \in T : \A j \in T : k <= j
  BY LeastNumber
<1>2. k # 0
  <2> SUFFICES Sortable(0)
    BY <1>1
  <2>1. \A S \in SUBSET (1 .. 0) : S = {}
    OBVIOUS
  <2> DEFINE s == [i \in 1 .. 0 |-> i]
  <2>2. s \in [1 .. 0 -> 1 .. 0] /\ {s[i] : i \in 1 .. 0} = {} /\ \A i \in 1 .. 0 : FALSE
    OBVIOUS
  <2>3. 0 \in 0 .. 0
    OBVIOUS
  <2> HIDE DEF s
  <2> QED
    BY <2>1, <2>2, <2>3 DEF Sortable
<1>3. k - 1 \in Nat /\ k - 1 \notin T /\ (k - 1) + 1 = k
  BY <1>1, <1>2
<1>4. Sortable(k - 1)
  BY <1>3
<1> QED
  BY <1>1, <1>3, <1>4, OneMore

LEMMA OrderedIs ==
  ASSUME NEW S \in SUBSET (1 .. MaxCalls)
  PROVE  /\ Ordered[S] \in Seq(S) /\ ToSet(Ordered[S]) = S
         /\ IsInjective(Ordered[S]) /\ \A i \in DOMAIN Ordered[S] : Ordered[S][i] \in S
<1>1. MaxCalls \in Nat
  BY TreeAssumption
<1>p. PICK m \in 0 .. MaxCalls : \E s \in [1 .. m -> 1 .. MaxCalls] :
        (\A i, j \in 1 .. m : i < j => s[i] < s[j]) /\ {s[i] : i \in 1 .. m} = S
  BY <1>1, AllSortable DEF Sortable
<1>2. PICK s \in [1 .. m -> 1 .. MaxCalls] :
        (\A i, j \in 1 .. m : i < j => s[i] < s[j]) /\ {s[i] : i \in 1 .. m} = S
  BY <1>p
<1>3. s \in Ascending /\ ToSet(s) = S
  BY <1>2 DEF Ascending, ToSet
<1>4. Ordered[S] \in Ascending /\ ToSet(Ordered[S]) = S
  BY <1>3 DEF Ordered
<1>5. PICK n \in 0 .. MaxCalls : Ordered[S] \in [1 .. n -> 1 .. MaxCalls]
  BY <1>4 DEF Ascending
<1>6. PICK o \in [1 .. n -> 1 .. MaxCalls] : o = Ordered[S]
  BY <1>5
<1>7. DOMAIN o = 1 .. n /\ \A i, j \in 1 .. n : i < j => o[i] < o[j]
  BY <1>4, <1>6 DEF Ascending
<1>8. \A i \in 1 .. n : o[i] \in S
  BY <1>4, <1>6, <1>7 DEF ToSet
<1>9. o \in Seq(S)
  BY <1>1, <1>6, <1>7, <1>8, IsASeq
<1>10. IsInjective(o)
  <2> SUFFICES ASSUME NEW i \in 1 .. n, NEW j \in 1 .. n, o[i] = o[j] PROVE i = j
    BY <1>7 DEF IsInjective
  <2>1. o[i] \in Int /\ o[j] \in Int /\ ~ (i < j) /\ ~ (j < i)
    BY <1>6, <1>7
  <2> QED
    BY <2>1
<1> QED
  BY <1>4, <1>6, <1>7, <1>8, <1>9, <1>10

-----------------------------------------------------------------------------
(***************************************************************************)
(* The elements of worklists.                                              *)
(***************************************************************************)
LEMMA JoinedLists ==
  ASSUME NEW S, NEW s \in Seq(S), NEW t \in Seq(S)
  PROVE  /\ s \o t \in Seq(S) /\ ToSet(s \o t) = ToSet(s) \cup ToSet(t)
         /\ IsInjective(s) /\ IsInjective(t) /\ ToSet(s) \cap ToSet(t) = {} => IsInjective(s \o t)
<1> DEFINE u == s \o t
<1>1. /\ u \in Seq(S) /\ Len(u) = Len(s) + Len(t) /\ Len(s) \in Nat /\ Len(t) \in Nat
      /\ DOMAIN s = 1 .. Len(s) /\ DOMAIN t = 1 .. Len(t) /\ DOMAIN u = 1 .. Len(u)
      /\ \A i \in 1 .. Len(s) + Len(t) : u[i] = IF i <= Len(s) THEN s[i] ELSE t[i - Len(s)]
  BY ConcatProperties, LenProperties
<1> HIDE DEF u
<1>2. \A i \in DOMAIN s : i \in DOMAIN u /\ u[i] = s[i]
  BY <1>1
<1>3. \A i \in DOMAIN t : i + Len(s) \in DOMAIN u /\ u[i + Len(s)] = t[i]
  BY <1>1
<1>4. \A i \in DOMAIN u : \/ i \in DOMAIN s /\ u[i] = s[i]
                          \/ i > Len(s) /\ i - Len(s) \in DOMAIN t /\ u[i] = t[i - Len(s)]
  BY <1>1
<1>5. ToSet(u) = ToSet(s) \cup ToSet(t)
  <2>1. ToSet(u) \subseteq ToSet(s) \cup ToSet(t)
    BY <1>4 DEF ToSet
  <2>2. ToSet(s) \subseteq ToSet(u) /\ ToSet(t) \subseteq ToSet(u)
    BY <1>2, <1>3 DEF ToSet
  <2> QED
    BY <2>1, <2>2
<1>6. ASSUME IsInjective(s), IsInjective(t), ToSet(s) \cap ToSet(t) = {} PROVE IsInjective(u)
  <2> SUFFICES ASSUME NEW i \in DOMAIN u, NEW j \in DOMAIN u, u[i] = u[j] PROVE i = j
    BY DEF IsInjective
  <2>1. CASE i \in DOMAIN s /\ j \in DOMAIN s /\ u[i] = s[i] /\ u[j] = s[j]
    BY <1>6, <2>1 DEF IsInjective
  <2>2. CASE i - Len(s) \in DOMAIN t /\ j - Len(s) \in DOMAIN t /\ u[i] = t[i - Len(s)] /\ u[j] = t[j - Len(s)]
    <3>1. i - Len(s) = j - Len(s)
      BY <1>6, <2>2 DEF IsInjective
    <3> QED
      BY <1>1, <3>1
  <2>3. \A k \in DOMAIN s, l \in DOMAIN t : s[k] # t[l]
    BY <1>6 DEF ToSet
  <2> QED
    BY <1>4, <2>1, <2>2, <2>3
<1> QED
  BY <1>1, <1>5, <1>6 DEF u

LEMMA HeadGone ==
  ASSUME NEW S, NEW s \in Seq(S), s # <<>>
  PROVE  /\ Head(s) \in S /\ Head(s) \in ToSet(s) /\ Tail(s) \in Seq(S)
         /\ IsInjective(s) => IsInjective(Tail(s)) /\ ToSet(Tail(s)) = ToSet(s) \ {Head(s)}
<1> DEFINE t == Tail(s)
<1>1. /\ t \in Seq(S) /\ Len(s) \in Nat \ {0} /\ Len(t) = Len(s) - 1 /\ Head(s) = s[1] /\ Head(s) \in S
      /\ DOMAIN s = 1 .. Len(s) /\ DOMAIN t = 1 .. Len(t)
      /\ \A i \in 1 .. Len(t) : t[i] = s[i + 1]
  BY HeadTailProperties, LenProperties, EmptySeq
<1> HIDE DEF t
<1>2. 1 \in DOMAIN s /\ \A i \in DOMAIN t : i + 1 \in DOMAIN s /\ i + 1 # 1 /\ t[i] = s[i + 1]
  BY <1>1
<1>3. \A i \in DOMAIN s : i = 1 \/ (i - 1 \in DOMAIN t /\ s[i] = t[i - 1])
  BY <1>1
<1>4. ASSUME IsInjective(s) PROVE IsInjective(t)
  <2> SUFFICES ASSUME NEW i \in DOMAIN t, NEW j \in DOMAIN t, t[i] = t[j] PROVE i = j
    BY DEF IsInjective
  <2>1. i + 1 = j + 1
    BY <1>2, <1>4 DEF IsInjective
  <2> QED
    BY <1>1, <2>1
<1>5. ASSUME IsInjective(s) PROVE ToSet(t) = ToSet(s) \ {Head(s)}
  <2>1. \A i \in DOMAIN t : t[i] \in ToSet(s) /\ t[i] # Head(s)
    BY <1>1, <1>2, <1>5 DEF IsInjective, ToSet
  <2>2. \A i \in DOMAIN s : s[i] # Head(s) => s[i] \in ToSet(t)
    BY <1>1, <1>3 DEF ToSet
  <2>3. ToSet(t) \subseteq ToSet(s) \ {Head(s)}
    BY <2>1 DEF ToSet
  <2>4. ToSet(s) \ {Head(s)} \subseteq ToSet(t)
    BY <2>2 DEF ToSet
  <2> QED
    BY <2>3, <2>4
<1>6. Head(s) \in ToSet(s)
  BY <1>1, <1>2 DEF ToSet
<1> QED
  BY <1>1, <1>4, <1>5, <1>6 DEF t

LEMMA NoneLeft ==
  ASSUME NEW S, NEW s \in Seq(S)
  PROVE  Len(s) \in Nat /\ (s = <<>> <=> Len(s) = 0)
BY LenProperties, EmptySeq

LEMMA EmptyList ==
  /\ ToSet(<<>>) = {} /\ IsInjective(<<>>)
  /\ \A S : <<>> \in Seq(S) /\ \A s \in Seq(S) : s \o <<>> = s
BY ConcatEmptySeq DEF ToSet, IsInjective

-----------------------------------------------------------------------------
(***************************************************************************)
(* The tree.                                                               *)
(***************************************************************************)
LEMMA TreeFacts ==
  ASSUME tx \in Transaction
  PROVE  /\ tx.size \in 0 .. MaxCalls /\ Calls = 0 .. tx.size /\ Calls \subseteq Nat /\ 0 \in Calls
         /\ \A c \in 1 .. tx.size : tx.parent[c] \in Calls /\ tx.parent[c] < c /\ c \in Calls /\ c # 0
         /\ \A c \in Calls : c # 0 => c \in 1 .. tx.size
         /\ tx.type[0] = "call" /\ \A c \in Calls : tx.to[c] \in Address
<1>1. PICK n \in 0 .. MaxCalls : tx \in OfSize(n)
  BY DEF Transaction
<1>2. MaxCalls \in Nat /\ n \in Nat
  BY TreeAssumption
<1>3. /\ tx.size = n /\ tx.parent \in [1 .. n -> 0 .. n - 1] /\ tx.to \in [0 .. n -> Address]
      /\ tx.type[0] = "call" /\ \A c \in 1 .. n : tx.parent[c] < c
  BY <1>1 DEF OfSize
<1>4. Calls = 0 .. n
  BY <1>3 DEF Calls
<1>5. \A c \in 1 .. n : tx.parent[c] \in 0 .. n /\ c \in 0 .. n /\ c # 0
  BY <1>2, <1>3
<1>6. \A c \in 0 .. n : c # 0 => c \in 1 .. n
  BY <1>2
<1> QED
  BY <1>2, <1>3, <1>4, <1>5, <1>6

LEMMA KidsAre ==
  ASSUME tx \in Transaction, NEW c \in Calls
  PROVE  /\ Below(c) \subseteq Calls /\ ToSet(Kids(c)) = Below(c) /\ IsInjective(Kids(c))
         /\ Kids(c) \in Seq(Calls) /\ (Below(c) = {} => Kids(c) = <<>>)
         /\ ToSet(Paired(c)) \subseteq Below(c) /\ Below(c) \subseteq ToSet(Paired(c)) \cup Childless
         /\ IsInjective(Paired(c)) /\ Paired(c) \in Seq(Calls)
<1>1. Below(c) \subseteq 1 .. MaxCalls /\ Below(c) \subseteq Calls
  <2>1. \A k \in 1 .. tx.size : k \in 1 .. MaxCalls /\ k \in Calls
    <3>1. tx.size \in Int /\ tx.size <= MaxCalls /\ MaxCalls \in Int
      BY TreeFacts, TreeAssumption
    <3> QED
      BY <3>1, TreeFacts
  <2> QED
    BY <2>1 DEF Below
<1>2. PICK P \in SUBSET Below(c) : Paired(c) = Ordered[P] /\ Below(c) \subseteq P \cup Childless
  <2>1. CASE c = 0
    <3> DEFINE P == {k \in Below(c) : Below(k) # {}}
    <3>1. P \in SUBSET Below(c) /\ Paired(c) = Ordered[P] /\ Below(c) \subseteq P \cup Childless
      BY <1>1, <2>1 DEF Paired, Childless
    <3> QED
      BY <3>1
  <2>2. CASE c # 0
    BY <2>2 DEF Paired
  <2> QED
    BY <2>1, <2>2
<1>3. PICK k : k = Ordered[Below(c)]
  OBVIOUS
<1>4. k \in Seq(Below(c)) /\ ToSet(k) = Below(c) /\ IsInjective(k)
  BY <1>1, <1>3, OrderedIs
<1>5. PICK p : p = Ordered[P]
  OBVIOUS
<1>6. p \in Seq(P) /\ ToSet(p) = P /\ IsInjective(p)
  BY <1>1, <1>2, <1>5, OrderedIs
<1>7. k \in Seq(Calls) /\ p \in Seq(Calls)
  BY <1>1, <1>4, <1>6, SeqMonotonic
<1>8. ASSUME Below(c) = {} PROVE k = <<>>
  <2>1. k # <<>> => Head(k) \in ToSet(k)
    BY <1>4, HeadGone
  <2> QED
    BY <1>4, <1>8, <2>1
<1> QED
  BY <1>1, <1>2, <1>3, <1>4, <1>5, <1>6, <1>7, <1>8 DEF Kids

-----------------------------------------------------------------------------
(***************************************************************************)
(* Walking the tree.                                                       *)
(***************************************************************************)
LEMMA WalkedOn ==
  ASSUME tx \in Transaction, NEW seen, NEW waiting, NEW rest, NEW c \in waiting, NEW found,
         Walked(seen, waiting, rest), found \subseteq Below(c), Below(c) \subseteq found \cup rest
  PROVE  /\ Walked(seen \cup {c}, (waiting \ {c}) \cup found, rest)
         /\ found \cap waiting = {} /\ found \cap seen = {} /\ c \notin seen
<1>1. /\ 0 \in seen \cup waiting /\ seen \cap waiting = {}
      /\ \A k \in (seen \cup waiting) \ {0} : tx.parent[k] \in seen
      /\ \A k \in 1 .. tx.size : tx.parent[k] \in seen => k \in seen \cup waiting \cup rest
  BY DEF Walked
<1>2. \A k \in found : k \in 1 .. tx.size /\ tx.parent[k] = c /\ k # 0
  BY TreeFacts DEF Below
<1>3. c \notin seen
  BY <1>1
<1>4. found \cap waiting = {} /\ found \cap seen = {}
  BY <1>1, <1>2, <1>3
<1>5. \A k \in 1 .. tx.size : tx.parent[k] = c => k \in found \cup rest
  BY DEF Below
<1> QED
  BY <1>1, <1>2, <1>3, <1>4, <1>5 DEF Walked

LEMMA AllSeen ==
  ASSUME tx \in Transaction, NEW seen \in SUBSET Calls, NEW rest,
         Walked(seen, {}, rest), \A k \in 1 .. tx.size : tx.parent[k] \notin rest
  PROVE  Calls \subseteq seen \cup rest
<1>1. /\ 0 \in seen
      /\ \A k \in 1 .. tx.size : tx.parent[k] \in seen => k \in seen \cup rest
  BY DEF Walked
<1> SUFFICES ASSUME Calls \ (seen \cup rest) # {} PROVE FALSE
  OBVIOUS
<1>2. Calls \ (seen \cup rest) \subseteq Nat
  BY TreeFacts
<1>3. PICK k \in Calls \ (seen \cup rest) : \A j \in Calls \ (seen \cup rest) : k <= j
  BY <1>2, LeastNumber
<1>4. k \in 1 .. tx.size
  BY <1>1, <1>3, TreeFacts
<1>5. tx.parent[k] \in Calls /\ tx.parent[k] < k /\ k \in Nat /\ tx.parent[k] \in Nat
  BY <1>4, TreeFacts
<1>6. tx.parent[k] \in seen \cup rest
  BY <1>3, <1>5
<1> QED
  BY <1>1, <1>3, <1>4, <1>6

LEMMA ParentsHaveChildren ==
  ASSUME tx \in Transaction
  PROVE  \A k \in 1 .. tx.size : tx.parent[k] \notin Childless
BY TreeFacts DEF Childless, Below

LEMMA StartsAtRoot ==
  ASSUME tx \in Transaction, NEW rest
  PROVE  Walked({}, {0}, rest)
BY TreeFacts DEF Walked

LEMMA SameTree ==
  ASSUME tx' = tx
  PROVE  /\ Calls' = Calls /\ Childless' = Childless
         /\ \A c : Below(c)' = Below(c) /\ Kids(c)' = Kids(c)
<1>1. Calls' = Calls
  BY DEF Calls
<1>2. \A c : Below(c)' = Below(c)
  BY DEF Below
<1>3. \A c : Kids(c)' = Kids(c)
  BY <1>2 DEF Kids
<1>4. Childless' = Childless
  BY <1>1, <1>2 DEF Childless
<1> QED
  BY <1>1, <1>2, <1>3, <1>4

LEMMA SamePlace ==
  ASSUME tx' = tx
  PROVE  \A seen, waiting, rest : Walked(seen, waiting, rest)' <=> Walked(seen, waiting, rest)
BY DEF Walked

-----------------------------------------------------------------------------
(***************************************************************************)
(* The order of the passes.                                                *)
(***************************************************************************)
LEMMA Order ==
  ASSUME NEW p \in Range(Passes)
  PROVE  /\ p \in {"convert", "delegations", "decode", "transfers", "balances", "prune", "done"}
         /\ Position(p) > Position("convert") <=> p # "convert"
         /\ Position(p) > Position("delegations") <=> p \notin {"convert", "delegations"}
         /\ Position(p) > Position("decode") <=> p \notin {"convert", "delegations", "decode"}
         /\ Position(p) > Position("balances") <=> p \in {"prune", "done"}
<1>1. /\ DOMAIN Passes = 1 .. 7
      /\ Passes[1] = "convert" /\ Passes[2] = "delegations" /\ Passes[3] = "decode"
      /\ Passes[4] = "transfers" /\ Passes[5] = "balances" /\ Passes[6] = "prune" /\ Passes[7] = "done"
  BY DEF Passes
<1>2. \A i \in 1 .. 7 : i \in {1, 2, 3, 4, 5, 6, 7}
  OBVIOUS
<1>3. p \in {"convert", "delegations", "decode", "transfers", "balances", "prune", "done"}
  BY <1>1, <1>2 DEF Range
<1>4. /\ Position("convert") = 1 /\ Position("delegations") = 2 /\ Position("decode") = 3
      /\ Position("transfers") = 4 /\ Position("balances") = 5 /\ Position("prune") = 6
      /\ Position("done") = 7
  BY <1>1, <1>2 DEF Position
<1> QED
  BY <1>3, <1>4

LEMMA PassNames ==
  {"convert", "delegations", "decode", "transfers", "balances", "prune", "done"} \subseteq Range(Passes)
<1>1. /\ DOMAIN Passes = 1 .. 7
      /\ Passes[1] = "convert" /\ Passes[2] = "delegations" /\ Passes[3] = "decode"
      /\ Passes[4] = "transfers" /\ Passes[5] = "balances" /\ Passes[6] = "prune" /\ Passes[7] = "done"
  BY DEF Passes
<1> HIDE DEF Passes
<1>2. \A i \in {1, 2, 3, 4, 5, 6, 7} : i \in DOMAIN Passes
  BY <1>1
<1> QED
  BY <1>1, <1>2 DEF Range

-----------------------------------------------------------------------------
(***************************************************************************)
(* The first pass.                                                         *)
(***************************************************************************)
\* A round's step takes the first call away and puts those found at the end.
RoundOn(S, w, l, f) ==
  /\ w \o l \in Seq(S) /\ w \o l # <<>> /\ Head(w \o l) = Head(w)
  /\ Tail(w) \in Seq(S) /\ l \o f \in Seq(S)
  /\ Tail(w) \o (l \o f) = Tail(w \o l) \o f
  /\ Len(w) = 1 => l \o f = Tail(w \o l) \o f
  /\ Len(w) # 1 => Tail(w) # <<>>

LEMMA NextWaiting ==
  ASSUME NEW S, NEW w \in Seq(S), NEW l \in Seq(S), NEW f \in Seq(S), w # <<>>
  PROVE  RoundOn(S, w, l, f)
<1>1. w \o l \in Seq(S) /\ w \o l # <<>> /\ l \o f \in Seq(S)
  BY ConcatProperties, ConcatEqualIffEmpty
<1>2. /\ Len(w) \in Nat \ {0} /\ Len(l) \in Nat /\ Len(w \o l) = Len(w) + Len(l)
      /\ \A i \in 1 .. Len(w) + Len(l) : (w \o l)[i] = IF i <= Len(w) THEN w[i] ELSE l[i - Len(w)]
  BY ConcatProperties, LenProperties, EmptySeq
<1>3. Tail(w) \in Seq(S) /\ Len(Tail(w)) = Len(w) - 1 /\ \A i \in 1 .. Len(w) - 1 : Tail(w)[i] = w[i + 1]
  BY HeadTailProperties
<1>t. PICK t : t = Tail(w)
  OBVIOUS
<1>0. t \in Seq(S) /\ Len(t) = Len(w) - 1 /\ Len(t) \in Nat /\ (t = <<>> <=> Len(t) = 0)
  BY <1>3, <1>t, NoneLeft
<1>4. /\ Tail(w \o l) \in Seq(S) /\ Len(Tail(w \o l)) = Len(w) + Len(l) - 1
      /\ \A i \in 1 .. Len(w) + Len(l) - 1 : Tail(w \o l)[i] = (w \o l)[i + 1]
  BY <1>1, <1>2, HeadTailProperties
<1>5. /\ Tail(w) \o l \in Seq(S) /\ Len(Tail(w) \o l) = Len(w) - 1 + Len(l)
      /\ \A i \in 1 .. Len(w) - 1 + Len(l) :
           (Tail(w) \o l)[i] = IF i <= Len(w) - 1 THEN Tail(w)[i] ELSE l[i - (Len(w) - 1)]
  BY <1>3, ConcatProperties
<1>6. Tail(w \o l) = Tail(w) \o l
  <2>1. Len(Tail(w \o l)) = Len(Tail(w) \o l)
    BY <1>2, <1>4, <1>5
  <2>2. ASSUME NEW i \in 1 .. Len(Tail(w \o l)) PROVE Tail(w \o l)[i] = (Tail(w) \o l)[i]
    <3>1. i \in 1 .. Len(w) + Len(l) - 1 /\ i + 1 \in 1 .. Len(w) + Len(l)
      BY <1>2, <1>4
    <3>2. CASE i <= Len(w) - 1
      <4>1. Tail(w \o l)[i] = w[i + 1] /\ (Tail(w) \o l)[i] = Tail(w)[i] /\ i \in 1 .. Len(w) - 1
        BY <1>2, <1>4, <1>5, <3>1, <3>2
      <4> QED
        BY <1>3, <4>1
    <3>3. CASE ~(i <= Len(w) - 1)
      <4>1. Tail(w \o l)[i] = l[i + 1 - Len(w)] /\ (Tail(w) \o l)[i] = l[i - (Len(w) - 1)]
        BY <1>2, <1>4, <1>5, <3>1, <3>3
      <4>2. i + 1 - Len(w) = i - (Len(w) - 1)
        BY <1>2, <3>1
      <4> QED
        BY <4>1, <4>2
    <3> QED
      BY <3>2, <3>3
  <2> QED
    BY <1>4, <1>5, <2>1, <2>2, SeqEqual
<1>7. Tail(w) \o (l \o f) = Tail(w \o l) \o f
  BY <1>3, <1>6, ConcatAssociative
<1>8. ASSUME Len(w) = 1 PROVE l \o f = Tail(w \o l) \o f
  <2>1. Tail(w) = <<>>
    BY <1>0, <1>t, <1>8
  <2> QED
    BY <1>6, <2>1, ConcatEmptySeq
<1>9. Head(w \o l) = Head(w)
  <2>1. 1 \in 1 .. Len(w) + Len(l) /\ 1 <= Len(w)
    BY <1>2
  <2>2. (w \o l)[1] = w[1]
    BY <1>2, <2>1
  <2> QED
    BY <1>1, <2>2
<1>10. Len(w) # 1 => Tail(w) # <<>>
  BY <1>2, <1>0, <1>t
<1> QED
  BY <1>1, <1>3, <1>7, <1>8, <1>9, <1>10 DEF RoundOn

LEMMA ConvertStarts ==
  ASSUME Init
  PROVE  ConvertInv
<1>1. tx \in Transaction /\ phase = "convert" /\ work = << 0 >> /\ later = <<>>
      /\ subcalls = [c \in Calls |-> <<>>]
  BY DEF Init
<1>2. phase \in Range(Passes) /\ ~After("convert")
  BY <1>1, PassNames, Order DEF After
<1>3. work \in Seq(Calls) /\ later \in Seq(Calls) /\ work # <<>> /\ work \o later = work
  BY <1>1, TreeFacts, EmptyList
<1>4. IsInjective(work) /\ ToSet(work) = {0}
  BY <1>1 DEF IsInjective, ToSet
<1>5. Walked({}, {0}, Childless)
  BY <1>1, StartsAtRoot
<1>6. ConvertedSoFar({}, {0})
  BY <1>1, <1>5 DEF ConvertedSoFar
<1>7. Converting
  BY <1>3, <1>4, <1>6 DEF Converting
<1> QED
  BY <1>1, <1>2, <1>7 DEF ConvertInv, Converted

LEMMA ConvertStep ==
  ASSUME ConvertInv, Convert
  PROVE  Converting'
<1>1. /\ tx \in Transaction /\ tx' = tx /\ phase = "convert" /\ phase' = phase
      /\ work \in Seq(Calls) /\ later \in Seq(Calls) /\ work # <<>> /\ IsInjective(work \o later)
  BY DEF ConvertInv, Converting, Convert
<1>2. PICK seen \in SUBSET Calls : ConvertedSoFar(seen, ToSet(work \o later))
  BY <1>1 DEF ConvertInv, Converting
<1>3. PICK c : c = Head(work)
  OBVIOUS
<1>4. subcalls' = [subcalls EXCEPT ![c] = @ \o Kids(c)] /\ NextRound(Paired(c))
  BY <1>3 DEF Convert
<1>5. PICK w : w = work \o later
  OBVIOUS
<1>6. w \in Seq(Calls) /\ w # <<>> /\ c = Head(w) /\ IsInjective(w)
  <2>1. RoundOn(Calls, work, later, <<>>)
    BY <1>1, NextWaiting, EmptyList
  <2> QED
    BY <1>1, <1>3, <1>5, <2>1 DEF RoundOn
<1>7. c \in Calls /\ c \in ToSet(w) /\ Tail(w) \in Seq(Calls) /\ IsInjective(Tail(w)) /\ ToSet(Tail(w)) = ToSet(w) \ {c}
  BY <1>6, HeadGone
<1>8. PICK f : f = Paired(c)
  OBVIOUS
<1>9. /\ f \in Seq(Calls) /\ IsInjective(f) /\ ToSet(f) \subseteq Below(c)
      /\ Below(c) \subseteq ToSet(f) \cup Childless
  BY <1>1, <1>7, <1>8, KidsAre
<1>10. Walked(seen, ToSet(w), Childless) /\ subcalls = [k \in Calls |-> IF k \in seen THEN Kids(k) ELSE <<>>]
  BY <1>2, <1>5 DEF ConvertedSoFar
<1>11. /\ Walked(seen \cup {c}, (ToSet(w) \ {c}) \cup ToSet(f), Childless)
       /\ ToSet(f) \cap ToSet(w) = {} /\ c \notin seen
  <2>1. PICK W : W = ToSet(w)
    OBVIOUS
  <2>2. PICK F : F = ToSet(f)
    OBVIOUS
  <2>3. c \in W /\ Walked(seen, W, Childless) /\ F \subseteq Below(c) /\ Below(c) \subseteq F \cup Childless
    BY <1>7, <1>9, <1>10, <2>1, <2>2
  <2>4. Walked(seen \cup {c}, (W \ {c}) \cup F, Childless) /\ F \cap W = {} /\ c \notin seen
    BY <1>1, <2>3, WalkedOn
  <2> QED
    BY <2>1, <2>2, <2>4
<1>t. PICK t : t = Tail(w)
  OBVIOUS
<1>12. PICK n : n = t \o f
  OBVIOUS
<1>13. n \in Seq(Calls) /\ IsInjective(n) /\ ToSet(n) = (ToSet(w) \ {c}) \cup ToSet(f)
  <2>1. t \in Seq(Calls) /\ IsInjective(t) /\ ToSet(t) = ToSet(w) \ {c} /\ ToSet(t) \cap ToSet(f) = {}
    BY <1>7, <1>11, <1>t
  <2>2. n \in Seq(Calls) /\ IsInjective(n) /\ ToSet(n) = ToSet(t) \cup ToSet(f)
    BY <1>9, <1>12, <2>1, JoinedLists
  <2> QED
    BY <2>1, <2>2
<1>14. work' \in Seq(Calls) /\ later' \in Seq(Calls) /\ (work' = <<>> => later' = <<>>) /\ work' \o later' = n
  <2>1. /\ Tail(work) \in Seq(Calls) /\ later \o f \in Seq(Calls)
        /\ Tail(work) \o (later \o f) = Tail(work \o later) \o f
        /\ Len(work) = 1 => later \o f = Tail(work \o later) \o f
        /\ Len(work) # 1 => Tail(work) # <<>>
    <3>1. RoundOn(Calls, work, later, f)
      BY <1>1, <1>9, NextWaiting
    <3> QED
      BY <3>1, Zenon DEF RoundOn
  <2>2. Tail(work \o later) \o f = n
    BY <1>5, <1>t, <1>12
  <2>3. CASE Len(work) = 1
    <3>1. work' = later \o f /\ later' = <<>>
      BY <1>4, <1>8, <2>3 DEF NextRound
    <3> QED
      BY <2>1, <2>2, <2>3, <3>1, EmptyList
  <2>4. CASE Len(work) # 1
    <3>1. work' = Tail(work) /\ later' = later \o f
      BY <1>4, <1>8, <2>4 DEF NextRound
    <3> QED
      BY <2>1, <2>2, <2>4, <3>1
  <2> QED
    BY <2>3, <2>4
<1>15. subcalls' = [k \in Calls |-> IF k \in seen \cup {c} THEN Kids(k) ELSE <<>>]
  <2>1. <<>> \o Kids(c) = Kids(c)
    BY <1>1, <1>7, KidsAre, ConcatEmptySeq
  <2> QED
    BY <1>4, <1>7, <1>10, <1>11, <2>1
<1>16. Calls' = Calls /\ Childless' = Childless /\ \A k : Kids(k)' = Kids(k)
  BY <1>1, SameTree
<1>17. ConvertedSoFar(seen \cup {c}, ToSet(n))'
  <2>1. Walked(seen \cup {c}, ToSet(n), Childless)'
    BY <1>1, <1>11, <1>13, <1>16 DEF Walked
  <2>2. subcalls' = [k \in Calls' |-> IF k \in seen \cup {c} THEN Kids(k)' ELSE <<>>]
    BY <1>15, <1>16
  <2> QED
    BY <2>1, <2>2 DEF ConvertedSoFar
<1>18. seen \cup {c} \in SUBSET Calls
  BY <1>7
<1> QED
  BY <1>13, <1>14, <1>16, <1>17, <1>18 DEF Converting

LEMMA ConvertEnds ==
  ASSUME ConvertInv, phase = "convert", work = <<>>
  PROVE  subcalls = [c \in Calls |-> Kids(c)]
<1>1. tx \in Transaction /\ later = <<>> /\ work \o later = <<>>
  BY EmptyList DEF ConvertInv, Converting
<1>2. PICK seen \in SUBSET Calls : ConvertedSoFar(seen, ToSet(work \o later))
  BY DEF ConvertInv, Converting
<1>3. Walked(seen, {}, Childless) /\ subcalls = [c \in Calls |-> IF c \in seen THEN Kids(c) ELSE <<>>]
  BY <1>1, <1>2, EmptyList DEF ConvertedSoFar
<1>4. Calls \subseteq seen \cup Childless
  BY <1>1, <1>3, AllSeen, ParentsHaveChildren
<1>5. \A c \in Calls : c \in Childless => Kids(c) = <<>>
  BY <1>1, KidsAre DEF Childless
<1> QED
  BY <1>3, <1>4, <1>5

LEMMA StaysConverted ==
  ASSUME tx \in Transaction, tx' = tx, phase' \in Range(Passes), phase' # "convert",
         subcalls' = [c \in Calls |-> Kids(c)]
  PROVE  ConvertInv'
<1>1. Calls' = Calls /\ \A c : Kids(c)' = Kids(c)
  BY SameTree
<1> QED
  BY <1>1 DEF ConvertInv, Converting, Converted

LEMMA ConvertKept ==
  ConvertInv /\ [Next]_vars => ConvertInv'
<1> SUFFICES ASSUME ConvertInv, [Next]_vars PROVE ConvertInv'
  OBVIOUS
<1>1. tx \in Transaction /\ phase \in Range(Passes)
  BY DEF ConvertInv
<1>2. phase # "convert" => subcalls = [c \in Calls |-> Kids(c)]
  BY <1>1, Order DEF ConvertInv, Converted, After
<1>3. CASE Convert
  <2>1. tx' = tx /\ phase' = phase /\ phase = "convert" /\ Converting'
    BY <1>3, ConvertStep DEF Convert
  <2>2. ~After("convert")'
    BY <1>1, <2>1, Order DEF After
  <2> QED
    BY <1>1, <2>1, <2>2 DEF ConvertInv, Converted
<1>4. CASE Delegate \/ Decode \/ Transfer \/ Balance \/ Prune
  <2>1. tx' = tx /\ subcalls' = subcalls /\ phase # "convert" /\ phase' \in {phase, "prune"}
    BY <1>4 DEF Delegate, Decode, Transfer, Balance, Prune
  <2>2. phase' \in Range(Passes) /\ phase' # "convert"
    BY <1>1, <2>1, PassNames
  <2> QED
    BY <1>1, <1>2, <2>1, <2>2, StaysConverted
<1>5. CASE NextPass
  <2>1. tx' = tx /\ subcalls' = subcalls /\ work = <<>>
    BY <1>5 DEF NextPass, Begin
  <2>2. phase' \in {"delegations", "decode", "transfers", "balances", "done"}
    BY <1>5 DEF NextPass, Begin
  <2>3. phase' \in Range(Passes) /\ phase' # "convert"
    BY <2>2, PassNames
  <2>4. subcalls = [c \in Calls |-> Kids(c)]
    BY <1>2, <2>1, ConvertEnds
  <2> QED
    BY <1>1, <2>1, <2>3, <2>4, StaysConverted
<1>6. CASE UNCHANGED vars
  <2>1. tx' = tx /\ phase' = phase /\ work' = work /\ later' = later /\ subcalls' = subcalls
    BY <1>6 DEF vars
  <2>2. CASE phase = "convert"
    <3>1. Calls' = Calls /\ Childless' = Childless /\ \A c : Kids(c)' = Kids(c)
      BY <2>1, SameTree
    <3>2. \A seen, waiting : ConvertedSoFar(seen, waiting)' <=> ConvertedSoFar(seen, waiting)
      BY <2>1, <3>1 DEF ConvertedSoFar, Walked
    <3>3. ~After("convert")'
      BY <1>1, <2>1, <2>2, Order DEF After
    <3>4. Converting'
      BY <2>1, <2>2, <3>1, <3>2 DEF ConvertInv, Converting
    <3> QED
      BY <1>1, <2>1, <3>3, <3>4 DEF ConvertInv, Converted
  <2>3. CASE phase # "convert"
    BY <1>1, <1>2, <2>1, <2>3, StaysConverted
  <2> QED
    BY <2>2, <2>3
<1> QED
  BY <1>3, <1>4, <1>5, <1>6 DEF Next, Finished

\* The first pass keeps every object it made below its caller and leaves only
\* calls without children unvisited.
THEOREM TreeConverts == Spec => []ConvertInv
<1>1. Init => ConvertInv
  BY ConvertStarts
<1> QED
  BY <1>1, ConvertKept, PTL DEF Spec

\* After _create_call_from_debug_trace_tx every call of the transaction is below
\* its caller, once and in the order of the trace.
THEOREM TreeConverted == Spec => []Converted
<1>1. ConvertInv => Converted
  BY DEF ConvertInv
<1> QED
  BY <1>1, TreeConverts, PTL

-----------------------------------------------------------------------------
(***************************************************************************)
(* How deep a call is.  Level is a recursive function: that there is one   *)
(* follows call by call, a call coming after its caller.                   *)
(***************************************************************************)
Reckoned(n) ==
  \E f \in [0 .. n -> Nat] : \A c \in 0 .. n : f[c] = IF c = 0 THEN 0 ELSE f[tx.parent[c]] + 1

LEMMA OneDeeper ==
  ASSUME tx \in Transaction, NEW n \in Nat, n + 1 <= tx.size, Reckoned(n)
  PROVE  Reckoned(n + 1)
<1>1. PICK f \in [0 .. n -> Nat] : \A c \in 0 .. n : f[c] = IF c = 0 THEN 0 ELSE f[tx.parent[c]] + 1
  BY DEF Reckoned
<1>2. \A c \in 0 .. n + 1 : c # 0 => tx.parent[c] \in 0 .. n /\ (c \in 0 .. n => tx.parent[c] \in 0 .. n)
  <2> SUFFICES ASSUME NEW c \in 0 .. n + 1, c # 0 PROVE tx.parent[c] \in 0 .. n
    OBVIOUS
  <2>1. tx.size \in Int /\ c \in 1 .. tx.size
    BY TreeFacts
  <2>2. tx.parent[c] \in Nat /\ tx.parent[c] < c
    BY <2>1, TreeFacts
  <2> QED
    BY <2>2
<1> DEFINE g == [c \in 0 .. n + 1 |-> IF c = n + 1 THEN f[tx.parent[c]] + 1 ELSE f[c]]
<1>3. \A c \in 0 .. n : c \in 0 .. n + 1 /\ c # n + 1 /\ g[c] = f[c]
  OBVIOUS
<1>4. n + 1 \in 0 .. n + 1 /\ n + 1 # 0 /\ g[n + 1] = f[tx.parent[n + 1]] + 1 /\ tx.parent[n + 1] \in 0 .. n
  BY <1>2
<1>5. \A c \in 0 .. n + 1 : c = n + 1 \/ c \in 0 .. n
  OBVIOUS
<1>6. g \in [0 .. n + 1 -> Nat]
  BY <1>2
<1> HIDE DEF g
<1>7. \A c \in 0 .. n + 1 : g[c] = IF c = 0 THEN 0 ELSE g[tx.parent[c]] + 1
  <2> SUFFICES ASSUME NEW c \in 0 .. n + 1 PROVE g[c] = IF c = 0 THEN 0 ELSE g[tx.parent[c]] + 1
    OBVIOUS
  <2>1. CASE c = n + 1
    BY <1>3, <1>4, <2>1
  <2>2. CASE c \in 0 .. n
    BY <1>1, <1>2, <1>3, <2>2
  <2> QED
    BY <1>5, <2>1, <2>2
<1> QED
  BY <1>6, <1>7 DEF Reckoned

LEMMA AllReckoned ==
  ASSUME tx \in Transaction, NEW n \in Nat, n <= tx.size
  PROVE  Reckoned(n)
<1> DEFINE T == {k \in Nat : k <= tx.size /\ ~Reckoned(k)}
<1> SUFFICES ASSUME T # {} PROVE FALSE
  OBVIOUS
<1>1. PICK k \in T : \A j \in T : k <= j
  BY LeastNumber
<1>2. k # 0
  <2> SUFFICES Reckoned(0)
    BY <1>1
  <2> DEFINE f == [c \in 0 .. 0 |-> 0]
  <2>1. f \in [0 .. 0 -> Nat] /\ \A c \in 0 .. 0 : c = 0 /\ f[c] = 0
    OBVIOUS
  <2> HIDE DEF f
  <2> QED
    BY <2>1 DEF Reckoned
<1>3. k - 1 \in Nat /\ k - 1 <= tx.size /\ k - 1 \notin T /\ (k - 1) + 1 = k
  <2>1. tx.size \in Int /\ k \in Nat
    BY <1>1, TreeFacts
  <2>2. k - 1 < k /\ k - 1 \in Nat
    BY <1>2, <2>1
  <2> QED
    BY <1>1, <1>2, <2>1, <2>2
<1>4. Reckoned(k - 1)
  BY <1>3
<1> QED
  BY <1>1, <1>3, <1>4, OneDeeper

LEMMA LevelIs ==
  ASSUME tx \in Transaction
  PROVE  /\ Level \in [Calls -> Nat]
         /\ \A c \in 1 .. tx.size : Level[c] = Level[tx.parent[c]] + 1
<1>1. Calls = 0 .. tx.size /\ tx.size \in Nat /\ tx.size <= tx.size
  BY TreeFacts
<1>2. PICK f \in [Calls -> Nat] : \A c \in Calls : f[c] = IF c = 0 THEN 0 ELSE f[tx.parent[c]] + 1
  BY <1>1, AllReckoned DEF Reckoned
<1>3. f = [c \in Calls |-> IF c = 0 THEN 0 ELSE f[tx.parent[c]] + 1]
  BY <1>2
<1>4. Level = [c \in Calls |-> IF c = 0 THEN 0 ELSE Level[tx.parent[c]] + 1]
  BY <1>3 DEF Level
<1> DEFINE T == {c \in Calls : Level[c] \notin Nat}
<1>5. T = {}
  <2> SUFFICES ASSUME T # {} PROVE FALSE
    OBVIOUS
  <2>1. T \subseteq Nat
    BY <1>1
  <2>2. PICK k \in T : \A j \in T : k <= j
    BY <2>1, LeastNumber
  <2>3. k # 0
    BY <1>4, <2>2
  <2>4. tx.parent[k] \in Calls /\ tx.parent[k] < k /\ k \in Nat /\ tx.parent[k] \in Nat
    BY <1>1, <2>2, <2>3, TreeFacts
  <2>5. Level[tx.parent[k]] \in Nat
    BY <2>2, <2>4
  <2>6. Level[k] = Level[tx.parent[k]] + 1
    BY <1>4, <2>2, <2>3
  <2> QED
    BY <2>2, <2>5, <2>6
<1>6. \A c \in 1 .. tx.size : c \in Calls /\ c # 0
  BY TreeFacts
<1>7. \A c \in 1 .. tx.size : Level[c] = Level[tx.parent[c]] + 1
  BY <1>4, <1>6
<1>8. Level \in [Calls -> Nat]
  BY <1>4, <1>5
<1> QED
  BY <1>7, <1>8

HolderIn(t) ==
  CHOOSE f : f = [c \in 0 .. t.size |-> IF t.type[c] = "delegatecall" THEN f[t.parent[c]] ELSE t.to[c]]

LevelIn(t) == CHOOSE f : f = [c \in 0 .. t.size |-> IF c = 0 THEN 0 ELSE f[t.parent[c]] + 1]

LEMMA SameMarks ==
  ASSUME tx' = tx
  PROVE  /\ Level' = Level /\ \A c : From(c)' = From(c)
         /\ \A a : DelegatesOf(a)' = DelegatesOf(a)
<1>1. Holder = HolderIn(tx) /\ Holder' = HolderIn(tx')
  BY DEF Holder, HolderIn, Calls
<1>2. Level = LevelIn(tx) /\ Level' = LevelIn(tx')
  BY DEF Level, LevelIn, Calls
<1>3. Holder' = Holder /\ Level' = Level
  BY <1>1, <1>2
<1>4. \A c : From(c)' = From(c)
  BY <1>3 DEF From
<1>5. \A a : DelegatesOf(a)' = DelegatesOf(a)
  BY <1>4 DEF DelegatesOf
<1> QED
  BY <1>3, <1>4, <1>5

-----------------------------------------------------------------------------
(***************************************************************************)
(* The queue of get_delegations.                                           *)
(***************************************************************************)
LEMMA LastGone ==
  ASSUME NEW S, NEW s \in Seq(S), s # <<>>
  PROVE  /\ Last(s) \in S /\ Last(s) \in ToSet(s) /\ Front(s) \in Seq(S) /\ Len(Front(s)) = Len(s) - 1
         /\ \A i \in DOMAIN Front(s) : i \in DOMAIN s /\ Front(s)[i] = s[i] /\ i <= Len(s)
         /\ Len(s) \in DOMAIN s /\ Len(s) \in Nat
         /\ IsInjective(s) => IsInjective(Front(s)) /\ ToSet(Front(s)) = ToSet(s) \ {Last(s)}
<1>1. /\ Len(s) \in Nat \ {0} /\ DOMAIN s = 1 .. Len(s) /\ \A i \in 1 .. Len(s) : s[i] \in S
  BY LenProperties, EmptySeq
<1>2. 1 \in Int /\ Len(s) - 1 \in Nat /\ \A i \in 1 .. Len(s) - 1 : s[i] \in S
  BY <1>1
<1>3. PICK t : t = SubSeq(s, 1, Len(s) - 1)
  OBVIOUS
<1>4. /\ t \in Seq(S) /\ Len(t) = Len(s) - 1 /\ \A i \in 1 .. Len(s) - 1 : t[i] = s[i]
  <2>1. PICK m \in Nat : m = Len(s) - 1
    BY <1>2
  <2>2. /\ t \in Seq(S) /\ Len(t) = IF 1 <= m THEN m - 1 + 1 ELSE 0
        /\ \A i \in 1 .. m - 1 + 1 : t[i] = s[1 + i - 1]
    BY <1>2, <1>3, <2>1, SubSeqProperties
  <2>3. m - 1 + 1 = m /\ (~(1 <= m) => m = 0)
    OBVIOUS
  <2>4. Len(t) = m
    BY <2>2, <2>3
  <2>5. \A i \in 1 .. m : t[i] = s[i]
    <3> SUFFICES ASSUME NEW i \in 1 .. m PROVE t[i] = s[i]
      OBVIOUS
    <3>1. i \in Nat /\ 1 + i - 1 = i /\ i \in 1 .. m - 1 + 1
      BY <2>3
    <3>2. t[i] = s[1 + i - 1]
      BY <2>2, <3>1
    <3> QED
      BY <3>1, <3>2
  <2> QED
    BY <2>1, <2>2, <2>4, <2>5
<1>5. DOMAIN t = 1 .. Len(s) - 1 /\ Front(s) = t /\ Last(s) = s[Len(s)] /\ Len(s) \in DOMAIN s
  BY <1>1, <1>3, <1>4, LenProperties DEF Front, Last
<1>6. \A i \in DOMAIN t : i \in DOMAIN s /\ i # Len(s) /\ t[i] = s[i] /\ i <= Len(s)
  BY <1>1, <1>4, <1>5
<1>7. \A i \in DOMAIN s : i = Len(s) \/ (i \in DOMAIN t /\ s[i] = t[i])
  BY <1>1, <1>4, <1>5
<1>8. ASSUME IsInjective(s) PROVE IsInjective(t)
  BY <1>6, <1>8 DEF IsInjective
<1>9. ASSUME IsInjective(s) PROVE ToSet(t) = ToSet(s) \ {s[Len(s)]}
  <2>1. \A i \in DOMAIN t : t[i] \in ToSet(s) /\ t[i] # s[Len(s)]
    BY <1>5, <1>6, <1>9 DEF IsInjective, ToSet
  <2>2. \A i \in DOMAIN s : s[i] # s[Len(s)] => s[i] \in ToSet(t)
    BY <1>7 DEF ToSet
  <2>3. ToSet(t) \subseteq ToSet(s) \ {s[Len(s)]}
    BY <2>1 DEF ToSet
  <2>4. ToSet(s) \ {s[Len(s)]} \subseteq ToSet(t)
    BY <2>2 DEF ToSet
  <2> QED
    BY <2>3, <2>4
<1>10. s[Len(s)] \in ToSet(s) /\ s[Len(s)] \in S
  BY <1>1, <1>5 DEF ToSet
<1> QED
  BY <1>1, <1>4, <1>5, <1>6, <1>8, <1>9, <1>10

LEMMA TurnedRound ==
  ASSUME NEW S, NEW s \in Seq(S)
  PROVE  /\ Reverse(s) \in Seq(S) /\ ToSet(Reverse(s)) = ToSet(s)
         /\ IsInjective(s) => IsInjective(Reverse(s))
<1>1. Len(s) \in Nat /\ DOMAIN s = 1 .. Len(s) /\ \A i \in 1 .. Len(s) : s[i] \in S
  BY LenProperties
<1>2. PICK r : r = Reverse(s)
  OBVIOUS
<1>3. DOMAIN r = 1 .. Len(s) /\ \A i \in 1 .. Len(s) : r[i] = s[(Len(s) - i) + 1]
  BY <1>2 DEF Reverse
<1>4. \A i \in 1 .. Len(s) : (Len(s) - i) + 1 \in 1 .. Len(s) /\ (Len(s) - ((Len(s) - i) + 1)) + 1 = i
  BY <1>1
<1>5. \A i \in 1 .. Len(s) : r[i] \in S
  BY <1>1, <1>3, <1>4
<1>6. r \in Seq(S)
  <2>1. r \in [1 .. Len(s) -> S]
    BY <1>2, <1>3, <1>5 DEF Reverse
  <2> QED
    BY <1>1, <2>1, SeqDef
<1>7. ToSet(r) = ToSet(s)
  <2>1. \A i \in 1 .. Len(s) : r[i] \in ToSet(s)
    BY <1>1, <1>3, <1>4 DEF ToSet
  <2>2. \A i \in 1 .. Len(s) : s[i] = r[(Len(s) - i) + 1]
    BY <1>3, <1>4
  <2>3. \A i \in 1 .. Len(s) : s[i] \in ToSet(r)
    BY <1>3, <1>4, <2>2 DEF ToSet
  <2>4. ToSet(r) \subseteq ToSet(s)
    BY <1>3, <2>1 DEF ToSet
  <2>5. ToSet(s) \subseteq ToSet(r)
    BY <1>1, <2>3 DEF ToSet
  <2> QED
    BY <2>4, <2>5
<1>8. ASSUME IsInjective(s) PROVE IsInjective(r)
  <2> SUFFICES ASSUME NEW i \in 1 .. Len(s), NEW j \in 1 .. Len(s), r[i] = r[j] PROVE i = j
    BY <1>3 DEF IsInjective
  <2>1. (Len(s) - i) + 1 = (Len(s) - j) + 1
    BY <1>1, <1>3, <1>4, <1>8 DEF IsInjective
  <2> QED
    BY <1>1, <2>1
<1> QED
  BY <1>2, <1>6, <1>7, <1>8

\* The queue once the call at its end has given way to the calls below it.
QueueOn(queue, children, longer) ==
  /\ longer \in Seq(Calls)
  /\ \A i \in DOMAIN longer :
       \/ longer[i] \in ToSet(children) /\ i <= Len(children)
       \/ /\ i > Len(children) /\ i - Len(children) \in DOMAIN queue
          /\ longer[i] = queue[i - Len(children)] /\ i - Len(children) <= Len(queue)

LEMMA QueueGrows ==
  ASSUME NEW queue \in Seq(Calls), queue # <<>>, NEW children \in Seq(Calls)
  PROVE  QueueOn(queue, children, Reverse(children) \o Front(queue))
<1>1. PICK r : r = Reverse(children)
  OBVIOUS
<1>2. PICK f : f = Front(queue)
  OBVIOUS
<1>3. r \in Seq(Calls) /\ ToSet(r) = ToSet(children) /\ Len(children) \in Nat
  BY <1>1, TurnedRound, LenProperties
<1>4. Len(r) = Len(children)
  <2>1. DOMAIN r = 1 .. Len(children) /\ DOMAIN r = 1 .. Len(r) /\ Len(r) \in Nat
    BY <1>1, <1>3, LenProperties DEF Reverse
  <2> QED
    BY <1>3, <2>1
<1>5. /\ f \in Seq(Calls) /\ DOMAIN f = 1 .. Len(f) /\ Len(f) \in Nat
      /\ \A i \in DOMAIN f : i \in DOMAIN queue /\ f[i] = queue[i] /\ i <= Len(queue)
  BY <1>2, LastGone, LenProperties
<1>6. PICK n : n = r \o f
  OBVIOUS
<1>7. /\ n \in Seq(Calls) /\ DOMAIN n = 1 .. Len(r) + Len(f)
      /\ \A i \in 1 .. Len(r) + Len(f) : n[i] = IF i <= Len(r) THEN r[i] ELSE f[i - Len(r)]
  BY <1>3, <1>5, <1>6, ConcatProperties, LenProperties
<1>8. ASSUME NEW i \in DOMAIN n, i <= Len(r) PROVE n[i] \in ToSet(children)
  <2>1. n[i] = r[i] /\ i \in 1 .. Len(r) /\ DOMAIN r = 1 .. Len(r)
    BY <1>3, <1>4, <1>7, <1>8, LenProperties
  <2> QED
    BY <1>3, <2>1 DEF ToSet
<1>9. ASSUME NEW i \in DOMAIN n, ~(i <= Len(r)) PROVE i - Len(r) \in DOMAIN f /\ n[i] = f[i - Len(r)] /\ i > Len(r)
  BY <1>3, <1>4, <1>5, <1>7, <1>9
<1>10. \A i \in DOMAIN n :
         \/ n[i] \in ToSet(children) /\ i <= Len(children)
         \/ /\ i > Len(children) /\ i - Len(children) \in DOMAIN queue
            /\ n[i] = queue[i - Len(children)] /\ i - Len(children) <= Len(queue)
  BY <1>4, <1>5, <1>8, <1>9
<1> QED
  BY <1>1, <1>2, <1>6, <1>7, <1>10 DEF QueueOn

LevelledIn(seen, queue) ==
  /\ \A i, j \in DOMAIN queue : i <= j =>
       Level[queue[j]] <= Level[queue[i]] /\ Level[queue[i]] <= Level[queue[j]] + 1
  /\ \A c \in seen, i \in DOMAIN queue : Level[c] <= Level[queue[i]]

LEMMA LevelsKept ==
  ASSUME tx \in Transaction, NEW queue \in Seq(Calls), queue # <<>>, NEW children \in Seq(Calls),
         NEW longer, QueueOn(queue, children, longer), ToSet(children) = Below(Last(queue)),
         NEW seen \in SUBSET Calls, LevelledIn(seen, queue)
  PROVE  LevelledIn(seen \cup {Last(queue)}, longer) /\ \A d \in seen : Level[d] <= Level[Last(queue)]
<1>1. PICK c \in Calls : c = Last(queue)
  BY LastGone
<1>2. /\ Len(queue) \in DOMAIN queue /\ queue[Len(queue)] = c /\ Len(children) \in Nat
      /\ DOMAIN queue = 1 .. Len(queue) /\ Len(queue) \in Nat
      /\ \A i \in DOMAIN queue : queue[i] \in Calls
  BY <1>1, LastGone, LenProperties DEF Last
<1>3. \A k \in Calls : Level[k] \in Nat
  BY LevelIs
<1>4. \A k \in ToSet(children) : k \in Calls /\ Level[k] = Level[c] + 1
  BY <1>1, LevelIs, TreeFacts DEF Below
<1>5. /\ \A i, j \in DOMAIN queue : i <= j =>
           Level[queue[j]] <= Level[queue[i]] /\ Level[queue[i]] <= Level[queue[j]] + 1
      /\ \A k \in seen, i \in DOMAIN queue : Level[k] <= Level[queue[i]]
  BY DEF LevelledIn
<1>6. \A i \in DOMAIN queue : Level[c] <= Level[queue[i]] /\ Level[queue[i]] <= Level[c] + 1
  BY <1>2, <1>5
<1>7. \A d \in seen : Level[d] <= Level[c]
  BY <1>2, <1>5
<1>8. /\ DOMAIN longer \subseteq Nat
      /\ \A i \in DOMAIN longer :
           \/ longer[i] \in ToSet(children) /\ i <= Len(children)
           \/ /\ i > Len(children) /\ i - Len(children) \in DOMAIN queue
              /\ longer[i] = queue[i - Len(children)]
  BY LenProperties DEF QueueOn
<1>9. ASSUME NEW i \in DOMAIN longer, NEW j \in DOMAIN longer, i <= j
      PROVE  Level[longer[j]] <= Level[longer[i]] /\ Level[longer[i]] <= Level[longer[j]] + 1
  <2>1. i \in Nat /\ j \in Nat
    BY <1>8
  <2>2. CASE longer[i] \in ToSet(children) /\ longer[j] \in ToSet(children)
    BY <1>3, <1>4, <2>2
  <2>3. ASSUME longer[i] \in ToSet(children), NEW l \in DOMAIN queue, longer[j] = queue[l]
        PROVE  Level[longer[j]] <= Level[longer[i]] /\ Level[longer[i]] <= Level[longer[j]] + 1
    <3>1. Level[longer[i]] = Level[c] + 1 /\ Level[c] \in Nat /\ Level[longer[j]] \in Nat
      BY <1>2, <1>3, <1>4, <2>3
    <3>2. Level[c] <= Level[longer[j]] /\ Level[longer[j]] <= Level[c] + 1
      BY <1>6, <2>3
    <3> QED
      BY <3>1, <3>2
  <2>4. ~(i > Len(children) /\ j <= Len(children))
    BY <1>2, <1>9, <2>1
  <2>5. CASE i > Len(children) /\ j > Len(children)
    <3>1. PICK k \in DOMAIN queue : k = i - Len(children) /\ longer[i] = queue[k]
      BY <1>2, <1>8, <2>1, <2>5
    <3>2. PICK l \in DOMAIN queue : l = j - Len(children) /\ longer[j] = queue[l]
      BY <1>2, <1>8, <2>1, <2>5
    <3>3. k <= l
      BY <1>2, <1>9, <2>1, <3>1, <3>2
    <3> QED
      BY <1>5, <3>1, <3>2, <3>3
  <2>6. \/ i > Len(children)
        \/ longer[i] \in ToSet(children)
    BY <1>8
  <2>7. \/ j > Len(children) /\ \E l \in DOMAIN queue : longer[j] = queue[l]
        \/ j <= Len(children) /\ longer[j] \in ToSet(children)
    BY <1>8
  <2> QED
    BY <2>2, <2>3, <2>4, <2>5, <2>6, <2>7
<1>10. ASSUME NEW d \in seen \cup {c}, NEW i \in DOMAIN longer
       PROVE  Level[d] <= Level[longer[i]]
  <2>1. Level[d] <= Level[c] /\ Level[d] \in Nat /\ Level[c] \in Nat
    BY <1>3, <1>7, <1>10
  <2>2. CASE longer[i] \in ToSet(children)
    <3>1. Level[longer[i]] = Level[c] + 1
      BY <1>4, <2>2
    <3> QED
      BY <2>1, <3>1
  <2>3. ASSUME NEW l \in DOMAIN queue, longer[i] = queue[l] PROVE Level[d] <= Level[longer[i]]
    <3>1. Level[c] <= Level[longer[i]] /\ Level[longer[i]] \in Nat
      BY <1>2, <1>3, <1>6, <2>3
    <3> QED
      BY <2>1, <3>1
  <2> QED
    BY <1>8, <2>2, <2>3
<1> QED
  BY <1>1, <1>7, <1>9, <1>10 DEF LevelledIn

LEMMA OneAppended ==
  ASSUME NEW S, NEW s \in Seq(S), NEW e \in S
  PROVE  /\ Append(s, e) \in Seq(S) /\ Append(s, e) # <<>> /\ ToSet(Append(s, e)) = ToSet(s) \cup {e}
         /\ IsInjective(s) /\ e \notin ToSet(s) => IsInjective(Append(s, e))
         /\ Head(Append(s, e)) = IF s = <<>> THEN e ELSE Head(s)
<1>1. PICK t : t = Append(s, e)
  OBVIOUS
<1>2. /\ t \in Seq(S) /\ t # <<>> /\ Len(t) = Len(s) + 1 /\ Len(s) \in Nat
      /\ DOMAIN s = 1 .. Len(s) /\ DOMAIN t = 1 .. Len(t)
      /\ \A i \in 1 .. Len(s) : t[i] = s[i]
      /\ t[Len(s) + 1] = e
  BY <1>1, AppendProperties, LenProperties
<1>3. Head(t) = IF s = <<>> THEN e ELSE Head(s)
  BY <1>1, HeadTailAppend
<1>4. \A i \in DOMAIN t : (i \in DOMAIN s /\ t[i] = s[i]) \/ (i = Len(s) + 1 /\ t[i] = e)
  BY <1>2
<1>5. \A i \in DOMAIN s : i \in DOMAIN t /\ t[i] = s[i]
  BY <1>2
<1>6. Len(s) + 1 \in DOMAIN t
  BY <1>2
<1>7. ToSet(t) = ToSet(s) \cup {e}
  <2>1. ToSet(t) \subseteq ToSet(s) \cup {e}
    BY <1>4 DEF ToSet
  <2>2. ToSet(s) \subseteq ToSet(t)
    BY <1>5 DEF ToSet
  <2>3. e \in ToSet(t)
    BY <1>2, <1>6 DEF ToSet
  <2> QED
    BY <2>1, <2>2, <2>3
<1>8. ASSUME IsInjective(s), e \notin ToSet(s) PROVE IsInjective(t)
  <2>1. \A i \in DOMAIN s : s[i] # e
    BY <1>8 DEF ToSet
  <2> QED
    BY <1>4, <1>8, <2>1 DEF IsInjective
<1> QED
  BY <1>1, <1>2, <1>3, <1>7, <1>8

LEMMA SameLenders ==
  ASSUME NEW lenders, NEW delegates \in Seq(Address), NEW c \in Calls, tx.to[c] \in ToSet(delegates),
         DelegatesBy(lenders, delegates), \A d \in lenders : Level[d] <= Level[c]
  PROVE  DelegatesBy(lenders \cup {c}, delegates)
<1>1. delegates # <<>>
  BY EmptyList
<1>2. PICK w \in lenders : tx.to[w] = Head(delegates) /\ \A d \in lenders : Level[w] <= Level[d]
  BY <1>1 DEF DelegatesBy
<1>3. \A d \in lenders \cup {c} : Level[w] <= Level[d]
  BY <1>2
<1>4. ToSet(delegates) = {tx.to[d] : d \in lenders} /\ IsInjective(delegates)
  BY DEF DelegatesBy
<1>5. ToSet(delegates) = {tx.to[d] : d \in lenders \cup {c}}
  BY <1>4
<1> QED
  BY <1>2, <1>3, <1>4, <1>5 DEF DelegatesBy

LEMMA MoreLenders ==
  ASSUME tx \in Transaction, NEW lenders \in SUBSET Calls, NEW delegates \in Seq(Address),
         NEW c \in Calls, tx.to[c] \notin ToSet(delegates),
         DelegatesBy(lenders, delegates), \A d \in lenders : Level[d] <= Level[c]
  PROVE  DelegatesBy(lenders \cup {c}, Append(delegates, tx.to[c]))
<1>1. PICK t \in Address : t = tx.to[c]
  BY TreeFacts
<1>2. PICK n : n = Append(delegates, t)
  OBVIOUS
<1>3. ToSet(delegates) = {tx.to[d] : d \in lenders} /\ IsInjective(delegates)
  BY DEF DelegatesBy
<1>4. /\ n # <<>> /\ ToSet(n) = ToSet(delegates) \cup {t} /\ IsInjective(n)
      /\ Head(n) = IF delegates = <<>> THEN t ELSE Head(delegates)
  BY <1>1, <1>2, <1>3, OneAppended
<1>5. ToSet(n) = {tx.to[d] : d \in lenders \cup {c}}
  BY <1>1, <1>3, <1>4
<1>6. \A d \in Calls : Level[d] \in Nat
  BY LevelIs
<1>7. \E w \in lenders \cup {c} : tx.to[w] = Head(n) /\ \A d \in lenders \cup {c} : Level[w] <= Level[d]
  <2>1. CASE delegates = <<>>
    <3>1. lenders = {}
      <4>1. {tx.to[d] : d \in lenders} = {}
        BY <1>3, <2>1, EmptyList
      <4> QED
        BY <4>1
    <3> QED
      BY <1>1, <1>4, <1>6, <2>1, <3>1
  <2>2. CASE delegates # <<>>
    <3>1. PICK w \in lenders : tx.to[w] = Head(delegates) /\ \A d \in lenders : Level[w] <= Level[d]
      BY <2>2 DEF DelegatesBy
    <3> QED
      BY <1>4, <2>2, <3>1
  <2> QED
    BY <2>1, <2>2
<1> QED
  BY <1>1, <1>2, <1>4, <1>5, <1>7 DEF DelegatesBy

LEMMA DelegatesKept ==
  ASSUME tx \in Transaction, delegations \in [Address -> Seq(Address)],
         NEW seen \in SUBSET Calls, NEW c \in Calls, \A d \in seen : Level[d] <= Level[c],
         NEW a \in Address, DelegatesBy(DelegatesOf(a) \cap seen, delegations[a]),
         delegations' =
           IF tx.type[c] = "delegatecall" /\ ~Contains(delegations[From(c)], tx.to[c])
           THEN [delegations EXCEPT ![From(c)] = Append(@, tx.to[c])]
           ELSE delegations
  PROVE  DelegatesBy(DelegatesOf(a) \cap (seen \cup {c}), delegations'[a]) /\ delegations'[a] \in Seq(Address)
<1>1. PICK lenders \in SUBSET Calls : lenders = DelegatesOf(a) \cap seen
  OBVIOUS
<1>2. PICK delegates \in Seq(Address) : delegates = delegations[a]
  OBVIOUS
<1>3. DelegatesBy(lenders, delegates) /\ \A d \in lenders : Level[d] <= Level[c]
  BY <1>1, <1>2
<1>4. Contains(delegates, tx.to[c]) <=> tx.to[c] \in ToSet(delegates)
  BY <1>2, LenProperties DEF Contains, ToSet
<1>5. CASE tx.type[c] = "delegatecall" /\ From(c) = a
  <2>1. DelegatesOf(a) \cap (seen \cup {c}) = lenders \cup {c}
    BY <1>1, <1>5, TreeFacts DEF DelegatesOf
  <2>2. CASE tx.to[c] \in ToSet(delegates)
    <3>1. delegations'[a] = delegates
      BY <1>2, <1>4, <1>5, <2>2
    <3> QED
      BY <1>3, <2>1, <2>2, <3>1, SameLenders
  <2>3. CASE tx.to[c] \notin ToSet(delegates)
    <3>1. delegations'[a] = Append(delegates, tx.to[c])
      BY <1>2, <1>4, <1>5, <2>3
    <3>2. tx.to[c] \in Address
      BY TreeFacts
    <3>3. DelegatesBy(lenders \cup {c}, Append(delegates, tx.to[c]))
      BY <1>3, <2>3, MoreLenders
    <3> QED
      BY <2>1, <3>1, <3>2, <3>3, AppendProperties
  <2> QED
    BY <2>2, <2>3
<1>6. CASE ~(tx.type[c] = "delegatecall" /\ From(c) = a)
  <2>1. DelegatesOf(a) \cap (seen \cup {c}) = lenders
    BY <1>1, <1>6 DEF DelegatesOf
  <2>2. delegations'[a] = delegates
    BY <1>2, <1>6
  <2> QED
    BY <1>3, <2>1, <2>2
<1> QED
  BY <1>5, <1>6

LEMMA DelegateStep ==
  ASSUME ConvertInv, DelegateInv, Delegate
  PROVE  DelegateInv'
<1>1. /\ tx \in Transaction /\ tx' = tx /\ phase = "delegations" /\ phase' = phase
      /\ work \in Seq(Calls) /\ work # <<>> /\ IsInjective(work)
      /\ delegations \in [Address -> Seq(Address)]
  BY DEF ConvertInv, DelegateInv, Delegating, Delegate
<1>2. subcalls = [k \in Calls |-> Kids(k)] /\ ~After("delegations")' /\ phase \in Range(Passes)
  BY <1>1, Order DEF ConvertInv, Converted, After
<1>3. PICK seen \in SUBSET Calls : DelegatedSoFar(seen)
  BY <1>1 DEF DelegateInv, Delegating
<1>4. PICK c : c = Last(work)
  OBVIOUS
<1>5. c \in Calls /\ c \in ToSet(work)
  BY <1>1, <1>4, LastGone
<1>6. PICK k : k = Kids(c)
  OBVIOUS
<1>7. k \in Seq(Calls) /\ ToSet(k) = Below(c) /\ IsInjective(k)
  BY <1>1, <1>5, <1>6, KidsAre
<1>8. /\ work' = Reverse(k) \o Front(work)
      /\ delegations' =
           IF tx.type[c] = "delegatecall" /\ ~Contains(delegations[From(c)], tx.to[c])
           THEN [delegations EXCEPT ![From(c)] = Append(@, tx.to[c])]
           ELSE delegations
  BY <1>2, <1>4, <1>5, <1>6 DEF Delegate, Queued
<1>9. PICK r : r = Reverse(k)
  OBVIOUS
<1>10. r \in Seq(Calls) /\ ToSet(r) = Below(c) /\ IsInjective(r)
  BY <1>7, <1>9, TurnedRound
<1>11. PICK f : f = Front(work)
  OBVIOUS
<1>12. f \in Seq(Calls) /\ IsInjective(f) /\ ToSet(f) = ToSet(work) \ {c}
  BY <1>1, <1>4, <1>11, LastGone
<1>13. PICK W : W = ToSet(work)
  OBVIOUS
<1>14. Walked(seen, W, {}) /\ c \in W
  BY <1>3, <1>5, <1>13 DEF DelegatedSoFar
<1>15. /\ Walked(seen \cup {c}, (W \ {c}) \cup Below(c), {})
       /\ Below(c) \cap W = {} /\ c \notin seen
  <2>1. PICK F : F = Below(c)
    OBVIOUS
  <2>2. F \subseteq Below(c) /\ Below(c) \subseteq F \cup {}
    BY <2>1
  <2>3. Walked(seen \cup {c}, (W \ {c}) \cup F, {}) /\ F \cap W = {} /\ c \notin seen
    BY <1>1, <1>14, <2>2, WalkedOn
  <2> QED
    BY <2>1, <2>3
<1>16. work' \in Seq(Calls) /\ IsInjective(work') /\ ToSet(work') = (W \ {c}) \cup Below(c)
  <2>1. ToSet(r) \cap ToSet(f) = {}
    BY <1>10, <1>12, <1>13, <1>15
  <2>2. PICK n : n = r \o f
    OBVIOUS
  <2>3. n \in Seq(Calls) /\ IsInjective(n) /\ ToSet(n) = ToSet(r) \cup ToSet(f)
    BY <1>10, <1>12, <2>1, <2>2, JoinedLists
  <2> QED
    BY <1>8, <1>9, <1>10, <1>11, <1>12, <1>13, <2>2, <2>3
<1>17. LevelledIn(seen \cup {c}, work') /\ \A d \in seen : Level[d] <= Level[c]
  <2>1. LevelledIn(seen, work)
    BY <1>3 DEF DelegatedSoFar, Levelled, LevelledIn
  <2>2. PICK n : n = Reverse(k) \o Front(work)
    OBVIOUS
  <2>3. QueueOn(work, k, n)
    BY <1>1, <1>7, <2>2, QueueGrows
  <2>4. PICK q \in Seq(Calls) : q = work
    BY <1>1
  <2>5. LevelledIn(seen \cup {Last(q)}, n) /\ \A d \in seen : Level[d] <= Level[Last(q)]
    BY <1>1, <1>4, <1>7, <2>1, <2>3, <2>4, LevelsKept
  <2> QED
    BY <1>4, <1>8, <2>2, <2>4, <2>5
<1>18. ASSUME NEW a \in Address
       PROVE  DelegatesBy(DelegatesOf(a) \cap (seen \cup {c}), delegations'[a]) /\ delegations'[a] \in Seq(Address)
  <2>1. DelegatesBy(DelegatesOf(a) \cap seen, delegations[a])
    BY <1>3, <1>18 DEF DelegatedSoFar
  <2> QED
    BY <1>1, <1>5, <1>8, <1>17, <2>1, DelegatesKept
<1>19. delegations' \in [Address -> Seq(Address)]
  <2>1. DOMAIN delegations' = Address /\ delegations' = [a \in Address |-> delegations'[a]]
    BY <1>1, <1>8
  <2> QED
    BY <1>18, <2>1
<1>20. Calls' = Calls /\ Level' = Level /\ \A a : DelegatesOf(a)' = DelegatesOf(a)
  BY <1>1, SameTree, SameMarks
<1>21. DelegatedSoFar(seen \cup {c})'
  <2>1. Walked(seen \cup {c}, ToSet(work), {})'
    BY <1>1, <1>13, <1>15, <1>16, SamePlace DEF Walked
  <2>2. Levelled(seen \cup {c})'
    BY <1>17, <1>20 DEF Levelled, LevelledIn
  <2>3. \A a \in Address : DelegatesBy(DelegatesOf(a) \cap (seen \cup {c}), delegations[a])'
    BY <1>1, <1>18, <1>20 DEF DelegatesBy
  <2> QED
    BY <2>1, <2>2, <2>3 DEF DelegatedSoFar
<1>22. seen \cup {c} \in SUBSET Calls'
  BY <1>5, <1>20
<1>23. Delegating'
  BY <1>16, <1>20, <1>21, <1>22 DEF Delegating
<1> QED
  BY <1>1, <1>2, <1>19, <1>23 DEF DelegateInv, DelegationsRight

LEMMA DelegateBegins ==
  ASSUME ConvertInv, DelegateInv, Begin("convert", "delegations", << 0 >>)
  PROVE  DelegateInv'
<1>1. /\ tx \in Transaction /\ tx' = tx /\ phase' = "delegations" /\ work' = << 0 >>
      /\ delegations' = [a \in Address |-> <<>>]
  BY DEF ConvertInv, DelegateInv, Begin
<1>2. Calls' = Calls /\ 0 \in Calls
  BY <1>1, SameTree, TreeFacts
<1>3. work' \in Seq(Calls') /\ IsInjective(work') /\ ToSet(work') = {0}
  BY <1>1, <1>2 DEF IsInjective, ToSet
<1>4. DelegatedSoFar({})'
  <2>1. Walked({}, ToSet(work), {})'
    BY <1>1, <1>3, StartsAtRoot DEF Walked
  <2>2. Levelled({})'
    <3>1. DOMAIN work' = {1} /\ work'[1] = 0
      BY <1>1
    <3>2. Level' = Level /\ Level[0] \in Nat
      BY <1>1, <1>2, SameMarks, LevelIs
    <3> QED
      BY <3>1, <3>2 DEF Levelled
  <2>3. \A a \in Address : DelegatesBy(DelegatesOf(a) \cap {}, delegations[a])'
    BY <1>1, EmptyList DEF DelegatesBy
  <2> QED
    BY <2>1, <2>2, <2>3 DEF DelegatedSoFar
<1>5. Delegating'
  BY <1>3, <1>4 DEF Delegating
<1>6. delegations' \in [Address -> Seq(Address)]
  BY <1>1
<1>7. ~After("delegations")'
  BY <1>1, PassNames, Order DEF After
<1> QED
  BY <1>1, <1>5, <1>6, <1>7 DEF DelegateInv, DelegationsRight

LEMMA DelegateEnds ==
  ASSUME ConvertInv, DelegateInv, phase = "delegations", work = <<>>
  PROVE  \A a \in Address : DelegatesBy(DelegatesOf(a), delegations[a])
<1>1. tx \in Transaction
  BY DEF ConvertInv
<1>2. PICK seen \in SUBSET Calls : DelegatedSoFar(seen)
  BY DEF DelegateInv, Delegating
<1>3. Walked(seen, {}, {})
  BY <1>2, EmptyList DEF DelegatedSoFar
<1>4. Calls \subseteq seen
  BY <1>1, <1>3, AllSeen
<1>5. \A a : DelegatesOf(a) \cap seen = DelegatesOf(a)
  BY <1>1, <1>4, TreeFacts DEF DelegatesOf
<1> QED
  BY <1>2, <1>5 DEF DelegatedSoFar

\* Once the delegates are right they stay so.
LEMMA StaysDelegated ==
  ASSUME tx' = tx, delegations' = delegations, delegations \in [Address -> Seq(Address)],
         phase' \notin {"convert", "delegations"},
         \A a \in Address : DelegatesBy(DelegatesOf(a), delegations[a])
  PROVE  DelegateInv'
<1>1. Level' = Level /\ \A a : DelegatesOf(a)' = DelegatesOf(a)
  BY SameMarks
<1>2. ASSUME NEW a \in Address
      PROVE  /\ ToSet(delegations[a]) = {tx.to[c] : c \in DelegatesOf(a)}
             /\ IsInjective(delegations[a])
             /\ delegations[a] # <<>> => \E c \in DelegatesOf(a) :
                  /\ tx.to[c] = Head(delegations[a])
                  /\ \A d \in DelegatesOf(a) : Level[c] <= Level[d]
  BY <1>2, Zenon DEF DelegatesBy
<1>3. DelegationsRight'
  BY <1>1, <1>2 DEF DelegationsRight
<1> QED
  BY <1>3 DEF DelegateInv, Delegating

LEMMA DelegatedRight ==
  ASSUME ConvertInv, DelegateInv, phase \notin {"convert", "delegations"}
  PROVE  \A a \in Address : DelegatesBy(DelegatesOf(a), delegations[a])
<1>1. DelegationsRight /\ After("delegations")
  BY Order DEF ConvertInv, DelegateInv, After
<1> QED
  BY <1>1, Zenon DEF DelegationsRight, DelegatesBy

LEMMA DelegateKept ==
  ConvertInv /\ DelegateInv /\ [Next]_vars => DelegateInv'
<1> SUFFICES ASSUME ConvertInv, DelegateInv, [Next]_vars PROVE DelegateInv'
  OBVIOUS
<1>1. tx \in Transaction /\ phase \in Range(Passes) /\ delegations \in [Address -> Seq(Address)]
  BY DEF ConvertInv, DelegateInv
<1>2. CASE Convert
  <2>1. delegations' = [a \in Address |-> <<>>] /\ phase' = "convert" /\ delegations' = delegations
    BY <1>2 DEF DelegateInv, Convert
  <2>2. ~After("delegations")'
    BY <2>1, PassNames, Order DEF After
  <2> QED
    BY <1>1, <2>1, <2>2 DEF DelegateInv, Delegating, DelegationsRight
<1>3. CASE Delegate
  BY <1>3, DelegateStep
<1>4. CASE Decode \/ Transfer \/ Balance \/ Prune
  <2>1. /\ tx' = tx /\ delegations' = delegations /\ phase \notin {"convert", "delegations"}
        /\ phase' \in {phase, "prune"}
    BY <1>4 DEF Decode, Transfer, Balance, Prune
  <2>2. \A a \in Address : DelegatesBy(DelegatesOf(a), delegations[a])
    BY <2>1, DelegatedRight
  <2> QED
    BY <1>1, <2>1, <2>2, StaysDelegated
<1>5. CASE NextPass
  <2>1. CASE Begin("convert", "delegations", << 0 >>)
    BY <2>1, DelegateBegins
  <2>2. CASE /\ phase # "convert" /\ work = <<>> /\ tx' = tx /\ delegations' = delegations
             /\ phase' \notin {"convert", "delegations"}
    <3>1. \A a \in Address : DelegatesBy(DelegatesOf(a), delegations[a])
      BY <2>2, DelegatedRight, DelegateEnds
    <3> QED
      BY <1>1, <2>2, <3>1, StaysDelegated
  <2> QED
    BY <1>5, <2>1, <2>2 DEF NextPass, Begin
<1>6. CASE UNCHANGED vars
  <2>1. tx' = tx /\ phase' = phase /\ work' = work /\ delegations' = delegations
    BY <1>6 DEF vars
  <2>2. CASE phase = "convert"
    <3>1. delegations' = [a \in Address |-> <<>>] /\ ~After("delegations")'
      BY <2>1, <2>2, PassNames, Order DEF DelegateInv, After
    <3> QED
      BY <1>1, <2>1, <2>2, <3>1 DEF DelegateInv, Delegating, DelegationsRight
  <2>3. CASE phase = "delegations"
    <3>1. PICK seen \in SUBSET Calls : DelegatedSoFar(seen)
      BY <2>3 DEF DelegateInv, Delegating
    <3>2. Calls' = Calls /\ Level' = Level /\ \A a : DelegatesOf(a)' = DelegatesOf(a)
      BY <2>1, SameTree, SameMarks
    <3>3. DelegatedSoFar(seen)'
      <4>1. Walked(seen, ToSet(work), {})' /\ Levelled(seen)'
        BY <2>1, <3>1, <3>2 DEF DelegatedSoFar, Walked, Levelled
      <4>2. \A a \in Address : DelegatesBy(DelegatesOf(a) \cap seen, delegations[a])'
        BY <2>1, <3>1, <3>2 DEF DelegatedSoFar, DelegatesBy
      <4> QED
        BY <4>1, <4>2 DEF DelegatedSoFar
    <3>4. Delegating'
      BY <2>1, <2>3, <3>2, <3>3 DEF DelegateInv, Delegating
    <3>5. ~After("delegations")'
      BY <2>1, <2>3, PassNames, Order DEF After
    <3> QED
      BY <1>1, <2>1, <2>3, <3>4, <3>5 DEF DelegateInv, DelegationsRight
  <2>4. CASE phase \notin {"convert", "delegations"}
    <3>1. \A a \in Address : DelegatesBy(DelegatesOf(a), delegations[a])
      BY <2>4, DelegatedRight
    <3> QED
      BY <1>1, <2>1, <2>4, <3>1, StaysDelegated
  <2> QED
    BY <2>2, <2>3, <2>4
<1> QED
  BY <1>2, <1>3, <1>4, <1>5, <1>6 DEF Next, Finished

\* get_delegations goes level by level: its queue holds two levels at most, and
\* the delegates known so far are those of the calls it has visited.
THEOREM TreeDelegates == Spec => []DelegateInv
<1>1. Init => DelegateInv
  <2> SUFFICES ASSUME Init PROVE DelegateInv
    OBVIOUS
  <2>1. phase = "convert" /\ delegations = [a \in Address |-> <<>>] /\ ~After("delegations")
    BY PassNames, Order DEF Init, After
  <2> QED
    BY <2>1 DEF DelegateInv, Delegating, DelegationsRight
<1> QED
  BY <1>1, DelegateKept, TreeConverts, PTL DEF Spec

\* What get_delegations returns: the delegates of an account, each once, an
\* outermost one first, which get_proxies takes for the implementation.
THEOREM TreeDelegations == Spec => []DelegationsRight
<1>1. DelegateInv => DelegationsRight
  BY DEF DelegateInv
<1> QED
  BY <1>1, TreeDelegates, PTL

-----------------------------------------------------------------------------
(***************************************************************************)
(* The worklist of _decode_nested_calls.                                   *)
(***************************************************************************)
\* The worklist once its first entry has given way to the children of call c.
EntriesOn(list, c, children, longer) ==
  /\ longer \in Seq(Entry)
  /\ \A i \in DOMAIN longer :
       \/ i \in DOMAIN children /\ longer[i] = [call |-> children[i], above |-> c, index |-> i]
       \/ i > Len(children) /\ \E j \in DOMAIN list : j # 1 /\ j = i - Len(children) + 1 /\ longer[i] = list[j]
  /\ \A i \in DOMAIN children :
       i \in DOMAIN longer /\ longer[i] = [call |-> children[i], above |-> c, index |-> i]
  /\ \A j \in DOMAIN list : j # 1 => \E i \in DOMAIN longer : longer[i] = list[j]

LEMMA EntriesGrow ==
  ASSUME tx \in Transaction, NEW list \in Seq(Entry), list # <<>>, NEW c \in Calls, NEW children \in Seq(Calls)
  PROVE  EntriesOn(list, c, children, Entries(c, children) \o Tail(list))
<1>1. PICK e : e = Entries(c, children)
  OBVIOUS
<1>2. PICK t : t = Tail(list)
  OBVIOUS
<1>3. Calls \subseteq Call
  <2>1. tx.size \in Int /\ tx.size <= MaxCalls /\ MaxCalls \in Int /\ Calls = 0 .. tx.size
    BY TreeFacts, TreeAssumption
  <2> QED
    BY <2>1 DEF Call
<1>4. /\ DOMAIN children = 1 .. Len(children) /\ Len(children) \in Nat
      /\ \A i \in DOMAIN children : children[i] \in Calls
  BY LenProperties
<1>5. e = [i \in 1 .. Len(children) |-> [call |-> children[i], above |-> c, index |-> i]]
  BY <1>1, <1>4 DEF Entries
<1>6. \A i \in 1 .. Len(children) : [call |-> children[i], above |-> c, index |-> i] \in Entry
  BY <1>3, <1>4 DEF Entry
<1>7. e \in Seq(Entry)
  <2>1. e \in [1 .. Len(children) -> Entry]
    BY <1>5, <1>6
  <2> QED
    BY <1>4, <2>1, SeqDef
<1>8. Len(e) = Len(children)
  <2>1. DOMAIN e = 1 .. Len(children) /\ DOMAIN e = 1 .. Len(e) /\ Len(e) \in Nat
    BY <1>5, <1>7, LenProperties
  <2> QED
    BY <1>4, <2>1
<1>9. /\ t \in Seq(Entry) /\ Len(list) \in Nat /\ Len(t) = Len(list) - 1 /\ Len(t) \in Nat
      /\ DOMAIN list = 1 .. Len(list) /\ \A i \in 1 .. Len(t) : t[i] = list[i + 1]
  <2>1. t \in Seq(Entry) /\ Len(t) = Len(list) - 1 /\ \A i \in 1 .. Len(t) : t[i] = list[i + 1]
    BY <1>2, HeadTailProperties
  <2> QED
    BY <2>1, LenProperties
<1>10. PICK n : n = e \o t
  OBVIOUS
<1>11. /\ n \in Seq(Entry) /\ DOMAIN n = 1 .. Len(children) + Len(t)
       /\ \A i \in 1 .. Len(children) + Len(t) : n[i] = IF i <= Len(children) THEN e[i] ELSE t[i - Len(children)]
  <2>1. /\ n \in Seq(Entry) /\ Len(n) = Len(e) + Len(t) /\ DOMAIN n = 1 .. Len(n)
        /\ \A i \in 1 .. Len(e) + Len(t) : n[i] = IF i <= Len(e) THEN e[i] ELSE t[i - Len(e)]
    BY <1>7, <1>9, <1>10, ConcatProperties, LenProperties
  <2> QED
    BY <1>8, <2>1
<1>12. ASSUME NEW i \in DOMAIN children
       PROVE  i \in DOMAIN n /\ n[i] = [call |-> children[i], above |-> c, index |-> i]
  BY <1>4, <1>5, <1>9, <1>11
<1>13. ASSUME NEW i \in DOMAIN n, i \notin DOMAIN children
       PROVE  i > Len(children) /\ \E j \in DOMAIN list : j # 1 /\ j = i - Len(children) + 1 /\ n[i] = list[j]
  <2>1. i \in Nat /\ i > Len(children) /\ i - Len(children) \in 1 .. Len(t) /\ n[i] = t[i - Len(children)]
    BY <1>4, <1>9, <1>11, <1>13
  <2>2. PICK j : j = i - Len(children) + 1
    OBVIOUS
  <2>3. j \in DOMAIN list /\ j # 1
    BY <1>4, <1>9, <2>1, <2>2
  <2>4. n[i] = list[j]
    BY <1>9, <2>1, <2>2
  <2> QED
    BY <2>1, <2>2, <2>3, <2>4
<1>14. ASSUME NEW j \in DOMAIN list, j # 1 PROVE \E i \in DOMAIN n : n[i] = list[j]
  <2>1. PICK i : i = j - 1 + Len(children)
    OBVIOUS
  <2>2. i \in 1 .. Len(children) + Len(t) /\ ~(i <= Len(children)) /\ i - Len(children) = j - 1 /\ j - 1 \in 1 .. Len(t) /\ j - 1 + 1 = j
    BY <1>4, <1>9, <1>14, <2>1
  <2> QED
    BY <1>9, <1>11, <2>2
<1>15. EntriesOn(list, c, children, n)
  BY <1>11, <1>12, <1>13, <1>14 DEF EntriesOn
<1> QED
  BY <1>1, <1>2, <1>10, <1>15

\* An entry is for a call not visited yet, of a caller that was.
EntryKnown(seen, e) ==
  /\ e.call \in Calls /\ e.call \notin seen
  /\ e.above = None => e.call = 0
  /\ e.above # None => /\ e.above \in seen /\ e.call # 0 /\ tx.parent[e.call] = e.above
                       /\ e.index \in DOMAIN Kids(e.above) /\ Kids(e.above)[e.index] = e.call
                       /\ e.index > Len(decoded[e.above])

LEMMA EntryFacts ==
  ASSUME tx \in Transaction, EntriesGood, NEW seen \in SUBSET Calls, DecodedSoFar(seen), NEW i \in DOMAIN work
  PROVE  EntryKnown(seen, work[i])
<1>1. PICK e : e = work[i]
  OBVIOUS
<1>2. PICK W : W = {work[j].call : j \in DOMAIN work}
  OBVIOUS
<1>3. e.call \in W /\ Walked(seen, W, {}) /\ EntryGood(e)
  BY <1>1, <1>2 DEF DecodedSoFar, EntriesGood
<1>4. CASE e.above = None
  BY <1>1, <1>3, <1>4, TreeFacts DEF EntryGood, Walked, EntryKnown
<1>5. CASE e.above # None
  <2>1. /\ e.above \in Calls /\ e.index \in DOMAIN Kids(e.above) /\ Kids(e.above)[e.index] = e.call
        /\ e.index > Len(decoded[e.above])
    BY <1>3, <1>5 DEF EntryGood
  <2>2. e.call \in Below(e.above)
    <3>1. ToSet(Kids(e.above)) = Below(e.above)
      BY <2>1, KidsAre
    <3> QED
      BY <2>1, <3>1 DEF ToSet
  <2>3. e.call \in Calls /\ e.call # 0 /\ tx.parent[e.call] = e.above
    BY <2>2, TreeFacts DEF Below
  <2>4. e.above \in seen /\ e.call \notin seen
    BY <1>3, <2>3 DEF Walked
  <2> QED
    BY <1>1, <1>5, <2>1, <2>3, <2>4 DEF EntryKnown
<1> QED
  BY <1>4, <1>5

\* The step of Decode that takes entry e.
Taken(seen, e) ==
  /\ tx \in Transaction /\ tx' = tx
  /\ EntriesGood /\ seen \in SUBSET Calls /\ DecodedSoFar(seen)
  /\ 1 \in DOMAIN work /\ e = work[1] /\ EntryKnown(seen, e)
  /\ e.above # None => e.index = Len(decoded[e.above]) + 1
  /\ decoded \in [Calls -> Seq(Calls)] /\ id \in [Calls -> Seq(Nat)]
  /\ decoded' = IF e.above = None THEN decoded ELSE [decoded EXCEPT ![e.above] = Append(@, e.call)]
  /\ id' = IF e.above = None THEN id ELSE [id EXCEPT ![e.call] = Append(id[e.above], e.index - 1)]
  /\ EntriesOn(work, e.call, Kids(e.call), work')

LEMMA NextChild ==
  ASSUME tx \in Transaction, EntriesGood, NEW seen \in SUBSET Calls, DecodedSoFar(seen),
         decoded \in [Calls -> Seq(Calls)], 1 \in DOMAIN work, work[1].above # None
  PROVE  work[1].index = Len(decoded[work[1].above]) + 1
<1>1. PICK e : e = work[1]
  OBVIOUS
<1>2. PICK a : a = e.above
  OBVIOUS
<1>3. PICK n : n = Len(decoded[a])
  OBVIOUS
<1>4. EntryKnown(seen, e)
  BY <1>1, EntryFacts
<1>5. a \in seen /\ a \in Calls /\ e.index \in DOMAIN Kids(a) /\ e.index > n
  BY <1>1, <1>2, <1>3, <1>4 DEF EntryKnown
<1>6. n \in Nat /\ DOMAIN Kids(a) = 1 .. Len(Kids(a)) /\ Len(Kids(a)) \in Nat
  BY <1>3, <1>5, KidsAre, LenProperties
<1>7. ChildrenSoFar(a, seen)
  BY <1>5 DEF DecodedSoFar
<1>8. n + 1 \in n + 1 .. Len(Kids(a)) /\ e.index \in Nat
  BY <1>5, <1>6
<1>9. PICK i \in DOMAIN work : work[i].above = a /\ work[i].index = n + 1
  BY <1>3, <1>5, <1>7, <1>8 DEF ChildrenSoFar
<1>10. i # 1 => 1 < i /\ e.index < work[i].index
  <2>1. DOMAIN work = 1 .. Len(work)
    BY LenProperties DEF EntriesGood
  <2>2. i # 1 => 1 < i
    BY <2>1
  <2> QED
    BY <1>1, <1>2, <1>9, <2>2 DEF EntriesGood
<1>11. e.index = n + 1
  BY <1>1, <1>5, <1>6, <1>8, <1>9, <1>10
<1> QED
  BY <1>1, <1>2, <1>3, <1>11

LEMMA DecodeTakes ==
  ASSUME ConvertInv, DecodeInv, Decode
  PROVE  \E seen, e : Taken(seen, e)
<1>1. /\ tx \in Transaction /\ tx' = tx /\ phase = "decode" /\ work # <<>> /\ phase \in Range(Passes)
  BY DEF ConvertInv, Decode
<1>2. /\ subcalls = [k \in Calls |-> Kids(k)] /\ decoded \in [Calls -> Seq(Calls)]
      /\ id \in [Calls -> Seq(Nat)] /\ EntriesGood
  BY <1>1, Order DEF ConvertInv, Converted, DecodeInv, Decoding, After
<1>3. PICK seen \in SUBSET Calls : DecodedSoFar(seen)
  BY <1>1 DEF DecodeInv, Decoding
<1>4. work \in Seq(Entry) /\ 1 \in DOMAIN work /\ Head(work) = work[1]
  BY <1>1, <1>2, LenProperties, EmptySeq DEF EntriesGood
<1>5. PICK e : e = work[1]
  OBVIOUS
<1>6. EntryKnown(seen, e) /\ (e.above # None => e.index = Len(decoded[e.above]) + 1)
  BY <1>1, <1>2, <1>3, <1>4, <1>5, EntryFacts, NextChild
<1>7. e.call \in Calls
  BY <1>6 DEF EntryKnown
<1>8. /\ decoded' = IF e.above = None THEN decoded ELSE [decoded EXCEPT ![e.above] = Append(@, e.call)]
      /\ id' = IF e.above = None THEN id ELSE [id EXCEPT ![e.call] = Append(id[e.above], e.index - 1)]
      /\ work' = Entries(e.call, subcalls[e.call]) \o Tail(work)
  BY <1>4, <1>5 DEF Decode, Numbered
<1>9. EntriesOn(work, e.call, Kids(e.call), work')
  <2>1. PICK k \in Seq(Calls) : k = Kids(e.call)
    BY <1>1, <1>7, KidsAre
  <2>2. work' = Entries(e.call, k) \o Tail(work)
    BY <1>2, <1>7, <1>8, <2>1
  <2>3. EntriesOn(work, e.call, k, Entries(e.call, k) \o Tail(work))
    BY <1>1, <1>4, <1>7, EntriesGrow
  <2> QED
    BY <2>1, <2>2, <2>3
<1>10. Taken(seen, e)
  BY <1>1, <1>2, <1>3, <1>4, <1>5, <1>6, <1>8, <1>9 DEF Taken
<1> QED
  BY <1>10

LEMMA TakenLists ==
  ASSUME NEW seen, NEW e, Taken(seen, e)
  PROVE  /\ decoded' \in [Calls -> Seq(Calls)] /\ id' \in [Calls -> Seq(Nat)]
         /\ \A b \in Calls : b # e.above => decoded'[b] = decoded[b]
         /\ e.above # None => /\ e.above \in Calls /\ e.above \in seen
                              /\ decoded'[e.above] = Append(decoded[e.above], e.call)
                              /\ id'[e.call] = Append(id[e.above], e.index - 1)
         /\ \A b \in Calls : b # e.call \/ e.above = None => id'[b] = id[b]
<1>1. CASE e.above = None
  <2>1. None \notin Calls
    BY TreeFacts, TreeAssumption DEF Taken
  <2> QED
    BY <1>1, <2>1 DEF Taken
<1>2. CASE e.above # None
  <2>1. /\ e.above \in seen /\ e.above \in Calls /\ e.call \in Calls
        /\ e.index \in DOMAIN Kids(e.above) /\ tx \in Transaction
        /\ decoded \in [Calls -> Seq(Calls)] /\ id \in [Calls -> Seq(Nat)]
        /\ decoded' = [decoded EXCEPT ![e.above] = Append(@, e.call)]
        /\ id' = [id EXCEPT ![e.call] = Append(id[e.above], e.index - 1)]
    BY <1>2 DEF Taken, EntryKnown
  <2>2. e.index - 1 \in Nat
    <3>1. DOMAIN Kids(e.above) = 1 .. Len(Kids(e.above))
      BY <2>1, KidsAre, LenProperties
    <3> QED
      BY <2>1, <3>1
  <2>3. Append(decoded[e.above], e.call) \in Seq(Calls) /\ Append(id[e.above], e.index - 1) \in Seq(Nat)
    BY <2>1, <2>2, AppendProperties
  <2> QED
    BY <1>2, <2>1, <2>3
<1> QED
  BY <1>1, <1>2

\* Entry i of the new worklist is that of child i, or is the old entry j.
LEMMA TakenEntry ==
  ASSUME NEW seen, NEW e, Taken(seen, e), NEW i \in DOMAIN work'
  PROVE  \/ /\ i \in DOMAIN Kids(e.call) /\ work'[i] = [call |-> Kids(e.call)[i], above |-> e.call, index |-> i]
            /\ Kids(e.call)[i] \in Below(e.call)
         \/ /\ i > Len(Kids(e.call))
            /\ \E j \in DOMAIN work : /\ j # 1 /\ 1 < j /\ j = i - Len(Kids(e.call)) + 1
                                      /\ work'[i] = work[j] /\ EntryKnown(seen, work[j])
<1>1. /\ EntriesOn(work, e.call, Kids(e.call), work') /\ e.call \in Calls /\ work \in Seq(Entry)
      /\ tx \in Transaction /\ EntriesGood /\ seen \in SUBSET Calls /\ DecodedSoFar(seen)
  BY DEF Taken, EntryKnown, EntriesGood
<1>2. CASE i \in DOMAIN Kids(e.call) /\ work'[i] = [call |-> Kids(e.call)[i], above |-> e.call, index |-> i]
  <2>1. ToSet(Kids(e.call)) = Below(e.call)
    BY <1>1, KidsAre
  <2>2. Kids(e.call)[i] \in Below(e.call)
    BY <1>2, <2>1 DEF ToSet
  <2> QED
    BY <1>2, <2>2
<1>3. ASSUME i > Len(Kids(e.call)),
             NEW j \in DOMAIN work, j # 1, j = i - Len(Kids(e.call)) + 1, work'[i] = work[j]
      PROVE  1 < j /\ EntryKnown(seen, work[j])
  <2>1. DOMAIN work = 1 .. Len(work)
    BY <1>1, LenProperties
  <2>2. 1 < j
    BY <1>3, <2>1
  <2> QED
    BY <1>1, <2>2, EntryFacts
<1> QED
  BY <1>1, <1>2, <1>3 DEF EntriesOn

LEMMA TakenGoodEntry ==
  ASSUME NEW seen, NEW e, Taken(seen, e), NEW i \in DOMAIN work'
  PROVE  EntryGood(work[i])'
<1>1. /\ tx \in Transaction /\ tx' = tx /\ e.call \in Calls /\ e.call \notin seen /\ decoded \in [Calls -> Seq(Calls)]
      /\ seen \in SUBSET Calls /\ EntriesGood /\ DecodedSoFar(seen) /\ e = work[1] /\ 1 \in DOMAIN work
      /\ e.above # None => e.index = Len(decoded[e.above]) + 1
  BY DEF Taken, EntryKnown
<1>2. None \notin Calls
  BY <1>1, TreeFacts, TreeAssumption
<1>3. Calls' = Calls /\ \A k : Kids(k)' = Kids(k)
  BY <1>1, SameTree
<1>4. PICK w : w = work'[i]
  OBVIOUS
<1>5. ASSUME w.above = e.call, w.index = i, w.call = Kids(e.call)[i], i \in DOMAIN Kids(e.call)
      PROVE  EntryGood(w)'
  <2>1. e.above # e.call
    BY <1>1, <1>2, TakenLists
  <2>2. decoded'[e.call] = decoded[e.call]
    BY <1>1, <2>1, TakenLists
  <2>3. decoded[e.call] = <<>>
    BY <1>1 DEF DecodedSoFar, ChildrenSoFar
  <2>4. i > Len(decoded'[e.call])
    <3>1. DOMAIN Kids(e.call) = 1 .. Len(Kids(e.call))
      BY <1>1, KidsAre, LenProperties
    <3>2. i > 0
      BY <1>5, <3>1
    <3> QED
      BY <2>2, <2>3, <3>2
  <2> QED
    BY <1>1, <1>2, <1>3, <1>5, <2>4 DEF EntryGood
<1>6. ASSUME NEW j \in DOMAIN work, 1 < j, w = work[j], EntryKnown(seen, work[j])
      PROVE  EntryGood(w)'
  <2>1. CASE w.above = None
    BY <1>6, <2>1 DEF EntryGood, EntryKnown
  <2>2. CASE w.above # None
    <3>1. /\ w.above \in seen /\ w.above \in Calls /\ w.index \in DOMAIN Kids(w.above)
          /\ Kids(w.above)[w.index] = w.call /\ w.index > Len(decoded[w.above])
      BY <1>1, <1>6, <2>2 DEF EntryKnown
    <3>2. w.index > Len(decoded'[w.above])
      <4>1. CASE w.above = e.above
        <5>1. e.index < w.index /\ e.index = Len(decoded[e.above]) + 1
          BY <1>1, <1>6, <2>2, <4>1 DEF EntriesGood
        <5>2. decoded'[e.above] = Append(decoded[e.above], e.call) /\ e.above \in Calls
          BY <2>2, <4>1, TakenLists
        <5>3. Len(decoded'[e.above]) = Len(decoded[e.above]) + 1
          BY <1>1, <5>2, AppendProperties
        <5> QED
          BY <4>1, <5>1, <5>3
      <4>2. CASE w.above # e.above
        <5>1. decoded'[w.above] = decoded[w.above]
          BY <3>1, <4>2, TakenLists
        <5> QED
          BY <3>1, <5>1
      <4> QED
        BY <4>1, <4>2
    <3> QED
      BY <1>3, <2>2, <3>1, <3>2 DEF EntryGood
  <2> QED
    BY <2>1, <2>2
<1>7. EntryGood(w)'
  BY <1>4, <1>5, <1>6, TakenEntry
<1> QED
  BY <1>4, <1>7 DEF EntryGood

LEMMA TakenEntries ==
  ASSUME NEW seen, NEW e, Taken(seen, e)
  PROVE  EntriesGood'
<1>1. /\ tx \in Transaction /\ tx' = tx /\ e.call \in Calls /\ e.call \notin seen /\ seen \in SUBSET Calls
      /\ EntriesGood /\ DecodedSoFar(seen) /\ e = work[1] /\ 1 \in DOMAIN work
      /\ work' \in Seq(Entry)
  BY DEF Taken, EntryKnown, EntriesOn
<1>2. PICK k \in Seq(Calls) : k = Kids(e.call)
  BY <1>1, KidsAre
<1>3. /\ IsInjective(k) /\ DOMAIN k = 1 .. Len(k) /\ Len(k) \in Nat
      /\ DOMAIN work' = 1 .. Len(work') /\ DOMAIN work \subseteq Nat
  BY <1>1, <1>2, KidsAre, LenProperties DEF EntriesGood
<1>4. PICK W : W = {work[j].call : j \in DOMAIN work}
  OBVIOUS
<1>5. e.call \in W /\ Walked(seen, W, {})
  BY <1>1, <1>4 DEF DecodedSoFar
<1>6. Below(e.call) \cap W = {}
  <2>1. PICK c \in W : c = e.call
    BY <1>5
  <2>2. PICK F : F = Below(c)
    OBVIOUS
  <2>3. F \subseteq Below(c) /\ Below(c) \subseteq F \cup {}
    BY <2>2
  <2>4. F \cap W = {}
    BY <1>1, <1>5, <2>3, WalkedOn
  <2> QED
    BY <2>1, <2>2, <2>4
<1>7. \A j \in DOMAIN work : work[j].call \in W
  BY <1>4
<1>8. ASSUME NEW i \in DOMAIN work'
      PROVE  \/ /\ i \in DOMAIN k /\ work'[i].call = k[i] /\ work'[i].above = e.call /\ work'[i].index = i
                /\ k[i] \in Below(e.call)
             \/ /\ i > Len(k) /\ i \notin DOMAIN k
                /\ \E j \in DOMAIN work : /\ j = i - Len(k) + 1 /\ work'[i] = work[j]
                                          /\ EntryKnown(seen, work[j])
  <2>1. i > Len(k) => i \notin DOMAIN k
    BY <1>3
  <2> QED
    BY <1>2, <2>1, TakenEntry
<1>9. ASSUME NEW j \in DOMAIN work, EntryKnown(seen, work[j]) PROVE work[j].above # e.call
  <2>1. None \notin Calls
    BY <1>1, TreeFacts, TreeAssumption
  <2> QED
    BY <1>1, <1>9, <2>1 DEF EntryKnown
<1>10. ASSUME NEW i \in DOMAIN work', NEW j \in DOMAIN work', work'[i].call = work'[j].call PROVE i = j
  <2>1. CASE i \in DOMAIN k /\ j \in DOMAIN k
    BY <1>3, <1>8, <1>10, <2>1 DEF IsInjective
  <2>2. CASE i \notin DOMAIN k /\ j \notin DOMAIN k
    <3>1. PICK l \in DOMAIN work : l = i - Len(k) + 1 /\ work'[i] = work[l]
      BY <1>8, <2>2
    <3>2. PICK m \in DOMAIN work : m = j - Len(k) + 1 /\ work'[j] = work[m]
      BY <1>8, <2>2
    <3>3. l = m
      BY <1>1, <1>10, <3>1, <3>2 DEF EntriesGood
    <3> QED
      BY <1>3, <3>1, <3>2, <3>3
  <2> QED
    BY <1>6, <1>7, <1>8, <1>10, <2>1, <2>2
<1>11. ASSUME NEW i \in DOMAIN work', NEW j \in DOMAIN work', i < j, work'[i].above = work'[j].above
       PROVE  work'[i].index < work'[j].index
  <2>1. CASE i \in DOMAIN k /\ j \in DOMAIN k
    BY <1>8, <1>11, <2>1
  <2>2. CASE i \in DOMAIN k /\ j \notin DOMAIN k
    BY <1>8, <1>9, <1>11, <2>2
  <2>3. i \notin DOMAIN k => j \notin DOMAIN k
    BY <1>3, <1>11
  <2>4. CASE i \notin DOMAIN k /\ j \notin DOMAIN k
    <3>1. PICK l \in DOMAIN work : l = i - Len(k) + 1 /\ work'[i] = work[l]
      BY <1>8, <2>4
    <3>2. PICK m \in DOMAIN work : m = j - Len(k) + 1 /\ work'[j] = work[m]
      BY <1>8, <2>4
    <3>3. l < m
      BY <1>3, <1>11, <3>1, <3>2
    <3> QED
      BY <1>1, <1>11, <3>1, <3>2, <3>3 DEF EntriesGood
  <2> QED
    BY <2>1, <2>2, <2>3, <2>4
<1>12. \A i \in DOMAIN work' : EntryGood(work[i])'
  BY TakenGoodEntry
<1> QED
  BY <1>1, <1>10, <1>11, <1>12 DEF EntriesGood

LEMMA ChildEntry ==
  ASSUME NEW list, NEW c, NEW k, NEW longer, EntriesOn(list, c, k, longer), NEW i \in DOMAIN k
  PROVE  i \in DOMAIN longer /\ longer[i].call = k[i] /\ longer[i].above = c /\ longer[i].index = i
<1>1. i \in DOMAIN longer /\ longer[i] = [call |-> k[i], above |-> c, index |-> i]
  BY DEF EntriesOn
<1> QED
  BY <1>1

LEMMA TakenWalked ==
  ASSUME NEW seen, NEW e, Taken(seen, e), NEW past, Walked(past, {work[j].call : j \in DOMAIN work}, {})
  PROVE  Walked(past \cup {e.call}, {work'[i].call : i \in DOMAIN work'}, {})
<1>1. /\ tx \in Transaction /\ e.call \in Calls /\ seen \in SUBSET Calls
      /\ EntriesGood /\ e = work[1] /\ 1 \in DOMAIN work
      /\ EntriesOn(work, e.call, Kids(e.call), work')
  BY DEF Taken, EntryKnown
<1>2. PICK W : W = {work[j].call : j \in DOMAIN work}
  OBVIOUS
<1>3. PICK c \in W : c = e.call
  BY <1>1, <1>2
<1>4. PICK F : F = Below(c)
  OBVIOUS
<1>5. Walked(past, W, {}) /\ F \subseteq Below(c) /\ Below(c) \subseteq F \cup {}
  BY <1>2, <1>4
<1>6. Walked(past \cup {c}, (W \ {c}) \cup F, {})
  BY <1>1, <1>5, WalkedOn
<1>7. PICK N : N = {work'[i].call : i \in DOMAIN work'}
  OBVIOUS
<1>8. ToSet(Kids(c)) = F
  BY <1>1, <1>3, <1>4, KidsAre
<1>9. N \subseteq (W \ {c}) \cup F
  <2> SUFFICES ASSUME NEW i \in DOMAIN work' PROVE work'[i].call \in (W \ {c}) \cup F
    BY <1>7
  <2>1. ASSUME NEW j \in DOMAIN work, 1 < j, work'[i] = work[j] PROVE work'[i].call \in W \ {c}
    <3>1. j # 1
      BY <2>1, LenProperties DEF EntriesGood
    <3>2. work[j].call # c
      BY <1>1, <1>3, <3>1 DEF EntriesGood
    <3> QED
      BY <1>2, <2>1, <3>2
  <2> QED
    BY <1>3, <1>4, <2>1, TakenEntry
<1>10. F \subseteq N
  <2>1. PICK k : k = Kids(c)
    OBVIOUS
  <2>2. EntriesOn(work, c, k, work')
    BY <1>1, <1>3, <2>1
  <2>3. \A i \in DOMAIN k : i \in DOMAIN work' /\ work'[i].call = k[i]
    BY <2>2, ChildEntry
  <2>4. \A i \in DOMAIN k : k[i] \in N
    BY <1>7, <2>3
  <2> QED
    BY <1>8, <2>1, <2>4 DEF ToSet
<1>11. W \ {c} \subseteq N
  <2>1. ASSUME NEW j \in DOMAIN work, work[j].call # c PROVE work[j].call \in N
    <3>1. j # 1
      BY <1>1, <1>3, <2>1
    <3>2. PICK i \in DOMAIN work' : work'[i] = work[j]
      BY <1>1, <3>1 DEF EntriesOn
    <3> QED
      BY <1>7, <3>2
  <2> QED
    BY <1>2, <2>1
<1>12. N = (W \ {c}) \cup F
  BY <1>9, <1>10, <1>11
<1> QED
  BY <1>3, <1>6, <1>7, <1>12

LEMMA TakenChildren ==
  ASSUME NEW seen, NEW e, Taken(seen, e), NEW b \in Calls
  PROVE  ChildrenSoFar(b, seen \cup {e.call})'
<1>1. /\ tx \in Transaction /\ tx' = tx /\ e.call \in Calls /\ e.call \notin seen
      /\ seen \in SUBSET Calls /\ DecodedSoFar(seen) /\ e = work[1] /\ 1 \in DOMAIN work
      /\ EntriesOn(work, e.call, Kids(e.call), work') /\ decoded \in [Calls -> Seq(Calls)]
      /\ e.above # None => e.index = Len(decoded[e.above]) + 1
  BY DEF Taken, EntryKnown
<1>2. None \notin Calls
  BY <1>1, TreeFacts, TreeAssumption
<1>3. Kids(b)' = Kids(b) /\ Kids(b) \in Seq(Calls) /\ ChildrenSoFar(b, seen)
  BY <1>1, SameTree, KidsAre DEF DecodedSoFar
<1>4. PICK d : d = decoded[b]
  OBVIOUS
<1>5. PICK k \in Seq(Calls) : k = Kids(b)
  BY <1>3
<1>6. /\ d \in Seq(Calls) /\ DOMAIN d = 1 .. Len(d) /\ Len(d) \in Nat
      /\ DOMAIN k = 1 .. Len(k) /\ Len(k) \in Nat
  BY <1>1, <1>4, <1>5, LenProperties
<1>0. /\ e.above # None => e.above \in seen /\ decoded'[e.above] = Append(decoded[e.above], e.call)
      /\ b # e.above => decoded'[b] = d
  BY <1>4, TakenLists
<1>7. CASE b \notin seen \cup {e.call}
  <2>1. b # e.above
    BY <1>0, <1>2, <1>7
  <2>2. d = <<>>
    BY <1>3, <1>4, <1>7 DEF ChildrenSoFar
  <2> QED
    BY <1>0, <1>7, <2>1, <2>2 DEF ChildrenSoFar
<1>8. CASE b = e.call
  <2>1. b # e.above
    BY <1>0, <1>1, <1>2, <1>8
  <2>0. d = <<>>
    BY <1>1, <1>3, <1>4, <1>8 DEF ChildrenSoFar
  <2>2. decoded'[b] = <<>> /\ Len(decoded'[b]) = 0 /\ DOMAIN decoded'[b] = {}
    BY <1>0, <2>0, <2>1
  <2>3. ASSUME NEW n \in 0 + 1 .. Len(k) PROVE \E i \in DOMAIN work' : work'[i].above = b /\ work'[i].index = n
    <3>1. EntriesOn(work, b, k, work') /\ n \in DOMAIN k
      BY <1>1, <1>5, <1>6, <1>8, <2>3
    <3> QED
      BY <3>1, ChildEntry
  <2> QED
    BY <1>3, <1>5, <1>6, <1>8, <2>2, <2>3 DEF ChildrenSoFar
<1>9. ASSUME b \in seen, b # e.call
      PROVE  /\ Len(d) <= Len(k) /\ \A n \in DOMAIN d : d[n] = k[n]
             /\ \A n \in Len(d) + 1 .. Len(k) : \E i \in DOMAIN work : work[i].above = b /\ work[i].index = n
  BY <1>3, <1>4, <1>5, <1>9 DEF ChildrenSoFar
<1>10. CASE b \in seen /\ b # e.above
  <2>1. b # e.call /\ decoded'[b] = d
    BY <1>0, <1>1, <1>10
  <2>2. ASSUME NEW n \in Len(d) + 1 .. Len(k) PROVE \E i \in DOMAIN work' : work'[i].above = b /\ work'[i].index = n
    <3>1. PICK j \in DOMAIN work : work[j].above = b /\ work[j].index = n
      BY <1>9, <1>10, <2>1, <2>2
    <3>2. j # 1
      BY <1>1, <1>10, <3>1
    <3>3. PICK i \in DOMAIN work' : work'[i] = work[j]
      BY <1>1, <3>2 DEF EntriesOn
    <3> QED
      BY <3>1, <3>3
  <2> QED
    BY <1>3, <1>5, <1>9, <1>10, <2>1, <2>2 DEF ChildrenSoFar
<1>11. CASE b \in seen /\ b = e.above
  <2>1. PICK m : m = decoded'[b]
    OBVIOUS
  <2>2. b # e.call /\ b # None /\ m = Append(d, e.call)
    BY <1>0, <1>1, <1>2, <1>4, <1>11, <2>1
  <2>3. /\ Len(m) = Len(d) + 1 /\ DOMAIN m = 1 .. Len(m) /\ m \in Seq(Calls)
        /\ \A n \in 1 .. Len(d) : m[n] = d[n]
        /\ m[Len(d) + 1] = e.call
    <3>1. /\ m \in Seq(Calls) /\ Len(m) = Len(d) + 1 /\ \A n \in 1 .. Len(d) : m[n] = d[n]
          /\ m[Len(d) + 1] = e.call
      BY <1>1, <1>6, <2>2, AppendProperties
    <3> QED
      BY <3>1, LenProperties
  <2>4. e.index = Len(d) + 1 /\ e.index \in DOMAIN k /\ k[e.index] = e.call
    BY <1>1, <1>4, <1>5, <1>11, <2>2 DEF Taken, EntryKnown
  <2>5. Len(m) <= Len(k) /\ \A n \in DOMAIN m : m[n] = k[n]
    <3>1. Len(d) + 1 <= Len(k)
      BY <1>6, <2>4
    <3>2. ASSUME NEW n \in DOMAIN m PROVE m[n] = k[n]
      <4>1. n \in DOMAIN d \/ n = Len(d) + 1
        BY <1>6, <2>3
      <4>2. CASE n \in DOMAIN d
        BY <1>6, <1>9, <1>11, <2>2, <2>3, <4>2
      <4>3. CASE n = Len(d) + 1
        BY <2>3, <2>4, <4>3
      <4> QED
        BY <4>1, <4>2, <4>3
    <3> QED
      BY <2>3, <3>1, <3>2
  <2>6. ASSUME NEW n \in Len(m) + 1 .. Len(k) PROVE \E i \in DOMAIN work' : work'[i].above = b /\ work'[i].index = n
    <3>1. n \in Len(d) + 1 .. Len(k) /\ n # Len(d) + 1
      BY <1>6, <2>3, <2>6
    <3>2. PICK j \in DOMAIN work : work[j].above = b /\ work[j].index = n
      BY <1>9, <1>11, <2>2, <3>1
    <3>3. j # 1
      BY <1>1, <2>4, <3>1, <3>2
    <3>4. PICK i \in DOMAIN work' : work'[i] = work[j]
      BY <1>1, <3>3 DEF EntriesOn
    <3> QED
      BY <3>2, <3>4
  <2> QED
    BY <1>3, <1>5, <1>11, <2>1, <2>5, <2>6 DEF ChildrenSoFar
<1> QED
  BY <1>7, <1>8, <1>10, <1>11

LEMMA TakenIds ==
  ASSUME NEW seen, NEW e, Taken(seen, e), NEW b \in Calls
  PROVE  IF b \in seen \cup {e.call} THEN IdRight(b)' ELSE id'[b] = <<>>
<1>1. /\ tx \in Transaction /\ tx' = tx /\ e.call \in Calls /\ e.call \notin seen
      /\ seen \in SUBSET Calls /\ DecodedSoFar(seen) /\ EntryKnown(seen, e)
  BY DEF Taken, EntryKnown
<1>2. None \notin Calls
  BY <1>1, TreeFacts, TreeAssumption
<1>3. \A k : Kids(k)' = Kids(k)
  BY <1>1, SameTree
<1>4. CASE b \notin seen \cup {e.call}
  <2>1. id'[b] = id[b]
    BY <1>4, TakenLists
  <2>2. id[b] = <<>>
    BY <1>1, <1>4 DEF DecodedSoFar
  <2> QED
    BY <1>4, <2>1, <2>2
<1>5. CASE b \in seen
  <2>1. b # e.call /\ IdRight(b) /\ id'[b] = id[b]
    BY <1>1, <1>5, TakenLists DEF DecodedSoFar
  <2>2. CASE b = 0
    BY <1>5, <2>1, <2>2 DEF IdRight
  <2>3. CASE b # 0
    <3>1. tx.parent[b] \in seen
      BY <1>1, <1>5, <2>3 DEF DecodedSoFar, Walked
    <3>2. PICK p \in Calls : p = tx.parent[b] /\ p # e.call
      BY <1>1, <3>1
    <3>3. id'[p] = id[p]
      BY <3>2, TakenLists
    <3> QED
      BY <1>1, <1>3, <1>5, <2>1, <2>3, <3>2, <3>3 DEF IdRight
  <2> QED
    BY <2>2, <2>3
<1>6. CASE b = e.call
  <2>1. CASE e.above = None
    <3>1. b = 0 /\ id'[b] = <<>>
      BY <1>1, <1>6, <2>1, TakenLists DEF EntryKnown, DecodedSoFar
    <3> QED
      BY <1>6, <3>1 DEF IdRight
  <2>2. CASE e.above # None
    <3>1. /\ b # 0 /\ tx.parent[b] = e.above /\ e.index \in DOMAIN Kids(e.above)
          /\ Kids(e.above)[e.index] = b /\ e.above \in seen
      BY <1>1, <1>6, <2>2 DEF EntryKnown
    <3>2. id'[b] = Append(id[e.above], e.index - 1) /\ id'[e.above] = id[e.above]
      BY <1>1, <1>6, <2>2, <3>1, TakenLists
    <3> QED
      BY <1>1, <1>3, <1>6, <3>1, <3>2 DEF IdRight
  <2> QED
    BY <2>1, <2>2
<1> QED
  BY <1>4, <1>5, <1>6

LEMMA DecodeStep ==
  ASSUME ConvertInv, DecodeInv, Decode
  PROVE  DecodeInv'
<1>1. PICK seen, e : Taken(seen, e)
  BY DecodeTakes
<1>2. /\ tx \in Transaction /\ tx' = tx /\ phase = "decode" /\ phase' = phase /\ phase \in Range(Passes)
      /\ seen \in SUBSET Calls /\ e.call \in Calls
  BY <1>1 DEF ConvertInv, Decode, Taken, EntryKnown
<1>3. Calls' = Calls
  BY <1>2, SameTree
<1>4. DecodedSoFar(seen \cup {e.call})'
  <2>1. Walked(seen \cup {e.call}, {work[i].call : i \in DOMAIN work}, {})'
    <3>1. PICK N : N = {work'[i].call : i \in DOMAIN work'}
      OBVIOUS
    <3>2. Walked(seen \cup {e.call}, N, {})
      <4>1. Walked(seen, {work[j].call : j \in DOMAIN work}, {})
        BY <1>1 DEF Taken, DecodedSoFar
      <4> QED
        BY <1>1, <3>1, <4>1, TakenWalked
    <3> QED
      BY <1>2, <3>1, <3>2 DEF Walked
  <2>2. \A c \in Calls : ChildrenSoFar(c, seen \cup {e.call})'
    BY <1>1, TakenChildren
  <2>3. \A c \in Calls : (IF c \in seen \cup {e.call} THEN IdRight(c) ELSE id[c] = <<>>)'
    BY <1>1, TakenIds
  <2> QED
    BY <1>3, <2>1, <2>2, <2>3 DEF DecodedSoFar
<1>5. EntriesGood'
  BY <1>1, TakenEntries
<1>6. seen \cup {e.call} \in SUBSET Calls'
  BY <1>2, <1>3
<1>7. Decoding'
  BY <1>4, <1>5, <1>6 DEF Decoding
<1>8. ~After("decode")'
  BY <1>2, Order DEF After
<1>9. decoded' \in [Calls' -> Seq(Calls')] /\ id' \in [Calls' -> Seq(Nat)]
  BY <1>1, <1>3, TakenLists
<1> QED
  BY <1>2, <1>7, <1>8, <1>9 DEF DecodeInv

LEMMA DecodeWaits ==
  ASSUME tx' = tx, decoded' = decoded, id' = id,
         decoded = [c \in Calls |-> <<>>], id = [c \in Calls |-> <<>>],
         phase' \in {"convert", "delegations"}
  PROVE  DecodeInv'
<1>1. Calls' = Calls
  BY SameTree
<1>2. ~After("decode")'
  BY PassNames, Order DEF After
<1>3. decoded' \in [Calls' -> Seq(Calls')] /\ id' \in [Calls' -> Seq(Nat)]
  BY <1>1, EmptyList
<1> QED
  BY <1>1, <1>2, <1>3 DEF DecodeInv, Decoding

LEMMA DecodeBegins ==
  ASSUME ConvertInv, DecodeInv, Begin("delegations", "decode", Root)
  PROVE  DecodeInv'
<1>1. /\ tx \in Transaction /\ tx' = tx /\ phase' = "decode" /\ work' = Root
      /\ decoded' = [c \in Calls |-> <<>>] /\ id' = [c \in Calls |-> <<>>]
  BY DEF ConvertInv, DecodeInv, Begin
<1>2. Calls' = Calls /\ 0 \in Calls /\ 0 \in Call /\ None \notin Calls
  BY <1>1, SameTree, TreeFacts, TreeAssumption DEF Call
<1>3. PICK e : e = [call |-> 0, above |-> None, index |-> 0]
  OBVIOUS
<1>4. work' = <<e>> /\ DOMAIN work' = {1} /\ work'[1] = e
  BY <1>1, <1>3 DEF Root
<1>5. e \in Entry /\ e.above = None /\ e.call = 0
  BY <1>2, <1>3 DEF Entry
<1>6. EntriesGood'
  <2>1. work' \in Seq(Entry)
    BY <1>4, <1>5
  <2>2. \A i \in DOMAIN work' : EntryGood(work[i])'
    BY <1>4, <1>5 DEF EntryGood
  <2> QED
    BY <1>4, <2>1, <2>2 DEF EntriesGood
<1>7. DecodedSoFar({})'
  <2>1. Walked({}, {work[i].call : i \in DOMAIN work}, {})'
    <3>1. {work'[i].call : i \in DOMAIN work'} = {0}
      BY <1>4, <1>5
    <3>2. Walked({}, {0}, {})
      BY <1>1, StartsAtRoot
    <3> QED
      BY <1>1, <3>1, <3>2 DEF Walked
  <2> QED
    BY <1>1, <1>2, <2>1 DEF DecodedSoFar, ChildrenSoFar
<1>8. Decoding'
  BY <1>6, <1>7 DEF Decoding
<1>9. ~After("decode")'
  BY <1>1, PassNames, Order DEF After
<1>10. decoded' \in [Calls' -> Seq(Calls')] /\ id' \in [Calls' -> Seq(Nat)]
  BY <1>1, <1>2, EmptyList
<1> QED
  BY <1>1, <1>8, <1>9, <1>10 DEF DecodeInv

LEMMA DecodeEnds ==
  ASSUME ConvertInv, DecodeInv, phase = "decode", work = <<>>
  PROVE  decoded = [c \in Calls |-> Kids(c)] /\ \A c \in Calls : IdRight(c)
<1>1. tx \in Transaction /\ phase \in Range(Passes)
  BY DEF ConvertInv
<1>2. decoded \in [Calls -> Seq(Calls)]
  BY <1>1, Order DEF DecodeInv, After
<1>3. PICK seen \in SUBSET Calls : DecodedSoFar(seen)
  BY DEF DecodeInv, Decoding
<1>4. DOMAIN work = {} /\ {work[i].call : i \in DOMAIN work} = {}
  OBVIOUS
<1>5. Calls \subseteq seen
  <2>1. Walked(seen, {}, {})
    BY <1>3, <1>4 DEF DecodedSoFar
  <2> QED
    BY <1>1, <2>1, AllSeen
<1>6. ASSUME NEW c \in Calls PROVE decoded[c] = Kids(c)
  <2>1. PICK d \in Seq(Calls) : d = decoded[c]
    BY <1>2
  <2>2. PICK k \in Seq(Calls) : k = Kids(c)
    BY <1>1, KidsAre
  <2>3. /\ Len(d) <= Len(k) /\ \A n \in DOMAIN d : d[n] = k[n]
        /\ \A n \in Len(d) + 1 .. Len(k) : FALSE
    BY <1>3, <1>4, <1>5, <2>1, <2>2 DEF DecodedSoFar, ChildrenSoFar
  <2>4. Len(d) \in Nat /\ Len(k) \in Nat /\ DOMAIN d = 1 .. Len(d)
    BY LenProperties
  <2>5. Len(d) = Len(k)
    <3>1. ~(Len(d) + 1 <= Len(k))
      BY <2>3, <2>4
    <3> QED
      BY <2>3, <2>4, <3>1
  <2>6. d = k
    BY <2>3, <2>4, <2>5, SeqEqual
  <2> QED
    BY <2>1, <2>2, <2>6
<1>7. \A c \in Calls : IdRight(c)
  BY <1>3, <1>5 DEF DecodedSoFar
<1> QED
  BY <1>2, <1>6, <1>7

\* Once the ids are right they stay so.
LEMMA StaysDecoded ==
  ASSUME tx' = tx, id' = id, id \in [Calls -> Seq(Nat)], \A c \in Calls : IdRight(c),
         phase' \in {"transfers", "balances", "prune", "done"},
         phase' \notin {"prune", "done"} => decoded' = subcalls'
  PROVE  DecodeInv'
<1>1. Calls' = Calls /\ \A c : Kids(c)' = Kids(c)
  BY SameTree
<1>2. After("decode")'
  BY PassNames, Order DEF After
<1>3. \A c \in Calls' : IdRight(c)'
  BY <1>1 DEF IdRight
<1> QED
  BY <1>1, <1>2, <1>3 DEF DecodeInv, Decoding

LEMMA DecodeStutters ==
  ASSUME ConvertInv, DecodeInv, phase = "decode",
         tx' = tx, phase' = phase, work' = work, decoded' = decoded, id' = id
  PROVE  DecodeInv'
<1>1. phase \in Range(Passes)
  BY DEF ConvertInv
<1>2. PICK seen \in SUBSET Calls : DecodedSoFar(seen)
  BY DEF DecodeInv, Decoding
<1>3. Calls' = Calls /\ \A k : Kids(k)' = Kids(k)
  BY SameTree
<1>4. \A e : EntryGood(e)' <=> EntryGood(e)
  BY <1>3 DEF EntryGood
<1>5. EntriesGood'
  BY <1>4 DEF DecodeInv, Decoding, EntriesGood
<1>6. \A c, s : ChildrenSoFar(c, s)' <=> ChildrenSoFar(c, s)
  BY <1>3 DEF ChildrenSoFar
<1>7. \A c : IdRight(c)' <=> IdRight(c)
  BY <1>3 DEF IdRight
<1>8. DecodedSoFar(seen)'
  BY <1>2, <1>3, <1>6, <1>7 DEF DecodedSoFar, Walked
<1>9. Decoding'
  BY <1>2, <1>3, <1>5, <1>8 DEF Decoding
<1>10. ~After("decode")' /\ ~After("decode")
  BY <1>1, Order DEF After
<1> QED
  BY <1>3, <1>9, <1>10 DEF DecodeInv

LEMMA DecodeKept ==
  ConvertInv /\ DecodeInv /\ [Next]_vars => DecodeInv'
<1> SUFFICES ASSUME ConvertInv, DecodeInv, [Next]_vars PROVE DecodeInv'
  OBVIOUS
<1>1. /\ tx \in Transaction /\ phase \in Range(Passes) /\ id \in [Calls -> Seq(Nat)]
      /\ phase \in {"convert", "delegations", "decode", "transfers", "balances", "prune", "done"}
  BY Order DEF ConvertInv, DecodeInv
<1>2. ASSUME phase \in {"convert", "delegations"}
      PROVE  decoded = [c \in Calls |-> <<>>] /\ id = [c \in Calls |-> <<>>]
  BY <1>2 DEF DecodeInv
<1>3. ASSUME phase \in {"transfers", "balances", "prune", "done"}
      PROVE  (\A c \in Calls : IdRight(c)) /\ (phase \notin {"prune", "done"} => decoded = subcalls)
  BY <1>1, <1>3, Order DEF DecodeInv, After
<1>4. CASE Convert \/ Delegate
  BY <1>2, <1>4, DecodeWaits DEF Convert, Delegate
<1>5. CASE Decode
  BY <1>5, DecodeStep
<1>6. CASE Transfer \/ Balance \/ Prune
  <2>1. /\ tx' = tx /\ id' = id /\ phase \in {"transfers", "balances", "prune"}
        /\ phase' \in {"transfers", "prune"}
        /\ phase' = "transfers" => phase = "transfers" /\ decoded' = decoded /\ subcalls' = subcalls
    BY <1>6 DEF Transfer, Balance, Prune
  <2> QED
    BY <1>1, <1>3, <2>1, StaysDecoded
<1>7. CASE NextPass
  <2>1. CASE Begin("convert", "delegations", << 0 >>)
    BY <1>2, <2>1, DecodeWaits DEF Begin
  <2>2. CASE Begin("delegations", "decode", Root)
    BY <2>2, DecodeBegins
  <2>3. CASE Begin("decode", "transfers", << 0 >>)
    <3>1. /\ phase = "decode" /\ work = <<>> /\ phase' = "transfers" /\ tx' = tx /\ id' = id
          /\ decoded' = decoded /\ subcalls' = subcalls
      BY <2>3 DEF Begin
    <3>2. subcalls = [c \in Calls |-> Kids(c)]
      BY <1>1, <3>1, Order DEF ConvertInv, Converted, After
    <3>3. decoded' = subcalls' /\ \A c \in Calls : IdRight(c)
      BY <3>1, <3>2, DecodeEnds
    <3> QED
      BY <1>1, <3>1, <3>3, StaysDecoded
  <2>4. CASE Begin("transfers", "balances", <<>>) \/ Begin("prune", "done", <<>>)
    <3>1. /\ tx' = tx /\ id' = id /\ phase \in {"transfers", "prune"}
          /\ phase' \in {"balances", "done"}
          /\ phase' = "balances" => phase = "transfers" /\ decoded' = decoded /\ subcalls' = subcalls
      BY <2>4 DEF Begin
    <3> QED
      BY <1>1, <1>3, <3>1, StaysDecoded
  <2> QED
    BY <1>7, <2>1, <2>2, <2>3, <2>4 DEF NextPass
<1>8. CASE UNCHANGED vars
  <2>1. /\ tx' = tx /\ phase' = phase /\ work' = work /\ subcalls' = subcalls
        /\ decoded' = decoded /\ id' = id
    BY <1>8 DEF vars
  <2>2. CASE phase \in {"convert", "delegations"}
    BY <1>2, <2>1, <2>2, DecodeWaits
  <2>3. CASE phase = "decode"
    BY <2>1, <2>3, DecodeStutters
  <2>4. CASE phase \in {"transfers", "balances", "prune", "done"}
    BY <1>1, <1>3, <2>1, <2>4, StaysDecoded
  <2> QED
    BY <1>1, <2>2, <2>3, <2>4
<1> QED
  BY <1>4, <1>5, <1>6, <1>7, <1>8 DEF Next, Finished

LEMMA IdsUnique ==
  ASSUME tx \in Transaction, id \in [Calls -> Seq(Nat)], \A c \in Calls : IdRight(c)
  PROVE  \A c, d \in Calls : id[c] = id[d] => c = d
<1> DEFINE T == {c \in Calls : \E d \in Calls : id[c] = id[d] /\ c # d}
<1> SUFFICES ASSUME T # {} PROVE FALSE
  OBVIOUS
<1>1. T \subseteq Nat
  BY TreeFacts
<1>2. PICK c \in T : \A b \in T : c <= b
  BY <1>1, LeastNumber
<1>3. PICK d \in Calls : id[c] = id[d] /\ c # d
  BY <1>2
<1>4. ASSUME NEW b \in Calls, b # 0
      PROVE  \E p \in Calls : \E n \in DOMAIN Kids(p) :
               /\ p < b /\ Kids(p)[n] = b /\ n - 1 \in Nat /\ n \in Nat /\ id[p] \in Seq(Nat)
               /\ id[b] = Append(id[p], n - 1) /\ id[b] # <<>>
  <2>1. PICK p \in Calls : p = tx.parent[b] /\ p < b
    BY <1>4, TreeFacts
  <2>2. PICK n \in DOMAIN Kids(p) : Kids(p)[n] = b /\ id[b] = Append(id[p], n - 1)
    BY <1>4, <2>1 DEF IdRight
  <2>3. n \in Nat /\ n - 1 \in Nat
    <3>1. DOMAIN Kids(p) = 1 .. Len(Kids(p))
      BY <2>1, KidsAre, LenProperties
    <3> QED
      BY <2>2, <3>1
  <2>4. id[b] # <<>>
    <3>1. PICK s \in Seq(Nat) : s = id[p]
      BY <2>1
    <3>2. PICK k \in Nat : k = n - 1
      BY <2>3
    <3>3. Append(s, k) # <<>>
      BY AppendProperties
    <3> QED
      BY <2>2, <3>1, <3>2, <3>3
  <2> QED
    BY <2>1, <2>2, <2>3, <2>4
<1>5. c \in Calls /\ (c = 0 => id[c] = <<>>) /\ (d = 0 => id[d] = <<>>)
  BY <1>2, <1>3 DEF IdRight
<1>6. c # 0 /\ d # 0
  BY <1>3, <1>4, <1>5
<1>7. PICK p \in Calls, n \in Nat : p < c /\ Kids(p)[n] = c /\ n - 1 \in Nat /\ id[p] \in Seq(Nat) /\ id[c] = Append(id[p], n - 1)
  BY <1>4, <1>5, <1>6
<1>8. PICK q \in Calls, m \in Nat : q < d /\ Kids(q)[m] = d /\ m - 1 \in Nat /\ id[q] \in Seq(Nat) /\ id[d] = Append(id[q], m - 1)
  BY <1>4, <1>6
<1>9. id[p] = id[q] /\ n - 1 = m - 1
  <2>1. PICK s \in Seq(Nat), k \in Nat : s = id[p] /\ k = n - 1
    BY <1>7
  <2>2. PICK t \in Seq(Nat), l \in Nat : t = id[q] /\ l = m - 1
    BY <1>8
  <2>3. Append(s, k) = Append(t, l)
    BY <1>3, <1>7, <1>8, <2>1, <2>2
  <2>4. s = t /\ k = l
    BY <2>3, AppendInjective
  <2> QED
    BY <2>1, <2>2, <2>4
<1>10. n = m
  BY <1>9
<1>11. p \notin T
  <2>1. p \in Nat /\ c \in Nat /\ p < c
    BY <1>1, <1>2, <1>7, TreeFacts
  <2> QED
    BY <1>2, <2>1
<1>12. p = q
  BY <1>9, <1>11
<1> QED
  BY <1>3, <1>7, <1>8, <1>10, <1>12

\* _decode_nested_calls has put below each call its first children, in order, and
\* the others wait; the ids given so far are those of the places in the tree.
THEOREM TreeDecodes == Spec => []DecodeInv
<1>1. Init => DecodeInv
  <2> SUFFICES ASSUME Init PROVE DecodeInv
    OBVIOUS
  <2>1. /\ phase = "convert" /\ ~After("decode")
        /\ decoded = [c \in Calls |-> <<>>] /\ id = [c \in Calls |-> <<>>]
    BY PassNames, Order DEF Init, After
  <2>2. decoded \in [Calls -> Seq(Calls)] /\ id \in [Calls -> Seq(Nat)]
    BY <2>1, EmptyList
  <2> QED
    BY <2>1, <2>2 DEF DecodeInv, Decoding
<1> QED
  BY <1>1, DecodeKept, TreeConverts, PTL DEF Spec

\* The decoded tree is the tree of calls until it is pruned, and no two decoded
\* calls have one id.
THEOREM TreeDecoded == Spec => []DecodedAsCalled
<1>1. ConvertInv /\ DecodeInv => DecodedAsCalled
  <2> SUFFICES ASSUME ConvertInv, DecodeInv, After("decode") PROVE DecodedAsCalled
    BY DEF DecodedAsCalled
  <2>1. tx \in Transaction /\ id \in [Calls -> Seq(Nat)] /\ \A c \in Calls : IdRight(c)
    BY DEF ConvertInv, DecodeInv
  <2>2. \A c, d \in Calls : id[c] = id[d] => c = d
    BY <2>1, IdsUnique
  <2> QED
    BY <2>2 DEF DecodeInv, DecodedAsCalled
<1> QED
  BY <1>1, TreeDecodes, TreeConverts, PTL

-----------------------------------------------------------------------------
(***************************************************************************)
(* The ether of a set of calls.  The fold that adds it up is a function    *)
(* defined by recursion over sets: that there is one, and that the order   *)
(* of the calls does not matter, follows number by number.                 *)
(***************************************************************************)
\* f adds up the values of any set of numbers below n.
Adds(f, v, n) ==
  /\ f \in [SUBSET (0 .. n - 1) -> Int] /\ f[{}] = 0
  /\ \A S \in SUBSET (0 .. n - 1) : \A x \in S : f[S] = v[x] + f[S \ {x}]

LEMMA OneMoreAdded ==
  ASSUME NEW n \in Nat, NEW v, v[n] \in Int, \A i \in 0 .. n - 1 : v[i] \in Int, \E f : Adds(f, v, n)
  PROVE  \E f : Adds(f, v, n + 1)
<1>1. PICK f : Adds(f, v, n)
  OBVIOUS
<1>2. /\ f \in [SUBSET (0 .. n - 1) -> Int] /\ f[{}] = 0
      /\ \A S \in SUBSET (0 .. n - 1) : \A x \in S : f[S] = v[x] + f[S \ {x}]
  BY <1>1 DEF Adds
<1> DEFINE g == [S \in SUBSET (0 .. n) |-> IF n \in S THEN v[n] + f[S \ {n}] ELSE f[S]]
<1>3. \A S \in SUBSET (0 .. n) : /\ S \ {n} \in SUBSET (0 .. n - 1)
                                 /\ n \notin S => S \in SUBSET (0 .. n - 1)
  OBVIOUS
<1>4. g \in [SUBSET (0 .. n) -> Int]
  <2> SUFFICES ASSUME NEW S \in SUBSET (0 .. n) PROVE (IF n \in S THEN v[n] + f[S \ {n}] ELSE f[S]) \in Int
    OBVIOUS
  <2>1. n \notin S => f[S] \in Int
    BY <1>2, <1>3
  <2>2. f[S \ {n}] \in Int
    BY <1>2, <1>3
  <2> QED
    BY <2>1, <2>2
<1>5. \A S \in SUBSET (0 .. n) : g[S] = IF n \in S THEN v[n] + f[S \ {n}] ELSE f[S]
  OBVIOUS
<1> HIDE DEF g
<1>6. g[{}] = 0
  BY <1>2, <1>5
<1>7. ASSUME NEW S \in SUBSET (0 .. n), NEW x \in S PROVE g[S] = v[x] + g[S \ {x}]
  <2>1. PICK R \in SUBSET (0 .. n) : R = S \ {x}
    OBVIOUS
  <2>2. CASE x = n
    <3>1. n \notin R /\ R = S \ {n}
      BY <2>1, <2>2
    <3> QED
      BY <1>5, <2>1, <2>2, <3>1
  <2>3. CASE x # n /\ n \notin S
    <3>1. n \notin R /\ S \in SUBSET (0 .. n - 1)
      BY <1>3, <2>1, <2>3
    <3>2. g[S] = f[S] /\ g[R] = f[R]
      BY <1>5, <2>3, <3>1
    <3>3. f[S] = v[x] + f[R]
      BY <1>2, <2>1, <3>1
    <3> QED
      BY <2>1, <3>2, <3>3
  <2>4. CASE x # n /\ n \in S
    <3>1. PICK Q : Q = S \ {n}
      OBVIOUS
    <3>2. /\ n \in R /\ Q \in SUBSET (0 .. n - 1) /\ x \in Q /\ Q \ {x} = R \ {n}
          /\ R \ {n} \in SUBSET (0 .. n - 1) /\ x \in 0 .. n - 1
      BY <1>3, <2>1, <2>4, <3>1
    <3>3. g[S] = v[n] + f[Q] /\ g[R] = v[n] + f[R \ {n}]
      BY <1>5, <2>4, <3>1, <3>2
    <3>4. f[Q] = v[x] + f[R \ {n}] /\ f[R \ {n}] \in Int /\ v[x] \in Int
      BY <1>2, <3>2
    <3> QED
      BY <2>1, <3>3, <3>4
  <2> QED
    BY <2>2, <2>3, <2>4
<1>8. (n + 1) - 1 = n
  OBVIOUS
<1>9. Adds(g, v, n + 1)
  BY <1>4, <1>6, <1>7, <1>8 DEF Adds
<1> QED
  BY <1>9

LEMMA AllAdded ==
  ASSUME NEW n \in Nat, NEW v, \A i \in 0 .. n - 1 : v[i] \in Int
  PROVE  \E f : Adds(f, v, n)
<1> DEFINE T == {k \in Nat : k <= n /\ ~ \E f : Adds(f, v, k)}
<1> SUFFICES ASSUME T # {} PROVE FALSE
  OBVIOUS
<1>1. PICK k \in T : \A j \in T : k <= j
  BY LeastNumber
<1>2. k # 0
  <2> SUFFICES \E f : Adds(f, v, 0)
    BY <1>1
  <2> DEFINE f == [S \in SUBSET (0 .. 0 - 1) |-> 0]
  <2>1. \A S \in SUBSET (0 .. 0 - 1) : S = {}
    OBVIOUS
  <2>2. f \in [SUBSET (0 .. 0 - 1) -> Int] /\ f[{}] = 0
    OBVIOUS
  <2> HIDE DEF f
  <2>3. Adds(f, v, 0)
    BY <2>1, <2>2 DEF Adds
  <2> QED
    BY <2>3
<1>3. k - 1 \in Nat /\ k - 1 <= n /\ k - 1 \notin T /\ (k - 1) + 1 = k
  BY <1>1, <1>2
<1>4. \E f : Adds(f, v, k - 1)
  BY <1>3
<1>5. v[k - 1] \in Int /\ \A i \in 0 .. (k - 1) - 1 : v[i] \in Int
  BY <1>1, <1>3
<1>6. \E f : Adds(f, v, (k - 1) + 1)
  BY <1>3, <1>4, <1>5, OneMoreAdded
<1> QED
  BY <1>1, <1>3, <1>6

\* The fold, with the element it takes next and its function made explicit.
Some(S) == CHOOSE x \in S : TRUE

SumOver(S, v) ==
  CHOOSE f : f = [s \in SUBSET S |-> IF s = {} THEN 0 ELSE v[Some(s)] + f[s \ {Some(s)}]]

LEMMA EtherIs ==
  /\ \A S : Ether(S) = SumOver(S, tx.value)[S]
  /\ \A S : Ether(S)' = SumOver(S, tx.value')[S]
BY DEF Ether, FoldSet, MapThenFoldSet, SumOver, Some

LEMMA SumIs ==
  ASSUME NEW n \in Nat, NEW v, NEW f, Adds(f, v, n), NEW S \in SUBSET (0 .. n - 1)
  PROVE  SumOver(S, v)[S] = f[S]
<1>1. \A R \in SUBSET S : R \in SUBSET (0 .. n - 1) /\ (R # {} => Some(R) \in R)
  BY DEF Some
<1>2. \A R \in SUBSET S : f[R] = IF R = {} THEN 0 ELSE v[Some(R)] + f[R \ {Some(R)}]
  BY <1>1 DEF Adds
<1> DEFINE h == [R \in SUBSET S |-> f[R]]
<1>3. h = [R \in SUBSET S |-> IF R = {} THEN 0 ELSE v[Some(R)] + h[R \ {Some(R)}]]
  <2>1. \A R \in SUBSET S : R \ {Some(R)} \in SUBSET S
    OBVIOUS
  <2>2. \A R \in SUBSET S : h[R] = f[R]
    OBVIOUS
  <2>3. \A R \in SUBSET S : h[R] = IF R = {} THEN 0 ELSE v[Some(R)] + h[R \ {Some(R)}]
    BY <1>2, <2>1, <2>2
  <2> QED
    BY <2>3
<1> HIDE DEF h
<1>4. PICK g : g = SumOver(S, v)
  OBVIOUS
<1>5. g = [R \in SUBSET S |-> IF R = {} THEN 0 ELSE v[Some(R)] + g[R \ {Some(R)}]]
  BY <1>3, <1>4 DEF SumOver
<1>6. \A R \in SUBSET S : g[R] = IF R = {} THEN 0 ELSE v[Some(R)] + g[R \ {Some(R)}]
  BY <1>5
<1>7. \A R \in SUBSET S : IsFiniteSet(R) /\ Cardinality(R) \in Nat
  <2>1. 0 \in Int /\ n - 1 \in Int
    OBVIOUS
  <2>2. IsFiniteSet(0 .. n - 1)
    BY <2>1, FS_Interval
  <2>3. \A R \in SUBSET S : IsFiniteSet(R)
    BY <1>1, <2>2, FS_Subset
  <2> QED
    BY <2>3, FS_CardinalityType
<1> DEFINE T == {k \in Nat : \E R \in SUBSET S : Cardinality(R) = k /\ g[R] # f[R]}
<1>8. T = {}
  <2> SUFFICES ASSUME T # {} PROVE FALSE
    OBVIOUS
  <2>1. PICK k \in T : \A j \in T : k <= j
    BY LeastNumber
  <2>2. PICK R \in SUBSET S : Cardinality(R) = k /\ g[R] # f[R]
    BY <2>1
  <2>3. R # {}
    BY <1>2, <1>6, <2>2
  <2>4. PICK Q \in SUBSET S : Q = R \ {Some(R)}
    OBVIOUS
  <2>5. Cardinality(Q) = k - 1 /\ k \in Nat /\ Cardinality(Q) \in Nat
    BY <1>1, <1>7, <2>2, <2>3, <2>4, FS_RemoveElement
  <2>6. Cardinality(Q) \notin T
    BY <2>1, <2>5
  <2>7. g[Q] = f[Q]
    BY <2>5, <2>6
  <2> QED
    BY <1>2, <1>6, <2>2, <2>3, <2>4, <2>7
<1>9. g[S] = f[S]
  BY <1>7, <1>8
<1> QED
  BY <1>4, <1>9

LEMMA EtherAdds ==
  ASSUME tx \in Transaction
  PROVE  /\ Ether({}) = 0 /\ \A c \in Calls : tx.value[c] \in Int
         /\ \A S \in SUBSET Calls : Ether(S) \in Int /\ \A x \in S : Ether(S) = tx.value[x] + Ether(S \ {x})
<1>1. PICK n \in 0 .. MaxCalls : tx \in OfSize(n)
  BY DEF Transaction
<1>2. PICK m \in Nat : m = n + 1
  BY TreeAssumption
<1>3. tx.size = n /\ tx.value \in [0 .. n -> Amount] /\ n = m - 1
  BY <1>1, <1>2, TreeAssumption DEF OfSize
<1>4. Calls = 0 .. m - 1
  BY <1>3 DEF Calls
<1>5. PICK v \in [0 .. n -> Amount] : v = tx.value
  BY <1>3
<1>6. \A i \in 0 .. m - 1 : v[i] \in Int
  <2>1. Amount \subseteq Int
    BY TreeAssumption
  <2>2. \A i \in 0 .. m - 1 : i \in 0 .. n
    BY <1>3
  <2> QED
    BY <2>1, <2>2
<1>7. PICK f : Adds(f, v, m)
  BY <1>6, AllAdded
<1>8. PICK U : U = SUBSET (0 .. m - 1)
  OBVIOUS
<1>9. \A S \in U : Ether(S) = f[S]
  BY <1>5, <1>7, <1>8, EtherIs, SumIs
<1>10. f \in [U -> Int] /\ f[{}] = 0 /\ \A S \in U : \A x \in S : f[S] = v[x] + f[S \ {x}]
  BY <1>7, <1>8 DEF Adds
<1>11. {} \in U /\ \A S \in U : \A x \in S : S \ {x} \in U
  BY <1>8
<1>12. Ether({}) = 0 /\ \A S \in U : Ether(S) \in Int
  BY <1>9, <1>10, <1>11
<1>13. \A S \in U : \A x \in S : Ether(S) = v[x] + Ether(S \ {x})
  BY <1>9, <1>10, <1>11
<1> QED
  BY <1>4, <1>5, <1>6, <1>8, <1>12, <1>13

LEMMA SameEther ==
  ASSUME tx' = tx
  PROVE  \A S : Ether(S)' = Ether(S)
BY EtherIs

\* Calls that carry no ether do not count.
LEMMA EtherCarried ==
  ASSUME tx \in Transaction, NEW S \in SUBSET Calls
  PROVE  Ether(S) = Ether({c \in S : tx.value[c] # 0})
<1> DEFINE Carrying(R) == {c \in R : tx.value[c] # 0}
<1> DEFINE T == {k \in Nat : \E R \in SUBSET Calls : Cardinality(R) = k /\ Ether(R) # Ether(Carrying(R))}
<1>1. \A R \in SUBSET Calls : IsFiniteSet(R) /\ Cardinality(R) \in Nat
  <2>1. Calls = 0 .. tx.size /\ 0 \in Int /\ tx.size \in Int
    BY TreeFacts
  <2>2. IsFiniteSet(Calls)
    BY <2>1, FS_Interval
  <2>3. \A R \in SUBSET Calls : IsFiniteSet(R)
    BY <2>2, FS_Subset
  <2> QED
    BY <2>3, FS_CardinalityType
<1>2. T = {}
  <2> SUFFICES ASSUME T # {} PROVE FALSE
    OBVIOUS
  <2>1. PICK k \in T : \A j \in T : k <= j
    BY LeastNumber
  <2>2. PICK R \in SUBSET Calls : Cardinality(R) = k /\ Ether(R) # Ether(Carrying(R))
    BY <2>1
  <2>3. PICK x \in R : tx.value[x] = 0
    <3>1. Carrying(R) # R
      BY <2>2
    <3> QED
      BY <3>1
  <2>4. PICK Q \in SUBSET Calls : Q = R \ {x}
    OBVIOUS
  <2>5. Cardinality(Q) = k - 1 /\ k \in Nat /\ Cardinality(Q) \in Nat
    BY <1>1, <2>2, <2>4, FS_RemoveElement
  <2>6. Cardinality(Q) \notin T
    BY <2>1, <2>5
  <2>7. Ether(Q) = Ether(Carrying(Q))
    BY <2>5, <2>6
  <2>8. Carrying(Q) = Carrying(R)
    BY <2>3, <2>4
  <2>9. Ether(R) = Ether(Q)
    <3>1. Ether(R) = tx.value[x] + Ether(R \ {x}) /\ Ether(R \ {x}) \in Int
      BY EtherAdds
    <3> QED
      BY <2>3, <2>4, <3>1
  <2> QED
    BY <2>2, <2>7, <2>8, <2>9
<1> QED
  BY <1>1, <1>2

-----------------------------------------------------------------------------
(***************************************************************************)
(* Booking the transfers.                                                  *)
(***************************************************************************)
\* h books the elements of list at the places of any set of numbers up to n.
Books(h, list, n, base) ==
  /\ DOMAIN h = SUBSET (1 .. n) /\ h[{}] = base
  /\ \A S \in SUBSET (1 .. n) : S # {} => h[S] = Book(h[S \ {Max(S)}], list[Max(S)])

LEMMA OneMoreBooked ==
  ASSUME NEW n \in Nat, NEW list, NEW base, \E h : Books(h, list, n, base)
  PROVE  \E h : Books(h, list, n + 1, base)
<1>1. PICK f : Books(f, list, n, base)
  OBVIOUS
<1>2. /\ DOMAIN f = SUBSET (1 .. n) /\ f[{}] = base
      /\ \A S \in SUBSET (1 .. n) : S # {} => f[S] = Book(f[S \ {Max(S)}], list[Max(S)])
  BY <1>1 DEF Books
<1> DEFINE g == [S \in SUBSET (1 .. n + 1) |->
                   IF n + 1 \in S THEN Book(f[S \ {n + 1}], list[n + 1]) ELSE f[S]]
<1>3. \A S \in SUBSET (1 .. n + 1) : n + 1 \notin S => S \in SUBSET (1 .. n)
  OBVIOUS
<1>4. DOMAIN g = SUBSET (1 .. n + 1) /\ g[{}] = base
  BY <1>2
<1>5. \A S \in SUBSET (1 .. n + 1) :
        g[S] = IF n + 1 \in S THEN Book(f[S \ {n + 1}], list[n + 1]) ELSE f[S]
  OBVIOUS
<1> HIDE DEF g
<1>6. ASSUME NEW S \in SUBSET (1 .. n + 1), S # {} PROVE g[S] = Book(g[S \ {Max(S)}], list[Max(S)])
  <2>1. PICK R \in SUBSET (1 .. n + 1) : R = S \ {Max(S)}
    OBVIOUS
  <2>2. CASE n + 1 \in S
    <3>1. Max(S) = n + 1
      <4>1. \A y \in S : n + 1 >= y
        OBVIOUS
      <4>2. \A x \in S : (\A y \in S : x >= y) => x = n + 1
        BY <2>2
      <4> QED
        BY <2>2, <4>1, <4>2 DEF Max
    <3>2. g[R] = f[R]
      BY <1>5, <2>1, <3>1
    <3>3. g[S] = Book(f[S \ {n + 1}], list[n + 1])
      BY <1>5, <2>2
    <3> QED
      BY <2>1, <3>1, <3>2, <3>3
  <2>3. CASE n + 1 \notin S
    <3>1. n + 1 \notin R /\ S \in SUBSET (1 .. n)
      BY <1>3, <2>1, <2>3
    <3>2. g[S] = f[S] /\ g[R] = f[R]
      BY <1>5, <2>3, <3>1
    <3>3. f[S] = Book(f[R], list[Max(S)])
      BY <1>2, <1>6, <2>1, <3>1
    <3> QED
      BY <2>1, <3>2, <3>3
  <2> QED
    BY <2>2, <2>3
<1>7. Books(g, list, n + 1, base)
  BY <1>4, <1>6 DEF Books
<1> QED
  BY <1>7

LEMMA AllBooked ==
  ASSUME NEW n \in Nat, NEW list, NEW base
  PROVE  \E h : Books(h, list, n, base)
<1> DEFINE T == {k \in Nat : ~ \E h : Books(h, list, k, base)}
<1> SUFFICES ASSUME T # {} PROVE FALSE
  OBVIOUS
<1>1. PICK k \in T : \A j \in T : k <= j
  BY LeastNumber
<1>2. k # 0
  <2> SUFFICES \E h : Books(h, list, 0, base)
    BY <1>1
  <2> DEFINE h == [S \in SUBSET (1 .. 0) |-> base]
  <2>1. \A S \in SUBSET (1 .. 0) : S = {}
    OBVIOUS
  <2>2. DOMAIN h = SUBSET (1 .. 0) /\ h[{}] = base
    OBVIOUS
  <2> HIDE DEF h
  <2>3. Books(h, list, 0, base)
    BY <2>1, <2>2 DEF Books
  <2> QED
    BY <2>3
<1>3. k - 1 \in Nat /\ k - 1 \notin T /\ (k - 1) + 1 = k
  BY <1>1, <1>2
<1>4. \E h : Books(h, list, (k - 1) + 1, base)
  BY <1>3, OneMoreBooked
<1> QED
  BY <1>1, <1>3, <1>4

BookedOver(D, base, list) ==
  CHOOSE h : h = [S \in SUBSET D |-> IF S = {} THEN base ELSE Book(h[S \ {Max(S)}], list[Max(S)])]

Balances(base, list) == FoldLeft(Book, base, list)

LEMMA SheetIs ==
  ASSUME NEW base, NEW list
  PROVE  Balances(base, list) = BookedOver(DOMAIN list, base, list)[DOMAIN list]
BY DEF Balances, FoldLeft, MapThenFoldSet, BookedOver

\* b[k] are the balances once the first k transfers are booked.
BookedTo(b, list, n, base) ==
  /\ b[0] = base /\ b[n] = Balances(base, list)
  /\ \A k \in 1 .. n : b[k] = Book(b[k - 1], list[k])

\* The fold goes through the list from its first element to its last.
LEMMA SheetSteps ==
  ASSUME NEW n \in Nat, NEW list, DOMAIN list = 1 .. n, NEW base
  PROVE  \E b : BookedTo(b, list, n, base)
<1>1. PICK f : Books(f, list, n, base)
  BY AllBooked
<1>2. /\ DOMAIN f = SUBSET (1 .. n) /\ f[{}] = base
      /\ \A S \in SUBSET (1 .. n) : S # {} => f[S] = Book(f[S \ {Max(S)}], list[Max(S)])
  BY <1>1 DEF Books
<1> DEFINE e == [S \in SUBSET (1 .. n) |-> f[S]]
<1>3. e = [S \in SUBSET (1 .. n) |-> IF S = {} THEN base ELSE Book(e[S \ {Max(S)}], list[Max(S)])]
  <2>1. \A S \in SUBSET (1 .. n) : S \ {Max(S)} \in SUBSET (1 .. n)
    OBVIOUS
  <2>2. \A S \in SUBSET (1 .. n) : e[S] = f[S]
    OBVIOUS
  <2>3. \A S \in SUBSET (1 .. n) : e[S] = IF S = {} THEN base ELSE Book(e[S \ {Max(S)}], list[Max(S)])
    BY <1>2, <2>1, <2>2
  <2> QED
    BY <2>3
<1> HIDE DEF e
<1>4. PICK h : h = BookedOver(1 .. n, base, list)
  OBVIOUS
<1>5. h = [S \in SUBSET (1 .. n) |-> IF S = {} THEN base ELSE Book(h[S \ {Max(S)}], list[Max(S)])]
  BY <1>3, <1>4 DEF BookedOver
<1>6. \A S \in SUBSET (1 .. n) : h[S] = IF S = {} THEN base ELSE Book(h[S \ {Max(S)}], list[Max(S)])
  BY <1>5
<1> DEFINE b == [k \in 0 .. n |-> h[1 .. k]]
<1>7. \A k \in 0 .. n : b[k] = h[1 .. k]
  OBVIOUS
<1> HIDE DEF b
<1>8. b[0] = base
  <2>1. 1 .. 0 = {} /\ 0 \in 0 .. n
    OBVIOUS
  <2>2. h[{}] = base
    BY <1>6
  <2> QED
    BY <1>7, <2>1, <2>2
<1>9. b[n] = Balances(base, list)
  <2>1. Balances(base, list) = h[1 .. n]
    BY <1>4, SheetIs
  <2> QED
    BY <1>7, <2>1
<1>10. ASSUME NEW k \in 1 .. n PROVE b[k] = Book(b[k - 1], list[k])
  <2>1. PICK S \in SUBSET (1 .. n) : S = 1 .. k
    OBVIOUS
  <2>2. S # {} /\ k \in S /\ S \ {k} = 1 .. k - 1 /\ k \in 0 .. n /\ k - 1 \in 0 .. n
    BY <2>1
  <2>3. Max(S) = k
    <3>1. \A y \in S : k >= y
      BY <2>1
    <3>2. \A x \in S : (\A y \in S : x >= y) => x = k
      BY <2>1, <2>2
    <3> QED
      BY <2>2, <3>1, <3>2 DEF Max
  <2>4. h[S] = Book(h[S \ {k}], list[k])
    BY <1>6, <2>2, <2>3
  <2> QED
    BY <1>7, <2>1, <2>2, <2>4
<1>11. BookedTo(b, list, n, base)
  BY <1>8, <1>9, <1>10 DEF BookedTo
<1> QED
  BY <1>11

\* A transfer moves its value between two accounts, unless one is ZERO_ADDRESS.
LEMMA BookMoves ==
  ASSUME NEW B \in [Address -> Int], NEW t, t.value \in Int
  PROVE  /\ Book(B, t) \in [Address -> Int]
         /\ \A a \in Address \ {ZeroAddr} :
              Book(B, t)[a] = B[a] - (IF t.from = a THEN t.value ELSE 0) + (IF t.to = a THEN t.value ELSE 0)
<1> DEFINE Off(h, n, a) == IF h = a THEN n ELSE 0
<1>1. ASSUME NEW D \in [Address -> Int], NEW h, NEW n \in Int
      PROVE  /\ Booked(D, h, n) \in [Address -> Int]
             /\ \A a \in Address \ {ZeroAddr} : Booked(D, h, n)[a] = D[a] + Off(h, n, a)
  <2>1. CASE h = ZeroAddr
    <3>1. Booked(D, h, n) = D /\ \A a \in Address : D[a] \in Int /\ D[a] + 0 = D[a]
      BY <2>1 DEF Booked
    <3> QED
      BY <2>1, <3>1
  <2>2. CASE h # ZeroAddr
    <3>1. Booked(D, h, n) = [D EXCEPT ![h] = D[h] + n]
      BY <2>2 DEF Booked
    <3>2. \A a \in Address : D[a] \in Int /\ D[a] + 0 = D[a]
      OBVIOUS
    <3>3. Booked(D, h, n) \in [Address -> Int]
      <4>1. h \in Address => D[h] + n \in Int
        BY <3>2
      <4> QED
        BY <3>1, <4>1
    <3>4. ASSUME NEW a \in Address PROVE Booked(D, h, n)[a] = IF h = a THEN D[a] + n ELSE D[a]
      BY <3>1
    <3> QED
      BY <3>2, <3>3, <3>4
  <2> QED
    BY <2>1, <2>2
<1>2. PICK D : D = Booked(B, t.from, -t.value)
  OBVIOUS
<1>3. -t.value \in Int
  OBVIOUS
<1>4. /\ D \in [Address -> Int]
      /\ \A a \in Address \ {ZeroAddr} : D[a] = B[a] + Off(t.from, -t.value, a)
  BY <1>1, <1>2, <1>3
<1>5. Book(B, t) = Booked(D, t.to, t.value)
  BY <1>2 DEF Book
<1>6. /\ Book(B, t) \in [Address -> Int]
      /\ \A a \in Address \ {ZeroAddr} : Book(B, t)[a] = D[a] + Off(t.to, t.value, a)
  BY <1>1, <1>4, <1>5
<1>7. \A a \in Address : B[a] \in Int
  OBVIOUS
<1> QED
  BY <1>4, <1>6, <1>7

\* What the transfers of a set of calls leave in an account.
Left(S, a) == Ether({c \in S : tx.to[c] = a}) - Ether({c \in S : From(c) = a})

LEMMA OneMoreLeft ==
  ASSUME tx \in Transaction, NEW S \in SUBSET Calls, NEW c \in Calls, c \notin S, NEW a
  PROVE  /\ Left(S, a) \in Int
         /\ Left(S \cup {c}, a) = Left(S, a) - (IF From(c) = a THEN tx.value[c] ELSE 0)
                                             + (IF tx.to[c] = a THEN tx.value[c] ELSE 0)
<1>1. PICK I \in SUBSET Calls : I = {k \in S : tx.to[k] = a}
  OBVIOUS
<1>2. PICK J \in SUBSET Calls : J = {k \in S \cup {c} : tx.to[k] = a}
  OBVIOUS
<1>3. PICK O \in SUBSET Calls : O = {k \in S : From(k) = a}
  OBVIOUS
<1>4. PICK P \in SUBSET Calls : P = {k \in S \cup {c} : From(k) = a}
  OBVIOUS
<1>5. IF tx.to[c] = a THEN c \in J /\ J \ {c} = I ELSE J = I
  BY <1>1, <1>2
<1>6. IF From(c) = a THEN c \in P /\ P \ {c} = O ELSE P = O
  BY <1>3, <1>4
<1>7. Ether(J) = Ether(I) + IF tx.to[c] = a THEN tx.value[c] ELSE 0
  <2>1. CASE tx.to[c] = a
    BY <1>5, <2>1, EtherAdds
  <2>2. CASE tx.to[c] # a
    BY <1>5, <2>2, EtherAdds
  <2> QED
    BY <2>1, <2>2
<1>8. Ether(P) = Ether(O) + IF From(c) = a THEN tx.value[c] ELSE 0
  <2>1. CASE From(c) = a
    BY <1>6, <2>1, EtherAdds
  <2>2. CASE From(c) # a
    BY <1>6, <2>2, EtherAdds
  <2> QED
    BY <2>1, <2>2
<1>9. Left(S, a) = Ether(I) - Ether(O) /\ Left(S \cup {c}, a) = Ether(J) - Ether(P)
  BY <1>1, <1>2, <1>3, <1>4 DEF Left
<1>10. Ether(I) \in Int /\ Ether(O) \in Int /\ tx.value[c] \in Int
  BY EtherAdds
<1> QED
  BY <1>7, <1>8, <1>9, <1>10

\* The balances once all the transfers are booked.
LEMMA ListBooked ==
  ASSUME tx \in Transaction, Listed(Calls)
  PROVE  \A a \in Address \ {ZeroAddr} :
           Balances([b \in Address |-> 0], transfers)[a] = Left(Calls, a)
<1> DEFINE Made(c) == [from |-> From(c), to |-> tx.to[c], value |-> tx.value[c]]
<1>p. PICK n \in Nat : n = Len(transfers)
  BY DEF Listed
<1>1. PICK o \in [1 .. n -> Calls] :
        /\ IsInjective(o) /\ Range(o) = {c \in Calls : tx.value[c] # 0}
        /\ transfers = [i \in 1 .. n |-> Made(o[i])]
  BY <1>p DEF Listed
<1>2. DOMAIN o = 1 .. n /\ DOMAIN transfers = 1 .. n
  BY <1>1
<1>3. \A i \in 1 .. n : o[i] \in Calls /\ transfers[i] = Made(o[i])
  BY <1>1
<1>4. PICK zeros : zeros = [b \in Address |-> 0]
  OBVIOUS
<1>5. PICK b : /\ b[0] = zeros /\ b[n] = Balances(zeros, transfers)
               /\ \A k \in 1 .. n : b[k] = Book(b[k - 1], transfers[k])
  <2>1. PICK list : list = transfers
    OBVIOUS
  <2>2. DOMAIN list = 1 .. n
    BY <1>2, <2>1
  <2>3. PICK b : BookedTo(b, list, n, zeros)
    BY <2>2, SheetSteps
  <2> QED
    BY <2>1, <2>3 DEF BookedTo
<1> DEFINE UpTo(k) == {o[i] : i \in 1 .. k}
<1> DEFINE Right(k) == /\ b[k] \in [Address -> Int]
                       /\ \A a \in Address \ {ZeroAddr} : b[k][a] = Left(UpTo(k), a)
<1>6. Right(0)
  <2>1. UpTo(0) = {}
    OBVIOUS
  <2>2. \A a : Left({}, a) = 0
    <3>1. \A a : {c \in {} : tx.to[c] = a} = {} /\ {c \in {} : From(c) = a} = {}
      OBVIOUS
    <3>2. Ether({}) = 0
      BY EtherAdds
    <3> QED
      BY <3>1, <3>2 DEF Left
  <2>3. b[0] = zeros /\ zeros = [a \in Address |-> 0]
    BY <1>4, <1>5
  <2> QED
    BY <2>1, <2>2, <2>3
<1>7. ASSUME NEW k \in 1 .. n, Right(k - 1) PROVE Right(k)
  <2>1. PICK S : S = UpTo(k - 1)
    OBVIOUS
  <2>2. PICK c \in Calls : c = o[k]
    BY <1>3
  <2>3. S \in SUBSET Calls
    <3>1. \A i \in 1 .. k - 1 : i \in 1 .. n
      OBVIOUS
    <3> QED
      BY <1>3, <2>1, <3>1
  <2>4. c \notin S
    <3> SUFFICES ASSUME NEW i \in 1 .. k - 1, o[i] = o[k] PROVE FALSE
      BY <2>1, <2>2
    <3>1. i \in 1 .. n /\ i # k
      OBVIOUS
    <3> QED
      BY <1>1, <1>2, <3>1 DEF IsInjective
  <2>5. UpTo(k) = S \cup {c}
    <3>1. \A i : i \in 1 .. k <=> (i \in 1 .. k - 1 \/ i = k)
      OBVIOUS
    <3> QED
      BY <2>1, <2>2, <3>1
  <2>6. PICK B \in [Address -> Int] : B = b[k - 1]
    BY <1>7
  <2>7. PICK t : t = Made(c)
    OBVIOUS
  <2>8. b[k] = Book(B, t) /\ t.from = From(c) /\ t.to = tx.to[c] /\ t.value = tx.value[c] /\ t.value \in Int
    <3>1. tx.value[c] \in Int
      BY EtherAdds
    <3>2. t.from = From(c) /\ t.to = tx.to[c] /\ t.value = tx.value[c]
      BY <2>7
    <3> QED
      BY <1>3, <1>5, <2>2, <2>6, <2>7, <3>1, <3>2
  <2>9. /\ b[k] \in [Address -> Int]
        /\ \A a \in Address \ {ZeroAddr} :
             b[k][a] = B[a] - (IF From(c) = a THEN tx.value[c] ELSE 0) + (IF tx.to[c] = a THEN tx.value[c] ELSE 0)
    BY <2>8, BookMoves
  <2>10. \A a \in Address \ {ZeroAddr} : B[a] = Left(S, a)
    BY <1>7, <2>1, <2>6
  <2>11. \A a : Left(S \cup {c}, a) = Left(S, a) - (IF From(c) = a THEN tx.value[c] ELSE 0)
                                                 + (IF tx.to[c] = a THEN tx.value[c] ELSE 0)
    BY <2>3, <2>4, OneMoreLeft
  <2>12. \A a \in Address \ {ZeroAddr} : b[k][a] = Left(S \cup {c}, a)
    BY <2>9, <2>10, <2>11
  <2> QED
    BY <2>5, <2>9, <2>12
<1>8. Right(n)
  <2> HIDE DEF Right
  <2> DEFINE T == {k \in Nat : k <= n /\ ~Right(k)}
  <2> SUFFICES ASSUME T # {} PROVE FALSE
    OBVIOUS
  <2>1. PICK k \in T : \A j \in T : k <= j
    BY LeastNumber
  <2>2. k \in 1 .. n /\ k - 1 \in Nat /\ k - 1 <= n /\ k - 1 \notin T
    BY <1>6, <2>1
  <2>3. Right(k - 1)
    BY <2>2
  <2> QED
    BY <1>7, <2>1, <2>2, <2>3
<1>9. UpTo(n) = {c \in Calls : tx.value[c] # 0}
  BY <1>1, <1>2 DEF Range
<1>10. PICK V : V = UpTo(n)
  OBVIOUS
<1>11. \A a \in Address \ {ZeroAddr} : Balances(zeros, transfers)[a] = Left(V, a)
  BY <1>5, <1>8, <1>10
<1>12. ASSUME NEW a PROVE Left(V, a) = Left(Calls, a)
  <2>1. PICK I \in SUBSET Calls : I = {c \in Calls : tx.to[c] = a}
    OBVIOUS
  <2>2. PICK O \in SUBSET Calls : O = {c \in Calls : From(c) = a}
    OBVIOUS
  <2>3. /\ {c \in I : tx.value[c] # 0} = {c \in V : tx.to[c] = a}
        /\ {c \in O : tx.value[c] # 0} = {c \in V : From(c) = a}
    BY <1>9, <1>10, <2>1, <2>2
  <2>4. Ether(I) = Ether({c \in V : tx.to[c] = a}) /\ Ether(O) = Ether({c \in V : From(c) = a})
    BY <2>3, EtherCarried
  <2> QED
    BY <2>1, <2>2, <2>4 DEF Left
<1> QED
  BY <1>4, <1>11, <1>12

-----------------------------------------------------------------------------
(***************************************************************************)
(* The transfers made so far.                                              *)
(***************************************************************************)
LEMMA SameListed ==
  ASSUME tx' = tx, transfers' = transfers, NEW S, Listed(S)
  PROVE  Listed(S)'
<1> DEFINE Made(k) == [from |-> From(k), to |-> tx.to[k], value |-> tx.value[k]]
<1> DEFINE MadeNext(k) == [from |-> From(k)', to |-> tx'.to[k], value |-> tx'.value[k]]
<1>1. Calls' = Calls /\ \A k : MadeNext(k) = Made(k)
  BY SameTree, SameMarks
<1>2. PICK n \in Nat : n = Len(transfers)
  BY DEF Listed
<1>3. PICK o \in [1 .. n -> Calls] :
        /\ IsInjective(o) /\ Range(o) = {k \in S : tx.value[k] # 0}
        /\ transfers = [i \in 1 .. n |-> Made(o[i])]
  BY <1>2 DEF Listed
<1>4. [i \in 1 .. n |-> Made(o[i])] = [i \in 1 .. n |-> MadeNext(o[i])]
  <2> HIDE DEF Made, MadeNext
  <2> QED
    BY <1>1
<1>5. o \in [1 .. n -> Calls'] /\ n = Len(transfers') /\ transfers' = [i \in 1 .. n |-> MadeNext(o[i])]
  BY <1>1, <1>2, <1>3, <1>4
<1>6. Range(o) = {k \in S : tx'.value[k] # 0}
  BY <1>3
<1> QED
  BY <1>3, <1>5, <1>6 DEF Listed

LEMMA MoreListed ==
  ASSUME tx \in Transaction, tx' = tx, NEW S \in SUBSET Calls, NEW c \in Calls, c \notin S, Listed(S),
         transfers' = IF tx.value[c] = 0 THEN transfers
                      ELSE Append(transfers, [from |-> From(c), to |-> tx.to[c], value |-> tx.value[c]])
  PROVE  Listed(S \cup {c})'
<1>1. Calls' = Calls /\ \A k : From(k)' = From(k)
  BY SameTree, SameMarks
<1>2. CASE tx.value[c] = 0
  <2>1. {k \in S \cup {c} : tx.value[k] # 0} = {k \in S : tx.value[k] # 0}
    BY <1>2
  <2>2. Listed(S \cup {c})
    BY <2>1 DEF Listed
  <2> QED
    BY <1>2, <2>2, SameListed
<1>3. CASE tx.value[c] # 0
  <2> DEFINE Made(k) == [from |-> From(k), to |-> tx.to[k], value |-> tx.value[k]]
  <2>1. PICK n \in Nat : n = Len(transfers)
    BY DEF Listed
  <2>2. PICK o \in [1 .. n -> Calls] :
          /\ IsInjective(o) /\ Range(o) = {k \in S : tx.value[k] # 0}
          /\ transfers = [i \in 1 .. n |-> Made(o[i])]
    BY <2>1 DEF Listed
  <2> DEFINE p == [i \in 1 .. n + 1 |-> IF i = n + 1 THEN c ELSE o[i]]
  <2>3. \A i \in 1 .. n + 1 : i = n + 1 \/ i \in 1 .. n
    OBVIOUS
  <2>4. p \in [1 .. n + 1 -> Calls] /\ DOMAIN p = 1 .. n + 1 /\ DOMAIN o = 1 .. n
    BY <2>3
  <2>5. p[n + 1] = c /\ \A i \in 1 .. n : p[i] = o[i] /\ i # n + 1
    OBVIOUS
  <2> HIDE DEF p
  <2>6. \A i \in 1 .. n : o[i] \in S
    BY <2>2, <2>4 DEF Range
  <2>7. IsInjective(p)
    <3> SUFFICES ASSUME NEW i \in 1 .. n + 1, NEW j \in 1 .. n + 1, p[i] = p[j] PROVE i = j
      BY <2>4 DEF IsInjective
    <3>1. CASE i \in 1 .. n /\ j \in 1 .. n
      BY <2>2, <2>4, <2>5, <3>1 DEF IsInjective
    <3>2. CASE i = n + 1 \/ j = n + 1
      BY <2>3, <2>5, <2>6, <3>2
    <3> QED
      BY <2>3, <3>1, <3>2
  <2>8. Range(p) = {k \in S \cup {c} : tx.value[k] # 0}
    <3>1. Range(p) = Range(o) \cup {c}
      <4>1. n + 1 \in 1 .. n + 1 /\ \A i \in 1 .. n : i \in 1 .. n + 1
        OBVIOUS
      <4> QED
        BY <2>3, <2>4, <2>5, <4>1 DEF Range
    <3> QED
      BY <1>3, <2>2, <3>1
  <2>9. transfers' = [i \in 1 .. n + 1 |-> Made(p[i])] /\ Len(transfers') = n + 1
    <3>1. PICK t : t = transfers
      OBVIOUS
    <3>2. PICK r : r = Made(c)
      OBVIOUS
    <3>3. PICK R : R = {t[i] : i \in 1 .. n} \cup {r}
      OBVIOUS
    <3>4. t \in [1 .. n -> R] /\ r \in R /\ Len(t) = n
      BY <2>1, <2>2, <3>1, <3>3
    <3>5. t \in Seq(R)
      BY <3>4, IsASeq
    <3>6. PICK u : u = Append(t, r)
      OBVIOUS
    <3>7. /\ u \in Seq(R) /\ Len(u) = n + 1 /\ u[n + 1] = r
          /\ \A i \in 1 .. n : u[i] = t[i]
      BY <3>4, <3>5, <3>6, AppendProperties
    <3>8. DOMAIN u = 1 .. n + 1 /\ u = [i \in DOMAIN u |-> u[i]]
      BY <3>7, LenProperties
    <3>9. \A i \in 1 .. n + 1 : u[i] = Made(p[i])
      BY <2>2, <2>3, <2>5, <3>1, <3>2, <3>7
    <3>10. u = [i \in 1 .. n + 1 |-> Made(p[i])]
      BY <3>8, <3>9
    <3>11. transfers' = u
      BY <1>3, <3>1, <3>2, <3>6
    <3> QED
      BY <3>7, <3>10, <3>11
  <2>10. n + 1 \in Nat
    OBVIOUS
  <2> DEFINE MadeNext(k) == [from |-> From(k)', to |-> tx'.to[k], value |-> tx'.value[k]]
  <2>11. \A k : MadeNext(k) = Made(k)
    BY <1>1
  <2>12. [i \in 1 .. n + 1 |-> Made(p[i])] = [i \in 1 .. n + 1 |-> MadeNext(p[i])]
    <3> HIDE DEF Made, MadeNext
    <3> QED
      BY <2>11
  <2>13. /\ p \in [1 .. n + 1 -> Calls'] /\ n + 1 = Len(transfers')
         /\ transfers' = [i \in 1 .. n + 1 |-> MadeNext(p[i])]
    BY <1>1, <2>4, <2>9, <2>12
  <2>14. Range(p) = {k \in S \cup {c} : tx'.value[k] # 0}
    BY <2>8
  <2>15. PICK m \in Nat : m = n + 1
    BY <2>10
  <2>16. PICK q \in [1 .. m -> Calls'] : q = p
    BY <2>13, <2>15
  <2>17. /\ m = Len(transfers') /\ IsInjective(q) /\ Range(q) = {k \in S \cup {c} : tx'.value[k] # 0}
         /\ transfers' = [i \in 1 .. m |-> MadeNext(q[i])]
    BY <2>7, <2>13, <2>14, <2>15, <2>16
  <2> QED
    BY <2>17 DEF Listed
<1> QED
  BY <1>2, <1>3

-----------------------------------------------------------------------------
(***************************************************************************)
(* What the balances have to be.                                           *)
(***************************************************************************)
To(a) == {c \in Calls : tx.to[c] = a}

By(a) == {c \in Calls : From(c) = a}

Balanced(in, out, v, amount) == amount = SumOver(in, v)[in] - SumOver(out, v)[out]

LEMMA BalancedIs ==
  /\ SheetBalanced <=> (After("balances") => \A a \in Address \ {ZeroAddr} :
       Balanced(To(a), By(a), tx.value, sheet[a]))
  /\ SheetBalanced' <=> (After("balances")' => \A a \in Address \ {ZeroAddr} :
       Balanced(To(a)', By(a)', tx.value', sheet'[a]))
BY DEF SheetBalanced, Balanced, To, By, Ether, FoldSet, MapThenFoldSet, SumOver, Some

LEMMA SameBalance ==
  ASSUME tx' = tx
  PROVE  \A a : To(a)' = To(a) /\ By(a)' = By(a)
<1>1. Calls' = Calls /\ \A k : From(k)' = From(k)
  BY SameTree, SameMarks
<1> QED
  BY <1>1 DEF To, By

\* Once the balances are right they stay so.
LEMMA StaysBalanced ==
  ASSUME tx' = tx, phase' \in {"prune", "done"}, transfers' = transfers,
         \A a \in Address \ {ZeroAddr} : Balanced(To(a), By(a), tx.value, sheet'[a])
  PROVE  SheetInv'
<1>1. SheetBalanced'
  BY SameBalance, BalancedIs
<1> QED
  BY <1>1 DEF SheetInv, ValuedSoFar, Transferring

\* Before, nothing is asked of them.
LEMMA NotYetBalanced ==
  ASSUME phase' \in {"convert", "delegations", "decode", "transfers", "balances"}
  PROVE  SheetBalanced'
<1>1. ~After("balances")'
  BY PassNames, Order DEF After
<1> QED
  BY <1>1, BalancedIs

LEMMA SheetBooked ==
  ASSUME ConvertInv, SheetInv, Balance
  PROVE  SheetInv'
<1>1. /\ tx \in Transaction /\ tx' = tx /\ phase' = "prune" /\ transfers' = transfers
      /\ Listed(Calls) /\ sheet' = Balances([b \in Address |-> 0], transfers)
  BY DEF ConvertInv, SheetInv, Balance, Balances
<1>2. \A a \in Address \ {ZeroAddr} : sheet'[a] = Left(Calls, a)
  BY <1>1, ListBooked
<1>3. \A a : Left(Calls, a) = SumOver(To(a), tx.value)[To(a)] - SumOver(By(a), tx.value)[By(a)]
  BY EtherIs DEF Left, To, By
<1> QED
  BY <1>1, <1>2, <1>3, StaysBalanced DEF Balanced

-----------------------------------------------------------------------------
(***************************************************************************)
(* The passes that make the balances.                                      *)
(***************************************************************************)
LEMMA AllVisited ==
  ASSUME tx \in Transaction, NEW seen \in SUBSET Calls, Walked(seen, {}, {})
  PROVE  Calls \subseteq seen
<1>1. PICK none : none = {}
  OBVIOUS
<1>2. Walked(seen, {}, none) /\ \A k \in 1 .. tx.size : tx.parent[k] \notin none
  BY <1>1
<1>3. Calls \subseteq seen \cup none
  BY <1>2, AllSeen
<1> QED
  BY <1>1, <1>3

LEMMA SheetDecodes ==
  ASSUME ConvertInv, DecodeInv, SheetInv, Decode
  PROVE  SheetInv'
<1>1. /\ phase = "decode" /\ phase' = phase /\ work # <<>> /\ tx' = tx
      /\ transfers' = transfers /\ sheet' = sheet
      /\ transfers = <<>> /\ sheet = [a \in Address |-> 0]
      /\ worth' = [worth EXCEPT ![Head(work).call] = tx.value[Head(work).call]]
  BY DEF Decode, SheetInv
<1>2. PICK seen, e : Taken(seen, e)
  BY DecodeTakes
<1>3. e.call \in Calls /\ e = Head(work)
  <2>1. e = work[1] /\ work \in Seq(Entry) /\ e.call \in Calls
    BY <1>2 DEF Taken, EntriesGood, EntryKnown
  <2> QED
    BY <1>1, <2>1, HeadTailProperties
<1>4. PICK past \in SUBSET Calls :
        /\ Walked(past, {work[i].call : i \in DOMAIN work}, {})
        /\ worth = [c \in Calls |-> IF c \in past THEN tx.value[c] ELSE 0]
  BY <1>1 DEF SheetInv, ValuedSoFar
<1>5. PICK now : now = past \cup {e.call}
  OBVIOUS
<1>6. Calls' = Calls /\ now \in SUBSET Calls'
  BY <1>1, <1>3, <1>5, SameTree
<1>7. worth' = [c \in Calls |-> IF c \in now THEN tx.value[c] ELSE 0]
  BY <1>1, <1>3, <1>4, <1>5
<1>8. Walked(now, {work[i].call : i \in DOMAIN work}, {})'
  <2>1. PICK N : N = {work'[i].call : i \in DOMAIN work'}
    OBVIOUS
  <2>2. Walked(now, N, {})
    BY <1>2, <1>4, <1>5, <2>1, TakenWalked
  <2> QED
    BY <1>1, <2>1, <2>2 DEF Walked
<1>9. ValuedSoFar'
  BY <1>1, <1>6, <1>7, <1>8 DEF ValuedSoFar
<1>10. SheetBalanced'
  BY <1>1, NotYetBalanced
<1> QED
  BY <1>1, <1>9, <1>10 DEF SheetInv, Transferring

LEMMA SheetTransfers ==
  ASSUME ConvertInv, DecodeInv, SheetInv, Transfer
  PROVE  SheetInv'
<1>1. /\ tx \in Transaction /\ tx' = tx /\ phase = "transfers" /\ phase' = phase /\ phase \in Range(Passes)
      /\ worth' = worth /\ worth = [k \in Calls |-> tx.value[k]]
      /\ sheet' = sheet /\ sheet = [a \in Address |-> 0]
      /\ work # <<>> /\ work \in Seq(Calls) /\ IsInjective(work)
  BY DEF ConvertInv, SheetInv, Transferring, Transfer
<1>2. decoded = [k \in Calls |-> Kids(k)]
  BY <1>1, Order DEF ConvertInv, Converted, DecodeInv, After
<1>3. PICK seen \in SUBSET Calls : Walked(seen, ToSet(work), {}) /\ Listed(seen)
  BY <1>1 DEF SheetInv, Transferring
<1>4. PICK c : c = Head(work)
  OBVIOUS
<1>5. PICK r : r = Tail(work)
  OBVIOUS
<1>6. c \in Calls /\ c \in ToSet(work) /\ r \in Seq(Calls) /\ IsInjective(r) /\ ToSet(r) = ToSet(work) \ {c}
  BY <1>1, <1>4, <1>5, HeadGone
<1>7. PICK k : k = Kids(c)
  OBVIOUS
<1>8. k \in Seq(Calls) /\ ToSet(k) = Below(c) /\ IsInjective(k)
  BY <1>1, <1>6, <1>7, KidsAre
<1>9. PICK W : W = ToSet(work)
  OBVIOUS
<1>10. PICK F : F = Below(c)
  OBVIOUS
<1>11. Walked(seen \cup {c}, (W \ {c}) \cup F, {}) /\ F \cap W = {} /\ c \notin seen
  <2>1. F \subseteq Below(c) /\ Below(c) \subseteq F \cup {} /\ c \in W /\ Walked(seen, W, {})
    BY <1>3, <1>6, <1>9, <1>10
  <2> QED
    BY <1>1, <2>1, WalkedOn
<1>12. work' \in Seq(Calls) /\ IsInjective(work') /\ ToSet(work') = (W \ {c}) \cup F
  <2>1. ToSet(k) \cap ToSet(r) = {}
    BY <1>6, <1>8, <1>9, <1>10, <1>11
  <2>2. PICK n : n = k \o r
    OBVIOUS
  <2>3. n \in Seq(Calls) /\ IsInjective(n) /\ ToSet(n) = ToSet(k) \cup ToSet(r)
    BY <1>6, <1>8, <2>1, <2>2, JoinedLists
  <2>4. work' = n
    BY <1>2, <1>4, <1>5, <1>6, <1>7, <2>2 DEF Transfer
  <2> QED
    BY <1>6, <1>8, <1>9, <1>10, <2>3, <2>4
<1>13. transfers' = IF tx.value[c] = 0 THEN transfers
                    ELSE Append(transfers, [from |-> From(c), to |-> tx.to[c], value |-> tx.value[c]])
  BY <1>1, <1>4, <1>6 DEF Transfer
<1>14. PICK now \in SUBSET Calls : now = seen \cup {c}
  BY <1>6
<1>15. Listed(now)'
  <2>1. Listed(seen \cup {c})'
    BY <1>1, <1>3, <1>6, <1>11, <1>13, MoreListed
  <2> QED
    BY <1>14, <2>1
<1>16. Walked(now, ToSet(work), {})'
  BY <1>1, <1>11, <1>12, <1>14 DEF Walked
<1>17. Calls' = Calls
  BY <1>1, SameTree
<1>18. Transferring'
  BY <1>12, <1>15, <1>16, <1>17 DEF Transferring
<1>19. SheetBalanced'
  BY <1>1, NotYetBalanced
<1> QED
  BY <1>1, <1>17, <1>18, <1>19 DEF SheetInv, ValuedSoFar

LEMMA ValuesBegin ==
  ASSUME ConvertInv, SheetInv, Begin("delegations", "decode", Root)
  PROVE  SheetInv'
<1>1. /\ tx \in Transaction /\ tx' = tx /\ phase' = "decode" /\ work' = Root
      /\ worth' = [c \in Calls |-> 0] /\ transfers' = <<>> /\ sheet' = [a \in Address |-> 0]
  BY DEF ConvertInv, SheetInv, Begin
<1>2. Calls' = Calls
  BY <1>1, SameTree
<1>3. {work'[i].call : i \in DOMAIN work'} = {0}
  BY <1>1 DEF Root
<1>p. PICK none \in SUBSET Calls' : none = {}
  OBVIOUS
<1>4. Walked(none, {work[i].call : i \in DOMAIN work}, {})'
  <2>1. Walked({}, {0}, {})
    BY <1>1, StartsAtRoot
  <2> QED
    BY <1>1, <1>3, <1>p, <2>1 DEF Walked
<1>5. worth' = [c \in Calls' |-> IF c \in none THEN tx'.value[c] ELSE 0]
  BY <1>1, <1>2, <1>p
<1>6. ValuedSoFar'
  BY <1>4, <1>5 DEF ValuedSoFar
<1>7. SheetBalanced'
  BY <1>1, NotYetBalanced
<1> QED
  BY <1>1, <1>6, <1>7 DEF SheetInv, Transferring

LEMMA TransfersBegin ==
  ASSUME ConvertInv, SheetInv, Begin("decode", "transfers", << 0 >>)
  PROVE  SheetInv'
<1>1. /\ tx \in Transaction /\ tx' = tx /\ phase = "decode" /\ phase' = "transfers"
      /\ work = <<>> /\ work' = << 0 >>
      /\ worth' = worth /\ transfers' = <<>> /\ sheet' = [a \in Address |-> 0]
  BY DEF ConvertInv, SheetInv, Begin
<1>2. Calls' = Calls /\ 0 \in Calls
  BY <1>1, SameTree, TreeFacts
<1>3. worth' = [c \in Calls' |-> tx'.value[c]]
  <2>1. PICK past \in SUBSET Calls :
          /\ Walked(past, {work[i].call : i \in DOMAIN work}, {})
          /\ worth = [c \in Calls |-> IF c \in past THEN tx.value[c] ELSE 0]
    BY <1>1 DEF SheetInv, ValuedSoFar
  <2>2. {work[i].call : i \in DOMAIN work} = {}
    BY <1>1
  <2>3. Walked(past, {}, {})
    BY <2>1, <2>2
  <2>4. Calls \subseteq past
    BY <1>1, <2>3, AllVisited
  <2> QED
    BY <1>1, <1>2, <2>1, <2>4
<1>4. work' \in Seq(Calls') /\ IsInjective(work') /\ ToSet(work') = {0}
  BY <1>1, <1>2 DEF IsInjective, ToSet
<1>5. Walked({}, ToSet(work), {})'
  BY <1>1, <1>4, StartsAtRoot DEF Walked
<1>6. Listed({})'
  <2>1. PICK n \in Nat : n = 0
    OBVIOUS
  <2> DEFINE o == [i \in 1 .. n |-> 0]
  <2>2. 1 .. n = {}
    BY <2>1
  <2>3. o \in [1 .. n -> Calls'] /\ IsInjective(o) /\ Range(o) = {k \in {} : tx'.value[k] # 0}
    BY <2>2 DEF IsInjective, Range
  <2>4. n = Len(transfers')
    BY <1>1, <2>1
  <2>5. transfers' = [i \in 1 .. n |-> [from |-> From(o[i])', to |-> tx'.to[o[i]], value |-> tx'.value[o[i]]]]
    BY <1>1, <2>2
  <2> HIDE DEF o
  <2> QED
    BY <2>3, <2>4, <2>5 DEF Listed
<1>7. Transferring'
  BY <1>4, <1>5, <1>6 DEF Transferring
<1>8. SheetBalanced'
  BY <1>1, NotYetBalanced
<1> QED
  BY <1>1, <1>3, <1>7, <1>8 DEF SheetInv, ValuedSoFar

LEMMA TransfersEnd ==
  ASSUME ConvertInv, SheetInv, Begin("transfers", "balances", <<>>)
  PROVE  SheetInv'
<1>1. /\ tx \in Transaction /\ tx' = tx /\ phase = "transfers" /\ phase' = "balances" /\ work = <<>>
      /\ worth' = [c \in Calls |-> tx.value[c]] /\ transfers' = transfers /\ sheet' = [a \in Address |-> 0]
  BY DEF ConvertInv, SheetInv, Begin
<1>2. Calls' = Calls
  BY <1>1, SameTree
<1>3. PICK seen \in SUBSET Calls : Walked(seen, ToSet(work), {}) /\ Listed(seen)
  BY <1>1 DEF SheetInv, Transferring
<1>4. Walked(seen, {}, {})
  BY <1>1, <1>3, EmptyList
<1>5. Listed(Calls)
  <2>1. seen = Calls
    <3>1. Calls \subseteq seen
      BY <1>1, <1>4, AllVisited
    <3> QED
      BY <3>1
  <2> QED
    BY <1>3, <2>1
<1>6. Listed(Calls)'
  <2>1. PICK C : C = Calls
    OBVIOUS
  <2>2. Listed(C)'
    BY <1>1, <1>5, <2>1, SameListed
  <2> QED
    BY <1>2, <2>1, <2>2 DEF Listed
<1>7. SheetBalanced'
  BY <1>1, NotYetBalanced
<1> QED
  BY <1>1, <1>2, <1>6, <1>7 DEF SheetInv, ValuedSoFar, Transferring

LEMMA SheetStutters ==
  ASSUME ConvertInv, SheetInv, UNCHANGED vars
  PROVE  SheetInv'
<1>1. /\ tx' = tx /\ phase' = phase /\ work' = work /\ worth' = worth
      /\ transfers' = transfers /\ sheet' = sheet
  BY DEF vars
<1>2. Calls' = Calls /\ \A S, W : Walked(S, W, {})' <=> Walked(S, W, {})
  BY <1>1, SameTree, SamePlace
<1>3. ValuedSoFar'
  <2> SUFFICES ASSUME phase = "decode" PROVE ValuedSoFar'
    BY <1>1 DEF ValuedSoFar
  <2>1. PICK seen \in SUBSET Calls :
          /\ Walked(seen, {work[i].call : i \in DOMAIN work}, {})
          /\ worth = [c \in Calls |-> IF c \in seen THEN tx.value[c] ELSE 0]
    BY DEF SheetInv, ValuedSoFar
  <2>2. Walked(seen, {work[i].call : i \in DOMAIN work}, {})'
    BY <1>1, <2>1 DEF Walked
  <2>3. worth' = [c \in Calls' |-> IF c \in seen THEN tx'.value[c] ELSE 0]
    BY <1>1, <1>2, <2>1
  <2> QED
    BY <1>2, <2>2, <2>3 DEF ValuedSoFar
<1>4. Transferring'
  <2> SUFFICES ASSUME phase = "transfers" PROVE Transferring'
    BY <1>1 DEF Transferring
  <2>1. PICK seen \in SUBSET Calls : Walked(seen, ToSet(work), {}) /\ Listed(seen)
    BY DEF SheetInv, Transferring
  <2>2. Walked(seen, ToSet(work), {})' /\ Listed(seen)'
    BY <1>1, <2>1, SameListed DEF Walked
  <2>3. work' \in Seq(Calls') /\ IsInjective(work')
    BY <1>1, <1>2 DEF SheetInv, Transferring
  <2> QED
    BY <1>2, <2>2, <2>3 DEF Transferring
<1>5. phase' = "balances" => Listed(Calls)'
  <2> SUFFICES ASSUME phase' = "balances" PROVE Listed(Calls)'
    OBVIOUS
  <2>1. PICK C : C = Calls
    OBVIOUS
  <2>2. Listed(C)'
    BY <1>1, <2>1, SameListed DEF SheetInv
  <2> QED
    BY <1>2, <2>1, <2>2 DEF Listed
<1>6. SheetBalanced'
  <2>1. SheetBalanced /\ (After("balances")' <=> After("balances"))
    BY <1>1 DEF SheetInv, After
  <2> QED
    BY <1>1, <2>1, SameBalance, BalancedIs
<1> QED
  BY <1>1, <1>2, <1>3, <1>4, <1>5, <1>6 DEF SheetInv

LEMMA SheetKept ==
  ConvertInv /\ DecodeInv /\ SheetInv /\ [Next]_vars => SheetInv'
<1> SUFFICES ASSUME ConvertInv, DecodeInv, SheetInv, [Next]_vars PROVE SheetInv'
  OBVIOUS
<1>1. tx \in Transaction /\ phase \in Range(Passes)
  BY DEF ConvertInv
<1>2. ASSUME phase \in {"prune", "done"}
      PROVE  \A a \in Address \ {ZeroAddr} : Balanced(To(a), By(a), tx.value, sheet[a])
  <2>1. After("balances") /\ SheetBalanced
    BY <1>1, <1>2, Order DEF SheetInv, After
  <2> QED
    BY <2>1, BalancedIs
<1>3. ASSUME phase \in {"convert", "delegations"}, phase' \in {"convert", "delegations"},
             tx' = tx, worth' = worth, transfers' = transfers, sheet' = sheet
      PROVE  SheetInv'
  <2>1. Calls' = Calls /\ SheetBalanced'
    BY <1>3, SameTree, NotYetBalanced
  <2> QED
    BY <1>3, <2>1 DEF SheetInv, ValuedSoFar, Transferring
<1>4. CASE Convert \/ Delegate
  BY <1>3, <1>4 DEF Convert, Delegate
<1>5. CASE Decode
  BY <1>5, SheetDecodes
<1>6. CASE Transfer
  BY <1>6, SheetTransfers
<1>7. CASE Balance
  BY <1>7, SheetBooked
<1>8. CASE Prune
  <2>1. phase = "prune" /\ phase' = "prune" /\ tx' = tx /\ transfers' = transfers /\ sheet' = sheet
    BY <1>8 DEF Prune
  <2> QED
    BY <1>2, <2>1, StaysBalanced
<1>9. CASE NextPass
  <2>1. CASE Begin("convert", "delegations", << 0 >>)
    BY <1>3, <2>1 DEF Begin
  <2>2. CASE Begin("delegations", "decode", Root)
    BY <2>2, ValuesBegin
  <2>3. CASE Begin("decode", "transfers", << 0 >>)
    BY <2>3, TransfersBegin
  <2>4. CASE Begin("transfers", "balances", <<>>)
    BY <2>4, TransfersEnd
  <2>5. CASE Begin("prune", "done", <<>>)
    <3>1. phase = "prune" /\ phase' = "done" /\ tx' = tx /\ transfers' = transfers /\ sheet' = sheet
      BY <2>5 DEF Begin
    <3> QED
      BY <1>2, <3>1, StaysBalanced
  <2> QED
    BY <1>9, <2>1, <2>2, <2>3, <2>4, <2>5 DEF NextPass
<1>10. CASE UNCHANGED vars
  BY <1>10, SheetStutters
<1> QED
  BY <1>4, <1>5, <1>6, <1>7, <1>8, <1>9, <1>10 DEF Next, Finished

\* Until the balances are made, each decoded call has the value of its call, and
\* the transfers are one for each call visited that carries ether.
THEOREM TreeSheet == Spec => []SheetInv
<1>1. Init => SheetInv
  <2> SUFFICES ASSUME Init PROVE SheetInv
    OBVIOUS
  <2>1. /\ phase = "convert" /\ worth = [c \in Calls |-> 0] /\ transfers = <<>>
        /\ sheet = [a \in Address |-> 0] /\ ~After("balances")
    BY PassNames, Order DEF Init, After
  <2>2. SheetBalanced
    BY <2>1, BalancedIs
  <2> QED
    BY <2>1, <2>2 DEF SheetInv, ValuedSoFar, Transferring
<1> QED
  BY <1>1, SheetKept, TreeConverts, TreeDecodes, PTL DEF Spec

\* ABIBalancesDecoder neither makes nor loses ether: the balance of an account is
\* what the calls to it carried less what the calls it sent carried.
THEOREM TreeBalances == Spec => []SheetBalanced
<1>1. SheetInv => SheetBalanced
  BY DEF SheetInv
<1> QED
  BY <1>1, TreeSheet, PTL

-----------------------------------------------------------------------------
(***************************************************************************)
(* Functions that are recursive over the tree.  There is one when the      *)
(* value at a point depends on the points of a lower rank only.            *)
(***************************************************************************)
Lower(D, rank, f, g, c) == \A k \in D : rank[k] < rank[c] => f[k] = g[k]

\* A step from the values so far to the value at a point.
StepOver(D, V, rank, step) ==
  /\ step \in [D \X [D -> V] -> V]
  /\ \A c \in D : \A f, g \in [D -> V] : Lower(D, rank, f, g, c) => step[<<c, f>>] = step[<<c, g>>]

DoneTo(D, V, rank, step, n) ==
  \E f \in [D -> V] : \A c \in D : rank[c] < n => f[c] = step[<<c, f>>]

LEMMA OneRankMore ==
  ASSUME NEW D, NEW V, NEW rank \in [D -> Nat], NEW step, StepOver(D, V, rank, step),
         NEW n \in Nat, DoneTo(D, V, rank, step, n)
  PROVE  DoneTo(D, V, rank, step, n + 1)
<1>1. PICK f \in [D -> V] : \A c \in D : rank[c] < n => f[c] = step[<<c, f>>]
  BY DEF DoneTo
<1> DEFINE g == [c \in D |-> IF rank[c] < n THEN f[c] ELSE step[<<c, f>>]]
<1>2. \A c \in D : g[c] = IF rank[c] < n THEN f[c] ELSE step[<<c, f>>]
  OBVIOUS
<1>3. g \in [D -> V]
  BY DEF StepOver
<1> HIDE DEF g
<1>4. \A c \in D : rank[c] < n + 1 => Lower(D, rank, f, g, c)
  <2> SUFFICES ASSUME NEW c \in D, rank[c] < n + 1, NEW k \in D, rank[k] < rank[c] PROVE f[k] = g[k]
    BY DEF Lower
  <2>1. rank[c] \in Nat /\ rank[k] \in Nat
    OBVIOUS
  <2>2. rank[k] < n
    BY <2>1
  <2> QED
    BY <1>2, <2>2
<1>5. \A c \in D : rank[c] < n + 1 => step[<<c, f>>] = step[<<c, g>>]
  BY <1>3, <1>4 DEF StepOver
<1>6. \A c \in D : rank[c] < n + 1 => g[c] = step[<<c, g>>]
  BY <1>1, <1>2, <1>5
<1> QED
  BY <1>3, <1>6 DEF DoneTo

LEMMA AllRanks ==
  ASSUME NEW D, NEW V, V # {}, NEW rank \in [D -> Nat], NEW step, StepOver(D, V, rank, step), NEW n \in Nat
  PROVE  DoneTo(D, V, rank, step, n)
<1> DEFINE T == {k \in Nat : ~DoneTo(D, V, rank, step, k)}
<1> SUFFICES ASSUME T # {} PROVE FALSE
  OBVIOUS
<1>1. PICK k \in T : \A j \in T : k <= j
  BY LeastNumber
<1>2. k # 0
  <2> SUFFICES DoneTo(D, V, rank, step, 0)
    BY <1>1
  <2>1. PICK v \in V : TRUE
    OBVIOUS
  <2>2. [c \in D |-> v] \in [D -> V] /\ \A c \in D : ~(rank[c] < 0)
    OBVIOUS
  <2> QED
    BY <2>2 DEF DoneTo
<1>3. k - 1 \in Nat /\ k - 1 \notin T /\ (k - 1) + 1 = k
  BY <1>1, <1>2
<1>4. DoneTo(D, V, rank, step, k - 1)
  BY <1>3
<1> QED
  BY <1>1, <1>3, <1>4, OneRankMore

RankedTo(D, rank, n) == n \in Nat /\ rank \in [D -> Nat] /\ \A c \in D : rank[c] < n

Recursive(D, V, step) == \E f \in [D -> V] : \A c \in D : f[c] = step[<<c, f>>]

LEMMA Recursion ==
  ASSUME NEW D, NEW V, V # {}, NEW rank, NEW n, RankedTo(D, rank, n), NEW step, StepOver(D, V, rank, step)
  PROVE  Recursive(D, V, step)
<1>1. DoneTo(D, V, rank, step, n)
  BY AllRanks DEF RankedTo
<1> QED
  BY <1>1 DEF DoneTo, RankedTo, Recursive

-----------------------------------------------------------------------------
(***************************************************************************)
(* Lists put together.                                                     *)
(***************************************************************************)
LEMMA FlattenedIs ==
  ASSUME NEW S, NEW n \in Nat, NEW s \in [1 .. n -> Seq(S)]
  PROVE  /\ FlattenSeq(s) \in Seq(S)
         /\ n = 1 => FlattenSeq(s) = s[1]
<1>1. s \in Seq(Seq(S)) /\ Len(s) = n /\ Len(s) \in Nat
  BY SeqDef, LenProperties
<1>2. CASE n = 0
  <2>1. s = <<>>
    BY <1>1, <1>2, NoneLeft
  <2> QED
    BY <1>1, <1>2, <2>1, EmptyList DEF FlattenSeq
<1>3. CASE n # 0
  <2> DEFINE D == 1 .. n
             V == Seq(S)
             rank == [i \in D |-> i]
             step == [p \in D \X [D -> V] |-> IF p[1] = 1 THEN s[p[1]] ELSE p[2][p[1] - 1] \o s[p[1]]]
  <2>1. \A i \in D, f \in [D -> V] : step[<<i, f>>] = IF i = 1 THEN s[i] ELSE f[i - 1] \o s[i]
    OBVIOUS
  <2>2. \A i \in D : i # 1 => i - 1 \in D /\ rank[i - 1] < rank[i]
    OBVIOUS
  <2>3. step \in [D \X [D -> V] -> V]
    <3>1. ASSUME NEW i \in D, NEW f \in [D -> V] PROVE (IF i = 1 THEN s[i] ELSE f[i - 1] \o s[i]) \in V
      <4>1. CASE i = 1
        BY <4>1
      <4>2. CASE i # 1
        <5>1. f[i - 1] \in Seq(S) /\ s[i] \in Seq(S)
          BY <2>2, <4>2
        <5>2. f[i - 1] \o s[i] \in Seq(S)
          BY <5>1, ConcatProperties
        <5> QED
          BY <4>2, <5>2
      <4> QED
        BY <4>1, <4>2
    <3>2. \A p \in D \X [D -> V] : p[1] \in D /\ p[2] \in [D -> V] /\ p = <<p[1], p[2]>>
      OBVIOUS
    <3> HIDE DEF D, V
    <3>3. \A p \in D \X [D -> V] : (IF p[1] = 1 THEN s[p[1]] ELSE p[2][p[1] - 1] \o s[p[1]]) \in V
      BY <3>1, <3>2
    <3> QED
      BY <3>3
  <2>4. rank \in [D -> Nat] /\ (\A i \in D : rank[i] < n + 1) /\ n + 1 \in Nat
    OBVIOUS
  <2>5. <<>> \in V
    BY EmptyList
  <2> HIDE DEF step, V, rank
  <2>6. StepOver(D, V, rank, step)
    <3>1. ASSUME NEW i \in D, NEW f \in [D -> V], NEW g \in [D -> V], Lower(D, rank, f, g, i)
          PROVE  step[<<i, f>>] = step[<<i, g>>]
      <4>1. i # 1 => f[i - 1] = g[i - 1]
        BY <2>2, <3>1 DEF Lower
      <4> HIDE DEF D
      <4>2. /\ step[<<i, f>>] = IF i = 1 THEN s[i] ELSE f[i - 1] \o s[i]
            /\ step[<<i, g>>] = IF i = 1 THEN s[i] ELSE g[i - 1] \o s[i]
        BY <2>1, <3>1
      <4> QED
        BY <4>1, <4>2
    <3> QED
      BY <2>3, <3>1 DEF StepOver
  <2>7. PICK f \in [D -> V] : \A i \in D : f[i] = step[<<i, f>>]
    <3> HIDE DEF D
    <3>1. V # {}
      BY <2>5
    <3>2. PICK m : m = n + 1
      OBVIOUS
    <3>3. RankedTo(D, rank, m)
      BY <2>4, <3>2 DEF RankedTo
    <3>4. Recursive(D, V, step)
      BY <2>6, <3>1, <3>3, Recursion
    <3> QED
      BY <3>4 DEF Recursive
  <2>8. f = [i \in 1 .. n |-> IF i = 1 THEN s[i] ELSE f[i - 1] \o s[i]]
    BY <2>1, <2>7
  <2>9. PICK h : h = CHOOSE flatten : flatten = [i \in 1 .. n |-> IF i = 1 THEN s[i] ELSE flatten[i - 1] \o s[i]]
    OBVIOUS
  <2>10. h = [i \in 1 .. n |-> IF i = 1 THEN s[i] ELSE h[i - 1] \o s[i]]
    BY <2>8, <2>9
  <2>11. FlattenSeq(s) = h[n]
    BY <1>1, <1>3, <2>9 DEF FlattenSeq
  <2> DEFINE T == {i \in 1 .. n : h[i] \notin Seq(S)}
  <2>12. T = {}
    <3> SUFFICES ASSUME T # {} PROVE FALSE
      OBVIOUS
    <3>1. PICK k \in T : \A j \in T : k <= j
      <4>1. T \subseteq Nat
        OBVIOUS
      <4> QED
        BY <4>1, LeastNumber
    <3>2. k # 1
      BY <2>10, <3>1
    <3>3. k - 1 \in 1 .. n /\ k - 1 \notin T
      BY <3>1, <3>2
    <3>4. h[k - 1] \in Seq(S) /\ s[k] \in Seq(S) /\ h[k] = h[k - 1] \o s[k]
      BY <2>10, <3>1, <3>2, <3>3
    <3>5. h[k] \in Seq(S)
      BY <3>4, ConcatProperties
    <3> QED
      BY <3>1, <3>5
  <2>13. n \in 1 .. n /\ (n = 1 => h[n] = s[1])
    BY <1>3, <2>10
  <2> QED
    BY <2>11, <2>12, <2>13
<1> QED
  BY <1>2, <1>3

-----------------------------------------------------------------------------
(***************************************************************************)
(* Chains of delegatecalls in the tree.                                    *)
(***************************************************************************)
LEMMA OnlyChild ==
  ASSUME tx \in Transaction, NEW c \in Calls, Delegator(c)
  PROVE  /\ Below(c) = {Kids(c)[1]} /\ DOMAIN Kids(c) = {1} /\ Len(Kids(c)) = 1
         /\ Kids(c)[1] \in 1 .. tx.size /\ Kids(c)[1] \in Calls /\ tx.parent[Kids(c)[1]] = c /\ c < Kids(c)[1]
<1>1. Kids(c) \in Seq(Calls) /\ ToSet(Kids(c)) = Below(c) /\ Len(Kids(c)) = 1
  BY KidsAre DEF Delegator
<1>2. DOMAIN Kids(c) = {1}
  BY <1>1, LenProperties
<1>3. Below(c) = {Kids(c)[1]}
  BY <1>1, <1>2 DEF ToSet
<1>4. Kids(c)[1] \in Below(c)
  BY <1>3
<1>5. Kids(c)[1] \in 1 .. tx.size /\ tx.parent[Kids(c)[1]] = c
  BY <1>4 DEF Below
<1> QED
  BY <1>1, <1>2, <1>3, <1>5, TreeFacts

LEMMA ChildOf ==
  ASSUME tx \in Transaction, NEW c \in Calls, NEW i \in DOMAIN Kids(c)
  PROVE  /\ Kids(c)[i] \in 1 .. tx.size /\ Kids(c)[i] \in Calls /\ Kids(c)[i] # 0
         /\ tx.parent[Kids(c)[i]] = c /\ c < Kids(c)[i]
<1>1. Kids(c)[i] \in Below(c)
  BY KidsAre DEF ToSet
<1>2. Kids(c)[i] \in 1 .. tx.size /\ tx.parent[Kids(c)[i]] = c
  BY <1>1 DEF Below
<1> QED
  BY <1>2, TreeFacts

\* A call of the lowest number, or of the highest, is as good as induction.
LEMMA LastCall ==
  ASSUME tx \in Transaction, NEW T, T \subseteq Calls, T # {}
  PROVE  \E x \in T : \A y \in T : y <= x
<1>1. Calls = 0 .. tx.size /\ tx.size \in Nat
  BY TreeFacts
<1> DEFINE U == {tx.size - y : y \in T}
<1>2. U \subseteq Nat /\ U # {}
  <2>1. \A y \in T : tx.size - y \in Nat
    BY <1>1
  <2> QED
    BY <2>1
<1>3. PICK u \in U : \A v \in U : u <= v
  BY <1>2, LeastNumber
<1>4. PICK x \in T : u = tx.size - x
  BY <1>3
<1>5. \A y \in T : tx.size - x <= tx.size - y
  BY <1>3, <1>4
<1>6. ASSUME NEW y \in T PROVE y <= x
  <2>1. y \in Int /\ x \in Int /\ tx.size \in Int
    BY <1>1
  <2>2. tx.size - x <= tx.size - y
    BY <1>5
  <2> QED
    BY <2>1, <2>2
<1> QED
  BY <1>6

LEMMA FirstCall ==
  ASSUME tx \in Transaction, NEW T, T \subseteq Calls, T # {}
  PROVE  \E x \in T : \A y \in T : x <= y
<1>1. T \subseteq Nat
  BY TreeFacts
<1> QED
  BY <1>1, LeastNumber

Down == [c \in Calls |-> tx.size - c]

LEMMA RankedDown ==
  ASSUME tx \in Transaction
  PROVE  RankedTo(Calls, Down, tx.size + 1) /\ \A c, k \in Calls : c < k => Down[k] < Down[c]
<1>1. Calls = 0 .. tx.size /\ tx.size \in Nat
  BY TreeFacts
<1> QED
  BY <1>1 DEF RankedTo, Down

LEMMA FirstIs ==
  ASSUME tx \in Transaction
  PROVE  /\ First \in [Calls -> Calls] /\ First[0] = 0
         /\ \A c \in Calls : First[c] = IF c # 0 /\ Delegator(tx.parent[c]) THEN First[tx.parent[c]] ELSE c
<1>1. Calls = 0 .. tx.size /\ tx.size \in Nat /\ 0 \in Calls
  BY TreeFacts
<1>2. \A c \in Calls : c # 0 => tx.parent[c] \in Calls /\ tx.parent[c] < c
  BY TreeFacts
<1> DEFINE up == [c \in Calls |-> c]
           next(c, f) == IF c # 0 /\ Delegator(tx.parent[c]) THEN f[tx.parent[c]] ELSE c
           step == [p \in Calls \X [Calls -> Calls] |-> next(p[1], p[2])]
<1>3. PICK n : n = tx.size + 1
  OBVIOUS
<1>4. RankedTo(Calls, up, n)
  BY <1>1, <1>3 DEF RankedTo
<1>5. StepOver(Calls, Calls, up, step)
  <2>1. \A c \in Calls, f \in [Calls -> Calls] : next(c, f) \in Calls
    BY <1>2
  <2>2. \A c \in Calls, f, g \in [Calls -> Calls] : Lower(Calls, up, f, g, c) => next(c, f) = next(c, g)
    BY <1>2 DEF Lower
  <2> HIDE DEF next
  <2>3. \A c \in Calls, f \in [Calls -> Calls] : step[<<c, f>>] = next(c, f)
    OBVIOUS
  <2>4. step \in [Calls \X [Calls -> Calls] -> Calls]
    BY <2>1
  <2> QED
    BY <2>2, <2>3, <2>4 DEF StepOver
<1>6. \A c \in Calls, f \in [Calls -> Calls] : step[<<c, f>>] = next(c, f)
  OBVIOUS
<1> HIDE DEF step, up
<1>7. Recursive(Calls, Calls, step)
  BY <1>1, <1>4, <1>5, Recursion
<1>8. PICK f \in [Calls -> Calls] : \A c \in Calls : f[c] = step[<<c, f>>]
  BY <1>7 DEF Recursive
<1>9. \A c \in Calls : f[c] = next(c, f)
  BY <1>6, <1>8
<1>10. f = [c \in Calls |-> IF c # 0 /\ Delegator(tx.parent[c]) THEN f[tx.parent[c]] ELSE c]
  BY <1>9
<1>11. First = [c \in Calls |-> IF c # 0 /\ Delegator(tx.parent[c]) THEN First[tx.parent[c]] ELSE c]
  BY <1>10 DEF First
<1>12. \A c \in Calls : First[c] = IF c # 0 /\ Delegator(tx.parent[c]) THEN First[tx.parent[c]] ELSE c
  BY <1>11
<1> DEFINE T == {c \in Calls : First[c] \notin Calls}
<1>13. T = {}
  <2> SUFFICES ASSUME T # {} PROVE FALSE
    OBVIOUS
  <2>1. PICK k \in T : \A j \in T : k <= j
    BY FirstCall
  <2>2. k # 0 /\ Delegator(tx.parent[k])
    BY <1>12, <2>1
  <2>3. tx.parent[k] \in Calls /\ tx.parent[k] < k /\ k \in Nat /\ tx.parent[k] \in Nat
    BY <1>1, <1>2, <2>1, <2>2
  <2>4. First[tx.parent[k]] \in Calls
    BY <2>1, <2>3
  <2> QED
    BY <1>12, <2>1, <2>2, <2>4
<1>14. First \in [Calls -> Calls]
  BY <1>11, <1>13
<1> QED
  BY <1>1, <1>12, <1>14

LEMMA EndIs ==
  ASSUME tx \in Transaction
  PROVE  /\ End \in [Calls -> Calls]
         /\ \A c \in Calls : End[c] = IF Delegator(c) THEN End[Kids(c)[1]] ELSE c
<1>1. Calls = 0 .. tx.size /\ tx.size \in Nat /\ 0 \in Calls
  BY TreeFacts
<1>2. \A c \in Calls : Delegator(c) => Kids(c)[1] \in Calls /\ Down[Kids(c)[1]] < Down[c] /\ c < Kids(c)[1]
  BY OnlyChild, RankedDown
<1> DEFINE next(c, f) == IF Delegator(c) THEN f[Kids(c)[1]] ELSE c
           step == [p \in Calls \X [Calls -> Calls] |-> next(p[1], p[2])]
<1>5. StepOver(Calls, Calls, Down, step)
  <2>1. \A c \in Calls, f \in [Calls -> Calls] : next(c, f) \in Calls
    BY <1>2
  <2>2. \A c \in Calls, f, g \in [Calls -> Calls] : Lower(Calls, Down, f, g, c) => next(c, f) = next(c, g)
    BY <1>2 DEF Lower
  <2> HIDE DEF next
  <2>3. \A c \in Calls, f \in [Calls -> Calls] : step[<<c, f>>] = next(c, f)
    OBVIOUS
  <2>4. step \in [Calls \X [Calls -> Calls] -> Calls]
    BY <2>1
  <2> QED
    BY <2>2, <2>3, <2>4 DEF StepOver
<1>6. \A c \in Calls, f \in [Calls -> Calls] : step[<<c, f>>] = next(c, f)
  OBVIOUS
<1> HIDE DEF step
<1>7. Recursive(Calls, Calls, step)
  <2>1. PICK n : n = tx.size + 1
    OBVIOUS
  <2>2. RankedTo(Calls, Down, n)
    BY <2>1, RankedDown
  <2> QED
    BY <1>1, <2>2, <1>5, Recursion
<1>8. PICK f \in [Calls -> Calls] : \A c \in Calls : f[c] = step[<<c, f>>]
  BY <1>7 DEF Recursive
<1>9. \A c \in Calls : f[c] = next(c, f)
  BY <1>6, <1>8
<1>10. f = [c \in Calls |-> IF Delegator(c) THEN f[Kids(c)[1]] ELSE c]
  BY <1>9
<1>11. End = [c \in Calls |-> IF Delegator(c) THEN End[Kids(c)[1]] ELSE c]
  BY <1>10 DEF End
<1>12. \A c \in Calls : End[c] = IF Delegator(c) THEN End[Kids(c)[1]] ELSE c
  BY <1>11
<1> DEFINE T == {c \in Calls : End[c] \notin Calls}
<1>13. T = {}
  <2> SUFFICES ASSUME T # {} PROVE FALSE
    OBVIOUS
  <2>1. PICK k \in T : \A j \in T : j <= k
    BY LastCall
  <2>2. Delegator(k)
    BY <1>12, <2>1
  <2>3. Kids(k)[1] \in Calls /\ k < Kids(k)[1] /\ k \in Nat /\ Kids(k)[1] \in Nat
    BY <1>1, <1>2, <2>1, <2>2
  <2>4. End[Kids(k)[1]] \in Calls
    BY <2>1, <2>3
  <2> QED
    BY <1>12, <2>1, <2>2, <2>4
<1>14. End \in [Calls -> Calls]
  BY <1>11, <1>13
<1> QED
  BY <1>12, <1>14

LEMMA ChainFacts ==
  ASSUME tx \in Transaction
  PROVE  /\ \A c \in Calls : First[c] <= c /\ First[First[c]] = First[c]
         /\ \A c \in Calls : Delegator(c) => /\ First[Kids(c)[1]] = First[c] /\ End[Kids(c)[1]] = End[c]
                                             /\ First[Kids(c)[1]] # Kids(c)[1]
         /\ \A c \in Calls : ~Delegator(End[c]) /\ First[End[c]] = First[c] /\ c <= End[c]
         /\ \A c \in Calls : End[First[c]] = End[c]
         /\ \A c \in Calls : ~Delegator(c) => End[c] = c
<1>1. /\ Calls = 0 .. tx.size /\ tx.size \in Nat /\ 0 \in Calls /\ Calls \subseteq Nat
      /\ First \in [Calls -> Calls] /\ End \in [Calls -> Calls]
  BY TreeFacts, FirstIs, EndIs
<1>2. \A c \in Calls : c # 0 => tx.parent[c] \in Calls /\ tx.parent[c] < c
  BY TreeFacts
<1>3. \A c \in Calls : First[c] = IF c # 0 /\ Delegator(tx.parent[c]) THEN First[tx.parent[c]] ELSE c
  BY FirstIs
<1>4. \A c \in Calls : End[c] = IF Delegator(c) THEN End[Kids(c)[1]] ELSE c
  BY EndIs
<1>5. \A c \in Calls : Delegator(c) =>
        /\ Kids(c)[1] \in Calls /\ Kids(c)[1] # 0 /\ tx.parent[Kids(c)[1]] = c /\ c < Kids(c)[1]
        /\ Below(c) = {Kids(c)[1]}
  BY OnlyChild, TreeFacts
<1> DEFINE T == {c \in Calls : ~(First[c] <= c /\ First[First[c]] = First[c] /\ End[First[c]] = End[c])}
<1>6. T = {}
  <2> SUFFICES ASSUME T # {} PROVE FALSE
    OBVIOUS
  <2>1. PICK k \in T : \A j \in T : k <= j
    BY FirstCall
  <2>2. k # 0 /\ Delegator(tx.parent[k])
    BY <1>1, <1>3, <2>1
  <2>p. tx.parent[k] \in Calls /\ tx.parent[k] < k /\ k \in Calls
    BY <1>2, <2>1, <2>2
  <2>3. PICK p \in Calls : p = tx.parent[k] /\ p < k /\ p \notin T
    <3>1. PICK p \in Calls : p = tx.parent[k] /\ p < k
      BY <2>p
    <3>2. p \in Nat /\ k \in Nat /\ ~(k <= p)
      BY <1>1, <2>p, <3>1
    <3>3. p \notin T
      BY <2>1, <3>2
    <3> QED
      BY <3>1, <3>3
  <2>4. First[k] = First[p] /\ First[p] <= p /\ First[First[p]] = First[p] /\ End[First[p]] = End[p]
    BY <1>3, <2>1, <2>2, <2>3
  <2>5. k \in Below(p)
    BY <2>1, <2>2, <2>3, TreeFacts DEF Below
  <2>6. Kids(p)[1] = k
    BY <1>5, <2>2, <2>3, <2>5
  <2>7. End[p] = End[k]
    BY <1>4, <2>2, <2>3, <2>6
  <2>8. First[p] \in Nat /\ p \in Nat /\ k \in Nat
    BY <1>1, <2>1
  <2> QED
    BY <2>1, <2>3, <2>4, <2>7, <2>8
<1>7. \A c \in Calls : First[c] <= c /\ First[First[c]] = First[c] /\ End[First[c]] = End[c]
  BY <1>6
<1>8. ASSUME NEW c \in Calls, Delegator(c)
      PROVE  First[Kids(c)[1]] = First[c] /\ End[Kids(c)[1]] = End[c] /\ First[Kids(c)[1]] # Kids(c)[1]
  <2>1. First[Kids(c)[1]] = First[c]
    BY <1>3, <1>5, <1>8
  <2>2. End[Kids(c)[1]] = End[c]
    BY <1>4, <1>8
  <2>3. First[c] <= c /\ c < Kids(c)[1] /\ First[c] \in Nat /\ c \in Nat /\ Kids(c)[1] \in Nat
    BY <1>1, <1>5, <1>7, <1>8
  <2> QED
    BY <2>1, <2>2, <2>3
<1> DEFINE U == {c \in Calls : ~(~Delegator(End[c]) /\ First[End[c]] = First[c] /\ c <= End[c])}
<1>9. U = {}
  <2> SUFFICES ASSUME U # {} PROVE FALSE
    OBVIOUS
  <2>1. PICK k \in U : \A j \in U : j <= k
    BY LastCall
  <2>2. Delegator(k)
    BY <1>1, <1>4, <2>1
  <2>3. PICK m \in Calls : m = Kids(k)[1] /\ k < m
    BY <1>5, <2>1, <2>2
  <2>4. m \in Nat /\ k \in Nat /\ End[m] \in Nat
    BY <1>1, <2>1, <2>3
  <2>5. m \notin U
    BY <2>1, <2>3, <2>4
  <2>6. ~Delegator(End[m]) /\ First[End[m]] = First[m] /\ m <= End[m]
    BY <2>5
  <2>7. First[m] = First[k] /\ End[m] = End[k]
    BY <1>8, <2>1, <2>2, <2>3
  <2>8. k <= End[k]
    BY <2>3, <2>4, <2>6, <2>7
  <2> QED
    BY <2>1, <2>6, <2>7, <2>8
<1>10. \A c \in Calls : ~Delegator(End[c]) /\ First[End[c]] = First[c] /\ c <= End[c]
  BY <1>9
<1> QED
  BY <1>4, <1>7, <1>8, <1>10

\* The calls below a call are heads of chains just when it is no delegator.
LEMMA HeadsBelow ==
  ASSUME tx \in Transaction, NEW c \in Calls, NEW k \in Below(c)
  PROVE  /\ k \in Heads <=> ~Delegator(c)
         /\ k \in Calls /\ k # 0 /\ tx.parent[k] = c /\ c < k
<1>1. k \in 1 .. tx.size /\ k \in Calls /\ k # 0 /\ tx.parent[k] = c /\ c < k
  BY TreeFacts DEF Below
<1>2. First[k] = IF Delegator(c) THEN First[c] ELSE k
  BY <1>1, FirstIs
<1>3. First[c] <= c /\ First[c] \in Nat /\ c \in Nat /\ k \in Nat
  BY <1>1, ChainFacts, FirstIs, TreeFacts
<1> QED
  BY <1>1, <1>2, <1>3 DEF Heads

\* In all, the calls below the end of a chain are the heads whose callers are of
\* that chain.
LEMMA CalledByChain ==
  ASSUME tx \in Transaction, NEW f \in Heads
  PROVE  Below(End[f]) = {c \in Heads \ {0} : First[tx.parent[c]] = f}
<1>1. f \in Calls /\ First[f] = f /\ End[f] \in Calls /\ ~Delegator(End[f]) /\ First[End[f]] = f
  BY ChainFacts, EndIs DEF Heads
<1>2. \A k \in Below(End[f]) : k \in Heads /\ k # 0 /\ tx.parent[k] = End[f]
  BY <1>1, HeadsBelow
<1>3. ASSUME NEW c \in Heads, c # 0, First[tx.parent[c]] = f PROVE c \in Below(End[f])
  <2>1. c \in 1 .. tx.size /\ tx.parent[c] \in Calls
    BY <1>3, TreeFacts DEF Heads
  <2>2. c \in Below(tx.parent[c])
    BY <2>1 DEF Below
  <2>3. ~Delegator(tx.parent[c])
    BY <1>3, <2>1, <2>2, HeadsBelow
  <2>4. End[tx.parent[c]] = tx.parent[c] /\ End[f] = End[tx.parent[c]]
    BY <1>3, <2>1, <2>3, ChainFacts
  <2> QED
    BY <2>2, <2>4
<1> QED
  BY <1>1, <1>2, <1>3

LEMMA SameLength ==
  ASSUME NEW m \in Nat, NEW n \in Nat, 1 .. m = 1 .. n
  PROVE  m = n
<1>1. m # 0 => m \in 1 .. n
  <2>1. m # 0 => m \in 1 .. m
    OBVIOUS
  <2> QED
    BY <2>1
<1>2. n # 0 => n \in 1 .. m
  <2>1. n # 0 => n \in 1 .. n
    OBVIOUS
  <2> QED
    BY <2>1
<1> QED
  BY <1>1, <1>2

LEMMA PutFirst ==
  ASSUME NEW S, NEW x \in S, NEW s \in Seq(S), s # <<>>
  PROVE  /\ <<x>> \o s \in Seq(S) /\ <<x>> \o s # <<>>
         /\ Head(<<x>> \o s) = x /\ Last(<<x>> \o s) = Last(s)
         /\ ToSet(<<x>> \o s) = {x} \cup ToSet(s)
<1>1. PICK o : o = <<x>>
  OBVIOUS
<1>2. PICK t : t = o \o s
  OBVIOUS
<1>3. o \in Seq(S) /\ Len(o) = 1 /\ o[1] = x
  BY <1>1
<1>4. Len(s) \in Nat /\ Len(s) # 0 /\ DOMAIN s = 1 .. Len(s)
  BY LenProperties, NoneLeft
<1>5. /\ t \in Seq(S) /\ Len(t) = 1 + Len(s)
      /\ \A i \in 1 .. 1 + Len(s) : t[i] = IF i <= 1 THEN o[i] ELSE s[i - 1]
  <2>1. /\ t \in Seq(S) /\ Len(t) = Len(o) + Len(s)
        /\ \A i \in 1 .. Len(o) + Len(s) : t[i] = IF i <= Len(o) THEN o[i] ELSE s[i - Len(o)]
    BY <1>2, <1>3, ConcatProperties
  <2> QED
    BY <1>3, <2>1
<1>6. DOMAIN t = 1 .. 1 + Len(s) /\ t # <<>>
  BY <1>4, <1>5, LenProperties, NoneLeft
<1>7. t[1] = x /\ Head(t) = x
  <2>1. t[1] = x
    BY <1>3, <1>4, <1>5
  <2> QED
    BY <1>5, <1>6, <2>1, HeadTailProperties
<1>8. \A i \in 1 .. Len(s) : i + 1 \in 1 .. 1 + Len(s) /\ t[i + 1] = s[i]
  BY <1>4, <1>5
<1>9. Last(t) = Last(s)
  <2>1. Len(s) \in 1 .. Len(s) /\ Len(t) = Len(s) + 1
    BY <1>4, <1>5
  <2> QED
    BY <1>8, <2>1 DEF Last
<1>10. ASSUME NEW i \in DOMAIN t PROVE t[i] \in {x} \cup ToSet(s)
  <2>1. CASE i = 1
    BY <1>7, <2>1
  <2>2. CASE i # 1
    <3>1. i - 1 \in DOMAIN s /\ t[i] = s[i - 1]
      BY <1>4, <1>5, <1>6, <2>2
    <3> QED
      BY <3>1 DEF ToSet
  <2> QED
    BY <2>1, <2>2
<1>11. ASSUME NEW y \in {x} \cup ToSet(s) PROVE \E i \in DOMAIN t : t[i] = y
  <2>1. CASE y = x
    BY <1>4, <1>6, <1>7, <2>1
  <2>2. CASE y \in ToSet(s)
    <3>1. PICK i \in DOMAIN s : s[i] = y
      BY <2>2 DEF ToSet
    <3> QED
      BY <1>4, <1>6, <1>8, <3>1
  <2> QED
    BY <2>1, <2>2
<1>12. ToSet(t) = {x} \cup ToSet(s)
  BY <1>10, <1>11 DEF ToSet
<1> QED
  BY <1>1, <1>2, <1>5, <1>6, <1>7, <1>9, <1>12

LEMMA OneCall ==
  ASSUME NEW S, NEW x \in S
  PROVE  /\ <<x>> \in Seq(S) /\ <<x>> # <<>> /\ Head(<<x>>) = x /\ Last(<<x>>) = x /\ ToSet(<<x>>) = {x}
<1>1. PICK o : o = <<x>>
  OBVIOUS
<1>2. o \in Seq(S) /\ Len(o) = 1 /\ o[1] = x /\ DOMAIN o = {1}
  BY <1>1
<1>3. o # <<>> /\ Head(o) = x /\ Last(o) = x /\ ToSet(o) = {x}
  BY <1>2, NoneLeft, HeadTailProperties DEF Last, ToSet
<1> QED
  BY <1>1, <1>2, <1>3

-----------------------------------------------------------------------------
(***************************************************************************)
(* A step of prune_delegates.                                              *)
(***************************************************************************)
\* Pruning, with the chains of some heads visited.
SoFar(seen, waiting) ==
  /\ tx \in Transaction /\ seen \in SUBSET Heads
  /\ HeadsWalked(seen, waiting) /\ PrunedBy(seen)

\* A list is a function of its places.
LEMMA ListIs ==
  ASSUME NEW S, NEW s \in Seq(S)
  PROVE  s = [i \in DOMAIN s |-> s[i]]
<1>1. s \in [1 .. Len(s) -> S]
  BY LenProperties
<1> QED
  BY <1>1

LEMMA Untouched ==
  ASSUME NEW seen, NEW waiting, SoFar(seen, waiting), NEW f \in Heads, f \notin seen, NEW b \in Calls, First[b] = f
  PROVE  decoded[b] = Kids(b)
<1>1. tx \in Transaction /\ seen \in SUBSET Heads /\ HeadsWalked(seen, waiting) /\ PrunedBy(seen)
  BY DEF SoFar
<1>2. ASSUME NEW i \in DOMAIN Kids(b) PROVE Kids(b)[i] \notin seen
  <2>1. Kids(b)[i] # 0 /\ tx.parent[Kids(b)[i]] = b
    BY <1>1, ChildOf
  <2> QED
    BY <1>1, <2>1 DEF HeadsWalked
<1>3. decoded[b] = [i \in DOMAIN Kids(b) |-> IF Kids(b)[i] \in seen THEN End[Kids(b)[i]] ELSE Kids(b)[i]]
  BY <1>1 DEF PrunedBy
<1>4. decoded[b] = [i \in DOMAIN Kids(b) |-> Kids(b)[i]]
  BY <1>2, <1>3
<1> QED
  BY <1>1, <1>4, KidsAre, ListIs

LEMMA DecodedLists ==
  ASSUME tx \in Transaction, NEW seen, PrunedBy(seen), NEW c \in Calls
  PROVE  /\ decoded[c] \in Seq(Calls) /\ DOMAIN decoded[c] = DOMAIN Kids(c) /\ Len(decoded[c]) = Len(Kids(c))
         /\ \A i \in DOMAIN Kids(c) :
              /\ decoded[c][i] = IF Kids(c)[i] \in seen THEN End[Kids(c)[i]] ELSE Kids(c)[i]
              /\ decoded[c][i] \in Calls /\ c < decoded[c][i]
<1>1. decoded[c] = [i \in DOMAIN Kids(c) |-> IF Kids(c)[i] \in seen THEN End[Kids(c)[i]] ELSE Kids(c)[i]]
  BY DEF PrunedBy
<1>2. ASSUME NEW i \in DOMAIN Kids(c) PROVE decoded[c][i] \in Calls /\ c < decoded[c][i]
  <2>1. Kids(c)[i] \in Calls /\ c < Kids(c)[i]
    BY ChildOf
  <2>2. End[Kids(c)[i]] \in Calls /\ Kids(c)[i] <= End[Kids(c)[i]]
    BY <2>1, EndIs, ChainFacts
  <2>3. c \in Nat /\ Kids(c)[i] \in Nat /\ End[Kids(c)[i]] \in Nat
    BY <2>1, <2>2, TreeFacts
  <2>4. c < End[Kids(c)[i]]
    BY <2>1, <2>2, <2>3
  <2> QED
    BY <1>1, <2>1, <2>2, <2>4
<1>3. Kids(c) \in Seq(Calls) /\ DOMAIN Kids(c) = 1 .. Len(Kids(c)) /\ Len(Kids(c)) \in Nat
  BY KidsAre, LenProperties
<1>4. decoded[c] \in [1 .. Len(Kids(c)) -> Calls]
  BY <1>1, <1>2, <1>3
<1>5. PICK n \in Nat : n = Len(Kids(c))
  BY <1>3
<1>6. PICK d : d = decoded[c]
  OBVIOUS
<1>7. d \in [1 .. n -> Calls]
  BY <1>4, <1>5, <1>6
<1>8. d \in Seq(Calls)
  BY <1>7, SeqDef
<1>9. DOMAIN d = 1 .. Len(d) /\ Len(d) \in Nat /\ DOMAIN d = 1 .. n
  BY <1>7, <1>8, LenProperties
<1>10. Len(d) = n
  BY <1>9, SameLength
<1> QED
  BY <1>1, <1>2, <1>3, <1>5, <1>6, <1>8, <1>10

LEMMA ChainIs ==
  ASSUME tx \in Transaction, NEW seen, PrunedBy(seen)
  PROVE  \A c \in Calls :
           /\ Chain[c] = IF Lone(c) THEN <<c>> \o Chain[decoded[c][1]] ELSE <<c>>
           /\ Lone(c) => decoded[c][1] \in Calls /\ c < decoded[c][1]
<1>1. Calls = 0 .. tx.size /\ tx.size \in Nat /\ 0 \in Calls
  BY TreeFacts
<1>2. ASSUME NEW c \in Calls, Lone(c) PROVE decoded[c][1] \in Calls /\ c < decoded[c][1]
  <2>1. 1 \in DOMAIN Kids(c)
    <3>1. Len(Kids(c)) = 1 /\ DOMAIN Kids(c) = 1 .. Len(Kids(c))
      BY <1>2, DecodedLists, KidsAre, LenProperties DEF Lone
    <3> QED
      BY <3>1
  <2> QED
    BY <2>1, DecodedLists
<1>3. \A c \in Calls : Lone(c) => Down[decoded[c][1]] < Down[c]
  BY <1>2, RankedDown
<1> DEFINE V == Seq(Calls)
           next(c, f) == IF Lone(c) THEN <<c>> \o f[decoded[c][1]] ELSE <<c>>
           step == [p \in Calls \X [Calls -> V] |-> next(p[1], p[2])]
<1>5. StepOver(Calls, V, Down, step)
  <2>1. ASSUME NEW c \in Calls, NEW f \in [Calls -> V] PROVE next(c, f) \in V
    <3>1. PICK o : o = <<c>>
      OBVIOUS
    <3>2. o \in Seq(Calls)
      BY <3>1
    <3>3. Lone(c) => f[decoded[c][1]] \in Seq(Calls)
      BY <1>2
    <3>4. Lone(c) => o \o f[decoded[c][1]] \in Seq(Calls)
      BY <3>2, <3>3, ConcatProperties
    <3> QED
      BY <3>1, <3>2, <3>4
  <2>2. ASSUME NEW c \in Calls, NEW f \in [Calls -> V], NEW g \in [Calls -> V], Lower(Calls, Down, f, g, c)
        PROVE  next(c, f) = next(c, g)
    <3>1. Lone(c) => f[decoded[c][1]] = g[decoded[c][1]]
      BY <1>2, <1>3, <2>2 DEF Lower
    <3> QED
      BY <3>1
  <2> HIDE DEF next, V
  <2>3. \A c \in Calls, f \in [Calls -> V] : step[<<c, f>>] = next(c, f)
    OBVIOUS
  <2>4. step \in [Calls \X [Calls -> V] -> V]
    BY <2>1
  <2> QED
    BY <2>2, <2>3, <2>4 DEF StepOver
<1>6. \A c \in Calls, f \in [Calls -> V] : step[<<c, f>>] = next(c, f)
  OBVIOUS
<1>p. V # {}
  BY EmptyList
<1> HIDE DEF step, V
<1>7. Recursive(Calls, V, step)
  <2>1. PICK n : n = tx.size + 1
    OBVIOUS
  <2>2. RankedTo(Calls, Down, n)
    BY <2>1, RankedDown
  <2> QED
    BY <1>p, <2>2, <1>5, Recursion
<1>8. PICK f \in [Calls -> V] : \A c \in Calls : f[c] = step[<<c, f>>]
  BY <1>7 DEF Recursive
<1>9. \A c \in Calls : f[c] = next(c, f)
  BY <1>6, <1>8
<1>10. f = [c \in Calls |-> IF Lone(c) THEN <<c>> \o f[decoded[c][1]] ELSE <<c>>]
  BY <1>9
<1>11. Chain = [c \in Calls |-> IF Lone(c) THEN <<c>> \o Chain[decoded[c][1]] ELSE <<c>>]
  BY <1>10 DEF Chain
<1>12. \A c \in Calls : Chain[c] = IF Lone(c) THEN <<c>> \o Chain[decoded[c][1]] ELSE <<c>>
  BY <1>11
<1> QED
  BY <1>2, <1>12

\* The chain from call b on, b being of the chain that begins with f.
ChainGood(b, f) ==
  /\ Chain[b] \in Seq(Calls) /\ Chain[b] # <<>> /\ Head(Chain[b]) = b /\ Last(Chain[b]) = End[b]
  /\ b \in ToSet(Chain[b])
  /\ \A c \in ToSet(Chain[b]) : First[c] = f /\ (Delegator(c) => Kids(c)[1] \in ToSet(Chain[b]))

LEMMA ChainRight ==
  ASSUME NEW seen, NEW waiting, SoFar(seen, waiting), NEW f \in Heads, f \notin seen, NEW b \in Calls, First[b] = f
  PROVE  ChainGood(b, f)
<1>1. tx \in Transaction /\ PrunedBy(seen)
  BY DEF SoFar
<1> DEFINE T == {c \in Calls : First[c] = f /\ ~ChainGood(c, f)}
<1> SUFFICES ASSUME T # {} PROVE FALSE
  OBVIOUS
<1>2. PICK k \in T : \A j \in T : j <= k
  BY <1>1, LastCall
<1>3. k \in Calls /\ First[k] = f /\ ~ChainGood(k, f)
  BY <1>2
<1> HIDE DEF T
<1>4. decoded[k] = Kids(k)
  BY <1>3, Untouched
<1>5. Lone(k) <=> Delegator(k)
  BY <1>4 DEF Lone, Delegator
<1>6. Chain[k] = IF Lone(k) THEN <<k>> \o Chain[decoded[k][1]] ELSE <<k>>
  BY <1>1, <1>3, ChainIs
<1>7. CASE ~Delegator(k)
  <2>1. Chain[k] = <<k>> /\ End[k] = k
    BY <1>1, <1>3, <1>5, <1>6, <1>7, ChainFacts
  <2>2. PICK o : o = <<k>>
    OBVIOUS
  <2>3. o \in Seq(Calls) /\ o # <<>> /\ Head(o) = k /\ Last(o) = k /\ ToSet(o) = {k}
    BY <1>3, <2>2, OneCall
  <2> QED
    BY <1>3, <1>7, <2>1, <2>2, <2>3 DEF ChainGood
<1>8. CASE Delegator(k)
  <2>1. PICK m \in Calls : m = Kids(k)[1] /\ k < m
    BY <1>1, <1>3, <1>8, OnlyChild
  <2>2. First[m] = f /\ End[m] = End[k]
    BY <1>1, <1>3, <1>8, <2>1, ChainFacts
  <2>3. m \notin T
    <3>1. m \in Nat /\ k \in Nat
      BY <1>1, <1>3, <2>1, TreeFacts
    <3>2. ~(m <= k)
      BY <2>1, <3>1
    <3> QED
      BY <1>2, <3>2
  <2>4. ChainGood(m, f)
    BY <2>1, <2>2, <2>3 DEF T
  <2>5. PICK s : s = Chain[m]
    OBVIOUS
  <2>6. /\ s \in Seq(Calls) /\ s # <<>> /\ Last(s) = End[k] /\ m \in ToSet(s)
        /\ \A c \in ToSet(s) : First[c] = f /\ (Delegator(c) => Kids(c)[1] \in ToSet(s))
    BY <2>2, <2>4, <2>5 DEF ChainGood
  <2>7. PICK t : t = <<k>> \o s
    OBVIOUS
  <2>8. t \in Seq(Calls) /\ t # <<>> /\ Head(t) = k /\ Last(t) = Last(s) /\ ToSet(t) = {k} \cup ToSet(s)
    BY <1>3, <2>6, <2>7, PutFirst
  <2>9. Chain[k] = t
    BY <1>4, <1>5, <1>6, <1>8, <2>1, <2>5, <2>7
  <2> QED
    BY <1>3, <2>1, <2>6, <2>8, <2>9 DEF ChainGood
<1> QED
  BY <1>7, <1>8

LEMMA HeadChain ==
  ASSUME NEW seen, NEW waiting, SoFar(seen, waiting), NEW f \in Heads, f \notin seen
  PROVE  /\ Chain[f] \in Seq(Calls) /\ Head(Chain[f]) = f /\ Last(Chain[f]) = End[f]
         /\ \A c \in Calls : c \in ToSet(Chain[f]) <=> First[c] = f
<1>1. tx \in Transaction /\ f \in Calls /\ First[f] = f
  BY DEF SoFar, Heads
<1>2. ChainGood(f, f)
  BY <1>1, ChainRight
<1>3. PICK X : X = ToSet(Chain[f])
  OBVIOUS
<1>4. f \in X /\ \A c \in X : First[c] = f /\ (Delegator(c) => Kids(c)[1] \in X)
  BY <1>2, <1>3 DEF ChainGood
<1> DEFINE T == {c \in Calls : First[c] = f /\ c \notin X}
<1>5. T = {}
  <2> SUFFICES ASSUME T # {} PROVE FALSE
    OBVIOUS
  <2>1. PICK k \in T : \A j \in T : k <= j
    BY <1>1, FirstCall
  <2>2. k \in Calls /\ First[k] = f /\ k # f /\ k \notin X
    BY <1>4, <2>1
  <2>3. k # 0 /\ Delegator(tx.parent[k]) /\ First[tx.parent[k]] = f
    BY <1>1, <2>2, FirstIs
  <2>4. PICK p \in Calls : p = tx.parent[k] /\ p < k /\ k \in Below(p)
    BY <1>1, <2>2, <2>3, TreeFacts DEF Below
  <2>5. p \in X
    <3>1. p \in Nat /\ k \in Nat
      BY <1>1, <2>2, <2>4, TreeFacts
    <3>2. ~(k <= p)
      BY <2>4, <3>1
    <3> QED
      BY <2>1, <2>3, <2>4, <3>2
  <2>6. k = Kids(p)[1]
    BY <1>1, <2>3, <2>4, OnlyChild
  <2> QED
    BY <1>4, <2>2, <2>3, <2>4, <2>5, <2>6
<1>6. \A c \in Calls : c \in X <=> First[c] = f
  BY <1>4, <1>5
<1> QED
  BY <1>2, <1>3, <1>6 DEF ChainGood

\* The two parts of PrunedBy.
ListsPruned(lists, seen) ==
  lists = [c \in Calls |-> [i \in DOMAIN Kids(c) |->
             IF Kids(c)[i] \in seen THEN End[Kids(c)[i]] ELSE Kids(c)[i]]]

ValuesPruned(values, seen) ==
  values = [c \in Calls |-> tx.value[IF First[c] \in seen THEN First[c] ELSE c]]

LEMMA CarriedIs ==
  ASSUME NEW seen, NEW waiting, SoFar(seen, waiting), NEW f \in Heads, f \notin seen
  PROVE  ValuesPruned(Carried(Chain[f]), seen \cup {f})
<1>1. f \in Calls /\ First[f] = f
  BY DEF Heads
<1>2. worth = [c \in Calls |-> tx.value[IF First[c] \in seen THEN First[c] ELSE c]]
  BY DEF SoFar, PrunedBy
<1>3. PICK s : s = Chain[f]
  OBVIOUS
<1>4. s \in Seq(Calls) /\ Head(s) = f /\ \A c \in Calls : c \in ToSet(s) <=> First[c] = f
  BY <1>3, HeadChain
<1>5. \A c \in Calls : Contains(s, c) <=> First[c] = f
  <2>1. DOMAIN s = 1 .. Len(s)
    BY <1>4, LenProperties
  <2>2. \A c : Contains(s, c) <=> c \in ToSet(s)
    BY <2>1 DEF Contains, ToSet
  <2> QED
    BY <1>4, <2>2
<1>6. worth[f] = tx.value[f]
  BY <1>1, <1>2
<1>7. Carried(s) = [c \in Calls |-> IF First[c] = f THEN tx.value[f] ELSE worth[c]]
  BY <1>4, <1>5, <1>6 DEF Carried
<1>8. \A c \in Calls : (IF First[c] = f THEN tx.value[f] ELSE worth[c])
                         = tx.value[IF First[c] \in seen \cup {f} THEN First[c] ELSE c]
  BY <1>2
<1>9. Carried(s) = [c \in Calls |-> tx.value[IF First[c] \in seen \cup {f} THEN First[c] ELSE c]]
  BY <1>7, <1>8
<1> QED
  BY <1>3, <1>9 DEF ValuesPruned

\* The list of a caller once the chain that begins with one of its calls is pruned.
Replaced(made, e) ==
  made = IF e.above = None THEN decoded ELSE [decoded EXCEPT ![e.above][e.index] = End[e.call]]

LEMMA ListPruned ==
  ASSUME NEW seen, NEW waiting, SoFar(seen, waiting), NEW e, HeadGood(e), e.call \notin seen,
         NEW made, Replaced(made, e)
  PROVE  ListsPruned(made, seen \cup {e.call})
<1>p. made = IF e.above = None THEN decoded ELSE [decoded EXCEPT ![e.above][e.index] = End[e.call]]
  BY DEF Replaced
<1> SUFFICES made = [c \in Calls |-> [i \in DOMAIN Kids(c) |->
                       IF Kids(c)[i] \in seen \cup {e.call} THEN End[Kids(c)[i]] ELSE Kids(c)[i]]]
  BY DEF ListsPruned
<1>1. tx \in Transaction /\ PrunedBy(seen) /\ e.call \in Heads
  BY DEF SoFar, HeadGood
<1>2. decoded = [c \in Calls |-> [i \in DOMAIN Kids(c) |->
                   IF Kids(c)[i] \in seen THEN End[Kids(c)[i]] ELSE Kids(c)[i]]]
  BY <1>1 DEF PrunedBy
<1>3. CASE e.above = None
  <2>1. e.call = 0
    BY <1>3 DEF HeadGood
  <2>2. \A c \in Calls : \A i \in DOMAIN Kids(c) : Kids(c)[i] # 0
    BY <1>1, ChildOf
  <2>3. \A c \in Calls : [i \in DOMAIN Kids(c) |-> IF Kids(c)[i] \in seen THEN End[Kids(c)[i]] ELSE Kids(c)[i]]
           = [i \in DOMAIN Kids(c) |-> IF Kids(c)[i] \in seen \cup {e.call} THEN End[Kids(c)[i]] ELSE Kids(c)[i]]
    BY <2>1, <2>2
  <2> QED
    BY <1>p, <1>2, <1>3, <2>3
<1>4. CASE e.above # None
  <2>1. PICK a \in Calls : a = e.above /\ e.call # 0 /\ a = tx.parent[e.call]
    BY <1>1, <1>4, TreeFacts DEF HeadGood, Heads
  <2>2. PICK n \in DOMAIN Kids(a) : n = e.index /\ Kids(a)[n] = e.call
    BY <1>4, <2>1 DEF HeadGood
  <2>3. ASSUME NEW c \in Calls, NEW i \in DOMAIN Kids(c) PROVE Kids(c)[i] = e.call <=> c = a /\ i = n
    <3>1. Kids(c)[i] = e.call => c = a
      BY <1>1, <2>1, ChildOf
    <3>2. IsInjective(Kids(a))
      BY <1>1, KidsAre
    <3> QED
      BY <2>2, <3>1, <3>2 DEF IsInjective
  <2>4. ASSUME NEW c \in Calls
        PROVE  made[c] = [i \in DOMAIN Kids(c) |-> IF Kids(c)[i] \in seen \cup {e.call} THEN End[Kids(c)[i]] ELSE Kids(c)[i]]
    <3>1. decoded[c] = [i \in DOMAIN Kids(c) |-> IF Kids(c)[i] \in seen THEN End[Kids(c)[i]] ELSE Kids(c)[i]]
      BY <1>2
    <3>2. made[c] = IF c = a THEN [decoded[c] EXCEPT ![n] = End[e.call]] ELSE decoded[c]
      BY <1>p, <1>2, <1>4, <2>1, <2>2
    <3>3. CASE c = a
      <4>1. made[c] = [i \in DOMAIN Kids(c) |->
                         IF i = n THEN End[e.call] ELSE IF Kids(c)[i] \in seen THEN End[Kids(c)[i]] ELSE Kids(c)[i]]
        BY <3>1, <3>2, <3>3
      <4>2. \A i \in DOMAIN Kids(c) : Kids(c)[i] = e.call <=> i = n
        BY <2>3, <3>3
      <4> QED
        BY <4>1, <4>2
    <3>4. CASE c # a
      <4>1. \A i \in DOMAIN Kids(c) : Kids(c)[i] # e.call
        BY <2>3, <3>4
      <4> QED
        BY <3>1, <3>2, <3>4, <4>1
    <3> QED
      BY <3>3, <3>4
  <2>5. made = [c \in Calls |-> made[c]]
    BY <1>p, <1>2, <1>4
  <2> QED
    BY <2>4, <2>5
<1> QED
  BY <1>3, <1>4

LEMMA HeadsWalkedOn ==
  ASSUME NEW seen, NEW waiting, SoFar(seen, waiting), NEW f \in waiting, f \in Heads
  PROVE  /\ HeadsWalked(seen \cup {f}, (waiting \ {f}) \cup Below(End[f]))
         /\ f \notin seen /\ Below(End[f]) \cap waiting = {}
<1>1. /\ 0 \in seen \cup waiting /\ seen \cap waiting = {}
      /\ \A c \in (seen \cup waiting) \ {0} : First[tx.parent[c]] \in seen
      /\ \A c \in Heads \ {0} : First[tx.parent[c]] \in seen => c \in seen \cup waiting
  BY DEF SoFar, HeadsWalked
<1>2. Below(End[f]) = {c \in Heads \ {0} : First[tx.parent[c]] = f}
  BY CalledByChain DEF SoFar
<1>3. f \notin seen
  BY <1>1
<1>4. Below(End[f]) \cap waiting = {} /\ Below(End[f]) \cap seen = {} /\ f \notin Below(End[f])
  <2>1. ASSUME NEW c \in Below(End[f]) PROVE c \notin waiting /\ c \notin seen
    <3>1. c # 0 /\ First[tx.parent[c]] = f
      BY <1>2
    <3> QED
      BY <1>1, <1>3, <3>1
  <2> QED
    BY <2>1
<1>5. \A c \in Below(End[f]) : c # 0 /\ First[tx.parent[c]] = f
  BY <1>2
<1>6. \A c \in Heads \ {0} : First[tx.parent[c]] = f => c \in Below(End[f])
  BY <1>2
<1> QED
  BY <1>1, <1>3, <1>4, <1>5, <1>6 DEF HeadsWalked

FirstIn(t) == CHOOSE f : f = [c \in 0 .. t.size |->
  IF c # 0 /\ (/\ Len(Ordered[{k \in 1 .. t.size : t.parent[k] = t.parent[c]}]) = 1
               /\ t.type[Ordered[{k \in 1 .. t.size : t.parent[k] = t.parent[c]}][1]] = "delegatecall")
  THEN f[t.parent[c]] ELSE c]

EndIn(t) == CHOOSE f : f = [c \in 0 .. t.size |->
  IF /\ Len(Ordered[{k \in 1 .. t.size : t.parent[k] = c}]) = 1
     /\ t.type[Ordered[{k \in 1 .. t.size : t.parent[k] = c}][1]] = "delegatecall"
  THEN f[Ordered[{k \in 1 .. t.size : t.parent[k] = c}][1]] ELSE c]

LEMMA SameChains ==
  ASSUME tx' = tx
  PROVE  /\ Calls' = Calls /\ First' = First /\ End' = End /\ Heads' = Heads
         /\ \A c : Kids(c)' = Kids(c)
         /\ \A e : HeadGood(e)' <=> HeadGood(e)
         /\ \A S, W : HeadsWalked(S, W)' <=> HeadsWalked(S, W)
<1>1. First = FirstIn(tx) /\ First' = FirstIn(tx')
  BY DEF First, FirstIn, Calls, Delegator, Kids, Below
<1>2. End = EndIn(tx) /\ End' = EndIn(tx')
  BY DEF End, EndIn, Calls, Delegator, Kids, Below
<1>3. Calls' = Calls /\ First' = First /\ End' = End /\ \A c : Kids(c)' = Kids(c)
  BY <1>1, <1>2, SameTree
<1>4. Heads' = Heads
  BY <1>3 DEF Heads
<1>5. \A e : HeadGood(e)' <=> HeadGood(e)
  BY <1>3, <1>4 DEF HeadGood
<1>6. \A S, W : HeadsWalked(S, W)' <=> HeadsWalked(S, W)
  BY <1>3, <1>4 DEF HeadsWalked
<1> QED
  BY <1>3, <1>4, <1>5, <1>6

LEMMA SamePruned ==
  ASSUME tx' = tx, NEW lists, NEW values, NEW seen
  PROVE  /\ ListsPruned(lists, seen)' <=> ListsPruned(lists, seen)
         /\ ValuesPruned(values, seen)' <=> ValuesPruned(values, seen)
<1>1. Calls' = Calls /\ First' = First /\ End' = End /\ \A c : Kids(c)' = Kids(c)
  BY SameChains
<1>2. ListsPruned(lists, seen)' <=> ListsPruned(lists, seen)
  BY <1>1 DEF ListsPruned
<1>3. ValuesPruned(values, seen)' <=> ValuesPruned(values, seen)
  BY <1>1 DEF ValuesPruned
<1> QED
  BY <1>2, <1>3

\* The worklist of prune_delegates.
HeadsGood(list) ==
  /\ list \in Seq(Entry) /\ \A i \in DOMAIN list : HeadGood(list[i])
  /\ \A i, j \in DOMAIN list : list[i].call = list[j].call => i = j

CallsIn(list) == {list[i].call : i \in DOMAIN list}

LEMMA PrunedEntries ==
  ASSUME tx \in Transaction, NEW list, HeadsGood(list), list # <<>>,
         NEW f \in Heads, f = list[1].call,
         NEW W, W = CallsIn(list), Below(End[f]) \cap W = {},
         NEW longer, EntriesOn(list, End[f], Kids(End[f]), longer)
  PROVE  /\ HeadsGood(longer)
         /\ CallsIn(longer) = (W \ {f}) \cup Below(End[f])
<1>1. PICK c \in Calls : c = End[f] /\ ~Delegator(c)
  BY EndIs, ChainFacts DEF Heads
<1>2. PICK k \in Seq(Calls) : k = Kids(c)
  BY <1>1, KidsAre
<1>3. /\ IsInjective(k) /\ DOMAIN k = 1 .. Len(k) /\ Len(k) \in Nat /\ ToSet(k) = Below(c)
      /\ list \in Seq(Entry) /\ DOMAIN list = 1 .. Len(list) /\ Len(list) \in Nat /\ 1 \in DOMAIN list
  <2>1. list \in Seq(Entry)
    BY DEF HeadsGood
  <2>2. DOMAIN list = 1 .. Len(list) /\ Len(list) \in Nat /\ Len(list) # 0
    BY <2>1, LenProperties, NoneLeft
  <2>3. 1 \in DOMAIN list
    BY <2>2
  <2> QED
    BY <1>1, <1>2, <2>1, <2>2, <2>3, KidsAre, LenProperties
<1>4. W = {list[i].call : i \in DOMAIN list}
  BY DEF CallsIn
<1>5. EntriesOn(list, c, k, longer) /\ Below(c) \cap W = {}
  BY <1>1, <1>2, <1>4
<1>6. longer \in Seq(Entry) /\ DOMAIN longer \subseteq Nat
  BY <1>5, LenProperties DEF EntriesOn
<1>7. ASSUME NEW i \in DOMAIN k
      PROVE  HeadGood([call |-> k[i], above |-> c, index |-> i]) /\ k[i] \in Below(c)
  <2>1. k[i] \in Below(c)
    BY <1>3 DEF ToSet
  <2>2. k[i] \in Heads /\ k[i] # 0 /\ tx.parent[k[i]] = c
    BY <1>1, <2>1, HeadsBelow
  <2>3. c # None
    BY TreeAssumption, TreeFacts
  <2> QED
    BY <1>2, <2>1, <2>2, <2>3 DEF HeadGood
<1>8. ASSUME NEW i \in DOMAIN longer
      PROVE  \/ /\ i \in DOMAIN k /\ longer[i] = [call |-> k[i], above |-> c, index |-> i]
                /\ longer[i].call = k[i] /\ k[i] \in Below(c)
             \/ /\ i > Len(k) /\ i \notin DOMAIN k
                /\ \E j \in DOMAIN list : j # 1 /\ j = i - Len(k) + 1 /\ longer[i] = list[j]
  <2>1. i > Len(k) => i \notin DOMAIN k
    BY <1>3
  <2> QED
    BY <1>5, <1>7, <2>1 DEF EntriesOn
<1>9. \A i \in DOMAIN longer : HeadGood(longer[i])
  BY <1>7, <1>8 DEF HeadsGood
<1>10. ASSUME NEW i \in DOMAIN longer, NEW j \in DOMAIN longer, longer[i].call = longer[j].call PROVE i = j
  <2>1. CASE i \in DOMAIN k /\ j \in DOMAIN k
    BY <1>3, <1>8, <1>10, <2>1 DEF IsInjective
  <2>2. CASE i \notin DOMAIN k /\ j \notin DOMAIN k
    <3>1. PICK l \in DOMAIN list : l = i - Len(k) + 1 /\ longer[i] = list[l]
      BY <1>8, <2>2
    <3>2. PICK m \in DOMAIN list : m = j - Len(k) + 1 /\ longer[j] = list[m]
      BY <1>8, <2>2
    <3>3. l = m
      BY <1>10, <3>1, <3>2 DEF HeadsGood
    <3> QED
      BY <1>3, <1>6, <3>1, <3>2, <3>3
  <2>3. \A h \in DOMAIN longer : h \notin DOMAIN k => longer[h].call \in W
    BY <1>4, <1>8
  <2> QED
    BY <1>5, <1>8, <1>10, <2>1, <2>2, <2>3
<1>11. PICK N : N = {longer[i].call : i \in DOMAIN longer}
  OBVIOUS
<1>12. N \subseteq (W \ {f}) \cup Below(c)
  <2>1. ASSUME NEW j \in DOMAIN list, j # 1 PROVE list[j].call \in W \ {f}
    BY <1>3, <1>4, <2>1 DEF HeadsGood
  <2> QED
    BY <1>8, <1>11, <2>1
<1>13. Below(c) \subseteq N
  <2>1. \A i \in DOMAIN k : i \in DOMAIN longer /\ longer[i].call = k[i]
    BY <1>5, ChildEntry
  <2>2. \A i \in DOMAIN k : k[i] \in N
    BY <1>11, <2>1
  <2> QED
    BY <1>3, <2>2 DEF ToSet
<1>14. W \ {f} \subseteq N
  <2>1. ASSUME NEW j \in DOMAIN list, list[j].call # f PROVE list[j].call \in N
    <3>1. j # 1
      BY <2>1
    <3>2. PICK i \in DOMAIN longer : longer[i] = list[j]
      BY <1>5, <3>1 DEF EntriesOn
    <3> QED
      BY <1>11, <3>2
  <2> QED
    BY <1>4, <2>1
<1>15. HeadsGood(longer)
  BY <1>6, <1>9, <1>10 DEF HeadsGood
<1>16. N = (W \ {f}) \cup Below(c)
  BY <1>12, <1>13, <1>14
<1> QED
  BY <1>1, <1>11, <1>15, <1>16 DEF CallsIn

LEMMA PruneStep ==
  ASSUME tx \in Transaction, PruneInv, Prune
  PROVE  PruneInv'
<1>1. /\ phase = "prune" /\ phase' = "prune" /\ work # <<>> /\ tx' = tx
      /\ decoded' = IF Head(work).above = None THEN decoded
                    ELSE [decoded EXCEPT ![Head(work).above][Head(work).index] = Last(Chain[Head(work).call])]
      /\ worth' = Carried(Chain[Head(work).call])
      /\ work' = Entries(Last(Chain[Head(work).call]), decoded[Last(Chain[Head(work).call])]) \o Tail(work)
  BY DEF Prune, ChainFrom
<1>2. PICK W : W = {work[i].call : i \in DOMAIN work}
  OBVIOUS
<1>3. HeadsGood(work) /\ \E seen \in SUBSET Heads : HeadsWalked(seen, W) /\ PrunedBy(seen)
  BY <1>1, <1>2 DEF PruneInv, Pruning, HeadsGood
<1>4. PICK seen \in SUBSET Heads : HeadsWalked(seen, W) /\ PrunedBy(seen)
  BY <1>3
<1>5. SoFar(seen, W)
  BY <1>4 DEF SoFar
<1>6. PICK e : e = work[1]
  OBVIOUS
<1>7. Head(work) = e /\ 1 \in DOMAIN work /\ work \in Seq(Entry)
  <2>1. work \in Seq(Entry)
    BY <1>3 DEF HeadsGood
  <2>2. Len(work) \in Nat /\ Len(work) # 0 /\ DOMAIN work = 1 .. Len(work)
    BY <1>1, <2>1, NoneLeft, LenProperties
  <2> QED
    BY <1>1, <1>6, <2>1, <2>2, HeadTailProperties
<1>8. PICK f \in Heads : f = e.call /\ f \in W /\ HeadGood(e)
  BY <1>2, <1>3, <1>6, <1>7 DEF HeadsGood, HeadGood
<1>9. /\ HeadsWalked(seen \cup {f}, (W \ {f}) \cup Below(End[f]))
      /\ f \notin seen /\ Below(End[f]) \cap W = {}
  BY <1>5, <1>8, HeadsWalkedOn
<1>10. Last(Chain[f]) = End[f] /\ f \in Calls /\ End[f] \in Calls /\ First[End[f]] = f
  BY <1>5, <1>8, <1>9, HeadChain, EndIs, ChainFacts DEF Heads
<1>11. decoded[End[f]] = Kids(End[f])
  BY <1>5, <1>8, <1>9, <1>10, Untouched
<1>12. PICK now \in SUBSET Heads : now = seen \cup {f}
  BY <1>4, <1>8
<1>13. ListsPruned(decoded', now)
  <2>1. PICK made : made = decoded'
    OBVIOUS
  <2>2. Replaced(made, e)
    BY <1>1, <1>7, <1>8, <1>10, <2>1 DEF Replaced
  <2>3. ListsPruned(made, seen \cup {e.call})
    BY <1>5, <1>8, <1>9, <2>2, ListPruned
  <2> QED
    BY <1>8, <1>12, <2>1, <2>3
<1>14. ValuesPruned(worth', now)
  <2>1. ValuesPruned(Carried(Chain[f]), seen \cup {f})
    BY <1>5, <1>9, CarriedIs
  <2> QED
    BY <1>1, <1>7, <1>8, <1>12, <2>1
<1>15. PrunedBy(now)'
  <2>1. PICK lists : lists = decoded'
    OBVIOUS
  <2>2. PICK values : values = worth'
    OBVIOUS
  <2>3. ListsPruned(lists, now)' /\ ValuesPruned(values, now)'
    BY <1>1, <1>13, <1>14, <2>1, <2>2, SamePruned
  <2> QED
    BY <2>1, <2>2, <2>3 DEF PrunedBy, ListsPruned, ValuesPruned
<1>16. EntriesOn(work, End[f], Kids(End[f]), work')
  <2>1. PICK c \in Calls : c = End[f]
    BY <1>10
  <2>2. PICK k \in Seq(Calls) : k = Kids(c)
    BY <2>1, KidsAre
  <2>3. EntriesOn(work, c, k, Entries(c, k) \o Tail(work))
    BY <1>1, <1>7, EntriesGrow
  <2>4. work' = Entries(c, k) \o Tail(work)
    BY <1>1, <1>7, <1>8, <1>10, <1>11, <2>1, <2>2
  <2> QED
    BY <2>1, <2>2, <2>3, <2>4
<1>17. PICK longer : longer = work'
  OBVIOUS
<1>18. /\ HeadsGood(longer)
       /\ {longer[i].call : i \in DOMAIN longer} = (W \ {f}) \cup Below(End[f])
  <2>1. PICK list : list = work
    OBVIOUS
  <2>2. /\ tx \in Transaction /\ HeadsGood(list) /\ list # <<>> /\ f = list[1].call
        /\ EntriesOn(list, End[f], Kids(End[f]), longer)
    BY <1>1, <1>3, <1>6, <1>8, <1>16, <1>17, <2>1
  <2>3. W = CallsIn(list)
    BY <1>2, <2>1 DEF CallsIn
  <2>4. HeadsGood(longer) /\ CallsIn(longer) = (W \ {f}) \cup Below(End[f])
    BY <1>9, <2>2, <2>3, PrunedEntries
  <2> QED
    BY <2>4 DEF CallsIn
<1>19. HeadsWalked(now, {longer[i].call : i \in DOMAIN longer})
  BY <1>9, <1>12, <1>18
<1>20. HeadsWalked(now, {work[i].call : i \in DOMAIN work})'
  <2>1. PICK N : N = {longer[i].call : i \in DOMAIN longer}
    OBVIOUS
  <2>2. HeadsWalked(now, N)'
    BY <1>1, <1>19, <2>1, SameChains
  <2> QED
    BY <1>17, <2>1, <2>2 DEF HeadsWalked
<1>21. \A i \in DOMAIN work' : HeadGood(work[i])'
  <2> SUFFICES ASSUME NEW i \in DOMAIN work' PROVE HeadGood(work[i])'
    OBVIOUS
  <2>1. PICK w : w = work'[i]
    OBVIOUS
  <2>2. HeadGood(w)'
    BY <1>1, <1>17, <1>18, <2>1, SameChains DEF HeadsGood
  <2> QED
    BY <2>1, <2>2 DEF HeadGood
<1>22. now \in SUBSET Heads'
  BY <1>1, <1>12, SameChains
<1>23. /\ work' \in Seq(Entry)
       /\ \A i, j \in DOMAIN work' : work'[i].call = work'[j].call => i = j
  BY <1>17, <1>18 DEF HeadsGood
<1>24. Pruning'
  BY <1>15, <1>20, <1>21, <1>22, <1>23 DEF Pruning
<1> QED
  BY <1>1, <1>24 DEF PruneInv

LEMMA PruneBegins ==
  ASSUME ConvertInv, DecodeInv, SheetInv, Balance
  PROVE  PruneInv'
<1>1. /\ phase = "balances" /\ phase' = "prune" /\ tx' = tx /\ tx \in Transaction /\ phase \in Range(Passes)
      /\ decoded' = decoded /\ worth' = worth /\ work' = Root
  BY DEF Balance, ConvertInv
<1>2. decoded = [c \in Calls |-> Kids(c)]
  <2>1. After("convert") /\ After("decode")
    BY <1>1, Order DEF After
  <2> QED
    BY <1>1, <2>1 DEF ConvertInv, Converted, DecodeInv
<1>3. worth = [c \in Calls |-> tx.value[c]]
  BY <1>1 DEF SheetInv
<1>4. PICK none : none = {}
  OBVIOUS
<1>5. PrunedBy(none)
  <2>1. \A c \in Calls : Kids(c) = [i \in DOMAIN Kids(c) |-> Kids(c)[i]]
    BY <1>1, KidsAre, ListIs
  <2>2. \A c \in Calls : Kids(c) = [i \in DOMAIN Kids(c) |-> IF Kids(c)[i] \in none THEN End[Kids(c)[i]] ELSE Kids(c)[i]]
    BY <1>4, <2>1
  <2>3. decoded = [c \in Calls |-> [i \in DOMAIN Kids(c) |-> IF Kids(c)[i] \in none THEN End[Kids(c)[i]] ELSE Kids(c)[i]]]
    BY <1>2, <2>2
  <2>4. worth = [c \in Calls |-> tx.value[IF First[c] \in none THEN First[c] ELSE c]]
    BY <1>3, <1>4
  <2> QED
    BY <2>3, <2>4 DEF PrunedBy
<1>6. PrunedBy(none)'
  BY <1>1, <1>5, SameChains DEF PrunedBy
<1>7. PICK r : r = [call |-> 0, above |-> None, index |-> 0]
  OBVIOUS
<1>8. PICK w : w = <<r>>
  OBVIOUS
<1>9. work' = w /\ w \in Seq(Entry) /\ DOMAIN w = {1} /\ w[1] = r /\ r.call = 0 /\ r.above = None
  <2>1. r \in Entry
    BY <1>7, TreeAssumption DEF Entry, Call
  <2> QED
    BY <1>1, <1>7, <1>8, <2>1 DEF Root
<1>10. 0 \in Heads /\ HeadGood(r)
  BY <1>1, <1>9, FirstIs, TreeFacts DEF Heads, HeadGood
<1>11. HeadsWalked(none, {0})
  BY <1>1, <1>4 DEF HeadsWalked
<1>12. HeadsWalked(none, {work[i].call : i \in DOMAIN work})'
  <2>1. HeadsWalked(none, {0})'
    BY <1>1, <1>11, SameChains
  <2>2. {work'[i].call : i \in DOMAIN work'} = {0}
    BY <1>9
  <2> QED
    BY <2>1, <2>2 DEF HeadsWalked
<1>13. \A i \in DOMAIN work' : HeadGood(work[i])'
  <2>1. HeadGood(r)'
    BY <1>1, <1>10, SameChains
  <2>2. \A i \in DOMAIN work' : work'[i] = r
    BY <1>9
  <2> QED
    BY <2>1, <2>2 DEF HeadGood
<1>14. none \in SUBSET Heads'
  BY <1>4
<1>15. Pruning'
  BY <1>6, <1>9, <1>12, <1>13, <1>14 DEF Pruning
<1> QED
  BY <1>1, <1>15 DEF PruneInv

LEMMA AllHeads ==
  ASSUME NEW seen, SoFar(seen, {})
  PROVE  seen = Heads
<1>1. /\ tx \in Transaction /\ seen \subseteq Heads /\ 0 \in seen
      /\ \A c \in Heads \ {0} : First[tx.parent[c]] \in seen => c \in seen
  BY DEF SoFar, HeadsWalked
<1> DEFINE T == Heads \ seen
<1> SUFFICES ASSUME T # {} PROVE FALSE
  BY <1>1
<1>2. T \subseteq Calls
  BY DEF Heads
<1>3. PICK k \in T : \A j \in T : k <= j
  BY <1>1, <1>2, FirstCall
<1>4. k \in Calls /\ k # 0 /\ k \in Heads /\ k \notin seen
  BY <1>1, <1>3 DEF Heads
<1>5. PICK p \in Calls : p = tx.parent[k] /\ p < k
  BY <1>1, <1>4, TreeFacts
<1>6. First[p] \in Calls /\ First[p] <= p /\ First[p] \in Heads
  BY <1>1, <1>5, FirstIs, ChainFacts DEF Heads
<1>7. First[p] \in Nat /\ p \in Nat /\ k \in Nat
  BY <1>1, <1>4, <1>5, <1>6, TreeFacts
<1>8. ~(k <= First[p])
  BY <1>5, <1>6, <1>7
<1>9. First[p] \in seen
  BY <1>3, <1>6, <1>8
<1> QED
  BY <1>1, <1>4, <1>5, <1>9

LEMMA StaysPruned ==
  ASSUME tx' = tx, decoded' = decoded, worth' = worth, NEW seen, PrunedBy(seen)
  PROVE  PrunedBy(seen)'
<1>1. PICK lists : lists = decoded
  OBVIOUS
<1>2. PICK values : values = worth
  OBVIOUS
<1>3. ListsPruned(lists, seen) /\ ValuesPruned(values, seen)
  BY <1>1, <1>2 DEF PrunedBy, ListsPruned, ValuesPruned
<1>4. ListsPruned(lists, seen)' /\ ValuesPruned(values, seen)'
  BY <1>3, SamePruned
<1>5. decoded' = lists /\ worth' = values
  BY <1>1, <1>2
<1> QED
  BY <1>4, <1>5 DEF PrunedBy, ListsPruned, ValuesPruned

LEMMA PruneEnds ==
  ASSUME tx \in Transaction, PruneInv, Begin("prune", "done", <<>>)
  PROVE  PruneInv'
<1>1. /\ phase = "prune" /\ phase' = "done" /\ work = <<>> /\ tx' = tx
      /\ decoded' = decoded /\ worth' = worth
  BY DEF Begin
<1>2. PICK seen \in SUBSET Heads : HeadsWalked(seen, {work[i].call : i \in DOMAIN work}) /\ PrunedBy(seen)
  BY <1>1 DEF PruneInv, Pruning
<1>3. {work[i].call : i \in DOMAIN work} = {}
  BY <1>1
<1>4. SoFar(seen, {})
  BY <1>2, <1>3 DEF SoFar
<1>5. seen = Heads
  BY <1>4, AllHeads
<1>6. PICK H : H = Heads
  OBVIOUS
<1>7. PrunedBy(H)'
  BY <1>1, <1>2, <1>5, <1>6, StaysPruned
<1>8. Heads' = H
  BY <1>1, <1>6, SameChains
<1>9. PrunedBy(Heads)'
  BY <1>7, <1>8 DEF PrunedBy
<1> QED
  BY <1>1, <1>9 DEF PruneInv, Pruning

LEMMA PruneStutters ==
  ASSUME PruneInv, UNCHANGED vars
  PROVE  PruneInv'
<1>1. tx' = tx /\ phase' = phase /\ work' = work /\ decoded' = decoded /\ worth' = worth
  BY DEF vars
<1>2. Heads' = Heads /\ \A e : HeadGood(e)' <=> HeadGood(e)
  BY <1>1, SameChains
<1>3. ASSUME phase = "done" PROVE PrunedBy(Heads)'
  <2>1. PICK H : H = Heads
    OBVIOUS
  <2>2. PrunedBy(H)'
    BY <1>1, <1>3, <2>1, StaysPruned DEF PruneInv
  <2> QED
    BY <1>2, <2>1, <2>2 DEF PrunedBy
<1>4. ASSUME phase = "prune" PROVE Pruning'
  <2>1. PICK W : W = {work[i].call : i \in DOMAIN work}
    OBVIOUS
  <2>2. PICK seen \in SUBSET Heads : HeadsWalked(seen, W) /\ PrunedBy(seen)
    BY <1>4, <2>1 DEF PruneInv, Pruning
  <2>3. HeadsWalked(seen, W)' /\ PrunedBy(seen)'
    BY <1>1, <2>2, StaysPruned, SameChains
  <2>4. HeadsWalked(seen, {work[i].call : i \in DOMAIN work})'
    BY <1>1, <2>1, <2>3 DEF HeadsWalked
  <2>5. \A i \in DOMAIN work' : HeadGood(work[i])'
    <3> SUFFICES ASSUME NEW i \in DOMAIN work' PROVE HeadGood(work[i])'
      OBVIOUS
    <3>1. PICK w : w = work[i]
      OBVIOUS
    <3>2. HeadGood(w)
      BY <1>1, <1>4, <3>1 DEF PruneInv, Pruning
    <3>3. HeadGood(w)' /\ work'[i] = w
      BY <1>1, <1>2, <3>1, <3>2
    <3> QED
      BY <3>3 DEF HeadGood
  <2>6. /\ work' \in Seq(Entry)
        /\ \A i, j \in DOMAIN work' : work'[i].call = work'[j].call => i = j
    BY <1>1, <1>4 DEF PruneInv, Pruning
  <2>7. seen \in SUBSET Heads'
    BY <1>2, <2>2
  <2> QED
    BY <2>3, <2>4, <2>5, <2>6, <2>7 DEF Pruning
<1>5. phase # "prune" => Pruning'
  BY <1>1 DEF Pruning
<1> QED
  BY <1>1, <1>3, <1>4, <1>5 DEF PruneInv

LEMMA PruneKept ==
  ConvertInv /\ DecodeInv /\ SheetInv /\ PruneInv /\ [Next]_vars => PruneInv'
<1> SUFFICES ASSUME ConvertInv, DecodeInv, SheetInv, PruneInv, [Next]_vars PROVE PruneInv'
  OBVIOUS
<1>1. tx \in Transaction
  BY DEF ConvertInv
<1>2. ASSUME phase' \notin {"prune", "done"} PROVE PruneInv'
  BY <1>2 DEF PruneInv, Pruning
<1>3. CASE Convert \/ Delegate \/ Decode \/ Transfer
  BY <1>2, <1>3 DEF Convert, Delegate, Decode, Transfer
<1>4. CASE Balance
  BY <1>4, PruneBegins
<1>5. CASE Prune
  BY <1>1, <1>5, PruneStep
<1>6. CASE NextPass
  <2>1. CASE Begin("prune", "done", <<>>)
    BY <1>1, <2>1, PruneEnds
  <2>2. CASE \/ Begin("convert", "delegations", << 0 >>) \/ Begin("delegations", "decode", Root)
             \/ Begin("decode", "transfers", << 0 >>) \/ Begin("transfers", "balances", <<>>)
    BY <1>2, <2>2 DEF Begin
  <2> QED
    BY <1>6, <2>1, <2>2 DEF NextPass
<1>7. CASE UNCHANGED vars
  BY <1>7, PruneStutters
<1> QED
  BY <1>3, <1>4, <1>5, <1>6, <1>7 DEF Next, Finished

\* While the tree is pruned, the entries of the worklist are the first calls of
\* chains not reached yet; the chains reached stand in their callers' lists with
\* their last calls, and show the ether of their first.
THEOREM TreePrunes == Spec => []PruneInv
<1>1. Init => PruneInv
  BY DEF Init, PruneInv, Pruning
<1> QED
  BY <1>1, PruneKept, TreeConverts, TreeDecodes, TreeSheet, PTL DEF Spec

-----------------------------------------------------------------------------
(***************************************************************************)
(* The order in which a walk comes to the calls.                           *)
(***************************************************************************)
Walks(children, calls) ==
  CHOOSE walk : walk = [c \in Calls |->
    (IF c \in calls THEN <<c>> ELSE <<>>) \o
      FlattenSeq([i \in DOMAIN children[c] |-> walk[children[c][i]]])]

\* Below every call are lists of later calls.
LaterBelow(children) ==
  \A c \in Calls : /\ children[c] \in Seq(Calls)
                   /\ \A i \in DOMAIN children[c] : c < children[c][i]

\* What a walk comes to below a call.
Listing(children, c, f) == FlattenSeq([i \in DOMAIN children[c] |-> f[children[c][i]]])

LEMMA ListingIs ==
  ASSUME tx \in Transaction, NEW children, LaterBelow(children), NEW c \in Calls, NEW f \in [Calls -> Seq(Calls)]
  PROVE  /\ Listing(children, c, f) \in Seq(Calls)
         /\ Len(children[c]) = 1 => Listing(children, c, f) = f[children[c][1]]
<1>1. children[c] \in Seq(Calls)
  BY DEF LaterBelow
<1>2. PICK n \in Nat : n = Len(children[c])
  BY <1>1, LenProperties
<1>3. DOMAIN children[c] = 1 .. n /\ \A i \in 1 .. n : children[c][i] \in Calls
  BY <1>1, <1>2, LenProperties
<1>4. PICK s : s = [i \in 1 .. n |-> f[children[c][i]]]
  OBVIOUS
<1>5. s \in [1 .. n -> Seq(Calls)]
  BY <1>3, <1>4
<1>6. FlattenSeq(s) \in Seq(Calls) /\ (n = 1 => FlattenSeq(s) = s[1])
  BY <1>5, FlattenedIs
<1>7. Listing(children, c, f) = FlattenSeq(s)
  BY <1>3, <1>4 DEF Listing
<1>8. n = 1 => s[1] = f[children[c][1]]
  BY <1>4
<1> QED
  BY <1>2, <1>6, <1>7, <1>8

LEMMA WalkIs ==
  ASSUME tx \in Transaction, NEW children, NEW calls, LaterBelow(children)
  PROVE  /\ Walks(children, calls) \in [Calls -> Seq(Calls)]
         /\ \A c \in Calls : Walks(children, calls)[c] =
              (IF c \in calls THEN <<c>> ELSE <<>>) \o Listing(children, c, Walks(children, calls))
<1>1. Calls = 0 .. tx.size /\ tx.size \in Nat /\ 0 \in Calls
  BY TreeFacts
<1>2. \A c \in Calls : \A i \in DOMAIN children[c] :
        children[c][i] \in Calls /\ c < children[c][i] /\ Down[children[c][i]] < Down[c]
  <2> SUFFICES ASSUME NEW c \in Calls, NEW i \in DOMAIN children[c]
               PROVE  children[c][i] \in Calls /\ c < children[c][i] /\ Down[children[c][i]] < Down[c]
    OBVIOUS
  <2>1. children[c] \in Seq(Calls) /\ c < children[c][i]
    BY DEF LaterBelow
  <2>2. children[c][i] \in Calls
    BY <2>1, LenProperties
  <2> QED
    BY <2>1, <2>2, RankedDown
<1> DEFINE V == Seq(Calls)
           next(c, f) == (IF c \in calls THEN <<c>> ELSE <<>>) \o Listing(children, c, f)
           step == [p \in Calls \X [Calls -> V] |-> next(p[1], p[2])]
<1>3. ASSUME NEW c \in Calls, NEW f \in [Calls -> V] PROVE next(c, f) \in V
  <2>1. PICK o : o = IF c \in calls THEN <<c>> ELSE <<>>
    OBVIOUS
  <2>2. o \in Seq(Calls)
    BY <2>1
  <2>3. PICK l \in Seq(Calls) : l = Listing(children, c, f)
    BY ListingIs
  <2>4. o \o l \in Seq(Calls)
    BY <2>2, ConcatProperties
  <2> QED
    BY <2>1, <2>3, <2>4
<1>5. StepOver(Calls, V, Down, step)
  <2>2. ASSUME NEW c \in Calls, NEW f \in [Calls -> V], NEW g \in [Calls -> V], Lower(Calls, Down, f, g, c)
        PROVE  next(c, f) = next(c, g)
    <3>1. \A i \in DOMAIN children[c] : f[children[c][i]] = g[children[c][i]]
      BY <1>2, <2>2 DEF Lower
    <3>2. [i \in DOMAIN children[c] |-> f[children[c][i]]] = [i \in DOMAIN children[c] |-> g[children[c][i]]]
      BY <3>1
    <3>3. Listing(children, c, f) = Listing(children, c, g)
      BY <3>2 DEF Listing
    <3> QED
      BY <3>3
  <2> HIDE DEF next, V
  <2>3. \A c \in Calls, f \in [Calls -> V] : step[<<c, f>>] = next(c, f)
    OBVIOUS
  <2>4. step \in [Calls \X [Calls -> V] -> V]
    BY <1>3
  <2> QED
    BY <2>2, <2>3, <2>4 DEF StepOver
<1>6. \A c \in Calls, f \in [Calls -> V] : step[<<c, f>>] = next(c, f)
  OBVIOUS
<1>p. V # {}
  BY EmptyList
<1> HIDE DEF step
<1>7. Recursive(Calls, V, step)
  <2>1. PICK n : n = tx.size + 1
    OBVIOUS
  <2>2. RankedTo(Calls, Down, n)
    BY <2>1, RankedDown
  <2> HIDE DEF V
  <2> QED
    BY <1>p, <2>2, <1>5, Recursion
<1>8. PICK f \in [Calls -> V] : \A c \in Calls : f[c] = step[<<c, f>>]
  BY <1>7 DEF Recursive
<1>9. \A c \in Calls : f[c] = next(c, f)
  BY <1>6, <1>8
<1>10. f = [c \in Calls |-> next(c, f)]
  <2> HIDE DEF next, V
  <2> QED
    BY <1>9
<1>11. PICK w : w = Walks(children, calls)
  OBVIOUS
<1>12. w = [c \in Calls |-> next(c, w)]
  BY <1>10, <1>11 DEF Walks, Listing
<1>13. \A c \in Calls : w[c] = next(c, w)
  <2> HIDE DEF next
  <2> QED
    BY <1>12
<1> DEFINE T == {c \in Calls : w[c] \notin Seq(Calls)}
<1>14. T = {}
  <2> SUFFICES ASSUME T # {} PROVE FALSE
    OBVIOUS
  <2>1. PICK k \in T : \A j \in T : j <= k
    BY LastCall
  <2>2. k \in Calls /\ w[k] \notin Seq(Calls)
    BY <2>1
  <2>3. ASSUME NEW i \in DOMAIN children[k] PROVE w[children[k][i]] \in Seq(Calls)
    <3>1. children[k][i] \in Calls /\ k < children[k][i]
      BY <1>2, <2>2
    <3>2. ~(children[k][i] <= k)
      BY <1>1, <2>2, <3>1
    <3> QED
      BY <2>1, <3>1, <3>2
  <2>4. PICK g \in [Calls -> V] : \A i \in DOMAIN children[k] : g[children[k][i]] = w[children[k][i]]
    <3> DEFINE h == [c \in Calls |-> IF w[c] \in Seq(Calls) THEN w[c] ELSE <<>>]
    <3>1. h \in [Calls -> V]
      BY EmptyList
    <3>2. \A i \in DOMAIN children[k] : h[children[k][i]] = w[children[k][i]]
      BY <1>2, <2>2, <2>3
    <3> QED
      BY <3>1, <3>2
  <2>5. Listing(children, k, g) = Listing(children, k, w)
    <3>1. [i \in DOMAIN children[k] |-> g[children[k][i]]] = [i \in DOMAIN children[k] |-> w[children[k][i]]]
      BY <2>4
    <3> QED
      BY <3>1 DEF Listing
  <2>6. next(k, g) \in V /\ next(k, g) = next(k, w)
    BY <1>3, <2>2, <2>4, <2>5
  <2> QED
    BY <1>13, <2>2, <2>6
<1>15. w \in [Calls -> Seq(Calls)]
  <2>1. \A c \in Calls : w[c] \in Seq(Calls)
    BY <1>14
  <2> HIDE DEF next
  <2> QED
    BY <1>12, <2>1
<1> QED
  BY <1>11, <1>13, <1>15

LEMMA PreorderIs ==
  \A children, calls : Preorder(children, calls) = Walks(children, calls)[0]
BY DEF Preorder, Walks

\* The calls that stay.
Staying == {c \in Calls : ~Pruned(c)}

\* The two trees whose walks are compared.
BothTrees == tx \in Transaction /\ subcalls = [c \in Calls |-> Kids(c)] /\ PrunedBy(Heads)

LEMMA TreesLater ==
  ASSUME BothTrees
  PROVE  LaterBelow(subcalls) /\ LaterBelow(decoded)
<1>1. ASSUME NEW c \in Calls
      PROVE  subcalls[c] \in Seq(Calls) /\ \A i \in DOMAIN subcalls[c] : c < subcalls[c][i]
  <2>1. subcalls[c] = Kids(c)
    BY DEF BothTrees
  <2> QED
    BY <2>1, KidsAre, ChildOf DEF BothTrees
<1>2. ASSUME NEW c \in Calls
      PROVE  decoded[c] \in Seq(Calls) /\ \A i \in DOMAIN decoded[c] : c < decoded[c][i]
  <2>1. PICK H : H = Heads
    OBVIOUS
  <2>2. PrunedBy(H)
    BY <2>1 DEF BothTrees
  <2> QED
    BY <2>2, DecodedLists DEF BothTrees
<1> QED
  BY <1>1, <1>2 DEF LaterBelow

\* A chain that gives way is walked like its last call.
LEMMA WalkedLikeLast ==
  ASSUME BothTrees, NEW c \in Calls, First[c] # 0
  PROVE  Walks(subcalls, Staying)[c] = Walks(subcalls, Staying)[End[c]]
<1>1. tx \in Transaction /\ \A b \in Calls : subcalls[b] = Kids(b)
  BY DEF BothTrees
<1>2. PICK u : u = Walks(subcalls, Staying)
  OBVIOUS
<1>3. PICK stay : stay = Staying
  OBVIOUS
<1>4. /\ u \in [Calls -> Seq(Calls)]
      /\ \A b \in Calls : u[b] = (IF b \in stay THEN <<b>> ELSE <<>>) \o Listing(subcalls, b, u)
  BY <1>1, <1>2, <1>3, TreesLater, WalkIs
<1> DEFINE T == {b \in Calls : First[b] # 0 /\ u[b] # u[End[b]]}
<1> SUFFICES ASSUME T # {} PROVE FALSE
  BY <1>2
<1>5. PICK k \in T : \A j \in T : j <= k
  BY <1>1, LastCall
<1>6. k \in Calls /\ First[k] # 0 /\ u[k] # u[End[k]]
  BY <1>5
<1>7. Delegator(k)
  BY <1>1, <1>6, ChainFacts
<1>8. k \notin stay
  BY <1>3, <1>6, <1>7 DEF Staying, Pruned
<1>9. PICK m \in Calls : m = Kids(k)[1] /\ k < m
  BY <1>1, <1>6, <1>7, OnlyChild
<1>10. Listing(subcalls, k, u) = u[m]
  <2>1. Len(subcalls[k]) = 1 /\ subcalls[k][1] = m
    BY <1>1, <1>6, <1>7, <1>9, OnlyChild
  <2> QED
    BY <1>1, <1>4, <1>6, <2>1, TreesLater, ListingIs
<1>11. u[k] = u[m]
  <2>1. PICK l \in Seq(Calls) : l = u[m]
    BY <1>4, <1>9
  <2>2. u[k] = <<>> \o l
    BY <1>4, <1>6, <1>8, <1>10, <2>1
  <2>3. <<>> \o l = l
    BY <2>1, ConcatEmptySeq
  <2> QED
    BY <2>1, <2>2, <2>3
<1>12. First[m] # 0 /\ End[m] = End[k]
  BY <1>1, <1>6, <1>7, <1>9, ChainFacts
<1>13. m \notin T
  <2>1. m \in Nat /\ k \in Nat
    BY <1>1, <1>6, <1>9, TreeFacts
  <2>2. ~(m <= k)
    BY <1>9, <2>1
  <2> QED
    BY <1>5, <2>2
<1>14. u[m] = u[End[m]]
  BY <1>9, <1>12, <1>13
<1> QED
  BY <1>6, <1>11, <1>12, <1>14

\* What stands below a call that stays is walked in one tree as in the other.
LEMMA SameBelow ==
  ASSUME BothTrees, NEW c \in Staying, NEW i \in DOMAIN Kids(c)
  PROVE  /\ decoded[c][i] \in Staying /\ c < decoded[c][i]
         /\ Walks(subcalls, Staying)[decoded[c][i]] = Walks(subcalls, Staying)[Kids(c)[i]]
<1>1. tx \in Transaction /\ c \in Calls /\ ~Pruned(c)
  BY DEF BothTrees, Staying
<1>2. PICK H : H = Heads
  OBVIOUS
<1>3. PrunedBy(H)
  BY <1>2 DEF BothTrees
<1>4. /\ decoded[c][i] = IF Kids(c)[i] \in H THEN End[Kids(c)[i]] ELSE Kids(c)[i]
      /\ decoded[c][i] \in Calls /\ c < decoded[c][i]
  BY <1>1, <1>3, DecodedLists
<1>5. PICK k \in Calls : k = Kids(c)[i] /\ k # 0 /\ k \in Below(c)
  BY <1>1, ChildOf, KidsAre DEF ToSet
<1>6. CASE ~Delegator(c)
  <2>1. k \in H /\ First[k] = k /\ First[k] # 0
    BY <1>1, <1>2, <1>5, <1>6, HeadsBelow DEF Heads
  <2>2. decoded[c][i] = End[k] /\ ~Delegator(End[k])
    BY <1>1, <1>4, <1>5, <2>1, ChainFacts
  <2>3. Walks(subcalls, Staying)[k] = Walks(subcalls, Staying)[End[k]]
    BY <1>5, <2>1, WalkedLikeLast
  <2> QED
    BY <1>4, <1>5, <2>2, <2>3 DEF Staying, Pruned
<1>7. CASE Delegator(c)
  <2>1. First[c] = 0
    BY <1>1, <1>7 DEF Pruned
  <2>2. i = 1 /\ k = Kids(c)[1]
    BY <1>1, <1>5, <1>7, OnlyChild
  <2>3. First[k] = 0 /\ k \notin H
    BY <1>1, <1>2, <1>5, <1>7, <2>1, <2>2, ChainFacts, HeadsBelow
  <2> QED
    BY <1>4, <1>5, <2>3 DEF Staying, Pruned
<1> QED
  BY <1>6, <1>7

LEMMA WalkedAlike ==
  ASSUME BothTrees, NEW c \in Staying
  PROVE  Walks(decoded, Calls)[c] = Walks(subcalls, Staying)[c]
<1>1. tx \in Transaction /\ \A b \in Calls : subcalls[b] = Kids(b)
  BY DEF BothTrees
<1>2. PICK u : u = Walks(subcalls, Staying)
  OBVIOUS
<1>3. PICK d : d = Walks(decoded, Calls)
  OBVIOUS
<1>4. PICK stay : stay = Staying
  OBVIOUS
<1>5. \A b \in Calls : u[b] = (IF b \in stay THEN <<b>> ELSE <<>>) \o Listing(subcalls, b, u)
  BY <1>1, <1>2, <1>4, TreesLater, WalkIs
<1>6. \A b \in Calls : d[b] = <<b>> \o Listing(decoded, b, d)
  BY <1>1, <1>3, TreesLater, WalkIs
<1> DEFINE T == {b \in Staying : d[b] # u[b]}
<1> SUFFICES ASSUME T # {} PROVE FALSE
  BY <1>2, <1>3
<1>7. PICK k \in T : \A j \in T : j <= k
  <2>1. T \subseteq Calls
    BY DEF Staying
  <2> QED
    BY <1>1, <2>1, LastCall
<1>8. k \in Staying /\ k \in Calls /\ d[k] # u[k]
  BY <1>7 DEF Staying
<1>9. DOMAIN decoded[k] = DOMAIN Kids(k)
  <2>1. PICK H : H = Heads
    OBVIOUS
  <2>2. PrunedBy(H)
    BY <2>1 DEF BothTrees
  <2> QED
    BY <1>1, <1>8, <2>2, DecodedLists
<1>10. ASSUME NEW i \in DOMAIN Kids(k) PROVE d[decoded[k][i]] = u[Kids(k)[i]]
  <2>1. decoded[k][i] \in Staying /\ k < decoded[k][i] /\ u[decoded[k][i]] = u[Kids(k)[i]]
    BY <1>2, <1>8, SameBelow
  <2>2. ~(decoded[k][i] <= k)
    <3>1. decoded[k][i] \in Nat /\ k \in Nat
      BY <1>1, <1>8, <2>1, TreeFacts DEF Staying
    <3> QED
      BY <2>1, <3>1
  <2>3. d[decoded[k][i]] = u[decoded[k][i]]
    BY <1>7, <2>1, <2>2
  <2> QED
    BY <2>1, <2>3
<1>11. Listing(decoded, k, d) = Listing(subcalls, k, u)
  <2>1. [i \in DOMAIN decoded[k] |-> d[decoded[k][i]]] = [i \in DOMAIN subcalls[k] |-> u[subcalls[k][i]]]
    BY <1>1, <1>8, <1>9, <1>10
  <2> QED
    BY <2>1 DEF Listing
<1>12. d[k] = u[k]
  BY <1>4, <1>5, <1>6, <1>8, <1>11
<1> QED
  BY <1>8, <1>12

\* DecoderService's prune_delegates takes away the calls whose only subcall is a
\* delegatecall, but for those of the chain that begins at the root, and no
\* other; what stays is in its order and shows the ether of its chain's first call.
THEOREM TreePruned == Spec => []PrunesDelegators
<1>1. ASSUME ConvertInv, PruneInv PROVE PrunesDelegators
  <2> SUFFICES ASSUME phase = "done"
               PROVE  /\ Preorder(decoded, Calls) = Preorder(subcalls, Staying)
                      /\ \A c \in Staying : worth[c] = tx.value[First[c]]
    BY DEF PrunesDelegators, Staying
  <2>1. BothTrees
    <3>1. phase \in Range(Passes) /\ tx \in Transaction
      BY <1>1 DEF ConvertInv
    <3>2. After("convert")
      BY <3>1, Order DEF After
    <3> QED
      BY <1>1, <3>1, <3>2 DEF ConvertInv, Converted, PruneInv, BothTrees
  <2>2. tx \in Transaction /\ First[0] = 0 /\ 0 \in Staying
    BY <2>1, FirstIs, TreeFacts DEF BothTrees, Staying, Pruned
  <2>3. Walks(decoded, Calls)[0] = Walks(subcalls, Staying)[0]
    BY <2>1, <2>2, WalkedAlike
  <2>4. \A c \in Calls : worth[c] = tx.value[First[c]]
    <3>1. worth = [c \in Calls |-> tx.value[IF First[c] \in Heads THEN First[c] ELSE c]]
      BY <2>1 DEF BothTrees, PrunedBy
    <3>2. \A c \in Calls : First[c] \in Heads
      BY <2>2, FirstIs, ChainFacts DEF Heads
    <3> QED
      BY <3>1, <3>2
  <2> QED
    BY <2>3, <2>4, PreorderIs DEF Staying
<1> QED
  BY <1>1, TreeConverts, TreePrunes, PTL
=============================================================================
