------------------------- MODULE NodeProvider_proofs -------------------------
(***************************************************************************)
(* Proofs about one process and the nodes of its chains, for any pools,    *)
(* any cache size, and any sequence of heads and reorganisations.          *)
(***************************************************************************)
EXTENDS NodeProvider, TLAPS, SequenceTheorems

-----------------------------------------------------------------------------
(***************************************************************************)
(* lru_cache as a sequence.                                                *)
(***************************************************************************)
Distinct(s) == \A i, j \in DOMAIN s : s[i].key = s[j].key => i = j

LEMMA Removal ==
  ASSUME NEW S, NEW s \in Seq(S), NEW k \in 1 .. Len(s)
  PROVE  /\ RemoveAt(s, k) \in Seq(S) /\ Len(RemoveAt(s, k)) = Len(s) - 1
         /\ \A i \in 1 .. Len(s) - 1 :
              RemoveAt(s, k)[i] = IF i < k THEN s[i] ELSE s[i + 1]
<1> DEFINE before == SubSeq(s, 1, k - 1)
           after  == SubSeq(s, k + 1, Len(s))
<1>1. Len(s) \in Nat /\ \A i \in 1 .. Len(s) : s[i] \in S
  BY LenProperties, ElementOfSeq
<1>2. /\ before \in Seq(S) /\ Len(before) = k - 1
      /\ \A i \in 1 .. k - 1 : before[i] = s[i]
  <2>1. k - 1 \in Int /\ 1 \in Int /\ \A i \in 1 .. k - 1 : s[i] \in S
    BY <1>1
  <2>2. /\ before \in Seq(S) /\ Len(before) = IF 1 <= k - 1 THEN k - 1 - 1 + 1 ELSE 0
        /\ \A i \in 1 .. k - 1 - 1 + 1 : before[i] = s[1 + i - 1]
    BY <2>1, SubSeqProperties
  <2> HIDE DEF before
  <2> QED
    BY <1>1, <2>2
<1>3. /\ after \in Seq(S) /\ Len(after) = Len(s) - k
      /\ \A i \in 1 .. Len(s) - k : after[i] = s[k + i]
  <2>1. k + 1 \in Int /\ Len(s) \in Int /\ \A i \in k + 1 .. Len(s) : s[i] \in S
    BY <1>1
  <2>2. /\ after \in Seq(S)
        /\ Len(after) = IF k + 1 <= Len(s) THEN Len(s) - (k + 1) + 1 ELSE 0
        /\ \A i \in 1 .. Len(s) - (k + 1) + 1 : after[i] = s[k + 1 + i - 1]
    BY <2>1, SubSeqProperties
  <2> HIDE DEF after
  <2> QED
    BY <1>1, <2>2
<1>4. RemoveAt(s, k) = before \o after
  BY DEF RemoveAt
<1> HIDE DEF before, after
<1>5. /\ before \o after \in Seq(S) /\ Len(before \o after) = Len(before) + Len(after)
      /\ \A i \in 1 .. Len(before) + Len(after) :
           (before \o after)[i] = IF i <= Len(before) THEN before[i] ELSE after[i - Len(before)]
  BY <1>2, <1>3, ConcatProperties
<1>6. ASSUME NEW i \in 1 .. Len(s) - 1
      PROVE  (before \o after)[i] = IF i < k THEN s[i] ELSE s[i + 1]
  <2>1. CASE i < k
    BY <1>1, <1>2, <1>3, <1>5, <2>1
  <2>2. CASE ~(i < k)
    <3>1. i - (k - 1) \in 1 .. Len(s) - k /\ k + (i - (k - 1)) = i + 1
      BY <1>1, <2>2
    <3>2. (before \o after)[i] = after[i - (k - 1)]
      BY <1>1, <1>2, <1>3, <1>5, <2>2
    <3> QED
      BY <1>3, <2>2, <3>1, <3>2
  <2> QED
    BY <2>1, <2>2
<1> QED
  BY <1>1, <1>2, <1>3, <1>4, <1>5, <1>6

\* An entry put first, the rest of a cache behind it, cut to the cache's size.
LEMMA Promotion ==
  ASSUME NEW S, NEW rest \in Seq(S), NEW e \in S, NEW size \in Nat \ {0},
         NEW new, NEW kept,
         kept = IF Len(<<e>> \o rest) < size THEN Len(<<e>> \o rest) ELSE size,
         new = SubSeq(<<e>> \o rest, 1, kept)
  PROVE  /\ new \in Seq(S) /\ Len(new) \in 1 .. size /\ new[1] = e
         /\ Len(new) = IF Len(rest) + 1 < size THEN Len(rest) + 1 ELSE size
         /\ \A i \in 1 .. Len(new) : i # 1 => i - 1 \in 1 .. Len(rest) /\ new[i] = rest[i - 1]
<1> DEFINE all == <<e>> \o rest
<1>1. <<e>> \in Seq(S) /\ Len(<<e>>) = 1 /\ <<e>>[1] = e /\ Len(rest) \in Nat
  BY LenProperties
<1>2. /\ all \in Seq(S) /\ Len(all) = 1 + Len(rest)
      /\ \A i \in 1 .. 1 + Len(rest) : all[i] = IF i <= 1 THEN <<e>>[i] ELSE rest[i - 1]
  BY <1>1, ConcatProperties
<1>3. kept = IF Len(all) < size THEN Len(all) ELSE size
  OBVIOUS
<1>4. new = SubSeq(all, 1, kept)
  OBVIOUS
<1> HIDE DEF all
<1>5. kept \in 1 .. Len(all) /\ kept \in 1 .. size /\ Len(all) \in Nat
  BY <1>1, <1>2, <1>3
<1>6. \A i \in 1 .. kept : all[i] \in S
  BY <1>2, <1>5, ElementOfSeq
<1>7. /\ new \in Seq(S) /\ Len(new) = IF 1 <= kept THEN kept - 1 + 1 ELSE 0
      /\ \A i \in 1 .. kept - 1 + 1 : new[i] = all[1 + i - 1]
  <2>1. 1 \in Int /\ kept \in Int
    BY <1>5
  <2> QED
    BY <1>4, <1>6, <2>1, SubSeqProperties
<1>8. Len(new) = kept /\ \A i \in 1 .. kept : new[i] = all[i]
  BY <1>5, <1>7
<1>9. ASSUME NEW i \in 1 .. Len(new), i # 1
      PROVE  i - 1 \in 1 .. Len(rest) /\ new[i] = rest[i - 1]
  BY <1>1, <1>2, <1>5, <1>8, <1>9
<1> QED
  BY <1>1, <1>2, <1>3, <1>5, <1>7, <1>8, <1>9

-----------------------------------------------------------------------------
(***************************************************************************)
(* The cache of a method.                                                  *)
(***************************************************************************)
Entry == [key : [chain : ChainArg, arg : Nat], answer : Answer]

LEMMA OthersLemma ==
  ASSUME TypeOK, NEW m \in Cached, Distinct(cache[m])
  PROVE  /\ Others(m) \in Seq(Entry) /\ Len(Others(m)) <= Len(cache[m])
         /\ \A i \in 1 .. Len(Others(m)) : \E j \in DOMAIN cache[m] :
              Others(m)[i] = cache[m][j] /\ cache[m][j].key # Key(m)
         /\ \A i, j \in 1 .. Len(Others(m)) : Others(m)[i].key = Others(m)[j].key => i = j
         /\ Hits(m) # {} =>
              /\ Len(Others(m)) = Len(cache[m]) - 1
              /\ \A j \in DOMAIN cache[m] : cache[m][j].key # Key(m) =>
                   \E i \in 1 .. Len(Others(m)) : Others(m)[i] = cache[m][j]
<1>1. /\ cache[m] \in Seq(Entry) /\ Len(cache[m]) \in Nat
      /\ DOMAIN cache[m] = 1 .. Len(cache[m])
  BY LenProperties DEF TypeOK, Entry
<1>2. Hits(m) = {i \in DOMAIN cache[m] : cache[m][i].key = Key(m)}
  BY DEF Hits, Places
<1> DEFINE s == cache[m]
           key == Key(m)
<1> HIDE DEF key
<1>3. CASE Hits(m) = {}
  <2>1. Others(m) = cache[m]
    BY <1>3 DEF Others
  <2> QED
    BY <1>1, <1>2, <1>3, <2>1 DEF Distinct
<1>4. CASE Hits(m) # {}
  <2> DEFINE k == CHOOSE i \in Hits(m) : TRUE
  <2>1. k \in 1 .. Len(s) /\ s[k].key = key
    BY <1>1, <1>2, <1>4 DEF key
  <2>2. Others(m) = RemoveAt(s, k)
    BY <1>4 DEF Others
  <2> HIDE DEF k
  <2>3. /\ Others(m) \in Seq(Entry) /\ Len(Others(m)) = Len(s) - 1
        /\ \A i \in 1 .. Len(s) - 1 : Others(m)[i] = IF i < k THEN s[i] ELSE s[i + 1]
    BY <1>1, <2>1, <2>2, Removal
  <2>4. \A i \in 1 .. Len(s) : s[i].key = key => i = k
    BY <1>1, <2>1 DEF Distinct
  <2>5. \A i \in 1 .. Len(Others(m)) : \E j \in DOMAIN s :
          Others(m)[i] = s[j] /\ s[j].key # key
    <3> SUFFICES ASSUME NEW i \in 1 .. Len(Others(m))
                 PROVE  \E j \in DOMAIN s : Others(m)[i] = s[j] /\ s[j].key # key
      OBVIOUS
    <3>1. CASE i < k
      <4>1. i \in 1 .. Len(s) /\ i # k /\ Others(m)[i] = s[i]
        BY <1>1, <2>1, <2>3, <3>1
      <4> QED
        BY <1>1, <2>4, <4>1
    <3>2. CASE ~(i < k)
      <4>1. i + 1 \in 1 .. Len(s) /\ i + 1 # k /\ Others(m)[i] = s[i + 1]
        BY <1>1, <2>1, <2>3, <3>2
      <4> QED
        BY <1>1, <2>4, <4>1
    <3> QED
      BY <3>1, <3>2
  <2>6. \A i, j \in 1 .. Len(Others(m)) : Others(m)[i].key = Others(m)[j].key => i = j
    <3> SUFFICES ASSUME NEW i \in 1 .. Len(s) - 1, NEW j \in 1 .. Len(s) - 1,
                        Others(m)[i].key = Others(m)[j].key
                 PROVE  i = j
      BY <2>3
    <3>1. PICK x \in 1 .. Len(s) : Others(m)[i] = s[x] /\ x = IF i < k THEN i ELSE i + 1
      BY <1>1, <2>1, <2>3
    <3>2. PICK y \in 1 .. Len(s) : Others(m)[j] = s[y] /\ y = IF j < k THEN j ELSE j + 1
      BY <1>1, <2>1, <2>3
    <3>3. x = y
      BY <1>1, <3>1, <3>2 DEF Distinct
    <3> QED
      BY <1>1, <2>1, <3>1, <3>2, <3>3
  <2>7. \A j \in DOMAIN s : s[j].key # key => \E i \in 1 .. Len(Others(m)) : Others(m)[i] = s[j]
    <3> SUFFICES ASSUME NEW j \in 1 .. Len(s), s[j].key # key
                 PROVE  \E i \in 1 .. Len(Others(m)) : Others(m)[i] = s[j]
      BY <1>1
    <3>1. j # k
      BY <2>1
    <3>2. CASE j < k
      BY <1>1, <2>1, <2>3, <3>2
    <3>3. CASE j > k
      <4>1. j - 1 \in 1 .. Len(s) - 1 /\ ~(j - 1 < k) /\ j - 1 + 1 = j
        BY <1>1, <2>1, <3>3
      <4>2. Others(m)[j - 1] = s[j]
        BY <2>3, <4>1
      <4> QED
        BY <2>3, <4>1, <4>2
    <3> QED
      BY <1>1, <2>1, <3>1, <3>2, <3>3
  <2>8. Len(Others(m)) <= Len(cache[m])
    BY <1>1, <2>3
  <2>9. /\ \A i \in 1 .. Len(Others(m)) : \E j \in DOMAIN cache[m] :
              Others(m)[i] = cache[m][j] /\ cache[m][j].key # Key(m)
        /\ \A j \in DOMAIN cache[m] : cache[m][j].key # Key(m) =>
              \E i \in 1 .. Len(Others(m)) : Others(m)[i] = cache[m][j]
    BY ONLY <2>5, <2>7 DEF key, s
  <2> QED
    BY ONLY <2>3, <2>6, <2>8, <2>9 DEF s
<1> QED
  BY <1>3, <1>4

\* What a use leaves of the cache: the answer first, then what was there, and
\* nothing of it is dropped when the answer was there.
LEMMA UseLemma ==
  ASSUME TypeOK, NEW m \in Cached, Distinct(cache[m]), NEW a \in Answer,
         Key(m) \in [chain : ChainArg, arg : Nat], Use(m, a)
  PROVE  /\ cache' \in [Cached -> Seq(Entry)]
         /\ \A n \in Cached \ {m} : cache'[n] = cache[n]
         /\ Len(cache'[m]) <= CacheSize /\ Distinct(cache'[m])
         /\ 1 \in DOMAIN cache'[m] /\ cache'[m][1] = [key |-> Key(m), answer |-> a]
         /\ \A i \in DOMAIN cache'[m] : i # 1 => \E j \in DOMAIN cache[m] :
              cache'[m][i] = cache[m][j] /\ cache[m][j].key # Key(m)
         /\ Hits(m) # {} => \A j \in DOMAIN cache[m] : cache[m][j].key # Key(m) =>
              \E i \in DOMAIN cache'[m] : i # 1 /\ cache'[m][i] = cache[m][j]
<1> DEFINE e == [key |-> Key(m), answer |-> a]
           rest == Others(m)
           kept == IF Len(<<e>> \o rest) < CacheSize THEN Len(<<e>> \o rest) ELSE CacheSize
           new == SubSeq(<<e>> \o rest, 1, kept)
<1>1. /\ rest \in Seq(Entry) /\ Len(rest) <= Len(cache[m])
      /\ \A i \in 1 .. Len(rest) : \E j \in DOMAIN cache[m] :
              rest[i] = cache[m][j] /\ cache[m][j].key # Key(m)
      /\ \A i, j \in 1 .. Len(rest) : rest[i].key = rest[j].key => i = j
      /\ Hits(m) # {} =>
              /\ Len(rest) = Len(cache[m]) - 1
              /\ \A j \in DOMAIN cache[m] : cache[m][j].key # Key(m) =>
                   \E i \in 1 .. Len(rest) : rest[i] = cache[m][j]
  BY OthersLemma
<1>2. e \in Entry /\ e.key = Key(m)
  BY DEF Entry
<1>3. CacheSize \in Nat \ {0}
  BY NodesAssumption
<1>4. cache' = [cache EXCEPT ![m] = new]
  BY DEF Use
<1> HIDE DEF rest, e
<1>5. /\ new \in Seq(Entry) /\ Len(new) \in 1 .. CacheSize /\ new[1] = e
      /\ Len(new) = IF Len(rest) + 1 < CacheSize THEN Len(rest) + 1 ELSE CacheSize
      /\ \A i \in 1 .. Len(new) : i # 1 => i - 1 \in 1 .. Len(rest) /\ new[i] = rest[i - 1]
  BY <1>1, <1>2, <1>3, Promotion
<1> HIDE DEF new, kept
<1>6. cache \in [Cached -> Seq(Entry)]
  BY DEF TypeOK, Entry
<1>7. /\ cache' \in [Cached -> Seq(Entry)] /\ cache'[m] = new
      /\ \A n \in Cached \ {m} : cache'[n] = cache[n]
  BY <1>4, <1>5, <1>6
<1>8. /\ DOMAIN new = 1 .. Len(new) /\ Len(new) \in Nat /\ Len(rest) \in Nat
      /\ cache[m] \in Seq(Entry) /\ Len(cache[m]) \in Nat /\ Len(cache[m]) <= CacheSize
  BY <1>1, <1>5, <1>6, LenProperties DEF TypeOK
<1>9. \A i \in DOMAIN new : i # 1 => \E j \in DOMAIN cache[m] :
              new[i] = cache[m][j] /\ cache[m][j].key # Key(m)
  <2> SUFFICES ASSUME NEW i \in 1 .. Len(new), i # 1
               PROVE  \E j \in DOMAIN cache[m] :
                        new[i] = cache[m][j] /\ cache[m][j].key # Key(m)
    BY <1>8
  <2>1. i - 1 \in 1 .. Len(rest) /\ new[i] = rest[i - 1]
    BY <1>5
  <2> QED
    BY ONLY <1>1, <2>1
<1>10. Distinct(new)
  <2> SUFFICES ASSUME NEW i \in 1 .. Len(new), NEW j \in 1 .. Len(new),
                      new[i].key = new[j].key
               PROVE  i = j
    BY <1>8 DEF Distinct
  <2>1. CASE i = 1 \/ j = 1
    BY <1>2, <1>5, <1>8, <1>9, <2>1
  <2>2. CASE i # 1 /\ j # 1
    <3>1. /\ i - 1 \in 1 .. Len(rest) /\ new[i] = rest[i - 1]
          /\ j - 1 \in 1 .. Len(rest) /\ new[j] = rest[j - 1]
      BY <1>5, <2>2
    <3>2. rest[i - 1].key = rest[j - 1].key
      BY <3>1
    <3>3. i - 1 = j - 1
      BY ONLY <1>1, <3>1, <3>2
    <3> QED
      BY <1>8, <3>3
  <2> QED
    BY <2>1, <2>2
<1>11. ASSUME Hits(m) # {}, NEW j \in DOMAIN cache[m], cache[m][j].key # Key(m)
       PROVE  \E i \in DOMAIN new : i # 1 /\ new[i] = cache[m][j]
  <2>1. PICK i \in 1 .. Len(rest) : rest[i] = cache[m][j]
    BY <1>1, <1>11
  <2>2. Len(new) = Len(rest) + 1
    BY <1>1, <1>3, <1>5, <1>8, <1>11
  <2>3. i + 1 \in 1 .. Len(new) /\ i + 1 # 1 /\ (i + 1) - 1 = i
    BY <1>8, <2>2
  <2> QED
    BY <1>5, <1>8, <2>1, <2>3
<1> QED
  BY <1>5, <1>7, <1>8, <1>9, <1>10, <1>11 DEF e

-----------------------------------------------------------------------------
(***************************************************************************)
(* Arguments, and answers that are good for them.                          *)
(***************************************************************************)
AnswerGood(m, a) ==
  /\ a \in Answer /\ Resolve(Passed) \in Configured
  /\ m \in Part => PartGood(m, a, Resolve(Passed))
  /\ m = "full" => FullGood(a, Resolve(Passed))

Methods == Single \cup {"full"}

LEMMA SameChain ==
  ASSUME job' = job, default' = default
  PROVE  /\ Passed' = Passed /\ Resolve(Passed)' = Resolve(Passed)
         /\ \A c : Resolve(c)' = Resolve(c)
BY DEF Passed, Resolve

LEMMA SameWorld ==
  ASSUME heads' = heads, default' = default
  PROVE  /\ \A m, a, c : PartGood(m, a, c)' <=> PartGood(m, a, c)
         /\ \A a, c : FullGood(a, c)' <=> FullGood(a, c)
         /\ \A m, e : EntryGood(m, e)' <=> EntryGood(m, e)
BY DEF PartGood, FullGood, EntryGood, Genuine, Resolve

LEMMA BranchNumbers ==
  /\ Branches \subseteq Nat
  /\ \A c \in Configured : 1 .. MaxHeads[c] \subseteq Branches /\ 1 \in Branches
BY NodesAssumption DEF Branches

LEMMA PassedChain == ASSUME TypeOK, job # Null PROVE Passed \in ChainArg
BY DEF TypeOK, Passed, Resolve, ChainArg

LEMMA KeyGood ==
  ASSUME TypeOK, RunGood, NEW m \in Methods, Resolve(Passed) \in Configured,
         \/ doing = m
         \/ doing = "assemble" /\ m = "full"
  PROVE  /\ Key(m).chain = Passed /\ Key(m) \in [chain : ChainArg, arg : Nat]
         /\ Key(m).arg \in IF m = "block" THEN Branches ELSE {1}
<1>1. doing # Null
  BY NullAssumption DEF TypeOK, Methods, Single, Part
<1>2. job # Null /\ Passed \in ChainArg
  BY <1>1, PassedChain DEF TypeOK
<1>3. Key(m).chain = Passed
  BY DEF Key
<1>4. m = "block" => Key(m).arg \in Branches
  <2> SUFFICES ASSUME m = "block" PROVE Key(m).arg \in Branches
    OBVIOUS
  <2>1. \/ parts = NoParts
        \/ parts.transaction.number \in Branches
    BY <1>1 DEF RunGood, Part
  <2>2. parts = NoParts => parts.transaction = Null
    BY DEF NoParts, Part
  <2> QED
    BY <2>1, <2>2, BranchNumbers DEF Key
<1>5. m # "block" => Key(m).arg = 1
  BY DEF Key
<1>6. Key(m).arg \in Nat
  BY <1>4, <1>5, BranchNumbers
<1>7. Key(m) \in [chain : ChainArg, arg : Nat]
  <2>1. Key(m) = [chain |-> Passed, arg |-> Key(m).arg]
    BY DEF Key
  <2> QED
    BY <1>2, <1>6, <2>1
<1> QED
  BY <1>3, <1>4, <1>5, <1>7

-----------------------------------------------------------------------------
(***************************************************************************)
(* A method returns, whichever way it got its answer.                      *)
(***************************************************************************)
LEMMA UseKeeps ==
  ASSUME TypeOK, CachesGood, RunGood, NEW m \in Cached, NEW a,
         \/ doing = m
         \/ doing = "assemble" /\ m = "full",
         AnswerGood(m, a), Use(m, a), heads' = heads, default' = default
  PROVE  /\ cache' \in [Cached -> Seq(Entry)]
         /\ \A n \in Cached : Len(cache'[n]) <= CacheSize
         /\ CachesGood'
<1>1. m \in Methods /\ a \in Answer /\ Resolve(Passed) \in Configured
  BY DEF Cached, Methods, Single, Part, AnswerGood
<1>2. /\ Key(m).chain = Passed /\ Key(m) \in [chain : ChainArg, arg : Nat]
      /\ Key(m).arg \in IF m = "block" THEN Branches ELSE {1}
  BY <1>1, KeyGood
<1>3. Distinct(cache[m])
  BY DEF CachesGood, Distinct
<1>4. /\ cache' \in [Cached -> Seq(Entry)]
      /\ \A n \in Cached \ {m} : cache'[n] = cache[n]
      /\ Len(cache'[m]) <= CacheSize /\ Distinct(cache'[m])
      /\ 1 \in DOMAIN cache'[m] /\ cache'[m][1] = [key |-> Key(m), answer |-> a]
      /\ \A i \in DOMAIN cache'[m] : i # 1 => \E j \in DOMAIN cache[m] :
              cache'[m][i] = cache[m][j] /\ cache[m][j].key # Key(m)
  BY <1>1, <1>2, <1>3, UseLemma
<1>5. EntryGood(m, [key |-> Key(m), answer |-> a])
  BY <1>1, <1>2 DEF EntryGood, AnswerGood
<1>6. \A i \in DOMAIN cache'[m] : EntryGood(m, cache'[m][i])
  BY <1>4, <1>5 DEF CachesGood
<1>7. \A n \in Cached : \A i \in DOMAIN cache'[n] : EntryGood(n, cache'[n][i])
  BY <1>4, <1>6 DEF CachesGood
<1>8. \A n \in Cached : Distinct(cache'[n])
  BY <1>4 DEF CachesGood, Distinct
<1>9. CachesGood'
  BY <1>7, <1>8 DEF CachesGood, Distinct, EntryGood, PartGood, FullGood, Genuine, Resolve
<1>10. \A n \in Cached : Len(cache'[n]) <= CacheSize
  BY <1>4 DEF TypeOK
<1> QED
  BY <1>4, <1>9, <1>10

LEMMA ReturnKeeps ==
  ASSUME TypeOK, RunGood, ConnectionGood, NEW m \in Methods, NEW a,
         \/ doing = m
         \/ doing = "assemble" /\ m = "full",
         AnswerGood(m, a), Return(m, a), heads' = heads, default' = default
  PROVE  /\ job' \in [op : Jobs, chain : ChainArg] \cup {Null}
         /\ doing' \in Single \cup {"full", "assemble", "proxies", Null}
         /\ (job' = Null <=> doing' = Null) /\ at' \in Nat /\ node' = Null
         /\ parts' \in [Part -> Answer \cup {Null}]
         /\ RunGood' /\ ConnectionGood' /\ AllRejected' /\ LatestOfChain'
<1> USE DEF Methods, Single, Part
<1>1. doing # Null /\ job # Null /\ job \in [op : Jobs, chain : ChainArg] /\ outcome = Null
  BY NullAssumption DEF TypeOK, ConnectionGood
<1>2. at' = 0 /\ node' = Null
  BY DEF Return, End, GoOn
<1>3. a \in Answer /\ NoParts \in [Part -> Answer \cup {Null}] /\ parts \in [Part -> Answer \cup {Null}]
  BY DEF AnswerGood, NoParts, TypeOK
<1>4. CASE m = job.op /\ End("returned")
  <2>1. job' = Null /\ doing' = Null /\ parts' = NoParts
    BY <1>4 DEF End
  <2>2. outcome' = [ended |-> "returned", op |-> m, chain |-> Passed] /\ m # "decode"
    BY <1>4 DEF End
  <2>3. AllRejected' /\ LatestOfChain'
    BY <2>2 DEF AllRejected, LatestOfChain
  <2> QED
    BY <1>2, <1>3, <2>1, <2>3 DEF RunGood, ConnectionGood
<1>5. CASE m # job.op /\ m \in Part /\ parts' = [parts EXCEPT ![m] = a] /\ GoOn(After(m))
  <2>1. /\ doing = m /\ job.op \in {"full", "decode"}
        /\ \A k \in Gathered(m) : PartGood(k, parts[k], Resolve(Passed))
    BY <1>1, <1>5 DEF RunGood
  <2>2. /\ job' = job /\ outcome' = Null /\ doing' = After(m)
        /\ doing' \in {"receipt", "calls", "statediff", "assemble"}
    BY <1>1, <1>5 DEF GoOn, After
  <2>3. \A k \in Gathered(After(m)) : k = m \/ (k \in Gathered(m) /\ k # m)
    BY <1>5 DEF Gathered, After
  <2>4. PartGood(m, a, Resolve(Passed))
    BY <1>5 DEF AnswerGood
  <2>5. \A k \in Gathered(After(m)) : k \in Part
    BY <1>5 DEF Gathered, After
  <2>6. \A k \in Gathered(After(m)) : PartGood(k, parts'[k], Resolve(Passed))
    BY <1>3, <1>5, <2>1, <2>3, <2>4, <2>5
  <2>7. RunGood'
    <3>1. \A k \in Gathered(doing') : PartGood(k, parts'[k], Resolve(Passed))
      BY <2>2, <2>6
    <3>2. heads' = heads /\ default' = default /\ job' = job
      BY <2>2
    <3>3. doing' \in Part \cup {"assemble"} /\ job'.op \in {"full", "decode"}
      BY <2>1, <2>2
    <3> QED
      BY ONLY <3>1, <3>2, <3>3 DEF RunGood, PartGood, Genuine, Passed, Resolve
  <2>8. doing' # Null
    BY <2>2, NullAssumption
  <2>9. parts' \in [Part -> Answer \cup {Null}]
    BY <1>3, <1>5
  <2> QED
    BY <1>1, <1>2, <2>2, <2>7, <2>8, <2>9 DEF ConnectionGood, AllRejected, LatestOfChain
<1>6. CASE m # job.op /\ m = "full" /\ parts' = [NoParts EXCEPT !.transaction = a] /\ GoOn("block")
  <2>1. job.op = "decode"
    BY <1>1, <1>6 DEF RunGood
  <2>2. job' = job /\ outcome' = Null /\ doing' = "block"
    BY <1>1, <1>6 DEF GoOn
  <2>3. parts'.transaction = a /\ parts' \in [Part -> Answer \cup {Null}]
    BY <1>3, <1>6 DEF NoParts
  <2>4. a.number \in Branches
    BY <1>6, BranchNumbers DEF AnswerGood, FullGood
  <2>5. RunGood' /\ doing' # Null
    BY <2>1, <2>2, <2>3, <2>4, NullAssumption DEF RunGood
  <2> QED
    BY <1>1, <1>2, <2>2, <2>3, <2>5 DEF ConnectionGood, AllRejected, LatestOfChain
<1>7. CASE m # job.op /\ m = "block" /\ GoOn("proxies") /\ UNCHANGED parts
  <2>1. job.op = "decode"
    BY <1>1, <1>7 DEF RunGood
  <2>2. job' = job /\ outcome' = Null /\ doing' = "proxies"
    BY <1>1, <1>7 DEF GoOn
  <2>3. RunGood' /\ doing' # Null
    BY <2>1, <2>2, NullAssumption DEF RunGood
  <2> QED
    BY <1>1, <1>2, <1>3, <1>7, <2>2, <2>3 DEF ConnectionGood, AllRejected, LatestOfChain
<1> QED
  BY <1>4, <1>5, <1>6, <1>7 DEF Return

-----------------------------------------------------------------------------
(***************************************************************************)
(* Views of the nodes.                                                     *)
(***************************************************************************)
LEMMA OwnChain == ASSUME NEW c \in Configured, NEW n \in ToSet(Nodes[c]) PROVE ChainOf(n) = c
BY NodesAssumption DEF ChainOf

LEMMA GenuineView ==
  ASSUME TypeOK, HeadsOrdered, NEW c \in Configured, NEW n \in ToSet(Nodes[c])
  PROVE  /\ View(n) \in Sight /\ Genuine(View(n), c)
         /\ View(n).branch \in 1 .. MaxHeads[c] /\ View(n).branch \in Nat
<1>1. ChainOf(n) = c
  BY OwnChain
<1>2. /\ heads[c] \in Seq(Nat) /\ Len(heads[c]) \in 1 .. MaxHeads[c] /\ MaxHeads[c] \in Nat
      /\ DOMAIN heads[c] = 1 .. Len(heads[c]) /\ seen[n] \in DOMAIN heads[c]
      /\ Len(heads[c]) \in DOMAIN heads[c]
  BY LenProperties, NodesAssumption DEF TypeOK, HeadsOrdered
<1>3. /\ heads[c][seen[n]] \in 1 .. seen[n]
      /\ heads[c][seen[n]] <= heads[c][Len(heads[c])]
  BY <1>2 DEF HeadsOrdered
<1>4. heads[c][Len(heads[c])] \in 1 .. Len(heads[c])
  BY <1>2 DEF HeadsOrdered
<1>5. View(n) = [chain |-> c, branch |-> heads[c][seen[n]]]
  BY <1>1 DEF View
<1>6. heads[c][seen[n]] \in Nat /\ heads[c][seen[n]] \in 1 .. MaxHeads[c]
  BY <1>2, <1>3
<1>7. heads[c][seen[n]] \in 1 .. Last(heads[c])
  BY <1>2, <1>3, <1>4 DEF Last
<1> QED
  BY <1>5, <1>6, <1>7 DEF Genuine, Sight

\* What a node answers is good.
LEMMA NodeAnswers ==
  ASSUME TypeOK, HeadsOrdered, NEW m \in Single, Resolve(Passed) \in Configured,
         NEW n \in ToSet(Nodes[Resolve(Passed)])
  PROVE  /\ AnswerGood(m, AnswerOf(m, n, Resolve(Passed)))
         /\ m = "token" => AnswerGood(m, NotAToken)
<1> DEFINE c == Resolve(Passed)
           a == AnswerOf(m, n, c)
<1>1. /\ View(n) \in Sight /\ Genuine(View(n), c)
      /\ View(n).branch \in 1 .. MaxHeads[c] /\ View(n).branch \in Nat
  BY GenuineView
<1>2. \/ m \in {"transaction", "receipt"} /\ a = [view |-> View(n), chain |-> c, number |-> View(n).branch]
      \/ m \in {"calls", "block"} /\ a = [view |-> View(n), chain |-> c]
      \/ m \in {"statediff", "code", "token"} /\ a = [view |-> View(n)]
  BY DEF AnswerOf, Single, Part, GetTransaction, GetReceipt, GetCalls, GetStatediff, GetBlock,
         GetCodeHash, GuessToken
<1>3. c \in Configured
  OBVIOUS
<1> HIDE DEF a, c
<1>4. a \in Answer
  BY <1>1, <1>2, <1>3 DEF Answer
<1>5. m \in Part => PartGood(m, a, c)
  BY <1>1, <1>2, <1>3, <1>4 DEF PartGood
<1>6. m # "full" /\ (m = "token" => m \notin Part)
  BY DEF Single, Part
<1>7. NotAToken \in Answer
  BY DEF NotAToken, Answer
<1> QED
  BY <1>3, <1>4, <1>5, <1>6, <1>7 DEF AnswerGood, a, c

\* What is assembled from good parts is good.
LEMMA AssembledGood ==
  ASSUME TypeOK, RunGood, doing = "assemble"
  PROVE  AnswerGood("full", Assembled(parts))
<1> DEFINE c == Resolve(Passed)
           a == Assembled(parts)
<1>1. \A m \in Part : PartGood(m, parts[m], c)
  BY NullAssumption DEF RunGood, Gathered, Part, Single
<1>2. /\ PartGood("transaction", parts.transaction, c) /\ PartGood("receipt", parts.receipt, c)
      /\ PartGood("calls", parts.calls, c) /\ PartGood("statediff", parts.statediff, c)
  BY <1>1 DEF Part
<1>3. /\ c \in Configured
      /\ Genuine(parts.transaction.view, c) /\ Genuine(parts.receipt.view, c)
      /\ Genuine(parts.calls.view, c) /\ Genuine(parts.statediff.view, c)
      /\ parts.transaction.number \in 1 .. MaxHeads[c]
  BY <1>2 DEF PartGood
<1> HIDE DEF c
<1>4. /\ parts.transaction.view \in Sight /\ parts.receipt.view \in Sight
      /\ parts.calls.view \in Sight /\ parts.statediff.view \in Sight
      /\ parts.transaction.number \in Nat
  BY <1>3, NodesAssumption DEF Genuine
<1>5. a \in Answer
  BY <1>4 DEF Assembled, Answer
<1>6. /\ Views(a) = {parts.transaction.view, parts.receipt.view, parts.calls.view,
                     parts.statediff.view}
      /\ a.number = parts.transaction.number
  BY DEF Assembled, Views
<1> HIDE DEF a
<1>7. FullGood(a, c) /\ "full" \notin Part
  BY <1>3, <1>5, <1>6 DEF FullGood, Part
<1> QED
  BY <1>3, <1>5, <1>7 DEF AnswerGood, a, c

-----------------------------------------------------------------------------
(***************************************************************************)
(* The steps.                                                              *)
(***************************************************************************)
CallInv == ProviderInv /\ AllRejected /\ LatestOfChain

LEMMA EndKeeps ==
  ASSUME CallInv, doing # Null, NEW how, End(how), UNCHANGED <<world, provider, calls>>,
         how = "NodeConnectionException" =>
           \A n \in ToSet(Nodes[Resolve(Passed)]) : kind[n] = "rejecting",
         how = "returned" /\ job.op = "decode" => latest.chain = Passed
  PROVE  CallInv'
<1>1. /\ job' = Null /\ doing' = Null /\ at' = 0 /\ node' = Null /\ parts' = NoParts
      /\ outcome' = [ended |-> how, op |-> job.op, chain |-> Passed]
  BY DEF End
<1>2. heads' = heads /\ seen' = seen /\ kind' = kind /\ default' = default
      /\ cache' = cache /\ latest' = latest /\ calls' = calls
  BY DEF world, provider
<1>3. TypeOK'
  BY <1>1, <1>2 DEF CallInv, ProviderInv, TypeOK, NoParts
<1>4. HeadsOrdered' /\ CachesGood'
  BY <1>2 DEF CallInv, ProviderInv, HeadsOrdered, CachesGood, EntryGood, PartGood, FullGood,
     Genuine, Resolve
<1>5. RunGood' /\ ConnectionGood'
  BY <1>1 DEF RunGood, ConnectionGood
<1>6. AllRejected'
  <2>1. Resolve(Passed) = IF Passed = Null THEN default ELSE Passed
    BY DEF Resolve
  <2> HIDE DEF Passed
  <2> QED
    BY <1>1, <1>2, <2>1 DEF AllRejected, Resolve
<1>7. LatestOfChain'
  BY <1>1, <1>2 DEF LatestOfChain
<1> QED
  BY <1>3, <1>4, <1>5, <1>6, <1>7 DEF CallInv, ProviderInv

LEMMA ReturnStep ==
  ASSUME CallInv, NEW m \in Methods, NEW a,
         \/ doing = m
         \/ doing = "assemble" /\ m = "full",
         AnswerGood(m, a), Return(m, a), UNCHANGED <<world, latest, calls>>,
         IF m \in Cached THEN Use(m, a) ELSE UNCHANGED cache
  PROVE  CallInv'
<1>1. heads' = heads /\ seen' = seen /\ kind' = kind /\ default' = default
  BY DEF world
<1>2. TypeOK /\ HeadsOrdered /\ CachesGood /\ RunGood /\ ConnectionGood
  BY DEF CallInv, ProviderInv
<1>3. /\ cache' \in [Cached -> Seq(Entry)]
      /\ \A n \in Cached : Len(cache'[n]) <= CacheSize
      /\ CachesGood'
  <2>1. CASE m \in Cached
    BY <1>1, <1>2, <2>1, UseKeeps
  <2>2. CASE m \notin Cached
    <3>1. cache' = cache
      BY <2>2
    <3>2. CachesGood'
      BY <1>1, <1>2, <3>1 DEF CachesGood, EntryGood, PartGood, FullGood, Genuine, Resolve
    <3> QED
      BY <1>2, <3>1, <3>2 DEF TypeOK, Entry
  <2> QED
    BY <2>1, <2>2
<1>4. /\ job' \in [op : Jobs, chain : ChainArg] \cup {Null}
      /\ doing' \in Single \cup {"full", "assemble", "proxies", Null}
      /\ (job' = Null <=> doing' = Null) /\ at' \in Nat /\ node' = Null
      /\ parts' \in [Part -> Answer \cup {Null}]
      /\ RunGood' /\ ConnectionGood' /\ AllRejected' /\ LatestOfChain'
  BY <1>1, <1>2, ReturnKeeps
<1>5. TypeOK'
  BY <1>1, <1>2, <1>3, <1>4 DEF TypeOK, Entry
<1>6. HeadsOrdered'
  BY <1>1, <1>2 DEF HeadsOrdered
<1> QED
  BY <1>3, <1>4, <1>5, <1>6 DEF CallInv, ProviderInv

LEMMA HitStep == ASSUME CallInv, NEW m \in Cached, Hit(m) PROVE CallInv'
<1>1. PICK i \in Hits(m) : Use(m, cache[m][i].answer) /\ Return(m, cache[m][i].answer)
  BY DEF Hit
<1>2. m \in Methods /\ doing = m /\ i \in DOMAIN cache[m] /\ cache[m][i].key = Key(m)
  BY DEF Hit, Hits, Places, Methods, Cached, Single, Part
<1>3. EntryGood(m, cache[m][i]) /\ cache[m][i].answer \in Answer
  <2>1. cache[m] \in Seq(Entry)
    BY DEF CallInv, ProviderInv, TypeOK, Entry
  <2>2. cache[m][i] \in Entry
    BY <1>2, <2>1, LenProperties, ElementOfSeq
  <2> QED
    BY <1>2, <2>2 DEF CallInv, ProviderInv, CachesGood, Entry
<1>4. cache[m][i].key.chain = Passed
  BY <1>2 DEF Key
<1>5. AnswerGood(m, cache[m][i].answer)
  BY <1>3, <1>4 DEF EntryGood, AnswerGood
<1>6. UNCHANGED <<world, latest, calls>>
  BY DEF Hit
<1> QED
  BY <1>1, <1>2, <1>5, <1>6, ReturnStep

LEMMA AssembleStep == ASSUME CallInv, Assemble PROVE CallInv'
<1>1. AnswerGood("full", Assembled(parts))
  BY AssembledGood DEF CallInv, ProviderInv, Assemble
<1>2. "full" \in Methods /\ "full" \in Cached
  BY DEF Methods, Cached
<1> QED
  BY <1>1, <1>2, ReturnStep DEF Assemble

\* The node it is connected to is one of the pool of the chain.
LEMMA OnPool ==
  ASSUME TypeOK, Resolve(Passed) \in Configured
  PROVE  /\ DOMAIN Pool = 1 .. Len(Pool) /\ Len(Pool) \in Nat
         /\ \A i \in DOMAIN Pool : Pool[i] \in ToSet(Nodes[Resolve(Passed)]) /\ Pool[i] \in Node
         /\ \A n \in ToSet(Nodes[Resolve(Passed)]) : \E i \in DOMAIN Pool : n = Pool[i]
<1>1. Nodes[Resolve(Passed)] \in Seq(Node) /\ Pool = Nodes[Resolve(Passed)]
  BY NodesAssumption DEF Pool
<1>2. DOMAIN Pool = 1 .. Len(Pool) /\ Len(Pool) \in Nat /\ \A i \in 1 .. Len(Pool) : Pool[i] \in Node
  BY <1>1, LenProperties, ElementOfSeq
<1> QED
  BY <1>1, <1>2 DEF ToSet

LEMMA Attached ==
  ASSUME CallInv, node # Null
  PROVE  /\ doing \in Single \cup {"proxies"} /\ Resolve(Passed) \in Configured
         /\ Hits(doing) = {} /\ latest.chain = Resolve(Passed)
         /\ node \in ToSet(Nodes[Resolve(Passed)])
<1>1. at # 0 /\ at \in Nat
  BY DEF CallInv, ProviderInv, ConnectionGood, TypeOK
<1>2. /\ doing \in Single \cup {"proxies"} /\ Resolve(Passed) \in Configured
      /\ Hits(doing) = {} /\ latest.chain = Resolve(Passed)
      /\ at \in DOMAIN Pool /\ node = Pool[at]
  BY <1>1 DEF CallInv, ProviderInv, ConnectionGood
<1> QED
  BY <1>2, OnPool DEF CallInv, ProviderInv

LEMMA RequestStep == ASSUME CallInv, NEW m \in Single, Request(m) PROVE CallInv'
<1>1. /\ doing = m /\ node # Null /\ m \in Methods /\ doing # Null
  BY NullAssumption DEF Request, Methods
<1>2. /\ AnswerGood(m, AnswerOf(m, node, Resolve(Passed)))
      /\ m = "token" => AnswerGood(m, NotAToken)
  BY <1>1, Attached, NodeAnswers DEF CallInv, ProviderInv
<1>3. CASE \E a : AnswerGood(m, a) /\ Answered(m, a)
  BY <1>1, <1>3, ReturnStep DEF Answered
<1>4. CASE Raise("request")
  BY <1>1, <1>4, EndKeeps DEF Raise
<1> QED
  BY <1>2, <1>3, <1>4 DEF Request

LEMMA EndDecodeStep == ASSUME CallInv, EndDecode PROVE CallInv'
<1>1. doing = "proxies" /\ node # Null /\ doing # Null
  BY NullAssumption DEF EndDecode
<1>2. Resolve(Passed) \in Configured /\ latest.chain = Resolve(Passed)
  BY <1>1, Attached
<1>3. job.op = "decode"
  BY <1>1 DEF CallInv, ProviderInv, RunGood, Single, Part
<1>4. Resolve(Passed) = Passed
  BY <1>2, <1>3, NodesAssumption DEF Passed, Resolve
<1> QED
  BY <1>1, <1>2, <1>4, EndKeeps DEF EndDecode

LEMMA EnterFullStep == ASSUME CallInv, EnterFull PROVE CallInv'
<1>1. /\ doing = "full" /\ job' = job /\ outcome' = outcome /\ doing' = "transaction"
      /\ at' = 0 /\ node' = Null /\ parts' = parts
      /\ heads' = heads /\ seen' = seen /\ kind' = kind /\ default' = default
      /\ cache' = cache /\ latest' = latest /\ calls' = calls
  BY DEF EnterFull, GoOn, world, provider
<1>2. "full" # Null /\ "transaction" # Null /\ outcome = Null
  BY <1>1, NullAssumption DEF CallInv, ProviderInv, ConnectionGood, Single, Part
<1>3. TypeOK'
  BY <1>1, <1>2 DEF CallInv, ProviderInv, TypeOK, Single, Part
<1>4. HeadsOrdered' /\ CachesGood'
  BY <1>1 DEF CallInv, ProviderInv, HeadsOrdered, CachesGood, EntryGood, PartGood, FullGood,
     Genuine, Resolve
<1>5. RunGood'
  <2>1. job.op \in {"full", "decode"}
    BY <1>1, <1>2 DEF CallInv, ProviderInv, RunGood, Part
  <2>2. Gathered("transaction") = {} /\ "transaction" \in Part
    BY DEF Gathered, Part
  <2> QED
    BY <1>1, <2>1, <2>2 DEF RunGood
<1>6. ConnectionGood' /\ AllRejected' /\ LatestOfChain'
  BY <1>1, <1>2 DEF ConnectionGood, AllRejected, LatestOfChain
<1> QED
  BY <1>3, <1>4, <1>5, <1>6 DEF CallInv, ProviderInv

\* Steps that change neither the world nor the call but for its connection.
LEMMA ConnectionStep ==
  ASSUME CallInv, UNCHANGED <<world, cache, job, doing, parts, history>>,
         latest' \in [height : Nat, chain : Configured \cup {Null}],
         at' \in Nat, node' \in Node \cup {Null}, doing # Null, ConnectionGood'
  PROVE  CallInv'
<1>1. /\ heads' = heads /\ seen' = seen /\ kind' = kind /\ default' = default
      /\ cache' = cache /\ job' = job /\ doing' = doing /\ parts' = parts
      /\ outcome' = outcome /\ calls' = calls
  BY DEF world, history
<1>2. TypeOK'
  BY <1>1 DEF CallInv, ProviderInv, TypeOK
<1>3. HeadsOrdered' /\ CachesGood'
  BY <1>1 DEF CallInv, ProviderInv, HeadsOrdered, CachesGood, EntryGood, PartGood, FullGood,
     Genuine, Resolve
<1>4. RunGood'
  BY <1>1 DEF CallInv, ProviderInv, RunGood, PartGood, Genuine, Passed, Resolve
<1>5. outcome' = Null
  BY <1>1 DEF CallInv, ProviderInv, ConnectionGood
<1>6. AllRejected' /\ LatestOfChain'
  BY <1>5 DEF AllRejected, LatestOfChain
<1> QED
  BY <1>2, <1>3, <1>4, <1>6 DEF CallInv, ProviderInv

LEMMA OpenPoolStep == ASSUME CallInv, OpenPool PROVE CallInv'
<1>1. doing \in Single \cup {"proxies"} /\ doing # Null /\ node = Null /\ at = 0 /\ Hits(doing) = {}
  BY NullAssumption DEF OpenPool, Connecting
<1>2. CASE Raise("ProcessingException")
  BY <1>1, <1>2, EndKeeps DEF Raise
<1>3. CASE Resolve(Passed) \in Configured /\ at' = 1
           /\ UNCHANGED <<world, provider, job, doing, node, parts, history>>
  <2>1. /\ default' = default /\ cache' = cache /\ latest' = latest /\ outcome' = outcome
        /\ job' = job /\ doing' = doing /\ node' = Null /\ parts' = parts
    BY <1>1, <1>3 DEF world, provider, history
  <2>2. Passed' = Passed /\ Resolve(Passed)' = Resolve(Passed)
    BY <2>1, SameChain
  <2>3. Hits(doing)' = {}
    BY <1>1, <2>1 DEF Hits, Places, Key, Passed, Resolve
  <2>4. \A i \in DOMAIN Pool' : ~(i < 1)
    BY <1>3, <2>2, OnPool DEF CallInv, ProviderInv, Pool
  <2>5. outcome = Null
    BY <1>1 DEF CallInv, ProviderInv, ConnectionGood
  <2>6. ConnectionGood'
    BY <1>1, <1>3, <2>1, <2>2, <2>3, <2>4, <2>5 DEF ConnectionGood
  <2>7. latest' \in [height : Nat, chain : Configured \cup {Null}]
    BY <2>1 DEF CallInv, ProviderInv, TypeOK
  <2> QED
    BY <1>1, <1>3, <2>1, <2>6, <2>7, ConnectionStep DEF provider
<1> QED
  BY <1>2, <1>3 DEF OpenPool

LEMMA ConnectStep == ASSUME CallInv, Connect PROVE CallInv'
<1>1. /\ doing \in Single \cup {"proxies"} /\ doing # Null /\ node = Null
      /\ at \in Nat /\ at > 0
  BY NullAssumption DEF Connect, Connecting, CallInv, ProviderInv, TypeOK
<1>2. /\ Resolve(Passed) \in Configured /\ Hits(doing) = {} /\ outcome = Null
      /\ \A i \in DOMAIN Pool : i < at => kind[Pool[i]] = "rejecting"
  BY <1>1 DEF CallInv, ProviderInv, ConnectionGood
<1>3. /\ DOMAIN Pool = 1 .. Len(Pool) /\ Len(Pool) \in Nat
      /\ \A i \in DOMAIN Pool : Pool[i] \in ToSet(Nodes[Resolve(Passed)]) /\ Pool[i] \in Node
      /\ \A n \in ToSet(Nodes[Resolve(Passed)]) : \E i \in DOMAIN Pool : n = Pool[i]
  BY <1>2, OnPool DEF CallInv, ProviderInv
<1>4. CASE at > Len(Pool) /\ Raise("NodeConnectionException")
  <2>1. \A n \in ToSet(Nodes[Resolve(Passed)]) : kind[n] = "rejecting"
    BY <1>1, <1>2, <1>3, <1>4
  <2> QED
    BY <1>1, <1>4, <2>1, EndKeeps DEF Raise
<1>5. CASE at <= Len(Pool) /\ Raise("connection")
  BY <1>1, <1>5, EndKeeps DEF Raise
<1>6. ASSUME at \in DOMAIN Pool, UNCHANGED <<world, cache, job, doing, parts, history>>,
             latest' \in [height : Nat, chain : Configured \cup {Null}],
             \/ at' = at /\ node' = Pool[at] /\ latest'.chain = Resolve(Passed)
             \/ at' = at + 1 /\ node' = Null /\ kind[Pool[at]] = "rejecting"
      PROVE  CallInv'
  <2>1. /\ default' = default /\ cache' = cache /\ kind' = kind /\ outcome' = outcome
        /\ job' = job /\ doing' = doing /\ parts' = parts
    BY <1>6 DEF world, history
  <2>2. Passed' = Passed /\ Resolve(Passed)' = Resolve(Passed) /\ Pool' = Pool
    BY <2>1, SameChain DEF Pool
  <2>3. Hits(doing)' = {}
    BY <1>2, <2>1 DEF Hits, Places, Key, Passed, Resolve
  <2>4. \A i \in DOMAIN Pool : i < at' => kind[Pool[i]] = "rejecting"
    BY <1>1, <1>2, <1>3, <1>6
  <2>5. /\ at' \in Nat /\ at' # 0 /\ node' \in Node \cup {Null}
        /\ node' # Null => at' \in DOMAIN Pool /\ node' = Pool[at']
                           /\ latest'.chain = Resolve(Passed)
    BY <1>1, <1>3, <1>6
  <2>6. ConnectionGood'
    BY <1>1, <1>2, <2>1, <2>2, <2>3, <2>4, <2>5 DEF ConnectionGood
  <2> QED
    BY <1>1, <1>6, <2>5, <2>6, ConnectionStep
<1>7. CASE at <= Len(Pool) /\ Connected(Pool[at])
  <2>1. at \in DOMAIN Pool /\ Pool[at] \in Node /\ ChainOf(Pool[at]) = Resolve(Passed)
    BY <1>1, <1>2, <1>3, <1>7, OwnChain
  <2>2. /\ at' = at /\ node' = Pool[at] /\ latest'.chain = Resolve(Passed)
        /\ latest' \in [height : Nat, chain : Configured \cup {Null}]
    BY <1>2, <1>7, <2>1 DEF Connected, CallInv, ProviderInv, TypeOK
  <2> QED
    BY <1>6, <1>7, <2>1, <2>2 DEF Connected
<1>8. CASE at <= Len(Pool) /\ NextNode /\ kind[Pool[at]] = "rejecting"
  <2>1. at \in DOMAIN Pool
    BY <1>1, <1>3, <1>8
  <2>2. latest' \in [height : Nat, chain : Configured \cup {Null}]
    BY <1>8 DEF NextNode, provider, CallInv, ProviderInv, TypeOK
  <2> QED
    BY <1>1, <1>6, <1>8, <2>1, <2>2 DEF NextNode, provider
<1>9. ASSUME at <= Len(Pool), NEW o \in Outcomes(kind[Pool[at]]), o \in {"off", "refuses"}
      PROVE  kind[Pool[at]] = "rejecting"
  <2>1. kind[Pool[at]] \in {"steady", "rejecting", "flaky"}
    <3>1. Pool[at] \in Node
      BY <1>1, <1>3, <1>9
    <3>2. kind \in [Node -> {"steady", "rejecting", "flaky"}]
      BY DEF CallInv, ProviderInv, TypeOK
    <3> HIDE DEF Pool
    <3> QED
      BY <3>1, <3>2
  <2> QED
    BY <1>9, <2>1 DEF Outcomes
<1>10. ASSUME at <= Len(Pool), NEW o \in Outcomes(kind[Pool[at]]), TryNode(Pool[at], o)
       PROVE  CallInv'
  BY <1>5, <1>7, <1>8, <1>9, <1>10 DEF TryNode
<1> QED
  BY <1>4, <1>10 DEF Connect

LEMMA CallStep == ASSUME CallInv, NEW op \in Jobs, NEW c \in ChainArg, Call(op, c) PROVE CallInv'
<1>1. /\ job' = [op |-> op, chain |-> c] /\ doing' = IF op = "decode" THEN "full" ELSE op
      /\ calls' = calls + 1 /\ calls < MaxCalls /\ outcome' = Null
      /\ heads' = heads /\ seen' = seen /\ kind' = kind /\ default' = default
      /\ cache' = cache /\ latest' = latest /\ at' = at /\ node' = node /\ parts' = parts
  BY DEF Call, world, provider
<1>2. doing = Null /\ parts = NoParts
  <2>1. doing = Null
    BY DEF Call, CallInv, ProviderInv, TypeOK
  <2> QED
    BY <2>1, NullAssumption DEF CallInv, ProviderInv, RunGood, Single, Part
<1>3. at = 0 /\ node = Null
  BY <1>2, NullAssumption DEF CallInv, ProviderInv, ConnectionGood, TypeOK
<1>4. doing' \in Single \cup {"full"} /\ (op # "decode" => doing' = op)
  BY <1>1, NodesAssumption DEF Single, Part
<1>5. job' \in [op : Jobs, chain : ChainArg] /\ job' # Null /\ doing' # Null
  BY <1>1, <1>4, NullAssumption
<1>6. TypeOK'
  <2>1. calls' \in 0 .. MaxCalls
    BY <1>1, NodesAssumption DEF CallInv, ProviderInv, TypeOK
  <2> QED
    BY <1>1, <1>4, <1>5, <2>1 DEF CallInv, ProviderInv, TypeOK
<1>7. HeadsOrdered' /\ CachesGood'
  BY <1>1 DEF CallInv, ProviderInv, HeadsOrdered, CachesGood, EntryGood, PartGood, FullGood,
     Genuine, Resolve
<1>8. RunGood'
  BY <1>1, <1>2, <1>4 DEF RunGood
<1>9. ConnectionGood' /\ AllRejected' /\ LatestOfChain'
  BY <1>1, <1>3 DEF ConnectionGood, AllRejected, LatestOfChain
<1> QED
  BY <1>6, <1>7, <1>8, <1>9 DEF CallInv, ProviderInv

\* The branches of a chain's heads, one after the other.
Branching(s) ==
  /\ s \in Seq(Nat) /\ Len(s) \in Nat \ {0} /\ s[1] = 1
  /\ \A i \in 1 .. Len(s) : s[i] \in 1 .. i
  /\ \A i, j \in 1 .. Len(s) : i <= j => s[i] <= s[j]

LEMMA NewHead ==
  ASSUME NEW s, Branching(s), NEW b \in {Last(s), Last(s) + 1}, NEW t, t = Append(s, b)
  PROVE  /\ Branching(t) /\ Len(t) = Len(s) + 1
         /\ Last(s) \in Nat /\ Last(t) \in Nat /\ Last(s) <= Last(t)
<1> DEFINE n == Len(s)
           last == s[n]
<1>1. s \in Seq(Nat) /\ n \in Nat \ {0} /\ n \in 1 .. n /\ 1 \in 1 .. n
  BY DEF Branching
<1>2. last \in 1 .. n /\ \A i \in 1 .. n : s[i] \in 1 .. i /\ s[i] <= last
  BY <1>1 DEF Branching
<1>3. b \in {last, last + 1} /\ b \in Nat /\ Last(s) = last
  BY <1>2 DEF Last
<1>4. /\ t \in Seq(Nat) /\ Len(t) = n + 1
      /\ \A i \in 1 .. n : t[i] = s[i]
      /\ t[n + 1] = b
  BY <1>1, <1>3, AppendProperties
<1>5. \A i, j \in 1 .. n : i <= j => s[i] <= s[j]
  BY DEF Branching
<1>6. s[1] = 1
  BY DEF Branching
<1> HIDE DEF n, last
<1>7. t[1] = 1
  BY <1>1, <1>4, <1>6
<1>8. \A i \in 1 .. n + 1 : i \in 1 .. n \/ i = n + 1
  BY <1>1
<1>9. \A i \in 1 .. n + 1 : t[i] \in 1 .. i
  <2>1. b \in 1 .. n + 1
    BY <1>1, <1>2, <1>3
  <2> QED
    BY <1>2, <1>4, <1>8, <2>1
<1>10. \A i, j \in 1 .. n + 1 : i <= j => t[i] <= t[j]
  <2> SUFFICES ASSUME NEW i \in 1 .. n + 1, NEW j \in 1 .. n + 1, i <= j PROVE t[i] <= t[j]
    OBVIOUS
  <2>1. CASE j \in 1 .. n
    <3>1. i \in 1 .. n
      BY <1>1, <2>1
    <3> QED
      BY <1>4, <1>5, <2>1, <3>1
  <2>2. CASE i \in 1 .. n /\ j = n + 1
    <3>1. s[i] \in Nat /\ s[i] <= last
      BY <1>2, <2>2
    <3> QED
      BY <1>2, <1>3, <1>4, <2>2, <3>1
  <2>3. CASE i = n + 1
    <3>1. j = n + 1
      BY <1>1, <2>3
    <3> QED
      BY <1>3, <1>4, <2>3, <3>1
  <2> QED
    BY <1>8, <2>1, <2>2, <2>3
<1>11. Len(t) \in Nat \ {0}
  BY <1>1, <1>4
<1>12. Last(t) = b
  BY <1>4 DEF Last
<1>13. Last(s) \in Nat /\ Last(t) \in Nat /\ Last(s) <= Last(t)
  BY <1>1, <1>2, <1>3, <1>12
<1>14. Branching(t)
  BY <1>4, <1>7, <1>9, <1>10, <1>11 DEF Branching
<1> QED
  BY <1>4, <1>13, <1>14 DEF n

LEMMA OrderedHeads ==
  ASSUME TypeOK
  PROVE  HeadsOrdered =>
           \A c \in Configured :
             /\ Branching(heads[c]) /\ Len(heads[c]) <= MaxHeads[c]
             /\ \A n \in ToSet(Nodes[c]) : seen[n] \in 1 .. Len(heads[c])
<1> SUFFICES ASSUME HeadsOrdered, NEW c \in Configured
             PROVE  /\ Branching(heads[c]) /\ Len(heads[c]) <= MaxHeads[c]
                    /\ \A n \in ToSet(Nodes[c]) : seen[n] \in 1 .. Len(heads[c])
  OBVIOUS
<1>1. /\ heads[c] \in Seq(Nat) /\ Len(heads[c]) \in Nat
      /\ DOMAIN heads[c] = 1 .. Len(heads[c])
  BY LenProperties DEF TypeOK
<1>2. Len(heads[c]) \in 1 .. MaxHeads[c] /\ MaxHeads[c] \in Nat
  BY NodesAssumption DEF HeadsOrdered
<1>3. Branching(heads[c])
  BY <1>1, <1>2 DEF HeadsOrdered, Branching
<1> QED
  BY <1>1, <1>2, <1>3 DEF HeadsOrdered

LEMMA NodesOfPool == ASSUME NEW c \in Configured PROVE ToSet(Nodes[c]) \subseteq Node
<1>1. Nodes[c] \in Seq(Node)
  BY NodesAssumption
<1> QED
  BY <1>1, LenProperties, ElementOfSeq DEF ToSet

\* A node learns of a head, which may start a branch: the heads stay ordered.
LEMMA LearnHeads ==
  ASSUME TypeOK, HeadsOrdered, NEW c \in Configured, NEW n \in ToSet(Nodes[c]), n \in Node, Learn(n)
  PROVE  /\ TypeOK' /\ HeadsOrdered'
         /\ \A d \in Configured : 1 .. Last(heads[d]) \subseteq 1 .. Last(heads'[d])
<1>1. ChainOf(n) = c
  BY OwnChain
<1>2. /\ seen[n] < MaxHeads[c]
      /\ seen' = [seen EXCEPT ![n] = @ + 1]
      /\ IF seen[n] < Len(heads[c]) THEN UNCHANGED heads
         ELSE \E b \in {Last(heads[c]), Last(heads[c]) + 1} :
                heads' = [heads EXCEPT ![c] = Append(@, b)]
  BY <1>1 DEF Learn
<1>3. /\ kind' = kind /\ default' = default /\ cache' = cache /\ latest' = latest
      /\ job' = job /\ doing' = doing /\ at' = at /\ node' = node /\ parts' = parts
      /\ outcome' = outcome /\ calls' = calls
  BY DEF Learn, provider, run, history
<1>4. \A d \in Configured : /\ Branching(heads[d]) /\ Len(heads[d]) <= MaxHeads[d]
                            /\ Len(heads[d]) \in Nat /\ MaxHeads[d] \in Nat
                            /\ \A k \in ToSet(Nodes[d]) : seen[k] \in 1 .. Len(heads[d])
  BY OrderedHeads, NodesAssumption DEF Branching
<1>5. /\ seen' \in [Node -> Nat] /\ seen'[n] = seen[n] + 1
      /\ \A k \in Node \ {n} : seen'[k] = seen[k]
  BY <1>2 DEF TypeOK
<1>6. \A d \in Configured :
        /\ heads'[d] \in Seq(Nat) /\ Branching(heads'[d])
        /\ Len(heads'[d]) \in Nat /\ Len(heads[d]) <= Len(heads'[d])
        /\ Len(heads'[d]) <= MaxHeads[d]
        /\ 1 .. Last(heads[d]) \subseteq 1 .. Last(heads'[d])
        /\ d = c => seen[n] + 1 <= Len(heads'[d])
  <2>1. CASE seen[n] < Len(heads[c])
    <3>1. heads' = heads /\ seen[n] \in Nat
      BY <1>2, <1>4, <2>1
    <3> QED
      BY <1>4, <2>1, <3>1 DEF Branching
  <2>2. CASE ~(seen[n] < Len(heads[c]))
    <3>1. PICK b \in {Last(heads[c]), Last(heads[c]) + 1} :
            heads' = [heads EXCEPT ![c] = Append(@, b)]
      BY <1>2, <2>2
    <3>2. heads'[c] = Append(heads[c], b) /\ \A d \in Configured \ {c} : heads'[d] = heads[d]
      BY <3>1 DEF TypeOK
    <3>3. /\ Branching(heads'[c]) /\ Len(heads'[c]) = Len(heads[c]) + 1
          /\ Last(heads[c]) \in Nat /\ Last(heads'[c]) \in Nat
          /\ Last(heads[c]) <= Last(heads'[c])
      BY <1>4, <3>1, <3>2, NewHead
    <3>4. seen[n] = Len(heads[c])
      BY <1>4, <2>2
    <3>5. 1 .. Last(heads[c]) \subseteq 1 .. Last(heads'[c])
      BY <3>3
    <3>6. Len(heads'[c]) \in Nat /\ Len(heads[c]) <= Len(heads'[c])
          /\ Len(heads'[c]) <= MaxHeads[c] /\ seen[n] + 1 <= Len(heads'[c])
      BY <1>2, <1>4, <3>3, <3>4
    <3>7. heads'[c] \in Seq(Nat)
      BY <3>3 DEF Branching
    <3>8. ASSUME NEW d \in Configured, d # c
          PROVE  /\ heads'[d] = heads[d] /\ heads'[d] \in Seq(Nat) /\ Branching(heads'[d])
                 /\ Len(heads'[d]) \in Nat /\ Len(heads'[d]) <= MaxHeads[d]
      BY <1>4, <3>2, <3>8 DEF Branching
    <3>9. \A d \in Configured : d # c => Len(heads[d]) <= Len(heads'[d])
      BY <1>4, <3>8
    <3> QED
      BY ONLY <3>3, <3>5, <3>6, <3>7, <3>8, <3>9
  <2> QED
    BY <2>1, <2>2
<1>7. heads' \in [Configured -> Seq(Nat)]
  <2>1. \/ heads' = heads
        \/ \E b : heads' = [heads EXCEPT ![c] = Append(@, b)]
    BY <1>2
  <2>2. heads' = [d \in Configured |-> heads'[d]]
    BY <2>1 DEF TypeOK
  <2> QED
    BY <1>6, <2>2
<1>8. TypeOK'
  BY <1>3, <1>5, <1>7 DEF TypeOK
<1>9. ASSUME NEW d \in Configured, NEW k \in ToSet(Nodes[d])
      PROVE  seen'[k] \in 1 .. Len(heads'[d])
  <2>1. k \in Node /\ seen[k] \in 1 .. Len(heads[d])
    BY <1>4, NodesOfPool
  <2>2. CASE k = n
    <3>1. d = c
      BY <1>1, <2>2, OwnChain
    <3> QED
      BY <1>5, <1>6, <2>1, <2>2, <3>1
  <2>3. CASE k # n
    BY <1>4, <1>5, <1>6, <2>1, <2>3
  <2> QED
    BY <2>2, <2>3
<1>10. HeadsOrdered'
  <2>1. \A d \in Configured : /\ heads'[d] \in Seq(Nat) /\ Len(heads'[d]) \in Nat
                              /\ DOMAIN heads'[d] = 1 .. Len(heads'[d])
    BY <1>6, LenProperties
  <2> SUFFICES ASSUME NEW d \in Configured
               PROVE  /\ Len(heads'[d]) \in 1 .. MaxHeads[d] /\ heads'[d][1] = 1
                      /\ \A i \in DOMAIN heads'[d] : heads'[d][i] \in 1 .. i
                      /\ \A i, j \in DOMAIN heads'[d] : i <= j => heads'[d][i] <= heads'[d][j]
                      /\ \A k \in ToSet(Nodes[d]) : seen'[k] \in DOMAIN heads'[d]
    BY DEF HeadsOrdered
  <2>2. Branching(heads'[d]) /\ Len(heads'[d]) <= MaxHeads[d] /\ MaxHeads[d] \in Nat
    BY <1>6, NodesAssumption
  <2> QED
    BY <1>9, <2>1, <2>2 DEF Branching
<1> QED
  BY <1>6, <1>8, <1>10

\* What was answered stays good.
LEMMA LearnStep == ASSUME CallInv, NEW n \in Node, Learn(n) PROVE CallInv'
<1> DEFINE c == Resolve(Passed)
<1>1. c \in Configured /\ n \in ToSet(Nodes[c])
  <2>1. node = n /\ n # Null
    BY NodesAssumption DEF Learn
  <2> QED
    BY <2>1, Attached
<1> HIDE DEF c
<1>2. /\ TypeOK' /\ HeadsOrdered'
      /\ \A d \in Configured : 1 .. Last(heads[d]) \subseteq 1 .. Last(heads'[d])
  BY <1>1, LearnHeads DEF CallInv, ProviderInv
<1>3. /\ kind' = kind /\ default' = default /\ cache' = cache /\ latest' = latest
      /\ job' = job /\ doing' = doing /\ at' = at /\ node' = node /\ parts' = parts
      /\ outcome' = outcome /\ calls' = calls
  BY DEF Learn, provider, run, history
<1>4. CachesGood'
  <2>1. \A d \in Configured : \A v : v.branch \in 1 .. Last(heads[d]) => v.branch \in 1 .. Last(heads'[d])
    BY <1>2
  <2>2. \A m \in Cached : \A i \in DOMAIN cache[m] : EntryGood(m, cache[m][i])
    BY DEF CallInv, ProviderInv, CachesGood
  <2>3. ASSUME NEW m \in Cached, NEW i \in DOMAIN cache[m] PROVE EntryGood(m, cache[m][i])'
    <3> DEFINE e == cache[m][i]
               d == Resolve(e.key.chain)
    <3>1. EntryGood(m, e)
      BY <2>2
    <3>2. d \in Configured
      BY <3>1 DEF EntryGood
    <3>3. m \in Part => PartGood(m, e.answer, d)'
      BY <1>3, <2>1, <3>1 DEF EntryGood, PartGood, Genuine, Resolve
    <3>4. m = "full" => FullGood(e.answer, d)'
      BY <1>3, <2>1, <3>1 DEF EntryGood, FullGood, Genuine, Resolve
    <3>5. e' = e /\ d' = d
      BY <1>3 DEF Resolve
    <3> QED
      BY <1>3, <3>1, <3>3, <3>4, <3>5 DEF EntryGood
  <2> QED
    BY <1>3, <2>3 DEF CallInv, ProviderInv, CachesGood
<1>5. RunGood'
  <2>1. ASSUME doing \in Part \cup {"assemble"}, NEW m \in Gathered(doing), PartGood(m, parts[m], Resolve(Passed))
        PROVE  PartGood(m, parts[m], Resolve(Passed))'
    BY <1>2, <1>3, <2>1 DEF PartGood, Genuine, Passed, Resolve
  <2> QED
    BY <1>3, <2>1 DEF CallInv, ProviderInv, RunGood
<1>6. ConnectionGood' /\ AllRejected' /\ LatestOfChain'
  BY <1>3 DEF CallInv, ProviderInv, ConnectionGood, AllRejected, LatestOfChain, Hits, Places,
     Key, Pool, Passed, Resolve
<1> QED
  BY <1>2, <1>4, <1>5, <1>6 DEF CallInv, ProviderInv

-----------------------------------------------------------------------------
(***************************************************************************)
(* What holds of every call.                                               *)
(***************************************************************************)
LEMMA InitCall == Init => CallInv
<1> SUFFICES ASSUME Init PROVE CallInv
  OBVIOUS
<1>1. /\ <<1>> \in Seq(Nat) /\ Len(<<1>>) = 1 /\ <<1>>[1] = 1 /\ DOMAIN <<1>> = {1}
      /\ <<>> \in Seq(Entry) /\ Len(<<>>) = 0 /\ DOMAIN <<>> = {} /\ Len(<<>>) <= CacheSize
  BY EmptySeq, NodesAssumption
<1>2. /\ \A c \in Configured : heads[c] = <<1>>
      /\ \A m \in Cached : cache[m] = <<>>
      /\ heads \in [Configured -> Seq(Nat)] /\ cache \in [Cached -> Seq(Entry)]
      /\ seen = [n \in Node |-> 1] /\ doing = Null /\ job = Null /\ parts = NoParts
      /\ at = 0 /\ node = Null /\ outcome = Null /\ calls = 0
  BY <1>1 DEF Init
<1>3. NoParts \in [Part -> Answer \cup {Null}]
  BY DEF NoParts
<1>4. /\ latest \in [height : Nat, chain : Configured \cup {Null}]
      /\ kind \in [Node -> {"steady", "rejecting", "flaky"}] /\ default \in Configured \cup {Null}
  BY NodesAssumption DEF Init
<1>5. TypeOK
  BY <1>1, <1>2, <1>3, <1>4, NodesAssumption DEF TypeOK, Entry
<1>6. HeadsOrdered
  <2> SUFFICES ASSUME NEW c \in Configured
               PROVE  /\ Len(heads[c]) \in 1 .. MaxHeads[c] /\ heads[c][1] = 1
                      /\ \A i \in DOMAIN heads[c] : heads[c][i] \in 1 .. i
                      /\ \A i, j \in DOMAIN heads[c] : i <= j => heads[c][i] <= heads[c][j]
                      /\ \A n \in ToSet(Nodes[c]) : seen[n] \in DOMAIN heads[c]
    BY DEF HeadsOrdered
  <2>1. heads[c] = <<1>> /\ MaxHeads[c] \in Nat \ {0}
    BY <1>2, NodesAssumption
  <2>2. \A n \in ToSet(Nodes[c]) : seen[n] = 1
    BY <1>2, NodesOfPool
  <2> QED
    BY <1>1, <2>1, <2>2
<1>7. CachesGood
  BY <1>1, <1>2 DEF CachesGood
<1>8. RunGood /\ ConnectionGood /\ AllRejected /\ LatestOfChain
  BY <1>2 DEF RunGood, ConnectionGood, AllRejected, LatestOfChain
<1> QED
  BY <1>5, <1>6, <1>7, <1>8 DEF CallInv, ProviderInv

LEMMA NextCall == CallInv /\ [Next]_vars => CallInv'
<1> SUFFICES ASSUME CallInv, [Next]_vars PROVE CallInv'
  OBVIOUS
<1>1. CASE UNCHANGED vars
  <2>1. /\ heads' = heads /\ seen' = seen /\ kind' = kind /\ default' = default
        /\ cache' = cache /\ latest' = latest /\ calls' = calls
        /\ job' = job /\ doing' = doing /\ at' = at /\ node' = node /\ parts' = parts
        /\ outcome' = outcome
    BY <1>1 DEF vars, world, provider, run, history
  <2>2. TypeOK'
    BY <2>1 DEF CallInv, ProviderInv, TypeOK
  <2>3. HeadsOrdered' /\ CachesGood'
    BY <2>1 DEF CallInv, ProviderInv, HeadsOrdered, CachesGood, EntryGood, PartGood, FullGood,
       Genuine, Resolve
  <2>4. RunGood' /\ ConnectionGood'
    BY <2>1 DEF CallInv, ProviderInv, RunGood, ConnectionGood, PartGood, Genuine, Hits, Places,
       Key, Pool, Passed, Resolve
  <2>5. AllRejected' /\ LatestOfChain'
    BY <2>1 DEF CallInv, AllRejected, LatestOfChain, Resolve
  <2> QED
    BY <2>2, <2>3, <2>4, <2>5 DEF CallInv, ProviderInv
<1>2. CASE \E n \in Node : Learn(n)
  BY <1>2, LearnStep
<1>3. CASE \E op \in Jobs, c \in ChainArg : Call(op, c)
  BY <1>3, CallStep
<1>4. CASE Step
  BY <1>4, HitStep, EnterFullStep, AssembleStep, OpenPoolStep, ConnectStep, EndDecodeStep,
     RequestStep DEF Step
<1> QED
  BY <1>1, <1>2, <1>3, <1>4 DEF Next

\* The inductive invariant: what is remembered, gathered and connected to is of
\* the chain that is asked, and a connection follows nodes that reject.
THEOREM CallInvariant == Spec => []CallInv
BY InitCall, NextCall, PTL DEF Spec

\* A call raises NodeConnectionException only if every node of its chain is off
\* or refuses: no node that would have answered is passed over.
THEOREM ProviderAllRejected == Spec => []AllRejected
<1>1. CallInv => AllRejected
  BY DEF CallInv
<1> QED
  BY <1>1, CallInvariant, PTL

\* A decode ends with a _latestBlockNum of its own chain, also when all its
\* answers were remembered and other chains were asked in between.
THEOREM ProviderLatestOfChain == Spec => []LatestOfChain
<1>1. CallInv => LatestOfChain
  BY DEF CallInv
<1> QED
  BY <1>1, CallInvariant, PTL

\* The parts of an assembled transaction come from its own chain, and from one
\* branch of it unless the chain was reorganised since the beginning.
THEOREM ProviderPartsAgree == Spec => []PartsAgree
<1>1. CallInv => PartsAgree
  <2> SUFFICES ASSUME CallInv, NEW i \in DOMAIN cache.full
               PROVE  LET views == Views(cache.full[i].answer)
                          c == Resolve(cache.full[i].key.chain)
                      IN /\ \A v \in views : v.chain = c
                         /\ (\A v, w \in views : v = w) \/ Last(heads[c]) > heads[c][1]
    BY DEF PartsAgree
  <2> DEFINE views == Views(cache.full[i].answer)
             c == Resolve(cache.full[i].key.chain)
  <2>1. FullGood(cache.full[i].answer, c)
    BY DEF CallInv, ProviderInv, CachesGood, EntryGood, Cached
  <2>2. c \in Configured /\ \A v \in views : Genuine(v, c)
    BY <2>1 DEF FullGood
  <2> HIDE DEF views, c
  <2>3. heads[c][1] = 1 /\ Last(heads[c]) \in Nat /\ Last(heads[c]) >= 1
    <3>1. Branching(heads[c])
      BY <2>2, OrderedHeads DEF CallInv, ProviderInv
    <3>2. Len(heads[c]) \in 1 .. Len(heads[c])
      BY <3>1 DEF Branching
    <3> QED
      BY <3>1, <3>2 DEF Branching, Last
  <2>4. ASSUME ~(Last(heads[c]) > heads[c][1]), NEW v \in views
        PROVE  v = [chain |-> c, branch |-> 1]
    BY <2>2, <2>3, <2>4 DEF Genuine, Sight
  <2>5. \A v \in views : v.chain = c
    BY <2>2 DEF Genuine
  <2> QED
    BY <2>4, <2>5 DEF views, c
<1> QED
  BY <1>1, CallInvariant, PTL

-----------------------------------------------------------------------------
(***************************************************************************)
(* A method with its cache is a cached reader.                             *)
(***************************************************************************)
RecallIn(s, key) ==
  LET places == {i \in DOMAIN s : s[i].key = key}
  IN IF places = {} THEN Null ELSE s[CHOOSE i \in places : TRUE].answer

LEMMA Found ==
  ASSUME NEW s, Distinct(s)
  PROVE  /\ \A i \in DOMAIN s : RecallIn(s, s[i].key) = s[i].answer
         /\ \A key : (\A i \in DOMAIN s : s[i].key # key) => RecallIn(s, key) = Null
<1>1. ASSUME NEW i \in DOMAIN s PROVE RecallIn(s, s[i].key) = s[i].answer
  <2> DEFINE places == {j \in DOMAIN s : s[j].key = s[i].key}
  <2>1. i \in places /\ \A j \in places : j = i
    BY DEF Distinct
  <2>2. (CHOOSE j \in places : TRUE) \in places
    BY <2>1
  <2>3. (CHOOSE j \in places : TRUE) = i
    BY <2>1, <2>2
  <2> QED
    BY <2>1, <2>3 DEF RecallIn
<1>2. ASSUME NEW key, \A i \in DOMAIN s : s[i].key # key PROVE RecallIn(s, key) = Null
  <2>1. {i \in DOMAIN s : s[i].key = key} = {}
    BY <1>2
  <2> QED
    BY <2>1 DEF RecallIn
<1> QED
  BY <1>1, <1>2

\* What is recalled from cache t, into which an answer to key was put in front
\* of what remained of cache s.
LEMMA Fronted ==
  ASSUME NEW s, NEW t, NEW key, NEW a, Distinct(s), Distinct(t),
         1 \in DOMAIN t, t[1] = [key |-> key, answer |-> a],
         \A i \in DOMAIN t : i # 1 => \E j \in DOMAIN s : t[i] = s[j] /\ s[j].key # key
  PROVE  /\ RecallIn(t, key) = a
         /\ \A other : other # key => RecallIn(t, other) \in {RecallIn(s, other), Null}
         /\ (\A j \in DOMAIN s : s[j].key # key => \E i \in DOMAIN t : i # 1 /\ t[i] = s[j])
              => \A other : other # key => RecallIn(t, other) = RecallIn(s, other)
<1>1. RecallIn(t, key) = a
  <2>1. t[1].key = key /\ t[1].answer = a
    OBVIOUS
  <2> QED
    BY <2>1, Found
<1>2. ASSUME NEW other, other # key
      PROVE  \/ RecallIn(t, other) = RecallIn(s, other)
             \/ RecallIn(t, other) = Null /\ \A i \in DOMAIN t : t[i].key # other
  <2>1. CASE \E i \in DOMAIN t : t[i].key = other
    <3>1. PICK i \in DOMAIN t : t[i].key = other
      BY <2>1
    <3>2. i # 1
      BY <1>2, <3>1
    <3>3. PICK j \in DOMAIN s : t[i] = s[j]
      BY <3>2
    <3>4. RecallIn(t, t[i].key) = t[i].answer
      BY Found
    <3>5. RecallIn(s, s[j].key) = s[j].answer
      BY Found
    <3>6. RecallIn(t, other) = t[i].answer
      BY <3>1, <3>4
    <3>7. RecallIn(s, other) = s[j].answer
      BY <3>1, <3>3, <3>5
    <3>8. RecallIn(t, other) = RecallIn(s, other)
      BY <3>3, <3>6, <3>7
    <3> QED
      BY <3>8
  <2>2. CASE \A i \in DOMAIN t : t[i].key # other
    BY <2>2, Found
  <2> QED
    BY <2>1, <2>2
<1>3. ASSUME \A j \in DOMAIN s : s[j].key # key => \E i \in DOMAIN t : i # 1 /\ t[i] = s[j],
             NEW other, other # key
      PROVE  RecallIn(t, other) = RecallIn(s, other)
  <2>1. CASE \E j \in DOMAIN s : s[j].key = other
    BY <1>2, <1>3, <2>1
  <2>2. CASE \A j \in DOMAIN s : s[j].key # other
    <3>1. RecallIn(s, other) = Null
      BY <2>2, Found
    <3> QED
      BY <1>2, <1>3, <3>1
  <2> QED
    BY <2>1, <2>2
<1> QED
  BY <1>1, <1>2, <1>3

Asker(m) == [method |-> m, key |-> Key(m)]

\* A question of a method is what it is asked now.
LEMMA AskerIsQuestion ==
  ASSUME CallInv, NEW m \in Cached \ {"full"}, doing = m, Resolve(Passed) \in Configured
  PROVE  Asker(m) \in Questions /\ Resolve(Asker(m).key.chain) = Resolve(Passed)
<1>1. /\ Key(m).chain = Passed /\ Key(m) \in [chain : ChainArg, arg : Nat]
      /\ Key(m).arg \in IF m = "block" THEN Branches ELSE {1}
  BY KeyGood DEF CallInv, ProviderInv, Methods, Cached, Single, Part
<1>2. Passed \in Configured \cup {Null}
  BY DEF Resolve
<1>3. Key(m) \in Asked(m)
  BY <1>1, <1>2 DEF Asked
<1> QED
  BY <1>1, <1>3 DEF Asker, Questions

LEMMA RecalledIs ==
  /\ \A q : Recalled(q) = RecallIn(cache[q.method], q.key)
  /\ \A q : Recalled(q)' = RecallIn(cache'[q.method], q.key)
BY DEF Recalled, RecallIn, Places

\* The sources and the memory, told apart by what they depend on.
LEMMA SameSources ==
  ASSUME UNCHANGED world
  PROVE  [q \in Questions |-> Says(q)]' = [q \in Questions |-> Says(q)]
<1>1. heads' = heads /\ seen' = seen /\ kind' = kind /\ default' = default
  BY DEF world
<1>2. \A q : Says(q)' = Says(q)
  BY <1>1 DEF Says, AnswerOf, GetTransaction, GetReceipt, GetCalls, GetStatediff, GetBlock,
     GetCodeHash, GuessToken, View, Resolve
<1> QED
  BY <1>2

LEMMA SameMemory ==
  ASSUME UNCHANGED cache
  PROVE  [q \in Questions |-> Recalled(q)]' = [q \in Questions |-> Recalled(q)]
<1>1. \A q : Recalled(q)' = Recalled(q)
  BY RecalledIs
<1> QED
  BY <1>1

LEMMA SameReply == ASSUME UNCHANGED returned PROVE Replied' = Replied
BY DEF Replied

\* The reply a method of its own gives, and the silence of the others.
LEMMA ReplyIs ==
  ASSUME NEW m, NEW a, Return(m, a), NEW answer \in Answer, a = answer,
         Key(m) \in [chain : ChainArg, arg : Nat], m \in Methods
  PROVE  Replied' = IF m \in Cached \ {"full"} THEN [question |-> Asker(m), answer |-> a] ELSE Null
<1>1. returned' = [method |-> m, key |-> Key(m), answer |-> a]
  BY DEF Return
<1>2. returned' # Null
  BY <1>1, NullAssumption DEF Methods
<1>3. returned'.method = m /\ returned'.key = Key(m) /\ returned'.answer = a
  BY <1>1
<1> QED
  BY <1>2, <1>3 DEF Replied, Asker

\* What is remembered after a method's answer, for every question.
LEMMA AfterUse ==
  ASSUME CallInv, CallInv', NEW m \in Cached, NEW a \in Answer,
         Key(m) \in [chain : ChainArg, arg : Nat], Use(m, a)
  PROVE  /\ RecallIn(cache'[m], Key(m)) = a
         /\ \A key : key # Key(m) =>
              RecallIn(cache'[m], key) \in {RecallIn(cache[m], key), Null}
         /\ Hits(m) # {} => \A key : key # Key(m) =>
              RecallIn(cache'[m], key) = RecallIn(cache[m], key)
         /\ \A n \in Cached \ {m} : cache'[n] = cache[n]
<1>1. TypeOK /\ Distinct(cache[m])
  BY DEF CallInv, ProviderInv, CachesGood, Distinct
<1>2. /\ \A n \in Cached \ {m} : cache'[n] = cache[n]
      /\ Distinct(cache'[m])
      /\ 1 \in DOMAIN cache'[m] /\ cache'[m][1] = [key |-> Key(m), answer |-> a]
      /\ \A i \in DOMAIN cache'[m] : i # 1 => \E j \in DOMAIN cache[m] :
           cache'[m][i] = cache[m][j] /\ cache[m][j].key # Key(m)
      /\ Hits(m) # {} => \A j \in DOMAIN cache[m] : cache[m][j].key # Key(m) =>
           \E i \in DOMAIN cache'[m] : i # 1 /\ cache'[m][i] = cache[m][j]
  BY <1>1, UseLemma
<1>3. PICK s : s = cache[m]
  OBVIOUS
<1>4. PICK t : t = cache'[m]
  OBVIOUS
<1>5. PICK key : key = Key(m)
  OBVIOUS
<1>6. /\ Distinct(s) /\ Distinct(t) /\ 1 \in DOMAIN t /\ t[1] = [key |-> key, answer |-> a]
      /\ \A i \in DOMAIN t : i # 1 => \E j \in DOMAIN s : t[i] = s[j] /\ s[j].key # key
      /\ Hits(m) # {} => \A j \in DOMAIN s : s[j].key # key =>
           \E i \in DOMAIN t : i # 1 /\ t[i] = s[j]
  BY <1>1, <1>2, <1>3, <1>4, <1>5
<1>7. /\ RecallIn(t, key) = a
      /\ \A other : other # key => RecallIn(t, other) \in {RecallIn(s, other), Null}
      /\ Hits(m) # {} => \A other : other # key => RecallIn(t, other) = RecallIn(s, other)
  BY <1>6, Fronted
<1> QED
  BY <1>2, <1>3, <1>4, <1>5, <1>7

\* The other memories when the method of a question is answered.
LEMMA OtherMemories ==
  ASSUME CallInv, CallInv', NEW m \in Cached, NEW a \in Answer,
         Key(m) \in [chain : ChainArg, arg : Nat], Use(m, a)
  PROVE  /\ \A q \in Questions : q # Asker(m) => Recalled(q)' \in {Recalled(q), Null}
         /\ Hits(m) # {} => \A q \in Questions : q # Asker(m) => Recalled(q)' = Recalled(q)
         /\ \A q \in Questions : q = Asker(m) => Recalled(q)' = a
         /\ m = "full" => \A q \in Questions : Recalled(q)' = Recalled(q)
<1>1. \A q \in Questions : q.method \in Cached \ {"full"} /\ q = [method |-> q.method, key |-> q.key]
  BY DEF Questions
<1>2. /\ RecallIn(cache'[m], Key(m)) = a
      /\ \A key : key # Key(m) =>
           RecallIn(cache'[m], key) \in {RecallIn(cache[m], key), Null}
      /\ Hits(m) # {} => \A key : key # Key(m) =>
           RecallIn(cache'[m], key) = RecallIn(cache[m], key)
      /\ \A n \in Cached \ {m} : cache'[n] = cache[n]
  BY AfterUse
<1>3. ASSUME NEW q \in Questions, q # Asker(m)
      PROVE  /\ Recalled(q)' \in {Recalled(q), Null}
             /\ Hits(m) # {} => Recalled(q)' = Recalled(q)
  <2>1. q.method # m \/ q.key # Key(m)
    BY <1>1, <1>3 DEF Asker
  <2>2. Recalled(q) = RecallIn(cache[q.method], q.key) /\ Recalled(q)' = RecallIn(cache'[q.method], q.key)
    BY RecalledIs
  <2> QED
    BY <1>1, <1>2, <2>1, <2>2
<1>4. ASSUME NEW q \in Questions, q = Asker(m) PROVE Recalled(q)' = a
  <2>1. q.method = m /\ q.key = Key(m)
    BY <1>4 DEF Asker
  <2> QED
    BY <1>2, <2>1, RecalledIs
<1>5. ASSUME m = "full", NEW q \in Questions PROVE Recalled(q)' = Recalled(q)
  BY <1>1, <1>2, <1>5, RecalledIs
<1> QED
  BY <1>3, <1>4, <1>5

memories == [q \in Questions |-> Recalled(q)]
sources  == [q \in Questions |-> Says(q)]

\* A remembered answer is found: the question is recalled.
LEMMA HitReads ==
  ASSUME CallInv, CallInv', NEW m \in Cached, Hit(m)
  PROVE  Reads!Silence \/ \E q \in Questions : Reads!Recall(q)
<1>1. PICK i \in Hits(m) : Use(m, cache[m][i].answer) /\ Return(m, cache[m][i].answer)
  BY DEF Hit
<1>2. m \in Methods /\ doing = m /\ i \in DOMAIN cache[m] /\ cache[m][i].key = Key(m)
  BY DEF Hit, Hits, Places, Methods, Cached, Single, Part
<1>3. UNCHANGED world
  BY DEF Hit
<1>4. EntryGood(m, cache[m][i]) /\ cache[m][i].answer \in Answer /\ cache[m][i] \in Entry
  <2>1. cache[m] \in Seq(Entry)
    BY DEF CallInv, ProviderInv, TypeOK, Entry
  <2>2. cache[m][i] \in Entry
    BY <1>2, <2>1, LenProperties, ElementOfSeq
  <2> QED
    BY <1>2, <2>2 DEF CallInv, ProviderInv, CachesGood, Entry
<1>5. PICK a \in Answer : a = cache[m][i].answer
  BY <1>4
<1>6. Use(m, a) /\ Return(m, a) /\ Key(m) \in [chain : ChainArg, arg : Nat]
  BY <1>1, <1>2, <1>4, <1>5 DEF Entry
<1>7. Resolve(Passed) \in Configured
  BY <1>2, <1>4 DEF EntryGood, Key
<1>8. Replied' = IF m \in Cached \ {"full"} THEN [question |-> Asker(m), answer |-> a] ELSE Null
  BY <1>2, <1>5, <1>6, ReplyIs
<1>9. sources' = sources
  BY <1>3, SameSources DEF sources
<1>10. CASE m = "full"
  <2>1. \A q \in Questions : Recalled(q)' = Recalled(q)
    BY <1>6, <1>10, OtherMemories
  <2>2. memories' = memories
    BY <2>1 DEF memories
  <2> QED
    BY <1>8, <1>9, <1>10, <2>2 DEF Reads!Silence, memories, sources
<1>11. CASE m # "full"
  <2>1. PICK q \in Questions : q = Asker(m)
    BY <1>2, <1>7, <1>11, AskerIsQuestion
  <2>2. Recalled(q) = a
    <3>1. Distinct(cache[m]) /\ q.method = m /\ q.key = cache[m][i].key
      BY <1>2, <2>1 DEF CallInv, ProviderInv, CachesGood, Distinct, Asker
    <3>2. RecallIn(cache[m], cache[m][i].key) = cache[m][i].answer
      <4>1. PICK s : s = cache[m]
        OBVIOUS
      <4>2. Distinct(s) /\ i \in DOMAIN s
        BY <1>2, <3>1, <4>1
      <4>3. RecallIn(s, s[i].key) = s[i].answer
        BY <4>2, Found
      <4> QED
        BY <4>1, <4>3
    <3> QED
      BY <1>5, <3>1, <3>2, RecalledIs
  <2>3. \A r \in Questions : Recalled(r)' = Recalled(r)
    BY <1>1, <1>6, <2>1, <2>2, OtherMemories
  <2>4. memories' = memories /\ memories[q] = a
    BY <2>1, <2>2, <2>3 DEF memories
  <2>5. a # Null
    BY NullAssumption
  <2>6. Replied' = [question |-> q, answer |-> memories[q]]
    BY <1>8, <1>11, <2>1, <2>4
  <2>7. Reads!Recall(q)
    BY <1>9, <2>4, <2>5, <2>6 DEF Reads!Recall, memories, sources
  <2> QED
    BY <2>7
<1> QED
  BY <1>10, <1>11

\* What is assembled is no answer of a node.
LEMMA AssembleReads == ASSUME CallInv, CallInv', Assemble PROVE Reads!Silence
<1>1. PICK a \in Answer : a = Assembled(parts)
  BY AssembledGood DEF CallInv, ProviderInv, Assemble, AnswerGood
<1>2. Use("full", a) /\ Return("full", a) /\ UNCHANGED world /\ doing = "assemble"
  BY <1>1 DEF Assemble
<1>3. Resolve(Passed) \in Configured
  BY <1>2, AssembledGood DEF CallInv, ProviderInv, AnswerGood
<1>4. Key("full") \in [chain : ChainArg, arg : Nat]
  BY <1>2, <1>3, KeyGood DEF CallInv, ProviderInv, Methods
<1>5. Replied' = Null
  BY <1>1, <1>2, <1>4, ReplyIs DEF Methods
<1>6. \A q \in Questions : Recalled(q)' = Recalled(q)
  BY <1>2, <1>4, OtherMemories DEF Cached
<1>7. memories' = memories
  BY <1>6 DEF memories
<1> QED
  BY <1>2, <1>5, <1>7, SameSources DEF Reads!Silence, memories

\* A node answers: the question is learnt, or its answer is not remembered.
LEMMA AnsweredReads ==
  ASSUME CallInv, CallInv', NEW m \in Single, doing = m, node # Null,
         NEW a \in Answer, Answered(m, a),
         \/ a = AnswerOf(m, node, Resolve(Passed))
         \/ kind[node] = "flaky" /\ m = "token" /\ a = NotAToken
  PROVE  Reads!Silence \/ \E q \in Questions : Reads!Learn(q)
<1>1. Return(m, a) /\ UNCHANGED world /\ m \in Methods /\ m # "full"
  BY DEF Answered, Methods, Single, Part
<1>2. /\ Resolve(Passed) \in Configured /\ Hits(m) = {}
      /\ node \in ToSet(Nodes[Resolve(Passed)])
  BY Attached
<1>3. Key(m) \in [chain : ChainArg, arg : Nat]
  BY <1>1, <1>2, KeyGood DEF CallInv, ProviderInv
<1>4. Replied' = IF m \in Cached THEN [question |-> Asker(m), answer |-> a] ELSE Null
  BY <1>1, <1>3, ReplyIs
<1>5. sources' = sources
  BY <1>1, SameSources DEF sources
<1>6. CASE m \notin Cached
  <2>1. cache' = cache
    BY <1>6 DEF Answered
  <2> QED
    BY <1>4, <1>5, <1>6, <2>1, SameMemory DEF Reads!Silence, sources
<1>7. CASE m \in Cached
  <2>1. Use(m, a)
    BY <1>7 DEF Answered
  <2>2. PICK q \in Questions : q = Asker(m) /\ Resolve(q.key.chain) = Resolve(Passed)
    BY <1>1, <1>2, <1>7, AskerIsQuestion
  <2>3. /\ Recalled(q)' = a
        /\ \A r \in Questions \ {q} : Recalled(r)' \in {Recalled(r), Null}
    BY <1>3, <1>7, <2>1, <2>2, OtherMemories
  <2>4. Recalled(q) = Null
    <3>1. q.method = m /\ q.key = Key(m)
      BY <2>2 DEF Asker
    <3>2. Places(m, Key(m)) = {}
      BY <1>2, <1>7 DEF Hits
    <3> QED
      BY <3>1, <3>2 DEF Recalled
  <2>5. a \in Says(q)
    <3>1. q.method = m
      BY <2>2 DEF Asker
    <3> QED
      BY <1>2, <2>2, <3>1 DEF Says
  <2>6. /\ memories[q] = Null /\ memories'[q] = a /\ DOMAIN memories' = Questions
        /\ \A r \in Questions \ {q} : memories'[r] \in {memories[r], Null}
    BY <2>2, <2>3, <2>4 DEF memories
  <2>7. a \in sources[q]
    BY <2>2, <2>5 DEF sources
  <2>8. Replied' = [question |-> q, answer |-> a]
    BY <1>4, <1>7, <2>2
  <2>9. Reads!Learn(q)
    BY <1>5, <2>6, <2>7, <2>8 DEF Reads!Learn, memories, sources
  <2> QED
    BY <2>9
<1> QED
  BY <1>6, <1>7

\* Nothing is said and nothing heard.
LEMMA Unheard ==
  ASSUME UNCHANGED <<world, cache, returned>>
  PROVE  UNCHANGED Reads!readVars
BY SameSources, SameMemory, SameReply DEF Reads!readVars

LEMMA RequestReads ==
  ASSUME CallInv, CallInv', NEW m \in Single, Request(m)
  PROVE  [Reads!ReadNext]_Reads!readVars
<1>1. doing = m /\ node # Null
  BY DEF Request
<1>2. /\ AnswerOf(m, node, Resolve(Passed)) \in Answer
      /\ NotAToken \in Answer
  BY <1>1, Attached, NodeAnswers DEF CallInv, ProviderInv, AnswerGood, NotAToken, Answer
<1>3. CASE Answered(m, AnswerOf(m, node, Resolve(Passed)))
  BY <1>1, <1>2, <1>3, AnsweredReads DEF Reads!ReadNext
<1>4. CASE kind[node] = "flaky" /\ m = "token" /\ Answered(m, NotAToken)
  BY <1>1, <1>2, <1>4, AnsweredReads DEF Reads!ReadNext
<1>5. CASE Raise("request")
  <2>1. UNCHANGED <<world, cache, returned>>
    BY <1>5 DEF Raise, provider
  <2> QED
    BY <2>1, Unheard
<1> QED
  BY <1>3, <1>4, <1>5 DEF Request

LEMMA NextReads ==
  ASSUME CallInv, CallInv', [Next]_vars
  PROVE  [Reads!ReadNext]_Reads!readVars
<1>1. CASE UNCHANGED vars
  BY <1>1, Unheard DEF vars, provider, history
<1>2. CASE \E n \in Node : Learn(n)
  <2>1. UNCHANGED cache /\ UNCHANGED returned
    BY <1>2 DEF Learn, provider, history
  <2>2. DOMAIN sources' = Questions
    BY DEF sources
  <2>3. Reads!SourceChanges
    BY <2>1, <2>2, SameMemory, SameReply DEF Reads!SourceChanges, sources
  <2> QED
    BY <2>3 DEF Reads!ReadNext
<1>3. CASE \E op \in Jobs, c \in ChainArg : Call(op, c)
  <2>1. UNCHANGED world /\ UNCHANGED cache /\ returned' = Null
    BY <1>3 DEF Call, provider
  <2>2. Replied' = Null
    BY <2>1 DEF Replied
  <2>3. Reads!Silence
    BY <2>1, <2>2, SameSources, SameMemory DEF Reads!Silence
  <2> QED
    BY <2>3 DEF Reads!ReadNext
<1>4. CASE \E m \in Cached : Hit(m)
  BY <1>4, HitReads DEF Reads!ReadNext
<1>5. CASE Assemble
  BY <1>5, AssembleReads DEF Reads!ReadNext
<1>6. CASE \E m \in Single : Request(m)
  BY <1>6, RequestReads
<1>7. CASE EnterFull \/ OpenPool \/ Connect \/ EndDecode
  <2>1. UNCHANGED <<world, cache, returned>>
    BY <1>7 DEF EnterFull, OpenPool, Connect, TryNode, Connected, NextNode, EndDecode, Raise,
       provider, history
  <2> QED
    BY <2>1, Unheard
<1> QED
  BY <1>1, <1>2, <1>3, <1>4, <1>5, <1>6, <1>7 DEF Next, Step

LEMMA InitReads == Init => Reads!ReadInit
<1> SUFFICES ASSUME Init PROVE Reads!ReadInit
  OBVIOUS
<1>1. \A q \in Questions : Recalled(q) = Null
  <2> SUFFICES ASSUME NEW q \in Questions PROVE Recalled(q) = Null
    OBVIOUS
  <2>1. q.method \in Cached
    BY DEF Questions
  <2>2. cache[q.method] = <<>>
    BY <2>1 DEF Init
  <2> QED
    BY <2>2 DEF Recalled, Places
<1>2. Replied = Null
  BY DEF Init, Replied
<1> QED
  BY <1>1, <1>2 DEF Reads!ReadInit

\* Each method of the provider answers with what a node of its chain says at
\* that moment, or with what was remembered for the same arguments; nothing
\* else is remembered, and nothing is replaced while it is remembered.
THEOREM ProviderAnswersHonest == Spec => AnswersHonest
<1>1. CallInv /\ CallInv' /\ [Next]_vars => [Reads!ReadNext]_Reads!readVars
  BY NextReads
<1> QED
  BY <1>1, InitReads, CallInvariant, PTL DEF Spec, AnswersHonest, Reads!ReadSpec
=============================================================================
