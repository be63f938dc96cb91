------------------------- MODULE StorageDiff_proofs -------------------------
(***************************************************************************)
(* Proofs about the storage diff: the recorded hashes are true, a cell is  *)
(* shown raw exactly when it cannot be resolved, what is shown of one that *)
(* can be is what it holds, and nothing that has changed is left out.      *)
(***************************************************************************)
EXTENDS StorageDiff, TLAPS, SequenceTheorems, WellFoundedInduction

-----------------------------------------------------------------------------
(***************************************************************************)
(* Induction by least counterexamples.                                     *)
(***************************************************************************)
LEMMA LeastNumber ==
  ASSUME NEW T, T \subseteq Nat, T # {}
  PROVE  \E x \in T : \A y \in T : x <= y
<1> DEFINE R == {ss \in Nat \X Nat : ss[1] < ss[2]}
<1>1. R = OpToRel(<, Nat)
  BY Zenon DEF OpToRel
<1>2. IsWellFoundedOn(R, Nat)
  BY <1>1, NatLessThanWellFounded, Zenon
<1>3. \A x, y \in Nat : y < x => <<y, x>> \in R
  OBVIOUS
<1> HIDE DEF R
<1>4. PICK x \in T : \A y \in T : ~(<<y, x>> \in R)
  BY <1>2, WFMin
<1>5. \A y \in T : x <= y
  <2> SUFFICES ASSUME NEW y \in T PROVE x <= y
    OBVIOUS
  <2>1. x \in Nat /\ y \in Nat /\ ~ (y < x)
    BY <1>3, <1>4
  <2> QED
    BY <2>1
<1> QED
  BY <1>5, Zenon

-----------------------------------------------------------------------------
(***************************************************************************)
(* Functions that are recursive.  There is one when the value at a point   *)
(* depends on the points of a lower rank only.                             *)
(***************************************************************************)
Lower(D, rank, f, g, c) == \A k \in D : rank[k] < rank[c] => f[k] = g[k]

\* A step from the values so far to the value at a point.
StepOver(D, V, rank, step) ==
  /\ step \in [D \X [D -> V] -> V]
  /\ \A c \in D : \A f, g \in [D -> V] : Lower(D, rank, f, g, c) => step[<<c, f>>] = step[<<c, g>>]

DoneTo(D, V, rank, step, n) ==
  \E f \in [D -> V] : \A c \in D : rank[c] < n => f[c] = step[<<c, f>>]

LEMMA OneRankMore ==
  ASSUME NEW D, NEW V, NEW rank \in [D -> Nat], NEW step, StepOver(D, V, rank, step),
         NEW n \in Nat, DoneTo(D, V, rank, step, n)
  PROVE  DoneTo(D, V, rank, step, n + 1)
<1>1. PICK f \in [D -> V] : \A c \in D : rank[c] < n => f[c] = step[<<c, f>>]
  BY DEF DoneTo
<1> DEFINE g == [c \in D |-> IF rank[c] < n THEN f[c] ELSE step[<<c, f>>]]
<1>2. \A c \in D : g[c] = IF rank[c] < n THEN f[c] ELSE step[<<c, f>>]
  OBVIOUS
<1>3. g \in [D -> V]
  BY DEF StepOver
<1> HIDE DEF g
<1>4. \A c \in D : rank[c] < n + 1 => Lower(D, rank, f, g, c)
  <2> SUFFICES ASSUME NEW c \in D, rank[c] < n + 1, NEW k \in D, rank[k] < rank[c] PROVE f[k] = g[k]
    BY DEF Lower
  <2>1. rank[c] \in Nat /\ rank[k] \in Nat
    OBVIOUS
  <2>2. rank[k] < n
    BY <2>1
  <2> QED
    BY <1>2, <2>2
<1>5. \A c \in D : rank[c] < n + 1 => step[<<c, f>>] = step[<<c, g>>]
  BY <1>3, <1>4 DEF StepOver
<1>6. \A c \in D : rank[c] < n + 1 => g[c] = step[<<c, g>>]
  BY <1>1, <1>2, <1>5
<1> QED
  BY <1>3, <1>6 DEF DoneTo

LEMMA AllRanks ==
  ASSUME NEW D, NEW V, V # {}, NEW rank \in [D -> Nat], NEW step, StepOver(D, V, rank, step), NEW n \in Nat
  PROVE  DoneTo(D, V, rank, step, n)
<1> DEFINE T == {k \in Nat : ~DoneTo(D, V, rank, step, k)}
<1> SUFFICES ASSUME T # {} PROVE FALSE
  OBVIOUS
<1>1. PICK k \in T : \A j \in T : k <= j
  BY LeastNumber
<1>2. k # 0
  <2> SUFFICES DoneTo(D, V, rank, step, 0)
    BY <1>1
  <2>1. PICK v \in V : TRUE
    OBVIOUS
  <2>2. [c \in D |-> v] \in [D -> V] /\ \A c \in D : ~(rank[c] < 0)
    OBVIOUS
  <2> QED
    BY <2>2 DEF DoneTo
<1>3. k - 1 \in Nat /\ k - 1 \notin T /\ (k - 1) + 1 = k
  BY <1>1, <1>2
<1>4. DoneTo(D, V, rank, step, k - 1)
  BY <1>3
<1> QED
  BY <1>1, <1>3, <1>4, OneRankMore

RankedTo(D, rank, n) == n \in Nat /\ rank \in [D -> Nat] /\ \A c \in D : rank[c] < n

Recursive(D, V, step) == \E f \in [D -> V] : \A c \in D : f[c] = step[<<c, f>>]

LEMMA Recursion ==
  ASSUME NEW D, NEW V, V # {}, NEW rank, NEW n, RankedTo(D, rank, n), NEW step, StepOver(D, V, rank, step)
  PROVE  Recursive(D, V, step)
<1>1. DoneTo(D, V, rank, step, n)
  BY AllRanks DEF RankedTo
<1> QED
  BY <1>1 DEF DoneTo, RankedTo, Recursive

-----------------------------------------------------------------------------
(***************************************************************************)
(* Keys: the way from a slot to a cell.                                    *)
(***************************************************************************)
IsKey(c, key) ==
  /\ key \in Seq(ToSet(c)) /\ Len(key) \in 1 .. Len(c) /\ Len(key) % 2 = 1
  /\ \A i \in 1 .. Len(key) : key[i] = c[i]

LEMMA WayIs == ASSUME NEW c \in Cells PROVE \A key : key \in Way(c) <=> IsKey(c, key)
<1> DEFINE S == ToSet(c)
<1>1. c \in Seq(S) /\ Len(c) \in Nat /\ \A i \in 1 .. Len(c) : c[i] \in S
  BY CellsAssumption, LenProperties, ElementOfSeq
<1> HIDE DEF S
<1>2. ASSUME NEW n \in 1 .. Len(c)
      PROVE  /\ SubSeq(c, 1, n) \in Seq(S) /\ Len(SubSeq(c, 1, n)) = n
             /\ \A i \in 1 .. n : SubSeq(c, 1, n)[i] = c[i]
  <2>1. \A i \in 1 .. n : c[i] \in S
    BY <1>1
  <2>2. n \in Int /\ 1 \in Int /\ 1 <= n /\ n - 1 + 1 = n /\ \A i \in 1 .. n : 1 + i - 1 = i
    BY <1>1
  <2> QED
    BY <2>1, <2>2, SubSeqProperties
<1>3. ASSUME NEW key, key \in Way(c) PROVE IsKey(c, key)
  <2>1. PICK n \in 1 .. Len(c) : n % 2 = 1 /\ key = SubSeq(c, 1, n)
    BY <1>3 DEF Way
  <2> QED
    BY <1>2, <2>1 DEF IsKey, S
<1>4. ASSUME NEW key, IsKey(c, key) PROVE key \in Way(c)
  <2>1. PICK n : n = Len(key)
    OBVIOUS
  <2>2. n \in 1 .. Len(c) /\ n % 2 = 1
    BY <1>4, <2>1 DEF IsKey
  <2>3. key = SubSeq(c, 1, n)
    <3>1. PICK t : t = SubSeq(c, 1, n)
      OBVIOUS
    <3>2. t \in Seq(S) /\ key \in Seq(S) /\ Len(key) = Len(t) /\ \A i \in 1 .. Len(key) : key[i] = t[i]
      BY <1>2, <1>4, <2>1, <2>2, <3>1 DEF IsKey, S
    <3> QED
      BY <3>1, <3>2, SeqEqual
  <2> QED
    BY <2>2, <2>3 DEF Way
<1> QED
  BY <1>3, <1>4

LEMMA Odd == ASSUME NEW n \in Nat, n % 2 = 1, n > 1
             PROVE  n - 2 \in Nat /\ n - 2 >= 1 /\ (n - 2) % 2 = 1
  OBVIOUS

LEMMA KeyLength ==
  ASSUME NEW c \in Cells, NEW key \in Way(c)
  PROVE  Len(key) \in Nat /\ Len(key) >= 1 /\ (Len(key) # 1 => Len(key) > 1)
<1>1. PICK n : n = Len(key)
  OBVIOUS
<1>2. n \in 1 .. Len(c) /\ Len(c) \in Nat
  BY <1>1, WayIs, CellsAssumption, LenProperties DEF IsKey
<1>3. n \in Nat /\ n >= 1 /\ (n # 1 => n > 1)
  BY <1>2
<1> QED
  BY <1>1, <1>3

\* The key that a longer key is computed from is on the way too.
LEMMA InnerOf ==
  ASSUME NEW c \in Cells, NEW key \in Way(c), Len(key) > 1
  PROVE  /\ Inner(key) \in Way(c) /\ Len(Inner(key)) = Len(key) - 2 /\ Inner(key)[1] = key[1]
         /\ Plus(key) \in Nat /\ MapKey(key) \in ToSet(c)
<1>1. IsKey(c, key)
  BY WayIs
<1>2. PICK n : n = Len(key)
  OBVIOUS
<1>3. n \in Nat /\ n % 2 = 1 /\ n <= Len(c) /\ n > 1 /\ Len(c) \in Nat
  BY <1>1, <1>2, CellsAssumption, LenProperties DEF IsKey
<1>4. n - 2 \in Nat /\ n - 2 >= 1 /\ (n - 2) % 2 = 1
  BY <1>3, Odd
<1>5. \A i \in 1 .. n : key[i] \in ToSet(c) /\ key[i] = c[i]
  BY <1>1, <1>2, ElementOfSeq DEF IsKey
<1>6. /\ Inner(key) \in Seq(ToSet(c)) /\ Len(Inner(key)) = n - 2
      /\ \A i \in 1 .. n - 2 : Inner(key)[i] = key[i]
  <2>1. PICK m : m = n - 2
    OBVIOUS
  <2>2. /\ m \in Int /\ 1 \in Int /\ 1 <= m /\ m - 1 + 1 = m /\ \A i \in 1 .. m : 1 + i - 1 = i
    BY <1>4, <2>1
  <2>3. \A i \in 1 .. m : key[i] \in ToSet(c)
    BY <1>3, <1>5, <2>1
  <2>4. Inner(key) = SubSeq(key, 1, m)
    BY <1>2, <2>1 DEF Inner
  <2> QED
    BY <2>1, <2>2, <2>3, <2>4, SubSeqProperties
<1>7. IsKey(c, Inner(key))
  BY <1>3, <1>4, <1>5, <1>6 DEF IsKey
<1>8. key[n] \in Nat
  BY <1>3, <1>5, CellsAssumption, LenProperties
<1>9. n - 1 \in 1 .. n /\ 1 \in 1 .. n - 2
  BY <1>3, <1>4
<1> QED
  BY <1>2, <1>5, <1>6, <1>7, <1>8, <1>9, WayIs DEF Plus, MapKey

\* What is one word after a hash, or more, is not a hash.
LEMMA HashOfKey ==
  ASSUME NEW c \in Cells, NEW key \in Way(c), Len(key) > 1
  PROVE  /\ Plus(HashOf(key)) = 0 /\ HashOf(key) # Zero
         /\ Inner(HashOf(key)) = Inner(key) /\ MapKey(HashOf(key)) = MapKey(key)
         /\ Plus(key) = 0 <=> HashOf(key) = key
<1>1. IsKey(c, key)
  BY WayIs
<1>2. PICK n : n = Len(key)
  OBVIOUS
<1>3. n \in Nat /\ n > 1 /\ n % 2 = 1 /\ key \in Seq(ToSet(c))
  BY <1>1, <1>2, CellsAssumption, LenProperties DEF IsKey
<1>4. n - 2 \in Nat /\ n - 2 >= 1
  BY <1>3, Odd
<1>5. PICK h : h = HashOf(key)
  OBVIOUS
<1>6. key \in [1 .. n -> ToSet(c)]
  BY <1>2, <1>3, LenProperties
<1>7. h = [key EXCEPT ![n] = 0]
  BY <1>2, <1>5 DEF HashOf
<1>8. /\ h \in Seq(ToSet(c) \cup {0}) /\ Len(h) = n /\ h[n] = 0
      /\ \A i \in 1 .. n : i # n => h[i] = key[i]
  <2>1. h \in [1 .. n -> ToSet(c) \cup {0}]
    BY <1>6, <1>7
  <2>2. h \in Seq(ToSet(c) \cup {0})
    BY <1>3, <2>1, SeqDef
  <2>3. Len(h) = n
    BY <1>3, <2>1, <2>2, LenProperties
  <2> QED
    BY <1>3, <1>6, <1>7, <2>2, <2>3
<1>9. Inner(h) = Inner(key)
  <2>1. PICK m : m = n - 2
    OBVIOUS
  <2>2. /\ m \in Int /\ 1 \in Int /\ 1 <= m /\ m - 1 + 1 = m /\ \A i \in 1 .. m : 1 + i - 1 = i /\ i # n /\ i \in 1 .. n
    BY <1>3, <1>4, <2>1
  <2>3. \A i \in 1 .. m : key[i] \in ToSet(c) /\ h[i] = key[i]
    BY <1>6, <1>8, <2>2
  <2>4. PICK s, t : s = SubSeq(key, 1, m) /\ t = SubSeq(h, 1, m)
    OBVIOUS
  <2>5. s \in Seq(ToSet(c)) /\ Len(s) = m /\ \A i \in 1 .. m : s[i] = key[i]
    BY <2>2, <2>3, <2>4, SubSeqProperties
  <2>6. t \in Seq(ToSet(c)) /\ Len(t) = m /\ \A i \in 1 .. m : t[i] = key[i]
    <3>1. \A i \in 1 .. m : h[i] \in ToSet(c)
      BY <2>3
    <3>2. t \in Seq(ToSet(c)) /\ Len(t) = m /\ \A i \in 1 .. m : t[i] = h[i]
      BY <2>2, <2>4, <3>1, SubSeqProperties
    <3> QED
      BY <2>3, <3>2
  <2>7. s = t
    BY <2>5, <2>6, SeqEqual
  <2>8. Len(h) - 2 = m /\ Len(key) - 2 = m
    BY <1>2, <1>8, <2>1
  <2> QED
    BY <2>4, <2>7, <2>8 DEF Inner
<1>10. Plus(h) = 0 /\ MapKey(h) = MapKey(key)
  BY <1>2, <1>3, <1>8 DEF Plus, MapKey
<1>11. h # Zero
  BY <1>3, <1>8 DEF Zero
<1>12. Plus(key) = 0 <=> h = key
  BY <1>2, <1>3, <1>6, <1>7, <1>8 DEF Plus
<1> QED
  BY <1>5, <1>9, <1>10, <1>11, <1>12

-----------------------------------------------------------------------------
(***************************************************************************)
(* The recorded hashes.                                                    *)
(***************************************************************************)
LEMMA InitHashes == Init => HashInv
<1> SUFFICES ASSUME Init PROVE HashInv
  OBVIOUS
<1>1. DOMAIN shainfo = {} /\ faults = 0 /\ asked = None /\ afterSHA = FALSE
  BY DEF Init
<1>2. DOMAIN change \subseteq Cells
  <2>1. PICK cs \in [1..MaxChanges -> Cells] : change \in [ToSet(cs) -> Changes]
    BY DEF Init
  <2>2. ToSet(cs) \subseteq Cells
    BY DEF ToSet
  <2> QED
    BY <2>1, <2>2
<1> QED
  BY <1>1, <1>2 DEF HashInv, HashesTrue

LEMMA ItemHashes == ASSUME HashInv, TraceItem PROVE HashInv'
<1>1. PICK failed \in BOOLEAN, asks \in {None} \cup (Needed \ DOMAIN shainfo) :
        /\ failed => asked # None /\ faults < MaxFaults
        /\ faults' = faults + (IF failed THEN 1 ELSE 0)
        /\ asked' = asks
        /\ handleSHA(IF asked # None /\ ~failed THEN asked ELSE Zero, asks)
  BY DEF TraceItem
<1> DEFINE top == IF asked # None /\ ~failed THEN asked ELSE Zero
<1>2. faults' \in Nat /\ faults' >= faults /\ (failed => faults' > 0)
  BY <1>1 DEF HashInv
<1>3. afterSHA' = (asked' # None) /\ (asked' # None => lastKey' = asked' /\ Plus(asked') = 0)
  <2>1. asks # None => Plus(asks) = 0
    <3> SUFFICES ASSUME asks # None PROVE Plus(asks) = 0
      OBVIOUS
    <3>1. PICK c \in DOMAIN change : asks \in Hashes(c)
      BY <1>1 DEF Needed
    <3>2. PICK key \in Way(c) : Len(key) > 1 /\ asks = HashOf(key)
      BY <3>1 DEF Hashes
    <3>3. c \in Cells
      BY DEF HashInv
    <3> QED
      BY <3>2, <3>3, HashOfKey
  <2> QED
    BY <1>1, <2>1 DEF handleSHA
<1>4. top # None /\ Plus(top) = 0
  <2>1. Plus(Zero) = 0 /\ Zero # None
    BY LayoutAssumption DEF Plus, Zero
  <2> QED
    BY <2>1 DEF HashInv
<1>5. ASSUME NEW h \in DOMAIN shainfo' PROVE h # None /\ Plus(h) = 0
  BY <1>1, <1>4, <1>5 DEF handleSHA, HashInv
<1>6. ASSUME NEW h \in DOMAIN shainfo' PROVE shainfo'[h] = h \/ (h = Zero /\ faults' > 0)
  <2>1. h \in DOMAIN shainfo => shainfo[h] = h \/ (h = Zero /\ faults > 0)
    BY DEF HashInv, HashesTrue
  <2>2. CASE ~afterSHA
    BY <1>1, <1>2, <1>6, <2>1, <2>2 DEF handleSHA, HashInv
  <2>3. CASE afterSHA
    <3>1. shainfo' = [x \in {top} \cup DOMAIN shainfo |-> IF x = top THEN lastKey ELSE shainfo[x]]
      BY <1>1, <2>3 DEF handleSHA
    <3>2. lastKey = asked /\ asked # None
      BY <2>3 DEF HashInv
    <3>3. CASE h = top
      <4>1. shainfo'[h] = asked
        BY <3>1, <3>2, <3>3
      <4> QED
        BY <1>2, <3>2, <3>3, <4>1
    <3>4. CASE h # top
      BY <1>2, <1>6, <2>1, <3>1, <3>4 DEF HashInv
    <3> QED
      BY <3>3, <3>4
  <2> QED
    BY <2>2, <2>3
<1>7. UNCHANGED change
  BY DEF TraceItem, world
<1> QED
  BY <1>2, <1>3, <1>5, <1>6, <1>7 DEF HashInv, HashesTrue

LEMMA NextHashes == HashInv /\ [Next]_vars => HashInv'
<1> SUFFICES ASSUME HashInv, [Next]_vars PROVE HashInv'
  OBVIOUS
<1>1. CASE TraceItem
  BY <1>1, ItemHashes
<1>2. CASE UNCHANGED <<world, trace>>
  BY <1>2 DEF world, trace, HashInv, HashesTrue
<1>3. EndTrace \/ ParseReplay \/ EndDiff \/ (\E c \in Cells : DecodeEntry(c)) \/ UNCHANGED vars
        => UNCHANGED <<world, trace>>
  BY DEF EndTrace, ParseReplay, EndDiff, DecodeEntry, vars, trace
<1> QED
  BY <1>1, <1>2, <1>3 DEF Next

THEOREM HashInvariant == Spec => []HashInv
  BY InitHashes, NextHashes, PTL DEF Spec

\* TraceConvertor.handleSHA: every recorded hash is recorded with what was
\* hashed, but for the entry of zero, which a failed SHA3 leaves.
THEOREM HashesAreTrue == Spec => []HashesTrue
<1>1. HashInv => HashesTrue
  BY DEF HashInv
<1> QED
  BY <1>1, HashInvariant, PTL

-----------------------------------------------------------------------------
(***************************************************************************)
(* The way to a key is the way to the key it is computed from, and itself. *)
(***************************************************************************)
LEMMA SameLength ==
  ASSUME NEW c \in Cells, NEW j \in Way(c), NEW k \in Way(c), Len(j) = Len(k)
  PROVE  j = k
<1>1. IsKey(c, j) /\ IsKey(c, k)
  BY WayIs
<1>2. j \in Seq(ToSet(c)) /\ k \in Seq(ToSet(c)) /\ \A i \in 1 .. Len(j) : j[i] = k[i]
  BY <1>1 DEF IsKey
<1> QED
  BY <1>2, SeqEqual

LEMMA WayTo ==
  ASSUME NEW c \in Cells, NEW key \in Way(c)
  PROVE  \A k : k \in Way(key) <=> k \in Way(c) /\ Len(k) <= Len(key)
<1>1. IsKey(c, key) /\ Len(c) \in Nat /\ Len(key) \in Nat
  BY WayIs, CellsAssumption, LenProperties DEF IsKey
<1>2. ASSUME NEW n \in 1 .. Len(key), n % 2 = 1
      PROVE  SubSeq(key, 1, n) \in Way(c) /\ Len(SubSeq(key, 1, n)) = n
  <2>1. \A i \in 1 .. n : key[i] \in ToSet(c) /\ key[i] = c[i]
    BY <1>1, ElementOfSeq DEF IsKey
  <2>2. n \in Int /\ 1 \in Int /\ 1 <= n /\ n - 1 + 1 = n /\ \A i \in 1 .. n : 1 + i - 1 = i
    BY <1>1
  <2>3. /\ SubSeq(key, 1, n) \in Seq(ToSet(c)) /\ Len(SubSeq(key, 1, n)) = n
        /\ \A i \in 1 .. n : SubSeq(key, 1, n)[i] = key[i]
    BY <2>1, <2>2, SubSeqProperties
  <2>4. n \in 1 .. Len(c)
    BY <1>1 DEF IsKey
  <2>5. IsKey(c, SubSeq(key, 1, n))
    BY <1>2, <2>1, <2>3, <2>4 DEF IsKey
  <2> QED
    BY <2>3, <2>5, WayIs
<1>3. ASSUME NEW k, k \in Way(key) PROVE k \in Way(c) /\ Len(k) <= Len(key)
  <2>1. PICK n \in 1 .. Len(key) : n % 2 = 1 /\ k = SubSeq(key, 1, n)
    BY <1>3 DEF Way
  <2> QED
    BY <1>1, <1>2, <2>1
<1>4. ASSUME NEW k, k \in Way(c), Len(k) <= Len(key) PROVE k \in Way(key)
  <2>1. PICK n : n = Len(k)
    OBVIOUS
  <2>2. n \in 1 .. Len(key) /\ n % 2 = 1
    BY <1>1, <1>4, <2>1, WayIs DEF IsKey
  <2>3. k = SubSeq(key, 1, n)
    BY <1>2, <1>4, <2>1, <2>2, SameLength
  <2> QED
    BY <2>2, <2>3 DEF Way
<1> QED
  BY <1>3, <1>4

\* Every hash the key needs was recorded, and decodeDiff looks for it.
Recorded(key) == /\ HashOf(key) \in DOMAIN shainfo /\ Plus(key) < 20
                 /\ Plus(key) # 0 => HashOf(key) \notin ShortHashes

LEMMA TwoOdd == ASSUME NEW m \in Nat, NEW n \in Nat, m % 2 = 1, n % 2 = 1, m <= n, m # n PROVE m <= n - 2
  OBVIOUS

LEMMA ResolvableIs ==
  ASSUME NEW c \in Cells, NEW key \in Way(c)
  PROVE  Resolvable(key) <=> IF Len(key) = 1 THEN \E v \in Variables : v.slot = key[1]
                             ELSE Recorded(key) /\ Resolvable(Inner(key))
<1>1. IsKey(c, key) /\ Len(key) \in Nat /\ Len(key) >= 1
  BY WayIs, CellsAssumption, LenProperties DEF IsKey
<1>2. CASE Len(key) = 1
  <2>1. \A k \in Way(key) : ~(Len(k) > 1)
    <3> SUFFICES ASSUME NEW k \in Way(key) PROVE ~(Len(k) > 1)
      OBVIOUS
    <3>1. k \in Way(c) /\ Len(k) <= 1
      BY <1>2, WayTo
    <3>2. Len(k) \in Nat
      BY <3>1, WayIs, LenProperties DEF IsKey
    <3> QED
      BY <3>1, <3>2
  <2> QED
    BY <1>2, <2>1 DEF Resolvable
<1>3. CASE Len(key) # 1
  <2>1. Len(key) > 1
    BY <1>3, KeyLength
  <2>2. /\ Inner(key) \in Way(c) /\ Len(Inner(key)) = Len(key) - 2 /\ Inner(key)[1] = key[1]
    BY <2>1, InnerOf
  <2>3. \A k : k \in Way(key) <=> k = key \/ k \in Way(Inner(key))
    <3> SUFFICES ASSUME NEW k PROVE k \in Way(key) <=> k = key \/ k \in Way(Inner(key))
      OBVIOUS
    <3>1. k \in Way(key) <=> k \in Way(c) /\ Len(k) <= Len(key)
      BY WayTo
    <3>2. k \in Way(Inner(key)) <=> k \in Way(c) /\ Len(k) <= Len(key) - 2
      BY <2>2, WayTo
    <3>3. ASSUME k \in Way(c), Len(k) <= Len(key), Len(k) # Len(key) PROVE Len(k) <= Len(key) - 2
      <4>1. Len(k) \in Nat /\ Len(k) % 2 = 1 /\ Len(key) % 2 = 1
        BY <1>1, <3>3, WayIs, LenProperties DEF IsKey
      <4> QED
        BY <1>1, <3>3, <4>1, TwoOdd
    <3>4. k \in Way(c) => Len(k) \in Nat
      BY WayIs, LenProperties DEF IsKey
    <3>5. k \in Way(c) /\ Len(k) = Len(key) => k = key
      BY SameLength
    <3> QED
      BY <1>1, <3>1, <3>2, <3>3, <3>4, <3>5
  <2> DEFINE P(k) == Len(k) > 1 => /\ HashOf(k) \in DOMAIN shainfo /\ Plus(k) < 20
                                   /\ Plus(k) # 0 => HashOf(k) \notin ShortHashes
  <2>4. P(key) <=> Recorded(key)
    BY <2>1 DEF Recorded
  <2>5. Resolvable(key) <=> (\E v \in Variables : v.slot = key[1]) /\ \A k \in Way(key) : P(k)
    BY DEF Resolvable
  <2>6. Resolvable(Inner(key)) <=> (\E v \in Variables : v.slot = key[1]) /\ \A k \in Way(Inner(key)) : P(k)
    BY <2>2 DEF Resolvable
  <2> HIDE DEF P
  <2> QED
    BY <1>3, <2>3, <2>4, <2>5, <2>6
<1> QED
  BY <1>2, <1>3

-----------------------------------------------------------------------------
(***************************************************************************)
(* What decodeDiff computes.                                               *)
(***************************************************************************)
Entry(k, p) == [key |-> k, plus |-> p]

\* decodeDiff of a key, when f has the results for shorter keys.
DecodeStep(key, f) ==
  IF Len(key) = 1 THEN IF \E v \in Variables : v.slot = key[1] THEN <<Entry(None, key[1])>> ELSE <<Unresolved>>
  ELSE IF Recorded(key) THEN Append(f[Inner(key)], Entry(MapKey(key), Plus(key))) ELSE <<Unresolved>>

\* The same as the code has it.
DecodeCode(key, f) ==
  IF Len(key) = 1 /\ key[1] \in DOMAIN load_storage THEN <<[key |-> None, plus |-> key[1]]>>
  ELSE IF key \in DOMAIN shainfo THEN
    Append(f[Inner(shainfo[key])], [key |-> MapKey(shainfo[key]), plus |-> 0])
  ELSE IF Before(key) # None THEN
    LET h == shainfo[Before(key)] IN
    Append(f[Inner(h)], [key |-> MapKey(h), plus |-> Plus(key)])
  ELSE <<Unresolved>>

LEMMA StepIs ==
  ASSUME HashInv, NEW c \in Cells, NEW key \in Way(c), NEW f
  PROVE  DecodeCode(key, f) = DecodeStep(key, f)
<1>1. IsKey(c, key) /\ Len(key) \in Nat /\ Len(key) >= 1
  BY WayIs, CellsAssumption, LenProperties DEF IsKey
<1>2. key[1] \in DOMAIN load_storage <=> \E v \in Variables : v.slot = key[1]
  BY DEF load_storage
<1>3. CASE Len(key) = 1
  <2>1. key \in DOMAIN shainfo => \E v \in Variables : v.slot = key[1]
    <3> SUFFICES ASSUME key \in DOMAIN shainfo PROVE \E v \in Variables : v.slot = key[1]
      OBVIOUS
    <3>1. key[1] = 0
      BY <1>3 DEF HashInv, Plus
    <3> QED
      BY <3>1, LayoutAssumption
  <2>2. Before(key) = None
    BY <1>3 DEF Before
  <2> QED
    BY <1>2, <1>3, <2>1, <2>2 DEF DecodeCode, DecodeStep, Entry
<1>4. CASE Len(key) # 1
  <2>1. Len(key) > 1
    BY <1>4, KeyLength
  <2>2. Plus(key) \in Nat
    BY <2>1, InnerOf
  <2>3. /\ Plus(HashOf(key)) = 0 /\ HashOf(key) # Zero
        /\ Inner(HashOf(key)) = Inner(key) /\ MapKey(HashOf(key)) = MapKey(key)
        /\ Plus(key) = 0 <=> HashOf(key) = key
    BY <2>1, HashOfKey
  <2>4. HashOf(key) \in DOMAIN shainfo => shainfo[HashOf(key)] = HashOf(key) /\ HashOf(key) # None
    BY <2>3 DEF HashInv, HashesTrue
  <2>5. CASE Plus(key) = 0
    <3>1. key \in DOMAIN shainfo <=> Recorded(key)
      BY <2>3, <2>5 DEF Recorded
    <3>2. Before(key) = None
      BY <2>5 DEF Before, Shifts
    <3> QED
      BY <1>4, <2>3, <2>4, <2>5, <3>1, <3>2 DEF DecodeCode, DecodeStep, Entry
  <2>6. CASE Plus(key) # 0
    <3>1. key \notin DOMAIN shainfo
      BY <2>6 DEF HashInv
    <3>2. Plus(key) \in Shifts <=> Plus(key) < 20
      BY <2>2, <2>6 DEF Shifts
    <3>3. Before(key) = IF Recorded(key) THEN HashOf(key) ELSE None
      BY <2>1, <2>6, <3>2 DEF Before, Recorded
    <3>4. Recorded(key) => HashOf(key) \in DOMAIN shainfo
      BY DEF Recorded
    <3> QED
      BY <1>4, <2>3, <2>4, <3>1, <3>3, <3>4 DEF DecodeCode, DecodeStep, Entry
  <2> QED
    BY <2>5, <2>6
<1> QED
  BY <1>3, <1>4

Entries(c) == [key : ToSet(c) \cup {None}, plus : Nat \cup {None}]

LEMMA StepType ==
  ASSUME NEW c \in Cells, NEW key \in Way(c), NEW f, Len(key) > 1 => f[Inner(key)] \in Seq(Entries(c))
  PROVE  DecodeStep(key, f) \in Seq(Entries(c))
<1>1. IsKey(c, key) /\ Len(key) \in Nat /\ Len(key) >= 1
  BY WayIs, CellsAssumption, LenProperties DEF IsKey
<1>2. \A e \in Entries(c) : <<e>> \in Seq(Entries(c))
  OBVIOUS
<1>3. Unresolved \in Entries(c)
  BY DEF Unresolved, Entries
<1>4. CASE Len(key) = 1
  <2>1. \A v \in Variables : v.slot = key[1] => Entry(None, key[1]) \in Entries(c)
    BY LayoutAssumption DEF LaidOut, Entry, Entries
  <2> QED
    BY <1>2, <1>3, <1>4, <2>1 DEF DecodeStep
<1>5. CASE Len(key) # 1
  <2>1. Entry(MapKey(key), Plus(key)) \in Entries(c)
    BY <1>5, KeyLength, InnerOf DEF Entry, Entries
  <2>2. Append(f[Inner(key)], Entry(MapKey(key), Plus(key))) \in Seq(Entries(c))
    <3>1. f[Inner(key)] \in Seq(Entries(c))
      BY <1>5, KeyLength
    <3> QED
      BY <2>1, <3>1, AppendProperties
  <2> QED
    BY <1>2, <1>3, <1>5, <2>2 DEF DecodeStep
<1> QED
  BY <1>4, <1>5

LEMMA DecodeExists ==
  ASSUME HashInv, NEW c \in Cells
  PROVE  \E f : f = [key \in Way(c) |-> DecodeStep(key, f)]
<1> DEFINE D    == Way(c)
           V    == Seq(Entries(c))
           rank == [key \in D |-> Len(key)]
           step == [p \in D \X [D -> V] |-> DecodeStep(p[1], p[2])]
<1>1. Len(c) \in Nat
  BY CellsAssumption, LenProperties
<1>2. \A key \in D : rank[key] \in Nat /\ rank[key] <= Len(c)
  BY <1>1, WayIs, LenProperties DEF IsKey
<1>3. \A key \in D : Len(key) > 1 => Inner(key) \in D /\ rank[Inner(key)] < rank[key]
  <2> SUFFICES ASSUME NEW key \in D, Len(key) > 1 PROVE Inner(key) \in D /\ rank[Inner(key)] < rank[key]
    OBVIOUS
  <2>1. Inner(key) \in D /\ Len(Inner(key)) = Len(key) - 2
    BY InnerOf
  <2> QED
    BY <1>2, <2>1
<1>4. \A key \in D, f \in [D -> V] : step[<<key, f>>] = DecodeStep(key, f)
  OBVIOUS
<1>5. \A key \in D, f \in [D -> V] : DecodeStep(key, f) \in V
  <2> SUFFICES ASSUME NEW key \in D, NEW f \in [D -> V] PROVE DecodeStep(key, f) \in V
    OBVIOUS
  <2>1. Len(key) > 1 => f[Inner(key)] \in V
    BY <1>3
  <2> QED
    BY <2>1, StepType
<1>6. step \in [D \X [D -> V] -> V]
  <2>1. \A p \in D \X [D -> V] : p[1] \in D /\ p[2] \in [D -> V]
    OBVIOUS
  <2> HIDE DEF D, V
  <2> QED
    BY <1>5, <2>1
<1>7. <<>> \in V
  OBVIOUS
<1>8. rank \in [D -> Nat]
  BY <1>2
<1> HIDE DEF step, V, rank
<1>9. StepOver(D, V, rank, step)
  <2>1. ASSUME NEW key \in D, NEW f \in [D -> V], NEW g \in [D -> V], Lower(D, rank, f, g, key)
        PROVE  step[<<key, f>>] = step[<<key, g>>]
    <3>1. Len(key) # 1 => Len(key) > 1
      BY KeyLength
    <3>2. Len(key) # 1 => f[Inner(key)] = g[Inner(key)]
      BY <1>3, <2>1, <3>1 DEF Lower
    <3>3. DecodeStep(key, f) = DecodeStep(key, g)
      BY <3>2 DEF DecodeStep
    <3> HIDE DEF D
    <3> QED
      BY <1>4, <3>3
  <2> QED
    BY <1>6, <2>1 DEF StepOver
<1>10. PICK f \in [D -> V] : \A key \in D : f[key] = step[<<key, f>>]
  <2> HIDE DEF D
  <2>1. PICK m : m = Len(c) + 1
    OBVIOUS
  <2>2. m \in Nat /\ \A key \in D : rank[key] < m
    BY <1>1, <1>2, <2>1
  <2>3. RankedTo(D, rank, m)
    BY <1>8, <2>2 DEF RankedTo
  <2>4. V # {}
    BY <1>7
  <2>5. Recursive(D, V, step)
    BY <1>9, <2>3, <2>4, Recursion
  <2> QED
    BY <2>5 DEF Recursive
<1>11. \A key \in D : f[key] = DecodeStep(key, f)
  BY <1>4, <1>10
<1>12. f = [key \in Way(c) |-> DecodeStep(key, f)]
  BY <1>10, <1>11
<1> QED
  BY <1>12

LEMMA DecodeIs ==
  ASSUME HashInv, NEW c \in Cells
  PROVE  \E g : decodeDiff(c) = g[c] /\ \A key \in Way(c) : g[key] = DecodeStep(key, g)
<1>1. PICK f : f = [key \in Way(c) |-> DecodeStep(key, f)]
  BY DecodeExists
<1>2. f = [key \in Way(c) |-> DecodeCode(key, f)]
  <2>1. \A key \in Way(c) : DecodeCode(key, f) = DecodeStep(key, f)
    BY StepIs
  <2> QED
    BY <1>1, <2>1
<1>3. PICK g : g = CHOOSE decode : decode = [key \in Way(c) |-> DecodeCode(key, decode)]
  OBVIOUS
<1>4. g = [key \in Way(c) |-> DecodeCode(key, g)]
  BY <1>2, <1>3
<1>5. \A key \in Way(c) : g[key] = DecodeStep(key, g)
  <2> SUFFICES ASSUME NEW key \in Way(c) PROVE g[key] = DecodeStep(key, g)
    OBVIOUS
  <2>1. g[key] = DecodeCode(key, g)
    BY <1>4
  <2> QED
    BY <2>1, StepIs
<1>6. decodeDiff(c) = g[c]
  BY <1>3 DEF decodeDiff, DecodeCode
<1> QED
  BY <1>5, <1>6

\* The first entry tells whether the cell was found.
LEMMA FirstEntry ==
  ASSUME HashInv, NEW c \in Cells
  PROVE  decodeDiff(c)[1] = Unresolved <=> ~Resolvable(c)
<1>1. PICK g : decodeDiff(c) = g[c] /\ \A key \in Way(c) : g[key] = DecodeStep(key, g)
  BY DecodeIs
<1> DEFINE Good(key) == /\ g[key] \in Seq(Entries(c)) /\ Len(g[key]) \in Nat /\ Len(g[key]) >= 1
                        /\ g[key][1] = Unresolved <=> ~Resolvable(key)
           T == {n \in Nat : \E key \in Way(c) : Len(key) = n /\ ~Good(key)}
<1>2. T = {}
  <2> SUFFICES ASSUME T # {} PROVE FALSE
    OBVIOUS
  <2>1. PICK n \in T : \A m \in T : n <= m
    BY LeastNumber
  <2>2. PICK key \in Way(c) : Len(key) = n /\ ~Good(key)
    BY <2>1
  <2>3. Len(key) \in Nat /\ Len(key) >= 1 /\ IsKey(c, key)
    BY <2>2, WayIs, LenProperties DEF IsKey
  <2>4. g[key] = DecodeStep(key, g)
    BY <1>1
  <2>5. Resolvable(key) <=> IF Len(key) = 1 THEN \E v \in Variables : v.slot = key[1]
                            ELSE Recorded(key) /\ Resolvable(Inner(key))
    BY ResolvableIs
  <2>6. Len(key) > 1 => Good(Inner(key))
    <3> SUFFICES ASSUME Len(key) > 1 PROVE Good(Inner(key))
      OBVIOUS
    <3>1. Inner(key) \in Way(c) /\ Len(Inner(key)) = Len(key) - 2
      BY InnerOf
    <3>2. Len(Inner(key)) \in Nat
      BY <3>1, WayIs, LenProperties DEF IsKey
    <3>3. Len(Inner(key)) \notin T
      BY <2>1, <2>2, <2>3, <3>1, <3>2
    <3> QED
      BY <3>1, <3>2, <3>3
  <2>7. g[key] \in Seq(Entries(c))
    BY <2>4, <2>6, StepType
  <2>8. \A e : Len(<<e>>) = 1 /\ <<e>>[1] = e
    OBVIOUS
  <2>9. CASE Len(key) = 1
    <3>1. \A v \in Variables : v.slot = key[1] => Entry(None, key[1]) # Unresolved
      BY LayoutAssumption DEF LaidOut, Entry, Unresolved
    <3> QED
      BY <2>2, <2>4, <2>5, <2>7, <2>8, <2>9, <3>1 DEF DecodeStep
  <2>10. CASE Len(key) # 1 /\ ~Recorded(key)
    BY <2>2, <2>4, <2>5, <2>7, <2>8, <2>10 DEF DecodeStep
  <2>11. CASE Len(key) # 1 /\ Recorded(key)
    <3>1. PICK s, e : s = g[Inner(key)] /\ e = Entry(MapKey(key), Plus(key))
      OBVIOUS
    <3>2. Good(Inner(key)) /\ Len(key) > 1
      BY <2>6, <2>11, KeyLength
    <3>3. s \in Seq(Entries(c)) /\ Len(s) \in Nat /\ Len(s) >= 1 /\ (s[1] = Unresolved <=> ~Resolvable(Inner(key)))
      BY <3>1, <3>2
    <3>4. e \in Entries(c)
      BY <3>1, <3>2, InnerOf DEF Entry, Entries
    <3>5. g[key] = Append(s, e)
      BY <2>4, <2>11, <3>1 DEF DecodeStep
    <3>6. Len(g[key]) = Len(s) + 1 /\ g[key][1] = s[1]
      BY <3>3, <3>4, <3>5, AppendProperties
    <3> QED
      BY <2>2, <2>5, <2>7, <2>11, <3>3, <3>6
  <2> QED
    BY <2>9, <2>10, <2>11
<1>3. c \in Way(c)
  <2>1. c \in Seq(ToSet(c)) /\ Len(c) % 2 = 1 /\ Len(c) \in Nat
    BY CellsAssumption, LenProperties
  <2>2. Len(c) >= 1
    BY <2>1
  <2>3. IsKey(c, c)
    BY <2>1, <2>2 DEF IsKey
  <2> QED
    BY <2>3, WayIs
<1>4. Good(c)
  <2>1. Len(c) \in Nat
    BY CellsAssumption, LenProperties
  <2> QED
    BY <1>2, <1>3, <2>1
<1> QED
  BY <1>1, <1>4

-----------------------------------------------------------------------------
(***************************************************************************)
(* Cells shown raw.                                                        *)
(***************************************************************************)
LEMMA InitRaw == Init => RawInv
<1> SUFFICES ASSUME Init PROVE RawInv
  OBVIOUS
<1>1. HashInv
  BY InitHashes
<1> QED
  BY <1>1 DEF Init, RawInv

LEMMA SameRaw == ASSUME RawInv, HashInv', UNCHANGED <<world, shainfo, phase, found>> PROVE RawInv'
<1>1. \A c : Resolvable(c)' <=> Resolvable(c)
  BY DEF Resolvable
<1> QED
  BY <1>1 DEF RawInv, world, found

LEMMA EntryRaw == ASSUME RawInv, HashInv', NEW c \in Cells, DecodeEntry(c) PROVE RawInv'
<1>1. \A d : Resolvable(d)' <=> Resolvable(d)
  BY DEF Resolvable, DecodeEntry, trace
<1>2. /\ phase = "diff" /\ todo' = todo \ {c}
      /\ layout' = layout /\ change' = change
  BY DEF DecodeEntry, world
<1>3. decodeDiff(c)[1] = Unresolved <=> ~Resolvable(c)
  BY FirstEntry DEF RawInv
<1>4. CASE ~layout \/ decodeDiff(c)[1] = Unresolved
  <2>1. raw' = raw \cup {c} /\ phase' = phase
    BY <1>4 DEF DecodeEntry
  <2> QED
    BY <1>1, <1>2, <1>3, <1>4, <2>1 DEF RawInv
<1>5. CASE ~(~layout \/ decodeDiff(c)[1] = Unresolved)
  <2>1. raw' = raw /\ phase' \in {phase, "raised"}
    BY <1>5 DEF DecodeEntry
  <2> QED
    BY <1>1, <1>2, <1>3, <1>5, <2>1 DEF RawInv
<1> QED
  BY <1>4, <1>5

LEMMA NextRaw == RawInv /\ [Next]_vars => RawInv'
<1> SUFFICES ASSUME RawInv, [Next]_vars PROVE RawInv'
  OBVIOUS
<1>1. HashInv'
  BY NextHashes DEF RawInv
<1>2. CASE TraceItem
  <2>1. phase = "trace" /\ phase' = phase /\ raw' = raw
    BY <1>2 DEF TraceItem, found
  <2> QED
    BY <1>1, <2>1 DEF RawInv
<1>3. CASE EndTrace
  <2>1. phase' = "replay" /\ raw = {} /\ raw' = raw
    BY <1>3 DEF EndTrace, found, RawInv
  <2> QED
    BY <1>1, <2>1 DEF RawInv
<1>4. CASE ParseReplay
  <2>1. \A c : Resolvable(c)' <=> Resolvable(c)
    BY <1>4 DEF Resolvable, ParseReplay, trace
  <2>2. /\ raw' = raw /\ layout' = layout /\ change' = change
        /\ phase' = "raised" \/ (phase' = "diff" /\ todo' = DOMAIN change)
    BY <1>4 DEF ParseReplay, world
  <2> QED
    BY <1>1, <2>1, <2>2 DEF RawInv
<1>5. CASE EndDiff
  <2>1. \A c : Resolvable(c)' <=> Resolvable(c)
    BY <1>5 DEF Resolvable, EndDiff, trace
  <2> QED
    BY <1>1, <1>5, <2>1 DEF RawInv, EndDiff, world, found
<1>6. ASSUME NEW c \in Cells, DecodeEntry(c) PROVE RawInv'
  BY <1>1, <1>6, EntryRaw
<1>7. CASE UNCHANGED vars
  BY <1>1, <1>7, SameRaw DEF vars, trace
<1> QED
  BY <1>2, <1>3, <1>4, <1>5, <1>6, <1>7 DEF Next

\* A cell is shown raw only if it cannot be resolved, at every step.
THEOREM RawInvariant == Spec => []RawInv
  BY InitRaw, NextRaw, PTL DEF Spec

\* decodeStorageDiff: a cell is shown raw exactly when there is no layout or the
\* way from a variable's first slot to it is not known.
THEOREM RawIsExact == Spec => []RawExact
<1>1. RawInv => RawExact
  BY DEF RawInv, RawExact
<1> QED
  BY <1>1, RawInvariant, PTL

-----------------------------------------------------------------------------
(***************************************************************************)
(* The path that decodeDiff finds.                                         *)
(***************************************************************************)
LEMMA HalfOdd == ASSUME NEW n \in Nat, n % 2 = 1 PROVE \E k \in Nat : n = 2 * k + 1 /\ (n + 1) \div 2 = k + 1
<1>1. PICK k : k = n \div 2
  OBVIOUS
<1>2. k \in Nat /\ n = 2 * k + 1 /\ (n + 1) \div 2 = k + 1
  BY <1>1
<1> QED
  BY <1>2

\* The path of a cell: its slot, then its keys with the words counted from each.
PathOf(c, path) ==
  /\ path \in Seq(Entries(c)) /\ Len(path) = Steps(c) /\ path[1].plus = c[1]
  /\ \A i \in 2 .. Steps(c) : path[i].key = KeyAt(c, i) /\ path[i].plus = PlusAt(c, i)

LEMMA PathIs ==
  ASSUME HashInv, NEW c \in Cells, Resolvable(c)
  PROVE  PathOf(c, decodeDiff(c))
<1>1. PICK g : decodeDiff(c) = g[c] /\ \A key \in Way(c) : g[key] = DecodeStep(key, g)
  BY DecodeIs
<1> DEFINE Right(key) == /\ g[key] \in Seq(Entries(c)) /\ Len(g[key]) = Steps(key) /\ g[key][1].plus = c[1]
                         /\ \A i \in 2 .. Steps(key) : g[key][i].key = KeyAt(c, i) /\ g[key][i].plus = PlusAt(c, i)
           T == {n \in Nat : \E key \in Way(c) : Len(key) = n /\ Resolvable(key) /\ ~Right(key)}
<1>2. T = {}
  <2> SUFFICES ASSUME T # {} PROVE FALSE
    OBVIOUS
  <2>1. PICK n \in T : \A m \in T : n <= m
    BY LeastNumber
  <2>2. PICK key \in Way(c) : Len(key) = n /\ Resolvable(key) /\ ~Right(key)
    BY <2>1
  <2>3. IsKey(c, key) /\ Len(key) \in Nat /\ Len(key) >= 1
    BY WayIs, KeyLength
  <2>4. g[key] = DecodeStep(key, g)
    BY <1>1
  <2>5. IF Len(key) = 1 THEN \E v \in Variables : v.slot = key[1]
        ELSE Recorded(key) /\ Resolvable(Inner(key))
    BY <2>2, ResolvableIs
  <2>6. PICK k \in Nat : n = 2 * k + 1 /\ (n + 1) \div 2 = k + 1
    BY <2>2, <2>3, HalfOdd DEF IsKey
  <2>7. Steps(key) = k + 1
    BY <2>2, <2>6 DEF Steps
  <2>8. \A i \in 1 .. Len(key) : key[i] = c[i]
    BY <2>3 DEF IsKey
  <2>9. CASE Len(key) = 1
    <3>1. g[key] = <<Entry(None, key[1])>> /\ key[1] = c[1] /\ k = 0
      <4>1. g[key] = <<Entry(None, key[1])>>
        BY <2>4, <2>5, <2>9 DEF DecodeStep
      <4>2. key[1] = c[1]
        BY <2>8, <2>9
      <4>3. k = 0
        <5>1. n = 1 /\ n = 2 * k + 1
          BY <2>2, <2>6, <2>9
        <5> QED
          BY <5>1
      <4> QED
        BY <4>1, <4>2, <4>3
    <3>2. Entry(None, key[1]) \in Entries(c)
      BY <2>5, <2>9, LayoutAssumption DEF LaidOut, Entry, Entries
    <3>3. g[key] \in Seq(Entries(c)) /\ Len(g[key]) = 1 /\ g[key][1].plus = c[1]
      BY <3>1, <3>2 DEF Entry
    <3> QED
      BY <2>2, <2>7, <3>1, <3>3
  <2>10. CASE Len(key) # 1
    <3>1. Len(key) > 1 /\ k >= 1
      BY <2>2, <2>6, <2>10, KeyLength
    <3>2. /\ Inner(key) \in Way(c) /\ Len(Inner(key)) = Len(key) - 2
          /\ Plus(key) \in Nat /\ MapKey(key) \in ToSet(c)
      BY <3>1, InnerOf
    <3>3. Steps(Inner(key)) = k
      BY <2>2, <2>6, <3>1, <3>2 DEF Steps
    <3>4. Right(Inner(key))
      <4>1. Len(Inner(key)) \in Nat /\ Len(Inner(key)) < n
        BY <2>2, <2>3, <3>1, <3>2
      <4>2. Len(Inner(key)) \notin T
        BY <2>1, <4>1
      <4> QED
        BY <2>5, <2>10, <3>2, <4>1, <4>2
    <3>5. PICK s, e : s = g[Inner(key)] /\ e = Entry(MapKey(key), Plus(key))
      OBVIOUS
    <3>6. e \in Entries(c) /\ e.key = MapKey(key) /\ e.plus = Plus(key)
      BY <3>2, <3>5 DEF Entry, Entries
    <3>7. g[key] = Append(s, e)
      BY <2>4, <2>5, <2>10, <3>5 DEF DecodeStep
    <3>8. s \in Seq(Entries(c)) /\ Len(s) = k
      BY <3>3, <3>4, <3>5
    <3>9. /\ g[key] \in Seq(Entries(c)) /\ Len(g[key]) = k + 1 /\ g[key][k + 1] = e
          /\ \A i \in 1 .. k : g[key][i] = s[i]
      <4>1. /\ g[key] \in Seq(Entries(c)) /\ Len(g[key]) = Len(s) + 1 /\ g[key][Len(s) + 1] = e
            /\ \A i \in 1 .. Len(s) : g[key][i] = s[i]
        BY <3>6, <3>7, <3>8, AppendProperties
      <4> QED
        BY <3>8, <4>1
    <3>10. MapKey(key) = KeyAt(c, k + 1) /\ Plus(key) = PlusAt(c, k + 1)
      <4>1. Len(key) - 1 = 2 * (k + 1) - 2 /\ Len(key) = 2 * (k + 1) - 1
        BY <2>2, <2>6
      <4>2. Len(key) - 1 \in 1 .. Len(key) /\ Len(key) \in 1 .. Len(key)
        BY <2>3, <3>1
      <4> QED
        BY <2>8, <4>1, <4>2 DEF MapKey, Plus, KeyAt, PlusAt
    <3>11. ASSUME NEW i \in 2 .. k + 1 PROVE g[key][i].key = KeyAt(c, i) /\ g[key][i].plus = PlusAt(c, i)
      <4>1. CASE i = k + 1
        BY <3>6, <3>9, <3>10, <4>1
      <4>2. CASE i # k + 1
        <5>1. i \in 1 .. k /\ i \in 2 .. k
          BY <4>2
        <5> QED
          BY <3>3, <3>4, <3>5, <3>9, <5>1
      <4> QED
        BY <4>1, <4>2
    <3>12. g[key][1].plus = c[1]
      BY <3>1, <3>4, <3>5, <3>9
    <3> QED
      BY <2>2, <2>7, <3>9, <3>11, <3>12
  <2> QED
    BY <2>9, <2>10
<1>3. c \in Way(c) /\ Len(c) \in Nat
  <2>1. c \in Seq(ToSet(c)) /\ Len(c) % 2 = 1 /\ Len(c) \in Nat
    BY CellsAssumption, LenProperties
  <2>2. Len(c) >= 1
    BY <2>1
  <2>3. IsKey(c, c)
    BY <2>1, <2>2 DEF IsKey
  <2> QED
    BY <2>1, <2>3, WayIs
<1>4. Right(c)
  BY <1>2, <1>3
<1> QED
  BY <1>1, <1>4 DEF PathOf

-----------------------------------------------------------------------------
(***************************************************************************)
(* Types, by the number of their level: a part is below its whole.         *)
(***************************************************************************)
Ranked(rank, n) ==
  /\ n \in Nat /\ \A t \in Types : rank[t] \in Nat /\ rank[t] < n
  /\ \A t \in Types : \A p \in Parts(t) : p \in Types /\ rank[p] < rank[t]

LEMMA LevelsAre ==
  /\ Len(TypeLevels) \in Nat /\ DOMAIN TypeLevels = 1 .. Len(TypeLevels)
  /\ \A t : t \in Types <=> \E n \in DOMAIN TypeLevels : t \in TypeLevels[n]
<1>1. TypeLevels \in Seq(ToSet(TypeLevels))
  BY LayoutAssumption
<1>2. Len(TypeLevels) \in Nat /\ DOMAIN TypeLevels = 1 .. Len(TypeLevels)
  BY <1>1, LenProperties
<1>3. ToSet(TypeLevels) = {TypeLevels[n] : n \in DOMAIN TypeLevels}
  BY DEF ToSet
<1> QED
  BY <1>2, <1>3 DEF Types

\* What is assumed of a type.
Sound(t) ==
  /\ t.kind \in {"leaf", "array", "map", "struct"} /\ t.bytes \in Nat \ {0}
  /\ t.kind = "map" => t.key # None /\ t.bytes <= 32
  /\ Parts(t) \subseteq Types
  /\ t.kind = "struct" => LaidOut(t.members)
  /\ None \notin {m.label : m \in t.members}

LEMMA SoundTypes == \A t \in Types : Sound(t)
<1> SUFFICES ASSUME NEW t \in Types PROVE Sound(t)
  OBVIOUS
<1>1. PICK n \in DOMAIN TypeLevels : t \in TypeLevels[n]
  BY LevelsAre
<1>2. Parts(t) \subseteq UNION {TypeLevels[m] : m \in 1..(n - 1)}
  BY <1>1, LayoutAssumption
<1>3. Parts(t) \subseteq Types
  <2> SUFFICES ASSUME NEW p \in Parts(t) PROVE p \in Types
    OBVIOUS
  <2>1. PICK m \in 1 .. n - 1 : p \in TypeLevels[m]
    BY <1>2
  <2>2. m \in DOMAIN TypeLevels
    BY LevelsAre
  <2> QED
    BY <2>1, <2>2, LevelsAre
<1> QED
  BY <1>1, <1>3, LayoutAssumption DEF Sound

LEMMA RankExists == \E rank, n : Ranked(rank, n)
<1> DEFINE Level(t) == {n \in DOMAIN TypeLevels : t \in TypeLevels[n]}
           rank     == [t \in Types |-> CHOOSE n \in Level(t) : \A m \in Level(t) : n <= m]
<1>1. ASSUME NEW t \in Types PROVE rank[t] \in Level(t) /\ \A m \in Level(t) : rank[t] <= m
  <2>1. Level(t) \subseteq Nat /\ Level(t) # {}
    BY LevelsAre
  <2>2. \E n \in Level(t) : \A m \in Level(t) : n <= m
    <3> HIDE DEF Level
    <3> QED
      BY <2>1, LeastNumber
  <2> QED
    BY <2>2
<1> HIDE DEF rank
<1>2. \A t \in Types : rank[t] \in Nat /\ rank[t] < Len(TypeLevels) + 1
  BY <1>1, LevelsAre
<1>3. ASSUME NEW t \in Types, NEW p \in Parts(t) PROVE p \in Types /\ rank[p] < rank[t]
  <2>1. t \in TypeLevels[rank[t]] /\ rank[t] \in DOMAIN TypeLevels
    BY <1>1
  <2>2. Parts(t) \subseteq UNION {TypeLevels[m] : m \in 1..(rank[t] - 1)}
    BY <2>1, LayoutAssumption
  <2>3. PICK m \in 1 .. rank[t] - 1 : p \in TypeLevels[m]
    BY <2>2
  <2>4. rank[t] \in Nat /\ m < rank[t] /\ m \in DOMAIN TypeLevels /\ m \in Nat
    BY <1>2, <2>3, LevelsAre
  <2>5. p \in Types /\ rank[p] <= m
    BY <1>1, <2>3, <2>4, LevelsAre
  <2>6. rank[p] \in Nat
    BY <1>2, <2>5
  <2> QED
    BY <2>4, <2>5, <2>6
<1>4. Len(TypeLevels) + 1 \in Nat
  BY LevelsAre
<1>5. Ranked(rank, Len(TypeLevels) + 1)
  BY <1>2, <1>3, <1>4 DEF Ranked
<1> QED
  BY <1>5

LEMMA PartIs ==
  /\ \A t : t.kind = "map" => t.value \in Parts(t)
  /\ \A t : t.kind = "struct" => \A m \in t.members : m.type \in Parts(t)
  BY DEF Parts

-----------------------------------------------------------------------------
(***************************************************************************)
(* What Shown computes.                                                    *)
(***************************************************************************)
Points == [type : Types, pos : Nat \ {0}, offset : Nat]

\* A path, whose words after the hashes are numbers.
IsPath(path) == Len(path) \in Nat /\ \A i \in 1 .. Len(path) : path[i].plus \in Nat

LEMMA ShownParts ==
  ASSUME NEW path, IsPath(path), NEW words, NEW rank, NEW n, Ranked(rank, n), NEW x \in Points, NEW f, NEW g,
         \A y \in Points : rank[y.type] < rank[x.type] => f[y] = g[y]
  PROVE  ShownStep(x, f, path, words) = ShownStep(x, g, path, words)
<1>1. x.type \in Types /\ x.pos \in Nat \ {0} /\ x.offset \in Nat /\ Sound(x.type)
  BY SoundTypes DEF Points
<1>2. ASSUME NEW p \in Parts(x.type), NEW o \in Nat PROVE f[At(p, x.pos + 1, o)] = g[At(p, x.pos + 1, o)]
  <2>1. PICK y : y = At(p, x.pos + 1, o)
    OBVIOUS
  <2>2. p \in Types /\ rank[p] < rank[x.type]
    BY <1>1 DEF Ranked
  <2>3. y \in Points /\ y.type = p
    BY <1>1, <2>1, <2>2 DEF At, Points
  <2> QED
    BY <2>1, <2>2, <2>3
<1>3. CASE x.type.kind = "map"
  <2>1. findType(x.type) = x.type
    BY <1>3 DEF findType
  <2>2. ASSUME ~(x.pos > Len(path)) PROVE path[x.pos].plus \in Nat
    <3>1. x.pos \in 1 .. Len(path)
      BY <1>1, <2>2 DEF IsPath
    <3> QED
      BY <3>1 DEF IsPath
  <2>3. ~(x.pos > Len(path)) => f[At(x.type.value, x.pos + 1, path[x.pos].plus)] =
                                g[At(x.type.value, x.pos + 1, path[x.pos].plus)]
    BY <1>2, <1>3, <2>2, PartIs
  <2> QED
    BY <1>3, <2>1, <2>3 DEF ShownStep
<1>4. CASE x.type.kind = "struct"
  <2>1. findType(x.type) = x.type
    BY <1>4 DEF findType
  <2>2. \A m \in x.type.members : m.offset \in Nat
    BY <1>1, <1>4 DEF Sound, LaidOut
  <2>3. \A m \in x.type.members : f[At(m.type, x.pos + 1, m.offset)] = g[At(m.type, x.pos + 1, m.offset)]
    BY <1>2, <1>4, <2>2, PartIs
  <2> QED
    BY <1>4, <2>1, <2>3 DEF ShownStep
<1>5. CASE x.type.kind \notin {"map", "struct"}
  <2>1. findType(x.type).kind = "leaf"
    BY <1>5 DEF findType, Leaf, Type
  <2> QED
    BY <2>1 DEF ShownStep
<1> QED
  BY <1>3, <1>4, <1>5

LEMMA ShownExists ==
  ASSUME NEW path, IsPath(path), NEW words
  PROVE  \E f : f = [x \in Points |-> ShownStep(x, f, path, words)]
<1>1. PICK rank, n : Ranked(rank, n)
  BY RankExists
<1> DEFINE Step(x, f) == ShownStep(x, f, path, words)
           Done(k)    == \E f : \A x \in Points : rank[x.type] < k => f[x] = Step(x, f)
           T          == {k \in Nat : ~Done(k)}
<1>2. ASSUME NEW x \in Points, NEW f, NEW g, \A y \in Points : rank[y.type] < rank[x.type] => f[y] = g[y]
      PROVE  Step(x, f) = Step(x, g)
  BY <1>1, <1>2, ShownParts
<1>3. \A x \in Points : rank[x.type] \in Nat /\ rank[x.type] < n
  BY <1>1 DEF Ranked, Points
<1>4. n \in Nat
  BY <1>1 DEF Ranked
<1> HIDE DEF Step
<1>5. ASSUME NEW k \in Nat, NEW f, \A x \in Points : rank[x.type] < k => f[x] = Step(x, f), NEW g,
             g = [x \in Points |-> Step(x, f)]
      PROVE  \A x \in Points : rank[x.type] < k + 1 => g[x] = Step(x, g)
  <2> SUFFICES ASSUME NEW x \in Points, rank[x.type] < k + 1 PROVE g[x] = Step(x, g)
    OBVIOUS
  <2>1. ASSUME NEW y \in Points, rank[y.type] < rank[x.type] PROVE f[y] = g[y]
    <3>1. rank[y.type] < k
      BY <1>3, <2>1
    <3> QED
      BY <1>5, <3>1
  <2>2. Step(x, f) = Step(x, g)
    BY <1>2, <2>1
  <2> QED
    BY <1>5, <2>2
<1>6. Done(0)
  <2>1. \A x \in Points : ~(rank[x.type] < 0)
    BY <1>3
  <2> QED
    BY <2>1, Zenon
<1>7. ASSUME NEW k \in Nat, Done(k) PROVE Done(k + 1)
  <2>1. PICK f : \A x \in Points : rank[x.type] < k => f[x] = Step(x, f)
    BY <1>7
  <2>2. PICK g : g = [x \in Points |-> Step(x, f)]
    OBVIOUS
  <2>3. \A x \in Points : rank[x.type] < k + 1 => g[x] = Step(x, g)
    BY <1>5, <2>1, <2>2
  <2> QED
    BY <2>3
<1>8. Done(n)
  <2> HIDE DEF Done
  <2> SUFFICES ASSUME T # {} PROVE FALSE
    BY <1>4
  <2>1. PICK k \in T : \A j \in T : k <= j
    BY LeastNumber
  <2>2. k \in Nat /\ ~Done(k) /\ k # 0
    BY <1>6, <2>1
  <2>3. k - 1 \in Nat /\ (k - 1) + 1 = k /\ ~(k <= k - 1)
    BY <2>2
  <2>4. Done(k - 1)
    BY <2>1, <2>3
  <2>5. Done((k - 1) + 1)
    BY <1>7, <2>3, <2>4
  <2> QED
    BY <2>2, <2>3, <2>5
<1>9. PICK f : \A x \in Points : f[x] = Step(x, f)
  BY <1>3, <1>8
<1>10. PICK g : g = [x \in Points |-> Step(x, f)]
  OBVIOUS
<1>11. ASSUME NEW x \in Points PROVE Step(x, f) = Step(x, g)
  <2>1. \A y \in Points : f[y] = g[y]
    BY <1>9, <1>10
  <2> QED
    BY <1>2, <2>1
<1>12. g = [x \in Points |-> Step(x, g)]
  BY <1>10, <1>11
<1> QED
  BY <1>12 DEF Step

LEMMA ShownIs ==
  ASSUME NEW path, IsPath(path), NEW words
  PROVE  \E f : /\ \A v : Shown(v, path, words) = f[At(v.type, 2, v.offset)]
                /\ \A x \in Points : f[x] = ShownStep(x, f, path, words)
<1>1. PICK f : f = CHOOSE shown : shown = [x \in Points |-> ShownStep(x, shown, path, words)]
  OBVIOUS
<1>2. f = [x \in Points |-> ShownStep(x, f, path, words)]
  BY <1>1, ShownExists
<1>3. ASSUME NEW v PROVE Shown(v, path, words) = f[At(v.type, 2, v.offset)]
  BY <1>1 DEF Shown, Points
<1> QED
  BY <1>2, <1>3

-----------------------------------------------------------------------------
(***************************************************************************)
(* What PlacesOf computes.                                                 *)
(***************************************************************************)
Spots == [type : Types, offset : Nat, plus : Nat, pos : Nat \ {0}]

LEMMA CellAt ==
  ASSUME NEW c \in Cells
  PROVE  /\ Steps(c) \in Nat /\ Steps(c) >= 1 /\ Len(c) = 2 * Steps(c) - 1
         /\ \A i \in 1 .. Steps(c) : PlusAt(c, i) \in Nat
<1>1. PICK n : n = Len(c)
  OBVIOUS
<1>2. n \in Nat /\ n % 2 = 1 /\ DOMAIN c = 1 .. n /\ \A i \in DOMAIN c : i % 2 = 1 => c[i] \in Nat
  BY <1>1, CellsAssumption, LenProperties
<1>3. PICK k \in Nat : n = 2 * k + 1 /\ (n + 1) \div 2 = k + 1
  BY <1>2, HalfOdd
<1>4. Steps(c) = k + 1
  BY <1>1, <1>3 DEF Steps
<1>5. ASSUME NEW i \in 1 .. k + 1 PROVE PlusAt(c, i) \in Nat
  <2>1. PICK j : j = 2 * i - 1
    OBVIOUS
  <2>2. j \in 1 .. n /\ j % 2 = 1
    BY <1>3, <2>1
  <2> QED
    BY <1>2, <2>1, <2>2 DEF PlusAt
<1>6. k + 1 \in Nat /\ k + 1 >= 1 /\ n = 2 * (k + 1) - 1
  BY <1>3
<1> QED
  BY <1>1, <1>4, <1>5, <1>6

LEMMA PlaceParts ==
  ASSUME NEW c \in Cells, NEW rank, NEW n, Ranked(rank, n), NEW x \in Spots, NEW f, NEW g,
         \A y \in Spots : rank[y.type] < rank[x.type] => f[y] = g[y]
  PROVE  PlaceStep(x, f, c) = PlaceStep(x, g, c)
<1>1. x.type \in Types /\ x.pos \in Nat \ {0} /\ x.offset \in Nat /\ x.plus \in Nat /\ Sound(x.type)
  BY SoundTypes DEF Spots
<1>2. ASSUME NEW p \in Parts(x.type), NEW o \in Nat, NEW u \in Nat, NEW i \in Nat \ {0}
      PROVE  f[In(p, o, u, i)] = g[In(p, o, u, i)]
  <2>1. PICK y : y = In(p, o, u, i)
    OBVIOUS
  <2>2. p \in Types /\ rank[p] < rank[x.type]
    BY <1>1 DEF Ranked
  <2>3. y \in Spots /\ y.type = p
    BY <2>1, <2>2 DEF In, Spots
  <2> QED
    BY <2>1, <2>2, <2>3
<1>3. CASE x.type.kind = "map"
  <2>1. ~AtEnd(x, c) => PlusAt(c, x.pos) \in Nat
    <3> SUFFICES ASSUME ~AtEnd(x, c) PROVE PlusAt(c, x.pos) \in Nat
      OBVIOUS
    <3>1. x.pos \in 1 .. Steps(c)
      BY <1>1, CellAt DEF AtEnd
    <3> QED
      BY <3>1, CellAt
  <2>2. x.pos + 1 \in Nat \ {0}
    BY <1>1
  <2>3. ~AtEnd(x, c) => f[In(x.type.value, 0, PlusAt(c, x.pos), x.pos + 1)] =
                                g[In(x.type.value, 0, PlusAt(c, x.pos), x.pos + 1)]
    BY <1>2, <1>3, <2>1, <2>2, PartIs
  <2> QED
    BY <1>3, <2>3 DEF PlaceStep
<1>4. CASE x.type.kind = "struct"
  <2>1. ASSUME NEW m \in x.type.members, Spans(m, x.plus)
        PROVE  f[In(m.type, m.offset, x.plus - m.slot, x.pos)] = g[In(m.type, m.offset, x.plus - m.slot, x.pos)]
    <3>1. m.offset \in Nat /\ m.slot \in Nat
      BY <1>1, <1>4 DEF Sound, LaidOut
    <3>2. x.plus - m.slot \in Nat
      BY <1>1, <2>1, <3>1 DEF Spans
    <3> QED
      BY <1>1, <1>2, <1>4, <3>1, <3>2, PartIs
  <2> QED
    BY <1>4, <2>1 DEF PlaceStep
<1>5. CASE x.type.kind \notin {"map", "struct"}
  BY <1>1, <1>5 DEF PlaceStep, Sound
<1> QED
  BY <1>3, <1>4, <1>5

LEMMA PlacesExist ==
  ASSUME NEW c \in Cells
  PROVE  \E f : f = [x \in Spots |-> PlaceStep(x, f, c)]
<1>1. PICK rank, n : Ranked(rank, n)
  BY RankExists
<1> DEFINE Step(x, f) == PlaceStep(x, f, c)
           Done(k)    == \E f : \A x \in Spots : rank[x.type] < k => f[x] = Step(x, f)
           T          == {k \in Nat : ~Done(k)}
<1>2. ASSUME NEW x \in Spots, NEW f, NEW g, \A y \in Spots : rank[y.type] < rank[x.type] => f[y] = g[y]
      PROVE  Step(x, f) = Step(x, g)
  BY <1>1, <1>2, PlaceParts
<1>3. \A x \in Spots : rank[x.type] \in Nat /\ rank[x.type] < n
  BY <1>1 DEF Ranked, Spots
<1>4. n \in Nat
  BY <1>1 DEF Ranked
<1> HIDE DEF Step
<1>5. ASSUME NEW k \in Nat, NEW f, \A x \in Spots : rank[x.type] < k => f[x] = Step(x, f), NEW g,
             g = [x \in Spots |-> Step(x, f)]
      PROVE  \A x \in Spots : rank[x.type] < k + 1 => g[x] = Step(x, g)
  <2> SUFFICES ASSUME NEW x \in Spots, rank[x.type] < k + 1 PROVE g[x] = Step(x, g)
    OBVIOUS
  <2>1. ASSUME NEW y \in Spots, rank[y.type] < rank[x.type] PROVE f[y] = g[y]
    <3>1. rank[y.type] < k
      BY <1>3, <2>1
    <3> QED
      BY <1>5, <3>1
  <2>2. Step(x, f) = Step(x, g)
    BY <1>2, <2>1
  <2> QED
    BY <1>5, <2>2
<1>6. Done(0)
  <2>1. \A x \in Spots : ~(rank[x.type] < 0)
    BY <1>3
  <2> QED
    BY <2>1, Zenon
<1>7. ASSUME NEW k \in Nat, Done(k) PROVE Done(k + 1)
  <2>1. PICK f : \A x \in Spots : rank[x.type] < k => f[x] = Step(x, f)
    BY <1>7
  <2>2. PICK g : g = [x \in Spots |-> Step(x, f)]
    OBVIOUS
  <2>3. \A x \in Spots : rank[x.type] < k + 1 => g[x] = Step(x, g)
    BY <1>5, <2>1, <2>2
  <2> QED
    BY <2>3
<1>8. Done(n)
  <2> HIDE DEF Done
  <2> SUFFICES ASSUME T # {} PROVE FALSE
    BY <1>4
  <2>1. PICK k \in T : \A j \in T : k <= j
    BY LeastNumber
  <2>2. k \in Nat /\ ~Done(k) /\ k # 0
    BY <1>6, <2>1
  <2>3. k - 1 \in Nat /\ (k - 1) + 1 = k /\ ~(k <= k - 1)
    BY <2>2
  <2>4. Done(k - 1)
    BY <2>1, <2>3
  <2>5. Done((k - 1) + 1)
    BY <1>7, <2>3, <2>4
  <2> QED
    BY <2>2, <2>3, <2>5
<1>9. PICK f : \A x \in Spots : f[x] = Step(x, f)
  BY <1>3, <1>8
<1>10. PICK g : g = [x \in Spots |-> Step(x, f)]
  OBVIOUS
<1>11. ASSUME NEW x \in Spots PROVE Step(x, f) = Step(x, g)
  <2>1. \A y \in Spots : f[y] = g[y]
    BY <1>9, <1>10
  <2> QED
    BY <1>2, <2>1
<1>12. g = [x \in Spots |-> Step(x, g)]
  BY <1>10, <1>11
<1> QED
  BY <1>12 DEF Step

LEMMA PlacesAre ==
  ASSUME NEW c \in Cells
  PROVE  \E g : /\ \A v : PlacesOf(v, c) = IF Spans(v, c[1]) THEN g[In(v.type, v.offset, c[1] - v.slot, 2)] ELSE {}
                /\ \A x \in Spots : g[x] = PlaceStep(x, g, c)
<1>1. PICK g : g = CHOOSE places : places = [x \in Spots |-> PlaceStep(x, places, c)]
  OBVIOUS
<1>2. g = [x \in Spots |-> PlaceStep(x, g, c)]
  BY <1>1, PlacesExist
<1>3. ASSUME NEW v PROVE PlacesOf(v, c) = IF Spans(v, c[1]) THEN g[In(v.type, v.offset, c[1] - v.slot, 2)] ELSE {}
  BY <1>1 DEF PlacesOf, Spots
<1> QED
  BY <1>2, <1>3

-----------------------------------------------------------------------------
(***************************************************************************)
(* Paths, entries and places.                                              *)
(***************************************************************************)
Sequence(p) == \E S : p \in Seq(S)

LEMMA OneLonger ==
  ASSUME NEW n, NEW p, Sequence(p)
  PROVE  /\ Sequence(<<n>> \o p) /\ Len(p) \in Nat /\ Len(<<n>> \o p) = Len(p) + 1
         /\ HasNone(<<n>> \o p) <=> n = None \/ HasNone(p)
<1>1. PICK S : p \in Seq(S)
  BY DEF Sequence
<1>2. PICK q, U : q = <<n>> \o p /\ U = S \cup {n}
  OBVIOUS
<1>3. p \in Seq(U) /\ <<n>> \in Seq(U) /\ Len(<<n>>) = 1 /\ <<n>>[1] = n /\ Len(p) \in Nat
  BY <1>1, <1>2
<1>4. /\ q \in Seq(U) /\ Len(q) = Len(p) + 1 /\ q[1] = n
      /\ \A i \in 1 .. Len(p) : q[i + 1] = p[i]
  <2>1. PICK one : one = <<n>>
    OBVIOUS
  <2>2. /\ one \o p \in Seq(U) /\ Len(one \o p) = Len(one) + Len(p)
        /\ \A i \in 1 .. Len(one) + Len(p) : (one \o p)[i] =
             IF i <= Len(one) THEN one[i] ELSE p[i - Len(one)]
    BY <1>3, <2>1, ConcatProperties
  <2>3. \A i \in 1 .. Len(p) : i + 1 \in 1 .. 1 + Len(p) /\ ~(i + 1 <= 1) /\ i + 1 - 1 = i
    BY <1>3
  <2>4. 1 \in 1 .. 1 + Len(p) /\ 1 + Len(p) = Len(p) + 1
    BY <1>3
  <2> QED
    BY <1>2, <1>3, <2>1, <2>2, <2>3, <2>4
<1>5. HasNone(q) <=> n = None \/ HasNone(p)
  <2>1. ASSUME n = None PROVE HasNone(q)
    <3>1. 1 \in 1 .. Len(q)
      BY <1>3, <1>4
    <3> QED
      BY <1>4, <2>1, <3>1 DEF HasNone
  <2>2. ASSUME HasNone(p) PROVE HasNone(q)
    <3>1. PICK i \in 1 .. Len(p) : p[i] = None
      BY <2>2 DEF HasNone
    <3>2. i + 1 \in 1 .. Len(q)
      BY <1>3, <1>4
    <3> QED
      BY <1>4, <3>1, <3>2 DEF HasNone
  <2>3. ASSUME HasNone(q), n # None PROVE HasNone(p)
    <3>1. PICK i \in 1 .. Len(q) : q[i] = None
      BY <2>3 DEF HasNone
    <3>2. i # 1
      BY <1>4, <2>3, <3>1
    <3>3. i - 1 \in 1 .. Len(p) /\ (i - 1) + 1 = i
      BY <1>3, <1>4, <3>2
    <3> QED
      BY <1>4, <3>1, <3>3 DEF HasNone
  <2> QED
    BY <2>1, <2>2, <2>3
<1> QED
  BY <1>2, <1>3, <1>4, <1>5 DEF Sequence

LEMMA NoPath == Sequence(<<>>) /\ Len(<<>>) = 0 /\ ~HasNone(<<>>)
<1>1. <<>> \in Seq({}) /\ Len(<<>>) = 0
  OBVIOUS
<1> QED
  BY <1>1 DEF Sequence, HasNone

IsEntry(e) ==
  /\ e = [path |-> e.path, keyless |-> e.keyless, original |-> e.original, dirty |-> e.dirty]
  /\ Sequence(e.path) /\ e.keyless \in BOOLEAN

IsPlace(pl) ==
  /\ pl = [path |-> pl.path, offset |-> pl.offset, bytes |-> pl.bytes, label |-> pl.label,
           inner |-> pl.inner, structMap |-> pl.structMap]
  /\ Sequence(pl.path) /\ ~HasNone(pl.path) /\ pl.inner \in BOOLEAN

\* An entry or a place under a name.
Below(name, e) == [e EXCEPT !.path = <<name>> \o @]

LEMMA UnderIs == \A name, es : Under(name, es) = {Below(name, e) : e \in es}
  BY DEF Under, Below

LEMMA EntryBelow ==
  ASSUME NEW e, IsEntry(e), NEW name
  PROVE  /\ IsEntry(Below(name, e)) /\ Below(name, e).path = <<name>> \o e.path
         /\ Below(name, e).keyless = e.keyless
         /\ Below(name, e).original = e.original /\ Below(name, e).dirty = e.dirty
<1>1. PICK q, k, o, d : q = e.path /\ k = e.keyless /\ o = e.original /\ d = e.dirty
  OBVIOUS
<1>2. e = [path |-> q, keyless |-> k, original |-> o, dirty |-> d]
  BY <1>1 DEF IsEntry
<1>3. Sequence(q) /\ k \in BOOLEAN
  BY <1>1 DEF IsEntry
<1>4. PICK b : b = [path |-> <<name>> \o q, keyless |-> k, original |-> o, dirty |-> d]
  OBVIOUS
<1>5. Below(name, e) = b
  <2>1. PICK p : p = <<name>> \o q
    OBVIOUS
  <2>2. Below(name, e) = [e EXCEPT !.path = p]
    BY <1>1, <2>1 DEF Below
  <2> QED
    BY <1>2, <1>4, <2>1, <2>2
<1>6. Sequence(<<name>> \o q)
  BY <1>3, OneLonger
<1>7. IsEntry(b)
  BY <1>3, <1>4, <1>6 DEF IsEntry
<1> QED
  BY <1>1, <1>4, <1>5, <1>7

LEMMA PlaceBelow ==
  ASSUME NEW pl, IsPlace(pl), NEW name
  PROVE  /\ Below(name, pl).path = <<name>> \o pl.path
         /\ name # None => IsPlace(Below(name, pl))
         /\ Below(name, pl).offset = pl.offset /\ Below(name, pl).bytes = pl.bytes
         /\ Below(name, pl).label = pl.label
         /\ Below(name, pl).inner = pl.inner /\ Below(name, pl).structMap = pl.structMap
<1>1. PICK q, o, n, l, i, s : /\ q = pl.path /\ o = pl.offset /\ n = pl.bytes /\ l = pl.label
                              /\ i = pl.inner /\ s = pl.structMap
  OBVIOUS
<1>2. pl = [path |-> q, offset |-> o, bytes |-> n, label |-> l, inner |-> i, structMap |-> s]
  BY <1>1 DEF IsPlace
<1>3. Sequence(q) /\ ~HasNone(q) /\ i \in BOOLEAN
  BY <1>1 DEF IsPlace
<1>4. PICK b : b = [path |-> <<name>> \o q, offset |-> o, bytes |-> n, label |-> l, inner |-> i, structMap |-> s]
  OBVIOUS
<1>5. Below(name, pl) = b
  <2>1. PICK p : p = <<name>> \o q
    OBVIOUS
  <2>2. Below(name, pl) = [pl EXCEPT !.path = p]
    BY <1>1, <2>1 DEF Below
  <2> QED
    BY <1>2, <1>4, <2>1, <2>2
<1>6. Sequence(<<name>> \o q) /\ (name # None => ~HasNone(<<name>> \o q))
  BY <1>3, OneLonger
<1>7. name # None => IsPlace(b)
  BY <1>3, <1>4, <1>6 DEF IsPlace
<1> QED
  BY <1>1, <1>4, <1>5, <1>7

\* A place of a member of a struct.
LEMMA PlaceInStruct ==
  ASSUME NEW pl, IsPlace(pl), NEW m, NEW plus
  PROVE  LET b == InStruct(pl, m, plus) IN
         /\ IsPlace(b) /\ b.path = pl.path /\ b.offset = pl.offset /\ b.bytes = pl.bytes /\ b.label = pl.label
         /\ b.inner = (pl.inner \/ plus > m.slot)
         /\ b.structMap = IF m.type.kind = "map" THEN m.type.key ELSE pl.structMap
         /\ ~(plus > m.slot) /\ m.type.kind # "map" => b = pl
<1>1. PICK q, o, n, l, i, s : /\ q = pl.path /\ o = pl.offset /\ n = pl.bytes /\ l = pl.label
                              /\ i = pl.inner /\ s = pl.structMap
  OBVIOUS
<1>2. pl = [path |-> q, offset |-> o, bytes |-> n, label |-> l, inner |-> i, structMap |-> s]
  BY <1>1 DEF IsPlace
<1>3. Sequence(q) /\ ~HasNone(q) /\ i \in BOOLEAN
  BY <1>1 DEF IsPlace
<1>4. PICK j, r : j = (i \/ plus > m.slot) /\ r = IF m.type.kind = "map" THEN m.type.key ELSE s
  OBVIOUS
<1>5. PICK b : b = [path |-> q, offset |-> o, bytes |-> n, label |-> l, inner |-> j, structMap |-> r]
  OBVIOUS
<1>6. InStruct(pl, m, plus) = b
  <2>1. InStruct(pl, m, plus) = [pl EXCEPT !.inner = j, !.structMap = r]
    BY <1>1, <1>4 DEF InStruct
  <2> QED
    BY <1>2, <1>5, <2>1
<1>7. j \in BOOLEAN
  BY <1>4
<1>8. IsPlace(b)
  BY <1>3, <1>5, <1>7 DEF IsPlace
<1>9. ~(plus > m.slot) /\ m.type.kind # "map" => j = i /\ r = s
  BY <1>3, <1>4
<1>10. ~(plus > m.slot) /\ m.type.kind # "map" => b = pl
  BY <1>2, <1>5, <1>9
<1> QED
  BY <1>1, <1>4, <1>5, <1>6, <1>8, <1>10

-----------------------------------------------------------------------------
(***************************************************************************)
(* What a part of a variable shows is right: what the theorems say of a    *)
(* variable, said of a part.                                               *)
(***************************************************************************)
Meets(e, pl, words) == ~e.keyless /\ e.path = pl.path /\ Shows(e, words, pl)

Good(es, ps, words, c) ==
  /\ \A e \in es : IsEntry(e)
  /\ \A pl \in ps : IsPlace(pl)
  /\ (\E e \in es : e.keyless) <=> (\E pl \in ps : Lost(c, pl))
  /\ \A e \in es : e.keyless \/ \E pl \in ps : Matches(e, pl, words)
  /\ \A pl \in ps : pl.inner \/ pl.structMap # None \/ \E e \in es : Meets(e, pl, words)

LEMMA MatchesBelow ==
  ASSUME NEW e, IsEntry(e), NEW pl, IsPlace(pl), NEW words, NEW name
  PROVE  /\ Matches(e, pl, words) => Matches(Below(name, e), Below(name, pl), words)
         /\ Meets(e, pl, words) => Meets(Below(name, e), Below(name, pl), words)
<1>1. PICK a, b : a = Below(name, e) /\ b = Below(name, pl)
  OBVIOUS
<1>2. /\ a.path = <<name>> \o e.path /\ a.keyless = e.keyless
      /\ a.original = e.original /\ a.dirty = e.dirty
  BY <1>1, EntryBelow
<1>3. /\ b.path = <<name>> \o pl.path /\ b.offset = pl.offset /\ b.bytes = pl.bytes
      /\ b.label = pl.label /\ b.inner = pl.inner /\ b.structMap = pl.structMap
  BY <1>1, PlaceBelow
<1>4. /\ Len(a.path) = Len(e.path) + 1 /\ (HasNone(e.path) => HasNone(a.path))
      /\ Len(b.path) = Len(pl.path) + 1
  BY <1>2, <1>3, OneLonger DEF IsEntry, IsPlace
<1>5. \A word : Bytes(word, b) = Bytes(word, pl)
  BY <1>3 DEF Bytes
<1>6. Shows(e, words, pl) => Shows(a, words, b)
  BY <1>2, <1>3, <1>5 DEF Shows
<1>7. pl.path = e.path => b.path = a.path
  BY <1>2, <1>3
<1>8. Matches(e, pl, words) => Matches(a, b, words)
  BY <1>3, <1>4, <1>6, <1>7 DEF Matches
<1>9. Meets(e, pl, words) => Meets(a, b, words)
  BY <1>2, <1>6, <1>7 DEF Meets
<1> QED
  BY <1>1, <1>8, <1>9

LEMMA LostBelow ==
  ASSUME NEW pl, IsPlace(pl), NEW c, NEW name
  PROVE  Lost(c, Below(name, pl)) <=> Lost(c, pl)
  BY PlaceBelow DEF Lost

LEMMA UnderGood ==
  ASSUME NEW es, NEW ps, NEW words, NEW c, Good(es, ps, words, c), NEW name, name # None
  PROVE  Good(Under(name, es), Under(name, ps), words, c)
<1>1. /\ Under(name, es) = {Below(name, e) : e \in es}
      /\ Under(name, ps) = {Below(name, pl) : pl \in ps}
  BY UnderIs
<1>2. \A e \in es : IsEntry(e) /\ IsEntry(Below(name, e)) /\ Below(name, e).keyless = e.keyless
  BY EntryBelow DEF Good
<1>3. \A pl \in ps : /\ IsPlace(pl) /\ IsPlace(Below(name, pl)) /\ Below(name, pl).inner = pl.inner
                     /\ Below(name, pl).structMap = pl.structMap
                     /\ Lost(c, Below(name, pl)) <=> Lost(c, pl)
  BY PlaceBelow, LostBelow DEF Good
<1>4. (\E e \in Under(name, es) : e.keyless) <=> (\E pl \in Under(name, ps) : Lost(c, pl))
  <2>1. (\E e \in Under(name, es) : e.keyless) <=> (\E e \in es : e.keyless)
    BY <1>1, <1>2
  <2>2. (\E pl \in Under(name, ps) : Lost(c, pl)) <=> (\E pl \in ps : Lost(c, pl))
    BY <1>1, <1>3
  <2> QED
    BY <2>1, <2>2 DEF Good
<1>5. ASSUME NEW a \in Under(name, es) PROVE a.keyless \/ \E b \in Under(name, ps) : Matches(a, b, words)
  <2>1. PICK e \in es : a = Below(name, e)
    BY <1>1
  <2>2. CASE e.keyless
    BY <1>2, <2>1, <2>2
  <2>3. CASE ~e.keyless
    <3>1. PICK pl \in ps : Matches(e, pl, words)
      BY <2>3 DEF Good
    <3>2. Matches(a, Below(name, pl), words)
      BY <1>2, <1>3, <2>1, <3>1, MatchesBelow
    <3> QED
      BY <1>1, <3>2
  <2> QED
    BY <2>2, <2>3
<1>6. ASSUME NEW b \in Under(name, ps)
      PROVE  b.inner \/ b.structMap # None \/ \E a \in Under(name, es) : Meets(a, b, words)
  <2>1. PICK pl \in ps : b = Below(name, pl)
    BY <1>1
  <2>2. CASE pl.inner \/ pl.structMap # None
    BY <1>3, <2>1, <2>2
  <2>3. CASE ~(pl.inner \/ pl.structMap # None)
    <3>1. PICK e \in es : Meets(e, pl, words)
      BY <2>3 DEF Good
    <3>2. Meets(Below(name, e), b, words)
      BY <1>2, <1>3, <2>1, <3>1, MatchesBelow
    <3> QED
      BY <1>1, <3>2
  <2> QED
    BY <2>2, <2>3
<1> QED
  BY <1>1, <1>2, <1>3, <1>4, <1>5, <1>6 DEF Good

LEMMA UnionGood ==
  ASSUME NEW M, NEW E, NEW P, NEW words, NEW c, \A m \in M : Good(E[m], P[m], words, c),
         NEW es, NEW ps, \A e : e \in es <=> \E m \in M : e \in E[m], \A pl : pl \in ps <=> \E m \in M : pl \in P[m]
  PROVE  Good(es, ps, words, c)
<1>1. /\ \A e \in es : IsEntry(e)
      /\ \A pl \in ps : IsPlace(pl)
  BY DEF Good
<1>2. (\E e \in es : e.keyless) <=> (\E pl \in ps : Lost(c, pl))
  BY DEF Good
<1>3. ASSUME NEW e \in es
      PROVE  e.keyless \/ \E pl \in ps : Matches(e, pl, words)
  <2>1. PICK m \in M : e \in E[m]
    OBVIOUS
  <2> QED
    BY <2>1 DEF Good
<1>4. ASSUME NEW pl \in ps
      PROVE  pl.inner \/ pl.structMap # None \/ \E e \in es : Meets(e, pl, words)
  <2>1. PICK m \in M : pl \in P[m]
    OBVIOUS
  <2> QED
    BY <2>1 DEF Good
<1> QED
  BY <1>1, <1>2, <1>3, <1>4 DEF Good

-----------------------------------------------------------------------------
(***************************************************************************)
(* Plain types.                                                            *)
(***************************************************************************)
PlainEntry(t, offset, words) ==
  [path |-> <<>>, keyless |-> FALSE, original |-> Value(t, offset, words.original),
   dirty |-> Value(t, offset, words.dirty)]

PlainPlace(t, offset, plus) == [Place(offset, t) EXCEPT !.inner = plus > 0]

LEMMA PlainPlaceIs ==
  ASSUME NEW t, NEW offset, NEW plus
  PROVE  /\ IsPlace(PlainPlace(t, offset, plus)) /\ PlainPlace(t, offset, plus).path = <<>>
         /\ PlainPlace(t, offset, plus).offset = offset /\ PlainPlace(t, offset, plus).bytes = t.bytes
         /\ PlainPlace(t, offset, plus).label = t.label
         /\ PlainPlace(t, offset, plus).inner = (plus > 0)
         /\ PlainPlace(t, offset, plus).structMap = None
<1>1. PICK i, n, l : i = (plus > 0) /\ n = t.bytes /\ l = t.label
  OBVIOUS
<1>2. PICK b : b = [path |-> <<>>, offset |-> offset, bytes |-> n, label |-> l, inner |-> i, structMap |-> None]
  OBVIOUS
<1>3. PlainPlace(t, offset, plus) = b
  <2>1. Place(offset, t) = [path |-> <<>>, offset |-> offset, bytes |-> n, label |-> l, inner |-> FALSE, structMap |-> None]
    BY <1>1 DEF Place
  <2>2. PlainPlace(t, offset, plus) = [Place(offset, t) EXCEPT !.inner = i]
    BY <1>1 DEF PlainPlace
  <2> QED
    BY <1>2, <2>1, <2>2
<1>4. i \in BOOLEAN
  BY <1>1
<1>5. IsPlace(b)
  BY <1>2, <1>4, NoPath DEF IsPlace
<1> QED
  BY <1>1, <1>2, <1>3, <1>5

LEMMA PlainPlaces ==
  ASSUME NEW t, NEW offset, NEW plus, NEW b, b = PlainPlace(t, offset, plus)
  PROVE  \A word : Bytes(word, b) = {<<x[1] - offset, x[2]>> : x \in {y \in word : y[1] >= offset /\ y[1] < offset + t.bytes}}
  BY PlainPlaceIs DEF Bytes

IsWord(word) == \A b \in word : b[1] \in Nat

LEMMA FieldIs ==
  ASSUME NEW word, IsWord(word), NEW offset \in Nat, NEW n \in Nat
  PROVE  Field(word, offset, n) = {<<x[1] - offset, x[2]>> : x \in {y \in word : y[1] >= offset /\ y[1] < offset + n}}
<1>1. \A y \in word : y[1] \in offset .. (offset + n - 1) <=> y[1] >= offset /\ y[1] < offset + n
  <2> SUFFICES ASSUME NEW y \in word PROVE y[1] \in offset .. (offset + n - 1) <=> y[1] >= offset /\ y[1] < offset + n
    OBVIOUS
  <2>1. PICK k : k = y[1]
    OBVIOUS
  <2>2. k \in Nat
    BY <2>1 DEF IsWord
  <2>3. k \in offset .. (offset + n - 1) <=> k >= offset /\ k < offset + n
    BY <2>2
  <2> QED
    BY <2>1, <2>3
<1>2. {y \in word : y[1] \in offset .. (offset + n - 1)} = {y \in word : y[1] >= offset /\ y[1] < offset + n}
  BY <1>1
<1> QED
  BY <1>2 DEF Field

LEMMA PlainGood ==
  ASSUME NEW t, t.bytes \in Nat, NEW u, u.label = t.label, u.bytes = t.bytes,
         NEW x \in Nat, NEW o \in Nat, NEW plus \in Nat, plus = 0 => x = o,
         NEW words, IsWord(words.original), IsWord(words.dirty), NEW c
  PROVE  Good({PlainEntry(u, x, words)}, {PlainPlace(t, o, plus)}, words, c)
<1>1. PICK e, b : e = PlainEntry(u, x, words) /\ b = PlainPlace(t, o, plus)
  OBVIOUS
<1>2. /\ IsPlace(b) /\ b.path = <<>> /\ b.label = t.label /\ b.inner = (plus > 0) /\ b.structMap = None
  BY <1>1, PlainPlaceIs
<1>3. /\ e.path = <<>> /\ e.keyless = FALSE
      /\ e.original = Value(u, x, words.original) /\ e.dirty = Value(u, x, words.dirty)
  BY <1>1 DEF PlainEntry
<1>4. IsEntry(e)
  BY <1>1, NoPath DEF IsEntry, PlainEntry
<1>5. ~Lost(c, b)
  BY <1>2 DEF Lost
<1>6. ASSUME plus = 0 PROVE Shows(e, words, b)
  <2>1. CASE t.label = "bool"
    BY <1>2, <1>3, <2>1 DEF Shows, Value, handle_value
  <2>2. CASE t.label # "bool"
    <3>1. \A word : IsWord(word) => Value(u, x, word) = Bytes(word, b)
      <4> SUFFICES ASSUME NEW word, IsWord(word) PROVE Value(u, x, word) = Bytes(word, b)
        OBVIOUS
      <4>1. Value(u, x, word) = Field(word, o, t.bytes)
        BY <1>6, <2>2 DEF Value, handle_value
      <4>2. Bytes(word, b) = {<<z[1] - o, z[2]>> : z \in {y \in word : y[1] >= o /\ y[1] < o + t.bytes}}
        BY <1>1, PlainPlaces
      <4> QED
        BY <4>1, <4>2, FieldIs
    <3> QED
      BY <1>2, <1>3, <2>2, <3>1 DEF Shows
  <2> QED
    BY <2>1, <2>2
<1>7. b.inner \/ Shows(e, words, b)
  <2>1. plus = 0 \/ plus > 0
    OBVIOUS
  <2>2. plus > 0 => b.inner
    BY <1>2, Zenon
  <2> QED
    BY <1>6, <2>1, <2>2, Zenon
<1>8. Matches(e, b, words)
  BY <1>2, <1>3, <1>7 DEF Matches
<1>9. b.inner \/ Meets(e, b, words)
  BY <1>2, <1>3, <1>7 DEF Meets
<1>10. Good({e}, {b}, words, c)
  BY <1>2, <1>3, <1>4, <1>5, <1>8, <1>9 DEF Good
<1> QED
  BY <1>1, <1>10

-----------------------------------------------------------------------------
(***************************************************************************)
(* The two recursions, on one cell.                                        *)
(***************************************************************************)
Setting(c, path, words, f, g) ==
  /\ c \in Cells /\ PathOf(c, path) /\ IsPath(path)
  /\ IsWord(words.original) /\ IsWord(words.dirty)
  /\ \A x \in Points : f[x] = ShownStep(x, f, path, words)
  /\ \A y \in Spots : g[y] = PlaceStep(y, g, c)

\* A type that is no mapping and no struct with one.
NoMap(t) == t.kind # "map" /\ \A p \in Parts(t) : p.kind # "map"

LEMMA NoMapParts ==
  ASSUME SimpleStructs, NEW t \in Types, t.kind = "struct", NEW m \in t.members
  PROVE  /\ m.type \in Types /\ m.type \in Parts(t)
         /\ NoMap(t) => NoMap(m.type)
         /\ m.type.kind # "map" => NoMap(m.type)
         /\ m.type.kind = "map" => m.type.value \in Types /\ (m.type.value.kind \in {"leaf", "array"} \/ Ends(m.type.value))
<1>1. m.type \in Parts(t) /\ m.type \in Types
  BY SoundTypes, PartIs DEF Sound
<1>2. m.type.kind \in {"leaf", "array"} => Parts(m.type) = {}
  BY DEF Parts
<1>3. m.type.kind \in {"leaf", "array", "map", "struct"}
  BY <1>1, SoundTypes DEF Sound
<1>4. /\ m.type.kind = "map" => m.type.value.kind \in {"leaf", "array"} \/ Ends(m.type.value)
      /\ m.type.kind = "struct" => \A p \in Parts(m.type) : p.kind # "map"
  BY <1>1 DEF SimpleStructs
<1>5. m.type.kind = "map" => m.type.value \in Types
  BY <1>1, SoundTypes, PartIs DEF Sound
<1>6. m.type.kind # "map" => NoMap(m.type)
  BY <1>2, <1>3, <1>4 DEF NoMap
<1> QED
  BY <1>1, <1>4, <1>5, <1>6 DEF NoMap

Members(t, plus) == {m \in t.members : Spans(m, plus)}

\* A member that spans a word: where it leads.
LEMMA SpotOf ==
  ASSUME NEW y \in Spots, y.type.kind = "struct", NEW m \in Members(y.type, y.plus)
  PROVE  /\ In(m.type, m.offset, y.plus - m.slot, y.pos) \in Spots
         /\ In(m.type, m.offset, y.plus - m.slot, y.pos).type = m.type
         /\ m \in y.type.members /\ m.slot \in Nat /\ m.slot <= y.plus /\ m.offset \in Nat
<1>1. m \in y.type.members /\ m.slot <= y.plus /\ y.type \in Types /\ y.plus \in Nat /\ y.pos \in Nat \ {0}
  BY DEF Members, Spans, Spots
<1>2. m.slot \in Nat /\ m.offset \in Nat /\ m.type \in Types
  BY <1>1, SoundTypes DEF Sound, LaidOut
<1>3. y.plus - m.slot \in Nat
  BY <1>1, <1>2
<1> QED
  BY <1>1, <1>2, <1>3 DEF In, Spots

StructPlaces(y, g) ==
  UNION {{InStruct(pl, m, y.plus) : pl \in Under(m.label, g[In(m.type, m.offset, y.plus - m.slot, y.pos)])} :
         m \in Members(y.type, y.plus)}

LEMMA PlacesIn ==
  ASSUME NEW c, NEW path, NEW words, NEW f, NEW g, Setting(c, path, words, f, g), NEW y \in Spots
  PROVE  /\ y.type.kind = "leaf" =>
              g[y] = IF y.plus = 0 /\ y.pos > Steps(c) THEN {PlainPlace(y.type, y.offset, y.plus)} ELSE {}
         /\ y.type.kind = "array" => g[y] = IF ArrayAt(y, c) THEN {PlainPlace(y.type, y.offset, y.plus)} ELSE {}
         /\ y.type.kind = "struct" => g[y] = StructPlaces(y, g)
<1>1. g[y] = PlaceStep(y, g, c)
  BY DEF Setting
<1>2. ASSUME y.plus = 0 PROVE PlainPlace(y.type, y.offset, y.plus) = Place(y.offset, y.type)
  <2>1. PICK n, l : n = y.type.bytes /\ l = y.type.label
    OBVIOUS
  <2>2. PICK i : i = FALSE
    OBVIOUS
  <2>3. (y.plus > 0) = FALSE
    BY <1>2
  <2>4. PICK b : b = [path |-> <<>>, offset |-> y.offset, bytes |-> n, label |-> l, inner |-> i, structMap |-> None]
    OBVIOUS
  <2>5. Place(y.offset, y.type) = b
    BY <2>1, <2>2, <2>4 DEF Place
  <2>6. [b EXCEPT !.inner = i] = b
    BY <2>4
  <2>7. PlainPlace(y.type, y.offset, y.plus) = [b EXCEPT !.inner = i]
    BY <2>2, <2>3, <2>5 DEF PlainPlace
  <2> QED
    BY <2>5, <2>6, <2>7
<1>3. y.type.kind = "leaf" =>
        g[y] = IF y.plus = 0 /\ y.pos > Steps(c) THEN {PlainPlace(y.type, y.offset, y.plus)} ELSE {}
  BY <1>1, <1>2 DEF PlaceStep, AtEnd
<1>4. y.type.kind = "array" => g[y] = IF ArrayAt(y, c) THEN {PlainPlace(y.type, y.offset, y.plus)} ELSE {}
  BY <1>1 DEF PlaceStep, PlainPlace
<1>5. y.type.kind = "struct" => g[y] = StructPlaces(y, g)
  BY <1>1 DEF PlaceStep, StructPlaces, Members
<1> QED
  BY <1>3, <1>4, <1>5

LEMMA MapPlaces ==
  ASSUME NEW c, NEW path, NEW words, NEW f, NEW g, Setting(c, path, words, f, g), NEW y \in Spots,
         y.type.kind = "map"
  PROVE  /\ g[y] # {} => y.plus = 0 /\ ~(y.pos > Steps(c)) /\ KeyAt(c, y.pos) # None
         /\ y.plus = 0 /\ ~(y.pos > Steps(c)) /\ KeyAt(c, y.pos) # None =>
              g[y] = Under(handle_value(y.type.key, KeyAt(c, y.pos)),
                           g[In(y.type.value, 0, PlusAt(c, y.pos), y.pos + 1)])
<1>1. g[y] = PlaceStep(y, g, c)
  BY DEF Setting
<1> QED
  BY <1>1 DEF PlaceStep, AtEnd

LEMMA ShownIn ==
  ASSUME NEW c, NEW path, NEW words, NEW f, NEW g, Setting(c, path, words, f, g), NEW x \in Points
  PROVE  /\ x.type.kind \in {"leaf", "array"} =>
              f[x] = {PlainEntry(Leaf(x.type.label, x.type.bytes), x.offset, words)}
         /\ x.type.kind = "struct" =>
              f[x] = UNION {Under(m.label, f[At(m.type, x.pos + 1, m.offset)]) :
                            m \in {m \in x.type.members : m.slot = x.offset}}
<1>1. f[x] = ShownStep(x, f, path, words) /\ Len(path) = Steps(c)
  BY DEF Setting, PathOf
<1>2. CASE x.type.kind \in {"leaf", "array"}
  <2>1. PICK u : u = Leaf(x.type.label, x.type.bytes)
    OBVIOUS
  <2>2. findType(x.type) = u
    BY <1>2, <2>1 DEF findType
  <2>3. u.kind = "leaf"
    BY <2>1 DEF Leaf, Type
  <2>4. f[x] = {PlainEntry(u, x.offset, words)}
    BY <1>1, <2>2, <2>3 DEF ShownStep, PlainEntry
  <2> QED
    BY <1>2, <2>1, <2>4
<1>3. CASE x.type.kind = "struct"
  <2>1. findType(x.type) = x.type
    BY <1>3 DEF findType
  <2> QED
    BY <1>1, <1>3, <2>1 DEF ShownStep
<1> QED
  BY <1>2, <1>3

LEMMA MapShown ==
  ASSUME NEW c, NEW path, NEW words, NEW f, NEW g, Setting(c, path, words, f, g), NEW x \in Points,
         x.type.kind = "map"
  PROVE  /\ x.pos > Steps(c) \/ Unreadable(x.type.key, path[x.pos].key) => f[x] = {Keyless}
         /\ ~(x.pos > Steps(c) \/ Unreadable(x.type.key, path[x.pos].key)) =>
              f[x] = Under(handle_value(x.type.key, path[x.pos].key),
                           f[At(x.type.value, x.pos + 1, path[x.pos].plus)])
<1>1. f[x] = ShownStep(x, f, path, words) /\ Len(path) = Steps(c)
  BY DEF Setting, PathOf
<1>2. findType(x.type) = x.type
  BY DEF findType
<1> QED
  BY <1>1, <1>2 DEF ShownStep

-----------------------------------------------------------------------------
(***************************************************************************)
(* Every place is one; none is in a mapping in a struct, unless there is   *)
(* such a mapping.                                                         *)
(***************************************************************************)
Fine(y, ps) == \A pl \in ps : IsPlace(pl) /\ (NoMap(y.type) => pl.structMap = None)

LEMMA PlacesFine ==
  ASSUME SimpleStructs, NEW c, NEW path, NEW words, NEW f, NEW g, Setting(c, path, words, f, g)
  PROVE  \A y \in Spots : Fine(y, g[y])
<1>1. PICK rank, n : Ranked(rank, n)
  BY RankExists
<1> DEFINE T == {k \in Nat : \E y \in Spots : rank[y.type] = k /\ ~Fine(y, g[y])}
<1>2. T = {}
  <2> SUFFICES ASSUME T # {} PROVE FALSE
    OBVIOUS
  <2>1. PICK k \in T : \A j \in T : k <= j
    BY LeastNumber
  <2>2. PICK y \in Spots : rank[y.type] = k /\ ~Fine(y, g[y])
    BY <2>1
  <2>3. /\ y.type \in Types /\ Sound(y.type) /\ y.plus \in Nat /\ y.pos \in Nat \ {0} /\ k \in Nat
    BY SoundTypes DEF Spots
  <2>4. ASSUME NEW z \in Spots, z.type \in Parts(y.type) PROVE Fine(z, g[z])
    <3>1. rank[z.type] \in Nat /\ rank[z.type] < k
      BY <1>1, <2>2, <2>3, <2>4 DEF Ranked
    <3>2. rank[z.type] \notin T
      BY <2>1, <3>1
    <3> QED
      BY <3>1, <3>2
  <2>5. CASE y.type.kind \in {"leaf", "array"}
    <3>1. \A pl \in g[y] : pl = PlainPlace(y.type, y.offset, y.plus)
      <4>1. PICK b : b = PlainPlace(y.type, y.offset, y.plus)
        OBVIOUS
      <4>2. CASE y.type.kind = "leaf"
        <5>1. g[y] = IF y.plus = 0 /\ y.pos > Steps(c) THEN {b} ELSE {}
          BY <4>1, <4>2, PlacesIn
        <5> QED
          BY <4>1, <5>1
      <4>3. CASE y.type.kind = "array"
        <5>1. g[y] = IF ArrayAt(y, c) THEN {b} ELSE {}
          BY <4>1, <4>3, PlacesIn
        <5> QED
          BY <4>1, <5>1
      <4> QED
        BY <2>5, <4>2, <4>3
    <3>2. Fine(y, g[y])
      BY <3>1, PlainPlaceIs DEF Fine
    <3> QED
      BY <2>2, <3>2
  <2>6. CASE y.type.kind = "map"
    <3> DEFINE i == y.pos
    <3> SUFFICES ASSUME y.plus = 0 /\ ~(i > Steps(c)) /\ KeyAt(c, i) # None PROVE FALSE
      BY <2>2, <2>6, MapPlaces DEF Fine
    <3>1. PICK z, name : z = In(y.type.value, 0, PlusAt(c, i), i + 1) /\ name = handle_value(y.type.key, KeyAt(c, i))
      OBVIOUS
    <3>2. PlusAt(c, i) \in Nat
      BY <2>3, CellAt DEF Setting
    <3>3. y.type.value \in Parts(y.type) /\ y.type.value \in Types
      BY <2>3, <2>6, PartIs DEF Sound
    <3>4. z \in Spots /\ z.type \in Parts(y.type)
      BY <2>3, <3>1, <3>2, <3>3 DEF In, Spots
    <3>5. Fine(z, g[z])
      BY <2>4, <3>4
    <3>6. g[y] = {Below(name, pl) : pl \in g[z]}
      <4>1. g[y] = Under(name, g[z])
        BY <2>6, <3>1, MapPlaces
      <4> QED
        BY <4>1, UnderIs
    <3>7. name # None
      BY <3>1, LayoutAssumption DEF handle_value
    <3>8. \A pl \in g[z] : IsPlace(Below(name, pl))
      BY <3>5, <3>7, PlaceBelow DEF Fine
    <3>9. ~NoMap(y.type)
      BY <2>6 DEF NoMap
    <3> QED
      BY <2>2, <3>6, <3>8, <3>9 DEF Fine
  <2>7. CASE y.type.kind = "struct"
    <3>1. ASSUME NEW b \in g[y] PROVE IsPlace(b) /\ (NoMap(y.type) => b.structMap = None)
      <4>1. b \in StructPlaces(y, g)
        BY <2>7, PlacesIn
      <4>2. PICK m \in Members(y.type, y.plus) : \E pl0 \in Under(m.label, g[In(m.type, m.offset, y.plus - m.slot, y.pos)]) :
               b = InStruct(pl0, m, y.plus)
        BY <4>1 DEF StructPlaces
      <4>3. PICK pl0 \in Under(m.label, g[In(m.type, m.offset, y.plus - m.slot, y.pos)]) : b = InStruct(pl0, m, y.plus)
        BY <4>2
      <4>4. PICK z : z = In(m.type, m.offset, y.plus - m.slot, y.pos)
        OBVIOUS
      <4>5. z \in Spots /\ z.type = m.type /\ m \in y.type.members
        BY <2>7, <4>4, SpotOf
      <4>6. Fine(z, g[z])
        BY <2>3, <2>4, <2>7, <4>5, NoMapParts
      <4>7. PICK pl \in g[z] : pl0 = Below(m.label, pl)
        BY <4>3, <4>4, UnderIs
      <4>8. m.label # None
        BY <2>3, <4>5 DEF Sound
      <4>9. IsPlace(pl0) /\ pl0.structMap = pl.structMap
        BY <4>6, <4>7, <4>8, PlaceBelow DEF Fine
      <4>10. IsPlace(b) /\ b.structMap = IF m.type.kind = "map" THEN m.type.key ELSE pl0.structMap
        BY <4>3, <4>9, PlaceInStruct
      <4>11. ASSUME NoMap(y.type) PROVE b.structMap = None
        <5>1. NoMap(m.type)
          BY <2>3, <2>7, <4>5, <4>11, NoMapParts
        <5> QED
          BY <4>5, <4>6, <4>7, <4>9, <4>10, <5>1 DEF Fine, NoMap
      <4> QED
        BY <4>10, <4>11
    <3> QED
      BY <2>2, <3>1 DEF Fine
  <2> QED
    BY <2>3, <2>5, <2>6, <2>7 DEF Sound
<1>3. ASSUME NEW y \in Spots PROVE Fine(y, g[y])
  <2>1. rank[y.type] \in Nat
    BY <1>1 DEF Ranked, Spots
  <2> QED
    BY <1>2, <2>1
<1> QED
  BY <1>3

-----------------------------------------------------------------------------
(***************************************************************************)
(* A mapping in a struct: its key is looked for one step too far.          *)
(***************************************************************************)
ShownOf(x, f, m) == Under(m.label, f[At(m.type, x.pos + 1, m.offset)])
PlacesUnder(y, g, m) == {InStruct(pl, m, y.plus) : pl \in Under(m.label, g[In(m.type, m.offset, y.plus - m.slot, y.pos)])}

LEMMA KeylessIs ==
  IsEntry(Keyless) /\ Keyless.keyless = TRUE
<1>1. Keyless.path = <<>> /\ Keyless.keyless = TRUE /\ Keyless.original = {} /\ Keyless.dirty = {}
  BY DEF Keyless
<1>2. Sequence(Keyless.path)
  BY <1>1, NoPath
<1> QED
  BY <1>1, <1>2 DEF IsEntry, Keyless

One(h) == <<h>> \o <<>>

LEMMA OneIs ==
  ASSUME NEW h
  PROVE  /\ \A p : p = <<>> => <<h>> \o p = One(h)
         /\ Sequence(One(h)) /\ Len(One(h)) = 1 /\ (HasNone(One(h)) <=> h = None)
<1>1. PICK p : p = <<>>
  OBVIOUS
<1>2. Sequence(p) /\ Len(p) = 0 /\ ~HasNone(p)
  BY <1>1, NoPath
<1>3. One(h) = <<h>> \o p
  BY <1>1 DEF One
<1>4. /\ Sequence(<<h>> \o p) /\ Len(<<h>> \o p) = Len(p) + 1
      /\ HasNone(<<h>> \o p) <=> h = None \/ HasNone(p)
  BY <1>2, OneLonger
<1>5. Sequence(One(h)) /\ Len(One(h)) = 1 /\ (HasNone(One(h)) <=> h = None)
  BY <1>2, <1>3, <1>4
<1>6. \A q : q = <<>> => <<h>> \o q = One(h)
  BY <1>1, <1>3
<1> QED
  BY <1>5, <1>6

OnlyPlace(ps, label, k, key) ==
  \E b : /\ ps = {b} /\ IsPlace(b) /\ b.structMap = k
         /\ b.path = <<label>> \o One(handle_value(k, key))

\* The only place of such a mapping, and where on the path it is.
LEMMA MapMemberPlace ==
  ASSUME SimpleStructs, NEW c, NEW path, NEW words, NEW f, NEW g, Setting(c, path, words, f, g),
         NEW y \in Spots, y.type.kind = "struct", NEW m \in y.type.members, m.type.kind = "map", y.plus = m.slot,
         m.type.value.kind \in {"leaf", "array"}, g[In(m.type, m.offset, y.plus - m.slot, y.pos)] # {}
  PROVE  /\ y.pos <= Steps(c) /\ KeyAt(c, y.pos) # None
         /\ y.pos + 1 > Steps(c) \/ (y.pos + 1 = Steps(c) /\ KeyAt(c, y.pos + 1) = None)
         /\ OnlyPlace(PlacesUnder(y, g, m), m.label, m.type.key, KeyAt(c, y.pos))
<1>1. PICK p, k, w, n : p = y.pos /\ k = m.type.key /\ w = m.type.value /\ n = Steps(c)
  OBVIOUS
<1>2. /\ y.type \in Types /\ p \in Nat \ {0} /\ y.plus \in Nat /\ m.slot \in Nat /\ m.offset \in Nat
      /\ m.type \in Types /\ w \in Types /\ w.kind \in {"leaf", "array"} /\ m.label # None /\ k # None
      /\ n \in Nat
  <2>1. y.type \in Types /\ p \in Nat \ {0} /\ y.plus \in Nat
    BY <1>1 DEF Spots
  <2>2. m.slot \in Nat /\ m.offset \in Nat /\ m.label # None
    BY <2>1, SoundTypes DEF Sound, LaidOut
  <2>3. m.type \in Types /\ w \in Types /\ w.kind \in {"leaf", "array"}
    BY <1>1, <2>1, NoMapParts
  <2>4. k # None
    BY <1>1, <2>3, SoundTypes DEF Sound
  <2>5. n \in Nat
    BY <1>1, CellAt DEF Setting
  <2> QED
    BY <2>1, <2>2, <2>3, <2>4, <2>5
<1>3. PICK y2 : y2 = In(m.type, m.offset, y.plus - m.slot, y.pos)
  OBVIOUS
<1>4. y2 \in Spots /\ y2.type = m.type /\ y2.pos = p /\ y2.plus = 0 /\ g[y2] # {}
  <2>1. y.plus - m.slot = 0
    BY <1>2
  <2> QED
    BY <1>1, <1>2, <1>3, <2>1 DEF In, Spots
<1>5. PICK h, y3 : h = handle_value(k, KeyAt(c, p)) /\ y3 = In(w, 0, PlusAt(c, p), p + 1)
  OBVIOUS
<1>6. ~(p > n) /\ KeyAt(c, p) # None /\ g[y2] = Under(h, g[y3])
  BY <1>1, <1>4, <1>5, MapPlaces
<1>7. y3 \in Spots /\ y3.type = w /\ y3.pos = p + 1
  <2>1. PlusAt(c, p) \in Nat
    BY <1>1, <1>2, <1>6, CellAt DEF Setting
  <2> QED
    BY <1>2, <1>5, <2>1 DEF In, Spots
<1>8. g[y3] # {}
  BY <1>4, <1>6, UnderIs
<1>9. PICK pl : pl = PlainPlace(w, y3.offset, y3.plus)
  OBVIOUS
<1>10. g[y3] = {pl} /\ (p + 1 > n \/ (p + 1 = n /\ KeyAt(c, p + 1) = None))
  <2>1. CASE w.kind = "leaf"
    <3>1. g[y3] = IF y3.plus = 0 /\ y3.pos > Steps(c) THEN {PlainPlace(y3.type, y3.offset, y3.plus)} ELSE {}
      BY <1>7, <2>1, PlacesIn
    <3> QED
      BY <1>1, <1>7, <1>8, <1>9, <3>1
  <2>2. CASE w.kind = "array"
    <3>1. g[y3] = IF ArrayAt(y3, c) THEN {PlainPlace(y3.type, y3.offset, y3.plus)} ELSE {}
      BY <1>7, <2>2, PlacesIn
    <3>2. ArrayAt(y3, c) /\ g[y3] = {pl}
      BY <1>7, <1>8, <1>9, <3>1
    <3> QED
      BY <1>1, <1>7, <3>2 DEF ArrayAt, AtEnd
  <2> QED
    BY <1>2, <2>1, <2>2
<1>11. IsPlace(pl) /\ pl.path = <<>>
  BY <1>9, PlainPlaceIs
<1>12. h # None
  BY <1>5, <1>6, LayoutAssumption DEF handle_value
<1>13. PICK a : a = Below(h, pl)
  OBVIOUS
<1>14. IsPlace(a) /\ a.path = One(h)
  BY <1>11, <1>12, <1>13, PlaceBelow, OneIs
<1>15. PICK d : d = Below(m.label, a)
  OBVIOUS
<1>16. IsPlace(d) /\ d.path = <<m.label>> \o One(h)
  BY <1>2, <1>14, <1>15, PlaceBelow
<1>17. PICK b : b = InStruct(d, m, y.plus)
  OBVIOUS
<1>18. IsPlace(b) /\ b.path = d.path /\ b.structMap = k
  BY <1>1, <1>16, <1>17, PlaceInStruct
<1>19. PlacesUnder(y, g, m) = {b}
  <2>1. g[y2] = {a}
    BY <1>6, <1>10, <1>13, UnderIs
  <2>2. Under(m.label, g[y2]) = {d}
    BY <1>15, <2>1, UnderIs
  <2> QED
    BY <1>3, <1>17, <2>2 DEF PlacesUnder
<1>20. /\ PlacesUnder(y, g, m) = {b} /\ IsPlace(b) /\ b.structMap = m.type.key
       /\ b.path = <<m.label>> \o One(handle_value(m.type.key, KeyAt(c, y.pos)))
  BY <1>1, <1>5, <1>16, <1>18, <1>19
<1>21. y.pos <= Steps(c) /\ KeyAt(c, y.pos) # None
  BY <1>1, <1>2, <1>6
<1>22. y.pos + 1 > Steps(c) \/ (y.pos + 1 = Steps(c) /\ KeyAt(c, y.pos + 1) = None)
  BY <1>1, <1>10
<1> QED
  BY <1>20, <1>21, <1>22 DEF OnlyPlace

LEMMA MapMemberGood ==
  ASSUME SimpleStructs, NEW c, NEW path, NEW words, NEW f, NEW g, Setting(c, path, words, f, g),
         NEW x \in Points, NEW y \in Spots, x.type = y.type, x.pos = y.pos,
         y.type.kind = "struct", NEW m \in y.type.members, m.type.kind = "map", y.plus = m.slot,
         m.type.value.kind \in {"leaf", "array"}, g[In(m.type, m.offset, y.plus - m.slot, y.pos)] # {}
  PROVE  Good(ShownOf(x, f, m), PlacesUnder(y, g, m), words, c)
<1>1. PICK p, k, w, n : p = y.pos /\ k = m.type.key /\ w = m.type.value /\ n = Steps(c)
  OBVIOUS
<1>2. /\ p <= n /\ KeyAt(c, p) # None
      /\ p + 1 > n \/ (p + 1 = n /\ KeyAt(c, p + 1) = None)
  BY <1>1, MapMemberPlace
<1>3. OnlyPlace(PlacesUnder(y, g, m), m.label, m.type.key, KeyAt(c, y.pos))
  BY MapMemberPlace
<1>4. PICK b : /\ PlacesUnder(y, g, m) = {b} /\ IsPlace(b) /\ b.structMap = m.type.key
               /\ b.path = <<m.label>> \o One(handle_value(m.type.key, KeyAt(c, y.pos)))
  BY <1>3 DEF OnlyPlace
<1>5. /\ PlacesUnder(y, g, m) = {b} /\ IsPlace(b) /\ b.structMap = k
      /\ b.path = <<m.label>> \o One(handle_value(k, KeyAt(c, p)))
  BY <1>1, <1>4
<1>6. /\ y.type \in Types /\ p \in Nat \ {0} /\ m.offset \in Nat
      /\ m.type \in Types /\ w \in Types /\ w.kind \in {"leaf", "array"} /\ k # None
      /\ n \in Nat
  <2>1. y.type \in Types /\ p \in Nat \ {0}
    BY <1>1 DEF Spots
  <2>2. m.offset \in Nat
    BY <2>1, SoundTypes DEF Sound, LaidOut
  <2>3. m.type \in Types /\ w \in Types /\ w.kind \in {"leaf", "array"}
    BY <1>1, <2>1, NoMapParts
  <2>4. k # None
    BY <1>1, <2>3, SoundTypes DEF Sound
  <2>5. n \in Nat
    BY <1>1, CellAt DEF Setting
  <2> QED
    BY <2>1, <2>2, <2>3, <2>4, <2>5
<1>7. PICK x2 : x2 = At(m.type, x.pos + 1, m.offset)
  OBVIOUS
<1>8. x2 \in Points /\ x2.type = m.type /\ x2.pos = p + 1
  BY <1>1, <1>6, <1>7 DEF At, Points
<1>9. ShownOf(x, f, m) = Under(m.label, f[x2])
  BY <1>7 DEF ShownOf
<1>10. /\ p + 1 > n \/ Unreadable(k, path[p + 1].key) => f[x2] = {Keyless}
       /\ ~(p + 1 > n \/ Unreadable(k, path[p + 1].key)) =>
            f[x2] = Under(handle_value(k, path[p + 1].key), f[At(w, p + 1 + 1, path[p + 1].plus)])
  BY <1>1, <1>8, MapShown
<1>11. ASSUME f[x2] = {Keyless}, Lost(c, b) PROVE Good(ShownOf(x, f, m), {b}, words, c)
  <2>1. PICK e : e = Below(m.label, Keyless)
    OBVIOUS
  <2>2. IsEntry(e) /\ e.keyless = TRUE
    BY <2>1, KeylessIs, EntryBelow
  <2>3. ShownOf(x, f, m) = {e}
    BY <1>9, <1>11, <2>1, UnderIs
  <2>4. Good({e}, {b}, words, c)
    BY <1>5, <1>6, <1>11, <2>2 DEF Good
  <2> QED
    BY <2>3, <2>4
<1>12. CASE p + 1 > n
  <2>1. p = n
    BY <1>2, <1>6, <1>12
  <2>2. Lost(c, b)
    BY <1>1, <1>2, <1>5, <1>6, <2>1 DEF Lost
  <2>3. f[x2] = {Keyless}
    BY <1>10, <1>12
  <2>4. Good(ShownOf(x, f, m), {b}, words, c)
    BY <1>11, <2>2, <2>3
  <2> QED
    BY <1>5, <2>4
<1>13. CASE p + 1 = n /\ KeyAt(c, p + 1) = None
  <2>1. path[p + 1].key = None /\ path[p + 1].plus \in Nat
    <3>1. p + 1 \in 2 .. n /\ p + 1 \in 1 .. n
      BY <1>6, <1>13
    <3>2. path[p + 1].key = KeyAt(c, p + 1)
      BY <1>1, <3>1 DEF Setting, PathOf
    <3>3. Len(path) = n
      BY <1>1 DEF Setting, PathOf
    <3> QED
      BY <1>13, <3>1, <3>2, <3>3 DEF Setting, IsPath
  <2>2. Lost(c, b) <=> Unreadable(k, None)
    BY <1>1, <1>5, <1>6, <1>13 DEF Lost
  <2>3. CASE Unreadable(k, None)
    <3>1. f[x2] = {Keyless}
      BY <1>10, <2>1, <2>3
    <3>2. Good(ShownOf(x, f, m), {b}, words, c)
      BY <1>11, <2>2, <2>3, <3>1
    <3> QED
      BY <1>5, <3>2
  <2>4. CASE ~Unreadable(k, None)
    <3>1. PICK h, x3 : h = handle_value(k, None) /\ x3 = At(w, p + 1 + 1, path[p + 1].plus)
      OBVIOUS
    <3>2. f[x2] = Under(h, f[x3])
      BY <1>6, <1>10, <1>13, <2>1, <2>4, <3>1
    <3>3. x3 \in Points /\ x3.type = w
      BY <1>6, <2>1, <3>1 DEF At, Points
    <3>4. PICK d : d = PlainEntry(Leaf(w.label, w.bytes), x3.offset, words)
      OBVIOUS
    <3>5. f[x3] = {d}
      BY <1>6, <3>3, <3>4, ShownIn
    <3>6. IsEntry(d) /\ d.path = <<>> /\ d.keyless = FALSE
      BY <3>4, NoPath DEF IsEntry, PlainEntry
    <3>7. PICK a : a = Below(h, d)
      OBVIOUS
    <3>8. IsEntry(a) /\ a.path = One(h) /\ a.keyless = FALSE
      BY <3>6, <3>7, EntryBelow, OneIs
    <3>9. PICK e : e = Below(m.label, a)
      OBVIOUS
    <3>10. IsEntry(e) /\ e.path = <<m.label>> \o One(h) /\ e.keyless = FALSE
      BY <3>8, <3>9, EntryBelow
    <3>11. ShownOf(x, f, m) = {e}
      <4>1. f[x2] = {a}
        BY <3>2, <3>5, <3>7, UnderIs
      <4> QED
        BY <1>9, <3>9, <4>1, UnderIs
    <3>12. PICK j : j = handle_value(k, KeyAt(c, p))
      OBVIOUS
    <3>13. Len(e.path) = Len(b.path)
      <4>1. Len(One(h)) = 1 /\ Len(One(j)) = 1 /\ Sequence(One(h)) /\ Sequence(One(j))
        BY OneIs
      <4>2. /\ Len(<<m.label>> \o One(h)) = Len(One(h)) + 1
            /\ Len(<<m.label>> \o One(j)) = Len(One(j)) + 1
        BY <4>1, OneLonger
      <4> QED
        BY <1>5, <3>10, <3>12, <4>1, <4>2
    <3>14. b.path = e.path \/ HasNone(e.path)
      <4>1. CASE k = "bool"
        <5>1. h = j
          BY <3>1, <3>12, <4>1 DEF handle_value
        <5> QED
          BY <1>5, <3>10, <3>12, <5>1
      <4>2. CASE k # "bool"
        <5>1. h = None
          BY <3>1, <4>2 DEF handle_value
        <5>2. HasNone(One(h)) /\ Sequence(One(h))
          BY <5>1, OneIs
        <5> QED
          BY <3>10, <5>2, OneLonger
      <4> QED
        BY <4>1, <4>2
    <3>15. Matches(e, b, words)
      BY <1>5, <1>6, <3>13, <3>14 DEF Matches
    <3>16. Good({e}, {b}, words, c)
      BY <1>5, <1>6, <2>2, <2>4, <3>10, <3>15 DEF Good
    <3> QED
      BY <1>5, <3>11, <3>16
  <2> QED
    BY <2>3, <2>4
<1> QED
  BY <1>2, <1>12, <1>13

\* The places of such a mapping to structs: no step of the path follows its key.
LEMMA StructMapGood ==
  ASSUME SimpleStructs, NEW c, NEW path, NEW words, NEW f, NEW g, Setting(c, path, words, f, g),
         NEW x \in Points, NEW y \in Spots, x.type = y.type, x.pos = y.pos,
         y.type.kind = "struct", NEW m \in y.type.members, m.type.kind = "map", y.plus = m.slot,
         Ends(m.type.value), g[In(m.type, m.offset, y.plus - m.slot, y.pos)] # {}
  PROVE  Good(ShownOf(x, f, m), PlacesUnder(y, g, m), words, c)
<1>1. PICK p, k, w, n : p = y.pos /\ k = m.type.key /\ w = m.type.value /\ n = Steps(c)
  OBVIOUS
<1>2. /\ y.type \in Types /\ p \in Nat \ {0} /\ y.plus \in Nat /\ m.slot \in Nat /\ m.offset \in Nat
      /\ m.type \in Types /\ w \in Types /\ m.label # None /\ k # None /\ n \in Nat
  <2>1. y.type \in Types /\ p \in Nat \ {0} /\ y.plus \in Nat
    BY <1>1 DEF Spots
  <2>2. m.slot \in Nat /\ m.offset \in Nat /\ m.label # None
    BY <2>1, SoundTypes DEF Sound, LaidOut
  <2>3. m.type \in Types /\ w \in Types
    BY <1>1, <2>1, NoMapParts
  <2>4. k # None
    BY <1>1, <2>3, SoundTypes DEF Sound
  <2>5. n \in Nat
    BY <1>1, CellAt DEF Setting
  <2> QED
    BY <2>1, <2>2, <2>3, <2>4, <2>5
<1>3. PICK y2 : y2 = In(m.type, m.offset, y.plus - m.slot, y.pos)
  OBVIOUS
<1>4. y2 \in Spots /\ y2.type = m.type /\ y2.pos = p /\ y2.plus = 0 /\ g[y2] # {}
  <2>1. y.plus - m.slot = 0
    BY <1>2
  <2> QED
    BY <1>1, <1>2, <1>3, <2>1 DEF In, Spots
<1>5. PICK y3 : y3 = In(w, 0, PlusAt(c, p), p + 1)
  OBVIOUS
<1>6. ~(p > n) /\ KeyAt(c, p) # None /\ g[y3] # {}
  <2>1. ~(p > n) /\ KeyAt(c, p) # None /\ g[y2] = Under(handle_value(k, KeyAt(c, p)), g[y3])
    BY <1>1, <1>4, <1>5, MapPlaces
  <2> QED
    BY <1>4, <2>1, UnderIs
<1>7. y3 \in Spots /\ y3.type = w /\ y3.pos = p + 1
  <2>1. PlusAt(c, p) \in Nat
    BY <1>1, <1>2, <1>6, CellAt DEF Setting
  <2> QED
    BY <1>2, <1>5, <2>1 DEF In, Spots
<1>8. p = n
  <2>1. w.kind = "struct" /\ g[y3] = StructPlaces(y3, g)
    <3>1. w.kind = "struct"
      BY <1>1 DEF Ends
    <3>2. y3.type.kind = "struct"
      BY <1>7, <3>1
    <3> QED
      BY <1>7, <3>1, <3>2, PlacesIn
  <2>2. PICK o \in Members(w, y3.plus) : Under(o.label, g[In(o.type, o.offset, y3.plus - o.slot, y3.pos)]) # {}
    BY <1>6, <1>7, <2>1 DEF StructPlaces
  <2>3. PICK z : z = In(o.type, o.offset, y3.plus - o.slot, y3.pos)
    OBVIOUS
  <2>4. g[z] # {}
    BY <2>2, <2>3, UnderIs
  <2>5. z \in Spots /\ z.type = o.type /\ o \in w.members
    BY <1>7, <2>1, <2>3, SpotOf
  <2>6. z.pos = p + 1
    BY <1>7, <2>3 DEF In
  <2>7. o.type.kind = "leaf" \/ (o.type.kind = "array" /\ o.type.dims # 0)
    BY <1>1, <2>1, <2>5, PartIs DEF Ends
  <2>8. p + 1 > n
    <3>1. CASE o.type.kind = "leaf"
      <4>1. g[z] = IF z.plus = 0 /\ z.pos > Steps(c) THEN {PlainPlace(z.type, z.offset, z.plus)} ELSE {}
        BY <2>5, <3>1, PlacesIn
      <4> QED
        BY <1>1, <2>4, <2>6, <4>1
    <3>2. CASE o.type.kind = "array" /\ o.type.dims # 0
      <4>1. g[z] = IF ArrayAt(z, c) THEN {PlainPlace(z.type, z.offset, z.plus)} ELSE {}
        BY <2>5, <3>2, PlacesIn
      <4>2. ArrayAt(z, c)
        BY <2>4, <4>1
      <4> QED
        BY <1>1, <2>5, <2>6, <3>2, <4>2 DEF ArrayAt, AtEnd
    <3> QED
      BY <2>7, <3>1, <3>2
  <2> QED
    BY <1>2, <1>6, <2>8
<1>9. PICK e : e = Below(m.label, Keyless)
  OBVIOUS
<1>10. IsEntry(e) /\ e.keyless = TRUE
  BY <1>9, KeylessIs, EntryBelow
<1>11. ShownOf(x, f, m) = {e}
  <2>1. PICK x2 : x2 = At(m.type, x.pos + 1, m.offset)
    OBVIOUS
  <2>2. x2 \in Points /\ x2.type = m.type /\ x2.pos = p + 1
    BY <1>1, <1>2, <2>1 DEF At, Points
  <2>3. x2.pos > Steps(c)
    BY <1>1, <1>2, <1>8, <2>2
  <2>4. f[x2] = {Keyless}
    BY <2>2, <2>3, MapShown
  <2> QED
    BY <1>9, <2>1, <2>4, UnderIs DEF ShownOf
<1>12. PICK ps : ps = PlacesUnder(y, g, m)
  OBVIOUS
<1>13. ps = {InStruct(pl, m, y.plus) : pl \in Under(m.label, g[y2])}
  BY <1>3, <1>12 DEF PlacesUnder
<1>14. ps # {}
  BY <1>4, <1>13, UnderIs
<1>15. ASSUME NEW b \in ps PROVE IsPlace(b) /\ b.structMap = k
  <2>1. PICK d \in Under(m.label, g[y2]) : b = InStruct(d, m, y.plus)
    BY <1>13
  <2>2. PICK a \in g[y2] : d = Below(m.label, a)
    BY UnderIs
  <2>3. IsPlace(a)
    BY <1>4, PlacesFine DEF Fine
  <2>4. IsPlace(d)
    BY <1>2, <2>2, <2>3, PlaceBelow
  <2> QED
    BY <1>1, <2>1, <2>4, PlaceInStruct
<1>16. ASSUME NEW b \in ps PROVE Lost(c, b)
  BY <1>1, <1>2, <1>6, <1>8, <1>15 DEF Lost
<1>17. Good({e}, ps, words, c)
  BY <1>2, <1>10, <1>14, <1>15, <1>16 DEF Good
<1> QED
  BY <1>11, <1>12, <1>17

-----------------------------------------------------------------------------
(***************************************************************************)
(* Where the two recursions are at the same part, it is shown right.       *)
(***************************************************************************)
Aligned(x, y) ==
  /\ x.type = y.type /\ x.pos >= 2 /\ (x.pos = y.pos \/ NoMap(y.type))
  /\ y.plus = 0 => x.offset = y.offset
  /\ y.type.kind = "struct" => x.offset = y.plus

LEMMA WordsOf == ASSUME NEW n \in Nat \ {0}
                 PROVE  (n + 31) \div 32 \in Nat /\ (n + 31) \div 32 >= 1 /\ (n <= 32 => (n + 31) \div 32 = 1)
  OBVIOUS

LEMMA MemberWords ==
  ASSUME NEW t \in Types, t.kind = "struct", NEW m \in t.members
  PROVE  Words(m) \in Nat /\ Words(m) >= 1 /\ (m.type.kind = "map" => Words(m) = 1) /\ m.slot \in Nat
<1>1. m.type \in Types /\ m.slot \in Nat
  BY SoundTypes DEF Sound, LaidOut
<1>2. PICK n : n = m.type.bytes
  OBVIOUS
<1>3. n \in Nat \ {0} /\ (m.type.kind = "map" => n <= 32)
  BY <1>1, <1>2, SoundTypes DEF Sound
<1>4. Words(m) = (n + 31) \div 32
  BY <1>2 DEF Words
<1> QED
  BY <1>1, <1>3, <1>4, WordsOf

\* What spans a word in which a member begins begins in it too.
LEMMA SameSlot ==
  ASSUME NEW t \in Types, t.kind = "struct", NEW plus \in Nat, NEW m \in t.members, m.slot = plus
  PROVE  /\ Members(t, plus) = {n \in t.members : n.slot = plus}
         /\ \A n \in Members(t, plus) : n # m => n.type.kind = "leaf" /\ m.type.kind = "leaf"
<1>1. LaidOut(t.members)
  BY SoundTypes DEF Sound
<1>2. ASSUME NEW n \in Members(t, plus) PROVE n \in t.members /\ n.slot = plus
  <2>1. n \in t.members /\ n.slot <= plus /\ plus < n.slot + Words(n)
    BY DEF Members, Spans
  <2>2. n.slot \in Nat /\ Words(n) \in Nat
    BY <2>1, MemberWords
  <2>3. ~(n.slot < plus)
    <3> SUFFICES ASSUME n.slot < plus PROVE FALSE
      OBVIOUS
    <3>1. n # m
      BY <2>2
    <3>2. n.slot + Words(n) <= plus
      BY <1>1, <2>1, <3>1 DEF LaidOut
    <3> QED
      BY <2>1, <2>2, <3>2
  <2> QED
    BY <2>1, <2>2, <2>3
<1>3. ASSUME NEW n \in t.members, n.slot = plus PROVE n \in Members(t, plus)
  <2>1. Words(n) \in Nat /\ Words(n) >= 1
    BY MemberWords
  <2>2. n.slot <= plus /\ plus < n.slot + Words(n)
    BY <1>3, <2>1
  <2> QED
    BY <2>2 DEF Members, Spans
<1>4. ASSUME NEW n \in Members(t, plus), n # m PROVE n.type.kind = "leaf" /\ m.type.kind = "leaf"
  BY <1>1, <1>2, <1>4 DEF LaidOut
<1> QED
  BY <1>2, <1>3, <1>4

AllGood(t, words, c, f, g) ==
  \A x \in Points, y \in Spots : y.type \in Parts(t) /\ Aligned(x, y) /\ g[y] # {} => Good(f[x], g[y], words, c)

LEMMA MemberGood ==
  ASSUME SimpleStructs, NEW c, NEW path, NEW words, NEW f, NEW g, Setting(c, path, words, f, g),
         NEW x \in Points, NEW y \in Spots, Aligned(x, y), y.type.kind = "struct", AllGood(y.type, words, c, f, g),
         NEW m \in Members(y.type, y.plus), m.slot = y.plus,
         g[In(m.type, m.offset, y.plus - m.slot, y.pos)] # {}
  PROVE  Good(ShownOf(x, f, m), PlacesUnder(y, g, m), words, c)
<1>1. PICK z : z = In(m.type, m.offset, y.plus - m.slot, y.pos)
  OBVIOUS
<1>2. /\ z \in Spots /\ z.type = m.type /\ m \in y.type.members /\ m.slot \in Nat /\ m.offset \in Nat
      /\ y.type \in Types /\ g[z] # {}
  BY <1>1, SpotOf DEF Spots
<1>3. CASE m.type.kind = "map"
  <2>1. ~NoMap(y.type)
    BY <1>2, <1>3, NoMapParts DEF NoMap
  <2>2. x.type = y.type /\ x.pos = y.pos
    BY <2>1 DEF Aligned
  <2>3. m.type.value.kind \in {"leaf", "array"} \/ Ends(m.type.value)
    BY <1>2, <1>3, NoMapParts
  <2> QED
    BY <1>2, <1>3, <2>2, <2>3, MapMemberGood, StructMapGood
<1>4. CASE m.type.kind # "map"
  <2>1. PICK u : u = At(m.type, x.pos + 1, m.offset)
    OBVIOUS
  <2>2. m.type \in Types /\ m.type \in Parts(y.type) /\ NoMap(m.type)
    BY <1>2, <1>4, NoMapParts
  <2>3. x.pos \in Nat /\ x.pos >= 2
    BY DEF Points, Aligned
  <2>4. u \in Points /\ u.type = m.type /\ u.pos >= 2 /\ u.offset = m.offset
    BY <1>2, <2>1, <2>2, <2>3 DEF At, Points
  <2>5. z.plus = 0 /\ z.offset = m.offset
    BY <1>1, <1>2 DEF In
  <2>6. m.type.kind = "struct" => m.offset = 0
    BY <1>2, SoundTypes DEF Sound, LaidOut
  <2>7. Aligned(u, z)
    BY <1>2, <2>2, <2>4, <2>5, <2>6 DEF Aligned
  <2>8. Good(f[u], g[z], words, c)
    BY <1>2, <2>2, <2>4, <2>7 DEF AllGood
  <2>9. m.label # None
    BY <1>2, SoundTypes DEF Sound
  <2>10. Good(Under(m.label, f[u]), Under(m.label, g[z]), words, c)
    BY <2>8, <2>9, UnderGood
  <2>11. ASSUME NEW b \in Under(m.label, g[z]) PROVE InStruct(b, m, y.plus) = b
    <3>1. IsPlace(b)
      BY <2>10 DEF Good
    <3>2. ~(y.plus > m.slot)
      BY <1>2
    <3> QED
      BY <1>4, <3>1, <3>2, PlaceInStruct
  <2>12. PlacesUnder(y, g, m) = Under(m.label, g[z])
    BY <1>1, <2>11 DEF PlacesUnder
  <2>13. ShownOf(x, f, m) = Under(m.label, f[u])
    BY <2>1 DEF ShownOf
  <2> QED
    BY <2>10, <2>12, <2>13
<1> QED
  BY <1>3, <1>4

LEMMA StructGood ==
  ASSUME SimpleStructs, NEW c, NEW path, NEW words, NEW f, NEW g, Setting(c, path, words, f, g),
         NEW x \in Points, NEW y \in Spots, Aligned(x, y), y.type.kind = "struct", AllGood(y.type, words, c, f, g),
         g[y] # {}
  PROVE  Good(f[x], g[y], words, c)
<1> DEFINE At0 == {m \in y.type.members : m.slot = y.plus}
<1>1. y.type \in Types /\ y.plus \in Nat /\ x.type = y.type /\ x.offset = y.plus
  BY DEF Spots, Aligned
<1>2. f[x] = UNION {ShownOf(x, f, m) : m \in At0}
  BY <1>1, ShownIn DEF ShownOf
<1>3. g[y] = UNION {PlacesUnder(y, g, m) : m \in Members(y.type, y.plus)}
  BY PlacesIn DEF StructPlaces, PlacesUnder
<1>4. PICK m1 \in Members(y.type, y.plus) : PlacesUnder(y, g, m1) # {}
  BY <1>3
<1>5. g[In(m1.type, m1.offset, y.plus - m1.slot, y.pos)] # {}
  BY <1>4, UnderIs DEF PlacesUnder
<1>6. CASE At0 # {}
  <2>1. PICK m0 \in At0 : TRUE
    BY <1>6
  <2>2. Members(y.type, y.plus) = At0
    BY <1>1, <2>1, SameSlot
  <2>3. ASSUME NEW m \in At0 PROVE g[In(m.type, m.offset, y.plus - m.slot, y.pos)] # {}
    <3>1. CASE m = m1
      BY <1>5, <3>1
    <3>2. CASE m # m1
      <4>1. m.type.kind = "leaf" /\ m1.type.kind = "leaf"
        BY <1>1, <1>4, <2>2, <3>2, SameSlot
      <4>2. PICK z, z1 : z = In(m.type, m.offset, y.plus - m.slot, y.pos)
                         /\ z1 = In(m1.type, m1.offset, y.plus - m1.slot, y.pos)
        OBVIOUS
      <4>3. z \in Spots /\ z.type = m.type /\ z1 \in Spots /\ z1.type = m1.type
        BY <1>4, <2>2, <4>2, SpotOf
      <4>4. z.plus = 0 /\ z.pos = y.pos /\ z1.pos = y.pos
        BY <1>1, <4>2 DEF In
      <4>5. g[z1] = IF z1.plus = 0 /\ z1.pos > Steps(c) THEN {PlainPlace(z1.type, z1.offset, z1.plus)} ELSE {}
        BY <4>1, <4>3, PlacesIn
      <4>6. z1.pos > Steps(c)
        BY <1>5, <4>2, <4>5
      <4>7. g[z] = IF z.plus = 0 /\ z.pos > Steps(c) THEN {PlainPlace(z.type, z.offset, z.plus)} ELSE {}
        BY <4>1, <4>3, PlacesIn
      <4> QED
        BY <4>2, <4>4, <4>6, <4>7
    <3> QED
      BY <3>1, <3>2
  <2>4. ASSUME NEW m \in At0 PROVE Good(ShownOf(x, f, m), PlacesUnder(y, g, m), words, c)
    BY <2>2, <2>3, MemberGood
  <2>5. PICK M : M = At0
    OBVIOUS
  <2>6. PICK E, P : E = [m \in M |-> ShownOf(x, f, m)] /\ P = [m \in M |-> PlacesUnder(y, g, m)]
    OBVIOUS
  <2>7. \A m \in M : E[m] = ShownOf(x, f, m) /\ P[m] = PlacesUnder(y, g, m)
    BY <2>6
  <2>8. \A m \in M : Good(E[m], P[m], words, c)
    BY <2>4, <2>5, <2>7
  <2>9. \A e : e \in f[x] <=> \E m \in M : e \in E[m]
    BY <1>2, <2>5, <2>7
  <2>10. \A pl : pl \in g[y] <=> \E m \in M : pl \in P[m]
    BY <1>3, <2>2, <2>5, <2>7
  <2> QED
    BY <2>8, <2>9, <2>10, UnionGood
<1>7. CASE At0 = {}
  <2>1. f[x] = {}
    BY <1>2, <1>7
  <2>2. ASSUME NEW b \in g[y] PROVE IsPlace(b) /\ b.inner /\ b.structMap = None
    <3>1. PICK m \in Members(y.type, y.plus) : b \in PlacesUnder(y, g, m)
      BY <1>3
    <3>2. PICK z : z = In(m.type, m.offset, y.plus - m.slot, y.pos)
      OBVIOUS
    <3>3. z \in Spots /\ z.type = m.type /\ m \in y.type.members /\ m.slot \in Nat /\ m.slot <= y.plus
      BY <3>2, SpotOf
    <3>4. y.plus > m.slot
      BY <1>1, <1>7, <3>3
    <3>5. m.type.kind # "map"
      <4>1. y.plus < m.slot + Words(m)
        BY DEF Members, Spans
      <4>2. m.type.kind = "map" => Words(m) = 1
        BY <1>1, <3>3, MemberWords
      <4> QED
        BY <1>1, <3>3, <3>4, <4>1, <4>2
    <3>6. NoMap(m.type)
      BY <1>1, <3>3, <3>5, NoMapParts
    <3>7. PICK a \in Under(m.label, g[z]) : b = InStruct(a, m, y.plus)
      BY <3>1, <3>2 DEF PlacesUnder
    <3>8. PICK pl \in g[z] : a = Below(m.label, pl)
      BY <3>7, UnderIs
    <3>9. IsPlace(pl) /\ pl.structMap = None
      BY <3>3, <3>6, PlacesFine DEF Fine
    <3>10. m.label # None
      BY <1>1, <3>3, SoundTypes DEF Sound
    <3>11. IsPlace(a) /\ a.structMap = None
      BY <3>8, <3>9, <3>10, PlaceBelow
    <3> QED
      BY <3>4, <3>5, <3>7, <3>11, PlaceInStruct
  <2> QED
    BY <2>1, <2>2 DEF Good, Lost
<1> QED
  BY <1>6, <1>7

LEMMA AlignedGood ==
  ASSUME SimpleStructs, NEW c, NEW path, NEW words, NEW f, NEW g, Setting(c, path, words, f, g)
  PROVE  \A x \in Points, y \in Spots : Aligned(x, y) /\ g[y] # {} => Good(f[x], g[y], words, c)
<1>1. PICK rank, n : Ranked(rank, n)
  BY RankExists
<1> DEFINE Fits(y) == \A x \in Points : Aligned(x, y) /\ g[y] # {} => Good(f[x], g[y], words, c)
           T       == {k \in Nat : \E y \in Spots : rank[y.type] = k /\ ~Fits(y)}
<1>2. T = {}
  <2> SUFFICES ASSUME T # {} PROVE FALSE
    OBVIOUS
  <2>1. PICK k \in T : \A j \in T : k <= j
    BY LeastNumber
  <2>2. PICK y \in Spots : rank[y.type] = k /\ ~Fits(y)
    BY <2>1
  <2>3. PICK x \in Points : Aligned(x, y) /\ g[y] # {} /\ ~Good(f[x], g[y], words, c)
    BY <2>2
  <2>4. /\ y.type \in Types /\ Sound(y.type) /\ y.plus \in Nat /\ y.offset \in Nat /\ y.pos \in Nat \ {0} /\ k \in Nat
        /\ x.type = y.type /\ x.pos \in Nat /\ x.pos >= 2 /\ x.offset \in Nat
    BY <2>3, SoundTypes DEF Spots, Points, Aligned
  <2>5. AllGood(y.type, words, c, f, g)
    <3>1. ASSUME NEW z \in Spots, z.type \in Parts(y.type) PROVE Fits(z)
      <4>1. rank[z.type] \in Nat /\ rank[z.type] < k
        BY <1>1, <2>2, <2>4, <3>1 DEF Ranked
      <4>2. rank[z.type] \notin T
        BY <2>1, <4>1
      <4> QED
        BY <4>1, <4>2
    <3> QED
      BY <3>1 DEF AllGood
  <2>6. CASE y.type.kind \in {"leaf", "array"}
    <3>1. PICK u, b : u = Leaf(y.type.label, y.type.bytes) /\ b = PlainPlace(y.type, y.offset, y.plus)
      OBVIOUS
    <3>2. f[x] = {PlainEntry(u, x.offset, words)}
      BY <2>4, <2>6, <3>1, ShownIn
    <3>3. g[y] = {b}
      <4>1. CASE y.type.kind = "leaf"
        <5>1. g[y] = IF y.plus = 0 /\ y.pos > Steps(c) THEN {b} ELSE {}
          BY <3>1, <4>1, PlacesIn
        <5> QED
          BY <2>3, <5>1
      <4>2. CASE y.type.kind = "array"
        <5>1. g[y] = IF ArrayAt(y, c) THEN {b} ELSE {}
          BY <3>1, <4>2, PlacesIn
        <5> QED
          BY <2>3, <5>1
      <4> QED
        BY <2>6, <4>1, <4>2
    <3>4. u.label = y.type.label /\ u.bytes = y.type.bytes /\ y.type.bytes \in Nat
      BY <2>4, <3>1 DEF Leaf, Type, Sound
    <3>5. y.plus = 0 => x.offset = y.offset
      BY <2>3 DEF Aligned
    <3>6. IsWord(words.original) /\ IsWord(words.dirty)
      BY DEF Setting
    <3>7. Good({PlainEntry(u, x.offset, words)}, {PlainPlace(y.type, y.offset, y.plus)}, words, c)
      BY <2>4, <3>4, <3>5, <3>6, PlainGood
    <3> QED
      BY <2>3, <3>1, <3>2, <3>3, <3>7
  <2>7. CASE y.type.kind = "map"
    <3>1. x.pos = y.pos
      BY <2>3, <2>7 DEF Aligned, NoMap
    <3>2. PICK i, k0 : i = y.pos /\ k0 = KeyAt(c, i)
      OBVIOUS
    <3>3. PICK h, z, u : h = handle_value(y.type.key, k0) /\ z = In(y.type.value, 0, PlusAt(c, i), i + 1)
                         /\ u = At(y.type.value, i + 1, PlusAt(c, i))
      OBVIOUS
    <3>4. y.plus = 0 /\ ~(i > Steps(c)) /\ k0 # None /\ g[y] = Under(h, g[z])
      BY <2>3, <2>7, <3>2, <3>3, MapPlaces
    <3>5. Steps(c) \in Nat /\ PlusAt(c, i) \in Nat /\ i \in 2 .. Steps(c)
      BY <2>4, <3>1, <3>2, <3>4, CellAt DEF Setting
    <3>6. path[i].key = k0 /\ path[i].plus = PlusAt(c, i)
      BY <3>2, <3>5 DEF Setting, PathOf
    <3>7. f[x] = Under(h, f[u])
      <4>1. ~Unreadable(y.type.key, path[i].key)
        BY <3>4, <3>6 DEF Unreadable
      <4> QED
        BY <2>4, <2>7, <3>1, <3>2, <3>3, <3>4, <3>6, <4>1, MapShown
    <3>8. y.type.value \in Types /\ y.type.value \in Parts(y.type)
      BY <2>4, <2>7, PartIs DEF Sound
    <3>9. z \in Spots /\ z.type = y.type.value /\ z.pos = i + 1 /\ z.plus = PlusAt(c, i) /\ z.offset = 0
      BY <2>4, <3>2, <3>3, <3>5, <3>8 DEF In, Spots
    <3>10. u \in Points /\ u.type = y.type.value /\ u.pos = i + 1 /\ u.offset = PlusAt(c, i)
      BY <2>4, <3>2, <3>3, <3>5, <3>8 DEF At, Points
    <3>11. Aligned(u, z)
      BY <2>4, <3>1, <3>2, <3>5, <3>9, <3>10 DEF Aligned
    <3>12. g[z] # {}
      BY <2>3, <3>4, UnderIs
    <3>13. Good(f[u], g[z], words, c)
      BY <2>5, <3>8, <3>9, <3>10, <3>11, <3>12 DEF AllGood
    <3>14. h # None
      BY <3>3, <3>4, LayoutAssumption DEF handle_value
    <3> QED
      BY <2>3, <3>4, <3>7, <3>13, <3>14, UnderGood
  <2>8. CASE y.type.kind = "struct"
    BY <2>3, <2>5, <2>8, StructGood
  <2> QED
    BY <2>4, <2>6, <2>7, <2>8 DEF Sound
<1>3. ASSUME NEW y \in Spots PROVE Fits(y)
  <2>1. rank[y.type] \in Nat
    BY <1>1 DEF Ranked, Spots
  <2> QED
    BY <1>2, <2>1
<1> QED
  BY <1>3

-----------------------------------------------------------------------------
(***************************************************************************)
(* A cell that is resolved shows what is in it.                            *)
(***************************************************************************)
LEMMA CellGood ==
  ASSUME SimpleStructs, HashInv, NEW c \in Cells, Resolvable(c), NEW v \in Variables, v.slot = c[1],
         NEW words \in Changes
  PROVE  /\ Good(Shown(v, decodeDiff(c), words), PlacesOf(v, c), words, c)
         /\ decodeDiff(c)[1].plus = c[1]
<1>1. PICK path : path = decodeDiff(c)
  OBVIOUS
<1>2. PathOf(c, path)
  BY <1>1, PathIs
<1>3. /\ Steps(c) \in Nat /\ Steps(c) >= 1 /\ Len(path) = Steps(c)
      /\ \A i \in 1 .. Steps(c) : PlusAt(c, i) \in Nat
  BY <1>2, CellAt DEF PathOf
<1>4. c[1] \in Nat
  <2>1. 1 \in 1 .. Steps(c) /\ 2 * 1 - 1 = 1
    BY <1>3
  <2> QED
    BY <1>3, <2>1 DEF PlusAt
<1>5. IsPath(path)
  <2>1. ASSUME NEW i \in 1 .. Len(path) PROVE path[i].plus \in Nat
    <3>1. CASE i = 1
      BY <1>2, <1>4, <3>1 DEF PathOf
    <3>2. CASE i # 1
      <4>1. i \in 2 .. Steps(c) /\ i \in 1 .. Steps(c)
        BY <1>3, <3>2
      <4> QED
        BY <1>2, <1>3, <4>1 DEF PathOf
    <3> QED
      BY <3>1, <3>2
  <2> QED
    BY <1>3, <2>1 DEF IsPath
<1>6. PICK f : /\ \A w : Shown(w, path, words) = f[At(w.type, 2, w.offset)]
               /\ \A x \in Points : f[x] = ShownStep(x, f, path, words)
  BY <1>5, ShownIs
<1>7. PICK g : /\ \A w : PlacesOf(w, c) = IF Spans(w, c[1]) THEN g[In(w.type, w.offset, c[1] - w.slot, 2)] ELSE {}
               /\ \A y \in Spots : g[y] = PlaceStep(y, g, c)
  BY PlacesAre
<1>8. IsWord(words.original) /\ IsWord(words.dirty)
  BY WordsAssumption DEF IsWord
<1>9. Setting(c, path, words, f, g)
  BY <1>2, <1>5, <1>6, <1>7, <1>8 DEF Setting
<1>10. PlacesOf(v, c) # {}
  BY PlacedAssumption
<1>11. PICK x, y : x = At(v.type, 2, v.offset) /\ y = In(v.type, v.offset, c[1] - v.slot, 2)
  OBVIOUS
<1>12. /\ v.type \in Types /\ v.offset \in Nat /\ (v.type.kind = "struct" => v.offset = 0)
  BY LayoutAssumption DEF LaidOut
<1>13. x \in Points /\ x.type = v.type /\ x.pos = 2 /\ x.offset = v.offset
  BY <1>11, <1>12 DEF At, Points
<1>14. y \in Spots /\ y.type = v.type /\ y.pos = 2 /\ y.offset = v.offset /\ y.plus = 0
  <2>1. c[1] - v.slot = 0
    BY <1>4
  <2> QED
    BY <1>11, <1>12, <2>1 DEF In, Spots
<1>15. Aligned(x, y)
  BY <1>12, <1>13, <1>14 DEF Aligned
<1>16. PlacesOf(v, c) = g[y] /\ g[y] # {}
  BY <1>7, <1>10, <1>11
<1>17. Shown(v, path, words) = f[x]
  BY <1>6, <1>11
<1>18. Good(f[x], g[y], words, c)
  BY <1>9, <1>13, <1>14, <1>15, <1>16, AlignedGood
<1> QED
  BY <1>1, <1>2, <1>16, <1>17, <1>18 DEF PathOf

\* A cell that is resolved is part of the variables that begin at its slot only.
LEMMA OwnerOf ==
  ASSUME NEW c \in Cells, Resolvable(c), NEW v \in Variables, PlacesOf(v, c) # {}
  PROVE  v.slot = c[1]
<1>1. PICK g : \A w : PlacesOf(w, c) = IF Spans(w, c[1]) THEN g[In(w.type, w.offset, c[1] - w.slot, 2)] ELSE {}
  BY PlacesAre
<1>2. v.slot <= c[1] /\ c[1] < v.slot + Words(v)
  BY <1>1 DEF Spans
<1>3. PICK w \in Variables : w.slot = c[1]
  BY DEF Resolvable
<1>4. v.slot \in Nat /\ w.slot \in Nat
  BY LayoutAssumption DEF LaidOut
<1>5. Words(v) \in Nat
  <2>1. PICK n : n = v.type.bytes
    OBVIOUS
  <2>2. n \in Nat \ {0}
    BY <2>1, LayoutAssumption, SoundTypes DEF LaidOut, Sound
  <2> QED
    BY <2>1, <2>2, WordsOf DEF Words
<1>6. ASSUME v.slot < w.slot PROVE FALSE
  <2>1. v # w
    BY <1>4, <1>6
  <2>2. v.slot + Words(v) <= w.slot
    BY <1>6, <2>1, LayoutAssumption DEF LaidOut
  <2> QED
    BY <1>2, <1>3, <1>4, <1>5, <2>2
<1> QED
  BY <1>2, <1>3, <1>4, <1>6

LEMMA OneName == ASSUME NEW v \in Variables, NEW w \in Variables, Name(v) = Name(w) PROVE v = w
<1>1. v.slot = w.slot /\ v.offset = w.offset
  BY DEF Name
<1> QED
  BY <1>1, LayoutAssumption DEF LaidOut

-----------------------------------------------------------------------------
(***************************************************************************)
(* Merging.                                                                *)
(***************************************************************************)
IsResult(r) == r = [entries |-> r.entries, raw |-> r.raw]

Changed(d) == {v \in DOMAIN d : \E e \in d[v].entries : e.original # e.dirty}

MergedEntries(rs, name, es) ==
  IF name \notin DOMAIN rs THEN es
  ELSE es \cup {e \in rs[name].entries : \A new \in es : new.path # e.path}

LEMMA MergeData ==
  ASSUME NEW rs, NEW name, NEW r, IsResult(r), name \in DOMAIN rs => IsResult(rs[name])
  PROVE  /\ IsResult(mergeData(rs, name, r))
         /\ mergeData(rs, name, r).entries = MergedEntries(rs, name, r.entries)
<1>1. CASE name \notin DOMAIN rs
  BY <1>1 DEF mergeData, MergedEntries
<1>2. CASE name \in DOMAIN rs
  <2>1. PICK old, es, x : old = rs[name] /\ es = rs[name].entries /\ x = rs[name].raw
    OBVIOUS
  <2>2. old = [entries |-> es, raw |-> x]
    BY <1>2, <2>1 DEF IsResult
  <2>3. PICK ns : ns = r.entries \cup {e \in es : \A new \in r.entries : new.path # e.path}
    OBVIOUS
  <2>4. mergeData(rs, name, r) = [old EXCEPT !.entries = ns]
    BY <1>2, <2>1, <2>3 DEF mergeData
  <2>5. mergeData(rs, name, r) = [entries |-> ns, raw |-> x]
    BY <2>2, <2>4
  <2> QED
    BY <1>2, <2>1, <2>3, <2>5 DEF IsResult, MergedEntries
<1> QED
  BY <1>1, <1>2

IsMerge(rs, d, rs2) ==
  /\ DOMAIN rs2 = DOMAIN rs \cup {Name(v) : v \in Changed(d)}
  /\ \A n \in DOMAIN rs2 : IsResult(rs2[n])
  /\ \A n \in DOMAIN rs2 : n \notin {Name(v) : v \in Changed(d)} => rs2[n] = rs[n]
  /\ \A v \in Changed(d) : rs2[Name(v)].entries = MergedEntries(rs, Name(v), d[v].entries)

LEMMA MergedIs ==
  ASSUME NEW rs, \A n \in DOMAIN rs : IsResult(rs[n]), NEW d, DOMAIN d \subseteq Variables,
         \A v \in DOMAIN d : IsResult(d[v]), NEW rs2, rs2 = Merged(rs, d)
  PROVE  IsMerge(rs, d, rs2)
<1> DEFINE names == {Name(v) : v \in Changed(d)}
<1>1. rs2 = [n \in DOMAIN rs \cup names |->
               IF n \in names THEN mergeData(rs, n, d[CHOOSE v \in Changed(d) : Name(v) = n]) ELSE rs[n]]
  BY DEF Merged, Changed
<1>2. ASSUME NEW v \in Changed(d) PROVE rs2[Name(v)] = mergeData(rs, Name(v), d[v])
  <2>1. PICK w : w = CHOOSE u \in Changed(d) : Name(u) = Name(v)
    OBVIOUS
  <2>2. w \in Changed(d) /\ Name(w) = Name(v)
    BY <2>1
  <2>3. w = v
    BY <2>2, OneName DEF Changed
  <2> QED
    BY <1>1, <2>1, <2>3
<1>3. DOMAIN rs2 = DOMAIN rs \cup names
  BY <1>1
<1>4. \A n \in DOMAIN rs2 : n \notin names => rs2[n] = rs[n]
  BY <1>1, <1>3
<1>5. ASSUME NEW v \in Changed(d)
      PROVE  IsResult(rs2[Name(v)]) /\ rs2[Name(v)].entries = MergedEntries(rs, Name(v), d[v].entries)
  <2>1. IsResult(d[v])
    BY DEF Changed
  <2> QED
    BY <1>2, <2>1, MergeData
<1>6. \A n \in DOMAIN rs2 : IsResult(rs2[n])
  BY <1>3, <1>4, <1>5
<1> QED
  BY <1>3, <1>4, <1>5, <1>6 DEF IsMerge

-----------------------------------------------------------------------------
(***************************************************************************)
(* What is shown of a contract.                                            *)
(***************************************************************************)
LEMMA InitShown == Init => ShownInv
<1> SUFFICES ASSUME Init PROVE ShownInv
  OBVIOUS
<1>1. RawInv
  BY InitRaw
<1>2. phase = "trace" /\ todo = {} /\ DOMAIN results = {}
  BY DEF Init
<1>3. \A c \in DOMAIN change : change[c] \in Changes
  <2>1. PICK cs \in [1..MaxChanges -> Cells] : change \in [ToSet(cs) -> Changes]
    BY DEF Init
  <2> QED
    BY <2>1
<1> QED
  BY <1>1, <1>2, <1>3 DEF ShownInv, ShownRight

LEMMA SameShown ==
  ASSUME ShownInv, RawInv', UNCHANGED <<layout, life, change, shainfo, phase, todo, raw, results>>
  PROVE  ShownInv'
<1>1. \A c : Resolvable(c)' <=> Resolvable(c)
  BY DEF Resolvable
<1>2. \A c : LostCell(c)' <=> LostCell(c)
  BY <1>1 DEF LostCell
<1>3. ShownRight' <=> ShownRight
  BY DEF ShownRight
<1>4. \A v, c, pl : Accounted(v, c, pl)' <=> Accounted(v, c, pl)
  BY DEF Accounted, Overwritten
<1> QED
  BY <1>2, <1>3, <1>4 DEF ShownInv

\* Before the diff is decoded.
LEMMA EarlyShown ==
  ASSUME ShownInv, RawInv', UNCHANGED <<change, results>>, phase \in {"trace", "replay"},
         todo' = todo \/ todo' = DOMAIN change,
         phase' \in {"trace", "replay"}
  PROVE  ShownInv'
<1>1. DOMAIN results = {} /\ \A c \in DOMAIN change : change[c] \in Changes
  BY DEF ShownInv
<1>2. ShownRight'
  BY <1>1 DEF ShownRight
<1>3. todo' \subseteq DOMAIN change
  BY DEF ShownInv
<1> QED
  BY <1>1, <1>2, <1>3 DEF ShownInv

LEMMA ReplayShown == ASSUME ShownInv, RawInv', ParseReplay PROVE ShownInv'
<1>1. /\ phase = "replay" /\ UNCHANGED <<layout, life, change, shainfo, raw, results>>
      /\ \/ life = "lives" /\ phase' = "diff" /\ todo' = DOMAIN change
         \/ life # "lives" /\ phase' = "raised" /\ todo' = todo
  BY DEF ParseReplay, world, trace
<1>2. DOMAIN results = {} /\ todo \subseteq DOMAIN change /\ \A c \in DOMAIN change : change[c] \in Changes
  BY <1>1 DEF ShownInv
<1>3. ShownRight'
  BY <1>1, <1>2 DEF ShownRight
<1>4. todo' \subseteq DOMAIN change
  BY <1>1, <1>2
<1> QED
  BY <1>1, <1>2, <1>3, <1>4 DEF ShownInv

LEMMA EndShown == ASSUME ShownInv, RawInv', EndDiff PROVE ShownInv'
<1>1. /\ phase = "diff" /\ phase' = "done" /\ UNCHANGED <<layout, life, change, shainfo, todo, raw, results>>
  BY DEF EndDiff, world, trace, found
<1>2. \A c : LostCell(c)' <=> LostCell(c)
  <2>1. \A c : Resolvable(c)' <=> Resolvable(c)
    BY <1>1 DEF Resolvable
  <2> QED
    BY <1>1, <2>1 DEF LostCell
<1>3. ShownRight' <=> ShownRight
  BY <1>1 DEF ShownRight
<1>4. \A v, c, pl : Accounted(v, c, pl)' <=> Accounted(v, c, pl)
  BY <1>1 DEF Accounted, Overwritten
<1> QED
  BY <1>1, <1>2, <1>3, <1>4 DEF ShownInv

-----------------------------------------------------------------------------
(***************************************************************************)
(* One pass of the loop, and the theorems.                                 *)
(***************************************************************************)
\* What decodeStorageDiff finds of a resolved cell.
FoundIn(c, d) ==
  /\ DOMAIN d = {v \in Variables : v.slot = c[1]}
  /\ \A v \in DOMAIN d : IsResult(d[v]) /\ Good(d[v].entries, PlacesOf(v, c), change[c], c)

LEMMA DecodedGood ==
  ASSUME SimpleStructs, HashInv, NEW c \in Cells, Resolvable(c), change[c] \in Changes
  PROVE  FoundIn(c, Decoded(c, decodeDiff(c)))
<1>1. PICK path, words, d : path = decodeDiff(c) /\ words = change[c] /\ d = Decoded(c, path)
  OBVIOUS
<1>2. PICK w \in Variables : w.slot = c[1]
  BY DEF Resolvable
<1>3. path[1].plus = c[1]
  BY <1>1, <1>2, CellGood
<1>4. load_storage[c[1]] = {v \in Variables : v.slot = c[1]}
  BY <1>2 DEF load_storage
<1>5. d = [v \in load_storage[c[1]] |-> [entries |-> Shown(v, path, words), raw |-> c]]
  BY <1>1, <1>3 DEF Decoded
<1>6. DOMAIN d = {v \in Variables : v.slot = c[1]}
  BY <1>4, <1>5
<1>7. ASSUME NEW v \in DOMAIN d PROVE IsResult(d[v]) /\ Good(d[v].entries, PlacesOf(v, c), words, c)
  <2>1. v \in Variables /\ v.slot = c[1]
    BY <1>6
  <2>2. d[v] = [entries |-> Shown(v, path, words), raw |-> c]
    BY <1>5
  <2>3. Good(Shown(v, path, words), PlacesOf(v, c), words, c)
    BY <1>1, <2>1, CellGood
  <2> QED
    BY <2>2, <2>3 DEF IsResult
<1> QED
  BY <1>1, <1>6, <1>7 DEF FoundIn

LEMMA KeylessLost ==
  ASSUME layout, NEW c \in Cells, Resolvable(c), NEW d, FoundIn(c, d)
  PROVE  (\E v \in DOMAIN d : \E e \in d[v].entries : e.keyless) <=> LostCell(c)
<1>1. \A v \in DOMAIN d : (\E e \in d[v].entries : e.keyless) <=> \E pl \in PlacesOf(v, c) : Lost(c, pl)
  BY DEF FoundIn, Good
<1>2. \A v \in Variables : PlacesOf(v, c) # {} => v \in DOMAIN d
  BY OwnerOf DEF FoundIn
<1>3. DOMAIN d \subseteq Variables
  BY DEF FoundIn
<1> QED
  BY <1>1, <1>2, <1>3 DEF LostCell
\* Merged with what is shown of a cell, what is shown is still right.
LEMMA MergedRight ==
  ASSUME ShownInv, NEW c \in Cells, c \in todo, NEW d, FoundIn(c, d),
         \A v \in DOMAIN d : \A e \in d[v].entries : ~e.keyless,
         UNCHANGED change, todo' = todo \ {c}, results' = Merged(results, d)
  PROVE  ShownRight'
<1>1. /\ \A n \in DOMAIN results : IsResult(results[n])
      /\ DOMAIN d \subseteq Variables /\ \A v \in DOMAIN d : IsResult(d[v])
  BY DEF ShownInv, IsResult, FoundIn
<1>2. PICK rs2 : rs2 = results' /\ rs2 = Merged(results, d)
  OBVIOUS
<1>3. IsMerge(results, d, rs2)
  BY <1>1, <1>2, MergedIs
<1>4. /\ DOMAIN rs2 = DOMAIN results \cup {Name(v) : v \in Changed(d)}
      /\ \A n \in DOMAIN rs2 : n \notin {Name(v) : v \in Changed(d)} => rs2[n] = results[n]
      /\ \A v \in Changed(d) : rs2[Name(v)].entries = MergedEntries(results, Name(v), d[v].entries)
  BY <1>3 DEF IsMerge
<1>5. c \in DOMAIN change
  BY DEF ShownInv
<1>6. ASSUME NEW n \in DOMAIN results, NEW e \in results[n].entries
      PROVE  \E v \in Variables, b \in DOMAIN change \ (todo \ {c}) : \E pl \in PlacesOf(v, b) :
               Name(v) = n /\ Matches(e, pl, change[b])
  <2>1. PICK v \in Variables, b \in DOMAIN change \ todo : \E pl \in PlacesOf(v, b) : Name(v) = n /\ Matches(e, pl, change[b])
    BY DEF ShownInv, ShownRight
  <2> QED
    BY <2>1
<1>7. ASSUME NEW v \in DOMAIN d, NEW e \in d[v].entries
      PROVE  \E w \in Variables, b \in DOMAIN change \ (todo \ {c}) : \E pl \in PlacesOf(w, b) :
               Name(w) = Name(v) /\ Matches(e, pl, change[b])
  <2>1. PICK pl \in PlacesOf(v, c) : Matches(e, pl, change[c])
    BY DEF FoundIn, Good
  <2>2. v \in Variables /\ c \in DOMAIN change \ (todo \ {c})
    BY <1>1, <1>5
  <2> QED
    BY <2>1, <2>2
<1>8. ASSUME NEW n \in DOMAIN rs2, NEW e \in rs2[n].entries
      PROVE  \E v \in Variables, b \in DOMAIN change \ (todo \ {c}) : \E pl \in PlacesOf(v, b) :
               Name(v) = n /\ Matches(e, pl, change[b])
  <2>1. CASE n \notin {Name(v) : v \in Changed(d)}
    BY <1>4, <1>6, <2>1
  <2>2. CASE n \in {Name(v) : v \in Changed(d)}
    <3>1. PICK v \in Changed(d) : n = Name(v)
      BY <2>2
    <3>2. v \in DOMAIN d /\ e \in MergedEntries(results, n, d[v].entries)
      BY <1>4, <3>1 DEF Changed
    <3>3. e \in d[v].entries \/ (n \in DOMAIN results /\ e \in results[n].entries)
      BY <3>2 DEF MergedEntries
    <3> QED
      BY <1>6, <1>7, <3>1, <3>2, <3>3
  <2> QED
    BY <2>1, <2>2
<1> QED
  BY <1>2, <1>8 DEF ShownRight

LEMMA MergedAccounted ==
  ASSUME SimpleStructs, ShownInv, phase = "diff", NEW c \in Cells, c \in todo, Resolvable(c), NEW d, FoundIn(c, d),
         \A v \in DOMAIN d : \A e \in d[v].entries : ~e.keyless,
         UNCHANGED change, results' = Merged(results, d),
         NEW b \in DOMAIN change \ (raw \cup (todo \ {c})), NEW v \in Variables, NEW pl \in PlacesOf(v, b)
  PROVE  Accounted(v, b, pl)'
<1>1. /\ \A n \in DOMAIN results : IsResult(results[n])
      /\ DOMAIN d \subseteq Variables /\ \A w \in DOMAIN d : IsResult(d[w])
  BY DEF ShownInv, IsResult, FoundIn
<1>2. PICK rs2 : rs2 = results' /\ rs2 = Merged(results, d)
  OBVIOUS
<1>3. IsMerge(results, d, rs2)
  BY <1>1, <1>2, MergedIs
<1>4. /\ DOMAIN rs2 = DOMAIN results \cup {Name(w) : w \in Changed(d)}
      /\ \A n \in DOMAIN rs2 : n \notin {Name(w) : w \in Changed(d)} => rs2[n] = results[n]
      /\ \A w \in Changed(d) : rs2[Name(w)].entries = MergedEntries(results, Name(w), d[w].entries)
  BY <1>3 DEF IsMerge
<1> DEFINE Same == Bytes(change[b].original, pl) = Bytes(change[b].dirty, pl)
           Exempt == pl.label = "bool" \/ pl.inner \/ pl.structMap # None
           ShownBy(rs) == Name(v) \in DOMAIN rs /\ \E e \in rs[Name(v)].entries : e.path = pl.path /\ Shows(e, change[b], pl)
<1>5. Accounted(v, b, pl)' <=> Same \/ Exempt \/ Overwritten(v, b, pl) \/ ShownBy(rs2)
  BY <1>2 DEF Accounted, Overwritten
<1>6. CASE b = c
  <2> SUFFICES ASSUME ~Same, ~Exempt PROVE ShownBy(rs2)
    BY <1>5
  <2>1. v.slot = c[1]
    BY <1>6, OwnerOf
  <2>2. v \in DOMAIN d
    BY <2>1 DEF FoundIn
  <2>3. PICK e \in d[v].entries : Meets(e, pl, change[c])
    BY <1>6, <2>2 DEF FoundIn, Good
  <2>4. e.path = pl.path /\ Shows(e, change[c], pl)
    BY <2>3 DEF Meets
  <2>5. e.original # e.dirty
    BY <1>6, <2>4 DEF Shows
  <2>6. v \in Changed(d)
    BY <2>2, <2>5 DEF Changed
  <2>7. Name(v) \in DOMAIN rs2 /\ e \in rs2[Name(v)].entries
    BY <1>4, <2>6 DEF MergedEntries
  <2> QED
    BY <1>6, <2>4, <2>7
<1>7. CASE b # c
  <2>1. b \in DOMAIN change \ (raw \cup todo)
    BY <1>7
  <2>2. Accounted(v, b, pl)
    BY <2>1 DEF ShownInv
  <2> SUFFICES ASSUME ~Same, ~Exempt, ~Overwritten(v, b, pl) PROVE ShownBy(rs2)
    BY <1>5
  <2>3. PICK e \in results[Name(v)].entries : Name(v) \in DOMAIN results /\ e.path = pl.path /\ Shows(e, change[b], pl)
    BY <2>2 DEF Accounted
  <2>4. Name(v) \in DOMAIN rs2
    BY <1>4, <2>3
  <2>5. CASE Name(v) \notin {Name(w) : w \in Changed(d)}
    BY <1>4, <2>3, <2>4, <2>5
  <2>6. CASE Name(v) \in {Name(w) : w \in Changed(d)}
    <3>1. v \in Changed(d) /\ v \in DOMAIN d
      BY <1>1, <2>6, OneName DEF Changed
    <3>2. ASSUME NEW new \in d[v].entries PROVE new.path # e.path
      <4> SUFFICES ASSUME new.path = pl.path PROVE FALSE
        BY <2>3
      <4>1. PICK other \in PlacesOf(v, c) : Matches(new, other, change[c])
        BY <3>1 DEF FoundIn, Good
      <4>2. CASE other.path = new.path
        <5>1. c \in DOMAIN change \ {b}
          BY <1>7 DEF ShownInv
        <5> QED
          BY <4>1, <4>2, <5>1 DEF Overwritten
      <4>3. CASE HasNone(new.path)
        <5>1. HashInv /\ b \in Cells /\ Resolvable(b) /\ change[b] \in Changes
          BY <2>1 DEF ShownInv, RawInv, HashInv
        <5>2. v.slot = b[1]
          BY <5>1, OwnerOf
        <5>3. Good(Shown(v, decodeDiff(b), change[b]), PlacesOf(v, b), change[b], b)
          BY <5>1, <5>2, CellGood
        <5>4. IsPlace(pl)
          BY <5>3 DEF Good
        <5> QED
          BY <4>3, <5>4 DEF IsPlace
      <4> QED
        BY <4>1, <4>2, <4>3 DEF Matches
    <3>3. e \in rs2[Name(v)].entries
      BY <1>4, <2>3, <3>1, <3>2 DEF MergedEntries
    <3> QED
      BY <2>3, <2>4, <3>3
  <2> QED
    BY <2>5, <2>6
<1> QED
  BY <1>6, <1>7

LEMMA EntryShown ==
  ASSUME SimpleStructs, ShownInv, RawInv', NEW c \in Cells, DecodeEntry(c)
  PROVE  ShownInv'
<1>1. /\ phase = "diff" /\ c \in todo /\ todo' = todo \ {c}
      /\ UNCHANGED <<layout, life, change, shainfo>>
  BY DEF DecodeEntry, world, trace
<1>2. /\ HashInv /\ RawInv /\ c \in DOMAIN change /\ change[c] \in Changes /\ life = "lives"
      /\ todo \subseteq DOMAIN change /\ \A b \in DOMAIN change : change[b] \in Changes
  BY <1>1 DEF ShownInv, RawInv
<1>3. \A b : LostCell(b)' <=> LostCell(b)
  <2>1. \A b : Resolvable(b)' <=> Resolvable(b)
    BY <1>1 DEF Resolvable
  <2> QED
    BY <1>1, <2>1 DEF LostCell
<1>4. decodeDiff(c)[1] = Unresolved <=> ~Resolvable(c)
  BY <1>2, FirstEntry
<1>5. todo' \subseteq DOMAIN change'
  BY <1>1, <1>2
<1>6. ASSUME results' = results PROVE ShownRight'
  <2>1. ShownRight
    BY DEF ShownInv
  <2>2. DOMAIN change \ todo \subseteq DOMAIN change' \ todo'
    BY <1>1
  <2> QED
    BY <1>1, <1>6, <2>1, <2>2 DEF ShownRight
<1>7. CASE ~layout \/ ~Resolvable(c)
  <2>1. raw' = raw \cup {c} /\ UNCHANGED <<phase, results>>
    BY <1>4, <1>7 DEF DecodeEntry
  <2>2. ~LostCell(c)
    BY <1>7 DEF LostCell
  <2>3. \A b \in DOMAIN change' \ todo' : ~LostCell(b)'
    BY <1>1, <1>3, <2>2 DEF ShownInv
  <2>4. ShownRight'
    BY <1>6, <2>1
  <2>5. \A v, b, pl : Accounted(v, b, pl)' <=> Accounted(v, b, pl)
    BY <1>1, <2>1 DEF Accounted, Overwritten
  <2>6. DOMAIN change' \ (raw' \cup todo') \subseteq DOMAIN change \ (raw \cup todo)
    BY <1>1, <2>1
  <2>7. \A b \in DOMAIN change' \ (raw' \cup todo'), v \in Variables : \A pl \in PlacesOf(v, b) : Accounted(v, b, pl)'
    BY <1>1, <2>5, <2>6 DEF ShownInv
  <2>8. \A n \in DOMAIN results' : results'[n] = [entries |-> results'[n].entries, raw |-> results'[n].raw]
    BY <2>1 DEF ShownInv
  <2> QED
    BY <1>1, <1>2, <1>5, <2>1, <2>3, <2>4, <2>7, <2>8 DEF ShownInv
<1>8. CASE layout /\ Resolvable(c)
  <2>1. PICK d : d = Decoded(c, decodeDiff(c))
    OBVIOUS
  <2>2. FoundIn(c, d)
    BY <1>2, <1>8, <2>1, DecodedGood
  <2>3. (\E v \in DOMAIN d : \E e \in d[v].entries : e.keyless) <=> LostCell(c)
    BY <1>8, <2>2, KeylessLost
  <2>4. IF \E v \in DOMAIN d : \E e \in d[v].entries : e.keyless
        THEN phase' = "raised" /\ UNCHANGED <<raw, results>>
        ELSE results' = Merged(results, d) /\ UNCHANGED <<phase, raw>>
    BY <1>4, <1>8, <2>1 DEF DecodeEntry
  <2>5. CASE LostCell(c)
    <3>1. phase' = "raised" /\ UNCHANGED <<raw, results>>
      BY <2>3, <2>4, <2>5
    <3>2. ShownRight'
      BY <1>6, <3>1
    <3>3. \E b \in DOMAIN change' : LostCell(b)'
      BY <1>1, <1>2, <1>3, <2>5
    <3>4. \A n \in DOMAIN results' : results'[n] = [entries |-> results'[n].entries, raw |-> results'[n].raw]
      BY <3>1 DEF ShownInv
    <3> QED
      BY <1>1, <1>2, <1>5, <3>1, <3>2, <3>3, <3>4 DEF ShownInv
  <2>6. CASE ~LostCell(c)
    <3>1. results' = Merged(results, d) /\ UNCHANGED <<phase, raw>>
      BY <2>3, <2>4, <2>6
    <3>2. \A v \in DOMAIN d : \A e \in d[v].entries : ~e.keyless
      BY <2>3, <2>6
    <3>3. ShownRight'
      BY <1>1, <2>2, <3>1, <3>2, MergedRight
    <3>4. \A b \in DOMAIN change' \ todo' : ~LostCell(b)'
      BY <1>1, <1>3, <2>6 DEF ShownInv
    <3>5. ASSUME NEW b \in DOMAIN change \ (raw \cup (todo \ {c})), NEW v \in Variables, NEW pl \in PlacesOf(v, b)
          PROVE  Accounted(v, b, pl)'
      BY <1>1, <1>8, <2>2, <3>1, <3>2, MergedAccounted
    <3>6. \A b \in DOMAIN change' \ (raw' \cup todo'), v \in Variables : \A pl \in PlacesOf(v, b) : Accounted(v, b, pl)'
      BY <1>1, <3>1, <3>5
    <3>7. \A n \in DOMAIN results' : results'[n] = [entries |-> results'[n].entries, raw |-> results'[n].raw]
      <4>1. /\ \A n \in DOMAIN results : IsResult(results[n])
            /\ DOMAIN d \subseteq Variables /\ \A v \in DOMAIN d : IsResult(d[v])
        BY <2>2 DEF ShownInv, IsResult, FoundIn
      <4>2. \A n \in DOMAIN results' : IsResult(results'[n])
        <5>1. PICK rs2 : rs2 = results' /\ rs2 = Merged(results, d)
          BY <3>1
        <5>2. IsMerge(results, d, rs2)
          BY <4>1, <5>1, MergedIs
        <5> QED
          BY <5>1, <5>2 DEF IsMerge
      <4> QED
        BY <4>2 DEF IsResult
    <3> QED
      BY <1>1, <1>2, <1>5, <3>1, <3>3, <3>4, <3>6, <3>7 DEF ShownInv
  <2> QED
    BY <2>5, <2>6
<1> QED
  BY <1>7, <1>8

LEMMA NextShown == SimpleStructs => (ShownInv /\ [Next]_vars => ShownInv')
<1> SUFFICES ASSUME SimpleStructs, ShownInv, [Next]_vars PROVE ShownInv'
  OBVIOUS
<1>1. RawInv'
  BY NextRaw DEF ShownInv
<1>2. CASE TraceItem
  <2>1. phase = "trace" /\ UNCHANGED <<phase, change, todo, results>>
    BY <1>2 DEF TraceItem, world, found
  <2> QED
    BY <1>1, <2>1, EarlyShown
<1>3. CASE EndTrace
  <2>1. phase = "trace" /\ phase' = "replay" /\ UNCHANGED <<change, todo, results>>
    BY <1>3 DEF EndTrace, world, found
  <2> QED
    BY <1>1, <2>1, EarlyShown
<1>4. CASE ParseReplay
  BY <1>1, <1>4, ReplayShown
<1>5. CASE EndDiff
  BY <1>1, <1>5, EndShown
<1>6. ASSUME NEW c \in Cells, DecodeEntry(c) PROVE ShownInv'
  BY <1>1, <1>6, EntryShown
<1>7. CASE UNCHANGED vars
  <2>1. UNCHANGED <<layout, life, change, shainfo, phase, todo, raw, results>>
    BY <1>7 DEF vars, world, trace, found
  <2> QED
    BY <1>1, <2>1, SameShown
<1> QED
  BY <1>2, <1>3, <1>4, <1>5, <1>6, <1>7 DEF Next

\* What is said of a contract when the diff is done holds of every cell that has
\* been decoded, at every step of decodeStorageDiff.
THEOREM ShownInvariant == SimpleStructs => (Spec => []ShownInv)
<1> SUFFICES ASSUME SimpleStructs PROVE Spec => []ShownInv
  OBVIOUS
<1>1. ShownInv /\ [Next]_vars => ShownInv'
  BY NextShown
<1> QED
  BY <1>1, InitShown, PTL DEF Spec

\* decodeStorageDiff: whatever is shown of a variable is what one changed cell
\* held and holds at the place of that name.
THEOREM ShownIsRight == SimpleStructs => (Spec => []ShownRight)
<1> SUFFICES ASSUME SimpleStructs PROVE Spec => []ShownRight
  OBVIOUS
<1>1. ShownInv => ShownRight
  BY DEF ShownInv
<1>2. Spec => []ShownInv
  BY ShownInvariant
<1> QED
  BY <1>1, <1>2, PTL

\* decodeStorageDiff: every changed field of every changed cell is shown, or the
\* cell is shown raw.
THEOREM NothingIsHidden == SimpleStructs => (Spec => []NothingHidden)
<1> SUFFICES ASSUME SimpleStructs PROVE Spec => []NothingHidden
  OBVIOUS
<1>1. ShownInv => NothingHidden
  BY DEF ShownInv, NothingHidden, RawInv
<1>2. Spec => []ShownInv
  BY ShownInvariant
<1> QED
  BY <1>1, <1>2, PTL

\* get_statediff, decode_diffs: the transaction cannot be decoded exactly if an
\* account was born or died, or a changed cell's key is looked for too far.
THEOREM IsRaisedExactly == SimpleStructs => (Spec => []RaisedExactly)
<1> SUFFICES ASSUME SimpleStructs PROVE Spec => []RaisedExactly
  OBVIOUS
<1>1. ShownInv => RaisedExactly
  BY DEF ShownInv, RaisedExactly, RawInv
<1>2. Spec => []ShownInv
  BY ShownInvariant
<1> QED
  BY <1>1, <1>2, PTL
=============================================================================
