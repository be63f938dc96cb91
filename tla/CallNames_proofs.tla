----------------------------- MODULE CallNames_proofs -----------------------------
(***************************************************************************)
(* Proofs about the names of calls, for a directory that grows to any size *)
(* in pages of any size.                                                   *)
(***************************************************************************)
EXTENDS CallNames, TLAPS, SequenceTheorems, WellFoundedInduction

-----------------------------------------------------------------------------
(***************************************************************************)
(* The directory.                                                          *)
(***************************************************************************)
LEMMA LeastNumber ==
  ASSUME NEW T, T \subseteq Nat, T # {}
  PROVE  \E x \in T : \A y \in T : x <= y
<1> DEFINE R == {ss \in Nat \X Nat : ss[1] < ss[2]}
<1>1. R = OpToRel(<, Nat)
  BY Zenon DEF OpToRel
<1>2. IsWellFoundedOn(R, Nat)
  BY <1>1, NatLessThanWellFounded, Zenon
<1>3. \A x, y \in Nat : y < x => <<y, x>> \in R
  OBVIOUS
<1> HIDE DEF R
<1>4. PICK x \in T : \A y \in T : ~(<<y, x>> \in R)
  BY <1>2, WFMin
<1>5. \A y \in T : ~ (y < x)
  BY <1>3, <1>4
<1>6. \A y \in T : x <= y
  BY <1>5
<1> QED
  BY <1>6

LEMMA Ages ==
  ASSUME NEW dir \in Seq(Texts), Different(dir)
  PROVE  /\ \A a \in 1 .. Len(dir) : Aged(dir, a) \in ToSet(dir) /\ AgeIn(dir, Aged(dir, a)) = a
         /\ \A t \in ToSet(dir) : AgeIn(dir, t) \in 1 .. Len(dir) /\ Aged(dir, AgeIn(dir, t)) = t
<1>1. Len(dir) \in Nat /\ DOMAIN dir = 1 .. Len(dir)
  BY LenProperties
<1>2. ASSUME NEW a \in 1 .. Len(dir) PROVE Aged(dir, a) \in ToSet(dir) /\ AgeIn(dir, Aged(dir, a)) = a
  <2>1. Len(dir) - a + 1 \in 1 .. Len(dir)
    BY <1>1
  <2>2. Aged(dir, a) \in ToSet(dir)
    BY <1>1, <2>1 DEF Aged, ToSet
  <2>3. \A b \in 1 .. Len(dir) : Aged(dir, b) = Aged(dir, a) => b = a
    <3> SUFFICES ASSUME NEW b \in 1 .. Len(dir), Aged(dir, b) = Aged(dir, a) PROVE b = a
      OBVIOUS
    <3>1. Len(dir) - b + 1 \in 1 .. Len(dir)
      BY <1>1
    <3>2. Len(dir) - b + 1 = Len(dir) - a + 1
      BY <1>1, <2>1, <3>1 DEF Different, Aged
    <3> QED
      BY <1>1, <3>2
  <2> QED
    BY <2>2, <2>3 DEF AgeIn
<1>3. ASSUME NEW t \in ToSet(dir)
      PROVE  AgeIn(dir, t) \in 1 .. Len(dir) /\ Aged(dir, AgeIn(dir, t)) = t
  <2>1. PICK i \in 1 .. Len(dir) : dir[i] = t
    BY <1>1 DEF ToSet
  <2>2. Len(dir) - i + 1 \in 1 .. Len(dir) /\ Len(dir) - (Len(dir) - i + 1) + 1 = i
    BY <1>1
  <2>3. \E a \in 1 .. Len(dir) : Aged(dir, a) = t
    BY <2>1, <2>2 DEF Aged
  <2> QED
    BY <2>3 DEF AgeIn
<1> QED
  BY <1>2, <1>3

\* A new entry leaves the others their age.
LEMMA Grown ==
  ASSUME NEW dir \in Seq(Texts), Different(dir), NEW t \in Texts, t \notin ToSet(dir),
         NEW new, new = <<t>> \o dir
  PROVE  /\ new \in Seq(Texts) /\ Len(new) = Len(dir) + 1 /\ Different(new)
         /\ ToSet(dir) \subseteq ToSet(new)
         /\ \A a \in 1 .. Len(dir) : Aged(new, a) = Aged(dir, a)
         /\ \A x \in ToSet(dir) : AgeIn(new, x) = AgeIn(dir, x)
<1>1. Len(dir) \in Nat /\ DOMAIN dir = 1 .. Len(dir) /\ <<t>> \in Seq(Texts) /\ Len(<<t>>) = 1
  BY LenProperties
<1>2. /\ new \in Seq(Texts) /\ Len(new) = 1 + Len(dir)
      /\ \A i \in 1 .. 1 + Len(dir) : new[i] = IF i <= 1 THEN <<t>>[i] ELSE dir[i - 1]
  BY <1>1, ConcatProperties
<1>3. DOMAIN new = 1 .. 1 + Len(dir)
  BY <1>2, LenProperties
<1>4. new[1] = t /\ \A i \in 1 .. Len(dir) : new[i + 1] = dir[i]
  <2>1. new[1] = t
    BY <1>1, <1>2
  <2>2. ASSUME NEW i \in 1 .. Len(dir) PROVE new[i + 1] = dir[i]
    <3>1. i + 1 \in 1 .. 1 + Len(dir) /\ ~(i + 1 <= 1) /\ (i + 1) - 1 = i
      BY <1>1
    <3> QED
      BY <1>2, <3>1
  <2> QED
    BY <2>1, <2>2
<1>5. \A i \in 1 .. 1 + Len(dir) : i # 1 => i - 1 \in 1 .. Len(dir) /\ new[i] = dir[i - 1]
  BY <1>1, <1>2
<1>6. Different(new)
  <2> SUFFICES ASSUME NEW i \in 1 .. 1 + Len(dir), NEW j \in 1 .. 1 + Len(dir), new[i] = new[j]
               PROVE  i = j
    BY <1>3 DEF Different
  <2>1. \A k \in 1 .. Len(dir) : dir[k] # t
    BY <1>1 DEF ToSet
  <2>2. CASE i = 1 \/ j = 1
    BY <1>4, <1>5, <2>1, <2>2
  <2>3. CASE i # 1 /\ j # 1
    <3>1. /\ i - 1 \in 1 .. Len(dir) /\ j - 1 \in 1 .. Len(dir)
          /\ dir[i - 1] = dir[j - 1]
      BY <1>5, <2>3
    <3>2. i - 1 = j - 1
      BY ONLY <1>1, <3>1, Different(dir) DEF Different
    <3> QED
      BY <1>1, <3>2
  <2> QED
    BY <2>2, <2>3
<1>7. ToSet(dir) \subseteq ToSet(new)
  <2> SUFFICES ASSUME NEW i \in 1 .. Len(dir) PROVE dir[i] \in ToSet(new)
    BY <1>1 DEF ToSet
  <2>1. i + 1 \in DOMAIN new
    BY <1>1, <1>3
  <2> QED
    BY <1>4, <2>1 DEF ToSet
<1>8. ASSUME NEW a \in 1 .. Len(dir) PROVE Aged(new, a) = Aged(dir, a)
  <2>1. Len(dir) - a + 1 \in 1 .. Len(dir) /\ Len(new) - a + 1 = (Len(dir) - a + 1) + 1
    BY <1>1, <1>2
  <2> QED
    BY <1>4, <2>1 DEF Aged
<1>9. ASSUME NEW x \in ToSet(dir) PROVE AgeIn(new, x) = AgeIn(dir, x)
  <2>1. AgeIn(dir, x) \in 1 .. Len(dir) /\ Aged(dir, AgeIn(dir, x)) = x
    BY Ages
  <2>2. Aged(new, AgeIn(dir, x)) = x /\ AgeIn(dir, x) \in 1 .. Len(new)
    BY <1>1, <1>2, <1>8, <2>1
  <2> QED
    BY <1>2, <1>6, <2>2, Ages
<1> QED
  BY <1>1, <1>2, <1>6, <1>7, <1>8, <1>9

-----------------------------------------------------------------------------
(***************************************************************************)
(* The pages.                                                              *)
(***************************************************************************)
\* A page that was good stays good when the directory grows.
LEMMA PageKept ==
  ASSUME NEW dir \in Seq(Texts), Different(dir), NEW t \in Texts, t \notin ToSet(dir),
         NEW new, new = <<t>> \o dir, NEW m \in Page, PageGood(dir, m)
  PROVE  PageGood(new, m)
<1>1. /\ new \in Seq(Texts) /\ Len(new) = Len(dir) + 1
      /\ \A a \in 1 .. Len(dir) : Aged(new, a) = Aged(dir, a)
  BY Grown
<1> DEFINE before == (m.page - 1) * PageSize
<1>2. before \in Nat /\ PageSize \in Nat \ {0} /\ Len(dir) \in Nat /\ m.size \in Nat
      /\ Len(m.results) \in Nat /\ DOMAIN m.results = 1 .. Len(m.results)
  BY TextsAssumption, LenProperties DEF Page
<1>3. /\ m.size <= Len(dir) /\ (m.next <=> m.size > before + PageSize)
      /\ Len(m.results) = IF m.next THEN PageSize
                          ELSE IF m.size > before THEN m.size - before ELSE 0
      /\ \A i \in DOMAIN m.results : m.results[i] = Aged(dir, m.size - before - i + 1)
  BY DEF PageGood
<1> HIDE DEF before
<1>4. \A i \in DOMAIN m.results : m.size - before - i + 1 \in 1 .. Len(dir)
  BY <1>2, <1>3
<1>5. \A i \in DOMAIN m.results : m.results[i] = Aged(new, m.size - before - i + 1)
  BY <1>1, <1>3, <1>4
<1>6. m.size <= Len(new)
  BY ONLY <1>1, <1>2, <1>3
<1> QED
  BY ONLY <1>3, <1>5, <1>6, Zenon DEF PageGood, before

\* What the directory answers is a page that is good.
LEMMA AnswerGood ==
  ASSUME TypeOK, page > 0
  PROVE  /\ Answer \in Page /\ PageGood(directory, Answer)
         /\ Answer.page = page /\ Answer.size = Len(directory)
<1> DEFINE before == (page - 1) * PageSize
           upto   == page * PageSize
           last   == IF upto < Len(directory) THEN upto ELSE Len(directory)
           rs     == SubSeq(directory, before + 1, last)
<1>1. /\ directory \in Seq(Texts) /\ Len(directory) \in Nat
      /\ page \in Nat \ {0} /\ PageSize \in Nat \ {0}
      /\ \A i \in 1 .. Len(directory) : directory[i] \in Texts
  BY TextsAssumption, LenProperties, ElementOfSeq DEF TypeOK
<1>2. before \in Nat /\ upto = before + PageSize
  BY <1>1
<1>3. Answer = [page |-> page, results |-> rs, next |-> Len(directory) > upto,
                size |-> Len(directory)]
  BY DEF Answer
<1> HIDE DEF before, upto
<1>4. last \in Nat /\ last <= Len(directory) /\ last <= upto
  BY <1>1, <1>2
<1> HIDE DEF last
<1>5. /\ rs \in Seq(Texts)
      /\ Len(rs) = IF before + 1 <= last THEN last - (before + 1) + 1 ELSE 0
      /\ \A i \in 1 .. last - (before + 1) + 1 : rs[i] = directory[before + 1 + i - 1]
  <2>1. before + 1 \in Int /\ last \in Int /\ \A i \in before + 1 .. last : directory[i] \in Texts
    BY <1>1, <1>2, <1>4
  <2> QED
    BY <2>1, SubSeqProperties
<1> HIDE DEF rs
<1>6. DOMAIN rs = 1 .. Len(rs) /\ Len(rs) \in Nat
  BY <1>5, LenProperties
<1>7. Answer \in Page
  BY <1>1, <1>3, <1>5 DEF Page
<1>8. Answer.next <=> Len(directory) > before + PageSize
  BY <1>2, <1>3
<1>9. Len(rs) = IF Answer.next THEN PageSize
                ELSE IF Len(directory) > before THEN Len(directory) - before ELSE 0
  BY <1>1, <1>2, <1>5, <1>8 DEF last
<1>10. ASSUME NEW i \in DOMAIN rs PROVE rs[i] = Aged(directory, Len(directory) - before - i + 1)
  <2>1. i \in 1 .. last - (before + 1) + 1 /\ i \in Nat
    BY <1>2, <1>4, <1>5, <1>6
  <2>2. rs[i] = directory[before + 1 + i - 1]
    BY <1>5, <2>1
  <2>3. Len(directory) - (Len(directory) - before - i + 1) + 1 = before + 1 + i - 1
    BY <1>1, <1>2, <2>1
  <2> QED
    BY <2>2, <2>3 DEF Aged
<1>11. /\ Answer.page = page /\ Answer.size = Len(directory) /\ Answer.results = rs
  BY <1>3
<1>12. PageGood(directory, Answer)
  BY <1>1, <1>8, <1>9, <1>10, <1>11 DEF PageGood, before
<1> QED
  BY <1>7, <1>11, <1>12

\* A list and the page that comes next, which is of no older a directory.
Continues(dir, list, b, m) ==
  \/ m.page = 1 /\ list = <<>> /\ b = m.size
  \/ /\ m.page > 1 /\ Gapless(dir, list, b) /\ AgeIn(dir, Last(list)) > 1
     /\ SizeBefore(dir, list, m.page) <= m.size

\* The list with that page.
Continued(dir, all, b, m) ==
  /\ all \in Seq(Texts) /\ Gapless(dir, all, b)
  /\ m.next => AgeIn(dir, Last(all)) > 1 /\ SizeBefore(dir, all, m.page + 1) = m.size
  /\ ~m.next => AgeIn(dir, Last(all)) = 1

LEMMA Extended ==
  ASSUME NEW dir \in Seq(Texts), Different(dir), NEW m \in Page, PageGood(dir, m),
         NEW list \in Seq(Texts), NEW b \in Nat,
         Continues(dir, list, b, m), m.size > 0, NEW all, all = list \o m.results
  PROVE  Continued(dir, all, b, m)
<1> USE DEF Continues, Continued
<1> DEFINE before == (m.page - 1) * PageSize
           rs == m.results
           newest == m.size - before
<1>1. /\ before \in Nat /\ PageSize \in Nat \ {0} /\ m.size \in Nat /\ m.page \in Nat \ {0}
      /\ ((m.page + 1) - 1) * PageSize = before + PageSize
      /\ (m.page = 1 => before = 0)
  <2>1. m.size \in Nat /\ m.page \in Nat \ {0} /\ PageSize \in Nat \ {0}
    BY TextsAssumption DEF Page
  <2>2. ASSUME NEW p \in Nat \ {0}, NEW z \in Nat \ {0}
        PROVE  (p - 1) * z \in Nat /\ ((p + 1) - 1) * z = (p - 1) * z + z /\ (p = 1 => (p - 1) * z = 0)
    OBVIOUS
  <2> QED
    BY ONLY <2>1, <2>2
<1>2. /\ rs \in Seq(Texts) /\ Len(rs) \in Nat /\ DOMAIN rs = 1 .. Len(rs)
      /\ Len(list) \in Nat /\ DOMAIN list = 1 .. Len(list) /\ Len(dir) \in Nat
  BY LenProperties DEF Page
<1>3. SizeBefore(dir, list, m.page) = AgeIn(dir, Last(list)) + before - 1
      /\ SizeBefore(dir, all, m.page + 1) = AgeIn(dir, Last(all)) + (before + PageSize) - 1
  BY <1>1 DEF SizeBefore
<1>4. /\ m.size <= Len(dir) /\ (m.next <=> m.size > before + PageSize)
      /\ Len(rs) = IF m.next THEN PageSize ELSE IF m.size > before THEN m.size - before ELSE 0
      /\ \A i \in DOMAIN rs : rs[i] = Aged(dir, m.size - before - i + 1)
  BY DEF PageGood
<1> HIDE DEF before, rs
<1>5. list # <<>> => Len(list) \in 1 .. Len(list) /\ Last(list) = list[Len(list)]
                     /\ Len(list) > 0
  BY <1>2, EmptySeq DEF Last
<1>6. list # <<>> => \A i \in 1 .. Len(list) : list[i] \in ToSet(dir) /\ AgeIn(dir, list[i]) \in 1 .. Len(dir)
  <2> SUFFICES ASSUME list # <<>>, NEW i \in 1 .. Len(list)
               PROVE  list[i] \in ToSet(dir) /\ AgeIn(dir, list[i]) \in 1 .. Len(dir)
    OBVIOUS
  <2>1. list[i] \in ToSet(list)
    BY <1>2 DEF ToSet
  <2>2. list[i] \in ToSet(dir)
    BY <1>1, <2>1 DEF Gapless
  <2> QED
    BY <2>2, Ages
<1>7. m.size > before /\ newest \in Nat /\ newest > 0
  <2>1. CASE m.page = 1
    BY <1>1, <2>1
  <2>2. CASE m.page > 1
    <3>1. Gapless(dir, list, b) /\ AgeIn(dir, Last(list)) > 1 /\ SizeBefore(dir, list, m.page) <= m.size
      BY <1>1, <2>2
    <3>2. list # <<>>
      BY ONLY <3>1 DEF Gapless
    <3>3. AgeIn(dir, Last(list)) \in 1 .. Len(dir)
      BY ONLY <1>5, <1>6, <3>2
    <3>4. AgeIn(dir, Last(list)) + before - 1 <= m.size
      BY ONLY <1>3, <3>1
    <3>5. AgeIn(dir, Last(list)) \in Int /\ before \in Int /\ m.size \in Int
      BY ONLY <1>1, <1>2, <3>3
    <3>6. AgeIn(dir, Last(list)) > 1
      BY ONLY <3>1
    <3>7. m.size > before
      BY ONLY <3>4, <3>5, <3>6
    <3> QED
      BY ONLY <3>5, <3>7 DEF newest
  <2> QED
    BY <1>1, <2>1, <2>2
<1>8. /\ Len(rs) > 0 /\ Len(rs) <= newest
      /\ m.next => Len(rs) = PageSize /\ newest - Len(rs) > 0
      /\ ~m.next => Len(rs) = newest
  BY <1>1, <1>2, <1>4, <1>7
<1>21. Len(rs) \in Nat /\ Len(rs) > 0 /\ 1 \in 1 .. Len(rs)
  <2>1. Len(rs) \in Nat
    BY ONLY <1>2
  <2>2. Len(rs) > 0
    BY ONLY <1>8
  <2> QED
    BY ONLY <2>1, <2>2
<1>9. \A i \in 1 .. Len(rs) : /\ newest - i + 1 \in 1 .. Len(dir)
                              /\ rs[i] \in ToSet(dir) /\ AgeIn(dir, rs[i]) = newest - i + 1
  <2> SUFFICES ASSUME NEW i \in 1 .. Len(rs)
               PROVE  /\ newest - i + 1 \in 1 .. Len(dir)
                      /\ rs[i] \in ToSet(dir) /\ AgeIn(dir, rs[i]) = newest - i + 1
    OBVIOUS
  <2>1. newest - i + 1 \in 1 .. Len(dir)
    <3>1. newest <= Len(dir) /\ newest \in Nat
      BY ONLY <1>1, <1>2, <1>4, <1>7 DEF newest
    <3> QED
      BY ONLY <1>2, <1>8, <3>1, i \in 1 .. Len(rs)
  <2>2. rs[i] = Aged(dir, newest - i + 1)
    BY ONLY <1>2, <1>4, i \in 1 .. Len(rs) DEF newest
  <2> QED
    BY <2>1, <2>2, Ages
<1>10. /\ all \in Seq(Texts) /\ Len(all) = Len(list) + Len(rs)
       /\ \A i \in 1 .. Len(list) + Len(rs) :
            all[i] = IF i <= Len(list) THEN list[i] ELSE rs[i - Len(list)]
  BY <1>2, ConcatProperties DEF rs
<1> HIDE DEF newest
<1>11. /\ \A i \in 1 .. Len(list) : all[i] = list[i]
       /\ \A i \in 1 .. Len(rs) : all[Len(list) + i] = rs[i]
  <2>1. ASSUME NEW i \in 1 .. Len(list) PROVE all[i] = list[i]
    BY <1>2, <1>10
  <2>2. ASSUME NEW i \in 1 .. Len(rs) PROVE all[Len(list) + i] = rs[i]
    <3>1. /\ Len(list) + i \in 1 .. Len(list) + Len(rs) /\ ~(Len(list) + i <= Len(list))
          /\ (Len(list) + i) - Len(list) = i
      BY <1>2
    <3> QED
      BY <1>10, <3>1
  <2> QED
    BY <2>1, <2>2
<1>12. \A i \in 1 .. Len(all) : \/ i \in 1 .. Len(list)
                                \/ i - Len(list) \in 1 .. Len(rs) /\ i = Len(list) + (i - Len(list))
  BY <1>2, <1>10
<1>13. all # <<>> /\ DOMAIN all = 1 .. Len(all) /\ Len(all) \in Nat /\ Len(all) > 0
  BY <1>2, <1>8, <1>10, LenProperties, EmptySeq
<1>14. ToSet(all) \subseteq ToSet(dir)
  <2> SUFFICES ASSUME NEW i \in 1 .. Len(all) PROVE all[i] \in ToSet(dir)
    BY <1>13 DEF ToSet
  <2>1. CASE i \in 1 .. Len(list)
    BY <1>5, <1>6, <1>11, <1>2, <2>1, EmptySeq
  <2>2. CASE i - Len(list) \in 1 .. Len(rs) /\ i = Len(list) + (i - Len(list))
    BY <1>9, <1>11, <2>2
  <2> QED
    BY <1>12, <2>1, <2>2
<1>15. AgeIn(dir, all[1]) = b
  <2>1. CASE m.page = 1
    <3>1. list = <<>> /\ b = newest /\ Len(list) = 0
      <4>1. list = <<>> /\ b = m.size /\ before = 0
        BY <1>1, <2>1
      <4>2. Len(list) = 0
        BY <4>1, EmptySeq
      <4> QED
        BY ONLY <1>1, <4>1, <4>2 DEF newest
    <3>2. all[1] = rs[1] /\ 1 \in 1 .. Len(rs)
      <4>1. 1 \in 1 .. Len(rs) /\ Len(list) + 1 = 1
        <5>1. Len(list) = 0 /\ Len(list) + 1 = 1
          BY ONLY <3>1
        <5>2. 1 \in 1 .. Len(rs)
          BY ONLY <1>21
        <5> QED
          BY ONLY <5>1, <5>2
      <4>2. all[Len(list) + 1] = rs[1]
        BY ONLY <1>11, <4>1
      <4> QED
        BY ONLY <4>1, <4>2
    <3>3. newest - 1 + 1 = newest
      BY <1>7
    <3> QED
      BY <1>9, <3>1, <3>2, <3>3
  <2>2. CASE m.page > 1
    <3>1. list # <<>> /\ AgeIn(dir, list[1]) = b
      BY <1>1, <2>2 DEF Gapless
    <3>2. 1 \in 1 .. Len(list)
      BY ONLY <1>2, <1>5, <3>1
    <3> QED
      BY ONLY <1>11, <3>1, <3>2
  <2> QED
    BY <1>1, <2>1, <2>2
<1>16. ASSUME NEW i \in 1 .. Len(all) - 1
       PROVE  AgeIn(dir, all[i + 1]) >= AgeIn(dir, all[i]) - 1
  <2>1. CASE i + 1 \in 1 .. Len(list)
    <3>1. i \in 1 .. Len(list) - 1 /\ i \in 1 .. Len(list) /\ list # <<>>
      BY <1>2, <2>1, <1>13, EmptySeq
    <3>2. AgeIn(dir, list[i + 1]) >= AgeIn(dir, list[i]) - 1
      BY <1>1, <3>1 DEF Gapless
    <3> QED
      BY <1>11, <2>1, <3>1, <3>2
  <2>2. CASE i \in 1 .. Len(list) /\ i + 1 \notin 1 .. Len(list)
    <3>1. i = Len(list) /\ list # <<>> /\ i + 1 = Len(list) + 1 /\ 1 \in 1 .. Len(rs)
      <4>1. i = Len(list) /\ Len(list) > 0 /\ 1 \in 1 .. Len(rs)
        <5>1. Len(list) \in Nat
          BY ONLY <1>2
        <5>2. i = Len(list) /\ Len(list) > 0
          BY ONLY <2>2, <5>1
        <5> QED
          BY ONLY <1>21, <5>2
      <4>2. list # <<>>
        BY <4>1, EmptySeq
      <4> QED
        BY ONLY <4>1, <4>2
    <3>2. all[i] = Last(list) /\ all[i + 1] = rs[1]
      BY <1>5, <1>11, <2>2, <3>1
    <3>3. AgeIn(dir, rs[1]) = newest
      BY <1>7, <1>9, <3>1
    <3>4. AgeIn(dir, Last(list)) + before - 1 <= m.size /\ AgeIn(dir, Last(list)) \in Nat
      BY <1>1, <1>2, <1>3, <1>5, <1>6, <3>1
    <3>5. newest >= AgeIn(dir, Last(list)) - 1
      BY <1>1, <3>4 DEF newest
    <3> QED
      BY <3>2, <3>3, <3>5
  <2>3. CASE i \notin 1 .. Len(list)
    <3>1. /\ i - Len(list) \in 1 .. Len(rs) /\ i = Len(list) + (i - Len(list))
          /\ (i - Len(list)) + 1 \in 1 .. Len(rs) /\ i + 1 = Len(list) + ((i - Len(list)) + 1)
      BY <1>2, <1>10, <2>3
    <3>2. all[i] = rs[i - Len(list)] /\ all[i + 1] = rs[(i - Len(list)) + 1]
      BY <1>11, <3>1
    <3>3. /\ AgeIn(dir, rs[i - Len(list)]) = newest - (i - Len(list)) + 1
          /\ AgeIn(dir, rs[(i - Len(list)) + 1]) = newest - ((i - Len(list)) + 1) + 1
      BY <1>9, <3>1
    <3>4. newest - ((i - Len(list)) + 1) + 1 >= (newest - (i - Len(list)) + 1) - 1
      BY <1>2, <1>7, <3>1
    <3> QED
      BY <3>2, <3>3, <3>4
  <2> QED
    BY <2>1, <2>2, <2>3
<1>17. AgeIn(dir, Last(all)) = newest - Len(rs) + 1
  <2>1. Len(rs) \in 1 .. Len(rs) /\ Len(all) = Len(list) + Len(rs)
    BY <1>2, <1>8, <1>10
  <2>2. Last(all) = rs[Len(rs)]
    BY <1>11, <2>1 DEF Last
  <2> QED
    BY <1>9, <2>1, <2>2
<1>18. Gapless(dir, all, b)
  BY <1>13, <1>14, <1>15, <1>16 DEF Gapless
<1>19. m.next => AgeIn(dir, Last(all)) > 1 /\ SizeBefore(dir, all, m.page + 1) = m.size
  BY <1>1, <1>2, <1>3, <1>7, <1>8, <1>17 DEF newest
<1>20. ~m.next => AgeIn(dir, Last(all)) = 1
  <2> SUFFICES ASSUME ~m.next PROVE AgeIn(dir, Last(all)) = 1
    OBVIOUS
  <2>1. Len(rs) = newest
    BY ONLY <1>8, ~m.next
  <2>2. newest \in Nat
    BY ONLY <1>7
  <2> QED
    BY ONLY <1>17, <2>1, <2>2
<1> QED
  BY <1>10, <1>18, <1>19, <1>20

-----------------------------------------------------------------------------
(***************************************************************************)
(* The candidates.                                                         *)
(***************************************************************************)
\* What falls by no more than one at a time misses no number on its way.
Slow(g, n) == g \in [1 .. n -> Nat] /\ \A i \in 1 .. n - 1 : g[i + 1] >= g[i] - 1

LEMMA Descent ==
  ASSUME NEW n \in Nat, NEW g, Slow(g, n),
         NEW a \in Nat, NEW k \in 1 .. n, g[k] >= a, g[n] <= a
  PROVE  \E l \in k .. n : g[l] = a
<1> USE DEF Slow
<1> DEFINE T == {l \in k .. n : g[l] <= a}
<1>1. n \in T /\ T \subseteq Nat
  OBVIOUS
<1>2. PICK l \in T : \A y \in T : l <= y
  BY <1>1, LeastNumber
<1>3. l \in k .. n /\ g[l] <= a /\ g[l] \in Nat
  BY <1>2
<1>4. CASE l = k
  BY <1>3, <1>4
<1>5. CASE l # k
  <2>1. l - 1 \in k .. n /\ l - 1 \in 1 .. n - 1 /\ (l - 1) + 1 = l /\ ~ (l <= l - 1)
    BY <1>3, <1>5
  <2>2. l - 1 \notin T
    BY <1>2, <2>1
  <2>3. g[l - 1] > a /\ g[l - 1] \in Nat
    BY <2>1, <2>2
  <2>4. g[l] >= g[l - 1] - 1
    BY <2>1
  <2>5. g[l] = a
    BY <1>3, <2>3, <2>4
  <2> QED
    BY <1>3, <2>5
<1> QED
  BY <1>4, <1>5

LEMMA GreatestNumber ==
  ASSUME NEW n \in Nat, NEW T, T \subseteq 1 .. n, T # {}
  PROVE  \E x \in T : \A y \in T : y <= x
<1> DEFINE U == {u \in 0 .. n : n - u \in T}
<1>5. \A x \in T : x \in Nat /\ n - x \in 0 .. n /\ n - (n - x) = x
  OBVIOUS
<1>6. \A x \in T : n - x \in U
  BY <1>5
<1>1. U \subseteq Nat /\ U # {}
  <2>1. U \subseteq Nat
    OBVIOUS
  <2>2. PICK x \in T : TRUE
    OBVIOUS
  <2>3. n - x \in U
    BY <1>6
  <2> HIDE DEF U
  <2> QED
    BY <2>1, <2>3
<1>2. PICK u \in U : \A y \in U : u <= y
  BY <1>1, LeastNumber
<1>3. n - u \in T /\ u \in Nat
  BY <1>2
<1>4. ASSUME NEW y \in T PROVE y <= n - u
  <2>1. u <= n - y
    BY <1>2, <1>6
  <2> QED
    BY <1>3, <1>5, <2>1
<1> QED
  BY <1>3, <1>4

LEMMA TriedBackwards ==
  ASSUME NEW list \in Seq(Texts)
  PROVE  /\ Len(list) \in Nat /\ DOMAIN list = 1 .. Len(list) /\ DOMAIN Tried(list) = 1 .. Len(list)
         /\ \A i \in 1 .. Len(list) :
              Len(list) - i + 1 \in 1 .. Len(list) /\ Tried(list)[i] = list[Len(list) - i + 1]
<1>1. Len(list) \in Nat /\ DOMAIN list = 1 .. Len(list)
  BY LenProperties
<1>2. \A i \in 1 .. Len(list) : Len(list) - i + 1 \in 1 .. Len(list)
  BY <1>1
<1>3. Tried(list) = [i \in 1 .. Len(list) |-> list[(Len(list) - i) + 1]]
  BY DEF Tried, Reverse
<1> QED
  BY <1>1, <1>2, <1>3

LEMMA ChosenText ==
  ASSUME NEW list \in Seq(Texts)
  PROVE  Chosen(list) \in Texts \cup {None}
<1> DEFINE tried      == Tried(list)
           candidates == {i \in DOMAIN tried : tried[i] \notin Unparsable}
           fit        == {i \in candidates : tried[i] \in call.fits}
<1>1. /\ Len(list) \in Nat /\ DOMAIN tried = 1 .. Len(list)
      /\ \A i \in DOMAIN tried : tried[i] \in Texts
  <2>1. \A i \in 1 .. Len(list) : list[i] \in Texts
    BY ElementOfSeq
  <2> QED
    BY <2>1, TriedBackwards
<1> HIDE DEF tried
<1>2. candidates \subseteq 1 .. Len(list) /\ fit \subseteq candidates
  BY <1>1
<1>3. candidates # {} => (CHOOSE i \in candidates : \A j \in candidates : j <= i) \in candidates
  BY <1>1, <1>2, GreatestNumber
<1>4. fit # {} => (CHOOSE i \in fit : \A j \in fit : i <= j) \in fit
  <2>1. fit \subseteq Nat
    BY <1>1, <1>2
  <2> QED
    BY <2>1, LeastNumber
<1>5. Chosen(list) = IF candidates = {} THEN None
                     ELSE IF fit = {} THEN tried[CHOOSE i \in candidates : \A j \in candidates : j <= i]
                     ELSE tried[CHOOSE i \in fit : \A j \in fit : i <= j]
  BY DEF Chosen, tried
<1>6. \A i \in candidates : tried[i] \in Texts
  BY <1>1
<1> HIDE DEF candidates, fit
<1> QED
  BY <1>2, <1>3, <1>4, <1>5, <1>6

\* What is chosen is the last entry of the list which the data fits.
LEMMA ChosenLast ==
  ASSUME NEW list \in Seq(Texts), NEW F, F = call.fits \ Unparsable,
         \E k \in 1 .. Len(list) : list[k] \in F
  PROVE  \E k \in 1 .. Len(list) : /\ list[k] \in F /\ Chosen(list) = list[k]
                                   /\ \A l \in 1 .. Len(list) : l > k => list[l] \notin F
<1> DEFINE tried      == Tried(list)
           candidates == {i \in DOMAIN tried : tried[i] \notin Unparsable}
           fit        == {i \in candidates : tried[i] \in call.fits}
           n          == Len(list)
<1>1. /\ n \in Nat /\ DOMAIN tried = 1 .. n
      /\ \A i \in 1 .. n : n - i + 1 \in 1 .. n /\ tried[i] = list[n - i + 1]
  BY TriedBackwards
<1>2. Chosen(list) = IF candidates = {} THEN None
                     ELSE IF fit = {} THEN tried[CHOOSE i \in candidates : \A j \in candidates : j <= i]
                     ELSE tried[CHOOSE i \in fit : \A j \in fit : i <= j]
  BY DEF Chosen
<1> HIDE DEF tried, n
<1>3. \A i \in 1 .. n : n - (n - i + 1) + 1 = i
  BY <1>1
<1>4. fit = {i \in 1 .. n : tried[i] \in F}
  BY <1>1
<1>5. fit # {} /\ fit \subseteq Nat /\ candidates # {}
  <2>1. PICK k \in 1 .. n : list[k] \in F
    BY DEF n
  <2>2. n - k + 1 \in 1 .. n /\ tried[n - k + 1] = list[k]
    BY <1>1, <1>3
  <2>3. n - k + 1 \in fit
    BY <1>4, <2>1, <2>2
  <2> QED
    BY <1>1, <1>4, <2>3
<1> HIDE DEF candidates, fit
<1>6. PICK i \in fit : /\ Chosen(list) = tried[i]
                       /\ \A j \in fit : i <= j
  <2>1. \E x \in fit : \A y \in fit : x <= y
    BY <1>5, LeastNumber
  <2> QED
    BY <1>2, <1>5, <2>1
<1>7. i \in 1 .. n /\ tried[i] \in F
  BY <1>4, <1>6
<1>8. n - i + 1 \in 1 .. n /\ list[n - i + 1] \in F /\ Chosen(list) = list[n - i + 1]
  BY <1>1, <1>6, <1>7
<1>9. ASSUME NEW l \in 1 .. n, l > n - i + 1 PROVE list[l] \notin F
  <2>1. n - l + 1 \in 1 .. n /\ tried[n - l + 1] = list[l] /\ ~ (i <= n - l + 1)
    <3>1. n - l + 1 \in 1 .. n /\ ~ (i <= n - l + 1)
      BY <1>1, <1>7, <1>9
    <3> QED
      BY <1>1, <1>3, <3>1
  <2> QED
    BY <1>4, <1>6, <2>1
<1> QED
  BY <1>8, <1>9 DEF n

Fitting(known, b, F) == {i \in 1 .. b : known[i] \in F}

Greatest(S) == CHOOSE i \in S : \A j \in S : i >= j

\* The last entry of the list that is one of F is t.
LastIs(list, F, t) ==
  /\ \E k \in 1 .. Len(list) : list[k] \in F
  /\ \A k \in 1 .. Len(list) :
       (list[k] \in F /\ \A l \in 1 .. Len(list) : l > k => list[l] \notin F) => list[k] = t

\* Of a list without gaps that ends with the oldest entry, the last that fits is
\* the oldest that fits.
LEMMA OldestFits ==
  ASSUME NEW dir \in Seq(Texts), Different(dir), NEW list \in Seq(Texts), NEW b \in Nat,
         Gapless(dir, list, b), AgeIn(dir, Last(list)) = 1, NEW F,
         NEW known, known = SubSeq(dir, Len(dir) - b + 1, Len(dir)),
         NEW fitting, fitting = Fitting(known, b, F), fitting # {}
  PROVE  LastIs(list, F, known[Greatest(fitting)])
<1> USE DEF Fitting
<1> DEFINE n == Len(list)
           g == [i \in 1 .. n |-> AgeIn(dir, list[i])]
           best == Greatest(fitting)
<1>1. /\ n \in Nat /\ DOMAIN list = 1 .. n /\ Len(dir) \in Nat /\ DOMAIN dir = 1 .. Len(dir)
      /\ \A i \in DOMAIN dir : dir[i] \in Texts
  BY LenProperties, ElementOfSeq
<1>2. list # <<>> /\ n > 0 /\ 1 \in 1 .. n /\ n \in 1 .. n
  <2>1. list # <<>> /\ n > 0
    BY <1>1, EmptySeq DEF Gapless
  <2> QED
    BY <1>1, <2>1
<1> HIDE DEF n
<1>3. ASSUME NEW i \in 1 .. n
      PROVE  /\ list[i] \in ToSet(dir) /\ AgeIn(dir, list[i]) \in 1 .. Len(dir)
             /\ Aged(dir, AgeIn(dir, list[i])) = list[i]
  <2>1. list[i] \in ToSet(list)
    BY <1>1 DEF ToSet
  <2>2. list[i] \in ToSet(dir)
    BY <2>1 DEF Gapless
  <2> QED
    BY <2>2, Ages
<1>4. /\ g \in [1 .. n -> Nat]
      /\ \A i \in 1 .. n : g[i] = AgeIn(dir, list[i]) /\ g[i] \in 1 .. Len(dir)
  BY <1>1, <1>3
<1>5. g[1] = b /\ g[n] = 1 /\ b \in 1 .. Len(dir)
  <2>1. g[1] = b
    BY <1>2, <1>4 DEF Gapless
  <2>2. g[n] = 1
    BY <1>2, <1>4 DEF Last, n
  <2> QED
    BY <1>2, <1>4, <2>1, <2>2
<1>6. \A i \in 1 .. n - 1 : g[i + 1] >= g[i] - 1
  <2> SUFFICES ASSUME NEW i \in 1 .. n - 1 PROVE g[i + 1] >= g[i] - 1
    OBVIOUS
  <2>1. i \in 1 .. n /\ i + 1 \in 1 .. n
    BY <1>1
  <2>2. AgeIn(dir, list[i + 1]) >= AgeIn(dir, list[i]) - 1
    BY DEF Gapless, n
  <2> QED
    BY <1>4, <2>1, <2>2
<1> HIDE DEF g
\* The known entry i has the age b - i + 1.
<1>7. ASSUME NEW i \in 1 .. b
      PROVE  b - i + 1 \in 1 .. b /\ known[i] = Aged(dir, b - i + 1)
  <2>1. /\ Len(dir) - b + 1 \in Int /\ Len(dir) \in Int
        /\ Len(dir) - b + 1 >= 1 /\ i \in 1 .. Len(dir) - (Len(dir) - b + 1) + 1
    BY <1>1, <1>5
  <2>2. \A x \in Len(dir) - b + 1 .. Len(dir) : dir[x] \in Texts
    BY <1>1, <2>1
  <2>3. known[i] = dir[Len(dir) - b + 1 + i - 1]
    BY <2>1, <2>2, SubSeqProperties
  <2>4. b - i + 1 \in 1 .. b /\ Len(dir) - b + 1 + i - 1 = Len(dir) - (b - i + 1) + 1
    BY <1>1, <1>5
  <2> QED
    BY <2>3, <2>4 DEF Aged
<1>8. fitting \subseteq 1 .. b
  OBVIOUS
<1>9. best \in fitting /\ \A j \in fitting : best >= j
  <2>1. \E x \in fitting : \A y \in fitting : y <= x
    BY <1>8, GreatestNumber
  <2>2. \E x \in fitting : \A y \in fitting : x >= y
    BY <1>8, <2>1
  <2> QED
    BY <2>2 DEF Greatest
<1> HIDE DEF best
<1>10. best \in 1 .. b /\ known[best] \in F
  BY <1>8, <1>9
<1> DEFINE a == b - best + 1
<1>11. a \in 1 .. b /\ a \in Nat /\ known[best] = Aged(dir, a) /\ a >= 1
  BY <1>7, <1>10
<1> HIDE DEF a
\* It is in the list, after any place whose entry is no older.
<1>12. ASSUME NEW k \in 1 .. n, g[k] >= a
       PROVE  \E l \in k .. n : list[l] = known[best]
  <2>1. PICK l \in k .. n : g[l] = a
    <3>1. g[n] <= a
      BY <1>5, <1>11
    <3>2. Slow(g, n)
      BY <1>4, <1>6 DEF Slow
    <3> QED
      <4>1. n \in Nat /\ a \in Nat /\ k \in 1 .. n /\ g[k] >= a
        BY <1>1, <1>11, <1>12
      <4> QED
        BY ONLY <3>1, <3>2, <4>1, Descent
  <2>2. l \in 1 .. n
    BY <1>1
  <2>3. list[l] = Aged(dir, a)
    BY <1>3, <1>4, <2>1, <2>2
  <2> QED
    BY <1>11, <2>3
<1>13. \E k \in 1 .. n : list[k] \in F
  <2>1. g[1] >= a
    BY <1>5, <1>11
  <2>2. PICK l \in 1 .. n : list[l] = known[best]
    BY <1>2, <1>12, <2>1
  <2> QED
    BY <1>10, <2>2
<1>14. ASSUME NEW k \in 1 .. n, list[k] \in F,
              \A l \in 1 .. n : l > k => list[l] \notin F
       PROVE  list[k] = known[best]
  <2>1. g[k] >= a
    <3>1. CASE g[k] > b
      BY <1>4, <1>5, <1>11, <3>1
    <3>2. CASE g[k] <= b
      <4>1. g[k] \in 1 .. b
        BY <1>4, <3>2
      <4>2. b - g[k] + 1 \in 1 .. b /\ b - (b - g[k] + 1) + 1 = g[k]
        BY ONLY <4>1, b \in Nat
      <4>3. known[b - g[k] + 1] = list[k]
        <5>1. known[b - g[k] + 1] = Aged(dir, b - (b - g[k] + 1) + 1)
          BY ONLY <1>7, <4>2
        <5>2. Aged(dir, g[k]) = list[k]
          BY ONLY <1>3, <1>4, k \in 1 .. n
        <5> QED
          BY ONLY <4>2, <5>1, <5>2
      <4>4. b - g[k] + 1 \in fitting
        BY <1>14, <4>2, <4>3
      <4>5. best >= b - g[k] + 1
        BY <1>9, <4>4
      <4> QED
        BY <1>10, <4>1, <4>5 DEF a
    <3> QED
      BY <1>4, <1>5, <3>1, <3>2
  <2>2. PICK l \in k .. n : list[l] = known[best]
    BY <1>12, <2>1
  <2>3. l \in 1 .. n /\ ~ (l > k)
    BY <1>10, <1>14, <2>2
  <2>4. l = k
    BY <2>3
  <2> QED
    BY <2>2, <2>4
<1> QED
  BY <1>13, <1>14 DEF n, best, LastIs

-----------------------------------------------------------------------------
(***************************************************************************)
(* The steps of _get_all.                                                  *)
(***************************************************************************)
\* What is known of a list with one more page.
TakenGood(list, b, m) ==
  /\ list \in Seq(Texts) /\ b \in Nat /\ b <= m.size
  /\ m.size = 0 => ~m.next /\ b = 0 /\ list = <<>>
  /\ m.size > 0 => /\ Gapless(directory, list, b)
                   /\ m.next => /\ AgeIn(directory, Last(list)) > 1
                                /\ SizeBefore(directory, list, page + 1) = m.size
                   /\ ~m.next => AgeIn(directory, Last(list)) = 1

\* The list after one more page, new or remembered: b is the new base.
LEMMA Taken ==
  ASSUME TypeOK, PagesGood, ResultsGood, call # None, ~failed, ~stale,
         NEW m \in Page, PageGood(directory, m), m.page = page,
         page > 1 => SizeBefore(directory, results, page) <= m.size,
         NEW b, b = IF m.size < base THEN m.size ELSE base,
         NEW list, list = results \o m.results
  PROVE  TakenGood(list, b, m)
<1>1. /\ directory \in Seq(Texts) /\ Different(directory) /\ results \in Seq(Texts)
      /\ base \in Nat /\ m.size \in Nat /\ m.results \in Seq(Texts) /\ Len(directory) \in Nat
      /\ Len(directory) <= MaxTexts /\ MaxTexts \in Nat /\ page \in Nat /\ page > 0
      /\ m.page \in Nat \ {0} /\ PageSize \in Nat \ {0}
  BY TextsAssumption, LenProperties DEF TypeOK, PagesGood, Page
<1>2. m.size <= Len(directory)
  BY DEF PageGood
<1>3. list \in Seq(Texts) /\ b \in Nat /\ b <= m.size
  BY <1>1, ConcatProperties
<1>4. page = 1 => results = <<>> /\ b = m.size
  BY <1>1, <1>2 DEF ResultsGood
<1>5. page > 1 => /\ Gapless(directory, results, base) /\ AgeIn(directory, Last(results)) > 1
                  /\ base <= SizeBefore(directory, results, page)
                  /\ SizeBefore(directory, results, page) <= m.size
                  /\ SizeBefore(directory, results, page) \in Nat
                  /\ SizeBefore(directory, results, page) > 0
  <2> SUFFICES ASSUME page > 1
               PROVE  /\ Gapless(directory, results, base) /\ AgeIn(directory, Last(results)) > 1
                      /\ base <= SizeBefore(directory, results, page)
                      /\ SizeBefore(directory, results, page) <= m.size
                      /\ SizeBefore(directory, results, page) \in Nat
                      /\ SizeBefore(directory, results, page) > 0
    OBVIOUS
  <2>1. /\ Gapless(directory, results, base) /\ AgeIn(directory, Last(results)) > 1
        /\ base <= SizeBefore(directory, results, page)
        /\ SizeBefore(directory, results, page) <= m.size
    BY DEF ResultsGood
  <2>2. Last(results) \in ToSet(directory)
    <3>1. results # <<>> /\ ToSet(results) \subseteq ToSet(directory)
      BY <2>1 DEF Gapless
    <3>2. Len(results) \in DOMAIN results
      BY <1>1, <3>1, LenProperties, EmptySeq
    <3> QED
      BY <3>1, <3>2 DEF Last, ToSet
  <2>3. AgeIn(directory, Last(results)) \in 1 .. Len(directory)
    BY <1>1, <2>2, Ages
  <2>4. ASSUME NEW p \in Nat, p > 1, NEW z \in Nat \ {0}, NEW a \in Nat, a > 1
        PROVE  a + (p - 1) * z - 1 \in Nat /\ a + (p - 1) * z - 1 > 0
    <3>1. (p - 1) * z \in Nat
      BY <2>4
    <3> QED
      BY <2>4, <3>1
  <2>5. /\ SizeBefore(directory, results, page) \in Nat
        /\ SizeBefore(directory, results, page) > 0
    <3>1. AgeIn(directory, Last(results)) \in Nat
      BY <1>1, <2>3
    <3> QED
      BY ONLY <1>1, <2>1, <2>4, <3>1, page > 1 DEF SizeBefore
  <2> QED
    BY <2>1, <2>5
<1>6. page > 1 => m.size > 0 /\ b = base
  BY <1>1, <1>5
<1>7. m.size = 0 => ~m.next /\ b = 0 /\ list = <<>>
  <2> SUFFICES ASSUME m.size = 0 PROVE ~m.next /\ b = 0 /\ list = <<>>
    OBVIOUS
  <2>1. page = 1
    BY <1>1, <1>6
  <2>2. results = <<>> /\ b = 0
    BY <1>4, <2>1
  <2>3. ~m.next /\ Len(m.results) = 0
    <3>1. (m.page - 1) * PageSize = 0
      BY <1>1, <2>1
    <3> QED
      BY <1>1, <3>1 DEF PageGood
  <2>4. m.results = <<>>
    BY <1>1, <2>3, EmptySeq
  <2> QED
    BY <2>2, <2>3, <2>4
<1>8. ASSUME m.size > 0
      PROVE  /\ Gapless(directory, list, b)
             /\ m.next => /\ AgeIn(directory, Last(list)) > 1
                          /\ SizeBefore(directory, list, page + 1) = m.size
             /\ ~m.next => AgeIn(directory, Last(list)) = 1
  <2>1. Continues(directory, results, b, m)
    BY <1>1, <1>4, <1>5, <1>6 DEF Continues
  <2>2. Continued(directory, list, b, m)
    BY ONLY <1>1, <1>3, <1>8, <2>1, m \in Page, PageGood(directory, m),
            list = results \o m.results, Extended
  <2> QED
    BY <2>2 DEF Continued
<1> QED
  BY <1>3, <1>7, <1>8 DEF TakenGood

\* An update leaves a sequence of signatures.
LEMMA UpdatedTyped ==
  ASSUME signatures \in Seq(Signature), NEW t \in Texts, NEW g \in BOOLEAN
  PROVE  Updated(t, g) \in Seq(Signature)
<1> DEFINE same == {i \in DOMAIN signatures : signatures[i].text = t}
           new  == [text |-> t, guessed |-> g, count |-> 1]
           upd  == [i \in DOMAIN signatures |->
                      IF i \in same THEN Merged(signatures[i], g) ELSE signatures[i]]
<1>1. /\ Len(signatures) \in Nat /\ DOMAIN signatures = 1 .. Len(signatures)
      /\ \A i \in DOMAIN signatures : signatures[i] \in Signature
  BY LenProperties, ElementOfSeq
<1>2. Updated(t, g) = IF same = {} THEN Append(signatures, new) ELSE upd
  BY DEF Updated
<1>3. new \in Signature
  BY DEF Signature
<1>4. \A i \in DOMAIN signatures : Merged(signatures[i], g) \in Signature
  <2> SUFFICES ASSUME NEW i \in DOMAIN signatures PROVE Merged(signatures[i], g) \in Signature
    OBVIOUS
  <2>1. PICK s : s = signatures[i] /\ s \in Signature
    BY <1>1
  <2>2. s.text \in Texts /\ s.guessed \in BOOLEAN /\ s.count + 1 \in Nat
    BY <2>1 DEF Signature
  <2>3. PICK h \in BOOLEAN : Merged(s, g) = [text |-> s.text, guessed |-> h, count |-> s.count + 1]
    BY <2>2 DEF Merged
  <2> QED
    BY <2>1, <2>2, <2>3 DEF Signature
<1>5. upd = [i \in 1 .. Len(signatures) |->
               IF i \in same THEN Merged(signatures[i], g) ELSE signatures[i]]
  BY <1>1
<1>6. upd \in Seq(Signature)
  BY <1>1, <1>4, <1>5, IsASeq
<1>7. Append(signatures, new) \in Seq(Signature)
  BY <1>3, AppendProperties
<1> QED
  BY <1>2, <1>6, <1>7

\* What a page does, apart from what it adds.
LEMMA GoneOn ==
  ASSUME TypeOK, NameStored, call # None, NEW list \in Seq(Texts), NEW next \in BOOLEAN,
         GoOn(list, next), UNCHANGED <<what, foreign>>
  PROVE  /\ NameStored'
         /\ signatures' \in Seq(Signature) /\ results' \in Seq(Texts) /\ page' \in Nat
         /\ call' \in Calls \cup {None} /\ (call' # None => page' > 0)
         /\ next => call' = call /\ page' = page + 1 /\ results' = list
         /\ ~next => call' = None /\ Settle(list)
<1>1. signatures \in Seq(Signature) /\ page \in Nat /\ call \in Calls \cup {None}
  BY DEF TypeOK
<1>2. CASE next
  <2>1. /\ page' = page + 1 /\ results' = list
        /\ UNCHANGED <<call, shown, signatures, names>>
    BY <1>2 DEF GoOn
  <2> QED
    BY <1>1, <1>2, <2>1 DEF NameStored
<1>3. CASE ~next
  <2>1. Settle(list)
    BY <1>3 DEF GoOn
  <2>2. call' = None /\ page' = 0 /\ results' = <<>>
    BY <2>1 DEF Settle, End
  <2>3. PICK t : t = Chosen(list)
    OBVIOUS
  <2>4. CASE UNCHANGED <<signatures, names>>
    BY <1>1, <1>3, <2>1, <2>2, <2>4 DEF NameStored
  <2>5. CASE t # None /\ what = "function" /\ Store(t) /\ names' = names \cup {t}
    <3>1. t \in Texts
      BY <2>3, <2>5, ChosenText
    <3>2. signatures' = Updated(t, TRUE)
      BY <2>5 DEF Store
    <3>3. signatures' \in Seq(Signature)
      BY <1>1, <3>1, <3>2, UpdatedTyped
    <3>4. NameStored'
      <4> SUFFICES ASSUME ~foreign
                   PROVE  /\ Len(signatures') <= 1
                          /\ names' \subseteq {signatures'[i].text : i \in DOMAIN signatures'}
        BY <2>2 DEF NameStored
      <4>1. signatures = <<>> /\ names = {}
        <5>1. signatures = <<>>
          BY <2>5 DEF NameStored
        <5>2. DOMAIN signatures = {}
          BY <5>1
        <5> QED
          BY <5>1, <5>2 DEF NameStored
      <4> DEFINE new == [text |-> t, guessed |-> TRUE, count |-> 1]
      <4>2. signatures' = <<new>>
        <5>1. {i \in DOMAIN signatures : signatures[i].text = t} = {}
          BY <4>1
        <5>2. signatures' = Append(<<>>, new)
          BY <3>2, <4>1, <5>1 DEF Updated
        <5> QED
          BY ONLY <5>2
      <4> QED
        BY <2>5, <4>1, <4>2
    <3> QED
      BY <1>3, <2>1, <2>2, <3>3, <3>4
  <2> QED
    BY <2>1, <2>3, <2>4, <2>5 DEF Settle, TypeOK
<1> QED
  BY <1>2, <1>3

\* A list keeps its ages when the directory grows.
LEMMA GaplessKept ==
  ASSUME NEW dir \in Seq(Texts), Different(dir), NEW t \in Texts, t \notin ToSet(dir),
         NEW new, new = <<t>> \o dir, NEW list \in Seq(Texts), NEW b \in Nat,
         Gapless(dir, list, b)
  PROVE  Gapless(new, list, b) /\ AgeIn(new, Last(list)) = AgeIn(dir, Last(list))
<1>1. /\ ToSet(dir) \subseteq ToSet(new)
      /\ \A x \in ToSet(dir) : AgeIn(new, x) = AgeIn(dir, x)
  BY Grown
<1>2. /\ list # <<>> /\ ToSet(list) \subseteq ToSet(dir) /\ AgeIn(dir, list[1]) = b
      /\ \A i \in 1 .. Len(list) - 1 : AgeIn(dir, list[i + 1]) >= AgeIn(dir, list[i]) - 1
  BY DEF Gapless
<1>3. Len(list) \in Nat /\ Len(list) > 0 /\ DOMAIN list = 1 .. Len(list)
  BY <1>2, LenProperties, EmptySeq
<1>4. \A i \in 1 .. Len(list) : list[i] \in ToSet(dir)
  BY <1>2, <1>3 DEF ToSet
<1>5. \A i \in 1 .. Len(list) : AgeIn(new, list[i]) = AgeIn(dir, list[i])
  BY <1>1, <1>4
<1>6. 1 \in 1 .. Len(list) /\ Len(list) \in 1 .. Len(list)
  BY <1>3
<1>7. \A i \in 1 .. Len(list) - 1 : AgeIn(new, list[i + 1]) >= AgeIn(new, list[i]) - 1
  <2> SUFFICES ASSUME NEW i \in 1 .. Len(list) - 1
               PROVE  AgeIn(new, list[i + 1]) >= AgeIn(new, list[i]) - 1
    OBVIOUS
  <2>1. i \in 1 .. Len(list) /\ i + 1 \in 1 .. Len(list)
    BY <1>3
  <2> QED
    BY <1>2, <1>5, <2>1
<1>8. AgeIn(new, list[1]) = b /\ AgeIn(new, Last(list)) = AgeIn(dir, Last(list))
  BY <1>2, <1>5, <1>6 DEF Last
<1> QED
  BY <1>1, <1>2, <1>7, <1>8 DEF Gapless

LEMMA Publishing ==
  ASSUME NamesInv, NEW t \in Texts, Publish(t)
  PROVE  NamesInv'
<1>1. /\ directory \in Seq(Texts) /\ Different(directory) /\ t \notin ToSet(directory)
      /\ directory' = <<t>> \o directory /\ memory \in Seq(Page) /\ results \in Seq(Texts)
      /\ Len(directory) < MaxTexts /\ Len(directory) \in Nat /\ MaxTexts \in Nat
      /\ UNCHANGED <<what, memory, signatures, call, page, results, failed, stale, base, names,
                     foreign>>
  BY TextsAssumption, LenProperties
     DEF NamesInv, TypeOK, PagesGood, Publish, loop, history
<1>2. PICK dir \in Seq(Texts) : dir = directory
  BY <1>1
<1>3. PICK new : new = <<t>> \o dir /\ new = directory'
  BY <1>1, <1>2
<1>4. Different(dir) /\ t \notin ToSet(dir)
  BY <1>1, <1>2
<1>5. /\ new \in Seq(Texts) /\ Len(new) = Len(dir) + 1 /\ Different(new)
  BY <1>3, <1>4, Grown
<1>6. TypeOK'
  <2>1. directory' \in Seq(Texts) /\ Len(directory') <= MaxTexts
    BY <1>1, <1>2, <1>3, <1>5
  <2> QED
    BY <1>1, <2>1 DEF NamesInv, TypeOK
<1>7. NameStored'
  BY <1>1 DEF NamesInv, NameStored
<1>8. PagesGood'
  <2>1. ASSUME NEW k \in DOMAIN memory PROVE PageGood(new, memory[k])
    <3>1. memory[k] \in Page
      BY <1>1, LenProperties, ElementOfSeq
    <3>2. PageGood(dir, memory[k])
      BY <1>2 DEF NamesInv, PagesGood
    <3>3. PICK m \in Page : m = memory[k]
      BY <3>1
    <3> QED
      BY <1>3, <1>4, <3>2, <3>3, PageKept
  <2> QED
    BY <1>1, <1>3, <1>5, <2>1 DEF NamesInv, PagesGood
<1>9. ResultsGood'
  <2> SUFFICES ASSUME call # None, ~failed, ~stale, page > 1
               PROVE  /\ Gapless(new, results, base) /\ AgeIn(new, Last(results)) > 1
                      /\ base <= SizeBefore(new, results, page)
                      /\ SizeBefore(new, results, page) <= Len(new)
                      /\ \A i \in DOMAIN memory :
                           memory[i].size < SizeBefore(new, results, page) =>
                             \E j \in DOMAIN memory : j > i /\ memory[j].page < page
    BY <1>1, <1>3 DEF NamesInv, ResultsGood
  <2>1. /\ Gapless(dir, results, base) /\ AgeIn(dir, Last(results)) > 1
        /\ base <= SizeBefore(dir, results, page)
        /\ SizeBefore(dir, results, page) <= Len(dir)
        /\ \A i \in DOMAIN memory :
             memory[i].size < SizeBefore(dir, results, page) =>
               \E j \in DOMAIN memory : j > i /\ memory[j].page < page
    BY <1>2 DEF NamesInv, ResultsGood
  <2>2. PICK list \in Seq(Texts) : list = results
    BY <1>1
  <2>3. Gapless(new, list, base) /\ AgeIn(new, Last(list)) = AgeIn(dir, Last(list))
    <3>1. PICK b \in Nat : b = base
      BY DEF NamesInv, TypeOK
    <3>2. Gapless(dir, list, b)
      BY <2>1, <2>2, <3>1
    <3>3. Gapless(new, list, b) /\ AgeIn(new, Last(list)) = AgeIn(dir, Last(list))
      BY ONLY <1>3, <1>4, <3>2, dir \in Seq(Texts), t \in Texts, list \in Seq(Texts),
              b \in Nat, GaplessKept
    <3> QED
      BY <3>1, <3>3
  <2>4. SizeBefore(new, results, page) = SizeBefore(dir, results, page)
    BY <2>2, <2>3 DEF SizeBefore
  <2>5. SizeBefore(dir, results, page) \in Int
    <3>1. list # <<>> /\ ToSet(list) \subseteq ToSet(dir)
      BY <2>1, <2>2 DEF Gapless
    <3>2. Len(list) \in DOMAIN list
      BY <3>1, LenProperties, EmptySeq
    <3>3. Last(list) \in ToSet(dir)
      BY <3>1, <3>2 DEF Last, ToSet
    <3>4. AgeIn(dir, Last(results)) \in 1 .. Len(dir)
      BY <1>4, <2>2, <3>3, Ages
    <3>5. page \in Nat /\ PageSize \in Nat /\ AgeIn(dir, Last(results)) \in Int
      BY <3>4, TextsAssumption, LenProperties DEF NamesInv, TypeOK
    <3> QED
      BY ONLY <3>5 DEF SizeBefore
  <2>6. SizeBefore(new, results, page) <= Len(new)
    BY <1>1, <1>2, <1>5, <2>1, <2>4, <2>5
  <2> QED
    BY <2>1, <2>2, <2>3, <2>4, <2>6
<1> QED
  BY <1>6, <1>7, <1>8, <1>9 DEF NamesInv

LEMMA Expiring ==
  ASSUME NamesInv, Expire
  PROVE  NamesInv'
<1>1. /\ memory \in Seq(Page) /\ memory # <<>> /\ memory' = Tail(memory)
      /\ UNCHANGED <<what, directory, signatures, call, page, results, failed, stale, base, names,
                     foreign>>
  BY DEF NamesInv, TypeOK, Expire, loop, history
<1>2. /\ Len(memory) \in Nat /\ Len(memory) > 0 /\ DOMAIN memory = 1 .. Len(memory)
  BY <1>1, LenProperties, EmptySeq
<1>3. /\ memory' \in Seq(Page) /\ Len(memory') = Len(memory) - 1
      /\ \A i \in 1 .. Len(memory') : memory'[i] = memory[i + 1]
  BY <1>1, HeadTailProperties
<1>4. DOMAIN memory' = 1 .. Len(memory')
  BY <1>3, LenProperties
<1>5. \A i \in DOMAIN memory' : i \in Nat /\ i + 1 \in DOMAIN memory /\ memory'[i] = memory[i + 1]
  BY <1>2, <1>3, <1>4
<1>6. \A i \in DOMAIN memory : i \in Nat /\ (i > 1 => i - 1 \in DOMAIN memory' /\ memory'[i - 1] = memory[i])
  BY <1>2, <1>3, <1>4
<1>7. TypeOK' /\ NameStored'
  BY <1>1, <1>3 DEF NamesInv, TypeOK, NameStored
<1>8. PagesGood'
  <2>1. \A k \in DOMAIN memory' : PageGood(directory', memory'[k])
    BY <1>1, <1>5 DEF NamesInv, PagesGood
  <2>2. \A k, l \in DOMAIN memory' : k <= l => memory'[k].size <= memory'[l].size
    <3> SUFFICES ASSUME NEW k \in DOMAIN memory', NEW l \in DOMAIN memory', k <= l
                 PROVE  memory'[k].size <= memory'[l].size
      OBVIOUS
    <3>1. k + 1 \in DOMAIN memory /\ l + 1 \in DOMAIN memory /\ k + 1 <= l + 1
      BY <1>5
    <3>2. memory[k + 1].size <= memory[l + 1].size
      BY <3>1 DEF NamesInv, PagesGood
    <3> QED
      BY <1>5, <3>2
  <2> QED
    BY <1>1, <2>1, <2>2 DEF NamesInv, PagesGood
<1>9. ResultsGood'
  <2> SUFFICES ASSUME call # None, ~failed, ~stale, page > 1,
                      NEW i \in DOMAIN memory',
                      memory'[i].size < SizeBefore(directory, results, page)
               PROVE  \E j \in DOMAIN memory' : j > i /\ memory'[j].page < page
    BY <1>1 DEF NamesInv, ResultsGood
  <2>1. PICK j \in DOMAIN memory : j > i + 1 /\ memory[j].page < page
    BY <1>5 DEF NamesInv, ResultsGood
  <2>2. j - 1 \in DOMAIN memory' /\ memory'[j - 1] = memory[j] /\ j - 1 > i
    BY <1>5, <1>6, <2>1
  <2> QED
    BY <2>1, <2>2
<1> QED
  BY <1>7, <1>8, <1>9 DEF NamesInv

LEMMA Storing ==
  ASSUME NamesInv, NEW t \in Texts, StoreVerified(t)
  PROVE  NamesInv'
<1>1. /\ signatures \in Seq(Signature) /\ foreign' = TRUE
      /\ signatures' = Updated(t, FALSE)
      /\ UNCHANGED <<what, directory, memory, call, page, results, failed, stale, base, names>>
  BY DEF NamesInv, TypeOK, StoreVerified, service, loop
<1>2. signatures' \in Seq(Signature)
  BY <1>1, UpdatedTyped
<1> QED
  BY <1>1, <1>2 DEF NamesInv, TypeOK, NameStored, PagesGood, ResultsGood

LEMMA Starting ==
  ASSUME NamesInv, NEW c \in Calls, Start(c)
  PROVE  NamesInv'
<1>1. /\ call = None /\ UNCHANGED <<what, directory, memory, signatures, foreign>>
      /\ signatures \in Seq(Signature) /\ MaxTexts \in Nat /\ c # None
  BY TextsAssumption DEF NamesInv, TypeOK, Start, service
<1>2. CASE call' = None /\ page' = 0 /\ results' = <<>>
  <2>1. UNCHANGED <<failed, stale, base>> \/ (failed' = FALSE /\ stale' = FALSE /\ base' = MaxTexts)
    BY DEF Start
  <2>2. TypeOK'
    <3>1. <<>> \in Seq(Texts) /\ 0 \in Nat
      BY EmptySeq
    <3>2. /\ failed' \in BOOLEAN /\ stale' \in BOOLEAN /\ base' \in Nat
      BY <1>1, <2>1 DEF NamesInv, TypeOK
    <3> QED
      BY ONLY <1>1, <1>2, <3>1, <3>2, NamesInv DEF NamesInv, TypeOK
  <2>3. NameStored'
    <3> SUFFICES ASSUME ~foreign, names' # names
                 PROVE  names' \subseteq {signatures[i].text : i \in DOMAIN signatures}
      BY <1>1, <1>2 DEF NamesInv, NameStored
    <3>1. signatures # <<>> /\ names' = names \cup {signatures[MostUsed].text}
      BY <1>1, <1>2 DEF Start
    <3>2. Len(signatures) \in Nat /\ DOMAIN signatures = 1 .. Len(signatures) /\ Len(signatures) = 1
      <4>1. Len(signatures) \in Nat /\ DOMAIN signatures = 1 .. Len(signatures)
        BY <1>1, LenProperties
      <4>2. Len(signatures) <= 1
        BY DEF NamesInv, NameStored
      <4>3. Len(signatures) # 0
        BY <1>1, <3>1, EmptySeq
      <4> QED
        BY ONLY <4>1, <4>2, <4>3
    <3>3. DOMAIN signatures = {1}
      BY <3>2
    <3>4. signatures[1].count \in Nat
      <4>1. 1 \in 1 .. Len(signatures)
        BY <3>2
      <4>2. signatures[1] \in Signature
        BY <1>1, <4>1, ElementOfSeq
      <4> QED
        BY <4>2 DEF Signature
    <3>5. MostUsed \in DOMAIN signatures
      <4>1. \A j \in DOMAIN signatures : /\ signatures[j].count <= signatures[1].count
                                         /\ (j < 1 => signatures[j].count < signatures[1].count)
        BY <3>3, <3>4
      <4> QED
        BY <3>3, <4>1 DEF MostUsed
    <3> QED
      BY <3>1, <3>5 DEF NamesInv, NameStored
  <2> QED
    BY <1>1, <1>2, <2>2, <2>3 DEF NamesInv, PagesGood, ResultsGood
<1>3. CASE /\ Guesses(c) /\ ~ (what = "function" /\ signatures # <<>>)
           /\ call' = c /\ page' = 1 /\ results' = <<>> /\ names' = names
  <2>1. /\ what \in {"function", "event"}
        /\ (what = "event" \/ signatures = <<>>)
    BY <1>3 DEF NamesInv, TypeOK
  <2>2. failed' = FALSE /\ stale' = FALSE /\ base' = MaxTexts
    BY <1>3, <2>1 DEF Start
  <2>3. TypeOK'
    <3>1. <<>> \in Seq(Texts) /\ 1 \in Nat /\ 1 > 0
      BY EmptySeq
    <3> QED
      BY ONLY <1>1, <1>3, <2>2, <3>1, NamesInv, c \in Calls DEF NamesInv, TypeOK
  <2>4. NameStored'
    BY <1>1, <1>3, <2>1 DEF NamesInv, NameStored
  <2>5. ResultsGood'
    BY <1>3, <2>2 DEF ResultsGood
  <2> QED
    BY <1>1, <2>3, <2>4, <2>5 DEF NamesInv, PagesGood
<1> QED
  BY <1>2, <1>3 DEF Start, End

LEMMA Failing ==
  ASSUME NamesInv, GetFails
  PROVE  NamesInv'
<1>1. /\ failed' = TRUE /\ call # None /\ GoOn(results, FALSE)
      /\ UNCHANGED <<what, directory, memory, stale, base, foreign>>
  BY DEF GetFails, service
<1>2. PICK list \in Seq(Texts) : list = results
  BY DEF NamesInv, TypeOK
<1>3. GoOn(list, FALSE)
  BY <1>1, <1>2
<1>4. /\ NameStored' /\ signatures' \in Seq(Signature) /\ results' \in Seq(Texts)
      /\ page' \in Nat /\ call' \in Calls \cup {None} /\ (call' # None => page' > 0)
  BY <1>1, <1>3, GoneOn DEF NamesInv
<1> QED
  BY <1>1, <1>4 DEF NamesInv, TypeOK, PagesGood, ResultsGood

\* What a page adds is known of the list that goes on.
LEMMA ListGood ==
  ASSUME NamesInv, call # None, NEW m \in Page, PageGood(directory, m), m.page = page,
         ~failed /\ ~stale /\ page > 1 => SizeBefore(directory, results, page) <= m.size,
         NEW b, b = (IF m.size < base THEN m.size ELSE base), base' = b,
         NEW list, list = results \o m.results, GoOn(list, m.next),
         stale => stale', UNCHANGED <<what, directory, failed, foreign>>,
         \A k \in DOMAIN memory' : memory'[k].size < m.size =>
            stale' \/ \E j \in DOMAIN memory' :
                         j > k /\ memory'[j].page \in Nat /\ memory'[j].page <= page
  PROVE  /\ NameStored' /\ ResultsGood'
         /\ signatures' \in Seq(Signature) /\ results' \in Seq(Texts) /\ page' \in Nat
         /\ call' \in Calls \cup {None} /\ (call' # None => page' > 0) /\ base' \in Nat
<1>1. /\ results \in Seq(Texts) /\ base \in Nat /\ page \in Nat /\ page > 0 /\ m.next \in BOOLEAN
      /\ m.size \in Nat /\ m.results \in Seq(Texts) /\ TypeOK /\ NameStored /\ PagesGood /\ ResultsGood
  BY DEF NamesInv, TypeOK, Page
<1>2. list \in Seq(Texts) /\ b \in Nat
  BY <1>1, ConcatProperties
<1>3. /\ NameStored'
      /\ signatures' \in Seq(Signature) /\ results' \in Seq(Texts) /\ page' \in Nat
      /\ call' \in Calls \cup {None} /\ (call' # None => page' > 0)
      /\ m.next => call' = call /\ page' = page + 1 /\ results' = list
      /\ ~m.next => call' = None
  BY <1>1, <1>2, GoneOn
<1>4. ResultsGood'
  <2> SUFFICES ASSUME call' # None, ~failed', ~stale' PROVE ResultsGood'
    BY DEF ResultsGood
  <2>1. ~failed /\ ~stale /\ m.next
    BY <1>3
  <2>2. /\ b <= m.size
        /\ m.size = 0 => ~m.next
        /\ m.size > 0 => /\ Gapless(directory, list, b)
                         /\ m.next => /\ AgeIn(directory, Last(list)) > 1
                                      /\ SizeBefore(directory, list, page + 1) = m.size
    <3>1. TakenGood(list, b, m)
      BY <1>1, <2>1, Taken
    <3> QED
      BY <3>1 DEF TakenGood
  <2>3. /\ Gapless(directory, list, b) /\ AgeIn(directory, Last(list)) > 1
        /\ SizeBefore(directory, list, page + 1) = m.size /\ b <= m.size
    BY <1>1, <2>1, <2>2
  <2>4. page' = page + 1 /\ results' = list /\ directory' = directory /\ base' = b
    BY <1>3, <2>1
  <2>5. m.size <= Len(directory)
    BY DEF PageGood
  <2>6. /\ Gapless(directory', results', base') /\ AgeIn(directory', Last(results')) > 1
        /\ SizeBefore(directory', results', page') = m.size
    BY <2>3, <2>4
  <2>7. page' > 1 /\ page' # 1 /\ \A p \in Nat : p <= page => p < page'
    BY <1>1, <2>4
  <2>8. ASSUME NEW k \in DOMAIN memory', memory'[k].size < m.size
        PROVE  \E j \in DOMAIN memory' : j > k /\ memory'[j].page < page'
    <3>1. PICK j \in DOMAIN memory' : j > k /\ memory'[j].page \in Nat /\ memory'[j].page <= page
      BY <2>8
    <3> QED
      BY <2>7, <3>1
  <2>9. base' <= m.size /\ m.size <= Len(directory')
    BY <2>3, <2>4, <2>5
  <2> QED
    BY ONLY <2>6, <2>7, <2>8, <2>9 DEF ResultsGood
<1> QED
  BY <1>1, <1>2, <1>3, <1>4

\* The size of the directory that the list stands for is a number.
LEMMA SizeTyped ==
  ASSUME TypeOK, PagesGood, ResultsGood, call # None, ~failed, ~stale, page > 1
  PROVE  SizeBefore(directory, results, page) \in Int
<1>1. /\ directory \in Seq(Texts) /\ Different(directory) /\ results \in Seq(Texts)
      /\ Gapless(directory, results, base)
  BY DEF TypeOK, PagesGood, ResultsGood
<1>2. results # <<>> /\ ToSet(results) \subseteq ToSet(directory)
  BY <1>1 DEF Gapless
<1>3. Len(results) \in DOMAIN results
  BY <1>1, <1>2, LenProperties, EmptySeq
<1>4. Last(results) \in ToSet(directory)
  BY <1>2, <1>3 DEF Last, ToSet
<1>5. AgeIn(directory, Last(results)) \in 1 .. Len(directory)
  BY <1>1, <1>4, Ages
<1>6. page \in Nat /\ PageSize \in Nat /\ AgeIn(directory, Last(results)) \in Int
  BY <1>1, <1>5, TextsAssumption, LenProperties DEF TypeOK
<1> QED
  BY ONLY <1>6 DEF SizeBefore

LEMMA Getting ==
  ASSUME NamesInv, Get
  PROVE  NamesInv'
<1>1. /\ TypeOK /\ call # None /\ page > 0 /\ memory \in Seq(Page) /\ base \in Nat
      /\ directory \in Seq(Texts) /\ Len(directory) \in Nat
  BY LenProperties DEF Get, NamesInv, TypeOK
<1>2. PICK m \in Page : m = Answer /\ PageGood(directory, m) /\ m.page = page /\ m.size = Len(directory)
  BY <1>1, AnswerGood
<1>3. PICK list : list = results \o m.results
  OBVIOUS
<1>4. PICK b : b = IF m.size < base THEN m.size ELSE base
  OBVIOUS
<1>5. /\ memory' = Append(memory, m) /\ GoOn(list, m.next) /\ base' = b
      /\ UNCHANGED <<what, directory, failed, stale, foreign>>
  BY <1>2, <1>3, <1>4 DEF Get
<1>6. /\ memory' \in Seq(Page) /\ Len(memory) \in Nat /\ Len(memory') = Len(memory) + 1
      /\ \A i \in 1 .. Len(memory) : memory'[i] = memory[i]
      /\ memory'[Len(memory) + 1] = m
  BY <1>1, <1>5, AppendProperties, LenProperties
<1>7. /\ DOMAIN memory = 1 .. Len(memory) /\ DOMAIN memory' = 1 .. Len(memory')
  BY <1>1, <1>6, LenProperties
<1>8. \A k \in DOMAIN memory' : \/ k \in DOMAIN memory /\ memory'[k] = memory[k] /\ k < Len(memory) + 1
                                \/ k = Len(memory) + 1 /\ memory'[k] = m
  BY <1>6, <1>7
<1>9. Len(memory) + 1 \in DOMAIN memory' /\ m.page \in Nat /\ m.size \in Nat
  BY <1>6, <1>7 DEF Page
<1>10. \A k \in DOMAIN memory : memory[k].size <= m.size
  BY <1>2 DEF NamesInv, PagesGood, PageGood
<1>11. PagesGood'
  <2>1. \A k \in DOMAIN memory' : PageGood(directory', memory'[k])
    BY <1>2, <1>5, <1>8 DEF NamesInv, PagesGood
  <2>2. ASSUME NEW k \in DOMAIN memory', NEW l \in DOMAIN memory', k <= l
        PROVE  memory'[k].size <= memory'[l].size
    <3>1. CASE l \in DOMAIN memory /\ memory'[l] = memory[l] /\ l < Len(memory) + 1
      <4>1. k \in DOMAIN memory /\ memory'[k] = memory[k]
        BY <1>6, <1>7, <2>2, <3>1
      <4> QED
        BY <2>2, <3>1, <4>1 DEF NamesInv, PagesGood
    <3>2. CASE l = Len(memory) + 1 /\ memory'[l] = m
      BY <1>8, <1>9, <1>10, <3>2
    <3> QED
      BY <1>8, <3>1, <3>2
  <2> QED
    BY <1>5, <2>1, <2>2 DEF NamesInv, PagesGood
<1>12. ASSUME ~failed, ~stale, page > 1 PROVE SizeBefore(directory, results, page) <= m.size
  BY <1>1, <1>2, <1>12 DEF NamesInv, ResultsGood
<1>13. ASSUME NEW k \in DOMAIN memory', memory'[k].size < m.size
       PROVE  \E j \in DOMAIN memory' : j > k /\ memory'[j].page \in Nat /\ memory'[j].page <= page
  <2>1. k \in DOMAIN memory /\ k < Len(memory) + 1
    BY <1>8, <1>9, <1>13
  <2>2. /\ memory'[Len(memory) + 1].page \in Nat /\ memory'[Len(memory) + 1].page <= page
        /\ Len(memory) + 1 > k
    BY <1>2, <1>6, <1>7, <1>9, <2>1
  <2> QED
    BY <1>9, <2>2
<1>14. /\ NameStored' /\ ResultsGood'
       /\ signatures' \in Seq(Signature) /\ results' \in Seq(Texts) /\ page' \in Nat
       /\ call' \in Calls \cup {None} /\ (call' # None => page' > 0) /\ base' \in Nat
  BY <1>1, <1>2, <1>3, <1>4, <1>5, <1>12, <1>13, ListGood
<1>15. TypeOK'
  BY <1>5, <1>6, <1>14 DEF NamesInv, TypeOK
<1> QED
  BY <1>11, <1>14, <1>15 DEF NamesInv

LEMMA Remembering ==
  ASSUME NamesInv, GetRemembered
  PROVE  NamesInv'
<1>1. /\ TypeOK /\ call # None /\ page > 0 /\ page \in Nat /\ memory \in Seq(Page) /\ base \in Nat
      /\ stale \in BOOLEAN
  BY DEF GetRemembered, NamesInv, TypeOK
<1>2. PICK i \in Remembered :
        /\ GoOn(results \o memory[i].results, memory[i].next)
        /\ stale' = (stale \/ \E j \in DOMAIN memory : j > i /\ memory[j].page < page)
        /\ base' = IF memory[i].size < base THEN memory[i].size ELSE base
  BY DEF GetRemembered
<1>3. UNCHANGED <<what, directory, memory, failed, foreign>>
  BY DEF GetRemembered, service
<1>4. /\ i \in DOMAIN memory /\ memory[i].page = page
      /\ \A k \in DOMAIN memory : k \in Nat /\ memory[k] \in Page
  BY <1>1, <1>2, LenProperties, ElementOfSeq DEF Remembered
<1>5. PICK m \in Page : m = memory[i] /\ PageGood(directory, m) /\ m.page = page
  BY <1>4 DEF NamesInv, PagesGood
<1>6. PICK list : list = results \o m.results
  OBVIOUS
<1>7. PICK b : b = IF m.size < base THEN m.size ELSE base
  OBVIOUS
<1>8. /\ GoOn(list, m.next) /\ base' = b /\ (stale => stale') /\ stale' \in BOOLEAN
  BY <1>1, <1>2, <1>5, <1>6, <1>7
<1>9. ASSUME NEW k \in DOMAIN memory', memory'[k].size < m.size
      PROVE  \E j \in DOMAIN memory' : j > k /\ memory'[j].page \in Nat /\ memory'[j].page <= page
  <2>1. k \in DOMAIN memory /\ memory[k].size < memory[i].size
    BY <1>3, <1>5, <1>9
  <2>2. memory[k].size \in Nat /\ memory[i].size \in Nat
    BY <1>4, <2>1 DEF Page
  <2>3. ~ (i <= k)
    <3>1. i <= k => memory[i].size <= memory[k].size
      BY <1>4, <2>1 DEF NamesInv, PagesGood
    <3> QED
      BY <2>1, <2>2, <3>1
  <2>4. i > k /\ memory[i].page \in Nat /\ memory[i].page <= page
    BY <1>1, <1>4, <2>1, <2>3
  <2> QED
    BY <1>3, <1>4, <2>4
<1>10. PagesGood'
  BY <1>3 DEF NamesInv, PagesGood
\* Only if nothing older was read in between is the page not stale.
<1>11. CASE stale'
  <2>1. ResultsGood'
    BY <1>11 DEF ResultsGood
  <2>2. PICK next \in BOOLEAN : next = m.next
    BY DEF Page
  <2>3. list \in Seq(Texts)
    BY <1>1, <1>6, ConcatProperties DEF Page, TypeOK
  <2>4. NameStored /\ GoOn(list, next) /\ UNCHANGED <<what, foreign>>
    BY <1>3, <1>8, <2>2 DEF NamesInv
  <2>5. /\ NameStored'
        /\ signatures' \in Seq(Signature) /\ results' \in Seq(Texts) /\ page' \in Nat
        /\ call' \in Calls \cup {None} /\ (call' # None => page' > 0)
    BY <1>1, <2>3, <2>4, GoneOn
  <2>6. base' \in Nat
    BY <1>1, <1>7, <1>8 DEF Page
  <2>7. TypeOK'
    BY <1>3, <1>8, <2>5, <2>6 DEF NamesInv, TypeOK
  <2> QED
    BY <1>10, <2>1, <2>5, <2>7 DEF NamesInv
<1>12. CASE ~stale'
  <2>1. ~stale /\ ~ \E j \in DOMAIN memory : j > i /\ memory[j].page < page
    BY <1>2, <1>12
  <2>2. ASSUME ~failed, page > 1 PROVE SizeBefore(directory, results, page) <= m.size
    <3>1. ~ (memory[i].size < SizeBefore(directory, results, page))
      BY <1>1, <1>4, <2>1, <2>2 DEF NamesInv, ResultsGood
    <3>2. SizeBefore(directory, results, page) \in Int
      BY <1>1, <2>1, <2>2, SizeTyped DEF NamesInv
    <3> QED
      BY <1>5, <3>1, <3>2 DEF Page
  <2>3. /\ NameStored' /\ ResultsGood'
        /\ signatures' \in Seq(Signature) /\ results' \in Seq(Texts) /\ page' \in Nat
        /\ call' \in Calls \cup {None} /\ (call' # None => page' > 0) /\ base' \in Nat
    BY <1>1, <1>3, <1>5, <1>6, <1>7, <1>8, <1>9, <2>2, ListGood
  <2>4. TypeOK'
    BY <1>3, <1>8, <2>3 DEF NamesInv, TypeOK
  <2> QED
    BY <1>10, <2>3, <2>4 DEF NamesInv
<1> QED
  BY <1>11, <1>12

-----------------------------------------------------------------------------
(***************************************************************************)
(* The theorems.                                                           *)
(***************************************************************************)
LEMMA NamesInit ==
  ASSUME Init
  PROVE  NamesInv
<1>1. /\ memory = <<>> /\ signatures = <<>> /\ call = None /\ page = 0 /\ results = <<>>
      /\ names = {} /\ failed = FALSE /\ stale = FALSE /\ base = MaxTexts /\ foreign = FALSE
      /\ what \in {"function", "event"} /\ MaxTexts \in Nat /\ MaxTexts >= 1
  BY TextsAssumption DEF Init
<1>2. /\ directory \in Seq(Texts) /\ Len(directory) <= 1 /\ Different(directory)
  <2>1. CASE directory = <<>>
    BY <2>1 DEF Different
  <2>2. ASSUME NEW t \in Texts, directory = <<t>>
        PROVE  directory \in Seq(Texts) /\ Len(directory) <= 1 /\ Different(directory)
    BY <2>2 DEF Different
  <2> QED
    BY <2>1, <2>2 DEF Init
<1>3. <<>> \in Seq(Page) /\ <<>> \in Seq(Texts) /\ <<>> \in Seq(Signature) /\ Len(<<>>) = 0
  BY EmptySeq
<1>4. Len(directory) <= MaxTexts
  BY <1>1, <1>2, LenProperties
<1>5. TypeOK
  BY ONLY <1>1, <1>2, <1>3, <1>4 DEF TypeOK
<1>6. NameStored
  BY ONLY <1>1, <1>3 DEF NameStored
<1>7. PagesGood
  BY ONLY <1>1, <1>2, <1>3 DEF PagesGood
<1>8. ResultsGood
  BY <1>1 DEF ResultsGood
<1> QED
  BY <1>5, <1>6, <1>7, <1>8 DEF NamesInv

\* The strengthening holds of every state: the pages that are remembered are
\* pages of the directory as it grew, and the list that _get_all has so far has
\* no gaps.
THEOREM NamesInvariant == Spec => []NamesInv
<1>1. Init => NamesInv
  BY NamesInit
<1>2. NamesInv /\ [Next]_vars => NamesInv'
  <2> SUFFICES ASSUME NamesInv, [Next]_vars PROVE NamesInv'
    OBVIOUS
  <2>1. ASSUME NEW t \in Texts, Publish(t) \/ StoreVerified(t) PROVE NamesInv'
    BY <2>1, Publishing, Storing
  <2>2. CASE Expire
    BY <2>2, Expiring
  <2>3. ASSUME NEW c \in Calls, Start(c) PROVE NamesInv'
    BY <2>3, Starting
  <2>4. CASE Step
    BY <2>4, Getting, Failing, Remembering DEF Step
  <2>5. CASE UNCHANGED vars
    BY <2>5 DEF NamesInv, TypeOK, NameStored, PagesGood, ResultsGood, vars, service, loop, history
  <2> QED
    BY <2>1, <2>2, <2>3, <2>4, <2>5 DEF Next
<1> QED
  BY <1>1, <1>2, PTL DEF Spec

\* upsert_guessed_function_semantics: one process guesses one name for a
\* selector and keeps it, whatever fails and however the directory grows.
THEOREM NamesOne == Spec => []OneName
<1>1. NamesInv => OneName
  <2> SUFFICES ASSUME NamesInv, ~foreign, NEW m \in names, NEW n \in names PROVE m = n
    BY DEF OneName
  <2>1. /\ Len(signatures) <= 1 /\ signatures \in Seq(Signature)
        /\ names \subseteq {signatures[i].text : i \in DOMAIN signatures}
    BY DEF NamesInv, NameStored, TypeOK
  <2>2. Len(signatures) \in Nat /\ DOMAIN signatures = 1 .. Len(signatures)
    BY <2>1, LenProperties
  <2>3. \A i, j \in DOMAIN signatures : i = j
    BY ONLY <2>1, <2>2
  <2> QED
    BY <2>1, <2>3
<1> QED
  BY <1>1, NamesInvariant, PTL

\* The result, for a list whose pages are all known.
Right ==
  LET fitting == {i \in 1 .. base' : Known'[i] \in call.fits \ Unparsable}
  IN fitting # {} =>
       /\ shown'.name = Known'[CHOOSE i \in fitting : \A j \in fitting : i >= j]
       /\ shown'.by = (IF what = "event" THEN None ELSE shown'.name) /\ shown'.guessed

LEMMA Settled ==
  ASSUME NamesInv, call # None, ~failed, ~stale, NEW m \in Page, PageGood(directory, m),
         m.page = page, page > 1 => SizeBefore(directory, results, page) <= m.size,
         NEW b, b = (IF m.size < base THEN m.size ELSE base), base' = b,
         NEW list, list = results \o m.results, GoOn(list, m.next), call' = None,
         UNCHANGED directory
  PROVE  Right
<1>1. /\ TypeOK /\ PagesGood /\ ResultsGood /\ NameStored /\ call \in Calls
      /\ directory \in Seq(Texts) /\ Different(directory) /\ m.next \in BOOLEAN /\ m.size \in Nat
  BY DEF NamesInv, TypeOK, PagesGood, Page
<1>2. /\ list \in Seq(Texts) /\ b \in Nat /\ b <= m.size
      /\ m.size = 0 => ~m.next /\ b = 0 /\ list = <<>>
      /\ m.size > 0 => /\ Gapless(directory, list, b)
                       /\ ~m.next => AgeIn(directory, Last(list)) = 1
  <2>1. TakenGood(list, b, m)
    BY ONLY <1>1, Taken, call # None, ~failed, ~stale, m \in Page, PageGood(directory, m),
            m.page = page, page > 1 => SizeBefore(directory, results, page) <= m.size,
            b = (IF m.size < base THEN m.size ELSE base), list = results \o m.results
  <2> QED
    BY ONLY <2>1 DEF TakenGood
<1>3. ~m.next /\ Settle(list)
  BY <1>1 DEF GoOn
<1> DEFINE F == call.fits \ Unparsable
           known == SubSeq(directory, Len(directory) - b + 1, Len(directory))
           fitting == {i \in 1 .. b : known[i] \in F}
<1> SUFFICES ASSUME fitting # {}
             PROVE  /\ shown'.name = known[Greatest(fitting)]
                    /\ shown'.by = (IF what = "event" THEN None ELSE shown'.name)
                    /\ shown'.guessed
  BY DEF Right, Known, Greatest
<1>4. m.size > 0
  BY <1>1, <1>2
<1>5. Gapless(directory, list, b) /\ AgeIn(directory, Last(list)) = 1
  BY <1>2, <1>3, <1>4
<1> HIDE DEF F, known
<1>6. PICK dir \in Seq(Texts) : dir = directory
  BY <1>1
<1>7. LastIs(list, F, known[Greatest(fitting)])
  <2>1. known = SubSeq(dir, Len(dir) - b + 1, Len(dir))
    BY <1>6 DEF known
  <2>2. Different(dir) /\ Gapless(dir, list, b) /\ AgeIn(dir, Last(list)) = 1
    BY <1>1, <1>5, <1>6
  <2>3. list \in Seq(Texts) /\ b \in Nat
    BY <1>2
  <2>4. PICK kn : kn = known
    OBVIOUS
  <2>5. PICK fit : fit = fitting
    OBVIOUS
  <2>6. fit = Fitting(kn, b, F) /\ fit # {}
    BY <2>4, <2>5 DEF Fitting
  <2>7. LastIs(list, F, kn[Greatest(fit)])
    BY ONLY <2>1, <2>2, <2>3, <2>4, <2>6, dir \in Seq(Texts), OldestFits
  <2> QED
    BY ONLY <2>4, <2>5, <2>7
<1>8. PICK k \in 1 .. Len(list) : /\ list[k] \in F /\ Chosen(list) = list[k]
                                  /\ \A l \in 1 .. Len(list) : l > k => list[l] \notin F
  <2>1. F = call.fits \ Unparsable /\ list \in Seq(Texts)
    BY <1>2 DEF F
  <2> QED
    BY ONLY <1>7, <2>1, ChosenLast DEF LastIs
<1>9. Chosen(list) = known[Greatest(fitting)]
  BY <1>7, <1>8 DEF LastIs
<1>10. Chosen(list) \in call.fits /\ Chosen(list) \in Texts /\ Chosen(list) # None
  BY <1>1, <1>8, TextsAssumption DEF F
<1>11. \/ shown' = Shown(Chosen(list), None, TRUE) /\ what = "event"
       \/ shown' = Shown(Chosen(list), Chosen(list), TRUE) /\ what # "event"
  BY <1>3, <1>10 DEF Settle, End
<1> QED
  BY <1>9, <1>11 DEF Shown

\* _get_all, decode_call and decode_event: however the directory grows between
\* the pages, whatever pages are remembered and however long they are, a guessed
\* name is that of the oldest entry that fits the data, as far as no page failed
\* and none was older than an earlier one.
THEOREM NamesRightGuess == Spec => RightGuess
<1>1. NamesInv /\ [Next]_vars => [(call # None /\ call' = None /\ ~failed' /\ ~stale') => Right]_vars
  <2> SUFFICES ASSUME NamesInv, Next, call # None, call' = None, ~failed', ~stale' PROVE Right
    OBVIOUS
  <2>1. ASSUME NEW t \in Texts, Publish(t) \/ StoreVerified(t) PROVE FALSE
    BY <2>1 DEF Publish, StoreVerified
  <2>2. ~Expire /\ ~GetFails /\ \A c \in Calls : ~Start(c)
    BY DEF Expire, Start, GetFails
  <2>3. CASE Get
    <3>1. /\ TypeOK /\ page > 0 /\ base \in Nat
      BY <2>3 DEF NamesInv, TypeOK
    <3>2. PICK m \in Page : /\ m = Answer /\ PageGood(directory, m) /\ m.page = page
                            /\ m.size = Len(directory)
      BY <3>1, AnswerGood
    <3>3. PICK list : list = results \o m.results
      OBVIOUS
    <3>4. PICK b : b = IF m.size < base THEN m.size ELSE base
      OBVIOUS
    <3>5. /\ GoOn(list, m.next) /\ base' = b /\ ~failed /\ ~stale /\ UNCHANGED directory
      BY <2>3, <3>2, <3>3, <3>4 DEF Get
    <3>6. page > 1 => SizeBefore(directory, results, page) <= m.size
      BY <3>2, <3>5 DEF NamesInv, ResultsGood
    <3> QED
      BY <3>2, <3>3, <3>4, <3>5, <3>6, Settled
  <2>4. CASE GetRemembered
    <3>1. PICK i \in Remembered :
            /\ GoOn(results \o memory[i].results, memory[i].next)
            /\ stale' = (stale \/ \E j \in DOMAIN memory : j > i /\ memory[j].page < page)
            /\ base' = IF memory[i].size < base THEN memory[i].size ELSE base
      BY <2>4 DEF GetRemembered
    <3>2. UNCHANGED <<directory, failed>>
      BY <2>4 DEF GetRemembered, service
    <3>3. /\ i \in DOMAIN memory /\ memory[i].page = page /\ memory[i] \in Page
      BY <3>1, LenProperties, ElementOfSeq DEF Remembered, NamesInv, TypeOK
    <3>4. PICK m \in Page : m = memory[i] /\ PageGood(directory, m) /\ m.page = page
      BY <3>3 DEF NamesInv, PagesGood
    <3>5. PICK list : list = results \o m.results
      OBVIOUS
    <3>6. PICK b : b = IF m.size < base THEN m.size ELSE base
      OBVIOUS
    <3>7. ~failed /\ ~stale /\ ~ \E j \in DOMAIN memory : j > i /\ memory[j].page < page
      BY <3>1, <3>2
    <3>8. GoOn(list, m.next) /\ base' = b
      BY <3>1, <3>4, <3>5, <3>6
    <3>9. page > 1 => SizeBefore(directory, results, page) <= m.size
      <4> SUFFICES ASSUME page > 1 PROVE SizeBefore(directory, results, page) <= m.size
        OBVIOUS
      <4>1. ~ (memory[i].size < SizeBefore(directory, results, page))
        BY <3>3, <3>7 DEF NamesInv, ResultsGood
      <4>2. SizeBefore(directory, results, page) \in Int
        BY <3>7, SizeTyped DEF NamesInv
      <4> QED
        BY <3>4, <4>1, <4>2 DEF Page
    <3> QED
      BY <3>2, <3>4, <3>5, <3>6, <3>7, <3>8, <3>9, Settled
  <2> QED
    BY <2>1, <2>2, <2>3, <2>4 DEF Next, Step
<1>2. NamesInv /\ [Next]_vars =>
        [(call # None /\ call' = None /\ ~failed' /\ ~stale') =>
           LET fitting == {i \in 1 .. base' : Known'[i] \in call.fits \ Unparsable}
           IN fitting # {} =>
                /\ shown'.name = Known'[CHOOSE i \in fitting : \A j \in fitting : i >= j]
                /\ shown'.by = (IF what = "event" THEN None ELSE shown'.name) /\ shown'.guessed
        ]_vars
  BY <1>1 DEF Right
<1> QED
  BY <1>2, NamesInvariant, PTL DEF Spec, RightGuess
=============================================================================
