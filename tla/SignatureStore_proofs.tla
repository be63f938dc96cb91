------------------------ MODULE SignatureStore_proofs ------------------------
(***************************************************************************)
(* Proofs that the invariants of SignatureStore hold for any processes and *)
(* functions and any number of updates: HonestInv is inductive, and with   *)
(* it ExactInv.                                                            *)
(***************************************************************************)
EXTENDS SignatureStore, TLAPS, SequenceTheorems

-----------------------------------------------------------------------------
LEMMA MergeType ==
  ASSUME NEW doc \in Document, NEW new \in Signature
  PROVE  /\ Merge(doc, new) \in Document
         /\ Merge(doc, new).text = doc.text
         /\ Merge(doc, new).count = doc.count + 1
         /\ Merge(doc, new).guessed \in {doc.guessed, new.guessed}
BY DEF Merge, Document, Signature

LEMMA InsertType ==
  ASSUME NEW new \in Signature
  PROVE  /\ Insert(new) \in Document
         /\ Insert(new).text = new.text
         /\ Insert(new).count = 1
         /\ Insert(new).guessed = new.guessed
BY DEF Insert, Document, Signature

\* What an update does to the documents, one by one.
LEMMA UpdatedDocs ==
  ASSUME TypeOK, NEW p \in Instance, Write(p)
  PROVE  /\ sig[p] \in Signature /\ docs' \in Seq(Document)
         /\ found[p] = 0 =>
              /\ DOMAIN docs' = 1 .. Len(docs) + 1 /\ DOMAIN docs = 1 .. Len(docs)
              /\ Len(docs) \in Nat /\ Len(docs') = Len(docs) + 1
              /\ docs'[Len(docs) + 1] = Insert(sig[p])
              /\ \A i \in DOMAIN docs : docs'[i] = docs[i]
         /\ found[p] # 0 =>
              /\ found[p] \in DOMAIN docs /\ copy[p] \in Document
              /\ DOMAIN docs' = DOMAIN docs /\ Len(docs') = Len(docs)
              /\ docs'[found[p]] = Merge(copy[p], sig[p])
              /\ \A i \in DOMAIN docs \ {found[p]} : docs'[i] = docs[i]
<1>1. sig[p] \in Signature
  BY DEF Write, Updating, TypeOK
<1>2. docs' = Updated(found[p], copy[p], sig[p]) /\ docs \in Seq(Document)
  BY DEF Write, TypeOK
<1>3. CASE found[p] = 0
  BY <1>1, <1>2, <1>3, InsertType DEF Updated
<1>4. CASE found[p] # 0
  <2>1. found[p] \in DOMAIN docs /\ copy[p] \in Document
    BY <1>4 DEF TypeOK
  <2> QED
    BY <1>1, <1>2, <1>4, <2>1, MergeType DEF Updated
<1> QED
  BY <1>1, <1>3, <1>4

-----------------------------------------------------------------------------
LEMMA InitHonest == Init => HonestInv
<1> SUFFICES ASSUME Init PROVE HonestInv
  OBVIOUS
<1>1. docs \in Seq(Document) /\ DOMAIN docs = {} /\ Len(docs) = 0
  BY EmptySeq DEF Init
<1>2. TypeOK
  <2>1. 0 \in 0 .. Len(docs)
    BY <1>1
  <2>2. /\ found \in [Instance -> 0 .. Len(docs)]
        /\ \A p \in Instance : found[p] = 0 /\ pc[p] = "idle"
    BY <2>1 DEF Init
  <2> QED
    BY <1>1, <2>2 DEF Init, TypeOK
<1> QED
  BY <1>1, <1>2 DEF Init, HonestInv, AnswerHonest

\* A process that is not updating starts or ends something.
LEMMA QuietHonest ==
  ASSUME HonestInv, NEW p \in Instance, pc[p] # "write",
         NEW label \in {"idle", "fetch", "read"},
         NEW what \in Signature \cup {None}, label = "read" => what # None,
         pc' = [pc EXCEPT ![p] = label], sig' = [sig EXCEPT ![p] = what],
         UNCHANGED <<docs, found, copy, answer, writes, verified, overlapped>>
  PROVE  HonestInv'
<1>1. found[p] = 0
  BY DEF HonestInv, Updating
<1>2. TypeOK'
  BY DEF HonestInv, TypeOK
<1>3. \A q \in Instance : found'[q] # 0 => pc'[q] = pc[q] /\ sig'[q] = sig[q]
  BY <1>1 DEF HonestInv, TypeOK
<1> QED
  BY <1>2, <1>3 DEF HonestInv, AnswerHonest, Honest, Updating

LEMMA VerifyHonest ==
  ASSUME HonestInv, NEW p \in Instance, NEW text \in Text, Verify(p, text)
  PROVE  HonestInv'
<1>1. [text |-> text, guessed |-> FALSE] \in Signature
  BY DEF Signature
<1> QED
  BY <1>1, QuietHonest, NoneAssumption DEF Verify, Store, Goto

LEMMA FetchHonest ==
  ASSUME HonestInv, NEW p \in Instance, Fetch(p)
  PROVE  HonestInv'
<1>1. CASE \E text \in Text : Store(p, text, TRUE)
  <2>1. PICK text \in Text : Store(p, text, TRUE)
    BY <1>1
  <2>2. [text |-> text, guessed |-> TRUE] \in Signature
    BY DEF Signature
  <2> QED
    BY <2>1, <2>2, QuietHonest, NoneAssumption DEF Fetch, Store, Goto
<1>2. CASE Goto(p, "idle") /\ UNCHANGED sig
  <2>1. sig' = [sig EXCEPT ![p] = sig[p]] /\ sig[p] \in Signature \cup {None}
    BY <1>2 DEF HonestInv, TypeOK
  <2> QED
    BY <1>2, <2>1, QuietHonest DEF Fetch, Goto
<1> QED
  BY <1>1, <1>2 DEF Fetch

LEMMA GuessHonest ==
  ASSUME HonestInv, NEW p \in Instance, Guess(p)
  PROVE  HonestInv'
<1>1. CASE \E i \in MostUsed : answer' = [answer EXCEPT ![p] = docs[i]] /\ UNCHANGED pc
  <2>1. PICK i \in DOMAIN docs : answer' = [answer EXCEPT ![p] = docs[i]]
    BY <1>1 DEF MostUsed
  <2>2. docs[i] \in Document /\ Honest(docs[i])
    BY DEF HonestInv, TypeOK
  <2>3. TypeOK'
    BY <1>1, <2>1, <2>2 DEF Guess, HonestInv, TypeOK
  <2>4. AnswerHonest'
    BY <2>1, <2>2 DEF Guess, HonestInv, AnswerHonest, Honest, TypeOK
  <2> QED
    BY <1>1, <2>3, <2>4 DEF Guess, HonestInv, Honest, Updating
<1>2. CASE docs = <<>> /\ Goto(p, "fetch") /\ UNCHANGED answer
  <2>1. sig' = [sig EXCEPT ![p] = sig[p]] /\ sig[p] \in Signature \cup {None}
    BY DEF Guess, HonestInv, TypeOK
  <2> QED
    BY <1>2, <2>1, QuietHonest DEF Guess, Goto
<1> QED
  BY <1>1, <1>2 DEF Guess

LEMMA ReadHonest ==
  ASSUME HonestInv, NEW p \in Instance, Read(p)
  PROVE  /\ HonestInv'
         /\ sig[p] \in Signature
         /\ found'[p] = 0 => Matching(sig[p].text) = {}
         /\ found'[p] # 0 => copy'[p] = docs[found'[p]]
         /\ \A q \in Instance \ {p} : found'[q] = found[q] /\ copy'[q] = copy[q]
<1>1. sig[p] \in Signature /\ docs \in Seq(Document)
  BY DEF Read, HonestInv, TypeOK
<1>2. PICK i \in 0 .. Len(docs), doc \in Document \cup {None} :
        /\ Found(p, i, doc)
        /\ i = 0 => Matching(sig[p].text) = {}
        /\ i # 0 => doc = docs[i] /\ doc \in Document /\ docs[i].text = sig[p].text
  <2>1. CASE Matching(sig[p].text) = {} /\ Found(p, 0, None)
    BY <1>1, <2>1
  <2>2. CASE \E i \in FirstMatching(sig[p].text) : Found(p, i, docs[i])
    <3>1. PICK i \in DOMAIN docs : Found(p, i, docs[i]) /\ docs[i].text = sig[p].text
      BY <2>2 DEF FirstMatching, Matching
    <3>2. i \in 1 .. Len(docs) /\ docs[i] \in Document
      BY <1>1
    <3> QED
      BY <3>1, <3>2
  <2> QED
    BY <2>1, <2>2 DEF Read
<1>3. /\ found' \in [Instance -> 0 .. Len(docs)] /\ found'[p] = i
      /\ copy' \in [Instance -> Document \cup {None}] /\ copy'[p] = doc
      /\ \A q \in Instance \ {p} : found'[q] = found[q] /\ copy'[q] = copy[q]
  BY <1>2 DEF Found, HonestInv, TypeOK
<1>4. /\ pc' = [pc EXCEPT ![p] = "write"] /\ overlapped' \in BOOLEAN
      /\ UNCHANGED <<docs, sig, answer, writes, verified>>
  BY DEF Read, Goto, HonestInv, TypeOK
<1>5. TypeOK'
  <2>1. \A q \in Instance : found'[q] # 0 => copy'[q] # None
    BY <1>2, <1>3, NoneAssumption DEF HonestInv, TypeOK
  <2>2. \A q \in Instance : pc'[q] \in {"read", "write"} => sig'[q] # None
    BY <1>1, <1>4, NoneAssumption DEF HonestInv, TypeOK
  <2> QED
    BY <1>3, <1>4, <2>1, <2>2 DEF HonestInv, TypeOK
<1>6. \A q \in Instance :
        found'[q] # 0 => /\ Updating(q)' /\ Honest(copy[q])'
                         /\ copy'[q].text = sig'[q].text
                         /\ docs'[found'[q]].text = sig'[q].text
  <2>1. found'[p] # 0 => /\ Updating(p)' /\ Honest(copy[p])'
                         /\ copy'[p].text = sig'[p].text
                         /\ docs'[found'[p]].text = sig'[p].text
    <3>1. i # 0 => Honest(docs[i])
      BY <1>1 DEF HonestInv
    <3> QED
      BY <1>2, <1>3, <1>4, <3>1 DEF Updating, Honest, HonestInv, TypeOK
  <2>2. \A q \in Instance \ {p} :
        found'[q] # 0 => /\ Updating(q)' /\ Honest(copy[q])'
                         /\ copy'[q].text = sig'[q].text
                         /\ docs'[found'[q]].text = sig'[q].text
    BY <1>3, <1>4 DEF Updating, Honest, HonestInv, TypeOK
  <2> QED
    BY <2>1, <2>2
<1>7. AnswerHonest' /\ \A j \in DOMAIN docs' : Honest(docs[j])'
  BY <1>4 DEF HonestInv, AnswerHonest, Honest
<1> QED
  BY <1>1, <1>2, <1>3, <1>5, <1>6, <1>7 DEF HonestInv

\* The end of an update, or of a failed one.
LEMMA FinishFacts ==
  ASSUME TypeOK, NEW p \in Instance, Finish(p)
  PROVE  /\ pc' \in [Instance -> {"idle", "fetch", "read", "write"}]
         /\ sig' \in [Instance -> Signature \cup {None}]
         /\ copy' \in [Instance -> Document \cup {None}]
         /\ found'[p] = 0 /\ pc'[p] = "idle"
         /\ \A q \in Instance \ {p} :
              /\ found'[q] = found[q] /\ copy'[q] = copy[q]
              /\ pc'[q] = pc[q] /\ sig'[q] = sig[q]
         /\ found' = [found EXCEPT ![p] = 0]
BY DEF TypeOK, Finish, Goto

LEMMA FailHonest ==
  ASSUME HonestInv, NEW p \in Instance, Fail(p)
  PROVE  HonestInv'
<1>1. TypeOK /\ Finish(p) /\ UNCHANGED <<docs, answer, writes, verified, overlapped>>
  BY DEF Fail, HonestInv
<1>2. TypeOK'
  <2>1. \A q \in Instance : found'[q] # 0 => copy'[q] # None
    BY <1>1, FinishFacts DEF TypeOK
  <2>2. \A q \in Instance : pc'[q] \in {"read", "write"} => sig'[q] # None
    BY <1>1, FinishFacts DEF TypeOK
  <2>3. found' \in [Instance -> 0 .. Len(docs')]
    BY <1>1, FinishFacts DEF TypeOK
  <2> QED
    BY <1>1, <2>1, <2>2, <2>3, FinishFacts DEF TypeOK
<1> QED
  BY <1>1, <1>2, FinishFacts DEF HonestInv, AnswerHonest, Honest, Updating

LEMMA WriteHonest ==
  ASSUME HonestInv, NEW p \in Instance, Write(p)
  PROVE  HonestInv'
<1> DEFINE n == Len(docs)
<1>1. TypeOK /\ Finish(p) /\ UNCHANGED <<answer, overlapped>>
  BY DEF Write, HonestInv
<1>2. /\ verified \subseteq verified' /\ verified' \subseteq Text
      /\ sig[p].guessed \/ sig[p].text \in verified'
      /\ sig[p] \in Signature
      /\ writes' = [writes EXCEPT ![sig[p].text] = @ + 1]
  BY <1>1, UpdatedDocs DEF Write, TypeOK, Signature
<1>3. /\ docs \in Seq(Document) /\ docs' \in Seq(Document) /\ n \in Nat
      /\ Len(docs') \in {n, n + 1} /\ DOMAIN docs \subseteq DOMAIN docs'
  BY <1>1, UpdatedDocs DEF TypeOK
<1>4. TypeOK'
  <2>1. writes' \in [Text -> Nat]
    BY <1>1, <1>2 DEF TypeOK, Signature
  <2>2. found' \in [Instance -> 0 .. Len(docs')]
    BY <1>1, <1>3, FinishFacts DEF TypeOK
  <2> QED
    BY <1>1, <1>2, <1>3, <2>1, <2>2, FinishFacts DEF TypeOK
<1>5. AnswerHonest'
  BY <1>1, <1>2 DEF HonestInv, AnswerHonest
<1>6. \A i \in DOMAIN docs : docs'[i].text = docs[i].text
  <2>1. CASE found[p] = 0
    BY <1>1, <2>1, UpdatedDocs
  <2>2. CASE found[p] # 0
    <3>1. docs'[found[p]].text = copy[p].text
      BY <1>1, <1>2, <2>2, UpdatedDocs, MergeType
    <3>2. copy[p].text = docs[found[p]].text
      BY <2>2 DEF HonestInv
    <3> QED
      BY <1>1, <2>2, <3>1, <3>2, UpdatedDocs
  <2> QED
    BY <2>1, <2>2
<1>7. \A i \in DOMAIN docs' : Honest(docs[i])'
  <2>1. \A i \in DOMAIN docs : docs'[i] = docs[i] => Honest(docs[i])'
    BY <1>2 DEF HonestInv, Honest
  <2>2. CASE found[p] = 0
    <3>1. /\ docs'[n + 1].text = sig[p].text /\ docs'[n + 1].guessed = sig[p].guessed
          /\ DOMAIN docs' = 1 .. n + 1 /\ DOMAIN docs = 1 .. n
          /\ \A i \in DOMAIN docs : docs'[i] = docs[i]
      BY <1>1, <1>2, <2>2, UpdatedDocs, InsertType
    <3>2. \A i \in 1 .. n + 1 : i = n + 1 \/ i \in 1 .. n
      <4> HIDE DEF n
      <4> QED
        BY <1>3
    <3>3. docs'[n + 1].guessed \/ docs'[n + 1].text \in verified'
      BY <1>2, <3>1
    <3>4. \A i \in DOMAIN docs' : docs'[i].guessed \/ docs'[i].text \in verified'
      <4> HIDE DEF n
      <4> QED
        BY <2>1, <3>1, <3>2, <3>3 DEF Honest
    <3> QED
      BY <3>4 DEF Honest
  <2>3. CASE found[p] # 0
    <3>1. /\ docs'[found[p]].text = sig[p].text
          /\ docs'[found[p]].guessed \in {copy[p].guessed, sig[p].guessed}
          /\ copy[p].text = sig[p].text /\ Honest(copy[p])
      BY <1>1, <1>2, <2>3, UpdatedDocs, MergeType DEF HonestInv
    <3>2. DOMAIN docs' = DOMAIN docs /\ \A i \in DOMAIN docs \ {found[p]} : docs'[i] = docs[i]
      BY <1>1, <2>3, UpdatedDocs
    <3>3. ASSUME NEW i \in DOMAIN docs, i = found[p] PROVE Honest(docs[i])'
      <4>1. docs'[i].guessed \/ docs'[i].text \in verified'
        BY <1>2, <3>1, <3>3 DEF Honest
      <4> QED
        BY <4>1 DEF Honest
    <3> QED
      BY <2>1, <3>2, <3>3
  <2> QED
    BY <2>2, <2>3
<1>8. \A q \in Instance :
        found'[q] # 0 => /\ Updating(q)' /\ Honest(copy[q])'
                         /\ copy'[q].text = sig'[q].text
                         /\ docs'[found'[q]].text = sig'[q].text
  <2> SUFFICES ASSUME NEW q \in Instance, found'[q] # 0
               PROVE  /\ Updating(q)' /\ Honest(copy[q])'
                      /\ copy'[q].text = sig'[q].text
                      /\ docs'[found'[q]].text = sig'[q].text
    OBVIOUS
  <2>1. q # p /\ found'[q] = found[q] /\ copy'[q] = copy[q] /\ pc'[q] = pc[q] /\ sig'[q] = sig[q]
    BY <1>1, FinishFacts
  <2>2. found[q] \in DOMAIN docs
    BY <1>1, <1>3, <2>1 DEF TypeOK
  <2> QED
    BY <1>2, <1>6, <2>1, <2>2 DEF HonestInv, Honest, Updating
<1> QED
  BY <1>4, <1>5, <1>7, <1>8 DEF HonestInv

LEMMA NextHonest == HonestInv /\ [Next]_vars => HonestInv'
<1> SUFFICES ASSUME HonestInv, [Next]_vars PROVE HonestInv'
  OBVIOUS
<1>1. CASE UNCHANGED vars
  BY <1>1 DEF vars, HonestInv, TypeOK, AnswerHonest, Honest, Updating
<1> QED
  BY <1>1, VerifyHonest, GuessHonest, FetchHonest, ReadHonest, WriteHonest, FailHonest
  DEF Next

\* Every variable keeps its type.
THEOREM SignatureTypeCorrect == Spec => []TypeOK
<1>1. HonestInv => TypeOK
  BY DEF HonestInv
<1> QED
  BY <1>1, InitHonest, NextHonest, PTL DEF Spec

\* What get_most_used_signature reports as not guessed was stored from a
\* verified contract, however updates overlap.
THEOREM AnswersHonest == Spec => []AnswerHonest
<1>1. HonestInv => AnswerHonest
  BY DEF HonestInv
<1> QED
  BY <1>1, InitHonest, NextHonest, PTL DEF Spec

-----------------------------------------------------------------------------
(***************************************************************************)
(* ExactInv: what holds as long as no two updates have overlapped.         *)
(***************************************************************************)
LEMMA InitExact == Init => ExactInv
<1> SUFFICES ASSUME Init PROVE ExactInv
  OBVIOUS
<1>1. HonestInv
  BY InitHonest
<1>2. DOMAIN docs = {}
  BY DEF Init
<1> QED
  BY <1>1, <1>2 DEF Init, ExactInv, Exact, VerifiedStays, Updating

\* A step that leaves the documents alone and starts no update.
LEMMA QuietExact ==
  ASSUME ExactInv, HonestInv',
         UNCHANGED <<docs, writes, verified, overlapped>>,
         \A q \in Instance : Updating(q)' =>
           /\ Updating(q) /\ found'[q] = found[q]
           /\ copy'[q] = copy[q] /\ sig'[q] = sig[q]
  PROVE  ExactInv'
<1>1. Exact' /\ VerifiedStays' /\ \A t \in verified' : writes'[t] > 0
  BY DEF ExactInv, Exact, VerifiedStays, Matching
<1>2. \A q \in Instance : Updating(q)' /\ Current(q) => Current(q)'
  BY DEF Current, Matching
<1> QED
  BY <1>1, <1>2 DEF ExactInv

LEMMA ReadExact ==
  ASSUME ExactInv, NEW p \in Instance, Read(p)
  PROVE  ExactInv'
<1>1. /\ HonestInv' /\ HonestInv
      /\ found'[p] = 0 => Matching(sig[p].text) = {}
      /\ found'[p] # 0 => copy'[p] = docs[found'[p]]
      /\ \A q \in Instance \ {p} : found'[q] = found[q] /\ copy'[q] = copy[q]
  BY ReadHonest DEF ExactInv
<1>2. /\ pc' = [pc EXCEPT ![p] = "write"]
      /\ overlapped' = (overlapped \/ \E q \in Instance \ {p} : Updating(q))
      /\ UNCHANGED <<docs, sig, answer, writes, verified>>
  BY DEF Read, Goto
<1>3. Exact' /\ VerifiedStays' /\ \A t \in verified' : writes'[t] > 0
  BY <1>2 DEF ExactInv, Exact, VerifiedStays, Matching
<1>4. \A q \in Instance \ {p} : Updating(q)' = Updating(q)
  BY <1>1, <1>2 DEF Updating, HonestInv, TypeOK
<1>5. Current(p)'
  BY <1>1, <1>2 DEF Current, Matching
<1>6. ASSUME ~overlapped'
      PROVE  /\ \A q, r \in Instance : Updating(q)' /\ Updating(r)' => q = r
             /\ \A q \in Instance : Updating(q)' => Current(q)'
  <2>1. \A q \in Instance \ {p} : ~Updating(q)'
    BY <1>2, <1>4, <1>6
  <2> QED
    BY <1>5, <2>1
<1> QED
  BY <1>1, <1>3, <1>6 DEF ExactInv

LEMMA WriteExact ==
  ASSUME ExactInv, NEW p \in Instance, Write(p)
  PROVE  ExactInv'
<1> DEFINE text == sig[p].text
           n == Len(docs)
<1>1. /\ TypeOK /\ HonestInv /\ HonestInv' /\ Finish(p) /\ Updating(p)
      /\ UNCHANGED <<answer, overlapped>>
      /\ verified' = IF sig[p].guessed THEN verified ELSE verified \cup {text}
      /\ writes' = [writes EXCEPT ![text] = @ + 1]
  BY WriteHonest DEF Write, ExactInv, HonestInv
<1>2. sig[p] \in Signature /\ text \in Text /\ sig[p].guessed \in BOOLEAN
  BY <1>1, UpdatedDocs DEF Signature
<1>3. /\ writes'[text] = writes[text] + 1 /\ writes[text] \in Nat
      /\ \A t \in Text \ {text} : writes'[t] = writes[t]
      /\ \A t \in Text : writes[t] \in Nat /\ writes'[t] >= writes[t]
  BY <1>1, <1>2 DEF TypeOK
<1>4. \A t \in verified' : writes'[t] > 0
  BY <1>1, <1>3 DEF ExactInv, TypeOK
<1>5. \A i \in DOMAIN docs : docs[i] \in Document /\ docs[i].text \in Text
  <2>1. docs \in Seq(Document)
    BY <1>1 DEF TypeOK
  <2>2. \A i \in DOMAIN docs : docs[i] \in Document
    BY <2>1
  <2> QED
    BY <2>2 DEF Document
<1>6. ASSUME ~overlapped
      PROVE  /\ Exact' /\ VerifiedStays'
             /\ \A q, r \in Instance : Updating(q)' /\ Updating(r)' => q = r
             /\ \A q \in Instance : Updating(q)' => Current(q)'
  <2>1. /\ \A q \in Instance : Updating(q) => q = p
        /\ IF found[p] = 0 THEN Matching(text) = {} ELSE copy[p] = docs[found[p]]
    BY <1>1, <1>6 DEF ExactInv, Current
  <2>2. \A q \in Instance : ~Updating(q)'
    BY <1>1, <2>1, FinishFacts DEF Updating
  <2>3. /\ \A i, j \in DOMAIN docs : docs[i].text = docs[j].text => i = j
        /\ \A i \in DOMAIN docs : docs[i].count = writes[docs[i].text]
        /\ \A t \in Text : writes[t] > 0 => \E i \in DOMAIN docs : docs[i].text = t
        /\ \A i \in DOMAIN docs :
             docs[i].text \in verified \ (Nullary \cup ArgLike) => ~docs[i].guessed
    BY <1>6 DEF ExactInv, Exact, VerifiedStays, Matching
  <2>4. CASE found[p] = 0
    <3>1. /\ DOMAIN docs' = 1 .. n + 1 /\ DOMAIN docs = 1 .. n /\ n \in Nat
          /\ docs'[n + 1].text = text /\ docs'[n + 1].count = 1
          /\ docs'[n + 1].guessed = sig[p].guessed
          /\ \A i \in DOMAIN docs : docs'[i] = docs[i]
      BY <1>1, <1>2, <2>4, UpdatedDocs, InsertType
    <3>2. \A i \in DOMAIN docs : docs[i].text # text
      BY <2>1, <2>4 DEF Matching
    <3>3. writes[text] = 0 /\ writes'[text] = 1 /\ text \notin verified
      BY <1>2, <1>3, <2>3, <3>2 DEF ExactInv
    <3> HIDE DEF text, n
    <3>4. \A i \in DOMAIN docs' : i = n + 1 \/ i \in DOMAIN docs
      BY <3>1
    <3>5. \A i, j \in DOMAIN docs' : docs'[i].text = docs'[j].text => i = j
      BY <2>3, <3>1, <3>2, <3>4
    <3>6. \A i \in DOMAIN docs' : docs'[i].count = writes'[docs'[i].text]
      BY <1>3, <1>5, <2>3, <3>1, <3>2, <3>3, <3>4
    <3>7. \A t \in Text : writes'[t] > 0 => \E i \in DOMAIN docs' : docs'[i].text = t
      <4>1. n + 1 \in DOMAIN docs' /\ DOMAIN docs \subseteq DOMAIN docs'
        BY <3>1
      <4> QED
        BY <1>3, <2>3, <3>1, <4>1
    <3>8. \A i \in DOMAIN docs' :
            docs'[i].text \in verified' \ (Nullary \cup ArgLike) => ~docs'[i].guessed
      <4>1. ASSUME NEW i \in DOMAIN docs, docs[i].text \in verified' PROVE docs[i].text \in verified
        BY <1>1, <3>2, <4>1
      <4>2. sig[p].guessed => text \notin verified'
        BY <1>1, <3>3
      <4> QED
        BY <2>3, <3>1, <3>4, <4>1, <4>2
    <3> QED
      BY <2>2, <3>5, <3>6, <3>7, <3>8 DEF Exact, VerifiedStays, Matching
  <2>5. CASE found[p] # 0
    <3> DEFINE k == found[p]
    <3>1. /\ k \in DOMAIN docs /\ DOMAIN docs' = DOMAIN docs /\ copy[p] = docs[k]
          /\ docs'[k] = Merge(docs[k], sig[p]) /\ docs[k].text = text
          /\ \A i \in DOMAIN docs \ {k} : docs'[i] = docs[i]
      BY <1>1, <2>1, <2>5, UpdatedDocs DEF HonestInv
    <3>2. /\ docs'[k].text = text /\ docs'[k].count = docs[k].count + 1
          /\ docs'[k].guessed = IF text \notin Nullary /\ (docs[k].guessed \/ text \in ArgLike)
                                THEN sig[p].guessed ELSE docs[k].guessed
      BY <3>1 DEF Merge
    <3> HIDE DEF text, n, k
    <3>3. \A i \in DOMAIN docs \ {k} : docs[i].text # text
      BY <2>3, <3>1
    <3>4. \A i, j \in DOMAIN docs' : docs'[i].text = docs'[j].text => i = j
      BY <2>3, <3>1, <3>2
    <3>5. \A i \in DOMAIN docs' : docs'[i].count = writes'[docs'[i].text]
      BY <1>3, <1>5, <2>3, <3>1, <3>2, <3>3
    <3>6. \A t \in Text : writes'[t] > 0 => \E i \in DOMAIN docs' : docs'[i].text = t
      BY <1>3, <2>3, <3>1, <3>2
    <3>7. \A i \in DOMAIN docs' :
            docs'[i].text \in verified' \ (Nullary \cup ArgLike) => ~docs'[i].guessed
      <4>1. ASSUME NEW i \in DOMAIN docs \ {k}, docs[i].text \in verified'
            PROVE  docs[i].text \in verified
        BY <1>1, <3>3, <4>1
      <4>2. ASSUME text \in verified' \ (Nullary \cup ArgLike) PROVE ~docs'[k].guessed
        <5>1. CASE text \in verified
          BY <2>3, <3>1, <3>2, <4>2, <5>1
        <5>2. CASE text \notin verified
          BY <1>1, <3>2, <4>2, <5>2
        <5> QED
          BY <5>1, <5>2
      <4> QED
        BY <2>3, <3>1, <3>2, <4>1, <4>2
    <3> QED
      BY <2>2, <3>4, <3>5, <3>6, <3>7 DEF Exact, VerifiedStays, Matching
  <2> QED
    BY <2>4, <2>5
<1>7. CASE overlapped
  BY <1>1, <1>4, <1>7 DEF ExactInv, Exact, VerifiedStays
<1>8. CASE ~overlapped
  BY <1>1, <1>4, <1>6, <1>8 DEF ExactInv
<1> QED
  BY <1>7, <1>8

LEMMA NextExact == ExactInv /\ [Next]_vars => ExactInv'
<1> SUFFICES ASSUME ExactInv, [Next]_vars PROVE ExactInv'
  OBVIOUS
<1>1. HonestInv /\ TypeOK /\ HonestInv'
  BY NextHonest DEF ExactInv, HonestInv
<1>2. CASE UNCHANGED vars
  BY <1>1, <1>2, QuietExact DEF vars, Updating
<1>3. ASSUME NEW p \in Instance, NEW text \in Text, Verify(p, text) PROVE ExactInv'
  BY <1>1, <1>3, QuietExact DEF Verify, Store, Goto, Updating, TypeOK
<1>4. ASSUME NEW p \in Instance, Guess(p) PROVE ExactInv'
  BY <1>1, <1>4, QuietExact DEF Guess, Goto, Updating, TypeOK
<1>5. ASSUME NEW p \in Instance, Fetch(p) PROVE ExactInv'
  <2>1. pc' \in {[pc EXCEPT ![p] = "read"], [pc EXCEPT ![p] = "idle"]}
    BY <1>5 DEF Fetch, Store, Goto
  <2>2. \A q \in Instance \ {p} : sig'[q] = sig[q]
    BY <1>1, <1>5 DEF Fetch, Store, TypeOK
  <2>3. UNCHANGED <<docs, found, copy, writes, verified, overlapped>>
    BY <1>5 DEF Fetch
  <2> QED
    BY <1>1, <2>1, <2>2, <2>3, QuietExact DEF Updating, TypeOK
<1>6. ASSUME NEW p \in Instance, Fail(p) PROVE ExactInv'
  BY <1>1, <1>6, FinishFacts, QuietExact DEF Fail, Updating
<1> QED
  BY <1>2, <1>3, <1>4, <1>5, <1>6, ReadExact, WriteExact DEF Next

\* update_or_insert_signature, without overlap: one document per function,
\* counting exactly its updates.
THEOREM SignaturesExact == Spec => []Exact
<1>1. ExactInv => Exact
  BY DEF ExactInv
<1> QED
  BY <1>1, InitExact, NextExact, PTL DEF Spec

\* update_or_insert_signature, without overlap: no guess takes the place of
\* what came from a verified contract.
THEOREM VerifiedSignaturesStay == Spec => []VerifiedStays
<1>1. ExactInv => VerifiedStays
  BY DEF ExactInv
<1> QED
  BY <1>1, InitExact, NextExact, PTL DEF Spec
=============================================================================
