--------------------------- MODULE SignatureStore ---------------------------
(***************************************************************************)
(* The "signatures" collection of the semantics database, for one four-    *)
(* byte signature hash, as several EthTx processes update it: with the     *)
(* functions of verified contracts (insert_contract_signatures) and with   *)
(* functions guessed from 4byte.directory (upsert_guessed_function_        *)
(* semantics), both through update_or_insert_signature.                    *)
(*                                                                         *)
(* A Text is a function name with its number of arguments: what            *)
(* update_or_insert_signature tells documents with the same hash apart by. *)
(* An update reads the documents in one step and writes one of them in     *)
(* another; nothing holds other processes off in between.                  *)
(***************************************************************************)
EXTENDS Integers, Sequences, FiniteSetsExt

CONSTANTS
  Instance,   \* the EthTx processes that share the database
  Text,       \* the functions whose hash it is
  Nullary,    \* those without arguments
  ArgLike,    \* those whose first argument is named or typed like "..arg.." in source code
  MaxWrites,  \* bound: updates made
  None        \* no document, no answer

ASSUME TextAssumption ==
  /\ Nullary \subseteq Text /\ ArgLike \subseteq Text \ Nullary
  /\ MaxWrites \in Nat

\* The arguments of a guessed signature are named "arg_0", "arg_1"; those of
\* one that is not have their names from source code.
Signature == [text : Text, guessed : BOOLEAN]
Document == [text : Text, guessed : BOOLEAN, count : Nat]

ASSUME NoneAssumption == None \notin Document \cup Signature

VARIABLES
  docs,        \* the documents with this hash, in the order of insertion
  pc,          \* per process: "idle", "fetch", "read", "write"
  sig,         \* per process: the signature it is storing
  found,       \* per process: the index of the document to update, or 0
  copy,        \* per process: that document as it was read
  answer,      \* per process: the document its last function name came from
  writes,      \* history: writes[t]: updates made with text t
  verified,    \* history: texts stored from verified contracts
  overlapped   \* history: two updates have overlapped

vars == <<docs, pc, sig, found, copy, answer, writes, verified, overlapped>>

Init ==
  /\ docs = <<>>
  /\ pc = [p \in Instance |-> "idle"]
  /\ sig = [p \in Instance |-> None]
  /\ found = [p \in Instance |-> 0]
  /\ copy = [p \in Instance |-> None]
  /\ answer = [p \in Instance |-> None]
  /\ writes = [t \in Text |-> 0]
  /\ verified = {}
  /\ overlapped = FALSE

Goto(p, label) == pc' = [pc EXCEPT ![p] = label]

Store(p, text, guessed) ==
  /\ Goto(p, "read")
  /\ sig' = [sig EXCEPT ![p] = [text |-> text, guessed |-> guessed]]

\* max by count: the first of the documents with the highest.
MostUsed ==
  {i \in DOMAIN docs : \A j \in DOMAIN docs :
     docs[j].count <= docs[i].count /\ (j < i => docs[j].count < docs[i].count)}

-----------------------------------------------------------------------------
\* insert_contract_signatures: a function of a contract not seen before.
Verify(p, text) ==
  /\ pc[p] = "idle"
  /\ Store(p, text, FALSE)
  /\ UNCHANGED <<docs, found, copy, answer, writes, verified, overlapped>>

\* decode_function_abi_with_repository: the stored signatures come first.
Guess(p) ==
  /\ pc[p] = "idle"
  /\ \/ /\ \E i \in MostUsed : answer' = [answer EXCEPT ![p] = docs[i]]
        /\ UNCHANGED pc
     \/ docs = <<>> /\ Goto(p, "fetch") /\ UNCHANGED answer
  /\ UNCHANGED <<docs, sig, found, copy, writes, verified, overlapped>>

\* 4byte.directory knows functions with this hash, of which decode_call settles
\* for one, or it knows none or does not answer.
Fetch(p) ==
  /\ pc[p] = "fetch"
  /\ \/ \E text \in Text : Store(p, text, TRUE)
     \/ Goto(p, "idle") /\ UNCHANGED sig
  /\ UNCHANGED <<docs, found, copy, answer, writes, verified, overlapped>>

-----------------------------------------------------------------------------
(***************************************************************************)
(* update_or_insert_signature.                                             *)
(***************************************************************************)
Matching(text) == {i \in DOMAIN docs : docs[i].text = text}

FirstMatching(text) == {i \in Matching(text) : \A j \in Matching(text) : i <= j}

Updating(p) == pc[p] = "write"

Found(p, i, doc) ==
  found' = [found EXCEPT ![p] = i] /\ copy' = [copy EXCEPT ![p] = doc]

Read(p) ==
  /\ pc[p] = "read"
  /\ \/ Matching(sig[p].text) = {} /\ Found(p, 0, None)
     \/ \E i \in FirstMatching(sig[p].text) : Found(p, i, docs[i])
  /\ Goto(p, "write")
  /\ overlapped' = (overlapped \/ \E q \in Instance \ {p} : Updating(q))
  /\ UNCHANGED <<docs, sig, answer, writes, verified>>

\* Mutants of Merge: the use is not counted; any new signature takes over.
MergeUncounted(doc, new) ==
  LET placeholders == doc.text \notin Nullary /\ (doc.guessed \/ doc.text \in ArgLike)
  IN [text |-> doc.text,
      guessed |-> IF placeholders THEN new.guessed ELSE doc.guessed,
      count |-> doc.count]

MergeAlways(doc, new) ==
  [text |-> doc.text, guessed |-> new.guessed, count |-> doc.count + 1]

\* The names and the guessed flag of a document are replaced if something of
\* its first argument has "arg" in it, as the placeholder arg_0 has.
Merge(doc, new) ==
  LET placeholders == doc.text \notin Nullary /\ (doc.guessed \/ doc.text \in ArgLike)
  IN [text |-> doc.text,
      guessed |-> IF placeholders THEN new.guessed ELSE doc.guessed,
      count |-> doc.count + 1]

\* Mutant of Insert: the guessed flag is left at its default.
InsertUnflagged(new) == [text |-> new.text, guessed |-> FALSE, count |-> 1]

Insert(new) == [text |-> new.text, guessed |-> new.guessed, count |-> 1]

\* What the update makes of the collection.
Updated(i, doc, new) ==
  IF i = 0 THEN Append(docs, Insert(new)) ELSE [docs EXCEPT ![i] = Merge(doc, new)]

Finish(p) ==
  /\ Goto(p, "idle")
  /\ sig' = [sig EXCEPT ![p] = None]
  /\ found' = [found EXCEPT ![p] = 0]
  /\ copy' = [copy EXCEPT ![p] = None]

TotalWrites == FoldSet(LAMBDA t, n : writes[t] + n, 0, Text)

Write(p) ==
  /\ Updating(p) /\ TotalWrites < MaxWrites
  /\ docs' = Updated(found[p], copy[p], sig[p])
  /\ writes' = [writes EXCEPT ![sig[p].text] = @ + 1]
  /\ verified' = IF sig[p].guessed THEN verified ELSE verified \cup {sig[p].text}
  /\ Finish(p)
  /\ UNCHANGED <<answer, overlapped>>

\* An exception ends the update, or the process dies.
Fail(p) ==
  /\ pc[p] # "idle"
  /\ Finish(p)
  /\ UNCHANGED <<docs, answer, writes, verified, overlapped>>

Next ==
  \E p \in Instance :
    \/ \E text \in Text : Verify(p, text)
    \/ Guess(p) \/ Fetch(p) \/ Read(p) \/ Write(p) \/ Fail(p)

Spec == Init /\ [][Next]_vars

-----------------------------------------------------------------------------
TypeOK ==
  /\ docs \in Seq(Document)
  /\ pc \in [Instance -> {"idle", "fetch", "read", "write"}]
  /\ sig \in [Instance -> Signature \cup {None}]
  /\ found \in [Instance -> 0 .. Len(docs)]
  /\ copy \in [Instance -> Document \cup {None}]
  /\ answer \in [Instance -> Document \cup {None}]
  /\ writes \in [Text -> Nat] /\ verified \subseteq Text /\ overlapped \in BOOLEAN
  /\ \A p \in Instance : pc[p] \in {"read", "write"} => sig[p] # None
  /\ \A p \in Instance : found[p] # 0 => copy[p] # None

\* A function name that decode_call does not flag as guessed comes from some
\* verified contract, whichever processes wrote over each other.
AnswerHonest ==
  \A p \in Instance :
    answer[p] # None /\ ~answer[p].guessed => answer[p].text \in verified

\* Updates that never overlapped leave one document per function, counting
\* exactly the updates made with it.
Exact ==
  ~overlapped =>
    /\ \A i, j \in DOMAIN docs : docs[i].text = docs[j].text => i = j
    /\ \A i \in DOMAIN docs : docs[i].count = writes[docs[i].text]
    /\ \A t \in Text : writes[t] > 0 => Matching(t) # {}

\* Without overlap, a function once stored from a verified contract has its
\* argument names from source code from then on: a guess stored before gives
\* way, one stored after does not count.  Only a first argument that looks like
\* a placeholder itself is not safe.
VerifiedStays ==
  ~overlapped =>
    \A i \in DOMAIN docs :
      docs[i].text \in verified \ (Nullary \cup ArgLike) => ~docs[i].guessed

-----------------------------------------------------------------------------
(***************************************************************************)
(* The strengthenings that make these invariants inductive.                *)
(***************************************************************************)
Honest(doc) == doc.guessed \/ doc.text \in verified

\* What a process holds of a document is honest, and of its own function.
HonestInv ==
  /\ TypeOK /\ AnswerHonest
  /\ \A i \in DOMAIN docs : Honest(docs[i])
  /\ \A p \in Instance :
       found[p] # 0 => /\ Updating(p) /\ Honest(copy[p])
                       /\ copy[p].text = sig[p].text
                       /\ docs[found[p]].text = sig[p].text

\* Without overlap there is one updater at most, and what it read is current.
Current(p) ==
  IF found[p] = 0 THEN Matching(sig[p].text) = {} ELSE copy[p] = docs[found[p]]

ExactInv ==
  /\ HonestInv /\ Exact /\ VerifiedStays
  /\ \A t \in verified : writes[t] > 0
  /\ ~overlapped => /\ \A p, q \in Instance : Updating(p) /\ Updating(q) => p = q
                    /\ \A p \in Instance : Updating(p) => Current(p)
=============================================================================
