------------------------------ MODULE CachedReads ------------------------------
(***************************************************************************)
(* What a cached reader of an outside source promises, whatever it does to *)
(* get its answers: a question is answered by what the source says at that *)
(* moment, or by the answer that was remembered, and nothing else is ever  *)
(* remembered.  An answer may be forgotten when another one is remembered; *)
(* it is never replaced while it is remembered.  A failure leaves the      *)
(* memory alone.                                                           *)
(***************************************************************************)
CONSTANTS Question, Unknown

VARIABLES
  says,      \* says[q]: the answers the source would give now
  memory,    \* memory[q]: the answer remembered, or Unknown
  reply      \* the last question that was answered, and the answer

readVars == <<says, memory, reply>>

ReadInit ==
  /\ DOMAIN says = Question
  /\ memory = [q \in Question |-> Unknown]
  /\ reply = Unknown

\* The source may come to say anything.
SourceChanges ==
  /\ DOMAIN says' = Question
  /\ UNCHANGED <<memory, reply>>

Recall(q) ==
  /\ memory[q] # Unknown
  /\ reply' = [question |-> q, answer |-> memory[q]]
  /\ UNCHANGED <<says, memory>>

Learn(q) ==
  /\ memory[q] = Unknown
  /\ \E a \in says[q] :
       /\ reply' = [question |-> q, answer |-> a]
       /\ memory'[q] = a
  /\ DOMAIN memory' = Question
  /\ \A r \in Question \ {q} : memory'[r] \in {memory[r], Unknown}
  /\ UNCHANGED says

\* A question that gets no answer, or is still on its way.
Silence ==
  /\ reply' = Unknown
  /\ UNCHANGED <<says, memory>>

ReadNext ==
  \/ SourceChanges \/ Silence
  \/ \E q \in Question : Recall(q) \/ Learn(q)

ReadSpec == ReadInit /\ [][ReadNext]_readVars
=============================================================================
