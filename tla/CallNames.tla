-------------------------------- MODULE CallNames --------------------------------
(***************************************************************************)
(* ABICallsDecoder.decode_call: what a call is named, and by which         *)
(* parameters its data is decoded, in one process that decodes one call    *)
(* after another.  A function that no ABI knows is looked up among the     *)
(* stored signatures and then in 4byte.directory, whose list comes in      *)
(* pages, grows, and fails; requests_cache remembers pages for a while.    *)
(*                                                                         *)
(* All calls have the same four-byte signature, or all are events with the *)
(* same topic; a directory lists the text signatures with that hash, the   *)
(* newest first.  Of an event only the name is guessed.                    *)
(***************************************************************************)
EXTENDS Naturals, Sequences, SequencesExt

CONSTANTS
  Texts,      \* text signatures
  Unparsable, \* those with tuples inside tuples
  Nullary,    \* those without arguments
  ArgLike,    \* those whose first argument is named or typed like "..arg.." in source code
  Calls,      \* what is called: [to, type, data, fits], see Init
  PageSize,   \* entries in a page of the directory
  MaxTexts,   \* bound: entries of the directory
  MaxDecodes, \* bound: calls decoded
  None

ASSUME TextsAssumption ==
  /\ Unparsable \subseteq Texts
  /\ Nullary \subseteq Texts /\ ArgLike \subseteq Texts \ Nullary
  /\ PageSize \in Nat \ {0} /\ MaxTexts \in Nat \ {0}
  /\ \A c \in Calls : c.fits \subseteq Texts
  /\ None \notin Texts \cup Calls

VARIABLES
  what,       \* "function" or "event": which directory it is
  directory,  \* the directory's list
  memory,     \* the pages requests_cache holds, the first to expire first
  signatures, \* the stored signatures, in the order of insertion
  call,       \* the call being decoded, None between calls
  page,       \* FourByteProvider._get_all: the page to get, 0 outside the loop
  results,    \* and the entries it has
  shown,      \* the last call's name and how its data was decoded
  failed,     \* history: a page could not be had for the last name guessed
  stale,      \* history: a page was taken from memory after a later one
  base,       \* history: the entries of the directory at its oldest page
  names,      \* history: the names that were guessed
  foreign,    \* history: another process has stored a signature
  decodes     \* history: calls decoded

service == <<what, directory, memory>>
loop    == <<page, results>>
history == <<failed, stale, base, names, foreign, decodes>>
vars    == <<service, signatures, call, loop, shown, history>>

-----------------------------------------------------------------------------
(***************************************************************************)
(* The world.                                                              *)
(***************************************************************************)
Publish(t) ==
  /\ Len(directory) < MaxTexts /\ t \notin ToSet(directory)
  /\ directory' = <<t>> \o directory
  /\ UNCHANGED <<what, memory, signatures, call, loop, shown, history>>

\* 120 seconds after it was fetched a page is forgotten.
Expire ==
  /\ memory # <<>> /\ memory' = Tail(memory)
  /\ UNCHANGED <<what, directory, signatures, call, loop, shown, history>>

\* update_or_insert_signature: a function that is stored is counted, and gets
\* the new names and the new guessed flag if its first argument has "arg" in it,
\* as the placeholder arg_0 of a guess has.  (SignatureStore has the updates
\* that overlap.)
Merged(s, guessed) ==
  LET placeholders == s.text \notin Nullary /\ (s.guessed \/ s.text \in ArgLike) IN
  [text |-> s.text, guessed |-> IF placeholders THEN guessed ELSE s.guessed,
   count |-> s.count + 1]

Updated(t, guessed) ==
  LET same == {i \in DOMAIN signatures : signatures[i].text = t} IN
  IF same = {} THEN Append(signatures, [text |-> t, guessed |-> guessed, count |-> 1])
  ELSE [i \in DOMAIN signatures |->
          IF i \in same THEN Merged(signatures[i], guessed) ELSE signatures[i]]

\* Another process decodes a call of a verified contract for the first time:
\* insert_contract_signatures stores its function.
StoreVerified(t) ==
  /\ what = "function" /\ ~foreign /\ foreign' = TRUE
  /\ signatures' = Updated(t, FALSE)
  /\ UNCHANGED <<service, call, loop, shown, failed, stale, base, names, decodes>>

-----------------------------------------------------------------------------
(***************************************************************************)
(* The result of decode_call: a name, the parameters the data was decoded  *)
(* with (None: it is shown as it is), and whether the name is a guess.     *)
(***************************************************************************)
Shown(name, by, guessed) == [name |-> name, by |-> by, guessed |-> guessed]

End(result) ==
  /\ shown' = result /\ call' = None /\ page' = 0 /\ results' = <<>>

\* The function name when no function is found: the first ten characters of
\* the call's data.
Selector(c) == IF c.data = "none" THEN "" ELSE IF c.data = "empty" THEN "0x" ELSE "0x..."

\* A contract's function: of its own ABI, of a delegate's, of its standard's.
function_abi(c) ==
  IF "own" \in c.abi THEN "own" ELSE IF "delegate" \in c.abi THEN "delegate"
  ELSE IF "standard" \in c.abi THEN "standard" ELSE None

\* The branches of decode_call.  It goes on to guess a function of a contract
\* whose name still is the selector.
Guesses(c) ==
  /\ c.type \notin {"selfdestruct", "create2"} /\ c.to = "contract"
  /\ function_abi(c) = None /\ c.data = "selector"

WithoutGuess(c) ==
  CASE c.type = "selfdestruct" -> Shown("selfdestruct", None, FALSE)
    [] c.type = "create2"      -> Shown("new", None, FALSE)
    [] c.type \in {"call", "event"} /\ c.to = "contract" ->
         IF function_abi(c) = None THEN Shown(Selector(c), None, FALSE)
         ELSE Shown(function_abi(c), function_abi(c), FALSE)
    [] c.type = "call" /\ c.to = "precompile" -> Shown("precompile", "precompile", FALSE)
    [] c.type = "call" /\ c.to = "account"    -> Shown("fallback", None, FALSE)

\* get_most_used_signature
MostUsed == CHOOSE i \in DOMAIN signatures : \A j \in DOMAIN signatures :
  signatures[j].count <= signatures[i].count
    /\ (j < i => signatures[j].count < signatures[i].count)

\* decode_call, and decode_event, up to 4byte.directory.
Start(c) ==
  /\ call = None /\ decodes < MaxDecodes /\ (what = "event" <=> c.type = "event")
  /\ decodes' = decodes + 1
  /\ IF ~Guesses(c) THEN End(WithoutGuess(c)) /\ UNCHANGED names
     ELSE IF what = "function" /\ signatures # <<>>
     THEN LET s == signatures[MostUsed] IN
          /\ End(Shown(s.text, IF s.text \in c.fits THEN s.text ELSE None, s.guessed))
          /\ names' = IF s.guessed THEN names \cup {s.text} ELSE names
     ELSE /\ call' = c /\ page' = 1 /\ results' = <<>>
          /\ UNCHANGED <<shown, names>>
  /\ IF Guesses(c) /\ (what = "event" \/ signatures = <<>>)
     THEN failed' = FALSE /\ stale' = FALSE /\ base' = MaxTexts
     ELSE UNCHANGED <<failed, stale, base>>
  /\ UNCHANGED <<service, signatures, foreign>>

-----------------------------------------------------------------------------
(***************************************************************************)
(* FourByteProvider.                                                       *)
(***************************************************************************)
\* Mutant of Tried: in the order of the directory.
TriedNewest(list) == list

\* decode_function_abi_with_external_source: the list is reversed.
Tried(list) == Reverse(list)

\* decode_call tries one candidate after another, and ends with the last if
\* the data fits none; what _parse_text_signature_response cannot read is left
\* out.
Chosen(list) ==
  LET tried      == Tried(list)
      candidates == {i \in DOMAIN tried : tried[i] \notin Unparsable}
      fit        == {i \in candidates : tried[i] \in call.fits}
  IN IF candidates = {} THEN None
     ELSE IF fit = {} THEN tried[CHOOSE i \in candidates : \A j \in candidates : j <= i]
     ELSE tried[CHOOSE i \in fit : \A j \in fit : i <= j]

\* Mutant of Store: a function the data does not fit is not kept.
StoreFitting(t) ==
  signatures' = IF t \in call.fits
                THEN Append(signatures, [text |-> t, guessed |-> TRUE, count |-> 1])
                ELSE signatures

\* upsert_guessed_function_semantics
Store(t) == signatures' = Updated(t, TRUE)

\* The loop has ended: what decode_call makes of the list.
Settle(list) ==
  LET t == Chosen(list) IN
  IF t = None THEN End(Shown(Selector(call), None, FALSE)) /\ UNCHANGED <<signatures, names>>
  ELSE IF what = "event" THEN End(Shown(t, None, TRUE)) /\ UNCHANGED <<signatures, names>>
  ELSE /\ End(Shown(t, IF t \in call.fits THEN t ELSE None, TRUE))
       /\ Store(t)
       /\ names' = names \cup {t}

\* Mutant of GoOn: the list begins again at its first page.
GoOnAround(list, next) ==
  /\ page' = (IF next THEN page + 1 ELSE 1) /\ results' = <<>>
  /\ UNCHANGED <<call, shown, signatures, names>>

GoOn(list, next) ==
  IF next THEN page' = page + 1 /\ results' = list /\ UNCHANGED <<call, shown, signatures, names>>
  ELSE Settle(list)

Remembered == {i \in DOMAIN memory : memory[i].page = page}

\* _get of a page that is remembered.
GetRemembered ==
  /\ call # None
  /\ \E i \in Remembered :
       /\ GoOn(results \o memory[i].results, memory[i].next)
       /\ stale' = (stale \/ \E j \in DOMAIN memory : j > i /\ memory[j].page < page)
       /\ base' = IF memory[i].size < base THEN memory[i].size ELSE base
  /\ UNCHANGED <<service, failed, foreign, decodes>>

\* The page as the directory answers; a page past the end has no results.
Answer ==
  LET before == (page - 1) * PageSize
      upto   == page * PageSize
      last   == IF upto < Len(directory) THEN upto ELSE Len(directory)
  IN [page |-> page, results |-> SubSeq(directory, before + 1, last),
      next |-> Len(directory) > upto, size |-> Len(directory)]

Get ==
  /\ call # None /\ Remembered = {}
  /\ memory' = Append(memory, Answer)
  /\ GoOn(results \o Answer.results, Answer.next)
  /\ base' = IF Len(directory) < base THEN Len(directory) ELSE base
  /\ UNCHANGED <<what, directory, failed, stale, foreign, decodes>>

\* _get answers {} to a timeout, an error, or an answer that is not JSON.
GetFails ==
  /\ call # None /\ Remembered = {}
  /\ failed' = TRUE
  /\ GoOn(results, FALSE)
  /\ UNCHANGED <<service, stale, base, foreign, decodes>>

-----------------------------------------------------------------------------
Init ==
  /\ what \in {"function", "event"}
  /\ directory \in {<<>>} \cup {<<t>> : t \in Texts}
  /\ memory = <<>> /\ signatures = <<>> /\ call = None /\ page = 0 /\ results = <<>>
  /\ shown = None /\ failed = FALSE /\ stale = FALSE /\ base = MaxTexts
  /\ names = {} /\ foreign = FALSE /\ decodes = 0

\* The steps of the decoding process itself.
Step == Get \/ GetFails \/ GetRemembered

Next ==
  \/ \E t \in Texts : Publish(t) \/ StoreVerified(t)
  \/ Expire
  \/ \E c \in Calls : Start(c)
  \/ Step

Spec == Init /\ [][Next]_vars /\ WF_vars(Step)

-----------------------------------------------------------------------------
(***************************************************************************)
(* Properties.                                                             *)
(***************************************************************************)
\* The entries the directory had at its oldest page that was used.
Known == SubSeq(directory, Len(directory) - base + 1, Len(directory))

\* _get_all, decode_call and decode_event: a guessed name is that of the oldest entry of the
\* directory which the data fits, however the directory has grown between the
\* pages, which were remembered and which new; only a page that failed, or one
\* remembered from before an earlier page, makes it another.
RightGuess == [][
  (call # None /\ call' = None /\ ~failed' /\ ~stale') =>
    LET fitting == {i \in 1 .. base' : Known'[i] \in call.fits \ Unparsable}
    IN fitting # {} =>
         /\ shown'.name = Known'[CHOOSE i \in fitting : \A j \in fitting : i >= j]
         /\ shown'.by = (IF what = "event" THEN None ELSE shown'.name) /\ shown'.guessed
  ]_vars

\* upsert_guessed_function_semantics: whatever was guessed first, from a list
\* cut short or though no data fits it, is what this selector is called from
\* then on, unless another process stores a signature for it.
OneName == ~foreign => \A m, n \in names : m = n

\* _get_all: the loop over the pages ends, whatever fails and however the
\* pages that are remembered and those that are new fit together.
EveryCallEnds == call # None ~> call = None

-----------------------------------------------------------------------------
(***************************************************************************)
(* The strengthenings that make the properties above inductive.            *)
(***************************************************************************)
Page == [page : Nat \ {0}, results : Seq(Texts), next : BOOLEAN, size : Nat]

Signature == [text : Texts, guessed : BOOLEAN, count : Nat]

TypeOK ==
  /\ what \in {"function", "event"} /\ directory \in Seq(Texts) /\ memory \in Seq(Page)
  /\ signatures \in Seq(Signature) /\ call \in Calls \cup {None}
  /\ results \in Seq(Texts) /\ page \in Nat /\ (call # None => page > 0)
  /\ failed \in BOOLEAN /\ stale \in BOOLEAN /\ base \in Nat /\ foreign \in BOOLEAN
  /\ Len(directory) <= MaxTexts

\* One process, one name: it is stored with the first guess.
NameStored == ~foreign =>
  /\ Len(signatures) <= 1
  /\ names \subseteq {signatures[i].text : i \in DOMAIN signatures}
  /\ call # None /\ what = "function" => signatures = <<>>

\* The entry of an age: the oldest has 1.  Entries never get another age.
Aged(dir, a) == dir[Len(dir) - a + 1]

AgeIn(dir, t) == CHOOSE a \in 1 .. Len(dir) : Aged(dir, a) = t

Different(dir) == \A i, j \in DOMAIN dir : dir[i] = dir[j] => i = j

\* A page as it was when the directory had its size.
PageGood(dir, m) ==
  LET before == (m.page - 1) * PageSize IN
  /\ m.size <= Len(dir) /\ (m.next <=> m.size > before + PageSize)
  /\ Len(m.results) = IF m.next THEN PageSize
                      ELSE IF m.size > before THEN m.size - before ELSE 0
  /\ \A i \in DOMAIN m.results : m.results[i] = Aged(dir, m.size - before - i + 1)

PagesGood ==
  /\ Different(directory)
  /\ \A k \in DOMAIN memory : PageGood(directory, memory[k])
  /\ \A k, l \in DOMAIN memory : k <= l => memory[k].size <= memory[l].size

\* Entries from one of age b to older ones without a gap.
Gapless(dir, list, b) ==
  /\ list # <<>> /\ ToSet(list) \subseteq ToSet(dir) /\ AgeIn(dir, list[1]) = b
  /\ \A i \in 1 .. Len(list) - 1 : AgeIn(dir, list[i + 1]) >= AgeIn(dir, list[i]) - 1

\* The size of the directory at the page before page p.
SizeBefore(dir, list, p) == AgeIn(dir, Last(list)) + (p - 1) * PageSize - 1

\* While no page failed and none was stale, the entries go from the newest of
\* the oldest page to older ones without a gap, and a page that is remembered
\* from before the last one used lies before it.
ResultsGood == call # None /\ ~failed /\ ~stale =>
  /\ page = 1 => results = <<>> /\ base = MaxTexts
  /\ page > 1 =>
       /\ Gapless(directory, results, base) /\ AgeIn(directory, Last(results)) > 1
       /\ base <= SizeBefore(directory, results, page)
       /\ SizeBefore(directory, results, page) <= Len(directory)
       /\ \A i \in DOMAIN memory : memory[i].size < SizeBefore(directory, results, page) =>
            \E j \in DOMAIN memory : j > i /\ memory[j].page < page

NamesInv == TypeOK /\ NameStored /\ PagesGood /\ ResultsGood
=============================================================================
