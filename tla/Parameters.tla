------------------------------- MODULE Parameters -------------------------------
(***************************************************************************)
(* The ABI decoder: from the JSON ABI of a contract to the semantics of    *)
(* its parameters, and from there to the values of a call or an event.     *)
(*                                                                         *)
(* Data is a sequence of 32 byte words and an offset is a number of words. *)
(* A parameter is [base, dims, components]: "uint[2][]" has the dimensions *)
(* <<2, 0>>, the last one outermost, 0 for "[]".  base "bytes" stands for  *)
(* bytes and string.  The encoder, Solidity's, is the reference.           *)
(***************************************************************************)
EXTENDS Integers, Sequences, SequencesExt, FiniteSetsExt

CONSTANTS
  Signatures,  \* the lists of parameters that are considered
  Lengths,     \* the lengths that dynamic values have
  WordRange,   \* 2^256
  MaxCount,    \* bound: tuples decoded of a list whose length is misread
  ErrorSelector, \* the word that begins the data of a known error
  None

VARIABLES
  stage,      \* how far the pipeline has come
  source,     \* "etherscan": by way of a JSON ABI; "text": from a signature text
  abi,        \* the parameters of the contract
  parsed,     \* after EtherscanContract._parse_abi
  semantics,  \* after decode_events_and_functions
  values,     \* what the call, or the event, was made with
  sent,       \* how it was made: input and output, or topics and data
  decoded     \* the decoded arguments

vars == <<stage, source, abi, parsed, semantics, values, sent, decoded>>

-----------------------------------------------------------------------------
(***************************************************************************)
(* Values, all of one shape so that they can be compared.                  *)
(***************************************************************************)
Value(t, w, vs) == [tag |-> t, word |-> w, items |-> vs]
WordValue(w)    == Value("word", w, <<>>)
BytesValue(ws)  == Value("bytes", 0, [i \in DOMAIN ws |-> WordValue(ws[i])])
ListValue(vs)   == Value("list", 0, vs)
Unknown(w)      == Value("unknown", w, <<>>)
Empty           == Value("empty", 0, <<>>)
Raised          == Value("raised", 0, <<>>)  \* an exception, which ends the decoding
ErrorName       == Value("__error", 0, <<>>)

RECURSIVE HasRaised(_)
HasRaised(v) == v.tag = "raised" \/ \E i \in DOMAIN v.items : HasRaised(v.items[i])

-----------------------------------------------------------------------------
(***************************************************************************)
(* The reference: Solidity's encoding.                                     *)
(***************************************************************************)
Element(p) == [p EXCEPT !.dims = Front(@)]

RECURSIVE Static(_)
Static(p) ==
  /\ \A i \in DOMAIN p.dims : p.dims[i] # 0
  /\ p.base # "bytes"
  /\ p.base = "tuple" => \A i \in DOMAIN p.components : Static(p.components[i])

RECURSIVE HeadSize(_)
HeadSize(p) ==
  IF ~Static(p) THEN 1
  ELSE IF p.dims # <<>> THEN Last(p.dims) * HeadSize(Element(p))
  ELSE IF p.base = "tuple"
       THEN FoldLeft(LAMBDA sum, c : sum + HeadSize(c), 0, p.components)
  ELSE 1

HeadsBefore(ps, i) == FoldLeft(LAMBDA sum, p : sum + HeadSize(p), 0, SubSeq(ps, 1, i - 1))

RECURSIVE Encode(_, _), EncodeList(_, _)
Encode(p, v) ==
  IF p.dims # <<>>
  THEN (IF Last(p.dims) = 0 THEN <<Len(v.items)>> ELSE <<>>)
         \o EncodeList([i \in DOMAIN v.items |-> Element(p)], v.items)
  ELSE CASE p.base = "tuple" -> EncodeList(p.components, v.items)
         [] p.base = "bytes" -> <<Len(v.items)>> \o [i \in DOMAIN v.items |-> v.items[i].word]
         [] OTHER            -> <<v.word % WordRange>>

\* Heads first: a static value, or the offset of a dynamic one in the tail.
EncodeList(ps, vs) ==
  LET heads == HeadsBefore(ps, Len(ps) + 1)
      step(acc, i) ==
        IF Static(ps[i])
        THEN [acc EXCEPT !.head = @ \o Encode(ps[i], vs[i])]
        ELSE [head |-> Append(acc.head, heads + Len(acc.tail)),
              tail |-> acc.tail \o Encode(ps[i], vs[i])]
      all == FoldLeftDomain(LAMBDA acc, i : step(acc, i), [head |-> <<>>, tail |-> <<>>], ps)
  IN all.head \o all.tail

-----------------------------------------------------------------------------
(***************************************************************************)
(* From the ABI to the semantics of the parameters.                        *)
(***************************************************************************)
Parameter(p, comps, flag) ==
  [base |-> p.base, dims |-> p.dims, components |-> comps, dynamic |-> flag]

\* _parse_components: dynamic are string, bytes, what ends in "[]" and a plain
\* tuple with a dynamic component.
RECURSIVE ParseComponents(_)
ParseComponents(ps) ==
  [i \in DOMAIN ps |->
     LET p == ps[i]
         subs == IF p.base = "tuple" THEN ParseComponents(p.components) ELSE <<>>
     IN Parameter(p, subs,
          \/ p.base = "bytes" /\ p.dims = <<>>
          \/ p.dims # <<>> /\ Last(p.dims) = 0
          \/ p.base = "tuple" /\ p.dims = <<>> /\ \E j \in DOMAIN subs : subs[j].dynamic)]

\* _decode_parameters_list: only the type "tuple" keeps its components.
RECURSIVE DecodeParametersList(_)
DecodeParametersList(ps) ==
  [i \in DOMAIN ps |->
     Parameter(ps[i],
       IF ps[i].base = "tuple" /\ ps[i].dims = <<>>
       THEN DecodeParametersList(ps[i].components) ELSE <<>>,
       ps[i].dynamic)]

\* _parse_text_signature_response and _prepare_parameter_semantics: of types
\* with a tuple only the components of the tuple are left; nested tuples and
\* more than one are not understood.  No parameter is marked dynamic.
Tuples(ps) == {i \in DOMAIN ps : ps[i].base = "tuple"}

Plain(ps) == [i \in DOMAIN ps |-> Parameter(ps[i], <<>>, FALSE)]

ParseText(ps) ==
  IF Tuples(ps) = {} THEN Plain(ps)
  ELSE LET one == ps[Min(Tuples(ps))].components IN
       IF Cardinality(Tuples(ps)) > 1 \/ Tuples(one) # {} THEN <<>>
       ELSE <<Parameter([base |-> "tuple", dims |-> <<>>], Plain(one), FALSE)>>

\* Mutant of ReadBack: arrays are stored by the type of their elements.
ReadElements(ps) == Plain([i \in DOMAIN ps |-> [ps[i] EXCEPT !.dims = <<>>]])

\* upsert_guessed_function_semantics, and decode_function_abi_with_repository
\* later on: names and types are kept, components are not.
ReadBack(ps) == Plain(ps)

-----------------------------------------------------------------------------
(***************************************************************************)
(* decode_struct and its helpers.                                          *)
(***************************************************************************)
NoWord == -1

From(data, k) == SubSeq(data, k + 1, Len(data))
WordAt(data, k) == IF k < Len(data) THEN data[k + 1] ELSE NoWord

\* An offset that points nowhere leaves no data.
Behind(data, w) == IF w > Len(data) THEN <<>> ELSE From(data, w)

\* decode_static_argument: int is signed, everything else shown as it is.
DecodeStaticArgument(w, base) ==
  IF w = NoWord THEN Empty
  ELSE IF base = "int" /\ w >= WordRange \div 2 THEN WordValue(w - WordRange)
  ELSE WordValue(w)

DecodeDynamicArgument(data) ==
  IF data = <<>> THEN Empty
  ELSE LET last == IF data[1] < Len(data) THEN data[1] + 1 ELSE Len(data)
       IN BytesValue(SubSeq(data, 2, last))

\* Mutant of DecodeDynamicArray: offsets are counted from the length.
ArrayFromLength(data, p) ==
  LET count == IF data = <<>> THEN 0 ELSE data[1]
      sub == From(data, 1)
  IN IF p.base = "bytes" /\ p.dims = <<>>
     THEN IF count > Len(sub) THEN Raised
          ELSE ListValue([i \in 1 .. count |-> DecodeDynamicArgument(Behind(data, sub[i]))])
     ELSE ListValue([i \in 1 .. (IF count < Len(sub) THEN count ELSE Len(sub)) |->
                       DecodeStaticArgument(sub[i], p.base)])

\* decode_dynamic_array: only bytes and string have offsets, counted from
\* behind the length; anything else is taken for words.
DecodeDynamicArray(data, p) ==
  LET count == IF data = <<>> THEN 0 ELSE data[1]
      sub == From(data, 1)
  IN IF p.base = "bytes" /\ p.dims = <<>>
     THEN IF count > Len(sub) THEN Raised
          ELSE ListValue([i \in 1 .. count |-> DecodeDynamicArgument(Behind(sub, sub[i]))])
     ELSE ListValue([i \in 1 .. (IF count < Len(sub) THEN count ELSE Len(sub)) |->
                       DecodeStaticArgument(sub[i], p.base)])

\* decode_array: the values and the slot after them.
RECURSIVE DecodeArray(_, _, _)
DecodeArray(data, p, slot) ==
  IF Last(p.dims) = 0
  THEN LET w == WordAt(data, slot)
       IN [value |-> DecodeDynamicArray(Behind(data, IF w = NoWord THEN 0 ELSE w), Element(p)),
           slot |-> slot + 1]
  ELSE LET step(acc, i) ==
             IF Element(p).dims # <<>>
             THEN LET sub == DecodeArray(data, Element(p), acc.slot)
                  IN [values |-> Append(acc.values, sub.value), slot |-> sub.slot]
             ELSE [values |-> Append(acc.values,
                                DecodeStaticArgument(WordAt(data, acc.slot), p.base)),
                   slot |-> acc.slot + 1]
           all == FoldLeft(step, [values |-> <<>>, slot |-> slot],
                           [i \in 1 .. Last(p.dims) |-> i])
       IN [value |-> ListValue(all.values), slot |-> all.slot]

\* Without semantics the slot never moves: the first word, again and again.
DecodeUnknown(data) ==
  [args |-> IF data = <<>> THEN <<>>
            ELSE [i \in 1 .. Len(data) + 1 |-> Unknown(data[1])],
   slots |-> 0]

RECURSIVE DecodeStruct(_, _), DecodeTuple(_, _, _)
\* The values of a tuple, or of a list of tuples, and the slots it took.
DecodeTuple(data, comps, isList) ==
  IF ~isList
  THEN LET one == DecodeStruct(data, comps)
       IN [value |-> ListValue(one.args), slots |-> one.slots]
  ELSE IF data = <<>> THEN [value |-> Raised, slots |-> 0]
  ELSE LET count == IF data[1] < MaxCount THEN data[1] ELSE MaxCount
           rest == From(data, 1)
           offsets == \E i \in DOMAIN comps : comps[i].dynamic
           at(c) == IF offsets THEN WordAt(rest, c - 1) ELSE 0
           one(c) == IF at(c) = NoWord THEN Raised
                     ELSE ListValue(DecodeStruct(Behind(rest, at(c)), comps).args)
       IN [value |-> ListValue([c \in 1 .. count |-> one(c)]), slots |-> 0]

DecodeStruct(data, ps) ==
  LET step(acc, i) ==
        LET p == ps[i]
            w == WordAt(data, acc.slot)
            offset == p.dynamic \/ \E j \in DOMAIN p.components : p.components[j].dynamic
            sub == IF offset THEN Behind(data, w) ELSE From(data, i - 1)
            tuple == DecodeTuple(sub, p.components, p.dims = <<0>>)
            array == DecodeArray(data, p, acc.slot)
        IN CASE p.base = "tuple" /\ offset /\ w = NoWord ->
                  [args |-> Append(acc.args, Raised), slot |-> acc.slot + 1]
             [] p.base = "tuple" /\ ~(offset /\ w = NoWord) ->
                  [args |-> Append(acc.args, tuple.value),
                   slot |-> acc.slot + (IF offset THEN 1 ELSE tuple.slots)]
             [] p.base # "tuple" /\ p.dims # <<>> ->
                  [args |-> Append(acc.args, array.value), slot |-> array.slot]
             [] p.base = "bytes" /\ p.dims = <<>> ->
                  [args |-> Append(acc.args,
                     DecodeDynamicArgument(Behind(data, IF w = NoWord THEN 0 ELSE w))),
                   slot |-> acc.slot + 1]
             [] OTHER ->
                  [args |-> Append(acc.args, DecodeStaticArgument(w, p.base)),
                   slot |-> acc.slot + 1]
      all == FoldLeftDomain(step, [args |-> <<>>, slot |-> 0], ps)
  IN IF ps = <<>> THEN DecodeUnknown(data) ELSE [args |-> all.args, slots |-> all.slot]

-----------------------------------------------------------------------------
(***************************************************************************)
(* Calls and events.                                                       *)
(***************************************************************************)
\* Raw parameters (of precompiles) are all of the data.
IsRaw(ps) == Len(ps) = 1 /\ ps[1].base = "raw"

\* semantics is None if the signature could not be understood.
DecodeInput(data, ps) ==
  IF ps = None THEN (IF data = <<>> THEN <<>> ELSE <<BytesValue(data)>>)
  ELSE IF IsRaw(ps) THEN <<BytesValue(data)>>
  ELSE DecodeStruct(data, ps).args

\* The parameters of an error in the ERRORS table.
ErrorParameters == <<Parameter([base |-> "uint", dims |-> <<>>], <<>>, FALSE)>>

\* Mutant of DecodeOutput: the status is not looked at.
DecodeOutputAlways(out, ps, status) ==
  IF out = <<>> THEN <<>>
  ELSE IF ps = None THEN <<BytesValue(out)>> ELSE DecodeStruct(out, ps).args

DecodeOutput(out, ps, status) ==
  IF ~status /\ out # <<>> /\ out[1] = ErrorSelector
  THEN <<ErrorName>> \o DecodeStruct(From(out, 1), ErrorParameters).args
  ELSE IF out = <<>> THEN <<>>
  ELSE IF ps = None THEN <<BytesValue(out)>>
  ELSE IF IsRaw(ps) THEN <<BytesValue(out)>>
  ELSE IF status THEN DecodeStruct(out, ps).args
  ELSE <<>>

Unindexed(ps, indexed) == [k \in 1 .. Len(ps) - Cardinality(indexed) |->
  ps[CHOOSE i \in DOMAIN ps \ indexed : Cardinality((1 .. i) \ indexed) = k]]

\* Mutant of DecodeEvent: indexed parameters first, as in the log.
DecodeEventLogOrder(topics, data, ps, indexed, anonymous) ==
  LET amended == IF anonymous THEN <<NoWord>> \o topics ELSE topics
      inData == IF data = <<>> THEN <<>> ELSE DecodeStruct(data, Unindexed(ps, indexed)).args
      kth(i) == Cardinality((1 .. i) \cap indexed)
  IN IF Cardinality(indexed) >= Len(amended) THEN <<>>
     ELSE [k \in 1 .. Cardinality(indexed) |->
             LET i == CHOOSE i \in indexed : kth(i) = k
             IN DecodeStaticArgument(amended[k + 1], ps[i].base)] \o inData

\* decode_event_parameters: topics and data in the order of the ABI; too few
\* topics give nothing.
DecodeEvent(topics, data, ps, indexed, anonymous) ==
  LET amended == IF anonymous THEN <<NoWord>> \o topics ELSE topics
      inData == IF data = <<>> THEN <<>> ELSE DecodeStruct(data, Unindexed(ps, indexed)).args
      at(i) == IF i \in indexed
               THEN <<DecodeStaticArgument(amended[Cardinality((1 .. i) \cap indexed) + 1],
                                           ps[i].base)>>
               ELSE LET k == Cardinality((1 .. i) \ indexed)
                    IN IF k <= Len(inData) THEN <<inData[k]>> ELSE <<>>
  IN IF Cardinality(indexed) >= Len(amended) THEN <<>>
     ELSE FoldLeftDomain(LAMBDA acc, i : acc \o at(i), <<>>, ps)

\* Without parameters in the ABI: the topics after the first, and every word.
DecodeBareEvent(topics, data, anonymous) ==
  LET amended == IF anonymous THEN <<NoWord>> \o topics ELSE topics
      all == Tail(amended) \o data
  IN [i \in DOMAIN all |-> Unknown(all[i])]

-----------------------------------------------------------------------------
(***************************************************************************)
(* The values of the example: every word is another one, and int is        *)
(* negative; dynamic values have length n.                                 *)
(***************************************************************************)
RECURSIVE Fill(_, _, _)
Fill(p, n, seed) ==
  IF p.dims # <<>>
  THEN ListValue([i \in 1 .. (IF Last(p.dims) = 0 THEN n ELSE Last(p.dims)) |->
                    Fill(Element(p), n, 5 * seed + i)])
  ELSE CASE p.base = "tuple" ->
              ListValue([i \in DOMAIN p.components |-> Fill(p.components[i], n, 5 * seed + i)])
         [] p.base \in {"bytes", "raw"} -> BytesValue([i \in 1 .. n |-> 5 * seed + i])
         [] p.base = "int" -> WordValue(-seed)
         [] OTHER -> WordValue(seed)

FillAll(ps, n) == [i \in DOMAIN ps |-> Fill(ps[i], n, 100 + i)]

Words(ps, vs) ==
  IF IsRaw(ps) THEN [i \in DOMAIN vs[1].items |-> vs[1].items[i].word]
  ELSE EncodeList(ps, vs)

-----------------------------------------------------------------------------
Init ==
  /\ stage = "abi" /\ abi \in Signatures
  /\ source \in {"etherscan", "text", "stored"}
  /\ parsed = None /\ semantics = None /\ values = <<>> /\ sent = None /\ decoded = None

Parse ==
  /\ stage = "abi" /\ source = "etherscan"
  /\ stage' = "parsed" /\ parsed' = ParseComponents(abi)
  /\ UNCHANGED <<source, abi, semantics, values, sent, decoded>>

Store ==
  /\ stage = "parsed"
  /\ stage' = "ready" /\ semantics' = DecodeParametersList(parsed)
  /\ UNCHANGED <<source, abi, parsed, values, sent, decoded>>

\* A guess: fresh from the signature text, or read back from the database.
Guess ==
  /\ stage = "abi" /\ source \in {"text", "stored"}
  /\ stage' = "ready"
  /\ LET guess == ParseText(abi) IN
       semantics' = IF guess = <<>> /\ abi # <<>> THEN None
                    ELSE IF source = "text" THEN guess ELSE ReadBack(guess)
  /\ UNCHANGED <<source, abi, parsed, values, sent, decoded>>

\* The data returned: values (or what else a failed call reverts with),
\* nothing, or, if the call failed, a known error.
MakeCall ==
  /\ stage = "ready"
  /\ stage' = "made"
  /\ \E n \in Lengths, status \in BOOLEAN :
       LET vs == FillAll(abi, n)
           ws == Words(abi, vs)
       IN /\ values' = vs
          /\ \E out \in {ws, <<>>} \cup (IF status THEN {} ELSE {<<ErrorSelector, 7>>}) :
               sent' = [kind |-> "call", data |-> ws, out |-> out, status |-> status]
  /\ UNCHANGED <<source, abi, parsed, semantics, decoded>>

\* The event has the indexed parameters it has; its ABI may be another
\* contract's, with other ones.
Indexable(ps) == {i \in DOMAIN ps : ps[i].base \in {"uint", "int"} /\ ps[i].dims = <<>>}

Emit ==
  /\ stage = "ready" /\ source = "etherscan" /\ ~IsRaw(abi)
  /\ stage' = "made"
  /\ \E n \in Lengths, anonymous \in BOOLEAN :
     \E real \in SUBSET Indexable(abi) : \E listed \in {real, {}, Indexable(abi)} :
       LET vs == FillAll(abi, n)
           topics == [k \in 1 .. Cardinality(real) |->
             vs[CHOOSE i \in real : Cardinality((1 .. i) \cap real) = k].word % WordRange]
       IN /\ values' = vs
          /\ sent' = [kind |-> "event", anonymous |-> anonymous, real |-> real, listed |-> listed,
                      topics |-> IF anonymous THEN topics ELSE <<0>> \o topics,
                      data |-> EncodeList(Unindexed(abi, real), Unindexed(vs, real))]
  /\ UNCHANGED <<source, abi, parsed, semantics, decoded>>

\* A guessed function has no outputs: every word of its output is unknown.
Outputs == IF source = "etherscan" \/ semantics = None THEN semantics ELSE <<>>

Results ==
  IF sent.kind = "call"
  THEN [input |-> DecodeInput(sent.data, semantics),
        output |-> DecodeOutput(sent.out, Outputs, sent.status)]
  ELSE [input |-> IF semantics = <<>>
                  THEN DecodeBareEvent(sent.topics, sent.data, sent.anonymous)
                  ELSE DecodeEvent(sent.topics, sent.data, semantics, sent.listed, sent.anonymous),
        output |-> <<>>]

Decode ==
  /\ stage = "made"
  /\ LET results == Results
         raises == HasRaised(ListValue(results.input \o results.output)) IN
       /\ stage' = IF raises THEN "raised" ELSE "decoded"
       /\ decoded' = IF raises THEN None ELSE results
  /\ UNCHANGED <<source, abi, parsed, semantics, values, sent>>

Next == Parse \/ Store \/ Guess \/ MakeCall \/ Emit \/ Decode

Spec == Init /\ [][Next]_vars

-----------------------------------------------------------------------------
(***************************************************************************)
(* Which arguments are read right.                                         *)
(***************************************************************************)
\* The parameters are read from an offset: s is the semantics of parameter p.
Offset(s) == s.dynamic \/ \E j \in DOMAIN s.components : s.components[j].dynamic

\* decode_struct takes as many slots of the head as the encoding has.
RECURSIVE InStep(_, _)
InStep(s, p) ==
  IF p.base = "tuple"
  THEN \/ Offset(s) /\ ~Static(p)
       \/ /\ ~Offset(s) /\ Static(p) /\ p.dims = <<>>
          /\ \A j \in DOMAIN p.components : InStep(s.components[j], p.components[j])
  ELSE Static(p) \/ p.dims = <<>> \/ Last(p.dims) = 0

\* A tuple without an offset is looked for at its index, not at its slot.
InPlace(ss, ps, i) ==
  /\ \A j \in 1 .. i - 1 : InStep(ss[j], ps[j])
  /\ ps[i].base = "tuple" /\ Static(ps[i]) => HeadsBefore(ps, i) = i - 1

\* The values of the parameter are understood, wherever it is.
RECURSIVE Understood(_, _)
Understood(s, p) ==
  IF p.base = "tuple"
  THEN /\ p.dims = <<>>
       /\ Offset(s) = ~Static(p)
       /\ \A j \in DOMAIN p.components :
            /\ Understood(s.components[j], p.components[j])
            /\ InPlace(s.components, p.components, j)
  ELSE p.dims \in {<<>>, <<0>>} \/ Static(p)

Clear(i) == Understood(semantics[i], abi[i]) /\ InPlace(semantics, abi, i)

\* The arguments of a call to a contract with a published ABI are the values it
\* was made with, as far as their types are understood and nothing before them
\* takes the decoder out of step; an exception means that one is not.
ArgumentsRight ==
  stage \in {"decoded", "raised"} /\ sent.kind = "call" /\ source = "etherscan" =>
    IF stage = "raised" THEN \E i \in DOMAIN abi : ~Clear(i)
    ELSE \A i \in DOMAIN abi : Clear(i) => decoded.input[i] = values[i]

\* What a call returned is shown with its values if it succeeded, and as the
\* known error if it failed with one; a failed call never shows values.
OutputsRight ==
  stage = "decoded" /\ sent.kind = "call" /\ source = "etherscan" /\ sent.out # <<>> =>
    LET error == ~sent.status /\ sent.out[1] = ErrorSelector
        right == sent.status /\ sent.out = sent.data
    IN /\ error => decoded.output = <<ErrorName, WordValue(7)>>
       /\ right => \A i \in DOMAIN abi : Clear(i) => decoded.output[i] = values[i]
       /\ ~sent.status /\ ~error /\ ~IsRaw(abi) => decoded.output = <<>>

\* The parameters of an event are what it was emitted with, in the order of the
\* ABI, when the ABI has its indexed parameters; an ABI with more indexed
\* parameters than the event has topics gives no parameters at all.
EventsRight ==
  stage = "decoded" /\ sent.kind = "event" /\ abi # <<>> =>
    LET clear == \A i \in DOMAIN abi :
          i \notin sent.real => LET k == Cardinality((1 .. i) \ sent.real) IN
            /\ Understood(semantics[i], abi[i])
            /\ InPlace(Unindexed(semantics, sent.real), Unindexed(abi, sent.real), k)
    IN /\ sent.listed = sent.real /\ clear => decoded.input = values
       /\ Cardinality(sent.listed) > Cardinality(sent.real) => decoded.input = <<>>

\* A guessed function without tuples is read right, from its signature text
\* and from the database later on.
GuessesRight ==
  stage = "decoded" /\ sent.kind = "call" /\ source # "etherscan"
    /\ ~IsRaw(abi)
    /\ (\A i \in DOMAIN abi :
          abi[i].base # "tuple" /\ (abi[i].dims \in {<<>>, <<0>>} \/ Static(abi[i]))) =>
    decoded.input = values

\* Does not hold, see the README. The comment at parameters.py:338, "helper
\* function to decode ABI 2.0 structs": arguments that are words and structs of
\* words are what the call was made with.
StructsDecoded ==
  stage = "decoded" /\ sent.kind = "call" /\ source = "etherscan"
    /\ (\A i \in DOMAIN abi : Static(abi[i]) /\ (abi[i].base = "tuple" => abi[i].dims = <<>>)) =>
    decoded.input = values
=============================================================================
