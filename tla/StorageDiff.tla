------------------------------ MODULE StorageDiff ------------------------------
(***************************************************************************)
(* The state diff of a transaction: the hashes that the trace convertor    *)
(* records, the diff that the node's replay reports, and the variables of  *)
(* the contract that ABIDiffsDecoder finds behind the changed cells.       *)
(*                                                                         *)
(* A storage key is the sequence Solidity computes it from: <<s>> is slot  *)
(* s, key \o <<k, p>> the p-th word after the hash of k and key (k is None *)
(* for the elements of an array at key).  A word is the set of its bytes   *)
(* that are not zero, each with its position.                              *)
(***************************************************************************)
EXTENDS Naturals, Sequences, SequencesExt

CONSTANTS
  Variables,   \* the storage layout: [label, slot, offset, type]
  TypeLevels,  \* the types of variables and of their parts, parts before wholes
  Cells,       \* the storage keys that may change
  MaxChanges,  \* bound: cells that change
  Changes,     \* pairs of words: what a cell held, and holds
  ShortHashes, \* the keys whose hash begins with a zero
  MaxFaults,   \* bound: SHA3 items that fail
  None

VARIABLES
  layout,    \* whether solc's storage layout of the contract was found
  life,      \* "lives", "born" or "died": the plain account of the diff
  change,    \* the changed cells of the contract, with their words
  faults,    \* SHA3 items that have failed
  asked,     \* the key the item before asked the hash of, None if it did not
  afterSHA,  \* TraceConvertor.afterSHA
  lastKey,   \* TraceConvertor.lastKey: the key whose hash was last asked for
  shainfo,   \* the recorded hashes: what they are hashes of
  phase,     \* "trace", "replay", "diff", "done", or "raised": an exception
  todo,      \* the cells decodeStorageDiff has not reached
  raw,       \* the cells shown as they are
  results    \* slot_offset_to_result

world == <<layout, life, change>>
trace == <<faults, asked, afterSHA, lastKey, shainfo>>
found == <<todo, raw, results>>
vars  == <<world, trace, phase, found>>

-----------------------------------------------------------------------------
(***************************************************************************)
(* Types, as solc's storage layout has them: "leaf", "array" (dims 0 if it *)
(* is dynamic), "map", "struct".                                           *)
(***************************************************************************)
Type(k, l, n)      == [kind |-> k, label |-> l, bytes |-> n, key |-> None, value |-> None,
                       members |-> {}, dims |-> 0]
Leaf(l, n)         == Type("leaf", l, n)
Map(k, v)          == [Type("map", "mapping", 32) EXCEPT !.key = k, !.value = v]
Struct(ms, n)      == [Type("struct", "struct", 32 * n) EXCEPT !.members = ms]
Array(l, n)        == [Type("array", l, IF n = 0 THEN 32 ELSE 32 * n) EXCEPT !.dims = n]
Member(l, s, o, t) == [label |-> l, slot |-> s, offset |-> o, type |-> t]

Parts(t) == CASE t.kind = "map"    -> {t.value}
              [] t.kind = "struct" -> {m.type : m \in t.members}
              [] OTHER             -> {}

Types == UNION ToSet(TypeLevels)

\* The words that a variable takes, or a member of a struct.
Words(m)       == (m.type.bytes + 31) \div 32
Spans(m, slot) == m.slot <= slot /\ slot < m.slot + Words(m)

\* Variables do not overlap; those that share a word are plain.
LaidOut(ms) == \A m \in ms :
  /\ m.slot \in Nat /\ m.offset \in Nat /\ m.type \in Types
  /\ m.type.kind = "struct" => m.offset = 0
  /\ \A n \in ms \ {m} : /\ m.slot < n.slot => m.slot + Words(m) <= n.slot
                         /\ m.slot = n.slot => /\ m.offset # n.offset
                                               /\ m.type.kind = "leaf" /\ n.type.kind = "leaf"

\* No type is a part of itself.  Slots are numbered from 0.
ASSUME LayoutAssumption ==
  /\ TypeLevels \in Seq(ToSet(TypeLevels))
  /\ \A n \in DOMAIN TypeLevels : \A t \in TypeLevels[n] :
       /\ t.kind \in {"leaf", "array", "map", "struct"} /\ t.bytes \in Nat \ {0}
       /\ t.kind = "map" => t.key # None /\ t.bytes <= 32
       /\ Parts(t) \subseteq UNION {TypeLevels[m] : m \in 1..(n - 1)}
       /\ t.kind = "struct" => LaidOut(t.members)
       /\ \A m, o \in t.members : m.label = o.label => m = o
       /\ None \notin {m.label : m \in t.members}
  /\ LaidOut(Variables) /\ \E v \in Variables : v.slot = 0
  /\ None \notin Nat \cup {<<0>>, "True"}

\* A struct in which nothing is behind a hash.
Ends(t) == t.kind = "struct" /\ \A p \in Parts(t) : p.kind = "leaf" \/ (p.kind = "array" /\ p.dims # 0)

\* A mapping in a struct is one of plain types, arrays or plain structs, and the
\* struct is not a part of another.
SimpleStructs == \A t \in Types : t.kind = "struct" => \A part \in Parts(t) :
  /\ part.kind = "map" => part.value.kind \in {"leaf", "array"} \/ Ends(part.value)
  /\ part.kind = "struct" => \A p \in Parts(part) : p.kind # "map"

ASSUME WordsAssumption ==
  \A words \in Changes : \A b \in words.original \cup words.dirty : b[1] \in Nat

\* A key is a slot, then pairs of a mapping's key and a number of words.
ASSUME CellsAssumption == \A c \in Cells :
  /\ c \in Seq(ToSet(c)) /\ Len(c) % 2 = 1
  /\ \A i \in DOMAIN c : i % 2 = 1 => c[i] \in Nat

\* Contract.findType: what has neither a value nor members is a plain type of
\* its size.
findType(t) == IF t.kind \in {"map", "struct"} THEN t ELSE Leaf(t.label, t.bytes)

\* Contract.load_storage: the variables by the slot they begin in.
load_storage == [s \in {v.slot : v \in Variables} |-> {v \in Variables : v.slot = s}]

-----------------------------------------------------------------------------
(***************************************************************************)
(* Trace.  The hash a SHA3 item asks for is on top of the next item's      *)
(* stack.  When the SHA3 item fails, the next item is the caller's, and    *)
(* the zero its call has left is on top.                                   *)
(***************************************************************************)
Plus(key)    == key[Len(key)]
Inner(key)   == SubSeq(key, 1, Len(key) - 2)
MapKey(key)  == key[Len(key) - 1]
HashOf(key)  == [key EXCEPT ![Len(key)] = 0]
Zero         == <<0>>

\* The keys on the way from a variable's slot to a cell, and the hashes that
\* the cell's address is computed from.
Way(c)    == {SubSeq(c, 1, n) : n \in {m \in 1..Len(c) : m % 2 = 1}}
Hashes(c) == {HashOf(key) : key \in {k \in Way(c) : Len(k) > 1}}

Needed == UNION {Hashes(c) : c \in DOMAIN change}

\* Mutant of handleSHA: afterSHA is never reset.
HandleSHASticky(top, asks) ==
  /\ shainfo' = IF afterSHA THEN [h \in {top} \cup DOMAIN shainfo |->
                                    IF h = top THEN lastKey ELSE shainfo[h]]
                ELSE shainfo
  /\ afterSHA' = (afterSHA \/ asks # None)
  /\ lastKey' = IF asks # None THEN asks ELSE lastKey

\* handleSHA of an item: record the hash asked for before, and note a new one.
handleSHA(top, asks) ==
  /\ shainfo' = IF afterSHA THEN [h \in {top} \cup DOMAIN shainfo |->
                                    IF h = top THEN lastKey ELSE shainfo[h]]
                ELSE shainfo
  /\ afterSHA' = (asks # None)
  /\ lastKey' = IF asks # None THEN asks ELSE lastKey

\* An item of the trace.  Its stack's top is the hash that the item before has
\* computed, or zero if that one failed; of other words zero stands for any.
TraceItem ==
  /\ phase = "trace"
  /\ \E failed \in BOOLEAN, asks \in {None} \cup (Needed \ DOMAIN shainfo) :
       /\ failed => asked # None /\ faults < MaxFaults
       /\ asked = None => asks # None \/ afterSHA
       /\ faults' = faults + (IF failed THEN 1 ELSE 0)
       /\ asked' = asks
       /\ handleSHA(IF asked # None /\ ~failed THEN asked ELSE Zero, asks)
  /\ UNCHANGED <<world, phase, found>>

\* The trace ends.  The hashes that a changed cell needs and that no item has
\* computed are constants of the program.
EndTrace ==
  /\ phase = "trace" /\ asked = None
  /\ phase' = "replay"
  /\ UNCHANGED <<world, trace, found>>

-----------------------------------------------------------------------------
(***************************************************************************)
(* Replay.  Of an account that lives the node reports changes from one     *)
(* value to another; of one born or dead one value only, which             *)
(* _create_statediff_from_replay cannot read.                              *)
(***************************************************************************)
\* Mutant of ParseReplay: an account that is born is read as unchanged.
ParseReplayLenient ==
  /\ phase = "replay"
  /\ IF life # "died" THEN phase' = "diff" /\ todo' = DOMAIN change
     ELSE phase' = "raised" /\ UNCHANGED todo
  /\ UNCHANGED <<world, trace, raw, results>>

ParseReplay ==
  /\ phase = "replay"
  /\ IF life = "lives" THEN phase' = "diff" /\ todo' = DOMAIN change
     ELSE phase' = "raised" /\ UNCHANGED todo
  /\ UNCHANGED <<world, trace, raw, results>>

-----------------------------------------------------------------------------
(***************************************************************************)
(* decodeDiff: the slot of the variable, then the keys that lead from it   *)
(* to the cell, each with the words counted from its hash.                 *)
(***************************************************************************)
Unresolved == [key |-> None, plus |-> None]

\* Mutant of Shifts: words after a hash are not looked for.
ShiftsNone == {}

Shifts == 1..19

\* The recorded hash a key lies 1 to 19 words after, as hex() writes it:
\* without the zeros it begins with.
Before(key) == IF Len(key) > 1 /\ Plus(key) \in Shifts /\ HashOf(key) \notin ShortHashes
                  /\ HashOf(key) \in DOMAIN shainfo
               THEN HashOf(key) ELSE None

decodeDiff(c) ==
  LET decode[key \in Way(c)] ==
    IF Len(key) = 1 /\ key[1] \in DOMAIN load_storage THEN <<[key |-> None, plus |-> key[1]]>>
    ELSE IF key \in DOMAIN shainfo THEN
      Append(decode[Inner(shainfo[key])], [key |-> MapKey(shainfo[key]), plus |-> 0])
    ELSE IF Before(key) # None THEN
      LET h == shainfo[Before(key)] IN
      Append(decode[Inner(h)], [key |-> MapKey(h), plus |-> Plus(key)])
    ELSE <<Unresolved>>
  IN decode[c]

-----------------------------------------------------------------------------
(***************************************************************************)
(* recursiveGenStateDiffResult: what two words show of a variable, entry   *)
(* by entry: a path of map keys and member names, and the values before    *)
(* and after.  An entry without a key stands for the exception it causes.  *)
(***************************************************************************)
\* get_num_by_offset_and_len
Field(word, offset, n) == {<<b[1] - offset, b[2]>> : b \in {x \in word : x[1] \in offset..(offset + n - 1)}}

\* handle_value: a boolean is the truth of a text, and every text is true; no
\* number can be read from the empty text; uint256 stands for the types of numbers.
Unreadable(label, v)   == v = None /\ label \in {"address", "enum", "uint256"}
handle_value(label, v) == IF label = "bool" THEN "True" ELSE v

Under(name, es)     == {[e EXCEPT !.path = <<name>> \o @] : e \in es}
At(t, pos, offset)  == [type |-> t, pos |-> pos, offset |-> offset]
Keyless             == [path |-> <<>>, keyless |-> TRUE, original |-> {}, dirty |-> {}]
Value(t, offset, word) == handle_value(t.label, Field(word, offset, t.bytes))

\* What is shown of a part, given what is of its parts: at pos on the path, or at
\* an offset of the word; members are looked for one step on.
ShownStep(x, shown, path, words) ==
  LET t == findType(x.type) IN
  CASE t.kind = "map" ->
         IF x.pos > Len(path) \/ Unreadable(t.key, path[x.pos].key) THEN {Keyless}
         ELSE Under(handle_value(t.key, path[x.pos].key),
                    shown[At(t.value, x.pos + 1, path[x.pos].plus)])
    [] t.kind = "struct" ->
         UNION {Under(m.label, shown[At(m.type, x.pos + 1, m.offset)]) :
                m \in {m \in t.members : m.slot = x.offset}}
    [] OTHER -> {[path |-> <<>>, keyless |-> FALSE, original |-> Value(t, x.offset, words.original),
                  dirty |-> Value(t, x.offset, words.dirty)]}

Shown(v, path, words) ==
  LET shown[x \in [type : Types, pos : Nat \ {0}, offset : Nat]] == ShownStep(x, shown, path, words)
  IN shown[At(v.type, 2, v.offset)]

-----------------------------------------------------------------------------
(***************************************************************************)
(* genStateDiffResult and mergeData.                                       *)
(***************************************************************************)
Name(v) == <<v.slot, v.offset>>

\* Mutant of Decoded: the words counted from a hash are lost.
DecodedAtHash(c, path) ==
  LET p == [i \in DOMAIN path |-> IF i = 1 THEN path[i] ELSE [path[i] EXCEPT !.plus = 0]] IN
  [v \in load_storage[path[1].plus] |-> [entries |-> Shown(v, p, change[c]), raw |-> c]]

\* What a cell that belongs to slot s shows of each variable that begins there.
Decoded(c, path) ==
  [v \in load_storage[path[1].plus] |-> [entries |-> Shown(v, path, change[c]), raw |-> c]]

\* Mutant of mergeData: what a variable shows already is replaced.
MergeReplaces(rs, name, r) == r

\* What is shown under a name once r is: the later values of a path are kept,
\* and the raw cell that came first.
mergeData(rs, name, r) ==
  IF name \notin DOMAIN rs THEN r
  ELSE [rs[name] EXCEPT !.entries = r.entries \cup {e \in @ : \A new \in r.entries : new.path # e.path}]

\* What a cell shows is merged variable by variable, if it has changed.
Merged(rs, d) ==
  LET shown == {v \in DOMAIN d : \E e \in d[v].entries : e.original # e.dirty}
      names == {Name(v) : v \in shown}
  IN [n \in DOMAIN rs \cup names |->
        IF n \in names THEN mergeData(rs, n, d[CHOOSE v \in shown : Name(v) = n]) ELSE rs[n]]

\* One pass of the loop of decodeStorageDiff.
DecodeEntry(c) ==
  /\ phase = "diff" /\ c \in todo
  /\ todo' = todo \ {c}
  /\ IF ~layout \/ decodeDiff(c)[1] = Unresolved
     THEN raw' = raw \cup {c} /\ UNCHANGED <<phase, results>>
     ELSE LET d == Decoded(c, decodeDiff(c)) IN
          IF \E v \in DOMAIN d : \E e \in d[v].entries : e.keyless
          THEN phase' = "raised" /\ UNCHANGED <<raw, results>>
          ELSE results' = Merged(results, d) /\ UNCHANGED <<phase, raw>>
  /\ UNCHANGED <<world, trace>>

EndDiff ==
  /\ phase = "diff" /\ todo = {}
  /\ phase' = "done"
  /\ UNCHANGED <<world, trace, found>>

Init ==
  /\ layout \in BOOLEAN
  /\ life \in {"lives", "born", "died"}
  /\ \E cs \in [1..MaxChanges -> Cells] : change \in [ToSet(cs) -> Changes]
  /\ faults = 0 /\ asked = None /\ afterSHA = FALSE /\ lastKey = Zero /\ shainfo = <<>>
  /\ phase = "trace" /\ todo = {} /\ raw = {} /\ results = <<>>

Next == TraceItem \/ EndTrace \/ ParseReplay \/ EndDiff \/ \E c \in Cells : DecodeEntry(c)

Spec == Init /\ [][Next]_vars

-----------------------------------------------------------------------------
(***************************************************************************)
(* The reference: where Solidity keeps the parts of a variable.  A place   *)
(* is a field of a cell, with the path that names it (boolean keys are not *)
(* told apart, nor the elements of an array).  It is inner if it is not in *)
(* the first word of the member or map value that it belongs to.           *)
(***************************************************************************)
Place(o, t) == [path |-> <<>>, offset |-> o, bytes |-> t.bytes, label |-> t.label,
                inner |-> FALSE, structMap |-> None]

Steps(c)     == (Len(c) + 1) \div 2
KeyAt(c, i)  == c[2 * i - 2]
PlusAt(c, i) == c[2 * i - 1]
In(t, offset, plus, pos) == [type |-> t, offset |-> offset, plus |-> plus, pos |-> pos]

AtEnd(x, c) == x.pos > Steps(c)

\* The array at x has an element in cell c, or its length.
ArrayAt(x, c) == IF x.type.dims # 0 THEN x.plus < x.type.dims /\ AtEnd(x, c)
                 ELSE x.plus = 0 /\ (AtEnd(x, c) \/ (x.pos = Steps(c) /\ KeyAt(c, x.pos) = None))

\* A place of member m of a struct, plus words after the struct begins.
InStruct(pl, m, plus) ==
  [pl EXCEPT !.inner = @ \/ plus > m.slot, !.structMap = IF m.type.kind = "map" THEN m.type.key ELSE @]

\* The places in cell c of a part, plus words before the one that step pos leads
\* on from; structMap is the type of key of a mapping in a struct.
PlaceStep(x, places, c) ==
  LET t == x.type IN
  CASE t.kind = "leaf" -> IF x.plus = 0 /\ AtEnd(x, c) THEN {Place(x.offset, t)} ELSE {}
    [] t.kind = "map" ->
         IF x.plus = 0 /\ ~AtEnd(x, c) /\ KeyAt(c, x.pos) # None
         THEN Under(handle_value(t.key, KeyAt(c, x.pos)),
                    places[In(t.value, 0, PlusAt(c, x.pos), x.pos + 1)])
         ELSE {}
    [] t.kind = "array" -> IF ArrayAt(x, c) THEN {[Place(x.offset, t) EXCEPT !.inner = x.plus > 0]} ELSE {}
    [] t.kind = "struct" ->
         UNION {{InStruct(pl, m, x.plus) :
                 pl \in Under(m.label, places[In(m.type, m.offset, x.plus - m.slot, x.pos)])} :
                m \in {m \in t.members : Spans(m, x.plus)}}

PlacesOf(v, c) ==
  LET places[x \in [type : Types, offset : Nat, plus : Nat, pos : Nat \ {0}]] == PlaceStep(x, places, c)
  IN IF Spans(v, c[1]) THEN places[In(v.type, v.offset, c[1] - v.slot, 2)] ELSE {}

\* A cell that changes is part of the variable that begins at its slot.
ASSUME PlacedAssumption == \A c \in Cells, v \in Variables : v.slot = c[1] => PlacesOf(v, c) # {}

Bytes(word, pl) == {<<b[1] - pl.offset, b[2]>> :
                    b \in {x \in word : x[1] >= pl.offset /\ x[1] < pl.offset + pl.bytes}}

\* Entry e shows what the words of a cell were and are at place pl.
Shows(e, words, pl) ==
  IF pl.label = "bool" THEN e.dirty = "True"
  ELSE e.original = Bytes(words.original, pl) /\ e.dirty = Bytes(words.dirty, pl)

Resolvable(c) ==
  /\ \E v \in Variables : v.slot = c[1]
  /\ \A key \in Way(c) : Len(key) > 1 =>
       /\ HashOf(key) \in DOMAIN shainfo /\ Plus(key) < 20
       /\ Plus(key) # 0 => HashOf(key) \notin ShortHashes

-----------------------------------------------------------------------------
(***************************************************************************)
(* Properties.                                                             *)
(***************************************************************************)

\* TraceConvertor.handleSHA: every recorded hash is recorded with what was
\* hashed, though it is read from the stack of another item, which may be in
\* another frame: only a SHA3 that fails leaves an entry, that of zero.
HashesTrue == \A h \in DOMAIN shainfo : shainfo[h] = h \/ (h = Zero /\ faults > 0)

\* Entry e of a variable is due to place pl: it shows what is there.  Inner words
\* are excepted: the later elements of a fixed array in a mapping are shown as the
\* array, shifted.  A mapping of arrays in a struct, if it is shown at all, loses
\* its key.
HasNone(p) == \E i \in 1..Len(p) : p[i] = None

Matches(e, pl, words) ==
  \/ pl.path = e.path /\ (pl.inner \/ Shows(e, words, pl))
  \/ pl.structMap # None /\ Len(e.path) = Len(pl.path) /\ (pl.path = e.path \/ HasNone(e.path))

\* decodeStorageDiff: whatever is shown of a variable, under whatever keys and
\* member names, is what one changed cell held and holds at that very place.
ShownRight == \A name \in DOMAIN results : \A e \in results[name].entries :
  \E v \in Variables, c \in DOMAIN change \ todo : \E pl \in PlacesOf(v, c) :
    Name(v) = name /\ Matches(e, pl, change[c])

\* Another decoded cell has a place of the same path: the elements and the
\* length of an array, the two keys of a boolean mapping.
Overwritten(v, c, pl) == \E d \in DOMAIN change \ {c} :
  \E other \in PlacesOf(v, d) : other.path = pl.path

\* A place is shown with its old and new value.  Not shown are what has not
\* changed, booleans, inner words, mappings in structs, and all but the last of
\* the places that share a path.
Accounted(v, c, pl) ==
  \/ Bytes(change[c].original, pl) = Bytes(change[c].dirty, pl)
  \/ pl.label = "bool" \/ pl.inner \/ pl.structMap # None \/ Overwritten(v, c, pl)
  \/ /\ Name(v) \in DOMAIN results
     /\ \E e \in results[Name(v)].entries : e.path = pl.path /\ Shows(e, change[c], pl)

\* decodeStorageDiff, merging included: when it is done, every changed field of
\* every changed cell is shown with its old and new value, or the whole cell is
\* shown raw, in whatever order the cells came.
NothingHidden == phase = "done" =>
  \A c \in DOMAIN change \ raw : \A v \in Variables : \A pl \in PlacesOf(v, c) : Accounted(v, c, pl)

\* decodeDiff: a cell is shown raw exactly when the layout is not known, or the
\* way to a variable's first slot is not: a hash that was not recorded, a word
\* more than 19 after one, or any word after a hash that begins with a zero.
\* What a failed SHA3 has left in shainfo makes no difference.
RawExact ==
  /\ \A c \in raw : layout => ~Resolvable(c)
  /\ phase = "done" => \A c \in DOMAIN change \ raw : layout /\ Resolvable(c)

\* A mapping in a struct whose key cannot be found, nor anything in its place.
Lost(c, pl) == pl.structMap # None /\ (KeyAt(c, Steps(c)) = None => Unreadable(pl.structMap, None))

LostCell(c) == layout /\ Resolvable(c) /\ \E v \in Variables : \E pl \in PlacesOf(v, c) : Lost(c, pl)

\* get_statediff and decode_diffs: the transaction cannot be decoded exactly if
\* an account was created or destroyed, or a changed cell belongs to a mapping
\* inside a struct, whose key recursiveGenStateDiffResult looks for one step
\* too far: it finds none, or an array's, which is empty and no number.
RaisedExactly ==
  /\ phase = "raised" => life # "lives" \/ \E c \in DOMAIN change : LostCell(c)
  /\ phase = "done" => life = "lives" /\ \A c \in DOMAIN change : ~LostCell(c)

-----------------------------------------------------------------------------
(***************************************************************************)
(* Inductive invariants: the properties hold because of these.             *)
(***************************************************************************)

\* What is to be recorded next is the hash that the item before asked for, and
\* only hashes are recorded: no word after one.
HashInv ==
  /\ DOMAIN change \subseteq Cells
  /\ faults \in Nat
  /\ afterSHA = (asked # None)
  /\ asked # None => lastKey = asked /\ Plus(asked) = 0
  /\ \A h \in DOMAIN shainfo : h # None /\ Plus(h) = 0
  /\ HashesTrue

\* No cell is shown raw before the hashes are complete; a cell that is neither
\* shown raw nor still to come has been resolved.
RawInv ==
  /\ HashInv
  /\ phase \in {"trace", "replay", "diff", "done", "raised"}
  /\ phase = "trace" => raw = {}
  /\ \A c \in raw : layout => ~Resolvable(c)
  /\ phase \in {"diff", "done"} => \A c \in DOMAIN change \ (raw \cup todo) : layout /\ Resolvable(c)
  /\ phase = "done" => todo = {}

\* Before the end: what is said of a cell when the diff is done holds as soon as
\* it has been decoded.
ShownInv ==
  /\ RawInv
  /\ todo \subseteq DOMAIN change /\ \A c \in DOMAIN change : change[c] \in Changes
  /\ \A n \in DOMAIN results : results[n] = [entries |-> results[n].entries, raw |-> results[n].raw]
  /\ phase \in {"trace", "replay"} => DOMAIN results = {}
  /\ ShownRight
  /\ phase = "raised" => life # "lives" \/ \E c \in DOMAIN change : LostCell(c)
  /\ phase \in {"diff", "done"} =>
       /\ life = "lives"
       /\ \A c \in DOMAIN change \ todo : ~LostCell(c)
       /\ \A c \in DOMAIN change \ (raw \cup todo), v \in Variables :
            \A pl \in PlacesOf(v, c) : Accounted(v, c, pl)
=============================================================================
