--------------------------------- MODULE Tokens ---------------------------------
(***************************************************************************)
(* What a decoded transaction says of a token: DecoderService.get_proxies, *)
(* the ABI decoders of events, calls and transfers, and the semantic       *)
(* decoders, in the order in which they read and rewrite the same event    *)
(* and call, over the semantics the repository keeps of the two contracts. *)
(*                                                                         *)
(* One transaction calls the token, which transfers once and emits the     *)
(* Transfer event, by its own code or by that of a delegate.  It is        *)
(* decoded again and again.                                                *)
(***************************************************************************)
EXTENDS Naturals

CONSTANTS
  Natures,     \* what tokens there are, see Nature
  Notes,       \* anonymous events a delegator's ABI may have just one of, see Note
  Decimals,    \* the decimals of a token that has any
  Placeholder, \* 18
  MaxDecodes,  \* bound: decodings of the transaction
  None

\* A token: indexed parameters of its Transfer event; whether its ABI has all
\* of ERC20_FUNCTIONS and ERC20_EVENTS, or of ERC721's; whether its byte code
\* has the fewer that guess_erc20_token looks for; whether it answers
\* decimals(), and name() and symbol() with strings rather than bytes32.
Nature == [indexed : Nat, abi : {"ERC20", "ERC721", "other"}, bytes : BOOLEAN,
           decimals : BOOLEAN, strings : BOOLEAN]

\* An anonymous event: its indexed parameters, which come first, and whether
\* its third parameter is a number.
Note == [indexed : {2, 4}, number : BOOLEAN]

ASSUME TokensAssumption ==
  /\ Natures \subseteq Nature
  /\ Notes \subseteq Note /\ \A n \in Notes : n.number => n.indexed = 2
  /\ Decimals \in Nat /\ Placeholder \in Nat \ {0, Decimals} /\ MaxDecodes \in Nat

Contracts == {"token", "delegate"}

VARIABLES
  world,     \* the chain, see Init
  verified,  \* the contracts Etherscan has an ABI of
  known,     \* the repository: the semantics of each contract, or None
  pattern,   \* what is_eip1969_proxy and its like have answered, or None
  stage,     \* where the decoding is, "idle" between two
  proxy,     \* proxies[token], None when it did not delegate
  label,     \* the name of the event's emitter
  parties,   \* the event's first two parameters: "right", "shifted", "unusable"
  amount,    \* its third, as shown so far
  argument,  \* the amount among the call's arguments, as shown so far
  transfer,  \* the decoded transfer
  first,     \* history: the outcome of the first decoding that had one
  decodes    \* history: decodings begun

result == <<label, parties, amount, argument, transfer>>
vars == <<world, verified, known, pattern, stage, proxy, result, first, decodes>>

\* An amount as it is shown: the number of the chain, undecoded hex digits,
\* scaled by a power of ten, by a transformation of the contract's own, as
\* the link to an NFT, or lost: 0 in a transfer, another parameter's text in an
\* event.
Amount(form, by) == [form |-> form, by |-> by]
Raw     == Amount("raw", 0)
Hex     == Amount("hex", 0)
Lost    == Amount("lost", 0)
Nft     == Amount("nft", 0)
Custom  == Amount("custom", 0)
Scaled(d) == Amount("scaled", d)

-----------------------------------------------------------------------------
(***************************************************************************)
(* SemanticsRepository: describing a contract when it is first met.        *)
(***************************************************************************)
\* Whether a contract's own ABI has the token's functions and events: a
\* delegator may declare them all, with or without code of its own for them.
Declares(a) == a = "delegate" \/ ~world.delegates \/ world.front # "bare"

\* Whether its byte code has them.
Bears(a) == world.nature.bytes /\ (a = "delegate" \/ ~world.delegates \/ world.front = "code")

\* name(), symbol() and decimals() called on a contract, all three or nothing:
\* a delegate answers from its own storage.
Asked(a, answered) ==
  IF ~answered THEN None
  ELSE IF a = "delegate" THEN world.bare
  ELSE IF world.nature.decimals /\ world.nature.strings THEN Decimals ELSE None

\* The semantics of a contract: whether Etherscan's ABI is in it, whether the
\* node answered, its standard and the decimals of its erc20 part.
Semantics(seen, answered, standard, erc20) ==
  [seen |-> seen, answered |-> answered, standard |-> standard, erc20 |-> erc20]

\* _decode_standard_semantics: get_erc20_token is cached, and the functions it
\* is given cannot be hashed, so every ERC20 token gets the placeholder.
Verified(a, answered) ==
  IF Declares(a) /\ world.nature.abi = "ERC20"
  THEN Semantics(TRUE, answered, "ERC20", Placeholder)
  ELSE Semantics(TRUE, answered,
                 IF Declares(a) /\ world.nature.abi = "ERC721" THEN "ERC721" ELSE None,
                 Asked(a, answered))

\* Mutant of Guessed: with get_erc20_token's fallback of 18.
GuessedDefault(a, answered) ==
  LET erc20 == IF ~Bears(a) THEN None
               ELSE IF Asked(a, answered) = None THEN Placeholder ELSE Asked(a, answered)
  IN Semantics(FALSE, answered, IF erc20 = None THEN None ELSE "ERC20", erc20)

\* guess_erc20_token: from the byte code, and if the three calls succeed.
Guessed(a, answered) ==
  LET erc20 == IF Bears(a) THEN Asked(a, answered) ELSE None
  IN Semantics(FALSE, answered, IF erc20 = None THEN None ELSE "ERC20", erc20)

\* Abandoning a decoding: the node did not answer get_code_hash.
Abandon ==
  /\ stage' = "idle" /\ UNCHANGED <<known, proxy, result, first, decodes>>

\* Mutant of Lacks: what has no ABI yet is described anew.
LacksABI(a) == known[a] = None \/ ~known[a].seen

Lacks(a) == known[a] = None

\* get_semantics of a contract in stage s.  Etherscan answers as if unverified
\* when it is, or when it limits its rate.
Describe(a, s, next) ==
  /\ stage = s
  /\ IF ~Lacks(a) THEN stage' = next /\ UNCHANGED <<known, proxy, result, first, decodes>>
     ELSE \/ \E seen, answered \in BOOLEAN :
               /\ seen => a \in verified
               /\ known' = [known EXCEPT ![a] = IF seen THEN Verified(a, answered)
                                                ELSE Guessed(a, answered)]
               /\ stage' = next /\ UNCHANGED <<proxy, result, first, decodes>>
          \/ Abandon
  /\ UNCHANGED <<world, verified, pattern>>

-----------------------------------------------------------------------------
(***************************************************************************)
(* DecoderService.get_proxies, for the one delegator.                      *)
(***************************************************************************)
DescribeToken == Describe("token", "begun", IF world.delegates THEN "pattern" ELSE "events")

\* The storage slot is read anew in every decoding, as the cache is keyed on the
\* connection; a failing read answers that it is not that kind of proxy.
DetectPattern ==
  /\ stage = "pattern" /\ stage' = "delegate"
  /\ pattern' \in {world.pattern, "GenericProxy"}
  /\ UNCHANGED <<world, verified, known, proxy, result, first, decodes>>

DescribeDelegate == Describe("delegate", "delegate", "proxies")

\* The Proxy of the delegator: its name, and the token it is or stands for.
ProxyNamed(p) ==
  [name  |-> IF known["token"].seen THEN "name" ELSE p,
   token |-> IF known["token"].erc20 # None THEN known["token"].erc20
             ELSE known["delegate"].erc20]

GetProxies ==
  /\ stage = "proxies" /\ stage' = "events"
  /\ proxy' = ProxyNamed(pattern)
  /\ UNCHANGED <<world, verified, known, pattern, result, first, decodes>>

-----------------------------------------------------------------------------
(***************************************************************************)
(* The ABI decoders.                                                       *)
(***************************************************************************)
\* decode_event's search, with a proxy p or with None: the contract's ABI, the
\* only anonymous event in it, the delegates' ABIs, the standard event with
\* that many indexed parameters.
EventAbi(p) ==
  IF known["token"].seen /\ Declares("token") THEN "own"
  ELSE IF known["token"].seen /\ world.note # None THEN "anonymous"
  ELSE IF p # None /\ known["delegate"].seen THEN "delegate"
  ELSE IF world.nature.indexed \in {2, 3} THEN "standard" ELSE None

\* get_address_label
Label(p) ==
  IF known["token"].erc20 # None THEN "symbol"
  ELSE IF p # None THEN p.name
  ELSE IF known["token"].seen THEN "name" ELSE "address"

\* Read by the anonymous event's parameters the topics are one off, and the
\* signature is the first of them.  There are nature.indexed + 1 topics and
\* 3 - nature.indexed words of data: with too few topics no parameter is left,
\* and without the data's there are less than three.
Parties(p) ==
  IF EventAbi(p) # "anonymous" THEN "right"
  ELSE IF world.note.indexed \in {world.nature.indexed, world.nature.indexed + 1} THEN "shifted"
  ELSE "unusable"

\* The third parameter: no number when it is LOG_CALL's bytes, or a topic.
AmountRead(p) ==
  IF EventAbi(p) = None THEN Hex
  ELSE IF EventAbi(p) = "anonymous" /\ ~world.note.number THEN Lost
  ELSE Raw

DecodeEvent ==
  /\ stage = "events" /\ stage' = "calls"
  /\ label' = Label(proxy) /\ parties' = Parties(proxy) /\ amount' = AmountRead(proxy)
  /\ UNCHANGED <<world, verified, known, pattern, proxy, argument, transfer, first, decodes>>

\* decode_call: a function that no ABI has may be guessed, see CallNames.
DecodeCall ==
  /\ stage = "calls" /\ stage' = "transfers"
  /\ argument' \in
       IF (known["token"].seen /\ Declares("token")) \/ known["token"].standard # None
          \/ (proxy # None /\ known["delegate"].seen)
       THEN {Raw} ELSE {Raw, Hex}
  /\ UNCHANGED <<world, verified, known, pattern, proxy, label, parties, amount, transfer,
                 first, decodes>>

\* get_token_data: the decimals, with the proxies or without them.
TokenDecimals(p) ==
  IF known["token"].erc20 # None THEN known["token"].erc20
  ELSE IF p # None /\ p.token # None THEN p.token ELSE Placeholder

Finish(outcome) == first' = IF first = None THEN outcome ELSE first

\* Mutant of IsFungible: a proxy's token by its data.
IsFungibleByToken(p) == known["token"].standard = "ERC20" \/ (p # None /\ p.token # None)

\* Every Transfer of a contract that delegated is taken for an ERC20's.
IsFungible(p) == known["token"].standard = "ERC20" \/ p # None

Transferred(p, shown) ==
  IF ~IsFungible(p) THEN Nft
  ELSE IF shown.form = "raw" THEN Scaled(TokenDecimals(p)) ELSE Lost

\* ABITransfersDecoder.decode: it fails, and with it the transaction, when it
\* cannot index the parameters or they are no addresses.
DecodeTransfers ==
  /\ stage = "transfers"
  /\ IF parties = "unusable"
     THEN stage' = "failed" /\ Finish([label |-> None, shown |-> "failed"]) /\ UNCHANGED transfer
     ELSE /\ stage' = "metadata"
          /\ transfer' = Transferred(proxy, amount)
          /\ UNCHANGED first
  /\ UNCHANGED <<world, verified, known, pattern, proxy, label, parties, amount, argument,
                 decodes>>

-----------------------------------------------------------------------------
(***************************************************************************)
(* The semantic decoders.                                                  *)
(***************************************************************************)
\* semantically_decode_parameter and evaluate_transformation: a transformation
\* computes with the value the parameter had before any; one that raises an
\* exception leaves it.
Transformed(value, original, by) ==
  IF original \in {Hex, Lost} /\ by # Nft THEN value ELSE by

\* The transformations of the parameter: the contract's own, then those of its
\* standard.
Decoded(value, standard, own) ==
  LET v == IF own THEN Transformed(value, value, Custom) ELSE value
  IN CASE standard = "ERC20"  -> Transformed(v, value, Scaled(TokenDecimals(None)))
       [] standard = "ERC721" -> Transformed(v, value, Nft)
       [] OTHER               -> v

\* Mutant of Standard: the standard is only that of the contract.
StandardOwn(p) == known["token"].standard

Standard(p) ==
  IF known["token"].standard = None /\ p # None /\ p.token # None THEN "ERC20"
  ELSE known["token"].standard

\* SemanticEventsDecoder.decode_event
Restated(p, shown) == Decoded(shown, Standard(p), world.custom /\ EventAbi(p) # "anonymous")

DecodeEventSemantics ==
  /\ stage = "metadata" /\ stage' = "semantic calls"
  /\ amount' = Restated(proxy, amount)
  /\ UNCHANGED <<world, verified, known, pattern, proxy, label, parties, argument, transfer,
                 first, decodes>>

\* SemanticCallsDecoder.decode, the last to change the transaction.
DecodeCallSemantics ==
  /\ stage = "semantic calls" /\ stage' = "done"
  /\ argument' = Decoded(argument, known["token"].standard, world.custom)
  /\ Finish([label |-> label, shown |-> <<parties, amount, transfer>>])
  /\ UNCHANGED <<world, verified, known, pattern, proxy, label, parties, amount, transfer,
                 decodes>>

-----------------------------------------------------------------------------
Begin ==
  /\ stage \in {"idle", "done", "failed"} /\ decodes < MaxDecodes
  /\ stage' = "begun" /\ decodes' = decodes + 1
  /\ proxy' = None /\ label' = None /\ parties' = None
  /\ amount' = None /\ argument' = None /\ transfer' = None /\ pattern' = None
  /\ UNCHANGED <<world, verified, known, first>>

\* The process ends in the middle of a decoding and is started again.
Restart ==
  /\ stage' = "idle"
  /\ UNCHANGED <<world, verified, known, pattern, proxy, result, first, decodes>>

\* A contract's source is published.
Publish(a) ==
  /\ a \notin verified /\ verified' = verified \cup {a}
  /\ UNCHANGED <<world, known, pattern, stage, proxy, result, first, decodes>>

Init ==
  /\ world \in [nature : Natures, delegates : BOOLEAN, front : {"bare", "abi", "code"},
                custom : BOOLEAN, note : Notes \cup {None}, bare : {0, Decimals, None},
                pattern : {"EIP1969Proxy", "EIP1969Beacon", "GenericProxy"}]
  /\ ~world.delegates => world.front = "bare" /\ world.bare = None /\ world.pattern = "GenericProxy"
  /\ ~world.delegates \/ world.front # "bare" => world.note = None
  /\ ~world.nature.decimals => world.bare = None
  /\ verified \in SUBSET Contracts
  /\ known = [a \in Contracts |-> None] /\ pattern = None
  /\ stage = "idle" /\ proxy = None /\ label = None /\ parties = None
  /\ amount = None /\ argument = None /\ transfer = None
  /\ first = None /\ decodes = 0

Next ==
  \/ Begin \/ DescribeToken \/ DetectPattern \/ DescribeDelegate \/ GetProxies
  \/ DecodeEvent \/ DecodeCall \/ DecodeTransfers
  \/ DecodeEventSemantics \/ DecodeCallSemantics
  \/ Restart
  \/ \E a \in Contracts : Publish(a)

Spec == Init /\ [][Next]_vars

-----------------------------------------------------------------------------
(***************************************************************************)
(* Properties.                                                             *)
(***************************************************************************)
token    == known["token"]
delegate == known["delegate"]
nature   == world.nature
Done     == stage = "done"

\* name(), symbol() and decimals() of contract a were asked and answered.
Answered(a) ==
  /\ known[a].answered
  /\ IF a = "delegate" THEN world.bare # None ELSE nature.decimals /\ nature.strings
  /\ IF known[a].seen THEN ~(Declares(a) /\ nature.abi = "ERC20") ELSE Bears(a)

\* The token's own ABI was found and is an ERC20's.
ByItsABI == token.seen /\ Declares("token") /\ nature.abi = "ERC20"

\* ABITransfersDecoder and _create_address_semantics: a Transfer is shown as an
\* amount, whether it is of a fungible token or of an NFT, exactly when its
\* contract delegated, its ABI was found and has all of ERC20's functions and
\* events, or no ABI was found, its byte code has those guess_erc20_token looks
\* for and its name, symbol and decimals were answered; otherwise as an NFT.
KindRight == Done =>
  (transfer # Nft <=> \/ world.delegates
                      \/ ByItsABI
                      \/ ~token.seen /\ Answered("token"))

ByDelegate == world.delegates /\ ~ByItsABI /\ Answered("delegate")

\* get_token_data in the transfers: the amount of a token is scaled by its own
\* decimals exactly when they were answered by the token itself, or, unless its
\* own ABI is an ERC20's, by a delegate whose own storage has them; it is lost
\* only where no ABI has the event, or an anonymous one without a number was
\* taken for it, and otherwise wrong by the placeholder or a delegate's zero.
AmountRight == Done /\ transfer # Nft =>
  /\ transfer = Lost <=> \/ EventAbi(proxy) = None
                         \/ EventAbi(proxy) = "anonymous" /\ ~world.note.number
  /\ transfer = Scaled(Decimals) <=>
       /\ transfer # Lost
       /\ \/ Answered("token")
          \/ ByDelegate /\ world.bare = Decimals
  /\ transfer \in {Lost, Scaled(Decimals), Scaled(Placeholder), Scaled(0)}
  /\ transfer = Scaled(0) => Decimals = 0 \/ (ByDelegate /\ world.bare = 0)

\* Transfers, semantic events and semantic calls, which take the kind and the
\* decimals from three places.  Of a delegator that has ERC721's ABI itself the
\* transfer shows an amount and the event an NFT.  Otherwise they show the same
\* amount when decimals are known of the token itself; with a delegate's only,
\* the event is scaled by the placeholder; with none anywhere the transfer is,
\* and the event is not scaled.  The call shows the transfer's amount exactly
\* when the token is an ERC20 itself: never through a proxy's delegate.
AmountsAgree == Done /\ transfer.form = "scaled" =>
  /\ argument = transfer <=> token.standard = "ERC20"
  /\ IF token.standard = "ERC721" THEN amount = Nft
     ELSE /\ token.erc20 # None => amount = transfer
          /\ token.erc20 = None /\ delegate.erc20 # None =>
               transfer = Scaled(delegate.erc20) /\ amount = Scaled(Placeholder)
          /\ token.erc20 = None /\ delegate.erc20 = None =>
               transfer = Scaled(Placeholder) /\ amount \in {Raw, Custom}

\* The whole pipeline over the repository: a transaction that is decoded again
\* shows the same, or fails again, whatever was published, whoever has recovered
\* in between and however often the process was restarted.  Only the name of a
\* proxy without a name or a symbol may change, between that of its pattern and
\* the general one, as a read of its storage fails.  The decoding fails for good
\* exactly when a delegator's ABI has one anonymous event, which does not fit.
SameAgain ==
  /\ Done => /\ first.shown = <<parties, amount, transfer>>
             /\ first.label # label =>
                  /\ world.delegates /\ ~token.seen /\ token.erc20 = None
                  /\ {first.label, label} = {world.pattern, "GenericProxy"}
  /\ stage = "failed" => first.shown = "failed" /\ token.seen /\ world.note # None

\* Does not hold, see the README. The comment at
\* decoders/semantic/events.py:134, "decode ERC20 events if transformations for
\* them are not defined": a contract's own transformation of the amount is kept.
CustomKept ==
  Done /\ world.custom /\ EventAbi(proxy) \in {"own", "delegate", "standard"} => amount = Custom

-----------------------------------------------------------------------------
(***************************************************************************)
(* The strengthenings that make the invariants above inductive.            *)
(***************************************************************************)
Sem == [seen : BOOLEAN, answered : BOOLEAN, standard : {"ERC20", "ERC721", None},
        erc20 : Nat \cup {None}]

Patterns == {"EIP1969Proxy", "EIP1969Beacon", "GenericProxy"}
Names    == Patterns \cup {"name"}

ASSUME NoneAssumption ==
  None \notin Nat \cup Sem \cup {"ERC20", "ERC721", "own", "anonymous", "delegate", "standard"}
            \cup Names \cup Note \cup [name : Names \cup {None}, token : Nat \cup {None}]

Worlds == [nature : Natures, delegates : BOOLEAN, front : {"bare", "abi", "code"},
           custom : BOOLEAN, note : Notes \cup {None}, bare : {0, Decimals, None},
           pattern : Patterns]

\* How far a decoding has got.
Proxied   == {"events", "calls", "transfers", "metadata", "semantic calls", "done", "failed"}
Read      == Proxied \ {"events"}
Booked    == {"metadata", "semantic calls", "done"}

WorldGood ==
  /\ world \in Worlds /\ (~world.delegates => world.note = None)
  /\ pattern \in {world.pattern, "GenericProxy", None}
  /\ stage \in Proxied \cup {"idle", "begun", "pattern", "delegate", "proxies"}

\* What is known of a contract was found in one of two ways, and stays.
KnownGood ==
  /\ known \in [Contracts -> Sem \cup {None}]
  /\ \A a \in Contracts : known[a] # None =>
       known[a] \in {Verified(a, b) : b \in BOOLEAN} \cup {Guessed(a, b) : b \in BOOLEAN}

\* All that a decoding asks the repository for is known.
AllKnown == token # None /\ (world.delegates => delegate # None)

Delegation(p) == IF world.delegates THEN ProxyNamed(p) ELSE None

StageGood ==
  /\ stage \in {"pattern", "delegate", "proxies"} => token # None /\ world.delegates
  /\ stage \in {"delegate", "proxies"} => pattern # None
  /\ stage \in Proxied \cup {"proxies"} => AllKnown
  /\ stage \in {"begun", "pattern", "delegate", "proxies"} => proxy = None
  /\ stage \in Proxied => proxy = Delegation(pattern) /\ (world.delegates => pattern # None)

\* What the stages passed have made of the event and the call.
ResultGood ==
  /\ stage \in Read => label = Label(proxy) /\ parties = Parties(proxy)
  /\ stage \in {"calls", "transfers", "metadata"} => amount = AmountRead(proxy)
  /\ stage \in {"semantic calls", "done"} => amount = Restated(proxy, AmountRead(proxy))
  /\ stage \in {"transfers", "metadata", "semantic calls"} =>
       argument \in {Raw, Hex} /\ (token.standard = "ERC20" => argument = Raw)
  /\ stage = "done" => \E a \in {Raw, Hex} :
       /\ argument = Decoded(a, token.standard, world.custom)
       /\ token.standard = "ERC20" => a = Raw
  /\ stage \in Booked => parties # "unusable" /\ transfer = Transferred(proxy, AmountRead(proxy))
  /\ stage = "failed" => parties = "unusable"

\* What a decoding shows, as soon as all is known.
Outcome(p) ==
  IF Parties(p) = "unusable" THEN "failed"
  ELSE <<Parties(p), Restated(p, AmountRead(p)), Transferred(p, AmountRead(p))>>

\* What a token may be called, by the way a proxy's storage is read.
Called(l) == \E q \in {world.pattern, "GenericProxy"} : l = Label(Delegation(q))

\* What was shown first is what is shown again, but for a proxy's name.
FirstGood == first # None \/ stage \in {"done", "failed"} =>
  /\ AllKnown /\ first.shown = Outcome(Delegation(None))
  /\ Parties(Delegation(None)) # "unusable" => Called(first.label)

TokensInv == WorldGood /\ KnownGood /\ StageGood /\ ResultGood /\ FirstGood
=============================================================================
