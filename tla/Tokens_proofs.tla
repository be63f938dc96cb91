------------------------------ MODULE Tokens_proofs ------------------------------
(***************************************************************************)
(* Proofs about what a decoded transaction says of a token, for any token, *)
(* any decimals, any order in which contracts are published, the node and  *)
(* Etherscan answer, and the process is restarted.                         *)
(***************************************************************************)
EXTENDS Tokens, TLAPS

-----------------------------------------------------------------------------
(***************************************************************************)
(* What is known of a contract.                                            *)
(***************************************************************************)
LEMMA Found ==
  ASSUME WorldGood, NEW a \in Contracts, NEW b \in BOOLEAN
  PROVE  Verified(a, b) \in Sem /\ Guessed(a, b) \in Sem
<1>1. /\ world.nature \in Nature /\ world.bare \in Nat \cup {None}
      /\ Decimals \in Nat /\ Placeholder \in Nat
  BY TokensAssumption DEF WorldGood, Worlds
<1>2. Asked(a, b) \in Nat \cup {None}
  BY <1>1 DEF Asked
<1> QED
  BY <1>1, <1>2 DEF Verified, Guessed, Semantics, Sem

LEMMA RecordsKnown ==
  /\ \A s \in Sem : s # None
  /\ \A s \in [name : Names \cup {None}, token : Nat \cup {None}] : s # None
  /\ "ERC20" # None /\ "ERC721" # None /\ "own" # None /\ "anonymous" # None
  /\ "delegate" # None /\ "standard" # None
  /\ \A n \in Nat : n # None
BY NoneAssumption

\* A proxy of any name is a proxy.
LEMMA Proxies ==
  ASSUME KnownGood, AllKnown, NEW p \in Patterns \cup {None}
  PROVE  /\ Delegation(p) = None <=> ~world.delegates
         /\ world.delegates => Delegation(p) = ProxyNamed(p)
<1>1. ASSUME world.delegates PROVE ProxyNamed(p) \in [name : Names \cup {None}, token : Nat \cup {None}]
  <2>1. known["token"] \in Sem /\ known["delegate"] \in Sem
    BY <1>1 DEF KnownGood, AllKnown, token, delegate, Contracts
  <2> QED
    BY <2>1 DEF ProxyNamed, Sem, Names
<1> QED
  BY <1>1, RecordsKnown DEF Delegation

\* What is shown does not depend on a proxy's name.
LEMMA Nameless ==
  ASSUME KnownGood, AllKnown, NEW p \in Patterns \cup {None}, NEW q \in Patterns \cup {None}
  PROVE  /\ Outcome(Delegation(p)) = Outcome(Delegation(q))
         /\ Parties(Delegation(p)) = Parties(Delegation(q))
         /\ (~world.delegates \/ token.seen \/ token.erc20 # None) =>
              Label(Delegation(p)) = Label(Delegation(q))
<1>1. CASE ~world.delegates
  <2>1. Delegation(p) = Delegation(q)
    BY <1>1 DEF Delegation
  <2> QED
    BY <2>1
<1>2. CASE world.delegates
  <2>1. PICK d : d = Delegation(p)
    OBVIOUS
  <2>2. PICK e : e = Delegation(q)
    OBVIOUS
  <2>3. d # None /\ e # None /\ d.token = e.token
    BY <1>2, <2>1, <2>2, Proxies DEF ProxyNamed
  <2>4. EventAbi(d) = EventAbi(e) /\ TokenDecimals(d) = TokenDecimals(e)
        /\ (IsFungible(d) <=> IsFungible(e)) /\ Standard(d) = Standard(e)
    BY <2>3 DEF EventAbi, TokenDecimals, IsFungible, Standard
  <2>5. Parties(d) = Parties(e) /\ AmountRead(d) = AmountRead(e)
    BY <2>4 DEF Parties, AmountRead
  <2>6. Restated(d, AmountRead(d)) = Restated(e, AmountRead(e))
    BY <2>4, <2>5 DEF Restated
  <2>7. Transferred(d, AmountRead(d)) = Transferred(e, AmountRead(e))
    BY <2>4, <2>5 DEF Transferred
  <2>8. Outcome(d) = Outcome(e)
    BY <2>5, <2>6, <2>7 DEF Outcome
  <2>9. (token.seen \/ token.erc20 # None) => Label(d) = Label(e)
    <3>1. token.seen => d.name = e.name
      BY <1>2, <2>1, <2>2, Proxies DEF ProxyNamed, token
    <3> QED
      BY <2>3, <3>1 DEF Label, token
  <2> QED
    BY <1>2, <2>1, <2>2, <2>5, <2>8, <2>9
<1> QED
  BY <1>1, <1>2

-----------------------------------------------------------------------------
(***************************************************************************)
(* What the steps leave as it is.                                          *)
(***************************************************************************)
LEMMA SameKnown ==
  ASSUME world' = world, known' = known
  PROVE  /\ \A p : /\ Delegation(p)' = Delegation(p) /\ ProxyNamed(p)' = ProxyNamed(p)
                   /\ Label(p)' = Label(p) /\ Parties(p)' = Parties(p)
                   /\ AmountRead(p)' = AmountRead(p)
                   /\ Outcome(p)' = Outcome(p)
         /\ \A p, a : Restated(p, a)' = Restated(p, a) /\ Transferred(p, a)' = Transferred(p, a)
         /\ \A a, s, o : Decoded(a, s, o)' = Decoded(a, s, o)
         /\ AllKnown' <=> AllKnown
         /\ token' = token /\ delegate' = delegate
         /\ KnownGood => KnownGood'
<1>1. \A p : EventAbi(p)' = EventAbi(p) /\ TokenDecimals(p)' = TokenDecimals(p)
             /\ (IsFungible(p)' <=> IsFungible(p)) /\ Standard(p)' = Standard(p)
  BY DEF EventAbi, Declares, TokenDecimals, IsFungible, Standard
<1>2. \A p : Label(p)' = Label(p) /\ ProxyNamed(p)' = ProxyNamed(p)
             /\ Delegation(p)' = Delegation(p)
  BY DEF Label, ProxyNamed, Delegation
<1>3. \A p : Parties(p)' = Parties(p) /\ AmountRead(p)' = AmountRead(p)
  BY <1>1 DEF Parties, AmountRead
<1>4. \A a, s, o : Decoded(a, s, o)' = Decoded(a, s, o)
  BY <1>1 DEF Decoded
<1>5. \A p, a : Restated(p, a)' = Restated(p, a) /\ Transferred(p, a)' = Transferred(p, a)
  BY <1>1, <1>4 DEF Restated, Transferred
<1>6. \A p : Outcome(p)' = Outcome(p)
  BY <1>3, <1>5 DEF Outcome
<1>7. (AllKnown' <=> AllKnown) /\ token' = token /\ delegate' = delegate
  BY DEF AllKnown, token, delegate
<1>8. KnownGood => KnownGood'
  <2>1. \A a, b : Declares(a)' = Declares(a) /\ Bears(a)' = Bears(a) /\ Asked(a, b)' = Asked(a, b)
    BY DEF Declares, Bears, Asked
  <2>2. \A a, b : Verified(a, b)' = Verified(a, b) /\ Guessed(a, b)' = Guessed(a, b)
    BY <2>1 DEF Verified, Guessed
  <2> QED
    BY <2>2 DEF KnownGood
<1> QED
  BY <1>2, <1>3, <1>4, <1>5, <1>6, <1>7, <1>8


LEMMA Now ==
  ASSUME world' = world, known' = known, NEW p, proxy' = p
  PROVE  /\ Label(proxy)' = Label(p) /\ Parties(proxy)' = Parties(p)
         /\ AmountRead(proxy)' = AmountRead(p)
         /\ Restated(proxy, AmountRead(proxy))' = Restated(p, AmountRead(p))
         /\ Transferred(proxy, AmountRead(proxy))' = Transferred(p, AmountRead(p))
<1>1. Label(proxy)' = Label(p)' /\ Parties(proxy)' = Parties(p)'
      /\ AmountRead(proxy)' = AmountRead(p)'
  BY DEF Label, Parties, AmountRead, EventAbi
<1>2. Restated(proxy, AmountRead(proxy))' = Restated(p, AmountRead(p))'
  BY DEF Restated, AmountRead, EventAbi, Declares, Standard
<1>3. Transferred(proxy, AmountRead(proxy))' = Transferred(p, AmountRead(p))'
  BY DEF Transferred, AmountRead, EventAbi, Declares, IsFungible, TokenDecimals
<1>4. Restated(p, AmountRead(p))' = Restated(p, AmountRead(p))
  BY DEF Restated, AmountRead, EventAbi, Declares, Standard, Decoded, TokenDecimals
<1>5. Transferred(p, AmountRead(p))' = Transferred(p, AmountRead(p))
  BY DEF Transferred, AmountRead, EventAbi, Declares, IsFungible, TokenDecimals
<1> QED
  BY <1>1, <1>2, <1>3, <1>4, <1>5, SameKnown

LEMMA NowDelegated ==
  ASSUME world' = world, known' = known, NEW p, pattern' = p
  PROVE  Delegation(pattern)' = Delegation(p)
BY DEF Delegation, ProxyNamed

LEMMA ShownKept ==
  ASSUME world' = world, known' = known
  PROVE  /\ Outcome(Delegation(None))' = Outcome(Delegation(None))
         /\ Parties(Delegation(None))' = Parties(Delegation(None))
         /\ \A l : Called(l)' <=> Called(l)
<1>1. PICK e : e = Delegation(None)
  OBVIOUS
<1>2. Delegation(None)' = e
  BY <1>1, SameKnown
<1>3. Outcome(e)' = Outcome(e) /\ Parties(e)' = Parties(e)
  BY SameKnown
<1>4. Parties(Delegation(None))' = Parties(e)'
  BY <1>2 DEF Parties, EventAbi, Declares
<1>5. Outcome(Delegation(None))' = Outcome(e)'
  BY <1>2 DEF Outcome, Parties, EventAbi, Declares, AmountRead, Restated, Standard, Transferred,
     IsFungible, TokenDecimals
<1>6. \A q : Label(Delegation(q))' = Label(Delegation(q))
  BY DEF Label, Delegation, ProxyNamed
<1>7. \A l : Called(l)' <=> Called(l)
  BY <1>6 DEF Called
<1> QED
  BY <1>1, <1>3, <1>4, <1>5, <1>7

-----------------------------------------------------------------------------
(***************************************************************************)
(* The steps.                                                              *)
(***************************************************************************)
\* What was shown first is kept by every step that does not end a decoding.
LEMMA FirstKept ==
  ASSUME TokensInv, world' = world, known' = known, first' = first,
         stage' \notin {"done", "failed"} \/ stage' = stage
  PROVE  FirstGood'
<1>1. (AllKnown' <=> AllKnown)
      /\ Outcome(Delegation(None))' = Outcome(Delegation(None))
      /\ Parties(Delegation(None))' = Parties(Delegation(None))
      /\ \A l : Called(l)' <=> Called(l)
  BY SameKnown, ShownKept
<1>2. first # None \/ stage \in {"done", "failed"} =>
        /\ AllKnown /\ first.shown = Outcome(Delegation(None))
        /\ Parties(Delegation(None)) # "unusable" => Called(first.label)
  BY DEF TokensInv, FirstGood
<1>3. Called(first.label)' <=> Called(first.label)
  <2>1. PICK l : l = first.label
    OBVIOUS
  <2>2. first'.label = l
    BY <2>1
  <2>3. Called(first.label)' <=> Called(l)'
    BY <2>2 DEF Called
  <2> QED
    BY <1>1, <2>1, <2>3
<1> QED
  BY <1>1, <1>2, <1>3 DEF FirstGood

\* The results of the stages passed stand while nothing of them is changed.
LEMMA ResultKept ==
  ASSUME TokensInv, world' = world, known' = known, proxy' = proxy,
         UNCHANGED <<stage, result>>
  PROVE  ResultGood'
<1>1. PICK p : p = proxy
  OBVIOUS
<1>2. /\ label' = label /\ parties' = parties /\ amount' = amount /\ argument' = argument
      /\ transfer' = transfer /\ stage' = stage
  BY DEF result
<1>3. /\ Label(proxy)' = Label(p) /\ Parties(proxy)' = Parties(p)
      /\ AmountRead(proxy)' = AmountRead(p)
      /\ Restated(proxy, AmountRead(proxy))' = Restated(p, AmountRead(p))
      /\ Transferred(proxy, AmountRead(proxy))' = Transferred(p, AmountRead(p))
  BY <1>1, Now
<1>4. token' = token
  BY SameKnown
<1>5. stage = "done" => (\E a \in {Raw, Hex} :
       /\ argument = Decoded(a, token.standard, world.custom)
       /\ token.standard = "ERC20" => a = Raw)'
  <2> SUFFICES ASSUME stage = "done" 
               PROVE  (\E a \in {Raw, Hex} :
                        /\ argument = Decoded(a, token.standard, world.custom)
                        /\ token.standard = "ERC20" => a = Raw)'
    OBVIOUS
  <2>1. PICK a \in {Raw, Hex} : /\ argument = Decoded(a, token.standard, world.custom)
                                /\ token.standard = "ERC20" => a = Raw
    BY DEF TokensInv, ResultGood
  <2>2. Decoded(a, token.standard, world.custom)' = Decoded(a, token.standard, world.custom)
    BY <1>4 DEF Decoded, TokenDecimals
  <2> QED
    BY <1>2, <1>4, <2>1, <2>2 DEF Raw, Hex, Amount
<1> QED
  BY <1>1, <1>2, <1>3, <1>4, <1>5 DEF TokensInv, ResultGood

LEMMA PublishStep ==
  ASSUME TokensInv,
         \/ UNCHANGED vars
         \/ \E a \in Contracts : Publish(a)
  PROVE  TokensInv'
<1>1. /\ world' = world /\ known' = known /\ pattern' = pattern /\ proxy' = proxy
      /\ stage' = stage /\ UNCHANGED result /\ first' = first
  BY DEF vars, Publish
<1>2. WorldGood' /\ KnownGood'
  BY <1>1, SameKnown DEF TokensInv, WorldGood
<1>3. PICK p : p = pattern
  OBVIOUS
<1>4. /\ (AllKnown' <=> AllKnown) /\ token' = token /\ delegate' = delegate
      /\ Delegation(pattern)' = Delegation(p)
  BY <1>1, <1>3, SameKnown, NowDelegated
<1>5. StageGood'
  BY <1>1, <1>3, <1>4 DEF TokensInv, StageGood
<1>6. ResultGood'
  BY <1>1, ResultKept
<1>7. FirstGood'
  BY <1>1, FirstKept
<1> QED
  BY <1>2, <1>5, <1>6, <1>7 DEF TokensInv

\* Between two decodings nothing of a result is kept.
LEMMA OutOfResults ==
  ASSUME stage' \notin Read PROVE ResultGood'
BY DEF ResultGood, Read, Proxied, Booked

LEMMA DescribeStep ==
  ASSUME TokensInv, NEW a \in Contracts, NEW s, NEW next, Describe(a, s, next),
         \/ a = "token" /\ s = "begun" /\ next = IF world.delegates THEN "pattern" ELSE "events"
         \/ a = "delegate" /\ s = "delegate" /\ next = "proxies"
  PROVE  TokensInv'
<1>1. /\ world' = world /\ pattern' = pattern /\ proxy' = proxy /\ first' = first
      /\ stage = s /\ stage' \in {next, "idle"}
  BY DEF Describe, Abandon
<1>2. stage' \in {"idle", "pattern", "events", "proxies"} /\ stage \in {"begun", "delegate"}
  BY <1>1
<1>3. KnownGood'
      /\ \/ known' = known /\ (stage' # "idle" => known[a] # None)
         \/ known[a] = None /\ known'[a] # None /\ stage' = next
            /\ \A b \in Contracts \ {a} : known'[b] = known[b]
  <2>1. CASE known' = known /\ (stage' # "idle" => known[a] # None)
    BY <1>1, <2>1, SameKnown DEF TokensInv
  <2>2. CASE ~(known' = known /\ (stage' # "idle" => known[a] # None))
    <3>1. PICK seen, answered \in BOOLEAN :
            /\ known' = [known EXCEPT ![a] = IF seen THEN Verified(a, answered)
                                             ELSE Guessed(a, answered)]
            /\ stage' = next
      BY <2>2 DEF Describe, Abandon, Lacks
    <3>2. known[a] = None
      BY <2>2 DEF Describe, Lacks, Abandon
    <3>3. PICK k \in Sem : k = IF seen THEN Verified(a, answered) ELSE Guessed(a, answered)
      BY Found DEF TokensInv
    <3>4. known' = [known EXCEPT ![a] = k] /\ k # None
      BY <3>1, <3>3, RecordsKnown
    <3>5. /\ known' \in [Contracts -> Sem \cup {None}] /\ known'[a] = k
          /\ \A b \in Contracts \ {a} : known'[b] = known[b]
      BY <3>4 DEF TokensInv, KnownGood
    <3>6. \A c \in Contracts, b \in BOOLEAN :
            Verified(c, b)' = Verified(c, b) /\ Guessed(c, b)' = Guessed(c, b)
      BY <1>1 DEF Verified, Guessed, Declares, Bears, Asked
    <3>7. ASSUME NEW c \in Contracts, known'[c] # None
          PROVE  known'[c] \in {Verified(c, b)' : b \in BOOLEAN} \cup {Guessed(c, b)' : b \in BOOLEAN}
      <4>1. CASE c = a
        BY <3>3, <3>5, <3>6, <4>1
      <4>2. CASE c # a
        <5>1. known[c] \in {Verified(c, b) : b \in BOOLEAN} \cup {Guessed(c, b) : b \in BOOLEAN}
          BY <3>5, <3>7, <4>2 DEF TokensInv, KnownGood
        <5> QED
          BY <3>5, <3>6, <4>2, <5>1
      <4> QED
        BY <4>1, <4>2
    <3>8. KnownGood'
      BY <3>5, <3>7 DEF KnownGood
    <3> QED
      BY <3>1, <3>2, <3>4, <3>5, <3>8
  <2> QED
    BY <2>1, <2>2
<1>4. WorldGood'
  BY <1>1, <1>2 DEF TokensInv, WorldGood, Proxied
<1>5. ResultGood'
  BY <1>2, OutOfResults DEF Read, Proxied
<1>6. proxy = None /\ (stage = "delegate" => world.delegates /\ token # None /\ pattern # None)
  BY <1>2 DEF TokensInv, StageGood
<1>7. StageGood'
  <2>1. known'[a] # None \/ stage' = "idle"
    BY <1>3
  <2>2. CASE stage' = "idle"
    BY <2>2 DEF StageGood, Proxied
  <2>3. CASE a = "token" /\ stage' # "idle"
    <3>1. /\ token' # None /\ stage = "begun"
          /\ stage' = IF world.delegates THEN "pattern" ELSE "events"
      BY <1>1, <2>1, <2>3 DEF token
    <3>2. ~world.delegates => Delegation(pattern)' = None
      BY <1>1 DEF Delegation
    <3> QED
      BY <1>1, <1>6, <3>1, <3>2 DEF StageGood, Proxied, AllKnown
  <2>4. CASE a = "delegate" /\ stage' # "idle"
    <3>1. stage' = "proxies" /\ delegate' # None /\ stage = "delegate"
      BY <1>1, <2>1, <2>4 DEF delegate
    <3>2. known'["token"] = known["token"]
      BY <1>3, <2>4 DEF Contracts
    <3>3. token' # None
      BY <1>6, <3>1, <3>2 DEF token
    <3> QED
      BY <1>1, <1>6, <3>1, <3>3 DEF StageGood, Proxied, AllKnown
  <2> QED
    BY <1>1, <2>2, <2>3, <2>4
<1>8. FirstGood'
  <2>1. CASE known' = known
    BY <1>1, <1>2, <2>1, FirstKept DEF TokensInv, WorldGood
  <2>2. CASE known[a] = None
    <3>1. ~AllKnown
      BY <1>1, <1>6, <2>2 DEF AllKnown, token, delegate
    <3>2. first = None
      BY <3>1 DEF TokensInv, FirstGood
    <3> QED
      BY <1>1, <1>2, <3>2 DEF FirstGood
  <2> QED
    BY <1>3, <2>1, <2>2
<1> QED
  BY <1>3, <1>4, <1>5, <1>7, <1>8 DEF TokensInv

LEMMA PatternStep == ASSUME TokensInv, DetectPattern PROVE TokensInv'
<1>1. /\ world' = world /\ known' = known /\ proxy' = proxy /\ first' = first
      /\ stage = "pattern" /\ stage' = "delegate"
      /\ pattern' \in {world.pattern, "GenericProxy"}
  BY DEF DetectPattern
<1>2. world.pattern \in Patterns
  BY DEF TokensInv, WorldGood, Worlds
<1>3. pattern' # None
  BY <1>1, <1>2, NoneAssumption DEF Names, Patterns
<1>4. WorldGood' /\ KnownGood'
  BY <1>1, <1>2, SameKnown DEF TokensInv, WorldGood
<1>5. StageGood'
  BY <1>1, <1>3, SameKnown DEF TokensInv, StageGood, Proxied
<1>6. ResultGood'
  BY <1>1, OutOfResults DEF Read, Proxied
<1>7. FirstGood'
  BY <1>1, <1>2, FirstKept
<1> QED
  BY <1>4, <1>5, <1>6, <1>7 DEF TokensInv

LEMMA ProxiesStep == ASSUME TokensInv, GetProxies PROVE TokensInv'
<1>1. /\ world' = world /\ known' = known /\ first' = first /\ pattern' = pattern
      /\ stage = "proxies" /\ stage' = "events"
      /\ proxy' = ProxyNamed(pattern)
  BY DEF GetProxies
<1>2. WorldGood' /\ KnownGood'
  BY <1>1, SameKnown DEF TokensInv, WorldGood, Proxied
<1>3. AllKnown /\ world.delegates /\ pattern # None
  BY <1>1 DEF TokensInv, StageGood
<1>4. PICK p : p = pattern
  OBVIOUS
<1>5. Delegation(pattern)' = Delegation(p) /\ (AllKnown' <=> AllKnown)
  BY <1>1, <1>4, NowDelegated, SameKnown
<1>6. proxy' = Delegation(p)
  BY <1>1, <1>3, <1>4 DEF Delegation
<1>7. StageGood'
  BY <1>1, <1>3, <1>5, <1>6 DEF StageGood, Proxied
<1>8. ResultGood'
  BY <1>1, OutOfResults DEF Read, Proxied
<1>9. FirstGood'
  BY <1>1, FirstKept DEF TokensInv, WorldGood
<1> QED
  BY <1>2, <1>7, <1>8, <1>9 DEF TokensInv

LEMMA BeginStep == ASSUME TokensInv, Begin PROVE TokensInv'
<1>1. /\ world' = world /\ known' = known /\ first' = first /\ pattern' = None
      /\ stage' = "begun" /\ proxy' = None
  BY DEF Begin
<1>2. WorldGood' /\ KnownGood'
  BY <1>1, SameKnown DEF TokensInv, WorldGood, Proxied
<1>3. StageGood'
  BY <1>1 DEF StageGood, Proxied
<1>4. ResultGood'
  BY <1>1, OutOfResults DEF Read, Proxied
<1>5. FirstGood'
  BY <1>1, FirstKept DEF TokensInv, WorldGood
<1> QED
  BY <1>2, <1>3, <1>4, <1>5 DEF TokensInv

LEMMA RestartStep == ASSUME TokensInv, Restart PROVE TokensInv'
<1>1. /\ world' = world /\ known' = known /\ first' = first /\ pattern' = pattern
      /\ stage' = "idle"
  BY DEF Restart
<1>2. WorldGood' /\ KnownGood'
  BY <1>1, SameKnown DEF TokensInv, WorldGood, Proxied
<1>3. StageGood'
  BY <1>1 DEF StageGood, Proxied
<1>4. ResultGood'
  BY <1>1, OutOfResults DEF Read, Proxied
<1>5. FirstGood'
  BY <1>1, FirstKept
<1> QED
  BY <1>2, <1>3, <1>4, <1>5 DEF TokensInv

\* From one stage after get_proxies to the next.
LEMMA StageOn ==
  ASSUME TokensInv, UNCHANGED <<world, known, pattern, proxy>>,
         stage \in Proxied, stage' \in Proxied
  PROVE  WorldGood' /\ KnownGood' /\ StageGood' /\ AllKnown /\ proxy = Delegation(pattern)
<1>1. WorldGood' /\ KnownGood'
  BY SameKnown DEF TokensInv, WorldGood
<1>2. AllKnown /\ proxy = Delegation(pattern) /\ (world.delegates => pattern # None)
  BY DEF TokensInv, StageGood
<1>3. PICK p : p = pattern
  OBVIOUS
<1>4. Delegation(pattern)' = Delegation(p) /\ (AllKnown' <=> AllKnown)
  BY <1>3, NowDelegated, SameKnown
<1>5. StageGood'
  BY <1>2, <1>3, <1>4 DEF StageGood, Proxied
<1> QED
  BY <1>1, <1>2, <1>5

LEMMA EventStep == ASSUME TokensInv, DecodeEvent PROVE TokensInv'
<1>1. /\ world' = world /\ known' = known /\ first' = first /\ pattern' = pattern
      /\ proxy' = proxy /\ stage = "events" /\ stage' = "calls"
      /\ label' = Label(proxy) /\ parties' = Parties(proxy) /\ amount' = AmountRead(proxy)
  BY DEF DecodeEvent
<1>2. PICK p : p = proxy
  OBVIOUS
<1>3. Label(proxy)' = Label(p) /\ Parties(proxy)' = Parties(p) /\ AmountRead(proxy)' = AmountRead(p)
  BY <1>1, <1>2, Now
<1>4. ResultGood'
  BY <1>1, <1>2, <1>3 DEF ResultGood, Read, Proxied, Booked
<1>5. FirstGood'
  BY <1>1, FirstKept DEF TokensInv, WorldGood
<1>6. WorldGood' /\ KnownGood' /\ StageGood'
  BY <1>1, StageOn DEF Proxied
<1> QED
  BY <1>4, <1>5, <1>6 DEF TokensInv

LEMMA CallStep == ASSUME TokensInv, DecodeCall PROVE TokensInv'
<1>1. /\ world' = world /\ known' = known /\ first' = first /\ pattern' = pattern
      /\ proxy' = proxy /\ stage = "calls" /\ stage' = "transfers"
      /\ label' = label /\ parties' = parties /\ amount' = amount /\ argument' \in {Raw, Hex}
      /\ token.standard # None => argument' = Raw
  BY DEF DecodeCall, token
<1>2. PICK p : p = proxy
  OBVIOUS
<1>3. /\ Label(proxy)' = Label(p) /\ Parties(proxy)' = Parties(p)
      /\ AmountRead(proxy)' = AmountRead(p) /\ token' = token
  BY <1>1, <1>2, Now, SameKnown
<1>4. label = Label(p) /\ parties = Parties(p) /\ amount = AmountRead(p)
  BY <1>1, <1>2 DEF TokensInv, ResultGood, Read, Proxied
<1>5. Raw' = Raw /\ Hex' = Hex
  BY DEF Raw, Hex
<1>6. ResultGood'
  BY <1>1, <1>3, <1>4, <1>5, RecordsKnown DEF ResultGood, Booked
<1>7. FirstGood'
  BY <1>1, FirstKept DEF TokensInv, WorldGood
<1>8. WorldGood' /\ KnownGood' /\ StageGood'
  BY <1>1, StageOn DEF Proxied
<1> QED
  BY <1>6, <1>7, <1>8 DEF TokensInv

\* A decoding that ends shows what was shown first, or is the first.
LEMMA FirstEnd ==
  ASSUME TokensInv, UNCHANGED <<world, known, pattern, proxy>>,
         stage \in Read, label = Label(proxy),
         NEW l, NEW shown, Finish([label |-> l, shown |-> shown]),
         shown = Outcome(proxy),
         Parties(proxy) # "unusable" => l = Label(proxy)
  PROVE  FirstGood'
<1>1. AllKnown /\ proxy = Delegation(pattern) /\ (world.delegates => pattern # None)
  BY DEF TokensInv, StageGood, Read
<1>2. PICK p \in Patterns \cup {None} :
        p = pattern /\ (world.delegates => p \in {world.pattern, "GenericProxy"})
  BY <1>1 DEF TokensInv, WorldGood, Worlds, Patterns
<1>3. /\ Outcome(Delegation(p)) = Outcome(Delegation(None))
      /\ Parties(Delegation(p)) = Parties(Delegation(None))
  BY <1>1, Nameless DEF TokensInv
<1>4. PICK d : d = proxy
  OBVIOUS
<1>5. d = Delegation(p) /\ shown = Outcome(d) /\ (Parties(d) # "unusable" => l = Label(d))
  BY <1>1, <1>2, <1>4
<1>6. Outcome(d) = Outcome(Delegation(p)) /\ Parties(d) = Parties(Delegation(p))
      /\ Label(d) = Label(Delegation(p))
  BY <1>5
<1>7. AllKnown' /\ Outcome(Delegation(None))' = Outcome(Delegation(None))
      /\ Parties(Delegation(None))' = Parties(Delegation(None))
      /\ \A n : Called(n)' <=> Called(n)
  BY <1>1, SameKnown, ShownKept
<1>8. Parties(d) # "unusable" => Called(l)
  <2>1. \A q, r : ~world.delegates => Delegation(q) = Delegation(r)
    BY DEF Delegation
  <2>2. \E q \in {world.pattern, "GenericProxy"} : Delegation(q) = Delegation(p)
    BY <1>2, <2>1
  <2>3. PICK q \in {world.pattern, "GenericProxy"} : Delegation(q) = Delegation(p)
    BY <2>2
  <2>4. Label(Delegation(q)) = Label(d)
    BY <1>5, <2>3
  <2> QED
    BY <1>5, <2>4 DEF Called
<1>9. CASE first # None
  <2>1. first' = first
    BY <1>9 DEF Finish
  <2>2. PICK n : n = first.label
    OBVIOUS
  <2>3. first.shown = Outcome(Delegation(None))
        /\ (Parties(Delegation(None)) # "unusable" => Called(n))
    BY <1>9, <2>2 DEF TokensInv, FirstGood
  <2>4. Called(first.label)' <=> Called(n)'
    BY <2>1, <2>2 DEF Called
  <2> QED
    BY <1>7, <2>1, <2>3, <2>4 DEF FirstGood
<1>10. CASE first = None
  <2>1. first' = [label |-> l, shown |-> shown]
    BY <1>10 DEF Finish
  <2>2. first'.label = l /\ first'.shown = shown
    BY <2>1
  <2>3. Called(first.label)' <=> Called(l)'
    BY <2>2 DEF Called
  <2> QED
    BY <1>3, <1>5, <1>6, <1>7, <1>8, <2>2, <2>3 DEF FirstGood
<1> QED
  BY <1>9, <1>10

LEMMA TransferStep == ASSUME TokensInv, DecodeTransfers PROVE TokensInv'
<1>1. /\ world' = world /\ known' = known /\ pattern' = pattern
      /\ proxy' = proxy /\ stage = "transfers"
      /\ label' = label /\ parties' = parties /\ amount' = amount /\ argument' = argument
  BY DEF DecodeTransfers
<1>2. PICK p : p = proxy
  OBVIOUS
<1>3. /\ Label(proxy)' = Label(p) /\ Parties(proxy)' = Parties(p)
      /\ AmountRead(proxy)' = AmountRead(p) /\ token' = token
      /\ Transferred(proxy, AmountRead(proxy))' = Transferred(p, AmountRead(p))
  BY <1>1, <1>2, Now, SameKnown
<1>4. /\ label = Label(p) /\ parties = Parties(p) /\ amount = AmountRead(p)
      /\ argument \in {Raw, Hex} /\ (token.standard = "ERC20" => argument = Raw)
  BY <1>1, <1>2 DEF TokensInv, ResultGood, Read, Proxied
<1>5. Raw' = Raw /\ Hex' = Hex
  BY DEF Raw, Hex
<1>6. CASE parties = "unusable"
  <2>1. stage' = "failed" /\ Finish([label |-> None, shown |-> "failed"])
    BY <1>6 DEF DecodeTransfers
  <2>2. ResultGood'
    BY <1>1, <1>3, <1>4, <1>6, <2>1 DEF ResultGood, Booked
  <2>3. WorldGood' /\ KnownGood' /\ StageGood'
    BY <1>1, <2>1, StageOn DEF Proxied
  <2>4. Parties(p) = "unusable" /\ Outcome(p) = "failed"
    BY <1>4, <1>6 DEF Outcome
  <2>5. Parties(proxy) = "unusable" /\ Outcome(proxy) = "failed" /\ label = Label(proxy)
    BY <1>2, <1>4, <2>4
  <2>6. FirstGood'
    BY <1>1, <2>1, <2>5, FirstEnd DEF Read, Proxied
  <2> QED
    BY <2>2, <2>3, <2>6 DEF TokensInv
<1>7. CASE parties # "unusable"
  <2>1. stage' = "metadata" /\ transfer' = Transferred(proxy, amount) /\ first' = first
    BY <1>7 DEF DecodeTransfers
  <2>2. transfer' = Transferred(p, AmountRead(p))
    BY <1>2, <1>4, <2>1
  <2>3. ResultGood'
    BY <1>1, <1>3, <1>4, <1>5, <1>7, <2>1, <2>2 DEF ResultGood, Booked
  <2>4. WorldGood' /\ KnownGood' /\ StageGood'
    BY <1>1, <2>1, StageOn DEF Proxied
  <2>5. FirstGood'
    BY <1>1, <2>1, FirstKept DEF TokensInv, WorldGood
  <2> QED
    BY <2>3, <2>4, <2>5 DEF TokensInv
<1> QED
  BY <1>6, <1>7

LEMMA EventSemanticsStep == ASSUME TokensInv, DecodeEventSemantics PROVE TokensInv'
<1>1. /\ world' = world /\ known' = known /\ pattern' = pattern /\ first' = first
      /\ proxy' = proxy /\ stage = "metadata"
      /\ stage' = "semantic calls" /\ label' = label /\ parties' = parties
      /\ transfer' = transfer /\ argument' = argument /\ amount' = Restated(proxy, amount)
  BY DEF DecodeEventSemantics
<1>2. PICK p : p = proxy
  OBVIOUS
<1>3. /\ Label(proxy)' = Label(p) /\ Parties(proxy)' = Parties(p)
      /\ Restated(proxy, AmountRead(proxy))' = Restated(p, AmountRead(p)) /\ token' = token
      /\ Transferred(proxy, AmountRead(proxy))' = Transferred(p, AmountRead(p))
  BY <1>1, <1>2, Now, SameKnown
<1>4. /\ label = Label(p) /\ parties = Parties(p) /\ amount = AmountRead(p)
      /\ argument \in {Raw, Hex} /\ (token.standard = "ERC20" => argument = Raw)
      /\ parties # "unusable" /\ transfer = Transferred(p, AmountRead(p))
  BY <1>1, <1>2 DEF TokensInv, ResultGood, Read, Proxied, Booked
<1>5. Raw' = Raw /\ Hex' = Hex
  BY DEF Raw, Hex
<1>6. amount' = Restated(p, AmountRead(p))
  BY <1>1, <1>2, <1>4
<1>7. ResultGood'
  BY <1>1, <1>3, <1>4, <1>5, <1>6 DEF ResultGood
<1>8. WorldGood' /\ KnownGood' /\ StageGood'
  BY <1>1, StageOn DEF Proxied
<1>9. FirstGood'
  BY <1>1, FirstKept DEF TokensInv, WorldGood
<1> QED
  BY <1>7, <1>8, <1>9 DEF TokensInv

LEMMA CallSemanticsStep == ASSUME TokensInv, DecodeCallSemantics PROVE TokensInv'
<1>1. /\ world' = world /\ known' = known /\ pattern' = pattern
      /\ proxy' = proxy /\ stage = "semantic calls"
      /\ stage' = "done" /\ label' = label /\ parties' = parties
      /\ transfer' = transfer /\ amount' = amount
      /\ argument' = Decoded(argument, token.standard, world.custom)
      /\ Finish([label |-> label, shown |-> <<parties, amount, transfer>>])
  BY DEF DecodeCallSemantics, token
<1>2. PICK p : p = proxy
  OBVIOUS
<1>3. /\ Label(proxy)' = Label(p) /\ Parties(proxy)' = Parties(p)
      /\ Restated(proxy, AmountRead(proxy))' = Restated(p, AmountRead(p)) /\ token' = token
      /\ Transferred(proxy, AmountRead(proxy))' = Transferred(p, AmountRead(p))
  BY <1>1, <1>2, Now, SameKnown
<1>4. /\ label = Label(p) /\ parties = Parties(p) /\ amount = Restated(p, AmountRead(p))
      /\ argument \in {Raw, Hex} /\ (token.standard = "ERC20" => argument = Raw)
      /\ parties # "unusable" /\ transfer = Transferred(p, AmountRead(p))
  BY <1>1, <1>2 DEF TokensInv, ResultGood, Read, Proxied, Booked
<1>5. (\E a \in {Raw, Hex} : /\ argument = Decoded(a, token.standard, world.custom)
                             /\ token.standard = "ERC20" => a = Raw)'
  <2>1. PICK a \in {Raw, Hex} : a = argument
    BY <1>4
  <2>2. Decoded(a, token.standard, world.custom)' = Decoded(a, token.standard, world.custom)
    BY <1>1, <1>3 DEF Decoded, TokenDecimals
  <2>3. argument' = Decoded(a, token.standard, world.custom)
    BY <1>1, <2>1
  <2> QED
    BY <1>3, <1>4, <2>1, <2>2, <2>3 DEF Raw, Hex, Amount
<1>6. ResultGood'
  BY <1>1, <1>3, <1>4, <1>5 DEF ResultGood
<1>7. WorldGood' /\ KnownGood' /\ StageGood'
  BY <1>1, StageOn DEF Proxied
<1>8. FirstGood'
  <2>1. <<parties, amount, transfer>> = Outcome(p)
    BY <1>4 DEF Outcome
  <2>2. PICK shown, l : shown = <<parties, amount, transfer>> /\ l = label
    OBVIOUS
  <2>3. Finish([label |-> l, shown |-> shown])
    BY <1>1, <2>2
  <2>4. shown = Outcome(proxy) /\ label = Label(proxy) /\ l = Label(proxy)
    BY <1>2, <1>4, <2>1, <2>2
  <2> QED
    BY <1>1, <2>3, <2>4, FirstEnd DEF Read, Proxied
<1> QED
  BY <1>6, <1>7, <1>8 DEF TokensInv

LEMMA NextTokens == TokensInv /\ [Next]_vars => TokensInv'
<1> SUFFICES ASSUME TokensInv, [Next]_vars PROVE TokensInv'
  OBVIOUS
<1>1. CASE UNCHANGED vars \/ \E a \in Contracts : Publish(a)
  BY <1>1, PublishStep
<1>2. CASE DescribeToken \/ DescribeDelegate
  BY <1>2, DescribeStep DEF DescribeToken, DescribeDelegate, Contracts
<1>3. CASE DetectPattern \/ GetProxies \/ Begin \/ Restart
  BY <1>3, PatternStep, ProxiesStep, BeginStep, RestartStep
<1>4. CASE DecodeEvent \/ DecodeCall \/ DecodeTransfers
  BY <1>4, EventStep, CallStep, TransferStep
<1>5. CASE DecodeEventSemantics \/ DecodeCallSemantics
  BY <1>5, EventSemanticsStep, CallSemanticsStep
<1> QED
  BY <1>1, <1>2, <1>3, <1>4, <1>5 DEF Next

LEMMA InitTokens == Init => TokensInv
<1> SUFFICES ASSUME Init PROVE TokensInv
  OBVIOUS
<1>1. stage = "idle" /\ first = None /\ known = [a \in Contracts |-> None] /\ pattern = None
  BY DEF Init
<1>2. WorldGood
  BY <1>1 DEF Init, WorldGood, Worlds, Patterns
<1>3. KnownGood
  BY <1>1 DEF KnownGood
<1>4. StageGood /\ ResultGood /\ FirstGood
  BY <1>1 DEF StageGood, ResultGood, FirstGood, Read, Proxied, Booked
<1> QED
  BY <1>2, <1>3, <1>4 DEF TokensInv

\* The inductive invariant: what is known was found in one of two ways and is
\* never found again, each stage has made of it what it makes now, and what was
\* shown first is what it makes, but for a proxy's name.
THEOREM TokensInvariant == Spec => []TokensInv
BY InitTokens, NextTokens, PTL DEF Spec

-----------------------------------------------------------------------------
(***************************************************************************)
(* What is shown.                                                          *)
(***************************************************************************)
\* A transaction decoded again shows the same, or fails again, whatever was
\* published and whoever has recovered; only the name of a proxy without a name
\* or a symbol may change, between that of its pattern and the general one; it
\* fails only by a delegator's anonymous event.
THEOREM TokensSameAgain == Spec => []SameAgain
<1>1. TokensInv => SameAgain
  <2> SUFFICES ASSUME TokensInv PROVE SameAgain
    OBVIOUS
  <2>1. PICK p \in Patterns \cup {None} :
          p = pattern /\ p \in {world.pattern, "GenericProxy", None}
    BY DEF TokensInv, WorldGood, Worlds, Patterns
  <2>2. PICK d : d = Delegation(p)
    OBVIOUS
  <2>3. world.pattern \in Patterns
    BY DEF TokensInv, WorldGood, Worlds
  <2>4. ASSUME stage \in {"done", "failed"}
        PROVE  /\ first.shown = Outcome(d) /\ parties = Parties(d) /\ label = Label(d)
               /\ Parties(d) # "unusable" => Called(first.label)
    <3>1. AllKnown /\ proxy = Delegation(pattern)
      BY <2>4 DEF TokensInv, StageGood, Proxied
    <3>2. Outcome(Delegation(p)) = Outcome(Delegation(None))
          /\ Parties(Delegation(p)) = Parties(Delegation(None))
      BY <3>1, Nameless DEF TokensInv
    <3>3. proxy = d
      BY <2>1, <2>2, <3>1
    <3>4. parties = Parties(d) /\ label = Label(d)
      BY <2>4, <3>3 DEF TokensInv, ResultGood, Read, Proxied
    <3>5. /\ first.shown = Outcome(Delegation(None))
          /\ Parties(Delegation(None)) # "unusable" => Called(first.label)
      BY <2>4 DEF TokensInv, FirstGood
    <3>6. Outcome(d) = Outcome(Delegation(p)) /\ Parties(d) = Parties(Delegation(p))
      BY <2>2
    <3> QED
      BY <3>2, <3>4, <3>5, <3>6
  <2>5. ASSUME Done
        PROVE  /\ first.shown = <<parties, amount, transfer>>
               /\ first.label # label =>
                    /\ world.delegates /\ ~token.seen /\ token.erc20 = None
                    /\ {first.label, label} = {world.pattern, "GenericProxy"}
    <3>1. stage = "done"
      BY <2>5 DEF Done
    <3>2. AllKnown /\ proxy = Delegation(pattern) /\ (world.delegates => pattern # None)
      BY <3>1 DEF TokensInv, StageGood, Proxied
    <3>3. proxy = d
      BY <2>1, <2>2, <3>2
    <3>4. /\ parties # "unusable" /\ amount = Restated(d, AmountRead(d))
          /\ transfer = Transferred(d, AmountRead(d))
      BY <3>1, <3>3 DEF TokensInv, ResultGood, Booked
    <3>5. PICK q \in {world.pattern, "GenericProxy"} : first.label = Label(Delegation(q))
      BY <2>4, <3>1, <3>4 DEF Called
    <3>6. label = Label(Delegation(p))
      BY <2>2, <2>4, <3>1
    <3>7. q \in Patterns \cup {None}
      BY <2>3 DEF Patterns
    <3>8. (~world.delegates \/ token.seen \/ token.erc20 # None) =>
             Label(Delegation(p)) = Label(Delegation(q))
      BY <3>2, <3>7, Nameless DEF TokensInv
    <3>9. ASSUME world.delegates, ~token.seen, token.erc20 = None, first.label # label
          PROVE  {first.label, label} = {world.pattern, "GenericProxy"}
      <4>1. \A r \in Patterns : Delegation(r) = ProxyNamed(r) /\ ProxyNamed(r) # None
        BY <3>2, <3>9, Proxies DEF TokensInv
      <4>2. \A r \in Patterns : Label(Delegation(r)) = r
        BY <3>9, <4>1 DEF Label, ProxyNamed, token
      <4>3. p \in {world.pattern, "GenericProxy"}
        BY <2>1, <3>2, <3>9
      <4>4. p \in Patterns /\ q \in Patterns
        BY <2>3, <4>3 DEF Patterns
      <4>5. label = p /\ first.label = q
        BY <3>5, <3>6, <4>2, <4>4
      <4> QED
        BY <3>9, <4>3, <4>5
    <3> QED
      BY <2>4, <3>1, <3>4, <3>5, <3>6, <3>8, <3>9 DEF Outcome
  <2>6. ASSUME stage = "failed"
        PROVE  first.shown = "failed" /\ token.seen /\ world.note # None
    <3>1. parties = "unusable"
      BY <2>6 DEF TokensInv, ResultGood
    <3>2. first.shown = "failed" /\ Parties(d) = "unusable"
      BY <2>4, <2>6, <3>1 DEF Outcome
    <3>3. EventAbi(d) = "anonymous"
      BY <3>2 DEF Parties
    <3>4. token.seen /\ world.note # None
      BY <3>3, RecordsKnown DEF EventAbi, token
    <3> QED
      BY <3>2, <3>4
  <2> QED
    BY <2>5, <2>6 DEF SameAgain
<1> QED
  BY <1>1, TokensInvariant, PTL

\* What is known of a contract when the amounts are read.
LEMMA ContractKnown ==
  ASSUME TokensInv, NEW a \in Contracts, known[a] # None
  PROVE  /\ known[a].seen \in BOOLEAN /\ known[a].erc20 \in Nat \cup {None}
         /\ known[a].standard = "ERC20" <=>
              \/ known[a].seen /\ Declares(a) /\ nature.abi = "ERC20"
              \/ ~known[a].seen /\ Answered(a)
         /\ known[a].erc20 =
              IF known[a].seen /\ Declares(a) /\ nature.abi = "ERC20" THEN Placeholder
              ELSE IF ~Answered(a) THEN None
              ELSE IF a = "delegate" THEN world.bare ELSE Decimals
<1>1. /\ world.nature \in Nature /\ world.bare \in Nat \cup {None}
      /\ world.delegates \in BOOLEAN /\ Decimals \in Nat /\ Placeholder \in Nat
  BY TokensAssumption DEF TokensInv, WorldGood, Worlds
<1>2. PICK b \in BOOLEAN : known[a] = Verified(a, b) \/ known[a] = Guessed(a, b)
  <2>1. known[a] \in {Verified(a, c) : c \in BOOLEAN} \cup {Guessed(a, c) : c \in BOOLEAN}
    BY DEF TokensInv, KnownGood
  <2> QED
    BY <2>1
<1>3. Decimals # None /\ Placeholder # None /\ "ERC20" # None /\ "ERC721" # None
  BY RecordsKnown, TokensAssumption
<1>4. PICK k : k = known[a]
  OBVIOUS
<1>5. Asked(a, b) = IF ~b THEN None ELSE IF a = "delegate" THEN world.bare
                    ELSE IF nature.decimals /\ nature.strings THEN Decimals ELSE None
  BY DEF Asked, nature
<1>6. Declares(a) \in BOOLEAN /\ Bears(a) \in BOOLEAN
  BY <1>1 DEF Declares, Bears, Nature
<1>7. known[a].answered = b /\ known[a].seen \in BOOLEAN
  <2>1. \E seen \in BOOLEAN : \E x, y : known[a] = Semantics(seen, b, x, y)
    BY <1>2 DEF Verified, Guessed
  <2> QED
    BY <2>1 DEF Semantics
<1>8. Answered(a) <=> /\ Asked(a, b) # None
                      /\ IF known[a].seen THEN ~(Declares(a) /\ nature.abi = "ERC20") ELSE Bears(a)
  BY <1>3, <1>5, <1>7 DEF Answered
<1>9. CASE known[a] = Verified(a, b)
  <2>1. known[a].seen
    BY <1>9 DEF Verified, Semantics
  <2>2. CASE Declares(a) /\ nature.abi = "ERC20"
    <3>1. known[a] = Semantics(TRUE, b, "ERC20", Placeholder)
      BY <1>9, <2>2 DEF Verified, nature
    <3>2. known[a].standard = "ERC20" /\ known[a].erc20 = Placeholder
      BY <3>1 DEF Semantics
    <3> QED
      BY <1>1, <2>1, <2>2, <3>2
  <2>3. CASE ~(Declares(a) /\ nature.abi = "ERC20")
    <3>1. known[a] = Semantics(TRUE, b, IF Declares(a) /\ nature.abi = "ERC721" THEN "ERC721" ELSE None,
                               Asked(a, b))
      BY <1>9, <2>3 DEF Verified, nature
    <3>2. known[a].standard # "ERC20" /\ known[a].erc20 = Asked(a, b)
      BY <1>3, <3>1 DEF Semantics
    <3>3. Answered(a) <=> Asked(a, b) # None
      BY <1>8, <2>1, <2>3
    <3>4. Asked(a, b) # None => Asked(a, b) = IF a = "delegate" THEN world.bare ELSE Decimals
      BY <1>5
    <3>5. known[a].erc20 \in Nat \cup {None}
      BY <1>1, <1>5, <3>2
    <3>6. known[a].erc20 = IF ~Answered(a) THEN None
                           ELSE IF a = "delegate" THEN world.bare ELSE Decimals
      BY <3>2, <3>3, <3>4
    <3> QED
      BY <2>1, <2>3, <3>2, <3>5, <3>6
  <2> QED
    BY <2>2, <2>3
<1>10. CASE known[a] = Guessed(a, b)
  <2>1. PICK e : e = IF Bears(a) THEN Asked(a, b) ELSE None
    OBVIOUS
  <2>2. known[a] = Semantics(FALSE, b, IF e = None THEN None ELSE "ERC20", e)
    BY <1>10, <2>1 DEF Guessed
  <2>3. /\ ~known[a].seen /\ known[a].erc20 = e
        /\ known[a].standard = "ERC20" <=> e # None
    BY <1>3, <2>2 DEF Semantics
  <2>4. Answered(a) <=> Asked(a, b) # None /\ Bears(a)
    BY <1>8, <2>3
  <2>5. e = IF ~Answered(a) THEN None ELSE Asked(a, b)
    <3>1. Bears(a) => e = Asked(a, b)
      BY <2>1
    <3>2. ~Bears(a) => e = None
      BY <2>1
    <3> QED
      BY <2>4, <3>1, <3>2
  <2>6. Asked(a, b) # None => Asked(a, b) = IF a = "delegate" THEN world.bare ELSE Decimals
    BY <1>5
  <2>7. e \in Nat \cup {None} /\ (e # None <=> Answered(a))
    BY <1>1, <1>5, <2>4, <2>5
  <2>8. known[a].erc20 = IF ~Answered(a) THEN None
                         ELSE IF a = "delegate" THEN world.bare ELSE Decimals
    BY <2>3, <2>4, <2>5, <2>6
  <2> QED
    BY <1>7, <2>3, <2>7, <2>8
<1> QED
  BY <1>2, <1>9, <1>10

\* The two contracts, when a decoding is done.
LEMMA TokenKnown ==
  ASSUME TokensInv, Done
  PROVE  /\ token.erc20 \in Nat \cup {None}
         /\ token.standard = "ERC20" <=> ByItsABI \/ (~token.seen /\ Answered("token"))
         /\ token.erc20 = IF ByItsABI THEN Placeholder
                          ELSE IF Answered("token") THEN Decimals ELSE None
         /\ ByItsABI => ~Answered("token")
         /\ world.delegates => /\ delegate.erc20 \in Nat \cup {None}
                               /\ \/ delegate.erc20 = Placeholder /\ ~Answered("delegate")
                                  \/ ~Answered("delegate") /\ delegate.erc20 = None
                                  \/ Answered("delegate") /\ delegate.erc20 = world.bare
                                     /\ world.bare \in {0, Decimals}
         /\ proxy = None <=> ~world.delegates
         /\ world.delegates =>
              proxy.token = IF token.erc20 # None THEN token.erc20 ELSE delegate.erc20
<1>1. AllKnown /\ proxy = Delegation(pattern)
  BY DEF TokensInv, StageGood, Proxied, Done
<1>2. PICK p \in Patterns \cup {None} : p = pattern
  BY DEF TokensInv, WorldGood, Worlds, Patterns
<1>3. /\ proxy = None <=> ~world.delegates
      /\ world.delegates => proxy = ProxyNamed(p)
  <2>1. proxy = Delegation(p)
    BY <1>1, <1>2
  <2> QED
    BY <1>1, <2>1, Proxies DEF TokensInv
<1>4. world.delegates =>
        proxy.token = IF token.erc20 # None THEN token.erc20 ELSE delegate.erc20
  BY <1>3 DEF ProxyNamed, token, delegate
<1>5. /\ token.seen \in BOOLEAN /\ token.erc20 \in Nat \cup {None}
      /\ token.standard = "ERC20" <=> ByItsABI \/ (~token.seen /\ Answered("token"))
      /\ token.erc20 = IF ByItsABI THEN Placeholder
                       ELSE IF Answered("token") THEN Decimals ELSE None
  BY <1>1, ContractKnown DEF AllKnown, token, ByItsABI, Contracts
<1>6. ByItsABI => ~Answered("token")
  BY DEF ByItsABI, Answered, token
<1>7. world.delegates =>
        /\ delegate.erc20 \in Nat \cup {None}
        /\ delegate.erc20 =
             IF delegate.seen /\ Declares("delegate") /\ nature.abi = "ERC20" THEN Placeholder
             ELSE IF ~Answered("delegate") THEN None ELSE world.bare
  BY <1>1, ContractKnown DEF AllKnown, delegate, Contracts
<1>8. /\ delegate.seen /\ Declares("delegate") /\ nature.abi = "ERC20" => ~Answered("delegate")
      /\ Answered("delegate") => world.bare # None
  BY DEF Answered, delegate
<1>9. world.bare \in {0, Decimals, None}
  BY DEF TokensInv, WorldGood, Worlds
<1> QED
  BY <1>3, <1>4, <1>5, <1>6, <1>7, <1>8, <1>9

\* The transfer, by what is known.
LEMMA TransferIs ==
  ASSUME TokensInv, Done
  PROVE  /\ transfer = Nft <=> ~world.delegates /\ token.standard # "ERC20"
         /\ transfer = Lost <=> transfer # Nft /\ AmountRead(proxy) # Raw
         /\ (transfer # Nft /\ transfer # Lost) => transfer = Scaled(TokenDecimals(proxy))
         /\ AmountRead(proxy) # Raw <=>
              \/ EventAbi(proxy) = None
              \/ EventAbi(proxy) = "anonymous" /\ ~world.note.number
<1>1. transfer = Transferred(proxy, AmountRead(proxy))
  BY DEF TokensInv, ResultGood, Done, Booked
<1>2. IsFungible(proxy) <=> token.standard = "ERC20" \/ world.delegates
  BY TokenKnown DEF IsFungible, token
<1>3. /\ AmountRead(proxy).form = "raw" <=> AmountRead(proxy) = Raw
      /\ AmountRead(proxy) # Raw <=>
           \/ EventAbi(proxy) = None
           \/ EventAbi(proxy) = "anonymous" /\ ~world.note.number
  BY DEF AmountRead, Raw, Hex, Lost, Amount
<1>4. Nft # Lost /\ \A n : Scaled(n) # Nft /\ Scaled(n) # Lost
  BY DEF Nft, Lost, Scaled, Amount
<1>5. CASE ~IsFungible(proxy)
  BY <1>1, <1>2, <1>3, <1>4, <1>5 DEF Transferred
<1>6. CASE IsFungible(proxy) /\ AmountRead(proxy) = Raw
  BY <1>1, <1>2, <1>3, <1>4, <1>6 DEF Transferred
<1>7. CASE IsFungible(proxy) /\ AmountRead(proxy) # Raw
  BY <1>1, <1>2, <1>3, <1>4, <1>7 DEF Transferred
<1> QED
  BY <1>3, <1>5, <1>6, <1>7

\* A transfer is shown as an amount exactly when its contract delegated, its own
\* ABI is an ERC20's, or, without an ABI, its byte code looks like an ERC20's
\* and its name, symbol and decimals were answered.
THEOREM TokensKindRight == Spec => []KindRight
<1>1. TokensInv => KindRight
  BY TransferIs, TokenKnown DEF KindRight
<1> QED
  BY <1>1, TokensInvariant, PTL

\* The amount of a token is scaled by its own decimals exactly when they were
\* answered by the token, or, unless its own ABI is an ERC20's, by a delegate
\* whose storage has them; it is lost only where no ABI has the event or an
\* anonymous one without a number is taken for it, and otherwise it is scaled by
\* the placeholder or by a delegate's zero.
THEOREM TokensAmountRight == Spec => []AmountRight
<1>1. TokensInv => AmountRight
  <2> SUFFICES ASSUME TokensInv, Done, transfer # Nft PROVE AmountRight
    BY DEF AmountRight
  <2>1. transfer = Lost <=> \/ EventAbi(proxy) = None
                            \/ EventAbi(proxy) = "anonymous" /\ ~world.note.number
    BY TransferIs
  <2>2. transfer # Lost => transfer = Scaled(TokenDecimals(proxy))
    BY TransferIs
  <2>3. PICK n : n = TokenDecimals(proxy)
    OBVIOUS
  <2>4. n = IF token.erc20 # None THEN token.erc20
            ELSE IF proxy # None /\ proxy.token # None THEN proxy.token ELSE Placeholder
    BY <2>3 DEF TokenDecimals, token
  <2>5. /\ Decimals # None /\ Placeholder # None /\ Placeholder # Decimals
        /\ Decimals \in Nat /\ Placeholder \in Nat /\ 0 # None
    BY RecordsKnown, TokensAssumption
  <2>6. n = IF token.erc20 # None THEN token.erc20
            ELSE IF world.delegates /\ delegate.erc20 # None THEN delegate.erc20 ELSE Placeholder
    BY <2>4, TokenKnown
  <2>7. /\ n = Decimals <=> Answered("token") \/ (ByDelegate /\ world.bare = Decimals)
        /\ n \in {Decimals, Placeholder, 0}
        /\ (n = 0 /\ n # Decimals /\ n # Placeholder) => ByDelegate /\ world.bare = 0
    <3>1. CASE token.erc20 # None
      <4>1. ByItsABI \/ Answered("token")
        BY <3>1, TokenKnown
      <4>2. CASE ByItsABI
        BY <2>5, <2>6, <3>1, <4>2, TokenKnown DEF ByDelegate
      <4>3. CASE ~ByItsABI /\ Answered("token")
        BY <2>5, <2>6, <3>1, <4>3, TokenKnown DEF ByDelegate
      <4> QED
        BY <4>1, <4>2, <4>3
    <3>2. CASE token.erc20 = None
      <4>1. ~ByItsABI /\ ~Answered("token")
        BY <2>5, <3>2, TokenKnown
      <4>2. ByDelegate <=> world.delegates /\ Answered("delegate")
        BY <4>1 DEF ByDelegate
      <4>3. CASE ~world.delegates
        BY <2>5, <2>6, <3>2, <4>1, <4>2, <4>3
      <4>4. CASE world.delegates /\ Answered("delegate")
        <5>1. delegate.erc20 = world.bare /\ world.bare \in {0, Decimals} /\ world.bare # None
          BY <2>5, <4>4, TokenKnown
        <5> QED
          BY <2>5, <2>6, <3>2, <4>1, <4>2, <4>4, <5>1
      <4>5. CASE world.delegates /\ ~Answered("delegate")
        BY <2>5, <2>6, <3>2, <4>1, <4>2, <4>5, TokenKnown
      <4> QED
        BY <4>3, <4>4, <4>5
    <3> QED
      BY <3>1, <3>2
  <2>8. /\ \A i, j : Scaled(i) = Scaled(j) <=> i = j
        /\ \A i : Scaled(i) # Lost
    BY DEF Scaled, Lost, Amount
  <2>9. transfer = Scaled(Decimals) <=>
          /\ transfer # Lost
          /\ Answered("token") \/ (ByDelegate /\ world.bare = Decimals)
    BY <2>2, <2>3, <2>7, <2>8
  <2>10. transfer \in {Lost, Scaled(Decimals), Scaled(Placeholder), Scaled(0)}
    BY <2>2, <2>3, <2>7, <2>8
  <2>11. transfer = Scaled(0) => Decimals = 0 \/ Placeholder = 0 \/ (ByDelegate /\ world.bare = 0)
    BY <2>2, <2>3, <2>7, <2>8
  <2> QED
    BY <2>1, <2>9, <2>10, <2>11, TokensAssumption DEF AmountRight
<1> QED
  BY <1>1, TokensInvariant, PTL

\* A transfer, its event and its call show the same amount when the token is an
\* ERC20 itself; of a delegator the three differ as AmountsAgree says.
THEOREM TokensAmountsAgree == Spec => []AmountsAgree
<1>1. TokensInv => AmountsAgree
  <2> SUFFICES ASSUME TokensInv, Done, transfer.form = "scaled" PROVE AmountsAgree
    BY DEF AmountsAgree
  <2>1. transfer # Nft /\ transfer # Lost
    BY DEF Nft, Lost, Amount
  <2>2. transfer = Scaled(TokenDecimals(proxy)) /\ AmountRead(proxy) = Raw
    BY <2>1, TransferIs
  <2>3. PICK own \in BOOLEAN : amount = Decoded(Raw, Standard(proxy), own)
    <3>1. world.custom \in BOOLEAN
      BY DEF TokensInv, WorldGood, Worlds
    <3>2. amount = Restated(proxy, Raw)
      BY <2>2 DEF TokensInv, ResultGood, Done
    <3>3. (world.custom /\ EventAbi(proxy) # "anonymous") \in BOOLEAN
      BY <3>1
    <3> QED
      BY <3>2, <3>3 DEF Restated
  <2>4. PICK a \in {Raw, Hex} : /\ argument = Decoded(a, token.standard, world.custom)
                                /\ token.standard = "ERC20" => a = Raw
    BY DEF TokensInv, ResultGood, Done
  <2>5. Raw \notin {Hex, Lost} /\ Nft # Raw /\ Nft # Hex
    BY DEF Raw, Hex, Lost, Nft, Amount
  <2>6. /\ \A o \in BOOLEAN : Decoded(Raw, "ERC20", o) = Scaled(TokenDecimals(None))
        /\ \A o \in BOOLEAN : Decoded(Raw, "ERC721", o) = Nft
        /\ \A o \in BOOLEAN : Decoded(Raw, None, o) \in {Raw, Custom}
    BY <2>5, RecordsKnown DEF Decoded, Transformed
  <2>7. world.custom \in BOOLEAN /\ token.standard \in {"ERC20", "ERC721", None}
    <3>1. AllKnown
      BY DEF TokensInv, StageGood, Proxied, Done
    <3>2. token \in Sem
      BY <3>1 DEF TokensInv, KnownGood, AllKnown, token, Contracts
    <3> QED
      BY <3>2 DEF TokensInv, WorldGood, Worlds, Sem
  <2>8. token.standard = "ERC20" => token.erc20 # None
    BY TokenKnown, TokensAssumption, RecordsKnown
  <2>9. token.erc20 # None => TokenDecimals(None) = token.erc20 /\ TokenDecimals(proxy) = token.erc20
    BY DEF TokenDecimals, token
  <2>10. token.erc20 = None => TokenDecimals(None) = Placeholder
    BY DEF TokenDecimals, token
  <2>11. CASE token.standard = "ERC20"
    <3>1. Standard(proxy) = "ERC20"
      BY <2>11, RecordsKnown DEF Standard, token
    <3>2. argument = Scaled(TokenDecimals(None)) /\ amount = Scaled(TokenDecimals(None))
      BY <2>3, <2>4, <2>6, <2>7, <2>11, <3>1
    <3>3. argument = transfer /\ amount = transfer
      BY <2>2, <2>8, <2>9, <2>11, <3>2
    <3> QED
      BY <2>8, <2>11, <3>3 DEF AmountsAgree
  <2>12. CASE token.standard # "ERC20"
    <3>1. world.delegates /\ proxy # None
          /\ proxy.token = IF token.erc20 # None THEN token.erc20 ELSE delegate.erc20
      BY <2>1, <2>12, TransferIs, TokenKnown
    <3>2. argument # transfer
      <4>1. argument \in {Raw, Hex, Custom, Nft}
        BY <2>4, <2>7, <2>12 DEF Decoded, Transformed
      <4> QED
        BY <2>2, <4>1 DEF Scaled, Raw, Hex, Custom, Nft, Amount
    <3>3. CASE token.standard = "ERC721"
      <4>1. Standard(proxy) = "ERC721"
        BY <3>3, RecordsKnown DEF Standard, token
      <4>2. amount = Nft
        BY <2>3, <2>6, <4>1
      <4> QED
        BY <2>12, <3>2, <3>3, <4>2 DEF AmountsAgree
    <3>4. CASE token.standard = None
      <4>1. proxy.token # None => Standard(proxy) = "ERC20"
        BY <3>1, <3>4 DEF Standard, token
      <4>2. proxy.token = None => Standard(proxy) = None
        BY <3>1, <3>4 DEF Standard, token
      <4>3. token.erc20 # None => amount = transfer
        BY <2>2, <2>3, <2>6, <2>9, <3>1, <4>1
      <4>4. token.erc20 = None /\ delegate.erc20 # None =>
              transfer = Scaled(delegate.erc20) /\ amount = Scaled(Placeholder)
        <5>1. token.erc20 = None /\ proxy.token # None => TokenDecimals(proxy) = proxy.token
          BY <3>1 DEF TokenDecimals, token
        <5> QED
          BY <2>2, <2>3, <2>6, <2>10, <3>1, <4>1, <5>1
      <4>5. token.erc20 = None /\ delegate.erc20 = None =>
              transfer = Scaled(Placeholder) /\ amount \in {Raw, Custom}
        <5>1. token.erc20 = None /\ proxy.token = None => TokenDecimals(proxy) = Placeholder
          BY <3>1 DEF TokenDecimals, token
        <5> QED
          BY <2>2, <2>3, <2>6, <3>1, <4>2, <5>1
      <4> QED
        BY <2>12, <3>2, <3>4, <4>3, <4>4, <4>5, RecordsKnown DEF AmountsAgree
    <3> QED
      BY <2>7, <2>12, <3>3, <3>4
  <2> QED
    BY <2>11, <2>12
<1> QED
  BY <1>1, TokensInvariant, PTL
=============================================================================
