------------------------ MODULE TraceConvertor_proofs ------------------------
(***************************************************************************)
(* Proofs that TraceConvertor follows the execution whatever the number of *)
(* calls and the call operations: StackInv is inductive, so the stack is   *)
(* in step with the open frames, the tree holds the finished calls, and at *)
(* the end no call is missing from it.                                     *)
(***************************************************************************)
EXTENDS TraceConvertor, TLAPS, SequenceTheorems, WellFoundedInduction

-----------------------------------------------------------------------------
(***************************************************************************)
(* Sequences as stacks.                                                    *)
(***************************************************************************)
LEMMA PushPop ==
  ASSUME NEW S, NEW s \in Seq(S), NEW e \in S
  PROVE  /\ Append(s, e) \in Seq(S) /\ Append(s, e) # <<>>
         /\ Len(Append(s, e)) = Len(s) + 1
         /\ Front(Append(s, e)) = s /\ Last(Append(s, e)) = e
         /\ \A i \in DOMAIN s : Append(s, e)[i] = s[i]
         /\ DOMAIN Append(s, e) = 1 .. Len(s) + 1
BY DEF Front, Last

LEMMA Popped ==
  ASSUME NEW S, NEW s \in Seq(S), s # <<>>
  PROVE  /\ Front(s) \in Seq(S) /\ Last(s) \in S
         /\ Len(Front(s)) = Len(s) - 1 /\ Len(s) \in Nat \ {0}
         /\ DOMAIN Front(s) = 1 .. Len(s) - 1
         /\ \A i \in 1 .. Len(s) - 1 : Front(s)[i] = s[i]
         /\ s = Append(Front(s), Last(s))
         /\ Front(s) # <<>> => Last(Front(s)) = s[Len(s) - 1] /\ Len(s) > 1
         /\ Len(s) = 1 <=> Front(s) = <<>>
<1>1. Len(s) \in Nat \ {0} /\ DOMAIN s = 1 .. Len(s)
  OBVIOUS
<1>2. /\ Front(s) \in Seq(S) /\ Len(Front(s)) = Len(s) - 1
      /\ \A i \in 1 .. Len(s) - 1 : Front(s)[i] = s[i]
  BY <1>1 DEF Front
<1>3. Last(s) \in S
  BY <1>1 DEF Last
<1>4. s = Append(Front(s), Last(s))
  <2> DEFINE t == Append(Front(s), Last(s))
  <2>1. /\ t \in Seq(S) /\ Len(t) = Len(s)
        /\ \A i \in 1 .. Len(s) - 1 : t[i] = s[i]
        /\ t[Len(s)] = Last(s)
    <3>1. /\ t \in Seq(S) /\ Len(t) = Len(Front(s)) + 1
          /\ \A i \in 1 .. Len(Front(s)) : t[i] = Front(s)[i]
          /\ t[Len(Front(s)) + 1] = Last(s)
      BY <1>2, <1>3, AppendProperties
    <3>2. Len(Front(s)) + 1 = Len(s)
      BY <1>1, <1>2
    <3> HIDE DEF t
    <3> QED
      BY <1>1, <1>2, <3>1, <3>2
  <2>2. \A i \in 1 .. Len(s) : s[i] = t[i]
    BY <1>1, <2>1 DEF Last
  <2> QED
    BY <2>1, <2>2, SeqEqual
<1>5. DOMAIN Front(s) = 1 .. Len(s) - 1
  BY <1>2
<1>6. Len(s) = 1 <=> Front(s) = <<>>
  BY <1>1, <1>2, EmptySeq
<1>7. Front(s) # <<>> => Last(Front(s)) = s[Len(s) - 1] /\ Len(s) > 1
  <2> SUFFICES ASSUME Front(s) # <<>> PROVE Last(Front(s)) = s[Len(s) - 1] /\ Len(s) > 1
    OBVIOUS
  <2>1. Len(s) > 1
    BY <1>1, <1>6
  <2> QED
    BY <1>1, <1>2, <2>1 DEF Last
<1> QED
  BY <1>1, <1>2, <1>3, <1>4, <1>5, <1>6, <1>7

\* The transaction itself is a call, and so is the next one while any are left.
LEMMA CallType ==
  /\ 0 \in Call
  /\ \A c \in Call : c \in Nat
  /\ \A c \in Call : c < MaxCalls => c + 1 \in Call
  /\ None \notin Call
BY TraceAssumption, NoneAssumption DEF Call

-----------------------------------------------------------------------------
LEMMA InitStack == Init => StackInv
<1> SUFFICES ASSUME Init PROVE StackInv
  OBVIOUS
<1> USE CallType DEF Init, EvmInit
<1>1. TypeOK
  <2>1. <<0>> \in Seq(Call) /\ <<>> \in Seq(Call)
    BY EmptySeq
  <2>2. "CALL" \in CallOps \cup {"CALL"} /\ "open" \in Fate
    BY DEF Fate
  <2> QED
    BY <2>1, <2>2 DEF TypeOK
<1>2. FramesOK /\ Unborn /\ ReadyPopped /\ InSync
  BY DEF FramesOK, Unborn, ReadyPopped, InSync, Call
<1>3. TreeMatches
  BY DEF TreeMatches, Lagging, Depth
<1> QED
  BY <1>1, <1>2, <1>3 DEF StackInv

(***************************************************************************)
(* Whichever call is still to be popped, handleContractChange pops it.     *)
(***************************************************************************)
LEMMA PopsTheLast ==
  ASSUME StackInv, Running, NEW data \in Call \cup {None}, HandleContractChange(data)
  PROVE  /\ callstack' = frames /\ calls' = callees
         /\ output' \in [Call -> Call \cup {None}]
         /\ returnData' \in Call \cup {None}
<1> USE DEF StackInv, TypeOK
<1>1. frames \in Seq(Call) /\ frames # <<>> /\ Current \in Call /\ Depth \in Nat
  BY Popped DEF Running, Current, Depth
<1>2. CASE callstack = frames
  <2>1. Depth # Len(callstack) - 1 /\ ~Lagging
    BY <1>1, <1>2 DEF Depth, Lagging
  <2> QED
    BY <1>2, <2>1 DEF HandleContractChange, TreeMatches
<1>3. CASE \E c \in Call : callstack = Append(frames, c)
  <2>1. PICK c \in Call : callstack = Append(frames, c)
    BY <1>3
  <2>2. /\ Len(callstack) = Depth + 1 /\ Front(callstack) = frames /\ Top = c
    BY <1>1, <2>1, PushPop DEF Depth, Top
  <2>3. Lagging /\ Depth = Len(callstack) - 1
    BY <1>1, <2>2 DEF Lagging
  <2>4. callees = [calls EXCEPT ![Current] = Append(@, Top)]
    BY <2>3 DEF TreeMatches
  <2>5. /\ callstack' = frames /\ returnData' = None
        /\ output' = [output EXCEPT ![Top] = data]
        /\ calls' = [calls EXCEPT ![Current] = Append(@, Top)]
    BY <2>2, <2>3 DEF HandleContractChange, Current
  <2> QED
    BY <2>2, <2>4, <2>5 DEF TypeOK
<1> QED
  BY <1>2, <1>3 DEF InSync

(***************************************************************************)
(* The end of a frame: the convertor, which has popped all there was to    *)
(* pop, is now one call behind.                                            *)
(***************************************************************************)
LEMMA EndsKeepsStack ==
  ASSUME StackInv, Running, NEW how \in Fate \ {"open"}, Ends(how),
         callstack' = frames, calls' = callees,
         (error \in [Call -> BOOLEAN])', (gas \in [Call -> Call \cup {None}])',
         (output \in [Call -> Call \cup {None}])', (returnData \in Call \cup {None})',
         descended' \in BOOLEAN, raised' \in BOOLEAN
  PROVE  StackInv'
<1> USE DEF StackInv
<1>1. /\ frames \in Seq(Call) /\ frames # <<>> /\ Current \in Call
      /\ frames' = Front(frames) /\ frames' \in Seq(Call)
      /\ Current = frames[Len(frames)] /\ Len(frames) \in Nat \ {0}
      /\ Len(frames') = Len(frames) - 1
      /\ DOMAIN frames' = 1 .. Len(frames) - 1 /\ DOMAIN frames = 1 .. Len(frames)
      /\ \A i \in 1 .. Len(frames) - 1 : frames'[i] = frames[i]
  <2>1. frames \in Seq(Call) /\ frames # <<>> /\ frames' = Front(frames)
    BY DEF TypeOK, Running, Ends
  <2> QED
    BY <2>1, Popped DEF Current, Last
<1>2. TypeOK'
  <2>1. caller[Current] \in Call /\ callees \in [Call -> Seq(Call)]
    BY <1>1 DEF TypeOK
  <2>2. callees' \in [Call -> Seq(Call)]
    BY <1>1, <2>1 DEF Ends
  <2>3. fate' \in [Call -> Fate]
    BY <1>1 DEF Ends, TypeOK
  <2> QED
    BY <1>1, <2>2, <2>3 DEF TypeOK, Ends
<1>3. FramesOK'
  <2>1. \A i \in DOMAIN frames : frames[i] \in Call /\ frames[i] \in Nat
    BY <1>1, CallType
  <2>2. \A i \in DOMAIN frames' : i \in DOMAIN frames /\ frames[i] # Current
    BY <1>1, <2>1 DEF FramesOK
  <2>3. \A i \in DOMAIN frames' : fate'[frames[i]] = fate[frames[i]]
    BY <2>1, <2>2 DEF Ends, TypeOK
  <2>4. \A i \in DOMAIN frames' : frames'[i] <= made' /\ fate'[frames'[i]] = "open"
    BY <1>1, <2>2, <2>3 DEF FramesOK, Ends
  <2>5. \A i, j \in DOMAIN frames' : i < j => frames'[i] < frames'[j]
    BY <1>1, <2>2 DEF FramesOK
  <2>6. \A i \in 1 .. Len(frames') - 1 : caller'[frames'[i + 1]] = frames'[i]
    BY <1>1 DEF FramesOK, Ends
  <2> QED
    BY <2>4, <2>5, <2>6 DEF FramesOK
<1>4. Unborn'
  BY <1>1 DEF Unborn, Ends, FramesOK, TypeOK, Call
<1>5. ReadyPopped'
  BY DEF ReadyPopped, Ends
<1>6. CASE frames' = <<>>
  <2>1. Depth = 1
    BY <1>1, <1>6 DEF Depth
  <2>2. ~Running' /\ ~Lagging'
    BY <1>6 DEF Running, Lagging
  <2>3. InSync' /\ TreeMatches'
    BY <2>1, <2>2 DEF InSync, TreeMatches, Ends
  <2> QED
    BY <1>2, <1>3, <1>4, <1>5, <2>3
<1>7. CASE frames' # <<>>
  <2>1. /\ Running' /\ Depth # 1 /\ callstack' = Append(frames', Current)
        /\ Current' = frames[Len(frames) - 1] /\ Len(frames) > 1
    BY <1>1, <1>7, Popped DEF Running, Depth, Current
  <2>2. caller[Current] = Current'
    <3>1. Len(frames) - 1 \in 1 .. Len(frames) - 1 /\ (Len(frames) - 1) + 1 = Len(frames)
      BY <1>1, <2>1
    <3> QED
      BY <1>1, <2>1, <3>1 DEF FramesOK
  <2>3. fate'[Current] # "open" /\ caller' = caller
    BY <1>1 DEF Ends, TypeOK
  <2>4. InSync'
    BY <1>1, <2>1, <2>2, <2>3 DEF InSync
  <2>5. Lagging' /\ Top' = Current
    BY <1>1, <2>1, PushPop DEF Lagging, Top, Depth
  <2>6. callees' = [callees EXCEPT ![Current'] = Append(@, Current)]
    BY <2>1, <2>2 DEF Ends
  <2>7. TreeMatches'
    BY <2>5, <2>6 DEF TreeMatches
  <2> QED
    BY <1>2, <1>3, <1>4, <1>5, <2>4, <2>7
<1> QED
  BY <1>6, <1>7

\* handleDescended writes the gas of a call, whatever else the item does.
LEMMA DescendedType ==
  ASSUME StackInv, Running, HandleDescended
  PROVE  (gas \in [Call -> Call \cup {None}])' /\ descended' \in BOOLEAN
<1>1. Current \in Call
  BY Popped DEF StackInv, TypeOK, Running, Current
<1> QED
  BY <1>1 DEF HandleDescended, StackInv, TypeOK

LEMMA ReadyMeans ==
  ASSUME StackInv, Running, ready
  PROVE  callstack = frames /\ calls = callees /\ ~Lagging /\ Top = Current
         /\ Top \in Call /\ frames \in Seq(Call) /\ frames # <<>>
<1>1. callstack = frames
  BY DEF StackInv, ReadyPopped
<1>2. ~Lagging
  BY <1>1 DEF Lagging, Depth, StackInv, TypeOK
<1>3. calls = callees
  BY <1>2 DEF StackInv, TreeMatches
<1> QED
  BY <1>1, <1>2, <1>3, Popped DEF StackInv, TypeOK, Top, Current, Running

-----------------------------------------------------------------------------
(***************************************************************************)
(* One lemma per kind of item.                                             *)
(***************************************************************************)
LEMMA PlainKeeps == StackInv /\ OnPlain => StackInv'
<1> SUFFICES ASSUME StackInv, OnPlain PROVE StackInv'
  OBVIOUS
<1> USE DEF StackInv
<1>1. Running /\ HandleDescended /\ HandleContractChange(returnData)
  BY DEF OnPlain, Plain, HandleOther
<1>2. /\ callstack' = frames /\ calls' = callees
      /\ output' \in [Call -> Call \cup {None}]
      /\ returnData' \in Call \cup {None}
  BY <1>1, PopsTheLast DEF TypeOK
<1>3. TypeOK'
  BY <1>1, <1>2, DescendedType DEF TypeOK, OnPlain, Plain, HandleOther
<1>4. FramesOK' /\ Unborn'
  BY DEF FramesOK, Unborn, OnPlain, Plain
<1>5. ReadyPopped' /\ InSync'
  BY <1>2 DEF ReadyPopped, InSync, OnPlain, Plain
<1>6. TreeMatches'
  <2>1. ~Lagging'
    BY <1>2 DEF Lagging, Depth, TypeOK, OnPlain, Plain
  <2> QED
    BY <1>2, <2>1 DEF TreeMatches, OnPlain, Plain
<1> QED
  BY <1>3, <1>4, <1>5, <1>6

LEMMA EndingKeeps ==
  ASSUME StackInv, Running, NEW how \in Fate \ {"open"}, Ends(how),
         NEW data \in Call \cup {None}, HandleOther(data)
  PROVE  StackInv'
<1>1. HandleDescended /\ HandleContractChange(data) /\ error' = error /\ raised' = raised
  BY DEF HandleOther
<1> QED
  BY <1>1, PopsTheLast, DescendedType, EndsKeepsStack DEF StackInv, TypeOK

LEMMA StopOrFailureKeeps == StackInv /\ (OnStop \/ OnFailure) => StackInv'
<1>1. StackInv => returnData \in Call \cup {None}
  BY DEF StackInv, TypeOK
<1>2. {"stopped", "failed"} \subseteq Fate \ {"open"}
  BY DEF Fate
<1> QED
  BY <1>1, <1>2, EndingKeeps DEF OnStop, Stop, OnFailure, Failure

LEMMA ReturnKeeps == StackInv /\ OnReturn => StackInv'
<1>1. ASSUME StackInv, OnReturn PROVE StackInv'
  <2>1. Current \in Call /\ Running /\ Ends("returned") /\ HandleOther(Current)
    BY <1>1, ReadyMeans DEF OnReturn, Return
  <2>2. "returned" \in Fate \ {"open"}
    BY DEF Fate
  <2> QED
    BY <1>1, <2>1, <2>2, EndingKeeps
<1> QED
  BY <1>1

LEMMA RevertKeeps == StackInv /\ OnRevert => StackInv'
<1> SUFFICES ASSUME StackInv, OnRevert PROVE StackInv'
  OBVIOUS
<1>1. Running /\ ready /\ Ends("reverted") /\ HandleRevert
  BY DEF OnRevert, Revert
<1>2. callstack' = frames /\ calls' = callees /\ Top \in Call
  BY <1>1, ReadyMeans DEF HandleRevert
<1>3. (error \in [Call -> BOOLEAN])'
  BY <1>1, <1>2 DEF HandleRevert, StackInv, TypeOK
<1>4. HandleDescended
  BY <1>1 DEF HandleRevert
<1>5. /\ (output \in [Call -> Call \cup {None}])'
      /\ (returnData \in Call \cup {None})' /\ raised' \in BOOLEAN
  BY <1>1 DEF HandleRevert, StackInv, TypeOK
<1>6. "reverted" \in Fate \ {"open"}
  BY DEF Fate
<1> QED
  BY <1>1, <1>2, <1>3, <1>4, <1>5, <1>6, DescendedType, EndsKeepsStack

\* What a call that is made changes, whether or not it opens a frame.
LEMMA MakesFacts ==
  ASSUME StackInv, NEW op \in CallOps, Makes(op)
  PROVE  /\ Running /\ ready /\ made' = made + 1 /\ made' \in Call /\ made \in Nat
         /\ kind' \in [Call -> CallOps \cup {"CALL"}]
         /\ caller' \in [Call -> Call] /\ account' \in [Call -> Call]
         /\ Current \in Call
         /\ caller'[made'] = Current
         /\ \A i \in DOMAIN frames : frames[i] < made' /\ caller'[frames[i]] = caller[frames[i]]
<1>1. Running /\ ready /\ made' = made + 1 /\ made' \in Call /\ made \in Nat
  BY CallType DEF Makes, StackInv, TypeOK, Call
<1>2. Current \in Call
  BY <1>1, ReadyMeans
<1>3. /\ kind' \in [Call -> CallOps \cup {"CALL"}]
      /\ caller' \in [Call -> Call] /\ account' \in [Call -> Call]
      /\ caller'[made'] = Current
  BY <1>1, <1>2 DEF Makes, StackInv, TypeOK
<1>4. \A i \in DOMAIN frames : frames[i] \in Call /\ frames[i] < made'
  <2>1. \A i \in DOMAIN frames : frames[i] \in Call /\ frames[i] \in Nat
    BY CallType, ElementOfSeq DEF StackInv, TypeOK
  <2> QED
    BY <1>1, <2>1 DEF StackInv, FramesOK
<1>5. \A i \in DOMAIN frames : caller'[frames[i]] = caller[frames[i]]
  BY <1>1, <1>3, <1>4, CallType DEF Makes, StackInv, TypeOK
<1> QED
  BY <1>1, <1>2, <1>3, <1>4, <1>5

LEMMA CallContractKeeps ==
  ASSUME StackInv, NEW op \in CallOps, OnCallContract(op)
  PROVE  StackInv'
<1> USE DEF StackInv
<1>1. Makes(op) /\ frames' = Append(frames, made') /\ fate' = fate /\ callees' = callees
  BY DEF OnCallContract, CallContract
<1>2. HandleCall(made')
  BY DEF OnCallContract
<1>3. /\ callstack = frames /\ calls = callees /\ ~Lagging
      /\ frames \in Seq(Call) /\ frames # <<>>
  BY <1>1, MakesFacts, ReadyMeans
<1>4. /\ frames' \in Seq(Call) /\ Len(frames') = Len(frames) + 1 /\ Current' = made'
      /\ DOMAIN frames' = 1 .. Len(frames) + 1 /\ DOMAIN frames = 1 .. Len(frames)
      /\ Len(frames) \in Nat \ {0}
      /\ \A i \in DOMAIN frames : frames'[i] = frames[i]
      /\ frames'[Len(frames) + 1] = made'
  BY <1>1, <1>3, MakesFacts, PushPop DEF Current
<1>5. callstack' = frames'
  BY <1>1, <1>2, <1>3 DEF HandleCall
<1>6. TypeOK'
  BY <1>1, <1>2, <1>4, <1>5, MakesFacts DEF TypeOK, HandleCall, Makes
<1>7. FramesOK'
  <2>1. fate[made'] = "open"
    BY <1>1, MakesFacts DEF Unborn
  <2>2. \A i \in DOMAIN frames : frames[i] \in Nat /\ frames[i] < made' /\ made' \in Nat
    BY <1>1, <1>3, MakesFacts, CallType
  <2>3. \A i \in DOMAIN frames' : frames'[i] <= made' /\ fate'[frames'[i]] = "open"
    BY <1>1, <1>4, <2>1, <2>2 DEF FramesOK
  <2>4. \A i, j \in DOMAIN frames' : i < j => frames'[i] < frames'[j]
    BY <1>4, <2>2 DEF FramesOK
  <2>5. \A i \in 1 .. Len(frames') - 1 : caller'[frames'[i + 1]] = frames'[i]
    <3>1. Current = frames[Len(frames)]
      BY DEF Current, Last
    <3>2. caller'[made'] = Current
      BY <1>1, MakesFacts
    <3>3. \A i \in 1 .. Len(frames) - 1 : caller'[frames[i + 1]] = frames[i]
      BY <1>1, <1>4, MakesFacts DEF FramesOK
    <3> QED
      BY <1>4, <3>1, <3>2, <3>3
  <2> QED
    BY <2>3, <2>4, <2>5 DEF FramesOK
<1>8. Unborn'
  BY <1>1, MakesFacts, CallType DEF Unborn
<1>9. ReadyPopped' /\ InSync'
  BY <1>1, <1>5 DEF ReadyPopped, InSync, Makes
<1>10. TreeMatches'
  <2>1. ~Lagging'
    BY <1>4, <1>5 DEF Lagging, Depth
  <2> QED
    BY <1>1, <1>2, <1>3, <2>1 DEF TreeMatches, HandleCall
<1> QED
  BY <1>6, <1>7, <1>8, <1>9, <1>10

LEMMA CallPlainKeeps ==
  ASSUME StackInv, NEW op \in CallOps, OnCallPlain(op)
  PROVE  StackInv'
<1> USE DEF StackInv
<1>1. /\ Makes(op) /\ frames' = frames /\ fate' = [fate EXCEPT ![made'] = "plain"]
      /\ callees' = [callees EXCEPT ![Current] = Append(@, made')]
  BY DEF OnCallPlain, CallPlain
<1>2. HandleCall(made')
  BY DEF OnCallPlain
<1>3. /\ callstack = frames /\ calls = callees
      /\ frames \in Seq(Call) /\ frames # <<>>
  BY <1>1, MakesFacts, ReadyMeans
<1>4. callstack' = Append(frames, made')
  BY <1>2, <1>3 DEF HandleCall
<1>5. /\ callstack' \in Seq(Call) /\ Len(callstack') = Len(frames) + 1
      /\ Top' = made' /\ Len(frames) \in Nat
  BY <1>1, <1>3, <1>4, MakesFacts, PushPop DEF Top
<1>6. fate' \in [Call -> Fate] /\ fate'[made'] = "plain"
  BY <1>1, MakesFacts DEF TypeOK, Fate
<1>7. callees' \in [Call -> Seq(Call)]
  BY <1>1, MakesFacts DEF TypeOK
<1>8. TypeOK'
  BY <1>1, <1>2, <1>3, <1>5, <1>6, <1>7, MakesFacts DEF TypeOK, HandleCall, Makes
<1>9. FramesOK'
  <2>1. \A i \in DOMAIN frames : frames[i] \in Call /\ frames[i] < made' /\ made' \in Nat
    BY <1>1, <1>3, MakesFacts, CallType
  <2>2. \A i \in DOMAIN frames : frames[i] <= made' /\ fate'[frames[i]] = "open"
    <3>1. \A i \in DOMAIN frames : frames[i] \in Nat /\ frames[i] # made'
      BY <2>1, CallType
    <3>2. \A i \in DOMAIN frames : fate'[frames[i]] = fate[frames[i]]
      BY <1>1, <2>1, <3>1 DEF TypeOK
    <3> QED
      BY <1>1, <2>1, <3>1, <3>2 DEF FramesOK
  <2>3. \A i \in 1 .. Len(frames) - 1 : caller'[frames[i + 1]] = caller[frames[i + 1]]
    BY <1>1, <1>3, MakesFacts
  <2> QED
    BY <1>1, <2>2, <2>3 DEF FramesOK
<1>10. Unborn'
  <2>1. \A c \in Call : c > made' => c > made /\ c # made'
    BY <1>1, MakesFacts, CallType
  <2>2. \A c \in Call : c # made' => fate'[c] = fate[c]
    BY <1>1, MakesFacts DEF TypeOK
  <2> QED
    BY <2>1, <2>2 DEF Unborn
<1>11. ReadyPopped'
  BY <1>1 DEF ReadyPopped, Makes
<1>12. Current' = Current
  BY <1>1 DEF Current
<1>13. InSync'
  BY <1>1, <1>4, <1>6, <1>12, MakesFacts DEF InSync
<1>14. TreeMatches'
  <2>1. Lagging'
    BY <1>1, <1>5, MakesFacts DEF Lagging, Depth, Running
  <2> QED
    BY <1>1, <1>2, <1>3, <1>5, <1>12, <2>1 DEF TreeMatches, HandleCall
<1> QED
  BY <1>8, <1>9, <1>10, <1>11, <1>13, <1>14

LEMMA OtherKeeps ==
  StackInv /\ (OnCallPrecompile \/ OnCreateOrSelfdestruct \/ Done) => StackInv'
<1> SUFFICES ASSUME StackInv, OnCallPrecompile \/ OnCreateOrSelfdestruct \/ Done
             PROVE  StackInv'
  OBVIOUS
<1> USE DEF StackInv
<1>1. /\ UNCHANGED <<frames, made, kind, caller, account, fate, callees>>
      /\ UNCHANGED <<callstack, calls, error, gas, output, returnData, descended>>
      /\ ready' \in {ready, FALSE} /\ raised' \in {raised, TRUE}
  BY DEF OnCallPrecompile, CallPrecompile, HandlePrecompile, OnCreateOrSelfdestruct,
         Done, vars, evmVars, convertorVars
<1>2. TypeOK'
  BY <1>1 DEF TypeOK
<1>3. FramesOK' /\ Unborn' /\ InSync'
  BY <1>1 DEF FramesOK, Unborn, InSync, Running, Current
<1>4. ReadyPopped'
  BY <1>1 DEF ReadyPopped, Running, TypeOK
<1>5. Lagging' = Lagging /\ Current' = Current /\ Top' = Top
  BY <1>1 DEF Running, Current, Lagging, Depth, Top
<1>6. TreeMatches'
  BY <1>1, <1>5 DEF TreeMatches
<1> QED
  BY <1>2, <1>3, <1>4, <1>6

LEMMA NextStack == StackInv /\ [Next]_vars => StackInv'
<1> SUFFICES ASSUME StackInv, [Next]_vars PROVE StackInv'
  OBVIOUS
<1>1. CASE UNCHANGED vars
  BY <1>1 DEF vars, evmVars, convertorVars, StackInv, TypeOK, FramesOK, Unborn,
              ReadyPopped, InSync, TreeMatches, Running, Current, Lagging, Depth, Top
<1>2. CASE \E op \in CallOps : OnCallContract(op) \/ OnCallPlain(op)
  BY <1>2, CallContractKeeps, CallPlainKeeps
<1> QED
  BY <1>1, <1>2, PlainKeeps, StopOrFailureKeeps, ReturnKeeps, RevertKeeps, OtherKeeps
  DEF Next

-----------------------------------------------------------------------------
\* The strengthened invariant holds of every execution the convertor reads.
THEOREM StackInvariant == Spec => []StackInv
BY InitStack, NextStack, PTL DEF Spec

\* Every variable keeps its type, and no handler pops an empty stack.
THEOREM ConvertorTypeCorrect == Spec => []TypeOK
<1>1. StackInv => TypeOK
  BY DEF StackInv
<1> QED
  BY <1>1, StackInvariant, PTL

\* handleCall and handleContractChange keep self.callstack in step with the
\* open frames of the execution.
THEOREM ConvertorInSync == Spec => []InSync
<1>1. StackInv => InSync
  BY DEF StackInv
<1> QED
  BY <1>1, StackInvariant, PTL

\* handleContractChange attaches every finished call to the call that made it,
\* in order.
THEOREM ConvertorTreeMatches == Spec => []TreeMatches
<1>1. StackInv => TreeMatches
  BY DEF StackInv
<1> QED
  BY <1>1, StackInvariant, PTL

\* At the end of the logs no call of the execution is missing from the tree.
THEOREM ConvertorLosesNothing == Spec => []NothingLost
<1>1. StackInv => NothingLost
  BY DEF StackInv, TreeMatches, Lagging, NothingLost
<1> QED
  BY <1>1, StackInvariant, PTL

-----------------------------------------------------------------------------
(***************************************************************************)
(* Results: the error mark, the gas and the output of each call.           *)
(***************************************************************************)
LEMMA ContainsAppend ==
  ASSUME NEW S, NEW s \in Seq(S), NEW e \in S, NEW c
  PROVE  Contains(Append(s, e), c) <=> Contains(s, c) \/ c = e
<1> DEFINE t == Append(s, e)
<1>1. /\ Len(s) \in Nat /\ Len(t) = Len(s) + 1
      /\ \A i \in 1 .. Len(s) : t[i] = s[i]
      /\ t[Len(s) + 1] = e
  BY AppendProperties
<1> HIDE DEF t
<1>2. Contains(s, c) \/ c = e => Contains(t, c)
  BY <1>1 DEF Contains
<1>3. ASSUME NEW i \in 1 .. Len(t), t[i] = c PROVE Contains(s, c) \/ c = e
  <2>1. i \in 1 .. Len(s) \/ i = Len(s) + 1
    BY <1>1
  <2> QED
    BY <1>1, <1>3, <2>1 DEF Contains
<1> QED
  BY <1>2, <1>3 DEF Contains, t

LEMMA InitResults == Init => ResultInv
<1> SUFFICES ASSUME Init PROVE ResultInv
  OBVIOUS
<1> USE CallType DEF Init, EvmInit
<1>1. Marked
  BY DEF Marked
<1>2. ~Lagging
  BY DEF Lagging, Depth
<1>3. DataHeld /\ GasTaken
  BY <1>2 DEF DataHeld, GasTaken
<1>4. Settled
  BY DEF Settled, Contains
<1> QED
  BY <1>1, <1>3, <1>4 DEF ResultInv

\* What the stack says of the topmost call, while the transaction runs.
LEMMA TopFacts ==
  ASSUME StackInv, Running
  PROVE  /\ Top \in Call /\ Current \in Call /\ fate[Current] = "open"
         /\ Len(frames) \in Nat \ {0} /\ Current = frames[Len(frames)]
         /\ \A i \in DOMAIN frames : frames[i] \in Call /\ fate[frames[i]] = "open"
         /\ \/ ~Lagging /\ callstack = frames /\ Top = Current
               /\ Depth >= Len(callstack) /\ callees = calls
            \/ Lagging /\ callstack = Append(frames, Top) /\ Front(callstack) = frames
               /\ Depth = Len(callstack) - 1 /\ fate[Top] # "open"
               /\ callees = [calls EXCEPT ![Current] = Append(@, Top)]
<1> USE DEF StackInv, TypeOK
<1>1. /\ frames \in Seq(Call) /\ frames # <<>> /\ Current \in Call /\ Depth \in Nat
      /\ Len(frames) \in Nat \ {0} /\ Current = frames[Len(frames)]
      /\ DOMAIN frames = 1 .. Len(frames)
  BY Popped DEF Running, Current, Depth, Last
<1>2. \A i \in DOMAIN frames : frames[i] \in Call /\ fate[frames[i]] = "open"
  BY <1>1, ElementOfSeq DEF FramesOK
<1>3. fate[Current] = "open"
  <2>1. Len(frames) \in DOMAIN frames
    BY <1>1
  <2> QED
    BY <1>1, <1>2, <2>1
<1>4. CASE callstack = frames
  <2>1. ~Lagging /\ Top = Current /\ Depth >= Len(callstack)
    BY <1>1, <1>4 DEF Lagging, Depth, Top, Current
  <2> QED
    BY <1>1, <1>2, <1>3, <1>4, <2>1 DEF TreeMatches
<1>5. CASE \E c \in Call : callstack = Append(frames, c) /\ fate[c] # "open"
  <2>1. PICK c \in Call : callstack = Append(frames, c) /\ fate[c] # "open"
    BY <1>5
  <2>2. Len(callstack) = Depth + 1 /\ Front(callstack) = frames /\ Top = c
    BY <1>1, <2>1, PushPop DEF Depth, Top
  <2>3. Lagging /\ Depth = Len(callstack) - 1
    BY <1>1, <2>2 DEF Lagging
  <2> QED
    BY <1>1, <1>2, <1>3, <2>1, <2>2, <2>3 DEF TreeMatches
<1> QED
  BY <1>4, <1>5 DEF InSync

(***************************************************************************)
(* An item that pops what there is to pop settles the call it pops, and no *)
(* other call's results change but the gas of the current one.             *)
(***************************************************************************)
LEMMA OtherSettles ==
  ASSUME StackInv, ResultInv, Running, NEW data \in Call \cup {None}, HandleOther(data),
         Lagging => data = returnData
  PROVE  /\ \A p, c \in Call : Contains(callees[p], c) =>
              /\ fate[c] # "open"
              /\ gas'[c] = IF fate[c] = "plain" THEN None ELSE c
              /\ output'[c] = IF fate[c] = "returned" THEN c ELSE None
         /\ \A i \in 2 .. Len(frames) : gas'[frames[i]] = frames[i]
         /\ \A c \in Call : c > made => gas'[c] = None
         /\ ~descended' /\ error' = error
         /\ returnData' = IF Lagging THEN None ELSE data
<1> USE DEF StackInv, TypeOK, ResultInv
<1>1. HandleDescended /\ HandleContractChange(data) /\ error' = error
  BY DEF HandleOther
<1>2. ~descended'
  BY <1>1 DEF HandleDescended
<1>3. \A c \in Call : c > made => gas'[c] = None
  <2>1. Len(frames) \in DOMAIN frames /\ Current = frames[Len(frames)]
    BY TopFacts
  <2>3. Current \in Nat /\ Current <= made /\ made \in Nat
    BY <2>1, TopFacts, CallType DEF FramesOK
  <2>4. \A c \in Call : c > made => c # Current
    BY <2>3, CallType
  <2> QED
    BY <1>1, <2>4, TopFacts DEF HandleDescended, GasTaken
<1>4. CASE ~Lagging
  <2>1. /\ Depth # Len(callstack) - 1 /\ Top = Current /\ callees = calls
        /\ Depth >= Len(callstack)
    BY <1>4, TopFacts DEF Depth
  <2>2. output' = output /\ returnData' = data
    BY <1>1, <2>1 DEF HandleContractChange
  <2>3. \A c \in Call : c # Current => gas'[c] = gas[c]
    BY <1>1, <2>1 DEF HandleDescended
  <2>4. \A i \in 2 .. Len(frames) : gas'[frames[i]] = frames[i]
    <3> SUFFICES ASSUME NEW i \in 2 .. Len(frames) PROVE gas'[frames[i]] = frames[i]
      OBVIOUS
    <3>1. frames[i] \in Call /\ i \in DOMAIN frames
      BY TopFacts
    <3>2. CASE i = Len(frames) /\ descended
      BY <1>1, <2>1, <3>1, <3>2, TopFacts DEF HandleDescended
    <3>3. CASE gas[frames[i]] = frames[i]
      BY <1>1, <2>1, <3>1, <3>3, TopFacts DEF HandleDescended
    <3> QED
      BY <3>2, <3>3 DEF GasTaken
  <2>5. \A p, c \in Call : Contains(calls[p], c) => c # Current
    BY TopFacts DEF Settled
  <2> QED
    BY <1>1, <1>2, <1>3, <1>4, <2>1, <2>2, <2>3, <2>4, <2>5 DEF Settled
<1>5. CASE Lagging
  <2>1. /\ callstack = Append(frames, Top) /\ Depth = Len(callstack) - 1 /\ Depth \in Nat
        /\ fate[Top] # "open" /\ Top \in Call /\ Current \in Call
        /\ callees = [calls EXCEPT ![Current] = Append(@, Top)]
    BY <1>5, TopFacts DEF Depth
  <2>2. output' = [output EXCEPT ![Top] = data] /\ returnData' = None
    BY <1>1, <2>1 DEF HandleContractChange
  <2>3. gas' = gas
    BY <1>1, <2>1 DEF HandleDescended
  <2>4. data = IF fate[Top] = "returned" THEN Top ELSE None
    BY <1>5 DEF DataHeld
  <2>5. \A i \in 2 .. Len(frames) : gas'[frames[i]] = frames[i]
    BY <1>5, <2>3 DEF GasTaken
  <2>6. \A p, c \in Call : Contains(calls[p], c) => c # Top
    BY <1>5 DEF Settled
  <2>7. \A p, c \in Call : Contains(callees[p], c) =>
              /\ fate[c] # "open"
              /\ gas'[c] = IF fate[c] = "plain" THEN None ELSE c
              /\ output'[c] = IF fate[c] = "returned" THEN c ELSE None
    <3> SUFFICES ASSUME NEW p \in Call, NEW c \in Call, Contains(callees[p], c)
                 PROVE  /\ fate[c] # "open"
                        /\ gas'[c] = IF fate[c] = "plain" THEN None ELSE c
                        /\ output'[c] = IF fate[c] = "returned" THEN c ELSE None
      OBVIOUS
    <3>1. CASE c = Top
      BY <1>5, <2>1, <2>2, <2>3, <2>4, <3>1 DEF GasTaken
    <3>2. CASE Contains(calls[p], c)
      BY <2>2, <2>3, <2>6, <3>2 DEF Settled
    <3>3. calls \in [Call -> Seq(Call)]
      OBVIOUS
    <3>4. Contains(callees[p], c) => Contains(calls[p], c) \/ c = Top
      <4>1. callees[p] = calls[p] \/ callees[p] = Append(calls[p], Top)
        BY <2>1, <3>3
      <4>2. Contains(Append(calls[p], Top), c) <=> Contains(calls[p], c) \/ c = Top
        BY <2>1, <3>3, ContainsAppend
      <4> QED
        BY <4>1, <4>2
    <3> QED
      BY <3>1, <3>2, <3>4
  <2> QED
    BY <1>1, <1>2, <1>3, <1>5, <2>2, <2>5, <2>7
<1> QED
  BY <1>4, <1>5

\* An item that leaves the frames alone: its call's data is not held back.
LEMMA PlainResults == StackInv /\ ResultInv /\ OnPlain => ResultInv'
<1> SUFFICES ASSUME StackInv, ResultInv, OnPlain PROVE ResultInv'
  OBVIOUS
<1>1. /\ Running /\ HandleOther(returnData) /\ returnData \in Call \cup {None}
      /\ UNCHANGED <<frames, made, kind, caller, account, fate, callees>>
  BY DEF OnPlain, Plain, StackInv, TypeOK
<1>2. StackInv'
  BY PlainKeeps
<1>3. callstack' = frames /\ calls' = callees /\ ~Lagging'
  BY <1>1, PopsTheLast, TopFacts DEF HandleOther, Lagging, Depth
<1>4. /\ \A p, c \in Call : Contains(callees[p], c) =>
              /\ fate[c] # "open"
              /\ gas'[c] = IF fate[c] = "plain" THEN None ELSE c
              /\ output'[c] = IF fate[c] = "returned" THEN c ELSE None
      /\ \A i \in 2 .. Len(frames) : gas'[frames[i]] = frames[i]
      /\ \A c \in Call : c > made => gas'[c] = None
      /\ ~descended' /\ error' = error
      /\ returnData' = IF Lagging THEN None ELSE returnData
  BY <1>1, OtherSettles
<1>5. Marked'
  BY <1>1, <1>4 DEF ResultInv, Marked
<1>6. DataHeld'
  BY <1>1, <1>3, <1>4 DEF ResultInv, DataHeld
<1>7. GasTaken'
  BY <1>1, <1>3, <1>4 DEF GasTaken
<1>8. Settled'
  BY <1>1, <1>3, <1>4 DEF Settled
<1> QED
  BY <1>5, <1>6, <1>7, <1>8 DEF ResultInv

(***************************************************************************)
(* The end of a frame: its call becomes the one to pop, with its gas taken *)
(* and the data it returned, if it did, held.                              *)
(***************************************************************************)
LEMMA EndsKeepsResults ==
  ASSUME StackInv, StackInv', ResultInv, Running, NEW how \in Fate \ {"open", "plain"},
         Ends(how), callstack' = frames, calls' = callees, ~descended',
         \A c \in Call : error'[c] <=> (error[c] \/ (c = Current /\ how = "reverted")),
         returnData' = IF how = "returned" THEN Current ELSE None,
         \A c \in Call : c > made => gas'[c] = None,
         \A i \in 2 .. Len(frames) : gas'[frames[i]] = frames[i],
         \A p, c \in Call : Contains(callees[p], c) =>
              /\ fate[c] # "open"
              /\ gas'[c] = IF fate[c] = "plain" THEN None ELSE c
              /\ output'[c] = IF fate[c] = "returned" THEN c ELSE None
  PROVE  ResultInv'
<1>1. /\ Current \in Call /\ fate[Current] = "open" /\ Current = frames[Len(frames)]
      /\ Len(frames) \in Nat \ {0} /\ Len(frames') = Len(frames) - 1
      /\ frames \in Seq(Call) /\ frames' = Front(frames)
      /\ \A i \in 1 .. Len(frames) - 1 : frames'[i] = frames[i]
  <2>1. frames \in Seq(Call) /\ frames # <<>> /\ frames' = Front(frames)
    BY DEF StackInv, TypeOK, Running, Ends
  <2>2. /\ Len(Front(frames)) = Len(frames) - 1
        /\ \A i \in 1 .. Len(frames) - 1 : Front(frames)[i] = frames[i]
    BY ONLY <2>1, Popped
  <2>3. /\ Current \in Call /\ fate[Current] = "open" /\ Current = frames[Len(frames)]
        /\ Len(frames) \in Nat \ {0}
    BY TopFacts
  <2> QED
    BY <2>1, <2>2, <2>3
<1>2. /\ fate \in [Call -> Fate] /\ fate' = [fate EXCEPT ![Current] = how]
      /\ made' = made /\ ready' = FALSE
  BY DEF StackInv, TypeOK, Ends
<1>3. fate'[Current] = how /\ \A c \in Call : c # Current => fate'[c] = fate[c]
  BY <1>1, <1>2
<1>4. how \notin {"open", "plain"}
  OBVIOUS
<1>5. Marked'
  <2> SUFFICES ASSUME NEW c \in Call PROVE error'[c] <=> fate'[c] = "reverted"
    BY DEF Marked
  <2>1. error[c] <=> fate[c] = "reverted"
    BY DEF ResultInv, Marked
  <2>2. CASE c = Current
    BY <1>1, <1>3, <2>1, <2>2
  <2>3. CASE c # Current
    BY <1>3, <2>1, <2>3
  <2> QED
    BY <2>2, <2>3
<1>6. Lagging' => Running' /\ Top' = Current
  <2> SUFFICES ASSUME Lagging' PROVE Running' /\ Top' = Current
    OBVIOUS
  <2>1. Running'
    BY DEF Lagging
  <2>2. callstack' = frames
    OBVIOUS
  <2> QED
    BY <2>1, <2>2 DEF Top, Current
<1>7. Running' => Lagging'
  BY <1>1 DEF Lagging, Depth
<1>8. DataHeld'
  BY <1>3, <1>4, <1>6, <1>7 DEF DataHeld
<1>9. GasTaken'
  <2>1. \A i \in 2 .. Len(frames') : gas'[frames'[i]] = frames'[i]
    BY <1>1
  <2>2. Lagging' => gas'[Current] = Current
    <3>1. Lagging' => Len(frames) \in 2 .. Len(frames)
      <4>1. Running' => Len(frames') # 0
        BY <1>1, Popped, EmptySeq DEF Running
      <4> QED
        BY <1>1, <1>6, <4>1
    <3> QED
      BY <1>1, <3>1
  <2>3. Lagging' => gas'[Top'] = IF fate'[Top'] = "plain" THEN None ELSE Top'
    BY <1>3, <1>4, <1>6, <2>2
  <2> QED
    BY <1>2, <2>1, <2>3 DEF GasTaken
<1>10. Settled'
  <2>1. \A p, c \in Call : Contains(callees[p], c) => c # Current /\ fate'[c] = fate[c]
    BY <1>1, <1>3
  <2> QED
    BY <1>6, <2>1 DEF Settled
<1> QED
  BY <1>5, <1>8, <1>9, <1>10 DEF ResultInv

LEMMA EndingResults ==
  ASSUME StackInv, StackInv', ResultInv, Running,
         NEW how \in Fate \ {"open", "plain", "reverted"}, Ends(how),
         NEW data \in Call \cup {None}, HandleOther(data), Lagging => data = returnData,
         ~Lagging => data = IF how = "returned" THEN Current ELSE None,
         Lagging => how # "returned"
  PROVE  ResultInv'
<1>1. HandleContractChange(data) /\ how # "reverted" /\ how \in Fate \ {"open", "plain"}
  BY DEF HandleOther
<1>2. callstack' = frames /\ calls' = callees
  BY <1>1, PopsTheLast
<1>3. /\ \A p, c \in Call : Contains(callees[p], c) =>
              /\ fate[c] # "open"
              /\ gas'[c] = IF fate[c] = "plain" THEN None ELSE c
              /\ output'[c] = IF fate[c] = "returned" THEN c ELSE None
      /\ \A i \in 2 .. Len(frames) : gas'[frames[i]] = frames[i]
      /\ \A c \in Call : c > made => gas'[c] = None
      /\ ~descended' /\ error' = error
      /\ returnData' = IF Lagging THEN None ELSE data
  BY OtherSettles
<1>4. \A c \in Call : error'[c] <=> (error[c] \/ (c = Current /\ how = "reverted"))
  BY <1>1, <1>3 DEF StackInv, TypeOK
<1>5. returnData' = IF how = "returned" THEN Current ELSE None
  BY <1>3
<1> QED
  BY <1>1, <1>2, <1>3, <1>4, <1>5, EndsKeepsResults

LEMMA StopOrFailureResults == StackInv /\ ResultInv /\ (OnStop \/ OnFailure) => ResultInv'
<1> SUFFICES ASSUME StackInv, ResultInv, OnStop \/ OnFailure PROVE ResultInv'
  OBVIOUS
<1>1. StackInv' /\ Running /\ HandleOther(returnData) /\ (Ends("stopped") \/ Ends("failed"))
  BY StopOrFailureKeeps DEF OnStop, Stop, OnFailure, Failure
<1>2. {"stopped", "failed"} \subseteq Fate \ {"open", "plain", "reverted"}
  BY DEF Fate
<1>3. returnData \in Call \cup {None} /\ (~Lagging => returnData = None)
  BY <1>1 DEF StackInv, TypeOK, ResultInv, DataHeld
<1> QED
  BY <1>1, <1>2, <1>3, EndingResults

LEMMA ReturnResults == StackInv /\ ResultInv /\ OnReturn => ResultInv'
<1> SUFFICES ASSUME StackInv, ResultInv, OnReturn PROVE ResultInv'
  OBVIOUS
<1>1. StackInv' /\ Running /\ ready /\ Ends("returned") /\ HandleOther(Current)
  BY ReturnKeeps DEF OnReturn, Return
<1>2. ~Lagging /\ Current \in Call
  BY <1>1, ReadyMeans
<1>3. "returned" \in Fate \ {"open", "plain", "reverted"}
  BY DEF Fate
<1> QED
  BY <1>1, <1>2, <1>3, EndingResults

LEMMA RevertResults == StackInv /\ ResultInv /\ OnRevert => ResultInv'
<1> SUFFICES ASSUME StackInv, ResultInv, OnRevert PROVE ResultInv'
  OBVIOUS
<1>1. StackInv' /\ Running /\ ready /\ Ends("reverted") /\ HandleRevert
  BY RevertKeeps DEF OnRevert, Revert
<1>2. callstack = frames /\ calls = callees /\ ~Lagging /\ Top = Current /\ Top \in Call
  BY <1>1, ReadyMeans
<1>3. /\ ~descended' /\ gas' = gas /\ output' = output
      /\ callstack' = frames /\ calls' = callees /\ returnData' = None
      /\ error' = [error EXCEPT ![Current] = TRUE]
  BY <1>1, <1>2 DEF HandleRevert, HandleDescended, ResultInv, GasTaken, DataHeld
<1>4. \A c \in Call : error'[c] <=> (error[c] \/ c = Current)
  BY <1>3 DEF StackInv, TypeOK
<1>5. "reverted" \in Fate \ {"open", "plain"}
  BY DEF Fate
<1>6. \A c \in Call : c > made => gas'[c] = None
  BY <1>3 DEF ResultInv, GasTaken
<1>7. \A i \in 2 .. Len(frames) : gas'[frames[i]] = frames[i]
  BY <1>1, <1>3 DEF ResultInv, GasTaken
<1>8. \A p, c \in Call : Contains(callees[p], c) =>
        /\ fate[c] # "open"
        /\ gas'[c] = IF fate[c] = "plain" THEN None ELSE c
        /\ output'[c] = IF fate[c] = "returned" THEN c ELSE None
  BY <1>2, <1>3 DEF ResultInv, Settled
<1> DEFINE how == "reverted"
<1>9. /\ how \in Fate \ {"open", "plain"} /\ Ends(how)
      /\ \A c \in Call : error'[c] <=> (error[c] \/ (c = Current /\ how = "reverted"))
      /\ returnData' = IF how = "returned" THEN Current ELSE None
  BY <1>1, <1>3, <1>4, <1>5
<1> HIDE DEF how
<1> QED
  BY <1>1, <1>3, <1>6, <1>7, <1>8, <1>9, EndsKeepsResults

\* A call that was just pushed has no results yet, and neither has it an error.
LEMMA CallContractResults ==
  ASSUME StackInv, ResultInv, NEW op \in CallOps, OnCallContract(op)
  PROVE  ResultInv'
<1>1. /\ Makes(op) /\ frames' = Append(frames, made') /\ fate' = fate /\ callees' = callees
      /\ HandleCall(made') /\ StackInv'
  BY CallContractKeeps DEF OnCallContract, CallContract
<1>2. /\ callstack = frames /\ ~Lagging /\ frames \in Seq(Call) /\ frames # <<>>
      /\ made' = made + 1 /\ made' \in Call /\ made \in Nat /\ Running /\ ready
  BY <1>1, MakesFacts, ReadyMeans
<1>3. /\ callstack' = frames' /\ descended' /\ ~ready' /\ ~descended
      /\ UNCHANGED <<calls, error, gas, output, returnData>>
  BY <1>1, <1>2 DEF HandleCall, Makes, ResultInv, GasTaken
<1>4. /\ Len(frames') = Len(frames) + 1 /\ Len(frames) \in Nat
      /\ \A i \in 1 .. Len(frames) : frames'[i] = frames[i]
  BY <1>1, <1>2, AppendProperties
<1>5. ~Lagging'
  BY <1>3, <1>4 DEF Lagging, Depth
<1>6. Marked' /\ Settled'
  BY <1>1, <1>3, <1>5 DEF ResultInv, Marked, Settled
<1>7. DataHeld'
  BY <1>2, <1>3, <1>5 DEF ResultInv, DataHeld
<1>8. GasTaken'
  <2>1. \A c \in Call : c > made' => gas'[c] = None
    BY <1>2, <1>3, CallType DEF ResultInv, GasTaken
  <2>2. \A i \in 2 .. Len(frames) : gas'[frames'[i]] = frames'[i]
    BY <1>3, <1>4 DEF ResultInv, GasTaken
  <2>3. \A i \in 2 .. Len(frames') :
          gas'[frames'[i]] = frames'[i] \/ (i = Len(frames') /\ descended' /\ ~Lagging')
    BY <1>3, <1>4, <1>5, <2>2
  <2> QED
    BY <1>3, <1>5, <2>1, <2>3 DEF GasTaken
<1> QED
  BY <1>6, <1>7, <1>8 DEF ResultInv

LEMMA CallPlainResults ==
  ASSUME StackInv, ResultInv, NEW op \in CallOps, OnCallPlain(op)
  PROVE  ResultInv'
<1>1. /\ Makes(op) /\ frames' = frames /\ fate' = [fate EXCEPT ![made'] = "plain"]
      /\ HandleCall(made') /\ StackInv'
  BY CallPlainKeeps DEF OnCallPlain, CallPlain
<1>2. /\ callstack = frames /\ ~Lagging /\ frames \in Seq(Call) /\ frames # <<>>
      /\ made' = made + 1 /\ made' \in Call /\ made \in Nat /\ Running /\ ready
  BY <1>1, MakesFacts, ReadyMeans
<1>3. /\ callstack' = Append(frames, made') /\ descended' /\ ~ready' /\ ~descended
      /\ UNCHANGED <<calls, error, gas, output, returnData>>
  BY <1>1, <1>2 DEF HandleCall, Makes, ResultInv, GasTaken
<1>4. Top' = made' /\ Len(frames) \in Nat
  BY <1>2, <1>3, PushPop DEF Top
<1>5. /\ fate'[made'] = "plain" /\ fate[made'] = "open"
      /\ \A c \in Call : c # made' => fate'[c] = fate[c]
  BY <1>1, <1>2 DEF StackInv, TypeOK, Unborn
<1>6. Marked'
  <2> SUFFICES ASSUME NEW c \in Call PROVE error'[c] <=> fate'[c] = "reverted"
    BY DEF Marked
  <2>1. error'[c] <=> fate[c] = "reverted"
    BY <1>3 DEF ResultInv, Marked
  <2> QED
    BY <1>5, <2>1
<1>7. DataHeld'
  BY <1>2, <1>3, <1>4, <1>5 DEF ResultInv, DataHeld
<1>8. GasTaken'
  <2>1. \A c \in Call : c > made' => gas'[c] = None
    BY <1>2, <1>3, CallType DEF ResultInv, GasTaken
  <2>2. \A i \in 2 .. Len(frames') : gas'[frames'[i]] = frames'[i]
    BY <1>1, <1>3 DEF ResultInv, GasTaken
  <2>3. gas'[made'] = None
    BY <1>2, <1>3 DEF ResultInv, GasTaken
  <2> QED
    BY <1>3, <1>4, <1>5, <2>1, <2>2, <2>3 DEF GasTaken
<1>9. Settled'
  <2>1. \A p, c \in Call : Contains(calls[p], c) => c # made'
    BY <1>5 DEF ResultInv, Settled
  <2> QED
    BY <1>3, <1>4, <1>5, <2>1 DEF ResultInv, Settled
<1> QED
  BY <1>6, <1>7, <1>8, <1>9 DEF ResultInv

LEMMA OtherResults ==
  StackInv /\ ResultInv /\ (OnCallPrecompile \/ OnCreateOrSelfdestruct \/ UNCHANGED vars)
  => ResultInv'
<1> SUFFICES ASSUME StackInv, ResultInv,
                    OnCallPrecompile \/ OnCreateOrSelfdestruct \/ UNCHANGED vars
             PROVE  ResultInv'
  OBVIOUS
<1>1. /\ UNCHANGED <<frames, made, kind, caller, account, fate, callees>>
      /\ UNCHANGED <<callstack, calls, error, gas, output, returnData, descended>>
      /\ ready' => ready
  BY DEF OnCallPrecompile, CallPrecompile, HandlePrecompile, OnCreateOrSelfdestruct,
         vars, evmVars, convertorVars
<1>2. Lagging' = Lagging /\ Running' = Running /\ Top' = Top
  BY <1>1 DEF Running, Lagging, Depth, Top
<1> QED
  BY <1>1, <1>2 DEF ResultInv, Marked, DataHeld, GasTaken, Settled

LEMMA NextResults == StackInv /\ ResultInv /\ [Next]_vars => ResultInv'
<1> SUFFICES ASSUME StackInv, ResultInv, [Next]_vars PROVE ResultInv'
  OBVIOUS
<1>1. CASE \E op \in CallOps : OnCallContract(op) \/ OnCallPlain(op)
  BY <1>1, CallContractResults, CallPlainResults
<1>2. CASE UNCHANGED vars \/ Done
  BY <1>2, OtherResults DEF Done
<1> QED
  BY <1>1, <1>2, PlainResults, StopOrFailureResults, ReturnResults, RevertResults,
     OtherResults DEF Next

-----------------------------------------------------------------------------
LEMMA MadeAreCalls == TypeOK => 0 .. made \subseteq Call /\ 1 .. made \subseteq Call
<1> SUFFICES ASSUME TypeOK, NEW c \in 0 .. made PROVE c \in Call
  BY CallType DEF TypeOK, Call
<1>1. made \in Nat /\ made <= MaxCalls
  BY TraceAssumption DEF TypeOK, Call
<1> QED
  BY <1>1, TraceAssumption DEF Call

\* What the convertor says of each call's error, gas and output at every item of
\* the logs, and what returnData holds, in executions of any length whose CALL,
\* RETURN and REVERT items do not fail themselves.
THEOREM ResultInvariant == Spec => []ResultInv
BY InitStack, NextStack, StackInvariant, InitResults, NextResults, PTL DEF Spec

\* handleRevert marks "execution reverted" on the calls whose own code
\* executed REVERT and on no other.
THEOREM ConvertorRevertsMarked == Spec => []RevertsMarked
<1>1. StackInv /\ ResultInv => RevertsMarked
  BY MadeAreCalls DEF StackInv, ResultInv, Marked, RevertsMarked
<1> QED
  BY <1>1, StackInvariant, ResultInvariant, PTL

\* handleDescended and handleContractChange give each finished call the gas of
\* its own first item and the data that it returned itself.
THEOREM ConvertorResultsOwn == Spec => []ResultsOwn
<1>1. StackInv /\ ResultInv => ResultsOwn
  BY MadeAreCalls DEF StackInv, ResultInv, Settled, ResultsOwn
<1> QED
  BY <1>1, StackInvariant, ResultInvariant, PTL

-----------------------------------------------------------------------------
(***************************************************************************)
(* Senders: the account a call's caller ran as.                            *)
(***************************************************************************)
\* A set of naturals has a least element: the induction over calls.
LEMMA LeastCall ==
  ASSUME NEW T, T \subseteq Nat, T # {}
  PROVE  \E x \in T : \A y \in T : x <= y
<1> DEFINE R == {ss \in Nat \X Nat : ss[1] < ss[2]}
<1>1. IsWellFoundedOn(OpToRel(<, Nat), Nat)
  BY NatLessThanWellFounded
<1>2. R = OpToRel(<, Nat)
  BY Zenon DEF OpToRel
<1>3. IsWellFoundedOn(R, Nat)
  BY <1>1, <1>2, Zenon
<1>4. \A x, y \in Nat : y < x => <<y, x>> \in R
  OBVIOUS
<1> HIDE DEF R
<1>5. PICK x \in T : \A y \in T : ~ (<<y, x>> \in R)
  BY <1>3, WFMin
<1>6. \A y \in T : ~ (y < x)
  BY <1>4, <1>5
<1>7. \A y \in T : x <= y
  <2> TAKE y \in T
  <2>1. x \in Int /\ y \in Int /\ ~(y < x)
    BY <1>6
  <2> QED
    BY <2>1
<1> QED
  BY <1>7

LEMMA InitFamily == Init => FamilyInv
<1> SUFFICES ASSUME Init PROVE FamilyInv
  OBVIOUS
<1> USE CallType DEF Init, EvmInit
<1>1. Lineage
  BY DEF Lineage
<1>2. \A p, c \in Call : ~Contains(callees[p], c)
  BY DEF Contains
<1>3. \A c \in 0 .. made : \E i \in DOMAIN frames : frames[i] = c
  <2>1. 1 \in DOMAIN frames /\ frames[1] = 0
    OBVIOUS
  <2> QED
    BY <2>1
<1>4. Registered
  BY <1>2, <1>3 DEF Registered
<1> QED
  BY <1>1, <1>4 DEF FamilyInv

LEMMA EndsKeepsFamily ==
  ASSUME StackInv, FamilyInv, Running, NEW how \in Fate \ {"open"}, Ends(how)
  PROVE  FamilyInv'
<1>1. /\ frames \in Seq(Call) /\ frames # <<>> /\ frames' = Front(frames)
      /\ UNCHANGED <<made, kind, caller, account>>
      /\ fate' = [fate EXCEPT ![Current] = how] /\ fate \in [Call -> Fate]
      /\ callees \in [Call -> Seq(Call)] /\ caller \in [Call -> Call]
      /\ made \in Nat /\ frames[1] = 0
  BY CallType DEF StackInv, TypeOK, Running, Ends, FamilyInv, Registered
<1>2. /\ Len(frames') = Len(frames) - 1 /\ Len(frames) \in Nat \ {0}
      /\ \A i \in 1 .. Len(frames) - 1 : frames'[i] = frames[i]
      /\ DOMAIN frames' = 1 .. Len(frames) - 1 /\ DOMAIN frames = 1 .. Len(frames)
  <2>1. /\ Len(Front(frames)) = Len(frames) - 1 /\ Len(frames) \in Nat \ {0}
        /\ DOMAIN Front(frames) = 1 .. Len(frames) - 1
        /\ \A i \in 1 .. Len(frames) - 1 : Front(frames)[i] = frames[i]
    BY ONLY <1>1, Popped
  <2>2. DOMAIN frames = 1 .. Len(frames)
    BY <1>1
  <2> QED
    BY <1>1, <2>1, <2>2
<1>3. Current \in Call /\ fate[Current] = "open" /\ Current = frames[Len(frames)]
  BY TopFacts
<1>4. \A c \in Call : c # Current => fate'[c] = fate[c]
  BY <1>1
<1>5. Lineage'
  BY <1>1 DEF FamilyInv, Lineage
<1>6. \A c \in 0 .. made : fate'[c] = "open" => \E i \in DOMAIN frames' : frames'[i] = c
  <2> SUFFICES ASSUME NEW c \in 0 .. made, fate'[c] = "open"
               PROVE  \E i \in DOMAIN frames' : frames'[i] = c
    OBVIOUS
  <2>1. c # Current /\ c \in Call
    BY <1>1, <1>3, MadeAreCalls DEF StackInv
  <2>2. PICK i \in DOMAIN frames : frames[i] = c
    BY <1>4, <2>1 DEF FamilyInv, Registered
  <2>3. i \in 1 .. Len(frames) - 1
    BY <1>2, <1>3, <2>1, <2>2
  <2> QED
    BY <1>2, <2>2, <2>3
<1>7. Running' => frames'[1] = 0
  <2>1. Running' => Len(frames') # 0
    BY <1>1, Popped, EmptySeq DEF Running
  <2> QED
    BY <1>1, <1>2, <2>1
<1>8. CASE Depth = 1
  <2>1. Current = 0 /\ callees' = callees
    BY <1>1, <1>3, <1>8 DEF Depth, Ends
  <2>2. \A c \in 1 .. made : fate'[c] # "open" => Contains(callees[caller[c]], c)
    BY <1>4, <2>1, MadeAreCalls DEF StackInv, FamilyInv, Registered
  <2> QED
    BY <1>1, <1>5, <1>6, <1>7, <2>1, <2>2 DEF FamilyInv, Registered
<1>9. CASE Depth # 1
  <2> DEFINE q == caller[Current]
  <2>1. callees' = [callees EXCEPT ![q] = Append(@, Current)] /\ q \in Call
    BY <1>1, <1>3, <1>9 DEF Ends
  <2>2. Current \in 1 .. made
    <3>1. 1 \in DOMAIN frames /\ Len(frames) \in DOMAIN frames /\ 1 < Len(frames)
      BY <1>2, <1>9 DEF Depth
    <3>2. frames[1] < Current /\ Current <= made
      BY <1>3, <3>1 DEF StackInv, FramesOK
    <3> QED
      BY <1>1, <1>3, <3>2, CallType
  <2>3. \A p, c \in Call : Contains(callees'[p], c) <=>
                             Contains(callees[p], c) \/ (p = q /\ c = Current)
    <3> TAKE p, c \in Call
    <3>1. Contains(Append(callees[q], Current), c) <=> Contains(callees[q], c) \/ c = Current
      BY <1>1, <1>3, <2>1, ContainsAppend
    <3>2. callees'[p] = IF p = q THEN Append(callees[q], Current) ELSE callees[p]
      BY <1>1, <2>1
    <3> QED
      BY <3>1, <3>2
  <2> HIDE DEF q
  <2>4. \A p, c \in Call : Contains(callees'[p], c) => c \in 1 .. made /\ caller[c] = p
    BY <2>2, <2>3 DEF FamilyInv, Registered, q
  <2>5. \A c \in 1 .. made : fate'[c] # "open" => Contains(callees'[caller[c]], c)
    <3> SUFFICES ASSUME NEW c \in 1 .. made, fate'[c] # "open"
                 PROVE  Contains(callees'[caller[c]], c)
      OBVIOUS
    <3>1. c \in Call /\ caller[c] \in Call
      BY <1>1, MadeAreCalls DEF StackInv
    <3>2. CASE c = Current
      BY <2>1, <2>3, <3>1, <3>2 DEF q
    <3>3. CASE c # Current
      BY <1>4, <2>3, <3>1, <3>3 DEF FamilyInv, Registered
    <3> QED
      BY <3>2, <3>3
  <2> QED
    BY <1>1, <1>5, <1>6, <1>7, <2>4, <2>5 DEF FamilyInv, Registered
<1> QED
  BY <1>8, <1>9

\* A call that is made gets its caller and its account, and is in the frames
\* or finished.
LEMMA MakesLineage ==
  ASSUME StackInv, FamilyInv, NEW op \in CallOps, Makes(op)
  PROVE  /\ Lineage' /\ caller'[made'] = Current /\ Current \in Call
         /\ made' = made + 1 /\ made \in Nat /\ made' \in Call
         /\ \A c \in 1 .. made : c \in Call /\ caller'[c] = caller[c]
<1>1. /\ Running /\ made' = made + 1 /\ made' \in Call /\ made \in Nat /\ Current \in Call
      /\ caller'[made'] = Current
  BY MakesFacts
<1>2. /\ kind' = [kind EXCEPT ![made'] = op] /\ caller' = [caller EXCEPT ![made'] = Current]
      /\ account' = [account EXCEPT ![made'] =
                       IF op \in {"DELEGATECALL", "CALLCODE"} THEN account[Current] ELSE made']
      /\ kind \in [Call -> CallOps \cup {"CALL"}]
      /\ caller \in [Call -> Call] /\ account \in [Call -> Call]
  BY DEF Makes, StackInv, TypeOK
<1>3. Current < made' /\ Current \in Nat
  <2>1. Len(frames) \in DOMAIN frames /\ Current = frames[Len(frames)]
    BY <1>1, TopFacts
  <2> QED
    BY <1>1, <2>1, MakesFacts, CallType
<1>4. \A c \in 0 .. made : c \in Call /\ c # made'
  BY <1>1, MadeAreCalls DEF StackInv
<1>5. \A c \in 1 .. made : caller[c] \in 0 .. made /\ caller[c] < c
  <2> TAKE c \in 1 .. made
  <2>1. caller[c] \in Nat /\ caller[c] < c
    BY <1>2, <1>4, CallType DEF FamilyInv, Lineage
  <2> QED
    BY <1>1, <2>1
<1>6. \A c \in 1 .. made' :
        /\ caller'[c] < c
        /\ account'[c] = IF kind'[c] \in {"DELEGATECALL", "CALLCODE"}
                         THEN account'[caller'[c]] ELSE c
  <2> TAKE c \in 1 .. made'
  <2>1. CASE c = made'
    BY <1>1, <1>2, <1>3, <2>1
  <2>2. CASE c \in 1 .. made
    <3>1. caller'[c] = caller[c] /\ kind'[c] = kind[c] /\ account'[c] = account[c]
      BY <1>2, <1>4, <2>2
    <3>2. caller[c] \in Call /\ caller[c] # made'
      BY <1>4, <1>5, <2>2
    <3>3. account'[caller[c]] = account[caller[c]]
      BY <1>2, <3>2
    <3> QED
      BY <2>2, <3>1, <3>3 DEF FamilyInv, Lineage
  <2> QED
    BY <1>1, <2>1, <2>2
<1>7. account'[0] = 0
  BY <1>1, <1>2, <1>4, CallType DEF FamilyInv, Lineage
<1>8. \A c \in Call : c > made' => kind'[c] = "CALL"
  BY <1>1, <1>2, CallType DEF FamilyInv, Lineage
<1> QED
  BY <1>1, <1>2, <1>4, <1>6, <1>7, <1>8 DEF Lineage

LEMMA CallContractFamily ==
  ASSUME StackInv, FamilyInv, NEW op \in CallOps, OnCallContract(op)
  PROVE  FamilyInv'
<1>1. /\ Makes(op) /\ frames' = Append(frames, made') /\ fate' = fate /\ callees' = callees
      /\ frames \in Seq(Call) /\ frames # <<>>
  BY DEF OnCallContract, CallContract, Makes, Running, StackInv, TypeOK
<1>2. /\ Lineage' /\ made' = made + 1 /\ made \in Nat /\ made' \in Call
      /\ \A c \in 1 .. made : c \in Call /\ caller'[c] = caller[c]
  BY <1>1, MakesLineage
<1>3. /\ Len(frames') = Len(frames) + 1 /\ Len(frames) \in Nat \ {0}
      /\ \A i \in 1 .. Len(frames) : frames'[i] = frames[i]
      /\ DOMAIN frames' = 1 .. Len(frames) + 1 /\ DOMAIN frames = 1 .. Len(frames)
      /\ frames'[Len(frames) + 1] = made'
  BY ONLY <1>1, <1>2, AppendProperties, EmptySeq
<1>4. fate[made'] = "open"
  BY <1>2 DEF StackInv, Unborn
<1>5. \A p, c \in Call : Contains(callees[p], c) => c \in 1 .. made' /\ caller'[c] = p
  BY <1>2 DEF FamilyInv, Registered
<1>6. \A c \in 1 .. made' : fate[c] # "open" => Contains(callees[caller'[c]], c)
  BY <1>2, <1>4 DEF FamilyInv, Registered
<1>7. \A c \in 0 .. made' : fate[c] = "open" => \E i \in DOMAIN frames' : frames'[i] = c
  <2> SUFFICES ASSUME NEW c \in 0 .. made', fate[c] = "open"
               PROVE  \E i \in DOMAIN frames' : frames'[i] = c
    OBVIOUS
  <2>1. CASE c = made'
    BY <1>3, <2>1
  <2>2. CASE c \in 0 .. made
    BY <1>3, <2>2 DEF FamilyInv, Registered
  <2> QED
    BY <1>2, <2>1, <2>2
<1>8. frames'[1] = 0
  BY <1>1, <1>3 DEF FamilyInv, Registered, Running
<1> QED
  BY <1>1, <1>2, <1>5, <1>6, <1>7, <1>8 DEF FamilyInv, Registered

LEMMA CallPlainFamily ==
  ASSUME StackInv, FamilyInv, NEW op \in CallOps, OnCallPlain(op)
  PROVE  FamilyInv'
<1>1. /\ Makes(op) /\ frames' = frames /\ fate' = [fate EXCEPT ![made'] = "plain"]
      /\ callees' = [callees EXCEPT ![Current] = Append(@, made')]
      /\ callees \in [Call -> Seq(Call)] /\ fate \in [Call -> Fate]
  BY DEF OnCallPlain, CallPlain, StackInv, TypeOK
<1>2. /\ Lineage' /\ made' = made + 1 /\ made \in Nat /\ made' \in Call
      /\ caller'[made'] = Current /\ Current \in Call
      /\ \A c \in 1 .. made : c \in Call /\ caller'[c] = caller[c]
  BY <1>1, MakesLineage
<1>3. \A p, c \in Call : Contains(callees'[p], c) <=>
                           Contains(callees[p], c) \/ (p = Current /\ c = made')
  <2> TAKE p, c \in Call
  <2>1. Contains(Append(callees[Current], made'), c)
          <=> Contains(callees[Current], c) \/ c = made'
    BY <1>1, <1>2, ContainsAppend
  <2>2. callees'[p] = IF p = Current THEN Append(callees[Current], made') ELSE callees[p]
    BY <1>1, <1>2
  <2> QED
    BY <2>1, <2>2
<1>4. \A p, c \in Call : Contains(callees'[p], c) => c \in 1 .. made' /\ caller'[c] = p
  BY <1>2, <1>3 DEF FamilyInv, Registered
<1>5. \A c \in 0 .. made : c \in Call /\ fate'[c] = fate[c]
  BY <1>1, <1>2, MadeAreCalls DEF StackInv
<1>6. \A c \in 1 .. made' : fate'[c] # "open" => Contains(callees'[caller'[c]], c)
  <2> SUFFICES ASSUME NEW c \in 1 .. made', fate'[c] # "open"
               PROVE  Contains(callees'[caller'[c]], c)
    OBVIOUS
  <2>1. CASE c = made'
    BY <1>2, <1>3, <2>1
  <2>2. CASE c \in 1 .. made
    <3>1. Contains(callees[caller[c]], c) /\ caller[c] \in Call
      BY <1>5, <2>2 DEF FamilyInv, Registered, StackInv, TypeOK
    <3> QED
      BY <1>2, <1>3, <2>2, <3>1
  <2> QED
    BY <1>2, <2>1, <2>2
<1>7. \A c \in 0 .. made' : fate'[c] = "open" => \E i \in DOMAIN frames' : frames'[i] = c
  <2>1. fate'[made'] = "plain"
    BY <1>1, <1>2
  <2>2. \A c \in 0 .. made' : c = made' \/ c \in 0 .. made
    BY <1>2
  <2> QED
    BY <1>1, <1>5, <2>1, <2>2 DEF FamilyInv, Registered
<1>8. Running' => frames'[1] = 0
  BY <1>1 DEF FamilyInv, Registered, Running
<1> QED
  BY <1>2, <1>4, <1>6, <1>7, <1>8 DEF FamilyInv, Registered

LEMMA NextFamily == StackInv /\ FamilyInv /\ [Next]_vars => FamilyInv'
<1> SUFFICES ASSUME StackInv, FamilyInv, [Next]_vars PROVE FamilyInv'
  OBVIOUS
<1>1. CASE UNCHANGED <<frames, made, kind, caller, account, fate, callees>>
  BY <1>1 DEF FamilyInv, Lineage, Registered, Running
<1>2. CASE \E op \in CallOps : OnCallContract(op) \/ OnCallPlain(op)
  BY <1>2, CallContractFamily, CallPlainFamily
<1>3. CASE OnStop \/ OnFailure \/ OnReturn \/ OnRevert
  <2>1. Running /\ \E how \in {"stopped", "failed", "returned", "reverted"} : Ends(how)
    BY <1>3 DEF OnStop, OnFailure, OnReturn, OnRevert, Stop, Failure, Return, Revert
  <2>2. {"stopped", "failed", "returned", "reverted"} \subseteq Fate \ {"open"}
    BY DEF Fate
  <2> QED
    BY <2>1, <2>2, EndsKeepsFamily
<1> QED
  BY <1>1, <1>2, <1>3 DEF Next, OnPlain, Plain, OnCallPrecompile, CallPrecompile,
     OnCreateOrSelfdestruct, Done, vars, evmVars

\* Who called whom, and as which account, is known at every item of the logs.
THEOREM FamilyInvariant == Spec => []FamilyInv
BY InitStack, NextStack, StackInvariant, InitFamily, NextFamily, PTL DEF Spec

\* At the end the tree tells every call's caller.
LEMMA Parents ==
  ASSUME StackInv, FamilyInv, ~Running, NEW c \in 1 .. made
  PROVE  ParentOf(c) = caller[c] /\ caller[c] \in 0 .. made /\ caller[c] < c
<1>1. calls = callees /\ frames = <<>>
  BY DEF StackInv, TreeMatches, Lagging, Running
<1>2. c \in Call /\ caller[c] \in Call /\ caller[c] \in Nat /\ made \in Nat /\ caller[c] < c
  BY MadeAreCalls, CallType DEF StackInv, TypeOK, FamilyInv, Lineage
<1>3. fate[c] # "open"
  <2>1. DOMAIN frames = {} /\ c \in 0 .. made
    BY <1>1, <1>2
  <2> QED
    BY <2>1 DEF FamilyInv, Registered
<1>4. Contains(calls[caller[c]], c)
  BY <1>1, <1>3 DEF FamilyInv, Registered
<1>5. \A p \in Call : Contains(calls[p], c) => p = caller[c]
  BY <1>1, <1>2 DEF FamilyInv, Registered
<1>6. ParentOf(c) = caller[c]
  BY <1>2, <1>4, <1>5 DEF ParentOf
<1> QED
  BY <1>2, <1>6

\* addFrom's recursion ends, and at the account that the call ran as.
LEMMA SenderIsAccount ==
  ASSUME StackInv, FamilyInv, ~Running, "CALLCODE" \notin CallOps
  PROVE  \A c \in 0 .. made : Sender[c] = account[c]
<1> DEFINE Eq(g) == g = [c \in Call |-> IF kind[c] # "DELEGATECALL" \/ c = 0
                                        THEN c ELSE g[ParentOf(c)]]
           w == [c \in Call |-> IF c <= made THEN account[c] ELSE c]
<1>1. /\ \A c \in Call : c \in Nat
      /\ \A c \in 0 .. made : c \in Call
      /\ made \in Nat /\ 0 \in Call
  BY MadeAreCalls, CallType DEF StackInv, TypeOK
<1>2. \A c \in Call : w[c] = IF kind[c] # "DELEGATECALL" \/ c = 0 THEN c ELSE w[ParentOf(c)]
  <2> TAKE c \in Call
  <2>1. CASE c = 0
    BY <1>1, <2>1 DEF FamilyInv, Lineage
  <2>2. CASE c > made
    BY <1>1, <2>2 DEF FamilyInv, Lineage
  <2>3. CASE c \in 1 .. made
    <3>1. ParentOf(c) = caller[c] /\ caller[c] \in 0 .. made
      BY <2>3, Parents
    <3>2. w[c] = account[c] /\ w[caller[c]] = account[caller[c]]
      BY <1>1, <2>3, <3>1
    <3>3. kind[c] # "CALLCODE"
      BY DEF StackInv, TypeOK
    <3>4. account[c] = IF kind[c] \in {"DELEGATECALL", "CALLCODE"}
                       THEN account[caller[c]] ELSE c
      BY <2>3 DEF FamilyInv, Lineage
    <3> HIDE DEF w
    <3> QED
      BY <1>1, <2>3, <3>1, <3>2, <3>3, <3>4
  <2> QED
    BY <1>1, <2>1, <2>2, <2>3
<1>3. Eq(w)
  <2>1. DOMAIN w = Call
    OBVIOUS
  <2> QED
    BY <1>2
<1>4. Sender = CHOOSE g : Eq(g)
  BY DEF Sender
<1> HIDE DEF Eq, w
<1>5. Eq(Sender)
  BY <1>3, <1>4, Zenon
<1>6. \A c \in Call : Sender[c] = IF kind[c] # "DELEGATECALL" \/ c = 0
                                  THEN c ELSE Sender[ParentOf(c)]
  BY <1>5 DEF Eq
<1> DEFINE Wrong == {c \in 0 .. made : Sender[c] # account[c]}
<1>7. SUFFICES ASSUME Wrong # {} PROVE FALSE
  OBVIOUS
<1>8. PICK c \in Wrong : \A d \in Wrong : c <= d
  <2>1. Wrong \subseteq Nat
    BY <1>1
  <2> HIDE DEF Wrong
  <2> QED
    BY <1>7, <2>1, LeastCall
<1>9. CASE c = 0
  BY <1>1, <1>6, <1>9 DEF FamilyInv, Lineage
<1>10. CASE c # 0
  <2>1. c \in 1 .. made /\ c \in Call /\ Sender[c] # account[c]
    BY <1>1, <1>10
  <2>2. ParentOf(c) = caller[c] /\ caller[c] \in 0 .. made /\ caller[c] < c
    BY <2>1, Parents
  <2>3. caller[c] \notin Wrong
    BY <1>1, <1>8, <2>1, <2>2
  <2>4. Sender[caller[c]] = account[caller[c]]
    BY <2>2, <2>3
  <2>5. kind[c] # "CALLCODE"
    BY <2>1 DEF StackInv, TypeOK
  <2>6. account[c] = IF kind[c] \in {"DELEGATECALL", "CALLCODE"}
                     THEN account[caller[c]] ELSE c
    BY <2>1 DEF FamilyInv, Lineage
  <2> QED
    BY <1>6, <1>10, <2>1, <2>2, <2>4, <2>5, <2>6
<1> QED
  BY <1>9, <1>10

\* addFrom finds the account that the caller of each call ran as, provided
\* that the transaction's code does not use CALLCODE, whose type addFrom does
\* not look through.
THEOREM ConvertorFromIsAccount ==
  ASSUME "CALLCODE" \notin CallOps
  PROVE  Spec => []FromIsAccount
<1>1. StackInv /\ FamilyInv => FromIsAccount
  <2> SUFFICES ASSUME StackInv, FamilyInv, ~Running, NEW c \in 1 .. made
               PROVE  FromOf(c) = account[caller[c]]
    BY DEF FromIsAccount
  <2>1. ParentOf(c) = caller[c] /\ caller[c] \in 0 .. made
    BY Parents
  <2> QED
    BY <2>1, SenderIsAccount DEF FromOf
<1> QED
  BY <1>1, StackInvariant, FamilyInvariant, PTL
=============================================================================
