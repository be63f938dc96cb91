--------------------------- MODULE TraceConvertor ---------------------------
(***************************************************************************)
(* TraceConvertor.decode: it rebuilds the tree of calls from the struct    *)
(* logs, one item after the other, with a call stack of its own that it    *)
(* pops when an item's depth says that the last call is over.              *)
(*                                                                         *)
(* Every action is an operation of EvmTrace together with the handling of  *)
(* the item it adds.  Gas, return data and addresses are abstract: what is *)
(* kept of a value is the call it belongs to.  The source positions (toPc, *)
(* jumps, revertPc) and the SHA3 preimages are left out.                   *)
(***************************************************************************)
EXTENDS EvmTrace

CONSTANT None

ASSUME NoneAssumption == None \notin Call

VARIABLES
  callstack,   \* self.callstack, as call numbers
  calls,       \* calls[c]: call["calls"] of c
  error,       \* error[c]: c has error "execution reverted"
  gas,         \* gas[c]: the call from whose item call["gas"] was taken, or None
  output,      \* output[c]: the call whose return data is call["output"], or None
  returnData,  \* self.returnData: the call that returned it, or None
  descended,   \* self.descended
  raised       \* decode was left by an exception

convertorVars == <<callstack, calls, error, gas, output, returnData, descended, raised>>
vars == <<evmVars, convertorVars>>

Top == Last(callstack)

Init ==
  /\ EvmInit
  /\ callstack = <<0>>
  /\ calls = [c \in Call |-> <<>>]
  /\ error = [c \in Call |-> FALSE]
  /\ gas = [c \in Call |-> None]
  /\ output = [c \in Call |-> None]
  /\ returnData = None
  /\ descended = FALSE
  /\ raised = FALSE

-----------------------------------------------------------------------------
(***************************************************************************)
(* The handlers an item that is neither a call, a creation, a selfdestruct *)
(* nor a REVERT passes through, in decode's order; data is the return data *)
(* after handleReturn.                                                     *)
(***************************************************************************)
\* handleDescended: the first item after a call was pushed tells its gas.
HandleDescended ==
  /\ descended' = FALSE
  /\ gas' = IF descended /\ Depth >= Len(callstack)
            THEN [gas EXCEPT ![Top] = Current] ELSE gas

\* Mutants of HandleContractChange: the depth test is off by one; a call is
\* attached to itself; a reverted call is left out; returnData is kept.
ChangeTooLate(data) ==
  IF Depth = Len(callstack) - 2
  THEN /\ callstack' = Front(callstack)
       /\ output' = [output EXCEPT ![Top] = data]
       /\ calls' = [calls EXCEPT ![Last(Front(callstack))] = Append(@, Top)]
       /\ returnData' = None
  ELSE returnData' = data /\ UNCHANGED <<callstack, output, calls>>

ChangeOwnCalls(data) ==
  IF Depth = Len(callstack) - 1
  THEN /\ callstack' = Front(callstack)
       /\ output' = [output EXCEPT ![Top] = data]
       /\ calls' = [calls EXCEPT ![Top] = Append(@, Top)]
       /\ returnData' = None
  ELSE returnData' = data /\ UNCHANGED <<callstack, output, calls>>

ChangeKeepsData(data) ==
  IF Depth = Len(callstack) - 1
  THEN /\ callstack' = Front(callstack)
       /\ output' = [output EXCEPT ![Top] = data]
       /\ calls' = [calls EXCEPT ![Last(Front(callstack))] = Append(@, Top)]
       /\ returnData' = data
  ELSE returnData' = data /\ UNCHANGED <<callstack, output, calls>>

\* handleContractChange: the item is back in the caller of the topmost call.
\* Its result is compared with "0", which no stack word is written as ("0x0"),
\* so the call keeps its output and never gets "internal failure".
HandleContractChange(data) ==
  IF Depth = Len(callstack) - 1
  THEN /\ callstack' = Front(callstack)
       /\ output' = [output EXCEPT ![Top] = data]
       /\ calls' = [calls EXCEPT ![Last(Front(callstack))] = Append(@, Top)]
       /\ returnData' = None
  ELSE returnData' = data /\ UNCHANGED <<callstack, output, calls>>

HandleOther(data) ==
  /\ HandleDescended
  /\ HandleContractChange(data)
  /\ UNCHANGED <<error, raised>>

\* Mutant of HandleRevert: only the revert of a nested call is marked.
RevertNested ==
  /\ HandleDescended
  /\ error' = IF Len(callstack) > 1 THEN [error EXCEPT ![Top] = TRUE] ELSE error
  /\ UNCHANGED <<callstack, calls, output, returnData, raised>>

\* handleRevert: decode goes on with the next item.
HandleRevert ==
  /\ HandleDescended
  /\ error' = [error EXCEPT ![Top] = TRUE]
  /\ UNCHANGED <<callstack, calls, output, returnData, raised>>

\* handleCall: a call is pushed; nothing else looks at the item.
HandleCall(c) ==
  /\ callstack' = Append(callstack, c)
  /\ descended' = TRUE
  /\ UNCHANGED <<calls, error, gas, output, returnData, raised>>

\* handleCall: a call to a precompiled contract is skipped.
HandlePrecompile == UNCHANGED convertorVars

-----------------------------------------------------------------------------
OnPlain    == ~raised /\ Plain   /\ HandleOther(returnData)
OnStop     == ~raised /\ Stop    /\ HandleOther(returnData)
OnFailure  == ~raised /\ Failure /\ HandleOther(returnData)
OnReturn   == ~raised /\ Return  /\ HandleOther(Current)
OnRevert   == ~raised /\ Revert  /\ HandleRevert

OnCallContract(op) == ~raised /\ CallContract(op) /\ HandleCall(made')
OnCallPlain(op)    == ~raised /\ CallPlain(op)    /\ HandleCall(made')
OnCallPrecompile   == ~raised /\ CallPrecompile   /\ HandlePrecompile

\* The item of an operation that failed looks like any other.  A failed call is
\* pushed all the same: it takes the number of a call that is never made.
OnCallFailure   == ~raised /\ OperandFailure /\ made < MaxCalls /\ HandleCall(MaxCalls)
OnReturnFailure == ~raised /\ OperandFailure /\ HandleOther(Current)
OnRevertFailure == ~raised /\ OperandFailure /\ HandleRevert

\* handleContractCreate reads `stack` before it is assigned; handleSelfDestrcut
\* calls getStackPeek with one argument of two.  Both raise.
OnCreateOrSelfdestruct ==
  /\ ~raised /\ Running /\ ready
  /\ raised' = TRUE
  /\ UNCHANGED <<evmVars, callstack, calls, error, gas, output, returnData, descended>>

\* The logs are used up, or decode raised.
Over == ~Running \/ raised

Done == Over /\ UNCHANGED vars

Next ==
  \/ OnPlain \/ OnStop \/ OnFailure \/ OnReturn \/ OnRevert
  \/ \E op \in CallOps : OnCallContract(op) \/ OnCallPlain(op)
  \/ OnCallPrecompile \/ OnCreateOrSelfdestruct
  \/ Done

Spec == Init /\ [][Next]_vars

\* Executions in which an operation that the handlers act on fails itself.
FaultNext == Next \/ OnCallFailure \/ OnReturnFailure \/ OnRevertFailure

FaultSpec == Init /\ [][FaultNext]_vars

-----------------------------------------------------------------------------
(***************************************************************************)
(* addFrom: the sender of a call is the target of the nearest call above   *)
(* it that is not a DELEGATECALL.                                          *)
(***************************************************************************)
ParentOf(c) == CHOOSE p \in Call : Contains(calls[p], c)

Sender[c \in Call] ==
  IF kind[c] # "DELEGATECALL" \/ c = 0 THEN c ELSE Sender[ParentOf(c)]

\* Mutant of FromOf: the target of the calling call, whatever its type.
FromTarget(c) == ParentOf(c)

FromOf(c) == Sender[ParentOf(c)]
-----------------------------------------------------------------------------
TypeOK ==
  /\ frames \in Seq(Call) /\ callstack \in Seq(Call)
  /\ made \in Call
  /\ kind \in [Call -> CallOps \cup {"CALL"}]
  /\ caller \in [Call -> Call] /\ account \in [Call -> Call]
  /\ fate \in [Call -> Fate]
  /\ callees \in [Call -> Seq(Call)] /\ calls \in [Call -> Seq(Call)]
  /\ error \in [Call -> BOOLEAN]
  /\ gas \in [Call -> Call \cup {None}] /\ output \in [Call -> Call \cup {None}]
  /\ returnData \in Call \cup {None}
  /\ ready \in BOOLEAN /\ descended \in BOOLEAN /\ raised \in BOOLEAN

\* The convertor's stack is the execution's, but for the call that ended with
\* the last item: it never loses track of the depth.
InSync ==
  Running =>
    \/ callstack = frames
    \/ \E c \in Call : /\ callstack = Append(frames, c)
                      /\ fate[c] # "open" /\ caller[c] = Current

\* The convertor has still to pop a call that is over in the execution.
Lagging == Running /\ Len(callstack) > Depth

\* The calls the convertor has attached to each call are those the execution
\* has finished there, in the same order, but for the one it has still to pop.
TreeMatches ==
  callees = IF Lagging THEN [calls EXCEPT ![Current] = Append(@, Top)] ELSE calls

\* When the logs are used up every call of the execution is in the tree.
NothingLost == ~Running => calls = callees

\* "execution reverted" is on exactly the calls whose code executed REVERT.
RevertsMarked == \A c \in 0 .. made : error[c] <=> fate[c] = "reverted"

\* Gas and return data of a call are taken from its own items: a finished call
\* that had a frame has its gas, and output if and only if it returned some.
ResultsOwn ==
  \A c \in 1 .. made :
    (\E p \in Call : Contains(calls[p], c)) =>
      /\ gas[c] = IF fate[c] = "plain" THEN None ELSE c
      /\ output[c] = IF fate[c] = "returned" THEN c ELSE None

\* The sender of a call is the account its caller ran as.
FromIsAccount ==
  ~Running => \A c \in 1 .. made : FromOf(c) = account[caller[c]]

\* tracer.js:237 "fault is invoked when the actual execution of an opcode
\* fails" and 254 "Flatten the failed call into its parent": a call that
\* failed ends up among the calls of its caller.
FaultsFlattened ==
  ~Running => \A c \in 1 .. made :
    fate[c] = "failed" => Contains(calls[caller[c]], c)

\* Does not hold, see the README. tracer.js:218 and 219 (the tracer this class
\* ports): a call that ended with a zero result and was not reverted gets an
\* error, "internal failure".
FailuresMarked ==
  ~Running => \A c \in 1 .. made : fate[c] = "failed" => error[c]

-----------------------------------------------------------------------------
(***************************************************************************)
(* The strengthening that makes InSync and TreeMatches inductive.          *)
(***************************************************************************)
\* The open frames are a path of calls still running, from the transaction on.
FramesOK ==
  /\ \A i \in DOMAIN frames : frames[i] <= made /\ fate[frames[i]] = "open"
  /\ \A i, j \in DOMAIN frames : i < j => frames[i] < frames[j]
  /\ \A i \in 1 .. Len(frames) - 1 : caller[frames[i + 1]] = frames[i]

Unborn == \A c \in Call : c > made => fate[c] = "open"

\* What puts operands on the stack pops the call that ended before it.
ReadyPopped == Running /\ ready => callstack = frames

StackInv == TypeOK /\ FramesOK /\ Unborn /\ ReadyPopped /\ InSync /\ TreeMatches

(***************************************************************************)
(* What makes RevertsMarked and ResultsOwn inductive: how far the handlers *)
(* have got with the results of each call.                                 *)
(***************************************************************************)
Marked == \A c \in Call : error[c] <=> fate[c] = "reverted"

\* Only the last call to return has its data in returnData, until it is popped.
DataHeld ==
  Running => returnData = IF Lagging /\ fate[Top] = "returned" THEN Top ELSE None

\* The gas of a call with a frame is taken from the first item of that frame.
GasTaken ==
  /\ ready => ~descended
  /\ \A c \in Call : c > made => gas[c] = None
  /\ \A i \in 2 .. Len(frames) :
       gas[frames[i]] = frames[i] \/ (i = Len(frames) /\ descended /\ ~Lagging)
  /\ Lagging => gas[Top] = IF fate[Top] = "plain" THEN None ELSE Top

\* A call is attached when it is over, popped and has its results.
Settled ==
  \A p, c \in Call : Contains(calls[p], c) =>
    /\ fate[c] # "open" /\ (Lagging => c # Top)
    /\ gas[c] = IF fate[c] = "plain" THEN None ELSE c
    /\ output[c] = IF fate[c] = "returned" THEN c ELSE None

ResultInv == Marked /\ DataHeld /\ GasTaken /\ Settled

(***************************************************************************)
(* What makes FromIsAccount hold at the end: who called whom, and on whose *)
(* account.                                                                *)
(***************************************************************************)
Lineage ==
  /\ account[0] = 0
  /\ \A c \in 1 .. made :
       /\ caller[c] < c
       /\ account[c] = IF kind[c] \in {"DELEGATECALL", "CALLCODE"}
                       THEN account[caller[c]] ELSE c
  /\ \A c \in Call : c > made => kind[c] = "CALL"

\* The finished calls are among the callees of their caller, the others open.
Registered ==
  /\ \A p, c \in Call : Contains(callees[p], c) => c \in 1 .. made /\ caller[c] = p
  /\ \A c \in 1 .. made : fate[c] # "open" => Contains(callees[caller[c]], c)
  /\ \A c \in 0 .. made : fate[c] = "open" => \E i \in DOMAIN frames : frames[i] = c
  /\ Running => frames[1] = 0

FamilyInv == Lineage /\ Registered
=============================================================================
