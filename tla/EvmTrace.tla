------------------------------ MODULE EvmTrace ------------------------------
(***************************************************************************)
(* The execution that debug_traceTransaction reports: the call frames of   *)
(* one transaction, and the struct log item that every executed operation  *)
(* adds (a node's work, known here from how TraceConvertor.decode reads    *)
(* it).  Calls are numbered in the order they are made; 0 is the           *)
(* transaction itself.                                                     *)
(***************************************************************************)
EXTENDS Integers, Sequences, SequencesExt

CONSTANTS
  MaxCalls,     \* bound: calls a transaction makes
  CallOps       \* the call operations its code uses

ASSUME TraceAssumption ==
  /\ MaxCalls \in Nat
  /\ CallOps \subseteq {"CALL", "CALLCODE", "DELEGATECALL", "STATICCALL"}

Call == 0 .. MaxCalls

Fate == {"open", "plain", "stopped", "returned", "reverted", "failed"}

VARIABLES
  frames,   \* the open frames, outermost first: the depth is their number
  made,     \* calls made so far
  kind,     \* kind[c]: the operation that made call c
  caller,   \* caller[c]: the call whose code made call c
  account,  \* account[c]: the call whose target is the account c runs as
  fate,     \* fate[c]: how c ended
  callees,  \* callees[c]: the finished calls c made, in order
  ready     \* the frame's last operation left operands on its stack

evmVars == <<frames, made, kind, caller, account, fate, callees, ready>>

Depth   == Len(frames)
Current == Last(frames)
Running == frames # <<>>

EvmInit ==
  /\ frames = <<0>>
  /\ made = 0
  /\ kind = [c \in Call |-> "CALL"]
  /\ caller = [c \in Call |-> 0]
  /\ account = [c \in Call |-> 0]
  /\ fate = [c \in Call |-> "open"]
  /\ callees = [c \in Call |-> <<>>]
  /\ ready = FALSE

\* An operation without an effect on the frames.
Plain ==
  /\ Running
  /\ ready' = TRUE
  /\ UNCHANGED <<frames, made, kind, caller, account, fate, callees>>

(***************************************************************************)
(* RETURN, REVERT and the calls take operands.  A frame starts with an     *)
(* empty stack, and what a finished call leaves on top of its caller's is  *)
(* a success flag, which compiled code tests before anything else; so such *)
(* an operation follows a plain one of the same frame.                     *)
(***************************************************************************)
Ends(how) ==
  /\ fate' = [fate EXCEPT ![Current] = how]
  /\ frames' = Front(frames)
  /\ callees' = IF Depth = 1 THEN callees
                ELSE [callees EXCEPT ![caller[Current]] = Append(@, Current)]
  /\ ready' = FALSE
  /\ UNCHANGED <<made, kind, caller, account>>

Stop    == Running /\ Ends("stopped")
Return  == Running /\ ready /\ Ends("returned")
Revert  == Running /\ ready /\ Ends("reverted")
Failure == Running /\ Ends("failed")      \* an operation without operands here fails

\* A RETURN, REVERT or call fails for want of gas: its frame does, and nothing
\* is returned, reverted or called.
OperandFailure == Running /\ ready /\ Ends("failed")

Makes(op) ==
  /\ Running /\ ready /\ made < MaxCalls
  /\ made' = made + 1
  /\ kind' = [kind EXCEPT ![made'] = op]
  /\ caller' = [caller EXCEPT ![made'] = Current]
  /\ account' = [account EXCEPT ![made'] =
                   IF op \in {"DELEGATECALL", "CALLCODE"} THEN account[Current] ELSE made']
  /\ ready' = FALSE

\* A call to an account with code opens a frame.
CallContract(op) ==
  /\ Makes(op)
  /\ frames' = Append(frames, made')
  /\ UNCHANGED <<fate, callees>>

\* A call to an account without code, or one that cannot be paid, is over at once.
CallPlain(op) ==
  /\ Makes(op)
  /\ fate' = [fate EXCEPT ![made'] = "plain"]
  /\ callees' = [callees EXCEPT ![Current] = Append(@, made')]
  /\ UNCHANGED frames

\* A call to a precompiled contract opens no frame either.
CallPrecompile ==
  /\ Running /\ ready
  /\ ready' = FALSE
  /\ UNCHANGED <<frames, made, kind, caller, account, fate, callees>>
=============================================================================
