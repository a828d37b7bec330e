------------------------------ MODULE FreerRun ------------------------------
(***************************************************************************)
(* run<Sig, A>(handler, prog), the reference interpreter                   *)
(* (src/smd/fixpoint/freer_run.hpp), with the tracing handler around the   *)
(* caller's handler.                                                       *)
(*                                                                         *)
(* A loop: while the program is suspended, its operation is moved out and  *)
(* given to the handler, the continuation is called with the response, and *)
(* the program it returns becomes the current one.                         *)
(***************************************************************************)
EXTENDS Resumption, FreerHandler

VARIABLES
  current,   \* the program the loop is at, MovedFrom while its layer is handled
  hs,        \* the handler's state, one object used by reference throughout
  log,       \* what the tracing handler rendered, each with the answer obtained
  outcome    \* "running", "returned" or "failed"

vars == <<code, call, depth, frames, box, current, hs, log, outcome>>

MovedFrom == [tag |-> "MovedFrom"]

TypeOK ==
  /\ ResumptionTypeOK
  /\ current \in Program \cup {MovedFrom}
  /\ hs \in HandlerState
  /\ log \in Seq(LogEntry)
  /\ outcome \in {"running", "returned", "failed"}

Init ==
  /\ code \in Codes
  /\ current \in Starts
  /\ hs \in InitHandler
  /\ log = <<>>
  /\ outcome = "running"
  /\ call = "none" /\ depth = 0 /\ frames = <<>>
  /\ box = current

(* The while condition holds: the loop is at a suspended operation. *)
AtOperation ==
  /\ outcome = "running"
  /\ call = "none"
  /\ current.tag = "Roll"

(* The operation is rendered, handled, and its continuation called. *)
Handle ==
  /\ AtOperation
  /\ Len(log) < MaxEffects
  /\ \E h \in HandlerState, r \in Val :
       /\ <<h, r>> \in Handler[hs][current.op]
       /\ hs' = h
       /\ log' = Append(log, [op |-> current.op, ans |-> r])
       /\ InvokeContinuation(current.k, r)
  /\ current' = MovedFrom
  /\ UNCHANGED <<code, outcome>>

(* Mutant: the failure would be handed on as a response. *)
HandlerThrowsIntoProgram ==
  /\ AtOperation
  /\ current.op \in RefusedOps \/ Len(log) >= MaxEffects
  /\ log' = Append(log, [op |-> current.op, ans |-> Refused])
  /\ current' = MovedFrom
  /\ InvokeContinuation(current.k, Refused)
  /\ UNCHANGED <<code, hs, outcome>>

(* The handler throws after the operation was rendered: run is left. *)
HandlerThrows ==
  /\ AtOperation
  /\ current.op \in RefusedOps \/ Len(log) >= MaxEffects
  /\ hs' \in MayLeave(hs, current.op)
  /\ log' = Append(log, [op |-> current.op, ans |-> Refused])
  /\ current' = MovedFrom
  /\ outcome' = "failed"
  /\ LeaveContinuation
  /\ UNCHANGED code

(* The continuation runs. *)
Continue ==
  /\ outcome = "running"
  /\ Resume
  /\ UNCHANGED <<code, current, hs, log, outcome>>

ContinuationThrows ==
  /\ outcome = "running"
  /\ FunctionThrows
  /\ outcome' = "failed"
  /\ LeaveContinuation
  /\ UNCHANGED <<code, current, hs, log>>

(* current = *std::move(resumed) *)
Rebind ==
  /\ outcome = "running"
  /\ Resumed
  /\ current' = box
  /\ LeaveContinuation
  /\ UNCHANGED <<code, hs, log, outcome>>

(* The while condition fails: the value is moved out and returned. *)
Return ==
  /\ outcome = "running"
  /\ call = "none"
  /\ current.tag = "Pure"
  /\ outcome' = "returned"
  /\ UNCHANGED <<code, call, depth, frames, box, current, hs, log>>

Next == Handle \/ HandlerThrows \/ Continue \/ ContinuationThrows \/ Rebind \/ Return

Spec == Init /\ [][Next]_vars

(* The loop and the code it calls do not stop of their own accord. *)
FairSpec == Spec /\ WF_vars(Next)

-----------------------------------------------------------------------------
(***************************************************************************)
(* What freer_run.hpp:41-44 says of the loop: "the C++ call stack never    *)
(* grows with the number of effects a program performs".  The stack a      *)
(* resumption needs would then be that of the longest continuation the     *)
(* program's text writes down.                                             *)
(***************************************************************************)
ContinuationsWritten ==
  {p.k : p \in {q \in Starts \cup {code[fn][v] : fn \in Fn, v \in Val} : ~IsPure(q)}}

FlatCallStack == depth > 0 => \E k \in ContinuationsWritten : depth <= Len(k) + 1

-----------------------------------------------------------------------------
(***************************************************************************)
(* The program in hand and the functions waiting for it, as DirectStyle    *)
(* sees them: while a continuation is called they are in the call,         *)
(* otherwise the current program is everything.                            *)
(***************************************************************************)
InHand == IF call = "none" THEN current ELSE box

focusMap == IF outcome = "failed" THEN Gone ELSE FocusOf(InHand)
restMap == IF outcome = "failed" THEN <<>> ELSE RestOf(InHand, frames)

Direct == INSTANCE DirectStyle WITH focus <- focusMap, rest <- restMap

(* run does what the program written in direct style does, and as long. *)
DirectStyleFair == Direct!FairSpec

=============================================================================
