------------------------------ MODULE FreerTask -----------------------------
(***************************************************************************)
(* run_task<Sig, A>(handler, prog), the sender/receiver interpreter        *)
(* (src/smd/fixpoint/freer_task.hpp over mcata_free.hpp).                  *)
(*                                                                         *)
(* The interpretation is a chain of coroutines.  A suspended program is a  *)
(* run_task_step; it awaits a resume_one, which asks the handler for a     *)
(* sender, awaits it and calls the continuation with its value; then the   *)
(* step awaits the interpretation of the rest, which is another step, or   *)
(* the coroutine that returns a pure value.  Nothing runs before the       *)
(* outermost task is started.                                              *)
(*                                                                         *)
(* The handler is called, and its sender completes, in two steps with any  *)
(* time between them.  What the handler does itself is done by then, and   *)
(* stays done when the sender completes with an error or stopped; what the *)
(* sender does (freer_task.t.cpp:252-257) is done when it completes.       *)
(*                                                                         *)
(* beman::task itself is outside the repository: its frames start lazily,  *)
(* hand on a value as they are left by it, and errors and stopped with     *)
(* any of the frames still there.                                          *)
(***************************************************************************)
EXTENDS Resumption, FreerHandler

CONSTANT Deferred   \* the operations whose sender, not the handler, changes the state

VARIABLES
  phase,     \* what the innermost coroutine is doing
  steps,     \* the run_task_step frames alive, each awaiting the next
  leaf,      \* the frame the innermost step awaits: "none", "one" or "pure"
  current,   \* the program in the innermost frame
  hs,        \* the state the copies of the handler share
  sender,    \* what the handler gave for the operation awaited or failed at
  log,       \* the requests completed so far, each with its answer
  outcome    \* "running", "returned", "error" or "stopped"

vars == <<code, call, depth, frames, box, phase, steps, leaf, current, hs, sender, log, outcome>>

Phase == {"created", "body", "waiting", "recursing", "returning", "error", "stopped", "over"}

MovedFrom == [tag |-> "MovedFrom"]

(***************************************************************************)
(* A sender: the answer it is to complete with, the state this leaves the  *)
(* handler in, and, as history, the state the handler was called in.       *)
(***************************************************************************)
NoSender == [tag |-> "NoSender"]
SenderOf(h, next, r) == [tag |-> "Sender", before |-> h, next |-> next, ans |-> r]
Sender == [tag : {"Sender"}, before : HandlerState, next : HandlerState, ans : Val]

TypeOK ==
  /\ ResumptionTypeOK
  /\ phase \in Phase
  /\ steps \in Nat
  /\ leaf \in {"none", "one", "pure"}
  /\ current \in Program \cup {MovedFrom}
  /\ hs \in HandlerState
  /\ sender \in Sender \cup {NoSender}
  /\ log \in Seq(LogEntry)
  /\ outcome \in {"running", "returned", "error", "stopped"}

(***************************************************************************)
(* mcata_free at Result = task<A>: a pure program becomes the coroutine    *)
(* that returns it, a suspended one a run_task_step with copies of the     *)
(* handler and of the recursion.                                           *)
(***************************************************************************)
NewFrame(p, n) ==
  /\ steps' = IF IsPure(p) THEN n ELSE n + 1
  /\ leaf' = IF IsPure(p) THEN "pure" ELSE "none"

(* Mutant: the handler's state would be kept by value in each copy. *)
StateOfOwnCopy(h) == CHOOSE h0 \in InitHandler : TRUE

(* Copying the handler into a step: the state is reached through a pointer. *)
StateOfCopy(h) == h

Init ==
  /\ code \in Codes
  /\ current \in Starts
  /\ hs \in InitHandler
  /\ sender = NoSender
  /\ log = <<>>
  /\ outcome = "running"
  /\ phase = "created"
  /\ steps = IF IsPure(current) THEN 0 ELSE 1
  /\ leaf = IF IsPure(current) THEN "pure" ELSE "none"
  /\ call = "none" /\ depth = 0 /\ frames = <<>>
  /\ box = current

(* The outermost task is connected and started. *)
Start ==
  /\ phase = "created"
  /\ phase' = "body"
  /\ UNCHANGED <<code, call, depth, frames, box, steps, leaf, current, hs, sender, log, outcome>>

(* A step moves its node into a resume_one and awaits it. *)
AwaitResumeOne ==
  /\ phase = "body"
  /\ leaf = "none"
  /\ leaf' = "one"
  /\ UNCHANGED <<code, call, depth, frames, box, phase, steps, current, hs, sender, log, outcome>>

(* resume_one is at the expression that calls the handler. *)
CallingHandler ==
  /\ phase = "body"
  /\ leaf = "one"
  /\ call = "none"

(* The handler gives a sender, and resume_one is suspended until it completes. *)
AwaitSender ==
  /\ CallingHandler
  /\ Len(log) < MaxEffects
  /\ \E h \in HandlerState, r \in Val :
       /\ <<h, r>> \in Handler[hs][current.op]
       /\ sender' = SenderOf(hs, h, r)
       /\ hs' = IF current.op \in Deferred THEN hs ELSE h
  /\ phase' = "waiting"
  /\ UNCHANGED <<code, call, depth, frames, box, steps, leaf, current, log, outcome>>

(* The handler throws instead, into resume_one, whose promise takes the exception. *)
HandlerThrows ==
  /\ CallingHandler
  /\ current.op \in RefusedOps \/ Len(log) >= MaxEffects
  /\ hs' \in MayLeave(hs, current.op)
  /\ log' = Append(log, [op |-> current.op, ans |-> Refused])
  /\ phase' = "error"
  /\ UNCHANGED <<code, call, depth, frames, box, steps, leaf, current, sender, outcome>>

(* The sender completes with its value: the continuation is called with it. *)
SetValue ==
  /\ phase = "waiting"
  /\ hs' = sender.next
  /\ log' = Append(log, [op |-> current.op, ans |-> sender.ans])
  /\ InvokeContinuation(current.k, sender.ans)
  /\ sender' = NoSender
  /\ phase' = "body"
  /\ current' = MovedFrom
  /\ UNCHANGED <<code, steps, leaf, outcome>>

(* Mutant: the failure would be handed on as a response. *)
CompleteAsValue ==
  /\ phase = "waiting"
  /\ current.op \in RefusedOps
  /\ log' = Append(log, [op |-> current.op, ans |-> Refused])
  /\ InvokeContinuation(current.k, Refused)
  /\ sender' = NoSender
  /\ phase' = "body"
  /\ current' = MovedFrom
  /\ UNCHANGED <<code, steps, leaf, hs, outcome>>

(* It completes otherwise, before or after it did what it was to do. *)
SetErrorOrStopped ==
  /\ phase = "waiting"
  /\ current.op \in RefusedOps
  /\ hs' \in {hs, sender.next}
  /\ log' = Append(log, [op |-> current.op, ans |-> Refused])
  /\ phase' \in {"error", "stopped"}
  /\ UNCHANGED <<code, call, depth, frames, box, steps, leaf, current, sender, outcome>>

Continue ==
  /\ phase = "body"
  /\ Resume
  /\ UNCHANGED <<code, phase, steps, leaf, current, hs, sender, log, outcome>>

(* A bound function throws inside resume_one, whose promise takes the exception. *)
ContinuationThrows ==
  /\ phase = "body"
  /\ FunctionThrows
  /\ phase' = "error"
  /\ LeaveContinuation
  /\ UNCHANGED <<code, steps, leaf, current, hs, sender, log, outcome>>

(* resume_one co_returns the resumed program and is destroyed. *)
ResumeOneReturns ==
  /\ phase = "body"
  /\ Resumed
  /\ leaf' = "none"
  /\ current' = box
  /\ phase' = "recursing"
  /\ LeaveContinuation
  /\ UNCHANGED <<code, steps, hs, sender, log, outcome>>

(* Mutant: the step would be reused for the rest of the program. *)
RecurseInPlace ==
  /\ phase = "recursing"
  /\ phase' = "body"
  /\ steps' = steps
  /\ leaf' = IF IsPure(current) THEN "pure" ELSE "none"
  /\ hs' = StateOfCopy(hs)
  /\ UNCHANGED <<code, call, depth, frames, box, current, sender, log, outcome>>

(* co_await recurse(next): the step stays, the rest gets a frame of its own. *)
Recurse ==
  /\ phase = "recursing"
  /\ phase' = "body"
  /\ NewFrame(current, steps)
  /\ hs' = StateOfCopy(hs)
  /\ UNCHANGED <<code, call, depth, frames, box, current, sender, log, outcome>>

(* The frames that exist, of steps and of what the innermost one awaits. *)
Alive == steps + (IF leaf = "none" THEN 0 ELSE 1)

(* The innermost frame is destroyed by the one that awaited it. *)
InnermostGone ==
  \/ leaf # "none" /\ leaf' = "none" /\ steps' = steps
  \/ leaf = "none" /\ steps' = steps - 1 /\ leaf' = leaf

(* The pure coroutine co_returns its value. *)
PureReturns ==
  /\ phase = "body"
  /\ leaf = "pure"
  /\ phase' = "returning"
  /\ UNCHANGED <<code, call, depth, frames, box, steps, leaf, current, hs, sender, log, outcome>>

(* The value goes outwards: the frame awaiting it takes it and co_returns it. *)
StepReturns ==
  /\ phase = "returning"
  /\ Alive > 1
  /\ InnermostGone
  /\ UNCHANGED <<code, call, depth, frames, box, phase, current, hs, sender, log, outcome>>

(***************************************************************************)
(* An error or stopped goes outwards and destroys the frames it leaves;    *)
(* those the receiver finds when it is completed go with the task itself.  *)
(***************************************************************************)
FrameGone ==
  /\ \/ phase \in {"error", "stopped"} /\ Alive > 1
     \/ phase = "over" /\ Alive > 0
  /\ InnermostGone
  /\ UNCHANGED <<code, call, depth, frames, box, phase, current, hs, sender, log, outcome>>

(***************************************************************************)
(* The outermost task completes its receiver: with a value from its own    *)
(* frame, once every other frame has handed it on; otherwise at any time.  *)
(***************************************************************************)
Complete ==
  /\ \/ phase = "returning" /\ Alive = 1
     \/ phase \in {"error", "stopped"}
  /\ outcome' = IF phase = "returning" THEN "returned" ELSE phase
  /\ phase' = "over"
  /\ UNCHANGED <<code, call, depth, frames, box, steps, leaf, current, hs, sender, log>>

Next ==
  \/ Start \/ AwaitResumeOne \/ AwaitSender \/ HandlerThrows
  \/ SetValue \/ SetErrorOrStopped
  \/ Continue \/ ContinuationThrows \/ ResumeOneReturns \/ Recurse
  \/ PureReturns \/ StepReturns \/ FrameGone \/ Complete

Spec == Init /\ [][Next]_vars

(* Senders complete, and the coroutines they resume run on. *)
FairSpec == Spec /\ WF_vars(Next)

-----------------------------------------------------------------------------
Interpreting == phase \in {"created", "body", "waiting", "recursing"}

(* The innermost step has an operation that is not answered yet. *)
OperationInHand ==
  \/ leaf = "none" /\ phase \in {"created", "body"}
  \/ leaf = "one" /\ call = "none"

(***************************************************************************)
(* One live step per operation answered, plus one for the operation in     *)
(* hand: the frame-per-effect cost the header discloses, neither more nor  *)
(* less.                                                                   *)
(***************************************************************************)
FramePerEffect ==
  Interpreting => steps = Len(log) + (IF OperationInHand THEN 1 ELSE 0)

-----------------------------------------------------------------------------
InHand == IF call = "none" THEN current ELSE box

failed == phase \in {"error", "stopped"} \/ outcome \in {"error", "stopped"}

focusMap == IF failed THEN Gone ELSE FocusOf(InHand)
restMap == IF failed THEN <<>> ELSE RestOf(InHand, frames)
outcomeMap == IF failed THEN "failed" ELSE outcome

(* While a sender is awaited the request is still to be performed. *)
hsMap == IF phase = "waiting" THEN sender.before ELSE hs

Direct == INSTANCE DirectStyle
  WITH focus <- focusMap, rest <- restMap, hs <- hsMap, outcome <- outcomeMap

(***************************************************************************)
(* run_task does what the program written in direct style does, as run     *)
(* does: FD5's equality of interpreters, across suspensions.               *)
(***************************************************************************)
DirectStyleFair == Direct!FairSpec

=============================================================================
