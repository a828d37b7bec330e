-------------------------- MODULE FreerTaskProofs --------------------------
(***************************************************************************)
(* run_task, for every program and for the one that is shipped with it.    *)
(*                                                                         *)
(* First, run_task implements DirectStyle for every signature, program and *)
(* handler, and has exactly the frames its header says, suspended or not.  *)
(* The refinement needs to know what the innermost coroutine holds in each *)
(* phase: Holding says it, and with it the frame property is inductive.    *)
(*                                                                         *)
(* Then, the retry example keeps its promises for every number of attempts,*)
(* every script and any sender that fails, and its two interpreters agree. *)
(* They have been shown to implement DirectStyle, where the program has no *)
(* frames, closures or nodes.  There it is always at one of seven places,  *)
(* told by the number of lines in the log (Stage), the log reads as the    *)
(* script makes it read (History), and the handler's state is a function   *)
(* of the same number (ScriptAfter).  The three are inductive together,    *)
(* and whatever run_task or pair_run does follows.                         *)
(***************************************************************************)
EXTENDS RetryBoth, ResumptionProofs, WellFoundedInduction

(* What the innermost frame holds in each phase. *)
Holding ==
  /\ outcome = "running" <=> phase # "over"
  /\ call # "none" => phase = "body" /\ leaf = "one"
  /\ phase = "created" => leaf # "one"
  /\ phase = "waiting" => leaf = "one"
  /\ phase = "recursing" => leaf = "none"
  /\ phase \in {"created", "body"} /\ leaf = "none" => current \in RollProgram
  /\ phase \in {"body", "waiting"} /\ leaf = "one" /\ call = "none" => current \in RollProgram
  /\ phase \in {"created", "body"} /\ leaf = "pure" => current \in PureProgram
  /\ phase = "recursing" => current \in Program
  /\ phase = "returning" => current \in PureProgram
  /\ phase = "waiting" =>
       /\ sender \in Sender /\ Len(log) < MaxEffects
       /\ <<sender.next, sender.ans>> \in Handler[sender.before][current.op]
       /\ hs = IF current.op \in Deferred THEN sender.before ELSE sender.next
  /\ phase \in {"created", "body", "recursing", "returning"} => sender = NoSender

IInv ==
  /\ TypeOK
  /\ DepthMatchesFrames
  /\ Holding
  /\ FramePerEffect
 

-----------------------------------------------------------------------------
(* Type correctness and the frames *)

LEMMA Alternatives ==
  ASSUME NEW p \in Program
  PROVE  /\ IsPure(p) => p \in PureProgram
         /\ ~IsPure(p) => p \in RollProgram
  BY DEF Program, PureProgram, RollProgram, IsPure

LEMMA InitInvariant == Init => IInv
<1> SUFFICES ASSUME Init PROVE IInv
  OBVIOUS
<1> USE DEF Init
<1>1. current \in Program
  BY ProgramAssumption
<1>2. TypeOK
  BY <1>1, ProgramAssumption, HandlerAssumption DEF TypeOK, ResumptionTypeOK, Phase
<1>3. DepthMatchesFrames
  BY DEF DepthMatchesFrames
<1>4. Holding
  BY <1>1, Alternatives DEF Holding
<1>5. FramePerEffect
  BY DEF FramePerEffect, Interpreting, OperationInHand
<1>6. QED
  BY <1>2, <1>3, <1>4, <1>5 DEF IInv

LEMMA NextInvariant == IInv /\ [Next]_vars => IInv'
<1> SUFFICES ASSUME IInv, [Next]_vars PROVE IInv'
  OBVIOUS
<1> USE DEF IInv
<1>0. ResumptionTypeOK
  BY DEF TypeOK
<1>1. CASE Start \/ AwaitResumeOne
  <2> USE <1>1 DEF Start, AwaitResumeOne
  <2>1. TypeOK' /\ DepthMatchesFrames'
    BY DEF TypeOK, ResumptionTypeOK, Phase, DepthMatchesFrames
  <2>2. Holding'
    BY DEF Holding
  <2>3. FramePerEffect'
    BY DEF FramePerEffect, Interpreting, OperationInHand, Holding
  <2>4. QED
    BY <2>1, <2>2, <2>3
<1>2. CASE AwaitSender
  <2>1. /\ current \in RollProgram /\ current.op \in Op /\ phase = "body" /\ leaf = "one"
        /\ call = "none" /\ Len(log) < MaxEffects /\ hs \in HandlerState
    BY <1>2 DEF AwaitSender, CallingHandler, Holding, RollProgram, TypeOK
  <2>2. PICK h \in HandlerState, r \in Val :
          /\ <<h, r>> \in Handler[hs][current.op]
          /\ sender' = SenderOf(hs, h, r)
          /\ hs' = IF current.op \in Deferred THEN hs ELSE h
    BY <1>2 DEF AwaitSender
  <2>3. /\ sender' \in Sender /\ sender'.before = hs /\ sender'.next = h /\ sender'.ans = r
        /\ hs' \in HandlerState
    BY <2>1, <2>2 DEF SenderOf, Sender
  <2>4. /\ phase' = "waiting"
        /\ UNCHANGED <<code, call, depth, frames, box, steps, leaf, current, log, outcome>>
    BY <1>2 DEF AwaitSender
  <2>5. TypeOK' /\ DepthMatchesFrames'
    BY <2>3, <2>4 DEF TypeOK, ResumptionTypeOK, Phase, DepthMatchesFrames
  <2>6. Holding'
    BY <2>1, <2>2, <2>3, <2>4 DEF Holding
  <2>7. FramePerEffect'
    BY <2>1, <2>4 DEF FramePerEffect, Interpreting, OperationInHand, Holding
  <2>8. QED
    BY <2>5, <2>6, <2>7
<1>3. CASE SetValue
  <2>1. /\ current \in RollProgram /\ current.op \in Op /\ leaf = "one" /\ call = "none"
        /\ phase = "waiting" /\ sender \in Sender
    BY <1>3 DEF SetValue, Holding, RollProgram
  <2>2. sender.next \in HandlerState /\ sender.ans \in Val
    BY <2>1 DEF Sender
  <2>3. /\ hs' = sender.next /\ log' = Append(log, [op |-> current.op, ans |-> sender.ans])
        /\ InvokeContinuation(current.k, sender.ans)
    BY <1>3 DEF SetValue
  <2>4. ResumptionTypeOK' /\ DepthMatchesFrames'
    BY <1>0, <1>3, <2>1, <2>2, <2>3, InvokeType DEF SetValue, ResumptionTypeOK, RollProgram
  <2>5. log' \in Seq(LogEntry) /\ Len(log') = Len(log) + 1
    BY <2>1, <2>2, <2>3 DEF TypeOK, LogEntry
  <2>6. /\ phase' = "body" /\ call' # "none" /\ current' = MovedFrom /\ sender' = NoSender
        /\ UNCHANGED <<code, steps, leaf, outcome>>
    BY <1>3, <2>3 DEF SetValue, InvokeContinuation
  <2>7. TypeOK'
    BY <2>2, <2>3, <2>4, <2>5, <2>6 DEF TypeOK, Phase
  <2>8. Holding'
    BY <2>1, <2>6 DEF Holding
  <2>9. FramePerEffect'
    BY <2>1, <2>5, <2>6 DEF FramePerEffect, Interpreting, OperationInHand, TypeOK, Holding
  <2>10. QED
    BY <2>4, <2>7, <2>8, <2>9
(* A failure: nothing is interpreted any more. *)
<1>10. CASE HandlerThrows \/ SetErrorOrStopped
  <2>1. /\ current \in RollProgram /\ current.op \in Op /\ call = "none" /\ leaf = "one"
        /\ phase \in {"body", "waiting"} /\ outcome = "running"
    BY <1>10 DEF HandlerThrows, CallingHandler, SetErrorOrStopped, Holding, RollProgram
  <2>2. /\ log' = Append(log, [op |-> current.op, ans |-> Refused])
        /\ phase' \in {"error", "stopped"}
        /\ UNCHANGED <<code, call, depth, frames, box, steps, leaf, current, sender, outcome>>
    BY <1>10 DEF HandlerThrows, SetErrorOrStopped
  <2>3. log' \in Seq(LogEntry)
    BY <2>1, <2>2 DEF TypeOK, LogEntry
  <2>4. hs' \in HandlerState
    <3>1. CASE HandlerThrows
      BY <2>1, <3>1, HandlerAssumption DEF HandlerThrows, MayLeave, TypeOK
    <3>2. CASE SetErrorOrStopped
      BY <3>2 DEF SetErrorOrStopped, Holding, Sender, TypeOK
    <3>3. QED
      BY <1>10, <3>1, <3>2
  <2>5. TypeOK' /\ DepthMatchesFrames'
    BY <2>2, <2>3, <2>4 DEF TypeOK, ResumptionTypeOK, Phase, DepthMatchesFrames
  <2>6. Holding'
    BY <2>1, <2>2 DEF Holding
  <2>7. FramePerEffect'
    BY <2>2 DEF FramePerEffect, Interpreting
  <2>8. QED
    BY <2>5, <2>6, <2>7
<1>4. CASE Continue
  <2>1. call \in {"inwards", "outwards"} /\ call' \in {"inwards", "outwards"}
    BY <1>4 DEF Continue, Resume, Inwards, Innermost, EnterFunction, BindToSuspended
  <2>2. UNCHANGED <<code, phase, steps, leaf, current, hs, sender, log, outcome>>
    BY <1>4 DEF Continue
  <2>3. ResumptionTypeOK' /\ DepthMatchesFrames'
    BY <1>0, <1>4, ResumeType DEF Continue
  <2>4. TypeOK'
    BY <2>2, <2>3 DEF TypeOK
  <2>5. Holding'
    BY <2>1, <2>2 DEF Holding
  <2>6. FramePerEffect'
    BY <2>1, <2>2
    DEF FramePerEffect, Interpreting, OperationInHand, Holding
  <2>7. QED
    BY <2>3, <2>4, <2>5, <2>6
<1>5. CASE ContinuationThrows
  <2>1. /\ phase' = "error" /\ call' = "none"
        /\ UNCHANGED <<code, steps, leaf, current, hs, sender, log, outcome>>
    BY <1>5 DEF ContinuationThrows, LeaveContinuation
  <2>2. ResumptionTypeOK' /\ DepthMatchesFrames'
    BY <1>0, <1>5, LeaveType DEF ContinuationThrows
  <2>3. TypeOK'
    BY <2>1, <2>2 DEF TypeOK, Phase
  <2>4. Holding' /\ FramePerEffect'
    BY <1>5, <2>1
    DEF ContinuationThrows, Holding, FramePerEffect, Interpreting
  <2>5. QED
    BY <2>2, <2>3, <2>4
<1>6. CASE ResumeOneReturns
  <2>1. /\ phase = "body" /\ call = "outwards" /\ leaf = "one"
        /\ phase' = "recursing" /\ call' = "none" /\ leaf' = "none" /\ current' = box
        /\ UNCHANGED <<code, steps, hs, sender, log, outcome>>
    BY <1>6 DEF ResumeOneReturns, LeaveContinuation, Resumed, Holding
  <2>2. ResumptionTypeOK' /\ DepthMatchesFrames'
    BY <1>0, <1>6, LeaveType DEF ResumeOneReturns
  <2>3. TypeOK'
    BY <1>0, <2>1, <2>2 DEF TypeOK, Phase, ResumptionTypeOK
  <2>4. Holding'
    BY <1>0, <2>1 DEF Holding, ResumptionTypeOK
  <2>5. FramePerEffect'
    BY <2>1 DEF FramePerEffect, Interpreting, OperationInHand, Holding
  <2>6. QED
    BY <2>2, <2>3, <2>4, <2>5
<1>7. CASE Recurse
  <2>1. /\ phase = "recursing" /\ leaf = "none" /\ current \in Program /\ call = "none"
        /\ phase' = "body" /\ steps' = IF IsPure(current) THEN steps ELSE steps + 1
        /\ leaf' = IF IsPure(current) THEN "pure" ELSE "none"
        /\ UNCHANGED <<code, call, depth, frames, box, current, hs, sender, log, outcome>>
    BY <1>7 DEF Recurse, NewFrame, StateOfCopy, Holding
  <2>2. TypeOK' /\ DepthMatchesFrames'
    BY <2>1 DEF TypeOK, ResumptionTypeOK, Phase, DepthMatchesFrames
  <2>3. Holding'
    BY <2>1, Alternatives DEF Holding
  <2>4. FramePerEffect'
    BY <2>1
    DEF FramePerEffect, Interpreting, OperationInHand, Holding, TypeOK
  <2>5. QED
    BY <2>2, <2>3, <2>4
<1>8. CASE PureReturns \/ StepReturns \/ FrameGone \/ Complete
  <2>1. /\ steps' \in Nat /\ leaf' \in {"none", "one", "pure"}
        /\ UNCHANGED <<code, call, depth, frames, box, current, hs, sender, log>>
    BY <1>8 DEF PureReturns, StepReturns, FrameGone, Complete, InnermostGone, Alive, TypeOK
  <2>2. /\ phase \in {"body", "returning", "error", "stopped", "over"}
        /\ phase' \in {"returning", "error", "stopped", "over"}
        /\ phase' = "returning" => phase = "returning" \/ (phase = "body" /\ leaf = "pure")
    BY <1>8 DEF PureReturns, StepReturns, FrameGone, Complete
  <2>3. /\ outcome' \in {"running", "returned", "error", "stopped"}
        /\ outcome' = "running" <=> phase' # "over"
    <3>1. CASE PureReturns \/ StepReturns \/ FrameGone
      BY <3>1 DEF PureReturns, StepReturns, FrameGone, Holding, TypeOK
    <3>2. CASE Complete
      BY <3>2 DEF Complete
    <3>3. QED
      BY <1>8, <3>1, <3>2
  <2>4. call = "none"
    BY <1>8 DEF PureReturns, StepReturns, FrameGone, Complete, Holding
  <2>5. TypeOK' /\ DepthMatchesFrames'
    BY <2>1, <2>2, <2>3 DEF TypeOK, ResumptionTypeOK, Phase, DepthMatchesFrames
  <2>6. Holding'
    BY <2>1, <2>2, <2>3, <2>4 DEF Holding
  <2>7. FramePerEffect'
    BY <2>2 DEF FramePerEffect, Interpreting
  <2>8. QED
    BY <2>5, <2>6, <2>7
<1>9. CASE UNCHANGED vars
  BY <1>9 DEF vars, TypeOK, ResumptionTypeOK, DepthMatchesFrames, Holding, FramePerEffect,
              Interpreting, OperationInHand
<1>11. QED
  BY <1>1, <1>2, <1>3, <1>4, <1>5, <1>6, <1>7, <1>8, <1>9, <1>10 DEF Next

LEMMA Invariant == Spec => []IInv
  BY InitInvariant, NextInvariant, PTL DEF Spec

(* Every state of run_task is well typed, whatever the signature and program. *)
THEOREM TypeCorrect == Spec => []TypeOK
<1>1. IInv => TypeOK
  BY DEF IInv
<1>2. QED
  BY <1>1, Invariant, PTL

(***************************************************************************)
(* The cost freer_task.hpp discloses is exact: while it interprets, the    *)
(* chain has one step for each operation answered and one for the          *)
(* operation in hand.                                                      *)
(***************************************************************************)
THEOREM OneFramePerEffect == Spec => []FramePerEffect
<1>1. IInv => FramePerEffect
  BY DEF IInv
<1>2. QED
  BY <1>1, Invariant, PTL

-----------------------------------------------------------------------------
(* Refinement *)

(* DirectStyle reads programs with the same operators. *)
LEMMA SameReading ==
  /\ Direct!Gone = Gone
  /\ \A v : Direct!Value(v) = Value(v)
  /\ \A p : Direct!FocusOf(p) = FocusOf(p)
  /\ \A p, tail : Direct!RestOf(p, tail) = RestOf(p, tail)
  BY DEF Direct!Gone, Gone, Direct!Value, Value, Direct!FocusOf, FocusOf,
         Direct!RestOf, RestOf, Direct!IsPure, IsPure, Direct!Request, Request

LEMMA InitRefines == Init => Direct!Init
  BY SameReading DEF Init, Direct!Init, focusMap, restMap, hsMap, outcomeMap, failed, InHand

(* An operation without an answer ends the program at its request. *)
LEMMA FailureRefines ==
  ASSUME IInv, HandlerThrows \/ SetErrorOrStopped
  PROVE  Direct!Refuse
<1>1. /\ current \in RollProgram /\ call = "none" /\ phase \in {"body", "waiting"}
      /\ outcome = "running" /\ phase' \in {"error", "stopped"} /\ UNCHANGED code
      /\ log' = Append(log, [op |-> current.op, ans |-> Refused])
  BY DEF HandlerThrows, CallingHandler, SetErrorOrStopped, IInv, Holding
<1>2. focusMap = Request(current.op) /\ outcomeMap = "running"
  BY <1>1 DEF focusMap, outcomeMap, failed, InHand, FocusOf, IsPure, RollProgram
<1>3. focusMap' = Direct!Gone /\ restMap' = <<>> /\ outcomeMap' = "failed" /\ hsMap' = hs'
  BY <1>1, SameReading DEF focusMap, restMap, outcomeMap, hsMap, failed
<1>4. hs' \in Direct!MayLeave(hsMap, current.op)
  <2>1. CASE HandlerThrows
    BY <2>1 DEF HandlerThrows, CallingHandler, MayLeave, Direct!MayLeave, hsMap
  <2>2. CASE SetErrorOrStopped
    <3>1. /\ phase = "waiting" /\ hs' \in {hs, sender.next} /\ hs \in {sender.before, sender.next}
          /\ <<sender.next, sender.ans>> \in Handler[sender.before][current.op]
      BY <2>2 DEF SetErrorOrStopped, IInv, Holding
    <3>2. sender.next \in {a[1] : a \in Handler[sender.before][current.op]}
      BY <3>1
    <3>3. QED
      BY <3>1, <3>2 DEF Direct!MayLeave, hsMap
  <2>3. QED
    BY <2>1, <2>2
<1>5. current.op \in RefusedOps \/ Len(log) >= MaxEffects
  BY DEF HandlerThrows, SetErrorOrStopped
<1>6. focusMap.at = "request" /\ focusMap.op = current.op
  BY <1>2 DEF Request
<1>7. QED
  BY <1>1, <1>2, <1>3, <1>4, <1>5, <1>6 DEF Direct!Refuse

LEMMA NextRefines == IInv /\ [Next]_vars => [Direct!Next]_(Direct!dvars)
<1> SUFFICES ASSUME IInv, [Next]_vars
             PROVE  [Direct!Next]_(Direct!dvars)
  OBVIOUS
<1> USE DEF IInv, focusMap, restMap, outcomeMap, failed, InHand
(* Creating, starting and awaiting frames is not visible. *)
<1>1. CASE Start \/ AwaitResumeOne
  BY <1>1 DEF Start, AwaitResumeOne, hsMap, Direct!dvars
<1>12. CASE AwaitSender
  <2>1. hsMap' = hsMap
    BY <1>12 DEF AwaitSender, CallingHandler, SenderOf, hsMap
  <2>2. QED
    BY <1>12, <2>1 DEF AwaitSender, CallingHandler, Holding, Direct!dvars
(* The sender's value is the request's answer, however late it comes. *)
<1>2. CASE SetValue
  <2>1. /\ current \in RollProgram /\ call = "none" /\ phase = "waiting"
        /\ outcome = "running" /\ frames = <<>>
    BY <1>2 DEF SetValue, Holding, DepthMatchesFrames
  <2>2. focusMap = Request(current.op) /\ restMap = current.k /\ outcomeMap = "running"
    BY <2>1 DEF FocusOf, RestOf, IsPure, RollProgram
  <2>3. /\ <<sender.next, sender.ans>> \in Handler[hsMap][current.op]
        /\ sender.next \in HandlerState /\ sender.ans \in Val /\ Len(log) < MaxEffects
    BY <2>1 DEF Holding, Sender, hsMap
  <2>4. /\ hs' = sender.next /\ phase' = "body" /\ UNCHANGED <<code, outcome>>
        /\ log' = Append(log, [op |-> current.op, ans |-> sender.ans])
        /\ InvokeContinuation(current.k, sender.ans)
    BY <1>2 DEF SetValue
  <2>5. focusMap' = Value(sender.ans) /\ restMap' = current.k /\ outcomeMap' = "running"
    BY <2>1, <2>4 DEF InvokeContinuation, Pure, FocusOf, RestOf, IsPure
  <2>6. hsMap' = sender.next
    BY <2>4 DEF hsMap
  <2> HIDE DEF focusMap, restMap, outcomeMap
  <2>7. focusMap.at = "request" /\ focusMap.op = current.op /\ focusMap' = Direct!Value(sender.ans)
    BY <2>2, <2>5, SameReading DEF Request
  <2>8. Direct!Perform
    BY <2>2, <2>3, <2>4, <2>5, <2>6, <2>7 DEF Direct!Perform
  <2>9. QED
    BY <2>8 DEF Direct!Next
<1>3. CASE HandlerThrows \/ SetErrorOrStopped
  BY <1>3, FailureRefines DEF Direct!Next
(* Of the steps of a continuation only entering a function is visible. *)
<1>4. CASE Continue
  <2>0. phase = "body" /\ outcome = "running"
    BY <1>4 DEF Continue, Holding
  <2>1. CASE Inwards \/ Innermost
    BY <1>4, <2>0, <2>1 DEF Continue, Inwards, Innermost, hsMap, Direct!dvars
  <2>2. CASE EnterFunction
    <3>1. call = "outwards" /\ box \in PureProgram /\ outcomeMap = "running"
      BY <2>0, <2>2, Alternatives DEF EnterFunction, TypeOK, ResumptionTypeOK
    <3>2. focusMap = Value(box.val) /\ restMap = frames
      BY <2>0, <3>1 DEF FocusOf, RestOf, IsPure, PureProgram
    <3>3. Direct!Continue
      BY SameReading, <1>4, <2>0, <2>2, <3>1, <3>2
      DEF Continue, EnterFunction, Direct!Continue, Value, hsMap
    <3>4. QED
      BY <3>3 DEF Direct!Next
  <2>3. CASE BindToSuspended
    <3>1. box \in RollProgram /\ frames \in Seq(Fn)
      BY <2>3, Alternatives DEF BindToSuspended, TypeOK, ResumptionTypeOK
    <3>2. FocusOf(box') = FocusOf(box) /\ RestOf(box', frames') = RestOf(box, frames)
      BY <2>3, <3>1, BindLaterStandsStill DEF BindToSuspended
    <3>3. QED
      BY <1>4, <2>0, <2>3, <3>2 DEF Continue, BindToSuspended, hsMap, Direct!dvars
  <2>4. QED
    BY <1>4, <2>1, <2>2, <2>3 DEF Continue, Resume
<1>5. CASE ContinuationThrows
  <2>1. call = "outwards" /\ box \in PureProgram /\ phase = "body" /\ outcome = "running"
    BY <1>5, Alternatives DEF ContinuationThrows, FunctionThrows, TypeOK, ResumptionTypeOK, Holding
  <2>2. focusMap = Value(box.val) /\ restMap = frames /\ outcomeMap = "running"
    BY <2>1 DEF FocusOf, RestOf, IsPure, PureProgram
  <2>3. Direct!Break
    BY SameReading, <1>5, <2>1, <2>2
    DEF ContinuationThrows, FunctionThrows, Direct!Break, Value, hsMap
  <2>4. QED
    BY <2>3 DEF Direct!Next
<1>6. CASE ResumeOneReturns
  BY <1>6 DEF ResumeOneReturns, Resumed, LeaveContinuation, hsMap, Direct!dvars
<1>7. CASE Recurse
  BY <1>7 DEF Recurse, NewFrame, StateOfCopy, hsMap, Direct!dvars
<1>8. CASE PureReturns \/ StepReturns \/ FrameGone
  BY <1>8 DEF PureReturns, StepReturns, FrameGone, Holding, hsMap, Direct!dvars
(* The value reaches the receiver; a failure was visible before. *)
<1>9. CASE Complete
  <2>1. CASE phase = "returning"
    <3>1. /\ current \in PureProgram /\ call = "none" /\ frames = <<>> /\ outcome = "running"
      BY <2>1 DEF Holding, DepthMatchesFrames
    <3>2. focusMap = Value(current.val) /\ restMap = <<>> /\ outcomeMap = "running"
      BY <2>1, <3>1 DEF FocusOf, RestOf, IsPure, PureProgram
    <3>3. Direct!Finish
      BY <1>9, <2>1, <3>1, <3>2 DEF Complete, Direct!Finish, Value, hsMap
    <3>4. QED
      BY <3>3 DEF Direct!Next
  <2>2. CASE phase \in {"error", "stopped"}
    BY <1>9, <2>2 DEF Complete, hsMap, Direct!dvars
  <2>3. QED
    BY <1>9, <2>1, <2>2 DEF Complete
<1>10. CASE UNCHANGED vars
  BY <1>10 DEF vars, hsMap, Direct!dvars
<1>11. QED
  BY <1>1, <1>2, <1>3, <1>4, <1>5, <1>6, <1>7, <1>8, <1>9, <1>10, <1>12 DEF Next

(***************************************************************************)
(* FD5: run_task performs what run performs.  Every request is answered    *)
(* once and in order, and the chain completes with the program's value or  *)
(* with the first failure, wherever the senders suspend.                   *)
(***************************************************************************)
THEOREM TaskImplementsDirectStyle == Spec => Direct!Spec
  BY Invariant, InitRefines, NextRefines, PTL DEF Spec, Direct!Spec

-----------------------------------------------------------------------------
(***************************************************************************)
(* The retry example                                                       *)
(***************************************************************************)

(* The theorems about the pairing of RetryBoth. *)
P == INSTANCE FreerPairingProofs
  WITH call <- pcall, depth <- pdepth, frames <- pframes, box <- pbox, current <- pcurrent,
       trace <- ptrace, log <- plog, outcome <- poutcome,
       Handler <- RetryCoalgebra, Annotation <- RetryScript, HeadFn <- retry_head_fn,
       ThrowingSeeds <- {}

(* The constants are what the example makes them; the bounds stay open. *)
InTheExample ==
  /\ Op = RetryOp /\ Val = RetryVal /\ Fn = RetryFn
  /\ HandlerState = RetryScript /\ InitHandler = InitScript /\ Handler = MockHandler
  /\ Codes = {RetryCode} /\ Starts = {RetryProgram} /\ ThrowingFns = {} /\ Deferred = {}

-----------------------------------------------------------------------------
(* What the a-th send hears, over a script that begins with s. *)
Heard(s, a) == IF a <= s.failing THEN NetError ELSE Reply

ResultAfter(s, a) == IF Heard(s, a) = Reply THEN Result(ReplySize) ELSE Result(-1)

(***************************************************************************)
(* The lines of the log: the time, then sends at the even places and the   *)
(* backoffs between them.  Only the last may have been refused.            *)
(***************************************************************************)
History(s, l) ==
  /\ l \in Seq(LogEntry) /\ Len(l) <= 2 * MaxAttempts
  /\ Len(l) >= 1 => l[1].op = Now /\ l[1].ans \in {Time(s.virtual_time), Refused}
  /\ \A a \in 1 .. MaxAttempts :
       /\ 2 * a <= Len(l) => l[2 * a].op = SendHello /\ l[2 * a].ans \in {Heard(s, a), Refused}
       /\ 2 * a < Len(l) => /\ l[2 * a + 1].op = SleepFor(a)
                            /\ l[2 * a + 1].ans \in {Slept, Refused}
                            /\ Heard(s, a) = NetError
  /\ \A i \in 1 .. Len(l) - 1 : l[i].ans # Refused

(* The clock has gone on by 1 + 2 + ... + k, and by the reading that moves it. *)
Elapsed(s, h, k) ==
  2 * (h.virtual_time - s.virtual_time) = k * (k + 1) + (IF s.live THEN 2 ELSE 0)

(* The handler's state when n lines have been answered. *)
ScriptAfter(s, h, n) ==
  /\ h \in RetryScript /\ h.failing = s.failing /\ h.live = s.live
  /\ n = 0 => h.send_count = 0 /\ h.virtual_time = s.virtual_time
  /\ \A a \in 1 .. MaxAttempts :
       /\ n = 2 * a - 1 => h.send_count = a - 1 /\ Elapsed(s, h, a - 1)
       /\ n = 2 * a => h.send_count = a /\ Elapsed(s, h, a - 1)

(* Where the program is when n lines have been answered. *)
Stage(s, f, r, n) ==
  \/ n = 0 /\ f = Request(Now) /\ r = <<GotTime>>
  \/ n = 1 /\ f = Value(Time(s.virtual_time)) /\ r = <<GotTime>>
  \/ \E a \in 1 .. MaxAttempts :
       \/ n = 2 * a - 1 /\ f = Request(SendHello) /\ r = <<GotReply(a)>>
       \/ n = 2 * a /\ f = Value(Heard(s, a)) /\ r = <<GotReply(a)>>
       \/ /\ n = 2 * a /\ f = Request(SleepFor(a)) /\ r = <<Woken(a)>>
          /\ a < MaxAttempts /\ Heard(s, a) = NetError
       \/ n = 2 * a + 1 /\ f = Value(Slept) /\ r = <<Woken(a)>> /\ a < MaxAttempts
       \/ /\ n = 2 * a /\ f = Value(ResultAfter(s, a)) /\ r = <<>>
          /\ Heard(s, a) = Reply \/ a = MaxAttempts

(* The program in direct style: at f, the functions r waiting, over the log l. *)
Stands(s, f, r, o, h, l) ==
  /\ History(s, l)
  /\ o = "failed" => /\ Len(l) >= 1 /\ l[Len(l)].ans = Refused
                     /\ ScriptAfter(s, h, Len(l) - 1) \/ ScriptAfter(s, h, Len(l))
  /\ o # "failed" => /\ \A i \in 1 .. Len(l) : l[i].ans # Refused
                     /\ ScriptAfter(s, h, Len(l))
                     /\ Stage(s, f, r, Len(l))
  /\ o = "returned" => r = <<>>

(* run_task does so over the script that s begins. *)
TaskStands(s) == code = RetryCode /\ Stands(s, focusMap, restMap, outcomeMap, hsMap, log)

-----------------------------------------------------------------------------
(* Reading the example's data. *)

LEMMA Operations ==
  /\ Now # SendHello /\ \A d : SleepFor(d) # Now /\ SleepFor(d) # SendHello
  /\ \A c, d : SleepFor(c) = SleepFor(d) => c = d
  /\ Now.name = "Now" /\ SendHello.name = "Send" /\ \A d : SleepFor(d).name = "SleepFor"
  BY DEF Now, SendHello, SleepFor

LEMMA Responses ==
  /\ Reply # NetError /\ Slept # Reply /\ Slept # NetError
  /\ \A t : Time(t) # Reply /\ Time(t) # NetError /\ Time(t) # Slept
  /\ {Reply, NetError, Slept} \subseteq RetryVal
  BY DEF Reply, NetError, Slept, Time, RetryVal

LEMMA Places ==
  /\ \A op : Request(op).at = "request" /\ Request(op).op = op
  /\ \A v : Value(v).at = "value" /\ Value(v).val = v
  /\ \A op, v : Request(op) # Value(v)
  BY DEF Request, Value

LEMMA OperationsOfTheExample ==
  /\ Now \in RetryOp /\ SendHello \in RetryOp
  /\ \A a \in 1 .. MaxAttempts : SleepFor(a) \in RetryOp
<1>1. \A a \in 1 .. MaxAttempts : a \in 1 .. MaxAttempts + 1
  BY RetryAssumption
<1>2. QED
  BY <1>1 DEF RetryOp

LEMMA HeardIsAnAnswer ==
  ASSUME NEW s, NEW a
  PROVE  Heard(s, a) \in {NetError, Reply}
  BY DEF Heard

(* The one state and response a handler gives are in its table or outside it. *)
LEMMA TableEntry ==
  ASSUME NEW answer, NEW h, NEW v, <<h, v>> \in InBounds(answer)
  PROVE  h \in RetryScript /\ v \in RetryVal /\ answer = <<h, v>>
  BY DEF InBounds

(* A state that one of the answers leaves. *)
LEMMA LeftByAnswer ==
  ASSUME NEW A, A \subseteq RetryScript \X RetryVal, NEW h, h \in {a[1] : a \in A}
  PROVE  \E v : <<h, v>> \in A
<1>1. PICK a \in A : h = a[1]
  OBVIOUS
<1>2. PICK x \in RetryScript, v \in RetryVal : a = <<x, v>>
  OBVIOUS
<1>3. h = x
  BY <1>1, <1>2
<1>4. QED
  BY <1>2, <1>3

LEMMA ScriptFields ==
  ASSUME NEW s \in RetryScript
  PROVE  /\ s.send_count \in Int /\ s.virtual_time \in Int /\ s.failing \in Nat
         /\ s.live \in BOOLEAN
<1>1. s.send_count \in 0 .. LastSend /\ s.virtual_time \in 0 .. LastTime
      /\ s.failing \in Failures /\ s.live \in BOOLEAN
  BY DEF RetryScript
<1>2. LastSend \in Nat
  BY RetryAssumption DEF LastSend
<1>3. \A n : 0 .. n \subseteq Int
  OBVIOUS
<1>4. QED
  BY <1>1, <1>2, <1>3, RetryAssumption

LEMMA MockAnswers ==
  ASSUME NEW s \in RetryScript, NEW op \in RetryOp, NEW h, NEW v,
         <<h, v>> \in MockHandler[s][op]
  PROVE  /\ h \in RetryScript /\ v \in RetryVal /\ h.failing = s.failing /\ h.live = s.live
         /\ op = Now => /\ v = Time(s.virtual_time) /\ h.send_count = s.send_count
                        /\ h.virtual_time = s.virtual_time + (IF s.live THEN 1 ELSE 0)
         /\ op = SendHello => /\ v = Heard(s, s.send_count + 1)
                              /\ h.send_count = s.send_count + 1
                              /\ h.virtual_time = s.virtual_time
         /\ \A d : op = SleepFor(d) => /\ v = Slept /\ h.send_count = s.send_count
                                       /\ h.virtual_time = s.virtual_time + d
<1>1. <<h, v>> \in InBounds(mock_handler(s, op))
  BY DEF MockHandler
<1>2. h \in RetryScript /\ v \in RetryVal /\ mock_handler(s, op) = <<h, v>>
  BY <1>1, TableEntry
<1>3. CASE op = Now
  BY <1>2, <1>3, Operations, ScriptFields DEF mock_handler, clock_handler, RetryScript
<1>4. CASE op = SendHello
  BY <1>2, <1>4, Operations, ScriptFields DEF mock_handler, network_handler, Heard, RetryScript
<1>5. ASSUME NEW d, op = SleepFor(d)
      PROVE  /\ h.failing = s.failing /\ h.live = s.live /\ v = Slept
             /\ h.send_count = s.send_count /\ h.virtual_time = s.virtual_time + d
  <2>1. op # SendHello /\ op.name = "SleepFor" /\ op.d = d
    BY <1>5, Operations DEF SleepFor
  <2>2. clock_handler(s, op) = <<h, v>>
    BY <1>2, <2>1 DEF mock_handler
  <2>3. clock_handler(s, op) = <<[s EXCEPT !.virtual_time = @ + op.d], Slept>>
    BY <2>1 DEF clock_handler
  <2>4. h = [s EXCEPT !.virtual_time = @ + d] /\ v = Slept
    BY <2>1, <2>2, <2>3
  <2>5. QED
    BY <2>4 DEF RetryScript
<1>6. QED
  BY <1>2, <1>3, <1>4, <1>5, Operations DEF RetryOp

(* A clock that a reading does not move is the coalgebra's. *)
LEMMA OneScript ==
  ASSUME NEW s \in RetryScript, s.live = FALSE, NEW op \in RetryOp
  PROVE  RetryCoalgebra[s][op] = MockHandler[s][op]
<1>1. CASE op = Now
  <2>1. [s EXCEPT !.virtual_time = s.virtual_time] = s
    BY DEF RetryScript
  <2>2. QED
    BY <1>1, <2>1, Operations
    DEF RetryCoalgebra, MockHandler, retry_coalgebra, mock_handler, clock_handler
<1>2. CASE op = SendHello
  BY <1>2, Operations, ScriptFields
  DEF RetryCoalgebra, MockHandler, retry_coalgebra, mock_handler, network_handler, RetryScript
<1>3. CASE \E d : op = SleepFor(d)
  BY <1>3, Operations
  DEF RetryCoalgebra, MockHandler, retry_coalgebra, mock_handler, clock_handler
<1>4. QED
  BY <1>1, <1>2, <1>3 DEF RetryOp

(* What the bound functions return. *)
LEMMA CodeOfTheExample ==
  ASSUME NEW v \in RetryVal
  PROVE  /\ RetryCode[GotTime][v] = RetryAttempt(1)
         /\ \A a \in 1 .. MaxAttempts :
              /\ RetryCode[GotReply(a)][v] = OnReply(a, v)
              /\ RetryCode[Woken(a)][v] = RetryAttempt(a + 1)
<1>1. GotTime \in RetryFn /\ GotTime.name = "got_time"
  BY DEF RetryFn, GotTime
<1>2. ASSUME NEW a \in 1 .. MaxAttempts
      PROVE  /\ GotReply(a) \in RetryFn /\ GotReply(a).name = "got_reply"
             /\ GotReply(a).attempt = a
             /\ Woken(a) \in RetryFn /\ Woken(a).name = "woken" /\ Woken(a).attempt = a
  <2>1. a \in 1 .. MaxAttempts + 1
    BY RetryAssumption
  <2>2. QED
    BY <2>1 DEF RetryFn, GotReply, Woken
<1>3. RetryCode[GotTime][v] = RetryAttempt(1)
  BY <1>1 DEF RetryCode
<1>4. ASSUME NEW a \in 1 .. MaxAttempts
      PROVE  /\ RetryCode[GotReply(a)][v] = OnReply(a, v)
             /\ RetryCode[Woken(a)][v] = RetryAttempt(a + 1)
  <2>1. /\ RetryCode[GotReply(a)][v] = OnReply(GotReply(a).attempt, v)
        /\ RetryCode[Woken(a)][v] = RetryAttempt(Woken(a).attempt + 1)
    BY <1>2 DEF RetryCode
  <2>2. QED
    BY <1>2, <2>1
<1>5. QED
  BY <1>3, <1>4

-----------------------------------------------------------------------------
(* The three parts of Stands, as the log grows by a line. *)

(* What the next line may be over a log that has n. *)
NextLine(s, e, n) ==
  \/ n = 0 /\ e.op = Now /\ e.ans \in {Time(s.virtual_time), Refused}
  \/ \E a \in 1 .. MaxAttempts :
       \/ n = 2 * a - 1 /\ e.op = SendHello /\ e.ans \in {Heard(s, a), Refused}
       \/ /\ n = 2 * a /\ a < MaxAttempts /\ Heard(s, a) = NetError
          /\ e.op = SleepFor(a) /\ e.ans \in {Slept, Refused}

LEMMA HistoryGrows ==
  ASSUME NEW s, NEW l, History(s, l), \A i \in 1 .. Len(l) : l[i].ans # Refused,
         NEW e \in LogEntry, NextLine(s, e, Len(l))
  PROVE  History(s, Append(l, e))
<1> DEFINE n == Len(l)
           m == Append(l, e)
<1>1. l \in Seq(LogEntry) /\ n \in Nat /\ MaxAttempts \in Nat
  BY RetryAssumption DEF History
<1>2. /\ m \in Seq(LogEntry) /\ Len(m) = n + 1 /\ m[n + 1] = e
      /\ \A i \in 1 .. n : m[i] = l[i]
  BY <1>1
<1>3. n + 1 <= 2 * MaxAttempts
  <2> HIDE DEF n
  <2>1. 0 + 1 <= 2 * MaxAttempts
    BY RetryAssumption
  <2>2. \A a \in 1 .. MaxAttempts :
          /\ n = 2 * a - 1 => n + 1 <= 2 * MaxAttempts
          /\ n = 2 * a /\ a < MaxAttempts => n + 1 <= 2 * MaxAttempts
    BY <1>1
  <2>3. NextLine(s, e, n)
    BY DEF n
  <2>4. QED
    BY <2>1, <2>2, <2>3 DEF NextLine
<1>4. m[1].op = Now /\ m[1].ans \in {Time(s.virtual_time), Refused}
  <2>1. CASE n = 0
    BY <1>2, <2>1 DEF NextLine
  <2>2. CASE n # 0
    <3>1. 1 \in 1 .. n
      BY <1>1, <2>2
    <3>2. QED
      BY <1>1, <1>2, <3>1 DEF History
  <2>3. QED
    BY <2>1, <2>2
<1>5. ASSUME NEW a \in 1 .. MaxAttempts, 2 * a <= n + 1
      PROVE  m[2 * a].op = SendHello /\ m[2 * a].ans \in {Heard(s, a), Refused}
  <2>1. CASE 2 * a <= n
    <3>1. 2 * a \in 1 .. n
      BY <1>1, <2>1
    <3>2. QED
      BY <1>2, <2>1, <3>1 DEF History
  <2>2. CASE 2 * a = n + 1
    <3>1. e.op = SendHello /\ e.ans \in {Heard(s, a), Refused}
      <4> HIDE DEF n, m
      <4>1. n # 0 /\ \A b \in 1 .. MaxAttempts : n # 2 * b /\ (n = 2 * b - 1 => a = b)
        BY <1>1, <2>2
      <4>2. NextLine(s, e, n)
        BY DEF n
      <4>3. QED
        BY <4>1, <4>2 DEF NextLine
    <3>2. QED
      BY <1>2, <2>2, <3>1
  <2>3. QED
    BY <1>1, <1>5, <2>1, <2>2
<1>6. ASSUME NEW a \in 1 .. MaxAttempts, 2 * a < n + 1
      PROVE  /\ m[2 * a + 1].op = SleepFor(a) /\ m[2 * a + 1].ans \in {Slept, Refused}
             /\ Heard(s, a) = NetError
  <2>1. CASE 2 * a < n
    <3>1. 2 * a + 1 \in 1 .. n
      BY <1>1, <2>1
    <3>2. QED
      BY <1>2, <2>1, <3>1 DEF History
  <2>2. CASE 2 * a = n
    <3>1. /\ e.op = SleepFor(a) /\ e.ans \in {Slept, Refused} /\ Heard(s, a) = NetError
      <4> HIDE DEF n, m
      <4>1. n # 0 /\ \A b \in 1 .. MaxAttempts : n # 2 * b - 1 /\ (n = 2 * b => a = b)
        BY <1>1, <2>2
      <4>2. NextLine(s, e, n)
        BY DEF n
      <4>3. QED
        BY <4>1, <4>2 DEF NextLine
    <3>2. QED
      BY <1>2, <2>2, <3>1
  <2>3. QED
    BY <1>1, <1>6, <2>1, <2>2
<1>7. \A i \in 1 .. Len(m) - 1 : m[i].ans # Refused
  BY <1>1, <1>2
<1> HIDE DEF n, m
<1>8. History(s, m)
  BY <1>2, <1>3, <1>4, <1>5, <1>6, <1>7 DEF History
<1>9. QED
  BY <1>8 DEF m

(* The handler's answer to the operation the program is at, and what it leaves. *)
LEMMA AnswerGiven ==
  ASSUME NEW s \in RetryScript, NEW h, NEW n \in Nat, ScriptAfter(s, h, n),
         NEW f, NEW r, Stage(s, f, r, n), f.at = "request",
         NEW h2, NEW v, <<h2, v>> \in MockHandler[h][f.op]
  PROVE  /\ ScriptAfter(s, h2, n + 1) /\ Stage(s, Value(v), r, n + 1)
         /\ v \in RetryVal
         /\ NextLine(s, [op |-> f.op, ans |-> v], n)
<1>1. h \in RetryScript /\ h.failing = s.failing /\ h.live = s.live
  BY DEF ScriptAfter
<1>2. /\ s.virtual_time \in Int /\ h.virtual_time \in Int /\ s.live \in BOOLEAN
      /\ MaxAttempts \in Nat \ {0}
  BY <1>1, ScriptFields, RetryAssumption
<1>3. CASE n = 0 /\ f = Request(Now) /\ r = <<GotTime>>
  <2>1. /\ h2 \in RetryScript /\ h2.failing = h.failing /\ h2.live = h.live
        /\ v \in RetryVal /\ v = Time(h.virtual_time) /\ h2.send_count = h.send_count
        /\ h2.virtual_time = h.virtual_time + (IF h.live THEN 1 ELSE 0)
    BY <1>1, <1>3, MockAnswers, Places, OperationsOfTheExample
  <2>2. h.send_count = 0 /\ h.virtual_time = s.virtual_time
    BY <1>3 DEF ScriptAfter
  <2>3. Elapsed(s, h2, 0)
    BY <1>1, <1>2, <2>1, <2>2 DEF Elapsed
  <2>4. \A a \in 1 .. MaxAttempts : n + 1 # 2 * a /\ (n + 1 = 2 * a - 1 => a - 1 = 0)
    BY <1>3
  <2>5. ScriptAfter(s, h2, n + 1)
    BY <1>1, <1>3, <2>1, <2>2, <2>3, <2>4 DEF ScriptAfter
  <2>6. Stage(s, Value(v), r, n + 1)
    BY <1>3, <2>1, <2>2 DEF Stage
  <2>7. NextLine(s, [op |-> f.op, ans |-> v], n)
    BY <1>3, <2>1, <2>2, Places DEF NextLine
  <2>8. QED
    BY <2>1, <2>5, <2>6, <2>7
<1>4. ASSUME NEW a \in 1 .. MaxAttempts,
             n = 2 * a - 1, f = Request(SendHello), r = <<GotReply(a)>>
      PROVE  /\ ScriptAfter(s, h2, n + 1) /\ Stage(s, Value(v), r, n + 1) /\ v \in RetryVal
             /\ NextLine(s, [op |-> f.op, ans |-> v], n)
  <2>1. /\ h2 \in RetryScript /\ h2.failing = h.failing /\ h2.live = h.live
        /\ v \in RetryVal /\ v = Heard(h, h.send_count + 1)
        /\ h2.send_count = h.send_count + 1 /\ h2.virtual_time = h.virtual_time
    BY <1>1, <1>4, MockAnswers, Places, OperationsOfTheExample
  <2>2. h.send_count = a - 1 /\ Elapsed(s, h, a - 1)
    BY <1>4 DEF ScriptAfter
  <2>3. v = Heard(s, a) /\ h2.send_count = a /\ Elapsed(s, h2, a - 1)
    BY <1>1, <2>1, <2>2 DEF Heard, Elapsed
  <2>4. /\ n + 1 # 0
        /\ \A b \in 1 .. MaxAttempts : n + 1 # 2 * b - 1 /\ (n + 1 = 2 * b => a = b)
    <3>1. a \in Int /\ n + 1 = 2 * a
      BY <1>4
    <3>2. \A b \in 1 .. MaxAttempts : b \in Int
      OBVIOUS
    <3>3. \A b \in Int : 2 * a # 2 * b - 1 /\ (2 * a = 2 * b => a = b)
      BY <3>1
    <3>4. QED
      BY <1>4, <3>1, <3>2, <3>3
  <2>5. ScriptAfter(s, h2, n + 1)
    BY <1>1, <2>1, <2>3, <2>4 DEF ScriptAfter
  <2>6. Stage(s, Value(v), r, n + 1)
    BY <1>4, <2>3 DEF Stage
  <2>7. NextLine(s, [op |-> f.op, ans |-> v], n)
    BY <1>4, <2>3, Places DEF NextLine
  <2>8. QED
    BY <2>1, <2>5, <2>6, <2>7
<1>5. ASSUME NEW a \in 1 .. MaxAttempts,
             n = 2 * a, f = Request(SleepFor(a)), r = <<Woken(a)>>,
             a < MaxAttempts, Heard(s, a) = NetError
      PROVE  /\ ScriptAfter(s, h2, n + 1) /\ Stage(s, Value(v), r, n + 1) /\ v \in RetryVal
             /\ NextLine(s, [op |-> f.op, ans |-> v], n)
  <2>1. /\ h2 \in RetryScript /\ h2.failing = h.failing /\ h2.live = h.live
        /\ v \in RetryVal /\ v = Slept /\ h2.send_count = h.send_count
        /\ h2.virtual_time = h.virtual_time + a
    BY <1>1, <1>5, MockAnswers, Places, OperationsOfTheExample
  <2>2. h.send_count = a /\ Elapsed(s, h, a - 1)
    BY <1>5 DEF ScriptAfter
  <2>3. Elapsed(s, h2, a)
    <3>1. (a - 1) * ((a - 1) + 1) + 2 * a = a * (a + 1)
      BY SMT
    <3> DEFINE sofar == (a - 1) * ((a - 1) + 1)
               reading == IF s.live THEN 2 ELSE 0
    <3>3. sofar \in Int /\ reading \in Int
      BY <1>2
    <3>4. 2 * (h.virtual_time - s.virtual_time) = sofar + reading
      BY <2>2 DEF Elapsed
    <3>5. 2 * (h2.virtual_time - s.virtual_time) = a * (a + 1) + reading
      <4> DEFINE after == a * (a + 1)
                 x == h.virtual_time
                 x2 == h2.virtual_time
                 y == s.virtual_time
      <4>1. sofar + 2 * a = after /\ after \in Int /\ a \in Int
        BY <3>1
      <4>2. x \in Int /\ y \in Int /\ x2 = x + a /\ 2 * (x - y) = sofar + reading
        BY <1>2, <2>1, <3>4
      <4>3. 2 * (x2 - y) = after + reading
        <5> HIDE DEF sofar, reading, after, x, x2, y
        <5>1. QED
          BY <3>3, <4>1, <4>2
      <4>4. QED
        BY <4>3
    <3>6. QED
      BY <3>5 DEF Elapsed
  <2>4. /\ n + 1 # 0
        /\ \A b \in 1 .. MaxAttempts : n + 1 # 2 * b /\ (n + 1 = 2 * b - 1 => b - 1 = a)
    BY <1>5
  <2>5. ScriptAfter(s, h2, n + 1)
    BY <1>1, <2>1, <2>2, <2>3, <2>4 DEF ScriptAfter
  <2>6. Stage(s, Value(v), r, n + 1)
    BY <1>5, <2>1 DEF Stage
  <2>7. NextLine(s, [op |-> f.op, ans |-> v], n)
    BY <1>5, <2>1, Places DEF NextLine
  <2>8. QED
    BY <2>1, <2>5, <2>6, <2>7
<1>6. QED
  BY <1>3, <1>4, <1>5, Places DEF Stage

(* The innermost function takes the value: the program moves to its next place. *)
LEMMA FunctionCalled ==
  ASSUME NEW s \in RetryScript, NEW n \in Nat, NEW f, NEW r, Stage(s, f, r, n),
         f.at = "value", r # <<>>, f.val \in RetryVal
  PROVE  LET p == RetryCode[Head(r)][f.val] IN Stage(s, FocusOf(p), RestOf(p, Tail(r)), n)
<1> DEFINE p == RetryCode[Head(r)][f.val]
<1>0. MaxAttempts \in Nat \ {0} /\ 1 \in 1 .. MaxAttempts
  BY RetryAssumption
<1>1. ASSUME NEW k, r = <<k>>
      PROVE  Head(r) = k /\ Tail(r) = <<>>
  BY <1>1
<1>2. ASSUME NEW op, NEW k, p = BindLater(Send(op), k), Tail(r) = <<>>
      PROVE  FocusOf(p) = Request(op) /\ RestOf(p, Tail(r)) = <<k>>
  <2>1. Append(<<>>, k) = <<k>>
    OBVIOUS
  <2>2. <<k>> \in Seq({k}) /\ <<k>> \o <<>> = <<k>>
    OBVIOUS
  <2>3. p.tag = "Roll" /\ p.op = op /\ p.k = <<k>>
    BY <1>2, <2>1 DEF BindLater, Send, Roll
  <2> HIDE DEF p
  <2>4. QED
    BY <1>2, <2>2, <2>3 DEF FocusOf, RestOf, IsPure
<1>3. ASSUME NEW v, p = Pure(v), Tail(r) = <<>>
      PROVE  FocusOf(p) = Value(v) /\ RestOf(p, Tail(r)) = <<>>
  BY <1>3 DEF Pure, FocusOf, RestOf, IsPure
<1>4. CASE n = 1 /\ f = Value(Time(s.virtual_time)) /\ r = <<GotTime>>
  <2>1. p = RetryAttempt(1) /\ Tail(r) = <<>>
    BY <1>1, <1>4, CodeOfTheExample
  <2>2. FocusOf(p) = Request(SendHello) /\ RestOf(p, Tail(r)) = <<GotReply(1)>>
    BY <1>2, <2>1 DEF RetryAttempt
  <2>3. n = 2 * 1 - 1
    BY <1>4
  <2>4. QED
    BY <1>0, <2>2, <2>3 DEF Stage
<1>5. ASSUME NEW a \in 1 .. MaxAttempts,
             n = 2 * a, f = Value(Heard(s, a)), r = <<GotReply(a)>>
      PROVE  Stage(s, FocusOf(p), RestOf(p, Tail(r)), n)
  <2>1. p = OnReply(a, Heard(s, a)) /\ Tail(r) = <<>>
    BY <1>1, <1>5, CodeOfTheExample, Places
  <2>2. CASE Heard(s, a) = Reply
    <3>1. p = Pure(ResultAfter(s, a))
      BY <2>1, <2>2 DEF OnReply, ResultAfter
    <3>2. QED
      BY <1>3, <1>5, <2>1, <2>2, <3>1 DEF Stage
  <2>3. CASE Heard(s, a) # Reply /\ a >= MaxAttempts
    <3>1. p = Pure(ResultAfter(s, a)) /\ a = MaxAttempts
      BY <1>0, <2>1, <2>3 DEF OnReply, ResultAfter
    <3>2. QED
      BY <1>3, <1>5, <2>1, <3>1 DEF Stage
  <2>4. CASE Heard(s, a) # Reply /\ ~(a >= MaxAttempts)
    <3>1. p = BindLater(Send(SleepFor(a)), Woken(a)) /\ Heard(s, a) = NetError /\ a < MaxAttempts
      BY <1>0, <2>1, <2>4, HeardIsAnAnswer DEF OnReply
    <3>2. QED
      BY <1>2, <1>5, <2>1, <3>1 DEF Stage
  <2>5. QED
    BY <2>2, <2>3, <2>4
<1>6. ASSUME NEW a \in 1 .. MaxAttempts,
             n = 2 * a + 1, f = Value(Slept), r = <<Woken(a)>>, a < MaxAttempts
      PROVE  Stage(s, FocusOf(p), RestOf(p, Tail(r)), n)
  <2>1. p = RetryAttempt(a + 1) /\ Tail(r) = <<>>
    BY <1>1, <1>6, CodeOfTheExample
  <2>2. FocusOf(p) = Request(SendHello) /\ RestOf(p, Tail(r)) = <<GotReply(a + 1)>>
    BY <1>2, <2>1 DEF RetryAttempt
  <2>3. a + 1 \in 1 .. MaxAttempts /\ n = 2 * (a + 1) - 1
    BY <1>0, <1>6
  <2>4. QED
    BY <2>2, <2>3 DEF Stage
<1>7. QED
  BY <1>4, <1>5, <1>6, Places DEF Stage

-----------------------------------------------------------------------------
(* The steps of the program in direct style.  A refused operation may count or not. *)

LEMMA Begins ==
  ASSUME NEW s \in RetryScript, s.send_count = 0
  PROVE  Stands(s, FocusOf(RetryProgram), RestOf(RetryProgram, <<>>), "running", s, <<>>)
<1>1. FocusOf(RetryProgram) = Request(Now) /\ RestOf(RetryProgram, <<>>) = <<GotTime>>
  BY DEF RetryProgram, BindLater, Send, Roll, FocusOf, RestOf, IsPure
<1>2. <<>> \in Seq(LogEntry) /\ Len(<<>>) = 0 /\ MaxAttempts \in Nat
  BY EmptySeq, RetryAssumption
<1>3. \A a \in 1 .. MaxAttempts : 0 # 2 * a - 1 /\ 0 # 2 * a /\ ~(2 * a <= 0)
  OBVIOUS
<1>4. History(s, <<>>)
  BY <1>2, <1>3 DEF History
<1>5. ScriptAfter(s, s, 0)
  BY <1>3 DEF ScriptAfter
<1>6. Stage(s, Request(Now), <<GotTime>>, 0)
  BY DEF Stage
<1>7. QED
  BY <1>1, <1>2, <1>4, <1>5, <1>6 DEF Stands

LEMMA Answered ==
  ASSUME InTheExample, NEW s \in RetryScript, NEW f, NEW r, NEW h, NEW l,
         Stands(s, f, r, "running", h, l), f.at = "request", f.op \in RetryOp,
         NEW h2, NEW v, <<h2, v>> \in MockHandler[h][f.op]
  PROVE  Stands(s, Value(v), r, "running", h2, Append(l, [op |-> f.op, ans |-> v]))
<1> DEFINE n == Len(l)
           e == [op |-> f.op, ans |-> v]
<1>1. /\ History(s, l) /\ ScriptAfter(s, h, n) /\ Stage(s, f, r, n)
      /\ \A i \in 1 .. n : l[i].ans # Refused
  BY DEF Stands
<1>2. l \in Seq(LogEntry) /\ n \in Nat
  BY <1>1 DEF History
<1>3. /\ ScriptAfter(s, h2, n + 1) /\ Stage(s, Value(v), r, n + 1)
      /\ v \in RetryVal /\ NextLine(s, e, n)
  <2> HIDE DEF n
  <2>1. QED
    BY <1>1, <1>2, AnswerGiven
<1>4. e \in LogEntry /\ e.ans # Refused
  BY <1>3, ProgramAssumption DEF InTheExample, LogEntry
<1>5. /\ Len(Append(l, e)) = n + 1
      /\ \A i \in 1 .. n + 1 : Append(l, e)[i] = IF i = n + 1 THEN e ELSE l[i]
  <2> HIDE DEF e
  <2>1. QED
    BY <1>2, <1>4
<1> HIDE DEF e
<1>6. History(s, Append(l, e))
  BY <1>1, <1>3, <1>4, HistoryGrows
<1>7. \A i \in 1 .. n + 1 : Append(l, e)[i].ans # Refused
  BY <1>1, <1>2, <1>4, <1>5
<1> HIDE DEF n
<1>8. Stands(s, Value(v), r, "running", h2, Append(l, e))
  BY <1>3, <1>5, <1>6, <1>7 DEF Stands
<1>9. QED
  BY <1>8 DEF e

LEMMA CutShort ==
  ASSUME InTheExample, NEW s \in RetryScript, NEW f, NEW r, NEW h, NEW l, NEW f2, NEW r2,
         Stands(s, f, r, "running", h, l), f.at = "request", f.op \in RetryOp,
         NEW h2, h2 = h \/ \E v : <<h2, v>> \in MockHandler[h][f.op]
  PROVE  Stands(s, f2, r2, "failed", h2, Append(l, [op |-> f.op, ans |-> Refused]))
<1> DEFINE n == Len(l)
           e == [op |-> f.op, ans |-> Refused]
<1>1. /\ History(s, l) /\ ScriptAfter(s, h, n) /\ Stage(s, f, r, n)
      /\ \A i \in 1 .. n : l[i].ans # Refused
  BY DEF Stands
<1>2. l \in Seq(LogEntry) /\ n \in Nat
  BY <1>1 DEF History
<1>3. NextLine(s, e, n)
  BY <1>1, Places DEF Stage, NextLine
<1>4. e \in LogEntry /\ e.ans = Refused
  BY DEF InTheExample, LogEntry
<1> HIDE DEF e
<1>5. Len(Append(l, e)) = n + 1 /\ Append(l, e)[n + 1] = e
  BY <1>2, <1>4
<1>6. History(s, Append(l, e))
  BY <1>1, <1>3, <1>4, HistoryGrows
<1>7. Stands(s, f2, r2, "failed", h2, Append(l, e))
  <2> HIDE DEF n
  <2>1. n + 1 >= 1 /\ n + 1 - 1 = n
    BY <1>2
  <2>2. CASE h2 = h
    BY <1>1, <1>4, <1>5, <1>6, <2>1, <2>2 DEF Stands
  <2>3. ASSUME NEW v, <<h2, v>> \in MockHandler[h][f.op]
        PROVE  ScriptAfter(s, h2, n + 1)
    BY <1>1, <1>2, <2>3, AnswerGiven
  <2>4. CASE \E v : <<h2, v>> \in MockHandler[h][f.op]
    BY <1>4, <1>5, <1>6, <2>1, <2>3, <2>4 DEF Stands
  <2>5. QED
    BY <2>2, <2>4
<1>8. QED
  BY <1>7 DEF e

(* What a function takes and what the handler is asked are the example's. *)
LEMMA StageTypes ==
  ASSUME NEW s \in RetryScript, NEW n, NEW f, NEW r, Stage(s, f, r, n)
  PROVE  /\ f.at = "request" => f.op \in RetryOp
         /\ f.at = "value" /\ r # <<>> => f.val \in RetryVal
<1>1. Time(s.virtual_time) \in RetryVal
  BY DEF RetryVal, RetryScript
<1>2. \A a : Heard(s, a) \in RetryVal
  BY HeardIsAnAnswer, Responses
<1>3. CASE f.at = "request"
  BY <1>3, Places, OperationsOfTheExample DEF Stage
<1>4. CASE f.at = "value" /\ r # <<>>
  BY <1>1, <1>2, <1>4, Places, Responses DEF Stage
<1>5. QED
  BY <1>3, <1>4

LEMMA Moves ==
  ASSUME InTheExample, NEW s \in RetryScript, NEW f, NEW r, NEW h, NEW l,
         Stands(s, f, r, "running", h, l), f.at = "value", r # <<>>
  PROVE  LET p == RetryCode[Head(r)][f.val]
         IN  Stands(s, FocusOf(p), RestOf(p, Tail(r)), "running", h, l)
<1> DEFINE n == Len(l)
<1>1. Stage(s, f, r, n) /\ n \in Nat
  BY DEF Stands, History
<1>2. f.val \in RetryVal
  BY <1>1, StageTypes
<1>3. LET p == RetryCode[Head(r)][f.val] IN Stage(s, FocusOf(p), RestOf(p, Tail(r)), n)
  <2> HIDE DEF n
  <2>1. QED
    BY <1>1, <1>2, FunctionCalled
<1>4. QED
  BY <1>3 DEF Stands

-----------------------------------------------------------------------------
(* run_task *)

LEMMA TaskBegins ==
  ASSUME InTheExample, Init
  PROVE  hs \in InitScript /\ TaskStands(hs)
<1>1. code = RetryCode /\ current = RetryProgram /\ hs \in InitScript
  BY DEF InTheExample, Init
<1>2. hs \in RetryScript /\ hs.send_count = 0
  BY <1>1, HandlerAssumption DEF InTheExample, InitScript
<1>3. /\ focusMap = FocusOf(RetryProgram) /\ restMap = RestOf(RetryProgram, <<>>)
      /\ outcomeMap = "running" /\ log = <<>>
  BY <1>1 DEF Init, focusMap, restMap, outcomeMap, failed, InHand
<1>4. hsMap = hs
  BY DEF Init, hsMap
<1>5. QED
  BY <1>1, <1>2, <1>3, <1>4, Begins DEF TaskStands

LEMMA TaskGoesOn ==
  ASSUME InTheExample, IInv, NEW s \in RetryScript, TaskStands(s), [Next]_vars
  PROVE  TaskStands(s)'
<1>0. [Direct!Next]_(Direct!dvars)
  BY NextRefines
<1>1. code = RetryCode /\ Stands(s, focusMap, restMap, outcomeMap, hsMap, log)
  BY DEF TaskStands
<1>2. Stage(s, focusMap, restMap, Len(log)) \/ outcomeMap = "failed"
  BY <1>1 DEF Stands
<1>3. CASE Direct!Perform
  <2>1. focusMap.op \in RetryOp /\ outcomeMap = "running"
    BY <1>2, <1>3, StageTypes DEF Direct!Perform
  <2>2. PICK h \in HandlerState, v \in Val :
          /\ <<h, v>> \in Handler[hsMap][focusMap.op] /\ hsMap' = h
          /\ log' = Append(log, [op |-> focusMap.op, ans |-> v])
          /\ focusMap' = Direct!Value(v)
    BY <1>3 DEF Direct!Perform
  <2>3. <<h, v>> \in MockHandler[hsMap][focusMap.op] /\ focusMap' = Value(v)
    BY <2>2, SameReading DEF InTheExample
  <2>4. code' = code /\ restMap' = restMap /\ outcomeMap' = outcomeMap /\ focusMap.at = "request"
    BY <1>3 DEF Direct!Perform
  <2>5. Stands(s, focusMap', restMap', outcomeMap', hsMap', log')
    BY <1>1, <2>1, <2>2, <2>3, <2>4, Answered
  <2>6. QED
    BY <1>1, <2>4, <2>5 DEF TaskStands
<1>4. CASE Direct!Refuse
  <2>1. focusMap.op \in RetryOp /\ outcomeMap = "running" /\ focusMap.at = "request"
    BY <1>2, <1>4, StageTypes DEF Direct!Refuse
  <2>2. /\ log' = Append(log, [op |-> focusMap.op, ans |-> Refused])
        /\ code' = code /\ outcomeMap' = "failed"
        /\ hsMap' \in Direct!MayLeave(hsMap, focusMap.op)
    BY <1>4 DEF Direct!Refuse
  <2>3. hsMap' = hsMap \/ \E v : <<hsMap', v>> \in MockHandler[hsMap][focusMap.op]
    <3>1. Stage(s, focusMap, restMap, Len(log)) /\ hsMap \in RetryScript
      BY <1>1, <2>1 DEF Stands, ScriptAfter
    <3>2. MockHandler[hsMap][focusMap.op] \subseteq RetryScript \X RetryVal
      BY <2>1, <3>1 DEF MockHandler, InBounds
    <3>3. hsMap' = hsMap \/ hsMap' \in {a[1] : a \in MockHandler[hsMap][focusMap.op]}
      BY <2>2 DEF Direct!MayLeave, InTheExample
    <3>4. QED
      BY <3>2, <3>3, LeftByAnswer
  <2>4. Stands(s, focusMap', restMap', outcomeMap', hsMap', log')
    BY <1>1, <2>1, <2>2, <2>3, CutShort
  <2>5. QED
    BY <1>1, <2>2, <2>4 DEF TaskStands
<1>5. CASE Direct!Continue
  <2> DEFINE p == RetryCode[Head(restMap)][focusMap.val]
  <2>1. /\ outcomeMap = "running" /\ focusMap.at = "value" /\ restMap # <<>>
        /\ focusMap' = FocusOf(p) /\ restMap' = RestOf(p, Tail(restMap))
        /\ UNCHANGED <<code, hsMap, log, outcomeMap>>
    BY <1>1, <1>5, SameReading DEF Direct!Continue
  <2>2. Stands(s, focusMap', restMap', outcomeMap', hsMap', log')
    BY <1>1, <2>1, Moves
  <2>3. QED
    BY <1>1, <2>1, <2>2 DEF TaskStands
<1>6. CASE Direct!Break
  BY <1>6 DEF Direct!Break, InTheExample
<1>7. CASE Direct!Finish
  <2>1. /\ outcomeMap = "running" /\ restMap = <<>> /\ outcomeMap' = "returned"
        /\ UNCHANGED <<code, focusMap, restMap, hsMap, log>>
    BY <1>7 DEF Direct!Finish
  <2>2. Stands(s, focusMap', restMap', outcomeMap', hsMap', log')
    BY <1>1, <2>1 DEF Stands
  <2>3. QED
    BY <1>1, <2>1, <2>2 DEF TaskStands
<1>8. CASE UNCHANGED Direct!dvars
  BY <1>1, <1>8 DEF Direct!dvars, TaskStands
<1>9. QED
  BY <1>0, <1>3, <1>4, <1>5, <1>6, <1>7, <1>8 DEF Direct!Next

LEMMA TaskInvariant ==
  ASSUME InTheExample
  PROVE  Spec => [](IInv /\ \E s \in InitScript : TaskStands(s))
<1> DEFINE I == IInv /\ \E s \in InitScript : TaskStands(s)
<1>1. Init => I
  BY InitInvariant, TaskBegins
<1>2. I /\ [Next]_vars => I'
  <2> SUFFICES ASSUME I, [Next]_vars PROVE I'
    OBVIOUS
  <2>1. IInv'
    BY NextInvariant
  <2>2. PICK s \in InitScript : TaskStands(s)
    OBVIOUS
  <2>3. s \in RetryScript
    BY HandlerAssumption DEF InTheExample
  <2>4. TaskStands(s)'
    BY <2>2, <2>3, TaskGoesOn
  <2>5. QED
    BY <2>1, <2>4
<1>3. QED
  BY <1>1, <1>2, PTL DEF Spec

-----------------------------------------------------------------------------
(* Counting the sends of a history *)

LEMMA Evens ==
  ASSUME NEW k \in Nat
  PROVE  Cardinality({2 * a : a \in 1 .. k}) = k
<1> DEFINE S == {2 * a : a \in 1 .. k}
           f == [a \in 1 .. k |-> 2 * a]
<1>1. f \in [1 .. k -> S] /\ \A a, b \in 1 .. k : f[a] = f[b] => a = b
  OBVIOUS
<1>2. \A x \in S : \E a \in 1 .. k : f[a] = x
  OBVIOUS
<1>3. f \in Bijection(1 .. k, S)
  BY <1>1, <1>2 DEF Bijection, Injection, Surjection, IsInjective
<1>4. QED
  BY <1>3, FS_CountingElements DEF ExistsBijection

(* A place of the log other than the first is even or follows an even one. *)
LEMMA EvenOrOdd ==
  ASSUME NEW i \in Nat, i > 1, i <= 2 * MaxAttempts
  PROVE  \/ \E a \in 1 .. MaxAttempts : i = 2 * a
         \/ \E a \in 1 .. MaxAttempts : i = 2 * a + 1
<1> DEFINE a == i \div 2
<1>1. a \in Nat /\ i \in {2 * a, 2 * a + 1} /\ MaxAttempts \in Nat
  BY RetryAssumption, SMT
<1>2. a \in 1 .. MaxAttempts
  <2> HIDE DEF a
  <2>1. QED
    BY <1>1
<1> HIDE DEF a
<1>3. QED
  BY <1>1, <1>2

LEMMA SendsCounted ==
  ASSUME NEW s, NEW l, History(s, l), NEW a \in Nat, NEW m \in {2 * a, 2 * a + 1}, m <= Len(l)
  PROVE  Cardinality(Sends(SubSeq(l, 1, m))) = a
<1> DEFINE before == SubSeq(l, 1, m)
<1>1. l \in Seq(LogEntry) /\ Len(l) \in Nat /\ Len(l) <= 2 * MaxAttempts /\ m \in Nat
      /\ MaxAttempts \in Nat
  BY RetryAssumption DEF History
<1>2. DOMAIN before = 1 .. m /\ \A i \in 1 .. m : before[i] = l[i]
  BY <1>1
<1> HIDE DEF before
<1>3. ASSUME NEW b \in 1 .. MaxAttempts, 2 * b <= m
      PROVE  l[2 * b].op = SendHello
  <2>1. 2 * b <= Len(l)
    BY <1>1, <1>3
  <2>2. QED
    BY <2>1 DEF History
<1>4. ASSUME NEW b \in 1 .. MaxAttempts, 2 * b + 1 <= m
      PROVE  l[2 * b + 1].op # SendHello
  <2>1. 2 * b < Len(l)
    BY <1>1, <1>4
  <2>2. l[2 * b + 1].op = SleepFor(b)
    BY <2>1 DEF History
  <2>3. QED
    BY <2>2, Operations
<1>5. 1 <= m => l[1].op # SendHello
  BY <1>1, Operations DEF History
<1>6. ASSUME NEW b \in 1 .. a
      PROVE  2 * b \in Sends(before)
  <2>1. b \in 1 .. MaxAttempts /\ 2 * b <= m /\ 2 * b \in 1 .. m
    BY <1>1
  <2>2. QED
    BY <1>2, <1>3, <2>1 DEF Sends
<1>7. ASSUME NEW i \in Sends(before)
      PROVE  \E b \in 1 .. a : i = 2 * b
  <2>1. i \in 1 .. m /\ l[i].op = SendHello
    BY <1>2 DEF Sends
  <2>2. i \in Nat /\ i > 1 /\ i <= 2 * MaxAttempts
    BY <1>1, <1>5, <2>1
  <2>3. PICK b \in 1 .. MaxAttempts : i = 2 * b \/ i = 2 * b + 1
    BY <2>2, EvenOrOdd
  <2>4. i = 2 * b
    <3>1. i = 2 * b + 1 => 2 * b + 1 <= m
      BY <1>1, <2>1
    <3>2. QED
      BY <1>4, <2>1, <2>3, <3>1
  <2>5. b \in 1 .. a
    BY <1>1, <2>1, <2>4
  <2>6. QED
    BY <2>4, <2>5
<1>8. Sends(before) = {2 * b : b \in 1 .. a}
  BY <1>6, <1>7
<1>9. QED
  BY <1>8, Evens DEF before

LEMMA AllSendsCounted ==
  ASSUME NEW s, NEW l, History(s, l), NEW a \in Nat, Len(l) \in {2 * a, 2 * a + 1}
  PROVE  Cardinality(Sends(l)) = a
<1>1. l \in Seq(LogEntry) /\ Len(l) \in Nat
  BY DEF History
<1>2. SubSeq(l, 1, Len(l)) = l
  BY <1>1
<1>3. Cardinality(Sends(SubSeq(l, 1, Len(l)))) = a
  <2>1. PICK m \in {2 * a, 2 * a + 1} : m = Len(l)
    OBVIOUS
  <2>2. m <= Len(l)
    BY <1>1, <2>1
  <2>3. Cardinality(Sends(SubSeq(l, 1, m))) = a
    BY <2>2, SendsCounted
  <2>4. QED
    BY <2>1, <2>3
<1>4. QED
  BY <1>2, <1>3

-----------------------------------------------------------------------------
(* What run_task's log and value say *)

LEMMA HistoryBacksOff ==
  ASSUME InTheExample, NEW s, History(s, log)
  PROVE  BacksOffBetweenAttempts
<1>1. /\ log \in Seq(LogEntry) /\ Len(log) \in Nat /\ Len(log) <= 2 * MaxAttempts
      /\ DOMAIN log = 1 .. Len(log)
  BY DEF History
<1> SUFFICES ASSUME NEW i \in 1 .. Len(log)
             PROVE  LET before == SubSeq(log, 1, i - 1) IN
                      CASE log[i].op = Now -> i = 1
                        [] log[i].op = SendHello ->
                             i = 2 \/ (i > 2 /\ log[i - 1].op = SleepFor(Cardinality(Sends(before))))
                        [] OTHER ->
                             /\ i > 2 /\ log[i - 1] = [op |-> SendHello, ans |-> NetError]
                             /\ log[i].op = SleepFor(Cardinality(Sends(before)))
  BY <1>1 DEF BacksOffBetweenAttempts
<1> DEFINE before == SubSeq(log, 1, i - 1)
<1>2. CASE i = 1
  <2>1. log[i].op = Now
    BY <1>1, <1>2 DEF History
  <2>2. QED
    BY <1>2, <2>1, Operations
<1>3. ASSUME NEW a \in 1 .. MaxAttempts, i = 2 * a
      PROVE  log[i].op = SendHello
             /\ (i = 2 \/ (i > 2 /\ log[i - 1].op = SleepFor(Cardinality(Sends(before)))))
  <2>1. log[i].op = SendHello
    BY <1>1, <1>3 DEF History
  <2>2. CASE a # 1
    <3>1. a - 1 \in 1 .. MaxAttempts /\ i - 1 = 2 * (a - 1) + 1 /\ 2 * (a - 1) < Len(log) /\ i > 2
          /\ a - 1 \in Nat /\ i - 1 <= Len(log)
      BY <1>1, <1>3, <2>2, RetryAssumption
    <3>2. log[i - 1].op = SleepFor(a - 1)
      BY <3>1 DEF History
    <3>3. Cardinality(Sends(before)) = a - 1
      BY <3>1, SendsCounted
    <3>4. QED
      BY <2>1, <3>1, <3>2, <3>3
  <2>3. QED
    BY <1>3, <2>1, <2>2
<1>4. ASSUME NEW a \in 1 .. MaxAttempts, i = 2 * a + 1
      PROVE  /\ i > 2 /\ log[i - 1] = [op |-> SendHello, ans |-> NetError]
             /\ log[i].op = SleepFor(Cardinality(Sends(before)))
             /\ log[i].op # Now /\ log[i].op # SendHello
  <2>1. i - 1 = 2 * a /\ 2 * a < Len(log) /\ i > 2 /\ a \in Nat /\ i - 1 <= Len(log)
        /\ i - 1 \in 1 .. Len(log) - 1
    BY <1>1, <1>4
  <2>2. /\ log[i - 1].op = SendHello /\ log[i - 1].ans \in {NetError, Refused}
        /\ log[i].op = SleepFor(a) /\ log[i - 1].ans # Refused
    BY <1>1, <1>4, <2>1 DEF History
  <2>3. log[i - 1] = [op |-> SendHello, ans |-> NetError]
    <3>1. log[i - 1] \in LogEntry
      BY <1>1, <2>1
    <3>2. QED
      BY <2>2, <3>1 DEF LogEntry
  <2>4. Cardinality(Sends(before)) = a
    BY <2>1, SendsCounted
  <2>5. QED
    BY <2>1, <2>2, <2>3, <2>4, Operations
<1> HIDE DEF before
<1>5. CASE i # 1
  <2>1. \/ \E a \in 1 .. MaxAttempts : i = 2 * a
        \/ \E a \in 1 .. MaxAttempts : i = 2 * a + 1
    <3>1. i \in Nat /\ i > 1 /\ i <= 2 * MaxAttempts
      BY <1>1, <1>5, RetryAssumption
    <3>2. QED
      BY <3>1, EvenOrOdd
  <2>2. CASE \E a \in 1 .. MaxAttempts : i = 2 * a
    <3>1. log[i].op = SendHello
          /\ (i = 2 \/ (i > 2 /\ log[i - 1].op = SleepFor(Cardinality(Sends(before)))))
      BY <1>3, <2>2
    <3>2. log[i].op # Now
      BY <3>1, Operations
    <3>3. QED
      BY <3>1, <3>2 DEF before
  <2>3. CASE \E a \in 1 .. MaxAttempts : i = 2 * a + 1
    BY <1>4, <2>3 DEF before
  <2>4. QED
    BY <2>1, <2>2, <2>3
<1>6. QED
  BY <1>2, <1>5

(* A place where no function waits and the program has its value. *)
LEMMA AtTheEnd ==
  ASSUME NEW s, NEW f, NEW n, Stage(s, f, <<>>, n)
  PROVE  \E a \in 1 .. MaxAttempts :
           n = 2 * a /\ f = Value(ResultAfter(s, a)) /\ (Heard(s, a) = Reply \/ a = MaxAttempts)
<1>1. \A k : <<k>> # <<>>
  OBVIOUS
<1>2. QED
  BY <1>1 DEF Stage

LEMMA ReturnedValue ==
  ASSUME InTheExample, IInv, NEW s \in RetryScript, TaskStands(s), outcome = "returned"
  PROVE  \E a \in 1 .. MaxAttempts :
           /\ Len(log) = 2 * a /\ current = Pure(ResultAfter(s, a))
           /\ Heard(s, a) = Reply \/ a = MaxAttempts
<1>1. phase = "over" /\ call = "none" /\ frames = <<>>
  BY DEF IInv, Holding, DepthMatchesFrames
<1>2. ~failed /\ outcomeMap = "returned" /\ InHand = current
  BY <1>1 DEF failed, outcomeMap, InHand
<1>3. Stage(s, focusMap, <<>>, Len(log))
  BY <1>2 DEF TaskStands, Stands
<1>4. PICK a \in 1 .. MaxAttempts :
        /\ Len(log) = 2 * a /\ focusMap = Value(ResultAfter(s, a))
        /\ Heard(s, a) = Reply \/ a = MaxAttempts
  BY <1>3, AtTheEnd
<1>5. FocusOf(current) = Value(ResultAfter(s, a))
  BY <1>2, <1>4 DEF focusMap
<1>6. IsPure(current) /\ current.val = ResultAfter(s, a)
  BY <1>5, Places DEF FocusOf
<1>7. current \in PureProgram
  BY <1>6 DEF IInv, TypeOK, MovedFrom, IsPure, Program, RollProgram, PureProgram
<1>8. current = Pure(ResultAfter(s, a))
  BY <1>6, <1>7 DEF PureProgram, Pure
<1>9. QED
  BY <1>4, <1>8

LEMMA ReturnedResult ==
  ASSUME InTheExample, IInv, NEW s \in RetryScript, TaskStands(s)
  PROVE  ResultIsOfTheLastSend
<1> SUFFICES ASSUME outcome = "returned"
             PROVE  /\ log # <<>> /\ Last(log).op = SendHello
                    /\ current = Pure(IF Last(log).ans = Reply THEN Result(ReplySize)
                                                               ELSE Result(-1))
                    /\ Last(log).ans # Reply => Cardinality(Sends(log)) = MaxAttempts
  BY DEF ResultIsOfTheLastSend
<1>1. PICK a \in 1 .. MaxAttempts :
        /\ Len(log) = 2 * a /\ current = Pure(ResultAfter(s, a))
        /\ Heard(s, a) = Reply \/ a = MaxAttempts
  BY ReturnedValue
<1>2. History(s, log) /\ log \in Seq(LogEntry)
  BY DEF TaskStands, Stands, History
<1>3. log # <<>> /\ Last(log) = log[2 * a] /\ 2 * a <= Len(log) /\ a \in Nat
  BY <1>1, <1>2 DEF Last
<1>4. outcomeMap = "returned"
  BY DEF IInv, Holding, outcomeMap, failed
<1>5. log[2 * a].ans # Refused
  <2>1. 2 * a \in 1 .. Len(log)
    BY <1>1
  <2>2. QED
    BY <1>4, <2>1 DEF TaskStands, Stands
<1>6. Last(log).op = SendHello /\ Last(log).ans = Heard(s, a)
  BY <1>2, <1>3, <1>5 DEF History
<1>7. Cardinality(Sends(log)) = a
  BY <1>1, <1>2, <1>3, AllSendsCounted
<1>8. QED
  BY <1>1, <1>3, <1>6, <1>7 DEF ResultAfter

(* Where the program makes a request it has had no reply, and has attempts left. *)
LEMMA AskingIsAllowed ==
  ASSUME InTheExample, NEW s \in RetryScript, NEW f, NEW r, NEW h, NEW l,
         Stands(s, f, r, "running", h, l), f.at = "request"
  PROVE  (\A i \in DOMAIN l : l[i].ans # Reply) /\ Cardinality(Sends(l)) # MaxAttempts
<1> DEFINE n == Len(l)
<1>1. /\ History(s, l) /\ Stage(s, f, r, n) /\ l \in Seq(LogEntry) /\ n \in Nat
      /\ n <= 2 * MaxAttempts /\ DOMAIN l = 1 .. n
      /\ \A i \in 1 .. n : l[i].ans # Refused
  BY DEF Stands, History
<1>2. PICK a \in 0 .. MaxAttempts - 1 :
        n = 2 * a \/ n = 2 * a + 1
  <2>1. MaxAttempts \in Nat \ {0}
    BY RetryAssumption
  <2>2. CASE n = 0
    <3>1. 0 \in 0 .. MaxAttempts - 1 /\ n = 2 * 0
      BY <2>1, <2>2
    <3>2. QED
      BY <3>1
  <2>3. ASSUME NEW b \in 1 .. MaxAttempts, n = 2 * b - 1
        PROVE  \E a \in 0 .. MaxAttempts - 1 : n = 2 * a \/ n = 2 * a + 1
    <3>1. b - 1 \in 0 .. MaxAttempts - 1 /\ n = 2 * (b - 1) + 1
      BY <2>1, <2>3
    <3>2. QED
      BY <3>1
  <2>4. ASSUME NEW b \in 1 .. MaxAttempts, n = 2 * b, b < MaxAttempts
        PROVE  \E a \in 0 .. MaxAttempts - 1 : n = 2 * a \/ n = 2 * a + 1
    <3>1. b \in 0 .. MaxAttempts - 1
      BY <2>1, <2>4
    <3>2. QED
      BY <2>4, <3>1
  <2> HIDE DEF n
  <2>5. QED
    BY <1>1, <2>2, <2>3, <2>4, Places DEF Stage
<1>3. Cardinality(Sends(l)) = a /\ a # MaxAttempts
  <2>1. Len(l) \in {2 * a, 2 * a + 1} /\ a \in Nat /\ a # MaxAttempts
    BY <1>2, RetryAssumption
  <2>2. Cardinality(Sends(l)) = a
    <3> HIDE DEF n
    <3>1. QED
      BY <1>1, <2>1, AllSendsCounted
  <2>3. QED
    BY <2>1, <2>2
<1>4. n > 0 => l[1].ans # Reply
  BY <1>1, Responses DEF History
<1>5. ASSUME NEW b \in 1 .. MaxAttempts, 2 * b \in 1 .. n
      PROVE  l[2 * b].ans # Reply
  <2>1. l[2 * b].ans = Heard(s, b)
    BY <1>1, <1>5 DEF History
  <2>2. CASE 2 * b < n
    <3>1. Heard(s, b) = NetError
      BY <1>1, <2>2 DEF History
    <3>2. QED
      BY <2>1, <3>1, Responses
  <2>3. CASE 2 * b = n
    <3>1. Heard(s, b) = NetError
      <4>1. \A c \in 1 .. MaxAttempts : n # 2 * c - 1 /\ (n = 2 * c => c = b)
        BY <2>3
      <4>2. n # 0
        BY <2>3
      <4> HIDE DEF n
      <4>3. QED
        BY <1>1, <4>1, <4>2, Places DEF Stage
    <3>2. QED
      BY <2>1, <3>1, Responses
  <2> HIDE DEF n
  <2>4. 2 * b < n \/ 2 * b = n
    <3>1. n \in Nat
      BY <1>1
    <3>2. QED
      BY <1>5, <3>1
  <2>5. QED
    BY <2>2, <2>3, <2>4
<1>6. ASSUME NEW b \in 1 .. MaxAttempts, 2 * b + 1 \in 1 .. n
      PROVE  l[2 * b + 1].ans # Reply
  BY <1>1, <1>6, Responses DEF History
<1>7. ASSUME NEW i \in 1 .. n
      PROVE  l[i].ans # Reply
  <2>1. CASE i = 1
    BY <1>1, <1>4, <2>1
  <2>2. CASE i # 1
    <3>1. i \in Nat /\ i > 1 /\ i <= 2 * MaxAttempts
      BY <1>1, <2>2, RetryAssumption
    <3>2. PICK b \in 1 .. MaxAttempts : i = 2 * b \/ i = 2 * b + 1
      BY <3>1, EvenOrOdd
    <3>3. QED
      BY <1>5, <1>6, <3>2
  <2>3. QED
    BY <2>1, <2>2
<1>8. QED
  BY <1>1, <1>3, <1>7

LEMMA NoMoreAttempts ==
  ASSUME InTheExample, IInv, NEW s \in RetryScript, TaskStands(s), [Next]_vars,
         (\E i \in DOMAIN log : log[i].ans = Reply) \/ Cardinality(Sends(log)) = MaxAttempts
  PROVE  log' = log
<1>1. [Direct!Next]_(Direct!dvars)
  BY NextRefines
<1>2. outcomeMap = "running" => focusMap.at # "request"
  BY AskingIsAllowed DEF TaskStands
<1>3. QED
  BY <1>1, <1>2
  DEF Direct!Next, Direct!Perform, Direct!Refuse, Direct!Continue, Direct!Break, Direct!Finish,
      Direct!dvars

(***************************************************************************)
(* FD10's narrative, for any number of attempts and any script: the time   *)
(* is fetched once, every send but the first follows a backoff, and every  *)
(* backoff follows a send that failed and is as long as the number of      *)
(* sends that have failed.                                                 *)
(***************************************************************************)
THEOREM BackoffsGrow == InTheExample => (Spec => []BacksOffBetweenAttempts)
<1> SUFFICES ASSUME InTheExample PROVE Spec => []BacksOffBetweenAttempts
  OBVIOUS
<1>1. (IInv /\ \E s \in InitScript : TaskStands(s)) => BacksOffBetweenAttempts
  BY HistoryBacksOff DEF TaskStands, Stands
<1>2. QED
  BY <1>1, TaskInvariant, PTL

(***************************************************************************)
(* The value of the program is the length of the reply to its last send,   *)
(* and is -1 only when every attempt was made and failed.                  *)
(***************************************************************************)
THEOREM ValueIsOfTheLastSend == InTheExample => (Spec => []ResultIsOfTheLastSend)
<1> SUFFICES ASSUME InTheExample PROVE Spec => []ResultIsOfTheLastSend
  OBVIOUS
<1>1. InitScript \subseteq RetryScript
  BY HandlerAssumption DEF InTheExample
<1>2. (IInv /\ \E s \in InitScript : TaskStands(s)) => ResultIsOfTheLastSend
  BY <1>1, ReturnedResult
<1>3. QED
  BY <1>2, TaskInvariant, PTL

(***************************************************************************)
(* Nothing is asked after a reply, nor after the last attempt: neither a   *)
(* fourth send nor a backoff nobody waits for.                             *)
(***************************************************************************)
THEOREM StopsInTime == InTheExample => (Spec => NoFurtherAttempt)
<1> SUFFICES ASSUME InTheExample PROVE Spec => NoFurtherAttempt
  OBVIOUS
<1>1. InitScript \subseteq RetryScript
  BY HandlerAssumption DEF InTheExample
<1>2. /\ IInv /\ \E s \in InitScript : TaskStands(s)
      /\ [Next]_vars
      => [(\E i \in DOMAIN log : log[i].ans = Reply) \/ Cardinality(Sends(log)) = MaxAttempts
            => log' = log]_vars
  BY <1>1, NoMoreAttempts
<1>3. QED
  BY <1>2, TaskInvariant, PTL DEF Spec, NoFurtherAttempt

-----------------------------------------------------------------------------
(* Virtual time *)

(* A set of naturals has a least element: {1 .. n : n \in T} has one. *)
LEMMA LeastNatural ==
  ASSUME NEW T, T \subseteq Nat, T # {}
  PROVE  \E x \in T : \A y \in T : x <= y
<1> DEFINE R == StrictSubsetOrdering(Nat)
           F == FiniteSubsetsOf(Nat)
           D == {1 .. n : n \in T}
<1>1. IsWellFoundedOn(R, F)
  BY FS_StrictSubsetOrderingWellFounded
<1>2. \A n \in T : 1 .. n \in FiniteSubsetsOf(Nat)
  <2> SUFFICES ASSUME NEW n \in T PROVE 1 .. n \in FiniteSubsetsOf(Nat)
    OBVIOUS
  <2>1. n \in Int /\ 1 .. n \subseteq Nat
    OBVIOUS
  <2>2. QED
    BY <2>1, FS_Interval DEF FiniteSubsetsOf
<1>3. D \subseteq F /\ D # {}
  BY <1>2
<1>4. PICK d \in D : \A e \in D : ~(<<e, d>> \in R)
  <2> HIDE DEF R, F, D
  <2>1. QED
    BY <1>1, <1>3, WFMin
<1>5. PICK x \in T : d = 1 .. x
  OBVIOUS
<1>6. ASSUME NEW y \in T, y < x PROVE FALSE
  <2>1. x \in 1 .. x /\ x \notin 1 .. y
    BY <1>6
  <2>2. 1 .. y \subseteq 1 .. x
    BY <1>6
  <2>3. 1 .. y \subseteq Nat /\ 1 .. x \subseteq Nat /\ 1 .. y # 1 .. x
    BY <2>1
  <2>4. <<1 .. y, 1 .. x>> \in R
    BY <2>2, <2>3 DEF StrictSubsetOrdering
  <2>5. QED
    BY <1>4, <1>5, <2>4
<1>7. QED
  BY <1>5, <1>6

(* A running sum exists: no number of terms is the least that has none. *)
LEMMA RunningSum ==
  ASSUME NEW w, NEW N \in Nat
  PROVE  \E g : g = [n \in 0 .. N |-> IF n = 0 THEN 0 ELSE g[n - 1] + w[n]]
<1> DEFINE Sums(g, m) == g = [n \in 0 .. m |-> IF n = 0 THEN 0 ELSE g[n - 1] + w[n]]
           T == {m \in Nat : ~ \E g : Sums(g, m)}
<1>1. Sums([n \in 0 .. 0 |-> 0], 0)
  OBVIOUS
<1>2. ASSUME NEW m \in Nat, NEW g, Sums(g, m)
      PROVE  \E h : Sums(h, m + 1)
  <2> DEFINE h == [n \in 0 .. m + 1 |-> IF n = m + 1 THEN g[m] + w[m + 1] ELSE g[n]]
  <2>1. \A n \in 0 .. m : h[n] = g[n]
    OBVIOUS
  <2>2. h[m + 1] = g[m] + w[m + 1] /\ h[m] = g[m]
    OBVIOUS
  <2>3. ASSUME NEW n \in 0 .. m + 1
        PROVE  h[n] = IF n = 0 THEN 0 ELSE h[n - 1] + w[n]
    <3>1. CASE n = m + 1
      BY <2>2, <3>1
    <3>2. CASE n # m + 1
      <4>1. n \in 0 .. m /\ g[n] = IF n = 0 THEN 0 ELSE g[n - 1] + w[n]
        BY <1>2, <3>2
      <4>2. n # 0 => h[n - 1] = g[n - 1]
        BY <2>1, <4>1
      <4>3. QED
        BY <2>1, <4>1, <4>2
    <3>3. QED
      BY <3>1, <3>2
  <2>4. Sums(h, m + 1)
    BY <2>3
  <2>5. QED
    BY <2>4
<1>3. T = {}
  <2> HIDE DEF Sums
  <2> SUFFICES ASSUME T # {} PROVE FALSE
    OBVIOUS
  <2>1. PICK m \in T : \A k \in T : m <= k
    BY LeastNatural
  <2>2. m # 0
    BY <1>1
  <2>3. m - 1 \in Nat /\ m - 1 \notin T
    BY <2>1, <2>2
  <2>4. PICK g : Sums(g, m - 1)
    BY <2>3
  <2>5. \E h : Sums(h, (m - 1) + 1)
    BY <1>2, <2>3, <2>4
  <2>6. QED
    BY <2>5
<1>4. QED
  BY <1>3

LEMMA SleptAddsUp ==
  ASSUME Len(log) \in Nat
  PROVE  \A n \in 0 .. Len(log) :
           SleptUpTo[n] = IF n = 0 THEN 0 ELSE SleptUpTo[n - 1] + SleptIn(log[n])
<1> DEFINE N == Len(log)
           w == [n \in 1 .. N |-> SleptIn(log[n])]
<1>1. PICK g : g = [n \in 0 .. N |-> IF n = 0 THEN 0 ELSE g[n - 1] + w[n]]
  BY RunningSum
<1>2. g = [n \in 0 .. N |-> IF n = 0 THEN 0 ELSE g[n - 1] + SleptIn(log[n])]
  <2>1. \A n \in 0 .. N : n # 0 => w[n] = SleptIn(log[n])
    OBVIOUS
  <2> HIDE DEF w
  <2>2. QED
    BY <1>1, <2>1
<1> HIDE DEF w
<1>3. SleptUpTo = [n \in 0 .. N |-> IF n = 0 THEN 0 ELSE SleptUpTo[n - 1] + SleptIn(log[n])]
  BY <1>2 DEF SleptUpTo
<1>4. QED
  BY <1>3

(* After the time, and after it and a - 1 backoffs, it is 1 + ... + (a - 1). *)
LEMMA SleptSoFar ==
  ASSUME NEW s, History(s, log),
         NEW n \in 1 .. Len(log), log[n].ans # Refused,
         NEW a \in 1 .. MaxAttempts, n = 2 * a - 1 \/ n = 2 * a
  PROVE  SleptUpTo[n] \in Int /\ 2 * SleptUpTo[n] = (a - 1) * ((a - 1) + 1)
<1> DEFINE Closed(m, b) == SleptUpTo[m] \in Int /\ 2 * SleptUpTo[m] = (b - 1) * ((b - 1) + 1)
           AtSend(m, b) == m = 2 * b - 1 \/ m = 2 * b
           T == {m \in 1 .. Len(log) :
                   log[m].ans # Refused /\ \E b \in 1 .. MaxAttempts : AtSend(m, b) /\ ~Closed(m, b)}
<1>1. /\ Len(log) \in Nat /\ Len(log) <= 2 * MaxAttempts /\ MaxAttempts \in Nat
      /\ \A i \in 1 .. Len(log) - 1 : log[i].ans # Refused
  BY RetryAssumption DEF History
<1>2. \A m \in 0 .. Len(log) :
        SleptUpTo[m] = IF m = 0 THEN 0 ELSE SleptUpTo[m - 1] + SleptIn(log[m])
  BY <1>1, SleptAddsUp
<1>3. ASSUME NEW m \in 1 .. Len(log), log[m].ans # Refused,
             NEW b \in 1 .. MaxAttempts, AtSend(m, b),
             m # 1 => \A c \in 1 .. MaxAttempts : AtSend(m - 1, c) => Closed(m - 1, c)
      PROVE  Closed(m, b)
  <2>1. CASE m = 1
    <3>1. b = 1
      BY <1>3, <2>1
    <3>2. log[1].op = Now
      BY <1>1, <2>1 DEF History
    <3>3. SleptIn(log[1]) = 0
      BY <3>2, Operations DEF SleptIn, Backoff
    <3>4. SleptUpTo[0] = 0 /\ SleptUpTo[1] = SleptUpTo[0] + SleptIn(log[1])
      BY <1>1, <1>2, <2>1
    <3>5. QED
      BY <2>1, <3>1, <3>3, <3>4
  <2>2. CASE m = 2 * b
    <3>1. log[2 * b].op = SendHello
      <4>1. 2 * b <= Len(log)
        BY <1>1, <2>2
      <4>2. QED
        BY <4>1 DEF History
    <3>2. SleptIn(log[m]) = 0
      BY <2>2, <3>1, Operations DEF SleptIn, Backoff
    <3>3. m # 1 /\ AtSend(m - 1, b)
      BY <1>1, <2>2
    <3>4. Closed(m - 1, b)
      BY <1>3, <3>3
    <3>5. SleptUpTo[m] = SleptUpTo[m - 1] + SleptIn(log[m])
      BY <1>1, <1>2
    <3>6. QED
      BY <3>2, <3>4, <3>5
  <2>3. CASE m = 2 * b - 1 /\ m # 1
    <3> DEFINE c == b - 1
    <3>1. c \in 1 .. MaxAttempts /\ m - 1 = 2 * c /\ 2 * c < Len(log) /\ 2 * c + 1 = m
      BY <1>1, <2>3
    <3>2. log[m].op = SleepFor(c)
      <4> HIDE DEF c
      <4>1. log[2 * c + 1].op = SleepFor(c)
        BY <3>1 DEF History
      <4>2. QED
        BY <3>1, <4>1
    <3>3. SleptIn(log[m]) = c
      BY <1>3, <3>2 DEF SleptIn, Backoff, SleepFor
    <3>4. Closed(m - 1, c)
      <4> HIDE DEF c, Closed
      <4>1. QED
        BY <1>3, <2>3, <3>1
    <3>5. SleptUpTo[m] = SleptUpTo[m - 1] + c
      BY <1>1, <1>2, <3>3
    <3> DEFINE before == (c - 1) * ((c - 1) + 1)
               after == c * (c + 1)
               x == SleptUpTo[m - 1]
    <3>6. before + 2 * c = after /\ before \in Int /\ after \in Int /\ c \in Int
      BY <3>1
    <3>7. x \in Int /\ 2 * x = before /\ SleptUpTo[m] = x + c
      BY <3>4, <3>5
    <3>8. SleptUpTo[m] \in Int /\ 2 * SleptUpTo[m] = after
      <4> HIDE DEF before, after, x, c
      <4>1. QED
        BY <3>6, <3>7
    <3>9. QED
      BY <3>8
  <2>4. QED
    BY <1>3, <2>1, <2>2, <2>3
<1>4. T = {}
  <2> HIDE DEF Closed
  <2> SUFFICES ASSUME T # {} PROVE FALSE
    OBVIOUS
  <2>1. PICK m \in T : \A k \in T : m <= k
    <3>1. T \subseteq Nat
      BY <1>1
    <3>2. QED
      BY <3>1, LeastNatural
  <2>2. PICK b \in 1 .. MaxAttempts : AtSend(m, b) /\ ~Closed(m, b)
    OBVIOUS
  <2>3. m # 1 => m - 1 \in 1 .. Len(log) /\ m - 1 \notin T /\ log[m - 1].ans # Refused
    BY <1>1, <2>1
  <2>4. QED
    BY <1>3, <2>2, <2>3
<1>5. QED
  BY <1>4

(* A place of the log belongs to a send: it is the send, or comes just before. *)
LEMMA SendOfPlace ==
  ASSUME NEW s, History(s, log), NEW n \in 1 .. Len(log)
  PROVE  \E a \in 1 .. MaxAttempts : n = 2 * a - 1 \/ n = 2 * a
<1>1. n \in Nat /\ n >= 1 /\ n <= 2 * MaxAttempts /\ MaxAttempts \in Nat
  BY RetryAssumption DEF History
<1>2. n = 1 => n = 2 * 1 - 1 /\ 1 \in 1 .. MaxAttempts
  BY RetryAssumption
<1>3. CASE n # 1
  <2>0. n > 1
    BY <1>1, <1>3
  <2>1. PICK a \in 1 .. MaxAttempts : n = 2 * a \/ n = 2 * a + 1
    BY <1>1, <2>0, EvenOrOdd
  <2>2. n = 2 * a + 1 => n = 2 * (a + 1) - 1 /\ a + 1 \in 1 .. MaxAttempts
    BY <1>1
  <2>3. QED
    BY <2>1, <2>2
<1>4. QED
  BY <1>2, <1>3

(* One line further, with an answer or without: as much as a send there needs. *)
LEMMA SleptOneMore ==
  ASSUME NEW s, History(s, log),
         NEW n \in 1 .. Len(log), log[n].ans # Refused, NEW e, NextLine(s, e, n)
  PROVE  \E c \in 1 .. MaxAttempts :
           /\ n + 1 = 2 * c - 1 \/ n + 1 = 2 * c
           /\ SleptUpTo[n] \in Int /\ Backoff(e.op) \in Int
           /\ 2 * (SleptUpTo[n] + Backoff(e.op)) = (c - 1) * ((c - 1) + 1)
<1>1. n \in Nat /\ n # 0 /\ MaxAttempts \in Nat
  BY RetryAssumption DEF History
<1>2. ASSUME NEW a \in 1 .. MaxAttempts, n = 2 * a - 1, e.op = SendHello
      PROVE  /\ n + 1 = 2 * a
             /\ SleptUpTo[n] \in Int /\ Backoff(e.op) \in Int
             /\ 2 * (SleptUpTo[n] + Backoff(e.op)) = (a - 1) * ((a - 1) + 1)
  <2>1. SleptUpTo[n] \in Int /\ 2 * SleptUpTo[n] = (a - 1) * ((a - 1) + 1)
    BY <1>2, SleptSoFar
  <2>2. Backoff(e.op) = 0
    BY <1>2, Operations DEF Backoff
  <2>3. QED
    BY <1>2, <2>1, <2>2
<1>3. ASSUME NEW a \in 1 .. MaxAttempts, n = 2 * a, a < MaxAttempts, e.op = SleepFor(a)
      PROVE  /\ a + 1 \in 1 .. MaxAttempts /\ n + 1 = 2 * (a + 1) - 1
             /\ SleptUpTo[n] \in Int /\ Backoff(e.op) \in Int
             /\ 2 * (SleptUpTo[n] + Backoff(e.op)) = a * (a + 1)
  <2>1. SleptUpTo[n] \in Int /\ 2 * SleptUpTo[n] = (a - 1) * ((a - 1) + 1)
    BY <1>3, SleptSoFar
  <2>2. Backoff(e.op) = a
    BY <1>3 DEF Backoff, SleepFor
  <2> DEFINE before == (a - 1) * ((a - 1) + 1)
             after == a * (a + 1)
             x == SleptUpTo[n]
  <2>3. before + 2 * a = after /\ before \in Int /\ after \in Int /\ a \in Int
    BY SMT
  <2>4. x \in Int /\ 2 * x = before
    BY <2>1
  <2>5. 2 * (x + a) = after
    <3> HIDE DEF before, after, x
    <3>1. QED
      BY <2>3, <2>4
  <2>6. a + 1 \in 1 .. MaxAttempts /\ n + 1 = 2 * (a + 1) - 1
    BY <1>1, <1>3
  <2>7. QED
    BY <2>2, <2>3, <2>4, <2>5, <2>6
<1>4. CASE \E a \in 1 .. MaxAttempts : n = 2 * a - 1 /\ e.op = SendHello
  BY <1>2, <1>4
<1>5. CASE \E a \in 1 .. MaxAttempts : n = 2 * a /\ a < MaxAttempts /\ e.op = SleepFor(a)
  <2>1. PICK a \in 1 .. MaxAttempts : n = 2 * a /\ a < MaxAttempts /\ e.op = SleepFor(a)
    BY <1>5
  <2>2. (a + 1) - 1 = a
    OBVIOUS
  <2>3. QED
    BY <1>3, <2>1, <2>2
<1>6. QED
  BY <1>1, <1>4, <1>5 DEF NextLine

(* The clock, where the backoffs up to a send add up to z. *)
LEMMA ClockShows ==
  ASSUME NEW s \in RetryScript, NEW h, NEW m, ScriptAfter(s, h, m),
         NEW c \in 1 .. MaxAttempts, m = 2 * c - 1 \/ m = 2 * c,
         NEW z \in Int, 2 * z = (c - 1) * ((c - 1) + 1)
  PROVE  h.virtual_time = s.virtual_time + (IF h.live THEN 1 ELSE 0) + z
<1>1. Elapsed(s, h, c - 1) /\ h.live = s.live /\ h \in RetryScript
  BY DEF ScriptAfter
<1> DEFINE x == h.virtual_time
           v == s.virtual_time
           sofar == (c - 1) * ((c - 1) + 1)
<1>2. x \in Int /\ v \in Int /\ 2 * z = sofar /\ s.live \in BOOLEAN
  BY <1>1, ScriptFields
<1>3. 2 * (x - v) = sofar + (IF s.live THEN 2 ELSE 0)
  BY <1>1 DEF Elapsed
<1> HIDE DEF x, v, sofar
<1>4. x = v + (IF s.live THEN 1 ELSE 0) + z
  <2>1. CASE s.live
    BY <1>2, <1>3, <2>1
  <2>2. CASE ~s.live
    BY <1>2, <1>3, <2>2
  <2>3. QED
    BY <2>1, <2>2
<1>5. QED
  BY <1>1, <1>4 DEF x, v

(* What was slept is a number, also before a refused line. *)
LEMMA SleptIsNumber ==
  ASSUME NEW s, History(s, log), NEW n \in 1 .. Len(log), log[n].ans # Refused
  PROVE  SleptUpTo[n] \in Int
<1>1. PICK a \in 1 .. MaxAttempts : n = 2 * a - 1 \/ n = 2 * a
  BY SendOfPlace
<1>2. QED
  BY <1>1, SleptSoFar

(* The clock over a log that is answered up to n, and after one operation more. *)
LEMMA ClockUpTo ==
  ASSUME NEW s \in RetryScript, History(s, log), NEW h,
         NEW n \in 1 .. Len(log), log[n].ans # Refused
  PROVE  /\ ScriptAfter(s, h, n) =>
              h.virtual_time = s.virtual_time + (IF h.live THEN 1 ELSE 0) + SleptUpTo[n] + 0
         /\ \A e : NextLine(s, e, n) /\ ScriptAfter(s, h, n + 1) =>
              h.virtual_time
                = s.virtual_time + (IF h.live THEN 1 ELSE 0) + SleptUpTo[n] + Backoff(e.op)
<1>1. /\ n \in Nat /\ n <= 2 * MaxAttempts /\ MaxAttempts \in Nat
      /\ s.virtual_time \in Int
  BY RetryAssumption, ScriptFields DEF History
<1>2. ASSUME ScriptAfter(s, h, n)
      PROVE  h.virtual_time = s.virtual_time + (IF h.live THEN 1 ELSE 0) + SleptUpTo[n] + 0
  <2>1. PICK c \in 1 .. MaxAttempts : n = 2 * c - 1 \/ n = 2 * c
    BY SendOfPlace
  <2>2. SleptUpTo[n] \in Int /\ 2 * SleptUpTo[n] = (c - 1) * ((c - 1) + 1)
    BY <2>1, SleptSoFar
  <2>3. h.virtual_time = s.virtual_time + (IF h.live THEN 1 ELSE 0) + SleptUpTo[n]
    BY <1>2, <2>1, <2>2, ClockShows
  <2>4. QED
    BY <1>1, <2>2, <2>3
<1>3. ASSUME NEW e, NextLine(s, e, n), ScriptAfter(s, h, n + 1)
      PROVE  h.virtual_time
               = s.virtual_time + (IF h.live THEN 1 ELSE 0) + SleptUpTo[n] + Backoff(e.op)
  <2>1. PICK c \in 1 .. MaxAttempts :
          /\ n + 1 = 2 * c - 1 \/ n + 1 = 2 * c
          /\ SleptUpTo[n] \in Int /\ Backoff(e.op) \in Int
          /\ 2 * (SleptUpTo[n] + Backoff(e.op)) = (c - 1) * ((c - 1) + 1)
    BY <1>3, SleptOneMore
  <2> DEFINE z == SleptUpTo[n] + Backoff(e.op)
  <2>2. z \in Int /\ 2 * z = (c - 1) * ((c - 1) + 1)
    BY <2>1
  <2> HIDE DEF z
  <2>3. h.virtual_time = s.virtual_time + (IF h.live THEN 1 ELSE 0) + z
    BY <1>3, <2>1, <2>2, ClockShows
  <2>4. QED
    BY <1>1, <2>1, <2>3 DEF z
<1>4. QED
  BY <1>2, <1>3

(* What the last line of a history could have been. *)
LEMMA LastLine ==
  ASSUME NEW s, NEW l, History(s, l), Len(l) > 1
  PROVE  NextLine(s, l[Len(l)], Len(l) - 1)
<1>1. Len(l) \in Nat /\ Len(l) <= 2 * MaxAttempts /\ MaxAttempts \in Nat
  BY RetryAssumption DEF History
<1>2. ASSUME NEW a \in 1 .. MaxAttempts, Len(l) = 2 * a
      PROVE  NextLine(s, l[Len(l)], Len(l) - 1)
  <2>1. l[2 * a].op = SendHello /\ l[2 * a].ans \in {Heard(s, a), Refused}
    BY <1>1, <1>2 DEF History
  <2>2. QED
    BY <1>2, <2>1 DEF NextLine
<1>3. ASSUME NEW a \in 1 .. MaxAttempts, Len(l) = 2 * a + 1
      PROVE  NextLine(s, l[Len(l)], Len(l) - 1)
  <2>1. 2 * a < Len(l) /\ a < MaxAttempts /\ Len(l) - 1 = 2 * a
    BY <1>1, <1>3
  <2>2. /\ l[2 * a + 1].op = SleepFor(a) /\ l[2 * a + 1].ans \in {Slept, Refused}
        /\ Heard(s, a) = NetError
    BY <2>1 DEF History
  <2>3. QED
    BY <1>3, <2>1, <2>2 DEF NextLine
<1>4. QED
  BY <1>1, <1>2, <1>3, EvenOrOdd

(***************************************************************************)
(* An operation counts from when its sender is given, which holds while it *)
(* is awaited (CountedWhileWaiting) and after it has failed; the latter is *)
(* a fact about the past, so it is an invariant of its own.                *)
(***************************************************************************)
SenderCounts(s) ==
  phase # "waiting" /\ sender # NoSender => ScriptAfter(s, hs, Len(log))

LEMMA CountedWhileWaiting ==
  ASSUME InTheExample, IInv, NEW s \in RetryScript, TaskStands(s), phase = "waiting"
  PROVE  ScriptAfter(s, hs, Len(log) + 1) /\ \E e : e.op = current.op /\ NextLine(s, e, Len(log))
<1>1. /\ current \in RollProgram /\ call = "none" /\ leaf = "one" /\ outcome = "running"
      /\ <<sender.next, sender.ans>> \in MockHandler[sender.before][current.op]
      /\ hs = sender.next /\ Len(log) \in Nat
  BY DEF IInv, Holding, InTheExample, TypeOK
<1>2. focusMap = Request(current.op) /\ outcomeMap = "running" /\ hsMap = sender.before
  BY <1>1 DEF focusMap, outcomeMap, hsMap, failed, InHand, FocusOf, IsPure, RollProgram
<1>3. ScriptAfter(s, sender.before, Len(log)) /\ Stage(s, focusMap, restMap, Len(log))
  BY <1>2 DEF TaskStands, Stands
<1>4. focusMap.at = "request" /\ focusMap.op = current.op
  BY <1>2 DEF Request
<1> HIDE DEF focusMap, restMap
<1>5. /\ ScriptAfter(s, sender.next, Len(log) + 1)
      /\ NextLine(s, [op |-> current.op, ans |-> sender.ans], Len(log))
  BY <1>1, <1>3, <1>4, AnswerGiven
<1>6. QED
  BY <1>1, <1>5

LEMMA SenderStillCounts ==
  ASSUME InTheExample, IInv, NEW s \in RetryScript, TaskStands(s), SenderCounts(s), [Next]_vars
  PROVE  SenderCounts(s)'
<1>1. Holding /\ Holding' /\ log \in Seq(LogEntry)
  BY NextInvariant DEF IInv, TypeOK
<1>2. phase' \in Phase
  BY NextInvariant DEF IInv, TypeOK
<1> SUFFICES ASSUME phase' # "waiting", sender' # NoSender
             PROVE  ScriptAfter(s, hs', Len(log'))
  BY DEF SenderCounts, ScriptAfter, Elapsed
<1>3. phase' \in {"error", "stopped", "over"}
  BY <1>1, <1>2 DEF Holding, Phase
<1>4. CASE SetErrorOrStopped
  <2>1. phase = "waiting" /\ hs' \in {hs, sender.next} /\ Len(log') = Len(log) + 1
    BY <1>1, <1>4 DEF SetErrorOrStopped
  <2>2. hs = sender.next
    BY <1>1, <2>1 DEF Holding, InTheExample
  <2>3. ScriptAfter(s, hs, Len(log) + 1)
    BY <2>1, CountedWhileWaiting
  <2>4. QED
    BY <2>1, <2>2, <2>3
<1>5. CASE FrameGone \/ Complete \/ UNCHANGED vars
  <2>1. UNCHANGED <<hs, sender, log>> /\ phase # "waiting"
    BY <1>5 DEF FrameGone, Complete, vars
  <2>2. QED
    BY <2>1 DEF SenderCounts
<1>6. CASE HandlerThrows \/ ContinuationThrows
  BY <1>1, <1>6 DEF HandlerThrows, CallingHandler, ContinuationThrows, Holding
<1>7. CASE \/ Start \/ AwaitResumeOne \/ AwaitSender \/ SetValue \/ Continue
           \/ ResumeOneReturns \/ Recurse \/ PureReturns \/ StepReturns
  BY <1>3, <1>7
  DEF Start, AwaitResumeOne, AwaitSender, SetValue, Continue, ResumeOneReturns, Recurse,
      PureReturns, StepReturns
<1>8. QED
  BY <1>4, <1>5, <1>6, <1>7 DEF Next

LEMMA ClockInvariant ==
  ASSUME InTheExample
  PROVE  Spec => [](IInv /\ \E s \in InitScript : TaskStands(s) /\ SenderCounts(s))
<1> DEFINE I == IInv /\ \E s \in InitScript : TaskStands(s) /\ SenderCounts(s)
<1>1. Init => I
  BY InitInvariant, TaskBegins DEF Init, SenderCounts
<1>2. I /\ [Next]_vars => I'
  <2> SUFFICES ASSUME I, [Next]_vars PROVE I'
    OBVIOUS
  <2>1. IInv'
    BY NextInvariant
  <2>2. PICK s \in InitScript : TaskStands(s) /\ SenderCounts(s)
    OBVIOUS
  <2>3. s \in RetryScript
    BY HandlerAssumption DEF InTheExample
  <2>4. TaskStands(s)' /\ SenderCounts(s)'
    BY <2>2, <2>3, TaskGoesOn, SenderStillCounts
  <2>5. QED
    BY <2>1, <2>4
<1>3. QED
  BY <1>1, <1>2, PTL DEF Spec

LEMMA ClockIsAhead ==
  ASSUME InTheExample, IInv, NEW s \in RetryScript, TaskStands(s), SenderCounts(s)
  PROVE  ClockAdvancesByBackoffs
<1> SUFFICES ASSUME log # <<>>, log[1].ans # Refused
             PROVE  \E d \in SleptUnanswered :
                      hs.virtual_time
                        = log[1].ans.t + (IF hs.live THEN 1 ELSE 0) + SleptUpTo[Len(log)] + d
  BY DEF ClockAdvancesByBackoffs
<1> DEFINE n == Len(log)
<1>1. History(s, log) /\ log \in Seq(LogEntry) /\ n \in Nat /\ n >= 1 /\ Last(log) = log[n]
      /\ \A i \in 1 .. n - 1 : log[i].ans # Refused
  <2>1. History(s, log)
    BY DEF TaskStands, Stands
  <2>2. log \in Seq(LogEntry)
    BY <2>1 DEF History
  <2>3. QED
    BY <2>1, <2>2 DEF History, Last
<1>2. log[1].ans.t = s.virtual_time
  BY <1>1 DEF History, Time
<1>3. n \in 1 .. n /\ (log[n].ans # Refused <=> outcomeMap # "failed")
  BY <1>1 DEF TaskStands, Stands
<1> HIDE DEF n
<1>4. CASE phase = "waiting"
  <2>1. ScriptAfter(s, hs, n + 1)
    BY <1>4, CountedWhileWaiting DEF n
  <2>2. PICK e : e.op = current.op /\ NextLine(s, e, n)
    BY <1>4, CountedWhileWaiting DEF n
  <2>3. outcome = "running"
    BY <1>4 DEF IInv, Holding
  <2>4. outcomeMap = "running"
    BY <1>4, <2>3 DEF outcomeMap, failed
  <2>5. log[n].ans # Refused
    BY <1>3, <2>4
  <2>6. SleptUnanswered = {Backoff(current.op)}
    BY <1>4 DEF SleptUnanswered
  <2>7. hs.virtual_time
          = s.virtual_time + (IF hs.live THEN 1 ELSE 0) + SleptUpTo[n] + Backoff(e.op)
    BY <1>1, <1>3, <2>1, <2>2, <2>5, ClockUpTo DEF n
  <2>8. QED
    BY <1>2, <2>2, <2>6, <2>7 DEF n
<1>5. CASE phase # "waiting" /\ log[n].ans # Refused
  <2>1. hsMap = hs
    BY <1>5 DEF hsMap
  <2>2. ScriptAfter(s, hs, n)
    BY <1>3, <1>5, <2>1 DEF TaskStands, Stands, n
  <2>3. SleptUnanswered = {0}
    BY <1>1, <1>5 DEF SleptUnanswered
  <2>4. QED
    BY <1>1, <1>2, <1>3, <1>5, <2>2, <2>3, ClockUpTo DEF n
<1>6. CASE phase # "waiting" /\ log[n].ans = Refused
  <2>1. hsMap = hs /\ outcomeMap = "failed"
    BY <1>3, <1>6 DEF hsMap
  <2>2. n > 1 /\ n - 1 \in 1 .. n /\ log[n - 1].ans # Refused /\ (n - 1) + 1 = n
    BY <1>1, <1>6
  <2>3. SleptUpTo[n] = SleptUpTo[n - 1]
    <3>1. SleptUpTo[n] = SleptUpTo[n - 1] + SleptIn(log[n])
      BY <1>1, SleptAddsUp DEF n
    <3>2. SleptIn(log[n]) = 0
      BY <1>6 DEF SleptIn
    <3>3. SleptUpTo[n - 1] \in Int
      BY <1>1, <2>2, SleptIsNumber DEF n
    <3>4. QED
      BY <3>1, <3>2, <3>3
  <2>4. SleptUnanswered = {Backoff(log[n].op)} \cup (IF sender = NoSender THEN {0} ELSE {})
    BY <1>1, <1>6 DEF SleptUnanswered
  <2>5. CASE ScriptAfter(s, hs, n)
    <3>1. NextLine(s, log[n], n - 1)
      BY <1>1, <2>2, LastLine DEF n
    <3>2. ScriptAfter(s, hs, (n - 1) + 1)
      BY <2>2, <2>5
    <3>3. hs.virtual_time
            = s.virtual_time + (IF hs.live THEN 1 ELSE 0) + SleptUpTo[n - 1] + Backoff(log[n].op)
      BY <1>1, <2>2, <3>1, <3>2, ClockUpTo DEF n
    <3>4. QED
      BY <1>2, <2>3, <2>4, <3>3 DEF n
  <2>6. CASE ~ScriptAfter(s, hs, n)
    <3>1. sender = NoSender
      BY <1>6, <2>6 DEF SenderCounts, n
    <3>2. ScriptAfter(s, hs, n - 1)
      BY <2>1, <2>6 DEF TaskStands, Stands, n
    <3>3. hs.virtual_time
            = s.virtual_time + (IF hs.live THEN 1 ELSE 0) + SleptUpTo[n - 1] + 0
      BY <1>1, <2>2, <3>2, ClockUpTo DEF n
    <3>4. QED
      BY <1>2, <2>3, <2>4, <3>1, <3>3 DEF n
  <2>7. QED
    BY <2>5, <2>6
<1>7. QED
  BY <1>4, <1>5, <1>6

(***************************************************************************)
(* Once the program has been told the time, the clock is ahead of it by    *)
(* the backoffs asked for, the one a sender is still waiting on or failed  *)
(* at included, and by one more when a reading moves the clock.  Only when *)
(* the handler threw instead of giving a sender may the last one be        *)
(* missing.                                                                *)
(***************************************************************************)
THEOREM ClockIsVirtualTime == InTheExample => (Spec => []ClockAdvancesByBackoffs)
<1> SUFFICES ASSUME InTheExample PROVE Spec => []ClockAdvancesByBackoffs
  OBVIOUS
<1>1. InitScript \subseteq RetryScript
  BY HandlerAssumption DEF InTheExample
<1>2. IInv /\ (\E s \in InitScript : TaskStands(s) /\ SenderCounts(s)) => ClockAdvancesByBackoffs
  BY <1>1, ClockIsAhead
<1>3. QED
  BY <1>2, ClockInvariant, PTL

-----------------------------------------------------------------------------
(* pair_run *)

(* RetryBoth's pairing is the one FreerPairingProofs speaks of. *)
LEMMA ThePairing ==
  /\ Pairing!Init <=> P!Init
  /\ Pairing!Next <=> P!Next
<1> USE DEF Pairing!Nothing, P!Nothing, Pairing!Node, P!Node, Pairing!Asking, P!Asking,
            Pairing!Unfolding, P!Unfolding, Pairing!MovedFrom, P!MovedFrom
<1>1. Pairing!Init <=> P!Init
  BY DEF Pairing!Init, P!Init
<1>2. Pairing!Resume <=> P!Resume
  BY DEF Pairing!Resume, P!Resume, Pairing!Inwards, P!Inwards, Pairing!Innermost, P!Innermost,
         Pairing!EnterFunction, P!EnterFunction, Pairing!BindToSuspended, P!BindToSuspended,
         Pairing!IsPure, P!IsPure, Pairing!BindLater, P!BindLater, Pairing!Roll, P!Roll
<1>3. \A k, r : Pairing!InvokeContinuation(k, r) <=> P!InvokeContinuation(k, r)
  BY DEF Pairing!InvokeContinuation, P!InvokeContinuation, Pairing!Pure, P!Pure
<1>4. Pairing!LeaveContinuation <=> P!LeaveContinuation
  BY DEF Pairing!LeaveContinuation, P!LeaveContinuation
<1>5. (Pairing!Resumed <=> P!Resumed) /\ (Pairing!FunctionThrows <=> P!FunctionThrows)
  BY DEF Pairing!Resumed, P!Resumed, Pairing!FunctionThrows, P!FunctionThrows,
         Pairing!IsPure, P!IsPure
<1>6. (Pairing!Ask <=> P!Ask) /\ (Pairing!Respond <=> P!Respond)
  BY DEF Pairing!Ask, P!Ask, Pairing!Respond, P!Respond
<1>7. (Pairing!Unfold <=> P!Unfold) /\ (Pairing!MockThrows <=> P!MockThrows)
  BY <1>3 DEF Pairing!Unfold, P!Unfold, Pairing!MockThrows, P!MockThrows
<1>8. (Pairing!Continue <=> P!Continue) /\ (Pairing!ContinuationThrows <=> P!ContinuationThrows)
  BY <1>2, <1>4, <1>5
  DEF Pairing!Continue, P!Continue, Pairing!ContinuationThrows, P!ContinuationThrows
<1>9. (Pairing!Rebind <=> P!Rebind) /\ (Pairing!Return <=> P!Return)
  BY <1>4, <1>5 DEF Pairing!Rebind, P!Rebind, Pairing!Return, P!Return
<1>10. QED
  BY <1>1, <1>6, <1>7, <1>8, <1>9 DEF Pairing!Next, P!Next

(* What FreerPairing assumes of its constants holds of the example's. *)
LEMMA TheCoalgebra ==
  ASSUME InTheExample
  PROVE  /\ Refused \notin Val /\ Codes \subseteq P!Code /\ Starts \subseteq P!Program
         /\ MaxEffects \in Nat
         /\ InitHandler \subseteq HandlerState
         /\ RetryCoalgebra \in [HandlerState -> [Op -> SUBSET (HandlerState \X Val)]]
         /\ retry_head_fn \in [HandlerState -> RetryScript]
         /\ {} \subseteq HandlerState
<1>1. P!Program = Program /\ P!Code = Code
  BY DEF P!Program, Program, P!PureProgram, PureProgram, P!RollProgram, RollProgram, P!Code, Code
<1>2. RetryCoalgebra \in [HandlerState -> [Op -> SUBSET (HandlerState \X Val)]]
  BY DEF InTheExample, RetryCoalgebra, InBounds
<1>3. QED
  BY <1>1, <1>2, ProgramAssumption, HandlerAssumption DEF InTheExample, retry_head_fn

LEMMA TheInvariant ==
  ASSUME InTheExample
  PROVE  /\ P!Init => P!IInv /\ P!TraceIsWhatWasAsked
         /\ P!IInv /\ P!TraceIsWhatWasAsked /\ [P!Next]_(P!vars)
              => P!IInv' /\ P!TraceIsWhatWasAsked' /\ [P!Direct!Next]_(P!Direct!dvars)
<1>1. P!Init => P!IInv
  BY TheCoalgebra, P!InitInvariant
<1>2. P!Init => P!TraceIsWhatWasAsked
  BY TheCoalgebra, P!InitTrace
<1>3. P!IInv /\ [P!Next]_(P!vars) => P!IInv'
  BY TheCoalgebra, P!NextInvariant
<1>4. P!IInv /\ P!TraceIsWhatWasAsked /\ [P!Next]_(P!vars) => P!TraceIsWhatWasAsked'
  BY TheCoalgebra, P!NextTrace
<1>5. P!IInv /\ [P!Next]_(P!vars) => [P!Direct!Next]_(P!Direct!dvars)
  BY TheCoalgebra, P!NextRefines
<1>6. QED
  BY <1>1, <1>2, <1>3, <1>4, <1>5

(* Programs are read alike in the three modules. *)
LEMMA OneReading ==
  /\ \A v : P!Direct!Value(v) = Value(v)
  /\ \A p : P!Direct!FocusOf(p) = FocusOf(p) /\ P!FocusOf(p) = FocusOf(p)
  /\ \A p, tail : P!Direct!RestOf(p, tail) = RestOf(p, tail) /\ P!RestOf(p, tail) = RestOf(p, tail)
  BY DEF P!Direct!Value, Value, P!Direct!FocusOf, FocusOf, P!FocusOf, P!Value, P!Request,
         P!Direct!RestOf, RestOf, P!RestOf, P!Direct!IsPure, P!IsPure, IsPure,
         P!Direct!Request, Request

(* The mock's head is its seed, and a pairing that has returned calls nothing. *)
HeadAndSeed == mock.head = mock.seed /\ (poutcome = "returned" => pcall = "none")

(* pair_run stands over the script s begins. *)
PairingStands(s) ==
  /\ code = RetryCode
  /\ Stands(s, P!focusMap, P!restMap, poutcome, mock.seed, plog)
  /\ HeadAndSeed

(* The pairing's clock is the one a reading does not move. *)
Unmoved(s) == [s EXCEPT !.live = FALSE]

LEMMA PairingBegins ==
  ASSUME InTheExample, P!Init, NEW s \in RetryScript, s.send_count = 0, mock.seed = s
  PROVE  PairingStands(s)
<1>1. code = RetryCode /\ pcurrent = RetryProgram
  BY DEF InTheExample, P!Init
<1>2. HeadAndSeed
  <2>1. PICK t \in InitHandler : mock = P!Node(t)
    BY DEF P!Init
  <2>2. t \in RetryScript
    BY TheCoalgebra DEF InTheExample
  <2>3. QED
    BY <2>1, <2>2 DEF P!Init, P!Node, retry_head_fn, HeadAndSeed
<1>3. /\ P!focusMap = FocusOf(RetryProgram) /\ P!restMap = RestOf(RetryProgram, <<>>)
      /\ poutcome = "running" /\ plog = <<>>
  BY <1>1, OneReading DEF P!Init, P!focusMap, P!restMap, P!InHand
<1>4. QED
  BY <1>1, <1>2, <1>3, Begins DEF PairingStands

LEMMA HeadIsSeed ==
  ASSUME InTheExample, P!IInv, HeadAndSeed, [P!Next]_(P!vars)
  PROVE  HeadAndSeed'
<1>1. CASE P!Unfold
  <2>1. asked.seed \in RetryScript
    BY <1>1 DEF P!Unfold, P!IInv, P!TypeOK, P!Question, P!Nothing, InTheExample
  <2>2. QED
    BY <1>1, <2>1 DEF P!Unfold, P!Node, retry_head_fn, HeadAndSeed
<1>2. CASE UNCHANGED mock /\ (poutcome = "running" /\ poutcome' # "returned")
  BY <1>2 DEF HeadAndSeed
<1>3. CASE P!Return \/ UNCHANGED P!vars
  BY <1>3 DEF P!Return, P!vars, HeadAndSeed
<1>4. QED
  BY <1>1, <1>2, <1>3
  DEF P!Next, P!Ask, P!Respond, P!MockThrows, P!Continue, P!ContinuationThrows, P!Rebind

LEMMA PairingGoesOn ==
  ASSUME InTheExample, P!IInv, P!TraceIsWhatWasAsked, NEW s \in RetryScript, s.live = FALSE,
         PairingStands(s), [P!Next]_(P!vars)
  PROVE  PairingStands(s)'
<1>0. [P!Direct!Next]_(P!Direct!dvars) /\ HeadAndSeed'
  BY TheInvariant, HeadIsSeed DEF PairingStands
<1>1. code = RetryCode /\ Stands(s, P!focusMap, P!restMap, poutcome, mock.seed, plog)
  BY DEF PairingStands
<1>2. \/ Stage(s, P!focusMap, P!restMap, Len(plog)) /\ ScriptAfter(s, mock.seed, Len(plog))
      \/ poutcome = "failed"
  BY <1>1 DEF Stands
<1>3. CASE P!Direct!Perform
  <2>1. P!focusMap.op \in RetryOp /\ poutcome = "running"
    BY <1>2, <1>3, StageTypes DEF P!Direct!Perform
  <2>2. PICK h \in HandlerState, v \in Val :
          /\ <<h, v>> \in RetryCoalgebra[mock.seed][P!focusMap.op] /\ mock'.seed = h
          /\ plog' = Append(plog, [op |-> P!focusMap.op, ans |-> v])
          /\ P!focusMap' = P!Direct!Value(v)
    BY <1>3 DEF P!Direct!Perform
  <2>3. mock.seed \in RetryScript /\ mock.seed.live = FALSE
    BY <1>2, <2>1 DEF ScriptAfter
  <2>4. <<h, v>> \in MockHandler[mock.seed][P!focusMap.op] /\ P!focusMap' = Value(v)
    BY <2>1, <2>2, <2>3, OneScript, OneReading
  <2>5. /\ code' = code /\ P!restMap' = P!restMap /\ poutcome' = poutcome
        /\ P!focusMap.at = "request"
    BY <1>3 DEF P!Direct!Perform
  <2>6. Stands(s, P!focusMap', P!restMap', poutcome', mock'.seed, plog')
    BY <1>1, <2>1, <2>2, <2>4, <2>5, Answered
  <2>7. QED
    BY <1>0, <1>1, <2>5, <2>6 DEF PairingStands
<1>4. CASE P!Direct!Refuse
  <2>1. P!focusMap.op \in RetryOp /\ poutcome = "running" /\ P!focusMap.at = "request"
    BY <1>2, <1>4, StageTypes DEF P!Direct!Refuse
  <2>2. /\ plog' = Append(plog, [op |-> P!focusMap.op, ans |-> Refused])
        /\ code' = code /\ poutcome' = "failed"
        /\ mock'.seed \in P!Direct!MayLeave(mock.seed, P!focusMap.op)
    BY <1>4 DEF P!Direct!Refuse
  <2>3. mock'.seed = mock.seed \/ \E v : <<mock'.seed, v>> \in MockHandler[mock.seed][P!focusMap.op]
    <3>1. mock.seed \in RetryScript /\ mock.seed.live = FALSE
      BY <1>2, <2>1 DEF ScriptAfter
    <3>2. RetryCoalgebra[mock.seed][P!focusMap.op] = MockHandler[mock.seed][P!focusMap.op]
      BY <2>1, <3>1, OneScript
    <3>3. MockHandler[mock.seed][P!focusMap.op] \subseteq RetryScript \X RetryVal
      BY <2>1, <3>1 DEF MockHandler, InBounds
    <3>4. mock'.seed = mock.seed
          \/ mock'.seed \in {a[1] : a \in MockHandler[mock.seed][P!focusMap.op]}
      BY <2>2, <3>2 DEF P!Direct!MayLeave
    <3>5. QED
      BY <3>3, <3>4, LeftByAnswer
  <2>4. Stands(s, P!focusMap', P!restMap', poutcome', mock'.seed, plog')
    BY <1>1, <2>1, <2>2, <2>3, CutShort
  <2>5. QED
    BY <1>0, <1>1, <2>2, <2>4 DEF PairingStands
<1>5. CASE P!Direct!Continue
  <2> DEFINE p == RetryCode[Head(P!restMap)][P!focusMap.val]
  <2>1. /\ poutcome = "running" /\ P!focusMap.at = "value" /\ P!restMap # <<>>
        /\ P!focusMap' = FocusOf(p) /\ P!restMap' = RestOf(p, Tail(P!restMap))
        /\ code' = code /\ mock'.seed = mock.seed /\ plog' = plog /\ poutcome' = poutcome
    BY <1>1, <1>5, OneReading DEF P!Direct!Continue
  <2>2. Stands(s, P!focusMap', P!restMap', poutcome', mock'.seed, plog')
    BY <1>1, <2>1, Moves
  <2>3. QED
    BY <1>0, <1>1, <2>1, <2>2 DEF PairingStands
<1>6. CASE P!Direct!Break
  BY <1>6 DEF P!Direct!Break, InTheExample
<1>7. CASE P!Direct!Finish
  <2>1. /\ poutcome = "running" /\ P!restMap = <<>> /\ poutcome' = "returned"
        /\ UNCHANGED <<code, P!focusMap, P!restMap, plog>> /\ mock'.seed = mock.seed
    BY <1>7 DEF P!Direct!Finish
  <2>2. Stands(s, P!focusMap', P!restMap', poutcome', mock'.seed, plog')
    BY <1>1, <2>1 DEF Stands
  <2>3. QED
    BY <1>0, <1>1, <2>1, <2>2 DEF PairingStands
<1>8. CASE UNCHANGED P!Direct!dvars
  <2>1. /\ UNCHANGED <<code, P!focusMap, P!restMap, poutcome, plog>> /\ mock'.seed = mock.seed
    BY <1>8 DEF P!Direct!dvars
  <2>2. QED
    BY <1>0, <1>1, <2>1 DEF PairingStands
<1>9. QED
  BY <1>0, <1>3, <1>4, <1>5, <1>6, <1>7, <1>8 DEF P!Direct!Next

-----------------------------------------------------------------------------
(* Two interpreters over one script *)

BothStand(s) == TaskStands(s) /\ PairingStands(Unmoved(s))

LEMMA UnmovedScript ==
  ASSUME NEW s \in RetryScript
  PROVE  /\ Unmoved(s) \in RetryScript /\ Unmoved(s).live = FALSE
         /\ Unmoved(s).failing = s.failing /\ Unmoved(s).virtual_time = s.virtual_time
         /\ Unmoved(s).send_count = s.send_count
         /\ \A a : Heard(Unmoved(s), a) = Heard(s, a) /\ ResultAfter(Unmoved(s), a) = ResultAfter(s, a)
<1>1. /\ Unmoved(s) \in RetryScript /\ Unmoved(s).live = FALSE
      /\ Unmoved(s).failing = s.failing /\ Unmoved(s).virtual_time = s.virtual_time
      /\ Unmoved(s).send_count = s.send_count
  BY DEF Unmoved, RetryScript
<1>2. QED
  BY <1>1 DEF Heard, ResultAfter

(* Two histories of one script ask the same and hear the same. *)
LEMMA OneHistory ==
  ASSUME NEW s \in RetryScript, NEW l, NEW m, History(s, l), History(Unmoved(s), m),
         NEW i \in DOMAIN l \cap DOMAIN m
  PROVE  /\ l[i].op = m[i].op
         /\ Refused \in {l[i].ans, m[i].ans} \/ l[i].ans = m[i].ans
<1>1. /\ l \in Seq(LogEntry) /\ Len(l) \in Nat /\ Len(l) <= 2 * MaxAttempts
      /\ m \in Seq(LogEntry) /\ Len(m) \in Nat
      /\ i \in 1 .. Len(l) /\ i \in 1 .. Len(m)
  BY DEF History
<1>2. CASE i = 1
  <2>1. /\ l[1].op = Now /\ l[1].ans \in {Time(s.virtual_time), Refused}
        /\ m[1].op = Now /\ m[1].ans \in {Time(Unmoved(s).virtual_time), Refused}
    BY <1>1, <1>2 DEF History
  <2>2. QED
    BY <1>2, <2>1, UnmovedScript
<1>3. ASSUME NEW a \in 1 .. MaxAttempts, i = 2 * a
      PROVE  /\ l[i].op = m[i].op
             /\ Refused \in {l[i].ans, m[i].ans} \/ l[i].ans = m[i].ans
  <2>1. 2 * a <= Len(l) /\ 2 * a <= Len(m)
    BY <1>1, <1>3
  <2>2. /\ l[i].op = SendHello /\ l[i].ans \in {Heard(s, a), Refused}
        /\ m[i].op = SendHello /\ m[i].ans \in {Heard(s, a), Refused}
    BY <1>3, <2>1, UnmovedScript DEF History
  <2>3. QED
    BY <2>2
<1>4. ASSUME NEW a \in 1 .. MaxAttempts, i = 2 * a + 1
      PROVE  /\ l[i].op = m[i].op
             /\ Refused \in {l[i].ans, m[i].ans} \/ l[i].ans = m[i].ans
  <2>1. 2 * a < Len(l) /\ 2 * a < Len(m)
    BY <1>1, <1>4
  <2>2. /\ l[i].op = SleepFor(a) /\ l[i].ans \in {Slept, Refused}
        /\ m[i].op = SleepFor(a) /\ m[i].ans \in {Slept, Refused}
    BY <1>4, <2>1 DEF History
  <2>3. QED
    BY <2>2
<1>5. CASE i # 1
  <2>1. i \in Nat /\ i > 1 /\ i <= 2 * MaxAttempts
    BY <1>1, <1>5, RetryAssumption
  <2>2. QED
    BY <1>3, <1>4, <2>1, EvenOrOdd
<1>6. QED
  BY <1>2, <1>5

(* A script decides at which send the program ends. *)
LEMMA OneEnd ==
  ASSUME NEW s \in RetryScript, NEW l, NEW m, History(s, l), History(Unmoved(s), m),
         NEW a \in 1 .. MaxAttempts, NEW b \in 1 .. MaxAttempts,
         Len(l) = 2 * a, Len(m) = 2 * b,
         Heard(s, a) = Reply \/ a = MaxAttempts, Heard(s, b) = Reply \/ b = MaxAttempts
  PROVE  a = b
<1>1. a \in Int /\ b \in Int /\ MaxAttempts \in Int
  BY RetryAssumption
<1>2. CASE a < b
  <2>1. 2 * a < Len(m) /\ a # MaxAttempts
    BY <1>1, <1>2
  <2>2. Heard(s, a) = NetError
    BY <2>1, UnmovedScript DEF History
  <2>3. QED
    BY <2>1, <2>2, Responses
<1>3. CASE b < a
  <2>1. 2 * b < Len(l) /\ b # MaxAttempts
    BY <1>1, <1>3
  <2>2. Heard(s, b) = NetError
    BY <2>1 DEF History
  <2>3. QED
    BY <2>1, <2>2, Responses
<1>4. QED
  BY <1>1, <1>2, <1>3

LEMMA PairedValue ==
  ASSUME InTheExample, P!IInv, NEW s \in RetryScript, PairingStands(s), poutcome = "returned"
  PROVE  \E a \in 1 .. MaxAttempts :
           /\ Len(plog) = 2 * a /\ pcurrent = Pure(ResultAfter(s, a))
           /\ Heard(s, a) = Reply \/ a = MaxAttempts
<1>1. asked = P!Nothing /\ pcall = "none" /\ P!InHand = pcurrent
  BY DEF P!IInv, P!OneThingAtATime, PairingStands, HeadAndSeed, P!InHand
<1>2. Stage(s, P!focusMap, <<>>, Len(plog))
  BY DEF PairingStands, Stands
<1>3. PICK a \in 1 .. MaxAttempts :
        /\ Len(plog) = 2 * a /\ P!focusMap = Value(ResultAfter(s, a))
        /\ Heard(s, a) = Reply \/ a = MaxAttempts
  BY <1>2, AtTheEnd
<1>4. P!focusMap = FocusOf(pcurrent)
  BY <1>1, OneReading DEF P!focusMap
<1> HIDE DEF P!focusMap
<1>5. IsPure(pcurrent) /\ pcurrent.val = ResultAfter(s, a)
  <2>1. FocusOf(pcurrent) = Value(ResultAfter(s, a))
    BY <1>3, <1>4
  <2>2. QED
    BY <2>1, Places DEF FocusOf
<1>6. pcurrent \in P!PureProgram
  BY <1>5
  DEF P!IInv, P!TypeOK, P!MovedFrom, IsPure, P!Program, P!RollProgram, P!PureProgram
<1>7. pcurrent = Pure(ResultAfter(s, a))
  BY <1>5, <1>6 DEF P!PureProgram, Pure
<1>8. QED
  BY <1>3, <1>7

LEMMA Agreement ==
  ASSUME InTheExample, IInv, P!IInv, P!TraceIsWhatWasAsked,
         NEW s \in RetryScript, BothStand(s)
  PROVE  InterpretersAgree
<1> DEFINE t == Unmoved(s)
<1>0. t \in RetryScript /\ TaskStands(s) /\ PairingStands(t)
  BY UnmovedScript DEF BothStand
<1>1. History(s, log) /\ History(t, plog)
  BY <1>0 DEF TaskStands, PairingStands, Stands
<1>2. \A i \in DOMAIN log \cap DOMAIN plog :
        /\ log[i].op = plog[i].op
        /\ Refused \in {log[i].ans, plog[i].ans} \/ log[i].ans = plog[i].ans
  BY <1>1, OneHistory
<1>3. ASSUME outcome = "returned", poutcome = "returned"
      PROVE  /\ Requests(log) = ptrace
             /\ current = pcurrent
             /\ hs.send_count = mock.head.send_count
             /\ hs.virtual_time = mock.head.virtual_time + (IF hs.live THEN 1 ELSE 0)
  <2>1. PICK a \in 1 .. MaxAttempts :
          /\ Len(log) = 2 * a /\ current = Pure(ResultAfter(s, a))
          /\ Heard(s, a) = Reply \/ a = MaxAttempts
    BY <1>0, <1>3, ReturnedValue
  <2>2. PICK b \in 1 .. MaxAttempts :
          /\ Len(plog) = 2 * b /\ pcurrent = Pure(ResultAfter(s, b))
          /\ Heard(s, b) = Reply \/ b = MaxAttempts
    <3>1. \E b \in 1 .. MaxAttempts :
            /\ Len(plog) = 2 * b /\ pcurrent = Pure(ResultAfter(t, b))
            /\ Heard(t, b) = Reply \/ b = MaxAttempts
      BY <1>0, <1>3, PairedValue
    <3>2. QED
      BY <3>1, UnmovedScript
  <2>3. a = b
    BY <1>1, <2>1, <2>2, OneEnd
  <2>4. outcomeMap = "returned"
    BY <1>3 DEF IInv, Holding, outcomeMap, failed
  <2>5. ScriptAfter(s, hs, 2 * a) /\ ScriptAfter(t, mock.head, 2 * a)
    <3>1. hsMap = hs
      BY <1>3 DEF IInv, Holding, hsMap
    <3>2. QED
      BY <1>0, <1>3, <2>1, <2>2, <2>3, <2>4, <3>1
      DEF TaskStands, PairingStands, Stands, HeadAndSeed
  <2>6. hs.send_count = a /\ mock.head.send_count = a
    BY <2>5 DEF ScriptAfter
  <2>7. hs.virtual_time = mock.head.virtual_time + (IF hs.live THEN 1 ELSE 0)
    <3>1. Elapsed(s, hs, a - 1) /\ Elapsed(t, mock.head, a - 1) /\ hs.live = s.live
      BY <2>5 DEF ScriptAfter
    <3>2. /\ hs.virtual_time \in Int /\ mock.head.virtual_time \in Int
          /\ s.virtual_time \in Int /\ s.live \in BOOLEAN
      BY <2>5, ScriptFields DEF ScriptAfter
    <3> DEFINE sofar == (a - 1) * ((a - 1) + 1)
    <3>3. sofar \in Int
      OBVIOUS
    <3>4. /\ 2 * (hs.virtual_time - s.virtual_time) = sofar + (IF s.live THEN 2 ELSE 0)
          /\ 2 * (mock.head.virtual_time - s.virtual_time) = sofar + 0
      BY <3>1, UnmovedScript DEF Elapsed
    <3> DEFINE x == hs.virtual_time
               y == mock.head.virtual_time
               v == s.virtual_time
    <3>5. /\ x \in Int /\ y \in Int /\ v \in Int
          /\ 2 * (x - v) = sofar + (IF s.live THEN 2 ELSE 0) /\ 2 * (y - v) = sofar + 0
      BY <3>2, <3>4
    <3> HIDE DEF sofar, x, y, v
    <3>6. x = y + (IF s.live THEN 1 ELSE 0)
      <4>1. CASE s.live
        BY <3>3, <3>5, <4>1
      <4>2. CASE ~s.live
        BY <3>3, <3>5, <4>2
      <4>3. QED
        BY <4>1, <4>2
    <3>7. QED
      BY <3>1, <3>6 DEF x, y
  <2>8. Requests(log) = ptrace
    <3>1. asked = P!Nothing
      BY <1>3 DEF P!IInv, P!OneThingAtATime
    <3>2. ptrace = [i \in 1 .. Len(plog) |-> plog[i].op] \o <<>>
      BY <3>1 DEF P!TraceIsWhatWasAsked
    <3> DEFINE asks == [i \in 1 .. Len(plog) |-> plog[i].op]
    <3>3. plog \in Seq(LogEntry) /\ log \in Seq(LogEntry) /\ Len(plog) = Len(log)
      BY <1>1, <2>1, <2>2, <2>3 DEF History
    <3>4. asks \in Seq(Op)
      <4>1. Len(plog) \in Nat /\ \A i \in 1 .. Len(plog) : plog[i] \in LogEntry
        BY <3>3
      <4>2. \A i \in 1 .. Len(plog) : plog[i].op \in Op
        BY <4>1 DEF LogEntry
      <4>3. QED
        BY <4>1, <4>2
    <3>5. ptrace = asks
      BY <3>2, <3>4
    <3>6. Requests(log) = asks
      BY <1>2, <3>3 DEF Requests
    <3>7. QED
      BY <3>5, <3>6
  <2>9. QED
    BY <2>1, <2>2, <2>3, <2>6, <2>7, <2>8
<1>4. QED
  BY <1>2, <1>3 DEF InterpretersAgree

(* Either interpreter's step leaves the other's variables and the code alone. *)
LEMMA StepsApart ==
  ASSUME [NextBoth]_<<vars, pvars>>
  PROVE  [Next]_vars /\ [P!Next]_(P!vars)
<1>1. CASE RunPairing
  BY <1>1, ThePairing DEF RunPairing
<1>2. CASE RunTask
  <2>1. code' = code
    BY <1>2
    DEF RunTask, Next, Start, AwaitResumeOne, AwaitSender, HandlerThrows, SetValue,
        SetErrorOrStopped, Continue, ContinuationThrows, ResumeOneReturns, Recurse, PureReturns,
        StepReturns, FrameGone, Complete
  <2>2. QED
    BY <1>2, <2>1 DEF RunTask, pvars, P!vars
<1>3. CASE UNCHANGED <<vars, pvars>>
  BY <1>3 DEF vars, pvars, P!vars
<1>4. QED
  BY <1>1, <1>2, <1>3 DEF NextBoth

(***************************************************************************)
(* FD8 and FD10: over one script, whatever it is, and however either is    *)
(* cut short, pair_run and run_task make the same requests and are given   *)
(* the same answers, and where both return they return the same value and  *)
(* leave the same script behind.                                           *)
(***************************************************************************)
THEOREM OneProgramTwoInterpreters == InTheExample => (SpecBoth => []InterpretersAgree)
<1> SUFFICES ASSUME InTheExample PROVE SpecBoth => []InterpretersAgree
  OBVIOUS
<1> DEFINE I == /\ IInv /\ P!IInv /\ P!TraceIsWhatWasAsked
                /\ \E s \in InitScript : BothStand(s)
<1>0. InitScript \subseteq RetryScript
  BY HandlerAssumption DEF InTheExample
<1>1. InitBoth => I
  <2> SUFFICES ASSUME InitBoth PROVE I
    OBVIOUS
  <2>1. Init /\ P!Init /\ mock.seed = Unmoved(hs)
    BY ThePairing DEF InitBoth, Unmoved
  <2>2. IInv /\ P!IInv /\ P!TraceIsWhatWasAsked
    BY <2>1, InitInvariant, TheInvariant
  <2>3. hs \in InitScript /\ hs \in RetryScript /\ hs.send_count = 0
    BY <1>0, <2>1 DEF Init, InTheExample, InitScript
  <2>4. TaskStands(hs)
    BY <2>1, <2>3, TaskBegins
  <2>5. PairingStands(Unmoved(hs))
    BY <2>1, <2>3, PairingBegins, UnmovedScript
  <2>6. QED
    BY <2>2, <2>3, <2>4, <2>5 DEF BothStand
<1>2. I /\ [NextBoth]_<<vars, pvars>> => I'
  <2> SUFFICES ASSUME I, [NextBoth]_<<vars, pvars>> PROVE I'
    OBVIOUS
  <2>1. [Next]_vars /\ [P!Next]_(P!vars)
    BY StepsApart
  <2>2. IInv' /\ P!IInv' /\ P!TraceIsWhatWasAsked'
    BY <2>1, NextInvariant, TheInvariant
  <2>3. PICK s \in InitScript : BothStand(s)
    OBVIOUS
  <2>4. TaskStands(s)'
    BY <1>0, <2>1, <2>3, TaskGoesOn DEF BothStand
  <2>5. PairingStands(Unmoved(s))'
    BY <1>0, <2>1, <2>3, PairingGoesOn, UnmovedScript DEF BothStand
  <2>6. QED
    BY <2>2, <2>4, <2>5 DEF BothStand
<1>3. I => InterpretersAgree
  BY <1>0, Agreement
<1>4. QED
  BY <1>1, <1>2, <1>3, PTL DEF SpecBoth

=============================================================================
