--------------------------- MODULE FreerRunProofs ---------------------------
(***************************************************************************)
(* run implements DirectStyle for every signature, every program and every *)
(* handler: the proofs of the properties that FreerRun's model checking    *)
(* shows on small tables.                                                  *)
(***************************************************************************)
EXTENDS FreerRun, ResumptionProofs

-----------------------------------------------------------------------------
(* Type correctness *)

LEMMA InitType == Init => TypeOK /\ DepthMatchesFrames
  BY ProgramAssumption, HandlerAssumption
  DEF Init, TypeOK, ResumptionTypeOK, DepthMatchesFrames

LEMMA NextType ==
  TypeOK /\ DepthMatchesFrames /\ [Next]_vars => TypeOK' /\ DepthMatchesFrames'
<1> SUFFICES ASSUME TypeOK, DepthMatchesFrames, [Next]_vars
             PROVE  TypeOK' /\ DepthMatchesFrames'
  OBVIOUS
<1>0. ResumptionTypeOK
  BY DEF TypeOK
<1>1. CASE Handle
  <2>1. current \in RollProgram
    BY <1>1 DEF Handle, AtOperation, TypeOK, Program, PureProgram, MovedFrom
  <2>2. PICK h \in HandlerState, r \in Val :
          /\ hs' = h
          /\ log' = Append(log, [op |-> current.op, ans |-> r])
          /\ InvokeContinuation(current.k, r)
    BY <1>1 DEF Handle
  <2>3. ResumptionTypeOK' /\ DepthMatchesFrames' /\ current.op \in Op
    BY <1>0, <1>1, <2>1, <2>2, InvokeType DEF Handle, ResumptionTypeOK, RollProgram
  <2>4. log' \in Seq(LogEntry)
    BY <2>2, <2>3 DEF TypeOK, LogEntry
  <2>5. QED
    BY <1>1, <2>2, <2>3, <2>4 DEF Handle, TypeOK
<1>2. CASE HandlerThrows
  <2>1. current \in RollProgram
    BY <1>2 DEF HandlerThrows, AtOperation, TypeOK, Program, PureProgram, MovedFrom
  <2>2. log' \in Seq(LogEntry)
    BY <1>2, <2>1 DEF HandlerThrows, TypeOK, LogEntry, RollProgram
  <2>3. hs' \in HandlerState
    BY <1>2, <2>1, HandlerAssumption DEF HandlerThrows, MayLeave, TypeOK, RollProgram
  <2>4. QED
    BY <1>0, <1>2, <2>2, <2>3, LeaveType DEF HandlerThrows, TypeOK
<1>3. CASE Continue
  BY <1>0, <1>3, ResumeType DEF Continue, TypeOK
<1>4. CASE ContinuationThrows
  BY <1>0, <1>4, LeaveType DEF ContinuationThrows, TypeOK
<1>5. CASE Rebind
  BY <1>0, <1>5, LeaveType DEF Rebind, TypeOK, ResumptionTypeOK
<1>6. CASE Return
  BY <1>0, <1>6 DEF Return, TypeOK, ResumptionTypeOK, DepthMatchesFrames
<1>7. CASE UNCHANGED vars
  BY <1>7 DEF vars, TypeOK, ResumptionTypeOK, DepthMatchesFrames
<1>8. QED
  BY <1>1, <1>2, <1>3, <1>4, <1>5, <1>6, <1>7 DEF Next

(* Every state of run is well typed, whatever the signature and program. *)
THEOREM TypeCorrect == Spec => []TypeOK
<1>1. Spec => [](TypeOK /\ DepthMatchesFrames)
  BY InitType, NextType, PTL DEF Spec
<1>2. QED
  BY <1>1, PTL

(***************************************************************************)
(* While a continuation runs, the closures of the call that are on the C++ *)
(* stack are exactly those with a function left to bind: how deep the      *)
(* stack gets is how many functions were bound to the operation.           *)
(***************************************************************************)
THEOREM DepthIsFunctionsLeft == Spec => []DepthMatchesFrames
<1>1. Spec => [](TypeOK /\ DepthMatchesFrames)
  BY InitType, NextType, PTL DEF Spec
<1>2. QED
  BY <1>1, PTL

-----------------------------------------------------------------------------
(* Refinement *)

(* DirectStyle reads programs with the same operators. *)
LEMMA SameReading ==
  /\ Direct!Gone = Gone
  /\ \A v : Direct!Value(v) = Value(v)
  /\ \A p : Direct!FocusOf(p) = FocusOf(p)
  /\ \A p, tail : Direct!RestOf(p, tail) = RestOf(p, tail)
  BY DEF Direct!Gone, Gone, Direct!Value, Value, Direct!FocusOf, FocusOf,
         Direct!RestOf, RestOf, Direct!IsPure, IsPure, Direct!Request, Request

(* run starts where the program stands. *)
LEMMA InitRefines == Init => Direct!Init
  BY SameReading DEF Init, Direct!Init, focusMap, restMap, InHand

LEMMA NextRefines ==
  TypeOK /\ DepthMatchesFrames /\ [Next]_vars => [Direct!Next]_(Direct!dvars)
<1> SUFFICES ASSUME TypeOK, DepthMatchesFrames, [Next]_vars
             PROVE  [Direct!Next]_(Direct!dvars)
  OBVIOUS
<1> USE DEF TypeOK, ResumptionTypeOK, focusMap, restMap, InHand
(* An operation is performed where direct style performs it. *)
<1>1. CASE Handle
  <2>1. current \in RollProgram /\ outcome = "running" /\ call = "none"
    BY <1>1 DEF Handle, AtOperation, Program, PureProgram, MovedFrom
  <2>2. focusMap = Request(current.op) /\ restMap = current.k \o frames /\ frames = <<>>
    BY <2>1 DEF FocusOf, RestOf, IsPure, RollProgram, DepthMatchesFrames
  <2>3. restMap = current.k
    BY <2>1, <2>2 DEF RollProgram
  <2>4. PICK h \in HandlerState, r \in Val :
          /\ <<h, r>> \in Handler[hs][current.op]
          /\ hs' = h
          /\ log' = Append(log, [op |-> current.op, ans |-> r])
          /\ InvokeContinuation(current.k, r)
    BY <1>1 DEF Handle
  <2>5. focusMap' = Value(r) /\ restMap' = current.k
    BY <1>1, <2>1, <2>4
    DEF Handle, InvokeContinuation, Pure, FocusOf, RestOf, IsPure
  <2>6. focusMap.at = "request" /\ focusMap.op = current.op
    BY <2>2 DEF Request
  <2>7. focusMap' = Direct!Value(r) /\ UNCHANGED <<code, restMap, outcome>>
    BY SameReading, <1>1, <2>3, <2>5 DEF Handle
  <2>8. Len(log) < MaxEffects
    BY <1>1 DEF Handle
  <2>9. Direct!Perform
    BY <2>1, <2>4, <2>6, <2>7, <2>8 DEF Direct!Perform
  <2>10. QED
    BY <2>9 DEF Direct!Next
<1>2. CASE HandlerThrows
  <2>1. current \in RollProgram /\ outcome = "running" /\ call = "none"
    BY <1>2 DEF HandlerThrows, AtOperation, Program, PureProgram, MovedFrom
  <2>2. focusMap = Request(current.op)
    BY <2>1 DEF FocusOf, IsPure, RollProgram
  <2>3. Direct!Refuse
    BY SameReading, <1>2, <2>1, <2>2
    DEF HandlerThrows, Direct!Refuse, Request, MayLeave, Direct!MayLeave
  <2>4. QED
    BY <2>3 DEF Direct!Next
(* Of the steps of a continuation only entering a function is visible. *)
<1>3. CASE Continue
  <2>1. CASE Inwards \/ Innermost
    BY <1>3, <2>1 DEF Continue, Inwards, Innermost, Direct!dvars
  <2>2. CASE EnterFunction
    <3>1. outcome = "running" /\ call = "outwards" /\ box \in PureProgram
      BY <1>3, <2>2 DEF Continue, EnterFunction, IsPure, Program, RollProgram
    <3>2. focusMap = Value(box.val) /\ restMap = frames
      BY <3>1 DEF FocusOf, RestOf, IsPure, PureProgram
    <3>3. Direct!Continue
      BY SameReading, <1>3, <2>2, <3>1, <3>2 DEF Continue, EnterFunction, Direct!Continue, Value
    <3>4. QED
      BY <3>3 DEF Direct!Next
  <2>3. CASE BindToSuspended
    <3>1. box \in RollProgram
      BY <2>3 DEF BindToSuspended, IsPure, Program, PureProgram
    <3>2. FocusOf(box') = FocusOf(box) /\ RestOf(box', frames') = RestOf(box, frames)
      BY <2>3, <3>1, BindLaterStandsStill DEF BindToSuspended
    <3>3. QED
      BY <1>3, <2>3, <3>2 DEF Continue, BindToSuspended, Direct!dvars
  <2>4. QED
    BY <1>3, <2>1, <2>2, <2>3 DEF Continue, Resume
<1>4. CASE ContinuationThrows
  <2>1. outcome = "running" /\ call = "outwards" /\ box \in PureProgram
    BY <1>4 DEF ContinuationThrows, FunctionThrows, IsPure, Program, RollProgram
  <2>2. focusMap = Value(box.val) /\ restMap = frames
    BY <2>1 DEF FocusOf, RestOf, IsPure, PureProgram
  <2>3. Direct!Break
    BY SameReading, <1>4, <2>1, <2>2 DEF ContinuationThrows, FunctionThrows, Direct!Break, Value
  <2>4. QED
    BY <2>3 DEF Direct!Next
<1>5. CASE Rebind
  BY <1>5 DEF Rebind, Resumed, LeaveContinuation, Direct!dvars
<1>6. CASE Return
  <2>1. current \in PureProgram /\ frames = <<>>
    BY <1>6 DEF Return, Program, RollProgram, MovedFrom, DepthMatchesFrames
  <2>2. focusMap = Value(current.val) /\ restMap = <<>>
    BY <1>6, <2>1 DEF Return, FocusOf, RestOf, IsPure, PureProgram
  <2>3. Direct!Finish
    BY <1>6, <2>2 DEF Return, Direct!Finish, Value
  <2>4. QED
    BY <2>3 DEF Direct!Next
<1>7. CASE UNCHANGED vars
  BY <1>7 DEF vars, Direct!dvars
<1>8. QED
  BY <1>1, <1>2, <1>3, <1>4, <1>5, <1>6, <1>7 DEF Next

(***************************************************************************)
(* run performs the program's operations in the order direct style does,   *)
(* resumes each with its own answer, and ends with the same value or with  *)
(* the first failure: for every signature, program and handler.            *)
(***************************************************************************)
THEOREM RunImplementsDirectStyle == Spec => Direct!Spec
<1>1. Spec => [](TypeOK /\ DepthMatchesFrames)
  BY InitType, NextType, PTL DEF Spec
<1>2. QED
  BY <1>1, InitRefines, NextRefines, PTL DEF Spec, Direct!Spec

=============================================================================
