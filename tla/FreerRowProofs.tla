--------------------------- MODULE FreerRowProofs ---------------------------
(***************************************************************************)
(* Discharging a row one signature at a time, for every number of layers,  *)
(* every signature, handler and program: who owns a discharge's handler,   *)
(* which operations a layer can meet, and that all the layers together do  *)
(* what one handler for the whole row does in direct style.                *)
(*                                                                         *)
(* The ownership holds step by step because a discharge gives its handler  *)
(* up in the very step in which its activations return, and because the    *)
(* layers a program has passed stay without activations until it is        *)
(* resumed, at the first layer.                                            *)
(***************************************************************************)
EXTENDS FreerRow, ResumptionProofs

IInv ==
  /\ TypeOK
  /\ DepthMatchesFrames
  /\ DischargedStaysDischarged
  /\ HandlerOwnedWhereUsed

-----------------------------------------------------------------------------
(* Type correctness *)

LEMMA EnteredType ==
  ASSUME NEW h \in [Discharging -> Owner], NEW n \in [Discharging -> Nat], NEW i \in Nat
  PROVE  /\ EnteredHeld(h, i) \in [Discharging -> Owner]
         /\ EnteredNest(n, i) \in [Discharging -> Nat]
  BY DEF EnteredHeld, EnteredNest, Owner

LEMMA InitType == Init => TypeOK /\ DepthMatchesFrames
<1> SUFFICES ASSUME Init PROVE TypeOK /\ DepthMatchesFrames
  OBVIOUS
<1>1. held \in [Discharging -> Owner] /\ nest \in [Discharging -> Nat]
  <2>1. /\ [i \in Discharging |-> "caller"] \in [Discharging -> Owner]
        /\ [i \in Discharging |-> 0] \in [Discharging -> Nat]
    BY DEF Owner
  <2>2. QED
    BY <2>1, EnteredType DEF Init
<1>2. level \in Layer /\ hs \in [Layer -> LayerState]
  BY RowAssumption DEF Init, Layer
<1>3. QED
  BY <1>1, <1>2, ProgramAssumption
  DEF Init, TypeOK, ResumptionTypeOK, DepthMatchesFrames

(* A layer at an operation of its own has a suspended program in hand. *)
LEMMA OwnOperation ==
  ASSUME TypeOK, AtOwnOperation
  PROVE  /\ current \in RollProgram
         /\ current.op \in Op
         /\ current.k \in Seq(Fn)
  BY DEF TypeOK, AtOwnOperation, Program, PureProgram, RollProgram, MovedFrom

LEMMA UnwindType ==
  ASSUME TypeOK, Unwind, log' \in Seq(LogEntry), hs' \in [Layer -> LayerState]
  PROVE  TypeOK' /\ DepthMatchesFrames'
<1>1. ResumptionTypeOK' /\ DepthMatchesFrames'
  BY LeaveType DEF TypeOK, Unwind
<1>2. held' \in [Discharging -> Owner] /\ nest' \in [Discharging -> Nat]
  BY DEF Unwind, Owner
<1>3. QED
  BY <1>1, <1>2 DEF TypeOK, Unwind

LEMMA NextType ==
  TypeOK /\ DepthMatchesFrames /\ [Next]_vars => TypeOK' /\ DepthMatchesFrames'
<1> SUFFICES ASSUME TypeOK, DepthMatchesFrames, [Next]_vars
             PROVE  TypeOK' /\ DepthMatchesFrames'
  OBVIOUS
<1>0. ResumptionTypeOK
  BY DEF TypeOK
<1>1. CASE Handle
  <2>1. current.op \in Op /\ current.k \in Seq(Fn)
    BY <1>1, OwnOperation DEF Handle
  <2>2. PICK h \in LayerState, r \in Val :
          /\ hs' = [hs EXCEPT ![level] = h]
          /\ log' = Append(log, [op |-> current.op, ans |-> r])
          /\ InvokeContinuation(current.k, r)
    BY <1>1 DEF Handle
  <2>3. ResumptionTypeOK' /\ DepthMatchesFrames'
    BY <1>0, <1>1, <2>1, <2>2, InvokeType DEF Handle, ResumptionTypeOK
  <2>4. log' \in Seq(LogEntry) /\ hs' \in [Layer -> LayerState]
    BY <2>1, <2>2 DEF TypeOK, LogEntry
  <2>5. QED
    BY <1>1, <2>3, <2>4 DEF Handle, TypeOK
<1>2. CASE HandlerThrows
  <2>1. log' \in Seq(LogEntry)
    BY <1>2, OwnOperation DEF HandlerThrows, TypeOK, LogEntry
  <2>2. hs' \in [Layer -> LayerState]
    <3>1. current.op \in Op /\ hs[level] \in LayerState
      BY <1>2, OwnOperation DEF HandlerThrows, TypeOK
    <3>2. \A a \in LayerHandler[hs[level]][current.op] : a[1] \in LayerState
      BY <3>1, RowAssumption
    <3>3. QED
      BY <1>2, <3>1, <3>2 DEF HandlerThrows, TypeOK
  <2>3. QED
    BY <1>2, <2>1, <2>2, UnwindType DEF HandlerThrows
<1>3. CASE Continue
  BY <1>0, <1>3, ResumeType DEF Continue, TypeOK
<1>4. CASE ContinuationThrows
  BY <1>4, UnwindType DEF ContinuationThrows, TypeOK
<1>5. CASE Rebind
  <2>1. ResumptionTypeOK' /\ DepthMatchesFrames' /\ current' \in Program
    BY <1>0, <1>5, LeaveType DEF Rebind, ResumptionTypeOK
  <2>2. held' \in [Discharging -> Owner] /\ nest' \in [Discharging -> Nat]
    BY <1>5, EnteredType DEF Rebind, TypeOK
  <2>3. QED
    BY <1>5, <2>1, <2>2, RowAssumption DEF Rebind, TypeOK, Layer
<1>6. CASE PassOn
  <2>1. level \in Nat /\ level' = level + 1 /\ level' \in Layer /\ level \in Discharging
    BY <1>6, RowAssumption DEF PassOn, TypeOK, Layer, Discharging
  <2>2. /\ [held EXCEPT ![level] = IF IsPure(current) THEN "nobody" ELSE "continuation"]
             \in [Discharging -> Owner]
        /\ [nest EXCEPT ![level] = 0] \in [Discharging -> Nat]
    BY DEF TypeOK, Owner
  <2>3. held' \in [Discharging -> Owner] /\ nest' \in [Discharging -> Nat]
    <3>1. level + 1 \in Nat
      BY <2>1
    <3>2. QED
      BY <1>6, <2>2, <3>1, EnteredType DEF PassOn
  <2>4. QED
    BY <1>0, <1>6, <2>1, <2>3 DEF PassOn, TypeOK, ResumptionTypeOK, DepthMatchesFrames
<1>7. CASE Return
  BY <1>0, <1>7 DEF Return, TypeOK, ResumptionTypeOK, DepthMatchesFrames
<1>8. CASE UNCHANGED vars
  BY <1>8 DEF vars, TypeOK, ResumptionTypeOK, DepthMatchesFrames
<1>9. QED
  BY <1>1, <1>2, <1>3, <1>4, <1>5, <1>6, <1>7, <1>8 DEF Next

(* Every state of a row's interpretation is well typed. *)
THEOREM TypeCorrect == Spec => []TypeOK
<1>1. Spec => [](TypeOK /\ DepthMatchesFrames)
  BY InitType, NextType, PTL DEF Spec
<1>2. QED
  BY <1>1, PTL

-----------------------------------------------------------------------------
(* The inductive invariant *)

LEMMA InitInvariant == Init => IInv
<1> SUFFICES ASSUME Init PROVE IInv
  OBVIOUS
<1>1. TypeOK /\ DepthMatchesFrames
  BY InitType
<1>2. DischargedStaysDischarged
  <2>1. current.tag = "Roll" => current.op \in Op
    BY <1>1 DEF Init, TypeOK, Program, PureProgram, RollProgram, MovedFrom
  <2>2. QED
    BY <2>1, RowAssumption DEF Init, DischargedStaysDischarged
<1>3. HandlerOwnedWhereUsed
  <2>1. \A i \in Discharging :
          /\ held[i] = IF i = 1 THEN "activation" ELSE "caller"
          /\ nest[i] = IF i = 1 THEN 1 ELSE 0
    BY DEF Init, EnteredHeld, EnteredNest, Discharging
  <2>2. level = 1 /\ (1 < Last => 1 \in Discharging)
    BY RowAssumption DEF Init, Discharging
  <2>3. QED
    BY <2>1, <2>2 DEF HandlerOwnedWhereUsed, Discharging
<1>4. QED
  BY <1>1, <1>2, <1>3 DEF IInv

(* Where nothing moves, nothing is disturbed. *)
LEMMA RunningInvariant ==
  ASSUME IInv, call' # "none", UNCHANGED <<held, nest>>
  PROVE  DischargedStaysDischarged' /\ HandlerOwnedWhereUsed'
  BY DEF IInv, DischargedStaysDischarged, HandlerOwnedWhereUsed, Looking

(* A failure returns the handlers that are not the caller's still. *)
LEMMA UnwindInvariant ==
  ASSUME IInv, Unwind
  PROVE  DischargedStaysDischarged' /\ HandlerOwnedWhereUsed'
<1>1. \A i \in Discharging : held'[i] # "activation" /\ nest'[i] = 0
  BY DEF Unwind
<1>2. QED
  BY <1>1 DEF Unwind, DischargedStaysDischarged, HandlerOwnedWhereUsed, Looking

(* The first discharge is entered once more, all later ones stay where they are. *)
LEMMA RebindInvariant ==
  ASSUME IInv, Rebind
  PROVE  DischargedStaysDischarged' /\ HandlerOwnedWhereUsed'
<1>1. level' = 1 /\ current' \in Program
  BY DEF Rebind, IInv, TypeOK, ResumptionTypeOK
<1>2. DischargedStaysDischarged'
  <2>1. current'.tag = "Roll" => current'.op \in Op
    BY <1>1 DEF Program, PureProgram, RollProgram
  <2>2. QED
    BY <1>1, <2>1, RowAssumption DEF DischargedStaysDischarged
<1>3. HandlerOwnedWhereUsed'
  <2>1. /\ held \in [Discharging -> Owner] /\ nest \in [Discharging -> Nat]
        /\ \A i \in Discharging : held[i] = "activation" <=> nest[i] > 0
    BY DEF IInv, TypeOK, HandlerOwnedWhereUsed
  <2>2. \A i \in Discharging :
          /\ held'[i] = IF i = 1 THEN "activation" ELSE held[i]
          /\ nest'[i] = IF i = 1 THEN nest[i] + 1 ELSE nest[i]
    BY <2>1 DEF Rebind, EnteredHeld, EnteredNest
  <2>3. \A i \in Discharging : held'[i] = "activation" <=> nest'[i] > 0
    BY <2>1, <2>2
  <2>4. 1 < Last => 1 \in Discharging
    BY RowAssumption DEF Discharging
  <2>5. QED
    BY <1>1, <2>2, <2>3, <2>4 DEF HandlerOwnedWhereUsed, Discharging
<1>4. QED
  BY <1>2, <1>3

(* A discharge leaves its level and its handler in one step. *)
LEMMA PassOnInvariant ==
  ASSUME IInv, PassOn
  PROVE  DischargedStaysDischarged' /\ HandlerOwnedWhereUsed'
<1>1. level \in Nat /\ level < Last /\ level' = level + 1 /\ Last \in Nat /\ Looking
  BY RowAssumption DEF PassOn, IInv, TypeOK, Layer
<1>2. DischargedStaysDischarged'
  <2>1. current.tag = "Roll" => current.op \in Op
    BY DEF IInv, TypeOK, Program, PureProgram, RollProgram, MovedFrom
  <2>2. current.tag = "Roll" => LayerOf[current.op] \in Nat /\ LayerOf[current.op] > level
    BY <1>1, <2>1, RowAssumption DEF PassOn, IInv, DischargedStaysDischarged
  <2>3. QED
    BY <1>1, <2>2 DEF PassOn, DischargedStaysDischarged
<1>3. HandlerOwnedWhereUsed'
  <2>1. /\ held \in [Discharging -> Owner] /\ nest \in [Discharging -> Nat]
        /\ \A i \in Discharging : held[i] = "activation" <=> nest[i] > 0
        /\ \A i \in Discharging : i < level => held[i] # "caller" /\ nest[i] = 0
    BY <1>1 DEF IInv, TypeOK, HandlerOwnedWhereUsed
  <2> DEFINE left == IF IsPure(current) THEN "nobody" ELSE "continuation"
  <2>2. \A i \in Discharging :
          /\ held'[i] = IF i = level + 1 THEN "activation"
                        ELSE IF i = level THEN left ELSE held[i]
          /\ nest'[i] = IF i = level + 1 THEN nest[i] + 1
                        ELSE IF i = level THEN 0 ELSE nest[i]
    BY <1>1, <2>1 DEF PassOn, EnteredHeld, EnteredNest
  <2>3. \A i \in Discharging : held'[i] = "activation" <=> nest'[i] > 0
    BY <2>1, <2>2
  <2>4. level' < Last => level' \in Discharging /\ held'[level'] = "activation"
    BY <1>1, <2>2 DEF Discharging
  <2>5. \A i \in Discharging : i < level' => held'[i] # "caller" /\ nest'[i] = 0
    BY <1>1, <2>1, <2>2 DEF Discharging
  <2>6. QED
    BY <2>3, <2>4, <2>5 DEF HandlerOwnedWhereUsed
<1>4. QED
  BY <1>2, <1>3

LEMMA NextInvariant == IInv /\ [Next]_vars => IInv'
<1> SUFFICES ASSUME IInv, [Next]_vars PROVE IInv'
  OBVIOUS
<1>0. TypeOK' /\ DepthMatchesFrames'
  BY NextType DEF IInv
<1>1. DischargedStaysDischarged' /\ HandlerOwnedWhereUsed'
  <2>1. CASE Handle
    BY <2>1, RunningInvariant DEF Handle, InvokeContinuation
  <2>2. CASE HandlerThrows
    BY <2>2, UnwindInvariant DEF HandlerThrows
  <2>3. CASE Continue
    BY <2>3, RunningInvariant
    DEF Continue, Resume, Inwards, Innermost, EnterFunction, BindToSuspended
  <2>4. CASE ContinuationThrows
    BY <2>4, UnwindInvariant DEF ContinuationThrows
  <2>5. CASE Rebind
    BY <2>5, RebindInvariant
  <2>6. CASE PassOn
    BY <2>6, PassOnInvariant
  <2>7. CASE Return
    BY <2>7 DEF Return, IInv, DischargedStaysDischarged, HandlerOwnedWhereUsed, Looking
  <2>8. CASE UNCHANGED vars
    BY <2>8 DEF vars, IInv, DischargedStaysDischarged, HandlerOwnedWhereUsed, Looking
  <2>9. QED
    BY <2>1, <2>2, <2>3, <2>4, <2>5, <2>6, <2>7, <2>8 DEF Next
<1>2. QED
  BY <1>0, <1>1 DEF IInv

THEOREM Invariant == Spec => []IInv
  BY InitInvariant, NextInvariant, PTL DEF Spec

(***************************************************************************)
(* A discharged signature is gone: no layer, however many there are, meets *)
(* an operation of a layer before it, in any program and after any number  *)
(* of resumptions.                                                         *)
(***************************************************************************)
THEOREM DischargeIsFinal == Spec => []DischargedStaysDischarged
<1>1. IInv => DischargedStaysDischarged
  BY DEF IInv
<1>2. QED
  BY <1>1, Invariant, PTL

(***************************************************************************)
(* The handler of a discharge lives in an activation exactly while there   *)
(* is one, and moves to the re-emitted continuation with the last of them: *)
(* no continuation refers to a handler in a frame that has returned.       *)
(***************************************************************************)
THEOREM CaptureOwnership == Spec => []HandlerOwnedWhereUsed
<1>1. IInv => HandlerOwnedWhereUsed
  BY DEF IInv
<1>2. QED
  BY <1>1, Invariant, PTL

-----------------------------------------------------------------------------
(* Refinement *)

(* DirectStyle reads programs with the same operators. *)
LEMMA SameReading ==
  /\ Direct!Gone = Gone
  /\ \A v : Direct!Value(v) = Value(v)
  /\ \A p : Direct!FocusOf(p) = FocusOf(p)
  /\ \A p, tail : Direct!RestOf(p, tail) = RestOf(p, tail)
  BY DEF Direct!Gone, Gone, Direct!Value, Value, Direct!FocusOf, FocusOf,
         Direct!RestOf, RestOf, Direct!IsPure, IsPure, Direct!Request, Request

(* The client's first discharge starts where the program stands. *)
LEMMA InitRefines == Init => Direct!Init
  BY SameReading DEF Init, Direct!Init, focusMap, restMap, InHand

(* What a layer's handler answers is what the joint handler answers. *)
LEMMA JointAnswer ==
  ASSUME TypeOK, NEW op \in Op, NEW h \in LayerState, NEW r \in Val,
         <<h, r>> \in LayerHandler[hs[LayerOf[op]]][op]
  PROVE  /\ [hs EXCEPT ![LayerOf[op]] = h] \in JointState
         /\ <<[hs EXCEPT ![LayerOf[op]] = h], r>> \in JointHandler[hs][op]
<1>1. hs \in JointState /\ LayerOf[op] \in Layer
  BY RowAssumption DEF TypeOK, JointState, Layer
<1>2. [hs EXCEPT ![LayerOf[op]] = h] \in JointState
  BY <1>1 DEF JointState
<1>3. JointHandler[hs][op] =
        {<<[hs EXCEPT ![LayerOf[op]] = a[1]], a[2]>> : a \in LayerHandler[hs[LayerOf[op]]][op]}
  BY <1>1 DEF JointHandler
<1>4. <<h, r>>[1] = h /\ <<h, r>>[2] = r
  OBVIOUS
<1>5. QED
  BY <1>2, <1>3, <1>4

(* The joint handler is a handler over the row, as DirectStyle assumes of its own. *)
LEMMA JointHandlerIsOne ==
  /\ JointHandler \in [JointState -> [Op -> SUBSET (JointState \X Val)]]
  /\ {[i \in Layer |-> InitLayer]} \subseteq JointState
<1>1. ASSUME NEW h \in JointState, NEW op \in Op, NEW a \in LayerHandler[h[LayerOf[op]]][op]
      PROVE  <<[h EXCEPT ![LayerOf[op]] = a[1]], a[2]>> \in JointState \X Val
  <2>1. LayerOf[op] \in Layer /\ h[LayerOf[op]] \in LayerState
    BY RowAssumption DEF JointState, Layer
  <2>2. a[1] \in LayerState /\ a[2] \in Val
    BY <2>1, RowAssumption
  <2>3. QED
    BY <2>1, <2>2 DEF JointState
<1>2. QED
  BY <1>1, RowAssumption DEF JointHandler, JointState

LEMMA NextRefines ==
  TypeOK /\ DepthMatchesFrames /\ [Next]_vars => [Direct!Next]_(Direct!dvars)
<1> SUFFICES ASSUME TypeOK, DepthMatchesFrames, [Next]_vars
             PROVE  [Direct!Next]_(Direct!dvars)
  OBVIOUS
<1> USE DEF ResumptionTypeOK, focusMap, restMap, InHand
(* An operation is performed where direct style performs it. *)
<1>1. CASE Handle
  <2>1. /\ current \in RollProgram /\ current.op \in Op /\ current.k \in Seq(Fn)
        /\ outcome = "running" /\ call = "none" /\ level = LayerOf[current.op]
    BY <1>1, OwnOperation DEF Handle, AtOwnOperation, Looking
  <2>2. focusMap = Request(current.op) /\ restMap = current.k \o frames /\ frames = <<>>
    BY <2>1 DEF FocusOf, RestOf, IsPure, RollProgram, DepthMatchesFrames
  <2>3. restMap = current.k
    BY <2>1, <2>2
  <2>4. PICK h \in LayerState, r \in Val :
          /\ <<h, r>> \in LayerHandler[hs[level]][current.op]
          /\ hs' = [hs EXCEPT ![level] = h]
          /\ log' = Append(log, [op |-> current.op, ans |-> r])
          /\ InvokeContinuation(current.k, r)
    BY <1>1 DEF Handle
  <2>5. focusMap' = Value(r) /\ restMap' = current.k
    BY <1>1, <2>1, <2>4
    DEF Handle, InvokeContinuation, Pure, FocusOf, RestOf, IsPure
  <2>6. focusMap.at = "request" /\ focusMap.op = current.op
    BY <2>2 DEF Request
  <2>7. focusMap' = Direct!Value(r) /\ UNCHANGED <<code, restMap, outcome>>
    BY SameReading, <1>1, <2>3, <2>5 DEF Handle
  <2>8. hs' \in JointState /\ <<hs', r>> \in JointHandler[hs][current.op]
    BY <2>1, <2>4, JointAnswer
  <2>9. Len(log) < MaxEffects
    BY <1>1 DEF Handle
  <2>10. Direct!Perform
    BY <2>1, <2>4, <2>6, <2>7, <2>8, <2>9 DEF Direct!Perform
  <2>11. QED
    BY <2>10 DEF Direct!Next
<1>2. CASE HandlerThrows
  <2>1. current \in RollProgram /\ outcome = "running" /\ call = "none"
    BY <1>2, OwnOperation DEF HandlerThrows, AtOwnOperation, Looking
  <2>2. focusMap = Request(current.op)
    BY <2>1 DEF FocusOf, IsPure, RollProgram
  <2>3. Direct!Refuse
    <3>1. current.op \in Op /\ LayerOf[current.op] = level /\ hs \in JointState
      BY <1>2, OwnOperation DEF HandlerThrows, AtOwnOperation, JointState, TypeOK
    <3>2. hs' \in Direct!MayLeave(hs, current.op)
      <4>1. PICK h \in {hs[level]} \cup {a[1] : a \in LayerHandler[hs[level]][current.op]} :
              hs' = [hs EXCEPT ![level] = h]
        BY <1>2 DEF HandlerThrows
      <4>2. CASE h = hs[level]
        BY <3>1, <4>1, <4>2 DEF Direct!MayLeave, JointState
      <4>3. CASE h # hs[level]
        <5>1. PICK a \in LayerHandler[hs[level]][current.op] : h = a[1]
          BY <4>1, <4>3
        <5>2. <<hs', a[2]>> \in JointHandler[hs][current.op]
          BY <3>1, <4>1, <5>1 DEF JointHandler
        <5>3. QED
          BY <5>2 DEF Direct!MayLeave
      <4>4. QED
        BY <4>2, <4>3
    <3>3. QED
      BY SameReading, <1>2, <2>1, <2>2, <3>2
      DEF HandlerThrows, Unwind, Direct!Refuse, Request
  <2>4. QED
    BY <2>3 DEF Direct!Next
(* Of the steps of a continuation only entering a function is visible. *)
<1>3. CASE Continue
  <2>0. ResumptionTypeOK
    BY DEF TypeOK
  <2>1. CASE Inwards \/ Innermost
    BY <1>3, <2>1 DEF Continue, Inwards, Innermost, Direct!dvars
  <2>2. CASE EnterFunction
    <3>1. outcome = "running" /\ call = "outwards" /\ box \in PureProgram
      BY <1>3, <2>0, <2>2 DEF Continue, EnterFunction, IsPure, Program, RollProgram
    <3>2. focusMap = Value(box.val) /\ restMap = frames
      BY <3>1 DEF FocusOf, RestOf, IsPure, PureProgram
    <3>3. Direct!Continue
      BY SameReading, <1>3, <2>2, <3>1, <3>2 DEF Continue, EnterFunction, Direct!Continue, Value
    <3>4. QED
      BY <3>3 DEF Direct!Next
  <2>3. CASE BindToSuspended
    <3>1. box \in RollProgram
      BY <2>0, <2>3 DEF BindToSuspended, IsPure, Program, PureProgram
    <3>2. FocusOf(box') = FocusOf(box) /\ RestOf(box', frames') = RestOf(box, frames)
      BY <2>0, <2>3, <3>1, BindLaterStandsStill DEF BindToSuspended
    <3>3. QED
      BY <1>3, <2>3, <3>2 DEF Continue, BindToSuspended, Direct!dvars
  <2>4. QED
    BY <1>3, <2>1, <2>2, <2>3 DEF Continue, Resume
<1>4. CASE ContinuationThrows
  <2>1. outcome = "running" /\ call = "outwards" /\ box \in PureProgram
    BY <1>4 DEF ContinuationThrows, FunctionThrows, IsPure, Program, RollProgram, TypeOK
  <2>2. focusMap = Value(box.val) /\ restMap = frames
    BY <2>1 DEF FocusOf, RestOf, IsPure, PureProgram
  <2>3. Direct!Break
    BY SameReading, <1>4, <2>1, <2>2
    DEF ContinuationThrows, FunctionThrows, Unwind, Direct!Break, Value
  <2>4. QED
    BY <2>3 DEF Direct!Next
(* Handing the program to a layer, or to the next one, is not visible. *)
<1>5. CASE Rebind
  BY <1>5 DEF Rebind, Resumed, LeaveContinuation, Direct!dvars
<1>6. CASE PassOn
  BY <1>6 DEF PassOn, Direct!dvars
<1>7. CASE Return
  <2>1. current \in PureProgram /\ call = "none" /\ frames = <<>> /\ outcome = "running"
    BY <1>7 DEF Return, Looking, Program, RollProgram, MovedFrom, DepthMatchesFrames, TypeOK
  <2>2. focusMap = Value(current.val) /\ restMap = <<>>
    BY <2>1 DEF FocusOf, RestOf, IsPure, PureProgram
  <2>3. Direct!Finish
    BY <1>7, <2>1, <2>2 DEF Return, Direct!Finish, Value
  <2>4. QED
    BY <2>3 DEF Direct!Next
<1>8. CASE UNCHANGED vars
  BY <1>8 DEF vars, Direct!dvars
<1>9. QED
  BY <1>1, <1>2, <1>3, <1>4, <1>5, <1>6, <1>7, <1>8 DEF Next

(***************************************************************************)
(* Discharging one signature after another, and running the rest, performs *)
(* the operations a single handler for the row would, in the same order,   *)
(* with the same answers and the same end: for every number of layers,     *)
(* every partition of the operations among them, and every program.        *)
(***************************************************************************)
THEOREM RowImplementsDirectStyle == Spec => Direct!Spec
<1>1. Spec => [](TypeOK /\ DepthMatchesFrames)
  BY InitType, NextType, PTL DEF Spec
<1>2. QED
  BY <1>1, InitRefines, NextRefines, PTL DEF Spec, Direct!Spec

=============================================================================
