------------------------- MODULE FreerPairingProofs -------------------------
(***************************************************************************)
(* pair_run is an interpreter, for every signature, every coalgebra and    *)
(* every program: its trace is the list of requests, and it does what      *)
(* direct style does with the seeds of the mock for the handler's states.  *)
(*                                                                         *)
(* The question under way is what makes this more than run's proof: the    *)
(* node answers in one step and unfolds in another, either may throw, and  *)
(* the program has left the loop's variable in between.                    *)
(***************************************************************************)
EXTENDS FreerPairing, ResumptionProofs

(* While a question is under way nothing else is, and the program is in it. *)
OneThingAtATime ==
  asked # Nothing => call = "none" /\ current = MovedFrom /\ outcome = "running"

(* An answer that is to unfold is one the current node may give. *)
AnswerIsOfTheNode ==
  asked.stage = "unfold" =>
    /\ Len(log) < MaxEffects
    /\ <<asked.seed, asked.response>> \in Handler[mock.seed][asked.op]

IInv ==
  /\ TypeOK
  /\ DepthMatchesFrames
  /\ OneThingAtATime
  /\ AnswerIsOfTheNode

-----------------------------------------------------------------------------
(* What the stages of a question are. *)

LEMMA Stages ==
  ASSUME TypeOK
  PROVE  /\ asked = Nothing <=> asked.stage = "none"
         /\ asked # Nothing => asked.op \in Op /\ asked.k \in Seq(Fn)
         /\ asked.stage = "unfold" => asked.seed \in HandlerState /\ asked.response \in Val
  BY DEF TypeOK, Question, Nothing

LEMMA AskingType ==
  ASSUME NEW op \in Op, NEW k \in Seq(Fn)
  PROVE  Asking(op, k) \in Question /\ Asking(op, k) # Nothing
  BY DEF Asking, Question, Nothing

LEMMA UnfoldingType ==
  ASSUME TypeOK, asked # Nothing, NEW s \in HandlerState, NEW r \in Val
  PROVE  Unfolding(asked, s, r) \in Question /\ Unfolding(asked, s, r) # Nothing
<1>1. asked.op \in Op /\ asked.k \in Seq(Fn)
  BY Stages
<1>2. QED
  BY <1>1 DEF Unfolding, Question, Nothing

LEMMA RollInHand ==
  ASSUME TypeOK, current.tag = "Roll"
  PROVE  current \in RollProgram /\ current.op \in Op /\ current.k \in Seq(Fn)
  BY DEF TypeOK, Program, PureProgram, RollProgram, MovedFrom

LEMMA RefusalType ==
  ASSUME TypeOK, asked # Nothing
  PROVE  Append(log, [op |-> asked.op, ans |-> Refused]) \in Seq(LogEntry)
  BY Stages DEF TypeOK, LogEntry

-----------------------------------------------------------------------------
(* The inductive invariant *)

LEMMA InitInvariant == Init => IInv
<1> SUFFICES ASSUME Init PROVE IInv
  OBVIOUS
<1>1. mock \in [head : Annotation, seed : HandlerState]
  BY PairingAssumption, HandlerAssumption DEF Init, Node
<1>2. asked \in Question /\ asked.stage = "none"
  BY DEF Init, Question, Nothing
<1>3. QED
  BY <1>1, <1>2, ProgramAssumption
  DEF Init, IInv, TypeOK, ResumptionTypeOK, DepthMatchesFrames, OneThingAtATime,
      AnswerIsOfTheNode

LEMMA NextInvariant == IInv /\ [Next]_vars => IInv'
<1> SUFFICES ASSUME IInv, [Next]_vars PROVE IInv'
  OBVIOUS
<1>0. TypeOK /\ ResumptionTypeOK /\ DepthMatchesFrames
  BY DEF IInv, TypeOK
<1>1. CASE Ask
  <2>1. current.op \in Op /\ current.k \in Seq(Fn)
    BY <1>0, <1>1, RollInHand DEF Ask
  <2>2. asked' \in Question /\ asked'.stage = "responder"
    BY <1>1, <2>1, AskingType DEF Ask, Asking
  <2>3. trace' \in Seq(Op)
    BY <1>0, <1>1, <2>1 DEF Ask, TypeOK
  <2>4. QED
    BY <1>0, <1>1, <2>2, <2>3
    DEF Ask, IInv, TypeOK, ResumptionTypeOK, DepthMatchesFrames, OneThingAtATime,
        AnswerIsOfTheNode
<1>2. CASE Respond
  <2>1. PICK s \in HandlerState, r \in Val :
          /\ <<s, r>> \in Handler[mock.seed][asked.op]
          /\ asked' = Unfolding(asked, s, r)
    BY <1>2 DEF Respond
  <2>2. asked # Nothing
    BY <1>2 DEF Respond, Nothing
  <2>3. asked' \in Question
    BY <1>0, <2>1, <2>2, UnfoldingType
  <2>4. /\ TypeOK' /\ DepthMatchesFrames'
    BY <1>0, <1>2, <2>3 DEF Respond, TypeOK, ResumptionTypeOK, DepthMatchesFrames
  <2>5. OneThingAtATime'
    BY <1>2, <2>2 DEF Respond, IInv, OneThingAtATime
  <2>6. AnswerIsOfTheNode'
    BY <1>2, <2>1 DEF Respond, AnswerIsOfTheNode, Unfolding
  <2>7. QED
    BY <2>4, <2>5, <2>6 DEF IInv
<1>3. CASE Unfold
  <2>1. /\ asked.op \in Op /\ asked.k \in Seq(Fn)
        /\ asked.seed \in HandlerState /\ asked.response \in Val
    BY <1>0, <1>3, Stages DEF Unfold, Nothing
  <2>2. ResumptionTypeOK' /\ DepthMatchesFrames'
    BY <1>0, <1>3, <2>1, InvokeType DEF Unfold, ResumptionTypeOK
  <2>3. mock' \in [head : Annotation, seed : HandlerState] /\ log' \in Seq(LogEntry)
    BY <1>0, <1>3, <2>1, PairingAssumption DEF Unfold, Node, TypeOK, LogEntry
  <2>4. asked' = Nothing /\ asked' \in Question /\ asked'.stage = "none"
    BY <1>3 DEF Unfold, Nothing, Question
  <2>5. QED
    BY <1>0, <1>3, <2>2, <2>3, <2>4 DEF Unfold, IInv, TypeOK, OneThingAtATime, AnswerIsOfTheNode
<1>4. CASE MockThrows
  <2>1. asked # Nothing
    BY <1>4 DEF MockThrows, Nothing
  <2>2. log' \in Seq(LogEntry)
    BY <1>0, <1>4, <2>1, RefusalType DEF MockThrows
  <2>3. asked' = Nothing /\ asked' \in Question /\ asked'.stage = "none"
    BY <1>4 DEF MockThrows, Nothing, Question
  <2>4. QED
    BY <1>0, <1>4, <2>2, <2>3
    DEF MockThrows, IInv, TypeOK, ResumptionTypeOK, DepthMatchesFrames, OneThingAtATime,
        AnswerIsOfTheNode
<1>5. CASE Continue
  <2>1. call # "none"
    BY <1>5 DEF Continue, Resume, Inwards, Innermost, EnterFunction, BindToSuspended
  <2>2. asked = Nothing
    BY <2>1 DEF IInv, OneThingAtATime
  <2>3. ResumptionTypeOK' /\ DepthMatchesFrames'
    BY <1>0, <1>5, ResumeType DEF Continue
  <2>4. QED
    BY <1>0, <1>5, <2>2, <2>3
    DEF Continue, IInv, TypeOK, OneThingAtATime, AnswerIsOfTheNode, Nothing
<1>6. CASE ContinuationThrows
  <2>1. asked = Nothing
    BY <1>6 DEF ContinuationThrows, FunctionThrows, IInv, OneThingAtATime
  <2>2. ResumptionTypeOK' /\ DepthMatchesFrames'
    BY <1>0, <1>6, LeaveType DEF ContinuationThrows
  <2>3. QED
    BY <1>0, <1>6, <2>1, <2>2
    DEF ContinuationThrows, IInv, TypeOK, OneThingAtATime, AnswerIsOfTheNode, Nothing
<1>7. CASE Rebind
  <2>1. asked = Nothing
    BY <1>7 DEF Rebind, Resumed, IInv, OneThingAtATime
  <2>2. ResumptionTypeOK' /\ DepthMatchesFrames' /\ current' \in Program
    BY <1>0, <1>7, LeaveType DEF Rebind, ResumptionTypeOK
  <2>3. QED
    BY <1>0, <1>7, <2>1, <2>2 DEF Rebind, IInv, TypeOK, OneThingAtATime, AnswerIsOfTheNode, Nothing
<1>8. CASE Return
  <2>1. asked = Nothing
    BY <1>8 DEF Return, IInv, OneThingAtATime, MovedFrom
  <2>2. QED
    BY <1>0, <1>8, <2>1
    DEF Return, IInv, TypeOK, ResumptionTypeOK, DepthMatchesFrames, OneThingAtATime,
        AnswerIsOfTheNode, Nothing
<1>9. CASE UNCHANGED vars
  BY <1>0, <1>9
  DEF vars, IInv, TypeOK, ResumptionTypeOK, DepthMatchesFrames, OneThingAtATime,
      AnswerIsOfTheNode
<1>10. QED
  BY <1>1, <1>2, <1>3, <1>4, <1>5, <1>6, <1>7, <1>8, <1>9 DEF Next

THEOREM Invariant == Spec => []IInv
  BY InitInvariant, NextInvariant, PTL DEF Spec

(* Every state of a pairing is well typed, its question included. *)
THEOREM TypeCorrect == Spec => []TypeOK
<1>1. IInv => TypeOK
  BY DEF IInv
<1>2. QED
  BY <1>1, Invariant, PTL

-----------------------------------------------------------------------------
(* The trace *)

OpsOf(l) == [i \in 1 .. Len(l) |-> l[i].op]

LEMMA OpsType ==
  ASSUME NEW l \in Seq(LogEntry)
  PROVE  OpsOf(l) \in Seq(Op) /\ Len(OpsOf(l)) = Len(l)
<1>1. Len(l) \in Nat /\ \A i \in 1 .. Len(l) : l[i].op \in Op
  <2>1. Len(l) \in Nat /\ \A i \in 1 .. Len(l) : l[i] \in LogEntry
    OBVIOUS
  <2>2. \A e \in LogEntry : e.op \in Op
    BY DEF LogEntry
  <2>3. QED
    BY <2>1, <2>2
<1>2. OpsOf(l) \in [1 .. Len(l) -> Op]
  BY <1>1 DEF OpsOf
<1>3. OpsOf(l) \in Seq(Op)
  BY <1>1, <1>2, SeqDef
<1>4. DOMAIN OpsOf(l) = 1 .. Len(l)
  BY <1>2
<1>5. QED
  BY <1>1, <1>3, <1>4, LenProperties

LEMMA OpsOfOneMore ==
  ASSUME NEW l \in Seq(LogEntry), NEW e \in LogEntry
  PROVE  OpsOf(Append(l, e)) = OpsOf(l) \o <<e.op>>
<1>1. OpsOf(l) \in Seq(Op) /\ Len(OpsOf(l)) = Len(l)
  BY OpsType
<1>2. e.op \in Op
  BY DEF LogEntry
<1>3. Append(l, e) \in Seq(LogEntry) /\ Len(Append(l, e)) = Len(l) + 1
  OBVIOUS
<1>4. OpsOf(Append(l, e)) \in Seq(Op) /\ Len(OpsOf(Append(l, e))) = Len(l) + 1
  BY <1>3, OpsType
<1>5. OpsOf(l) \o <<e.op>> \in Seq(Op) /\ Len(OpsOf(l) \o <<e.op>>) = Len(l) + 1
  BY <1>1, <1>2
<1>6. ASSUME NEW i \in 1 .. (Len(l) + 1)
      PROVE  OpsOf(Append(l, e))[i] = (OpsOf(l) \o <<e.op>>)[i]
  <2>1. OpsOf(Append(l, e))[i] = Append(l, e)[i].op
    BY <1>3 DEF OpsOf
  <2>2. CASE i \in 1 .. Len(l)
    <3>1. Append(l, e)[i] = l[i] /\ OpsOf(l)[i] = l[i].op
      BY <2>2 DEF OpsOf
    <3>2. (OpsOf(l) \o <<e.op>>)[i] = OpsOf(l)[i]
      BY <1>1, <1>2, <2>2
    <3>3. QED
      BY <2>1, <3>1, <3>2
  <2>3. CASE i = Len(l) + 1
    <3>1. Append(l, e)[i] = e
      BY <2>3
    <3>2. (OpsOf(l) \o <<e.op>>)[i] = e.op
      BY <1>1, <1>2, <2>3
    <3>3. QED
      BY <2>1, <3>1, <3>2
  <2>4. i \in 1 .. Len(l) \/ i = Len(l) + 1
    BY <1>3
  <2>5. QED
    BY <2>2, <2>3, <2>4
<1>7. QED
  BY <1>4, <1>5, <1>6, SeqEqual

Pending == IF asked = Nothing THEN <<>> ELSE <<asked.op>>

LEMMA TraceReads == TraceIsWhatWasAsked <=> trace = OpsOf(log) \o Pending
  BY DEF TraceIsWhatWasAsked, OpsOf, Pending

LEMMA InitTrace == Init => TraceIsWhatWasAsked
  BY DEF Init, TraceIsWhatWasAsked

(* A question is answered, or not: either way its line is the log's last. *)
LEMMA AnsweredTrace ==
  ASSUME IInv, TraceIsWhatWasAsked, asked # Nothing, NEW r \in Val \cup {Refused},
         log' = Append(log, [op |-> asked.op, ans |-> r]),
         asked' = Nothing, trace' = trace
  PROVE  TraceIsWhatWasAsked'
<1> DEFINE e == [op |-> asked.op, ans |-> r]
<1>1. e \in LogEntry /\ log \in Seq(LogEntry) /\ e.op = asked.op
  BY Stages DEF IInv, TypeOK, LogEntry
<1>2. trace = OpsOf(log) \o <<asked.op>>
  BY TraceReads DEF Pending
<1>3. OpsOf(log') = OpsOf(log) \o <<asked.op>> /\ OpsOf(log') \in Seq(Op)
  <2>1. Append(log, e) \in Seq(LogEntry)
    BY <1>1
  <2> HIDE DEF e
  <2>2. OpsOf(Append(log, e)) = OpsOf(log) \o <<asked.op>> /\ OpsOf(Append(log, e)) \in Seq(Op)
    BY <1>1, <2>1, OpsOfOneMore, OpsType
  <2>3. QED
    BY <2>2 DEF e
<1>4. Pending' = <<>>
  BY DEF Pending
<1>5. trace' = OpsOf(log') \o Pending'
  BY <1>2, <1>3, <1>4
<1>6. QED
  BY <1>5 DEF TraceIsWhatWasAsked, OpsOf, Pending

LEMMA NextTrace == IInv /\ TraceIsWhatWasAsked /\ [Next]_vars => TraceIsWhatWasAsked'
<1> SUFFICES ASSUME IInv, TraceIsWhatWasAsked, [Next]_vars PROVE TraceIsWhatWasAsked'
  OBVIOUS
<1>0. TypeOK
  BY DEF IInv
<1>1. CASE Ask
  <2>1. current.op \in Op /\ current.k \in Seq(Fn) /\ OpsOf(log) \in Seq(Op)
    BY <1>0, <1>1, RollInHand, OpsType DEF Ask, TypeOK
  <2>2. trace = OpsOf(log)
    BY <1>1, <2>1, TraceReads DEF Ask, Pending
  <2>3. asked' # Nothing /\ asked'.op = current.op
    BY <1>1 DEF Ask, Asking, Nothing
  <2>4. trace' = OpsOf(log) \o <<current.op>>
    BY <1>1, <2>1, <2>2 DEF Ask
  <2>5. QED
    BY <1>1, <2>3, <2>4 DEF Ask, TraceIsWhatWasAsked, OpsOf
<1>2. CASE Respond
  <2>1. asked # Nothing /\ asked' # Nothing /\ asked'.op = asked.op
    BY <1>2 DEF Respond, Unfolding, Nothing
  <2>2. QED
    BY <1>2, <2>1 DEF Respond, TraceIsWhatWasAsked
<1>3. CASE Unfold
  <2>1. asked # Nothing /\ asked.response \in Val
    BY <1>0, <1>3, Stages DEF Unfold, Nothing
  <2>2. QED
    BY <1>3, <2>1, AnsweredTrace DEF Unfold
<1>4. CASE MockThrows
  <2>1. asked # Nothing
    BY <1>4 DEF MockThrows, Nothing
  <2>2. QED
    BY <1>4, <2>1, AnsweredTrace DEF MockThrows
<1>5. CASE UNCHANGED <<trace, log, asked>>
  BY <1>5 DEF TraceIsWhatWasAsked
<1>6. QED
  BY <1>1, <1>2, <1>3, <1>4, <1>5
  DEF Next, Continue, ContinuationThrows, Rebind, Return, vars

(***************************************************************************)
(* The trace of a pairing has one line per request, in the order of the    *)
(* requests, whether or not the mock answers them: what run_trace's trace  *)
(* has, for every program and mock.                                        *)
(***************************************************************************)
THEOREM TraceIsTheRequests == Spec => []TraceIsWhatWasAsked
<1>1. Spec => [](IInv /\ TraceIsWhatWasAsked)
  BY InitInvariant, InitTrace, NextInvariant, NextTrace, PTL DEF Spec
<1>2. QED
  BY <1>1, PTL

-----------------------------------------------------------------------------
(* Refinement *)

(* DirectStyle reads programs with the same operators. *)
LEMMA SameReading ==
  /\ Direct!Gone = Gone
  /\ \A v : Direct!Value(v) = Value(v)
  /\ \A p : Direct!FocusOf(p) = FocusOf(p)
  /\ \A p, tail : Direct!RestOf(p, tail) = RestOf(p, tail)
  BY DEF Direct!Gone, Gone, Direct!Value, Value, Direct!FocusOf, FocusOf,
         Direct!RestOf, RestOf, Direct!IsPure, IsPure, Direct!Request, Request

(* While a question is under way the program stands at it. *)
LEMMA StandsAtItsQuestion ==
  ASSUME IInv, asked # Nothing
  PROVE  /\ focusMap = Request(asked.op) /\ restMap = asked.k
         /\ asked.op \in Op /\ outcome = "running"
<1>1. asked.op \in Op /\ asked.k \in Seq(Fn)
  BY Stages DEF IInv
<1>2. outcome = "running" /\ frames = <<>>
  BY DEF IInv, OneThingAtATime, DepthMatchesFrames
<1>3. asked.k \o frames = asked.k
  BY <1>1, <1>2
<1>4. QED
  BY <1>1, <1>2, <1>3 DEF focusMap, restMap, InHand, FocusOf, RestOf, Roll, IsPure

(* The first node's seed is the handler's first state. *)
LEMMA InitRefines == Init => Direct!Init
<1> SUFFICES ASSUME Init PROVE Direct!Init
  OBVIOUS
<1>1. mock.seed \in InitHandler
  BY DEF Init, Node
<1>2. focusMap = FocusOf(current) /\ restMap = RestOf(current, <<>>)
  BY DEF Init, focusMap, restMap, InHand
<1>3. QED
  BY <1>1, <1>2, SameReading DEF Init, Direct!Init

LEMMA NextRefines == IInv /\ [Next]_vars => [Direct!Next]_(Direct!dvars)
<1> SUFFICES ASSUME IInv, [Next]_vars PROVE [Direct!Next]_(Direct!dvars)
  OBVIOUS
<1>0. TypeOK /\ ResumptionTypeOK /\ DepthMatchesFrames
  BY DEF IInv, TypeOK
(* Asking, and the responder's answer, leave the program at its request. *)
<1>1. CASE Ask
  <2>1. /\ current \in RollProgram /\ current.op \in Op /\ current.k \in Seq(Fn)
        /\ frames = <<>>
    BY <1>0, <1>1, RollInHand DEF Ask, DepthMatchesFrames
  <2>2. focusMap = Request(current.op) /\ restMap = current.k
    BY <1>1, <2>1 DEF Ask, focusMap, restMap, InHand, FocusOf, RestOf, IsPure
  <2>3. asked' # Nothing /\ asked'.op = current.op /\ asked'.k = current.k
    BY <1>1 DEF Ask, Asking, Nothing
  <2>4. focusMap' = Request(current.op) /\ restMap' = current.k
    BY <1>1, <2>1, <2>3 DEF Ask, focusMap, restMap, InHand, FocusOf, RestOf, Roll, IsPure
  <2>5. QED
    BY <1>1, <2>2, <2>4 DEF Ask, Direct!dvars
<1>2. CASE Respond
  <2>1. asked # Nothing /\ asked' # Nothing /\ asked'.op = asked.op /\ asked'.k = asked.k
    BY <1>2 DEF Respond, Unfolding, Nothing
  <2>2. InHand' = InHand
    BY <2>1 DEF InHand
  <2>3. QED
    BY <1>2, <2>2 DEF Respond, focusMap, restMap, Direct!dvars
(* The next node is there: the request has its answer, the mock its next seed. *)
<1>3. CASE Unfold
  <2>1. asked # Nothing /\ asked' = Nothing
    BY <1>3 DEF Unfold, Nothing
  <2>2. /\ focusMap = Request(asked.op) /\ restMap = asked.k /\ outcome = "running"
        /\ asked.seed \in HandlerState /\ asked.response \in Val
    BY <1>0, <1>3, <2>1, StandsAtItsQuestion, Stages DEF Unfold
  <2>3. Len(log) < MaxEffects /\ <<asked.seed, asked.response>> \in Handler[mock.seed][asked.op]
    BY <1>3 DEF Unfold, IInv, AnswerIsOfTheNode
  <2>4. focusMap' = Value(asked.response) /\ restMap' = asked.k
    BY <1>3, <2>1, <2>2
    DEF Unfold, InvokeContinuation, focusMap, restMap, InHand, FocusOf, RestOf, IsPure, Pure
  <2>5. mock'.seed = asked.seed
    BY <1>3 DEF Unfold, Node
  <2>6. focusMap' = Direct!Value(asked.response) /\ restMap' = restMap
    BY <2>2, <2>4, SameReading
  <2>7. focusMap.at = "request" /\ focusMap.op = asked.op
    BY <2>2 DEF Request
  <2>8. Direct!Perform
    BY <1>3, <2>2, <2>3, <2>5, <2>6, <2>7 DEF Unfold, Direct!Perform
  <2>9. QED
    BY <2>8 DEF Direct!Next
(* The operation may fail: it is refused, or its next seed does not unfold. *)
<1>4. CASE MockThrows
  <2>1. asked # Nothing
    BY <1>4 DEF MockThrows, Nothing
  <2>2. focusMap = Request(asked.op) /\ outcome = "running" /\ asked.op \in Op
    BY <2>1, StandsAtItsQuestion
  <2>3. asked.op \in MayFail \/ Len(log) >= MaxEffects
    <3>1. CASE asked.stage = "responder"
      BY <1>4, <3>1 DEF MockThrows, MayFail
    <3>2. CASE asked.stage = "unfold"
      <4>1. asked.seed \in ThrowingSeeds /\ mock.seed \in HandlerState
        BY <1>0, <1>4, <3>2 DEF MockThrows, TypeOK
      <4>2. <<asked.seed, asked.response>> \in Handler[mock.seed][asked.op]
        BY <3>2 DEF IInv, AnswerIsOfTheNode
      <4>3. <<asked.seed, asked.response>>[1] = asked.seed
        OBVIOUS
      <4>4. QED
        BY <2>2, <4>1, <4>2, <4>3 DEF MayFail
    <3>3. QED
      BY <1>4, <3>1, <3>2 DEF MockThrows
  <2>4. focusMap' = Direct!Gone /\ restMap' = <<>>
    BY <1>4, SameReading DEF MockThrows, focusMap, restMap
  <2>5. focusMap.at = "request" /\ focusMap.op = asked.op
    BY <2>2 DEF Request
  <2>6. Direct!Refuse
    BY <1>4, <2>2, <2>3, <2>4, <2>5 DEF MockThrows, Direct!Refuse, Direct!MayLeave
  <2>7. QED
    BY <2>6 DEF Direct!Next
(* Of the steps of a continuation only entering a function is visible. *)
<1>5. CASE Continue
  <2>0. asked = Nothing /\ asked' = Nothing /\ outcome = "running"
    BY <1>5
    DEF Continue, Resume, Inwards, Innermost, EnterFunction, BindToSuspended, IInv, OneThingAtATime
  <2>1. CASE Inwards \/ Innermost
    BY <1>5, <2>0, <2>1 DEF Continue, Inwards, Innermost, Direct!dvars, focusMap, restMap, InHand
  <2>2. CASE EnterFunction
    <3>1. call = "outwards" /\ box \in PureProgram
      BY <1>0, <2>2 DEF EnterFunction, IsPure, ResumptionTypeOK, Program, RollProgram
    <3>2. focusMap = Value(box.val) /\ restMap = frames
      BY <2>0, <3>1 DEF focusMap, restMap, InHand, FocusOf, RestOf, IsPure, PureProgram
    <3>3. focusMap' = FocusOf(box') /\ restMap' = RestOf(box', frames')
      BY <1>5, <2>0, <2>2 DEF Continue, EnterFunction, focusMap, restMap, InHand
    <3>4. Direct!Continue
      BY SameReading, <1>5, <2>0, <2>2, <3>2, <3>3 DEF Continue, EnterFunction, Direct!Continue, Value
    <3>5. QED
      BY <3>4 DEF Direct!Next
  <2>3. CASE BindToSuspended
    <3>1. box \in RollProgram
      BY <1>0, <2>3 DEF BindToSuspended, IsPure, ResumptionTypeOK, Program, PureProgram
    <3>2. FocusOf(box') = FocusOf(box) /\ RestOf(box', frames') = RestOf(box, frames)
      BY <1>0, <2>3, <3>1, BindLaterStandsStill DEF BindToSuspended, ResumptionTypeOK
    <3>3. InHand = box /\ InHand' = box'
      BY <2>0, <2>3 DEF BindToSuspended, InHand
    <3>4. QED
      BY <1>5, <2>0, <3>2, <3>3 DEF Continue, focusMap, restMap, Direct!dvars
  <2>4. QED
    BY <1>5, <2>1, <2>2, <2>3 DEF Continue, Resume
<1>6. CASE ContinuationThrows
  <2>1. asked = Nothing /\ outcome = "running" /\ call = "outwards" /\ box \in PureProgram
    BY <1>0, <1>6
    DEF ContinuationThrows, FunctionThrows, IInv, OneThingAtATime, IsPure, ResumptionTypeOK,
        Program, RollProgram
  <2>2. focusMap = Value(box.val) /\ restMap = frames
    BY <2>1 DEF focusMap, restMap, InHand, FocusOf, RestOf, IsPure, PureProgram
  <2>3. Direct!Break
    BY SameReading, <1>6, <2>1, <2>2
    DEF ContinuationThrows, FunctionThrows, Direct!Break, Value, focusMap, restMap
  <2>4. QED
    BY <2>3 DEF Direct!Next
<1>7. CASE Rebind
  <2>1. asked = Nothing /\ asked' = Nothing
    BY <1>7 DEF Rebind, Resumed, IInv, OneThingAtATime
  <2>2. QED
    BY <1>7, <2>1
    DEF Rebind, Resumed, LeaveContinuation, Direct!dvars, focusMap, restMap, InHand
<1>8. CASE Return
  <2>1. current \in PureProgram /\ frames = <<>> /\ asked = Nothing /\ asked' = Nothing
    BY <1>0, <1>8
    DEF Return, TypeOK, Program, RollProgram, MovedFrom, DepthMatchesFrames, IInv, OneThingAtATime
  <2>2. focusMap = Value(current.val) /\ restMap = <<>>
    BY <1>8, <2>1 DEF Return, focusMap, restMap, InHand, FocusOf, RestOf, IsPure, PureProgram
  <2>3. focusMap' = focusMap /\ restMap' = restMap
    BY <1>8, <2>1 DEF Return, focusMap, restMap, InHand
  <2>4. Direct!Finish
    BY <1>8, <2>2, <2>3 DEF Return, Direct!Finish, Value
  <2>5. QED
    BY <2>4 DEF Direct!Next
<1>9. CASE UNCHANGED vars
  BY <1>9 DEF vars, Direct!dvars, focusMap, restMap, InHand
<1>10. QED
  BY <1>1, <1>2, <1>3, <1>4, <1>5, <1>6, <1>7, <1>8, <1>9 DEF Next

(***************************************************************************)
(* Pairing a program with a mock is interpreting it: the mock's seeds are  *)
(* the states of a handler, and the program performs what direct style     *)
(* performs with it, in the same order, with the same answers and the same *)
(* end, a mock that fails in either of its two steps being a refusal.      *)
(***************************************************************************)
THEOREM PairingImplementsDirectStyle == Spec => Direct!Spec
  BY Invariant, InitRefines, NextRefines, PTL DEF Spec, Direct!Spec

=============================================================================
