-------------------------- MODULE ResumptionProofs --------------------------
(***************************************************************************)
(* What the interpreters' proofs share: lemmas about binding, about where  *)
(* a program stands, and about the steps of a continuation call.           *)
(***************************************************************************)
EXTENDS Resumption, FiniteSets, SequenceTheorems, FiniteSetTheorems, TLAPS

-----------------------------------------------------------------------------
(* What binding and standing at a program give. *)

LEMMA BindLaterType ==
  ASSUME NEW p \in RollProgram, NEW fn \in Fn
  PROVE  BindLater(p, fn) \in RollProgram
  BY DEF BindLater, Roll, RollProgram

(***************************************************************************)
(* Adding a function to a suspended program's continuation, or leaving it  *)
(* first among those that wait, is the same place to stand.  This is the   *)
(* one fact that makes the stored continuations associate as direct style  *)
(* does.                                                                   *)
(***************************************************************************)
LEMMA BindLaterStandsStill ==
  ASSUME NEW p \in RollProgram, NEW tail \in Seq(Fn), tail # <<>>
  PROVE  LET q == BindLater(p, Head(tail)) IN
           /\ FocusOf(q) = FocusOf(p)
           /\ RestOf(q, Tail(tail)) = RestOf(p, tail)
<1>1. p.tag = "Roll" /\ p.k \in Seq(Fn)
  BY DEF RollProgram
<1>2. Append(p.k, Head(tail)) \o Tail(tail) = p.k \o tail
  BY <1>1
<1>3. QED
  BY <1>1, <1>2 DEF BindLater, Roll, FocusOf, RestOf, IsPure, Request

LEMMA CodeType ==
  ASSUME NEW c \in Code, NEW fn \in Fn, NEW v \in Val
  PROVE  c[fn][v] \in Program
  BY DEF Code

-----------------------------------------------------------------------------
(* A continuation is called with a response. *)
LEMMA InvokeType ==
  ASSUME code \in Code, UNCHANGED code, NEW k \in Seq(Fn), NEW r \in Val,
         InvokeContinuation(k, r)
  PROVE  ResumptionTypeOK' /\ DepthMatchesFrames'
<1>1. box' \in PureProgram /\ IsPure(box)'
  BY DEF InvokeContinuation, Pure, PureProgram, IsPure
<1>2. QED
  BY <1>1 DEF InvokeContinuation, ResumptionTypeOK, DepthMatchesFrames, Program

(* The steps of a continuation call keep its own variables well typed. *)
LEMMA ResumeType ==
  ASSUME ResumptionTypeOK, DepthMatchesFrames, Resume, UNCHANGED code
  PROVE  ResumptionTypeOK' /\ DepthMatchesFrames'
<1> USE DEF ResumptionTypeOK, DepthMatchesFrames
<1>1. CASE Inwards
  BY <1>1 DEF Inwards
<1>2. CASE Innermost
  BY <1>2 DEF Innermost
<1>3. CASE EnterFunction
  <2>1. box \in PureProgram /\ Head(frames) \in Fn /\ Tail(frames) \in Seq(Fn)
    BY <1>3 DEF EnterFunction, IsPure, Program, PureProgram, RollProgram
  <2>2. box' \in Program
    BY <1>3, <2>1, CodeType DEF EnterFunction, PureProgram
  <2>3. QED
    BY <1>3, <2>1, <2>2 DEF EnterFunction
<1>4. CASE BindToSuspended
  <2>1. box \in RollProgram /\ Head(frames) \in Fn /\ Tail(frames) \in Seq(Fn)
    BY <1>4 DEF BindToSuspended, IsPure, Program, PureProgram, RollProgram
  <2>2. box' \in Program
    BY <1>4, <2>1, BindLaterType DEF BindToSuspended, Program
  <2>3. QED
    BY <1>4, <2>1, <2>2 DEF BindToSuspended
<1>5. QED
  BY <1>1, <1>2, <1>3, <1>4 DEF Resume

(* Leaving a continuation call, for whatever reason, keeps them so too. *)
LEMMA LeaveType ==
  ASSUME ResumptionTypeOK, LeaveContinuation, UNCHANGED code
  PROVE  ResumptionTypeOK' /\ DepthMatchesFrames'
  BY DEF ResumptionTypeOK, LeaveContinuation, DepthMatchesFrames

=============================================================================
