------------------------------ MODULE Recursion -----------------------------
(***************************************************************************)
(* The recursion all schemes of src/smd/fixpoint share.  A scheme asks its *)
(* coalgebra for one layer, lets layer_fmap call the scheme on each child  *)
(* of the layer, front to back, and hands the layer of results to its      *)
(* algebra; or the coalgebra answers at once and nothing is expanded.      *)
(* fold_fix is the case whose coalgebra is unwrap_fix, unfold_fix the one  *)
(* whose algebra is wrap_fix.                                              *)
(*                                                                         *)
(* The C++ call stack is a variable: each activation holds its seed, its   *)
(* layer, and the results its children have delivered so far.  Schemes     *)
(* says what the coalgebra, the algebra and the last projection of each    *)
(* scheme are; the algebra and the coalgebra of the caller are functions   *)
(* that return.                                                            *)
(***************************************************************************)
EXTENDS Naturals, Sequences

CONSTANTS
  Jobs,               \* calls of schemes: the scheme and its arguments
  SeedOf(_),          \* the seed a job starts from
  Coalgebra(_, _),    \* job, seed: a Left answer or a Right layer of seeds
  Algebra(_, _, _),   \* job, seed, layer of results: the result
  Finish(_, _),       \* job, last result: what the caller receives
  OwedAnswer(_),      \* job: the answer it is to have, by its scheme's equation
  OwedSteps(_)        \* job: the walk it is to make

VARIABLES
  job,      \* the call being computed
  stack,    \* its activations, outermost first
  answer,   \* <<>>, or <<v>> when the call returned v
  walk      \* the layers entered and left so far, and the answers on the way

vars == <<job, stack, answer, walk>>

Activation(s, layer, done) == [seed |-> s, layer |-> layer, done |-> done]

Init ==
  /\ job \in Jobs
  /\ stack = <<>>
  /\ answer = <<>>
  /\ walk = <<>>

Top == stack[Len(stack)]

(* The child layer_fmap is at in an activation. *)
ChildOf(a) == a.layer.kids[Len(a.done) + 1]
Complete(a) == Len(a.done) = Len(a.layer.kids)

(* The layer of results: the layer with each child's result in its place. *)
Filled(layer, results) == [layer EXCEPT !.kids = results]

(* The seed the scheme is called with next. *)
Called == IF stack = <<>> THEN SeedOf(job) ELSE ChildOf(Top)
IsCalled == IF stack = <<>> THEN answer = <<>> ELSE ~Complete(Top)

(* The layer_fmap of an activation receives the result of the child it is at. *)
Receive(a, v) == Activation(a.seed, a.layer, Append(a.done, v))

(* An activation returns v: to its parent's layer_fmap, or to the caller. *)
ReturnTo(callers, v) ==
  IF callers = <<>>
  THEN /\ answer' = <<Finish(job, v)>>
       /\ stack' = callers
  ELSE /\ stack' = [callers EXCEPT ![Len(callers)] = Receive(@, v)]
       /\ UNCHANGED answer

(* The scheme is called and its coalgebra gives a layer. *)
Expand ==
  /\ IsCalled
  /\ LET step == Coalgebra(job, Called) IN
       /\ step.side = "Right"
       /\ stack' = Append(stack, Activation(Called, step.right, <<>>))
       /\ walk' = Append(walk, [way |-> "in", label |-> step.right.label])
  /\ UNCHANGED <<job, answer>>

(* Mutant: a call whose very first seed is answered would not be handled. *)
StopBelow ==
  /\ IsCalled
  /\ stack # <<>>
  /\ LET step == Coalgebra(job, Called) IN
       /\ step.side = "Left"
       /\ ReturnTo(stack, step.left)
       /\ walk' = Append(walk, [way |-> "stop", value |-> step.left])
  /\ UNCHANGED job

(* The scheme is called and its coalgebra answers itself. *)
Stop ==
  /\ IsCalled
  /\ LET step == Coalgebra(job, Called) IN
       /\ step.side = "Left"
       /\ ReturnTo(stack, step.left)
       /\ walk' = Append(walk, [way |-> "stop", value |-> step.left])
  /\ UNCHANGED job

(* Every child has answered: the algebra is called and its value returned. *)
Collapse ==
  /\ stack # <<>>
  /\ Complete(Top)
  /\ LET results == Filled(Top.layer, Top.done) IN
       ReturnTo(SubSeq(stack, 1, Len(stack) - 1), Algebra(job, Top.seed, results))
  /\ walk' = Append(walk, [way |-> "out", label |-> Top.layer.label])
  /\ UNCHANGED job

Next == Expand \/ Stop \/ Collapse

Spec == Init /\ [][Next]_vars

(* A call that can go on does. *)
FairSpec == Spec /\ WF_vars(Next)

-----------------------------------------------------------------------------
(***************************************************************************)
(* The value a scheme returns is the one its equation gives: the fused     *)
(* refolds answer as if they had built the tree, the tupled folds as if    *)
(* they recursed into each other, prepro and postpro as if a node at depth *)
(* k had been rewritten k times (prepro.hpp:68-75, chrono.hpp:6-16).       *)
(***************************************************************************)
AnswerMeetsEquation == answer # <<>> => answer[1] = OwedAnswer(job)

(***************************************************************************)
(* A call goes once over the structure it stands for, asking the coalgebra *)
(* on the way in and calling the algebra on the way out: no seed is asked  *)
(* twice, none below one that stopped is asked at all (elgot.hpp:17-29),   *)
(* and a fused scheme makes no second pass.                                *)
(***************************************************************************)
WalksOnce == answer # <<>> => walk = OwedSteps(job)

(* Every call returns. *)
Returns == <>(answer # <<>>)

=============================================================================
