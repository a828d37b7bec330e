--------------------------- MODULE RecursionProofs --------------------------
(***************************************************************************)
(* The recursion of the schemes, whatever functor, coalgebra and algebra   *)
(* it is given: the answer solves the scheme's equation, which has one     *)
(* solution, and the walk is the one the coalgebra tells, step by step and *)
(* to its end.                                                             *)
(*                                                                         *)
(* From there, scheme by scheme, to what SchemeEquations says of it.  Its  *)
(* recursive operators are functions here that meet the same equations     *)
(* (IsCata, IsZygo, IsAna, ...).  A scheme that fuses meets the equation   *)
(* of a tree it never builds (FusedAnswer); for prepro and postpro that    *)
(* needs that rewriting a tree, and going one level further down in one    *)
(* that is rewritten at every level, are the same (RewrittenIsDeeper).     *)
(***************************************************************************)
EXTENDS Recursion, Schemes, SequenceTheorems, FiniteSetTheorems, WellFoundedInduction, TLAPS

(***************************************************************************)
(* What the C++ types of a scheme's arguments say: seeds, layers of seeds  *)
(* and results are values; a layer has finitely many children; the         *)
(* coalgebra answers with a result or with a layer of seeds, and the       *)
(* algebra makes a result of that layer when results have taken the place  *)
(* of all its seeds.                                                       *)
(***************************************************************************)
Typed(Calls, Seeds, Layers, Results) ==
  /\ \A l \in Layers : l.kids \in Seq(Seeds)
  /\ \A j \in Calls : SeedOf(j) \in Seeds
  /\ \A j \in Calls : \A s \in Seeds :
       LET step == Coalgebra(j, s) IN
         /\ step.side = "Left" => step.left \in Results
         /\ step.side = "Right" =>
              /\ step.right \in Layers
              /\ \A done \in Seq(Results) :
                   Len(done) = Len(step.right.kids) =>
                     Algebra(j, s, Filled(step.right, done)) \in Results

Activations(Seeds, Layers, Results) ==
  [seed : Seeds, layer : Layers, done : Seq(Results)]

(* An activation has the layer its seed was expanded to. *)
Expanded(j, a) ==
  /\ Coalgebra(j, a.seed).side = "Right"
  /\ a.layer = Coalgebra(j, a.seed).right

Shape(Calls, Seeds, Layers, Results) ==
  /\ job \in Calls
  /\ stack \in Seq(Activations(Seeds, Layers, Results))
  /\ \A i \in 1..Len(stack) : Expanded(job, stack[i])

(***************************************************************************)
(* Each activation was called with the child its caller's layer_fmap is    *)
(* at, so a result always lands at the child it was computed for; the      *)
(* outermost one was called with the job's seed; and the caller receives   *)
(* its answer only when no activation is left.                             *)
(***************************************************************************)
Linked ==
  /\ \A i \in 1..Len(stack) :
       /\ Len(stack[i].done) <= Len(stack[i].layer.kids)
       /\ i > 1 => /\ ~Complete(stack[i - 1])
                   /\ stack[i].seed = ChildOf(stack[i - 1])
       /\ i = 1 => stack[i].seed = SeedOf(job)
  /\ answer # <<>> => stack = <<>>

(* The called seed is one, and is the child the top activation is at. *)
LEMMA CalledIsSeed ==
  ASSUME NEW Calls, NEW Seeds, NEW Layers, NEW Results,
         Typed(Calls, Seeds, Layers, Results),
         Shape(Calls, Seeds, Layers, Results), Linked, IsCalled
  PROVE  Called \in Seeds
<1> DEFINE A == Activations(Seeds, Layers, Results)
<1>1. CASE stack = <<>>
  BY <1>1 DEF Called, Shape, Typed
<1>2. CASE stack # <<>>
  <2>1. Len(stack) \in 1..Len(stack) /\ Top \in A
    BY <1>2, EmptySeq, ElementOfSeq DEF Shape, Top
  <2>2. Len(Top.done) \in Nat /\ Len(Top.layer.kids) \in Nat
        /\ Top.layer.kids \in Seq(Seeds)
    BY <2>1, LenProperties DEF Activations, Typed
  <2>3. Len(Top.done) <= Len(Top.layer.kids) /\ ~Complete(Top)
    BY <1>2, <2>1 DEF Linked, Top, IsCalled
  <2>4. Len(Top.done) + 1 \in 1..Len(Top.layer.kids)
    BY <2>2, <2>3 DEF Complete
  <2> QED BY <1>2, <2>2, <2>4, ElementOfSeq DEF Called, ChildOf
<1> QED BY <1>1, <1>2

(* Returning v from above callers keeps their links. *)
LEMMA ReturnKeepsLinks ==
  ASSUME NEW Calls, NEW Seeds, NEW Layers, NEW Results,
         Typed(Calls, Seeds, Layers, Results),
         job \in Calls, job' = job,
         NEW callers \in Seq(Activations(Seeds, Layers, Results)),
         NEW v \in Results,
         \A i \in 1..Len(callers) : Expanded(job, callers[i]),
         \A i \in 1..Len(callers) :
           /\ Len(callers[i].done) <= Len(callers[i].layer.kids)
           /\ i > 1 => /\ ~Complete(callers[i - 1])
                       /\ callers[i].seed = ChildOf(callers[i - 1])
           /\ i = 1 => callers[i].seed = SeedOf(job),
         callers # <<>> => ~Complete(callers[Len(callers)]) /\ answer = <<>>,
         ReturnTo(callers, v)
  PROVE  Shape(Calls, Seeds, Layers, Results)' /\ Linked'
<1> DEFINE A == Activations(Seeds, Layers, Results)
<1>1. CASE callers = <<>>
  <2>1. stack' = <<>>
    BY <1>1 DEF ReturnTo
  <2> QED BY <2>1, EmptySeq DEF Shape, Linked
<1>2. CASE callers # <<>>
  <2> DEFINE n == Len(callers)
             top == callers[n]
             new == Receive(top, v)
  <2>1. n \in Nat /\ n \in 1..n /\ top \in A /\ callers \in [1..n -> A]
    BY <1>2, EmptySeq, ElementOfSeq, LenProperties
  <2>2. top.done \in Seq(Results) /\ Len(top.done) \in Nat
        /\ Len(top.layer.kids) \in Nat
    BY <2>1, LenProperties DEF Activations, Typed
  <2>3. stack' = [callers EXCEPT ![n] = new] /\ answer' = answer
    BY <1>2 DEF ReturnTo
  <2>4. new \in A /\ new.seed = top.seed /\ new.layer = top.layer
        /\ new.done = Append(top.done, v)
    BY <2>1, <2>2, AppendProperties DEF Activations, Receive, Activation
  <2>5. Len(new.done) = Len(top.done) + 1
    BY <2>2, <2>4, AppendProperties
  <2>6. stack' \in Seq(A) /\ Len(stack') = n
    BY <2>1, <2>3, <2>4, ExceptSeq
  <2>7. /\ stack'[n] = new
        /\ \A i \in 1..(n - 1) : stack'[i] = callers[i]
    <3> HIDE DEF n, new
    <3>1. DOMAIN callers = 1..n
      BY <2>1
    <3>2. \A i \in 1..(n - 1) : i \in 1..n /\ i # n
      BY <2>1
    <3> QED BY <2>1, <2>3, <3>1, <3>2
  <2>8. Len(new.done) <= Len(new.layer.kids)
    BY <1>2, <2>1, <2>2, <2>4, <2>5 DEF Complete
  <2>9. ASSUME NEW i \in 1..n
        PROVE  /\ Len(stack'[i].done) <= Len(stack'[i].layer.kids)
               /\ i > 1 => /\ ~Complete(stack'[i - 1])
                           /\ stack'[i].seed = ChildOf(stack'[i - 1])
               /\ i = 1 => stack'[i].seed = SeedOf(job)
    <3> HIDE DEF n, new
    <3>1. i > 1 => i - 1 \in 1..(n - 1) /\ stack'[i - 1] = callers[i - 1]
      BY <2>1, <2>7
    <3>2. CASE i = n
      BY <1>2, <2>1, <2>4, <2>7, <2>8, <3>1, <3>2 DEF n
    <3>3. CASE i # n
      <4>1. i \in 1..(n - 1)
        BY <2>1, <3>3
      <4>2. i \in 1..Len(callers) /\ stack'[i] = callers[i]
        BY <2>7, <4>1 DEF n
      <4>3. /\ Len(callers[i].done) <= Len(callers[i].layer.kids)
            /\ i > 1 => /\ ~Complete(callers[i - 1])
                        /\ callers[i].seed = ChildOf(callers[i - 1])
            /\ i = 1 => callers[i].seed = SeedOf(job)
        BY <4>2
      <4> QED BY <3>1, <4>2, <4>3
    <3> QED BY <3>2, <3>3
  <2>10. \A i \in 1..n : Expanded(job', stack'[i])
    <3> HIDE DEF n, new
    <3> SUFFICES ASSUME NEW i \in 1..n PROVE Expanded(job', stack'[i])
      OBVIOUS
    <3>1. Expanded(job, callers[i])
      BY DEF n
    <3>2. stack'[i].seed = callers[i].seed /\ stack'[i].layer = callers[i].layer
      <4>1. CASE i = n
        BY <2>1, <2>4, <2>7, <4>1 DEF n
      <4>2. CASE i # n
        BY <2>1, <2>7, <4>2
      <4> QED BY <4>1, <4>2
    <3> QED BY <3>1, <3>2 DEF Expanded
  <2>11. Shape(Calls, Seeds, Layers, Results)'
    BY <2>6, <2>10 DEF Shape
  <2> QED BY <1>2, <2>3, <2>6, <2>9, <2>11 DEF Linked, Complete, ChildOf
<1> QED BY <1>1, <1>2

(* The callers of the top activation. *)
LEMMA Callers ==
  ASSUME NEW A, stack \in Seq(A), Len(stack) \in 1..Len(stack)
  PROVE  LET below == SubSeq(stack, 1, Len(stack) - 1) IN
           /\ below \in Seq(A) /\ Len(below) = Len(stack) - 1
           /\ \A i \in 1..(Len(stack) - 1) : below[i] = stack[i]
<1> DEFINE n == Len(stack)
           below == SubSeq(stack, 1, n - 1)
<1>0. n \in Nat /\ n >= 1
  BY LenProperties
<1>1. n - 1 \in Int /\ 1..(n - 1) \subseteq 1..n /\ (n - 1) - 1 + 1 = n - 1
  BY <1>0
<1>2. \A i \in 1..(n - 1) : stack[i] \in A
  BY <1>0, <1>1, ElementOfSeq
<1>3. /\ below \in Seq(A)
      /\ Len(below) = IF 1 <= n - 1 THEN (n - 1) - 1 + 1 ELSE 0
      /\ \A i \in 1..((n - 1) - 1 + 1) : below[i] = stack[1 + i - 1]
  BY <1>1, <1>2, SubSeqProperties
<1> HIDE DEF below, n
<1>4. Len(below) = n - 1
  BY <1>0, <1>3
<1>5. ASSUME NEW i \in 1..(n - 1) PROVE below[i] = stack[i]
  <2>1. i \in 1..((n - 1) - 1 + 1) /\ 1 + i - 1 = i
    BY <1>0
  <2> QED BY <1>3, <2>1
<1> QED BY <1>3, <1>4, <1>5 DEF below, n

(* One element of a sequence is replaced. *)
LEMMA Replaced ==
  ASSUME NEW A, NEW s \in Seq(A), NEW n \in 1..Len(s), NEW e
  PROVE  LET t == [s EXCEPT ![n] = e] IN
           /\ Len(t) = Len(s)
           /\ \A i \in 1..Len(s) : t[i] = IF i = n THEN e ELSE s[i]
<1> DEFINE t == [s EXCEPT ![n] = e]
<1>1. Len(s) \in Nat /\ DOMAIN s = 1..Len(s) /\ s \in [1..Len(s) -> A]
  BY LenProperties
<1>2. t \in [1..Len(s) -> A \cup {e}]
  BY <1>1
<1>3. t \in Seq(A \cup {e}) /\ DOMAIN t = 1..Len(s)
  BY <1>1, <1>2, SeqDef
<1>4. Len(t) \in Nat /\ DOMAIN t = 1..Len(t)
  BY <1>3, LenProperties
<1>5. \A i \in 1..Len(s) : t[i] = IF i = n THEN e ELSE s[i]
  BY <1>1
<1> HIDE DEF t
<1>6. Len(t) = Len(s)
  BY <1>1, <1>3, <1>4
<1> QED BY <1>5, <1>6 DEF t

(* What the callers of a returning activation are at. *)
AwaitedBy(callers) ==
  IF callers = <<>> THEN SeedOf(job) ELSE ChildOf(callers[Len(callers)])

(* The top activation was called with what its callers are at. *)
LEMMA TopIsAwaited ==
  ASSUME NEW A, stack \in Seq(A), Len(stack) \in 1..Len(stack), Linked
  PROVE  stack[Len(stack)].seed = AwaitedBy(SubSeq(stack, 1, Len(stack) - 1))
<1> DEFINE n == Len(stack)
           below == SubSeq(stack, 1, n - 1)
<1>1. n \in Nat /\ n >= 1 /\ n \in 1..n
  BY LenProperties
<1>2. Len(below) = n - 1 /\ \A i \in 1..(n - 1) : below[i] = stack[i]
  BY Callers
<1>3. CASE n = 1
  BY <1>1, <1>2, <1>3, Callers, EmptySeq DEF Linked, AwaitedBy
<1>4. CASE n > 1
  <2>1. below # <<>> /\ below[Len(below)] = stack[n - 1]
    <3> HIDE DEF below, n
    <3>1. Len(below) # 0 /\ n - 1 \in 1..(n - 1)
      BY <1>1, <1>2, <1>4
    <3> QED BY <1>2, <3>1, EmptySeq
  <2> QED BY <1>1, <1>4, <2>1 DEF Linked, AwaitedBy
<1>5. n = 1 \/ n > 1
  <2> HIDE DEF n
  <2> QED BY <1>1
<1> QED BY <1>3, <1>4, <1>5

LEMMA InitLinked ==
  ASSUME NEW Calls, NEW Seeds, NEW Layers, NEW Results, Init, job \in Calls
  PROVE  Shape(Calls, Seeds, Layers, Results) /\ Linked
BY EmptySeq DEF Init, Shape, Linked

LEMMA StepLinked ==
  ASSUME NEW Calls, NEW Seeds, NEW Layers, NEW Results,
         Typed(Calls, Seeds, Layers, Results),
         Shape(Calls, Seeds, Layers, Results), Linked, [Next]_vars
  PROVE  Shape(Calls, Seeds, Layers, Results)' /\ Linked'
<1> DEFINE A == Activations(Seeds, Layers, Results)
           n == Len(stack)
<1>0. stack \in Seq(A) /\ n \in Nat /\ job \in Calls
  BY LenProperties DEF Shape
<1>1. CASE Expand
  <2> DEFINE step == Coalgebra(job, Called)
             new == Activation(Called, step.right, <<>>)
  <2>1. Called \in Seeds
    BY <1>1, CalledIsSeed DEF Expand
  <2>2. step.right \in Layers /\ stack' = Append(stack, new)
        /\ job' = job /\ answer' = answer
    BY <1>0, <1>1, <2>1 DEF Expand, Typed
  <2>3. new \in A /\ new.seed = Called /\ new.layer = step.right /\ new.done = <<>>
    BY <2>1, <2>2, EmptySeq DEF Activation, Activations
  <2>4. stack' \in Seq(A) /\ Len(stack') = n + 1 /\ stack'[n + 1] = new
        /\ \A i \in 1..n : stack'[i] = stack[i]
    BY <1>0, <2>2, <2>3, AppendProperties
  <2>5. Len(new.done) <= Len(new.layer.kids)
    BY <2>2, <2>3, EmptySeq, LenProperties DEF Typed
  <2>6. n >= 1 => stack # <<>> /\ ~Complete(stack[n]) /\ Called = ChildOf(stack[n])
    BY <1>0, <1>1, EmptySeq DEF Expand, IsCalled, Called, Top
  <2>7. n = 0 => Called = SeedOf(job)
    BY <1>0, EmptySeq DEF Called
  <2>8. answer = <<>>
    BY <1>1 DEF Expand, IsCalled, Linked
  <2>9. ASSUME NEW i \in 1..(n + 1)
        PROVE  /\ Len(stack'[i].done) <= Len(stack'[i].layer.kids)
               /\ i > 1 => /\ ~Complete(stack'[i - 1])
                           /\ stack'[i].seed = ChildOf(stack'[i - 1])
               /\ i = 1 => stack'[i].seed = SeedOf(job)
    <3>1. CASE i = n + 1
      BY <1>0, <2>3, <2>4, <2>5, <2>6, <2>7, <3>1
    <3>2. CASE i \in 1..n
      <4>1. stack'[i] = stack[i] /\ (i > 1 => stack'[i - 1] = stack[i - 1])
        BY <1>0, <2>4, <3>2
      <4>2. /\ Len(stack[i].done) <= Len(stack[i].layer.kids)
            /\ i > 1 => /\ ~Complete(stack[i - 1])
                        /\ stack[i].seed = ChildOf(stack[i - 1])
            /\ i = 1 => stack[i].seed = SeedOf(job)
        BY <3>2 DEF Linked
      <4> QED BY <4>1, <4>2
    <3> QED BY <1>0, <3>1, <3>2
  <2>10. \A i \in 1..(n + 1) : Expanded(job', stack'[i])
    <3>1. Expanded(job', new)
      BY <1>1, <2>2, <2>3 DEF Expand, Expanded
    <3>2. \A i \in 1..n : Expanded(job', stack[i])
      BY <2>2 DEF Shape, Expanded
    <3> HIDE DEF n, new, A
    <3> QED BY <1>0, <2>2, <2>4, <3>1, <3>2 DEF Expanded
  <2>11. Shape(Calls, Seeds, Layers, Results)'
    BY <1>0, <2>2, <2>4, <2>10 DEF Shape
  <2> QED BY <2>2, <2>4, <2>8, <2>9, <2>11 DEF Linked, Complete, ChildOf
<1>2. CASE Stop
  <2>1. Called \in Seeds
    BY <1>2, CalledIsSeed DEF Stop
  <2>2. Coalgebra(job, Called).left \in Results
        /\ ReturnTo(stack, Coalgebra(job, Called).left) /\ job' = job
    BY <1>0, <1>2, <2>1 DEF Stop, Typed
  <2>3. stack # <<>> => ~Complete(stack[Len(stack)]) /\ answer = <<>>
    BY <1>2 DEF Stop, IsCalled, Linked, Top
  <2>4. \A i \in 1..Len(stack) : Expanded(job, stack[i])
    BY DEF Shape
  <2> QED BY <1>0, <2>2, <2>3, <2>4, ReturnKeepsLinks DEF Linked
<1>3. CASE Collapse
  <2> DEFINE below == SubSeq(stack, 1, n - 1)
  <2>1. n \in 1..n /\ answer = <<>> /\ job' = job
    BY <1>0, <1>3, EmptySeq DEF Collapse, Linked
  <2>2. PICK v \in Results : ReturnTo(below, v)
    <3>1. Top \in A
      BY <1>0, <2>1, ElementOfSeq DEF Top
    <3>2. Top.seed \in Seeds /\ Top.layer \in Layers /\ Top.done \in Seq(Results)
      BY <3>1 DEF Activations
    <3>3. Expanded(job, Top) /\ Len(Top.done) = Len(Top.layer.kids)
      BY <1>3, <2>1 DEF Collapse, Complete, Shape, Top
    <3>4. Algebra(job, Top.seed, Filled(Top.layer, Top.done)) \in Results
      BY <1>0, <3>2, <3>3 DEF Typed, Expanded
    <3> QED BY <1>3, <3>4 DEF Collapse
  <2>3. below \in Seq(A) /\ Len(below) = n - 1
        /\ \A i \in 1..(n - 1) : below[i] = stack[i]
    BY <1>0, <2>1, Callers
  <2>4. \A i \in 1..Len(below) :
          /\ Len(below[i].done) <= Len(below[i].layer.kids)
          /\ i > 1 => /\ ~Complete(below[i - 1])
                      /\ below[i].seed = ChildOf(below[i - 1])
          /\ i = 1 => below[i].seed = SeedOf(job)
    BY <1>0, <2>1, <2>3 DEF Linked
  <2>5. below # <<>> => ~Complete(below[Len(below)])
    <3> SUFFICES ASSUME below # <<>> PROVE ~Complete(below[n - 1])
      BY <2>3
    <3>1. n - 1 \in 1..(n - 1)
      BY <1>0, <2>1, <2>3, EmptySeq
    <3> QED BY <1>0, <2>1, <2>3, <3>1 DEF Linked
  <2>6. \A i \in 1..Len(below) : Expanded(job, below[i])
    BY <1>0, <2>1, <2>3 DEF Shape
  <2> QED BY <1>0, <2>1, <2>2, <2>3, <2>4, <2>5, <2>6, ReturnKeepsLinks
<1>4. CASE UNCHANGED vars
  BY <1>4 DEF vars, Shape, Expanded, Linked, Complete, ChildOf
<1> QED BY <1>1, <1>2, <1>3, <1>4 DEF Next

-----------------------------------------------------------------------------
(***************************************************************************)
(* The value.  H solves the scheme's equation when its value at a seed is  *)
(* what the coalgebra answers there, or what the algebra makes of the      *)
(* layer with H's values in the place of the layer's seeds.  A coalgebra   *)
(* whose layers get smaller has exactly one such H.                        *)
(***************************************************************************)
Solves(H, Calls, Seeds, Results) ==
  /\ H \in [Calls -> [Seeds -> Results]]
  /\ \A j \in Calls : \A s \in Seeds :
       LET step == Coalgebra(j, s) IN
         /\ step.side = "Left" => H[j][s] = step.left
         /\ step.side = "Right" =>
              H[j][s] = Algebra(j, s, Filled(step.right,
                          [k \in 1..Len(step.right.kids) |-> H[j][step.right.kids[k]]]))

(* An activation has its seed's layer, and H's value of each child that answered. *)
HoldsValues(a, H) ==
  /\ Coalgebra(job, a.seed).side = "Right"
  /\ a.layer = Coalgebra(job, a.seed).right
  /\ \A k \in 1..Len(a.done) : a.done[k] = H[job][a.layer.kids[k]]

Delivered(H) ==
  /\ \A i \in 1..Len(stack) : HoldsValues(stack[i], H)
  /\ answer # <<>> => answer = <<Finish(job, H[job][SeedOf(job)])>>

(* Returning H's value of the seed awaited keeps every caller's values H's. *)
LEMMA ReturnDelivers ==
  ASSUME NEW Calls, NEW Seeds, NEW Layers, NEW Results,
         Typed(Calls, Seeds, Layers, Results),
         NEW H, job' = job, NEW callers \in Seq(Activations(Seeds, Layers, Results)),
         \A i \in 1..Len(callers) : HoldsValues(callers[i], H),
         callers # <<>> => answer = <<>>,
         ReturnTo(callers, H[job][AwaitedBy(callers)])
  PROVE  Delivered(H)'
<1> DEFINE A == Activations(Seeds, Layers, Results)
           v == H[job][AwaitedBy(callers)]
<1>1. CASE callers = <<>>
  <2>1. stack' = <<>> /\ answer' = <<Finish(job, H[job][SeedOf(job)])>>
    BY <1>1 DEF ReturnTo, AwaitedBy
  <2> QED BY <2>1, EmptySeq DEF Delivered
<1>2. CASE callers # <<>>
  <2> DEFINE n == Len(callers)
             top == callers[n]
             new == Receive(top, v)
  <2>1. n \in Nat /\ n \in 1..n /\ top \in A /\ DOMAIN callers = 1..n
    BY <1>2, EmptySeq, ElementOfSeq, LenProperties
  <2>2. stack' = [callers EXCEPT ![n] = new] /\ answer' = answer /\ answer = <<>>
    BY <1>2 DEF ReturnTo
  <2>3. top.done \in Seq(Results) /\ new.seed = top.seed /\ new.layer = top.layer
        /\ new.done = Append(top.done, v) /\ v = H[job][top.layer.kids[Len(top.done) + 1]]
    BY <1>2, <2>1 DEF Activations, Receive, Activation, AwaitedBy, ChildOf
  <2>4. HoldsValues(top, H)
    BY <2>1
  <2>5. HoldsValues(new, H)
    <3> HIDE DEF top, new, v
    <3>1. /\ Len(top.done) \in Nat /\ Len(new.done) = Len(top.done) + 1
          /\ new.done[Len(top.done) + 1] = v
          /\ \A k \in 1..Len(top.done) : new.done[k] = top.done[k]
      BY <2>3
    <3>2. ASSUME NEW k \in 1..Len(new.done) PROVE new.done[k] = H[job][new.layer.kids[k]]
      <4>1. k \in 1..Len(top.done) \/ k = Len(top.done) + 1
        BY <3>1
      <4> QED BY <2>3, <2>4, <3>1, <4>1 DEF HoldsValues
    <3> QED BY <2>3, <2>4, <3>2 DEF HoldsValues
  <2>6. Len(stack') = n /\ \A i \in 1..n : stack'[i] = IF i = n THEN new ELSE callers[i]
    BY <2>1, <2>2, Replaced
  <2>7. \A i \in 1..Len(stack') : HoldsValues(stack'[i], H)
    <3> HIDE DEF n, new
    <3>1. \A i \in 1..n : HoldsValues(callers[i], H)
      BY DEF n
    <3> QED BY <2>5, <2>6, <3>1
  <2> QED BY <2>2, <2>7 DEF Delivered, HoldsValues
<1> QED BY <1>1, <1>2

LEMMA StepDelivers ==
  ASSUME NEW Calls, NEW Seeds, NEW Layers, NEW Results,
         Typed(Calls, Seeds, Layers, Results),
         NEW H, Solves(H, Calls, Seeds, Results),
         Shape(Calls, Seeds, Layers, Results), Linked, Delivered(H), [Next]_vars
  PROVE  Delivered(H)'
<1> DEFINE A == Activations(Seeds, Layers, Results)
           n == Len(stack)
<1>0. stack \in Seq(A) /\ n \in Nat /\ job \in Calls
  BY LenProperties DEF Shape
<1>1. CASE Expand
  <2> DEFINE new == Activation(Called, Coalgebra(job, Called).right, <<>>)
  <2>1. stack' = Append(stack, new) /\ job' = job /\ answer' = answer
    BY <1>1 DEF Expand
  <2>2. HoldsValues(new, H)
    BY <1>1 DEF Expand, HoldsValues, Activation
  <2>3. Len(stack') = n + 1 /\ stack'[n + 1] = new /\ \A i \in 1..n : stack'[i] = stack[i]
    BY <1>0, <2>1
  <2>4. \A i \in 1..Len(stack') : HoldsValues(stack'[i], H)
    <3> HIDE DEF new
    <3>1. \A i \in 1..n : HoldsValues(stack[i], H)
      BY DEF Delivered
    <3>2. \A i \in 1..Len(stack') : i \in 1..n \/ i = n + 1
      BY <1>0, <2>3
    <3> QED BY <2>2, <2>3, <3>1, <3>2
  <2> QED BY <2>1, <2>4 DEF Delivered, HoldsValues
<1>2. CASE Stop
  <2>1. Called \in Seeds /\ Called = AwaitedBy(stack)
    BY <1>2, CalledIsSeed DEF Stop, Called, AwaitedBy, Top
  <2>2. H[job][AwaitedBy(stack)] = Coalgebra(job, Called).left
    BY <1>0, <1>2, <2>1 DEF Stop, Solves
  <2>3. ReturnTo(stack, H[job][AwaitedBy(stack)]) /\ job' = job
    BY <1>2, <2>2 DEF Stop
  <2>4. \A i \in 1..Len(stack) : HoldsValues(stack[i], H)
    BY DEF Delivered
  <2>5. stack # <<>> => answer = <<>>
    BY DEF Linked
  <2> QED BY <1>0, <2>3, <2>4, <2>5, ReturnDelivers
<1>3. CASE Collapse
  <2> DEFINE below == SubSeq(stack, 1, n - 1)
             results == [k \in 1..Len(Top.layer.kids) |-> H[job][Top.layer.kids[k]]]
  <2>1. n \in 1..n /\ answer = <<>> /\ job' = job /\ Top \in A /\ Top = stack[n]
    BY <1>0, <1>3, EmptySeq, ElementOfSeq DEF Collapse, Linked, Top
  <2>2. /\ Top.seed \in Seeds /\ Top.layer \in Layers /\ Top.done \in Seq(Results)
        /\ Top.layer.kids \in Seq(Seeds) /\ Len(Top.done) = Len(Top.layer.kids)
    BY <1>3, <2>1 DEF Activations, Typed, Collapse, Complete
  <2>3. HoldsValues(Top, H)
    BY <2>1 DEF Delivered
  <2>4. Top.done = results
    <3>1. DOMAIN Top.done = 1..Len(Top.layer.kids) /\ Top.done \in [1..Len(Top.layer.kids) -> Results]
      BY <2>2, LenProperties
    <3>2. \A k \in 1..Len(Top.layer.kids) : Top.done[k] = H[job][Top.layer.kids[k]]
      BY <2>2, <2>3 DEF HoldsValues
    <3> QED BY <3>1, <3>2
  <2>5. Algebra(job, Top.seed, Filled(Top.layer, Top.done)) = H[job][Top.seed]
    <3>1. Coalgebra(job, Top.seed).side = "Right" /\ Top.layer = Coalgebra(job, Top.seed).right
      BY <2>3 DEF HoldsValues
    <3>2. PICK s \in Seeds : s = Top.seed
      BY <2>2
    <3>3. PICK layer : layer = Top.layer
      OBVIOUS
    <3>4. Coalgebra(job, s).side = "Right" /\ layer = Coalgebra(job, s).right
      BY <3>1, <3>2, <3>3, Zenon
    <3>5. H[job][s] = Algebra(job, s, Filled(layer,
                        [k \in 1..Len(layer.kids) |-> H[job][layer.kids[k]]]))
      BY <1>0, <3>4 DEF Solves
    <3> HIDE DEF results
    <3>6. results = [k \in 1..Len(layer.kids) |-> H[job][layer.kids[k]]]
      BY <3>3 DEF results
    <3> QED BY <2>4, <3>2, <3>3, <3>5, <3>6, Zenon
  <2>6. below \in Seq(A) /\ Len(below) = n - 1 /\ \A i \in 1..(n - 1) : below[i] = stack[i]
    BY <1>0, <2>1, Callers
  <2>7. Top.seed = AwaitedBy(below)
    BY <1>0, <2>1, TopIsAwaited
  <2>8. ReturnTo(below, H[job][AwaitedBy(below)])
    BY <1>3, <2>5, <2>7 DEF Collapse
  <2>9. \A i \in 1..Len(below) : HoldsValues(below[i], H)
    <3>1. \A i \in 1..(n - 1) : i \in 1..n
      BY <1>0
    <3> QED BY <2>6, <3>1 DEF Delivered
  <2> HIDE DEF below
  <2> QED BY <2>1, <2>6, <2>8, <2>9, ReturnDelivers
<1>4. CASE UNCHANGED vars
  BY <1>4 DEF vars, Delivered, HoldsValues
<1> QED BY <1>1, <1>2, <1>3, <1>4 DEF Next

LEMMA InitDelivers ==
  ASSUME NEW H, Init
  PROVE  Delivered(H)
BY EmptySeq DEF Init, Delivered

(***************************************************************************)
(* What the caller receives solves the scheme's equation, whatever the     *)
(* functor, the coalgebra and the algebra: the loop over activations is    *)
(* the recursion it stands for, be it cata's, ana's or a fused refold's.   *)
(***************************************************************************)
THEOREM AnswerSolvesTheEquation ==
  ASSUME NEW Seeds, NEW Layers, NEW Results, Typed(Jobs, Seeds, Layers, Results),
         NEW H, Solves(H, Jobs, Seeds, Results)
  PROVE  Spec => [](answer # <<>> => answer = <<Finish(job, H[job][SeedOf(job)])>>)
<1> DEFINE IInv == Shape(Jobs, Seeds, Layers, Results) /\ Linked /\ Delivered(H)
<1>1. Init => IInv
  BY InitLinked, InitDelivers DEF Init
<1>2. IInv /\ [Next]_vars => IInv'
  BY StepLinked, StepDelivers
<1>3. IInv => (answer # <<>> => answer = <<Finish(job, H[job][SeedOf(job)])>>)
  BY DEF Delivered
<1> QED BY <1>1, <1>2, <1>3, PTL DEF Spec

-----------------------------------------------------------------------------
(***************************************************************************)
(* The walk.  Step is the set of what a walk is made of.  W[j][s] is the   *)
(* walk over what seed s stands for, and P[j][s][k] the part of it up to   *)
(* the return of child k: in, the children front to back, out.             *)
(***************************************************************************)
In(layer) == [way |-> "in", label |-> layer.label]
Out(layer) == [way |-> "out", label |-> layer.label]
StoppedWith(v) == [way |-> "stop", value |-> v]

WalksOver(W, P, Calls, Seeds, Steps) ==
  /\ W \in [Calls -> [Seeds -> Seq(Steps)]]
  /\ P \in [Calls -> [Seeds -> [Nat -> Seq(Steps)]]]
  /\ \A j \in Calls : \A s \in Seeds :
       LET step == Coalgebra(j, s) IN
         /\ step.side = "Left" =>
              StoppedWith(step.left) \in Steps /\ W[j][s] = <<StoppedWith(step.left)>>
         /\ step.side = "Right" =>
              /\ In(step.right) \in Steps /\ Out(step.right) \in Steps
              /\ P[j][s][0] = <<In(step.right)>>
              /\ \A k \in 1..Len(step.right.kids) :
                   P[j][s][k] = P[j][s][k - 1] \o W[j][step.right.kids[k]]
              /\ W[j][s] = P[j][s][Len(step.right.kids)] \o <<Out(step.right)>>

(* pre[i] is the walk up to the point the i-th of the activations has come to. *)
Partial(callers, pre, P, Steps) ==
  /\ pre \in [0..Len(callers) -> Seq(Steps)]
  /\ pre[0] = <<>>
  /\ \A i \in 1..Len(callers) :
       pre[i] = pre[i - 1] \o P[job][callers[i].seed][Len(callers[i].done)]

Walked(W, P, Steps) ==
  /\ \A i \in 1..Len(stack) :
       /\ Coalgebra(job, stack[i].seed).side = "Right"
       /\ stack[i].layer = Coalgebra(job, stack[i].seed).right
  /\ answer = <<>> => \E pre \in [0..Len(stack) -> Seq(Steps)] :
                        Partial(stack, pre, P, Steps) /\ walk = pre[Len(stack)]
  /\ answer # <<>> => walk = W[job][SeedOf(job)]

(* Walks can be put together in either order. *)
Joins(S) == \A u, v, w \in Seq(S) : (u \o v) \o w = u \o (v \o w)

LEMMA Joining == \A S : Joins(S)
<1> SUFFICES ASSUME NEW S, NEW u \in Seq(S), NEW v \in Seq(S), NEW w \in Seq(S)
             PROVE  (u \o v) \o w = u \o (v \o w)
  BY Zenon DEF Joins
<1> QED BY ConcatAssociative, SMTT(60)

(* What is known of the walks at one seed. *)
LEMMA WalksAt ==
  ASSUME NEW Calls, NEW Seeds, NEW Steps,
         NEW W, NEW P, WalksOver(W, P, Calls, Seeds, Steps),
         job \in Calls, NEW s \in Seeds
  PROVE  /\ W[job][s] \in Seq(Steps)
         /\ \A k \in Nat : P[job][s][k] \in Seq(Steps)
<1>1. W[job] \in [Seeds -> Seq(Steps)] /\ P[job] \in [Seeds -> [Nat -> Seq(Steps)]]
  BY DEF WalksOver
<1>2. W[job][s] \in Seq(Steps) /\ P[job][s] \in [Nat -> Seq(Steps)]
  BY <1>1
<1> QED BY <1>2

(* Returning adds the walk over the seed awaited to that of its callers. *)
LEMMA ReturnWalks ==
  ASSUME NEW Calls, NEW Seeds, NEW Layers, NEW Results,
         Typed(Calls, Seeds, Layers, Results),
         NEW Steps, NEW W, NEW P, WalksOver(W, P, Calls, Seeds, Steps),
         job \in Calls, job' = job, answer = <<>>,
         NEW callers \in Seq(Activations(Seeds, Layers, Results)),
         \A i \in 1..Len(callers) :
           /\ Coalgebra(job, callers[i].seed).side = "Right"
           /\ callers[i].layer = Coalgebra(job, callers[i].seed).right,
         callers # <<>> => /\ ~Complete(callers[Len(callers)])
                           /\ Len(callers[Len(callers)].done)
                                <= Len(callers[Len(callers)].layer.kids),
         NEW pre, Partial(callers, pre, P, Steps),
         AwaitedBy(callers) \in Seeds,
         walk' = pre[Len(callers)] \o W[job][AwaitedBy(callers)],
         NEW v, ReturnTo(callers, v)
  PROVE  Walked(W, P, Steps)'
<1> DEFINE A == Activations(Seeds, Layers, Results)
           w == W[job][AwaitedBy(callers)]
<1>0. w \in Seq(Steps)
  BY WalksAt
<1>1. CASE callers = <<>>
  <2>1. stack' = <<>> /\ answer' = <<Finish(job, v)>> /\ answer' # <<>>
    BY <1>1 DEF ReturnTo
  <2>2. walk' = w
    BY <1>0, <1>1, EmptySeq, ConcatEmptySeq DEF Partial
  <2>3. AwaitedBy(callers) = SeedOf(job)
    BY <1>1 DEF AwaitedBy
  <2> QED BY <2>1, <2>2, <2>3, EmptySeq DEF Walked
<1>2. CASE callers # <<>>
  <2> DEFINE n == Len(callers)
             top == callers[n]
             new == Receive(top, v)
             reached == Len(top.done)
  <2>1. n \in Nat /\ n \in 1..n /\ top \in A /\ DOMAIN callers = 1..n
    BY <1>2, EmptySeq, ElementOfSeq, LenProperties
  <2>2. stack' = [callers EXCEPT ![n] = new] /\ answer' = answer
    BY <1>2 DEF ReturnTo
  <2>3. top.done \in Seq(Results) /\ top.layer.kids \in Seq(Seeds) /\ top.seed \in Seeds
        /\ new.seed = top.seed /\ new.layer = top.layer /\ new.done = Append(top.done, v)
    BY <2>1 DEF Activations, Typed, Receive, Activation
  <2>4. reached \in Nat /\ Len(new.done) = reached + 1
    BY <2>3
  <2>5. reached + 1 \in 1..Len(top.layer.kids)
    BY <1>2, <2>3, <2>4, LenProperties DEF Complete
  <2>6. AwaitedBy(callers) = top.layer.kids[reached + 1]
    BY <1>2 DEF AwaitedBy, ChildOf
  <2>7. P[job][top.seed][reached + 1] = P[job][top.seed][reached] \o w
    <3>1. Coalgebra(job, top.seed).side = "Right" /\ top.layer = Coalgebra(job, top.seed).right
      BY <2>1
    <3> DEFINE at == top.seed
    <3>2. at \in Seeds /\ top.layer.kids = Coalgebra(job, at).right.kids
          /\ Coalgebra(job, at).side = "Right"
      BY <2>3, <3>1
    <3> HIDE DEF top, reached, new, at
    <3>3. \A i \in 1..Len(Coalgebra(job, at).right.kids) :
            P[job][at][i] = P[job][at][i - 1] \o W[job][Coalgebra(job, at).right.kids[i]]
      BY <3>2 DEF WalksOver
    <3>4. \A i \in 1..Len(top.layer.kids) :
            P[job][at][i] = P[job][at][i - 1] \o W[job][top.layer.kids[i]]
      BY <3>2, <3>3
    <3>5. P[job][at][reached + 1] = P[job][at][(reached + 1) - 1] \o w
      BY <2>5, <2>6, <3>4
    <3>6. (reached + 1) - 1 = reached
      BY <2>4
    <3> QED BY <3>5, <3>6 DEF at
  <2>8. pre[n] = pre[n - 1] \o P[job][top.seed][reached]
    BY <2>1 DEF Partial
  <2>9. pre[n - 1] \in Seq(Steps) /\ P[job][top.seed][reached] \in Seq(Steps)
    <3>1. n - 1 \in 0..n
      BY <2>1
    <3>2. \A k \in Nat : P[job][top.seed][k] \in Seq(Steps)
      BY <2>3, WalksAt
    <3> QED BY <2>4, <3>1, <3>2 DEF Partial
  <2>10. walk' = pre[n - 1] \o P[job][new.seed][Len(new.done)] /\ walk' \in Seq(Steps)
    <3> HIDE DEF n, w, reached, top
    <3>1. walk' = (pre[n - 1] \o P[job][top.seed][reached]) \o w
      BY <2>8 DEF n, w
    <3>2. Joins(Steps)
      BY Joining, Zenon
    <3>3. /\ walk' = pre[n - 1] \o (P[job][top.seed][reached] \o w)
          /\ walk' \in Seq(Steps)
      <4> DEFINE a == pre[n - 1]
                 b == P[job][top.seed][reached]
      <4>1. a \in Seq(Steps) /\ b \in Seq(Steps) /\ w \in Seq(Steps) /\ walk' = (a \o b) \o w
        BY <1>0, <2>9, <3>1
      <4> HIDE DEF a, b
      <4>2. walk' = a \o (b \o w)
        BY <3>2, <4>1, Zenon DEF Joins
      <4>3. a \o b \in Seq(Steps)
        BY <4>1, ConcatProperties
      <4>4. walk' \in Seq(Steps)
        BY <4>1, <4>3, ConcatProperties
      <4> QED BY <4>2, <4>4 DEF a, b
    <3>4. walk' = pre[n - 1] \o P[job][top.seed][reached + 1]
      BY <2>7, <3>3
    <3> QED BY <2>3, <2>4, <3>3, <3>4
  <2>11. Len(stack') = n /\ \A i \in 1..n : stack'[i] = IF i = n THEN new ELSE callers[i]
    BY <1>2, <2>1, <2>2, Replaced
  <2> DEFINE pre2 == [i \in 0..n |-> IF i = n THEN walk' ELSE pre[i]]
  <2>12. pre2 \in [0..n -> Seq(Steps)] /\ pre2[0] = <<>> /\ pre2[n] = walk'
    <3> HIDE DEF n
    <3>1. pre \in [0..n -> Seq(Steps)] /\ pre[0] = <<>>
      BY DEF Partial, n
    <3>2. n \in 0..n /\ 0 \in 0..n /\ n # 0
      BY <2>1
    <3> QED BY <2>10, <3>1, <3>2
  <2>13. ASSUME NEW i \in 1..n
         PROVE  pre2[i] = pre2[i - 1] \o P[job][stack'[i].seed][Len(stack'[i].done)]
    <3> HIDE DEF n, new
    <3>1. i \in 0..n /\ i - 1 \in 0..n /\ i - 1 # n /\ n \in Nat
      BY <2>1
    <3>2. pre2[i - 1] = pre[i - 1]
      BY <3>1
    <3>3. CASE i = n
      BY <2>10, <2>11, <2>12, <3>1, <3>2, <3>3
    <3>4. CASE i # n
      <4>1. pre2[i] = pre[i] /\ stack'[i] = callers[i]
        BY <2>11, <3>1, <3>4
      <4>2. pre[i] = pre[i - 1] \o P[job][callers[i].seed][Len(callers[i].done)]
        BY DEF Partial, n
      <4> QED BY <3>2, <4>1, <4>2
    <3> QED BY <3>3, <3>4
  <2>14. Partial(stack', pre2, P, Steps)
    <3> HIDE DEF n, new, pre2
    <3> QED BY <2>11, <2>12, <2>13 DEF Partial
  <2>15. \A i \in 1..Len(stack') :
           /\ Coalgebra(job, stack'[i].seed).side = "Right"
           /\ stack'[i].layer = Coalgebra(job, stack'[i].seed).right
    <3>1. /\ Coalgebra(job, new.seed).side = "Right"
          /\ new.layer = Coalgebra(job, new.seed).right
      BY <2>1, <2>3
    <3>2. \A i \in 1..n :
            /\ Coalgebra(job, callers[i].seed).side = "Right"
            /\ callers[i].layer = Coalgebra(job, callers[i].seed).right
      OBVIOUS
    <3> HIDE DEF n, new
    <3> QED BY <2>11, <3>1, <3>2
  <2>16. \E p \in [0..Len(stack') -> Seq(Steps)] :
           Partial(stack', p, P, Steps) /\ walk' = p[Len(stack')]
    <3> HIDE DEF n, pre2
    <3> QED BY <2>11, <2>12, <2>14
  <2>17. Walked(W, P, Steps)' <=>
           /\ \A i \in 1..Len(stack') :
                /\ Coalgebra(job', stack'[i].seed).side = "Right"
                /\ stack'[i].layer = Coalgebra(job', stack'[i].seed).right
           /\ answer' = <<>> => \E p \in [0..Len(stack') -> Seq(Steps)] :
                                  Partial(stack, p, P, Steps)' /\ walk' = p[Len(stack')]
           /\ answer' # <<>> => walk' = W[job'][SeedOf(job')]
    BY DEF Walked
  <2> QED BY <2>2, <2>15, <2>16, <2>17 DEF Partial
<1> QED BY <1>1, <1>2

LEMMA InitWalked ==
  ASSUME NEW W, NEW P, NEW Steps, Init
  PROVE  Walked(W, P, Steps)
<1> DEFINE pre == [i \in 0..0 |-> <<>>]
<1>1. stack = <<>> /\ answer = <<>> /\ walk = <<>> /\ Len(stack) = 0
  BY EmptySeq DEF Init
<1>2. pre \in [0..0 -> Seq(Steps)] /\ pre[0] = <<>>
  BY EmptySeq
<1>3. Partial(stack, pre, P, Steps)
  BY <1>1, <1>2 DEF Partial
<1> QED BY <1>1, <1>2, <1>3 DEF Walked

LEMMA StepWalked ==
  ASSUME NEW Calls, NEW Seeds, NEW Layers, NEW Results,
         Typed(Calls, Seeds, Layers, Results),
         NEW Steps, NEW W, NEW P, WalksOver(W, P, Calls, Seeds, Steps),
         Shape(Calls, Seeds, Layers, Results), Linked, Walked(W, P, Steps), [Next]_vars
  PROVE  Walked(W, P, Steps)'
<1> DEFINE A == Activations(Seeds, Layers, Results)
           n == Len(stack)
<1>0. stack \in Seq(A) /\ n \in Nat /\ job \in Calls
  BY LenProperties DEF Shape
<1>1. CASE Expand
  <2> DEFINE layer == Coalgebra(job, Called).right
             new == Activation(Called, layer, <<>>)
  <2>1. Called \in Seeds /\ answer = <<>>
    BY <1>1, CalledIsSeed DEF Expand, IsCalled, Linked
  <2>2. /\ stack' = Append(stack, new) /\ job' = job /\ answer' = answer
        /\ walk' = Append(walk, In(layer)) /\ Coalgebra(job, Called).side = "Right"
    BY <1>1 DEF Expand, In
  <2>3. PICK pre \in [0..n -> Seq(Steps)] : Partial(stack, pre, P, Steps) /\ walk = pre[n]
    BY <2>1 DEF Walked
  <2>4. pre[n] \in Seq(Steps) /\ pre[0] = <<>>
    BY <1>0, <2>3 DEF Partial
  <2>5. In(layer) \in Steps /\ P[job][Called][0] = <<In(layer)>>
    BY <1>0, <2>1, <2>2 DEF WalksOver
  <2>6. new.seed = Called /\ new.layer = layer /\ Len(new.done) = 0
    BY EmptySeq DEF Activation
  <2>7. walk' = pre[n] \o P[job][new.seed][Len(new.done)] /\ walk' \in Seq(Steps)
    <3> HIDE DEF n, layer, new
    <3>1. walk' = pre[n] \o <<In(layer)>> /\ walk' \in Seq(Steps)
      BY <2>2, <2>3, <2>4, <2>5
    <3> QED BY <2>5, <2>6, <3>1
  <2>8. Len(stack') = n + 1 /\ stack'[n + 1] = new /\ \A i \in 1..n : stack'[i] = stack[i]
    BY <1>0, <2>2
  <2> DEFINE pre2 == [i \in 0..(n + 1) |-> IF i = n + 1 THEN walk' ELSE pre[i]]
  <2> HIDE DEF layer, new
  <2>9. pre2 \in [0..(n + 1) -> Seq(Steps)] /\ pre2[0] = <<>> /\ pre2[n + 1] = walk'
    <3> HIDE DEF n
    <3>1. /\ \A i \in 0..(n + 1) : i \in 0..n \/ i = n + 1
          /\ 0 # n + 1 /\ 0 \in 0..(n + 1) /\ n + 1 \in 0..(n + 1)
      BY <1>0
    <3>2. \A i \in 0..(n + 1) : (IF i = n + 1 THEN walk' ELSE pre[i]) \in Seq(Steps)
      BY <2>3, <2>7, <3>1
    <3> QED BY <2>4, <3>1, <3>2
  <2>10. ASSUME NEW i \in 1..(n + 1)
         PROVE  pre2[i] = pre2[i - 1] \o P[job][stack'[i].seed][Len(stack'[i].done)]
    <3>0. \A k \in 1..n : pre[k] = pre[k - 1] \o P[job][stack[k].seed][Len(stack[k].done)]
      BY <2>3 DEF Partial
    <3> HIDE DEF n
    <3>1. i - 1 \in 0..(n + 1) /\ i - 1 # n + 1 /\ i \in 0..(n + 1)
      BY <1>0
    <3>2. pre2[i - 1] = pre[i - 1]
      BY <3>1
    <3>3. CASE i = n + 1
      <4>1. i - 1 = n
        BY <1>0, <3>3
      <4> QED BY <2>7, <2>8, <2>9, <3>2, <3>3, <4>1
    <3>4. CASE i # n + 1
      <4>1. i \in 1..n
        BY <1>0, <3>4
      <4>2. pre2[i] = pre[i] /\ stack'[i] = stack[i]
        BY <2>8, <3>1, <3>4, <4>1
      <4> QED BY <3>0, <3>2, <4>1, <4>2
    <3> QED BY <3>3, <3>4
  <2>11. Partial(stack', pre2, P, Steps)
    <3> HIDE DEF n, pre2
    <3> QED BY <2>8, <2>9, <2>10 DEF Partial
  <2>12. \A i \in 1..Len(stack') :
           /\ Coalgebra(job, stack'[i].seed).side = "Right"
           /\ stack'[i].layer = Coalgebra(job, stack'[i].seed).right
    <3>1. \A i \in 1..n : /\ Coalgebra(job, stack[i].seed).side = "Right"
                          /\ stack[i].layer = Coalgebra(job, stack[i].seed).right
      BY DEF Walked
    <3> HIDE DEF n
    <3>2. \A i \in 1..Len(stack') : i \in 1..n \/ i = n + 1
      BY <1>0, <2>8
    <3> QED BY <2>2, <2>6, <2>8, <3>1, <3>2 DEF layer
  <2>13. \E p \in [0..Len(stack') -> Seq(Steps)] :
           Partial(stack', p, P, Steps) /\ walk' = p[Len(stack')]
    <3> HIDE DEF n, pre2
    <3> QED BY <2>8, <2>9, <2>11
  <2> QED BY <2>1, <2>2, <2>12, <2>13 DEF Walked, Partial
<1>2. CASE Stop
  <2> DEFINE v == Coalgebra(job, Called).left
  <2>1. Called \in Seeds /\ Called = AwaitedBy(stack) /\ answer = <<>>
    BY <1>2, CalledIsSeed DEF Stop, Called, AwaitedBy, Top, IsCalled, Linked
  <2>2. PICK pre \in [0..n -> Seq(Steps)] : Partial(stack, pre, P, Steps) /\ walk = pre[n]
    BY <2>1 DEF Walked
  <2>3. W[job][Called] = <<StoppedWith(v)>> /\ StoppedWith(v) \in Steps
    BY <1>0, <1>2, <2>1 DEF Stop, WalksOver
  <2>4. walk' = Append(walk, StoppedWith(v)) /\ ReturnTo(stack, v) /\ job' = job
    BY <1>2 DEF Stop, StoppedWith
  <2>5. walk' = pre[n] \o W[job][AwaitedBy(stack)]
    <3>1. pre[n] \in Seq(Steps)
      BY <1>0, <2>2
    <3> HIDE DEF n, v
    <3> QED BY <2>1, <2>2, <2>3, <2>4, <3>1
  <2>6. \A i \in 1..Len(stack) : /\ Coalgebra(job, stack[i].seed).side = "Right"
                                 /\ stack[i].layer = Coalgebra(job, stack[i].seed).right
    BY DEF Walked
  <2>7. stack # <<>> => /\ ~Complete(stack[Len(stack)])
                        /\ Len(stack[Len(stack)].done) <= Len(stack[Len(stack)].layer.kids)
    <3>1. stack # <<>> => n \in 1..n
      BY <1>0, EmptySeq
    <3> QED BY <1>2, <3>1 DEF Stop, IsCalled, Linked, Top
  <2> HIDE DEF v
  <2> QED BY <1>0, <2>1, <2>2, <2>4, <2>5, <2>6, <2>7, ReturnWalks
<1>3. CASE Collapse
  <2> DEFINE below == SubSeq(stack, 1, n - 1)
             v == Algebra(job, Top.seed, Filled(Top.layer, Top.done))
  <2>1. n \in 1..n /\ answer = <<>> /\ job' = job /\ Top \in A /\ Top = stack[n]
    BY <1>0, <1>3, EmptySeq, ElementOfSeq DEF Collapse, Linked, Top
  <2>2. /\ Top.seed \in Seeds /\ Len(Top.done) = Len(Top.layer.kids)
        /\ Coalgebra(job, Top.seed).side = "Right"
        /\ Top.layer = Coalgebra(job, Top.seed).right
    BY <1>3, <2>1 DEF Activations, Collapse, Complete, Walked
  <2>3. PICK pre \in [0..n -> Seq(Steps)] : Partial(stack, pre, P, Steps) /\ walk = pre[n]
    BY <2>1 DEF Walked
  <2>4. below \in Seq(A) /\ Len(below) = n - 1 /\ \A i \in 1..(n - 1) : below[i] = stack[i]
    BY <1>0, <2>1, Callers
  <2>5. Top.seed = AwaitedBy(below)
    BY <1>0, <2>1, <2>4, TopIsAwaited
  <2>6. walk' = Append(walk, Out(Top.layer)) /\ ReturnTo(below, v)
    BY <1>3 DEF Collapse, Out
  <2> DEFINE up == P[job][Top.seed][Len(Top.done)]
  <2>7. Out(Top.layer) \in Steps /\ W[job][Top.seed] = up \o <<Out(Top.layer)>>
    <3> DEFINE at == Top.seed
               layer == Coalgebra(job, at).right
               m == Len(Top.done)
    <3>1. m = Len(layer.kids) /\ layer = Top.layer /\ at \in Seeds
          /\ Coalgebra(job, at).side = "Right"
      BY <2>2
    <3>2. Out(layer) \in Steps
          /\ W[job][at] = P[job][at][Len(layer.kids)] \o <<Out(layer)>>
      <4> HIDE DEF at, up, n
      <4> QED BY <1>0, <3>1 DEF WalksOver
    <3>3. up = P[job][at][m]
      OBVIOUS
    <3> HIDE DEF at, layer, m, up
    <3>4. W[job][at] = up \o <<Out(layer)>>
      BY <3>1, <3>2, <3>3
    <3> QED BY <3>1, <3>2, <3>4 DEF at
  <2>8. pre[n - 1] \in Seq(Steps) /\ up \in Seq(Steps) /\ walk = pre[n - 1] \o up
    <3>1. walk = pre[n - 1] \o up
      BY <2>1, <2>3 DEF Partial
    <3>2. Len(Top.done) \in Nat
      BY <2>1, LenProperties DEF Activations
    <3>3. up \in Seq(Steps)
      BY <1>0, <2>2, <3>2, WalksAt
    <3>4. n - 1 \in 0..n
      BY <1>0, <2>1
    <3> QED BY <2>3, <3>1, <3>3, <3>4
  <2>9. walk' = pre[n - 1] \o W[job][AwaitedBy(below)]
    <3> DEFINE a == pre[n - 1]
               e == Out(Top.layer)
    <3> HIDE DEF up, below, a, e, n
    <3>1. a \in Seq(Steps) /\ up \in Seq(Steps) /\ e \in Steps /\ walk = a \o up
          /\ walk' = Append(walk, e)
      BY <2>6, <2>7, <2>8 DEF a, e
    <3>2. <<e>> \in Seq(Steps) /\ walk \in Seq(Steps) /\ walk' = walk \o <<e>>
      BY <3>1
    <3>3. (a \o up) \o <<e>> = a \o (up \o <<e>>)
      BY <3>1, <3>2, ConcatAssociative, SMTT(30)
    <3>4. W[job][AwaitedBy(below)] = up \o <<e>>
      BY <2>5, <2>7 DEF e
    <3> QED BY <3>1, <3>2, <3>3, <3>4 DEF a
  <2> DEFINE pre2 == [i \in 0..(n - 1) |-> pre[i]]
  <2>10. Partial(below, pre2, P, Steps) /\ pre2[Len(below)] = pre[n - 1]
    <3>0. /\ pre[0] = <<>>
          /\ \A k \in 1..n : pre[k] = pre[k - 1] \o P[job][stack[k].seed][Len(stack[k].done)]
      BY <2>3 DEF Partial
    <3> HIDE DEF n, below
    <3>1. \A i \in 0..(n - 1) : i \in 0..n
      BY <1>0
    <3>2. pre2 \in [0..(n - 1) -> Seq(Steps)] /\ pre2[0] = <<>> /\ pre2[n - 1] = pre[n - 1]
      BY <1>0, <2>1, <2>3, <3>0, <3>1
    <3>3. ASSUME NEW i \in 1..(n - 1)
          PROVE  pre2[i] = pre2[i - 1] \o P[job][below[i].seed][Len(below[i].done)]
      <4>1. i \in 1..n /\ i \in 0..(n - 1) /\ i - 1 \in 0..(n - 1)
        BY <1>0
      <4> QED BY <2>4, <3>0, <4>1
    <3> HIDE DEF pre2
    <3> QED BY <2>4, <3>2, <3>3 DEF Partial
  <2>11. \A i \in 1..Len(below) : /\ Coalgebra(job, below[i].seed).side = "Right"
                                  /\ below[i].layer = Coalgebra(job, below[i].seed).right
    <3>1. \A i \in 1..(n - 1) : i \in 1..n
      BY <1>0
    <3> QED BY <2>4, <3>1 DEF Walked
  <2>12. below # <<>> => /\ ~Complete(below[Len(below)])
                         /\ Len(below[Len(below)].done) <= Len(below[Len(below)].layer.kids)
    <3> SUFFICES ASSUME below # <<>>
                 PROVE  /\ ~Complete(below[n - 1])
                        /\ Len(below[n - 1].done) <= Len(below[n - 1].layer.kids)
      BY <2>4
    <3>1. n - 1 \in 1..(n - 1) /\ n - 1 \in 1..n /\ n > 1
      BY <1>0, <2>1, <2>4, EmptySeq
    <3> QED BY <2>1, <2>4, <3>1 DEF Linked
  <2> HIDE DEF below, v, pre2, up
  <2>13. walk' = pre2[Len(below)] \o W[job][AwaitedBy(below)] /\ AwaitedBy(below) \in Seeds
    BY <2>2, <2>5, <2>9, <2>10
  <2> QED BY <1>0, <2>1, <2>4, <2>6, <2>10, <2>11, <2>12, <2>13, ReturnWalks
<1>4. CASE UNCHANGED vars
  BY <1>4 DEF vars, Walked, Partial
<1> QED BY <1>1, <1>2, <1>3, <1>4 DEF Next

(***************************************************************************)
(* The scheme makes one pass: by the time it answers, each layer under its *)
(* seed has been entered once and left once, its children in between from  *)
(* front to back, and nothing below a seed that stopped has been asked.    *)
(***************************************************************************)
THEOREM OnePassInOrder ==
  ASSUME NEW Seeds, NEW Layers, NEW Results, Typed(Jobs, Seeds, Layers, Results),
         NEW Steps, NEW W, NEW P, WalksOver(W, P, Jobs, Seeds, Steps)
  PROVE  Spec => [](answer # <<>> => walk = W[job][SeedOf(job)])
<1> DEFINE IInv == Shape(Jobs, Seeds, Layers, Results) /\ Linked /\ Walked(W, P, Steps)
<1>1. Init => IInv
  BY InitLinked, InitWalked DEF Init
<1>2. IInv /\ [Next]_vars => IInv'
  BY StepLinked, StepWalked
<1>3. IInv => (answer # <<>> => walk = W[job][SeedOf(job)])
  BY DEF Walked
<1> QED BY <1>1, <1>2, <1>3, PTL DEF Spec

-----------------------------------------------------------------------------
(* A set of naturals has a least element: {1 .. n : n \in T} has one. *)
LEMMA LeastNatural ==
  ASSUME NEW T, T \subseteq Nat, T # {}
  PROVE  \E x \in T : \A y \in T : x <= y
<1> DEFINE R == StrictSubsetOrdering(Nat)
           F == FiniteSubsetsOf(Nat)
           D == {1 .. n : n \in T}
<1>1. IsWellFoundedOn(R, F)
  BY FS_StrictSubsetOrderingWellFounded
<1>2. \A n \in T : 1 .. n \in FiniteSubsetsOf(Nat)
  <2> SUFFICES ASSUME NEW n \in T PROVE 1 .. n \in FiniteSubsetsOf(Nat)
    OBVIOUS
  <2>1. n \in Int /\ 1 .. n \subseteq Nat
    OBVIOUS
  <2> QED BY <2>1, FS_Interval DEF FiniteSubsetsOf
<1>3. D \subseteq F /\ D # {}
  BY <1>2
<1>4. PICK d \in D : \A e \in D : ~(<<e, d>> \in R)
  <2> HIDE DEF R, F, D
  <2> QED BY <1>1, <1>3, WFMin
<1>5. PICK x \in T : d = 1 .. x
  OBVIOUS
<1>6. ASSUME NEW y \in T, y < x PROVE FALSE
  <2>1. x \in 1 .. x /\ x \notin 1 .. y /\ 1 .. y \subseteq 1 .. x
    BY <1>6
  <2>2. 1 .. y \subseteq Nat /\ 1 .. x \subseteq Nat /\ 1 .. y # 1 .. x
    BY <2>1
  <2>3. <<1 .. y, 1 .. x>> \in R
    BY <2>1, <2>2 DEF StrictSubsetOrdering
  <2> QED BY <1>4, <1>5, <2>3
<1>7. ASSUME NEW y \in T PROVE x <= y
  <2>1. x \in Nat /\ y \in Nat /\ ~(y < x)
    BY <1>6
  <2> QED BY <2>1
<1> QED BY <1>7

(* Induction, for a set of naturals rather than a predicate. *)
LEMMA Inductive ==
  ASSUME NEW S, 0 \in S, \A n \in Nat : n \in S => n + 1 \in S
  PROVE  \A n \in Nat : n \in S
<1> DEFINE T == {n \in Nat : n \notin S}
<1> SUFFICES ASSUME T # {} PROVE FALSE
  OBVIOUS
<1>1. PICK n \in T : \A m \in T : n <= m
  BY LeastNatural
<1>2. n - 1 \in Nat /\ n - 1 \notin T
  BY <1>1
<1>3. (n - 1) + 1 \in S
  BY <1>2
<1> QED BY <1>3

-----------------------------------------------------------------------------
(* Equations that ask of a seed only what they say of smaller ones have one solution. *)

(* F[s] makes of the values at all seeds the value at s. *)
AsksOnlySmaller(F, rank, S, R) ==
  /\ rank \in [S -> Nat]
  /\ F \in [S -> [[S -> R] -> R]]
  /\ \A s \in S : \A g, h \in [S -> R] :
       (\A t \in S : rank[t] < rank[s] => g[t] = h[t]) => F[s][g] = F[s][h]

(* g is as the equations say at the seeds whose rank is below n. *)
SolvedBelow(g, n, F, rank, S) == \A s \in S : rank[s] < n => g[s] = F[s][g]

LEMMA SolutionsAgree ==
  ASSUME NEW S, NEW R, NEW rank, NEW F, AsksOnlySmaller(F, rank, S, R),
         NEW g \in [S -> R], NEW h \in [S -> R], NEW n \in Nat, NEW m \in Nat,
         SolvedBelow(g, n, F, rank, S), SolvedBelow(h, m, F, rank, S)
  PROVE  \A s \in S : rank[s] < n /\ rank[s] < m => g[s] = h[s]
<1> DEFINE Bad == {s \in S : rank[s] < n /\ rank[s] < m /\ g[s] # h[s]}
           T == {rank[s] : s \in Bad}
<1> SUFFICES ASSUME Bad # {} PROVE FALSE
  OBVIOUS
<1>0. rank \in [S -> Nat]
  BY DEF AsksOnlySmaller
<1>1. T \subseteq Nat /\ T # {}
  BY <1>0
<1>2. PICK k \in T : \A l \in T : k <= l
  <2> HIDE DEF T
  <2> QED BY <1>1, LeastNatural
<1>3. PICK s \in Bad : k = rank[s]
  OBVIOUS
<1>4. \A t \in S : rank[t] < rank[s] => g[t] = h[t]
  <2> SUFFICES ASSUME NEW t \in S, rank[t] < rank[s], g[t] # h[t] PROVE FALSE
    OBVIOUS
  <2>1. rank[t] \in Nat /\ rank[s] \in Nat
    BY <1>0
  <2>2. t \in Bad
    BY <1>3, <2>1
  <2> QED BY <1>2, <1>3, <2>1, <2>2
<1>5. F[s][g] = F[s][h]
  BY <1>4 DEF AsksOnlySmaller
<1>6. g[s] = F[s][g] /\ h[s] = F[s][h]
  BY <1>3 DEF SolvedBelow
<1> QED BY <1>3, <1>5, <1>6

LEMMA SolvableBelow ==
  ASSUME NEW S, NEW R, NEW r0 \in R, NEW rank, NEW F, AsksOnlySmaller(F, rank, S, R)
  PROVE  \A n \in Nat : \E g \in [S -> R] : SolvedBelow(g, n, F, rank, S)
<1> DEFINE Ns == {n \in Nat : \E g \in [S -> R] : SolvedBelow(g, n, F, rank, S)}
<1>0. rank \in [S -> Nat] /\ F \in [S -> [[S -> R] -> R]]
  BY DEF AsksOnlySmaller
<1>1. 0 \in Ns
  <2>1. [s \in S |-> r0] \in [S -> R]
    OBVIOUS
  <2>2. \A s \in S : ~(rank[s] < 0)
    BY <1>0
  <2>3. SolvedBelow([s \in S |-> r0], 0, F, rank, S)
    BY <2>2, Zenon DEF SolvedBelow
  <2> QED BY <2>1, <2>3
<1>2. ASSUME NEW n \in Nat, n \in Ns PROVE n + 1 \in Ns
  <2>1. PICK g \in [S -> R] : SolvedBelow(g, n, F, rank, S)
    BY <1>2
  <2>2. PICK h : h = [s \in S |-> F[s][g]]
    OBVIOUS
  <2>3. h \in [S -> R] /\ \A s \in S : h[s] = F[s][g]
    BY <1>0, <2>2
  <2>4. ASSUME NEW s \in S, rank[s] < n + 1 PROVE h[s] = F[s][h]
    <3>1. \A t \in S : rank[t] < rank[s] => rank[t] < n
      BY <1>0, <2>4
    <3>2. \A t \in S : rank[t] < rank[s] => g[t] = h[t]
      BY <2>1, <2>3, <3>1 DEF SolvedBelow
    <3>3. F[s][g] = F[s][h]
      BY <2>3, <3>2 DEF AsksOnlySmaller
    <3> QED BY <2>3, <3>3
  <2>5. SolvedBelow(h, n + 1, F, rank, S)
    BY <2>4 DEF SolvedBelow
  <2> QED BY <2>3, <2>5
<1> HIDE DEF Ns
<1>3. \A n \in Nat : n \in Ns
  BY <1>1, <1>2, Inductive
<1> QED BY <1>3 DEF Ns

HasOneSolution(F, S, R) ==
  \E H \in [S -> R] :
     /\ \A s \in S : H[s] = F[s][H]
     /\ \A G \in [S -> R] : (\A s \in S : G[s] = F[s][G]) => G = H

LEMMA OneSolution ==
  ASSUME NEW S, NEW R, NEW r0 \in R, NEW rank, NEW F, AsksOnlySmaller(F, rank, S, R)
  PROVE  HasOneSolution(F, S, R)
<1> DEFINE Upto(n) == CHOOSE g \in [S -> R] : SolvedBelow(g, n, F, rank, S)
<1>0. rank \in [S -> Nat]
  BY DEF AsksOnlySmaller
<1>1. \A n \in Nat : Upto(n) \in [S -> R] /\ SolvedBelow(Upto(n), n, F, rank, S)
  BY SolvableBelow
<1> HIDE DEF Upto
<1>2. PICK H : H = [s \in S |-> Upto(rank[s] + 1)[s]]
  OBVIOUS
<1>3. H \in [S -> R] /\ \A s \in S : H[s] = Upto(rank[s] + 1)[s]
  BY <1>0, <1>1, <1>2
<1>4. ASSUME NEW s \in S PROVE H[s] = F[s][H]
  <2>1. PICK n \in Nat : n = rank[s] + 1
    BY <1>0
  <2>2. PICK g \in [S -> R] : g = Upto(n) /\ SolvedBelow(g, n, F, rank, S)
    BY <1>1
  <2>3. ASSUME NEW t \in S, rank[t] < rank[s] PROVE H[t] = g[t]
    <3>1. PICK m \in Nat : m = rank[t] + 1
      BY <1>0
    <3>2. PICK h \in [S -> R] : h = Upto(m) /\ SolvedBelow(h, m, F, rank, S)
      BY <1>1
    <3>3. rank[t] < n /\ rank[t] < m
      BY <1>0, <2>1, <2>3, <3>1
    <3>4. g[t] = h[t]
      BY <2>2, <3>2, <3>3, SolutionsAgree
    <3> QED BY <1>3, <3>1, <3>2, <3>4
  <2>4. F[s][H] = F[s][g]
    BY <1>3, <2>3 DEF AsksOnlySmaller
  <2>5. g[s] = F[s][g]
    BY <1>0, <2>1, <2>2 DEF SolvedBelow
  <2> QED BY <1>3, <2>1, <2>2, <2>4, <2>5
<1>5. ASSUME NEW G \in [S -> R], \A s \in S : G[s] = F[s][G] PROVE G = H
  <2>1. ASSUME NEW s \in S PROVE G[s] = H[s]
    <3>1. PICK n \in Nat : n = rank[s] + 1
      BY <1>0
    <3>2. SolvedBelow(G, n, F, rank, S) /\ SolvedBelow(H, n, F, rank, S)
      BY <1>4, <1>5 DEF SolvedBelow
    <3>3. rank[s] < n
      BY <1>0, <3>1
    <3> QED BY <1>3, <3>2, <3>3, SolutionsAgree
  <2> QED BY <1>3, <2>1
<1> QED BY <1>3, <1>4, <1>5 DEF HasOneSolution

(* The coalgebra answers or gives a layer, and the seeds of a layer are smaller. *)
Founded(size, Seeds) ==
  /\ size \in [Jobs -> [Seeds -> Nat]]
  /\ \A j \in Jobs : \A s \in Seeds :
       LET step == Coalgebra(j, s) IN
         /\ step.side \in {"Left", "Right"}
         /\ step.side = "Right" =>
              \A k \in 1..Len(step.right.kids) : size[j][step.right.kids[k]] < size[j][s]

(* The values that a layer's seeds have by g. *)
OfKids(g, layer) == [k \in 1..Len(layer.kids) |-> g[layer.kids[k]]]

(* What the equation makes of the values g at seed s. *)
ValueBy(g, j, s) ==
  IF Coalgebra(j, s).side = "Left" THEN Coalgebra(j, s).left
  ELSE Algebra(j, s, Filled(Coalgebra(j, s).right, OfKids(g, Coalgebra(j, s).right)))

LEMMA KidsHaveValues ==
  ASSUME NEW Seeds, NEW R, NEW g \in [Seeds -> R], NEW layer, layer.kids \in Seq(Seeds)
  PROVE  /\ OfKids(g, layer) \in Seq(R)
         /\ Len(OfKids(g, layer)) = Len(layer.kids)
         /\ \A k \in 1..Len(layer.kids) : layer.kids[k] \in Seeds
<1>1. Len(layer.kids) \in Nat /\ \A k \in 1..Len(layer.kids) : layer.kids[k] \in Seeds
  BY ElementOfSeq, LenProperties
<1>2. OfKids(g, layer) \in [1..Len(layer.kids) -> R]
  BY <1>1 DEF OfKids
<1>3. OfKids(g, layer) \in Seq(R)
  BY <1>1, <1>2
<1>4. Len(OfKids(g, layer)) = Len(layer.kids)
  <2>1. DOMAIN OfKids(g, layer) = 1..Len(layer.kids)
    BY DEF OfKids
  <2>2. DOMAIN OfKids(g, layer) = 1..Len(OfKids(g, layer)) /\ Len(OfKids(g, layer)) \in Nat
    BY <1>3, LenProperties
  <2> QED BY <1>1, <2>1, <2>2
<1> QED BY <1>1, <1>3, <1>4

LEMMA ValueIsResult ==
  ASSUME NEW Seeds, NEW Layers, NEW Results, Typed(Jobs, Seeds, Layers, Results),
         NEW size, Founded(size, Seeds),
         NEW j \in Jobs, NEW s \in Seeds, NEW g \in [Seeds -> Results]
  PROVE  ValueBy(g, j, s) \in Results
<1>1. CASE Coalgebra(j, s).side = "Left"
  BY <1>1 DEF ValueBy, Typed
<1>2. CASE Coalgebra(j, s).side # "Left"
  <2>1. PICK layer : layer = Coalgebra(j, s).right
    OBVIOUS
  <2>2. Coalgebra(j, s).side = "Right"
    BY <1>2 DEF Founded
  <2>3. layer \in Layers /\ layer.kids \in Seq(Seeds)
    BY <2>1, <2>2 DEF Typed
  <2>4. PICK results \in Seq(Results) :
          results = OfKids(g, layer) /\ Len(results) = Len(layer.kids)
    BY <2>3, KidsHaveValues
  <2>5. Algebra(j, s, Filled(layer, OfKids(g, layer))) \in Results
    BY <2>1, <2>2, <2>4 DEF Typed
  <2> QED BY <1>2, <2>1, <2>5 DEF ValueBy
<1> QED BY <1>1, <1>2

(* At a seed of least size nothing is asked, so there is a result if there is a seed. *)
LEMMA SomeResult ==
  ASSUME NEW Seeds, NEW Layers, NEW Results, Typed(Jobs, Seeds, Layers, Results),
         NEW size, Founded(size, Seeds), NEW j \in Jobs, Seeds # {}
  PROVE  Results # {}
<1> DEFINE T == {size[j][s] : s \in Seeds}
<1>0. size[j] \in [Seeds -> Nat]
  BY DEF Founded
<1>1. T \subseteq Nat /\ T # {}
  BY <1>0
<1>2. PICK n \in T : \A m \in T : n <= m
  <2> HIDE DEF T
  <2> QED BY <1>1, LeastNatural
<1>3. PICK s \in Seeds : n = size[j][s]
  OBVIOUS
<1>4. CASE Coalgebra(j, s).side = "Left"
  BY <1>4 DEF Typed
<1>5. CASE Coalgebra(j, s).side = "Right"
  <2>1. PICK layer : layer = Coalgebra(j, s).right
    OBVIOUS
  <2>2. layer \in Layers /\ layer.kids \in Seq(Seeds) /\ Len(layer.kids) \in Nat
    BY <1>5, <2>1, LenProperties DEF Typed
  <2>3. ASSUME NEW k \in 1..Len(layer.kids) PROVE FALSE
    <3>1. layer.kids[k] \in Seeds
      BY <2>2, ElementOfSeq
    <3>2. size[j][layer.kids[k]] < size[j][s]
      BY <1>5, <2>1 DEF Founded
    <3>3. size[j][layer.kids[k]] \in T
      BY <3>1
    <3> HIDE DEF T
    <3>4. n <= size[j][layer.kids[k]]
      BY <1>2, <3>3
    <3>5. size[j][layer.kids[k]] \in Nat /\ size[j][s] \in Nat
      BY <1>0, <3>1
    <3> QED BY <1>3, <3>2, <3>4, <3>5
  <2>4. <<>> \in Seq(Results)
    BY EmptySeq
  <2>5. Len(layer.kids) = 0
    BY <2>2, <2>3
  <2>6. Len(<<>>) = Len(layer.kids)
    BY <2>5
  <2>7. Algebra(j, s, Filled(layer, <<>>)) \in Results
    BY <1>5, <2>1, <2>4, <2>6 DEF Typed
  <2> QED BY <2>7
<1> QED BY <1>4, <1>5 DEF Founded

(* h solves the equation of call j. *)
SolvesCall(h, j, Seeds, Results) ==
  /\ h \in [Seeds -> Results]
  /\ \A s \in Seeds : h[s] = ValueBy(h, j, s)

LEMMA OneSolutionPerCall ==
  ASSUME NEW Seeds, NEW Layers, NEW Results, Typed(Jobs, Seeds, Layers, Results),
         NEW size, Founded(size, Seeds), NEW j \in Jobs
  PROVE  \E h : /\ SolvesCall(h, j, Seeds, Results)
                /\ \A g : SolvesCall(g, j, Seeds, Results) => g = h
<1>1. CASE Seeds = {}
  <2>1. \A h : SolvesCall(h, j, Seeds, Results) <=> h \in [Seeds -> Results]
    BY <1>1 DEF SolvesCall
  <2>2. [s \in Seeds |-> s] \in [Seeds -> Results]
    BY <1>1
  <2>3. \A g \in [Seeds -> Results] : g = [s \in Seeds |-> s]
    BY <1>1
  <2> QED BY <2>1, <2>2, <2>3
<1>2. CASE Seeds # {}
  <2>1. PICK r0 : r0 \in Results
    BY <1>2, SomeResult
  <2>2. PICK F : F = [s \in Seeds |-> [g \in [Seeds -> Results] |-> ValueBy(g, j, s)]]
    OBVIOUS
  <2>3. \A s \in Seeds : \A g \in [Seeds -> Results] : F[s][g] = ValueBy(g, j, s)
    BY <2>2
  <2>4. PICK rank : rank = size[j]
    OBVIOUS
  <2>5. AsksOnlySmaller(F, rank, Seeds, Results)
    <3>1. rank \in [Seeds -> Nat]
      BY <2>4 DEF Founded
    <3>2. F \in [Seeds -> [[Seeds -> Results] -> Results]]
      <4>1. \A s \in Seeds : \A g \in [Seeds -> Results] : ValueBy(g, j, s) \in Results
        BY ValueIsResult
      <4> QED BY <2>2, <4>1
    <3>3. ASSUME NEW s \in Seeds, NEW g \in [Seeds -> Results], NEW h \in [Seeds -> Results],
                 \A t \in Seeds : rank[t] < rank[s] => g[t] = h[t]
          PROVE  F[s][g] = F[s][h]
      <4>1. CASE Coalgebra(j, s).side = "Left"
        BY <2>3, <4>1 DEF ValueBy
      <4>2. CASE Coalgebra(j, s).side = "Right"
        <5>1. PICK layer : layer = Coalgebra(j, s).right
          OBVIOUS
        <5>2. layer.kids \in Seq(Seeds)
          BY <4>2, <5>1 DEF Typed
        <5>3. \A k \in 1..Len(layer.kids) : layer.kids[k] \in Seeds
          BY <5>2, KidsHaveValues
        <5>4. \A k \in 1..Len(layer.kids) : rank[layer.kids[k]] < rank[s]
          BY <2>4, <4>2, <5>1 DEF Founded
        <5>5. OfKids(g, layer) = OfKids(h, layer)
          BY <3>3, <5>3, <5>4 DEF OfKids
        <5>6. ValueBy(g, j, s) = ValueBy(h, j, s)
          BY <5>1, <5>5, Zenon DEF ValueBy
        <5> QED BY <2>3, <5>6
      <4> QED BY <4>1, <4>2 DEF Founded
    <3> QED BY <3>1, <3>2, <3>3 DEF AsksOnlySmaller
  <2>6. PICK h \in [Seeds -> Results] :
          /\ \A s \in Seeds : h[s] = F[s][h]
          /\ \A g \in [Seeds -> Results] : (\A s \in Seeds : g[s] = F[s][g]) => g = h
    <3>1. HasOneSolution(F, Seeds, Results)
      BY <2>1, <2>5, OneSolution
    <3> QED BY <3>1, Zenon DEF HasOneSolution
  <2> QED BY <2>3, <2>6 DEF SolvesCall
<1> QED BY <1>1, <1>2

(* To solve the scheme's equation is to solve that of every call. *)
LEMMA SolvesEachCall ==
  ASSUME NEW Seeds, NEW Results, NEW size, Founded(size, Seeds), NEW H
  PROVE  Solves(H, Jobs, Seeds, Results) <=>
           /\ H \in [Jobs -> [Seeds -> Results]]
           /\ \A j \in Jobs : SolvesCall(H[j], j, Seeds, Results)
<1> SUFFICES ASSUME H \in [Jobs -> [Seeds -> Results]]
             PROVE  Solves(H, Jobs, Seeds, Results) <=> \A j \in Jobs : SolvesCall(H[j], j, Seeds, Results)
  BY DEF Solves
<1>1. ASSUME NEW j \in Jobs, NEW s \in Seeds
      PROVE  LET step == Coalgebra(j, s) IN
               H[j][s] = ValueBy(H[j], j, s) <=>
                 /\ step.side = "Left" => H[j][s] = step.left
                 /\ step.side = "Right" =>
                      H[j][s] = Algebra(j, s, Filled(step.right,
                                  [k \in 1..Len(step.right.kids) |-> H[j][step.right.kids[k]]]))
  <2>1. Coalgebra(j, s).side \in {"Left", "Right"} /\ "Left" # "Right"
    BY DEF Founded
  <2> QED BY <2>1 DEF ValueBy, OfKids
<1>2. \A j \in Jobs : H[j] \in [Seeds -> Results]
  OBVIOUS
<1> QED BY <1>1, <1>2 DEF Solves, SolvesCall

(***************************************************************************)
(* AnswerSolvesTheEquation is about something: where the layers get        *)
(* smaller, as those of a finite structure do and unfold_fix needs them to *)
(* (unfold_fix.hpp), exactly one H solves a scheme's equation.             *)
(***************************************************************************)
THEOREM EquationHasOneSolution ==
  ASSUME NEW Seeds, NEW Layers, NEW Results, Typed(Jobs, Seeds, Layers, Results),
         NEW size, Founded(size, Seeds)
  PROVE  \E H : /\ Solves(H, Jobs, Seeds, Results)
                /\ \A G : Solves(G, Jobs, Seeds, Results) => G = H
<1> DEFINE Answer(j) == CHOOSE h : SolvesCall(h, j, Seeds, Results)
<1>1. \A j \in Jobs : /\ SolvesCall(Answer(j), j, Seeds, Results)
                      /\ \A g : SolvesCall(g, j, Seeds, Results) => g = Answer(j)
  <2> SUFFICES ASSUME NEW j \in Jobs
               PROVE  /\ SolvesCall(Answer(j), j, Seeds, Results)
                      /\ \A g : SolvesCall(g, j, Seeds, Results) => g = Answer(j)
    OBVIOUS
  <2>1. PICK h : /\ SolvesCall(h, j, Seeds, Results)
                 /\ \A g : SolvesCall(g, j, Seeds, Results) => g = h
    BY OneSolutionPerCall
  <2>2. SolvesCall(Answer(j), j, Seeds, Results)
    BY <2>1, Zenon
  <2> QED BY <2>1, <2>2
<1> HIDE DEF Answer
<1>2. PICK H : H = [j \in Jobs |-> Answer(j)]
  OBVIOUS
<1>3. H \in [Jobs -> [Seeds -> Results]] /\ \A j \in Jobs : H[j] = Answer(j)
  BY <1>1, <1>2 DEF SolvesCall
<1>4. Solves(H, Jobs, Seeds, Results)
  BY <1>1, <1>3, SolvesEachCall
<1>5. ASSUME NEW G, Solves(G, Jobs, Seeds, Results) PROVE G = H
  <2>1. G \in [Jobs -> [Seeds -> Results]] /\ \A j \in Jobs : G[j] = Answer(j)
    BY <1>1, <1>5, SolvesEachCall
  <2> QED BY <1>3, <2>1
<1> QED BY <1>4, <1>5

-----------------------------------------------------------------------------
(* Nor is OnePassInOrder about nothing: there is a walk over what each seed stands for. *)

(* The part of a walk up to the return of child n, made of q, the parts up to earlier ones. *)
PartAt(q, n, g, layer) ==
  IF n = 0 THEN <<In(layer)>>
  ELSE IF n <= Len(layer.kids) THEN q[n - 1] \o g[layer.kids[n]] ELSE q[n - 1]

PartsOf(p, g, layer, Steps) ==
  /\ p \in [Nat -> Seq(Steps)]
  /\ \A n \in Nat : p[n] = PartAt(p, n, g, layer)

HasOneSetOfParts(g, layer, Steps) ==
  \E p : /\ PartsOf(p, g, layer, Steps)
         /\ \A q : PartsOf(q, g, layer, Steps) => q = p

LEMMA OneSetOfParts ==
  ASSUME NEW Seeds, NEW Steps, NEW g \in [Seeds -> Seq(Steps)],
         NEW layer, layer.kids \in Seq(Seeds), In(layer) \in Steps
  PROVE  HasOneSetOfParts(g, layer, Steps)
<1> DEFINE R == Seq(Steps)
<1>0. /\ Len(layer.kids) \in Nat
      /\ \A k \in 1..Len(layer.kids) : layer.kids[k] \in Seeds
  BY KidsHaveValues, LenProperties
<1>1. <<In(layer)>> \in R
  OBVIOUS
<1>2. ASSUME NEW q \in [Nat -> R], NEW n \in Nat PROVE PartAt(q, n, g, layer) \in R
  <2>1. n # 0 => n - 1 \in Nat /\ q[n - 1] \in R
    OBVIOUS
  <2>2. n # 0 /\ n <= Len(layer.kids) => g[layer.kids[n]] \in R
    <3> SUFFICES ASSUME n # 0, n <= Len(layer.kids) PROVE g[layer.kids[n]] \in R
      OBVIOUS
    <3>1. n \in 1..Len(layer.kids)
      BY <1>0
    <3> QED BY <1>0, <3>1
  <2>3. \A a, b \in R : a \o b \in R
    OBVIOUS
  <2> HIDE DEF R
  <2> QED BY <1>1, <2>1, <2>2, <2>3 DEF PartAt
<1>3. PICK F : F = [n \in Nat |-> [q \in [Nat -> R] |-> PartAt(q, n, g, layer)]]
  OBVIOUS
<1>4. \A n \in Nat : \A q \in [Nat -> R] : F[n][q] = PartAt(q, n, g, layer)
  BY <1>3
<1>5. PICK rank : rank = [n \in Nat |-> n]
  OBVIOUS
<1> HIDE DEF R
<1>6. AsksOnlySmaller(F, rank, Nat, R)
  <2>1. rank \in [Nat -> Nat] /\ F \in [Nat -> [[Nat -> R] -> R]]
    BY <1>2, <1>3, <1>5
  <2>2. ASSUME NEW n \in Nat, NEW p \in [Nat -> R], NEW q \in [Nat -> R],
               \A m \in Nat : rank[m] < rank[n] => p[m] = q[m]
        PROVE  F[n][p] = F[n][q]
    <3>1. n # 0 => p[n - 1] = q[n - 1]
      BY <1>5, <2>2
    <3>2. PartAt(p, n, g, layer) = PartAt(q, n, g, layer)
      BY <3>1 DEF PartAt
    <3> QED BY <1>4, <3>2
  <2> QED BY <2>1, <2>2 DEF AsksOnlySmaller
<1>7. HasOneSolution(F, Nat, R)
  BY <1>1, <1>6, OneSolution
<1>8. PICK p \in [Nat -> R] :
        /\ \A n \in Nat : p[n] = F[n][p]
        /\ \A q \in [Nat -> R] : (\A n \in Nat : q[n] = F[n][q]) => q = p
  BY <1>7, Zenon DEF HasOneSolution
<1>9. \A q : PartsOf(q, g, layer, Steps) <=> q \in [Nat -> R] /\ \A n \in Nat : q[n] = F[n][q]
  BY <1>4 DEF PartsOf, R
<1> QED BY <1>8, <1>9, Zenon DEF HasOneSetOfParts

Parts(g, layer, Steps) == CHOOSE p : PartsOf(p, g, layer, Steps)

LEMMA PartsArePartsOf ==
  ASSUME NEW Seeds, NEW Steps, NEW g \in [Seeds -> Seq(Steps)],
         NEW layer, layer.kids \in Seq(Seeds), In(layer) \in Steps
  PROVE  /\ PartsOf(Parts(g, layer, Steps), g, layer, Steps)
         /\ \A q : PartsOf(q, g, layer, Steps) => q = Parts(g, layer, Steps)
<1>1. PICK p : /\ PartsOf(p, g, layer, Steps)
               /\ \A q : PartsOf(q, g, layer, Steps) => q = p
  <2>1. HasOneSetOfParts(g, layer, Steps)
    BY OneSetOfParts
  <2> QED BY <2>1, Zenon DEF HasOneSetOfParts
<1>2. PartsOf(Parts(g, layer, Steps), g, layer, Steps)
  BY <1>1, Zenon DEF Parts
<1> QED BY <1>1, <1>2

(* The walk over seed s of call j, made of g, the walks over the layer's seeds. *)
WalkBy(g, j, s, Steps) ==
  LET step == Coalgebra(j, s) IN
    IF step.side = "Left" THEN <<StoppedWith(step.left)>>
    ELSE Parts(g, step.right, Steps)[Len(step.right.kids)] \o <<Out(step.right)>>

(* The steps that calls are made of. *)
StepsOver(Seeds) ==
  {StoppedWith(Coalgebra(j, s).left) : j \in Jobs, s \in Seeds}
    \cup {In(Coalgebra(j, s).right) : j \in Jobs, s \in Seeds}
    \cup {Out(Coalgebra(j, s).right) : j \in Jobs, s \in Seeds}

LEMMA StepsAreThere ==
  ASSUME NEW Seeds, NEW j \in Jobs, NEW s \in Seeds
  PROVE  /\ StoppedWith(Coalgebra(j, s).left) \in StepsOver(Seeds)
         /\ In(Coalgebra(j, s).right) \in StepsOver(Seeds)
         /\ Out(Coalgebra(j, s).right) \in StepsOver(Seeds)
<1>1. StoppedWith(Coalgebra(j, s).left)
        \in {StoppedWith(Coalgebra(i, t).left) : i \in Jobs, t \in Seeds}
  OBVIOUS
<1>2. In(Coalgebra(j, s).right) \in {In(Coalgebra(i, t).right) : i \in Jobs, t \in Seeds}
  OBVIOUS
<1>3. Out(Coalgebra(j, s).right) \in {Out(Coalgebra(i, t).right) : i \in Jobs, t \in Seeds}
  OBVIOUS
<1> QED BY <1>1, <1>2, <1>3 DEF StepsOver

(* h is the walk over each seed of call j. *)
WalksCall(h, j, Seeds) ==
  /\ h \in [Seeds -> Seq(StepsOver(Seeds))]
  /\ \A s \in Seeds : h[s] = WalkBy(h, j, s, StepsOver(Seeds))

LEMMA OneWalkPerCall ==
  ASSUME NEW Seeds, NEW Layers, NEW Results, Typed(Jobs, Seeds, Layers, Results),
         NEW size, Founded(size, Seeds), NEW j \in Jobs
  PROVE  \E h : WalksCall(h, j, Seeds)
<1> DEFINE Steps == StepsOver(Seeds)
<1>0. \A s \in Seeds : /\ StoppedWith(Coalgebra(j, s).left) \in Steps
                       /\ In(Coalgebra(j, s).right) \in Steps
                       /\ Out(Coalgebra(j, s).right) \in Steps
  BY StepsAreThere
<1>1. \A s \in Seeds : Coalgebra(j, s).side # "Left" => Coalgebra(j, s).side = "Right"
  BY DEF Founded
<1> HIDE DEF Steps
<1> DEFINE R == Seq(Steps)
<1>2. PICK F : F = [s \in Seeds |-> [g \in [Seeds -> R] |-> WalkBy(g, j, s, Steps)]]
  OBVIOUS
<1>3. \A s \in Seeds : \A g \in [Seeds -> R] : F[s][g] = WalkBy(g, j, s, Steps)
  BY <1>2
<1>4. PICK rank : rank = size[j]
  OBVIOUS
<1>5. <<>> \in R
  BY EmptySeq
<1>6. AsksOnlySmaller(F, rank, Seeds, R)
  <2>1. rank \in [Seeds -> Nat]
    BY <1>4 DEF Founded
  <2>2. ASSUME NEW s \in Seeds, NEW g \in [Seeds -> R] PROVE WalkBy(g, j, s, Steps) \in R
    <3>1. CASE Coalgebra(j, s).side = "Left"
      <4>1. <<StoppedWith(Coalgebra(j, s).left)>> \in R
        BY <1>0
      <4> QED BY <3>1, <4>1 DEF WalkBy
    <3>2. CASE Coalgebra(j, s).side # "Left"
      <4>1. PICK layer : layer = Coalgebra(j, s).right
        OBVIOUS
      <4>2. layer.kids \in Seq(Seeds) /\ Len(layer.kids) \in Nat
        BY <1>1, <3>2, <4>1, LenProperties DEF Typed
      <4>3. In(layer) \in Steps /\ <<Out(layer)>> \in R
        BY <1>0, <4>1
      <4>4. Parts(g, layer, Steps) \in [Nat -> R]
        BY <4>2, <4>3, PartsArePartsOf DEF PartsOf
      <4>5. Parts(g, layer, Steps)[Len(layer.kids)] \in R
        BY <4>2, <4>4
      <4>6. Parts(g, layer, Steps)[Len(layer.kids)] \o <<Out(layer)>> \in R
        BY <4>3, <4>5
      <4> QED BY <3>2, <4>1, <4>6 DEF WalkBy
    <3> QED BY <3>1, <3>2
  <2>3. F \in [Seeds -> [[Seeds -> R] -> R]]
    <3> HIDE DEF R
    <3> QED BY <1>2, <2>2
  <2>4. ASSUME NEW s \in Seeds, NEW g \in [Seeds -> R], NEW h \in [Seeds -> R],
               \A t \in Seeds : rank[t] < rank[s] => g[t] = h[t]
        PROVE  F[s][g] = F[s][h]
    <3>1. CASE Coalgebra(j, s).side = "Left"
      BY <1>3, <3>1 DEF WalkBy
    <3>2. CASE Coalgebra(j, s).side # "Left"
      <4>1. PICK layer : layer = Coalgebra(j, s).right
        OBVIOUS
      <4>2. layer.kids \in Seq(Seeds) /\ In(layer) \in Steps
        BY <1>0, <1>1, <3>2, <4>1 DEF Typed
      <4>3. \A k \in 1..Len(layer.kids) : layer.kids[k] \in Seeds
        BY <4>2, KidsHaveValues
      <4>4. \A k \in 1..Len(layer.kids) : rank[layer.kids[k]] < rank[s]
        BY <1>1, <1>4, <3>2, <4>1 DEF Founded
      <4>5. \A k \in 1..Len(layer.kids) : g[layer.kids[k]] = h[layer.kids[k]]
        BY <2>4, <4>3, <4>4
      <4>6. Len(layer.kids) \in Nat
        BY <4>2, LenProperties
      <4>7. \A q : \A n \in Nat : PartAt(q, n, g, layer) = PartAt(q, n, h, layer)
        <5> SUFFICES ASSUME NEW q, NEW n \in Nat
                     PROVE  PartAt(q, n, g, layer) = PartAt(q, n, h, layer)
          OBVIOUS
        <5>1. CASE n \in 1..Len(layer.kids)
          <6>1. g[layer.kids[n]] = h[layer.kids[n]]
            BY <4>5, <5>1
          <6> QED BY <6>1 DEF PartAt
        <5>2. CASE n \notin 1..Len(layer.kids)
          <6>1. n = 0 \/ ~(n <= Len(layer.kids))
            BY <4>6, <5>2
          <6> QED BY <6>1 DEF PartAt
        <5> QED BY <5>1, <5>2
      <4>8. PartsOf(Parts(g, layer, Steps), g, layer, Steps)
        BY <4>2, PartsArePartsOf
      <4>9. PartsOf(Parts(g, layer, Steps), h, layer, Steps)
        BY <4>7, <4>8 DEF PartsOf
      <4>10. Parts(g, layer, Steps) = Parts(h, layer, Steps)
        BY <4>2, <4>9, PartsArePartsOf
      <4> QED BY <1>3, <4>1, <4>10 DEF WalkBy
    <3> QED BY <3>1, <3>2
  <2> QED BY <2>1, <2>3, <2>4 DEF AsksOnlySmaller
<1> HIDE DEF R
<1>7. HasOneSolution(F, Seeds, R)
  BY <1>5, <1>6, OneSolution
<1>8. PICK h \in [Seeds -> R] : \A s \in Seeds : h[s] = F[s][h]
  BY <1>7, Zenon DEF HasOneSolution
<1> QED BY <1>3, <1>8 DEF WalksCall, R, Steps

(***************************************************************************)
(* Where the layers get smaller, what a scheme is to walk over is there:   *)
(* some W is the walk the coalgebra tells from each seed, in, the          *)
(* children's walks front to back, and out.                                *)
(***************************************************************************)
THEOREM WalkExists ==
  ASSUME NEW Seeds, NEW Layers, NEW Results, Typed(Jobs, Seeds, Layers, Results),
         NEW size, Founded(size, Seeds)
  PROVE  \E W, P, Steps : WalksOver(W, P, Jobs, Seeds, Steps)
<1> DEFINE Steps == StepsOver(Seeds)
           R == Seq(Steps)
           Over(j) == CHOOSE h : WalksCall(h, j, Seeds)
<1>1. \A j \in Jobs : WalksCall(Over(j), j, Seeds)
  <2> SUFFICES ASSUME NEW j \in Jobs PROVE WalksCall(Over(j), j, Seeds)
    OBVIOUS
  <2>1. \E h : WalksCall(h, j, Seeds)
    BY OneWalkPerCall
  <2> QED BY <2>1, Zenon
<1>2. \A j \in Jobs : \A s \in Seeds :
         /\ StoppedWith(Coalgebra(j, s).left) \in Steps
         /\ In(Coalgebra(j, s).right) \in Steps
         /\ Out(Coalgebra(j, s).right) \in Steps
  BY StepsAreThere
<1> HIDE DEF Over
<1>3. PICK W : W = [j \in Jobs |-> Over(j)]
  OBVIOUS
<1> DEFINE PartsAt(j, s) ==
             IF Coalgebra(j, s).side = "Left" THEN [n \in Nat |-> <<>>]
             ELSE Parts(W[j], Coalgebra(j, s).right, Steps)
<1>4. PICK P : P = [j \in Jobs |-> [s \in Seeds |-> PartsAt(j, s)]]
  OBVIOUS
<1>5. \A j \in Jobs : W[j] = Over(j) /\ \A s \in Seeds : P[j][s] = PartsAt(j, s)
  BY <1>3, <1>4
<1>6. \A j \in Jobs : /\ W[j] \in [Seeds -> R]
                      /\ \A s \in Seeds : W[j][s] = WalkBy(W[j], j, s, Steps)
  BY <1>1, <1>5 DEF WalksCall
<1>7. ASSUME NEW j \in Jobs, NEW s \in Seeds
      PROVE  /\ P[j][s] \in [Nat -> R]
             /\ Coalgebra(j, s).side = "Left" =>
                  W[j][s] = <<StoppedWith(Coalgebra(j, s).left)>>
             /\ Coalgebra(j, s).side = "Right" =>
                  /\ P[j][s][0] = <<In(Coalgebra(j, s).right)>>
                  /\ \A k \in 1..Len(Coalgebra(j, s).right.kids) :
                       P[j][s][k] = P[j][s][k - 1] \o W[j][Coalgebra(j, s).right.kids[k]]
                  /\ W[j][s] = P[j][s][Len(Coalgebra(j, s).right.kids)]
                                 \o <<Out(Coalgebra(j, s).right)>>
  <2>1. CASE Coalgebra(j, s).side = "Left"
    <3>1. P[j][s] = [n \in Nat |-> <<>>]
      BY <1>5, <2>1
    <3>2. <<>> \in R
      BY EmptySeq
    <3>3. P[j][s] \in [Nat -> R]
      BY <3>1, <3>2
    <3>4. W[j][s] = <<StoppedWith(Coalgebra(j, s).left)>>
      BY <1>6, <2>1 DEF WalkBy
    <3> QED BY <2>1, <3>3, <3>4
  <2>2. CASE Coalgebra(j, s).side = "Right"
    <3>1. PICK layer : layer = Coalgebra(j, s).right
      OBVIOUS
    <3>2. layer.kids \in Seq(Seeds) /\ Len(layer.kids) \in Nat /\ In(layer) \in Steps
      BY <1>2, <2>2, <3>1, LenProperties DEF Typed
    <3>3. PICK g \in [Seeds -> R] : g = W[j]
      BY <1>6
    <3>4. PICK p : p = P[j][s] /\ p = Parts(g, layer, Steps)
      BY <1>5, <2>2, <3>1, <3>3
    <3>5. PartsOf(p, g, layer, Steps)
      <4> HIDE DEF Steps
      <4>1. PartsOf(Parts(g, layer, Steps), g, layer, Steps)
        BY <3>2, PartsArePartsOf
      <4> QED BY <3>4, <4>1
    <3>6. p \in [Nat -> R] /\ \A n \in Nat : p[n] = PartAt(p, n, g, layer)
      BY <3>5 DEF PartsOf
    <3>7. p[0] = <<In(layer)>>
      BY <3>6 DEF PartAt
    <3>8. ASSUME NEW k \in 1..Len(layer.kids) PROVE p[k] = p[k - 1] \o g[layer.kids[k]]
      <4>1. k \in Nat /\ k # 0 /\ k <= Len(layer.kids)
        BY <3>2
      <4>2. p[k] = PartAt(p, k, g, layer)
        BY <3>6, <4>1
      <4> QED BY <4>1, <4>2 DEF PartAt
    <3>9. W[j][s] = p[Len(layer.kids)] \o <<Out(layer)>>
      BY <1>6, <2>2, <3>1, <3>3, <3>4 DEF WalkBy
    <3> QED BY <2>2, <3>1, <3>3, <3>4, <3>6, <3>7, <3>8, <3>9
  <2> QED BY <2>1, <2>2 DEF Founded
<1>8. W \in [Jobs -> [Seeds -> R]] /\ P \in [Jobs -> [Seeds -> [Nat -> R]]]
  <2> HIDE DEF R, PartsAt
  <2>1. W \in [Jobs -> [Seeds -> R]]
    BY <1>3, <1>5, <1>6
  <2>2. \A j \in Jobs : \A s \in Seeds : PartsAt(j, s) \in [Nat -> R]
    BY <1>5, <1>7
  <2>3. P \in [Jobs -> [Seeds -> [Nat -> R]]]
    BY <1>4, <2>2
  <2> QED BY <2>1, <2>3
<1>9. WalksOver(W, P, Jobs, Seeds, Steps)
  <2> HIDE DEF Steps, PartsAt
  <2> QED BY <1>2, <1>7, <1>8 DEF WalksOver
<1> QED BY <1>9

-----------------------------------------------------------------------------
(* The walk at any time is a beginning of the walk that the call is to make. *)

Starts(p, w, Steps) == \E t \in Seq(Steps) : w = p \o t

LEMMA StartsItself ==
  ASSUME NEW Steps, NEW w \in Seq(Steps)
  PROVE  Starts(w, w, Steps)
<1>1. <<>> \in Seq(Steps) /\ w = w \o <<>>
  BY EmptySeq, ConcatEmptySeq
<1> QED BY <1>1 DEF Starts

LEMMA StartsOn ==
  ASSUME NEW Steps, NEW p \in Seq(Steps), NEW q \in Seq(Steps), NEW w,
         Starts(p, q, Steps), Starts(q, w, Steps)
  PROVE  Starts(p, w, Steps)
<1>1. PICK t \in Seq(Steps) : q = p \o t
  BY Zenon DEF Starts
<1>2. PICK u \in Seq(Steps) : w = q \o u
  BY Zenon DEF Starts
<1>3. t \o u \in Seq(Steps)
  BY ConcatProperties
<1>4. Joins(Steps)
  BY Joining, Zenon
<1>5. (p \o t) \o u = p \o (t \o u)
  BY <1>4, Zenon DEF Joins
<1>6. w = p \o (t \o u)
  BY <1>1, <1>2, <1>5, Zenon
<1> QED BY <1>3, <1>6, Zenon DEF Starts

LEMMA StartsAfter ==
  ASSUME NEW Steps, NEW a \in Seq(Steps), NEW p \in Seq(Steps), NEW w,
         Starts(p, w, Steps)
  PROVE  Starts(a \o p, a \o w, Steps)
<1>1. PICK t \in Seq(Steps) : w = p \o t
  BY Zenon DEF Starts
<1>2. Joins(Steps)
  BY Joining, Zenon
<1>3. a \o w = (a \o p) \o t
  BY <1>1, <1>2, Zenon DEF Joins
<1> QED BY <1>3, Zenon DEF Starts

(* An activation's part of the walk begins the walk over its seed. *)
LEMMA PartStarts ==
  ASSUME NEW Calls, NEW Seeds, NEW Layers, NEW Results,
         Typed(Calls, Seeds, Layers, Results),
         NEW Steps, NEW W, NEW P, WalksOver(W, P, Calls, Seeds, Steps),
         job \in Calls, NEW s \in Seeds, Coalgebra(job, s).side = "Right",
         NEW m \in Nat, m <= Len(Coalgebra(job, s).right.kids)
  PROVE  Starts(P[job][s][m], W[job][s], Steps)
<1>1. PICK n : n = Len(Coalgebra(job, s).right.kids)
  OBVIOUS
<1>2. n \in Nat /\ m <= n
  <2>1. Coalgebra(job, s).right.kids \in Seq(Seeds)
    BY DEF Typed
  <2> QED BY <1>1, <2>1, LenProperties
<1>3. PICK p : p = P[job][s]
  OBVIOUS
<1>4. \A k \in Nat : p[k] \in Seq(Steps)
  BY <1>3, WalksAt
<1>5. ASSUME NEW k \in 1..n PROVE Starts(p[k - 1], p[k], Steps)
  <2>1. PICK t : t = Coalgebra(job, s).right.kids[k]
    OBVIOUS
  <2>2. t \in Seeds
    BY <1>1, <2>1, ElementOfSeq DEF Typed
  <2>3. p[k] = p[k - 1] \o W[job][t]
    BY <1>1, <1>3, <2>1 DEF WalksOver
  <2>4. W[job][t] \in Seq(Steps)
    BY <2>2, WalksAt
  <2> QED BY <2>3, <2>4, Zenon DEF Starts
<1>6. Starts(p[n], W[job][s], Steps)
  <2>1. PICK layer : layer = Coalgebra(job, s).right
    OBVIOUS
  <2>2. W[job][s] = p[n] \o <<Out(layer)>> /\ Out(layer) \in Steps
    BY <1>1, <1>3, <2>1 DEF WalksOver
  <2>3. <<Out(layer)>> \in Seq(Steps)
    BY <2>2
  <2> QED BY <2>2, <2>3, Zenon DEF Starts
<1> DEFINE Upward == {d \in Nat : d <= n => Starts(p[n - d], W[job][s], Steps)}
<1>7. \A d \in Nat : d \in Upward
  <2>1. 0 \in Upward
    <3>1. n - 0 = n
      BY <1>2
    <3> QED BY <1>6, <3>1
  <2>2. ASSUME NEW d \in Nat, d \in Upward PROVE d + 1 \in Upward
    <3> SUFFICES ASSUME d + 1 <= n PROVE Starts(p[n - (d + 1)], W[job][s], Steps)
      OBVIOUS
    <3>1. PICK k : k = n - d
      OBVIOUS
    <3>2. k \in 1..n /\ k - 1 = n - (d + 1) /\ k - 1 \in Nat /\ k \in Nat /\ d <= n
      BY <1>2, <3>1
    <3>3. Starts(p[k], W[job][s], Steps)
      BY <2>2, <3>1, <3>2
    <3>4. Starts(p[k - 1], p[k], Steps)
      BY <1>5, <3>2
    <3>5. p[k - 1] \in Seq(Steps) /\ p[k] \in Seq(Steps)
      BY <1>4, <3>2
    <3>6. Starts(p[k - 1], W[job][s], Steps)
      BY <3>3, <3>4, <3>5, StartsOn
    <3> QED BY <3>2, <3>6
  <2> HIDE DEF Upward
  <2> QED BY <2>1, <2>2, Inductive
<1>8. n - m \in Nat /\ n - m <= n /\ n - (n - m) = m
  BY <1>2
<1>9. n - m \in Upward
  BY <1>7, <1>8
<1>10. Starts(p[n - (n - m)], W[job][s], Steps)
  BY <1>8, <1>9
<1> QED BY <1>3, <1>8, <1>10

(* The walk so far, and then the one over the seed of the activation at i, begins the *)
(* whole walk; the one over an activation's seed is made of the walk so far in it,    *)
(* and of the one over the seed of the activation above.                              *)
LEMMA WalkSoFarStarts ==
  ASSUME NEW Calls, NEW Seeds, NEW Layers, NEW Results,
         Typed(Calls, Seeds, Layers, Results),
         NEW Steps, NEW W, NEW P, WalksOver(W, P, Calls, Seeds, Steps),
         Shape(Calls, Seeds, Layers, Results), Linked, Walked(W, P, Steps)
  PROVE  Starts(walk, W[job][SeedOf(job)], Steps)
<1>1. PICK n : n = Len(stack)
  OBVIOUS
<1>2. PICK whole : whole = W[job][SeedOf(job)]
  OBVIOUS
<1>3. n \in Nat /\ job \in Calls /\ whole \in Seq(Steps)
  BY <1>1, <1>2, LenProperties, WalksAt DEF Shape, Typed
<1>4. CASE answer # <<>>
  BY <1>2, <1>3, <1>4, StartsItself DEF Walked
<1>5. CASE answer = <<>>
  <2>1. PICK pre \in [0..n -> Seq(Steps)] : Partial(stack, pre, P, Steps) /\ walk = pre[n]
    BY <1>1, <1>5, Zenon DEF Walked
  <2>2. \A i \in 0..n : pre[i] \in Seq(Steps)
    BY <2>1
  <2>3. ASSUME NEW i \in 1..n
        PROVE  /\ stack[i].seed \in Seeds /\ Len(stack[i].done) \in Nat
               /\ Coalgebra(job, stack[i].seed).side = "Right"
               /\ stack[i].layer = Coalgebra(job, stack[i].seed).right
               /\ Len(stack[i].done) <= Len(stack[i].layer.kids)
               /\ Len(stack[i].layer.kids) \in Nat
    <3>1. stack[i] \in Activations(Seeds, Layers, Results)
      BY <1>1, ElementOfSeq DEF Shape
    <3>2. stack[i].layer.kids \in Seq(Seeds)
      BY <3>1 DEF Activations, Typed
    <3>3. stack[i].seed \in Seeds /\ stack[i].done \in Seq(Results)
      BY <3>1 DEF Activations
    <3>4. Len(stack[i].done) <= Len(stack[i].layer.kids)
      BY <1>1 DEF Linked
    <3> QED BY <1>1, <3>2, <3>3, <3>4, LenProperties DEF Walked
  <2>4. ASSUME NEW i \in 1..n
        PROVE  /\ pre[i] = pre[i - 1] \o P[job][stack[i].seed][Len(stack[i].done)]
               /\ Starts(pre[i], pre[i - 1] \o W[job][stack[i].seed], Steps)
    <3>1. PICK p : p = P[job][stack[i].seed][Len(stack[i].done)]
      OBVIOUS
    <3>2. pre[i] = pre[i - 1] \o p
      BY <1>1, <2>1, <3>1 DEF Partial
    <3>3. p \in Seq(Steps)
      BY <1>3, <2>3, <3>1, WalksAt
    <3>4. Starts(p, W[job][stack[i].seed], Steps)
      BY <1>3, <2>3, <3>1, PartStarts
    <3>5. i - 1 \in 0..n
      BY <1>3
    <3>6. pre[i - 1] \in Seq(Steps)
      BY <2>2, <3>5
    <3>7. Starts(pre[i - 1] \o p, pre[i - 1] \o W[job][stack[i].seed], Steps)
      BY <3>3, <3>4, <3>6, StartsAfter
    <3> QED BY <3>1, <3>2, <3>7
  <2> DEFINE Begun == {i \in Nat : i + 1 <= n =>
                         Starts(pre[i] \o W[job][stack[i + 1].seed], whole, Steps)}
  <2>5. 0 \in Begun
    <3> SUFFICES ASSUME 1 <= n PROVE Starts(pre[0] \o W[job][stack[1].seed], whole, Steps)
      OBVIOUS
    <3>1. stack[1].seed = SeedOf(job)
      BY <1>1, <1>3 DEF Linked
    <3>2. pre[0] = <<>>
      BY <2>1 DEF Partial
    <3>3. pre[0] \o W[job][stack[1].seed] = whole
      BY <1>2, <1>3, <3>1, <3>2, ConcatEmptySeq
    <3> QED BY <1>3, <3>3, StartsItself
  <2>6. ASSUME NEW i \in Nat, i \in Begun PROVE i + 1 \in Begun
    <3> SUFFICES ASSUME (i + 1) + 1 <= n
                 PROVE  Starts(pre[i + 1] \o W[job][stack[(i + 1) + 1].seed], whole, Steps)
      OBVIOUS
    <3>1. PICK k : k = i + 1
      OBVIOUS
    <3>2. k \in 1..n /\ k + 1 \in 1..n /\ k + 1 > 1 /\ (k + 1) - 1 = k /\ k - 1 = i /\ i \in 0..n
      BY <1>3, <3>1
    <3>3. PICK d \in Nat : d = Len(stack[k].done)
      BY <2>3, <3>2
    <3>4. PICK s \in Seeds : s = stack[k].seed
      BY <2>3, <3>2
    <3>5. PICK t : t = stack[k + 1].seed
      OBVIOUS
    <3>6. t = stack[k].layer.kids[d + 1] /\ ~Complete(stack[k])
      <4>1. ~Complete(stack[(k + 1) - 1]) /\ stack[k + 1].seed = ChildOf(stack[(k + 1) - 1])
        BY <1>1, <3>2 DEF Linked
      <4> QED BY <3>2, <3>3, <3>5, <4>1 DEF ChildOf
    <3>7. d + 1 \in 1..Len(stack[k].layer.kids)
      <4>1. PICK m \in Nat : m = Len(stack[k].layer.kids)
        BY <2>3, <3>2
      <4>2. d <= m
        BY <2>3, <3>2, <3>3, <4>1
      <4>3. d # m
        BY <3>3, <3>6, <4>1 DEF Complete
      <4>4. d + 1 \in 1..m
        BY <4>2, <4>3
      <4> QED BY <4>1, <4>4
    <3>8. Coalgebra(job, s).side = "Right" /\ stack[k].layer = Coalgebra(job, s).right
      BY <2>3, <3>2, <3>4
    <3>9. PICK p, q : p = P[job][s][d] /\ q = P[job][s][d + 1]
      OBVIOUS
    <3>10. q = p \o W[job][t]
      <4>1. \A m \in 1..Len(Coalgebra(job, s).right.kids) :
              P[job][s][m] = P[job][s][m - 1] \o W[job][Coalgebra(job, s).right.kids[m]]
        BY <1>3, <3>8 DEF WalksOver
      <4>2. (d + 1) - 1 = d
        OBVIOUS
      <4> QED BY <3>6, <3>7, <3>8, <3>9, <4>1, <4>2
    <3>11. t \in Seeds
      BY <2>3, <3>2, <3>5
    <3>12. p \in Seq(Steps) /\ q \in Seq(Steps) /\ W[job][t] \in Seq(Steps)
           /\ W[job][s] \in Seq(Steps)
      BY <1>3, <3>9, <3>11, WalksAt
    <3>13. Starts(q, W[job][s], Steps)
      BY <1>3, <3>7, <3>8, <3>9, PartStarts
    <3>14. pre[i] \in Seq(Steps)
      BY <2>2, <3>2
    <3>15. Starts(pre[i] \o q, pre[i] \o W[job][s], Steps)
      BY <3>12, <3>13, <3>14, StartsAfter
    <3>16. Starts(pre[i] \o W[job][s], whole, Steps)
      BY <2>6, <3>1, <3>2, <3>4
    <3>17. pre[i] \o q \in Seq(Steps) /\ pre[i] \o W[job][s] \in Seq(Steps)
      BY <3>12, <3>14, ConcatProperties
    <3>18. Starts(pre[i] \o q, whole, Steps)
      BY <3>15, <3>16, <3>17, StartsOn
    <3>19. pre[k] = pre[i] \o p
      BY <2>4, <3>2, <3>3, <3>4, <3>9
    <3>20. pre[k] \o W[job][t] = pre[i] \o q
      <4>1. Joins(Steps)
        BY Joining, Zenon
      <4>2. (pre[i] \o p) \o W[job][t] = pre[i] \o (p \o W[job][t])
        BY <3>12, <3>14, <4>1, Zenon DEF Joins
      <4> QED BY <3>10, <3>19, <4>2, Zenon
    <3> QED BY <3>1, <3>5, <3>18, <3>20
  <2>7. \A i \in Nat : i \in Begun
    <3> HIDE DEF Begun
    <3> QED BY <2>5, <2>6, Inductive
  <2>8. CASE n = 0
    <3>1. walk = <<>>
      BY <2>1, <2>8 DEF Partial
    <3>2. whole = walk \o whole
      BY <1>3, <3>1, ConcatEmptySeq
    <3> QED BY <1>2, <1>3, <3>2, Zenon DEF Starts
  <2>9. CASE n > 0
    <3>1. PICK i : i = n - 1
      OBVIOUS
    <3>2. i \in Nat /\ i + 1 = n /\ n \in 1..n /\ i \in 0..n /\ n \in 0..n
      BY <1>3, <2>9, <3>1
    <3>3. PICK w : w = W[job][stack[n].seed]
      OBVIOUS
    <3>4. w \in Seq(Steps)
      BY <1>3, <2>3, <3>2, <3>3, WalksAt
    <3>5. pre[i] \in Seq(Steps) /\ pre[n] \in Seq(Steps)
      BY <2>2, <3>2
    <3>6. Starts(pre[n], pre[i] \o w, Steps)
      BY <2>4, <3>1, <3>2, <3>3
    <3>7. Starts(pre[i] \o w, whole, Steps)
      BY <2>7, <3>2, <3>3
    <3>8. pre[i] \o w \in Seq(Steps)
      BY <3>4, <3>5, ConcatProperties
    <3>9. Starts(pre[n], whole, Steps)
      BY <3>5, <3>6, <3>7, <3>8, StartsOn
    <3> QED BY <1>2, <2>1, <3>9
  <2> QED BY <1>3, <2>8, <2>9
<1> QED BY <1>4, <1>5

(***************************************************************************)
(* A scheme never goes astray: what it has walked is at every moment a     *)
(* beginning of the walk that the coalgebra tells from the caller's seed.  *)
(* So no layer is entered out of its turn, nor twice, in a call that has   *)
(* not answered yet, and a call is never longer than that walk.            *)
(***************************************************************************)
THEOREM NeverAstray ==
  ASSUME NEW Seeds, NEW Layers, NEW Results, Typed(Jobs, Seeds, Layers, Results),
         NEW Steps, NEW W, NEW P, WalksOver(W, P, Jobs, Seeds, Steps)
  PROVE  Spec => [](Starts(walk, W[job][SeedOf(job)], Steps))
<1> DEFINE IInv == Shape(Jobs, Seeds, Layers, Results) /\ Linked /\ Walked(W, P, Steps)
<1>1. Init => IInv
  BY InitLinked, InitWalked DEF Init
<1>2. IInv /\ [Next]_vars => IInv'
  BY StepLinked, StepWalked
<1>3. IInv => Starts(walk, W[job][SeedOf(job)], Steps)
  BY WalkSoFarStarts
<1> QED BY <1>1, <1>2, <1>3, PTL DEF Spec

(***************************************************************************)
(* No call takes more steps than its walk is long: were it to go on for    *)
(* ever, the walk would have to grow past it.                              *)
(***************************************************************************)
THEOREM CallsAreFinite ==
  ASSUME NEW Seeds, NEW Layers, NEW Results, Typed(Jobs, Seeds, Layers, Results),
         NEW Steps, NEW W, NEW P, WalksOver(W, P, Jobs, Seeds, Steps)
  PROVE  /\ Spec => [](Len(walk) <= Len(W[job][SeedOf(job)]))
         /\ Spec => [][Len(walk') = Len(walk) + 1]_vars
<1> DEFINE IInv == Shape(Jobs, Seeds, Layers, Results) /\ Linked /\ Walked(W, P, Steps)
           whole == W[job][SeedOf(job)]
<1>1. Init => IInv
  BY InitLinked, InitWalked DEF Init
<1>2. IInv /\ [Next]_vars => IInv'
  BY StepLinked, StepWalked
<1>3. IInv => walk \in Seq(Steps) /\ Len(walk) <= Len(whole)
  <2> SUFFICES ASSUME IInv PROVE walk \in Seq(Steps) /\ Len(walk) <= Len(whole)
    OBVIOUS
  <2>1. Starts(walk, whole, Steps)
    BY WalkSoFarStarts
  <2>2. PICK t \in Seq(Steps) : whole = walk \o t
    BY <2>1, Zenon DEF Starts
  <2>3. walk \in Seq(Steps)
    <3>1. CASE answer # <<>>
      <4>1. job \in Jobs /\ SeedOf(job) \in Seeds
        BY DEF Shape, Typed
      <4> QED BY <3>1, <4>1, WalksAt DEF Walked
    <3>2. CASE answer = <<>>
      <4>1. PICK pre \in [0..Len(stack) -> Seq(Steps)] :
              Partial(stack, pre, P, Steps) /\ walk = pre[Len(stack)]
        BY <3>2, Zenon DEF Walked
      <4>2. Len(stack) \in 0..Len(stack)
        BY LenProperties DEF Shape
      <4> QED BY <4>1, <4>2
    <3> QED BY <3>1, <3>2
  <2>4. Len(walk) \in Nat /\ Len(t) \in Nat /\ Len(whole) = Len(walk) + Len(t)
    <3> HIDE DEF whole
    <3> QED BY <2>2, <2>3, ConcatProperties, LenProperties
  <2> QED BY <2>3, <2>4
<1>4. IInv /\ [Next]_vars => [Len(walk') = Len(walk) + 1]_vars
  <2> SUFFICES ASSUME IInv, Next PROVE Len(walk') = Len(walk) + 1
    OBVIOUS
  <2>1. walk \in Seq(Steps)
    BY <1>3
  <2>2. PICK e : walk' = Append(walk, e)
    BY DEF Next, Expand, Stop, Collapse
  <2>3. walk \in Seq(Steps \cup {e}) /\ e \in Steps \cup {e}
    BY <2>1
  <2> QED BY <2>2, <2>3, AppendProperties
<1>5. IInv => Len(walk) <= Len(whole)
  BY <1>3
<1> QED BY <1>1, <1>2, <1>4, <1>5, PTL DEF Spec

-----------------------------------------------------------------------------
(***************************************************************************)
(* What call j is to answer and to walk, by the equation of its scheme.    *)
(***************************************************************************)
AnswersBy(h, j, Seeds, Layers, Results) ==
  /\ Typed({j}, Seeds, Layers, Results)
  /\ SolvesCall(h, j, Seeds, Results)
  /\ OwedAnswer(j) = Finish(j, h[SeedOf(j)])

Answers(j) == \E Seeds, Layers, Results, h : AnswersBy(h, j, Seeds, Layers, Results)

(* A solution of one call's equation, as one of all the calls'. *)
LEMMA SolvesOne ==
  ASSUME NEW j, NEW Seeds, NEW Results, NEW h, SolvesCall(h, j, Seeds, Results)
  PROVE  Solves([i \in {j} |-> h], {j}, Seeds, Results)
<1> DEFINE H == [i \in {j} |-> h]
<1>1. H \in [{j} -> [Seeds -> Results]] /\ H[j] = h
  BY DEF SolvesCall
<1>2. ASSUME NEW s \in Seeds
      PROVE  /\ Coalgebra(j, s).side = "Left" => h[s] = Coalgebra(j, s).left
             /\ Coalgebra(j, s).side = "Right" =>
                  h[s] = Algebra(j, s, Filled(Coalgebra(j, s).right,
                          [k \in 1..Len(Coalgebra(j, s).right.kids) |->
                             h[Coalgebra(j, s).right.kids[k]]]))
  BY DEF SolvesCall, ValueBy, OfKids
<1> HIDE DEF H
<1>3. \A i \in {j} : i = j
  OBVIOUS
<1> QED BY <1>1, <1>2, <1>3 DEF Solves, H

(* The inductive invariant: job is one of the calls, and its results are the equation's. *)
Answering(S, L, R, h, j) ==
  /\ job = j
  /\ Shape({j}, S, L, R)
  /\ Linked
  /\ Delivered([i \in {j} |-> h])

(* It holds when a call is made, and every step keeps it. *)
LEMMA InitAnswering ==
  ASSUME NEW j, NEW S, NEW L, NEW R, NEW h, Init, job = j
  PROVE  Answering(S, L, R, h, j)
BY InitLinked, InitDelivers DEF Answering

LEMMA StepAnswering ==
  ASSUME NEW j, NEW S, NEW L, NEW R, NEW h,
         AnswersBy(h, j, S, L, R), Answering(S, L, R, h, j), [Next]_vars
  PROVE  Answering(S, L, R, h, j)'
<1> DEFINE H == [i \in {j} |-> h]
<1>1. Solves(H, {j}, S, R) /\ Typed({j}, S, L, R)
  BY SolvesOne DEF AnswersBy
<1>2. Shape({j}, S, L, R)' /\ Linked'
  BY <1>1, StepLinked DEF Answering
<1>3. Delivered(H)'
  BY <1>1, StepDelivers DEF Answering
<1>4. job' = job
  BY DEF Next, Expand, Stop, Collapse, vars
<1> QED BY <1>2, <1>3, <1>4 DEF Answering

(***************************************************************************)
(* The algebra and coalgebra of a scheme settle its answer: where each     *)
(* call has a solution of the equation they make, and owes what that says  *)
(* of its first seed, what it returns is that.                             *)
(***************************************************************************)
THEOREM AnswersAreOwed ==
  ASSUME \A j \in Jobs : Answers(j)
  PROVE  Spec => []AnswerMeetsEquation
<1> DEFINE IInv == \E S, L, R, h, j : AnswersBy(h, j, S, L, R) /\ Answering(S, L, R, h, j)
<1>1. Init => IInv
  <2> SUFFICES ASSUME Init PROVE IInv
    OBVIOUS
  <2>1. PICK j \in Jobs : job = j
    BY DEF Init
  <2>2. PICK S, L, R, h : AnswersBy(h, j, S, L, R)
    BY DEF Answers
  <2>3. Answering(S, L, R, h, j)
    BY <2>1, InitAnswering
  <2> QED BY <2>2, <2>3
<1>2. IInv /\ [Next]_vars => IInv'
  <2> SUFFICES ASSUME IInv, [Next]_vars PROVE IInv'
    OBVIOUS
  <2>1. PICK S, L, R, h, j : AnswersBy(h, j, S, L, R) /\ Answering(S, L, R, h, j)
    OBVIOUS
  <2>2. Answering(S, L, R, h, j)'
    BY <2>1, StepAnswering
  <2>3. AnswersBy(h, j, S, L, R)'
    BY <2>1 DEF AnswersBy, Typed, SolvesCall, ValueBy
  <2> QED BY <2>2, <2>3
<1>3. IInv => AnswerMeetsEquation
  <2> SUFFICES ASSUME IInv, answer # <<>> PROVE answer[1] = OwedAnswer(job)
    BY DEF AnswerMeetsEquation
  <2>1. PICK S, L, R, h, j : AnswersBy(h, j, S, L, R) /\ Answering(S, L, R, h, j)
    OBVIOUS
  <2> DEFINE H == [i \in {j} |-> h]
  <2>2. job = j /\ answer = <<Finish(job, H[job][SeedOf(job)])>> /\ H[j] = h
    BY <2>1 DEF Answering, Delivered
  <2>3. OwedAnswer(j) = Finish(j, h[SeedOf(j)])
    BY <2>1 DEF AnswersBy
  <2> QED BY <2>2, <2>3
<1> QED BY <1>1, <1>2, <1>3, PTL DEF Spec

(* w is the walk that call j is to make from each seed, p its parts. *)
WalksCallOver(w, p, j, Seeds, Steps) ==
  /\ w \in [Seeds -> Seq(Steps)]
  /\ p \in [Seeds -> [Nat -> Seq(Steps)]]
  /\ \A s \in Seeds :
       LET step == Coalgebra(j, s) IN
         /\ step.side = "Left" =>
              StoppedWith(step.left) \in Steps /\ w[s] = <<StoppedWith(step.left)>>
         /\ step.side = "Right" =>
              /\ In(step.right) \in Steps /\ Out(step.right) \in Steps
              /\ p[s][0] = <<In(step.right)>>
              /\ \A k \in 1..Len(step.right.kids) :
                   p[s][k] = p[s][k - 1] \o w[step.right.kids[k]]
              /\ w[s] = p[s][Len(step.right.kids)] \o <<Out(step.right)>>

WalksBy(w, p, Steps, j, Seeds, Layers, Results) ==
  /\ Typed({j}, Seeds, Layers, Results)
  /\ WalksCallOver(w, p, j, Seeds, Steps)
  /\ OwedSteps(j) = w[SeedOf(j)]

Walks(j) == \E Seeds, Layers, Results, Steps, w, p : WalksBy(w, p, Steps, j, Seeds, Layers, Results)

(* A walk of one call, as one of all the calls'. *)
LEMMA WalksOne ==
  ASSUME NEW j, NEW Seeds, NEW Steps, NEW w, NEW p, WalksCallOver(w, p, j, Seeds, Steps)
  PROVE  WalksOver([i \in {j} |-> w], [i \in {j} |-> p], {j}, Seeds, Steps)
<1> DEFINE W == [i \in {j} |-> w]
           P == [i \in {j} |-> p]
<1>1. W \in [{j} -> [Seeds -> Seq(Steps)]] /\ W[j] = w
  BY DEF WalksCallOver
<1>2. P \in [{j} -> [Seeds -> [Nat -> Seq(Steps)]]] /\ P[j] = p
  BY DEF WalksCallOver
<1>3. \A i \in {j} : i = j
  OBVIOUS
<1> HIDE DEF W, P
<1> QED BY <1>1, <1>2, <1>3, ZenonT(40) DEF WalksOver, WalksCallOver

(* The inductive invariant: job is one of the calls, and its walk is the one it owes. *)
Walking(S, L, R, Steps, w, p, j) ==
  /\ job = j
  /\ Shape({j}, S, L, R)
  /\ Linked
  /\ Walked([i \in {j} |-> w], [i \in {j} |-> p], Steps)

(* It holds when a call is made, and every step keeps it. *)
LEMMA InitWalking ==
  ASSUME NEW j, NEW S, NEW L, NEW R, NEW Steps, NEW w, NEW p, Init, job = j
  PROVE  Walking(S, L, R, Steps, w, p, j)
BY InitLinked, InitWalked DEF Walking

LEMMA StepWalking ==
  ASSUME NEW j, NEW S, NEW L, NEW R, NEW Steps, NEW w, NEW p,
         WalksBy(w, p, Steps, j, S, L, R), Walking(S, L, R, Steps, w, p, j), [Next]_vars
  PROVE  Walking(S, L, R, Steps, w, p, j)'
<1> DEFINE W == [i \in {j} |-> w]
           P == [i \in {j} |-> p]
<1>1. WalksOver(W, P, {j}, S, Steps) /\ Typed({j}, S, L, R)
  BY WalksOne DEF WalksBy
<1>2. Shape({j}, S, L, R)' /\ Linked'
  BY <1>1, StepLinked DEF Walking
<1>3. Walked(W, P, Steps)'
  BY <1>1, StepWalked DEF Walking
<1>4. job' = job
  BY DEF Next, Expand, Stop, Collapse, vars
<1> QED BY <1>2, <1>3, <1>4 DEF Walking

(***************************************************************************)
(* Likewise its walk: where each call owes the walk that the coalgebra     *)
(* tells from its first seed, it makes that one.                           *)
(***************************************************************************)
THEOREM WalksAreOwed ==
  ASSUME \A j \in Jobs : Walks(j)
  PROVE  Spec => []WalksOnce
<1> DEFINE IInv == \E S, L, R, Steps, w, p, j :
                     WalksBy(w, p, Steps, j, S, L, R) /\ Walking(S, L, R, Steps, w, p, j)
<1>1. Init => IInv
  <2> SUFFICES ASSUME Init PROVE IInv
    OBVIOUS
  <2>1. PICK j \in Jobs : job = j
    BY DEF Init
  <2>2. PICK S, L, R, Steps, w, p : WalksBy(w, p, Steps, j, S, L, R)
    BY DEF Walks
  <2>3. Walking(S, L, R, Steps, w, p, j)
    BY <2>1, InitWalking
  <2> QED BY <2>2, <2>3
<1>2. IInv /\ [Next]_vars => IInv'
  <2> SUFFICES ASSUME IInv, [Next]_vars PROVE IInv'
    OBVIOUS
  <2>1. PICK S, L, R, Steps, w, p, j :
          WalksBy(w, p, Steps, j, S, L, R) /\ Walking(S, L, R, Steps, w, p, j)
    OBVIOUS
  <2>2. Walking(S, L, R, Steps, w, p, j)'
    BY <2>1, StepWalking
  <2>3. WalksBy(w, p, Steps, j, S, L, R)'
    BY <2>1 DEF WalksBy, Typed, WalksCallOver
  <2> QED BY <2>2, <2>3
<1>3. IInv => WalksOnce
  <2> SUFFICES ASSUME IInv, answer # <<>> PROVE walk = OwedSteps(job)
    BY DEF WalksOnce
  <2>1. PICK S, L, R, Steps, w, p, j :
          WalksBy(w, p, Steps, j, S, L, R) /\ Walking(S, L, R, Steps, w, p, j)
    OBVIOUS
  <2> DEFINE W == [i \in {j} |-> w]
  <2>2. job = j /\ walk = W[job][SeedOf(job)] /\ W[j] = w
    BY <2>1 DEF Walking, Walked
  <2>3. OwedSteps(j) = w[SeedOf(j)]
    BY <2>1 DEF WalksBy
  <2> QED BY <2>2, <2>3
<1> QED BY <1>1, <1>2, <1>3, PTL DEF Spec

-----------------------------------------------------------------------------
(***************************************************************************)
(* A functor F says of each label how many children may be below it: any   *)
(* number for RoseF, one number a label for NatF, ListF, TreeF and ExprF.  *)
(***************************************************************************)
LayersOver(F, S) ==
  {layer \in [label : DOMAIN F, kids : Seq(S)] : Len(layer.kids) \in F[layer.label]}

(* fmap, with a function that is a value. *)
Over(f, layer) == layer_fmap(LAMBDA c : f[c], layer)

(* m is layer with f's values in the places of its children. *)
IsOver(m, f, layer, F, R) ==
  /\ m = Filled(layer, OfKids(f, layer))
  /\ m \in LayersOver(F, R)
  /\ m.label = layer.label
  /\ Len(m.kids) = Len(layer.kids)
  /\ \A k \in 1..Len(layer.kids) : m.kids[k] = f[layer.kids[k]]

(* fmap keeps the label and the number of the children. *)
LEMMA OverIsFilled ==
  ASSUME NEW F, NEW S, NEW R, NEW f \in [S -> R], NEW layer \in LayersOver(F, S)
  PROVE  IsOver(Over(f, layer), f, layer, F, R)
<1> DEFINE ks == [k \in 1..Len(layer.kids) |-> f[layer.kids[k]]]
<1>1. layer.kids \in Seq(S) /\ Len(layer.kids) \in Nat
      /\ layer.label \in DOMAIN F /\ Len(layer.kids) \in F[layer.label]
  BY LenProperties DEF LayersOver
<1>2. ks = OfKids(f, layer) /\ ks \in Seq(R)
  BY <1>1, KidsHaveValues DEF OfKids
<1>3. Len(ks) = Len(layer.kids) /\ \A k \in 1..Len(layer.kids) : ks[k] = f[layer.kids[k]]
  <2>1. DOMAIN ks = 1..Len(layer.kids)
    OBVIOUS
  <2> HIDE DEF ks
  <2>2. DOMAIN ks = 1..Len(ks) /\ Len(ks) \in Nat
    BY <1>2, LenProperties
  <2>3. Len(ks) = Len(layer.kids)
    BY <1>1, <2>1, <2>2
  <2> QED BY <2>3 DEF ks
<1>4. <<>> \o ks = ks
  <2> HIDE DEF ks
  <2> QED BY <1>2, ConcatEmptySeq
<1>5. Over(f, layer) = [layer EXCEPT !.kids = ks]
  BY <1>4 DEF Over, layer_fmap
<1> HIDE DEF ks
<1>6. layer \in [label : DOMAIN F, kids : Seq(S)]
  BY DEF LayersOver
<1>7. Over(f, layer) \in LayersOver(F, R) /\ Over(f, layer).kids = ks
      /\ Over(f, layer).label = layer.label
  <2>1. PICK top : top = Over(f, layer)
    OBVIOUS
  <2>2. top \in [label : DOMAIN F, kids : Seq(R)] /\ top.kids = ks /\ top.label = layer.label
    BY <1>2, <1>5, <1>6, <2>1
  <2>3. Len(top.kids) \in F[top.label]
    BY <1>1, <1>3, <2>2
  <2> QED BY <2>1, <2>2, <2>3 DEF LayersOver
<1> QED BY <1>2, <1>3, <1>5, <1>7 DEF Filled, IsOver

(* fmap looks at no value but those of the layer's children. *)
LEMMA SameOver ==
  ASSUME NEW f, NEW g, NEW layer,
         \A k \in 1..Len(layer.kids) : f[layer.kids[k]] = g[layer.kids[k]]
  PROVE  Over(f, layer) = Over(g, layer)
<1>1. [k \in 1..Len(layer.kids) |-> f[layer.kids[k]]] = [k \in 1..Len(layer.kids) |-> g[layer.kids[k]]]
  OBVIOUS
<1> QED BY <1>1 DEF Over, layer_fmap

(* Layers with the same label and the same children are the same. *)
LEMMA SameLayer ==
  ASSUME NEW F, NEW S, NEW a \in LayersOver(F, S), NEW b \in LayersOver(F, S),
         a.label = b.label, Len(a.kids) = Len(b.kids),
         \A k \in 1..Len(a.kids) : a.kids[k] = b.kids[k]
  PROVE  a = b
<1>1. a.kids \in Seq(S) /\ b.kids \in Seq(S)
  BY DEF LayersOver
<1>2. a.kids = b.kids
  BY <1>1, SeqEqual
<1> QED BY <1>2 DEF LayersOver

(* On the children of the layer, h is f and then g. *)
Composed(f, g, h, layer, F, S, R, Q) ==
  /\ layer \in LayersOver(F, S)
  /\ f \in [S -> R] /\ g \in [R -> Q] /\ h \in [S -> Q]
  /\ \A k \in 1..Len(layer.kids) : h[layer.kids[k]] = g[f[layer.kids[k]]]

(* fmap of a composition. *)
LEMMA OverOver ==
  ASSUME NEW F, NEW S, NEW R, NEW Q, NEW f, NEW g, NEW h, NEW layer,
         Composed(f, g, h, layer, F, S, R, Q)
  PROVE  Over(g, Over(f, layer)) = Over(h, layer)
<1>1. /\ f \in [S -> R] /\ g \in [R -> Q] /\ h \in [S -> Q]
      /\ layer \in LayersOver(F, S)
      /\ \A k \in 1..Len(layer.kids) : h[layer.kids[k]] = g[f[layer.kids[k]]]
  BY DEF Composed
<1>2. PICK mid : mid = Over(f, layer)
  OBVIOUS
<1>3. IsOver(mid, f, layer, F, R)
  BY <1>1, <1>2, OverIsFilled
<1>4. mid \in LayersOver(F, R)
  BY <1>3 DEF IsOver
<1>5. PICK top : top = Over(g, mid)
  OBVIOUS
<1>6. IsOver(top, g, mid, F, Q)
  BY <1>1, <1>4, <1>5, OverIsFilled
<1>7. PICK direct : direct = Over(h, layer)
  OBVIOUS
<1>8. IsOver(direct, h, layer, F, Q)
  BY <1>1, <1>7, OverIsFilled
<1>9. top.label = direct.label /\ Len(top.kids) = Len(direct.kids)
      /\ \A k \in 1..Len(top.kids) : top.kids[k] = direct.kids[k]
  BY <1>1, <1>3, <1>6, <1>8 DEF IsOver
<1>10. top = direct
  BY <1>6, <1>8, <1>9, SameLayer DEF IsOver
<1> QED BY <1>2, <1>5, <1>7, <1>10

(***************************************************************************)
(* Fix<F>: a tree is a layer of trees, and a layer of trees is one.  What  *)
(* is said of trees by induction goes by their height.                     *)
(***************************************************************************)
Fixed(Trees, F) ==
  /\ \A layer \in LayersOver(F, Trees) : wrap_fix(layer) \in Trees
  /\ \A t \in Trees : unwrap_fix(t) \in LayersOver(F, Trees)
                      /\ wrap_fix(unwrap_fix(t)) = t

Finite(height, Trees) ==
  /\ height \in [Trees -> Nat]
  /\ \A t \in Trees : \A k \in 1..Len(unwrap_fix(t).kids) :
       height[unwrap_fix(t).kids[k]] < height[t]

(* u[s] is the tree that call j, which never stops, goes over from seed s. *)
Grows(u, j, Seeds, Trees, F) ==
  /\ SeedOf(j) \in Seeds
  /\ u \in [Seeds -> Trees]
  /\ \A s \in Seeds :
       /\ Coalgebra(j, s).side = "Right"
       /\ Coalgebra(j, s).right \in LayersOver(F, Seeds)
       /\ u[s] = wrap_fix(Over(u, Coalgebra(j, s).right))

(* The algebra makes results of results, in the places of the seed's layer. *)
Makes(Results, j, Seeds, F) ==
  \A s \in Seeds, layer \in LayersOver(F, Results) :
    Len(layer.kids) = Len(Coalgebra(j, s).right.kids) => Algebra(j, s, layer) \in Results

(* Such a call is what its C++ types say. *)
LEMMA GrowsTyped ==
  ASSUME NEW j, NEW Seeds, NEW Trees, NEW F, NEW Results, NEW u,
         Grows(u, j, Seeds, Trees, F), Makes(Results, j, Seeds, F)
  PROVE  Typed({j}, Seeds, LayersOver(F, Seeds), Results)
<1>1. \A layer \in LayersOver(F, Seeds) : layer.kids \in Seq(Seeds)
  BY DEF LayersOver
<1>2. ASSUME NEW s \in Seeds, NEW done \in Seq(Results),
             Len(done) = Len(Coalgebra(j, s).right.kids)
      PROVE  Algebra(j, s, Filled(Coalgebra(j, s).right, done)) \in Results
  <2>1. PICK layer : layer = Filled(Coalgebra(j, s).right, done)
    OBVIOUS
  <2>2. PICK l \in LayersOver(F, Seeds) : l = Coalgebra(j, s).right
    BY DEF Grows
  <2>3. l \in [label : DOMAIN F, kids : Seq(Seeds)] /\ Len(l.kids) \in F[l.label]
    BY DEF LayersOver
  <2>4. layer \in [label : DOMAIN F, kids : Seq(Results)]
        /\ layer.kids = done /\ layer.label = l.label
    BY <2>1, <2>2, <2>3 DEF Filled
  <2>5. layer \in LayersOver(F, Results)
    BY <1>2, <2>2, <2>3, <2>4 DEF LayersOver
  <2> QED BY <1>2, <2>1, <2>4, <2>5 DEF Makes
<1> QED BY <1>1, <1>2 DEF Typed, Grows

(***************************************************************************)
(* Fusion.  Where f makes of the tree over a seed what the algebra makes   *)
(* of f's values below it, the call answers f of a tree it never builds.   *)
(***************************************************************************)
Fusing(u, f, j, Seeds, Trees, F, Results) ==
  /\ Grows(u, j, Seeds, Trees, F) /\ Makes(Results, j, Seeds, F)
  /\ f \in [Trees -> Results]
  /\ \A s \in Seeds : f[u[s]] = Algebra(j, s, Over(f, unwrap_fix(u[s])))

Fuses(j, Trees, tree, value) ==
  \E Seeds, F, Results, u, f :
    Fusing(u, f, j, Seeds, Trees, F, Results)
      /\ tree = u[SeedOf(j)] /\ value = Finish(j, f[tree])

(* It then answers that value, if it is the one the call owes. *)
LEMMA FusedAnswer ==
  ASSUME NEW j, NEW Trees, NEW tree, NEW value, Fuses(j, Trees, tree, value),
         OwedAnswer(j) = value
  PROVE  Answers(j)
<1>1. PICK Seeds, F, Results, u, f :
        Fusing(u, f, j, Seeds, Trees, F, Results)
          /\ tree = u[SeedOf(j)] /\ value = Finish(j, f[tree])
  BY DEF Fuses
<1>2. Grows(u, j, Seeds, Trees, F) /\ Makes(Results, j, Seeds, F)
       /\ f \in [Trees -> Results]
       /\ \A s \in Seeds : f[u[s]] = Algebra(j, s, Over(f, unwrap_fix(u[s])))
  BY <1>1 DEF Fusing
<1> DEFINE h == [s \in Seeds |-> f[u[s]]]
           Layers == LayersOver(F, Seeds)
<1>3. h \in [Seeds -> Results] /\ \A s \in Seeds : h[s] = f[u[s]]
  BY <1>2 DEF Grows
<1> HIDE DEF h
<1>4. ASSUME NEW s \in Seeds PROVE h[s] = ValueBy(h, j, s)
  <2>1. PICK layer \in Layers : layer = Coalgebra(j, s).right
    BY <1>2 DEF Grows
  <2>2. unwrap_fix(u[s]) = Over(u, layer)
    BY <1>2, <2>1 DEF Grows, wrap_fix, unwrap_fix
  <2>3. u \in [Seeds -> Trees]
    BY <1>2 DEF Grows
  <2>4. \A k \in 1..Len(layer.kids) : layer.kids[k] \in Seeds
    BY <1>3, KidsHaveValues DEF LayersOver
  <2>5. Over(f, Over(u, layer)) = Over(h, layer)
    <3>1. \A k \in 1..Len(layer.kids) : h[layer.kids[k]] = f[u[layer.kids[k]]]
      BY <1>3, <2>4
    <3>2. Composed(u, f, h, layer, F, Seeds, Trees, Results)
      BY <1>2, <1>3, <2>3, <3>1 DEF Composed
    <3> QED BY <3>2, OverOver
  <2>6. IsOver(Over(h, layer), h, layer, F, Results)
    BY <1>3, OverIsFilled
  <2>7. h[s] = Algebra(j, s, Filled(layer, OfKids(h, layer)))
    BY <1>2, <1>3, <2>2, <2>5, <2>6 DEF IsOver
  <2> QED BY <1>2, <2>1, <2>7 DEF ValueBy, Grows
<1>5. SolvesCall(h, j, Seeds, Results)
  BY <1>3, <1>4 DEF SolvesCall
<1>6. OwedAnswer(j) = Finish(j, h[SeedOf(j)])
  BY <1>1, <1>2, <1>3 DEF Grows
<1> QED BY <1>2, <1>5, <1>6, GrowsTyped DEF Answers, AnswersBy

(* w is the tour of each tree, its layers in and out, and p its parts. *)
Tours(w, p, Trees, Steps) ==
  /\ w \in [Trees -> Seq(Steps)]
  /\ p \in [Trees -> [Nat -> Seq(Steps)]]
  /\ \A t \in Trees :
       LET layer == unwrap_fix(t) IN
         /\ In(layer) \in Steps /\ Out(layer) \in Steps
         /\ p[t][0] = <<In(layer)>>
         /\ \A k \in 1..Len(layer.kids) : p[t][k] = p[t][k - 1] \o w[layer.kids[k]]
         /\ w[t] = p[t][Len(layer.kids)] \o <<Out(layer)>>

(* The call walks the tree, which it never builds, as if it were there. *)
LEMMA WalkOfTree ==
  ASSUME NEW j, NEW Seeds, NEW Trees, NEW F, NEW Results, NEW u,
         Grows(u, j, Seeds, Trees, F), Makes(Results, j, Seeds, F),
         NEW Steps, NEW w, NEW p, Tours(w, p, Trees, Steps),
         OwedSteps(j) = w[u[SeedOf(j)]]
  PROVE  Walks(j)
<1> DEFINE v == [s \in Seeds |-> w[u[s]]]
           q == [s \in Seeds |-> p[u[s]]]
<1>1. u \in [Seeds -> Trees] /\ w \in [Trees -> Seq(Steps)]
      /\ p \in [Trees -> [Nat -> Seq(Steps)]]
  BY DEF Grows, Tours
<1>2. v \in [Seeds -> Seq(Steps)] /\ \A s \in Seeds : v[s] = w[u[s]]
  BY <1>1
<1>3. q \in [Seeds -> [Nat -> Seq(Steps)]] /\ \A s \in Seeds : q[s] = p[u[s]]
  BY <1>1
<1> HIDE DEF v, q
<1>4. ASSUME NEW s \in Seeds, NEW layer, layer = Coalgebra(j, s).right
      PROVE  /\ In(layer) \in Steps /\ Out(layer) \in Steps
             /\ q[s][0] = <<In(layer)>>
             /\ \A k \in 1..Len(layer.kids) : q[s][k] = q[s][k - 1] \o v[layer.kids[k]]
             /\ v[s] = q[s][Len(layer.kids)] \o <<Out(layer)>>
  <2>1. layer \in LayersOver(F, Seeds)
    BY <1>4 DEF Grows
  <2>2. PICK top : top = unwrap_fix(u[s])
    OBVIOUS
  <2>3. top = Over(u, layer)
    BY <1>4, <2>2 DEF Grows, wrap_fix, unwrap_fix
  <2>4. IsOver(top, u, layer, F, Trees)
    BY <1>1, <2>1, <2>3, OverIsFilled
  <2>5. In(top) = In(layer) /\ Out(top) = Out(layer)
    BY <2>4 DEF IsOver, In, Out
  <2>6. \A k \in 1..Len(layer.kids) : layer.kids[k] \in Seeds
    BY <1>1, <2>1, KidsHaveValues DEF LayersOver
  <2>7. u[s] \in Trees
    BY <1>1
  <2>8. /\ In(top) \in Steps /\ Out(top) \in Steps
        /\ p[u[s]][0] = <<In(top)>>
        /\ \A k \in 1..Len(top.kids) : p[u[s]][k] = p[u[s]][k - 1] \o w[top.kids[k]]
        /\ w[u[s]] = p[u[s]][Len(top.kids)] \o <<Out(top)>>
    BY <2>2, <2>7 DEF Tours
  <2>9. ASSUME NEW k \in 1..Len(layer.kids) PROVE q[s][k] = q[s][k - 1] \o v[layer.kids[k]]
    <3>1. p[u[s]][k] = p[u[s]][k - 1] \o w[top.kids[k]]
      BY <2>4, <2>8 DEF IsOver
    <3>2. w[top.kids[k]] = v[layer.kids[k]]
      BY <1>2, <2>4, <2>6 DEF IsOver
    <3> QED BY <1>3, <3>1, <3>2
  <2> QED BY <1>2, <1>3, <2>4, <2>5, <2>8, <2>9 DEF IsOver
<1>5. WalksCallOver(v, q, j, Seeds, Steps)
  BY <1>2, <1>3, <1>4, ZenonT(40) DEF WalksCallOver, Grows
<1>6. OwedSteps(j) = v[SeedOf(j)]
  BY <1>2 DEF Grows
<1> QED BY <1>5, <1>6, GrowsTyped DEF Walks, WalksBy

(* The call is to walk the tree. *)
OwesTour(j, Trees, tree) ==
  \E Steps, w, p : Tours(w, p, Trees, Steps) /\ OwedSteps(j) = w[tree]

(* And a call that fuses walks the tree it goes over. *)
LEMMA FusedWalk ==
  ASSUME NEW j, NEW Trees, NEW tree, NEW value, Fuses(j, Trees, tree, value),
         OwesTour(j, Trees, tree)
  PROVE  Walks(j)
<1>1. PICK Seeds, F, Results, u, f :
        Fusing(u, f, j, Seeds, Trees, F, Results) /\ tree = u[SeedOf(j)]
  BY DEF Fuses
<1>2. PICK Steps, w, p : Tours(w, p, Trees, Steps) /\ OwedSteps(j) = w[u[SeedOf(j)]]
  BY <1>1 DEF OwesTour
<1> QED BY <1>1, <1>2, WalkOfTree DEF Fusing

(* A call that does what its scheme says. *)
CallOf(j, schemes) ==
  /\ j.scheme \in schemes
  /\ SeedOf(j) = SchemeSeed(j)
  /\ \A s : Coalgebra(j, s) = SchemeCoalgebra(j, s)
  /\ \A s, layer : Algebra(j, s, layer) = SchemeAlgebra(j, s, layer)
  /\ \A v : Finish(j, v) = SchemeFinish(j, v)

OnTree(j, Trees, F) ==
  "tree" \in DOMAIN j /\ j.tree \in Trees /\ Fixed(Trees, F)

OnSeed(j, Seeds) == "tree" \notin DOMAIN j /\ j.seed \in Seeds

(* fmap of the identity changes nothing. *)
LEMMA OverNothing ==
  ASSUME NEW F, NEW S, NEW layer \in LayersOver(F, S)
  PROVE  Over([c \in S |-> c], layer) = layer
<1> DEFINE id == [c \in S |-> c]
<1>1. id \in [S -> S] /\ \A c \in S : id[c] = c
  OBVIOUS
<1> HIDE DEF id
<1>2. PICK top : top = Over(id, layer)
  OBVIOUS
<1>3. IsOver(top, id, layer, F, S)
  BY <1>1, <1>2, OverIsFilled
<1>4. \A k \in 1..Len(layer.kids) : layer.kids[k] \in S
  BY <1>1, KidsHaveValues DEF LayersOver
<1>5. top.label = layer.label /\ Len(top.kids) = Len(layer.kids)
      /\ \A k \in 1..Len(top.kids) : top.kids[k] = layer.kids[k]
  BY <1>1, <1>3, <1>4 DEF IsOver
<1>6. top \in LayersOver(F, S)
  BY <1>3 DEF IsOver
<1>7. top = layer
  BY <1>5, <1>6, SameLayer
<1> QED BY <1>2, <1>7 DEF id

(* A fold goes over the tree it is given. *)
LEMMA FoldGrows ==
  ASSUME NEW j, NEW Trees, NEW F, CallOf(j, Folds), OnTree(j, Trees, F)
  PROVE  /\ \A s : Coalgebra(j, s) = Right(unwrap_fix(s))
         /\ SeedOf(j) = j.tree
         /\ Grows([t \in Trees |-> t], j, Trees, Trees, F)
<1> DEFINE id == [t \in Trees |-> t]
<1>1. \A s : Coalgebra(j, s) = Right(unwrap_fix(s))
  BY DEF CallOf, SchemeCoalgebra, Folds, Unfolds, ChunkUnfolds
<1>2. SeedOf(j) = j.tree
  BY DEF CallOf, SchemeSeed, OnTree, Folds, ChunkUnfolds
<1>3. ASSUME NEW s \in Trees PROVE id[s] = wrap_fix(Over(id, Coalgebra(j, s).right))
  <2>1. Coalgebra(j, s).right = unwrap_fix(s)
    BY <1>1 DEF Right
  <2>2. unwrap_fix(s) \in LayersOver(F, Trees) /\ wrap_fix(unwrap_fix(s)) = s
    BY DEF OnTree, Fixed
  <2> QED BY <2>1, <2>2, OverNothing
<1>4. \A s \in Trees : Coalgebra(j, s).side = "Right"
                       /\ Coalgebra(j, s).right \in LayersOver(F, Trees)
  BY <1>1 DEF Right, OnTree, Fixed
<1> QED BY <1>1, <1>2, <1>3, <1>4 DEF Grows, OnTree

(* So it answers f of the tree where f's value is what the algebra makes of those below. *)
LEMMA FoldAnswers ==
  ASSUME NEW j, NEW Trees, NEW F, NEW Results, NEW f \in [Trees -> Results],
         CallOf(j, Folds), OnTree(j, Trees, F),
         Makes(Results, j, Trees, F),
         \A t \in Trees : f[t] = Algebra(j, t, Over(f, unwrap_fix(t)))
  PROVE  Fuses(j, Trees, j.tree, Finish(j, f[j.tree]))
<1> DEFINE u == [t \in Trees |-> t]
<1>1. Grows(u, j, Trees, Trees, F) /\ SeedOf(j) = j.tree
  BY FoldGrows
<1>2. \A s \in Trees : f[u[s]] = Algebra(j, s, Over(f, unwrap_fix(u[s])))
  OBVIOUS
<1>3. j.tree = u[SeedOf(j)]
  BY <1>1 DEF OnTree
<1> HIDE DEF u
<1>4. Fusing(u, f, j, Trees, Trees, F, Results)
  BY <1>1, <1>2 DEF Fusing
<1> QED BY <1>3, <1>4 DEF Fuses

(* Cata of SchemeEquations, as a function. *)
IsCata(f, j, Trees, F, Results) ==
  /\ \A layer \in LayersOver(F, Results) : phi(j, layer) \in Results
  /\ f \in [Trees -> Results]
  /\ \A t \in Trees : f[t] = phi(j, Over(f, unwrap_fix(t)))

(* fold_fix answers Cata. *)
LEMMA FoldFixAnswers ==
  ASSUME NEW j, NEW Trees, NEW F, NEW Results, NEW f,
         CallOf(j, {"fold_fix"}), OnTree(j, Trees, F),
         IsCata(f, j, Trees, F, Results)
  PROVE  Fuses(j, Trees, j.tree, f[j.tree])
<1>1. CallOf(j, Folds)
  BY DEF CallOf, Folds
<1>2. \A s, layer : Algebra(j, s, layer) = phi(j, layer)
  BY DEF CallOf, SchemeAlgebra
<1>3. \A v : Finish(j, v) = v
  BY DEF CallOf, SchemeFinish
<1>4. Makes(Results, j, Trees, F)
  BY <1>2 DEF Makes, IsCata
<1>5. \A t \in Trees : f[t] = Algebra(j, t, Over(f, unwrap_fix(t)))
  BY <1>2 DEF IsCata
<1> QED BY <1>1, <1>3, <1>4, <1>5, FoldAnswers DEF IsCata

Pairs(A, B) == [first : A, second : B]

(* The layer of pairs of two functions' values, and its two halves. *)
PairsOver(g, z, layer) == layer_fmap(LAMBDA c : Pair(g[c], z[c]), layer)

IsPairsOver(m, g, z, layer) ==
  /\ m = PairsOver(g, z, layer)
  /\ layer_fmap(First, m) = Over(g, layer)
  /\ layer_fmap(Second, m) = Over(z, layer)

(* They are the layers that one fmap gives, and two make of what it gave. *)
LEMMA OverPairs ==
  ASSUME NEW F, NEW S, NEW Q, NEW R, NEW g \in [S -> Q], NEW z \in [S -> R],
         NEW layer \in LayersOver(F, S), NEW h, h = [c \in S |-> Pair(g[c], z[c])]
  PROVE  IsPairsOver(Over(h, layer), g, z, layer)
<1>1. h \in [S -> Pairs(Q, R)]
  BY DEF Pairs, Pair
<1>2. \A k \in 1..Len(layer.kids) : layer.kids[k] \in S
  BY KidsHaveValues DEF LayersOver
<1>3. [k \in 1..Len(layer.kids) |-> h[layer.kids[k]]]
        = [k \in 1..Len(layer.kids) |-> Pair(g[layer.kids[k]], z[layer.kids[k]])]
  BY <1>2
<1>4. PairsOver(g, z, layer) = Over(h, layer)
  BY <1>3 DEF Over, PairsOver, layer_fmap
<1>5. PICK m : m = Over(h, layer)
  OBVIOUS
<1>6. IsOver(m, h, layer, F, Pairs(Q, R))
  BY <1>1, <1>5, OverIsFilled
<1>7. Len(m.kids) = Len(layer.kids) /\ m.label = layer.label
      /\ \A k \in 1..Len(layer.kids) : m.kids[k] = Pair(g[layer.kids[k]], z[layer.kids[k]])
  BY <1>2, <1>6 DEF IsOver
<1>8. ASSUME NEW k \in 1..Len(layer.kids)
      PROVE  First(m.kids[k]) = g[layer.kids[k]] /\ Second(m.kids[k]) = z[layer.kids[k]]
  <2>1. m.kids[k] = Pair(g[layer.kids[k]], z[layer.kids[k]])
    BY <1>7
  <2> QED BY <2>1 DEF First, Second, Pair
<1>9. m \in LayersOver(F, Pairs(Q, R))
  BY <1>6 DEF IsOver
<1>10. [k \in 1..Len(m.kids) |-> First(m.kids[k])]
         = [k \in 1..Len(layer.kids) |-> g[layer.kids[k]]]
  BY <1>7, <1>8
<1>11. [k \in 1..Len(m.kids) |-> Second(m.kids[k])]
         = [k \in 1..Len(layer.kids) |-> z[layer.kids[k]]]
  BY <1>7, <1>8
<1>12. \A ks : [m EXCEPT !.kids = ks] = [layer EXCEPT !.kids = ks]
  BY <1>7, <1>9 DEF LayersOver
<1>13. layer_fmap(First, m) = Over(g, layer)
  BY <1>10, <1>12 DEF Over, layer_fmap
<1>14. layer_fmap(Second, m) = Over(z, layer)
  BY <1>11, <1>12 DEF Over, layer_fmap
<1> QED BY <1>4, <1>5, <1>13, <1>14 DEF IsPairsOver

(* Helped and Zygo, two mutually recursive functions where the code has one of pairs. *)
IsZygo(g, z, j, Trees, F, Helps, Results) ==
  /\ \A layer \in LayersOver(F, Helps) : helper(j, layer) \in Helps
  /\ \A layer \in LayersOver(F, Pairs(Helps, Results)) : phi(j, layer) \in Results
  /\ g \in [Trees -> Helps] /\ z \in [Trees -> Results]
  /\ \A t \in Trees :
       /\ g[t] = helper(j, Over(g, unwrap_fix(t)))
       /\ z[t] = phi(j, PairsOver(g, z, unwrap_fix(t)))

(* The first components of a layer of pairs. *)
LEMMA FirstsOver ==
  ASSUME NEW F, NEW Q, NEW R, NEW layer \in LayersOver(F, Pairs(Q, R))
  PROVE  layer_fmap(First, layer) \in LayersOver(F, Q)
<1> DEFINE f == [p \in Pairs(Q, R) |-> First(p)]
<1>1. f \in [Pairs(Q, R) -> Q]
  BY DEF Pairs, First
<1>2. \A k \in 1..Len(layer.kids) : layer.kids[k] \in Pairs(Q, R)
  BY <1>1, KidsHaveValues DEF LayersOver
<1>3. [k \in 1..Len(layer.kids) |-> f[layer.kids[k]]]
        = [k \in 1..Len(layer.kids) |-> First(layer.kids[k])]
  BY <1>2
<1> HIDE DEF f
<1>4. layer_fmap(First, layer) = Over(f, layer)
  BY <1>3 DEF Over, layer_fmap
<1>5. IsOver(Over(f, layer), f, layer, F, Q)
  BY <1>1, OverIsFilled
<1> QED BY <1>4, <1>5 DEF IsOver

(* zygo's one fold of pairs answers as the two functions do. *)
LEMMA ZygoAnswers ==
  ASSUME NEW j, NEW Trees, NEW F, NEW Helps, NEW Results, NEW g, NEW z,
         CallOf(j, {"zygo"}), OnTree(j, Trees, F),
         IsZygo(g, z, j, Trees, F, Helps, Results)
  PROVE  Fuses(j, Trees, j.tree, z[j.tree])
<1>1. CallOf(j, Folds)
  BY DEF CallOf, Folds
<1>2. \A s, layer : Algebra(j, s, layer) = combined(j, layer)
  BY DEF CallOf, SchemeAlgebra
<1>3. \A v : Finish(j, v) = Second(v)
  BY DEF CallOf, SchemeFinish
<1>4. PICK h : h = [c \in Trees |-> Pair(g[c], z[c])]
  OBVIOUS
<1>5. h \in [Trees -> Pairs(Helps, Results)]
  BY <1>4 DEF IsZygo, Pairs, Pair
<1>6. ASSUME NEW layer \in LayersOver(F, Pairs(Helps, Results))
      PROVE  combined(j, layer) \in Pairs(Helps, Results)
  <2>1. layer_fmap(First, layer) \in LayersOver(F, Helps)
    BY FirstsOver
  <2> QED BY <2>1 DEF combined, IsZygo, Pairs, Pair
<1>7. Makes(Pairs(Helps, Results), j, Trees, F)
  BY <1>2, <1>6 DEF Makes
<1>8. ASSUME NEW t \in Trees PROVE h[t] = Algebra(j, t, Over(h, unwrap_fix(t)))
  <2>1. PICK layer \in LayersOver(F, Trees) : layer = unwrap_fix(t)
    BY DEF OnTree, Fixed
  <2>2. g \in [Trees -> Helps] /\ z \in [Trees -> Results]
    BY DEF IsZygo
  <2>3. IsPairsOver(Over(h, layer), g, z, layer)
    BY <1>4, <2>2, OverPairs
  <2>4. g[t] = helper(j, Over(g, layer))
        /\ z[t] = phi(j, PairsOver(g, z, layer))
    BY <2>1 DEF IsZygo
  <2>5. h[t] = Pair(g[t], z[t])
    BY <1>4
  <2> QED BY <1>2, <2>1, <2>3, <2>4, <2>5 DEF combined, IsPairsOver
<1>9. z[j.tree] = Finish(j, h[j.tree])
  <2>1. h[j.tree] = Pair(g[j.tree], z[j.tree])
    BY <1>4 DEF OnTree
  <2> QED BY <1>3, <2>1 DEF Second, Pair
<1> QED BY <1>1, <1>5, <1>7, <1>8, <1>9, FoldAnswers

(* MutuFirst and MutuSecond, each of the other's values as well. *)
IsMutu(g, z, j, Trees, F, Firsts, Seconds) ==
  /\ \A layer \in LayersOver(F, Pairs(Firsts, Seconds)) :
       phi(j, layer) \in Firsts /\ helper(j, layer) \in Seconds
  /\ g \in [Trees -> Firsts] /\ z \in [Trees -> Seconds]
  /\ \A t \in Trees :
       /\ g[t] = phi(j, PairsOver(g, z, unwrap_fix(t)))
       /\ z[t] = helper(j, PairsOver(g, z, unwrap_fix(t)))

(* mutu's one fold of pairs answers both. *)
LEMMA MutuAnswers ==
  ASSUME NEW j, NEW Trees, NEW F, NEW Firsts, NEW Seconds, NEW g, NEW z,
         CallOf(j, {"mutu"}), OnTree(j, Trees, F),
         IsMutu(g, z, j, Trees, F, Firsts, Seconds)
  PROVE  Fuses(j, Trees, j.tree, Pair(g[j.tree], z[j.tree]))
<1>1. CallOf(j, Folds)
  BY DEF CallOf, Folds
<1>2. \A s, layer : Algebra(j, s, layer) = both(j, layer)
  BY DEF CallOf, SchemeAlgebra
<1>3. \A v : Finish(j, v) = v
  BY DEF CallOf, SchemeFinish
<1>4. PICK h : h = [c \in Trees |-> Pair(g[c], z[c])]
  OBVIOUS
<1>5. h \in [Trees -> Pairs(Firsts, Seconds)]
  BY <1>4 DEF IsMutu, Pairs, Pair
<1>6. ASSUME NEW layer \in LayersOver(F, Pairs(Firsts, Seconds))
       PROVE  both(j, layer) \in Pairs(Firsts, Seconds)
  <2>1. phi(j, layer) \in Firsts /\ helper(j, layer) \in Seconds
    BY DEF IsMutu
  <2> QED BY <2>1 DEF both, Pairs, Pair
<1>7. Makes(Pairs(Firsts, Seconds), j, Trees, F)
  BY <1>2, <1>6 DEF Makes
<1>8. ASSUME NEW t \in Trees PROVE h[t] = Algebra(j, t, Over(h, unwrap_fix(t)))
  <2>1. PICK layer \in LayersOver(F, Trees) : layer = unwrap_fix(t)
    BY DEF OnTree, Fixed
  <2>2. g \in [Trees -> Firsts] /\ z \in [Trees -> Seconds]
    BY DEF IsMutu
  <2>3. IsPairsOver(Over(h, layer), g, z, layer)
    BY <1>4, <2>2, OverPairs
  <2>4. /\ g[t] = phi(j, PairsOver(g, z, layer))
        /\ z[t] = helper(j, PairsOver(g, z, layer))
    BY <2>1 DEF IsMutu
  <2>5. h[t] = Pair(g[t], z[t])
    BY <1>4
  <2> QED BY <1>2, <2>1, <2>3, <2>4, <2>5 DEF both, IsPairsOver
<1>9. Pair(g[j.tree], z[j.tree]) = Finish(j, h[j.tree])
  BY <1>3, <1>4 DEF OnTree
<1> QED BY <1>1, <1>5, <1>7, <1>8, <1>9, FoldAnswers

(* Histories, every node's value with the histories of its children. *)
IsHistories(h, j, Trees, F, Results) ==
  /\ \A layer \in LayersOver(F, Results) : Cofree(phi(j, layer), layer) \in Results
  /\ h \in [Trees -> Results]
  /\ \A t \in Trees : LET below == Over(h, unwrap_fix(t)) IN h[t] = Cofree(phi(j, below), below)

(* histo answers the newest value of the history. *)
LEMMA HistoAnswers ==
  ASSUME NEW j, NEW Trees, NEW F, NEW Results, NEW h,
         CallOf(j, {"histo"}), OnTree(j, Trees, F),
         IsHistories(h, j, Trees, F, Results)
  PROVE  Fuses(j, Trees, j.tree, extract(h[j.tree]))
<1>1. CallOf(j, Folds)
  BY DEF CallOf, Folds
<1>2. \A s, layer : Algebra(j, s, layer) = annotated(j, layer)
  BY DEF CallOf, SchemeAlgebra
<1>3. \A v : Finish(j, v) = extract(v)
  BY DEF CallOf, SchemeFinish
<1>4. Makes(Results, j, Trees, F)
  BY <1>2 DEF Makes, annotated, IsHistories
<1>5. \A t \in Trees : h[t] = Algebra(j, t, Over(h, unwrap_fix(t)))
  BY <1>2 DEF annotated, IsHistories
<1> QED BY <1>1, <1>3, <1>4, <1>5, FoldAnswers DEF IsHistories

(***************************************************************************)
(* A natural transformation may change the label and move, copy or drop    *)
(* the children, but never looks at them: its layers have no others, and   *)
(* it does not matter whether they are mapped before it or after.          *)
(***************************************************************************)
Natural(e, Trees, F) ==
  /\ \A S \in SUBSET Trees : \A layer \in LayersOver(F, S) :
       natural(e, layer) \in LayersOver(F, S)
  /\ \A f \in [Trees -> Trees] : \A layer \in LayersOver(F, Trees) :
       natural(e, Over(f, layer)) = Over(f, natural(e, layer))

(* Mapped, every layer rewritten from the root down. *)
IsMapped(m, e, Trees) ==
  /\ m \in [Trees -> Trees]
  /\ \A t \in Trees : m[t] = wrap_fix(Over(m, natural(e, unwrap_fix(t))))

(* hoist, which rewrites from the leaves, answers what rewriting from the root gives. *)
LEMMA HoistAnswers ==
  ASSUME NEW j, NEW Trees, NEW F, NEW m,
         CallOf(j, {"hoist"}), OnTree(j, Trees, F), Natural(j.nat, Trees, F),
         IsMapped(m, j.nat, Trees)
  PROVE  Fuses(j, Trees, j.tree, m[j.tree])
<1>1. CallOf(j, Folds)
  BY DEF CallOf, Folds
<1>2. \A s, layer : Algebra(j, s, layer) = wrap_fix(natural(j.nat, layer))
  BY DEF CallOf, SchemeAlgebra
<1>3. \A v : Finish(j, v) = v
  BY DEF CallOf, SchemeFinish
<1>4. \A layer \in LayersOver(F, Trees) : natural(j.nat, layer) \in LayersOver(F, Trees)
  BY DEF Natural
<1>5. Makes(Trees, j, Trees, F)
  BY <1>2, <1>4 DEF Makes, OnTree, Fixed
<1>6. ASSUME NEW t \in Trees PROVE m[t] = Algebra(j, t, Over(m, unwrap_fix(t)))
  <2>1. unwrap_fix(t) \in LayersOver(F, Trees)
    BY DEF OnTree, Fixed
  <2>2. natural(j.nat, Over(m, unwrap_fix(t))) = Over(m, natural(j.nat, unwrap_fix(t)))
    BY <2>1 DEF Natural, IsMapped
  <2> QED BY <1>2, <2>2 DEF IsMapped
<1> QED BY <1>1, <1>3, <1>5, <1>6, FoldAnswers DEF IsMapped

(* Induction over trees, by their height. *)
LEMMA TreeInduction ==
  ASSUME NEW Trees, NEW height, Finite(height, Trees), NEW S,
         \A t \in Trees : (\A k \in 1..Len(unwrap_fix(t).kids) : unwrap_fix(t).kids[k] \in Trees)
                          /\ ((\A k \in 1..Len(unwrap_fix(t).kids) : unwrap_fix(t).kids[k] \in S)
                                => t \in S)
  PROVE  \A t \in Trees : t \in S
<1> DEFINE T == {height[t] : t \in {x \in Trees : x \notin S}}
<1> SUFFICES ASSUME T # {} PROVE FALSE
  OBVIOUS
<1>1. T \subseteq Nat
  BY DEF Finite
<1>2. PICK n \in T : \A m \in T : n <= m
  BY <1>1, LeastNatural
<1>3. PICK t \in Trees : t \notin S /\ n = height[t]
  OBVIOUS
<1>4. ASSUME NEW k \in 1..Len(unwrap_fix(t).kids) PROVE unwrap_fix(t).kids[k] \in S
  <2>1. PICK c : c = unwrap_fix(t).kids[k]
    OBVIOUS
  <2>2. c \in Trees /\ height[c] < height[t]
    BY <2>1 DEF Finite
  <2>3. height[c] \in Nat /\ height[t] \in Nat
    BY <2>2 DEF Finite
  <2>4. ASSUME c \notin S PROVE FALSE
    <3>1. height[c] \in T
      BY <2>2, <2>4
    <3>2. n <= height[c]
      BY <1>2, <3>1
    <3> HIDE DEF T
    <3> QED BY <1>3, <2>2, <2>3, <3>2
  <2> QED BY <2>1, <2>4
<1> QED BY <1>3, <1>4

(* A tree's layer has trees below it. *)
LEMMA KidsAreTrees ==
  ASSUME NEW Trees, NEW F, Fixed(Trees, F), NEW t \in Trees
  PROVE  /\ unwrap_fix(t) \in LayersOver(F, Trees)
         /\ wrap_fix(unwrap_fix(t)) = t
         /\ \A k \in 1..Len(unwrap_fix(t).kids) : unwrap_fix(t).kids[k] \in Trees
<1>1. unwrap_fix(t) \in LayersOver(F, Trees) /\ wrap_fix(unwrap_fix(t)) = t
  BY DEF Fixed
<1>2. [c \in Trees |-> c] \in [Trees -> Trees]
  OBVIOUS
<1> QED BY <1>1, <1>2, KidsHaveValues DEF LayersOver

(* Copied: para by tupling, the tree again beside its result. *)
IsCopied(c, j, Trees, F, Results) ==
  /\ \A layer \in LayersOver(F, Pairs(Trees, Results)) : phi(j, layer) \in Results
  /\ c \in [Trees -> Pairs(Trees, Results)]
  /\ \A t \in Trees : LET below == Over(c, unwrap_fix(t)) IN
       c[t] = Pair(wrap_fix(layer_fmap(First, below)), phi(j, below))

(* What is beside a result is the tree it was computed of. *)
LEMMA CopiesAreTheSame ==
  ASSUME NEW j, NEW Trees, NEW F, NEW Results, NEW c, NEW height,
         Fixed(Trees, F), Finite(height, Trees), IsCopied(c, j, Trees, F, Results)
  PROVE  \A t \in Trees : First(c[t]) = t
<1> DEFINE S == {t \in Trees : First(c[t]) = t}
<1>1. ASSUME NEW t \in Trees,
             \A k \in 1..Len(unwrap_fix(t).kids) : unwrap_fix(t).kids[k] \in S
      PROVE  t \in S
  <2>1. PICK layer \in LayersOver(F, Trees) : layer = unwrap_fix(t) /\ wrap_fix(layer) = t
    BY DEF Fixed
  <2>2. PICK below : below = Over(c, layer)
    OBVIOUS
  <2>3. IsOver(below, c, layer, F, Pairs(Trees, Results))
    BY <2>2, OverIsFilled DEF IsCopied
  <2>4. \A k \in 1..Len(layer.kids) : First(below.kids[k]) = layer.kids[k]
    BY <1>1, <2>1, <2>3 DEF IsOver
  <2>5. PICK f : f = [p \in Pairs(Trees, Results) |-> First(p)]
    OBVIOUS
  <2>6. f \in [Pairs(Trees, Results) -> Trees] /\ \A p \in Pairs(Trees, Results) : f[p] = First(p)
    BY <2>5 DEF Pairs, First
  <2>7. below \in LayersOver(F, Pairs(Trees, Results))
    BY <2>3 DEF IsOver
  <2>8. \A k \in 1..Len(below.kids) : below.kids[k] \in Pairs(Trees, Results)
    BY <2>6, <2>7, KidsHaveValues DEF LayersOver
  <2>9. [k \in 1..Len(below.kids) |-> f[below.kids[k]]]
          = [k \in 1..Len(below.kids) |-> First(below.kids[k])]
    BY <2>6, <2>8
  <2>10. layer_fmap(First, below) = Over(f, below)
    BY <2>9 DEF Over, layer_fmap
  <2>11. PICK again : again = Over(f, below)
    OBVIOUS
  <2>12. IsOver(again, f, below, F, Trees)
    BY <2>6, <2>7, <2>11, OverIsFilled
  <2>13. again.label = layer.label /\ Len(again.kids) = Len(layer.kids)
         /\ \A k \in 1..Len(again.kids) : again.kids[k] = layer.kids[k]
    BY <2>3, <2>4, <2>6, <2>8, <2>12 DEF IsOver
  <2>14. again \in LayersOver(F, Trees)
    BY <2>12 DEF IsOver
  <2>15. again = layer
    BY <2>13, <2>14, SameLayer
  <2>16. c[t] = Pair(wrap_fix(layer_fmap(First, Over(c, layer))), phi(j, Over(c, layer)))
    BY <2>1 DEF IsCopied
  <2>17. layer_fmap(First, Over(c, layer)) = layer
    BY <2>2, <2>10, <2>11, <2>15
  <2>18. First(c[t]) = wrap_fix(layer)
    BY <2>16, <2>17 DEF First, Pair
  <2> QED BY <2>1, <2>18
<1>2. \A t \in Trees : \A k \in 1..Len(unwrap_fix(t).kids) : unwrap_fix(t).kids[k] \in Trees
  BY KidsAreTrees
<1> HIDE DEF S
<1>3. \A t \in Trees : t \in S
  BY <1>1, <1>2, TreeInduction
<1> QED BY <1>3 DEF S

(* para, which is handed each child as it was, answers as if it had rebuilt them. *)
LEMMA ParaAnswers ==
  ASSUME NEW j, NEW Trees, NEW F, NEW Results, NEW c, NEW height,
         CallOf(j, {"para"}), OnTree(j, Trees, F), Finite(height, Trees),
         IsCopied(c, j, Trees, F, Results)
  PROVE  Fuses(j, Trees, j.tree, Second(c[j.tree]))
<1>1. CallOf(j, Folds)
  BY DEF CallOf, Folds
<1>2. \A s, layer : Algebra(j, s, layer) = phi(j, besides(s, layer))
  BY DEF CallOf, SchemeAlgebra
<1>3. \A v : Finish(j, v) = v
  BY DEF CallOf, SchemeFinish
<1>4. \A s : Coalgebra(j, s) = Right(unwrap_fix(s))
  BY <1>1, FoldGrows
<1>5. PICK z : z = [t \in Trees |-> Second(c[t])]
  OBVIOUS
<1>6. z \in [Trees -> Results] /\ \A t \in Trees : z[t] = Second(c[t])
  BY <1>5 DEF IsCopied, Pairs, Second
<1>7. \A t \in Trees : First(c[t]) = t
  BY CopiesAreTheSame DEF OnTree
<1>8. \A t \in Trees : c[t] = Pair(t, z[t])
  BY <1>6, <1>7 DEF IsCopied, Pairs, Pair, First, Second
<1>9. ASSUME NEW t \in Trees, NEW done \in LayersOver(F, Results),
             Len(done.kids) = Len(unwrap_fix(t).kids)
      PROVE  besides(t, done) \in LayersOver(F, Pairs(Trees, Results))
  <2>1. PICK layer \in LayersOver(F, Trees) : layer = unwrap_fix(t)
    BY DEF OnTree, Fixed
  <2>2. \A k \in 1..Len(layer.kids) : layer.kids[k] \in Trees
    BY <2>1, KidsAreTrees DEF OnTree
  <2>3. done \in [label : DOMAIN F, kids : Seq(Results)] /\ Len(done.kids) \in F[done.label]
        /\ DOMAIN done.kids = 1..Len(done.kids) /\ Len(done.kids) \in Nat
    BY LenProperties DEF LayersOver
  <2>4. \A k \in 1..Len(done.kids) : done.kids[k] \in Results
    BY <2>3, ElementOfSeq
  <2>5. PICK ks : ks = [i \in 1..Len(done.kids) |-> Pair(layer.kids[i], done.kids[i])]
    OBVIOUS
  <2>6. ks \in [1..Len(done.kids) -> Pairs(Trees, Results)]
    BY <1>9, <2>1, <2>2, <2>4, <2>5 DEF Pairs, Pair
  <2>7. ks \in Seq(Pairs(Trees, Results))
    BY <2>3, <2>6
  <2>8. Len(ks) = Len(done.kids)
    <3>1. DOMAIN ks = 1..Len(done.kids)
      BY <2>5
    <3>2. DOMAIN ks = 1..Len(ks) /\ Len(ks) \in Nat
      BY <2>7, LenProperties
    <3> QED BY <2>3, <3>1, <3>2
  <2>9. besides(t, done) = [done EXCEPT !.kids = ks]
    BY <2>1, <2>3, <2>5 DEF besides
  <2>10. PICK top : top = besides(t, done)
    OBVIOUS
  <2>11. top \in [label : DOMAIN F, kids : Seq(Pairs(Trees, Results))]
         /\ top.kids = ks /\ top.label = done.label
    BY <2>3, <2>7, <2>9, <2>10
  <2>12. Len(top.kids) \in F[top.label]
    BY <2>3, <2>8, <2>11
  <2> QED BY <2>10, <2>11, <2>12 DEF LayersOver
<1>10. Makes(Results, j, Trees, F)
  <2>1. \A t \in Trees : Coalgebra(j, t).right = unwrap_fix(t)
    BY <1>4 DEF Right
  <2> QED BY <1>2, <1>9, <2>1 DEF Makes, IsCopied
<1>11. ASSUME NEW t \in Trees PROVE z[t] = Algebra(j, t, Over(z, unwrap_fix(t)))
  <2>1. PICK layer \in LayersOver(F, Trees) : layer = unwrap_fix(t)
    BY DEF OnTree, Fixed
  <2>2. \A k \in 1..Len(layer.kids) : layer.kids[k] \in Trees
    BY <2>1, KidsAreTrees DEF OnTree
  <2>3. PICK done : done = Over(z, layer)
    OBVIOUS
  <2>4. IsOver(done, z, layer, F, Results)
    BY <1>6, <2>3, OverIsFilled
  <2>5. done \in [label : DOMAIN F, kids : Seq(Results)] /\ DOMAIN done.kids = 1..Len(layer.kids)
    BY <2>4, LenProperties DEF IsOver, LayersOver
  <2>6. [i \in DOMAIN done.kids |-> Pair(layer.kids[i], done.kids[i])]
          = [k \in 1..Len(layer.kids) |-> c[layer.kids[k]]]
    BY <1>8, <2>2, <2>4, <2>5 DEF IsOver
  <2>7. besides(t, done) = [done EXCEPT !.kids = [k \in 1..Len(layer.kids) |-> c[layer.kids[k]]]]
    BY <2>1, <2>6 DEF besides
  <2>8. PICK below : below = Over(c, layer)
    OBVIOUS
  <2>9. IsOver(below, c, layer, F, Pairs(Trees, Results))
    BY <2>8, OverIsFilled DEF IsCopied
  <2>10. below = [layer EXCEPT !.kids = [k \in 1..Len(layer.kids) |-> c[layer.kids[k]]]]
    BY <2>9 DEF IsOver, Filled, OfKids
  <2>11. done.label = layer.label /\ layer \in [label : DOMAIN F, kids : Seq(Trees)]
    BY <2>4 DEF IsOver, LayersOver
  <2>12. \A ks : [done EXCEPT !.kids = ks] = [layer EXCEPT !.kids = ks]
    BY <2>5, <2>11
  <2>13. besides(t, done) = below
    BY <2>7, <2>10, <2>12
  <2>14. z[t] = phi(j, below)
    BY <1>6, <2>1, <2>8 DEF IsCopied, Second, Pair
  <2> QED BY <1>2, <2>1, <2>3, <2>13, <2>14
<1>12. Second(c[j.tree]) = Finish(j, z[j.tree])
  BY <1>3, <1>6 DEF OnTree
<1> QED BY <1>1, <1>6, <1>10, <1>11, <1>12, FoldAnswers

(***************************************************************************)
(* The unfolds.  Where a call goes over a tree that its coalgebra grows,   *)
(* it answers as if it had built the tree first and folded it then.        *)
(***************************************************************************)
LEMMA RefoldAnswers ==
  ASSUME NEW j, NEW Seeds, NEW Trees, NEW F, NEW Results, NEW u, NEW f,
         Grows(u, j, Seeds, Trees, F), IsCata(f, j, Trees, F, Results),
         \A s, layer : Algebra(j, s, layer) = phi(j, layer), \A v : Finish(j, v) = v
  PROVE  Fuses(j, Trees, u[SeedOf(j)], f[u[SeedOf(j)]])
<1>1. Makes(Results, j, Seeds, F)
  BY DEF Makes, IsCata
<1>2. ASSUME NEW s \in Seeds PROVE f[u[s]] = Algebra(j, s, Over(f, unwrap_fix(u[s])))
  <2>1. u[s] \in Trees
    BY DEF Grows
  <2> QED BY <2>1 DEF IsCata
<1> QED BY <1>1, <1>2 DEF Fuses, Fusing, IsCata

(* A fold of histories of a grown tree. *)
LEMMA HistoryAnswers ==
  ASSUME NEW j, NEW Seeds, NEW Trees, NEW F, NEW Results, NEW u, NEW h,
         Grows(u, j, Seeds, Trees, F), IsHistories(h, j, Trees, F, Results),
         \A s, layer : Algebra(j, s, layer) = annotated(j, layer),
         \A v : Finish(j, v) = extract(v)
  PROVE  Fuses(j, Trees, u[SeedOf(j)], extract(h[u[SeedOf(j)]]))
<1>1. Makes(Results, j, Seeds, F)
  BY DEF Makes, IsHistories, annotated
<1>2. ASSUME NEW s \in Seeds PROVE h[u[s]] = Algebra(j, s, Over(h, unwrap_fix(u[s])))
  <2>1. u[s] \in Trees
    BY DEF Grows
  <2> QED BY <2>1 DEF IsHistories, annotated
<1> QED BY <1>1, <1>2 DEF Fuses, Fusing, IsHistories

(* The grown tree itself. *)
LEMMA TreeAnswers ==
  ASSUME NEW j, NEW Seeds, NEW Trees, NEW F, NEW u,
         Grows(u, j, Seeds, Trees, F), Fixed(Trees, F),
         \A s, layer : Algebra(j, s, layer) = wrap_fix(layer), \A v : Finish(j, v) = v
  PROVE  Fuses(j, Trees, u[SeedOf(j)], u[SeedOf(j)])
<1> DEFINE id == [t \in Trees |-> t]
<1>1. Makes(Trees, j, Seeds, F)
  BY DEF Makes, Fixed
<1>2. id \in [Trees -> Trees] /\ \A t \in Trees : id[t] = t
  OBVIOUS
<1>3. ASSUME NEW s \in Seeds PROVE id[u[s]] = Algebra(j, s, Over(id, unwrap_fix(u[s])))
  <2>1. u[s] \in Trees
    BY DEF Grows
  <2>2. unwrap_fix(u[s]) \in LayersOver(F, Trees) /\ wrap_fix(unwrap_fix(u[s])) = u[s]
    BY <2>1 DEF Fixed
  <2>3. Over(id, unwrap_fix(u[s])) = unwrap_fix(u[s])
    BY <2>2, OverNothing
  <2> HIDE DEF id
  <2> QED BY <1>2, <2>1, <2>2, <2>3
<1>4. u[SeedOf(j)] \in Trees
  BY DEF Grows
<1>5. u[SeedOf(j)] = Finish(j, id[u[SeedOf(j)]])
  BY <1>4
<1> HIDE DEF id
<1> QED BY <1>1, <1>2, <1>3, <1>5 DEF Fuses, Fusing

(* Ana: the tree that grows from each seed. *)
IsAna(u, j, Seeds, Trees, F) ==
  /\ \A s \in Seeds : psi(j, s) \in LayersOver(F, Seeds)
  /\ u \in [Seeds -> Trees]
  /\ \A s \in Seeds : u[s] = wrap_fix(Over(u, psi(j, s)))

(* An unfold goes over what Ana grows, *)
LEMMA AnaGrows ==
  ASSUME NEW j, NEW Seeds, NEW Trees, NEW F, NEW u,
         CallOf(j, Unfolds), OnSeed(j, Seeds), IsAna(u, j, Seeds, Trees, F)
  PROVE  SeedOf(j) = j.seed /\ Grows(u, j, Seeds, Trees, F)
<1>1. \A s : Coalgebra(j, s) = Right(psi(j, s))
  BY DEF CallOf, SchemeCoalgebra, Folds, Unfolds, ChunkUnfolds
<1>2. SeedOf(j) = j.seed
  BY DEF CallOf, SchemeSeed, OnSeed, Unfolds, ChunkUnfolds
<1> QED BY <1>1, <1>2 DEF Grows, IsAna, OnSeed, Right

(* Futu and Planted: a chunk is planted whole, and each of its leaves grows a tree. *)
IsFutu(v, u, j, Seeds, Chunks, Trees, F) ==
  /\ \A s \in Seeds : pure_free(s) \in Chunks /\ psi(j, s) \in LayersOver(F, Chunks)
  /\ \A c \in Chunks : IF is_pure(c) THEN c.value \in Seeds ELSE c.layer \in LayersOver(F, Chunks)
  /\ v \in [Seeds -> Trees] /\ u \in [Chunks -> Trees]
  /\ \A s \in Seeds : v[s] = wrap_fix(Over(u, psi(j, s)))
  /\ \A c \in Chunks : u[c] = IF is_pure(c) THEN v[c.value] ELSE wrap_fix(Over(u, c.layer))

(* one of chunks over what Futu grows, *)
LEMMA FutuGrows ==
  ASSUME NEW j, NEW Seeds, NEW Chunks, NEW Trees, NEW F, NEW v, NEW u,
         CallOf(j, ChunkUnfolds), OnSeed(j, Seeds), IsFutu(v, u, j, Seeds, Chunks, Trees, F)
  PROVE  u[SeedOf(j)] = v[j.seed] /\ Grows(u, j, Chunks, Trees, F)
<1>1. \A c : Coalgebra(j, c) = Right(unroll(j, c))
  BY DEF CallOf, SchemeCoalgebra, Folds, Unfolds, ChunkUnfolds
<1>2. SeedOf(j) = pure_free(j.seed)
  BY DEF CallOf, SchemeSeed, OnSeed, ChunkUnfolds
<1>3. SeedOf(j) \in Chunks /\ u[SeedOf(j)] = v[j.seed]
  BY <1>2 DEF IsFutu, OnSeed, is_pure, pure_free
<1>4. ASSUME NEW c \in Chunks
      PROVE  unroll(j, c) \in LayersOver(F, Chunks) /\ u[c] = wrap_fix(Over(u, unroll(j, c)))
  <2>1. CASE is_pure(c)
    BY <2>1 DEF IsFutu, unroll
  <2>2. CASE ~is_pure(c)
    BY <2>2 DEF IsFutu, unroll
  <2> QED BY <2>1, <2>2
<1> QED BY <1>1, <1>3, <1>4 DEF Grows, IsFutu, Right

(* Chosen: what a Mendler algebra folds of each tree, which may be layers of another shape. *)
IsChosen(u, j, Trees, Pruned, F) ==
  /\ \A t \in Trees : picked(j, unwrap_fix(t)) \in LayersOver(F, Trees)
  /\ u \in [Trees -> Pruned]
  /\ \A t \in Trees : u[t] = wrap_fix(Over(u, picked(j, unwrap_fix(t))))

(* and mcata over what its algebra chose. *)
LEMMA ChosenGrows ==
  ASSUME NEW j, NEW Trees, NEW Pruned, NEW F, NEW u,
         CallOf(j, {"mcata"}), "tree" \in DOMAIN j, j.tree \in Trees,
         IsChosen(u, j, Trees, Pruned, F)
  PROVE  SeedOf(j) = j.tree /\ Grows(u, j, Trees, Pruned, F)
<1>1. \A t : Coalgebra(j, t) = Right(picked(j, unwrap_fix(t)))
  BY DEF CallOf, SchemeCoalgebra, Folds, Unfolds, ChunkUnfolds
<1>2. SeedOf(j) = j.tree
  BY DEF CallOf, SchemeSeed, ChunkUnfolds
<1> QED BY <1>1, <1>2 DEF Grows, IsChosen, Right

(* refold, codyna and mcata fold what they go over. *)
LEMMA RefoldsAnswer ==
  ASSUME NEW j, NEW Seeds, NEW Trees, NEW F, NEW Results, NEW u, NEW f,
         CallOf(j, {"refold", "codyna", "mcata"}),
         Grows(u, j, Seeds, Trees, F), IsCata(f, j, Trees, F, Results)
  PROVE  Fuses(j, Trees, u[SeedOf(j)], f[u[SeedOf(j)]])
<1>1. \A s, layer : Algebra(j, s, layer) = phi(j, layer)
  BY DEF CallOf, SchemeAlgebra
<1>2. \A v : Finish(j, v) = v
  BY DEF CallOf, SchemeFinish
<1> QED BY <1>1, <1>2, RefoldAnswers

(* dyna and chrono look back at it. *)
LEMMA DynaAnswers ==
  ASSUME NEW j, NEW Seeds, NEW Trees, NEW F, NEW Results, NEW u, NEW h,
         CallOf(j, {"dyna", "chrono"}),
         Grows(u, j, Seeds, Trees, F), IsHistories(h, j, Trees, F, Results)
  PROVE  Fuses(j, Trees, u[SeedOf(j)], extract(h[u[SeedOf(j)]]))
<1>1. \A s, layer : Algebra(j, s, layer) = annotated(j, layer)
  BY DEF CallOf, SchemeAlgebra
<1>2. \A v : Finish(j, v) = extract(v)
  BY DEF CallOf, SchemeFinish
<1> QED BY <1>1, <1>2, HistoryAnswers

(* unfold_fix and futu answer it. *)
LEMMA UnfoldsAnswer ==
  ASSUME NEW j, NEW Seeds, NEW Trees, NEW F, NEW u,
         CallOf(j, {"unfold_fix", "futu"}),
         Grows(u, j, Seeds, Trees, F), Fixed(Trees, F)
  PROVE  Fuses(j, Trees, u[SeedOf(j)], u[SeedOf(j)])
<1>1. \A s, layer : Algebra(j, s, layer) = wrap_fix(layer)
  BY DEF CallOf, SchemeAlgebra
<1>2. \A v : Finish(j, v) = v
  BY DEF CallOf, SchemeFinish
<1> QED BY <1>1, <1>2, TreeAnswers

(***************************************************************************)
(* Calls that build no tree: the schemes that show the algebra the seed,   *)
(* and those whose coalgebra may answer a seed at once.                    *)
(***************************************************************************)
Solution(h, j, Seeds, F, Results) ==
  /\ SeedOf(j) \in Seeds
  /\ \A s \in Seeds, layer \in LayersOver(F, Results) : Algebra(j, s, layer) \in Results
  /\ h \in [Seeds -> Results]
  /\ \A s \in Seeds : LET step == Coalgebra(j, s) IN
       \/ step.side = "Left" /\ step.left \in Results /\ h[s] = step.left
       \/ /\ step.side = "Right" /\ step.right \in LayersOver(F, Seeds)
          /\ h[s] = Algebra(j, s, Over(h, step.right))

(* A layer of seeds, with results in all their places. *)
LEMMA FilledIsLayer ==
  ASSUME NEW F, NEW Seeds, NEW Results, NEW layer \in LayersOver(F, Seeds),
         NEW done \in Seq(Results), Len(done) = Len(layer.kids)
  PROVE  Filled(layer, done) \in LayersOver(F, Results)
<1>1. layer \in [label : DOMAIN F, kids : Seq(Seeds)] /\ Len(layer.kids) \in F[layer.label]
  BY DEF LayersOver
<1>2. PICK top : top = Filled(layer, done)
  OBVIOUS
<1>3. top \in [label : DOMAIN F, kids : Seq(Results)] /\ top.kids = done /\ top.label = layer.label
  BY <1>1, <1>2 DEF Filled
<1> QED BY <1>1, <1>2, <1>3 DEF LayersOver

(* Such a call is what its C++ types say. *)
LEMMA SolutionTyped ==
  ASSUME NEW j, NEW Seeds, NEW F, NEW Results, NEW h, Solution(h, j, Seeds, F, Results)
  PROVE  Typed({j}, Seeds, LayersOver(F, Seeds), Results)
<1>1. \A layer \in LayersOver(F, Seeds) : layer.kids \in Seq(Seeds)
  BY DEF LayersOver
<1>2. ASSUME NEW s \in Seeds, NEW done \in Seq(Results), Coalgebra(j, s).side = "Right",
             Len(done) = Len(Coalgebra(j, s).right.kids)
      PROVE  Algebra(j, s, Filled(Coalgebra(j, s).right, done)) \in Results
  <2>1. PICK layer \in LayersOver(F, Seeds) : layer = Coalgebra(j, s).right
    BY <1>2 DEF Solution
  <2>2. Filled(layer, done) \in LayersOver(F, Results)
    BY <1>2, <2>1, FilledIsLayer
  <2> QED BY <2>1, <2>2 DEF Solution
<1> QED BY <1>1, <1>2 DEF Typed, Solution

(* It answers what its equation gives. *)
LEMMA DirectAnswer ==
  ASSUME NEW j, NEW Seeds, NEW F, NEW Results, NEW h, Solution(h, j, Seeds, F, Results),
         OwedAnswer(j) = Finish(j, h[SeedOf(j)])
  PROVE  Answers(j)
<1>1. ASSUME NEW s \in Seeds
      PROVE  Coalgebra(j, s).side \in {"Left", "Right"} /\ h[s] = ValueBy(h, j, s)
  <2>1. CASE Coalgebra(j, s).side = "Left"
    BY <2>1 DEF Solution, ValueBy
  <2>2. CASE Coalgebra(j, s).side # "Left"
    <3>1. Coalgebra(j, s).side = "Right" /\ Coalgebra(j, s).right \in LayersOver(F, Seeds)
          /\ h[s] = Algebra(j, s, Over(h, Coalgebra(j, s).right))
      BY <2>2 DEF Solution
    <3>2. PICK layer \in LayersOver(F, Seeds) : layer = Coalgebra(j, s).right
      BY <3>1
    <3>3. IsOver(Over(h, layer), h, layer, F, Results)
      BY OverIsFilled DEF Solution
    <3>4. Over(h, layer) = Filled(layer, OfKids(h, layer))
      BY <3>3 DEF IsOver
    <3> QED BY <3>1, <3>2, <3>4 DEF ValueBy
  <2> QED BY <2>1, <2>2
<1>2. SolvesCall(h, j, Seeds, Results)
  BY <1>1 DEF SolvesCall, Solution
<1> QED BY <1>2, SolutionTyped DEF Answers, AnswersBy

(* Coelgot, whose algebra sees the seed as well. *)
IsCoelgot(h, j, Seeds, F, Results) ==
  /\ \A s \in Seeds : psi(j, s) \in LayersOver(F, Seeds)
  /\ \A s \in Seeds, layer \in LayersOver(F, Results) : phiAt(j, s, layer) \in Results
  /\ h \in [Seeds -> Results]
  /\ \A s \in Seeds : h[s] = phiAt(j, s, Over(h, psi(j, s)))

(* AnaWith, every node with the head of its seed. *)
IsAnaWith(h, j, Seeds, F, Results) ==
  /\ \A s \in Seeds : psi(j, s) \in LayersOver(F, Seeds)
  /\ \A s \in Seeds, layer \in LayersOver(F, Results) : Cofree(headFn(s), layer) \in Results
  /\ h \in [Seeds -> Results]
  /\ \A s \in Seeds : h[s] = Cofree(headFn(s), Over(h, psi(j, s)))

(* Elgot: a seed is answered, or its layer is folded. *)
IsElgot(h, j, Seeds, F, Results) ==
  /\ \A layer \in LayersOver(F, Results) : phi(j, layer) \in Results
  /\ h \in [Seeds -> Results]
  /\ \A s \in Seeds :
       \/ psi(j, s).side = "Left" /\ psi(j, s).left \in Results /\ h[s] = psi(j, s).left
       \/ /\ psi(j, s).side = "Right" /\ psi(j, s).right \in LayersOver(F, Seeds)
          /\ h[s] = phi(j, Over(h, psi(j, s).right))

(* Apo: a finished subtree is grafted, a seed grows a tree. *)
IsApo(h, j, Ends, Trees, F) ==
  /\ h \in [Ends -> Trees]
  /\ \A e \in Ends :
       \/ e.side = "Left" /\ e.left \in Trees /\ h[e] = e.left
       \/ /\ e.side = "Right" /\ psi(j, e.right) \in LayersOver(F, Ends)
          /\ h[e] = wrap_fix(Over(h, psi(j, e.right)))

(* The schemes' equations are of that form. *)
LEMMA CoelgotSolves ==
  ASSUME NEW j, NEW Seeds, NEW F, NEW Results, NEW h,
         CallOf(j, {"coelgot"}), OnSeed(j, Seeds), IsCoelgot(h, j, Seeds, F, Results)
  PROVE  Solution(h, j, Seeds, F, Results) /\ SeedOf(j) = j.seed
<1>1. \A s : Coalgebra(j, s) = Right(psi(j, s))
  BY DEF CallOf, SchemeCoalgebra, Folds, Unfolds, ChunkUnfolds
<1>2. \A s, layer : Algebra(j, s, layer) = phiAt(j, s, layer)
  BY DEF CallOf, SchemeAlgebra
<1>3. SeedOf(j) = j.seed
  BY DEF CallOf, SchemeSeed, OnSeed, ChunkUnfolds
<1> QED BY <1>1, <1>2, <1>3 DEF Solution, IsCoelgot, OnSeed, Right

LEMMA UnfoldCofreeSolves ==
  ASSUME NEW j, NEW Seeds, NEW F, NEW Results, NEW h,
         CallOf(j, {"unfold_cofree"}), OnSeed(j, Seeds), IsAnaWith(h, j, Seeds, F, Results)
  PROVE  Solution(h, j, Seeds, F, Results) /\ SeedOf(j) = j.seed
<1>1. \A s : Coalgebra(j, s) = Right(psi(j, s))
  BY DEF CallOf, SchemeCoalgebra, Folds, Unfolds, ChunkUnfolds
<1>2. \A s, layer : Algebra(j, s, layer) = Cofree(headFn(s), layer)
  BY DEF CallOf, SchemeAlgebra
<1>3. SeedOf(j) = j.seed
  BY DEF CallOf, SchemeSeed, OnSeed, ChunkUnfolds
<1> QED BY <1>1, <1>2, <1>3 DEF Solution, IsAnaWith, OnSeed, Right

LEMMA ElgotSolves ==
  ASSUME NEW j, NEW Seeds, NEW F, NEW Results, NEW h,
         CallOf(j, Stoppable), OnSeed(j, Seeds), IsElgot(h, j, Seeds, F, Results)
  PROVE  Solution(h, j, Seeds, F, Results) /\ SeedOf(j) = j.seed
<1>1. \A s : Coalgebra(j, s) = psi(j, s)
  BY DEF CallOf, SchemeCoalgebra, Stoppable, Folds, Unfolds, ChunkUnfolds, elgotStep
<1>2. \A s, layer : Algebra(j, s, layer) = phi(j, layer)
  BY DEF CallOf, SchemeAlgebra, Stoppable
<1>3. SeedOf(j) = j.seed
  BY DEF CallOf, SchemeSeed, OnSeed, Stoppable, ChunkUnfolds
<1> QED BY <1>1, <1>2, <1>3 DEF Solution, IsElgot, OnSeed

LEMMA ApoSolves ==
  ASSUME NEW j, NEW Ends, NEW Trees, NEW F, NEW h, Fixed(Trees, F),
         CallOf(j, {"apo"}), "tree" \notin DOMAIN j, Right(j.seed) \in Ends,
         IsApo(h, j, Ends, Trees, F)
  PROVE  Solution(h, j, Ends, F, Trees) /\ SeedOf(j) = Right(j.seed)
<1>1. \A e : Coalgebra(j, e) = grafted(j, e)
  BY DEF CallOf, SchemeCoalgebra, Folds, Unfolds, ChunkUnfolds
<1>2. \A s, layer : Algebra(j, s, layer) = wrap_fix(layer)
  BY DEF CallOf, SchemeAlgebra
<1>3. SeedOf(j) = Right(j.seed)
  BY DEF CallOf, SchemeSeed, ChunkUnfolds
<1>4. ASSUME NEW e \in Ends, NEW step, step = Coalgebra(j, e)
      PROVE  \/ step.side = "Left" /\ step.left \in Trees /\ h[e] = step.left
             \/ /\ step.side = "Right" /\ step.right \in LayersOver(F, Ends)
                /\ h[e] = wrap_fix(Over(h, step.right))
  BY <1>1, <1>4 DEF IsApo, grafted, Right
<1> QED BY <1>2, <1>3, <1>4 DEF Solution, IsApo, Fixed

(***************************************************************************)
(* prepro and postpro: repeated rewriting.                                 *)
(***************************************************************************)
(* m[t] is hoist(e, t); hoist rewrites a layer after those below it. *)
IsHoist(m, e, Trees) ==
  /\ m \in [Trees -> Trees]
  /\ \A t \in Trees : m[t] = hoist(e, t) /\ m[t] = wrap_fix(natural(e, Over(m, unwrap_fix(t))))

(* Repeated: a layer, rewritten n times. *)
IsRepeated(rep, e, Trees, F) ==
  LET Layers == LayersOver(F, Trees) IN
  /\ rep \in [Nat -> [Layers -> Layers]]
  /\ \A layer \in Layers : rep[0][layer] = layer
  /\ \A n \in Nat : \A layer \in Layers : rep[n + 1][layer] = rep[n][natural(e, layer)]

(* AtDepth: d[k][t] is the tree t at depth k, with a node at depth n rewritten n times. *)
IsAtDepth(d, rep, Trees) ==
  /\ d \in [Nat -> [Trees -> Trees]]
  /\ \A k \in Nat : \A t \in Trees : d[k][t] = wrap_fix(Over(d[k + 1], rep[k][unwrap_fix(t)]))

(* A layer is one over its own children. *)
LEMMA OverItsKids ==
  ASSUME NEW F, NEW Trees, NEW layer \in LayersOver(F, Trees),
         NEW S, S = {layer.kids[k] : k \in 1..Len(layer.kids)}
  PROVE  S \subseteq Trees /\ layer \in LayersOver(F, S)
<1>1. layer \in [label : DOMAIN F, kids : Seq(Trees)] /\ Len(layer.kids) \in F[layer.label]
  BY DEF LayersOver
<1>2. Len(layer.kids) \in Nat /\ layer.kids \in [1..Len(layer.kids) -> Trees]
  BY <1>1, LenProperties
<1>3. layer.kids \in [1..Len(layer.kids) -> S]
  BY <1>2
<1>4. layer.kids \in Seq(S)
  BY <1>2, <1>3
<1>5. layer \in [label : DOMAIN F, kids : Seq(S)]
  BY <1>1, <1>4
<1> QED BY <1>1, <1>2, <1>5 DEF LayersOver

(* The same natural transformation is applied first or last. *)
LEMMA RepeatedOnceMore ==
  ASSUME NEW e, NEW Trees, NEW F, NEW rep,
         Natural(e, Trees, F), IsRepeated(rep, e, Trees, F)
  PROVE  \A n \in Nat : \A layer \in LayersOver(F, Trees) :
           rep[n + 1][layer] = natural(e, rep[n][layer])
<1> DEFINE Layers == LayersOver(F, Trees)
           S == {n \in Nat : \A layer \in Layers : rep[n + 1][layer] = natural(e, rep[n][layer])}
<1>1. \A layer \in Layers : natural(e, layer) \in Layers
  BY DEF Natural
<1>2. 0 \in S
  BY <1>1 DEF IsRepeated
<1>3. ASSUME NEW n \in Nat, n \in S PROVE n + 1 \in S
  <2>1. ASSUME NEW layer \in Layers PROVE rep[(n + 1) + 1][layer] = natural(e, rep[n + 1][layer])
    <3>1. rep[(n + 1) + 1][layer] = rep[n + 1][natural(e, layer)]
      BY DEF IsRepeated
    <3>2. rep[n + 1][natural(e, layer)] = natural(e, rep[n][natural(e, layer)])
      BY <1>1, <1>3
    <3>3. rep[n][natural(e, layer)] = rep[n + 1][layer]
      BY DEF IsRepeated
    <3> QED BY <3>1, <3>2, <3>3
  <2> QED BY <2>1
<1> HIDE DEF S
<1>4. \A n \in Nat : n \in S
  BY <1>2, <1>3, Inductive
<1> QED BY <1>4 DEF S

(* Rewriting any number of times is natural as well. *)
LEMMA RepeatedIsNatural ==
  ASSUME NEW e, NEW Trees, NEW F, NEW rep,
         Natural(e, Trees, F), IsRepeated(rep, e, Trees, F),
         NEW f \in [Trees -> Trees]
  PROVE  \A n \in Nat : \A layer \in LayersOver(F, Trees) :
           rep[n][Over(f, layer)] = Over(f, rep[n][layer])
<1> DEFINE Layers == LayersOver(F, Trees)
           S == {n \in Nat : \A layer \in Layers : rep[n][Over(f, layer)] = Over(f, rep[n][layer])}
<1>1. \A layer \in Layers : natural(e, layer) \in Layers
  BY DEF Natural
<1>2. \A layer \in Layers : Over(f, layer) \in Layers
  BY OverIsFilled DEF IsOver
<1>3. 0 \in S
  BY <1>2 DEF IsRepeated
<1>4. ASSUME NEW n \in Nat, n \in S PROVE n + 1 \in S
  <2>1. ASSUME NEW layer \in Layers PROVE rep[n + 1][Over(f, layer)] = Over(f, rep[n + 1][layer])
    <3>1. rep[n + 1][Over(f, layer)] = rep[n][natural(e, Over(f, layer))]
      BY <1>2 DEF IsRepeated
    <3>2. natural(e, Over(f, layer)) = Over(f, natural(e, layer))
      BY DEF Natural
    <3>3. rep[n][Over(f, natural(e, layer))] = Over(f, rep[n][natural(e, layer)])
      BY <1>1, <1>4
    <3>4. rep[n][natural(e, layer)] = rep[n + 1][layer]
      BY DEF IsRepeated
    <3> QED BY <3>1, <3>2, <3>3, <3>4
  <2> QED BY <2>1
<1> HIDE DEF S
<1>5. \A n \in Nat : n \in S
  BY <1>3, <1>4, Inductive
<1> QED BY <1>5 DEF S

(* It leaves no child that was not there. *)
LEMMA RepeatedKeepsKids ==
  ASSUME NEW e, NEW Trees, NEW F, NEW rep,
         Natural(e, Trees, F), IsRepeated(rep, e, Trees, F),
         NEW n \in Nat, NEW layer \in LayersOver(F, Trees)
  PROVE  /\ rep[n][layer] \in LayersOver(F, Trees)
         /\ \A k \in 1..Len(rep[n][layer].kids) :
              \E i \in 1..Len(layer.kids) : rep[n][layer].kids[k] = layer.kids[i]
<1> DEFINE K == {layer.kids[k] : k \in 1..Len(layer.kids)}
           S == {m \in Nat : rep[m][layer] \in LayersOver(F, K)}
<1>1. K \subseteq Trees /\ layer \in LayersOver(F, K)
  BY OverItsKids
<1>2. 0 \in S
  BY <1>1 DEF IsRepeated
<1>3. ASSUME NEW m \in Nat, m \in S PROVE m + 1 \in S
  <2>1. rep[m][layer] \in LayersOver(F, K)
    BY <1>3
  <2>2. natural(e, rep[m][layer]) \in LayersOver(F, K)
    BY <1>1, <2>1 DEF Natural
  <2>3. rep[m + 1][layer] = natural(e, rep[m][layer])
    BY RepeatedOnceMore
  <2> QED BY <2>2, <2>3
<1>4. rep[n][layer] \in LayersOver(F, K)
  <2> HIDE DEF S
  <2>1. n \in S
    BY <1>2, <1>3, Inductive
  <2> QED BY <2>1 DEF S
<1>5. PICK top : top = rep[n][layer]
  OBVIOUS
<1>6. \A k \in 1..Len(top.kids) : top.kids[k] \in K
  <2>1. [x \in K |-> x] \in [K -> K] /\ top.kids \in Seq(K)
    BY <1>4, <1>5 DEF LayersOver
  <2> QED BY <2>1, KidsHaveValues
<1>7. top \in LayersOver(F, Trees)
  BY <1>5 DEF IsRepeated
<1> QED BY <1>5, <1>6, <1>7

(* What is assumed of the rewriting that prepro and postpro repeat. *)
Rewriting(e, m, rep, d, height, Trees, F) ==
  /\ Fixed(Trees, F) /\ Finite(height, Trees)
  /\ Natural(e, Trees, F)
  /\ IsHoist(m, e, Trees)
  /\ IsRepeated(rep, e, Trees, F)
  /\ IsAtDepth(d, rep, Trees)

(* hoist of a tree is hoist of the children of its rewritten layer. *)
LEMMA HoistIsOver ==
  ASSUME NEW e, NEW m, NEW rep, NEW d, NEW height, NEW Trees, NEW F,
         Rewriting(e, m, rep, d, height, Trees, F), NEW t \in Trees
  PROVE  /\ m[t] \in Trees
         /\ unwrap_fix(m[t]) = Over(m, natural(e, unwrap_fix(t)))
<1>1. unwrap_fix(t) \in LayersOver(F, Trees)
  BY DEF Rewriting, Fixed
<1>2. m \in [Trees -> Trees] /\ m[t] = wrap_fix(natural(e, Over(m, unwrap_fix(t))))
  BY DEF Rewriting, IsHoist
<1>3. natural(e, Over(m, unwrap_fix(t))) = Over(m, natural(e, unwrap_fix(t)))
  BY <1>1, <1>2 DEF Rewriting, Natural
<1> QED BY <1>2, <1>3 DEF wrap_fix, unwrap_fix

(* The tree rewritten k times at its root is rewritten once more at its children. *)
LEMMA AtDepthStep ==
  ASSUME NEW e, NEW m, NEW rep, NEW d, NEW height, NEW Trees, NEW F,
         Rewriting(e, m, rep, d, height, Trees, F), NEW n \in Nat, NEW t \in Trees
  PROVE  d[n][t] = wrap_fix(Over(d[n + 1], rep[n][unwrap_fix(t)]))
BY DEF Rewriting, IsAtDepth

(* A tree that was rewritten is, at any depth, the tree one level further down. *)
LEMMA RewrittenIsDeeper ==
  ASSUME NEW e, NEW m, NEW rep, NEW d, NEW height, NEW Trees, NEW F,
         Rewriting(e, m, rep, d, height, Trees, F)
  PROVE  \A t \in Trees : \A k \in Nat : d[k][m[t]] = d[k + 1][t]
<1> DEFINE S == {t \in Trees : \A k \in Nat : d[k][m[t]] = d[k + 1][t]}
<1>1. Fixed(Trees, F) /\ Finite(height, Trees) /\ Natural(e, Trees, F)
      /\ IsRepeated(rep, e, Trees, F) /\ m \in [Trees -> Trees]
      /\ \A k \in Nat : d[k] \in [Trees -> Trees]
  BY DEF Rewriting, IsHoist, IsAtDepth
<1>2. ASSUME NEW t \in Trees,
             \A i \in 1..Len(unwrap_fix(t).kids) : unwrap_fix(t).kids[i] \in S
      PROVE  t \in S
  <2>1. ASSUME NEW k \in Nat PROVE d[k][m[t]] = d[k + 1][t]
    <3>1. PICK layer \in LayersOver(F, Trees) : layer = unwrap_fix(t)
      BY <1>1 DEF Fixed
    <3>2. PICK once \in LayersOver(F, Trees) : once = natural(e, layer)
      BY <1>1 DEF Natural
    <3>3. PICK more \in LayersOver(F, Trees) :
            more = rep[k + 1][layer]
            /\ \A n \in 1..Len(more.kids) :
                 \E i \in 1..Len(layer.kids) : more.kids[n] = layer.kids[i]
      BY <1>1, RepeatedKeepsKids
    <3>4. more = rep[k][once]
      BY <1>1, <3>2, <3>3 DEF IsRepeated
    <3>5. unwrap_fix(m[t]) = Over(m, once) /\ m[t] \in Trees
      BY <3>1, <3>2, HoistIsOver
    <3>6. rep[k][Over(m, once)] = Over(m, more)
      BY <1>1, <3>4, RepeatedIsNatural
    <3>7. d[k][m[t]] = wrap_fix(Over(d[k + 1], Over(m, more)))
      BY <3>5, <3>6 DEF Rewriting, IsAtDepth
    <3>8. PICK near \in [Trees -> Trees], deep \in [Trees -> Trees] :
            near = d[k + 1] /\ deep = d[(k + 1) + 1]
      BY <1>1
    <3>9. ASSUME NEW n \in 1..Len(more.kids) PROVE deep[more.kids[n]] = near[m[more.kids[n]]]
      <4>1. PICK i \in 1..Len(layer.kids) : more.kids[n] = layer.kids[i]
        BY <3>3
      <4>2. PICK c \in S : c = layer.kids[i]
        BY <1>2, <3>1
      <4>3. d[k + 1][m[c]] = d[(k + 1) + 1][c]
        OBVIOUS
      <4> QED BY <3>8, <4>1, <4>2, <4>3
    <3> HIDE DEF S
    <3>10. m \in [Trees -> Trees]
      BY <1>1
    <3>11. Composed(m, near, deep, more, F, Trees, Trees, Trees)
      BY <3>9, <3>10 DEF Composed
    <3>12. Over(near, Over(m, more)) = Over(deep, more)
      BY <3>11, OverOver
    <3>13. k + 1 \in Nat
      BY <2>1
    <3>14. d[k + 1][t] = wrap_fix(Over(d[(k + 1) + 1], rep[k + 1][unwrap_fix(t)]))
      BY <3>13, <1>2, AtDepthStep
    <3>15. d[k + 1][t] = wrap_fix(Over(d[(k + 1) + 1], more))
      BY <3>1, <3>3, <3>14
    <3> QED BY <3>7, <3>8, <3>12, <3>15
  <2> QED BY <2>1
<1>3. \A t \in Trees : \A k \in 1..Len(unwrap_fix(t).kids) : unwrap_fix(t).kids[k] \in Trees
  BY <1>1, KidsAreTrees
<1> HIDE DEF S
<1>4. \A t \in Trees : t \in S
  BY <1>1, <1>2, <1>3, TreeInduction
<1> QED BY <1>4 DEF S

(* And the tree one level further down is that tree, rewritten. *)
LEMMA DeeperIsRewritten ==
  ASSUME NEW e, NEW m, NEW rep, NEW d, NEW height, NEW Trees, NEW F,
         Rewriting(e, m, rep, d, height, Trees, F)
  PROVE  \A t \in Trees : \A k \in Nat : d[k + 1][t] = m[d[k][t]]
<1> DEFINE S == {t \in Trees : \A k \in Nat : d[k + 1][t] = m[d[k][t]]}
<1>1. Fixed(Trees, F) /\ Finite(height, Trees) /\ Natural(e, Trees, F)
      /\ IsRepeated(rep, e, Trees, F) /\ m \in [Trees -> Trees]
      /\ \A k \in Nat : d[k] \in [Trees -> Trees]
  BY DEF Rewriting, IsHoist, IsAtDepth
<1>2. ASSUME NEW t \in Trees,
             \A i \in 1..Len(unwrap_fix(t).kids) : unwrap_fix(t).kids[i] \in S
      PROVE  t \in S
  <2>1. ASSUME NEW k \in Nat PROVE d[k + 1][t] = m[d[k][t]]
    <3>1. PICK layer \in LayersOver(F, Trees) : layer = unwrap_fix(t)
      BY <1>1 DEF Fixed
    <3>2. PICK now \in LayersOver(F, Trees) : now = rep[k][layer]
      BY <1>1, RepeatedKeepsKids
    <3>3. PICK more \in LayersOver(F, Trees) :
            more = rep[k + 1][layer]
            /\ \A n \in 1..Len(more.kids) :
                 \E i \in 1..Len(layer.kids) : more.kids[n] = layer.kids[i]
      BY <1>1, RepeatedKeepsKids
    <3>4. more = natural(e, now)
      BY <1>1, <3>2, <3>3, RepeatedOnceMore
    <3>5. d[k][t] = wrap_fix(Over(d[k + 1], now)) /\ d[k][t] \in Trees
      BY <1>1, <3>1, <3>2 DEF Rewriting, IsAtDepth
    <3>6. unwrap_fix(d[k][t]) = Over(d[k + 1], now)
      BY <3>5 DEF wrap_fix, unwrap_fix
    <3>7. unwrap_fix(m[d[k][t]]) = Over(m, natural(e, Over(d[k + 1], now)))
          /\ m[d[k][t]] \in Trees
      BY <3>5, <3>6, HoistIsOver
    <3>8. natural(e, Over(d[k + 1], now)) = Over(d[k + 1], more)
      BY <1>1, <3>4 DEF Natural
    <3>9. PICK near \in [Trees -> Trees], deep \in [Trees -> Trees] :
            near = d[k + 1] /\ deep = d[(k + 1) + 1]
      BY <1>1
    <3>10. ASSUME NEW n \in 1..Len(more.kids) PROVE deep[more.kids[n]] = m[near[more.kids[n]]]
      <4>1. PICK i \in 1..Len(layer.kids) : more.kids[n] = layer.kids[i]
        BY <3>3
      <4>2. PICK c \in S : c = layer.kids[i]
        BY <1>2, <3>1
      <4>3. d[(k + 1) + 1][c] = m[d[k + 1][c]]
        OBVIOUS
      <4> QED BY <3>9, <4>1, <4>2, <4>3
    <3> HIDE DEF S
    <3>11. m \in [Trees -> Trees]
      BY <1>1
    <3>12. Composed(near, m, deep, more, F, Trees, Trees, Trees)
      BY <3>10, <3>11 DEF Composed
    <3>13. Over(m, Over(near, more)) = Over(deep, more)
      BY <3>12, OverOver
    <3>14. m[d[k][t]] = wrap_fix(Over(d[(k + 1) + 1], more))
      BY <1>1, <3>7, <3>8, <3>9, <3>13 DEF Fixed
    <3>15. k + 1 \in Nat
      BY <2>1
    <3>16. d[k + 1][t] = wrap_fix(Over(d[(k + 1) + 1], rep[k + 1][unwrap_fix(t)]))
      BY <3>15, <1>2, AtDepthStep
    <3>17. d[k + 1][t] = wrap_fix(Over(d[(k + 1) + 1], more))
      BY <3>1, <3>3, <3>16
    <3> QED BY <3>14, <3>17
  <2> QED BY <2>1
<1>3. \A t \in Trees : \A k \in 1..Len(unwrap_fix(t).kids) : unwrap_fix(t).kids[k] \in Trees
  BY <1>1, KidsAreTrees
<1> HIDE DEF S
<1>4. \A t \in Trees : t \in S
  BY <1>1, <1>2, <1>3, TreeInduction
<1> QED BY <1>4 DEF S

(* prepro goes over the tree whose nodes are rewritten as often as they are deep. *)
LEMMA PreproGrows ==
  ASSUME NEW j, NEW m, NEW rep, NEW d, NEW height, NEW Trees, NEW F,
         CallOf(j, {"prepro"}), OnTree(j, Trees, F),
         Rewriting(j.nat, m, rep, d, height, Trees, F)
  PROVE  SeedOf(j) = j.tree /\ Grows(d[0], j, Trees, Trees, F)
<1>1. \A t : Coalgebra(j, t) = Right(prepared(j.nat, t))
  BY DEF CallOf, SchemeCoalgebra, Folds, Unfolds, ChunkUnfolds
<1>2. SeedOf(j) = j.tree
  BY DEF CallOf, SchemeSeed, OnTree, ChunkUnfolds
<1>3. d[0] \in [Trees -> Trees] /\ d[1] \in [Trees -> Trees] /\ m \in [Trees -> Trees]
      /\ \A t \in Trees : m[t] = hoist(j.nat, t)
  BY DEF Rewriting, IsAtDepth, IsHoist
<1>4. ASSUME NEW t \in Trees
      PROVE  /\ prepared(j.nat, t) \in LayersOver(F, Trees)
             /\ d[0][t] = wrap_fix(Over(d[0], prepared(j.nat, t)))
  <2>1. PICK layer \in LayersOver(F, Trees) : layer = unwrap_fix(t)
    BY DEF OnTree, Fixed
  <2>2. \A k \in 1..Len(layer.kids) : layer.kids[k] \in Trees
    BY <2>1, KidsAreTrees DEF OnTree
  <2>3. [k \in 1..Len(layer.kids) |-> hoist(j.nat, layer.kids[k])]
          = [k \in 1..Len(layer.kids) |-> m[layer.kids[k]]]
    BY <1>3, <2>2
  <2>4. prepared(j.nat, t) = Over(m, layer)
    BY <2>1, <2>3 DEF prepared, Over, layer_fmap
  <2>5. prepared(j.nat, t) \in LayersOver(F, Trees)
    BY <1>3, <2>4, OverIsFilled DEF IsOver
  <2>6. d[0][t] = wrap_fix(Over(d[1], layer))
    <3>1. d[0][t] = wrap_fix(Over(d[0 + 1], rep[0][layer]))
      BY <2>1 DEF Rewriting, IsAtDepth
    <3>2. rep[0][layer] = layer
      BY DEF Rewriting, IsRepeated
    <3> QED BY <3>1, <3>2
  <2>7. \A c \in Trees : d[0][m[c]] = d[0 + 1][c]
    BY RewrittenIsDeeper
  <2>8. PICK top \in [Trees -> Trees], near \in [Trees -> Trees] : top = d[0] /\ near = d[1]
    BY <1>3
  <2>9. \A k \in 1..Len(layer.kids) : near[layer.kids[k]] = top[m[layer.kids[k]]]
    BY <2>2, <2>7, <2>8
  <2>10. Composed(m, top, near, layer, F, Trees, Trees, Trees)
    BY <1>3, <2>9 DEF Composed
  <2>11. Over(top, Over(m, layer)) = Over(near, layer)
    BY <2>10, OverOver
  <2>12. Over(d[0], Over(m, layer)) = Over(d[1], layer)
    BY <2>8, <2>11
  <2> QED BY <2>4, <2>5, <2>6, <2>12
<1> QED BY <1>1, <1>2, <1>3, <1>4 DEF Grows, OnTree, Right

(* And it folds that tree. *)
LEMMA PreproAnswers ==
  ASSUME NEW j, NEW m, NEW rep, NEW d, NEW height, NEW Trees, NEW F, NEW Results, NEW f,
         CallOf(j, {"prepro"}), OnTree(j, Trees, F),
         Rewriting(j.nat, m, rep, d, height, Trees, F), IsCata(f, j, Trees, F, Results)
  PROVE  Fuses(j, Trees, d[0][j.tree], f[d[0][j.tree]])
<1>1. \A s, layer : Algebra(j, s, layer) = phi(j, layer)
  BY DEF CallOf, SchemeAlgebra
<1>2. \A v : Finish(j, v) = v
  BY DEF CallOf, SchemeFinish
<1>3. PICK u : u = d[0]
  OBVIOUS
<1> QED BY <1>1, <1>2, <1>3, PreproGrows, RefoldAnswers

(* postpro answers that tree, of the tree its coalgebra grows. *)
LEMMA PostproAnswers ==
  ASSUME NEW j, NEW Seeds, NEW u, NEW m, NEW rep, NEW d, NEW height, NEW Trees, NEW F,
         CallOf(j, {"postpro"}), OnSeed(j, Seeds), IsAna(u, j, Seeds, Trees, F),
         Rewriting(j.nat, m, rep, d, height, Trees, F)
  PROVE  Fuses(j, Trees, u[j.seed], d[0][u[j.seed]])
<1>1. \A s, layer : Algebra(j, s, layer) = finished(j.nat, layer)
  BY DEF CallOf, SchemeAlgebra
<1>2. \A v : Finish(j, v) = v
  BY DEF CallOf, SchemeFinish
<1>3. CallOf(j, Unfolds)
  BY DEF CallOf, Unfolds
<1>4. SeedOf(j) = j.seed /\ Grows(u, j, Seeds, Trees, F)
  BY <1>3, AnaGrows
<1>5. d[0] \in [Trees -> Trees] /\ d[1] \in [Trees -> Trees] /\ m \in [Trees -> Trees]
      /\ \A t \in Trees : m[t] = hoist(j.nat, t)
  BY DEF Rewriting, IsAtDepth, IsHoist
<1>6. ASSUME NEW layer \in LayersOver(F, Trees)
      PROVE  /\ finished(j.nat, layer) = wrap_fix(Over(m, layer))
             /\ finished(j.nat, layer) \in Trees
  <2>1. \A k \in 1..Len(layer.kids) : layer.kids[k] \in Trees
    BY <1>5, KidsHaveValues DEF LayersOver
  <2>2. [k \in 1..Len(layer.kids) |-> hoist(j.nat, layer.kids[k])]
          = [k \in 1..Len(layer.kids) |-> m[layer.kids[k]]]
    BY <1>5, <2>1
  <2>3. finished(j.nat, layer) = wrap_fix(Over(m, layer))
    BY <2>2 DEF finished, Over, layer_fmap
  <2>4. Over(m, layer) \in LayersOver(F, Trees)
    BY <1>5, OverIsFilled DEF IsOver
  <2> QED BY <2>3, <2>4 DEF Rewriting, Fixed
<1>7. Makes(Trees, j, Seeds, F)
  BY <1>1, <1>6 DEF Makes
<1>8. ASSUME NEW s \in Seeds PROVE d[0][u[s]] = Algebra(j, s, Over(d[0], unwrap_fix(u[s])))
  <2>1. PICK t \in Trees : t = u[s]
    BY <1>4 DEF Grows
  <2>2. PICK layer \in LayersOver(F, Trees) : layer = unwrap_fix(t)
    BY DEF Rewriting, Fixed
  <2>3. \A k \in 1..Len(layer.kids) : layer.kids[k] \in Trees
    BY <1>5, KidsHaveValues DEF LayersOver
  <2>4. d[0][t] = wrap_fix(Over(d[1], layer))
    <3>1. d[0][t] = wrap_fix(Over(d[0 + 1], rep[0][layer]))
      BY <2>2 DEF Rewriting, IsAtDepth
    <3>2. rep[0][layer] = layer
      BY DEF Rewriting, IsRepeated
    <3> QED BY <3>1, <3>2
  <2>5. \A c \in Trees : d[0 + 1][c] = m[d[0][c]]
    BY DeeperIsRewritten
  <2>6. PICK top \in [Trees -> Trees], near \in [Trees -> Trees] : top = d[0] /\ near = d[1]
    BY <1>5
  <2>7. ASSUME NEW k \in 1..Len(layer.kids) PROVE near[layer.kids[k]] = m[top[layer.kids[k]]]
    <3>1. layer.kids[k] \in Trees
      BY <2>3
    <3> QED BY <2>5, <2>6, <3>1
  <2>8. Composed(top, m, near, layer, F, Trees, Trees, Trees)
    BY <1>5, <2>7 DEF Composed
  <2>9. Over(m, Over(top, layer)) = Over(near, layer)
    BY <2>8, OverOver
  <2>10. Over(m, Over(d[0], layer)) = Over(d[1], layer)
    BY <2>6, <2>9
  <2>11. Over(d[0], layer) \in LayersOver(F, Trees)
    BY <1>5, OverIsFilled DEF IsOver
  <2>12. finished(j.nat, Over(d[0], layer)) = wrap_fix(Over(d[1], layer))
    BY <1>6, <2>10, <2>11
  <2> QED BY <1>1, <2>1, <2>2, <2>4, <2>12
<1>9. PICK f \in [Trees -> Trees] : f = d[0]
  BY <1>5
<1>10. d[0][u[j.seed]] = Finish(j, f[u[SeedOf(j)]])
  BY <1>2, <1>4, <1>9
<1> QED BY <1>4, <1>7, <1>8, <1>9, <1>10 DEF Fuses, Fusing

(***************************************************************************)
(* The walks of the calls that build no tree: Visited of SchemeEquations.  *)
(***************************************************************************)
(* A seed is answered at once; or its layer is entered, walked and left. *)
AnsweredAt(w, s, v, Steps) == StoppedWith(v) \in Steps /\ w[s] = <<StoppedWith(v)>>

EnteredAt(w, p, s, layer, Steps) ==
  /\ In(layer) \in Steps /\ Out(layer) \in Steps
  /\ p[s][0] = <<In(layer)>>
  /\ \A k \in 1..Len(layer.kids) : p[s][k] = p[s][k - 1] \o w[layer.kids[k]]
  /\ w[s] = p[s][Len(layer.kids)] \o <<Out(layer)>>

Parted(w, p, Seeds, Steps) ==
  w \in [Seeds -> Seq(Steps)] /\ p \in [Seeds -> [Nat -> Seq(Steps)]]

VisitsElgot(w, p, j, Seeds, Steps) ==
  /\ Parted(w, p, Seeds, Steps)
  /\ \A s \in Seeds :
       /\ psi(j, s).side = "Left" => AnsweredAt(w, s, psi(j, s).left, Steps)
       /\ psi(j, s).side = "Right" => EnteredAt(w, p, s, psi(j, s).right, Steps)

VisitsApo(w, p, j, Ends, Steps) ==
  /\ Parted(w, p, Ends, Steps)
  /\ \A e \in Ends : IF e.side = "Left" THEN AnsweredAt(w, e, e.left, Steps)
                     ELSE EnteredAt(w, p, e, psi(j, e.right), Steps)

(* elgot and mcata_free walk that way, *)
LEMMA ElgotWalks ==
  ASSUME NEW j, NEW Seeds, NEW F, NEW Results, NEW h, NEW Steps, NEW w, NEW p,
         CallOf(j, Stoppable), Solution(h, j, Seeds, F, Results),
         VisitsElgot(w, p, j, Seeds, Steps), OwedSteps(j) = w[SeedOf(j)]
  PROVE  Walks(j)
<1>1. \A s : Coalgebra(j, s) = psi(j, s)
  BY DEF CallOf, SchemeCoalgebra, Stoppable, Folds, Unfolds, ChunkUnfolds, elgotStep
<1>2. WalksCallOver(w, p, j, Seeds, Steps)
  BY <1>1 DEF WalksCallOver, VisitsElgot, AnsweredAt, EnteredAt, Parted
<1> QED BY <1>2, SolutionTyped DEF Walks, WalksBy

(* and so does apo. *)
LEMMA ApoWalks ==
  ASSUME NEW j, NEW Ends, NEW F, NEW Trees, NEW h, NEW Steps, NEW w, NEW p,
         CallOf(j, {"apo"}), Solution(h, j, Ends, F, Trees),
         VisitsApo(w, p, j, Ends, Steps), OwedSteps(j) = w[SeedOf(j)]
  PROVE  Walks(j)
<1>1. \A e : Coalgebra(j, e) = grafted(j, e)
  BY DEF CallOf, SchemeCoalgebra, Folds, Unfolds, ChunkUnfolds
<1>2. ASSUME NEW e \in Ends, NEW step, step = Coalgebra(j, e)
      PROVE  /\ step.side = "Left" => AnsweredAt(w, e, step.left, Steps)
             /\ step.side = "Right" => EnteredAt(w, p, e, step.right, Steps)
  <2>1. CASE e.side = "Left"
    BY <1>1, <1>2, <2>1 DEF grafted, VisitsApo
  <2>2. CASE e.side # "Left"
    <3>1. step = Right(psi(j, e.right))
      BY <1>1, <1>2, <2>2 DEF grafted
    <3>2. EnteredAt(w, p, e, psi(j, e.right), Steps)
      BY <2>2 DEF VisitsApo
    <3> QED BY <3>1, <3>2 DEF Right
  <2> QED BY <2>1, <2>2
<1>3. WalksCallOver(w, p, j, Ends, Steps)
  BY <1>2 DEF WalksCallOver, VisitsApo, AnsweredAt, EnteredAt, Parted
<1> QED BY <1>3, SolutionTyped DEF Walks, WalksBy

-----------------------------------------------------------------------------
(***************************************************************************)
(* The calls of each scheme, with the functions that SchemeEquations       *)
(* defines by recursion as values: the answer a call owes and the walk are *)
(* the ones Owed and OwedWalk say.                                         *)
(***************************************************************************)
Owes(j, Trees, tree, value) == OwedAnswer(j) = value /\ OwesTour(j, Trees, tree)

FoldFixCall(j) == \E Trees, F, Results, f :
  /\ CallOf(j, {"fold_fix"}) /\ OnTree(j, Trees, F) /\ IsCata(f, j, Trees, F, Results)
  /\ Owes(j, Trees, j.tree, f[j.tree])

ParaCall(j) == \E Trees, F, Results, height, c :
  /\ CallOf(j, {"para"}) /\ OnTree(j, Trees, F) /\ Finite(height, Trees)
  /\ IsCopied(c, j, Trees, F, Results)
  /\ Owes(j, Trees, j.tree, Second(c[j.tree]))

ZygoCall(j) == \E Trees, F, Helps, Results, g, z :
  /\ CallOf(j, {"zygo"}) /\ OnTree(j, Trees, F) /\ IsZygo(g, z, j, Trees, F, Helps, Results)
  /\ Owes(j, Trees, j.tree, z[j.tree])

MutuCall(j) == \E Trees, F, Firsts, Seconds, g, z :
  /\ CallOf(j, {"mutu"}) /\ OnTree(j, Trees, F) /\ IsMutu(g, z, j, Trees, F, Firsts, Seconds)
  /\ Owes(j, Trees, j.tree, Pair(g[j.tree], z[j.tree]))

HistoCall(j) == \E Trees, F, Results, h :
  /\ CallOf(j, {"histo"}) /\ OnTree(j, Trees, F) /\ IsHistories(h, j, Trees, F, Results)
  /\ Owes(j, Trees, j.tree, extract(h[j.tree]))

HoistCall(j) == \E Trees, F, m :
  /\ CallOf(j, {"hoist"}) /\ OnTree(j, Trees, F) /\ Natural(j.nat, Trees, F)
  /\ IsMapped(m, j.nat, Trees)
  /\ Owes(j, Trees, j.tree, m[j.tree])

McataCall(j) == \E Trees, Pruned, F, Results, u, f :
  /\ CallOf(j, {"mcata"}) /\ "tree" \in DOMAIN j /\ j.tree \in Trees
  /\ IsChosen(u, j, Trees, Pruned, F) /\ IsCata(f, j, Pruned, F, Results)
  /\ Owes(j, Pruned, u[j.tree], f[u[j.tree]])

PreproCall(j) == \E Trees, F, Results, m, rep, d, height, f :
  /\ CallOf(j, {"prepro"}) /\ OnTree(j, Trees, F)
  /\ Rewriting(j.nat, m, rep, d, height, Trees, F) /\ IsCata(f, j, Trees, F, Results)
  /\ Owes(j, Trees, d[0][j.tree], f[d[0][j.tree]])

UnfoldFixCall(j) == \E Seeds, Trees, F, u :
  /\ CallOf(j, {"unfold_fix"}) /\ OnSeed(j, Seeds) /\ IsAna(u, j, Seeds, Trees, F)
  /\ Fixed(Trees, F) /\ Owes(j, Trees, u[j.seed], u[j.seed])

RefoldCall(j) == \E Seeds, Trees, F, Results, u, f :
  /\ CallOf(j, {"refold"}) /\ OnSeed(j, Seeds) /\ IsAna(u, j, Seeds, Trees, F)
  /\ IsCata(f, j, Trees, F, Results) /\ Owes(j, Trees, u[j.seed], f[u[j.seed]])

DynaCall(j) == \E Seeds, Trees, F, Results, u, h :
  /\ CallOf(j, {"dyna"}) /\ OnSeed(j, Seeds) /\ IsAna(u, j, Seeds, Trees, F)
  /\ IsHistories(h, j, Trees, F, Results) /\ Owes(j, Trees, u[j.seed], extract(h[u[j.seed]]))

PostproCall(j) == \E Seeds, Trees, F, u, m, rep, d, height :
  /\ CallOf(j, {"postpro"}) /\ OnSeed(j, Seeds) /\ IsAna(u, j, Seeds, Trees, F)
  /\ Rewriting(j.nat, m, rep, d, height, Trees, F)
  /\ Owes(j, Trees, u[j.seed], d[0][u[j.seed]])

FutuCall(j) == \E Seeds, Chunks, Trees, F, v, u :
  /\ CallOf(j, {"futu"}) /\ OnSeed(j, Seeds) /\ IsFutu(v, u, j, Seeds, Chunks, Trees, F)
  /\ Fixed(Trees, F) /\ Owes(j, Trees, v[j.seed], v[j.seed])

CodynaCall(j) == \E Seeds, Chunks, Trees, F, Results, v, u, f :
  /\ CallOf(j, {"codyna"}) /\ OnSeed(j, Seeds) /\ IsFutu(v, u, j, Seeds, Chunks, Trees, F)
  /\ IsCata(f, j, Trees, F, Results) /\ Owes(j, Trees, v[j.seed], f[v[j.seed]])

ChronoCall(j) == \E Seeds, Chunks, Trees, F, Results, v, u, h :
  /\ CallOf(j, {"chrono"}) /\ OnSeed(j, Seeds) /\ IsFutu(v, u, j, Seeds, Chunks, Trees, F)
  /\ IsHistories(h, j, Trees, F, Results) /\ Owes(j, Trees, v[j.seed], extract(h[v[j.seed]]))

CoelgotCall(j) == \E Seeds, Trees, F, Results, u, h :
  /\ CallOf(j, {"coelgot"}) /\ OnSeed(j, Seeds) /\ IsAna(u, j, Seeds, Trees, F)
  /\ IsCoelgot(h, j, Seeds, F, Results) /\ Owes(j, Trees, u[j.seed], h[j.seed])

UnfoldCofreeCall(j) == \E Seeds, Trees, F, Results, u, h :
  /\ CallOf(j, {"unfold_cofree"}) /\ OnSeed(j, Seeds) /\ IsAna(u, j, Seeds, Trees, F)
  /\ IsAnaWith(h, j, Seeds, F, Results) /\ Owes(j, Trees, u[j.seed], h[j.seed])

ElgotCall(j) == \E Seeds, F, Results, h, Steps, w, p :
  /\ CallOf(j, Stoppable) /\ OnSeed(j, Seeds) /\ IsElgot(h, j, Seeds, F, Results)
  /\ VisitsElgot(w, p, j, Seeds, Steps)
  /\ OwedAnswer(j) = h[j.seed] /\ OwedSteps(j) = w[j.seed]

ApoCall(j) == \E Ends, Trees, F, h, Steps, w, p :
  /\ CallOf(j, {"apo"}) /\ "tree" \notin DOMAIN j /\ Right(j.seed) \in Ends
  /\ Fixed(Trees, F) /\ IsApo(h, j, Ends, Trees, F) /\ VisitsApo(w, p, j, Ends, Steps)
  /\ OwedAnswer(j) = h[Right(j.seed)] /\ OwedSteps(j) = w[Right(j.seed)]

FoldCall(j) ==
  \/ FoldFixCall(j) \/ ParaCall(j) \/ ZygoCall(j) \/ MutuCall(j)
  \/ HistoCall(j) \/ HoistCall(j) \/ McataCall(j) \/ PreproCall(j)

UnfoldCall(j) ==
  \/ UnfoldFixCall(j) \/ RefoldCall(j) \/ DynaCall(j) \/ PostproCall(j)
  \/ FutuCall(j) \/ CodynaCall(j) \/ ChronoCall(j)

DirectCall(j) == CoelgotCall(j) \/ UnfoldCofreeCall(j) \/ ElgotCall(j) \/ ApoCall(j)

SchemeCall(j) == FoldCall(j) \/ UnfoldCall(j) \/ DirectCall(j)

(* A call meets its equation and walks once where it fuses what it owes. *)
Meets(j) == Answers(j) /\ Walks(j)

(* A fused call that owes the value and the tour. *)
LEMMA FusedMeets ==
  ASSUME NEW j, NEW Trees, NEW tree, NEW value,
         Fuses(j, Trees, tree, value), Owes(j, Trees, tree, value)
  PROVE  Meets(j)
BY FusedAnswer, FusedWalk DEF Owes, Meets

(* The folds do, *)
LEMMA FoldMeets ==
  ASSUME NEW j, FoldCall(j)
  PROVE  Meets(j)
<1>1. CASE FoldFixCall(j)
  BY <1>1, FoldFixAnswers, FusedMeets DEF FoldFixCall
<1>2. CASE ParaCall(j)
  BY <1>2, ParaAnswers, FusedMeets DEF ParaCall
<1>3. CASE ZygoCall(j)
  BY <1>3, ZygoAnswers, FusedMeets DEF ZygoCall
<1>4. CASE MutuCall(j)
  BY <1>4, MutuAnswers, FusedMeets DEF MutuCall
<1>5. CASE HistoCall(j)
  BY <1>5, HistoAnswers, FusedMeets DEF HistoCall
<1>6. CASE HoistCall(j)
  BY <1>6, HoistAnswers, FusedMeets DEF HoistCall
<1>7. CASE McataCall(j)
  <2>1. PICK Trees, Pruned, F, Results, u, f :
          /\ CallOf(j, {"mcata"}) /\ "tree" \in DOMAIN j /\ j.tree \in Trees
          /\ IsChosen(u, j, Trees, Pruned, F) /\ IsCata(f, j, Pruned, F, Results)
          /\ Owes(j, Pruned, u[j.tree], f[u[j.tree]])
    BY <1>7 DEF McataCall
  <2>2. SeedOf(j) = j.tree /\ Grows(u, j, Trees, Pruned, F)
    BY <2>1, ChosenGrows
  <2>3. CallOf(j, {"refold", "codyna", "mcata"})
    BY <2>1 DEF CallOf
  <2>4. Fuses(j, Pruned, u[SeedOf(j)], f[u[SeedOf(j)]])
    BY <2>1, <2>2, <2>3, RefoldsAnswer
  <2> QED BY <2>1, <2>2, <2>4, FusedMeets
<1>8. CASE PreproCall(j)
  BY <1>8, PreproAnswers, FusedMeets DEF PreproCall
<1> QED BY <1>1, <1>2, <1>3, <1>4, <1>5, <1>6, <1>7, <1>8 DEF FoldCall

(* the unfolds and refolds do, *)
LEMMA UnfoldMeets ==
  ASSUME NEW j, UnfoldCall(j)
  PROVE  Meets(j)
<1>1. CASE UnfoldFixCall(j)
  <2>1. PICK Seeds, Trees, F, u :
          /\ CallOf(j, {"unfold_fix"}) /\ OnSeed(j, Seeds) /\ IsAna(u, j, Seeds, Trees, F)
          /\ Fixed(Trees, F) /\ Owes(j, Trees, u[j.seed], u[j.seed])
    BY <1>1 DEF UnfoldFixCall
  <2>2. CallOf(j, Unfolds) /\ CallOf(j, {"unfold_fix", "futu"})
    BY <2>1 DEF CallOf, Unfolds
  <2>3. SeedOf(j) = j.seed /\ Grows(u, j, Seeds, Trees, F)
    BY <2>1, <2>2, AnaGrows
  <2>4. Fuses(j, Trees, u[SeedOf(j)], u[SeedOf(j)])
    BY <2>1, <2>2, <2>3, UnfoldsAnswer
  <2> QED BY <2>1, <2>3, <2>4, FusedMeets
<1>2. CASE RefoldCall(j)
  <2>1. PICK Seeds, Trees, F, Results, u, f :
          /\ CallOf(j, {"refold"}) /\ OnSeed(j, Seeds) /\ IsAna(u, j, Seeds, Trees, F)
          /\ IsCata(f, j, Trees, F, Results) /\ Owes(j, Trees, u[j.seed], f[u[j.seed]])
    BY <1>2 DEF RefoldCall
  <2>2. CallOf(j, Unfolds) /\ CallOf(j, {"refold", "codyna", "mcata"})
    BY <2>1 DEF CallOf, Unfolds
  <2>3. SeedOf(j) = j.seed /\ Grows(u, j, Seeds, Trees, F)
    BY <2>1, <2>2, AnaGrows
  <2>4. Fuses(j, Trees, u[SeedOf(j)], f[u[SeedOf(j)]])
    BY <2>1, <2>2, <2>3, RefoldsAnswer
  <2> QED BY <2>1, <2>3, <2>4, FusedMeets
<1>3. CASE DynaCall(j)
  <2>1. PICK Seeds, Trees, F, Results, u, h :
          /\ CallOf(j, {"dyna"}) /\ OnSeed(j, Seeds) /\ IsAna(u, j, Seeds, Trees, F)
          /\ IsHistories(h, j, Trees, F, Results)
          /\ Owes(j, Trees, u[j.seed], extract(h[u[j.seed]]))
    BY <1>3 DEF DynaCall
  <2>2. CallOf(j, Unfolds) /\ CallOf(j, {"dyna", "chrono"})
    BY <2>1 DEF CallOf, Unfolds
  <2>3. SeedOf(j) = j.seed /\ Grows(u, j, Seeds, Trees, F)
    BY <2>1, <2>2, AnaGrows
  <2>4. Fuses(j, Trees, u[SeedOf(j)], extract(h[u[SeedOf(j)]]))
    BY <2>1, <2>2, <2>3, DynaAnswers
  <2> QED BY <2>1, <2>3, <2>4, FusedMeets
<1>4. CASE PostproCall(j)
  BY <1>4, PostproAnswers, FusedMeets DEF PostproCall
<1>5. CASE FutuCall(j)
  <2>1. PICK Seeds, Chunks, Trees, F, v, u :
          /\ CallOf(j, {"futu"}) /\ OnSeed(j, Seeds) /\ IsFutu(v, u, j, Seeds, Chunks, Trees, F)
          /\ Fixed(Trees, F) /\ Owes(j, Trees, v[j.seed], v[j.seed])
    BY <1>5 DEF FutuCall
  <2>2. CallOf(j, ChunkUnfolds) /\ CallOf(j, {"unfold_fix", "futu"})
    BY <2>1 DEF CallOf, ChunkUnfolds
  <2>3. u[SeedOf(j)] = v[j.seed] /\ Grows(u, j, Chunks, Trees, F)
    BY <2>1, <2>2, FutuGrows
  <2>4. Fuses(j, Trees, u[SeedOf(j)], u[SeedOf(j)])
    BY <2>1, <2>2, <2>3, UnfoldsAnswer
  <2> QED BY <2>1, <2>3, <2>4, FusedMeets
<1>6. CASE CodynaCall(j)
  <2>1. PICK Seeds, Chunks, Trees, F, Results, v, u, f :
          /\ CallOf(j, {"codyna"}) /\ OnSeed(j, Seeds) /\ IsFutu(v, u, j, Seeds, Chunks, Trees, F)
          /\ IsCata(f, j, Trees, F, Results) /\ Owes(j, Trees, v[j.seed], f[v[j.seed]])
    BY <1>6 DEF CodynaCall
  <2>2. CallOf(j, ChunkUnfolds) /\ CallOf(j, {"refold", "codyna", "mcata"})
    BY <2>1 DEF CallOf, ChunkUnfolds
  <2>3. u[SeedOf(j)] = v[j.seed] /\ Grows(u, j, Chunks, Trees, F)
    BY <2>1, <2>2, FutuGrows
  <2>4. Fuses(j, Trees, u[SeedOf(j)], f[u[SeedOf(j)]])
    BY <2>1, <2>2, <2>3, RefoldsAnswer
  <2> QED BY <2>1, <2>3, <2>4, FusedMeets
<1>7. CASE ChronoCall(j)
  <2>1. PICK Seeds, Chunks, Trees, F, Results, v, u, h :
          /\ CallOf(j, {"chrono"}) /\ OnSeed(j, Seeds) /\ IsFutu(v, u, j, Seeds, Chunks, Trees, F)
          /\ IsHistories(h, j, Trees, F, Results)
          /\ Owes(j, Trees, v[j.seed], extract(h[v[j.seed]]))
    BY <1>7 DEF ChronoCall
  <2>2. CallOf(j, ChunkUnfolds) /\ CallOf(j, {"dyna", "chrono"})
    BY <2>1 DEF CallOf, ChunkUnfolds
  <2>3. u[SeedOf(j)] = v[j.seed] /\ Grows(u, j, Chunks, Trees, F)
    BY <2>1, <2>2, FutuGrows
  <2>4. Fuses(j, Trees, u[SeedOf(j)], extract(h[u[SeedOf(j)]]))
    BY <2>1, <2>2, <2>3, DynaAnswers
  <2> QED BY <2>1, <2>3, <2>4, FusedMeets
<1> QED BY <1>1, <1>2, <1>3, <1>4, <1>5, <1>6, <1>7 DEF UnfoldCall

(* and those that build no tree. *)
LEMMA DirectMeets ==
  ASSUME NEW j, DirectCall(j)
  PROVE  Meets(j)
<1>1. CASE CoelgotCall(j)
  <2>1. PICK Seeds, Trees, F, Results, u, h :
          /\ CallOf(j, {"coelgot"}) /\ OnSeed(j, Seeds) /\ IsAna(u, j, Seeds, Trees, F)
          /\ IsCoelgot(h, j, Seeds, F, Results) /\ Owes(j, Trees, u[j.seed], h[j.seed])
    BY <1>1 DEF CoelgotCall
  <2>2. Solution(h, j, Seeds, F, Results) /\ SeedOf(j) = j.seed
    BY <2>1, CoelgotSolves
  <2>3. CallOf(j, Unfolds) /\ \A v : Finish(j, v) = v
    BY <2>1 DEF CallOf, Unfolds, SchemeFinish
  <2>4. Answers(j)
    BY <2>1, <2>2, <2>3, DirectAnswer DEF Owes
  <2>5. Grows(u, j, Seeds, Trees, F)
    BY <2>1, <2>3, AnaGrows
  <2>6. Makes(Results, j, Seeds, F)
    BY <2>2 DEF Solution, Makes
  <2>7. Walks(j)
    BY <2>1, <2>2, <2>5, <2>6, WalkOfTree DEF Owes, OwesTour
  <2> QED BY <2>4, <2>7 DEF Meets
<1>2. CASE UnfoldCofreeCall(j)
  <2>1. PICK Seeds, Trees, F, Results, u, h :
          /\ CallOf(j, {"unfold_cofree"}) /\ OnSeed(j, Seeds) /\ IsAna(u, j, Seeds, Trees, F)
          /\ IsAnaWith(h, j, Seeds, F, Results) /\ Owes(j, Trees, u[j.seed], h[j.seed])
    BY <1>2 DEF UnfoldCofreeCall
  <2>2. Solution(h, j, Seeds, F, Results) /\ SeedOf(j) = j.seed
    BY <2>1, UnfoldCofreeSolves
  <2>3. CallOf(j, Unfolds) /\ \A v : Finish(j, v) = v
    BY <2>1 DEF CallOf, Unfolds, SchemeFinish
  <2>4. Answers(j)
    BY <2>1, <2>2, <2>3, DirectAnswer DEF Owes
  <2>5. Grows(u, j, Seeds, Trees, F)
    BY <2>1, <2>3, AnaGrows
  <2>6. Makes(Results, j, Seeds, F)
    BY <2>2 DEF Solution, Makes
  <2>7. Walks(j)
    BY <2>1, <2>2, <2>5, <2>6, WalkOfTree DEF Owes, OwesTour
  <2> QED BY <2>4, <2>7 DEF Meets
<1>3. CASE ElgotCall(j)
  <2>1. PICK Seeds, F, Results, h, Steps, w, p :
          /\ CallOf(j, Stoppable) /\ OnSeed(j, Seeds) /\ IsElgot(h, j, Seeds, F, Results)
          /\ VisitsElgot(w, p, j, Seeds, Steps)
          /\ OwedAnswer(j) = h[j.seed] /\ OwedSteps(j) = w[j.seed]
    BY <1>3 DEF ElgotCall
  <2>2. Solution(h, j, Seeds, F, Results) /\ SeedOf(j) = j.seed
    BY <2>1, ElgotSolves
  <2>3. \A v : Finish(j, v) = v
    BY <2>1 DEF CallOf, SchemeFinish, Stoppable
  <2>4. Answers(j)
    BY <2>1, <2>2, <2>3, DirectAnswer
  <2>5. Walks(j)
    BY <2>1, <2>2, ElgotWalks
  <2> QED BY <2>4, <2>5 DEF Meets
<1>4. CASE ApoCall(j)
  <2>1. PICK Ends, Trees, F, h, Steps, w, p :
          /\ CallOf(j, {"apo"}) /\ "tree" \notin DOMAIN j /\ Right(j.seed) \in Ends
          /\ Fixed(Trees, F) /\ IsApo(h, j, Ends, Trees, F) /\ VisitsApo(w, p, j, Ends, Steps)
          /\ OwedAnswer(j) = h[Right(j.seed)] /\ OwedSteps(j) = w[Right(j.seed)]
    BY <1>4 DEF ApoCall
  <2>2. Solution(h, j, Ends, F, Trees) /\ SeedOf(j) = Right(j.seed)
    BY <2>1, ApoSolves
  <2>3. \A v : Finish(j, v) = v
    BY <2>1 DEF CallOf, SchemeFinish
  <2>4. Answers(j)
    BY <2>1, <2>2, <2>3, DirectAnswer
  <2>5. Walks(j)
    BY <2>1, <2>2, ApoWalks
  <2> QED BY <2>4, <2>5 DEF Meets
<1> QED BY <1>1, <1>2, <1>3, <1>4 DEF DirectCall

(***************************************************************************)
(* mhisto, whose algebra recurses on its children's children as well.  The *)
(* equation reads their values off the histories that mhisto never builds. *)
(***************************************************************************)
(* What the library's FlattenSeq reaches at the i-th of the sequences. *)
IsFlattening(fl, seqs) ==
  fl = [i \in 1..Len(seqs) |-> IF i = 1 THEN seqs[i] ELSE fl[i - 1] \o seqs[i]]

(* There is such a function, of which FlattenSeq takes the last value. *)
LEMMA FlatteningExists ==
  ASSUME NEW S, NEW seqs \in Seq(Seq(S))
  PROVE  \E fl : IsFlattening(fl, seqs)
<1> DEFINE I == 1..Len(seqs)
           R == Seq(S)
           upto(i, g) == IF i = 1 THEN seqs[i] ELSE g[i - 1] \o seqs[i]
<1>0. <<>> \in R /\ Len(seqs) \in Nat
  BY LenProperties
<1>1. PICK rank \in [I -> Nat] : \A i \in I : rank[i] = i
  <2>1. [i \in I |-> i] \in [I -> Nat]
    OBVIOUS
  <2> QED BY <2>1
<1>2. ASSUME NEW i \in I, NEW g \in [I -> R] PROVE upto(i, g) \in R
  <2>1. seqs[i] \in R
    BY LenProperties
  <2>2. CASE i = 1
    BY <2>1, <2>2
  <2>3. CASE i # 1
    <3>1. i - 1 \in I
      BY <1>0, <2>3
    <3>2. g[i - 1] \in R
      BY <3>1
    <3> QED BY <2>1, <2>3, <3>2, ConcatProperties
  <2> QED BY <2>2, <2>3
<1>3. PICK E : E = [i \in I |-> [g \in [I -> R] |-> upto(i, g)]]
  OBVIOUS
<1>4. \A i \in I : \A g \in [I -> R] : E[i][g] = upto(i, g)
  BY <1>3
<1>5. E \in [I -> [[I -> R] -> R]]
  <2> HIDE DEF upto, I, R
  <2> QED BY <1>2, <1>3
<1>6. ASSUME NEW i \in I, NEW g \in [I -> R], NEW h \in [I -> R],
             \A k \in I : rank[k] < rank[i] => g[k] = h[k]
      PROVE  E[i][g] = E[i][h]
  <2>1. CASE i = 1
    <3>1. upto(i, g) = upto(i, h)
      BY <2>1
    <3> QED BY <1>4, <3>1
  <2>2. CASE i # 1
    <3>1. i \in Nat /\ i - 1 \in I /\ i - 1 < i
      BY <1>0, <2>2
    <3>2. rank[i - 1] < rank[i]
      BY <1>1, <3>1
    <3>3. g[i - 1] = h[i - 1]
      BY <1>6, <3>1, <3>2
    <3>4. upto(i, g) = upto(i, h)
      BY <3>3
    <3> QED BY <1>4, <3>4
  <2> QED BY <2>1, <2>2
<1>7. AsksOnlySmaller(E, rank, I, R)
  <2> HIDE DEF I, R
  <2> QED BY <1>1, <1>5, <1>6 DEF AsksOnlySmaller
<1>8. PICK H \in [I -> R] : \A i \in I : H[i] = E[i][H]
  <2> HIDE DEF I, R
  <2>1. HasOneSolution(E, I, R)
    BY <1>0, <1>7, OneSolution
  <2> QED BY <2>1, Zenon DEF HasOneSolution
<1>9. \A i \in I : H[i] = upto(i, H)
  BY <1>4, <1>8
<1> QED BY <1>9 DEF IsFlattening

(* So FlattenSeq is what that function has reached at the end. *)
LEMMA FlattenSeqIs ==
  ASSUME NEW S, NEW seqs \in Seq(Seq(S)), seqs # <<>>
  PROVE  \E fl : IsFlattening(fl, seqs) /\ FlattenSeq(seqs) = fl[Len(seqs)]
<1>1. Len(seqs) # 0 /\ Len(seqs) \in Nat
  BY EmptySeq, LenProperties
<1> DEFINE flatten == CHOOSE fl : IsFlattening(fl, seqs)
<1>2. IsFlattening(flatten, seqs)
  BY FlatteningExists
<1>3. FlattenSeq(seqs) = flatten[Len(seqs)]
  BY <1>1 DEF FlattenSeq, IsFlattening
<1> QED BY <1>2, <1>3

(* A sequence of seeds, with each one's value in its place. *)
Valued(f, seq) == [k \in 1..Len(seq) |-> f[seq[k]]]

(* v has f of every element of seq. *)
AreValues(v, f, seq, R) ==
  /\ v \in Seq(R) /\ Len(v) = Len(seq)
  /\ \A k \in 1..Len(seq) : v[k] = f[seq[k]]

(* It is as long, and a sequence of values. *)
LEMMA ValuedIs ==
  ASSUME NEW S, NEW R, NEW f \in [S -> R], NEW seq \in Seq(S)
  PROVE  AreValues(Valued(f, seq), f, seq, R)
<1>1. PICK layer : layer = Layer("any", seq)
  OBVIOUS
<1>2. layer.kids = seq
  BY <1>1 DEF Layer
<1>3. Valued(f, seq) = OfKids(f, layer)
  BY <1>2 DEF Valued, OfKids
<1>4. OfKids(f, layer) \in Seq(R) /\ Len(OfKids(f, layer)) = Len(layer.kids)
  BY <1>2, KidsHaveValues, SMTT(30)
<1> QED BY <1>2, <1>3, <1>4 DEF Valued, AreValues

(* The values of a concatenation are those of its halves, joined. *)
Joined(f, a, b) == Valued(f, a \o b) = Valued(f, a) \o Valued(f, b)

(* They are so whatever the function. *)
LEMMA ValuedJoins ==
  ASSUME NEW S, NEW R, NEW f \in [S -> R], NEW a \in Seq(S), NEW b \in Seq(S)
  PROVE  Joined(f, a, b)
<1>1. /\ a \o b \in Seq(S) /\ Len(a \o b) = Len(a) + Len(b)
      /\ Len(a) \in Nat /\ Len(b) \in Nat
      /\ \A i \in 1..Len(a) + Len(b) : (a \o b)[i] = IF i <= Len(a) THEN a[i] ELSE b[i - Len(a)]
  BY ConcatProperties, LenProperties
<1>2. PICK x : x = Valued(f, a)
  OBVIOUS
<1>3. PICK y : y = Valued(f, b)
  OBVIOUS
<1>4. PICK z : z = Valued(f, a \o b)
  OBVIOUS
<1>10. x \in Seq(R) /\ Len(x) = Len(a) /\ \A k \in 1..Len(a) : x[k] = f[a[k]]
  <2>1. AreValues(Valued(f, a), f, a, R)
    BY ValuedIs
  <2> QED BY <1>2, <2>1 DEF AreValues
<1>11. y \in Seq(R) /\ Len(y) = Len(b) /\ \A k \in 1..Len(b) : y[k] = f[b[k]]
  <2>1. AreValues(Valued(f, b), f, b, R)
    BY ValuedIs
  <2> QED BY <1>3, <2>1 DEF AreValues
<1>12. z \in Seq(R) /\ Len(z) = Len(a \o b) /\ \A k \in 1..Len(a \o b) : z[k] = f[(a \o b)[k]]
  <2>1. AreValues(Valued(f, a \o b), f, a \o b, R)
    BY <1>1, ValuedIs
  <2> QED BY <1>4, <2>1 DEF AreValues
<1>5. /\ x \o y \in Seq(R) /\ Len(x \o y) = Len(x) + Len(y)
      /\ \A i \in 1..Len(x) + Len(y) : (x \o y)[i] = IF i <= Len(x) THEN x[i] ELSE y[i - Len(x)]
  BY <1>10, <1>11, ConcatProperties, ZenonT(30)
<1>6. ASSUME NEW i \in 1..Len(a) + Len(b) PROVE z[i] = (x \o y)[i]
  <2>0. z[i] = f[(a \o b)[i]]
    BY <1>1, <1>12
  <2>1. CASE i <= Len(a)
    <3>1. i \in 1..Len(a) /\ i \in 1..Len(x) + Len(y)
      BY <1>1, <1>10, <1>11, <2>1
    <3>2. (a \o b)[i] = a[i] /\ (x \o y)[i] = x[i]
      BY <1>1, <1>5, <1>10, <2>1, <3>1
    <3> QED BY <1>10, <2>0, <3>1, <3>2
  <2>2. CASE ~(i <= Len(a))
    <3>1. i - Len(a) \in 1..Len(b) /\ i \in 1..Len(x) + Len(y)
      BY <1>1, <1>10, <1>11, <2>2
    <3>2. (a \o b)[i] = b[i - Len(a)] /\ (x \o y)[i] = y[i - Len(a)]
      BY <1>1, <1>5, <1>10, <2>2, <3>1
    <3> QED BY <1>11, <2>0, <3>1, <3>2
  <2> QED BY <2>1, <2>2
<1>7. Len(z) = Len(x \o y) /\ Len(z) = Len(a) + Len(b)
  BY <1>1, <1>5, <1>10, <1>11, <1>12
<1>8. z = x \o y
  BY <1>5, <1>6, <1>7, <1>12, SeqEqual
<1> QED BY <1>2, <1>3, <1>4, <1>8 DEF Joined

(* vs has the values of each of the sequences of ss. *)
AllValued(vs, ss, f, S, R) ==
  /\ f \in [S -> R] /\ ss \in Seq(Seq(S)) /\ vs \in Seq(Seq(R)) /\ Len(vs) = Len(ss)
  /\ \A i \in 1..Len(ss) : vs[i] = Valued(f, ss[i])

(* Flattening the values is taking the values of what is flattened. *)
LEMMA FlatValues ==
  ASSUME NEW S, NEW R, NEW f, NEW ss, NEW vs, AllValued(vs, ss, f, S, R)
  PROVE  FlattenSeq(ss) \in Seq(S) /\ FlattenSeq(vs) = Valued(f, FlattenSeq(ss))
<1> /\ f \in [S -> R] /\ ss \in Seq(Seq(S)) /\ vs \in Seq(Seq(R)) /\ Len(vs) = Len(ss)
    /\ \A i \in 1..Len(ss) : vs[i] = Valued(f, ss[i])
  BY DEF AllValued
<1>0. Len(ss) \in Nat /\ \A i \in 1..Len(ss) : ss[i] \in Seq(S)
  BY LenProperties
<1>1. CASE ss = <<>>
  <2>1. Len(ss) = 0 /\ Len(vs) = 0 /\ vs = <<>>
    BY <1>1, EmptySeq
  <2>2. FlattenSeq(ss) = <<>> /\ FlattenSeq(vs) = <<>>
    BY <1>1, <2>1 DEF FlattenSeq
  <2>3. PICK none : none = ss
    OBVIOUS
  <2>4. none \in Seq(S) /\ none = <<>> /\ Len(none) = 0
    BY <1>1, <2>1, <2>3
  <2>5. AreValues(Valued(f, none), f, none, R)
    BY <2>4, ValuedIs
  <2>6. Valued(f, none) = <<>>
    BY <2>4, <2>5, EmptySeq DEF AreValues
  <2> QED BY <2>2, <2>4, <2>6
<1>2. CASE ss # <<>>
  <2>1. vs # <<>> /\ Len(ss) # 0
    BY <1>2, EmptySeq
  <2>2. PICK fl : IsFlattening(fl, ss) /\ FlattenSeq(ss) = fl[Len(ss)]
    BY <1>2, FlattenSeqIs
  <2>3. PICK gl : IsFlattening(gl, vs) /\ FlattenSeq(vs) = gl[Len(vs)]
    BY <2>1, FlattenSeqIs
  <2>4. \A i \in 1..Len(ss) : fl[i] = IF i = 1 THEN ss[i] ELSE fl[i - 1] \o ss[i]
    BY <2>2 DEF IsFlattening
  <2>5. \A i \in 1..Len(ss) : gl[i] = IF i = 1 THEN vs[i] ELSE gl[i - 1] \o vs[i]
    BY <2>3 DEF IsFlattening
  <2> DEFINE N == {n \in Nat : n \in 1..Len(ss) => fl[n] \in Seq(S) /\ gl[n] = Valued(f, fl[n])}
  <2>6. 0 \in N
    OBVIOUS
  <2>7. ASSUME NEW n \in Nat, n \in N, n + 1 \in 1..Len(ss)
        PROVE  fl[n + 1] \in Seq(S) /\ gl[n + 1] = Valued(f, fl[n + 1])
    <3>1. PICK s \in Seq(S) : s = ss[n + 1] /\ vs[n + 1] = Valued(f, s)
      BY <1>0, <2>7
    <3>2. CASE n = 0
      <4>1. fl[n + 1] = s /\ gl[n + 1] = Valued(f, s)
        BY <2>4, <2>5, <2>7, <3>1, <3>2
      <4> QED BY <4>1
    <3>3. CASE n # 0
      <4>1. n \in 1..Len(ss) /\ (n + 1) - 1 = n /\ n + 1 # 1
        BY <1>0, <2>7, <3>3
      <4>2. PICK u \in Seq(S) : u = fl[n] /\ gl[n] = Valued(f, u)
        BY <2>7, <4>1
      <4>3. fl[n + 1] = fl[n] \o ss[n + 1]
        BY <2>4, <2>7, <4>1
      <4>4. gl[n + 1] = gl[n] \o vs[n + 1]
        BY <2>5, <2>7, <4>1
      <4>5. Valued(f, u \o s) = Valued(f, u) \o Valued(f, s)
        <5>1. Joined(f, u, s)
          BY ValuedJoins
        <5> QED BY <5>1 DEF Joined
      <4>6. u \o s \in Seq(S)
        BY ConcatProperties
      <4> QED BY <3>1, <4>2, <4>3, <4>4, <4>5, <4>6
    <3> QED BY <3>2, <3>3
  <2>8. \A n \in Nat : n \in N => n + 1 \in N
    BY <2>7
  <2> HIDE DEF N
  <2>9. \A n \in Nat : n \in N
    BY <2>6, <2>8, Inductive
  <2>10. fl[Len(ss)] \in Seq(S) /\ gl[Len(ss)] = Valued(f, fl[Len(ss)])
    <3>1. PICK n \in Nat : n = Len(ss) /\ n \in 1..Len(ss)
      BY <1>0, <2>1
    <3>2. n \in N
      BY <2>9
    <3> QED BY <3>1, <3>2 DEF N
  <2> QED BY <2>2, <2>3, <2>10
<1> QED BY <1>1, <1>2

(* The two halves of a concatenation. *)
Halves(s, a, b) == SubSeq(s, 1, Len(a)) = a /\ SubSeq(s, Len(a) + 1, Len(s)) = b

(* SubSeq takes a concatenation apart again. *)
LEMMA ConcatHalves ==
  ASSUME NEW S, NEW a \in Seq(S), NEW b \in Seq(S)
  PROVE  Halves(a \o b, a, b)
<1>1. PICK s : s = a \o b
  OBVIOUS
<1>2. /\ s \in Seq(S) /\ Len(s) = Len(a) + Len(b) /\ Len(a) \in Nat /\ Len(b) \in Nat
      /\ \A i \in 1..Len(a) + Len(b) : s[i] = IF i <= Len(a) THEN a[i] ELSE b[i - Len(a)]
  BY <1>1, ConcatProperties, LenProperties
<1>3. \A i \in 1..Len(s) : s[i] \in S
  BY <1>2, ElementOfSeq
<1>4. SubSeq(s, 1, Len(a)) = a
  <2>1. PICK x : x = SubSeq(s, 1, Len(a))
    OBVIOUS
  <2>2. \A i \in 1..Len(a) : s[i] \in S
    BY <1>2, <1>3
  <2>3. /\ x \in Seq(S) /\ Len(x) = IF 1 <= Len(a) THEN Len(a) - 1 + 1 ELSE 0
        /\ \A i \in 1..Len(a) - 1 + 1 : x[i] = s[1 + i - 1]
    BY <1>2, <2>1, <2>2, SubSeqProperties
  <2>4. Len(x) = Len(a) /\ \A i \in 1..Len(a) : x[i] = a[i]
    BY <1>2, <2>3
  <2>5. x = a
    BY <2>3, <2>4, SeqEqual
  <2> QED BY <2>1, <2>5
<1>5. SubSeq(s, Len(a) + 1, Len(s)) = b
  <2>0. PICK m, n : m = Len(a) + 1 /\ n = Len(s)
    OBVIOUS
  <2>1. PICK x : x = SubSeq(s, m, n)
    OBVIOUS
  <2>2. m \in Int /\ n \in Int /\ \A i \in m..n : s[i] \in S
    BY <1>2, <1>3, <2>0
  <2>3. /\ x \in Seq(S) /\ Len(x) = IF m <= n THEN n - m + 1 ELSE 0
        /\ \A i \in 1..n - m + 1 : x[i] = s[m + i - 1]
    BY <2>1, <2>2, SubSeqProperties, SMTT(30)
  <2>4. n - m + 1 = Len(b) /\ Len(x) = Len(b)
    BY <1>2, <2>0, <2>3
  <2>5. ASSUME NEW i \in 1..Len(b) PROVE x[i] = b[i]
    <3>1. m + i - 1 = Len(a) + i /\ Len(a) + i \in 1..Len(a) + Len(b) /\ ~(Len(a) + i <= Len(a))
      BY <1>2, <2>0
    <3>2. (Len(a) + i) - Len(a) = i
      BY <1>2
    <3>3. s[Len(a) + i] = b[i]
      BY <1>2, <3>1, <3>2
    <3> QED BY <2>3, <2>4, <3>1, <3>3
  <2>6. x = b
    BY <2>3, <2>4, <2>5, SeqEqual
  <2> QED BY <2>0, <2>1, <2>6
<1> QED BY <1>1, <1>4, <1>5 DEF Halves

(* The values of the grandchildren, in the histories of the children. *)
Older(below) ==
  [i \in DOMAIN below.kids |->
     [k \in DOMAIN unwrap_cofree(below.kids[i]).kids |->
        extract(unwrap_cofree(below.kids[i]).kids[k])]]

(* l is LookingBack: each tree's history, by an algebra that is shown the older values. *)
IsLookingBack(l, j, Trees, F, Histories, Results) ==
  /\ \A c \in Histories : extract(c) \in Results
  /\ \A above \in Seq(Results), layer \in LayersOver(F, Results) :
       phiAt(j, above, layer) \in Results
  /\ l \in [Trees -> Histories]
  /\ \A t \in Trees : LET below == Over(l, unwrap_fix(t)) IN
       l[t] = Cofree(phiAt(j, FlattenSeq(Older(below)), layer_fmap(extract, below)), below)

(* The newest value of each tree's history. *)
Newest(l, Trees) == [t \in Trees |-> extract(l[t])]

(* Grandchildren: those of a tree's children, one child's after the other's. *)
Below(layer) == [i \in DOMAIN layer.kids |-> unwrap_fix(layer.kids[i]).kids]

(* b has the children of each child of the layer. *)
IsBelow(b, layer, Trees) ==
  /\ b \in Seq(Seq(Trees)) /\ Len(b) = Len(layer.kids)
  /\ \A i \in 1..Len(layer.kids) : b[i] = unwrap_fix(layer.kids[i]).kids

(* They are trees. *)
LEMMA BelowIs ==
  ASSUME NEW Trees, NEW F, Fixed(Trees, F), NEW layer \in LayersOver(F, Trees)
  PROVE  IsBelow(Below(layer), layer, Trees)
<1>1. PICK f : f = [t \in Trees |-> unwrap_fix(t).kids]
  OBVIOUS
<1>2. \A t \in Trees : unwrap_fix(t).kids \in Seq(Trees)
  BY DEF Fixed, LayersOver
<1>3. f \in [Trees -> Seq(Trees)] /\ \A t \in Trees : f[t] = unwrap_fix(t).kids
  BY <1>1, <1>2
<1>4. layer.kids \in Seq(Trees)
  BY DEF LayersOver
<1>5. AreValues(Valued(f, layer.kids), f, layer.kids, Seq(Trees))
  BY <1>3, <1>4, ValuedIs
<1>6. \A i \in 1..Len(layer.kids) : layer.kids[i] \in Trees
  BY <1>4, ElementOfSeq
<1>7. DOMAIN layer.kids = 1..Len(layer.kids)
  BY <1>4, LenProperties
<1>8. Valued(f, layer.kids) = Below(layer)
  BY <1>3, <1>6, <1>7 DEF Valued, Below
<1> QED BY <1>3, <1>5, <1>6, <1>8 DEF AreValues, IsBelow

(* The histories hold the newest values of the grandchildren. *)
IsOlder(o, h, layer, Results) ==
  /\ o \in Seq(Seq(Results)) /\ Len(o) = Len(layer.kids)
  /\ \A i \in 1..Len(layer.kids) : o[i] = Valued(h, unwrap_fix(layer.kids[i]).kids)

(* They do, by the history of each child. *)
LEMMA OlderIs ==
  ASSUME NEW j, NEW Trees, NEW F, Fixed(Trees, F), NEW Histories, NEW Results, NEW l,
         IsLookingBack(l, j, Trees, F, Histories, Results), NEW layer \in LayersOver(F, Trees),
         NEW h, h = Newest(l, Trees)
  PROVE  IsOlder(Older(Over(l, layer)), h, layer, Results)
<1>1. l \in [Trees -> Histories] /\ \A c \in Histories : extract(c) \in Results
  BY DEF IsLookingBack
<1>2. h \in [Trees -> Results] /\ \A t \in Trees : h[t] = extract(l[t])
  BY <1>1 DEF Newest
<1>3. \A t \in Trees : unwrap_fix(t) \in LayersOver(F, Trees) /\ unwrap_fix(t).kids \in Seq(Trees)
  BY DEF Fixed, LayersOver
<1>4. ASSUME NEW t \in Trees
      PROVE  /\ Valued(h, unwrap_fix(t).kids) \in Seq(Results)
             /\ [k \in DOMAIN unwrap_cofree(l[t]).kids |-> extract(unwrap_cofree(l[t]).kids[k])]
                  = Valued(h, unwrap_fix(t).kids)
  <2>1. PICK top \in LayersOver(F, Trees) : top = unwrap_fix(t) /\ top.kids \in Seq(Trees)
    BY <1>3
  <2>2. unwrap_cofree(l[t]) = Over(l, top)
    BY <2>1 DEF IsLookingBack, Cofree, unwrap_cofree
  <2>3. PICK o : o = Over(l, top)
    OBVIOUS
  <2>4. IsOver(o, l, top, F, Histories)
    BY <1>1, <2>3, OverIsFilled
  <2>5. o.kids \in Seq(Histories) /\ Len(o.kids) = Len(top.kids)
        /\ \A k \in 1..Len(top.kids) : o.kids[k] = l[top.kids[k]]
    BY <2>4 DEF IsOver, LayersOver
  <2>6. DOMAIN o.kids = 1..Len(top.kids)
    BY <2>5, LenProperties
  <2>7. \A k \in 1..Len(top.kids) : top.kids[k] \in Trees
    BY <2>1, ElementOfSeq
  <2>8. \A k \in 1..Len(top.kids) : extract(o.kids[k]) = h[top.kids[k]]
    BY <1>2, <2>5, <2>7
  <2>9. [k \in DOMAIN o.kids |-> extract(o.kids[k])] = Valued(h, top.kids)
    BY <2>6, <2>8 DEF Valued
  <2>10. AreValues(Valued(h, top.kids), h, top.kids, Results)
    BY <1>2, <2>1, ValuedIs
  <2> QED BY <2>1, <2>2, <2>3, <2>9, <2>10 DEF AreValues
<1>5. PICK f : f = [t \in Trees |-> Valued(h, unwrap_fix(t).kids)]
  OBVIOUS
<1>6. f \in [Trees -> Seq(Results)] /\ \A t \in Trees : f[t] = Valued(h, unwrap_fix(t).kids)
  BY <1>4, <1>5
<1>7. layer.kids \in Seq(Trees)
  BY DEF LayersOver
<1>8. AreValues(Valued(f, layer.kids), f, layer.kids, Seq(Results))
  BY <1>6, <1>7, ValuedIs
<1>9. \A i \in 1..Len(layer.kids) : layer.kids[i] \in Trees
  BY <1>7, ElementOfSeq
<1>10. PICK below : below = Over(l, layer)
  OBVIOUS
<1>11. IsOver(below, l, layer, F, Histories)
  BY <1>1, <1>10, OverIsFilled
<1>12. below.kids \in Seq(Histories) /\ Len(below.kids) = Len(layer.kids)
       /\ \A i \in 1..Len(layer.kids) : below.kids[i] = l[layer.kids[i]]
  BY <1>11 DEF IsOver, LayersOver
<1>13. DOMAIN below.kids = 1..Len(layer.kids)
  BY <1>12, LenProperties
<1>14. ASSUME NEW i \in 1..Len(layer.kids)
       PROVE  [k \in DOMAIN unwrap_cofree(below.kids[i]).kids |->
                 extract(unwrap_cofree(below.kids[i]).kids[k])] = f[layer.kids[i]]
  <2>1. PICK t \in Trees : t = layer.kids[i] /\ below.kids[i] = l[t]
    BY <1>9, <1>12
  <2> QED BY <1>4, <1>6, <2>1
<1>15. Older(below) = Valued(f, layer.kids)
  BY <1>13, <1>14 DEF Older, Valued
<1> QED BY <1>6, <1>8, <1>9, <1>10, <1>15 DEF AreValues, IsOlder

(* The layer that mhisto's algebra recurses on, when it looks two generations down. *)
IsPeek(wide, layer, grand, F, Trees) ==
  /\ grand \in Seq(Trees)
  /\ wide \in [label : DOMAIN F, kids : Seq(Trees)]
  /\ wide.label = layer.label /\ wide.kids = layer.kids \o grand

(* It has the grandchildren behind the children, and their values are the older ones. *)
LEMMA PeekIs ==
  ASSUME NEW Trees, NEW F, Fixed(Trees, F), NEW layer \in LayersOver(F, Trees),
         NEW h, NEW Results, h \in [Trees -> Results],
         NEW o, IsOlder(o, h, layer, Results)
  PROVE  /\ IsPeek(withGrandchildren(layer), layer, FlattenSeq(Below(layer)), F, Trees)
         /\ FlattenSeq(o) = Valued(h, FlattenSeq(Below(layer)))
<1>1. IsBelow(Below(layer), layer, Trees)
  BY BelowIs
<1>2. PICK b : b = Below(layer)
  OBVIOUS
<1>3. AllValued(o, b, h, Trees, Results)
  BY <1>1, <1>2 DEF IsBelow, IsOlder, AllValued
<1>4. FlattenSeq(b) \in Seq(Trees) /\ FlattenSeq(o) = Valued(h, FlattenSeq(b))
  BY <1>3, FlatValues
<1>5. PICK grand \in Seq(Trees) : grand = FlattenSeq(b)
  BY <1>4
<1>6. layer \in [label : DOMAIN F, kids : Seq(Trees)]
  BY DEF LayersOver
<1>7. withGrandchildren(layer) = [layer EXCEPT !.kids = layer.kids \o grand]
  BY <1>2, <1>5, <1>6 DEF withGrandchildren, Below
<1>8. layer.kids \o grand \in Seq(Trees)
  BY <1>6, ConcatProperties
<1>9. PICK ks \in Seq(Trees) : ks = layer.kids \o grand
  BY <1>8
<1>10. PICK wide : wide = [layer EXCEPT !.kids = ks]
  OBVIOUS
<1>11. wide \in [label : DOMAIN F, kids : Seq(Trees)] /\ wide.label = layer.label /\ wide.kids = ks
  BY <1>6, <1>10
<1>12. IsPeek(wide, layer, grand, F, Trees)
  BY <1>9, <1>11 DEF IsPeek
<1> QED BY <1>2, <1>4, <1>5, <1>7, <1>9, <1>10, <1>12

(***************************************************************************)
(* The algebra tells the results of the children from those of theirs.     *)
(***************************************************************************)
LEMMA ToldApart ==
  ASSUME NEW F, NEW S, NEW R, NEW layer \in LayersOver(F, S),
         NEW wide \in [label : DOMAIN F, kids : Seq(R)], wide.label = layer.label,
         NEW n \in Nat, n = Len(layer.kids), n <= Len(wide.kids)
  PROVE  /\ SubSeq(wide.kids, n + 1, Len(wide.kids)) \in Seq(R)
         /\ [wide EXCEPT !.kids = SubSeq(@, 1, n)] \in LayersOver(F, R)
<1>1. wide.kids \in Seq(R) /\ Len(wide.kids) \in Nat /\ \A i \in 1..Len(wide.kids) : wide.kids[i] \in R
  BY ElementOfSeq, LenProperties
<1>2. PICK m : m = Len(wide.kids)
  OBVIOUS
<1>3. SubSeq(wide.kids, n + 1, m) \in Seq(R)
  <2>1. PICK p : p = n + 1
    OBVIOUS
  <2>2. p \in Int /\ m \in Int /\ \A i \in p..m : wide.kids[i] \in R
    BY <1>1, <1>2, <2>1
  <2>3. SubSeq(wide.kids, p, m) \in Seq(R)
    BY <2>2, SubSeqProperties
  <2> QED BY <2>1, <2>3
<1>4. PICK ks : ks = SubSeq(wide.kids, 1, n)
  OBVIOUS
<1>5. ks \in Seq(R) /\ Len(ks) = n
  <2>1. \A i \in 1..n : wide.kids[i] \in R
    BY <1>1
  <2>2. ks \in Seq(R) /\ Len(ks) = IF 1 <= n THEN n - 1 + 1 ELSE 0
    BY <1>4, <2>1, SubSeqProperties
  <2> QED BY <2>2
<1>6. PICK top : top = [wide EXCEPT !.kids = ks]
  OBVIOUS
<1>7. top \in [label : DOMAIN F, kids : Seq(R)] /\ top.kids = ks /\ top.label = layer.label
  BY <1>5, <1>6
<1>8. Len(layer.kids) \in F[layer.label]
  BY DEF LayersOver
<1>9. top \in LayersOver(F, R)
  BY <1>5, <1>7, <1>8 DEF LayersOver
<1> QED BY <1>2, <1>3, <1>4, <1>6, <1>9

(* mhisto answers what looking back two generations in the histories gives. *)
LEMMA MhistoAnswers ==
  ASSUME NEW j, NEW Trees, NEW F, NEW Histories, NEW Results, NEW l,
         CallOf(j, {"mhisto"}), ~names(j, "algebra"), OnTree(j, Trees, F),
         IsLookingBack(l, j, Trees, F, Histories, Results),
         OwedAnswer(j) = extract(l[j.tree])
  PROVE  Answers(j)
<1>1. PICK h : h = Newest(l, Trees)
  OBVIOUS
<1>2. l \in [Trees -> Histories] /\ (\A c \in Histories : extract(c) \in Results)
      /\ (\A above \in Seq(Results), layer \in LayersOver(F, Results) :
            phiAt(j, above, layer) \in Results)
  BY DEF IsLookingBack
<1>3. h \in [Trees -> Results] /\ \A t \in Trees : h[t] = extract(l[t])
  BY <1>1, <1>2 DEF Newest
<1>4. \A t : Coalgebra(j, t) = Right(withGrandchildren(unwrap_fix(t)))
  BY DEF CallOf, SchemeCoalgebra, Folds, Unfolds, ChunkUnfolds, asked
<1>5. \A t, layer : Algebra(j, t, layer) = lookedUp(j, t, layer)
  BY DEF CallOf, SchemeAlgebra
<1>6. (\A v : Finish(j, v) = v) /\ SeedOf(j) = j.tree /\ j.tree \in Trees /\ Fixed(Trees, F)
  <2>1. \A v : Finish(j, v) = v
    BY DEF CallOf, SchemeFinish
  <2>2. SeedOf(j) = j.tree
    BY DEF CallOf, SchemeSeed, OnTree, ChunkUnfolds
  <2> QED BY <2>1, <2>2 DEF OnTree
<1> DEFINE Wide == [label : DOMAIN F, kids : Seq(Trees)]
<1>7. ASSUME NEW t \in Trees, NEW layer \in LayersOver(F, Trees), layer = unwrap_fix(t)
      PROVE  \E grand, o : /\ IsPeek(withGrandchildren(layer), layer, grand, F, Trees)
                           /\ IsOlder(o, h, layer, Results) /\ o = Older(Over(l, layer))
                           /\ FlattenSeq(o) = Valued(h, grand)
  <2>1. PICK o : o = Older(Over(l, layer))
    OBVIOUS
  <2>2. IsOlder(o, h, layer, Results)
    BY <1>1, <1>6, <2>1, OlderIs
  <2>3. /\ IsPeek(withGrandchildren(layer), layer, FlattenSeq(Below(layer)), F, Trees)
        /\ FlattenSeq(o) = Valued(h, FlattenSeq(Below(layer)))
    BY <1>3, <1>6, <2>2, PeekIs
  <2> QED BY <2>1, <2>2, <2>3
<1>8. ASSUME NEW t \in Trees, NEW done \in Seq(Results),
             Len(done) = Len(withGrandchildren(unwrap_fix(t)).kids)
      PROVE  Algebra(j, t, Filled(withGrandchildren(unwrap_fix(t)), done)) \in Results
  <2>1. PICK layer \in LayersOver(F, Trees) : layer = unwrap_fix(t)
    BY <1>6 DEF Fixed
  <2>2. PICK grand : IsPeek(withGrandchildren(layer), layer, grand, F, Trees)
    BY <1>7, <2>1
  <2>3. PICK peek : peek = withGrandchildren(layer)
    OBVIOUS
  <2>4. /\ peek \in Wide /\ peek.label = layer.label /\ peek.kids = layer.kids \o grand
        /\ grand \in Seq(Trees) /\ layer.kids \in Seq(Trees)
    BY <2>2, <2>3 DEF IsPeek, LayersOver
  <2>5. Len(done) = Len(layer.kids) + Len(grand) /\ Len(layer.kids) \in Nat /\ Len(grand) \in Nat
    BY <1>8, <2>1, <2>3, <2>4, ConcatProperties, LenProperties
  <2>6. PICK wide : wide = Filled(peek, done)
    OBVIOUS
  <2>7. wide \in [label : DOMAIN F, kids : Seq(Results)] /\ wide.label = layer.label
        /\ wide.kids = done
    BY <2>4, <2>6 DEF Filled
  <2>8. PICK n : n = Len(layer.kids)
    OBVIOUS
  <2>9. n \in Nat /\ n <= Len(wide.kids)
    BY <2>5, <2>7, <2>8
  <2>10. /\ SubSeq(wide.kids, n + 1, Len(wide.kids)) \in Seq(Results)
         /\ [wide EXCEPT !.kids = SubSeq(@, 1, n)] \in LayersOver(F, Results)
    BY <2>7, <2>8, <2>9, ToldApart
  <2>11. lookedUp(j, t, wide) \in Results
    BY <1>2, <2>1, <2>8, <2>10 DEF lookedUp
  <2> QED BY <1>5, <2>1, <2>3, <2>6, <2>11
<1>9. ASSUME NEW t \in Trees PROVE h[t] = ValueBy(h, j, t)
  <2>1. PICK layer \in LayersOver(F, Trees) : layer = unwrap_fix(t)
    BY <1>6 DEF Fixed
  <2>2. PICK grand, o : /\ IsPeek(withGrandchildren(layer), layer, grand, F, Trees)
                        /\ o = Older(Over(l, layer))
                        /\ FlattenSeq(o) = Valued(h, grand)
    BY <1>7, <2>1
  <2>3. PICK peek : peek = withGrandchildren(layer)
    OBVIOUS
  <2>4. /\ peek \in Wide /\ peek.label = layer.label /\ peek.kids = layer.kids \o grand
        /\ grand \in Seq(Trees) /\ layer.kids \in Seq(Trees)
    BY <2>2, <2>3 DEF IsPeek, LayersOver
  <2>5. PICK near, far : near = Valued(h, layer.kids) /\ far = Valued(h, grand)
    OBVIOUS
  <2>6. near \in Seq(Results) /\ Len(near) = Len(layer.kids) /\ far \in Seq(Results)
    <3>1. AreValues(Valued(h, layer.kids), h, layer.kids, Results)
      BY <1>3, <2>4, ValuedIs
    <3>2. AreValues(Valued(h, grand), h, grand, Results)
      BY <1>3, <2>4, ValuedIs
    <3> QED BY <2>5, <3>1, <3>2 DEF AreValues
  <2>7. OfKids(h, peek) = near \o far
    <3>1. Joined(h, layer.kids, grand)
      BY <1>3, <2>4, ValuedJoins
    <3> QED BY <2>4, <2>5, <3>1 DEF Joined, Valued, OfKids
  <2>8. PICK ks : ks = near \o far
    OBVIOUS
  <2>9. SubSeq(ks, 1, Len(near)) = near /\ SubSeq(ks, Len(near) + 1, Len(ks)) = far
    BY <2>6, <2>8, ConcatHalves DEF Halves
  <2>10. PICK wide : wide = Filled(peek, ks)
    OBVIOUS
  <2>11. wide.kids = ks /\ [wide EXCEPT !.kids = near] = [layer EXCEPT !.kids = near]
    BY <2>4, <2>10 DEF Filled, LayersOver
  <2>12. lookedUp(j, t, wide) = phiAt(j, far, [layer EXCEPT !.kids = near])
    <3>1. [wide EXCEPT !.kids = SubSeq(@, 1, Len(near))] = [layer EXCEPT !.kids = near]
      BY <2>9, <2>11
    <3> QED BY <2>1, <2>6, <2>9, <2>11, <3>1 DEF lookedUp
  <2>13. l[t] = Cofree(phiAt(j, FlattenSeq(o), layer_fmap(extract, Over(l, layer))), Over(l, layer))
    BY <2>1, <2>2 DEF IsLookingBack
  <2>14. layer_fmap(extract, Over(l, layer)) = [layer EXCEPT !.kids = near]
    <3>1. PICK below : below = Over(l, layer)
      OBVIOUS
    <3>2. IsOver(below, l, layer, F, Histories)
      BY <1>2, <3>1, OverIsFilled
    <3>3. Len(below.kids) = Len(layer.kids) /\ below.label = layer.label
          /\ \A k \in 1..Len(layer.kids) : below.kids[k] = l[layer.kids[k]]
      BY <3>2 DEF IsOver
    <3>4. \A k \in 1..Len(layer.kids) : layer.kids[k] \in Trees
      BY <2>4, ElementOfSeq
    <3>5. \A k \in 1..Len(layer.kids) : extract(below.kids[k]) = h[layer.kids[k]]
      BY <1>3, <3>3, <3>4
    <3>6. [k \in 1..Len(below.kids) |-> extract(below.kids[k])] = near
      BY <2>5, <3>3, <3>5 DEF Valued
    <3>7. <<>> \o near = near
      BY <2>6, ConcatEmptySeq
    <3>8. \A s : [below EXCEPT !.kids = s] = [layer EXCEPT !.kids = s]
      BY <3>2, <3>3 DEF IsOver, LayersOver
    <3> QED BY <3>1, <3>6, <3>7, <3>8 DEF layer_fmap
  <2>15. h[t] = phiAt(j, far, [layer EXCEPT !.kids = near])
    BY <1>3, <2>2, <2>5, <2>13, <2>14 DEF Cofree, extract
  <2>16. ValueBy(h, j, t) = lookedUp(j, t, wide)
    <3>1. Coalgebra(j, t).side = "Right" /\ Coalgebra(j, t).right = peek
      BY <1>4, <2>1, <2>3 DEF Right
    <3>2. ValueBy(h, j, t) = Algebra(j, t, Filled(peek, OfKids(h, peek)))
      BY <3>1 DEF ValueBy
    <3> QED BY <1>5, <2>7, <2>8, <2>10, <3>2
  <2> QED BY <2>12, <2>15, <2>16
<1>10. SolvesCall(h, j, Trees, Results)
  BY <1>3, <1>9 DEF SolvesCall
<1>11. Typed({j}, Trees, Wide, Results)
  <2>1. ASSUME NEW t \in Trees PROVE withGrandchildren(unwrap_fix(t)) \in Wide
    <3>1. PICK layer \in LayersOver(F, Trees) : layer = unwrap_fix(t)
      BY <1>6 DEF Fixed
    <3> QED BY <1>7, <3>1 DEF IsPeek
  <2>2. \A wide \in Wide : wide.kids \in Seq(Trees)
    OBVIOUS
  <2> QED BY <1>4, <1>6, <1>8, <2>1, <2>2 DEF Typed, Right
<1>12. OwedAnswer(j) = Finish(j, h[SeedOf(j)])
  BY <1>3, <1>6
<1> QED BY <1>10, <1>11, <1>12 DEF Answers, AnswersBy

LookingBackCall(j) == \E Trees, F, Histories, Results, l :
  /\ CallOf(j, {"mhisto"}) /\ ~names(j, "algebra") /\ OnTree(j, Trees, F)
  /\ IsLookingBack(l, j, Trees, F, Histories, Results)
  /\ OwedAnswer(j) = extract(l[j.tree])

(***************************************************************************)
(* Whichever of these schemes a call is of, and whatever its functor, its  *)
(* tree or seed and the callers' functions are, the value it returns is    *)
(* the one its equation gives.                                             *)
(***************************************************************************)
THEOREM SchemesMeetTheirEquations ==
  ASSUME \A j \in Jobs : SchemeCall(j) \/ LookingBackCall(j)
  PROVE  Spec => []AnswerMeetsEquation
<1>1. \A j \in Jobs : SchemeCall(j) => Answers(j)
  BY FoldMeets, UnfoldMeets, DirectMeets DEF SchemeCall, Meets
<1>2. \A j \in Jobs : LookingBackCall(j) => Answers(j)
  BY MhistoAnswers DEF LookingBackCall
<1>3. \A j \in Jobs : Answers(j)
  BY <1>1, <1>2
<1> QED BY <1>3, AnswersAreOwed

(* Peeled: what an mhisto algebra recurses on, grandchildren too. *)
IsPeeled(u, j, Trees, Peels, F) ==
  /\ \A t \in Trees : asked(j, unwrap_fix(t)) \in LayersOver(F, Trees)
  /\ u \in [Trees -> Peels]
  /\ \A t \in Trees : u[t] = wrap_fix(Over(u, asked(j, unwrap_fix(t))))

MhistoCall(j) == \E Trees, Peels, F, Results, u :
  /\ CallOf(j, {"mhisto"}) /\ "tree" \in DOMAIN j /\ j.tree \in Trees
  /\ IsPeeled(u, j, Trees, Peels, F) /\ Makes(Results, j, Trees, F)
  /\ OwesTour(j, Peels, u[j.tree])

(* mhisto goes once over what its algebra asks for. *)
LEMMA MhistoWalks ==
  ASSUME NEW j, MhistoCall(j)
  PROVE  Walks(j)
<1>1. PICK Trees, Peels, F, Results, u :
        /\ CallOf(j, {"mhisto"}) /\ "tree" \in DOMAIN j /\ j.tree \in Trees
        /\ IsPeeled(u, j, Trees, Peels, F) /\ Makes(Results, j, Trees, F)
        /\ OwesTour(j, Peels, u[j.tree])
  BY DEF MhistoCall
<1>2. \A t : Coalgebra(j, t) = Right(asked(j, unwrap_fix(t)))
  BY <1>1 DEF CallOf, SchemeCoalgebra, Folds, Unfolds, ChunkUnfolds
<1>3. SeedOf(j) = j.tree
  BY <1>1 DEF CallOf, SchemeSeed, ChunkUnfolds
<1>4. Grows(u, j, Trees, Peels, F)
  BY <1>1, <1>2, <1>3 DEF Grows, IsPeeled, Right
<1> QED BY <1>1, <1>3, <1>4, WalkOfTree DEF OwesTour

(***************************************************************************)
(* And it goes once over the structure it stands for, in order: a fused    *)
(* scheme as if it had built the tree, without a second pass, elgot and    *)
(* apo no further than the seeds they answer.                              *)
(***************************************************************************)
THEOREM SchemesWalkOnce ==
  ASSUME \A j \in Jobs : SchemeCall(j) \/ MhistoCall(j)
  PROVE  Spec => []WalksOnce
<1>1. \A j \in Jobs : Walks(j)
  BY FoldMeets, UnfoldMeets, DirectMeets, MhistoWalks DEF SchemeCall, Meets
<1> QED BY <1>1, WalksAreOwed

-----------------------------------------------------------------------------
(***************************************************************************)
(* Over finite trees there is exactly one fold by a given algebra, so what *)
(* a call owes does not depend on which one is taken.                      *)
(***************************************************************************)
THEOREM FoldHasOneValue ==
  ASSUME NEW j, NEW Trees, NEW F, NEW height, NEW Results, Results # {},
         Fixed(Trees, F), Finite(height, Trees),
         \A layer \in LayersOver(F, Results) : phi(j, layer) \in Results
  PROVE  \E f : /\ IsCata(f, j, Trees, F, Results)
                /\ \A g : IsCata(g, j, Trees, F, Results) => g = f
<1>1. PICK r0 \in Results : TRUE
  OBVIOUS
<1>2. PICK E : E = [t \in Trees |-> [g \in [Trees -> Results] |-> phi(j, Over(g, unwrap_fix(t)))]]
  OBVIOUS
<1>3. \A t \in Trees : \A g \in [Trees -> Results] : E[t][g] = phi(j, Over(g, unwrap_fix(t)))
  BY <1>2
<1>4. \A t \in Trees : \A g \in [Trees -> Results] : phi(j, Over(g, unwrap_fix(t))) \in Results
  <2> SUFFICES ASSUME NEW t \in Trees, NEW g \in [Trees -> Results]
               PROVE  phi(j, Over(g, unwrap_fix(t))) \in Results
    OBVIOUS
  <2>1. PICK layer \in LayersOver(F, Trees) : layer = unwrap_fix(t)
    BY DEF Fixed
  <2>2. Over(g, layer) \in LayersOver(F, Results)
    BY OverIsFilled DEF IsOver
  <2> QED BY <2>1, <2>2
<1>5. ASSUME NEW t \in Trees, NEW g \in [Trees -> Results], NEW h \in [Trees -> Results],
             \A c \in Trees : height[c] < height[t] => g[c] = h[c]
      PROVE  E[t][g] = E[t][h]
  <2>1. ASSUME NEW k \in 1..Len(unwrap_fix(t).kids)
        PROVE  g[unwrap_fix(t).kids[k]] = h[unwrap_fix(t).kids[k]]
    <3>1. unwrap_fix(t).kids[k] \in Trees
      BY KidsAreTrees
    <3>2. height[unwrap_fix(t).kids[k]] < height[t]
      BY DEF Finite
    <3> QED BY <1>5, <3>1, <3>2
  <2>2. Over(g, unwrap_fix(t)) = Over(h, unwrap_fix(t))
    BY <2>1, SameOver
  <2> QED BY <1>3, <2>2
<1>6. E \in [Trees -> [[Trees -> Results] -> Results]]
  BY <1>2, <1>4
<1>7. AsksOnlySmaller(E, height, Trees, Results)
  BY <1>5, <1>6 DEF AsksOnlySmaller, Finite
<1>8. HasOneSolution(E, Trees, Results)
  BY <1>1, <1>7, OneSolution
<1>9. PICK f \in [Trees -> Results] :
        /\ \A t \in Trees : f[t] = E[t][f]
        /\ \A g \in [Trees -> Results] : (\A t \in Trees : g[t] = E[t][g]) => g = f
  BY <1>8, Zenon DEF HasOneSolution
<1>10. IsCata(f, j, Trees, F, Results)
  BY <1>3, <1>9 DEF IsCata
<1>11. ASSUME NEW g, IsCata(g, j, Trees, F, Results) PROVE g = f
  <2>1. g \in [Trees -> Results] /\ \A t \in Trees : g[t] = phi(j, Over(g, unwrap_fix(t)))
    BY <1>11 DEF IsCata
  <2>2. \A t \in Trees : g[t] = E[t][g]
    BY <1>3, <2>1
  <2> QED BY <1>9, <2>1, <2>2
<1> QED BY <1>10, <1>11

(* A layer can be rewritten any number of times. *)
LEMMA RepeatedExists ==
  ASSUME NEW e, NEW Trees, NEW F, Natural(e, Trees, F), LayersOver(F, Trees) # {}
  PROVE  \E rep : IsRepeated(rep, e, Trees, F)
<1> DEFINE Layers == LayersOver(F, Trees)
           S == Nat \X Layers
           below(x, g) == IF x[1] = 0 THEN x[2] ELSE g[<<x[1] - 1, natural(e, x[2])>>]
<1>1. PICK r0 \in Layers : TRUE
  OBVIOUS
<1>2. \A layer \in Layers : natural(e, layer) \in Layers
  BY DEF Natural
<1> HIDE DEF Layers
<1>3. PICK rank \in [S -> Nat] : \A x \in S : rank[x] = x[1]
  <2>1. [x \in S |-> x[1]] \in [S -> Nat]
    OBVIOUS
  <2> QED BY <2>1
<1>4. ASSUME NEW x \in S
      PROVE  /\ x[1] \in Nat /\ x[2] \in Layers
             /\ x[1] # 0 => /\ <<x[1] - 1, natural(e, x[2])>> \in S
                            /\ rank[<<x[1] - 1, natural(e, x[2])>>] < rank[x]
  <2>1. x[1] \in Nat /\ x[2] \in Layers
    OBVIOUS
  <2>2. ASSUME x[1] # 0
        PROVE  /\ <<x[1] - 1, natural(e, x[2])>> \in S
               /\ rank[<<x[1] - 1, natural(e, x[2])>>] < rank[x]
    <3>1. x[1] - 1 \in Nat /\ natural(e, x[2]) \in Layers
      BY <1>2, <2>1, <2>2
    <3>2. <<x[1] - 1, natural(e, x[2])>> \in S
      BY <3>1
    <3>3. rank[<<x[1] - 1, natural(e, x[2])>>] = x[1] - 1 /\ rank[x] = x[1]
      BY <1>3, <3>2
    <3> QED BY <2>1, <3>2, <3>3
  <2> QED BY <2>1, <2>2
<1>5. PICK E : E = [x \in S |-> [g \in [S -> Layers] |-> below(x, g)]]
  OBVIOUS
<1>6. \A x \in S : \A g \in [S -> Layers] : below(x, g) \in Layers /\ E[x][g] = below(x, g)
  BY <1>4, <1>5
<1>7. AsksOnlySmaller(E, rank, S, Layers)
  <2>1. E \in [S -> [[S -> Layers] -> Layers]]
    <3> HIDE DEF below, S
    <3> QED BY <1>5, <1>6
  <2>2. ASSUME NEW x \in S, NEW g \in [S -> Layers], NEW h \in [S -> Layers],
               \A y \in S : rank[y] < rank[x] => g[y] = h[y]
        PROVE  E[x][g] = E[x][h]
    <3>1. below(x, g) = below(x, h)
      <4>1. CASE x[1] = 0
        BY <4>1
      <4>2. CASE x[1] # 0
        BY <1>4, <2>2, <4>2
      <4> QED BY <4>1, <4>2
    <3> HIDE DEF below
    <3> QED BY <1>6, <3>1
  <2> HIDE DEF S
  <2> QED BY <1>3, <2>1, <2>2 DEF AsksOnlySmaller
<1>8. PICK H \in [S -> Layers] : \A x \in S : H[x] = E[x][H]
  <2> HIDE DEF S
  <2>1. HasOneSolution(E, S, Layers)
    BY <1>1, <1>7, OneSolution
  <2> QED BY <2>1, Zenon DEF HasOneSolution
<1>9. PICK rep : rep = [n \in Nat |-> [layer \in Layers |-> H[<<n, layer>>]]]
  OBVIOUS
<1>10. \A n \in Nat : \A layer \in Layers : rep[n][layer] = H[<<n, layer>>]
  BY <1>9
<1>11. rep \in [Nat -> [Layers -> Layers]]
  BY <1>9
<1>12. ASSUME NEW layer \in Layers PROVE rep[0][layer] = layer
  <2>1. <<0, layer>> \in S
    OBVIOUS
  <2>2. H[<<0, layer>>] = below(<<0, layer>>, H)
    <3> HIDE DEF below
    <3> QED BY <1>6, <1>8, <2>1
  <2> QED BY <1>10, <2>2
<1>13. ASSUME NEW n \in Nat, NEW layer \in Layers
       PROVE  rep[n + 1][layer] = rep[n][natural(e, layer)]
  <2>1. <<n + 1, layer>> \in S /\ n + 1 # 0 /\ (n + 1) - 1 = n /\ n + 1 \in Nat
    OBVIOUS
  <2>2. H[<<n + 1, layer>>] = below(<<n + 1, layer>>, H)
    <3> HIDE DEF below
    <3> QED BY <1>6, <1>8, <2>1
  <2>3. H[<<n + 1, layer>>] = H[<<n, natural(e, layer)>>]
    BY <2>1, <2>2
  <2> QED BY <1>2, <1>10, <2>1, <2>3
<1> QED BY <1>11, <1>12, <1>13, ZenonT(40) DEF IsRepeated, Layers

(* A finite tree can be rewritten deeper and deeper. *)
LEMMA AtDepthExists ==
  ASSUME NEW e, NEW Trees, NEW F, NEW height, NEW rep, NEW t0 \in Trees,
         Fixed(Trees, F), Finite(height, Trees), Natural(e, Trees, F),
         IsRepeated(rep, e, Trees, F)
  PROVE  \E d : IsAtDepth(d, rep, Trees)
<1> DEFINE S == Nat \X Trees
           next(x, g) == [c \in Trees |-> g[<<x[1] + 1, c>>]]
           grown(x, g) == wrap_fix(Over(next(x, g), rep[x[1]][unwrap_fix(x[2])]))
<1>1. PICK rank \in [S -> Nat] : \A x \in S : rank[x] = height[x[2]]
  <2>1. [x \in S |-> height[x[2]]] \in [S -> Nat]
    BY DEF Finite
  <2> QED BY <2>1
<1>2. ASSUME NEW x \in S
      PROVE  /\ x[1] \in Nat /\ x[1] + 1 \in Nat /\ x[2] \in Trees
             /\ rep[x[1]][unwrap_fix(x[2])] \in LayersOver(F, Trees)
             /\ \A k \in 1..Len(rep[x[1]][unwrap_fix(x[2])].kids) :
                  /\ rep[x[1]][unwrap_fix(x[2])].kids[k] \in Trees
                  /\ height[rep[x[1]][unwrap_fix(x[2])].kids[k]] < height[x[2]]
  <2>1. PICK n \in Nat, t \in Trees : n = x[1] /\ t = x[2]
    OBVIOUS
  <2>2. PICK layer \in LayersOver(F, Trees) : layer = unwrap_fix(t)
    BY DEF Fixed
  <2> HIDE DEF S, next, grown
  <2>3. /\ rep[n][layer] \in LayersOver(F, Trees)
         /\ \A k \in 1..Len(rep[n][layer].kids) :
              \E i \in 1..Len(layer.kids) : rep[n][layer].kids[k] = layer.kids[i]
    BY RepeatedKeepsKids
  <2>4. PICK more \in LayersOver(F, Trees) :
          more = rep[n][layer]
          /\ \A k \in 1..Len(more.kids) : \E i \in 1..Len(layer.kids) : more.kids[k] = layer.kids[i]
    BY <2>3
  <2>5. ASSUME NEW k \in 1..Len(more.kids)
        PROVE  more.kids[k] \in Trees /\ height[more.kids[k]] < height[t]
    <3>1. PICK i \in 1..Len(layer.kids) : more.kids[k] = layer.kids[i]
      BY <2>4
    <3>2. layer.kids[i] \in Trees
      BY <2>2, KidsAreTrees
    <3>3. height[layer.kids[i]] < height[t]
      BY <2>2 DEF Finite
    <3> QED BY <3>1, <3>2, <3>3
  <2>6. more = rep[x[1]][unwrap_fix(x[2])]
    BY <2>1, <2>2, <2>4
  <2>7. x[1] \in Nat /\ x[1] + 1 \in Nat /\ x[2] \in Trees
    BY <2>1
  <2> QED BY <2>1, <2>5, <2>6, <2>7
<1>3. \A x \in S : \A g \in [S -> Trees] : next(x, g) \in [Trees -> Trees]
  BY <1>2
<1>4. \A x \in S : \A c \in Trees : <<x[1] + 1, c>> \in S /\ rank[<<x[1] + 1, c>>] = height[c]
  BY <1>1, <1>2
<1>5. \A x \in S : \A g \in [S -> Trees] : grown(x, g) \in Trees
  <2> SUFFICES ASSUME NEW x \in S, NEW g \in [S -> Trees] PROVE grown(x, g) \in Trees
    OBVIOUS
  <2>1. PICK f \in [Trees -> Trees] : f = next(x, g)
    BY <1>3
  <2>2. PICK more \in LayersOver(F, Trees) : more = rep[x[1]][unwrap_fix(x[2])]
    BY <1>2
  <2>3. Over(f, more) \in LayersOver(F, Trees)
    BY OverIsFilled DEF IsOver
  <2> HIDE DEF next
  <2> QED BY <2>1, <2>2, <2>3 DEF Fixed
<1>6. PICK E : E = [x \in S |-> [g \in [S -> Trees] |-> grown(x, g)]]
  OBVIOUS
<1>7. \A x \in S : \A g \in [S -> Trees] : E[x][g] = grown(x, g)
  <2> HIDE DEF grown, S
  <2> QED BY <1>6
<1>8. AsksOnlySmaller(E, rank, S, Trees)
  <2>1. E \in [S -> [[S -> Trees] -> Trees]]
    <3> HIDE DEF grown, S
    <3> QED BY <1>5, <1>6
  <2>2. ASSUME NEW x \in S, NEW g \in [S -> Trees], NEW h \in [S -> Trees],
               \A y \in S : rank[y] < rank[x] => g[y] = h[y]
        PROVE  E[x][g] = E[x][h]
    <3>1. PICK more : more = rep[x[1]][unwrap_fix(x[2])]
      OBVIOUS
    <3>2. PICK f, f2 : f = next(x, g) /\ f2 = next(x, h)
      OBVIOUS
    <3>3. ASSUME NEW k \in 1..Len(more.kids) PROVE f[more.kids[k]] = f2[more.kids[k]]
      <4>1. PICK c \in Trees : c = more.kids[k] /\ height[c] < height[x[2]]
        BY <1>2, <3>1
      <4>2. <<x[1] + 1, c>> \in S /\ rank[<<x[1] + 1, c>>] < rank[x]
        BY <1>1, <1>4, <4>1
      <4>3. g[<<x[1] + 1, c>>] = h[<<x[1] + 1, c>>]
        BY <2>2, <4>2
      <4>4. f[c] = g[<<x[1] + 1, c>>] /\ f2[c] = h[<<x[1] + 1, c>>]
        BY <3>2
      <4> QED BY <4>1, <4>3, <4>4
    <3>4. Over(f, more) = Over(f2, more)
      BY <3>3, SameOver
    <3> HIDE DEF next, S
    <3>5. grown(x, g) = grown(x, h)
      BY <3>1, <3>2, <3>4
    <3> HIDE DEF grown
    <3> QED BY <1>7, <3>5
  <2> HIDE DEF S
  <2> QED BY <1>1, <2>1, <2>2 DEF AsksOnlySmaller
<1>9. PICK H \in [S -> Trees] : \A x \in S : H[x] = E[x][H]
  <2> HIDE DEF S
  <2>1. HasOneSolution(E, S, Trees)
    BY <1>8, OneSolution
  <2> QED BY <2>1, Zenon DEF HasOneSolution
<1>10. PICK d : d = [n \in Nat |-> [t \in Trees |-> H[<<n, t>>]]]
  OBVIOUS
<1>11. d \in [Nat -> [Trees -> Trees]]
  BY <1>10
<1>12. ASSUME NEW n \in Nat, NEW t \in Trees
       PROVE  d[n][t] = wrap_fix(Over(d[n + 1], rep[n][unwrap_fix(t)]))
  <2>1. PICK x \in S : x = <<n, t>>
    OBVIOUS
  <2>2. H[x] = grown(x, H)
    <3> HIDE DEF grown, S
    <3> QED BY <1>7, <1>9
  <2>3. next(x, H) = d[n + 1]
    BY <1>10, <2>1
  <2>4. d[n][t] = H[x]
    BY <1>10, <2>1
  <2>5. x[1] = n /\ x[2] = t
    BY <2>1
  <2> HIDE DEF next
  <2> QED BY <2>2, <2>3, <2>4, <2>5
<1> QED BY <1>11, <1>12 DEF IsAtDepth

(***************************************************************************)
(* So prepro and postpro owe something of every finite tree: whatever      *)
(* natural transformation they are given, the tree whose nodes have been   *)
(* rewritten as often as they are deep exists.                             *)
(***************************************************************************)
THEOREM RewritingIsDefined ==
  ASSUME NEW e, NEW m, NEW height, NEW Trees, NEW F, Trees # {},
         Fixed(Trees, F), Finite(height, Trees), Natural(e, Trees, F), IsHoist(m, e, Trees)
  PROVE  \E rep, d : Rewriting(e, m, rep, d, height, Trees, F)
<1>1. PICK t0 \in Trees : TRUE
  OBVIOUS
<1>2. unwrap_fix(t0) \in LayersOver(F, Trees)
  BY DEF Fixed
<1>3. PICK rep : IsRepeated(rep, e, Trees, F)
  BY <1>2, RepeatedExists
<1>4. PICK d : IsAtDepth(d, rep, Trees)
  BY <1>1, <1>3, AtDepthExists
<1> QED BY <1>3, <1>4 DEF Rewriting

=============================================================================
