-------------------------- MODULE TypeclassEquations ------------------------
(***************************************************************************)
(* What the operations of Typeclasses promise, said without their fold     *)
(* programs, accumulators and partial applications: of the sequence of     *)
(* elements, of the first effect that fails, of the leaves of a program.   *)
(***************************************************************************)
EXTENDS Typeclasses, SchemeEquations

(* The function on one element, on the whole, and on every element. *)
Of(fn, x) == called(Call(fn, <<x>>))
Each(fn, container) == [i \in DOMAIN container.kids |-> Of(fn, container.kids[i])]

Total(m, values) ==
  CASE m = "sum" -> FoldLeft(LAMBDA x, y : x + y, 0, values)
    [] m = "concat" -> FlattenSeq(values)
    [] m = "dual_concat" -> FlattenSeq(Reverse(values))

OwedFolding(job) ==
  LET xs == job.on.kids
      Hits == {i \in DOMAIN xs : Of(job.fn, xs[i])}
  IN
  CASE job.op = "length" -> Len(xs)
    [] job.op = "fold_left" -> FoldLeft(LAMBDA s, x : stepped(job, s, x), job.init, xs)
    [] job.op = "fold_right" -> FoldRight(LAMBDA x, s : stepped(job, s, x), xs, job.init)
    [] job.op = "any_of" -> Hits # {}
    [] job.op = "all_of" -> Hits = DOMAIN xs
    [] job.op = "empty" -> xs = <<>>
    [] job.op = "to_vector" -> xs
    [] job.op = "find_first" -> IF Hits = {} THEN <<>> ELSE <<xs[Min(Hits)]>>
    [] job.op = "combine_all" -> Total(job.monoid, xs)
    [] job.op = "fold_map" -> Total(job.monoid, Each(job.fn, job.on))

(* The first effect without a value, or all the values in make's context. *)
FirstFailure(context, effects, make(_)) ==
  LET Failing == {i \in DOMAIN effects : effects[i].kids = <<>>} IN
  IF Failing # {} THEN effects[Min(Failing)]
  ELSE pure(context, make([i \in DOMAIN effects |-> the(effects[i])]))

OwedTraverse(job) ==
  FirstFailure(job.context, Each(job.fn, job.on), LAMBDA v : [job.on EXCEPT !.kids = v])

BoundOver(fn, m) == IF m.kids = <<>> THEN m ELSE Of(fn, the(m))

(* A program: its leaves replaced by what the function gives for them. *)
RECURSIVE Grafted(_, _), Canonical(_, _, _, _)
Grafted(fn, m) ==
  IF is_pure(m) THEN Of(fn, m.value)
  ELSE roll_free(layer_fmap(LAMBDA c : Grafted(fn, c), m.layer))

(* ap mf mx = mf >>= \f -> mx >>= \a -> pure (f a): below every leaf of an *)
(* argument comes the next one whole, and the function sees a leaf of each *)
(* argument, as it was.                                                    *)
Canonical(fn, seen, m, rest) ==
  CASE ~is_pure(m) -> roll_free(layer_fmap(LAMBDA c : Canonical(fn, seen, c, rest), m.layer))
    [] is_pure(m) /\ rest = <<>> -> pure_free(called(Call(fn, Append(seen, m.value))))
    [] is_pure(m) /\ rest # <<>> -> Canonical(fn, Append(seen, m.value), Head(rest), Tail(rest))

CanonicalInvoke(job) == Canonical(job.fn, <<>>, Head(job.args), Tail(job.args))

OwedInvoke(job) ==
  IF job.context = "free" THEN CanonicalInvoke(job)
  ELSE FirstFailure(job.context, job.args, LAMBDA v : called(Call(job.fn, v)))

(* A tree of annotations: mapped, or extended over what is below. *)
RECURSIVE Annotated(_, _)
Annotated(job, c) ==
  Cofree(Of(job.fn, IF job.op = "cofree_extend" THEN c ELSE extract(c)),
         layer_fmap(LAMBDA k : Annotated(job, k), unwrap_cofree(c)))

OwedOp(job) ==
  CASE job.op \in Foldings -> OwedFolding(job)
    [] job.op = "traverse" -> OwedTraverse(job)
    [] job.op = "invoke" -> OwedInvoke(job)
    [] job.op = "fmap" -> layer_fmap(LAMBDA x : by_instance(job, Of(job.fn, x)), job.on)
    [] job.op = "extend" -> [job.on EXCEPT !.kids = <<Of(job.fn, job.on)>>]
    [] job.op = "bind" -> BoundOver(job.fn, job.on)
    [] job.op = "join" -> BoundOver("same", job.on)
    [] job.op = "kleisli" -> BoundOver(job.fn, Of(job.before, job.on))
    [] job.op = "free_bind" -> Grafted(job.fn, job.on)
    [] job.op = "free_join" -> Grafted("same", job.on)
    [] job.op = "free_fmap" -> Canonical(job.fn, <<>>, job.on, <<>>)
    [] job.op \in {"cofree_fmap", "cofree_extend"} -> Annotated(job, job.on)
    [] job.op = "map_left" ->
         IF is_left(job.on) THEN make_left(Of(job.fn, job.on.label.val)) ELSE job.on
    [] job.op = "map_first" -> env(Of(job.fn, job.on.label.val), the(job.on))
    [] job.op = "match" ->
         IF is_left(job.on) THEN Of(job.on_left, job.on.label.val) ELSE Of(job.fn, the(job.on))
    [] job.op = "fanout" -> Pair(Of(job.fn, job.on), Of(job.also, job.on))

-----------------------------------------------------------------------------
(***************************************************************************)
(* The calls an operation owes, in order: one for each element, also when  *)
(* an earlier one has failed or has answered the question.                 *)
(***************************************************************************)
CallsOf(job, values) == [i \in DOMAIN values |-> Answered(values[i])]
InOrder(job, values) == IF from_the_back(job) THEN Reverse(values) ELSE values

OpOver(job) ==
  CASE job.op = "kleisli" -> Of(job.before, job.on)
    [] job.op = "fanout" -> vector(<<job.on, job.on>>)
    [] job.op = "invoke" -> OwedInvoke(job)
    [] OTHER -> job.on

OwedCalls(job) ==
  CASE job.op \in Foldings ->
         LET xs == job.on.kids IN
         InOrder(job, [i \in DOMAIN xs |->
                         delivered(job, Call(element_function(job), <<xs[i]>>))])
    [] job.op \in {"fmap", "invoke", "extend"} -> OwedOp(job).kids
    [] job.op \in {"traverse", "bind"} -> Each(job.fn, job.on)
    [] job.op = "join" -> job.on.kids
    [] job.op = "kleisli" -> Each(job.fn, OpOver(job))
    [] job.op = "map_left" -> IF is_left(job.on) THEN <<OwedOp(job).label.val>> ELSE <<>>
    [] job.op = "map_first" -> <<OwedOp(job).label.val>>
    [] job.op = "match" -> <<OwedOp(job)>>
    [] job.op = "fanout" -> <<First(OwedOp(job)), Second(OwedOp(job))>>

(* Programs are walked layer by layer, and so are trees of annotations,    *)
(* whose own element comes after those below it.                           *)
RECURSIVE LeafTour(_, _), HeadTour(_)
LeafTour(fn, m) ==
  IF is_pure(m) THEN <<Answered(Of(fn, m.value))>>
  ELSE Around(m.layer.label,
              FlattenSeq([i \in DOMAIN m.layer.kids |-> LeafTour(fn, m.layer.kids[i])]))

HeadTour(c) ==
  LET below == unwrap_cofree(c) IN
  Around(below.label,
         FlattenSeq([i \in DOMAIN below.kids |-> HeadTour(below.kids[i])])
           \o <<Answered(extract(c))>>)

OwedOpWalk(job) ==
  CASE job.op = "free_bind" -> LeafTour(job.fn, job.on)
    [] job.op = "free_join" -> LeafTour("same", job.on)
    [] job.op = "free_fmap" -> LeafTour("pure_free", OwedOp(job))
    [] job.op = "invoke" /\ job.context = "free" -> LeafTour("pure_free", OwedOp(job))
    [] job.op \in {"cofree_fmap", "cofree_extend"} -> HeadTour(OwedOp(job))
    [] OTHER -> Around(OpOver(job).label, CallsOf(job, OwedCalls(job)))

=============================================================================
