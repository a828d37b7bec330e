----------------------------- MODULE Typeclasses ----------------------------
(***************************************************************************)
(* The dictionaries of src/smd/typeclass.  A context is a layer: optional, *)
(* Identity and either hold at most one element, a vector any number, a    *)
(* pair and RoseF carry something besides; so fmap is layer_fmap for all   *)
(* of them.  Free and Cofree, whose elements lie deeper, are Layers'.      *)
(*                                                                         *)
(* An operation comes down to calls of the caller's function in some       *)
(* order, and to what is made of their values.  The calls are laid out as  *)
(* a tree with a call at every leaf, which Recursion then performs.        *)
(***************************************************************************)
EXTENDS Callers

some(x) == Layer(Alternative("Some", 0), <<x>>)
none == Layer(Alternative("None", 0), <<>>)
identity(x) == Layer(Alternative("Identity", 0), <<x>>)
make_left(l) == Layer(Alternative("Left", l), <<>>)
make_right(r) == Layer(Alternative("Right", 0), <<r>>)
env(b, a) == Layer(Alternative("Pair", b), <<a>>)
vector(v) == Layer(Alternative("Vector", 0), v)
rose(label, v) == Layer(Alternative("Rose", label), v)

is_left(e) == holds(e, "Left")
the(context) == context.kids[1]

(* A callable with the arguments it has been given so far. *)
Call(fn, args) == [fn |-> fn, args |-> args]

(* One Cons for every count, and a leaf. *)
RECURSIVE make_run(_, _, _)
make_run(v, count, seed) ==
  IF count <= 0 THEN pure_free(seed) ELSE roll_free(cons(v, make_run(v, count - 1, seed)))

(* The functions the tests pass; any other gives a term of its arguments. *)
called(call) ==
  LET x == call.args[1] IN
  CASE call.fn = "same" -> x
    [] call.fn = "one" -> 1
    [] call.fn = "true" -> TRUE
    [] call.fn = "singleton" -> <<x>>
    [] call.fn = "plus" -> x + call.args[2]
    [] call.fn = "sum" -> x + call.args[2] + call.args[3]
    [] call.fn = "push_back" -> Append(x, call.args[2])
    [] call.fn = "second" -> call.args[2]
    [] call.fn = "zero" -> 0
    [] call.fn = "minus_one" -> x - 1
    [] call.fn = "plus_one" -> x + 1
    [] call.fn = "plus_ten" -> x + 10
    [] call.fn = "times_two" -> x * 2
    [] call.fn = "times_ten" -> x * 10
    [] call.fn = "square" -> x * x
    [] call.fn = "odd" -> x % 2 = 1
    [] call.fn = "even" -> x % 2 = 0
    [] call.fn = "five" -> x = 5
    [] call.fn = "over_three" -> x > 3
    [] call.fn = "over_five" -> x > 5
    [] call.fn = "over_nine" -> x > 9
    [] call.fn = "halved" -> IF x % 2 = 0 THEN some(x \div 2) ELSE none
    [] call.fn = "half_if_even" -> IF x % 2 = 0 THEN make_right(x \div 2) ELSE make_left(-1)
    [] call.fn = "positive" -> IF x > 0 THEN some(x * 2) ELSE none
    [] call.fn = "unless_two" -> IF x = 2 THEN none ELSE some(x)
    [] call.fn = "some" -> some(x)
    [] call.fn = "some_next" -> some(x + 1)
    [] call.fn = "some_tenfold" -> some(x * 10)
    [] call.fn = "identity" -> identity(x)
    [] call.fn = "next_identity" -> identity(x + 1)
    [] call.fn = "pure_free" -> pure_free(x)
    [] call.fn = "two_more" -> make_run(x, 2, x + 1)
    [] call.fn = "one_more" -> make_run(x, 1, x + 1)
    [] call.fn = "two_hundred" -> make_run(x, 2, x + 100)
    [] call.fn = "one_hundred" -> make_run(x, 1, x + 100)
    [] call.fn = "doubled_one_more" -> make_run(x * 2, 1, x + 2)
    [] call.fn = "both_more" -> roll_free(cons(x, make_run((x + 1) * 2, 1, x + 3)))
    [] call.fn = "pure_next" -> pure_free(x + 1)
    [] call.fn = "extract_plus_one" -> the(x) + 1
    [] call.fn = "the" -> the(x)
    [] call.fn = "extract" -> extract(x)
    [] call.fn = "extract_doubled" -> extract(x) * 2
    [] OTHER -> call

-----------------------------------------------------------------------------
(***************************************************************************)
(* Monoids.  A fold program, a function from state to state, is the        *)
(* sequence of the elements it feeds to the caller's step, the first that  *)
(* is fed first.  Any and All are BOOLEAN, First an optional.              *)
(***************************************************************************)
monoid_identity(m) ==
  CASE m = "sum" -> 0
    [] m \in {"concat", "dual_concat"} -> <<>>

monoid_combine(m, lhs, rhs) ==
  CASE m = "sum" -> lhs + rhs
    [] m = "concat" -> lhs \o rhs

(* DualMonoid: the arguments change places. *)
dual_combine(m, lhs, rhs) == monoid_combine(m, rhs, lhs)

(* Left: rhs(lhs(s)); right: lhs(rhs(s)). *)
left_fold_combine(lhs, rhs) == lhs \o rhs
right_fold_combine(lhs, rhs) == rhs \o lhs
any_combine(lhs, rhs) == lhs \/ rhs
all_combine(lhs, rhs) == lhs /\ rhs
first_combine(lhs, rhs) == IF lhs # <<>> THEN lhs ELSE rhs

neutral(m) ==
  CASE m \in {"left_fold", "right_fold", "first"} -> <<>>
    [] m = "any" -> FALSE
    [] m = "all" -> TRUE
    [] OTHER -> monoid_identity(m)

combine(m, lhs, rhs) ==
  CASE m = "left_fold" -> left_fold_combine(lhs, rhs)
    [] m = "right_fold" -> right_fold_combine(lhs, rhs)
    [] m = "any" -> any_combine(lhs, rhs)
    [] m = "all" -> all_combine(lhs, rhs)
    [] m = "first" -> first_combine(lhs, rhs)
    [] m = "dual_concat" -> dual_combine("concat", lhs, rhs)
    [] OTHER -> monoid_combine(m, lhs, rhs)

-----------------------------------------------------------------------------
(* Calls, as the leaves of a tree for Recursion. *)
Position(fn, x) == pure_free(Call(fn, <<x>>))

(* fmap of a context, of Free, and of Cofree, which maps its head last. *)
fmap(fn, context) == roll_free(layer_fmap(LAMBDA x : Position(fn, x), context))

(* layer_fmap takes the registered instance, one that is pinned or passed, *)
(* and of two overloads of its fmap the one for what the layer is.  The    *)
(* tests' instances add something to each value, so as to be told apart.   *)
by_instance(job, v) ==
  IF ~names(job, "instance") THEN v
  ELSE CASE job.instance = "tagging" -> v + 100
         [] job.instance = "dual_path" -> IF job.rvalue THEN v + 2000 ELSE v + 1000

RECURSIVE free_map(_, _), cofree_map(_, _)
free_map(fn, m) ==
  IF is_pure(m) THEN Position(fn, m.value)
  ELSE roll_free(layer_fmap(LAMBDA c : free_map(fn, c), m.layer))

cofree_map(fn, c) ==
  LET below == layer_fmap(LAMBDA k : cofree_map(fn, k), unwrap_cofree(c)) IN
  roll_free([below EXCEPT !.kids = Append(@, Position(fn, extract(c)))])

(* duplicate of the comonads. *)
duplicate(w) == IF holds(w, "Pair") THEN env(w.label.val, w) ELSE identity(w)
RECURSIVE cofree_nested(_)
cofree_nested(c) == Cofree(c, layer_fmap(cofree_nested, unwrap_cofree(c)))

-----------------------------------------------------------------------------
(***************************************************************************)
(* Applicative.  invoke lifts a partial application of the function and    *)
(* applies it to one argument after another.                               *)
(***************************************************************************)
arity(fn) == CASE fn \in {"plus", "push_back", "same_pair", "second", "first", "joined"} -> 2
               [] fn \in {"sum", "triple"} -> 3
               [] OTHER -> 1

pure(context, x) ==
  CASE context = "optional" -> some(x)
    [] context = "identity" -> identity(x)
    [] context = "either" -> make_right(x)
    [] context = "free" -> pure_free(x)

(* terminating_partial: called when it has all its arguments. *)
extended(f, x) == Call(f.fn, Append(f.args, x))

(* What is left in one that was extended as an rvalue: its arguments have  *)
(* been moved out (a std::string or a std::vector is empty then).          *)
moved_from(f) ==
  IF Len(f.args) + 1 < arity(f.fn) THEN [f EXCEPT !.args = [i \in DOMAIN @ |-> ""]] ELSE f

(* apply of optional and Identity, and the one either's bind and pure give: *)
(* the first that is missing, or has stopped, is the result.                *)
apply(mf, ma) ==
  CASE mf.kids = <<>> -> mf
    [] ma.kids = <<>> -> ma
    [] OTHER -> [ma EXCEPT !.kids = <<extended(the(mf), the(ma))>>]

RECURSIVE has_leaf(_), at_leaves(_, _, _)
has_leaf(m) == is_pure(m) \/ \E i \in DOMAIN m.layer.kids : has_leaf(m.layer.kids[i])

(* bind of the argument: first at its first leaf, after at those behind it. *)
at_leaves(first, after, m) ==
  IF is_pure(m) THEN pure_free(extended(first, m.value))
  ELSE LET kids == m.layer.kids
           for(i) == IF \E j \in 1..(i - 1) : has_leaf(kids[j]) THEN after ELSE first
       IN roll_free([m.layer EXCEPT !.kids =
            [i \in DOMAIN kids |-> at_leaves(for(i), after, kids[i])]])

RECURSIVE apply_below(_, _)
apply_below(mf, ma) ==
  IF is_pure(mf) THEN at_leaves(mf.value, mf.value, ma)
  ELSE roll_free(layer_fmap(LAMBDA c : apply_below(c, ma), mf.layer))

(***************************************************************************)
(* Monad's apply over Free.  bind hands a function that is a Pure leaf by  *)
(* itself over as an rvalue, and every leaf of the argument extends that   *)
(* one rvalue; functions inside a layer are handed over const, and copied. *)
(***************************************************************************)
free_apply(mf, ma) ==
  IF is_pure(mf) THEN at_leaves(mf.value, moved_from(mf.value), ma) ELSE apply_below(mf, ma)

invoke(context, fn, args) ==
  LET ap(mf, ma) == IF context = "free" THEN free_apply(mf, ma) ELSE apply(mf, ma) IN
  FoldLeft(ap, pure(context, Call(fn, <<>>)), args)

(* Calls a context has ready. *)
pending(context, m) == IF context = "free" THEN m ELSE roll_free(layer_fmap(pure_free, m))

-----------------------------------------------------------------------------
(* The effects of a vector's elements, collected front to back. *)
collect(context, effects) ==
  FoldLeft(LAMBDA acc, effect :
             layer_fmap(called, invoke(context, "push_back", <<acc, effect>>)),
           pure(context, <<>>), effects)

(* RoseF's: the vector's, with the label put back. *)
relabel(label, effect) == layer_fmap(LAMBDA v : rose(label, v), effect)

traversed(job, effects) ==
  CASE holds(job.on, "Vector") -> layer_fmap(vector, collect(job.context, effects))
    [] holds(job.on, "Rose") -> relabel(job.on.label.val, collect(job.context, effects))
    [] holds(job.on, "Identity") -> layer_fmap(identity, effects[1])

(***************************************************************************)
(* Foldable: fold_map of the instance, and what each derived operation     *)
(* asks of it.  An instance that has fold_right instead gets its fold_map  *)
(* from it, which calls the function on the last element first.            *)
(***************************************************************************)
Foldings == {"length", "fold_left", "fold_right", "combine_all", "any_of", "all_of", "empty",
             "to_vector", "find_first", "fold_map"}

from_the_back(job) == names(job, "primitive") /\ job.primitive = "fold_right"

element_function(job) ==
  CASE job.op = "length" -> "one"
    [] job.op \in {"fold_left", "fold_right", "to_vector"} -> "singleton"
    [] job.op = "combine_all" -> "same"
    [] job.op = "empty" -> "true"
    [] OTHER -> job.fn

monoid(job) ==
  CASE job.op = "length" -> "sum"
    [] job.op = "fold_left" -> "left_fold"
    [] job.op = "fold_right" -> "right_fold"
    [] job.op \in {"any_of", "empty"} -> "any"
    [] job.op = "all_of" -> "all"
    [] job.op = "to_vector" -> "concat"
    [] job.op = "find_first" -> "first"
    [] OTHER -> job.monoid

(* Mutant: what is folded so far would be the right operand. *)
fold_map_flipped(job, values) ==
  IF from_the_back(job)
  THEN FoldLeft(LAMBDA acc, v : combine(monoid(job), v, acc), neutral(monoid(job)), values)
  ELSE FoldLeft(LAMBDA acc, v : combine(monoid(job), v, acc), neutral(monoid(job)), values)

fold_map(job, values) ==
  IF from_the_back(job)
  THEN FoldLeft(LAMBDA acc, v : combine(monoid(job), v, acc), neutral(monoid(job)), values)
  ELSE FoldLeft(LAMBDA acc, v : combine(monoid(job), acc, v), neutral(monoid(job)), values)

(* The step of fold_left and fold_right: the state is a sequence or a sum. *)
stepped(job, state, x) ==
  CASE job.fn = "plus" -> state + x
    [] job.fn = "append" -> Append(state, x)

folded(job, total) ==
  CASE job.op \in {"fold_left", "fold_right"} ->
         FoldLeft(LAMBDA state, x : stepped(job, state, x), job.init, total)
    [] job.op = "empty" -> ~total
    [] OTHER -> total

-----------------------------------------------------------------------------
(* The calls an operation on a context makes. *)
Mappings == {"fmap", "extend"}
Bindings == {"bind", "join", "kleisli"}

(* on_left for a Left, on_right for a Right: exactly one is called. *)
either_call(on_left, on_right, e) ==
  Layer(e.label, IF is_left(e) THEN <<Position(on_left, e.label.val)>>
                 ELSE <<Position(on_right, the(e))>>)

OpSeed(job) ==
  CASE job.op \in Foldings ->
         LET calls == fmap(element_function(job), job.on).layer IN
         roll_free([calls EXCEPT !.kids = IF from_the_back(job) THEN Reverse(@) ELSE @])
    [] job.op \in {"fmap", "traverse", "bind"} -> fmap(job.fn, job.on)
    [] job.op = "extend" -> fmap(job.fn, duplicate(job.on))
    [] job.op = "join" -> fmap("same", job.on)
    [] job.op = "kleisli" -> fmap(job.fn, called(Call(job.before, <<job.on>>)))
    [] job.op = "invoke" -> pending(job.context, invoke(job.context, job.fn, job.args))
    [] job.op \in {"free_fmap", "free_bind"} -> free_map(job.fn, job.on)
    [] job.op = "free_join" -> free_map("same", job.on)
    [] job.op = "cofree_fmap" -> cofree_map(job.fn, job.on)
    [] job.op = "cofree_extend" -> cofree_map(job.fn, cofree_nested(job.on))
    [] job.op = "map_left" ->
         IF is_left(job.on) THEN roll_free(either_call(job.fn, job.fn, job.on))
         ELSE roll_free([job.on EXCEPT !.kids = <<>>])
    [] job.op = "map_first" ->
         roll_free([job.on EXCEPT !.kids = <<Position(job.fn, job.on.label.val)>>])
    [] job.op = "match" -> roll_free(either_call(job.on_left, job.fn, job.on))
    [] job.op = "fanout" ->
         roll_free(vector(<<Position(job.fn, job.on), Position(job.also, job.on)>>))

(* What the operation makes of the value of one call. *)
delivered(job, call) ==
  CASE job.op = "find_first" -> IF called(call) THEN call.args ELSE <<>>
    [] job.op = "free_fmap" \/ (job.op = "invoke" /\ job.context = "free") ->
         pure_free(called(call))
    [] job.op = "fmap" -> by_instance(job, called(call))
    [] OTHER -> called(call)

(* A call is made as soon as its place in the tree is reached. *)
OpCoalgebra(job, s) ==
  IF is_pure(s) THEN Left(delivered(job, s.value)) ELSE Right(s.layer)

(* What the operation makes of the values of the calls in one layer. *)
OpAlgebra(job, layer) ==
  LET kids == layer.kids IN
  CASE job.op \in Foldings -> folded(job, fold_map(job, kids))
    [] job.op = "traverse" -> traversed(job, kids)
    [] job.op \in Bindings -> IF kids = <<>> THEN layer ELSE kids[1]
    [] job.op \in {"free_fmap", "free_bind", "free_join"} -> roll_free(layer)
    [] job.op = "invoke" -> IF job.context = "free" THEN roll_free(layer) ELSE layer
    [] job.op \in {"cofree_fmap", "cofree_extend"} ->
         Cofree(Last(kids), [layer EXCEPT !.kids = Front(kids)])
    [] job.op = "map_left" -> IF kids = <<>> THEN job.on ELSE make_left(kids[1])
    [] job.op = "map_first" -> env(kids[1], the(job.on))
    [] job.op = "match" -> kids[1]
    [] job.op = "fanout" -> Pair(kids[1], kids[2])
    [] job.op \in Mappings -> layer

=============================================================================
