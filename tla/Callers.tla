-------------------------------- MODULE Callers -----------------------------
(***************************************************************************)
(* The functions the callers of the schemes pass: those of src/examples    *)
(* and of the schemes' tests, and the ones that build a term of all they   *)
(* were given, so that two schemes agree on them only if they agree on     *)
(* every algebra.  A call that names no algebra uses the terms; a          *)
(* coalgebra that is a table of layers stands for every function.          *)
(***************************************************************************)
EXTENDS SenderDot

-----------------------------------------------------------------------------
(* Fibonacci, from a node's own history. *)
fib_algebra(layer) ==
  CASE holds(layer, "Zero") -> 0
    [] holds(layer, "Succ") ->
         LET c == only(layer) IN
         IF holds(unwrap_cofree(c), "Zero") THEN 1
         ELSE extract(c) + extract(only(unwrap_cofree(c)))

(* What a history holds steps further back; nothing before its front. *)
RECURSIVE look_back(_, _)
look_back(c, steps) ==
  CASE steps = 0 -> {extract(c)}
    [] holds(unwrap_cofree(c), "Zero") -> {}
    [] OTHER -> look_back(only(unwrap_cofree(c)), steps - 1)

(* Mutant: the coin 4 would be looked up one step too close. *)
min_coins_algebra_near(layer) ==
  IF holds(layer, "Zero") THEN 0
  ELSE LET pred == only(layer)
           reached == {extract(pred)} \cup look_back(pred, 2) \cup look_back(pred, 4)
       IN Min(reached) + 1

(* The fewest coins of 1, 4 and 5: one more than at the best of n-1, n-4, n-5. *)
min_coins_algebra(layer) ==
  IF holds(layer, "Zero") THEN 0
  ELSE LET pred == only(layer)
           reached == {extract(pred)} \cup look_back(pred, 3) \cup look_back(pred, 4)
       IN Min(reached) + 1

(* mutu's two, each asking the other's answer for the predecessor. *)
alg_even(layer) == holds(layer, "Zero") \/ Second(only(layer))
alg_odd(layer) == holds(layer, "Succ") /\ First(only(layer))
double_count_alg(layer) == IF holds(layer, "Zero") THEN 0 ELSE Second(only(layer)) + 2

(* zygo's helper, and the main algebra that asks the helper's heights. *)
height(layer) ==
  IF holds(layer, "Leaf") THEN 0
  ELSE 1 + IF left(layer) > right(layer) THEN left(layer) ELSE right(layer)
is_balanced(layer) ==
  \/ holds(layer, "Leaf")
  \/ LET lh == First(left(layer))
         rh == First(right(layer))
         diff == IF lh > rh THEN lh - rh ELSE rh - lh
     IN diff <= 1 /\ Second(left(layer)) /\ Second(right(layer))

(* para: an addition under a multiplication is put in parentheses.  A text *)
(* is the sequence of its tokens.                                          *)
is_add(e) == holds(unwrap_fix(e), "Add")
render_child(child) ==
  IF is_add(First(child)) THEN <<"(">> \o Second(child) \o <<")">> ELSE Second(child)
pretty(layer) ==
  CASE holds(layer, "Const") -> <<ToString(head(layer))>>
    [] holds(layer, "Add") -> Second(left(layer)) \o <<"+">> \o Second(right(layer))
    [] holds(layer, "Mul") -> render_child(left(layer)) \o <<"*">> \o render_child(right(layer))

(* para: every suffix, taken from the tail as it was. *)
RECURSIVE list_to_vector(_)
list_to_vector(l) == to_vector(layer_fmap(list_to_vector, unwrap_fix(l)))
tails(layer) ==
  IF holds(layer, "Nil") THEN <<<<>>>>
  ELSE <<<<head(layer)>> \o list_to_vector(First(only(layer)))>> \o Second(only(layer))

sum_algebra(layer) == IF holds(layer, "Nil") THEN 0 ELSE head(layer) + only(layer)
sum_leaves(layer) == IF holds(layer, "Leaf") THEN head(layer) ELSE left(layer) + right(layer)
concat_labels(layer) == <<head(layer)>> \o FlattenSeq(layer.kids)
bool_algebra(layer) == IF holds(layer, "Zero") THEN TRUE ELSE ~only(layer)
product_algebra(layer) == IF holds(layer, "Nil") THEN 1 ELSE head(layer) * only(layer)
length_helper(layer) == IF holds(layer, "Nil") THEN 0 ELSE only(layer) + 1

(* zygo_histo_prepro: heads an even distance from the end count. *)
even_tail_length_main(layer) ==
  IF holds(layer, "Nil") THEN 0
  ELSE LET rest_sum == extract(Second(only(layer))) IN
       IF First(only(layer)) % 2 = 0 THEN head(layer) + rest_sum ELSE rest_sum

(* coelgot, whose algebra is handed the seed as well. *)
running_indices(seed, layer) ==
  IF holds(layer, "Zero") THEN <<seed>> ELSE <<seed>> \o only(layer)

(* mhisto: what the algebra recurses on, and what it makes of the answers. *)
mhisto_fib_asks(layer) ==
  IF holds(layer, "Zero") \/ holds(unwrap_fix(only(layer)), "Zero")
  THEN [layer EXCEPT !.kids = <<>>]
  ELSE Layer(layer.label, <<only(layer), only(unwrap_fix(only(layer)))>>)
mhisto_fib(layer) ==
  CASE holds(layer, "Zero") -> 0
    [] holds(layer, "Succ") /\ layer.kids = <<>> -> 1
    [] OTHER -> left(layer) + right(layer)

-----------------------------------------------------------------------------
(* The two ways back from Fix: an annotation of nothing, a program without leaves. *)
to_cofree(layer) == Cofree("unit", layer)
to_free(layer) == roll_free(layer)

(* mcata_free: a program's chunk as a text, and what a leaf is worth. *)
chunk_text(layer) ==
  IF holds(layer, "Nil") THEN <<".">> ELSE <<ToString(head(layer)), ",">> \o only(layer)
bracketed(v) == <<"<", ToString(v), ">">>

(* The nodes of a sender tree. *)
count_nodes(layer) == FoldLeft(LAMBDA nodes, child : nodes + child, 1, layer.kids)

(* The algebra of a call. *)
caller_phi(job, layer) ==
  IF ~names(job, "algebra") THEN [phi |-> layer] ELSE
  CASE job.algebra = "count" -> count_algebra(layer)
    [] job.algebra = "count_first" -> count_algebra(layer_fmap(First, layer))
    [] job.algebra = "count_second" -> count_algebra(layer_fmap(Second, layer))
    [] job.algebra = "count_heads" -> count_algebra(layer_fmap(extract, layer))
    [] job.algebra = "fib" -> fib_algebra(layer)
    [] job.algebra = "min_coins" -> min_coins_algebra(layer)
    [] job.algebra = "even_odd" -> alg_even(layer)
    [] job.algebra = "sum" -> sum_algebra(layer)
    [] job.algebra = "sum_second" -> sum_algebra(layer_fmap(Second, layer))
    [] job.algebra = "sum_newest" ->
         sum_algebra(layer_fmap(LAMBDA p : extract(Second(p)), layer))
    [] job.algebra = "even_tail" -> even_tail_length_main(layer)
    [] job.algebra = "sum_leaves" -> sum_leaves(layer)
    [] job.algebra = "parity" -> bool_algebra(layer)
    [] job.algebra = "product" -> product_algebra(layer)
    [] job.algebra = "tails" -> tails(layer)
    [] job.algebra = "to_vector" -> to_vector(layer)
    [] job.algebra = "balanced" -> is_balanced(layer)
    [] job.algebra = "eval" -> eval_algebra(layer)
    [] job.algebra = "labels" -> concat_labels(layer)
    [] job.algebra = "pretty" -> pretty(layer)
    [] job.algebra = "mhisto_fib" -> mhisto_fib(layer)
    [] job.algebra = "to_cofree" -> to_cofree(layer)
    [] job.algebra = "to_free" -> to_free(layer)
    [] job.algebra = "chunk_text" -> chunk_text(layer)
    [] job.algebra = "dot" -> dot_program(layer)
    [] job.algebra = "count_nodes" -> count_nodes(layer)

(* coelgot's algebra and the one that looks its children's children up. *)
caller_phi_at(job, seed, layer) ==
  IF ~names(job, "algebra") THEN [phi |-> layer, at |-> seed] ELSE
  CASE job.algebra = "running_indices" -> running_indices(seed, layer)
    [] OTHER -> caller_phi(job, layer)

(* The helper of zygo, the second algebra of mutu. *)
caller_helper(job, layer) ==
  IF ~names(job, "helper") THEN [helper |-> layer] ELSE
  CASE job.helper = "count" -> count_algebra(layer)
    [] job.helper = "double_count" -> double_count_alg(layer)
    [] job.helper = "height" -> height(layer)
    [] job.helper = "length" -> length_helper(layer)
    [] job.helper = "odd" -> alg_odd(layer)

caller_head(seed) == [headFn |-> seed]

-----------------------------------------------------------------------------
(* apo: the first element that is not smaller, or the end, stops the scan  *)
(* and the rest of the list is grafted as it is.                           *)
insert_coalgebra(v, remaining) ==
  LET layer == unwrap_fix(remaining) IN
  IF holds(layer, "Nil") \/ v <= head(layer)
  THEN cons(v, Left(remaining))
  ELSE cons(head(layer), Right(only(layer)))

(* futu: count elements of a run as one chunk, the first of them the layer. *)
RECURSIVE build_run_tail(_, _, _)
build_run_tail(v, count, seed) ==
  IF count <= 0 THEN pure_free(seed)
  ELSE roll_free(cons(v, build_run_tail(v, count - 1, seed)))
rle_coalgebra(pairs, i) ==
  IF i >= Len(pairs) THEN Nil
  ELSE LET run == pairs[i + 1] IN
       cons(Second(run), build_run_tail(Second(run), First(run) - 1, i + 1))

(* futu: two elements a step, the second first; the last of an odd number  *)
(* has no partner and is left out.                                         *)
pairwise_swap(v, i) ==
  IF i + 1 >= Len(v) THEN Nil
  ELSE cons(v[i + 2], roll_free(cons(v[i + 1], pure_free(i + 2))))

(* elgot: a zero is the answer, whatever follows it. *)
product_coalgebra(v, i) ==
  IF i < Len(v) /\ v[i + 1] = 0 THEN Left(0) ELSE Right(from_vector(v, i))

(* apo: counts down to 0 and plants a finished list behind it. *)
countdown_then(tail, n) == IF n <= 0 THEN cons(0, Left(tail)) ELSE cons(n, Right(n - 1))

countdown_heads(n) == IF n <= 0 THEN Nil ELSE cons(n, Right(n - 1))

(* mcata_free: a leaf is worth what pure_alg says, and phi folds a layer. *)
pure_alg(job, v) == IF job.leaf = "bracketed" THEN bracketed(v) ELSE v
free_step(job, prog) ==
  IF is_pure(prog) THEN Left(pure_alg(job, prog.value)) ELSE Right(prog.layer)

(* The coalgebra of a call, at a seed. *)
caller_psi(job, s) ==
  CASE job.coalgebra = "table" -> job.arg[s]
    [] job.coalgebra = "countdown" -> countdown(s)
    [] job.coalgebra = "countdown_right" -> layer_fmap(Right, countdown(s))
    [] job.coalgebra = "countdown_chunks" -> layer_fmap(pure_free, countdown(s))
    [] job.coalgebra = "always_right" -> Right(countdown(s))
    [] job.coalgebra = "unwrap_right" -> layer_fmap(Right, unwrap_fix(s))
    [] job.coalgebra = "from_vector" -> from_vector(job.arg, s)
    [] job.coalgebra = "vector_chunks" -> layer_fmap(pure_free, from_vector(job.arg, s))
    [] job.coalgebra = "insert" -> insert_coalgebra(job.arg, s)
    [] job.coalgebra = "countdown_then" -> countdown_then(job.arg, s)
    [] job.coalgebra = "countdown_heads" -> countdown_heads(s)
    [] job.coalgebra = "rle" -> rle_coalgebra(job.arg, s)
    [] job.coalgebra = "swap" -> pairwise_swap(job.arg, s)
    [] job.coalgebra = "product" -> product_coalgebra(job.arg, s)
    [] job.coalgebra = "program" -> free_step(job, s)
    [] job.coalgebra = "unwrap_cofree" -> unwrap_cofree(s)
    [] job.coalgebra = "unroll_free" -> s.layer
    [] job.coalgebra = "reify" -> reify_layer(s)

-----------------------------------------------------------------------------
(***************************************************************************)
(* Natural transformations: each may change the label and move, copy or    *)
(* drop the children, but never looks at them.  Those of the tests, two    *)
(* of them on rose layers too, and one that permutes, which no test uses.  *)
(* Cutting and capping are idempotent, so they cannot tell once from k     *)
(* times.                                                                  *)
(***************************************************************************)
take_while_positive(layer) == IF holds(layer, "Cons") /\ head(layer) < 0 THEN Nil ELSE layer
decrement_head(layer) ==
  IF holds(layer, "Cons") THEN cons(head(layer) - 1, only(layer)) ELSE layer
cap_at_three(layer) ==
  IF holds(layer, "Cons") /\ head(layer) > 3 THEN cons(3, only(layer)) ELSE layer
nat_to_intlist(layer) == IF holds(layer, "Zero") THEN Nil ELSE cons(1, only(layer))

caller_natural(e, layer) ==
  CASE e = "identity" -> layer
    [] e = "take_while_positive" -> take_while_positive(layer)
    [] e = "decrement_head" -> decrement_head(layer)
    [] e = "cap_at_three" -> cap_at_three(layer)
    [] e = "nat_to_intlist" -> nat_to_intlist(layer)
    [] e = "decrement" -> [layer EXCEPT !.label = @ - 1]
    [] e = "take_while" ->
         IF layer.label < 0 THEN [layer EXCEPT !.kids = <<>>] ELSE layer
    [] e = "reverse" -> [layer EXCEPT !.kids = Reverse(@)]

=============================================================================
