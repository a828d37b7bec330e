----------------------------- MODULE SchemeTests ----------------------------
(***************************************************************************)
(* The calls that the schemes' tests and the examples make, each with the  *)
(* answer it must get: the values the tests write down, or what the        *)
(* examples say they compute, said without a scheme.  A law of a test      *)
(* ("a equals b") is two calls that owe one answer.  Where a test tries a  *)
(* function on one input, the definition may try it on every small one.    *)
(***************************************************************************)
EXTENDS Callers

Tried == 0..10

(* Every sequence of at most n members of S. *)
Vectors(S, n) == UNION {[1..i -> S] : i \in 0..n}

(* Calls on naturals and lists, with the answer wanted for each. *)
NatFolds(s, a, want(_), N) ==
  {[scheme |-> s, algebra |-> a, tree |-> nat(n), expect |-> want(n)] : n \in N}
ListFolds(s, a, want(_), V) ==
  {[scheme |-> s, algebra |-> a, tree |-> list(v), expect |-> want(v)] : v \in V}
TreeFolds(s, a, want(_), T) ==
  {[scheme |-> s, algebra |-> a, tree |-> t, expect |-> want(t)] : t \in T}
NatRefolds(s, a, c, want(_), N) ==
  {[scheme |-> s, algebra |-> a, coalgebra |-> c, seed |-> n, expect |-> want(n)] : n \in N}
NatUnfolds(s, c, N) ==
  {[scheme |-> s, coalgebra |-> c, seed |-> n, expect |-> nat(n)] : n \in N}
VectorUnfolds(s, c, want(_), V) ==
  {[scheme |-> s, coalgebra |-> c, arg |-> v, seed |-> 0, expect |-> list(want(v))] : v \in V}
With(arguments, calls) == {arguments @@ c : c \in calls}

-----------------------------------------------------------------------------
(* The answers. *)
Same(x) == x
Fib(n) == <<0, 1, 1, 2, 3, 5, 8, 13, 21, 34, 55>>[n + 1]

(* The fewest coins of 1, 4 and 5 whose worth is n. *)
MinCoins(n) ==
  LET purses == {p \in (0..n) \X (0..n \div 4) \X (0..n \div 5) :
                   p[1] + 4 * p[2] + 5 * p[3] = n}
  IN Min({p[1] + p[2] + p[3] : p \in purses})

Sum(v) == FoldLeft(LAMBDA x, y : x + y, 0, v)
Product(v) == FoldLeft(LAMBDA x, y : x * y, 1, v)
TailsOf(v) == [i \in 1..(Len(v) + 1) |-> SubSeq(v, i, Len(v))]
Sorted(v) == SortSeq(v, LAMBDA x, y : x < y)

(* What precedes the first negative element; the first is never cut. *)
UpToNegative(v) ==
  LET cuts == {i \in 2..Len(v) : v[i] < 0} IN
  IF cuts = {} THEN v ELSE SubSeq(v, 1, Min(cuts) - 1)
EvenTails(v) ==
  LET p == UpToNegative(v) IN
  Sum([i \in DOMAIN p |-> IF (Len(p) - i) % 2 = 0 THEN p[i] ELSE 0])
Decreasing(v) == Sum([i \in DOMAIN v |-> v[i] - (i - 1)])
Capped(v) == [i \in DOMAIN v |-> IF i > 1 /\ v[i] > 3 THEN 3 ELSE v[i]]

(* A run-length code, and a list with its neighbours swapped. *)
Decoded(runs) == FlattenSeq([i \in DOMAIN runs |-> [j \in 1..runs[i].first |-> runs[i].second]])
Swapped(v) == [i \in DOMAIN v |-> IF i % 2 = 1 THEN v[i + 1] ELSE v[i - 1]]

(* The trees of zygo_balanced, and every shape of up to 26. *)
balanced_tree ==
  make_node(make_node(make_leaf(1), make_leaf(2)), make_node(make_leaf(3), make_leaf(4)))
left_spine ==
  make_node(make_node(make_node(make_leaf(1), make_leaf(2)), make_leaf(3)), make_leaf(4))
unbalanced_tree == make_node(left_spine, make_leaf(5))
Shapes == LET Grown(S) == {make_leaf(0)} \cup {make_node(l, r) : l \in S, r \in S}
          IN Grown(Grown(Grown({make_leaf(0)})))

RECURSIVE Depth(_), Balanced(_)
Depth(t) ==
  IF holds(unwrap_fix(t), "Leaf") THEN 0
  ELSE 1 + Max({Depth(left(unwrap_fix(t))), Depth(right(unwrap_fix(t)))})
Balanced(t) ==
  LET layer == unwrap_fix(t) IN
  holds(layer, "Node") =>
    /\ Depth(left(layer)) - Depth(right(layer)) \in -1..1
    /\ Balanced(left(layer))
    /\ Balanced(right(layer))

(* (2 * 3) + 4 and 2 * (3 + 4) *)
sum_of_product == add_node(mul_node(const_node(2), const_node(3)), const_node(4))
product_of_sum == mul_node(const_node(2), add_node(const_node(3), const_node(4)))

-----------------------------------------------------------------------------
(* fold_fix, unfold_fix, refold *)
Negations(n) == n % 2 = 0
recursion_schemes_tests ==
  NatFolds("fold_fix", "count", Same, {0, 2, 5})
    \cup NatFolds("fold_fix", "parity", Negations, {3})
    \cup NatUnfolds("unfold_fix", "countdown", {0, 5})
    \cup NatRefolds("refold", "count", "countdown", Same, 0..9)

functors_tests ==
  NatFolds("fold_fix", "count", Same, Tried)
    \cup NatUnfolds("unfold_fix", "countdown", Tried)
    \cup ListFolds("fold_fix", "to_vector", Same, {<<>>, <<1, 2, 3>>, <<1, 2, 3, 4, 5>>})
    \cup VectorUnfolds("unfold_fix", "from_vector", Same, {<<>>, <<1, 2, 3, 4, 5>>})
    \cup TreeFolds("fold_fix", "sum_leaves", LAMBDA t : 5, {make_node(make_leaf(2), make_leaf(3))})
    \cup TreeFolds("fold_fix", "eval", LAMBDA t : 10, {sum_of_product})
    \cup TreeFolds("fold_fix", "labels", LAMBDA t : <<1, 2, 3, 4>>,
           {rose_node(1, <<rose_node(2, <<>>), rose_node(3, <<rose_node(4, <<>>)>>)>>)})

SomeLists == {<<>>, <<1, 2, 3>>, <<5, 4, 3, 2, 1>>}

para_tests ==
  NatFolds("para", "count_second", Same, Tried)
    \cup NatFolds("fold_fix", "count", Same, Tried)
    \cup ListFolds("para", "sum_second", Sum, SomeLists)
    \cup ListFolds("fold_fix", "sum", Sum, SomeLists)
    \cup ListFolds("para", "tails", TailsOf, {<<1, 2, 3>>})

zygo_tests ==
  With([helper |-> "count"], NatFolds("zygo", "count_second", Same, Tried))
    \cup With([helper |-> "height"],
              TreeFolds("zygo", "balanced", Balanced, {balanced_tree, unbalanced_tree}))

mutu_tests ==
  With([helper |-> "double_count"],
       NatFolds("mutu", "count_first", LAMBDA n : Pair(n, 2 * n), Tried))
    \cup With([helper |-> "odd"],
              NatFolds("mutu", "even_odd", LAMBDA n : Pair(n % 2 = 0, n % 2 = 1), Tried))

SomeAmounts == {0, 1, 4, 5, 8, 12}

histo_tests ==
  NatFolds("histo", "count_heads", Same, Tried)
    \cup NatFolds("histo", "fib", Fib, Tried)
    \cup NatFolds("histo", "min_coins", MinCoins, SomeAmounts)

(* Inserting x into a sorted list, wherever it belongs. *)
Insertions(extra, V, X) ==
  UNION {With(extra, {[coalgebra |-> "insert", arg |-> x, seed |-> list(v),
                       expect |-> list(Sorted(Append(v, x)))] : x \in X}) : v \in V}
Ascending(S, n) == {v \in Vectors(S, n) : \A i \in 2..Len(v) : v[i - 1] <= v[i]}

apo_tests ==
  NatUnfolds("apo", "countdown_right", Tried)
    \cup {[scheme |-> "apo", coalgebra |-> "unwrap_right", seed |-> nat(3), expect |-> nat(3)]}
    \cup Insertions([scheme |-> "apo"], {<<1, 3, 7, 9>>}, {0, 5, 10})

Runs == {<<Pair(2, 7), Pair(3, 1)>>, <<Pair(2, 7)>>}

futu_tests ==
  NatUnfolds("futu", "countdown_chunks", Tried)
    \cup VectorUnfolds("futu", "rle", Decoded, Runs)
    \cup VectorUnfolds("futu", "swap", Swapped, {<<1, 2, 3, 4, 5, 6>>})
    \cup VectorUnfolds("futu", "vector_chunks", Same, {<<1, 2, 3, 4, 5, 6>>})

chrono_tests ==
  NatRefolds("dyna", "fib", "countdown", Fib, Tried)
    \cup NatRefolds("codyna", "count", "countdown_chunks", Same, Tried)
    \cup NatRefolds("chrono", "fib", "countdown_chunks", Fib, Tried)
    \cup NatRefolds("dyna", "min_coins", "countdown", MinCoins, SomeAmounts)

mendler_tests ==
  NatFolds("mcata", "count", Same, Tried)
    \cup TreeFolds("mcata", "eval", LAMBDA t : 10, {sum_of_product})
    \cup NatFolds("mhisto", "mhisto_fib", Fib, Tried)

Bailouts(V) ==
  {[scheme |-> "elgot", algebra |-> "product", coalgebra |-> "product",
    arg |-> v, seed |-> 0, expect |-> Product(v)] : v \in V}

elgot_tests ==
  NatRefolds("elgot", "count", "always_right", Same, Tried)
    \cup NatRefolds("coelgot", "count", "countdown", Same, Tried)
    \cup NatRefolds("coelgot", "running_indices", "countdown",
                    LAMBDA n : [i \in 1..(n + 1) |-> n + 1 - i], {5})
    \cup Bailouts({<<2, 3, 0, 5, 7>>, <<0, 5, 9>>})

(* prepro, postpro and hoist with the natural transformation e. *)
Rewriting(e, calls) == With([nat |-> e], calls)
SomeSource == <<1, 5, 2, 9, 3>>
SomeNegative == {<<3, 4, -1, 5>>, <<3, -1, 4>>}
PositiveSum(v) == Sum(UpToNegative(v))

hoist_tests ==
  {[scheme |-> "hoist", tree |-> nat(n), nat |-> "identity", expect |-> nat(n)] : n \in Tried}
    \cup {[scheme |-> "hoist", tree |-> nat(n), nat |-> "nat_to_intlist",
           expect |-> list([i \in 1..n |-> 1])] : n \in Tried}

prepro_tests ==
  Rewriting("identity", NatFolds("prepro", "count", Same, Tried))
    \cup Rewriting("identity", NatUnfolds("postpro", "countdown", Tried))
    \cup Rewriting("take_while_positive", ListFolds("prepro", "sum", PositiveSum, SomeNegative))
    \cup Rewriting("decrement_head", ListFolds("prepro", "sum", Decreasing, {<<10, 10, 10>>}))
    \cup Rewriting("cap_at_three",
                   VectorUnfolds("postpro", "from_vector", Capped, {SomeSource}))

-----------------------------------------------------------------------------
(* The same answers from the generalized schemes. *)
By(law, calls) == With([law |-> law], calls)

generalized_tests ==
  By("cata", NatFolds("gcata", "count", Same, Tried))
    \cup By("cata", ListFolds("gcata", "sum", Sum, SomeLists))
    \cup By("histo", NatFolds("gcata", "fib", Fib, Tried))
    \cup By("zygo", With([helper |-> "height"],
            TreeFolds("gcata", "balanced", Balanced, {balanced_tree, unbalanced_tree})))
    \cup By("para", ListFolds("gcata", "tails", TailsOf, {<<1, 2, 3>>}))

gana_tests ==
  By("ana", NatUnfolds("gana", "countdown", Tried))
    \cup Insertions([scheme |-> "gana", law |-> "apo"], {<<1, 3, 7, 9>>}, {5})
    \cup {[scheme |-> s, law |-> "apo", coalgebra |-> "countdown_then", seed |-> 5,
           arg |-> list(<<100, 200>>), expect |-> list(<<5, 4, 3, 2, 1, 0, 100, 200>>)]
            : s \in {"apo", "gana"}}
    \cup By("futu", VectorUnfolds("gana", "rle", Decoded, Runs))
    \cup By("apo", {[scheme |-> "gana", coalgebra |-> "countdown_heads", seed |-> 4,
                     expect |-> list(<<4, 3, 2, 1>>)]})

ghylo_tests ==
  LET Both(fold, law, calls) == With([fold |-> fold, law |-> law], calls) IN
  Both("cata", "ana", NatRefolds("ghylo", "count", "countdown", Same, Tried))
    \cup Both("histo", "ana", NatRefolds("ghylo", "fib", "countdown", Fib, Tried))
    \cup Both("cata", "futu", NatRefolds("ghylo", "count", "countdown_chunks", Same, Tried))
    \cup Both("histo", "futu", NatRefolds("ghylo", "fib", "countdown_chunks", Fib, Tried))

gprepro_laws ==
  Rewriting("identity", By("cata", NatFolds("gprepro", "count", Same, Tried)))
    \cup Rewriting("identity", By("histo", NatFolds("gprepro", "fib", Fib, Tried)))
    \cup Rewriting("take_while_positive",
                   By("cata", ListFolds("gprepro", "sum", PositiveSum, SomeNegative)))

gpostpro_laws ==
  Rewriting("identity", By("ana", NatUnfolds("gpostpro", "countdown", Tried)))
    \cup Rewriting("cap_at_three",
                   By("ana", VectorUnfolds("gpostpro", "from_vector", Capped, {SomeSource})))

(* zygo_histo_prepro: gprepro whose algebra sees helper and history. *)
ZygoHistoPrepro(e, calls) ==
  Rewriting(e, With([law |-> "zygo_histo", main |-> "all", helper |-> "length"], calls))

zygo_histo_prepro_tests ==
  ZygoHistoPrepro("identity", ListFolds("gprepro", "sum_newest", Sum, SomeLists))
    \cup ZygoHistoPrepro("take_while_positive",
                         ListFolds("gprepro", "even_tail", EvenTails, {<<3, 4, -1, 5>>}))

(* A chunk of count elements and the seed that follows them. *)
RECURSIVE make_chunk(_, _, _)
make_chunk(v, count, seed) ==
  IF count <= 0 THEN pure_free(seed) ELSE roll_free(cons(v, make_chunk(v, count - 1, seed)))

ChunkFold(algebra, leaf, v, count, seed, want) ==
  {[scheme |-> "mcata_free", coalgebra |-> "program", algebra |-> algebra, leaf |-> leaf,
    seed |-> make_chunk(v, count, seed), expect |-> want]}
mcata_free_tests ==
  ChunkFold("sum", "same", 3, 4, 100, 112)
    \cup ChunkFold("sum", "same", 7, 0, 42, 42)
    \cup ChunkFold("chunk_text", "bracketed", 1, 2, 9, <<"1", ",", "1", ",", "<", "9", ">">>)

schemes_tests ==
  NatFolds("para", "count_second", Same, {5})
    \cup NatRefolds("dyna", "count_heads", "countdown", Same, {5})
    \cup NatUnfolds("futu", "countdown_chunks", {5})
    \cup NatFolds("mcata", "count", Same, {5})

-----------------------------------------------------------------------------
(* Types as they are spelled, and senders of these tests. *)
execution == <<"beman", "::", "execution", "::">>
detail == execution \o <<"detail", "::">>
Completing(name, channel) ==
  detail \o <<name, "_t", "<">> \o execution \o <<channel, "_t", ">">>
closure == <<"lambda#1">>
Sender(tag, data, children) == [tag |-> tag, data |-> data, children |-> children]
just == Sender(Completing("just", "set_value"), detail \o <<"product_type", "<", "int", ">">>, <<>>)
just_stopped ==
  Sender(Completing("just", "set_stopped"), detail \o <<"product_type", "<", ">">>, <<>>)
then(sndr) == Sender(Completing("then", "set_value"), closure, <<sndr>>)
upon_error(sndr) == Sender(Completing("then", "set_error"), closure, <<sndr>>)
when_all(children) ==
  Sender(detail \o <<"when_all", "_t">>, detail \o <<"make_sender_empty">>, children)
not_a_sender == [type |-> <<"smd", "::", "probe", "::", "not_a_sender">>]
wrapper_type ==
  [type |-> <<"foo", "::", "wrapper", "_t", "<", "a", "::", "b", "_t", "<", "c", ">", ">">>]

(* A node of the tree with its label, and its line with the data beside.   *)
Sent(tag_name, data_type, children) ==
  wrap_fix(SenderTreeF(sender_node_info(tag_name, data_type), children))
sent_just == Sent(<<"just">>, <<"product_type">>, <<>>)
sent_then(child) == Sent(<<"then">>, closure, <<child>>)
pipeline == then(when_all(<<just, just>>))
sent_pipeline == sent_then(Sent(<<"when_all">>, <<>>, <<sent_just, sent_just>>))
boxed(id, name, data) == [node |-> id, label |-> name \o <<"\\n">> \o data]

Reified(sndr, tree) ==
  {[scheme |-> "unfold_fix", coalgebra |-> "reify", seed |-> sndr, expect |-> tree]}
Rendered(tree, lines) ==
  {[scheme |-> "fold_fix", algebra |-> "dot", tree |-> tree, expect |-> lines]}
sender_dot_tests ==
  Reified(just, sent_just)
    \cup Reified(then(just), sent_then(sent_just))
    \cup Reified(pipeline, sent_pipeline)
    \cup Reified(upon_error(just), Sent(<<"then", "/error">>, closure, <<sent_just>>))
    \cup Reified(just_stopped, Sent(<<"just", "/stopped">>, <<"product_type">>, <<>>))
    \cup Reified(not_a_sender, Sent(<<"not_a_sender">>, <<>>, <<>>))
    \cup Reified(wrapper_type, Sent(<<"wrapper">>, <<>>, <<>>))
    \cup Rendered(reify_sender(pipeline),
           <<boxed(0, <<"then">>, closure), [node |-> 1, label |-> <<"when_all">>],
             boxed(2, <<"just">>, <<"product_type">>), edge_line(1, 2),
             boxed(3, <<"just">>, <<"product_type">>), edge_line(1, 3), edge_line(0, 1)>>)
    \cup Rendered(Sent(<<"a", "\"", "b", "\\", "c">>, <<>>, <<>>),
           <<[node |-> 0, label |-> <<"a", "\\\"", "b", "\\\\", "c">>]>>)
    \cup {[scheme |-> "fold_fix", algebra |-> "count_nodes", tree |-> reify_sender(pipeline),
           expect |-> 4]}

-----------------------------------------------------------------------------
(* The examples, on what main gives them and on every small input. *)
histo_coin_change == NatFolds("histo", "min_coins", MinCoins, 0..13)
dyna_fibonacci == NatRefolds("dyna", "fib", "countdown", Fib, Tried)
mutu_even_odd ==
  With([helper |-> "odd"],
       NatFolds("mutu", "even_odd", LAMBDA n : Pair(n % 2 = 0, n % 2 = 1), Tried))
mendler_eval == TreeFolds("mcata", "eval", LAMBDA t : 10, {sum_of_product})
apo_sorted_insert ==
  Insertions([scheme |-> "apo"], {<<1, 3, 7, 9>>}, {5})
    \cup Insertions([scheme |-> "apo"], Ascending(0..2, 3), -1..3)
futu_rle_decode ==
  VectorUnfolds("futu", "rle", Decoded,
    {<<Pair(2, 7), Pair(3, 1)>>, <<Pair(1, 9), Pair(4, 0), Pair(2, 5)>>}
      \cup Vectors({Pair(c, x) : c \in 1..3, x \in 0..1}, 2))
zygo_balanced ==
  With([helper |-> "height"],
       TreeFolds("zygo", "balanced", Balanced, {balanced_tree, unbalanced_tree} \cup Shapes))
elgot_shortcircuit == Bailouts({<<4, 3, 0, 5, 9, 2>>} \cup Vectors({0, 2, 3}, 3))
prepro_takewhile_sum ==
  Rewriting("take_while_positive",
            ListFolds("prepro", "sum", PositiveSum,
                      SomeNegative \cup {<<1, 2, 3>>} \cup Vectors(-1..1, 4)))
para_pretty_print ==
  TreeFolds("para", "pretty", LAMBDA t : <<"2", "*", "3", "+", "4">>, {sum_of_product})
    \cup TreeFolds("para", "pretty", LAMBDA t : <<"2", "*", "(", "3", "+", "4", ")">>,
                   {product_of_sum})
generalized_tour ==
  By("cata", NatFolds("gcata", "count", Same, {5}))
    \cup By("histo", NatFolds("gcata", "fib", Fib, {10}))
    \cup With([fold |-> "histo", law |-> "ana"],
              NatRefolds("ghylo", "fib", "countdown", Fib, {10}))
    \cup ZygoHistoPrepro("take_while_positive",
                         ListFolds("gprepro", "even_tail", EvenTails,
                                   {<<3, 4, -1, 5>>} \cup Vectors(-1..1, 4)))

(* Through Cofree and Free and back. *)
RECURSIVE units(_), rolls(_)
units(n) == Cofree("unit", IF n = 0 THEN Zero ELSE Succ(units(n - 1)))
rolls(n) == roll_free(IF n = 0 THEN Zero ELSE Succ(rolls(n - 1)))
UnfoldsTo(c, s, n) ==
  {[scheme |-> "unfold_fix", coalgebra |-> c, seed |-> s, expect |-> nat(n)]}
free_cofree_interlude ==
  NatFolds("fold_fix", "to_cofree", units, Tried)
    \cup NatFolds("fold_fix", "to_free", rolls, Tried)
    \cup UNION {UnfoldsTo("unwrap_cofree", units(n), n) : n \in Tried}
    \cup UNION {UnfoldsTo("unroll_free", rolls(n), n) : n \in Tried}

(* when_all of a just and of a then, behind a then and an upon_error. *)
sender_dot ==
  LET example == upon_error(then(when_all(<<just, then(just)>>))) IN
  Rendered(reify_sender(example),
    <<boxed(0, <<"then", "/error">>, closure), boxed(1, <<"then">>, closure),
      [node |-> 2, label |-> <<"when_all">>],
      boxed(3, <<"just">>, <<"product_type">>), edge_line(2, 3),
      boxed(4, <<"then">>, closure), boxed(5, <<"just">>, <<"product_type">>), edge_line(4, 5),
      edge_line(2, 4), edge_line(1, 2), edge_line(0, 1)>>)

(* What a call owes whose answer is known beforehand. *)
KeepsPromise(job, v) == names(job, "expect") => v = job.expect

TestCalls ==
  recursion_schemes_tests \cup functors_tests \cup para_tests \cup zygo_tests \cup mutu_tests
    \cup histo_tests \cup apo_tests \cup futu_tests \cup chrono_tests \cup mendler_tests
    \cup elgot_tests \cup hoist_tests \cup prepro_tests \cup generalized_tests \cup gana_tests
    \cup ghylo_tests \cup gprepro_laws \cup gpostpro_laws \cup zygo_histo_prepro_tests
    \cup schemes_tests \cup mcata_free_tests \cup sender_dot_tests
ExampleCalls ==
  histo_coin_change \cup dyna_fibonacci \cup mutu_even_odd \cup mendler_eval
    \cup apo_sorted_insert \cup futu_rle_decode \cup zygo_balanced \cup elgot_shortcircuit
    \cup prepro_takewhile_sum \cup para_pretty_print \cup generalized_tour
    \cup free_cofree_interlude \cup sender_dot

=============================================================================
