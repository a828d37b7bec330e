---------------------------- MODULE TypeclassTests --------------------------
(***************************************************************************)
(* The calls that the tests of the typeclasses make, of their instances    *)
(* for the base functors, and of those for Free and Cofree, each with the  *)
(* answer the test writes down.  A string beside the elements is a number. *)
(***************************************************************************)
EXTENDS Typeclasses

(* What holds contexts is marked so. *)
Op(op, arguments, want) == {[scheme |-> "typeclass", op |-> op, expect |-> want] @@ arguments}
On(container) == [on |-> container]
Applied(fn, container) == [on |-> container, fn |-> fn]
Lifted(context, fn, args) == [context |-> context, fn |-> fn, args |-> args]
Effects(context, fn, container) == [context |-> context, fn |-> fn, on |-> container]
Combined(m, v) == [on |-> vector(v), monoid |-> m]
Nested(arguments) == [of |-> "contexts"] @@ arguments
From(init, fn, container) == [init |-> init, fn |-> fn, on |-> container]

functor_tests ==
  Op("fmap", Applied("plus_one", some(41)), some(42))
    \cup Op("fmap", Applied("plus_one", none), none)
    \cup Op("fmap", Applied("times_two", vector(<<1, 2, 3>>)), vector(<<2, 4, 6>>))
    \cup Op("fmap", Applied("zero", vector(<<1, 2, 3>>)), vector(<<0, 0, 0>>))

monoid_tests ==
  Op("combine_all", Combined("sum", <<3, 4>>), 7)
    \cup Op("combine_all", Combined("sum", <<>>), 0)
    \cup Op("combine_all", Nested(Combined("concat", <<<<1, 2>>, <<3, 4>>>>)), <<1, 2, 3, 4>>)
dual_monoid_tests ==
  Op("combine_all", Nested(Combined("dual_concat", <<<<1, 2>>, <<3, 4>>>>)), <<3, 4, 1, 2>>)
    \cup Op("combine_all", Nested(Combined("dual_concat", <<>>)), <<>>)

fold_tests ==
  Op("length", On(vector(<<10, 20, 30>>)), 3)
    \cup Op("to_vector", On(vector(<<10, 20, 30>>)), <<10, 20, 30>>)
    \cup Op("fold_left", From(0, "plus", vector(<<1, 2, 3, 4>>)), 10)
    \cup Op("fold_right", From(<<>>, "append", vector(<<1, 2, 3, 4>>)), <<4, 3, 2, 1>>)
    \cup Op("any_of", Applied("odd", vector(<<2, 4, 6, 7>>)), TRUE)
    \cup Op("all_of", Applied("even", vector(<<2, 4, 6, 7>>)), FALSE)
    \cup Op("find_first", Applied("over_five", vector(<<2, 4, 6, 7>>)), <<6>>)
sequence_tests ==
  Op("length", On(vector(<<4, 5, 6>>)), 3)
    \cup Op("to_vector", On(vector(<<4, 5, 6>>)), <<4, 5, 6>>)
    \cup Op("fold_left", From(0, "plus", vector(<<4, 5, 6>>)), 15)
    \cup Op("traverse", Effects("optional", "some_next", vector(<<1, 2, 3>>)),
            some(vector(<<2, 3, 4>>)))
traverse_tests ==
  Op("traverse", Effects("optional", "positive", vector(<<1, 2, 3>>)), some(vector(<<2, 4, 6>>)))
    \cup Op("traverse", Effects("optional", "positive", vector(<<1, -1, 3>>)), none)
    \cup Op("traverse", Effects("optional", "some", vector(<<5, 4, 3, 2, 1>>)),
            some(vector(<<5, 4, 3, 2, 1>>)))
    \cup Op("traverse", Effects("optional", "some", vector(<<>>)), some(vector(<<>>)))
    \cup Op("traverse", Effects("optional", "some_next", identity(20)), some(identity(21)))

apply_tests ==
  Op("invoke", Lifted("optional", "sum", <<some(1), some(2), some(3)>>), some(6))
    \cup Op("invoke", Lifted("optional", "sum", <<some(1), none, some(3)>>), none)
    \cup Op("invoke", Lifted("optional", "times_ten", <<some(5)>>), some(50))
    \cup Op("invoke", Lifted("optional", "same", <<some(7)>>), some(7))
    \cup Op("invoke", Lifted("optional", "plus_one", <<some(41)>>), some(42))
monad_tests ==
  Op("bind", Applied("halved", some(8)), some(4))
    \cup Op("bind", Applied("halved", some(7)), none)
    \cup Op("bind", Applied("halved", none), none)
    \cup Op("join", Nested(On(some(some(5)))), some(5))
    \cup Op("fmap", Applied("square", some(6)), some(36))
    \cup Op("invoke", Lifted("optional", "plus_one", <<some(41)>>), some(42))
    \cup Op("fmap", Applied("square", identity(6)), identity(36))
    \cup Op("invoke", Lifted("identity", "plus_one", <<identity(41)>>), identity(42))
identity_tests ==
  Op("fmap", Applied("plus_one", identity(41)), identity(42))
    \cup Op("invoke", Lifted("identity", "times_two", <<identity(21)>>), identity(42))
    \cup Op("invoke", Lifted("identity", "same", <<identity(7)>>), identity(7))
    \cup Op("bind", Applied("next_identity", identity(9)), identity(10))
    \cup Op("extend", Applied("the", identity(5)), identity(5))
    \cup Op("extend", Nested(Applied("same", identity(identity(5)))), identity(identity(identity(5))))

either_tests ==
  Op("fmap", Applied("plus_one", make_right(10)), make_right(11))
    \cup Op("fmap", Applied("plus_one", make_left(10)), make_left(10))
    \cup Op("bind", Applied("half_if_even", make_right(8)), make_right(4))
    \cup Op("bind", Applied("half_if_even", make_right(7)), make_left(-1))
    \cup Op("bind", Applied("half_if_even", make_left(99)), make_left(99))
    \cup Op("map_left", Applied("times_ten", make_left(3)), make_left(30))
    \cup Op("map_left", Applied("times_ten", make_right(3)), make_right(3))
    \cup Op("match", [on_left |-> "minus_one"] @@ Applied("plus_one", make_left(10)), 9)
    \cup Op("match", [on_left |-> "minus_one"] @@ Applied("plus_one", make_right(10)), 11)
pair_tests ==
  Op("fmap", Applied("plus_one", env(1, 41)), env(1, 42))
    \cup Op("map_first", Applied("times_ten", env(3, 5)), env(30, 5))
    \cup Op("fanout", [also |-> "times_two"] @@ Applied("plus_one", 10), Pair(11, 20))
    \cup Op("extend", Applied("same", env(1, 7)), env(1, env(1, 7)))
    \cup Op("extend", Applied("the", env(1, 13)), env(1, 13))
comonad_tests ==
  Op("extend", Applied("extract_plus_one", identity(9)), identity(10))
    \cup Op("extend", Applied("extract_plus_one", env(100, 9)), env(100, 10))
    \cup Op("extend", Applied("the", identity(4)), identity(4))
    \cup Op("extend", Applied("the", env(1, 4)), env(1, 4))

-----------------------------------------------------------------------------
(* The base functors' instances, and those the tests of fmap choose among. *)
layer_tests ==
  Op("fmap", Applied("plus_one", Succ(0)), Succ(1))
    \cup Op("fmap", Applied("plus_one", Zero), Zero)
    \cup Op("fmap", Applied("times_two", cons(7, 0)), cons(7, 0))
    \cup Op("fmap", Applied("times_two", cons(8, 21)), cons(8, 42))
    \cup Op("fmap", Applied("times_two", Nil), Nil)
    \cup Op("fmap", Applied("plus_one", Node(2, 3)), Node(3, 4))
    \cup Op("fmap", Applied("plus_one", Leaf(9)), Leaf(9))
    \cup Op("fmap", Applied("times_ten", Add(2, 3)), Add(20, 30))
    \cup Op("fmap", Applied("times_ten", Const(5)), Const(5))

rose_tests ==
  Op("fmap", Applied("plus_one", rose(1, <<1, 2, 3>>)), rose(1, <<2, 3, 4>>))
    \cup Op("fmap", Applied("same", rose(1, <<1, 2, 3>>)), rose(1, <<1, 2, 3>>))
    \cup Op("fmap", Applied("times_two", rose(1, <<2, 3, 4>>)), rose(1, <<4, 6, 8>>))
    \cup Op("to_vector", On(rose(1, <<4, 5, 6>>)), <<4, 5, 6>>)
    \cup Op("length", On(rose(1, <<4, 5, 6>>)), 3)
    \cup Op("empty", On(rose(1, <<4, 5, 6>>)), FALSE)
    \cup Op("any_of", Applied("five", rose(1, <<4, 5, 6>>)), TRUE)
    \cup Op("all_of", Applied("over_three", rose(1, <<4, 5, 6>>)), TRUE)
    \cup Op("traverse", Effects("optional", "some_tenfold", rose(1, <<1, 2, 3>>)),
            some(rose(1, <<10, 20, 30>>)))
    \cup Op("traverse", Effects("optional", "unless_two", rose(1, <<1, 2, 3>>)), none)

fmap_tests ==
  Op("fmap", Applied("plus_one", Succ(7)), Succ(8))
    \cup Op("fmap", [instance |-> "tagging"] @@ Applied("plus_one", Succ(7)), Succ(108))
    \cup Op("fmap", [instance |-> "dual_path", rvalue |-> FALSE] @@ Applied("plus_one", Succ(7)),
            Succ(1008))
    \cup Op("fmap", [instance |-> "dual_path", rvalue |-> TRUE] @@ Applied("plus_one", Succ(7)),
            Succ(2008))

(* Programs, const and consumed, with the monad's laws; that of            *)
(* associativity is two calls that owe one answer.                         *)
RECURSIVE RunBefore(_, _, _)
RunBefore(v, count, m) == IF count = 0 THEN m ELSE roll_free(cons(v, RunBefore(v, count - 1, m)))

free_tests ==
  Op("free_fmap", Applied("plus_ten", pure_free(4)), pure_free(14))
    \cup Op("free_fmap", Applied("plus_ten", make_run(9, 2, 4)), make_run(9, 2, 14))
    \cup UNION {Op("free_bind", Applied("two_more", pure_free(a)), make_run(a, 2, a + 1))
                  : a \in 0..5}
    \cup UNION {Op("free_bind", Applied("pure_free", make_run(7, count, count * 10)),
                   make_run(7, count, count * 10)) : count \in 0..3}
    \cup UNION {Op("free_bind", Applied("doubled_one_more", RunBefore(3, n, make_run(n, 1, n + 1))),
                   RunBefore(3, n, RunBefore(n, 1, make_run((n + 1) * 2, 1, n + 3))))
                 \cup Op("free_bind", Applied("both_more", make_run(3, n, n)),
                   RunBefore(3, n, RunBefore(n, 1, make_run((n + 1) * 2, 1, n + 3)))) : n \in 0..3}
    \cup Op("free_bind", Applied("two_hundred", make_run(1, 1, 2)),
            roll_free(cons(1, make_run(2, 2, 102))))
    \cup Op("free_bind", Applied("pure_next", pure_free(5)), pure_free(6))
    \cup Op("free_bind", Applied("one_hundred", make_run(1, 1, 2)),
            roll_free(cons(1, make_run(2, 1, 102))))

cofree_tests ==
  LET ann(value(_)) ==
        Cofree(value(2), Succ(Cofree(value(1), Succ(Cofree(value(0), Zero)))))
      plain == ann(LAMBDA h : h)
  IN Op("cofree_fmap", Applied("plus_ten", plain), ann(LAMBDA h : h + 10))
       \cup Op("cofree_extend", Applied("extract", plain), plain)
       \cup Op("cofree_extend", Applied("extract_doubled", plain), ann(LAMBDA h : 2 * h))

TypeclassTestCalls ==
  functor_tests \cup monoid_tests \cup dual_monoid_tests \cup fold_tests \cup sequence_tests
    \cup traverse_tests \cup apply_tests \cup monad_tests \cup identity_tests \cup either_tests
    \cup pair_tests \cup comonad_tests \cup layer_tests \cup rose_tests \cup fmap_tests
    \cup free_tests \cup cofree_tests

=============================================================================
