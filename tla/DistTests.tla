------------------------------ MODULE DistTests -----------------------------
(***************************************************************************)
(* The calls that dist_laws.t.cpp makes of the distributive laws by        *)
(* themselves, with the answers it writes down; and naturality: to map the *)
(* elements before a law or after it is the same.  The test tries that on  *)
(* a layer or two, NaturalityCalls on every layer it is given.             *)
(***************************************************************************)
EXTENDS Generalized

Dist(law, w, want) == {[scheme |-> "dist", law |-> law, of |-> w, expect |-> want]}

dist_identity_tests ==
  Dist("cata", Zero, Identity(Zero))
    \cup Dist("cata", Succ(Identity(5)), Identity(Succ(5)))
    \cup Dist("ana", Identity(Nil), Nil)
    \cup Dist("ana", Identity(cons(7, 3)), cons(7, Identity(3)))

(* A history of one Zero, and what its law makes of it. *)
first_zero == Cofree(0, Zero)
zeros == Cofree(Zero, Zero)

dist_history_tests ==
  Dist("histo", Succ(first_zero), Cofree(Succ(0), Succ(zeros)))
    \cup Dist("histo", Zero, zeros)
    \cup Dist("futu", pure_free(Succ(5)), Succ(pure_free(5)))
    \cup Dist("futu", roll_free(Succ(pure_free(Zero))), Succ(roll_free(Zero)))

WithHelper(calls) == {[helper |-> "count"] @@ call : call \in calls}
dist_pair_tests ==
  WithHelper(Dist("zygo", Zero, Pair(0, Zero)))
    \cup WithHelper(Dist("zygo", Succ(Pair(3, "z")), Pair(4, Succ("z"))))
    \cup WithHelper(Dist("zygo", Succ(Pair(2, 9)), Pair(3, Succ(9))))
    \cup Dist("para", Succ(Pair(nat(2), "p")), Pair(nat(3), Succ("p")))

Counting(calls) == {[coalg |-> [b \in 0..4 |-> countdown(b)]] @@ call : call \in calls}
dist_either_tests ==
  Dist("apo", Right(Succ(Identity(7))), Succ(Right(Identity(7))))
    \cup Dist("apo", Left(nat(3)), Succ(Left(nat(2))))
    \cup Dist("apo", Right(Succ(nat(5))), Succ(Right(nat(5))))
    \cup Dist("apo", Left(nat(1)), Succ(Left(nat(0))))
    \cup Counting(Dist("gapo", Right(Succ(7)), Succ(Right(7))))
    \cup Counting(Dist("gapo", Left(4), Succ(Left(3))))

-----------------------------------------------------------------------------
(* Ten more at an element, or at every element of a layer of them. *)
ten_more(at, x) == IF at = "element" THEN x + 10 ELSE layer_fmap(LAMBDA y : y + 10, x)

RECURSIVE history_more(_, _)
history_more(at, c) ==
  Cofree(ten_more(at, extract(c)),
         layer_fmap(LAMBDA k : history_more(at, k), unwrap_cofree(c)))

(* The functor's fmap. *)
under(law, at, w) ==
  CASE law = "cata" -> Identity(ten_more(at, value(w)))
    [] law \in {"zygo", "para"} -> Pair(First(w), ten_more(at, Second(w)))
    [] law = "histo" -> history_more(at, w)

(* dist (fmap (fmap_w f) l) = fmap_w (fmap f) (dist l) *)
Naturality(law, layers) ==
  UNION {Dist(law, layer_fmap(LAMBDA w : under(law, "element", w), l),
              under(law, "layer", comonad_dist(law, [scheme |-> "dist"], l))) : l \in layers}

NaturalityTests ==
  Naturality("cata", {Succ(Identity(3))}) \cup Naturality("histo", {Succ(first_zero)})

DistTestCalls ==
  dist_identity_tests \cup dist_history_tests \cup dist_pair_tests \cup dist_either_tests
    \cup NaturalityTests

=============================================================================
