----------------------------- MODULE Generalized ----------------------------
(***************************************************************************)
(* The schemes of generalized.hpp, parameterised by a comonad or a monad   *)
(* and its distributive law, as further instances of Recursion: gcata and  *)
(* gprepro fold to w(f(w a)), gana and gpostpro unfold from m(f(m a)),     *)
(* ghylo folds what gana built.  job.law names the law, and with it the    *)
(* comonad or monad; a ghylo has one of each and keeps the fold's in       *)
(* job.fold.                                                               *)
(***************************************************************************)
EXTENDS Schemes, Callers

GFolds == {"gcata", "gprepro"}
GUnfolds == {"gana", "gpostpro"}
GSchemes == GFolds \cup GUnfolds \cup {"ghylo"}

(* Identity<A> *)
Identity(v) == [value |-> v]
value(i) == i.value

(***************************************************************************)
(* The comonads: Identity for "cata", pair with its first as environment   *)
(* for "zygo" and "para", Cofree for "histo", and for "zygo_histo" a pair  *)
(* whose second is a Cofree.                                               *)
(***************************************************************************)

(* What zygo_histo's algebra looks at in a child. *)
looksAt(job, p) ==
  CASE job.main = "newest" -> extract(Second(p))
    [] job.main = "history" -> Second(p)
    [] job.main = "helper" -> Pair(First(p), extract(Second(p)))
    [] job.main = "all" -> p

(* The caller's algebra, on a layer of comonadic results; cata's is lifted. *)
GAlgebra(law, job, layer) ==
  CASE law = "cata" -> phi(job, layer_fmap(value, layer))
    [] law \in {"histo", "zygo", "para"} -> phi(job, layer)
    [] law = "zygo_histo" -> phi(job, layer_fmap(LAMBDA p : looksAt(job, p), layer))

(* fmap of Cofree: the algebra at every position of the history. *)
RECURSIVE cofree_fmap(_, _, _)
cofree_fmap(law, job, c) ==
  Cofree(GAlgebra(law, job, extract(c)),
         layer_fmap(LAMBDA k : cofree_fmap(law, job, k), unwrap_cofree(c)))

(* duplicate of Cofree: every position holds the history from there on. *)
RECURSIVE cofree_duplicate(_)
cofree_duplicate(c) == Cofree(c, layer_fmap(cofree_duplicate, unwrap_cofree(c)))

(* The environment is attached to every position. *)
RECURSIVE reattached(_, _)
reattached(env, c) ==
  Cofree(Pair(env, extract(c)),
         layer_fmap(LAMBDA k : reattached(env, k), unwrap_cofree(c)))

comonad_extract(law, w) ==
  CASE law = "cata" -> value(w)
    [] law \in {"zygo", "para"} -> Second(w)
    [] law = "histo" -> extract(w)
    [] law = "zygo_histo" -> extract(Second(w))

comonad_duplicate(law, w) ==
  CASE law = "cata" -> Identity(w)
    [] law \in {"zygo", "para"} -> Pair(First(w), w)
    [] law = "histo" -> cofree_duplicate(w)
    [] law = "zygo_histo" ->
         Pair(First(w), reattached(First(w), cofree_duplicate(Second(w))))

(* fmap of the comonad, with the caller's algebra. *)
comonad_fmap(law, job, w) ==
  CASE law = "cata" -> Identity(GAlgebra(law, job, value(w)))
    [] law \in {"zygo", "para"} -> Pair(First(w), GAlgebra(law, job, Second(w)))
    [] law = "histo" -> cofree_fmap(law, job, w)
    [] law = "zygo_histo" -> Pair(First(w), cofree_fmap(law, job, Second(w)))

(* f(w a) -> w(f a) *)
dist_cata(layer) == Identity(layer_fmap(value, layer))

(* Mutant: the helper would fold the main results, of the same C++ type. *)
dist_zygo_swapped(job, layer) ==
  Pair(helper(job, layer_fmap(Second, layer)), layer_fmap(First, layer))

dist_zygo(job, layer) == Pair(helper(job, layer_fmap(First, layer)), layer_fmap(Second, layer))
dist_para(layer) == Pair(wrap_fix(layer_fmap(First, layer)), layer_fmap(Second, layer))

RECURSIVE dist_histo(_)
dist_histo(layer) ==
  Cofree(layer_fmap(extract, layer),
         layer_fmap(LAMBDA c : dist_histo(unwrap_cofree(c)), layer))

dist_zygo_histo(job, layer) ==
  Pair(helper(job, layer_fmap(First, layer)), dist_histo(layer_fmap(Second, layer)))

comonad_dist(law, job, layer) ==
  CASE law = "cata" -> dist_cata(layer)
    [] law = "zygo" -> dist_zygo(job, layer)
    [] law = "para" -> dist_para(layer)
    [] law = "histo" -> dist_histo(layer)
    [] law = "zygo_histo" -> dist_zygo_histo(job, layer)

(* One layer of the worker c of gcata, its children already folded by it. *)
gcata_worker(law, job, layer) ==
  comonad_dist(law, job,
    layer_fmap(LAMBDA w : comonad_duplicate(law, comonad_fmap(law, job, w)), layer))

(* The caller's algebra once more, on what the worker gave for the root. *)
gcata(law, job, w) == GAlgebra(law, job, comonad_extract(law, w))

-----------------------------------------------------------------------------
(***************************************************************************)
(* The monads: Identity for "ana", either for "apo" and "gapo", Free for   *)
(* "futu".  gapo's Left side holds a seed of its own coalgebra, job.coalg. *)
(***************************************************************************)

(* The caller's coalgebra; ana's is lifted. *)
GCoalgebra(job, s) ==
  IF job.law = "ana" THEN layer_fmap(Identity, psi(job, s)) ELSE psi(job, s)

monad_pure(law, x) ==
  CASE law = "ana" -> Identity(x)
    [] law \in {"apo", "gapo"} -> Right(x)
    [] law = "futu" -> pure_free(x)

RECURSIVE free_join(_)
free_join(m) ==
  IF is_pure(m) THEN m.value ELSE roll_free(layer_fmap(free_join, m.layer))

monad_join(law, m) ==
  CASE law = "ana" -> value(m)
    [] law \in {"apo", "gapo"} -> IF m.side = "Left" THEN m ELSE m.right
    [] law = "futu" -> free_join(m)

(* fmap of the monad, with the caller's coalgebra. *)
RECURSIVE free_fmap(_, _)
free_fmap(job, m) ==
  IF is_pure(m) THEN pure_free(GCoalgebra(job, m.value))
  ELSE roll_free(layer_fmap(LAMBDA c : free_fmap(job, c), m.layer))

monad_fmap(job, m) ==
  CASE job.law = "ana" -> Identity(GCoalgebra(job, value(m)))
    [] job.law \in {"apo", "gapo"} ->
         IF m.side = "Left" THEN m ELSE Right(GCoalgebra(job, m.right))
    [] job.law = "futu" -> free_fmap(job, m)

(* m(f a) -> f(m a) *)
dist_ana(m) == layer_fmap(Identity, value(m))
dist_apo(m) ==
  IF m.side = "Left" THEN layer_fmap(Left, unwrap_fix(m.left))
  ELSE layer_fmap(Right, m.right)
dist_gapo(coalg, m) ==
  IF m.side = "Left" THEN layer_fmap(Left, coalg[m.left])
  ELSE layer_fmap(Right, m.right)

RECURSIVE dist_futu(_)
dist_futu(m) ==
  IF is_pure(m) THEN layer_fmap(pure_free, m.value)
  ELSE layer_fmap(LAMBDA c : roll_free(dist_futu(c)), m.layer)

monad_dist(job, m) ==
  CASE job.law = "ana" -> dist_ana(m)
    [] job.law = "apo" -> dist_apo(m)
    [] job.law = "gapo" -> dist_gapo(job.coalg, m)
    [] job.law = "futu" -> dist_futu(m)

(* One layer of the worker a of gana, and what it calls itself with. *)
gana_worker(job, m) ==
  layer_fmap(LAMBDA mms : monad_fmap(job, monad_join(job.law, mms)), monad_dist(job, m))

(* What gana and gpostpro call their worker with. *)
gana(job) == monad_pure(job.law, GCoalgebra(job, job.seed))

(* The tree ghylo builds before it folds it. *)
RECURSIVE built(_, _)
built(job, m) == wrap_fix(layer_fmap(LAMBDA c : built(job, c), gana_worker(job, m)))

(* A law called by itself. *)
distributed(job) ==
  IF job.law \in {"cata", "zygo", "para", "histo"} THEN comonad_dist(job.law, job, job.of)
  ELSE monad_dist(job, job.of)

-----------------------------------------------------------------------------
GSeed(job) ==
  CASE job.scheme \in GFolds -> job.tree
    [] job.scheme \in GUnfolds -> gana(job)
    [] job.scheme = "ghylo" -> built(job, gana(job))

GCoalgebraStep(job, s) ==
  CASE job.scheme \in {"gcata", "ghylo"} -> unwrap_fix(s)
    [] job.scheme = "gprepro" -> prepared(job.nat, s)
    [] job.scheme \in GUnfolds -> gana_worker(job, s)

(* The law a fold goes by. *)
foldLaw(job) == IF job.scheme = "ghylo" THEN job.fold ELSE job.law

GAlgebraStep(job, layer) ==
  CASE job.scheme = "gana" -> wrap_fix(layer)
    [] job.scheme = "gpostpro" -> finished(job.nat, layer)
    [] OTHER -> gcata_worker(foldLaw(job), job, layer)

GFinish(job, v) ==
  IF job.scheme \in GUnfolds THEN v ELSE gcata(foldLaw(job), job, v)

=============================================================================
