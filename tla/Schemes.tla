------------------------------- MODULE Schemes ------------------------------
(***************************************************************************)
(* The schemes of src/smd/fixpoint as instances of Recursion: for each its *)
(* first seed, its coalgebra, its algebra, and the projection its caller   *)
(* receives.  A job names the scheme, and holds the tree it folds or the   *)
(* seed it starts from, and which of the callers' functions it is given.   *)
(***************************************************************************)
EXTENDS Layers

(* The functions of the callers; Callers has the ones the calls are made with. *)
CONSTANTS
  phi(_, _),        \* job, layer of results: the algebra
  phiAt(_, _, _),   \* job, seed, layer: an algebra that is handed something besides
  helper(_, _),     \* job, layer: zygo's helper, mutu's second algebra
  psi(_, _),        \* job, seed: the coalgebra
  headFn(_),        \* seed: the head of its node
  natural(_, _),    \* name, layer: the natural transformation of that name
  asks(_),          \* layer: what a mhisto algebra of the tests recurses on
  hoist(_, _)       \* name, tree: every layer rewritten, as hoist_tree of SchemeCalls does

Folds == {"fold_fix", "para", "zygo", "mutu", "histo", "hoist"}
Unfolds == {"unfold_fix", "refold", "dyna", "postpro", "coelgot", "unfold_cofree"}
ChunkUnfolds == {"futu", "codyna", "chrono"}
Stoppable == {"elgot", "mcata_free"}

(* One layer off a chunk: a Pure leaf resumes the caller's coalgebra. *)
unroll(job, chunk) ==
  IF is_pure(chunk) THEN psi(job, chunk.value) ELSE chunk.layer

(* The children a Mendler algebra folds: all of them, or the first. *)
picked(job, layer) ==
  IF names(job, "pick") /\ job.pick = "first" /\ layer.kids # <<>>
  THEN [layer EXCEPT !.kids = <<Head(@)>>]
  ELSE layer

(* A course-of-values one also unrolls its children and folds theirs. *)
withGrandchildren(layer) ==
  LET below == [i \in DOMAIN layer.kids |-> unwrap_fix(layer.kids[i]).kids] IN
  [layer EXCEPT !.kids = @ \o FlattenSeq(below)]

(* What a mhisto algebra recurses on. *)
asked(job, layer) ==
  IF names(job, "algebra") THEN asks(layer) ELSE withGrandchildren(layer)

-----------------------------------------------------------------------------
SchemeSeed(job) ==
  CASE "tree" \in DOMAIN job -> job.tree
    [] job.scheme = "apo" -> Right(job.seed)
    [] job.scheme \in ChunkUnfolds -> pure_free(job.seed)
    [] OTHER -> job.seed

(* Mutant: elgot would expand one more layer before it discards it. *)
elgotLate(job, s) ==
  IF psi(job, s).side = "Left" THEN Right(Layer([tag |-> "Nil", val |-> 0], <<>>)) ELSE psi(job, s)

(* elgot's coalgebra decides itself whether a seed is expanded. *)
elgotStep(job, s) == psi(job, s)

(* apo: a finished subtree is grafted, a seed is unfolded. *)
grafted(job, step) == IF step.side = "Left" THEN step ELSE Right(psi(job, step.right))

(* prepro: every child subtree is rewritten before it is folded. *)
prepared(e, tree) == layer_fmap(LAMBDA c : hoist(e, c), unwrap_fix(tree))

SchemeCoalgebra(job, s) ==
  CASE job.scheme \in Folds -> Right(unwrap_fix(s))
    [] job.scheme = "prepro" -> Right(prepared(job.nat, s))
    [] job.scheme = "mcata" -> Right(picked(job, unwrap_fix(s)))
    [] job.scheme = "mhisto" -> Right(asked(job, unwrap_fix(s)))
    [] job.scheme \in Unfolds -> Right(psi(job, s))
    [] job.scheme = "apo" -> grafted(job, s)
    [] job.scheme \in ChunkUnfolds -> Right(unroll(job, s))
    [] job.scheme = "elgot" -> elgotStep(job, s)
    [] job.scheme = "mcata_free" -> psi(job, s)

-----------------------------------------------------------------------------
(* What an algebra of a course-of-values scheme leaves behind. *)
annotated(job, layer) == Cofree(phi(job, layer), layer)

(* zygo's second fmap takes the helper's values out of the pairs. *)
combined(job, layer) == Pair(helper(job, layer_fmap(First, layer)), phi(job, layer))

(* mutu's two algebras see the same layer of pairs. *)
both(job, layer) == Pair(phi(job, layer), helper(job, layer))

(* para's closure pairs each child, as it was, with its result. *)
besides(tree, layer) ==
  [layer EXCEPT !.kids =
     [i \in DOMAIN @ |-> Pair(unwrap_fix(tree).kids[i], @[i])]]

(* mhisto: the results of the children, told from those of theirs. *)
lookedUp(job, tree, layer) ==
  LET n == Len(unwrap_fix(tree).kids) IN
  phiAt(job, SubSeq(layer.kids, n + 1, Len(layer.kids)),
        [layer EXCEPT !.kids = SubSeq(@, 1, n)])

(* postpro: every child's tree is rewritten before it is grafted. *)
finished(e, layer) == wrap_fix(layer_fmap(LAMBDA c : hoist(e, c), layer))

SchemeAlgebra(job, s, layer) ==
  CASE job.scheme \in {"fold_fix", "refold", "codyna", "prepro", "elgot", "mcata", "mcata_free"} ->
         phi(job, layer)
    [] job.scheme = "mhisto" ->
         IF names(job, "algebra") THEN phi(job, layer) ELSE lookedUp(job, s, layer)
    [] job.scheme = "coelgot" -> phiAt(job, s, layer)
    [] job.scheme = "para" -> phi(job, besides(s, layer))
    [] job.scheme = "zygo" -> combined(job, layer)
    [] job.scheme = "mutu" -> both(job, layer)
    [] job.scheme \in {"histo", "dyna", "chrono"} -> annotated(job, layer)
    [] job.scheme = "unfold_cofree" -> Cofree(headFn(s), layer)
    [] job.scheme \in {"unfold_fix", "apo", "futu"} -> wrap_fix(layer)
    [] job.scheme = "hoist" -> wrap_fix(natural(job.nat, layer))
    [] job.scheme = "postpro" -> finished(job.nat, layer)

(* The component of the carrier the caller receives. *)
SchemeFinish(job, v) ==
  CASE job.scheme = "zygo" -> Second(v)
    [] job.scheme \in {"histo", "dyna", "chrono"} -> extract(v)
    [] OTHER -> v

=============================================================================
