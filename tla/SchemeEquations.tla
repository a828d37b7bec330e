--------------------------- MODULE SchemeEquations --------------------------
(***************************************************************************)
(* What each scheme promises, said without the recursion the code uses.    *)
(* A refold is the fold of the tree its unfold builds, although the code   *)
(* never builds it.  para, zygo and mutu, which the code computes with     *)
(* pairs, are mutual recursions here.  prepro and postpro, which rewrite   *)
(* every remaining subtree at every level, see a node at depth k through   *)
(* k rewritings.  elgot folds what is left when the stopped seeds are      *)
(* leaves.  The lookahead of mhisto is that of histo.  A generalized       *)
(* scheme gives what the scheme its law stands for gives.                  *)
(***************************************************************************)
EXTENDS Generalized

RECURSIVE Cata(_, _), Helped(_, _), Zygo(_, _), Histories(_, _), Mapped(_, _), AtDepth(_, _, _)
Cata(job, t) == phi(job, layer_fmap(LAMBDA c : Cata(job, c), unwrap_fix(t)))

Helped(job, t) == helper(job, layer_fmap(LAMBDA c : Helped(job, c), unwrap_fix(t)))
Zygo(job, t) ==
  phi(job, layer_fmap(LAMBDA c : Pair(Helped(job, c), Zygo(job, c)), unwrap_fix(t)))

(* The two folds of mutu, each calling the other on every child. *)
RECURSIVE MutuFirst(_, _), MutuSecond(_, _)
MutuBelow(job, c) == Pair(MutuFirst(job, c), MutuSecond(job, c))
MutuFirst(job, t) == phi(job, layer_fmap(LAMBDA c : MutuBelow(job, c), unwrap_fix(t)))
MutuSecond(job, t) == helper(job, layer_fmap(LAMBDA c : MutuBelow(job, c), unwrap_fix(t)))

(* para by tupling, which is how the code does zygo. *)
RECURSIVE Copied(_, _)
Copied(job, t) ==
  LET below == layer_fmap(LAMBDA c : Copied(job, c), unwrap_fix(t)) IN
  Pair(wrap_fix(layer_fmap(First, below)), phi(job, below))
Para(job, t) == Second(Copied(job, t))

(* Every node of the tree with its own result: what histo may look back at. *)
Histories(job, t) ==
  LET below == layer_fmap(LAMBDA c : Histories(job, c), unwrap_fix(t)) IN
  Cofree(phi(job, below), below)
Histo(job, t) == extract(Histories(job, t))

(* Every layer rewritten once, from the root down. *)
Mapped(e, t) ==
  wrap_fix(layer_fmap(LAMBDA c : Mapped(e, c), natural(e, unwrap_fix(t))))

RECURSIVE Repeated(_, _, _)
Repeated(e, k, layer) == IF k = 0 THEN layer ELSE Repeated(e, k - 1, natural(e, layer))

(* A node at depth k is rewritten k times. *)
AtDepth(e, k, t) ==
  wrap_fix(layer_fmap(LAMBDA c : AtDepth(e, k + 1, c), Repeated(e, k, unwrap_fix(t))))

(* Mendler folds: the tree the algebra chose to see. *)
RECURSIVE Chosen(_, _)
Chosen(job, t) ==
  wrap_fix(layer_fmap(LAMBDA c : Chosen(job, c), picked(job, unwrap_fix(t))))

(* Two generations back through the histories, which mhisto never builds;  *)
(* fib's algebra is histo's when it has those.                             *)
RECURSIVE LookingBack(_, _)
LookingBack(job, t) ==
  LET below == layer_fmap(LAMBDA c : LookingBack(job, c), unwrap_fix(t))
      older == [i \in DOMAIN below.kids |->
                  [j \in DOMAIN unwrap_cofree(below.kids[i]).kids |->
                     extract(unwrap_cofree(below.kids[i]).kids[j])]]
  IN Cofree(IF names(job, "algebra") THEN fib_algebra(below)
            ELSE phiAt(job, FlattenSeq(older), layer_fmap(extract, below)), below)

-----------------------------------------------------------------------------
RECURSIVE Ana(_, _), Apo(_, _), Futu(_, _), Planted(_, _), AnaWith(_, _)
Ana(job, s) == wrap_fix(layer_fmap(LAMBDA c : Ana(job, c), psi(job, s)))

Apo(job, e) ==
  IF e.side = "Left" THEN e.left
  ELSE wrap_fix(layer_fmap(LAMBDA c : Apo(job, c), psi(job, e.right)))

(* A chunk is planted whole, and each of its leaves grows a tree. *)
Futu(job, s) == wrap_fix(layer_fmap(LAMBDA c : Planted(job, c), psi(job, s)))
Planted(job, chunk) ==
  IF is_pure(chunk) THEN Futu(job, chunk.value)
  ELSE wrap_fix(layer_fmap(LAMBDA c : Planted(job, c), chunk.layer))

AnaWith(job, s) ==
  Cofree(headFn(s), layer_fmap(LAMBDA c : AnaWith(job, c), psi(job, s)))

RECURSIVE Elgot(_, _), Coelgot(_, _)
Elgot(job, s) ==
  IF psi(job, s).side = "Left" THEN psi(job, s).left
  ELSE phi(job, layer_fmap(LAMBDA c : Elgot(job, c), psi(job, s).right))

Coelgot(job, s) == phiAt(job, s, layer_fmap(LAMBDA c : Coelgot(job, c), psi(job, s)))

(* A generalized fold is the fold its law recovers.  zygo_histo is zygo,   *)
(* histo or fold_fix, as its algebra looks at the helper's value, at the   *)
(* history, or at neither.  To one that looks at both, a child shows its   *)
(* own helper's value and its history; but what it shows further back is   *)
(* computed anew, with the child's value standing for those of its         *)
(* descendants.                                                            *)
RECURSIVE Aged(_, _, _), ZygoHisto(_, _)
Aged(job, env, history) ==
  Cofree(phi(job, layer_fmap(LAMBDA k : Pair(env, k), unwrap_cofree(history))),
         layer_fmap(LAMBDA k : Aged(job, env, k), unwrap_cofree(history)))
ZygoHisto(job, t) ==
  LET below == layer_fmap(LAMBDA c : Pair(Helped(job, c), ZygoHisto(job, c)), unwrap_fix(t)) IN
  Cofree(phi(job, below), layer_fmap(LAMBDA p : Aged(job, First(p), Second(p)), below))

OwedFold(law, job, t) ==
  CASE law = "cata" -> Cata(job, t)
    [] law = "zygo" -> Zygo(job, t)
    [] law = "para" -> Para(job, t)
    [] law = "histo" -> Histo(job, t)
    [] law = "zygo_histo" -> CASE job.main = "newest" -> Cata(job, t)
                               [] job.main = "helper" -> Zygo(job, t)
                               [] job.main = "history" -> Histo(job, t)
                               [] job.main = "all" -> extract(ZygoHisto(job, t))

(* Apo, with what is grafted grown from seeds of its own. *)
RECURSIVE Gapo(_, _)
Gapo(job, e) ==
  IF e.side = "Left" THEN Ana([coalgebra |-> "table", arg |-> job.coalg], e.left)
  ELSE wrap_fix(layer_fmap(LAMBDA c : Gapo(job, c), psi(job, e.right)))

OwedUnfold(job) ==
  CASE job.law = "ana" -> Ana(job, job.seed)
    [] job.law = "apo" -> Apo(job, Right(job.seed))
    [] job.law = "gapo" -> Gapo(job, Right(job.seed))
    [] job.law = "futu" -> Futu(job, job.seed)

(* The structure a generalized scheme stands for. *)
GStructure(job) ==
  CASE job.scheme = "gcata" -> job.tree
    [] job.scheme = "gprepro" -> AtDepth(job.nat, 0, job.tree)
    [] OTHER -> OwedUnfold(job)

OwedG(job) ==
  CASE job.scheme = "gana" -> GStructure(job)
    [] job.scheme = "gpostpro" -> AtDepth(job.nat, 0, GStructure(job))
    [] OTHER -> OwedFold(foldLaw(job), job, GStructure(job))

(* In and out of a layer, and what is answered at once. *)
Around(label, inside) ==
  <<[way |-> "in", label |-> label]>> \o inside \o <<[way |-> "out", label |-> label]>>
Answered(v) == [way |-> "stop", value |-> v]

(* In and out of every node of a tree, children front to back. *)
RECURSIVE Tour(_)
Tour(t) ==
  LET layer == unwrap_fix(t) IN
  Around(layer.label, FlattenSeq([i \in DOMAIN layer.kids |-> Tour(layer.kids[i])]))

(* A digraph, read off the tour of the tree: every event but the last out  *)
(* writes a line, a node's on the way in, the edge above it on the way     *)
(* out.  A node's id is the number of those entered before it, and before  *)
(* an event as many nodes are open as were entered and not left.           *)
Drawn(tour) ==
  LET entered(i) == Cardinality({k \in 1..(i - 1) : tour[k].way = "in"})
      open(i) == 2 * entered(i) - (i - 1)
      latest(i, depth) ==
        entered(Max({k \in 1..(i - 1) : tour[k].way = "in" /\ open(k) = depth}))
      line(i) == IF tour[i].way = "in" THEN node_line(entered(i), tour[i].label.val)
                 ELSE edge_line(latest(i, open(i) - 2), latest(i, open(i) - 1))
  IN [i \in 1..(Len(tour) - 1) |-> line(i)]

(* The answer each call owes. *)
Owed(job) ==
  CASE job.scheme \in GSchemes -> OwedG(job)
    [] job.scheme = "dist" -> job.expect
    [] job.scheme = "fold_fix" ->
         IF names(job, "algebra") /\ job.algebra = "dot" THEN Drawn(Tour(job.tree))
         ELSE Cata(job, job.tree)
    [] job.scheme = "para" -> Para(job, job.tree)
    [] job.scheme = "zygo" -> Zygo(job, job.tree)
    [] job.scheme = "mutu" -> Pair(MutuFirst(job, job.tree), MutuSecond(job, job.tree))
    [] job.scheme = "histo" -> Histo(job, job.tree)
    [] job.scheme = "mcata" -> Cata(job, Chosen(job, job.tree))
    [] job.scheme = "mhisto" -> extract(LookingBack(job, job.tree))
    [] job.scheme = "hoist" -> Mapped(job.nat, job.tree)
    [] job.scheme = "prepro" -> Cata(job, AtDepth(job.nat, 0, job.tree))
    [] job.scheme = "unfold_fix" -> Ana(job, job.seed)
    [] job.scheme = "refold" -> Cata(job, Ana(job, job.seed))
    [] job.scheme = "dyna" -> Histo(job, Ana(job, job.seed))
    [] job.scheme = "postpro" -> AtDepth(job.nat, 0, Ana(job, job.seed))
    [] job.scheme = "coelgot" -> Coelgot(job, job.seed)
    [] job.scheme = "unfold_cofree" -> AnaWith(job, job.seed)
    [] job.scheme = "apo" -> Apo(job, Right(job.seed))
    [] job.scheme = "futu" -> Futu(job, job.seed)
    [] job.scheme = "codyna" -> Cata(job, Futu(job, job.seed))
    [] job.scheme = "chrono" -> Histo(job, Futu(job, job.seed))
    [] job.scheme \in Stoppable -> Elgot(job, job.seed)

-----------------------------------------------------------------------------
(* The layers the caller's coalgebra builds; a finished seed answers.      *)
(* What an elgot coalgebra says of a seed, apo's said of the child.        *)
GoesOn(job, c) ==
  IF job.scheme \in Stoppable THEN psi(job, c).side = "Right" ELSE c.side = "Right"
LayerAt(job, s) == IF job.scheme \in Stoppable THEN psi(job, s).right ELSE psi(job, s.right)

StoppedAt(job, c) == IF job.scheme \in Stoppable THEN psi(job, c).left ELSE c.left

RECURSIVE Visited(_, _), Peeled(_, _)
Visited(job, s) ==
  IF ~GoesOn(job, s) THEN <<Answered(StoppedAt(job, s))>>
  ELSE LET layer == LayerAt(job, s) IN
       Around(layer.label, FlattenSeq([i \in DOMAIN layer.kids |-> Visited(job, layer.kids[i])]))

Peeled(job, t) ==
  wrap_fix(layer_fmap(LAMBDA c : Peeled(job, c), asked(job, unwrap_fix(t))))

(* The walk each call owes: once over the structure it stands for. *)
OwedWalk(job) ==
  CASE job.scheme \in GSchemes -> Tour(GStructure(job))
    [] job.scheme = "prepro" -> Tour(AtDepth(job.nat, 0, job.tree))
    [] job.scheme = "mcata" -> Tour(Chosen(job, job.tree))
    [] job.scheme = "mhisto" -> Tour(Peeled(job, job.tree))
    [] job.scheme \in Unfolds -> Tour(Ana(job, job.seed))
    [] job.scheme \in ChunkUnfolds -> Tour(Futu(job, job.seed))
    [] job.scheme = "apo" -> Visited(job, Right(job.seed))
    [] job.scheme \in Stoppable -> Visited(job, job.seed)
    [] job.scheme = "dist" -> <<Answered(job.expect)>>
    [] OTHER -> Tour(job.tree)

=============================================================================
