------------------------------ MODULE MCSchemes -----------------------------
(***************************************************************************)
(* Every scheme on every input of a small shape.  The folds get the trees  *)
(* of Trees; the unfolds every table in which a seed's layer holds smaller *)
(* seeds only, so the structures are finite, as unfold_fix needs them.     *)
(***************************************************************************)
EXTENDS SchemeCalls

CONSTANTS MaxHeight, MaxKids

UpTo(n, S) == UNION {[1..i -> S] : i \in 0..n}

TreesOver(kids, labels, n) ==
  {wrap_fix(Layer(l, k)) : l \in labels, k \in UpTo(n, kids)}

TreesBelow[h \in 0..MaxHeight] ==
  IF h = 0 THEN {} ELSE TreesOver(TreesBelow[h - 1], {-1, 0}, MaxKids)

(* Chains reach depths bushes do not, and repeated rewriting shows there. *)
Chains == LET C[h \in 0..4] ==
                IF h = 0 THEN {} ELSE
                {wrap_fix(Layer(l, k)) : l \in -1..1, k \in UpTo(1, C[h - 1])}
          IN C[4]

Trees == TreesBelow[MaxHeight]

(* Tables of layers for the seeds 0, 1 and 2, where kids(s) may follow s. *)
Seeds == 0..2
LayersAt(s, kids, n) == {Layer(s, k) : k \in UpTo(n, kids)}
Tables(entry(_)) == {[s \in Seeds |-> IF s = 0 THEN a ELSE IF s = 1 THEN b ELSE c] :
                       a \in entry(0), b \in entry(1), c \in entry(2)}

Plain == Tables(LAMBDA s : LayersAt(s, 0..(s - 1), MaxKids))

Graft == wrap_fix(Layer(9, <<wrap_fix(Layer(8, <<>>))>>))
Grafting == Tables(LAMBDA s :
  LayersAt(s, {Right(t) : t \in 0..(s - 1)} \cup {Left(Graft)}, IF s = 0 THEN 1 ELSE MaxKids))

Chunk(s) ==
  IF s = 0 THEN {roll_free(Layer(7, <<>>))}
  ELSE {pure_free(s - 1),
        roll_free(Layer(7, <<pure_free(0), pure_free(s - 1)>>)),
        roll_free(Layer(7, <<roll_free(Layer(6, <<pure_free(s - 1)>>))>>))}
Chunked == Tables(LAMBDA s : LayersAt(s, Chunk(s), IF s = 0 THEN 1 ELSE MaxKids))

Stopping == Tables(LAMBDA s :
  {Right(l) : l \in LayersAt(s, 0..(s - 1), MaxKids)} \cup {Left([stopped |-> s])})

(* The coalgebra dist_gapo grows what is on the Left with: chains. *)
Coalg == [s \in Seeds |-> Layer(s + 4, IF s = 0 THEN <<>> ELSE <<s - 1>>)]
GrowingBoth == Tables(LAMBDA s :
  LayersAt(s, {Right(t) : t \in 0..(s - 1)} \cup {Left(2)}, IF s = 0 THEN 1 ELSE MaxKids))

NatsTried == {"decrement", "take_while", "reverse"}

(* Calls of schemes S on each table of T, and with each choice of C. *)
OfTables(S, T) == [scheme : S, coalgebra : {"table"}, arg : T, seed : {2}]
Choosing(C, calls) == UNION {With(c, calls) : c \in C}

-----------------------------------------------------------------------------
(* The operations of the typeclasses, on every small context; an instance  *)
(* made of a fold_right of its own derives the rest from it.               *)
Rows == {vector(v) : v \in UpTo(3, 0..2)} \cup {rose(1, v) : v \in UpTo(3, 0..2)}
FromBack == [primitive |-> "fold_right"]
BothWays(calls) == calls \cup With(FromBack, {c \in calls : c.op # "fold_right"})
Numbers == -1..3
Options == {none} \cup {some(x) : x \in Numbers}
Eithers == {make_left(x) : x \in Numbers} \cup {make_right(x) : x \in Numbers}

OpOn(ops, fns, containers) ==
  [scheme : {"typeclass"}, op : ops, fn : fns, on : containers]

FoldingJobs == BothWays(
  [scheme : {"typeclass"}, op : {"length", "to_vector", "empty"}, on : Rows]
    \cup OpOn({"any_of", "all_of", "find_first"}, {"odd", "even"}, Rows)
    \cup With([init |-> <<>>], OpOn({"fold_left", "fold_right"}, {"append"}, Rows))
    \cup With([monoid |-> "sum"], OpOn({"fold_map"}, {"square"}, Rows))
    \cup Choosing([monoid : {"concat", "dual_concat"}], OpOn({"fold_map"}, {"singleton"}, Rows)))

TraversalJobs ==
  With([context |-> "optional"], OpOn({"traverse"}, {"unless_two", "positive"}, Rows))
    \cup With([context |-> "either"], OpOn({"traverse"}, {"half_if_even"}, Rows))
    \cup With([context |-> "identity"], OpOn({"traverse"}, {"next_identity"}, Rows))

MonadJobs ==
  OpOn({"bind"}, {"halved", "positive"}, Options)
    \cup OpOn({"bind"}, {"half_if_even"}, Eithers)
    \cup With([before |-> "halved"], OpOn({"kleisli"}, {"halved", "some_next"}, 0..8))
    \cup OpOn({"map_left"}, {"times_ten"}, Eithers)
    \cup With([on_left |-> "minus_one"], OpOn({"match"}, {"times_two"}, Eithers))

(* Programs whose leaves are x and y; f of two and of three arguments. *)
Twigs == {pure_free("x"), roll_free(Layer(0, <<>>)),
          roll_free(Layer(1, <<pure_free("x"), pure_free("y")>>)),
          roll_free(Layer(2, <<pure_free("y"), roll_free(Layer(3, <<pure_free("x")>>))>>))}
InvokeJobs(context, fn, args) ==
  [scheme : {"typeclass"}, op : {"invoke"}, context : {context}, fn : {fn}, args : args]

(* A function that waits as a lone leaf is applied to one leaf at most. *)
AppliedOnce(args) == is_pure(args[1]) => is_pure(args[2]) \/ Len(args[2].layer.kids) < 2

InvocationJobs ==
  InvokeJobs("optional", "triple", [1..3 -> {none, some("x"), some("y")}])
    \cup InvokeJobs("either", "triple", [1..3 -> {make_left(1), make_left(2), make_right("x")}])
    \cup InvokeJobs("identity", "joined", [1..2 -> {identity("x"), identity("y")}])
    \cup InvokeJobs("free", "joined", [1..2 -> Twigs])
    \cup InvokeJobs("free", "triple", {args \in [1..3 -> Twigs] : AppliedOnce(args)})

(* Programs and annotated trees of numbers. *)
RECURSIVE Leaved(_, _), Annotations(_)
Leaved(leaves, h) ==
  IF h = 0 THEN leaves
  ELSE leaves \cup {roll_free(Layer(h, k)) : k \in UpTo(2, Leaved(leaves, h - 1))}
Annotations(h) ==
  {Cofree(a, Layer(Alternative("Rose", 0), k)) :
     a \in 0..1, k \in IF h = 0 THEN {<<>>} ELSE UpTo(2, Annotations(h - 1))}

DeepJobs ==
  OpOn({"free_fmap"}, {"plus_ten"}, Leaved({pure_free(1), pure_free(2)}, 2))
    \cup OpOn({"free_bind"}, {"two_more"}, Leaved({pure_free(1), pure_free(2)}, 2))
    \cup [scheme : {"typeclass"}, op : {"free_join"},
           on : Leaved({pure_free(pure_free(1)), pure_free(make_run(1, 1, 2))}, 2)]
    \cup OpOn({"cofree_fmap"}, {"plus_ten"}, Annotations(2))
    \cup OpOn({"cofree_extend"}, {"extract_doubled", "same"}, Annotations(1))

(* Programs with leaves of 1 and 2, and sender trees with every label. *)
SenderTrees ==
  LET Infos == {sender_node_info(<<"just">>, <<>>),
                sender_node_info(<<"a", "\\">>, <<"\"", "\n">>)}
      Labels == {Alternative("Rose", info) : info \in Infos}
      Grown(S) == TreesOver(S, Labels, MaxKids)
  IN Grown(Grown(Grown({})))

RenderingJobs ==
  [scheme : {"fold_fix"}, algebra : {"dot", "count_nodes"}, tree : SenderTrees]
    \cup [scheme : {"mcata_free"}, coalgebra : {"program"}, leaf : {"same", "bracketed"},
          seed : Leaved({pure_free(1), pure_free(2)}, 2)]

(* Layers of histories and of pairs. *)
LayersOver(S) == {Layer(Alternative("Rose", 5), k) : k \in UpTo(2, S)}
NaturalityCalls ==
  Naturality("cata", LayersOver({Identity(x) : x \in 0..1}))
    \cup Naturality("zygo", LayersOver({Pair(b, x) : b, x \in 0..1}))
    \cup Naturality("histo", LayersOver(Annotations(1)))

MCJobs ==
  DistTestCalls \cup NaturalityCalls \cup RenderingJobs \cup
  TypeclassTestCalls \cup FoldingJobs \cup TraversalJobs \cup MonadJobs \cup InvocationJobs
    \cup DeepJobs \cup TestCalls \cup ExampleCalls \cup
  [scheme : {"fold_fix", "para", "zygo", "mutu", "histo", "mhisto"}, tree : Trees]
    \cup [scheme : {"mcata"}, tree : Trees, pick : {"all", "first"}]
    \cup [scheme : {"hoist", "prepro"}, tree : Trees \cup Chains, nat : NatsTried]
    \cup OfTables(Unfolds \ {"postpro"}, Plain)
    \cup Choosing([nat : NatsTried], OfTables({"postpro"}, Plain))
    \cup OfTables({"apo"}, Grafting)
    \cup OfTables(ChunkUnfolds, Chunked)
    \cup OfTables({"elgot"}, Stopping)
    \cup [scheme : {"gcata"}, tree : Trees, law : {"cata", "zygo", "para", "histo"}]
    \cup [scheme : {"gprepro"}, tree : TreesBelow[2] \cup Chains, nat : NatsTried,
          law : {"cata", "histo"}]
    \cup [scheme : {"gprepro"}, tree : TreesBelow[2] \cup Chains, nat : NatsTried,
          law : {"zygo_histo"}, main : {"newest", "helper", "history", "all"}]
    \cup By("ana", OfTables({"gana"}, Plain))
    \cup By("apo", OfTables({"gana"}, Grafting))
    \cup By("gapo", With([coalg |-> Coalg], OfTables({"gana"}, GrowingBoth)))
    \cup By("futu", OfTables({"gana"}, Chunked))
    \cup By("ana", Choosing([nat : NatsTried], OfTables({"gpostpro"}, Plain)))
    \cup By("ana", Choosing([fold : {"cata", "histo"}], OfTables({"ghylo"}, Plain)))
    \cup By("futu", Choosing([fold : {"cata", "histo"}], OfTables({"ghylo"}, Chunked)))

=============================================================================
