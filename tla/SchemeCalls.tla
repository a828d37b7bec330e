----------------------------- MODULE SchemeCalls ----------------------------
(***************************************************************************)
(* Calls of the schemes and of the typeclasses' operations: Recursion with *)
(* the coalgebras and algebras of Schemes, Generalized and Typeclasses,    *)
(* held against SchemeEquations and TypeclassEquations.  A configuration   *)
(* gives the constants of Recursion the values CallSeed, CallCoalgebra,    *)
(* CallAlgebra, CallFinish, CallAnswer and CallWalk, and those of Schemes  *)
(* the functions of Callers.                                               *)
(***************************************************************************)
EXTENDS Recursion, TypeclassEquations, SchemeTests, DistTests, TypeclassTests

(* Mutant: only the layer at hand would be rewritten. *)
hoistTop(e, tree) == wrap_fix(natural(e, unwrap_fix(tree)))

(* hoist, where a scheme calls it: the layers are rewritten bottom-up. *)
RECURSIVE hoist_tree(_, _)
hoist_tree(e, tree) ==
  wrap_fix(natural(e, layer_fmap(LAMBDA c : hoist_tree(e, c), unwrap_fix(tree))))

-----------------------------------------------------------------------------
IsOp(call) == call.scheme = "typeclass"

CallSeed(call) ==
  CASE IsOp(call) -> OpSeed(call)
    [] call.scheme = "dist" -> call.of
    [] call.scheme \in GSchemes -> GSeed(call)
    [] OTHER -> SchemeSeed(call)

CallCoalgebra(call, s) ==
  CASE IsOp(call) -> OpCoalgebra(call, s)
    [] call.scheme = "dist" -> Left(distributed(call))
    [] call.scheme \in GSchemes -> Right(GCoalgebraStep(call, s))
    [] OTHER -> SchemeCoalgebra(call, s)

CallAlgebra(call, s, layer) ==
  CASE IsOp(call) -> OpAlgebra(call, layer)
    [] call.scheme \in GSchemes -> GAlgebraStep(call, layer)
    [] OTHER -> SchemeAlgebra(call, s, layer)

CallFinish(call, v) ==
  CASE IsOp(call) -> v
    [] call.scheme \in GSchemes -> GFinish(call, v)
    [] names(call, "algebra") /\ call.algebra = "dot" -> to_dot(v)
    [] OTHER -> SchemeFinish(call, v)

CallAnswer(call) == IF IsOp(call) THEN OwedOp(call) ELSE Owed(call)
CallWalk(call) == IF IsOp(call) THEN OwedOpWalk(call) ELSE OwedWalk(call)

(***************************************************************************)
(* A call that a test or an example makes gets the answer it is promised,  *)
(* whatever scheme computes it (dyna fibonacci, the fewest coins, sorted   *)
(* insertion, decoding, the balance of a tree, ...).                       *)
(***************************************************************************)
AnswerAsPromised == answer # <<>> => KeepsPromise(job, answer[1])

(***************************************************************************)
(* ap mf mx = mf >>= \f -> mx >>= \a -> pure (f a) (monad.hpp:21), and     *)
(* invoke applies its function to one argument after another with it: over *)
(* Free, the function sees the leaves of the arguments as they are.        *)
(***************************************************************************)
InvokeIsCanonical ==
  answer # <<>> /\ IsOp(job) => (job.op = "invoke" => answer[1] = OwedInvoke(job))

=============================================================================
