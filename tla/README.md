# Specifications of fixpoint

TLA+ models of `smd::fixpoint`, a C++26 header library of recursion schemes,
free monads and the Freer effect layer built on them. The models are kept
beside the code so that a change to an interpreter, to the one-shot
continuation or to an ownership rule can be checked against what it must not
break. Source paths below are relative to the repository.

## The system

The library has no threads and no I/O. What is hard in it is control: who owns a
continuation, when it runs, what is still alive when it does, and whether four
interpreters written in four styles (a loop, a recursion over a row, a chain of
coroutines, a pairing with a mock) do the same thing to the same program.

| component | state | operations | talks to |
|---|---|---|---|
| `one_shot.hpp` | an owning pointer `target_` | construct, move, assign, call (consumes), destroy | captured by every continuation |
| `free.hpp`, `freer.hpp` | a program: `Pure` value or `Roll` of one operation and its continuation | `send`, Coyoneda `fmap` (post-compose), consuming `bind` | owns `one_shot` and `Box` |
| `freer_run.hpp` | the loop's `current`, the handler by reference, the trace | `run`, `run_trace`, `tracing` | calls the handler, then the continuation |
| `freer_row.hpp` | the program over a row, one handler per signature | `send<Row>`, `discharge<Sig>` | re-emits into a smaller row, stores handler and continuation in closures |
| `freer_task.hpp`, `mcata_free.hpp` | a chain of coroutine frames, the handler copied into each | `run_task`, `run_task_step`, `resume_one` | awaits senders of `beman::execution` (external) |
| `freer_cosignature.hpp`, `unfold_cofree.hpp`, `cofree.hpp` | the mock's current node, the program, the trace | `pair_run`, `pair_run_trace`, `unfold_cofree`, lazy `fmap` of responders | program and mock ask each other |
| `box.hpp` | an owning pointer to a value that may hold more boxes | deep copy, move, two assignments, destroy | the recursive position of every tree |
| `examples/freer_retry_*` | attempt number, script state, one of two clocks | `retry_program`, scripted handlers, `retry_coalgebra` | interpreted by `pair_run` and `run_task` |
| `recursion_schemes.hpp`, `para`, `apo`, `zygo`, `mutu`, `histo`, `futu`, `chrono`, `elgot`, `mendler`, `prepro`, `generalized`, `dist_laws` | none: pure | one fold or unfold each | `fmap.hpp`, `box.hpp`, `cofree.hpp`, `free.hpp` |
| `typeclass/` | none: pure; an applicative `ap` holds partial applications | Functor, Applicative, Monad, Foldable, Traversable, Monoid and Comonad dictionaries with their derived operations | the schemes find their instances here |
| `concrete/` | none: pure; `to_dot` numbers nodes as it goes | the base functors, `reify_sender`, `to_dot` | trees the schemes fold |
| `overloaded.hpp`, `type_name.hpp` | none | `short_type_name` | used by the above |

What makes each correct, and what is hard about it:

- **one_shot**: every live target has exactly one owner, none is reached after
  it is deleted, none is called twice, none leaks; under reentrancy (the closure
  being called may use the very object it is stored in), nesting (closures own
  continuations) and exceptions at any point of a call.
- **programs**: binding runs nothing and keeps the order of functions.
- **the interpreters**: each behaves as the program written in direct style
  against one handler: operations in program order, each answered once, the
  answer given to the request that made it, nothing run after a failure, and an
  interpreter that can go on does.
- **run**: one handler object, and a bounded stack (for tail-nested binds only:
  see *What the checks found*).
- **discharge**: discharged operations never reappear, handlers are owned by what
  will use them, and their state survives being moved into stored closures.
- **run_task**: a frame owns what it needs across suspension, an error or
  `stopped` tears down the whole chain, one frame per effect, handler state
  shared by all copies.
- **pairing**: the mock advances by one node per answer, the trace is the one
  `run_trace` gives.
- **schemes**: each returns what its equation says, asks its coalgebra once per
  seed and never below one that stopped, and a fused scheme makes one pass.
  Wrong pairings, a rewriting done once instead of at every level, and one layer
  too many all give the right answer on most inputs.
- **typeclasses**: a derived operation makes the calls its primitive would, each
  once, in the order of the elements, and stops where an effect stops it; what is
  moved out of a context is not read again. The derivations go through
  accumulators, dual monoids and curried functions, where an order is easily swapped.
- **to_dot**: every node has its own id, and an edge joins the ids of a node and of
  its child, although the id is handed from sibling to sibling by closures.
- **retry**: at most three attempts, a backoff between each two, growing by one; and
  both interpreters give the same value, trace and script.

## The modules

`DirectStyle` is the abstract specification. It knows no layers, closures, boxes
or frames: a program at a value or a request (`focus`), the functions waiting
for that value (`rest`), the handler's state, and a log of requests with their
answers. Each interpreter's module carries a refinement mapping and checks
`Direct!FairSpec`.

| module | models | state and actions |
|---|---|---|
| `OneShot` | `one_shot.hpp` | `slot` is `target_` of each object, `captured` that of the one_shot inside each closure, `heap` the life of each cell, `stack` the calls and deletes under way. One action per special member function, per way into and out of a call, and per step of unwinding and of nested deletion. |
| `FreerProgram` | `free.hpp`, `freer.hpp` | programs as data; a bound function is a row of the table `code`, so a set of tables is a set of C++ programs |
| `FreerHandler` | the callable set given to an interpreter | external: `Handler[state][op]`, nondeterministic; one that fails may leave its state as it was or as an answer would (`MayLeave`) |
| `Resumption` | calling a stored continuation | `depth` closures on the stack on the way in, functions bound on the way out: a finished program enters the function, a suspended one has it added |
| `FreerRun` | `run` with `tracing_handler` | the loop: handle, resume, rebind, return, with a throwing handler or function |
| `FreerRow` | `discharge` stacked over `run` | `level` is the layer that looks at the program, `held` who owns each discharge's handler, `nest` its activations |
| `FreerTask` | `run_task` over `mcata_free` | `steps` and `leaf` are the live frames, `phase` what the innermost does, `sender` what the handler gave for the operation in hand. The handler is called in one step (`AwaitSender`, `HandlerThrows`), its sender completes in a later one (`SetValue`, `SetErrorOrStopped`) |
| `FreerPairing` | `pair_run_trace` over `unfold_cofree` | `mock` is the current node, `asked` the question under way |
| `Retry` | the example's program, scripted network and both clocks | `FreerTask` at the one table `retry_program` builds |
| `RetryBoth` | `freer_retry.cpp` and its test: the program paired with `retry_coalgebra`'s mock, then given to `run_task` | composes `FreerPairing` (by `INSTANCE`) and `Retry`; each has its own half of the variables |
| `Box` | `box.hpp` | `ptr` is the pointer of every Box, a variable or a member of a heap cell, `heap` the life of each cell, `assigning` the assignment that has deleted its target and not yet read its argument, `value` (history) the tree each variable was given |
| `*Proofs` | | the theorems about the module they are named for; `FreerTaskProofs` also those about the retry example, `Retry` and `RetryBoth`; `ResumptionProofs` holds lemmas they share |
| `Recursion` | `recursion_schemes.hpp` | the C++ stack of a scheme: `stack` holds each activation's seed, layer and the results so far; the scheme's coalgebra, algebra and last projection are constants, and so are the answer and the walk it owes. `Expand` asks the coalgebra, `Stop` is an answer without a layer, `Collapse` calls the algebra; `walk` records all three |
| `Layers` | `fmap.hpp`, `fix.hpp`, `cofree.hpp`, `free.hpp`, `either.hpp` | one layer of a functor, and the types built from layers |
| `Schemes` | the twenty-one schemes of `recursion_schemes`, `para`, `apo`, `zygo`, `mutu`, `histo`, `futu`, `chrono`, `prepro`, `elgot`, `mendler`, `unfold_cofree`, `mcata_free` | each scheme's coalgebra, algebra and projection; the callers' functions and `hoist` are constants, and there is no recursive operator, so that `RecursionProofs` can extend it |
| `Generalized` | `generalized`, `dist_laws`, and the comonads and monads of `cofree`, `free`, `identity`, `pair`, `either` | `gcata`, `gprepro`, `gana`, `gpostpro` and `ghylo` at each distributive law, by the same three parts |
| `SchemeEquations` | the equations in those headers | each scheme's answer and walk without its recursion: a fused refold as a fold after an unfold, a tupled fold as mutual recursion, a generalized scheme as the one its law recovers |
| `ConcreteFunctors` | `concrete/functors.hpp` | NatF, ListF, TreeF, ExprF, RoseF as layers: the variant's alternative with its value is the label, the boxes are the children |
| `SenderDot` | `concrete/sender_dot.hpp`, `short_type_name` | `reify_sender`; `run_program`, the closure `to_dot` folds a tree into, a function of the next free id |
| `Callers` | the functions that the examples and the tests pass to the schemes | algebras, coalgebras and natural transformations by name, the values of `Schemes`' constants |
| `SchemeTests`, `DistTests`, `TypeclassTests` | the schemes', the laws' and the typeclasses' test files, and the examples | calls, each with the answer promised for it, over every small input where a test tries one |
| `Typeclasses` | `typeclass/`, and the instances of `Free`, `Cofree` and the base functors | an operation is a tree with a call of the caller's function at each leaf and what is made of their values above; `Recursion` performs it |
| `TypeclassEquations` | the laws in those headers | each operation said of the sequence of elements, the first failing effect, the leaves |
| `SchemeCalls` | `hoist` of `prepro.hpp`, where a scheme calls it | `Recursion` at `Schemes`, `Generalized` and `Typeclasses`, held against the equations and the tests; a configuration gives `SeedOf`, `Coalgebra`, `Algebra`, `Finish`, `OwedAnswer` and `OwedSteps` its `CallSeed`, `CallCoalgebra`, `CallAlgebra`, `CallFinish`, `CallAnswer` and `CallWalk` |
| `MC*` | | the definitions the `.cfg` files give to the constants |

The history variables `log` and `calls`, and `before` of a `sender`, are read by no
guard except the bound `MaxEffects`.

### Abstractions

- A value, a response, an operation and a bound function are model values. A
  function of the program is total on the values and may throw
  (`ThrowingFns`). Rendering an operation is the operation itself: the
  properties compare which operations were rendered and in which order.
- A handler that fails leaves its state as it was, or as one of the answers it has
  would leave it; states half way through an answer are not modelled.
- In `FreerTask` the handler's effect is taken when the handler is called, before
  its sender runs (as `freer_retry_handlers.hpp:39` and `:71` do), and stays when the
  sender then fails. For the operations in `Deferred` it is taken when the sender
  completes, with a value or otherwise (as in `freer_task.t.cpp:252-257`).
- Senders, scheduling and `beman::task` are outside the
  repository and modelled from the way `freer_task.hpp` uses them: lazily
  started, completing at any later time in one of three ways. An error or stopped
  may reach the receiver before the frames it leaves are destroyed or after it; a
  value is handed on frame by frame. Frames are counted, not addressed: that one
  outlives what it lends is left to `beman::task`.
- The type-level computations of rows (`row_without`, `member`) are the function
  `LayerOf`, and the static assertion that a row's operations are distinct is
  the reason it is a function.
- A scheme's caller gives functions that return; the algebras build terms of all
  they were given, so two schemes agree on them only if they agree on every
  algebra. The trees tried exhaustively are `RoseF`'s, since the other functors fix the
  number of children; the tests' and examples' calls use all of them.
  A throwing callable only unwinds the C++ stack, whose objects own their values.
- The callers' functions are named, so that a call can be data: `Callers` and
  `Typeclasses` say what each name computes. A text whose words nothing looks at is a
  number; one that is taken apart or escaped (type names, labels of the digraph) is the
  sequence of its tokens.
- The int of the functors is an integer: no property is about its bounds, and a
  caller's arithmetic is the caller's.
- A partially applied function that was called as an rvalue has its arguments moved
  out (`apply.hpp:45-51`); they are strings here, and empty from then on.
- The workers of `gcata` and `gana` wrap each child's result, or each next seed, in the
  lambda `layer_fmap` runs; here that is done for the whole layer when it is complete, or
  first needed. The functions are pure, so only the order of their calls differs. The tree
  `ghylo` builds is taken as its first seed, since `gana` is run step by step by itself.
- A hoist that a scheme calls on a subtree (`prepro.hpp:90`, `:118`) is one step of
  `Recursion`; hoist by itself is run step by step as the fold it is.
- `MaxEffects` bounds the log: a handler refuses every operation after that many,
  which is a failure the code can have at any operation anyway.

## The runs

| run | instance | what it asks |
|---|---|---|
| `one_shot` | 3 objects, 5 cells, symmetric | `NoDangling`, `SingleOwner`, `NoLeak`, `CalledAtMostOnce` over every sequence of operations |
| `freer_run` | 2 operations, 2 values, every one of the 1296 tables of two functions over six bodies, 3 starting programs | `DirectStyleFair` (refinement, with liveness), `DepthMatchesFrames` |
| `deep_bind` | one non-tail loop, 5 effects | expects `FlatCallStack` to fail |
| `freer_row` | 3 signatures, 2 discharged, 625 tables | `DirectStyleFair` against one joint handler, `DischargedStaysDischarged`, `HandlerOwnedWhereUsed` |
| `freer_task` | as `freer_run`; one operation's sender changes the state, the other's handler; 463,480 states | `DirectStyleFair`, `FramePerEffect` |
| `freer_pairing` | as `freer_run`, with heads and a seed that cannot be unfolded | `DirectStyleFair`, `TraceIsWhatWasAsked` |
| `retry` | the example's three attempts, networks failing 0 to 3 sends, the virtual and the live-shaped clock at two times, any handler throwing, any sender completing with an error or stopped; 21,276 states | `BacksOffBetweenAttempts`, `ResultIsOfTheLastSend`, `NoFurtherAttempt`, `ClockAdvancesByBackoffs` of `run_task`; `InterpretersAgree` between it and `pair_run` |
| `box` | 2 variables, 5 cells, 2 members | `NoDangling`, `SingleOwner`, `NoLeak`, `ValueSemantics`, with assignments that do not overlap and copies that throw only into an empty target |
| `box_throw`, `box_alias` | 2 variables, 3 cells | expect `NoDangling` to fail: a copy assignment that throws, and one from inside its own target |
| `schemes` | every rose tree of height 3 with two children and two labels, chains of height 4; every table of layers over three seeds whose children are smaller seeds, subtrees, chunks or stops; every container of up to three elements, triple of small programs and program of depth 2; the tests' and examples' calls; every sender tree of height 3 with a plain and an escaped label; 226,411 states | `AnswerMeetsEquation`, `WalksOnce`, `Returns` for the twenty-one schemes, for the five generalized ones at `cata`, `zygo`, `para`, `histo`, `zygo_histo`, `ana`, `apo`, `gapo` and `futu`, for naturality of the laws, for the typeclasses' operations and for `to_dot`; `AnswerAsPromised` for the tests and examples |
| `invoke` | `invoke` over `Free` with a function of three arguments, every triple of three programs | expects `InvokeIsCanonical` to fail |

**Why the bounds are enough.** Five cells and three objects allow a chain of
captured continuations, a call inside a call, and an assignment to an object
whose target is running. Two functions, two values and bodies that end, ask
once, ask and bind, or bind twice reach every combination of pure or suspended
continuation with an empty, single or nested tail of functions, recursion
included, and every order of two operations that share state. Three layers give
a discharge inside a discharge. The retry run goes past the last failure that
changes its behaviour. Trees of height 3 with two children per node have nodes at
depths 0, 1 and 2 with siblings on either side, so a rewriting once per node, once
per level and once per ancestor all differ, and a result given to the wrong child
shows; the chains add one more level. Coalgebra tables are well founded because
the code has no other guard against an unfold that never ends. Three elements
tell front-to-back from back-to-front and from a swap of neighbours, and let an effect
fail first, in the middle, last or not at all. Two leaves on either side are enough for
a function object to be used again; `AppliedOnce` in `MCSchemes` leaves those calls to
run `invoke`, which shows what goes wrong with them. What holds for other sizes is what the theorems are for.

**Fairness.** Every interpreter's `FairSpec` is `WF_vars(Next)`: the code is
sequential, so it takes its next step as long as it has one. It assumes that a
handler and a bound function return or throw, and that a sender completes; a
program that never ends is cut by `MaxEffects`. `CHECK_DEADLOCK FALSE` is
there because an interpretation ends.

Every property has a mutant: an operator that changes one mapped definition as a
plausible bug in the code would (for example the `task_phi` copy that keeps the
handler's state by value, the `discharge` that stays at its own layer, the fmap
that unfolds eagerly), and under which the property fails in its own run.

## What is proved

TLAPS proves these for every value of the constants (any signature, table of
functions, handler, number of objects), with no assumption but those the modules
declare, with these exceptions. The theorems about the recursion of the schemes assume
`Typed`, what the C++ types of a scheme's arguments say, and two of them `Founded`, that
layers get smaller: an unfold that does not end has no answer to speak of. Those about
each scheme's equation assume what is listed under *The schemes* below. A theorem about the retry example is about one program,
so it assumes `InTheExample`: that the signature, the table of functions and the handler
are the definitions of `Retry`, as in the run. How many attempts there are, how
many sends fail, what time it is, which senders fail and when, and how long the
reply is stay open. The theorems about `Box` assume `Careful`: that no assignment is from
inside its target or from around it, and that a copy which throws was to be assigned
to an empty Box. The runs `box_alias` and `box_throw` show ownership to fail when either
half is dropped. How many variables, cells and fields there are, and the size and
shape of the trees, stay open.

| theorem | states | argument |
|---|---|---|
| `OneShotProofs!TypeCorrect`, `NothingDangles`, `OwnersAreSingle`, `OneShotIsOneShot` | `[]TypeOK`, `[]NoDangling`, `[]SingleOwner`, `[]CalledAtMostOnce` | `IInv` adds to these that a target on the stack is there once (`StackDistinct`), that what is owned is live (`Owned`), that a target that was called is on the stack or deleted (`CalledIsGone`), and that an unborn cell is owned by nobody and uncalled. Without the last two a new target could be one that had been called, and a call could find its target on the stack. |
| `FreerRunProofs!TypeCorrect`, `DepthIsFunctionsLeft` | `[]TypeOK`, `[]DepthMatchesFrames` | the conjunction of the two is inductive |
| `FreerRunProofs!RunImplementsDirectStyle` | `Spec => Direct!Spec` | each action is mapped to the abstract action it performs or to a stutter: `Inwards`, `Innermost`, `BindToSuspended` and `Rebind` leave `focus` and `rest` alone, because binding a function to a suspended program moves it from the call's functions to the program's without changing their order (`BindLaterStandsStill`) |
| `FreerTaskProofs!TypeCorrect`, `OneFramePerEffect` | `[]TypeOK`, `[]FramePerEffect` | `IInv` adds `Holding`: what each phase says of `leaf`, `call`, `current` and `sender`. A phase alone does not tell how many frames there are; which frame is innermost does. |
| `FreerTaskProofs!TaskImplementsDirectStyle` | `Spec => Direct!Spec` | as for `run`, with the frames a step starts, awaits or ends mapped to stutters. While a sender is awaited the abstract handler is in the state it was called in (`hsMap`), and the completion takes both steps at once |
| `OneShotProofs!NothingLeaks` | `[]NoLeak` | `Chained`: the cells can be ranked so that each is below the one captured in it. A closure captures a target that exists before it, so a new one takes a rank below all the others. With nothing running and every object empty, a live target could only be captured, in a live target of lower rank; the live target of the lowest rank (`LeastNatural`) is captured nowhere. |
| `FreerRowProofs!TypeCorrect`, `DischargeIsFinal`, `CaptureOwnership` | `[]TypeOK`, `[]DischargedStaysDischarged`, `[]HandlerOwnedWhereUsed` | inductive together, for any number of layers: a discharge gives up its handler in the step in which its activations return, and a layer the program has passed has no activation until the program is resumed, at the first layer |
| `FreerRowProofs!RowImplementsDirectStyle` | `Spec => Direct!Spec` | the layers' handlers together are the one joint handler; passing an operation outwards, and coming back in, are stutters |
| `FreerPairingProofs!TypeCorrect`, `TraceIsTheRequests` | `[]TypeOK`, `[]TraceIsWhatWasAsked` | `IInv` adds `OneThingAtATime`, that the program is inside the question while one is under way, and `AnswerIsOfTheNode`, that an answer which is to unfold is one the current node may give: the node answers in one step and unfolds in the next, and either may throw |
| `FreerPairingProofs!PairingImplementsDirectStyle` | `Spec => Direct!Spec` | as for `run`, with the mock's seed as the handler's state; the answer takes effect where the next node is built |
| `RecursionProofs!AnswerSolvesTheEquation` | an answer is `Finish` of `H` at the caller's seed | `H` is any function that solves the scheme's equation (`Solves`); where layers get smaller there is exactly one. `Linked`: each activation was called with the child its caller is at. `Delivered`: each activation holds its seed's layer and `H`'s value of every child that has answered. Over layers of any size and trees of any depth |
| `RecursionProofs!OnePassInOrder` | an answer comes after the walk `W` of the caller's seed | `W` is the walk told by the coalgebra: in, the children's walks front to back, out. `Walked`: the walk so far is that of every activation up to the child it is at, one after the other |
| `RecursionProofs!EquationHasOneSolution` | exactly one `H` solves a scheme's equation | under `Founded`: some measure of the seeds gets smaller from a seed to those of its layer. `OneSolution` is recursion on a rank, proved for any equations that ask of a seed only what they say of smaller ones: two solutions up to rank n agree below n (`SolutionsAgree`), so those up to each rank join into one |
| `RecursionProofs!WalkExists` | there is a walk `W` | `OneSolution` twice: once for the parts of a walk up to each child, once for the walks themselves |
| `RecursionProofs!NeverAstray` | the walk so far begins `W` of the caller's seed | by `Walked`, the walk is that of the activations up to the child each is at; each part begins the walk over its activation's seed (`PartStarts`), and so, from the innermost outwards, the whole |
| `RecursionProofs!CallsAreFinite` | the walk is never longer than `W`, and every step makes it longer by one | from `NeverAstray`: what termination needs besides a step's being taken, which is what `Returns` adds under fairness |
| `RecursionProofs!AnswersAreOwed`, `WalksAreOwed` | `[]AnswerMeetsEquation`, `[]WalksOnce` | for any algebra and coalgebra. Unlike `AnswerSolvesTheEquation`, each call may have its own types of seeds and results, as in the run, which makes calls of every scheme. The invariant (`Answering`, `Walking`) is that of the two theorems above about the one call made, and keeps that call |
| `RecursionProofs!SchemesMeetTheirEquations`, `SchemesWalkOnce` | `[]AnswerMeetsEquation`, `[]WalksOnce` | of calls of `fold_fix`, `para`, `zygo`, `mutu`, `histo`, `hoist`, `mcata`, `prepro`, `postpro`, `unfold_fix`, `refold`, `dyna`, `futu`, `codyna`, `chrono`, `coelgot`, `unfold_cofree`, `elgot`, `mcata_free`, `apo` and `mhisto`; see *The schemes* |
| `RecursionProofs!FoldHasOneValue` | exactly one function is the fold by an algebra over finite trees | `OneSolution` at the trees' heights. Two folds are the same, so what a call owes does not depend on which function is taken for it |
| `RecursionProofs!RewritingIsDefined` | the layer rewritten k times and the tree rewritten once more at each level exist | `OneSolution` twice: over numbers of times and layers, and over depths and trees together. What `prepro` and `postpro` are assumed to owe is there for every finite tree and every natural transformation |
| `FreerTaskProofs!BackoffsGrow`, `ValueIsOfTheLastSend`, `StopsInTime`, `ClockIsVirtualTime` | `[]BacksOffBetweenAttempts`, `[]ResultIsOfTheLastSend`, `NoFurtherAttempt`, `[]ClockAdvancesByBackoffs` | argued in direct style, which `TaskImplementsDirectStyle` carries over to `run_task`. The program is always at one of seven places told by the length of the log (`Stage`), the log reads as the script makes it (`History`), and the handler's state is a function of the same length (`ScriptAfter`, with 1 + 2 + ... + k in closed form). The three are inductive together; the properties, which count and sum over the log, follow. The clock counts an operation from when its sender is given: while it is awaited that follows from `Holding` (`CountedWhileWaiting`), once it has failed it is a fact about the past, kept by `SenderCounts` |
| `FreerTaskProofs!OneProgramTwoInterpreters` | `SpecBoth => []InterpretersAgree` | the same invariant holds of `pair_run` over the script whose clock a reading does not move (`OneScript`). Two logs that read as one script makes them agree as far as both go (`OneHistory`), and end together (`OneEnd`) |
| `BoxProofs!TypeCorrect`, `OwnersAreSingle`, `NothingDangles` | `[]TypeOK`, `[]SingleOwner`, `[]NoDangling` | `IInv` adds that free cells are untouched (`FreeIsUntouched`), that a Box has a value, and that an assignment is not to its own argument. An assignment deletes one tree and then reads another, so the proof is about where a cell can be: with single owners it is in one variable's tree at one path (`UniquePath`), and in the tree at a named place only if the name begins that path (`BelowName`), so that trees of which neither place is inside the other share no cell (`TreesApart`). Each by induction along a path |
| `BoxProofs!NothingLeaks`, `CopiesAreValues` | `[]NoLeak`, `[]ValueSemantics` | `Held`, inductive with `IInv`: the variables' trees are a `Forest` (what hangs from each by the pointers, no cell at two places), each variable's tree is its value, also half way through an assignment, and an assignment under way knows the two paths it was given and that the cells of its target are dead (`Midway`). What `Hangs` from a place is decided by the pointers (`HangsOnce`), so what a step makes of a tree is known once a set of nodes is shown to hang there: a tree cut off at a path and grafted at another (`Grafting`, `MovedTrees`), or copied in fresh cells (`CopyHangs`, `CopiedTrees`). The paths change as the values are written (`PathsOfGrafted`). That `Nodes` goes no deeper than there are cells loses nothing: a path that long would have too many different cells on it (`PathsAreShort`) |

The invariants were checked by TLC on the runs' instances before they were proved.
Several shapes recur. A *refinement* is proved action by action: each is one abstract
action or a stutter. Where a theorem needs *induction over data*, `LeastNatural` (a set
of naturals has a least element, which follows from the library's theorem that
inclusion of finite sets is well founded) stands in for it: the length at which the
claim first fails is one more than one at which it holds. This is how
`OneShotProofs!NothingLeaks` follows a chain to its end, how `RunningSum` shows that the recursive function
`SleptUpTo` is what its definition says, and how `OneSolution` builds the one function that
satisfies a recursive equation.

**The schemes.** What a scheme of `Schemes` returns is held against the equation that
`SchemeEquations` gives for it. There the equations are recursive operators; in
`RecursionProofs` they are functions on the trees, and a predicate says that they meet the
same equation (`IsCata`, `IsZygo`, `IsMutu`, `IsHistories`, `IsAna`, `IsFutu`, `IsCoelgot`,
`IsElgot`, `IsApo`, `IsHoist`, ...). A call's `SchemeCall(j)` says that it is a call of the
scheme (`CallOf`: its four operators are those of `Schemes`), that its arguments have their types,
and that it owes the value and the walk of those functions (`Owes`). It assumes no more
than that:

- A functor is any function `F` from labels to sets of child counts (`LayersOver`), a set of
  trees any set that the functor's layers over it are the layers of (`Fixed`). Labels, counts
  and trees are otherwise unknown, infinitely many included.
- `para`, `prepro` and `postpro` also assume a height (`Finite`): what they do is compared
  with something that is the same tree only by induction over it.
- A natural transformation is assumed to be natural (`Natural`): it commutes with `fmap` and
  copies, moves or drops children without looking at them. In C++ its type, that of a template over the carrier, says so.
- The callers' functions are any that have their types.

The argument is in three parts. *Fusion*: let `u` take each seed to a tree, such that the coalgebra's layer
at a seed is the layer of its tree, and let `f` on trees meet the equation of the algebra;
then `f` after `u` solves the scheme's equation (`FusedAnswer`), and the walk over the seeds is the walk
over the tree (`FusedWalk`), which is never built. So for each scheme only `u`, `f` and the
equation remain to be compared: `u` is the identity for a fold, the unfold for `refold`,
`dyna` and `unfold_fix`, the chunks' unfold for `futu`, `codyna` and `chrono`, what the
algebra asks for in `mcata`; `f` holds pairs, histories or annotations where the scheme
tuples. *Copies*: `para` pairs each child with its result, so its equation also rebuilds the
tree, which is the tree itself (`CopiesAreTheSame`, by `TreeInduction` on the height).
*Rewriting*: `prepro` hoists each child whole before it goes down (`prepro.hpp:90`). That a
node at depth k is then rewritten k times is `RewrittenIsDeeper`, by tree induction over
all k at once: the tree `d[k]` of a hoisted tree is `d[k + 1]` of the tree. `postpro`
hoists on the way up and needs the other side, `DeeperIsRewritten`. Both rest on naturality
and on the two ways of rewriting once more, before and after k times (`RepeatedOnceMore`).
`elgot`, `mcata_free` and `apo` stop below some seeds and have their own equations over seeds.
`mhisto` recurses on grandchildren as well, one child's after the other's; its equation reads
their values off histories it never builds (`MhistoAnswers`), which needs that flattening
values is taking the values of what is flattened (`FlatValues`, by induction along the
library's recursive function).

That the operators of `SchemeEquations` are these functions on the trees of the run is by their
text, and TLC's comparison of every answer with them.

**Only model-checked.** The answer of the one call of `mhisto` with an algebra of its own
(fibonacci); that a tree of text is finished by `to_dot`; the generalized schemes, the laws and the typeclasses' operations, whose
modules hold recursive operators; the tests' promises (`AnswerAsPromised`), which are values.
`RecursionProofs`' theorems up to `WalksAreOwed` are about any coalgebra and algebra, so
they also say of these that the loop is the recursion it stands for. Liveness (the `WF` half of
`DirectStyleFair`, `Returns`): the prover handles neither `ENABLED` nor fairness.

## What the checks found

`freer_run.hpp:41-44` says that the C++ stack never grows with the number of
effects. The loop's own frame does not, but the call of a continuation is one
nested closure per function bound to it (`freer.hpp:216-222`), and a loop that
binds to the left (`bind(bind(get, f), g)` with `f` asking again) leaves one more
`g` behind per effect. Run `deep_bind` shows the depth passing every continuation
the program's text contains, after two effects. The test that measures the stack
uses a tail-nested chain only. `freer_cosignature.hpp:243-244` makes the
same claim of `pair_run`.

`box.hpp:10` calls `Box` an owning pointer with deep-copy value semantics. Both
assignment operators delete the old value before they read the argument. If the
copy then throws, `ptr` still points to what was deleted and the destructor
deletes it again (`box_throw`). If the argument is inside the target's tree, as
in `t = t->left`, it is read after it was deleted (`box_alias`). The library
itself assigns boxes in neither way; run `box` shows that without those two
cases ownership and value semantics hold.

A function of three or more arguments given to `invoke` over `Free` can lose its
arguments. `monad.hpp:36-43` forwards one partially applied function object to every
leaf of the second program, `free.hpp:222-230` hands it over as an rvalue, and calling
an rvalue of it moves its bound arguments on (`apply.hpp:45-51`). So
`invoke(f, pure(a), <two leaves b, c>, pure(d))` calls `f(a, b, d)` and then
`f(<moved from>, c, d)`, where `monad.hpp:21` derives `ap` so that both see `a`
(run `invoke`). Functions of two arguments, and those whose waiting arguments are
trivially copied, are not affected.

What `zygo_histo_prepro` shows an algebra further back than one generation is not
what `zygo` and `histo` would show together: the value attached to a node is attached
to all of its history (`generalized.hpp:616-622`), so a position further back carries
the helper value of the child it is the history of. Nothing in the repository says
otherwise. `SchemeEquations` states what is seen, and the run tries algebras that look
at the newest helper, at all of them, at the history, and at both.

## Not modelled

- Operations that only forward to a modelled one: `map`, `zip_with`, `discard_*`,
  `for_each`, `transpose`, the `*_with` forms and the pinned lookups of an instance. How
  an instance is found is compile-time.
- `either<L&, R>` and its kin: assignment through references, with no caller here; and
  `LeftFoldProgramT`, `RightFoldProgramT`, which nothing instantiates.
- The layout of the digraph text, `type_name`'s reading of `__PRETTY_FUNCTION__`,
  printing in the examples: text that no property is about.
- The scenario programs of `freer_*.t.cpp` by name: the interpreters' runs take every
  table of two functions instead, of which those are instances or longer forms. The
  deferred layer in `free.t.cpp` tests a functor of the test's own.
- The order in which an algebra evaluates `recurse(l) + recurse(r)` in `mcata`: C++
  leaves it unspecified and the walk is front to back here; the functions are pure.
- Compile-time diagnostics (`static_assert`, concepts): they are checked by the
  compiler, not at run time.
- `beman::execution` and `beman::task`: outside the repository. How the execution
  library takes a sender apart is the shape `SenderDot` gives a sender.

## Plan

Done: `OneShot`, `FreerProgram`, `Resumption`, `DirectStyle`, the four
interpreters, `Retry` and `RetryBoth`, `Box`, `Recursion` with the `Schemes`, the
`Generalized` ones, `Typeclasses` and `SenderDot`, and the theorems above. Next, in
this order:

1. `FreerLaws`: the monad laws and the laws of the interpreters' composition as
   simulations between programs (right and left unit, associativity of `bind`),
   which is where the table-of-functions representation meets `free.hpp:193-209`.
2. `FreerHeap`: `run` with explicit one_shot targets, implementing `OneShot`'s
   ownership and `FreerRun` at once: destruction of a half-run program included.
3. Proofs: the lemmas of `FreerLaws`, and that `FreerHeap` implements the two.
