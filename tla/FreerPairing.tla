---------------------------- MODULE FreerPairing ----------------------------
(***************************************************************************)
(* pair_run and pair_run_trace: a program paired with a Cofree mock        *)
(* (src/smd/fixpoint/freer_cosignature.hpp, unfold_cofree.hpp).            *)
(*                                                                         *)
(* The mock is a tree without end: a node has an annotation and, for every *)
(* operation, a responder that gives the response and the next node.       *)
(* unfold_cofree makes it from a seed.  The co-signature's fmap is lazy:   *)
(* it stores, behind each responder the coalgebra gave, the unfolding of   *)
(* the seed that responder will return, so asking a node builds exactly    *)
(* the next one.  The handler of FreerHandler is the coalgebra: its states *)
(* are the seeds, and Handler[s][op] is what the responder made at seed s  *)
(* for op may return.                                                      *)
(***************************************************************************)
EXTENDS Resumption, FreerHandler

CONSTANTS
  Annotation,      \* the heads of the mock's nodes
  HeadFn,          \* HeadFn[s]: what head_fn says of seed s
  ThrowingSeeds    \* the seeds on which the coalgebra or head_fn may throw

ASSUME PairingAssumption ==
  /\ HeadFn \in [HandlerState -> Annotation]
  /\ ThrowingSeeds \subseteq HandlerState

VARIABLES
  current,   \* the program the loop is at, MovedFrom while its layer is handled
  mock,      \* the current node: its head, and the seed its responders captured
  asked,     \* the question under way: its continuation, response and next seed
  trace,     \* the operations rendered
  log,       \* the requests made so far, each with its answer (history)
  outcome    \* "running", "returned" or "failed"

vars == <<code, call, depth, frames, box, current, mock, asked, trace, log, outcome>>

MovedFrom == [tag |-> "MovedFrom"]

Node(s) == [head |-> HeadFn[s], seed |-> s]

(* No question, one its responder is to answer, and one it has answered. *)
Nothing == [stage |-> "none"]
Asking(op, k) == [stage |-> "responder", op |-> op, k |-> k]
Unfolding(q, s, r) == [stage |-> "unfold", op |-> q.op, k |-> q.k, seed |-> s, response |-> r]

Question ==
  {Nothing}
    \cup [stage : {"responder"}, op : Op, k : Seq(Fn)]
    \cup [stage : {"unfold"}, op : Op, k : Seq(Fn), seed : HandlerState, response : Val]

TypeOK ==
  /\ ResumptionTypeOK
  /\ current \in Program \cup {MovedFrom}
  /\ mock \in [head : Annotation, seed : HandlerState]
  /\ asked \in Question
  /\ trace \in Seq(Op)
  /\ log \in Seq(LogEntry)
  /\ outcome \in {"running", "returned", "failed"}

(* The caller has unfolded the first node. *)
Init ==
  /\ code \in Codes
  /\ current \in Starts
  /\ \E s \in InitHandler : mock = Node(s)
  /\ asked = Nothing
  /\ trace = <<>> /\ log = <<>>
  /\ outcome = "running"
  /\ call = "none" /\ depth = 0 /\ frames = <<>>
  /\ box = current

(* Mutant: the newest line would be put first. *)
AskRenderingInFront ==
  /\ outcome = "running"
  /\ call = "none" /\ asked = Nothing
  /\ current.tag = "Roll"
  /\ trace' = <<current.op>> \o trace
  /\ asked' = Asking(current.op, current.k)
  /\ current' = MovedFrom
  /\ UNCHANGED <<code, call, depth, frames, box, mock, log, outcome>>

(* The operation is rendered and the responder for it found in the node. *)
Ask ==
  /\ outcome = "running"
  /\ call = "none" /\ asked = Nothing
  /\ current.tag = "Roll"
  /\ trace' = Append(trace, current.op)
  /\ asked' = Asking(current.op, current.k)
  /\ current' = MovedFrom
  /\ UNCHANGED <<code, call, depth, frames, box, mock, log, outcome>>

(* The coalgebra's own responder answers, with the next seed. *)
Respond ==
  /\ outcome = "running"
  /\ asked.stage = "responder"
  /\ Len(log) < MaxEffects
  /\ \E s \in HandlerState, r \in Val :
       /\ <<s, r>> \in Handler[mock.seed][asked.op]
       /\ asked' = Unfolding(asked, s, r)
  /\ UNCHANGED <<code, call, depth, frames, box, current, mock, trace, log, outcome>>

(* Mutant: the loop would go on asking the node it started with. *)
UnfoldForgetting ==
  /\ outcome = "running"
  /\ asked.stage = "unfold"
  /\ log' = Append(log, [op |-> asked.op, ans |-> asked.response])
  /\ InvokeContinuation(asked.k, asked.response)
  /\ asked' = Nothing
  /\ UNCHANGED <<code, current, mock, trace, outcome>>

(* Mutant: fmap would unfold behind every responder at once, from seed to seed. *)
UnfoldEagerly ==
  /\ outcome = "running"
  /\ asked.stage = "unfold"
  /\ \E op \in Op : \E a \in Handler[asked.seed][op] : asked' = [asked EXCEPT !.seed = a[1]]
  /\ UNCHANGED <<code, call, depth, frames, box, current, mock, trace, log, outcome>>

(***************************************************************************)
(* The closure fmap_one stored behind it unfolds that seed into the next   *)
(* node, which replaces the current one before the continuation is called  *)
(* with the response.                                                      *)
(***************************************************************************)
Unfold ==
  /\ outcome = "running"
  /\ asked.stage = "unfold"
  /\ mock' = Node(asked.seed)
  /\ log' = Append(log, [op |-> asked.op, ans |-> asked.response])
  /\ InvokeContinuation(asked.k, asked.response)
  /\ asked' = Nothing
  /\ UNCHANGED <<code, current, trace, outcome>>

(* Mutant: the failure would be handed on as a response. *)
MockThrowsIntoProgram ==
  /\ outcome = "running"
  /\ \/ asked.stage = "responder" /\ (asked.op \in RefusedOps \/ Len(log) >= MaxEffects)
     \/ asked.stage = "unfold" /\ asked.seed \in ThrowingSeeds
  /\ asked' = Nothing
  /\ log' = Append(log, [op |-> asked.op, ans |-> Refused])
  /\ InvokeContinuation(asked.k, Refused)
  /\ UNCHANGED <<code, current, mock, trace, outcome>>

(* The responder, the coalgebra or head_fn throws: pair_run is left. *)
MockThrows ==
  /\ outcome = "running"
  /\ \/ asked.stage = "responder" /\ (asked.op \in RefusedOps \/ Len(log) >= MaxEffects)
     \/ asked.stage = "unfold" /\ asked.seed \in ThrowingSeeds
  /\ asked' = Nothing
  /\ log' = Append(log, [op |-> asked.op, ans |-> Refused])
  /\ outcome' = "failed"
  /\ UNCHANGED <<code, call, depth, frames, box, current, mock, trace>>

Continue ==
  /\ outcome = "running"
  /\ Resume
  /\ UNCHANGED <<code, current, mock, asked, trace, log, outcome>>

ContinuationThrows ==
  /\ outcome = "running"
  /\ FunctionThrows
  /\ outcome' = "failed"
  /\ LeaveContinuation
  /\ UNCHANGED <<code, current, mock, asked, trace, log>>

Rebind ==
  /\ outcome = "running"
  /\ Resumed
  /\ current' = box
  /\ LeaveContinuation
  /\ UNCHANGED <<code, mock, asked, trace, log, outcome>>

(* The value, the head of the node the loop has come to, and the trace. *)
Return ==
  /\ outcome = "running"
  /\ call = "none"
  /\ current.tag = "Pure"
  /\ outcome' = "returned"
  /\ UNCHANGED <<code, call, depth, frames, box, current, mock, asked, trace, log>>

Next ==
  \/ Ask \/ Respond \/ Unfold \/ MockThrows
  \/ Continue \/ ContinuationThrows \/ Rebind \/ Return

Spec == Init /\ [][Next]_vars

FairSpec == Spec /\ WF_vars(Next)

-----------------------------------------------------------------------------
(***************************************************************************)
(* FD8: the trace reads as run_trace's does, one line per request in the   *)
(* order of the requests, with the one that is not answered yet last.      *)
(***************************************************************************)
TraceIsWhatWasAsked ==
  trace = [i \in 1 .. Len(log) |-> log[i].op]
            \o (IF asked = Nothing THEN <<>> ELSE <<asked.op>>)

-----------------------------------------------------------------------------
(* Until the next node is there, the program still stands at its request. *)
InHand ==
  IF asked # Nothing THEN Roll(asked.op, asked.k)
  ELSE IF call = "none" THEN current ELSE box

focusMap == IF outcome = "failed" THEN Gone ELSE FocusOf(InHand)
restMap == IF outcome = "failed" THEN <<>> ELSE RestOf(InHand, frames)

(* The operations that may get no answer: their next seed may not unfold either. *)
MayFail ==
  RefusedOps \cup
    {op \in Op : \E s \in HandlerState : \E a \in Handler[s][op] : a[1] \in ThrowingSeeds}

Direct == INSTANCE DirectStyle
  WITH focus <- focusMap, rest <- restMap, hs <- mock.seed, RefusedOps <- MayFail

(* FD8: the pairing is an interpreter like run, its seeds being the handler's states. *)
DirectStyleFair == Direct!FairSpec

=============================================================================
