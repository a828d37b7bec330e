------------------------------ MODULE FreerRow ------------------------------
(***************************************************************************)
(* Rows and discharge<Sig> (src/smd/fixpoint/freer_row.hpp).               *)
(*                                                                         *)
(* A program over a row of signatures is interpreted one member signature  *)
(* at a time: the client discharges signature 1, then 2, and so on, each   *)
(* with its own handler, and runs what is left with run.  A discharge      *)
(* handles its own operations inline; at the first foreign operation it    *)
(* returns that operation over the smaller row, with a continuation that   *)
(* owns the original one and the handler, and discharges again what the    *)
(* original one yields.                                                    *)
(*                                                                         *)
(* So every resumed program meets the interpreters in turn, the first      *)
(* discharge first.  Layer i below Last is discharge number i; layer Last  *)
(* is run.                                                                 *)
(***************************************************************************)
EXTENDS Resumption

CONSTANTS
  Last,          \* the layer that is run
  LayerOf,       \* LayerOf[op]: the layer whose signature has op
  LayerState,    \* the states of a handler
  InitLayer,     \* the state each starts in
  LayerHandler   \* LayerHandler[h][op]: the <<next state, response>> pairs

ASSUME RowAssumption ==
  /\ Last \in Nat \ {0}
  /\ LayerOf \in [Op -> 1 .. Last]    \* row's static_assert: no shared operation
  /\ InitLayer \in LayerState
  /\ LayerHandler \in [LayerState -> [Op -> SUBSET (LayerState \X Val)]]

Layer == 1 .. Last
Discharging == 1 .. (Last - 1)

VARIABLES
  current,   \* the program the layer looks at, MovedFrom while it is handled
  level,     \* the layer that looks at it
  hs,        \* hs[i]: the state of layer i's handler
  held,      \* held[i]: who owns the handler of discharge i
  nest,      \* nest[i]: the activations of discharge i on the C++ stack
  log,       \* the requests made so far, each with its answer
  outcome    \* "running", "returned" or "failed"

vars == <<code, call, depth, frames, box, current, level, hs, held, nest, log, outcome>>

MovedFrom == [tag |-> "MovedFrom"]
Owner == {"caller", "activation", "continuation", "nobody"}

TypeOK ==
  /\ ResumptionTypeOK
  /\ current \in Program \cup {MovedFrom}
  /\ level \in Layer
  /\ hs \in [Layer -> LayerState]
  /\ held \in [Discharging -> Owner]
  /\ nest \in [Discharging -> Nat]
  /\ log \in Seq(LogEntry)
  /\ outcome \in {"running", "returned", "failed"}

(* discharge i is entered, by the client or by a closure that holds i's handler. *)
EnteredHeld(h, i) == IF i \in Discharging THEN [h EXCEPT ![i] = "activation"] ELSE h
EnteredNest(n, i) == IF i \in Discharging THEN [n EXCEPT ![i] = @ + 1] ELSE n

Init ==
  /\ code \in Codes
  /\ current \in Starts
  /\ level = 1
  /\ hs = [i \in Layer |-> InitLayer]
  /\ held = EnteredHeld([i \in Discharging |-> "caller"], 1)
  /\ nest = EnteredNest([i \in Discharging |-> 0], 1)
  /\ log = <<>>
  /\ outcome = "running"
  /\ call = "none" /\ depth = 0 /\ frames = <<>>
  /\ box = current

Looking ==
  /\ outcome = "running"
  /\ call = "none"

AtOwnOperation ==
  /\ Looking
  /\ current.tag = "Roll"
  /\ LayerOf[current.op] = level

(* Mutant: each operation would get its own copy of the handler. *)
HandleWithOwnCopy ==
  /\ AtOwnOperation
  /\ Len(log) < MaxEffects
  /\ \E h \in LayerState, r \in Val :
       /\ <<h, r>> \in LayerHandler[hs[level]][current.op]
       /\ log' = Append(log, [op |-> current.op, ans |-> r])
       /\ InvokeContinuation(current.k, r)
  /\ current' = MovedFrom
  /\ UNCHANGED <<code, level, hs, held, nest, outcome>>

(***************************************************************************)
(* The layer's own operation: its handler answers and the continuation is  *)
(* called.  The closures that earlier discharges wrapped around it are     *)
(* entered on the way and leave again with Rebind.                         *)
(***************************************************************************)
Handle ==
  /\ AtOwnOperation
  /\ Len(log) < MaxEffects
  /\ \E h \in LayerState, r \in Val :
       /\ <<h, r>> \in LayerHandler[hs[level]][current.op]
       /\ hs' = [hs EXCEPT ![level] = h]
       /\ log' = Append(log, [op |-> current.op, ans |-> r])
       /\ InvokeContinuation(current.k, r)
  /\ current' = MovedFrom
  /\ UNCHANGED <<code, level, held, nest, outcome>>

(* Everything on the stack is unwound, and the program in hand destroyed. *)
Unwind ==
  /\ outcome' = "failed"
  /\ current' = MovedFrom
  /\ nest' = [i \in Discharging |-> 0]
  /\ held' = [i \in Discharging |-> IF held[i] = "caller" THEN "caller" ELSE "nobody"]
  /\ LeaveContinuation
  /\ UNCHANGED <<code, level>>

(* Mutant: the failure would be handed on as a response. *)
HandlerThrowsIntoProgram ==
  /\ AtOwnOperation
  /\ current.op \in RefusedOps \/ Len(log) >= MaxEffects
  /\ log' = Append(log, [op |-> current.op, ans |-> Refused])
  /\ InvokeContinuation(current.k, Refused)
  /\ current' = MovedFrom
  /\ UNCHANGED <<code, level, hs, held, nest, outcome>>

(* The layer's handler throws, before or after it changed its state. *)
HandlerThrows ==
  /\ AtOwnOperation
  /\ current.op \in RefusedOps \/ Len(log) >= MaxEffects
  /\ \E h \in {hs[level]} \cup {a[1] : a \in LayerHandler[hs[level]][current.op]} :
       hs' = [hs EXCEPT ![level] = h]
  /\ log' = Append(log, [op |-> current.op, ans |-> Refused])
  /\ Unwind

Continue ==
  /\ outcome = "running"
  /\ Resume
  /\ UNCHANGED <<code, current, level, hs, held, nest, log, outcome>>

ContinuationThrows ==
  /\ outcome = "running"
  /\ FunctionThrows
  /\ Unwind
  /\ UNCHANGED <<hs, log>>

(* Mutant: earlier discharges would not see the resumed program. *)
RebindHere ==
  /\ outcome = "running"
  /\ Resumed
  /\ current' = box
  /\ held' = EnteredHeld(held, level)
  /\ nest' = EnteredNest(nest, level)
  /\ LeaveContinuation
  /\ UNCHANGED <<code, level, hs, log, outcome>>

(***************************************************************************)
(* The resumed program comes back to the first layer: discharge 1, inside  *)
(* the closure it wrapped around the continuation, or recursing if the     *)
(* operation was its own.                                                  *)
(***************************************************************************)
Rebind ==
  /\ outcome = "running"
  /\ Resumed
  /\ current' = box
  /\ level' = 1
  /\ held' = EnteredHeld(held, 1)
  /\ nest' = EnteredNest(nest, 1)
  /\ LeaveContinuation
  /\ UNCHANGED <<code, hs, log, outcome>>

(* Mutant: the re-emitted continuation would refer to the handler, not own it. *)
PassOnKeepingHandler ==
  /\ Looking
  /\ level < Last
  /\ current.tag = "Roll" => LayerOf[current.op] # level
  /\ held' = EnteredHeld(held, level + 1)
  /\ nest' = EnteredNest([nest EXCEPT ![level] = 0], level + 1)
  /\ level' = level + 1
  /\ UNCHANGED <<code, call, depth, frames, box, current, hs, log, outcome>>

(***************************************************************************)
(* A discharge is done: at a foreign operation its handler moves into the  *)
(* re-emitted continuation, at a value it is destroyed.  All the discharge *)
(* activations return, and the next layer gets the program.                *)
(***************************************************************************)
PassOn ==
  /\ Looking
  /\ level < Last
  /\ current.tag = "Roll" => LayerOf[current.op] # level
  /\ held' = EnteredHeld([held EXCEPT ![level] =
                            IF IsPure(current) THEN "nobody" ELSE "continuation"],
                         level + 1)
  /\ nest' = EnteredNest([nest EXCEPT ![level] = 0], level + 1)
  /\ level' = level + 1
  /\ UNCHANGED <<code, call, depth, frames, box, current, hs, log, outcome>>

Return ==
  /\ Looking
  /\ level = Last
  /\ current.tag = "Pure"
  /\ outcome' = "returned"
  /\ UNCHANGED <<code, call, depth, frames, box, current, level, hs, held, nest, log>>

Next ==
  \/ Handle \/ HandlerThrows \/ Continue \/ ContinuationThrows
  \/ Rebind \/ PassOn \/ Return

Spec == Init /\ [][Next]_vars

FairSpec == Spec /\ WF_vars(Next)

-----------------------------------------------------------------------------
(***************************************************************************)
(* A discharged signature is gone from the row: no layer ever meets an     *)
(* operation of an earlier one.                                            *)
(***************************************************************************)
DischargedStaysDischarged ==
  Looking /\ current.tag = "Roll" => LayerOf[current.op] >= level

(***************************************************************************)
(* FD4's capture ownership: the handler of discharge i is owned by an      *)
(* activation of discharge i exactly while there is one, so no stored      *)
(* continuation refers to a handler in a frame that has returned, and the  *)
(* layer that looks at the program always has its handler at hand.         *)
(***************************************************************************)
HandlerOwnedWhereUsed ==
  /\ \A i \in Discharging : held[i] = "activation" <=> nest[i] > 0
  /\ Looking /\ level < Last => held[level] = "activation"
  /\ Looking => \A i \in Discharging : i < level => held[i] # "caller" /\ nest[i] = 0

-----------------------------------------------------------------------------
(***************************************************************************)
(* The handlers of all the layers together are one handler over the row,   *)
(* each operation reading and moving only its own layer's state.           *)
(***************************************************************************)
JointState == [Layer -> LayerState]

JointHandler ==
  [h \in JointState |-> [op \in Op |->
     {<<[h EXCEPT ![LayerOf[op]] = a[1]], a[2]>> : a \in LayerHandler[h[LayerOf[op]]][op]}]]

InHand == IF call = "none" THEN current ELSE box

focusMap == IF outcome = "failed" THEN Gone ELSE FocusOf(InHand)
restMap == IF outcome = "failed" THEN <<>> ELSE RestOf(InHand, frames)

Direct == INSTANCE DirectStyle
  WITH focus <- focusMap, rest <- restMap,
       HandlerState <- JointState,
       InitHandler <- {[i \in Layer |-> InitLayer]},
       Handler <- JointHandler

(* Discharging one signature after another does what one handler for the row does. *)
DirectStyleFair == Direct!FairSpec

=============================================================================
