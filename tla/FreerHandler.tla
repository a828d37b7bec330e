---------------------------- MODULE FreerHandler ----------------------------
(***************************************************************************)
(* One handler object covering every operation of the signature: the       *)
(* callable set the program is interpreted against.  It may keep state     *)
(* from one operation to the next, as the scripted mocks of the tests do,  *)
(* and it may have several answers to give.                                *)
(***************************************************************************)
EXTENDS FreerProgram

CONSTANTS
  HandlerState,   \* the states of the handler object
  InitHandler,    \* the states it may start in
  Handler         \* Handler[h][op]: the <<next state, response>> pairs op may give

ASSUME HandlerAssumption ==
  /\ InitHandler \subseteq HandlerState
  /\ Handler \in [HandlerState -> [Op -> SUBSET (HandlerState \X Val)]]

(* Failing at op: the state as it was, or as one of its answers would leave it. *)
MayLeave(h, op) == {h} \cup {a[1] : a \in Handler[h][op]}

=============================================================================
