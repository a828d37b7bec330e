----------------------------- MODULE DirectStyle ----------------------------
(***************************************************************************)
(* What every interpreter of a Freer program promises: the program behaves *)
(* as if it were written in direct style.  Each operation is performed at  *)
(* the point where the program asks for it, its answer is the value of     *)
(* that very request, and control goes on with the innermost function      *)
(* waiting for it.  There are no layers, closures, boxes or coroutines     *)
(* here: only the program, a stack of functions, and one handler.          *)
(*                                                                         *)
(* FreerRun, FreerRow, FreerTask and FreerPairing are shown to implement   *)
(* this module.                                                            *)
(***************************************************************************)
EXTENDS FreerHandler

VARIABLES
  code,     \* the program's functions
  focus,    \* what the program is at: a value, a request, or nothing any more
  rest,     \* the functions waiting for its value, innermost first
  hs,       \* the handler's state
  log,      \* the requests made so far, each with its answer
  outcome   \* "running", "returned" or "failed"

dvars == <<code, focus, rest, hs, log, outcome>>

Init ==
  /\ code \in Codes
  /\ \E p \in Starts : focus = FocusOf(p) /\ rest = RestOf(p, <<>>)
  /\ hs \in InitHandler
  /\ log = <<>>
  /\ outcome = "running"

(* The handler answers the request the program is at. *)
Perform ==
  /\ outcome = "running"
  /\ focus.at = "request"
  /\ Len(log) < MaxEffects
  /\ \E h \in HandlerState, r \in Val :
       /\ <<h, r>> \in Handler[hs][focus.op]
       /\ hs' = h
       /\ log' = Append(log, [op |-> focus.op, ans |-> r])
       /\ focus' = Value(r)
  /\ UNCHANGED <<code, rest, outcome>>

(* The handler fails, before or after it changed its state: nothing runs after that. *)
Refuse ==
  /\ outcome = "running"
  /\ focus.at = "request"
  /\ focus.op \in RefusedOps \/ Len(log) >= MaxEffects
  /\ log' = Append(log, [op |-> focus.op, ans |-> Refused])
  /\ hs' \in MayLeave(hs, focus.op)
  /\ focus' = Gone
  /\ rest' = <<>>
  /\ outcome' = "failed"
  /\ UNCHANGED code

(* The innermost waiting function takes the value. *)
Continue ==
  /\ outcome = "running"
  /\ focus.at = "value"
  /\ rest # <<>>
  /\ LET p == code[Head(rest)][focus.val] IN
       /\ focus' = FocusOf(p)
       /\ rest' = RestOf(p, Tail(rest))
  /\ UNCHANGED <<code, hs, log, outcome>>

(* It throws instead. *)
Break ==
  /\ outcome = "running"
  /\ focus.at = "value"
  /\ rest # <<>>
  /\ Head(rest) \in ThrowingFns
  /\ focus' = Gone
  /\ rest' = <<>>
  /\ outcome' = "failed"
  /\ UNCHANGED <<code, hs, log>>

(* No function waits: the value is the program's result. *)
Finish ==
  /\ outcome = "running"
  /\ focus.at = "value"
  /\ rest = <<>>
  /\ outcome' = "returned"
  /\ UNCHANGED <<code, focus, rest, hs, log>>

Next == Perform \/ Refuse \/ Continue \/ Break \/ Finish

Spec == Init /\ [][Next]_dvars

(***************************************************************************)
(* Neither the handler nor a bound function hangs, and no interpreter      *)
(* stops half way: a program that can go on does.                          *)
(***************************************************************************)
FairSpec == Spec /\ WF_dvars(Next)

=============================================================================
