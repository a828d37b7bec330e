------------------------------ MODULE RetryBoth -----------------------------
(***************************************************************************)
(* One retry program, two interpreters (src/examples/freer_retry.t.cpp and *)
(* freer_retry.cpp): it is paired with the Cofree mock that                *)
(* retry_coalgebra unfolds, and then run by run_task with the handlers     *)
(* that keep the same script in variables of the caller's.                 *)
(***************************************************************************)
EXTENDS Retry

VARIABLES pcall, pdepth, pframes, pbox, pcurrent, mock, asked, ptrace, plog, poutcome

pvars == <<pcall, pdepth, pframes, pbox, pcurrent, mock, asked, ptrace, plog, poutcome>>

(* The mock's heads are the script itself (retry_head_fn). *)
retry_head_fn == [s \in RetryScript |-> s]

Pairing == INSTANCE FreerPairing
  WITH call <- pcall, depth <- pdepth, frames <- pframes, box <- pbox, current <- pcurrent,
       trace <- ptrace, log <- plog, outcome <- poutcome,
       Handler <- RetryCoalgebra, Annotation <- RetryScript, HeadFn <- retry_head_fn,
       ThrowingSeeds <- {}

(* Both begin with one script; the coalgebra's clock is always the virtual one. *)
InitBoth ==
  /\ Init
  /\ Pairing!Init
  /\ pcurrent = current
  /\ mock.seed = [hs EXCEPT !.live = FALSE]

RunPairing == Pairing!Next /\ UNCHANGED vars

RunTask == poutcome # "running" /\ Next /\ UNCHANGED pvars

NextBoth == RunPairing \/ RunTask

SpecBoth == InitBoth /\ [][NextBoth]_<<vars, pvars>> /\ WF_<<vars, pvars>>(NextBoth)

-----------------------------------------------------------------------------
Requests(l) == [i \in DOMAIN l |-> l[i].op]

(***************************************************************************)
(* FD8/FD10: the pairing mock and run_task run the same program to the     *)
(* same value and trace (freer_retry.t.cpp:57-87), over networks that fail *)
(* any number of sends.  What one of them asked, the other asks too, and   *)
(* it is given the same answer, whichever of them is cut short by a        *)
(* refusal; two that return have made the same requests, have the same     *)
(* value and leave the same script behind, but for the reading that moves  *)
(* the live-shaped clock.                                                  *)
(***************************************************************************)
InterpretersAgree ==
  /\ \A i \in DOMAIN log \cap DOMAIN plog :
       /\ log[i].op = plog[i].op
       /\ Refused \in {log[i].ans, plog[i].ans} \/ log[i].ans = plog[i].ans
  /\ outcome = "returned" /\ poutcome = "returned" =>
       /\ Requests(log) = ptrace
       /\ current = pcurrent
       /\ hs.send_count = mock.head.send_count
       /\ hs.virtual_time = mock.head.virtual_time + (IF hs.live THEN 1 ELSE 0)

=============================================================================
