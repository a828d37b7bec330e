----------------------------- MODULE Resumption -----------------------------
(***************************************************************************)
(* Calling a stored continuation (src/smd/fixpoint/freer.hpp,              *)
(* CoyonedaFunctorImpl::fmap, and the consuming bind of free.hpp).         *)
(*                                                                         *)
(* A continuation with n bound functions is n closures around the one send *)
(* made, each owning the next inner one.  Calling it calls inwards n times *)
(* before anything happens; the innermost closure wraps the response in    *)
(* Pure, and on the way out each closure binds its own function to the     *)
(* program it got: a Pure program enters the function, a suspended one     *)
(* gets the function added to its continuation.  Every interpreter resumes *)
(* programs through these steps.                                           *)
(***************************************************************************)
EXTENDS FreerProgram

VARIABLES
  code,     \* the program's functions
  call,     \* "none", "inwards" or "outwards": the continuation call under way
  depth,    \* the closures of that call that are on the C++ stack
  frames,   \* the functions still to be bound by it, innermost first
  box       \* the program it is handing outwards

rvars == <<call, depth, frames, box>>

ResumptionTypeOK ==
  /\ code \in Code
  /\ call \in {"none", "inwards", "outwards"}
  /\ depth \in Nat
  /\ frames \in Seq(Fn)
  /\ box \in Program

(* std::move(k)(std::move(response)) *)
InvokeContinuation(k, r) ==
  /\ call' = "inwards"
  /\ depth' = 1
  /\ frames' = k
  /\ box' = Pure(r)

(* A closure built by fmap calls the continuation it owns. *)
Inwards ==
  /\ call = "inwards"
  /\ depth <= Len(frames)
  /\ depth' = depth + 1
  /\ UNCHANGED <<call, frames, box>>

(* The closure send made boxes the response and returns. *)
Innermost ==
  /\ call = "inwards"
  /\ depth = Len(frames) + 1
  /\ call' = "outwards"
  /\ depth' = depth - 1
  /\ UNCHANGED <<frames, box>>

(* A closure gets a finished program and enters its function with the value. *)
EnterFunction ==
  /\ call = "outwards"
  /\ frames # <<>>
  /\ IsPure(box)
  /\ box' = code[Head(frames)][box.val]
  /\ frames' = Tail(frames)
  /\ depth' = depth - 1
  /\ UNCHANGED call

(* A closure gets a suspended program: its function waits for the rest of it. *)
BindToSuspended ==
  /\ call = "outwards"
  /\ frames # <<>>
  /\ ~IsPure(box)
  /\ box' = BindLater(box, Head(frames))
  /\ frames' = Tail(frames)
  /\ depth' = depth - 1
  /\ UNCHANGED call

Resume == Inwards \/ Innermost \/ EnterFunction \/ BindToSuspended

(* The function entered throws out of all the closures of the call. *)
FunctionThrows ==
  /\ call = "outwards"
  /\ frames # <<>>
  /\ IsPure(box)
  /\ Head(frames) \in ThrowingFns

(* The call is over: box is the resumed program. *)
Resumed == call = "outwards" /\ frames = <<>>

(* Mutant: the pending functions would survive the call. *)
LeaveFunctionsBehind ==
  /\ call' = "none"
  /\ depth' = 0
  /\ UNCHANGED <<frames, box>>

(* No call is under way any more, the box having been emptied or destroyed. *)
LeaveContinuation ==
  /\ call' = "none"
  /\ depth' = 0
  /\ frames' = <<>>
  /\ UNCHANGED box

(* Each closure still on the stack has exactly one function left to bind. *)
DepthMatchesFrames ==
  /\ call = "none" => depth = 0 /\ frames = <<>>
  /\ call = "inwards" => depth \in 1 .. Len(frames) + 1 /\ IsPure(box)
  /\ call = "outwards" => depth = Len(frames)

=============================================================================
