------------------------------ MODULE OneShot ------------------------------
(***************************************************************************)
(* one_shot<R(Args...)>: a move-only callable whose call consumes it       *)
(* (src/smd/fixpoint/one_shot.hpp).                                        *)
(*                                                                         *)
(* The class holds a raw owning pointer, so what makes it correct is       *)
(* ownership: who will delete a target, and when.  A place that can own a  *)
(* target is                                                               *)
(*   - a one_shot object of the program (a Slot),                          *)
(*   - a one_shot captured by the closure inside another target, which is  *)
(*     how the Coyoneda fmap and discharge chain continuations,            *)
(*   - an activation on the C++ stack: the scope_delete of a call under    *)
(*     way, or a delete expression under way.                              *)
(*                                                                         *)
(* Closures are arbitrary code, so while a call is under way every         *)
(* operation on the program's one_shots may happen, including on the very  *)
(* object being called, and the closure may throw at any moment.           *)
(***************************************************************************)
EXTENDS Naturals, Sequences

CONSTANTS
  Slot,     \* the one_shot objects the program declares
  Target,   \* the heap cells: model_t objects, never reused once deleted
  Null,     \* an empty target_
  Absent    \* the slot holds no object: before its constructor, after its destructor

ASSUME OneShotAssumption ==
  /\ Null \notin Target
  /\ Absent \notin Target
  /\ Null # Absent

VARIABLES
  slot,       \* slot[s]: target_ of the object s
  captured,   \* captured[t]: target_ of the one_shot t's closure holds
  heap,       \* heap[t]: is the cell still to be allocated, live, or deleted
  stack,      \* the activations under way, innermost last
  unwinding,  \* an exception is propagating
  calls       \* calls[t]: how often invoke has been entered on t (history)

vars == <<slot, captured, heap, stack, unwinding, calls>>

Frame == [kind : {"invoke", "delete"}, target : Target]

Invoking(t) == [kind |-> "invoke", target |-> t]
Deleting(t) == [kind |-> "delete", target |-> t]

Top == stack[Len(stack)]
Popped == SubSeq(stack, 1, Len(stack) - 1)
WithDelete(t) == IF t = Null THEN stack ELSE Append(stack, Deleting(t))

(***************************************************************************)
(* No destructor is under way: control is at top level or in the closure   *)
(* of the innermost call.  Ordinary code runs there unless an exception    *)
(* propagates.                                                             *)
(***************************************************************************)
NoDestructorRuns == stack # <<>> => Top.kind = "invoke"
CodeRuns == ~unwinding /\ NoDestructorRuns

Exists(s) == slot[s] # Absent
Holds(s) == slot[s] \in Target

TypeOK ==
  /\ slot \in [Slot -> Target \cup {Null, Absent}]
  /\ captured \in [Target -> Target \cup {Null}]
  /\ heap \in [Target -> {"unborn", "live", "deleted"}]
  /\ stack \in Seq(Frame)
  /\ unwinding \in BOOLEAN
  /\ calls \in [Target -> Nat]

Init ==
  /\ slot = [s \in Slot |-> Absent]
  /\ captured = [t \in Target |-> Null]
  /\ heap = [t \in Target |-> "unborn"]
  /\ stack = <<>>
  /\ unwinding = FALSE
  /\ calls = [t \in Target |-> 0]

-----------------------------------------------------------------------------
(* one_shot() = default *)
DefaultConstruct(s) ==
  /\ CodeRuns
  /\ ~Exists(s)
  /\ slot' = [slot EXCEPT ![s] = Null]
  /\ UNCHANGED <<captured, heap, stack, unwinding, calls>>

(* one_shot(F f) with a closure that captures nothing owning *)
Construct(s, t) ==
  /\ CodeRuns
  /\ ~Exists(s)
  /\ heap[t] = "unborn"
  /\ heap' = [heap EXCEPT ![t] = "live"]
  /\ slot' = [slot EXCEPT ![s] = t]
  /\ UNCHANGED <<captured, stack, unwinding, calls>>

(* Mutant: a continuation would be captured before it was constructed. *)
ConstructCapturingUnborn(s, t, k) ==
  /\ CodeRuns
  /\ ~Exists(s) /\ k # s
  /\ heap[t] = "unborn"
  /\ heap' = [heap EXCEPT ![t] = "live"]
  /\ captured' = [captured EXCEPT ![t] = slot[k]]
  /\ slot' = [slot EXCEPT ![s] = t, ![k] = Null]
  /\ UNCHANGED <<stack, unwinding, calls>>

(***************************************************************************)
(* one_shot(F f) with a closure that owns another one_shot by move: the    *)
(* [k = std::move(node.k), fn = ...] of the generic Coyoneda fmap.         *)
(***************************************************************************)
ConstructCapturing(s, t, k) ==
  /\ CodeRuns
  /\ ~Exists(s) /\ Exists(k)
  /\ heap[t] = "unborn"
  /\ heap' = [heap EXCEPT ![t] = "live"]
  /\ captured' = [captured EXCEPT ![t] = slot[k]]
  /\ slot' = [slot EXCEPT ![s] = t, ![k] = Null]
  /\ UNCHANGED <<stack, unwinding, calls>>

(***************************************************************************)
(* new model_t fails: the closure, already built in the parameter f with   *)
(* the one_shot it captured, is destroyed while the exception propagates.  *)
(***************************************************************************)
ConstructFails(s, k) ==
  /\ CodeRuns
  /\ ~Exists(s) /\ Holds(k)
  /\ stack' = WithDelete(slot[k])
  /\ slot' = [slot EXCEPT ![k] = Null]
  /\ unwinding' = TRUE
  /\ UNCHANGED <<captured, heap, calls>>

(* Mutant: the pointer would be copied and left in other. *)
MoveConstructCopying(s, o) ==
  /\ CodeRuns
  /\ ~Exists(s) /\ Exists(o)
  /\ slot' = [slot EXCEPT ![s] = slot[o]]
  /\ UNCHANGED <<captured, heap, stack, unwinding, calls>>

(* one_shot(one_shot&& other): other keeps nothing *)
MoveConstruct(s, o) ==
  /\ CodeRuns
  /\ ~Exists(s) /\ Exists(o)
  /\ slot' = [slot EXCEPT ![s] = slot[o], ![o] = Null]
  /\ UNCHANGED <<captured, heap, stack, unwinding, calls>>

(* Mutant: the target owned before would not be deleted. *)
MoveAssignForgetting(s, o) ==
  /\ CodeRuns
  /\ Exists(s) /\ Exists(o) /\ s # o
  /\ slot' = [slot EXCEPT ![s] = slot[o], ![o] = Null]
  /\ UNCHANGED <<captured, heap, stack, unwinding, calls>>

(***************************************************************************)
(* operator=(one_shot&& other): deletes its own target, then steals.       *)
(* Assignment to itself is guarded by this != &other and changes nothing.  *)
(* Other is taken as the delete begins: what the delete runs, destructors  *)
(* of the closures in that target, reads neither of the two objects.       *)
(***************************************************************************)
MoveAssign(s, o) ==
  /\ CodeRuns
  /\ Exists(s) /\ Exists(o) /\ s # o
  /\ stack' = WithDelete(slot[s])
  /\ slot' = [slot EXCEPT ![s] = slot[o], ![o] = Null]
  /\ UNCHANGED <<captured, heap, unwinding, calls>>

(* ~one_shot(), at the end of a scope or while an exception leaves it *)
Destroy(s) ==
  /\ NoDestructorRuns
  /\ Exists(s)
  /\ stack' = WithDelete(slot[s])
  /\ slot' = [slot EXCEPT ![s] = Absent]
  /\ UNCHANGED <<captured, heap, unwinding, calls>>

-----------------------------------------------------------------------------
(* Mutant: the target would stay in the object while it runs. *)
CallKeepingTarget(s) ==
  /\ CodeRuns
  /\ Holds(s)
  /\ stack' = Append(stack, Invoking(slot[s]))
  /\ calls' = [calls EXCEPT ![slot[s]] = @ + 1]
  /\ UNCHANGED <<slot, captured, heap, unwinding>>

(***************************************************************************)
(* operator()(Args...) &&: the target leaves the object before it runs, so *)
(* the object is empty while the closure executes.  A call on an empty     *)
(* object fails the assertion; it is the caller's duty not to make one.    *)
(***************************************************************************)
Call(s) ==
  /\ CodeRuns
  /\ Holds(s)
  /\ stack' = Append(stack, Invoking(slot[s]))
  /\ calls' = [calls EXCEPT ![slot[s]] = @ + 1]
  /\ slot' = [slot EXCEPT ![s] = Null]
  /\ UNCHANGED <<captured, heap, unwinding>>

(* The running closure calls the one_shot it captured: std::move(k)(r). *)
CallCaptured ==
  /\ CodeRuns
  /\ stack # <<>>
  /\ LET t == Top.target IN
       /\ captured[t] # Null
       /\ stack' = Append(stack, Invoking(captured[t]))
       /\ calls' = [calls EXCEPT ![captured[t]] = @ + 1]
       /\ captured' = [captured EXCEPT ![t] = Null]
  /\ UNCHANGED <<slot, heap, unwinding>>

(* The closure returns: scope_delete deletes the target it was called on. *)
Return ==
  /\ CodeRuns
  /\ stack # <<>>
  /\ stack' = [stack EXCEPT ![Len(stack)] = Deleting(Top.target)]
  /\ UNCHANGED <<slot, captured, heap, unwinding, calls>>

(* Mutant: only a normal return would delete the target. *)
ThrowSkippingCleanup ==
  /\ CodeRuns
  /\ stack # <<>>
  /\ unwinding' = TRUE
  /\ stack' = Popped
  /\ UNCHANGED <<slot, captured, heap, calls>>

(* The closure throws: its scope_delete runs all the same. *)
Throw ==
  /\ CodeRuns
  /\ stack # <<>>
  /\ unwinding' = TRUE
  /\ stack' = [stack EXCEPT ![Len(stack)] = Deleting(Top.target)]
  /\ UNCHANGED <<slot, captured, heap, calls>>

(* The exception leaves the next enclosing call. *)
Unwind ==
  /\ unwinding
  /\ stack # <<>> /\ Top.kind = "invoke"
  /\ stack' = [stack EXCEPT ![Len(stack)] = Deleting(Top.target)]
  /\ UNCHANGED <<slot, captured, heap, unwinding, calls>>

(* An enclosing closure, or the program, catches it. *)
Catch ==
  /\ unwinding /\ NoDestructorRuns
  /\ unwinding' = FALSE
  /\ UNCHANGED <<slot, captured, heap, stack, calls>>

-----------------------------------------------------------------------------
(***************************************************************************)
(* delete target_: ~model_t destroys the closure, hence the one_shot it    *)
(* captured, before the cell itself is released.  A chain of captured      *)
(* continuations is therefore deleted recursively, innermost first.        *)
(***************************************************************************)
DeleteCaptured ==
  /\ stack # <<>> /\ Top.kind = "delete"
  /\ LET t == Top.target IN
       /\ captured[t] # Null
       /\ stack' = Append(stack, Deleting(captured[t]))
       /\ captured' = [captured EXCEPT ![t] = Null]
  /\ UNCHANGED <<slot, heap, unwinding, calls>>

Release ==
  /\ stack # <<>> /\ Top.kind = "delete"
  /\ captured[Top.target] = Null
  /\ heap' = [heap EXCEPT ![Top.target] = "deleted"]
  /\ stack' = Popped
  /\ UNCHANGED <<slot, captured, unwinding, calls>>

Next ==
  \/ \E s \in Slot : DefaultConstruct(s) \/ Destroy(s) \/ Call(s)
  \/ \E s \in Slot, t \in Target : Construct(s, t)
  \/ \E s, k \in Slot, t \in Target : ConstructCapturing(s, t, k)
  \/ \E s, o \in Slot : MoveConstruct(s, o) \/ MoveAssign(s, o) \/ ConstructFails(s, o)
  \/ CallCaptured \/ Return \/ Throw \/ Unwind \/ Catch
  \/ DeleteCaptured \/ Release

Spec == Init /\ [][Next]_vars

-----------------------------------------------------------------------------
(* An activation is calling or deleting t. *)
OnStack(t) == \E i \in DOMAIN stack : stack[i].target = t

(* No two activations are at the same target. *)
StackDistinct == \A i, j \in DOMAIN stack : stack[i].target = stack[j].target => i = j

(***************************************************************************)
(* No pointer anywhere -- in an object, in a closure, in an activation --  *)
(* refers to a cell that is not live: no call or delete ever reaches freed *)
(* memory, however calls, moves, throws and destructors interleave.        *)
(***************************************************************************)
NoDangling ==
  /\ \A s \in Slot : Holds(s) => heap[slot[s]] = "live"
  /\ \A t \in Target :
       captured[t] # Null => heap[t] = "live" /\ heap[captured[t]] = "live"
  /\ \A t \in Target : OnStack(t) => heap[t] = "live"

(***************************************************************************)
(* A target has one owner at a time: two places that hold the same pointer *)
(* would delete it twice.                                                  *)
(***************************************************************************)
SingleOwner ==
  /\ \A s, o \in Slot : Holds(s) /\ slot[s] = slot[o] => s = o
  /\ \A t, u \in Target : captured[t] # Null /\ captured[t] = captured[u] => t = u
  /\ \A s \in Slot, t \in Target : Holds(s) => slot[s] # captured[t]
  /\ \A s \in Slot : Holds(s) => ~OnStack(slot[s])
  /\ \A t \in Target : captured[t] # Null => ~OnStack(captured[t])
  /\ StackDistinct

(* Every live target is held somewhere, so something will delete it. *)
Owned ==
  \A t \in Target :
    heap[t] = "live" =>
      \/ \E s \in Slot : slot[s] = t
      \/ \E u \in Target : captured[u] = t
      \/ OnStack(t)

(***************************************************************************)
(* When all activations have ended and every object is empty or gone, no   *)
(* target is left behind, whether the calls returned or threw.             *)
(***************************************************************************)
NoLeak ==
  stack = <<>> /\ (\A s \in Slot : ~Holds(s)) => \A t \in Target : heap[t] # "live"

(***************************************************************************)
(* The call consumes: no target is entered twice, even when its closure    *)
(* reaches back to the object it was called through (FD4, FD12).           *)
(***************************************************************************)
CalledAtMostOnce == \A t \in Target : calls[t] <= 1

(* A target that has been entered is out of every object and closure. *)
CalledIsGone ==
  \A t \in Target :
    calls[t] # 0 =>
      /\ \A s \in Slot : slot[s] # t
      /\ \A u \in Target : captured[u] # t

(* An unborn target is nowhere referenced and was never called. *)
UnbornIsFresh ==
  \A t \in Target : heap[t] = "unborn" => calls[t] = 0 /\ captured[t] = Null

=============================================================================
