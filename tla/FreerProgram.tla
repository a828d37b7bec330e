---------------------------- MODULE FreerProgram ----------------------------
(***************************************************************************)
(* Freer programs as data (src/smd/fixpoint/free.hpp, freer.hpp).          *)
(*                                                                         *)
(* A program is either Pure(v) or Roll(op, k): one suspended operation     *)
(* with the continuation that takes its response.  send builds Roll(op,    *)
(* <<>>), whose continuation only wraps the response in Pure.  fmap on the *)
(* layer post-composes one closure onto the stored continuation without    *)
(* running it, so a continuation is the sequence of functions bound to the *)
(* operation, the first bound first.                                       *)
(*                                                                         *)
(* A function bound by the program is opaque code from a value to a        *)
(* program.  code[f][v] is what f returns on v, so a set of such tables is *)
(* a set of C++ programs, and a statement about every table is one about   *)
(* every program.                                                          *)
(***************************************************************************)
EXTENDS Naturals, Sequences

CONSTANTS
  Op,     \* the operations of the signature
  Val,    \* responses and results
  Fn,     \* the functions the program binds
  Refused,       \* stands in a log where an operation got no response
  RefusedOps,    \* the operations whose handling may fail
  ThrowingFns,   \* the bound functions that may throw
  Codes,         \* the tables of bound functions considered
  Starts,        \* the programs handed to an interpreter
  MaxEffects     \* a bound: handlers refuse every operation after this many

Pure(v) == [tag |-> "Pure", val |-> v]
Roll(op, k) == [tag |-> "Roll", op |-> op, k |-> k]

PureProgram == [tag : {"Pure"}, val : Val]
RollProgram == [tag : {"Roll"}, op : Op, k : Seq(Fn)]
Program == PureProgram \cup RollProgram

IsPure(p) == p.tag = "Pure"

Code == [Fn -> [Val -> Program]]

ASSUME ProgramAssumption ==
  /\ Refused \notin Val
  /\ Codes \subseteq Code
  /\ Starts \subseteq Program
  /\ MaxEffects \in Nat

(* send<Sig>(op) *)
Send(op) == Roll(op, <<>>)

(* Mutant: the function bound last would run first. *)
BindFirst(p, f) == Roll(p.op, <<f>> \o p.k)

(***************************************************************************)
(* The consuming bind on a suspended program: layer_fmap over its one      *)
(* operation, which is O(1) and runs nothing.                              *)
(***************************************************************************)
BindLater(p, f) == Roll(p.op, Append(p.k, f))

(* The consuming bind: a Pure program enters f at once. *)
Bind(code, p, f) == IF IsPure(p) THEN code[f][p.val] ELSE BindLater(p, f)

-----------------------------------------------------------------------------
(***************************************************************************)
(* Where a program stands when the functions tail wait for its value: at a *)
(* value, or at a request whose answer its own functions take first.       *)
(***************************************************************************)
Value(v) == [at |-> "value", val |-> v]
Request(op) == [at |-> "request", op |-> op]
Gone == [at |-> "gone"]

Focus == [at : {"value"}, val : Val] \cup [at : {"request"}, op : Op] \cup {Gone}

FocusOf(p) == IF IsPure(p) THEN Value(p.val) ELSE Request(p.op)
RestOf(p, tail) == IF IsPure(p) THEN tail ELSE p.k \o tail

(* One line of an interpreter's log: a request and its answer. *)
LogEntry == [op : Op, ans : Val \cup {Refused}]

=============================================================================
