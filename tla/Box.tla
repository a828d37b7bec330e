-------------------------------- MODULE Box --------------------------------
(***************************************************************************)
(* Box<A>: a nullable owning pointer with deep-copy value semantics        *)
(* (src/smd/fixpoint/box.hpp), at a type A whose members are more boxes,   *)
(* which is how every tree of the library is built.                        *)
(*                                                                         *)
(* A place holds one Box: a variable of the program, or a field of a live  *)
(* cell.  The program names a place by a variable and the fields to follow *)
(* from it, as in b->left->right.  Copying and destroying an A does the  *)
(* same to its members, so both go through the whole tree; a copy that     *)
(* throws half way is undone by the language, which leaves nothing of it.  *)
(* The two assignment operators delete first and read their argument       *)
(* afterwards, and there they can be seen half done.                       *)
(***************************************************************************)
EXTENDS Naturals, FiniteSets, SequencesExt

CONSTANTS
  Slot,      \* the Box variables of the program
  Cell,      \* heap cells, never reused once deleted
  Field,     \* the Box members of A
  Null,      \* an empty ptr
  Absent,    \* the variable does not exist
  Aliased,   \* may an assignment be from a place inside its target, or around it?
  MayThrow   \* the targets, "null" or "box", of copy assignments whose copy may throw

ASSUME BoxAssumption ==
  /\ IsFiniteSet(Cell)
  /\ Slot \cap (Cell \X Field) = {}
  /\ Null # Absent /\ Null \notin Cell /\ Absent \notin Cell
  /\ Aliased \in BOOLEAN /\ MayThrow \subseteq {"null", "box"}

VARIABLES
  ptr,         \* ptr[p]: the cell that the Box at place p points to
  heap,        \* heap[c]: is the cell still to be allocated, live, or deleted
  assigning,   \* the assignment that has deleted its target's old value
  value        \* value[s]: the tree that s stands for, as if copied (history)

vars == <<ptr, heap, assigning, value>>

Place == Slot \cup (Cell \X Field)

(* A tree is the set of the paths to its nodes; the null Box is the empty one. *)
Path == UNION {[1 .. n -> Field] : n \in 0 .. Cardinality(Cell)}

(* The nodes of the tree the Box at p holds, each with its path, level by level. *)
Root(p) == {<<<<>>, ptr[p]>>} \cap ({<<>>} \X Cell)

Children(node) ==
  {<<Append(node[1], f), ptr[<<node[2], f>>]>> : f \in {fd \in Field : ptr[<<node[2], fd>>] # Null}}

Nodes(p) ==
  LET level[n \in 0 .. Cardinality(Cell)] ==
        IF n = 0 THEN Root(p) ELSE UNION {Children(node) : node \in level[n - 1]}
  IN  UNION {level[n] : n \in 0 .. Cardinality(Cell)}

Tree(p) == {x[1] : x \in Nodes(p)}
CellsOf(p) == {x[2] : x \in Nodes(p)}

(* The paths by which the program may name a place from s. *)
Names(s) ==
  IF ptr[s] = Absent THEN {}
  ELSE {<<>>} \cup {Append(q, f) : q \in Tree(s), f \in Field}

At(s, path) ==
  IF path = <<>> THEN s
  ELSE <<CHOOSE c \in Cell : <<Front(path), c>> \in Nodes(s), Last(path)>>

Free == {c \in Cell : heap[c] = "free"}

Value == {Absent} \cup SUBSET Seq(Field)

Nothing == [kind |-> "none"]
Assignment ==
  {Nothing} \cup [kind : {"copy", "move"}, to : Place, from : Place, due : [Slot -> Value]]
Idle == assigning = Nothing

TypeOK ==
  /\ ptr \in [Place -> Cell \cup {Null, Absent}]
  /\ \A p \in Cell \X Field : ptr[p] # Absent
  /\ heap \in [Cell -> {"free", "live", "deleted"}]
  /\ assigning \in Assignment
  /\ value \in [Slot -> Value]

Init ==
  /\ ptr = [p \in Place |-> IF p \in Slot THEN Absent ELSE Null]
  /\ heap = [c \in Cell |-> "free"]
  /\ assigning = Nothing
  /\ value = [s \in Slot |-> Absent]

-----------------------------------------------------------------------------
(* What value semantics makes of a variable: read, and written, at a path. *)
Read(v, path) == {q \in Path : path \o q \in v}
Write(v, path, w) == {q \in v : ~IsPrefix(path, q)} \cup {path \o q : q \in w}

(* The pointers once p holds a copy, in the cells g, of the tree at place o. *)
Copied(p, o, g) ==
  LET Link(q) == IF q \in Tree(o) THEN g[q] ELSE Null IN
    [x \in Place |->
       IF x = p THEN Link(<<>>)
       ELSE IF \E q \in Tree(o), f \in Field : x = <<g[q], f>>
         THEN LET q == CHOOSE q \in Tree(o) : g[q] = x[1] IN Link(Append(q, x[2]))
         ELSE ptr[x]]

Allocated(g) == [c \in Cell |-> IF c \in Range(g) THEN "live" ELSE heap[c]]

DefaultConstruct(s) ==
  /\ Idle /\ ptr[s] = Absent
  /\ ptr' = [ptr EXCEPT ![s] = Null]
  /\ value' = [value EXCEPT ![s] = {}]
  /\ UNCHANGED <<heap, assigning>>

(* make_box<A>() *)
MakeBox(s, c) ==
  /\ Idle /\ ptr[s] = Absent
  /\ c \in Free
  /\ ptr' = [ptr EXCEPT ![s] = c]
  /\ heap' = [heap EXCEPT ![c] = "live"]
  /\ value' = [value EXCEPT ![s] = {<<>>}]
  /\ UNCHANGED assigning

(* Mutant: the copy would share what it points to. *)
CopyConstructShallow(s, o, path) ==
  /\ Idle /\ ptr[s] = Absent
  /\ ptr' = [ptr EXCEPT ![s] = ptr[At(o, path)]]
  /\ value' = [value EXCEPT ![s] = Read(value[o], path)]
  /\ UNCHANGED <<heap, assigning>>

(* Mutant: only the node itself would be copied, with empty members. *)
CopyConstructTop(s, o, path) ==
  /\ Idle /\ ptr[s] = Absent
  /\ ptr[At(o, path)] # Null
  /\ \E c \in Free :
       /\ ptr' = [ptr EXCEPT ![s] = c]
       /\ heap' = [heap EXCEPT ![c] = "live"]
  /\ value' = [value EXCEPT ![s] = Read(value[o], path)]
  /\ UNCHANGED assigning

(* Box(Box const &other); one that throws changes nothing. *)
CopyConstruct(s, o, path) ==
  /\ Idle /\ ptr[s] = Absent
  /\ \E g \in Injection(Tree(At(o, path)), Free) :
       /\ ptr' = Copied(s, At(o, path), g)
       /\ heap' = Allocated(g)
  /\ value' = [value EXCEPT ![s] = Read(value[o], path)]
  /\ UNCHANGED assigning

(* Mutant: the moved-from Box would be treated as destroyed. *)
MoveConstructErasing(s, o, path) ==
  /\ Idle /\ ptr[s] = Absent
  /\ ptr' = [ptr EXCEPT ![s] = ptr[At(o, path)], ![At(o, path)] = Absent]
  /\ value' = [value EXCEPT ![s] = Read(value[o], path), ![o] = Write(@, path, {})]
  /\ UNCHANGED <<heap, assigning>>

(* Box(Box &&other), and the members of an A moved out of *std::move(b) *)
MoveConstruct(s, o, path) ==
  /\ Idle /\ ptr[s] = Absent
  /\ ptr' = [ptr EXCEPT ![s] = ptr[At(o, path)], ![At(o, path)] = Null]
  /\ value' = [value EXCEPT ![s] = Read(value[o], path), ![o] = Write(@, path, {})]
  /\ UNCHANGED <<heap, assigning>>

Deleted(p) == [c \in Cell |-> IF c \in CellsOf(p) THEN "deleted" ELSE heap[c]]

(* One of the two places is inside what the other points to. *)
Overlap(s, p, o, q) == s = o /\ p # q /\ (IsPrefix(p, q) \/ IsPrefix(q, p))

(* Moving a Box into its own inside is meaningless; copying it there is not. *)
Assignable(kind, s, p, o, q) ==
  /\ Idle
  /\ Overlap(s, p, o, q) => Aliased
  /\ kind = "move" /\ s = o /\ p # q => ~IsPrefix(q, p)
  /\ kind = "copy" => Cardinality(Tree(At(o, q))) <= Cardinality(Free)

(* The values once the target has been given the argument's, as it was before. *)
Assigned(kind, s, p, o, q) ==
  LET emptied == IF kind = "copy" THEN value ELSE [value EXCEPT ![o] = Write(@, q, {})] IN
    [emptied EXCEPT ![s] = Write(@, p, Read(value[o], q))]

(* Mutant: self-assignment would not be told apart. *)
AssignUnchecked(kind, s, p, o, q) ==
  /\ Assignable(kind, s, p, o, q)
  /\ heap' = Deleted(At(s, p))
  /\ assigning' = [kind |-> kind, to |-> At(s, p), from |-> At(o, q),
                    due |-> Assigned(kind, s, p, o, q)]
  /\ UNCHANGED <<ptr, value>>

(* Mutant: the old value would be forgotten, not deleted. *)
AssignForgetting(kind, s, p, o, q) ==
  /\ Assignable(kind, s, p, o, q)
  /\ At(s, p) # At(o, q)
  /\ assigning' = [kind |-> kind, to |-> At(s, p), from |-> At(o, q),
                    due |-> Assigned(kind, s, p, o, q)]
  /\ UNCHANGED <<ptr, heap, value>>

(* operator=, up to and including delete ptr *)
Assign(kind, s, p, o, q) ==
  /\ Assignable(kind, s, p, o, q)
  /\ At(s, p) # At(o, q)
  /\ heap' = Deleted(At(s, p))
  /\ assigning' = [kind |-> kind, to |-> At(s, p), from |-> At(o, q),
                    due |-> Assigned(kind, s, p, o, q)]
  /\ UNCHANGED <<ptr, value>>

(* ptr = std::exchange(other.ptr, nullptr) *)
FinishMove ==
  /\ assigning.kind = "move"
  /\ ptr' = [ptr EXCEPT ![assigning.to] = ptr[assigning.from], ![assigning.from] = Null]
  /\ value' = assigning.due
  /\ assigning' = Nothing
  /\ UNCHANGED heap

(* ptr = other.ptr ? new A( *other.ptr) : nullptr *)
FinishCopy ==
  /\ assigning.kind = "copy"
  /\ \E g \in Injection(Tree(assigning.from), Free) :
       /\ ptr' = Copied(assigning.to, assigning.from, g)
       /\ heap' = Allocated(g)
  /\ value' = assigning.due
  /\ assigning' = Nothing

(* The copy throws out of operator=, with ptr as it was. *)
CopyThrows ==
  /\ assigning.kind = "copy"
  /\ (IF ptr[assigning.to] = Null THEN "null" ELSE "box") \in MayThrow
  /\ ptr[assigning.from] # Null
  /\ assigning' = Nothing
  /\ UNCHANGED <<ptr, heap, value>>

(* ~Box() *)
Destroy(s) ==
  /\ Idle /\ ptr[s] # Absent
  /\ heap' = Deleted(s)
  /\ ptr' = [ptr EXCEPT ![s] = Absent]
  /\ value' = [value EXCEPT ![s] = Absent]
  /\ UNCHANGED assigning

Next ==
  \/ \E s \in Slot : DefaultConstruct(s) \/ Destroy(s)
  \/ \E s \in Slot, c \in Cell : MakeBox(s, c)
  \/ \E s, o \in Slot : \E q \in Names(o) : CopyConstruct(s, o, q) \/ MoveConstruct(s, o, q)
  \/ \E kind \in {"copy", "move"}, s, o \in Slot :
       \E p \in Names(s), q \in Names(o) : Assign(kind, s, p, o, q)
  \/ FinishMove \/ FinishCopy
  \/ CopyThrows

Spec == Init /\ [][Next]_vars

-----------------------------------------------------------------------------
(* There is a Box at the place. *)
HasBox(p) == IF p \in Slot THEN ptr[p] # Absent ELSE heap[p[1]] = "live"

(***************************************************************************)
(* box.hpp:10, "owning pointer": no Box points to a deleted cell, but for  *)
(* the target of an assignment under way, and what that assignment is to   *)
(* read is still there.                                                    *)
(***************************************************************************)
NoDangling ==
  /\ \A p \in Place :
       HasBox(p) /\ ptr[p] \in Cell /\ (~Idle => p # assigning.to) => heap[ptr[p]] = "live"
  /\ ~Idle => HasBox(assigning.from) /\ \A c \in CellsOf(assigning.from) : heap[c] = "live"

(* No two boxes own the same cell, whatever was copied, moved or assigned. *)
SingleOwner ==
  \A p, q \in Place : HasBox(p) /\ HasBox(q) /\ ptr[p] \in Cell /\ ptr[p] = ptr[q] => p = q

(* A cell lives as long as a variable's tree has it. *)
NoLeak ==
  \A c \in Cell : heap[c] = "live" => \E s \in Slot : c \in CellsOf(s)

(***************************************************************************)
(* box.hpp:10, "deep-copy value semantics": each variable holds the tree   *)
(* it was given, and no operation on another variable changes it.          *)
(***************************************************************************)
ValueSemantics ==
  Idle => \A s \in Slot : value[s] = IF ptr[s] = Absent THEN Absent ELSE Tree(s)

=============================================================================
