--------------------------- MODULE ConcreteFunctors -------------------------
(***************************************************************************)
(* The base functors of src/smd/concrete/functors.hpp as layers: the       *)
(* alternative of the variant and the value it stores make the label, the  *)
(* boxed positions are the children, so the functor instances are all      *)
(* layer_fmap.  RoseF is a label and a vector of children.  The int of the *)
(* code is an integer here, without its bounds, and so is a text whose     *)
(* words nothing looks at.                                                 *)
(***************************************************************************)
EXTENDS Layers

Alternative(tag, val) == [tag |-> tag, val |-> val]

(* NatF *)
Zero == Layer(Alternative("Zero", 0), <<>>)
Succ(pred) == Layer(Alternative("Succ", 0), <<pred>>)

(* ListF<int, A> *)
Nil == Layer(Alternative("Nil", 0), <<>>)
cons(head, tail) == Layer(Alternative("Cons", head), <<tail>>)

(* TreeF<int, A> *)
Leaf(v) == Layer(Alternative("Leaf", v), <<>>)
Node(l, r) == Layer(Alternative("Node", 0), <<l, r>>)

(* ExprF *)
Const(v) == Layer(Alternative("Const", v), <<>>)
Add(l, r) == Layer(Alternative("Add", 0), <<l, r>>)
Mul(l, r) == Layer(Alternative("Mul", 0), <<l, r>>)

(* What std::visit tells an algebra, and the members of the alternative. *)
holds(layer, tag) == layer.label.tag = tag
head(layer) == layer.label.val
only(layer) == layer.kids[1]          \* pred of a Succ, tail of a Cons
left(layer) == layer.kids[1]
right(layer) == layer.kids[2]

make_zero == wrap_fix(Zero)
make_succ(n) == wrap_fix(Succ(n))
make_leaf(v) == wrap_fix(Leaf(v))
make_node(l, r) == wrap_fix(Node(l, r))
const_node(v) == wrap_fix(Const(v))
add_node(l, r) == wrap_fix(Add(l, r))
mul_node(l, r) == wrap_fix(Mul(l, r))
rose_node(label, children) == wrap_fix(Layer(Alternative("Rose", label), children))

(* The coalgebras of nat_from_int and list_from_vector, whose seed is an   *)
(* index from 0.                                                           *)
countdown(m) == IF m <= 0 THEN Zero ELSE Succ(m - 1)
from_vector(v, i) == IF i >= Len(v) THEN Nil ELSE cons(v[i + 1], i + 1)

(* The algebras of nat_to_int, list_to_vector and eval. *)
count_algebra(layer) == IF holds(layer, "Zero") THEN 0 ELSE only(layer) + 1
to_vector(layer) == IF holds(layer, "Nil") THEN <<>> ELSE <<head(layer)>> \o only(layer)
eval_algebra(layer) ==
  CASE holds(layer, "Const") -> head(layer)
    [] holds(layer, "Add") -> left(layer) + right(layer)
    [] holds(layer, "Mul") -> left(layer) * right(layer)

(* The trees nat_from_int and list_from_vector build, for the calls that   *)
(* are handed one.                                                         *)
RECURSIVE nat(_), list(_)
nat(n) == IF n = 0 THEN make_zero ELSE make_succ(nat(n - 1))
list(v) == IF v = <<>> THEN wrap_fix(Nil) ELSE wrap_fix(cons(Head(v), list(Tail(v))))

=============================================================================
