-------------------------------- MODULE Layers ------------------------------
(***************************************************************************)
(* One layer of a base functor, and the types built from layers.  A layer  *)
(* is a label and a sequence of children: RoseF as it stands; NatF, ListF, *)
(* TreeF and ExprF are the layers whose label fixes the number of          *)
(* children.                                                               *)
(***************************************************************************)
EXTENDS Integers, SequencesExt

Layer(label, kids) == [label |-> label, kids |-> kids]

(* fmap: the children are mapped front to back, the label is kept.  The    *)
(* concatenation changes nothing: without it TLC would map a child again   *)
(* on every access.                                                        *)
layer_fmap(fn(_), layer) ==
  [layer EXCEPT !.kids = <<>> \o [k \in 1..Len(@) |-> fn(@[k])]]

(* Fix<F> *)
wrap_fix(layer) == [inner |-> layer]
unwrap_fix(fixed) == fixed.inner

(* either<L, R>; Left stops *)
Left(v) == [side |-> "Left", left |-> v]
Right(v) == [side |-> "Right", right |-> v]

(* std::pair *)
Pair(a, b) == [first |-> a, second |-> b]
First(p) == p.first
Second(p) == p.second

(* Cofree<F, A> *)
Cofree(head, tail) == [head |-> head, tail |-> tail]
extract(c) == c.head
unwrap_cofree(c) == c.tail

(* Free<F, A> over such a layer *)
pure_free(a) == [node |-> "Pure", value |-> a]
roll_free(layer) == [node |-> "Roll", layer |-> layer]
is_pure(f) == f.node = "Pure"

(* Whether a call is given an argument of that name. *)
names(job, what) == what \in DOMAIN job

=============================================================================
