------------------------------ MODULE SenderDot -----------------------------
(***************************************************************************)
(* src/smd/concrete/sender_dot.hpp: a sender expression becomes a rose     *)
(* tree, reify_sender, and the tree a digraph, to_dot.  A sender that the  *)
(* library can take apart is its tag's type, its data's type and its       *)
(* children; any other object is its type.  A text is the sequence of its  *)
(* tokens, so a type is spelled <<"ex", "::", "then", "_t", "<", ...>>.    *)
(***************************************************************************)
EXTENDS ConcreteFunctors

(* The leaf identifier of a type: without template arguments, namespaces   *)
(* and a trailing _t.                                                      *)
short_type_name(full) ==
  LET angle == SelectInSeq(full, LAMBDA w : w = "<")
      spelled == IF angle = 0 THEN full ELSE SubSeq(full, 1, angle - 1)
      colons == SelectLastInSeq(spelled, LAMBDA w : w = "::")
      leaf == SubSeq(spelled, colons + 1, Len(spelled))
  IN IF IsSuffix(<<"_t">>, leaf) THEN Front(leaf) ELSE leaf

(* The channel a tag is pinned to, when it is not the value's. *)
pinned_to(full, channel) ==
  \E i \in 2..Len(full) : full[i - 1] = channel /\ full[i] = "_t"
tag_display_name(full) ==
  short_type_name(full) \o
    (CASE pinned_to(full, "set_error") -> <<"/error">>
       [] pinned_to(full, "set_stopped") -> <<"/stopped">>
       [] OTHER -> <<>>)

sender_node_info(tag_name, data_type) == [tag_name |-> tag_name, data_type |-> data_type]
SenderTreeF(info, children) == Layer(Alternative("Rose", info), children)

(* One layer of reify_sender, whose children are still senders. *)
reify_layer(sndr) ==
  IF "tag" \in DOMAIN sndr
  THEN LET data_type == short_type_name(sndr.data) IN
       SenderTreeF(sender_node_info(tag_display_name(sndr.tag),
                                    IF data_type = <<"make_sender_empty">> THEN <<>> ELSE data_type),
                   sndr.children)
  ELSE SenderTreeF(sender_node_info(short_type_name(sndr.type), <<>>), <<>>)

RECURSIVE reify_sender(_)
reify_sender(sndr) == wrap_fix(layer_fmap(reify_sender, reify_layer(sndr)))

-----------------------------------------------------------------------------
dot_escape(text) ==
  [i \in DOMAIN text |->
     CASE text[i] = "\"" -> "\\\""
       [] text[i] = "\\" -> "\\\\"
       [] text[i] = "\n" -> "\\n"
       [] OTHER -> text[i]]

(* The two kinds of lines. *)
node_line(id, info) ==
  [node |-> id,
   label |-> dot_escape(info.tag_name)
               \o (IF info.data_type = <<>> THEN <<>> ELSE <<"\\n">> \o dot_escape(info.data_type))]
edge_line(from, to) == [from |-> from, to |-> to]

(* What the algebra returns is the closure it makes: a label and the       *)
(* closures of the children, to be run from the next free id.              *)
dot_program(layer) == [label |-> head(layer), kids |-> layer.kids]

(* Mutant: a child would start at the id after its elder sibling's root. *)
RECURSIVE run_near(_)
run_near(program) ==
  [next \in Nat |->
     LET kid_text(done, kid) ==
           LET sub == run_near(kid)[done.next_id] IN
           [done EXCEPT !.next_id = sub.node_id + 1,
                        !.text = @ \o sub.text \o <<edge_line(next, sub.node_id)>>]
     IN FoldLeft(kid_text,
                 [node_id |-> next, next_id |-> next + 1,
                  text |-> <<node_line(next, program.label)>>],
                 program.kids)]

(* The closure, called with the next free id: the subtree takes the ids    *)
(* from there on, in preorder.                                             *)
RECURSIVE run_program(_)
run_program(program) ==
  [next \in Nat |->
     LET kid_text(done, kid) ==
           LET sub == run_program(kid)[done.next_id] IN
           [done EXCEPT !.next_id = sub.next_id,
                        !.text = @ \o sub.text \o <<edge_line(next, sub.node_id)>>]
     IN FoldLeft(kid_text,
                 [node_id |-> next, next_id |-> next + 1,
                  text |-> <<node_line(next, program.label)>>],
                 program.kids)]

(* The lines between the braces of the digraph. *)
to_dot(program) == run_program(program)[0].text

=============================================================================
