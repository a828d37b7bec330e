--------------------------- MODULE MCFreerTask ----------------------------
(***************************************************************************)
(* Every program whose two functions return, on each of two values, one of *)
(* six small programs, interpreted from three starting points.  The sender *)
(* of get reads and bumps the handler's state when it runs; pick may give  *)
(* either value, and bumps the state for one of them, when the handler is  *)
(* called.  Both operations and g may fail.                                *)
(***************************************************************************)
EXTENDS FreerTask

CONSTANTS get, pick, f, g

Answers ==
  [h \in {0, 1} |-> [op \in {get, pick} |->
     IF op = get THEN {<<1 - h, h>>} ELSE {<<h, 0>>, <<1 - h, 1>>}]]

Bodies ==
  {Pure(0), Pure(1), Send(get), Roll(pick, <<g>>), Roll(get, <<f, g>>), Roll(pick, <<f, f>>)}

AllCodes == [{f, g} -> [{0, 1} -> Bodies]]

Beginnings == {Pure(1), Roll(get, <<f, g>>), Roll(pick, <<g, f, f>>)}

=============================================================================
