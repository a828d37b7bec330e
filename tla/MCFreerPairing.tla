-------------------------- MODULE MCFreerPairing --------------------------
(***************************************************************************)
(* Every program whose two functions return, on each of two values, one of *)
(* six small programs, interpreted from three starting points.  The        *)
(* operation get reads and bumps the handler's state, pick may give either *)
(* value, and pick and g may fail, as may unfolding seed 1.                *)
(***************************************************************************)
EXTENDS FreerPairing

CONSTANTS get, pick, f, g

Answers ==
  [h \in {0, 1} |-> [op \in {get, pick} |->
     IF op = get THEN {<<1 - h, h>>} ELSE {<<h, 0>>, <<h, 1>>}]]

Heads == [h \in {0, 1} |-> IF h = 0 THEN "even" ELSE "odd"]

Bodies ==
  {Pure(0), Pure(1), Send(get), Roll(pick, <<g>>), Roll(get, <<f, g>>), Roll(pick, <<f, f>>)}

AllCodes == [{f, g} -> [{0, 1} -> Bodies]]

Beginnings == {Pure(1), Roll(get, <<f, g>>), Roll(pick, <<g, f, f>>)}

=============================================================================
