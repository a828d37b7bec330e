---------------------------- MODULE MCFreerRow ----------------------------
(***************************************************************************)
(* A row of three signatures with one operation each: clock and net are    *)
(* discharged in that order, disk is left to run.  Every program whose two *)
(* functions return one of five small programs on each of two values.      *)
(***************************************************************************)
EXTENDS FreerRow

CONSTANTS clock, net, disk, f, g

Layers == [op \in Op |-> CASE op = clock -> 1 [] op = net -> 2 [] op = disk -> 3]

(* clock counts modulo two, net may answer either value, disk repeats its state. *)
Answers ==
  [h \in {0, 1} |-> [op \in Op |->
     CASE op = clock -> {<<1 - h, h>>}
       [] op = net -> {<<h, 0>>, <<1 - h, 1>>}
       [] op = disk -> {<<1, h>>}]]

Bodies == {Pure(0), Pure(1), Send(disk), Roll(clock, <<f>>), Roll(net, <<f, g>>)}

AllCodes == [{f, g} -> [{0, 1} -> Bodies]]

Beginnings == {Pure(1), Roll(net, <<f, g>>), Roll(disk, <<g, f>>)}
=============================================================================
