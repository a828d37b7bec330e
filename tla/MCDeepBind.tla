----------------------------- MODULE MCDeepBind -----------------------------
(***************************************************************************)
(* A loop that is not in tail position: f asks again and binds itself and  *)
(* then g to the answer, as bind(bind(send(get), f), g) does, so that each *)
(* round leaves one more g waiting.                                        *)
(***************************************************************************)
EXTENDS FreerRun

CONSTANTS get, f, g

Answers == [h \in {0} |-> [op \in {get} |-> {<<0, 0>>}]]

LoopCodes == {[fn \in {f, g} |-> [v \in {0} |-> IF fn = f THEN Roll(get, <<f, g>>) ELSE Pure(v)]]}

Beginnings == {Roll(get, <<f>>)}

=============================================================================
