------------------------------- MODULE MCInvoke -----------------------------
(***************************************************************************)
(* invoke over Free with a function of three arguments, on every triple of *)
(* small programs whose leaves are strings.                                *)
(***************************************************************************)
EXTENDS SchemeCalls

Programs == {pure_free("x"),
             roll_free(Layer(1, <<pure_free("y")>>)),
             roll_free(Layer(2, <<pure_free("x"), pure_free("y")>>))}

MCJobs == [scheme : {"typeclass"}, op : {"invoke"}, context : {"free"}, fn : {"triple"},
           args : [1..3 -> Programs]]

=============================================================================
