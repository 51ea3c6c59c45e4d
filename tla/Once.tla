--------------------------------- MODULE Once ---------------------------------
(* F of a value that is computed once, before F is.                         *)
With(x, F(_)) == [v \in {x} |-> F(v)][x]
=============================================================================
