-------------------------- MODULE MCOptionalValue --------------------------
(* A small instance of OptionalValue for TLC: a conversion that keeps 1 and 2 and
   takes 3 to 2. *)
EXTENDS OptionalValue

MCConvert == [v \in Values |-> IF v = 3 THEN 2 ELSE v]
=============================================================================
