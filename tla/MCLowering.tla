------------------------------ MODULE MCLowering -----------------------------
(* Model-checking instance of Lowering. *)
EXTENDS Lowering

\* Conditions of every lowered program yield a value.
ValuesOnly == {"value"}

\* A condition may also be the call of a function that returns void.
ValuesOrVoid == {"value", "nothing"}
=============================================================================
