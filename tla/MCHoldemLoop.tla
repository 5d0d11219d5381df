--------------------------- MODULE MCHoldemLoop ---------------------------
(* HoldemLoop on small tables, with the orders of hands of MCHoldemGame. *)
EXTENDS HoldemLoop, MCHoldemGame
=============================================================================
