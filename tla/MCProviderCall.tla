--------------------------- MODULE MCProviderCall ---------------------------
(* The expiries are 1 and 2, so that a clock of four instants passes both. *)
EXTENDS ProviderCall
=============================================================================
