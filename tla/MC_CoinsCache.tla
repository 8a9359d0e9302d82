--------------------------- MODULE MC_CoinsCache ---------------------------
(* CoinsCache with the constants the configurations give it as model values. *)
EXTENDS CoinsCache
=============================================================================
