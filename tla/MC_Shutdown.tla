----------------------------- MODULE MC_Shutdown -----------------------------
(* Module Shutdown for TLC. *)
EXTENDS Shutdown
=============================================================================
