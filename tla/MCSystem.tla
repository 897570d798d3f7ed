------------------------------ MODULE MCSystem ------------------------------
(* Small instances of System. *)
EXTENDS System

CONSTANTS g1, i1, i2
============================================================================
