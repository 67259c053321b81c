------------------------------ MODULE MCEffects ------------------------------
(* A small instance of Effects.                                             *)
EXTENDS Effects
=============================================================================
