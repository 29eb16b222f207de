------------------------------ MODULE MCStrategy ------------------------------
(***************************************************************************)
(* Three tokens: a first deposit of one, one to compound an hour later and *)
(* one for another hour later; two reads to confirm an exit.               *)
(***************************************************************************)
EXTENDS Strategy
==============================================================================
