------------------------------- MODULE MCKeeper -------------------------------
(***************************************************************************)
(* A wallet with one share and one token.  One command line creates a      *)
(* workflow or exits; the other exits, runs or switches it, retries the    *)
(* first or overlaps with it.                                              *)
(***************************************************************************)
EXTENDS Keeper, TLC

CONSTANTS other, c1, c2

MCAccount == {Wallet, other}
MCCmd == {c1, c2}
MCMay ==
    c1 :> {"guard_deploy", "keeper_deploy", "exit"} @@
    c2 :> {"exit", "guard_run", "keeper_run", "keeper_enable"}
==============================================================================
