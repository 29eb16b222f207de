----------------------------- MODULE MCSubmitter -----------------------------
(***************************************************************************)
(* Submitter for TLC.  Intent w1 approves and then deposits; w2 makes the  *)
(* same approval, so that two intents compile to identical calldata.  The  *)
(* process may die once and KeeperHub has an execution for every piece of  *)
(* work.                                                                   *)
(***************************************************************************)
EXTENDS Submitter, TLC, FiniteSets

CONSTANTS w1, w2, approve, deposit

MCWork == {w1, w2}
MCCall == {approve, deposit}
MCBundle == w1 :> <<approve, deposit>> @@ w2 :> <<approve>>
MCSubmits == w1 :> 2 @@ w2 :> 1

\* One intent, for liveness.
MCWork1 == {w1}
MCBundle1 == w1 :> <<approve, deposit>>
MCSubmits1 == w1 :> 2

\* A bundle that makes the same call twice.
MCBundleTwice == w1 :> <<deposit, deposit>>

\* Executions are interchangeable.
IdSymmetry == Permutations(Id)

==============================================================================
