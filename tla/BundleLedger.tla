---------------------------- MODULE BundleLedger ----------------------------
(***************************************************************************)
(* What executing Almanak bundles through KeeperHub promises, with neither *)
(* requests nor retries nor crashes in it: every piece of work reaches the *)
(* chain in at most one transaction, and a transaction of a bundle reaches *)
(* the chain only after every earlier one of the bundle has succeeded.     *)
(*                                                                         *)
(* A piece of work is an intent and the call it makes.  Submitter refines  *)
(* this module.                                                            *)
(***************************************************************************)
EXTENDS Naturals, Sequences

CONSTANTS
    Work,     \* intents, by Almanak's intent id
    Call,     \* what a transaction of a bundle calls
    Bundle,   \* the calls an intent compiles to, in order
    Tx,       \* transactions, by hash
    NoWork    \* what a transaction that was never broadcast carries

VARIABLES
    carries,  \* the piece of work each transaction carries
    landed    \* the transactions that succeeded on the chain

ledgerVars == <<carries, landed>>

LedgerInit ==
    /\ carries = [t \in Tx |-> NoWork]
    /\ landed = {}

\* The transaction that carries the i-th call of w is broadcast.
Broadcast(t, w, i) ==
    /\ carries[t] = NoWork
    /\ \A u \in Tx : carries[u] # <<w, Bundle[w][i]>>
    /\ \A j \in 1 .. i - 1 : \E u \in landed : carries[u] = <<w, Bundle[w][j]>>
    /\ carries' = [carries EXCEPT ![t] = <<w, Bundle[w][i]>>]
    /\ UNCHANGED landed

\* A broadcast transaction succeeds.
Land(t) ==
    /\ carries[t] # NoWork
    /\ landed' = landed \union {t}
    /\ UNCHANGED carries

LedgerNext ==
    \E t \in Tx :
        \/ \E w \in Work : \E i \in DOMAIN Bundle[w] : Broadcast(t, w, i)
        \/ Land(t)

LedgerSpec == LedgerInit /\ [][LedgerNext]_ledgerVars

==============================================================================
