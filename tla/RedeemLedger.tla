---------------------------- MODULE RedeemLedger ----------------------------
(***************************************************************************)
(* What leaving the vault under a guard promises, with neither commands    *)
(* nor requests, answers, retries, workflows or deaths in it: a decision   *)
(* gets one redeem; the redeem goes out only once the wallet was seen to   *)
(* hold what it takes, takes that and nothing else, and has one end.       *)
(* Keeper refines this module.                                             *)
(***************************************************************************)
EXTENDS Naturals

CONSTANTS
    RedeemId,   \* the redeems there can be
    NoDecision  \* what one that was never asked for carries out

VARIABLES
    redeems,    \* per redeem: the decision it carries out, its amount, its state
    position    \* the shares of the wallet

ledgerVars == <<redeems, position>>

Unasked == [decision |-> NoDecision, amount |-> 0, state |-> "none"]

LedgerInit == redeems = [r \in RedeemId |-> Unasked] /\ position \in Nat

Becomes(r, state) == redeems' = [redeems EXCEPT ![r].state = state]

\* A decision that has no redeem gets one, which may be admitted at once.
Ask(r, new) ==
    /\ redeems[r] = Unasked
    /\ \/ new.state = "asked"
       \/ new.state = "admitted" /\ new.amount <= position
    /\ \A s \in RedeemId : redeems[s].state # "none" => redeems[s].decision # new.decision
    /\ redeems' = [redeems EXCEPT ![r] = new]
    /\ UNCHANGED position

Admit(r) ==
    /\ redeems[r].state = "asked" /\ redeems[r].amount <= position
    /\ Becomes(r, "admitted")
    /\ UNCHANGED position

Refuse(r) ==
    /\ redeems[r].state = "asked" /\ redeems[r].amount > position
    /\ Becomes(r, "refused")
    /\ UNCHANGED position

Land(r) ==
    /\ redeems[r].state = "admitted"
    /\ redeems[r].amount <= position
    /\ position' = position - redeems[r].amount
    /\ Becomes(r, "landed")

Fail(r) ==
    /\ redeems[r].state \in {"asked", "admitted"}
    /\ Becomes(r, "failed")
    /\ UNCHANGED position

\* Others, and the wallet's other calls, move the position.
Elsewhere == UNCHANGED redeems /\ position' \in Nat

LedgerNext ==
    \/ Elsewhere
    \/ \E r \in RedeemId :
          Ask(r, redeems'[r]) \/ Admit(r) \/ Refuse(r) \/ Land(r) \/ Fail(r)

LedgerSpec == LedgerInit /\ [][LedgerNext]_ledgerVars

==============================================================================
