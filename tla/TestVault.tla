------------------------------ MODULE TestVault ------------------------------
(***************************************************************************)
(* contracts/TestVault.sol: a dependency-free ERC-4626 over one token.     *)
(* Every external function that writes is an action of the account that    *)
(* calls it.  A call that reverts - a failed require, a subtraction below  *)
(* zero, a sum or a product past MaxUint, a division by zero - is not      *)
(* enabled.  Nothing stops a call from naming the vault itself, as the     *)
(* receiver of shares or of tokens.                                        *)
(* View functions are the operators the writing ones use.                  *)
(***************************************************************************)
EXTENDS Integers

CONSTANTS
    Account,  \* who calls the vault
    Vault,    \* the contract's own account of the token
    MaxUint,  \* type(uint256).max
    Amount,   \* bound: the arguments calls are made with
    Spender   \* bound: who is given an allowance

Holder == Account \union {Vault}

ASSUME VaultAssumption ==
    /\ Vault \notin Account
    /\ MaxUint \in Nat \ {0}
    /\ Amount \subseteq 0 .. MaxUint
    /\ Spender \subseteq Holder

VARIABLES
    supply,    \* totalSupply
    shares,    \* balanceOf
    allowance, \* allowance[owner][spender]
    tokens     \* the token's balances, the vault's among them

vault == <<supply, shares, allowance, tokens>>
Uint == 0 .. MaxUint

TotalAssets == tokens[Vault]

\* x * y / z in checked arithmetic: does it revert, and its value.
Computes(x, y, z) == z # 0 /\ x * y <= MaxUint
Quotient(x, y, z) == (x * y) \div z

SharesFor(a) == supply = 0 \/ Computes(a, supply, TotalAssets)
ConvertToShares(a) ==
    IF supply = 0 THEN a ELSE Quotient(a, supply, TotalAssets)

AssetsFor(s) == supply = 0 \/ Computes(s, TotalAssets, supply)
ConvertToAssets(s) ==
    IF supply = 0 THEN s ELSE Quotient(s, TotalAssets, supply)

\* The token moves, if its holder has that much (the token is external).
Pay(from, to, a) ==
    /\ a <= tokens[from]
    /\ tokens' = [[tokens EXCEPT ![from] = @ - a] EXCEPT ![to] = @ + a]

\* Faulty: the subtraction is not checked.
SpendUnchecked(owner, spender, s) ==
    allowance' = [allowance EXCEPT ![owner][spender] = @ - s]

\* The allowance a spender uses up; an infinite one is not touched.
Spend(owner, spender, s) ==
    \/ /\ allowance[owner][spender] = MaxUint
       /\ UNCHANGED allowance
    \/ /\ allowance[owner][spender] # MaxUint
       /\ s <= allowance[owner][spender]
       /\ allowance' = [allowance EXCEPT ![owner][spender] = @ - s]

SpendAllowance(sender, owner, s) ==
    \/ sender = owner /\ UNCHANGED allowance
    \/ sender # owner /\ Spend(owner, sender, s)

Mint(to, s) ==
    /\ supply + s <= MaxUint
    /\ shares[to] + s <= MaxUint
    /\ supply' = supply + s
    /\ shares' = [shares EXCEPT ![to] = @ + s]

\* Faulty: the shares go, the total stays.
BurnKeepsSupply(from, s) ==
    /\ s <= shares[from]
    /\ shares' = [shares EXCEPT ![from] = @ - s]
    /\ UNCHANGED supply

Burn(from, s) ==
    /\ s <= shares[from] /\ s <= supply
    /\ shares' = [shares EXCEPT ![from] = @ - s]
    /\ supply' = supply - s

Move(from, to, s) ==
    /\ s <= shares[from]
    /\ to # from => shares[to] + s <= MaxUint
    /\ shares' = [[shares EXCEPT ![from] = @ - s] EXCEPT ![to] = @ + s]
    /\ UNCHANGED <<supply, tokens>>

Approve(sender, spender, value) ==
    /\ allowance' = [allowance EXCEPT ![sender][spender] = value]
    /\ UNCHANGED <<supply, shares, tokens>>

Transfer(sender, to, s) == Move(sender, to, s) /\ UNCHANGED allowance

TransferFrom(sender, from, to, s) == Spend(from, sender, s) /\ Move(from, to, s)

Deposit(sender, a, receiver) ==
    /\ SharesFor(a) /\ ConvertToShares(a) # 0
    /\ Pay(sender, Vault, a)
    /\ Mint(receiver, ConvertToShares(a))
    /\ UNCHANGED allowance

MintShares(sender, s, receiver) ==
    /\ AssetsFor(s)
    /\ Pay(sender, Vault, ConvertToAssets(s))
    /\ Mint(receiver, s)
    /\ UNCHANGED allowance

Withdraw(sender, a, receiver, owner) ==
    /\ SharesFor(a)
    /\ SpendAllowance(sender, owner, ConvertToShares(a))
    /\ Burn(owner, ConvertToShares(a))
    /\ Pay(Vault, receiver, a)

Redeem(sender, s, receiver, owner) ==
    /\ AssetsFor(s) /\ ConvertToAssets(s) # 0
    /\ SpendAllowance(sender, owner, s)
    /\ Burn(owner, s)
    /\ Pay(Vault, receiver, ConvertToAssets(s))

\* Any call of an account, to the benefit of anyone.
Call(sender) ==
    \E to, owner \in Holder, n \in Amount :
        \/ to \in Spender /\ Approve(sender, to, n)
        \/ Transfer(sender, to, n)
        \/ TransferFrom(sender, owner, to, n)
        \/ Deposit(sender, n, to)
        \/ MintShares(sender, n, to)
        \/ Withdraw(sender, n, to, owner)
        \/ Redeem(sender, n, to, owner)

VaultTypeOK ==
    /\ supply \in Uint
    /\ shares \in [Holder -> Uint]
    /\ allowance \in [Holder -> [Holder -> Uint]]
    /\ tokens \in [Holder -> Nat]

(* "Shares are 1:1 with assets" (TestVault.sol:6, README.md:170) holds     *)
(* until shares are withdrawn or redeemed to the vault itself: they are    *)
(* burned and their tokens stay (TestVault.sol:95-110).  What always holds *)
(* is that no share is without a token, however the conversions round      *)
(* after that.                                                             *)
Covered == supply <= TotalAssets
==============================================================================
