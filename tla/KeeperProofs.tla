---------------------------- MODULE KeeperProofs ----------------------------
(***************************************************************************)
(* Theorems about Keeper - the vault, the guarded exits and the workflows  *)
(* together - for any number of commands, executions, workflows and calls. *)
(***************************************************************************)
EXTENDS Keeper, TLAPS, FiniteSetTheorems

------------------------------------------------------------------------------
(***************************************************************************)
(* The vault.  Every share has a token, whichever way the conversions      *)
(* round; and while each has exactly one, they are the identity.           *)
(***************************************************************************)
VaultInv == VaultTypeOK /\ Covered
OneToOne == TotalAssets = supply

LEMMA VaultNumbers ==
    ASSUME VaultInv
    PROVE  /\ supply \in Nat /\ TotalAssets \in Nat /\ supply <= TotalAssets
           /\ MaxUint \in Nat /\ Vault \in Holder
BY VaultAssumption DEF VaultInv, VaultTypeOK, Covered, TotalAssets, Uint, Holder

LEMMA QuotientCancels ==
    ASSUME NEW a \in Nat, NEW b \in Nat, b # 0
    PROVE  (a * b) \div b = a
OBVIOUS

\* A quotient rounds down.
LEMMA Floor ==
    ASSUME NEW p \in Nat, NEW z \in Nat, z # 0
    PROVE  /\ p \div z \in Nat
           /\ (p \div z) * z <= p
           /\ p < (p \div z) * z + z
OBVIOUS

LEMMA TimesMonotone ==
    ASSUME NEW x \in Int, NEW y \in Int, NEW z \in Nat, x <= y
    PROVE  x * z <= y * z
<1>1. (y - x) * z >= 0
  OBVIOUS
<1>2. (y - x) * z = y * z - x * z
  OBVIOUS
<1>3. x * z \in Int /\ y * z \in Int
  OBVIOUS
<1> QED
  BY <1>1, <1>2, <1>3

\* What a of t is in s, when s is no more than t; and back.
LEMMA RoundedDown ==
    ASSUME NEW a \in Nat, NEW s \in Nat, NEW t \in Nat, s <= t, t # 0
    PROVE  /\ (a * s) \div t \in Nat
           /\ (a * s) \div t <= a
           /\ a <= t => a - (a * s) \div t <= t - s
<1> DEFINE p == a * s
           q == p \div t
<1>1. p \in Nat /\ q \in Nat /\ q * t <= p /\ p < q * t + t
  <2>1. p \in Nat
    OBVIOUS
  <2> HIDE DEF p
  <2> QED
    BY <2>1, Floor
<1>2. p <= a * t
  BY TimesMonotone
<1> HIDE DEF q
<1>3. q <= a
  <2> SUFFICES ASSUME a + 1 <= q PROVE FALSE
    BY <1>1
  <2>1. (a + 1) * t <= q * t
    BY <1>1, TimesMonotone
  <2>2. (a + 1) * t = a * t + t /\ a * t \in Int /\ q * t \in Int
    BY <1>1
  <2> HIDE DEF p
  <2> QED
    BY <1>1, <1>2, <2>1, <2>2
<1>4. ASSUME a <= t PROVE a - q <= t - s
  <2> SUFFICES ASSUME q + 1 <= a - (t - s) PROVE FALSE
    BY <1>1
  <2>1. (q + 1) * t <= (a - (t - s)) * t
    BY <1>1, TimesMonotone
  <2>2. (t - s) * a <= (t - s) * t
    <3>1. a * (t - s) <= t * (t - s)
      BY <1>4, TimesMonotone
    <3> QED
      BY <3>1
  <2>3. (q + 1) * t = q * t + t /\ q * t \in Int
    BY <1>1
  <2>4. (a - (t - s)) * t = a * t - (t - s) * t /\ a * t \in Int /\ (t - s) * t \in Int
    OBVIOUS
  <2>5. (t - s) * a = a * t - p
    OBVIOUS
  <2>6. (t - s) * a \in Int
    OBVIOUS
  <2> HIDE DEF p
  <2> QED
    BY <1>1, <2>1, <2>2, <2>3, <2>4, <2>5, <2>6
<1> QED
  BY <1>1, <1>3, <1>4 DEF q

LEMMA RoundedUp ==
    ASSUME NEW a \in Nat, NEW s \in Nat, NEW t \in Nat, s <= t, s # 0
    PROVE  /\ (a * t) \div s \in Nat
           /\ a <= (a * t) \div s
           /\ a <= s => (a * t) \div s - a <= t - s
<1> DEFINE p == a * t
           q == p \div s
<1>1. p \in Nat /\ q \in Nat /\ q * s <= p /\ p < q * s + s
  <2>1. p \in Nat
    OBVIOUS
  <2> HIDE DEF p
  <2> QED
    BY <2>1, Floor
<1>2. a * s <= p
  <2>1. s * a <= t * a
    BY TimesMonotone
  <2> QED
    BY <2>1
<1> HIDE DEF q
<1>3. a <= q
  <2> SUFFICES ASSUME q + 1 <= a PROVE FALSE
    BY <1>1
  <2>1. (q + 1) * s <= a * s
    BY <1>1, TimesMonotone
  <2>2. (q + 1) * s = q * s + s /\ a * s \in Int /\ q * s \in Int
    BY <1>1
  <2> HIDE DEF p
  <2> QED
    BY <1>1, <1>2, <2>1, <2>2
<1>4. ASSUME a <= s PROVE q - a <= t - s
  <2> SUFFICES ASSUME a + (t - s) + 1 <= q PROVE FALSE
    BY <1>1
  <2>1. (a + (t - s) + 1) * s <= q * s
    BY <1>1, TimesMonotone
  <2>2. a * (t - s) <= s * (t - s)
    BY <1>4, TimesMonotone
  <2>3. (a + (t - s) + 1) * s = a * s + s * (t - s) + s /\ q * s \in Int
    BY <1>1
  <2>4. a * (t - s) = p - a * s /\ a * s \in Int /\ s * (t - s) \in Int /\ a * (t - s) \in Int
    OBVIOUS
  <2> HIDE DEF p
  <2> QED
    BY <1>1, <2>1, <2>2, <2>3, <2>4
<1> QED
  BY <1>1, <1>3, <1>4 DEF q

\* Tokens give no more shares than they are.
LEMMA SharesRate ==
    ASSUME VaultInv, NEW a \in Nat, SharesFor(a)
    PROVE  /\ ConvertToShares(a) \in Nat /\ ConvertToShares(a) <= a
           /\ a <= TotalAssets => a - ConvertToShares(a) <= TotalAssets - supply
           /\ OneToOne => ConvertToShares(a) = a
<1>1. supply \in Nat /\ TotalAssets \in Nat /\ supply <= TotalAssets
  BY VaultNumbers
<1>2. CASE supply = 0
  BY <1>1, <1>2 DEF ConvertToShares
<1>3. CASE supply # 0
  <2>1. TotalAssets # 0
    BY <1>1, <1>3
  <2>2. OneToOne => (a * supply) \div TotalAssets = a
    BY <1>1, <2>1, QuotientCancels DEF OneToOne
  <2> QED
    BY <1>1, <1>3, <2>1, <2>2, RoundedDown DEF ConvertToShares, Quotient
<1> QED
  BY <1>2, <1>3

\* Shares are worth as many tokens at least.
LEMMA AssetsRate ==
    ASSUME VaultInv, NEW s \in Nat
    PROVE  /\ ConvertToAssets(s) \in Nat /\ s <= ConvertToAssets(s)
           /\ s <= supply => ConvertToAssets(s) - s <= TotalAssets - supply
           /\ OneToOne => ConvertToAssets(s) = s
<1>1. supply \in Nat /\ TotalAssets \in Nat /\ supply <= TotalAssets
  BY VaultNumbers
<1>2. CASE supply = 0
  BY <1>1, <1>2 DEF ConvertToAssets
<1>3. CASE supply # 0
  <2>1. OneToOne => (s * TotalAssets) \div supply = s
    BY <1>1, <1>3, QuotientCancels DEF OneToOne
  <2> QED
    BY <1>1, <1>3, <2>1, RoundedUp DEF ConvertToAssets, Quotient
<1> QED
  BY <1>2, <1>3

\* What a step does to the vault: nothing, or an account's tokens come in
\* for no more shares, or shares go for tokens the others do not need, or
\* shares change hands; and one for one while the vault is one to one.
Effect(from, to, n, m) ==
    /\ OneToOne => n = m
    /\ \/ from \in Account /\ m <= n /\ Pay(from, Vault, n) /\ Mint(to, m)
       \/ n - m <= TotalAssets - supply /\ Burn(from, m) /\ Pay(Vault, to, n)
       \/ Move(from, to, m)

VaultStep ==
    \/ UNCHANGED <<supply, shares, tokens>>
    \/ \E from, to \in Holder, n, m \in Nat : Effect(from, to, n, m)

LEMMA PayType ==
    ASSUME VaultTypeOK, NEW from \in Holder, NEW to \in Holder, NEW n \in Nat,
           Pay(from, to, n)
    PROVE  tokens' \in [Holder -> Nat]
<1> DEFINE g == [tokens EXCEPT ![from] = tokens[from] - n]
<1>1. tokens[from] \in Nat /\ tokens[from] - n \in Nat /\ tokens' = [g EXCEPT ![to] = g[to] + n]
  BY DEF Pay, VaultTypeOK
<1>2. g \in [Holder -> Nat] /\ g[to] \in Nat
  BY <1>1 DEF VaultTypeOK
<1> HIDE DEF g
<1>3. g[to] + n \in Nat
  BY <1>2
<1> QED
  BY <1>1, <1>2, <1>3

LEMMA EffectKeeps ==
    ASSUME VaultInv, NEW from \in Holder, NEW to \in Holder, NEW n \in Nat, NEW m \in Nat,
           Effect(from, to, n, m), allowance' \in [Holder -> [Holder -> Uint]]
    PROVE  VaultInv'
<1>1. /\ supply \in Nat /\ TotalAssets \in Nat /\ supply <= TotalAssets
      /\ MaxUint \in Nat /\ Vault \in Holder
  BY VaultNumbers
<1>2. shares \in [Holder -> Uint] /\ tokens \in [Holder -> Nat] /\ supply \in Uint
  BY DEF VaultInv, VaultTypeOK
<1>3. shares[from] \in Nat /\ shares[from] <= MaxUint /\ shares[to] \in Nat
  BY <1>1, <1>2 DEF Uint
<1>4. CASE from \in Account /\ m <= n /\ Pay(from, Vault, n) /\ Mint(to, m)
  <2>1. from # Vault
    BY <1>4, VaultAssumption
  <2>2. tokens' \in [Holder -> Nat] /\ tokens'[Vault] = tokens[Vault] + n
    <3>1. tokens' \in [Holder -> Nat]
      BY <1>1, <1>4, PayType DEF VaultInv
    <3>2. tokens' = [[tokens EXCEPT ![from] = @ - n] EXCEPT ![Vault] = @ + n]
      BY <1>4 DEF Pay
    <3> QED
      BY <1>1, <1>2, <2>1, <3>1, <3>2
  <2>3. supply' = supply + m /\ supply' <= MaxUint
    BY <1>4 DEF Mint
  <2>4. supply' \in Uint
    BY <1>1, <2>3 DEF Uint
  <2>5. shares' \in [Holder -> Uint]
    <3>1. shares[to] + m \in Uint
      BY <1>1, <1>3, <1>4 DEF Mint, Uint
    <3> QED
      BY <1>2, <1>4, <3>1 DEF Mint
  <2>6. supply' <= tokens'[Vault]
    BY <1>1, <1>4, <2>2, <2>3 DEF TotalAssets
  <2> QED
    BY <2>2, <2>4, <2>5, <2>6 DEF VaultInv, VaultTypeOK, Covered, TotalAssets
<1>5. CASE n - m <= TotalAssets - supply /\ Burn(from, m) /\ Pay(Vault, to, n)
  <2>1. tokens' \in [Holder -> Nat]
    BY <1>1, <1>5, PayType DEF VaultInv
  <2>2. tokens'[Vault] >= tokens[Vault] - n
    <3>1. tokens' = [[tokens EXCEPT ![Vault] = @ - n] EXCEPT ![to] = @ + n]
      BY <1>5 DEF Pay
    <3>2. CASE to = Vault
      BY <1>1, <1>2, <3>1, <3>2
    <3>3. CASE to # Vault
      BY <1>1, <1>2, <3>1, <3>3
    <3> QED
      BY <3>2, <3>3
  <2>3. supply' = supply - m /\ m <= supply /\ supply <= MaxUint
    BY <1>2, <1>5 DEF Burn, Uint
  <2>4. supply' \in Uint
    BY <1>1, <2>3 DEF Uint
  <2>5. shares' \in [Holder -> Uint]
    <3>1. shares[from] - m \in Uint
      BY <1>1, <1>3, <1>5 DEF Burn, Uint
    <3> QED
      BY <1>2, <1>5, <3>1 DEF Burn
  <2>6. supply' <= tokens'[Vault]
    <3>1. tokens'[Vault] \in Nat
      BY <1>1, <2>1
    <3> QED
      BY <1>1, <1>5, <2>2, <2>3, <3>1 DEF TotalAssets
  <2> QED
    BY <2>1, <2>4, <2>5, <2>6 DEF VaultInv, VaultTypeOK, Covered, TotalAssets
<1>6. CASE Move(from, to, m)
  <2>1. shares' \in [Holder -> Uint]
    <3> DEFINE g == [shares EXCEPT ![from] = shares[from] - m]
    <3>1. shares[from] - m \in Uint /\ shares' = [g EXCEPT ![to] = g[to] + m]
      BY <1>1, <1>3, <1>6 DEF Move, Uint
    <3>2. g \in [Holder -> Uint] /\ g[to] = IF to = from THEN shares[from] - m ELSE shares[to]
      BY <1>2, <3>1
    <3> HIDE DEF g
    <3>3. g[to] + m \in Uint
      BY <1>1, <1>3, <1>6, <3>2 DEF Move, Uint
    <3> QED
      BY <3>1, <3>2, <3>3
  <2>2. UNCHANGED <<supply, tokens>>
    BY <1>6 DEF Move
  <2> QED
    BY <2>1, <2>2 DEF VaultInv, VaultTypeOK, Covered, TotalAssets
<1> QED
  BY <1>4, <1>5, <1>6 DEF Effect

LEMMA SpendType ==
    ASSUME VaultTypeOK, NEW owner \in Holder, NEW spender \in Holder, NEW s \in Nat,
           SpendAllowance(spender, owner, s) \/ Spend(owner, spender, s)
    PROVE  allowance' \in [Holder -> [Holder -> Uint]]
<1>1. allowance[owner][spender] \in Uint /\ MaxUint \in Nat
  BY VaultAssumption DEF VaultTypeOK
<1>2. s <= allowance[owner][spender] => allowance[owner][spender] - s \in Uint
  BY <1>1 DEF Uint
<1>3. CASE UNCHANGED allowance
  BY <1>3 DEF VaultTypeOK
<1>4. CASE /\ s <= allowance[owner][spender]
           /\ allowance' = [allowance EXCEPT ![owner][spender] = @ - s]
  BY <1>2, <1>4 DEF VaultTypeOK
<1> QED
  BY <1>3, <1>4 DEF SpendAllowance, Spend

LEMMA DepositEffect ==
    ASSUME VaultInv, NEW sender \in Account, NEW to \in Holder, NEW n \in Nat,
           Deposit(sender, n, to)
    PROVE  ConvertToShares(n) \in Nat /\ Effect(sender, to, n, ConvertToShares(n))
BY SharesRate DEF Deposit, Effect

LEMMA RedeemEffect ==
    ASSUME VaultInv, NEW sender \in Account, NEW to \in Holder, NEW owner \in Holder,
           NEW n \in Nat, Redeem(sender, n, to, owner)
    PROVE  ConvertToAssets(n) \in Nat /\ Effect(owner, to, ConvertToAssets(n), n)
<1>1. n <= supply
  BY DEF Redeem, Burn
<1> QED
  BY <1>1, AssetsRate DEF Redeem, Effect

LEMMA WithdrawEffect ==
    ASSUME VaultInv, NEW sender \in Account, NEW to \in Holder, NEW owner \in Holder,
           NEW n \in Nat, Withdraw(sender, n, to, owner)
    PROVE  ConvertToShares(n) \in Nat /\ Effect(owner, to, n, ConvertToShares(n))
<1>1. n <= TotalAssets
  BY DEF Withdraw, Pay, TotalAssets
<1> QED
  BY <1>1, SharesRate DEF Withdraw, Effect

LEMMA CallEffect ==
    ASSUME VaultInv, NEW sender \in Account, NEW to \in Holder, NEW owner \in Holder,
           NEW n \in Uint,
           \/ Approve(sender, to, n) \/ Transfer(sender, to, n)
           \/ TransferFrom(sender, owner, to, n) \/ Deposit(sender, n, to)
           \/ MintShares(sender, n, to) \/ Withdraw(sender, n, to, owner)
           \/ Redeem(sender, n, to, owner)
    PROVE  VaultStep /\ VaultInv'
<1>1. n \in Nat /\ sender \in Holder
  BY VaultNumbers DEF Uint, Holder
<1>2. SUFFICES /\ VaultStep
               /\ allowance' \in [Holder -> [Holder -> Uint]]
  <2>1. UNCHANGED <<supply, shares, tokens>> => VaultInv'
    BY <1>2 DEF VaultInv, VaultTypeOK, Covered, TotalAssets
  <2> QED
    BY <1>2, <2>1, EffectKeeps DEF VaultStep
<1>3. UNCHANGED allowance => allowance' \in [Holder -> [Holder -> Uint]]
  BY DEF VaultInv, VaultTypeOK
<1>4. CASE Approve(sender, to, n)
  <2>1. allowance' \in [Holder -> [Holder -> Uint]]
    BY <1>1, <1>4 DEF Approve, VaultInv, VaultTypeOK
  <2> QED
    BY <1>4, <2>1 DEF Approve, VaultStep
<1>5. CASE Transfer(sender, to, n)
  <2>1. Effect(sender, to, n, n)
    BY <1>5 DEF Transfer, Effect
  <2> QED
    BY <1>1, <1>3, <1>5, <2>1 DEF Transfer, VaultStep
<1>6. CASE TransferFrom(sender, owner, to, n)
  <2>1. Effect(owner, to, n, n)
    BY <1>6 DEF TransferFrom, Effect
  <2>2. allowance' \in [Holder -> [Holder -> Uint]]
    BY <1>1, <1>6, SpendType DEF TransferFrom, VaultInv
  <2> QED
    BY <1>1, <2>1, <2>2 DEF VaultStep
<1>7. CASE Deposit(sender, n, to)
  BY <1>1, <1>3, <1>7, DepositEffect DEF Deposit, VaultStep
<1>8. CASE MintShares(sender, n, to)
  <2>1. ConvertToAssets(n) \in Nat /\ Effect(sender, to, ConvertToAssets(n), n)
    BY <1>1, <1>8, AssetsRate DEF MintShares, Effect
  <2> QED
    BY <1>1, <1>3, <1>8, <2>1 DEF MintShares, VaultStep
<1>9. CASE Withdraw(sender, n, to, owner)
  <2>1. ConvertToShares(n) \in Nat /\ Effect(owner, to, n, ConvertToShares(n))
    BY <1>1, <1>9, WithdrawEffect
  <2>2. allowance' \in [Holder -> [Holder -> Uint]]
    BY <1>1, <1>9, <2>1, SpendType DEF Withdraw, VaultInv
  <2> QED
    BY <1>1, <2>1, <2>2 DEF VaultStep
<1>10. CASE Redeem(sender, n, to, owner)
  <2>1. ConvertToAssets(n) \in Nat /\ Effect(owner, to, ConvertToAssets(n), n)
    BY <1>1, <1>10, RedeemEffect
  <2>2. allowance' \in [Holder -> [Holder -> Uint]]
    BY <1>1, <1>10, SpendType DEF Redeem, VaultInv
  <2> QED
    BY <1>1, <2>1, <2>2 DEF VaultStep
<1> QED
  BY <1>4, <1>5, <1>6, <1>7, <1>8, <1>9, <1>10

------------------------------------------------------------------------------
(***************************************************************************)
(* Commands, executions, rows and files, and what each may refer to.       *)
(***************************************************************************)
Deploys == {"guard_deploy", "keeper_deploy"}
Runs == {"guard_run", "keeper_run"}

KnownExec(e) == e \in Exec /\ exec[e] # None
KnownWorkflow(w) == w \in Workflow /\ workflow[w] # None
Unexecuted(c) == \A e \in Exec : exec[e] # None => exec[e].cmd # c

\* What a command may be doing, by its kind, and what it remembers.
Shape(c) ==
    /\ cmd[c].kind = "none" <=> cmd[c].pc = "off"
    /\ cmd[c].pc \notin {"asking", "enabling", "failed"} => c \notin inbox /\ answer[c] = None
    /\ cmd[c].kind = "exit" =>
         cmd[c].work \in Work /\ cmd[c].pc \notin {"following", "validating", "enabling"}
    /\ cmd[c].kind \in Deploys =>
         /\ cmd[c].pc \notin {"settling", "following"}
         /\ cmd[c].pc = "asking" => cmd[c].id = None
         /\ cmd[c].id # None \/ cmd[c].pc \in {"validating", "enabling"}
              => KnownWorkflow(cmd[c].id)
    /\ cmd[c].kind = "keeper_enable" =>
         /\ cmd[c].pc \notin {"asking", "settling", "following", "validating"}
         /\ KnownWorkflow(cmd[c].id) /\ cmd[c].id = cmd[c].copy.id
    /\ cmd[c].kind \in Runs => cmd[c].pc \notin {"settling", "validating", "enabling"}
    /\ cmd[c].kind \in Runs \union {"keeper_enable"} =>
         cmd[c].copy \in State /\ KnownWorkflow(cmd[c].copy.id)
    /\ cmd[c].pc \in {"settling", "following"} => KnownExec(cmd[c].id)
    /\ cmd[c].pc = "done" /\ cmd[c].result \in {"dry", "refused"} => cmd[c].kind = "exit"

\* What an answer that waits for a command says.
Answered(c) ==
    answer[c] # None =>
        /\ Active(c) /\ c \notin inbox
        /\ cmd[c].kind = "exit" => answer[c].type \in {"dry", "refused", "executed"}
        /\ cmd[c].kind = "exit" /\ answer[c].type = "executed" =>
             /\ KnownExec(answer[c].id) /\ answer[c].status \in Phase
             /\ Terminal(answer[c].status) => answer[c].status = exec[answer[c].id].phase
        /\ cmd[c].kind \in Runs => KnownExec(answer[c].id)
        /\ cmd[c].kind \in Deploys /\ cmd[c].pc = "asking" => KnownWorkflow(answer[c].id)

\* A command that nothing was executed for.
Pending(c) ==
    \/ c \in inbox
    \/ answer[c] # None /\ answer[c].type # "executed"
    \/ cmd[c].pc = "done" /\ cmd[c].result \in {"dry", "refused"}

Ended(c) ==
    /\ cmd[c].kind \in {"exit", "none"} /\ Pending(c) => Unexecuted(c)
    /\ cmd[c].kind = "none" => Unexecuted(c)
    /\ cmd[c].kind = "exit" /\ cmd[c].pc = "done" /\ cmd[c].result = "executed" =>
         /\ KnownExec(cmd[c].id) /\ Terminal(exec[cmd[c].id].phase)
         /\ exec[cmd[c].id].phase \in log[cmd[c].id]
    /\ cmd[c].kind = "guard_run" /\ cmd[c].pc = "done" /\ cmd[c].result = "stopped" =>
         KnownExec(cmd[c].id) /\ exec[cmd[c].id].phase = "stopped"
    /\ cmd[c].kind = "guard_run" /\ cmd[c].pc = "done" /\ cmd[c].result = "executed" =>
         KnownExec(cmd[c].id) /\ exec[cmd[c].id].phase = "completed"

CommandOK(c) == Shape(c) /\ Answered(c) /\ Ended(c)

\* An exit's execution is its command's, and no two have one key.
ExitKeyed(e) ==
    exec[e] # None /\ exec[e].kind = "exit" =>
        /\ exec[e].cmd \in Cmd /\ cmd[exec[e].cmd].kind = "exit"
        /\ exec[e].key = <<exec[e].amount, cmd[exec[e].cmd].work>>
KeysDiffer ==
    \A e, f \in Exec :
        /\ exec[e] # None /\ exec[f] # None /\ exec[e].kind = "exit" /\ exec[f].kind = "exit"
        /\ exec[e].key = exec[f].key
        => e = f

RowTrue(e) ==
    \A s \in log[e] : exec[e] # None /\ (Terminal(s) => s = exec[e].phase)

FilesKnown == \A k \in FileKind : file[k] # None => KnownWorkflow(file[k].id)

References ==
    /\ \A c \in Cmd : CommandOK(c)
    /\ \A e \in Exec : ExitKeyed(e) /\ RowTrue(e)
    /\ KeysDiffer /\ FilesKnown

Types ==
    /\ cmd \in [Cmd -> Command]
    /\ inbox \subseteq Cmd
    /\ answer \in [Cmd -> Reply \union {None}]
    /\ exec \in [Exec -> Execution \union {None}]
    /\ log \in [Exec -> SUBSET Phase]
    /\ workflow \in [Workflow -> Switch \union {None}]
    /\ file \in [FileKind -> State \union {None}]
    /\ newest \in [FileKind -> Workflow \union {None}]
    /\ overlapped \subseteq FileKind
    /\ calls \in 0 .. MaxCalls

------------------------------------------------------------------------------
(***************************************************************************)
(* What every step does: executions and workflows stay, terminal phases    *)
(* are final, and only one command at a time is concerned.                 *)
(***************************************************************************)
ExecGrows ==
    \A e \in Exec : exec[e] # None =>
        /\ exec'[e] # None /\ exec'[e].kind = exec[e].kind /\ exec'[e].cmd = exec[e].cmd
        /\ exec'[e].key = exec[e].key
        /\ exec[e].kind = "exit" => exec'[e].amount = exec[e].amount
        /\ Terminal(exec[e].phase) => exec'[e].phase = exec[e].phase

WorkflowsGrow == \A w \in Workflow : workflow[w] # None => workflow'[w] # None

LogGrows ==
    \A e \in Exec : exec[e] # None /\ Terminal(exec[e].phase) /\ exec[e].phase \in log[e] =>
        exec[e].phase \in log'[e]

CommandsStay ==
    \A c \in Cmd : cmd[c].kind # "none" =>
        cmd'[c].kind = cmd[c].kind /\ cmd'[c].work = cmd[c].work

Untouched(c) ==
    /\ cmd'[c] = cmd[c] /\ answer'[c] = answer[c] /\ (c \in inbox' <=> c \in inbox)
    /\ Unexecuted(c) => Unexecuted(c)'

\* Executions of exits are the ones there were.
NoNewExit ==
    \A e \in Exec : exec'[e] # None /\ exec'[e].kind = "exit" =>
        exec[e] # None /\ exec[e].kind = "exit"

LEMMA NoneIsNothing ==
    /\ \A r \in Execution : r # None
    /\ \A r \in Switch : r # None
    /\ \A r \in Reply : r # None
    /\ \A r \in State : r # None
    /\ None \notin Cmd \union Workflow
BY NoneAssumption

LEMMA UntouchedOK ==
    ASSUME Types, NEW d \in Cmd, CommandOK(d), ExecGrows, WorkflowsGrow, LogGrows, Untouched(d)
    PROVE  CommandOK(d)'
<1>1. \A e : KnownExec(e) => KnownExec(e)' /\ (Terminal(exec[e].phase) => exec'[e].phase = exec[e].phase)
  BY DEF KnownExec, ExecGrows
<1>2. \A w : KnownWorkflow(w) => KnownWorkflow(w)'
  BY DEF KnownWorkflow, WorkflowsGrow
<1>3. Shape(d)'
  <2> HIDE DEF KnownExec, KnownWorkflow
  <2> QED
    BY <1>1, <1>2 DEF Shape, CommandOK, Untouched
<1>4. Answered(d)'
  <2> HIDE DEF KnownExec, KnownWorkflow, Terminal
  <2> QED
    BY <1>1, <1>2 DEF Answered, CommandOK, Untouched, Active
<1>5. Ended(d)'
  <2>1. Pending(d)' <=> Pending(d)
    BY DEF Pending, Untouched
  <2>2. Terminal("stopped") /\ Terminal("completed")
    BY DEF Terminal
  <2>3. \A e : KnownExec(e) /\ Terminal(exec[e].phase) /\ exec[e].phase \in log[e] =>
            exec'[e].phase \in log'[e]
    BY <1>1 DEF LogGrows, KnownExec
  <2>4. \A e : KnownExec(e) /\ exec[e].phase \in {"stopped", "completed"} => exec'[e].phase = exec[e].phase
    BY <1>1, <2>2
  <2>5. Unexecuted(d) => Unexecuted(d)'
    BY DEF Untouched
  <2>6. cmd'[d] = cmd[d] /\ Ended(d)
    BY DEF Untouched, CommandOK
  <2> HIDE DEF KnownExec, Terminal, Unexecuted, Pending
  <2> QED
    BY <1>1, <2>1, <2>3, <2>4, <2>5, <2>6 DEF Ended
<1> QED
  BY <1>3, <1>4, <1>5 DEF CommandOK

LEMMA ExitsStay ==
    ASSUME Types, ExecGrows, CommandsStay, NoNewExit,
           \A e \in Exec : ExitKeyed(e), KeysDiffer
    PROVE  (\A e \in Exec : ExitKeyed(e)') /\ KeysDiffer'
<1>1. \A e \in Exec : exec'[e] # None /\ exec'[e].kind = "exit" =>
        /\ exec[e] # None /\ exec[e].kind = "exit" /\ exec'[e].cmd = exec[e].cmd
        /\ exec'[e].key = exec[e].key /\ exec'[e].amount = exec[e].amount
  BY DEF NoNewExit, ExecGrows
<1>2. \A e \in Exec : ExitKeyed(e)'
  BY <1>1 DEF ExitKeyed, CommandsStay
<1>3. KeysDiffer'
  BY <1>1 DEF KeysDiffer
<1> QED
  BY <1>2, <1>3

LEMMA RowsStay ==
    ASSUME ExecGrows, UNCHANGED log, \A e \in Exec : RowTrue(e)
    PROVE  \A e \in Exec : RowTrue(e)'
BY DEF RowTrue, ExecGrows

LEMMA FilesStay ==
    ASSUME WorkflowsGrow, UNCHANGED file, FilesKnown
    PROVE  FilesKnown'
BY DEF FilesKnown, WorkflowsGrow, KnownWorkflow

\* A step that leaves every command where it is.
LEMMA NoCommand ==
    ASSUME Types, References, ExecGrows, NoNewExit,
           UNCHANGED <<cmd, inbox, answer, log, file, workflow>>,
           \A c \in Cmd : Unexecuted(c) => Unexecuted(c)'
    PROVE  References'
<1>1. WorkflowsGrow /\ LogGrows /\ CommandsStay
  BY DEF WorkflowsGrow, LogGrows, CommandsStay
<1>2. \A c \in Cmd : CommandOK(c)'
  <2> SUFFICES ASSUME NEW c \in Cmd PROVE CommandOK(c)'
    OBVIOUS
  <2>1. Untouched(c)
    BY DEF Untouched
  <2> QED
    BY <1>1, <2>1, UntouchedOK DEF References
<1> QED
  BY <1>1, <1>2, ExitsStay, RowsStay, FilesStay DEF References

\* A step of one command that leaves executions, workflows, rows and files.
LEMMA OneCommand ==
    ASSUME Types, References, NEW c \in Cmd,
           UNCHANGED <<exec, log, file, workflow>>,
           \A d \in Cmd \ {c} : cmd'[d] = cmd[d] /\ answer'[d] = answer[d] /\ (d \in inbox' <=> d \in inbox),
           cmd[c].kind # "none" => cmd'[c].kind = cmd[c].kind /\ cmd'[c].work = cmd[c].work,
           CommandOK(c)'
    PROVE  References'
<1>1. ExecGrows /\ WorkflowsGrow /\ LogGrows /\ NoNewExit
  BY DEF ExecGrows, WorkflowsGrow, LogGrows, NoNewExit
<1>2. CommandsStay
  BY DEF CommandsStay
<1>3. \A d \in Cmd : CommandOK(d)'
  <2> SUFFICES ASSUME NEW d \in Cmd, d # c PROVE CommandOK(d)'
    OBVIOUS
  <2>1. Untouched(d)
    BY DEF Untouched, Unexecuted
  <2> QED
    BY <1>1, <2>1, UntouchedOK DEF References
<1> QED
  BY <1>1, <1>2, <1>3, ExitsStay, RowsStay, FilesStay DEF References

------------------------------------------------------------------------------
(***************************************************************************)
(* KeeperHub's engine and the chain.                                       *)
(***************************************************************************)
\* One execution goes on to another phase.
LEMMA PhaseMoves ==
    ASSUME Types, References, NEW e \in Exec, exec[e] # None, ~Terminal(exec[e].phase),
           NEW n \in Nat, NEW p \in Phase, exec[e].kind = "exit" => n = exec[e].amount,
           exec' = [exec EXCEPT ![e].amount = n, ![e].phase = p],
           UNCHANGED <<cmd, inbox, answer, log, remote>>
    PROVE  Types' /\ References'
<1>1. exec[e] \in Execution
  BY DEF Types
<1>2. /\ exec' \in [Exec -> Execution \union {None}]
      /\ \A f \in Exec : f # e => exec'[f] = exec[f]
      /\ exec'[e] \in Execution /\ exec'[e].kind = exec[e].kind /\ exec'[e].key = exec[e].key
      /\ exec'[e].cmd = exec[e].cmd /\ exec'[e].amount = n
  BY <1>1 DEF Types, Execution
<1>3. ExecGrows
  BY <1>2, NoneIsNothing DEF ExecGrows
<1>4. NoNewExit
  BY <1>2 DEF NoNewExit
<1>5. \A c \in Cmd : Unexecuted(c) => Unexecuted(c)'
  BY <1>2 DEF Unexecuted
<1>6. UNCHANGED <<cmd, inbox, answer, log, file, workflow, newest, overlapped, calls>>
  BY DEF remote
<1> QED
  BY <1>2, <1>3, <1>4, <1>5, <1>6, NoCommand DEF Types

LEMMA PhaseOnly ==
    ASSUME Types, NEW e \in Exec, exec[e] # None, NEW p,
           exec' = [exec EXCEPT ![e].phase = p]
    PROVE  exec' = [exec EXCEPT ![e].amount = exec[e].amount, ![e].phase = p]
<1>1. exec[e] \in Execution
  BY DEF Types
<1>2. [exec[e] EXCEPT !.phase = p] = [exec[e] EXCEPT !.amount = exec[e].amount, !.phase = p]
  BY <1>1 DEF Execution
<1> QED
  BY <1>1, <1>2 DEF Types

LEMMA EngineKeeps ==
    ASSUME Types, VaultTypeOK, References, NEW e \in Exec, Engine(e)
    PROVE  Types' /\ References'
<1>1. exec[e] # None
  BY DEF Engine, ExitEngine, EngineGate, EngineRelease, EngineFail, LandRedeem,
         CompoundGate, LandDeposit
<1>2. exec[e] \in Execution /\ exec[e].amount \in Nat
  BY <1>1 DEF Types, Execution
<1>3. ~Terminal(exec[e].phase)
  BY DEF Engine, ExitEngine, EngineGate, EngineRelease, EngineFail, LandRedeem,
         CompoundGate, LandDeposit, Terminal
<1>4. UNCHANGED <<cmd, inbox, answer, log, remote>>
  BY DEF Engine, ExitEngine, EngineGate, EngineRelease, EngineFail, LandRedeem,
         CompoundGate, LandDeposit
<1>5. CASE CompoundGate(e)
  <2>1. tokens[Wallet] \in Nat
    BY GuardedExitAssumption DEF VaultTypeOK, Holder
  <2>2. exec' = [exec EXCEPT ![e].amount = tokens[Wallet],
                             ![e].phase = IF InWindow(tokens[Wallet]) THEN "gated" ELSE "stopped"]
    BY <1>5 DEF CompoundGate
  <2>3. PICK p \in Phase : exec' = [exec EXCEPT ![e].amount = tokens[Wallet], ![e].phase = p]
    BY <2>2 DEF Phase
  <2>4. exec[e].kind # "exit"
    BY <1>5 DEF CompoundGate
  <2> QED
    BY <1>1, <1>3, <1>4, <2>1, <2>3, <2>4, PhaseMoves
<1>6. CASE ~CompoundGate(e)
  <2>1. PICK p \in Phase : exec' = [exec EXCEPT ![e].phase = p]
    BY <1>6 DEF Engine, ExitEngine, EngineGate, EngineRelease, EngineFail, LandRedeem,
                LandDeposit, Phase
  <2>2. exec' = [exec EXCEPT ![e].amount = exec[e].amount, ![e].phase = p]
    BY <1>1, <2>1, PhaseOnly
  <2> QED
    BY <1>1, <1>2, <1>3, <1>4, <2>2, PhaseMoves
<1> QED
  BY <1>5, <1>6

\* A fresh execution of a workflow, for a command or on schedule.
LEMMA FreshExecution ==
    ASSUME Types, NEW e \in Exec, exec[e] = None, NEW r \in Execution,
           exec' = [exec EXCEPT ![e] = r]
    PROVE  /\ exec' \in [Exec -> Execution \union {None}]
           /\ ExecGrows
           /\ exec'[e] = r /\ r # None
           /\ \A f \in Exec : f # e => exec'[f] = exec[f]
           /\ r.kind # "exit" => NoNewExit
           /\ \A c : r.cmd # c /\ Unexecuted(c) => Unexecuted(c)'
<1>1. /\ exec' \in [Exec -> Execution \union {None}] /\ exec'[e] = r
      /\ \A f \in Exec : f # e => exec'[f] = exec[f]
  BY DEF Types
<1> QED
  BY <1>1, NoneIsNothing DEF ExecGrows, NoNewExit, Unexecuted

LEMMA ScheduleKeeps ==
    ASSUME Types, References, Schedule
    PROVE  Types' /\ References'
<1>1. PICK e \in Exec : exec[e] = None /\ exec' = [exec EXCEPT ![e] = Run("keeper", None, None, 0, "triggered")]
  BY DEF Schedule, Free
<1> DEFINE r == Run("keeper", None, None, 0, "triggered")
<1>2. r \in Execution /\ r.kind # "exit" /\ r.cmd = None
  BY DEF Run, Execution, Phase
<1>3. UNCHANGED <<cmd, inbox, answer, log, file, workflow, newest, overlapped, calls>>
  BY DEF Schedule, remote
<1> HIDE DEF r
<1>4. exec[e] = None /\ exec' = [exec EXCEPT ![e] = r]
  BY <1>1 DEF r
<1>5. /\ exec' \in [Exec -> Execution \union {None}] /\ ExecGrows /\ NoNewExit
      /\ \A c : r.cmd # c /\ Unexecuted(c) => Unexecuted(c)'
  BY <1>2, <1>4, FreshExecution
<1>6. \A c \in Cmd : Unexecuted(c) => Unexecuted(c)'
  BY <1>2, <1>5, NoneIsNothing
<1> QED
  BY <1>3, <1>5, <1>6, NoCommand DEF Types

------------------------------------------------------------------------------
(***************************************************************************)
(* The commands' own steps.                                                *)
(***************************************************************************)
LEMMA GiveUpKeeps ==
    ASSUME Types, References, NEW c \in Cmd, TimeOut(c) \/ Die(c), UNCHANGED remote
    PROVE  Types' /\ References'
<1>1. /\ cmd' = [cmd EXCEPT ![c].pc = "failed"] /\ answer' = [answer EXCEPT ![c] = None]
      /\ cmd[c].pc # "off" /\ UNCHANGED <<inbox, exec, log>>
  BY DEF TimeOut, Die, Active
<1>2. cmd[c] \in Command
  BY DEF Types
<1>3. /\ cmd'[c] = [cmd[c] EXCEPT !.pc = "failed"] /\ answer'[c] = None
      /\ \A d \in Cmd \ {c} : cmd'[d] = cmd[d] /\ answer'[d] = answer[d]
      /\ cmd'[c] \in Command
  BY <1>1, <1>2 DEF Types, Command
<1>4. /\ cmd'[c].kind = cmd[c].kind /\ cmd'[c].work = cmd[c].work /\ cmd'[c].id = cmd[c].id
      /\ cmd'[c].copy = cmd[c].copy /\ cmd'[c].result = cmd[c].result /\ cmd'[c].pc = "failed"
      /\ cmd'[c].amount = cmd[c].amount
  BY <1>2, <1>3 DEF Command
<1>5. UNCHANGED <<workflow, file, newest, overlapped, calls>>
  BY DEF remote
<1>6. Types'
  BY <1>1, <1>3, <1>5 DEF Types
<1>7. CommandOK(c)
  BY DEF References
<1>8. Shape(c)'
  BY <1>1, <1>4, <1>5, <1>7 DEF CommandOK, Shape, KnownWorkflow, KnownExec
<1>9. Answered(c)'
  BY <1>3 DEF Answered
<1>10. Ended(c)'
  BY <1>1, <1>3, <1>4, <1>7 DEF CommandOK, Shape, Ended, Pending, Unexecuted
<1> QED
  BY <1>1, <1>3, <1>4, <1>5, <1>6, <1>8, <1>9, <1>10, OneCommand DEF CommandOK

\* A command line that starts: nothing was executed for it yet.
LEMMA StartKeeps ==
    ASSUME Types, References, NEW c \in Cmd, cmd[c].pc = "off",
           NEW k \in Command, cmd' = [cmd EXCEPT ![c] = k],
           inbox' = inbox \union {c}, UNCHANGED <<answer, exec, log, workflow, file, newest, calls>>,
           overlapped' \subseteq FileKind,
           k.pc \in {"asking", "enabling"}, k.kind # "none",
           k.kind = "exit" => k.work \in Work /\ k.pc = "asking",
           k.kind \in Deploys => k.pc = "asking" /\ k.id = None,
           k.kind = "keeper_enable" =>
               k.pc = "enabling" /\ KnownWorkflow(k.id) /\ k.id = k.copy.id,
           k.kind \in Runs => k.pc = "asking",
           k.kind \in Runs \union {"keeper_enable"} => k.copy \in State /\ KnownWorkflow(k.copy.id)
    PROVE  Types' /\ References'
<1>1. cmd'[c] = k /\ \A d \in Cmd \ {c} : cmd'[d] = cmd[d] /\ (d \in inbox' <=> d \in inbox)
  BY DEF Types
<1>2. Types'
  BY DEF Types
<1>3. CommandOK(c) /\ cmd[c].kind = "none"
  BY DEF References, CommandOK, Shape
<1>4. answer[c] = None /\ Unexecuted(c)
  BY <1>3 DEF CommandOK, Shape, Ended
<1>5. Shape(c)'
  BY <1>1, <1>4 DEF Shape, KnownWorkflow, Deploys, Runs
<1>6. Answered(c)' /\ Ended(c)'
  BY <1>1, <1>4 DEF Answered, Ended, Unexecuted
<1> QED
  BY <1>1, <1>2, <1>3, <1>5, <1>6, OneCommand DEF CommandOK

\* A command that will write a file starts with what it says.
LEMMA BeginsFromFile ==
    ASSUME Types, VaultTypeOK, References, NEW c \in Cmd,
           StartDeploy(c) \/ StartEnable(c) \/ StartKeeperRun(c) \/ StartGuardRun(c)
    PROVE  \E kind \in Deploys \union Runs \union {"keeper_enable"}, k \in Command :
             /\ Start(c, kind, k) /\ k.kind = kind
             /\ k.pc = IF kind = "keeper_enable" THEN "enabling" ELSE "asking"
             /\ kind \in Deploys => k.id = None
             /\ kind \notin Deploys => /\ k.copy = file[FileOf(kind)] /\ k.copy \in State
                                       /\ KnownWorkflow(k.copy.id)
             /\ kind = "keeper_enable" => k.id = k.copy.id
<1>1. Idle \in Command
  BY DEF Idle, Command, Kind
<1>2. shares[Wallet] \in Nat /\ shares[Wallet] + 1 \in Nat /\ Expected \subseteq Nat
  BY GuardedExitAssumption, VaultAssumption DEF VaultTypeOK, Uint, Holder
<1>3. \A q \in FileKind : file[q] # None =>
        file[q] \in State /\ KnownWorkflow(file[q].id)
  BY DEF Types, References, FilesKnown
<1>4. CASE StartDeploy(c)
  <2>1. PICK kind \in Deploys, off \in BOOLEAN :
          Start(c, kind, [Idle EXCEPT !.kind = kind, !.pc = "asking", !.dry = off])
    BY <1>4 DEF StartDeploy, Deploys
  <2> DEFINE k == [Idle EXCEPT !.kind = kind, !.pc = "asking", !.dry = off]
  <2>2. k \in Command /\ k.kind = kind /\ k.pc = "asking" /\ k.id = None
    BY DEF Idle, Command, Kind, Deploys
  <2> HIDE DEF k
  <2>3. Start(c, kind, k) /\ kind # "keeper_enable"
    BY <2>1 DEF k, Deploys
  <2> QED
    BY <2>2, <2>3
<1>5. CASE StartEnable(c)
  <2>1. PICK off \in BOOLEAN :
          Start(c, "keeper_enable",
                [Idle EXCEPT !.kind = "keeper_enable", !.pc = "enabling", !.dry = off,
                             !.id = file["keeper"].id, !.copy = file["keeper"]])
    BY <1>5 DEF StartEnable
  <2>2. file["keeper"] \in State /\ KnownWorkflow(file["keeper"].id)
    BY <1>3, <1>5 DEF StartEnable, FileKind
  <2> DEFINE k == [Idle EXCEPT !.kind = "keeper_enable", !.pc = "enabling", !.dry = off,
                               !.id = file["keeper"].id, !.copy = file["keeper"]]
  <2>3. /\ k \in Command /\ k.kind = "keeper_enable" /\ k.pc = "enabling"
        /\ k.copy = file["keeper"] /\ k.id = file["keeper"].id
    BY <2>2 DEF Idle, Command, Kind, State
  <2> HIDE DEF k
  <2>4. Start(c, "keeper_enable", k) /\ FileOf("keeper_enable") = "keeper"
        /\ "keeper_enable" \notin Deploys
    BY <2>1 DEF k, FileOf, Deploys
  <2> QED
    BY <2>2, <2>3, <2>4
<1>6. CASE StartKeeperRun(c) \/ StartGuardRun(c)
  <2>1. PICK kind \in Runs, n \in Nat :
          /\ file[FileOf(kind)] # None
          /\ Start(c, kind, [Idle EXCEPT !.kind = kind, !.pc = "asking", !.amount = n,
                                         !.copy = file[FileOf(kind)]])
    <3>1. CASE StartKeeperRun(c)
      <4>1. [Idle EXCEPT !.kind = "keeper_run", !.pc = "asking", !.copy = file["keeper"]]
              = [Idle EXCEPT !.kind = "keeper_run", !.pc = "asking", !.amount = 0,
                             !.copy = file["keeper"]]
        <5>1. \A r \in Command : \A v :
                r.amount = 0 => [r EXCEPT !.kind = "keeper_run", !.pc = "asking", !.copy = v]
                                  = [r EXCEPT !.kind = "keeper_run", !.pc = "asking", !.amount = 0,
                                              !.copy = v]
          BY ZenonT(60) DEF Command
        <5>2. Idle.amount = 0
          BY DEF Idle
        <5> HIDE DEF Idle
        <5> QED
          BY <1>1, <5>1, <5>2
      <4> HIDE DEF Start, Idle
      <4> QED
        BY <3>1, <4>1 DEF StartKeeperRun, FileOf, Runs
    <3>2. CASE StartGuardRun(c)
      <4> HIDE DEF Start, Idle
      <4> QED
        BY <1>2, <3>2 DEF StartGuardRun, FileOf, Runs
    <3> QED
      BY <1>6, <3>1, <3>2
  <2>2. file[FileOf(kind)] \in State /\ KnownWorkflow(file[FileOf(kind)].id)
    BY <1>3, <2>1 DEF FileOf, FileKind
  <2> DEFINE k == [Idle EXCEPT !.kind = kind, !.pc = "asking", !.amount = n,
                               !.copy = file[FileOf(kind)]]
  <2>3. k \in Command /\ k.kind = kind /\ k.pc = "asking" /\ k.copy = file[FileOf(kind)]
    BY <2>2 DEF Idle, Command, Kind, Runs
  <2> HIDE DEF k
  <2>4. Start(c, kind, k) /\ kind \notin Deploys /\ kind # "keeper_enable"
    BY <2>1 DEF k, Deploys, Runs
  <2> QED
    BY <2>2, <2>3, <2>4
<1> QED
  BY <1>4, <1>5, <1>6

LEMMA BeginKeeps ==
    ASSUME Types, VaultTypeOK, References, NEW c \in Cmd, Begin(c)
    PROVE  Types' /\ References'
<1>1. overlapped \subseteq FileKind
  BY DEF Types
<1>2. CASE StartExit(c) /\ UNCHANGED remote
  <2>1. PICK w \in Work, dry \in BOOLEAN, n \in {shares[Wallet]} \union Expected :
          cmd' = [cmd EXCEPT ![c] = [Idle EXCEPT !.kind = "exit", !.pc = "asking",
                                                 !.amount = n, !.work = w, !.dry = dry]]
    BY <1>2 DEF StartExit
  <2> DEFINE k == [Idle EXCEPT !.kind = "exit", !.pc = "asking", !.amount = n, !.work = w, !.dry = dry]
  <2>2. k \in Command /\ k.kind = "exit" /\ k.pc = "asking" /\ k.work = w
    <3>1. n \in Nat
      BY GuardedExitAssumption, VaultAssumption DEF VaultTypeOK, Uint, Holder
    <3> QED
      BY <3>1 DEF Idle, Command, Kind
  <2>3. cmd[c].pc = "off" /\ inbox' = inbox \union {c} /\ UNCHANGED <<answer, exec, log, remote>>
    BY <1>2 DEF StartExit
  <2> HIDE DEF k
  <2> QED
    BY <1>1, <2>1, <2>2, <2>3, StartKeeps DEF k, remote, Deploys, Runs
<1>3. CASE StartDeploy(c) \/ StartEnable(c) \/ StartKeeperRun(c) \/ StartGuardRun(c)
  <2>1. PICK kind \in Deploys \union Runs \union {"keeper_enable"}, k \in Command :
          /\ Start(c, kind, k) /\ k.kind = kind
          /\ k.pc = IF kind = "keeper_enable" THEN "enabling" ELSE "asking"
          /\ kind \in Deploys => k.id = None
          /\ kind \notin Deploys => k.copy \in State /\ KnownWorkflow(k.copy.id)
          /\ kind = "keeper_enable" => k.id = k.copy.id
    BY <1>3, BeginsFromFile
  <2>2. /\ cmd[c].pc = "off" /\ cmd' = [cmd EXCEPT ![c] = k] /\ inbox' = inbox \union {c}
        /\ overlapped' \in {overlapped, overlapped \union {FileOf(kind)}}
        /\ UNCHANGED <<answer, exec, log, workflow, file, newest, calls>>
    BY <2>1 DEF Start
  <2>3. overlapped' \subseteq FileKind
    BY <1>1, <2>2 DEF FileOf, FileKind
  <2> QED
    BY <2>1, <2>2, <2>3, StartKeeps DEF Deploys, Runs
<1> QED
  BY <1>2, <1>3 DEF Begin

------------------------------------------------------------------------------
(***************************************************************************)
(* KeeperHub receives a command's request.                                 *)
(***************************************************************************)
LEMMA AnswerKeeps ==
    ASSUME Types, References, NEW c \in Cmd, c \in inbox,
           NEW type, NEW id, NEW status, [type |-> type, id |-> id, status |-> status] \in Reply,
           Answer(c, type, id, status),
           UNCHANGED <<cmd, log, file, newest, overlapped, calls>>,
           exec' \in [Exec -> Execution \union {None}],
           workflow' \in [Workflow -> Switch \union {None}],
           ExecGrows, WorkflowsGrow,
           \A d \in Cmd \ {c} : Unexecuted(d) => Unexecuted(d)',
           \A e \in Exec : ExitKeyed(e)', KeysDiffer',
           cmd[c].kind = "exit" => type \in {"dry", "refused", "executed"},
           cmd[c].kind = "exit" /\ type = "executed" =>
             /\ KnownExec(id)' /\ status \in Phase
             /\ Terminal(status) => status = exec'[id].phase,
           cmd[c].kind = "exit" /\ type # "executed" => Unexecuted(c)',
           cmd[c].kind \in Runs => KnownExec(id)',
           cmd[c].kind \in Deploys /\ cmd[c].pc = "asking" => KnownWorkflow(id)'
    PROVE  Types' /\ References'
<1> DEFINE r == [type |-> type, id |-> id, status |-> status]
<1>1. /\ inbox' = inbox \ {c} /\ answer'[c] = IF Active(c) THEN r ELSE None
      /\ \A d \in Cmd \ {c} : answer'[d] = answer[d] /\ (d \in inbox' <=> d \in inbox)
      /\ answer' \in [Cmd -> Reply \union {None}]
  BY DEF Answer, Types
<1>2. Types'
  BY <1>1 DEF Types
<1>3. LogGrows /\ CommandsStay
  BY DEF LogGrows, CommandsStay
<1>4. \A d \in Cmd \ {c} : CommandOK(d)'
  <2> SUFFICES ASSUME NEW d \in Cmd \ {c} PROVE CommandOK(d)'
    OBVIOUS
  <2>1. Untouched(d)
    BY <1>1 DEF Untouched
  <2> QED
    BY <1>3, <2>1, UntouchedOK DEF References
<1>5. /\ \A e : KnownExec(e) => KnownExec(e)'
      /\ \A w : KnownWorkflow(w) => KnownWorkflow(w)'
  BY DEF KnownExec, KnownWorkflow, ExecGrows, WorkflowsGrow
<1>6. CommandOK(c)
  BY DEF References
<1>7. cmd[c].pc \in {"asking", "enabling", "failed"}
  BY <1>6 DEF CommandOK, Shape
<1>8. Shape(c)'
  <2> HIDE DEF KnownExec, KnownWorkflow
  <2> QED
    BY <1>5, <1>6, <1>7 DEF CommandOK, Shape
<1>9. Answered(c)'
  <2>1. r.type = type /\ r.id = id /\ r.status = status
    OBVIOUS
  <2> HIDE DEF KnownExec, KnownWorkflow, Terminal, r
  <2> QED
    BY <1>1, <2>1 DEF Answered, Active
<1>10. Ended(c)'
  <2>1. Pending(c)' => type # "executed"
    BY <1>1, <1>7 DEF Pending
  <2>2. cmd[c].kind # "none"
    BY <1>6, <1>7 DEF CommandOK, Shape
  <2> QED
    BY <1>7, <2>1, <2>2 DEF Ended
<1>11. \A e \in Exec : RowTrue(e)'
  BY RowsStay DEF References
<1>12. FilesKnown'
  BY FilesStay DEF References
<1> QED
  BY <1>2, <1>4, <1>6, <1>8, <1>9, <1>10, <1>11, <1>12 DEF CommandOK, References

LEMMA HandleExitKeeps ==
    ASSUME Types, References, NEW c \in Cmd, HandleExit(c), UNCHANGED remote
    PROVE  Types' /\ References'
<1>1. /\ c \in inbox /\ cmd[c].kind = "exit"
      /\ UNCHANGED <<cmd, log, workflow, file, newest, overlapped, calls>>
  BY DEF HandleExit, remote
<1>2. WorkflowsGrow /\ CommandsStay /\ workflow' \in [Workflow -> Switch \union {None}]
  BY <1>1 DEF WorkflowsGrow, CommandsStay, Types
<1>3. cmd[c] \in Command /\ cmd[c].work \in Work /\ Unexecuted(c)
  BY <1>1 DEF Types, References, CommandOK, Shape, Ended, Pending
<1>4. \A type \in {"dry", "refused", "executed"}, id \in Exec \union {None},
         status \in Phase \union {None} :
        [type |-> type, id |-> id, status |-> status] \in Reply
  BY DEF Reply
<1>5. "exit" \notin Runs /\ "exit" \notin Deploys
  BY DEF Runs, Deploys
<1>6. CASE UNCHANGED exec
  <2>1. ExecGrows /\ NoNewExit /\ \A d \in Cmd : Unexecuted(d) => Unexecuted(d)'
    BY <1>6 DEF ExecGrows, NoNewExit, Unexecuted
  <2>2. (\A e \in Exec : ExitKeyed(e)') /\ KeysDiffer'
    BY <1>2, <2>1, ExitsStay DEF References
  <2>3. exec' \in [Exec -> Execution \union {None}]
    BY <1>6 DEF Types
  <2>4. CASE \E type \in {"dry", "refused"} : Answer(c, type, None, None)
    <3>1. PICK type \in {"dry", "refused"} : Answer(c, type, None, None)
      BY <2>4
    <3>2. [type |-> type, id |-> None, status |-> None] \in Reply
      BY <1>4
    <3> HIDE DEF KnownExec, KnownWorkflow, Answer, Unexecuted, ExitKeyed, KeysDiffer, Terminal
    <3> QED
      BY <1>1, <1>2, <1>3, <1>5, <2>1, <2>2, <2>3, <3>1, <3>2, AnswerKeeps
  <2>5. CASE \E e \in Exec : exec[e] # None /\ Answer(c, "executed", e, exec[e].phase)
    <3>1. PICK e \in Exec : exec[e] # None /\ Answer(c, "executed", e, exec[e].phase)
      BY <2>5
    <3>2. exec[e].phase \in Phase
      BY <3>1 DEF Types, Execution
    <3>3. [type |-> "executed", id |-> e, status |-> exec[e].phase] \in Reply
      BY <1>4, <3>2
    <3>4. KnownExec(e)' /\ exec'[e].phase = exec[e].phase
      BY <1>6, <3>1 DEF KnownExec
    <3> HIDE DEF KnownExec, KnownWorkflow, Answer, Unexecuted, ExitKeyed, KeysDiffer, Terminal
    <3> QED
      BY <1>1, <1>2, <1>3, <1>5, <2>1, <2>2, <2>3, <3>1, <3>2, <3>3, <3>4, AnswerKeeps
  <2>6. CASE \E e \in Exec : exec[e] = None /\ exec' = [exec EXCEPT ![e] =
                    Run("exit", KeyFor(c), c, cmd[c].amount, "released")]
    <3>1. PICK e \in Exec : exec[e] = None /\ exec' = [exec EXCEPT ![e] =
                    Run("exit", KeyFor(c), c, cmd[c].amount, "released")]
      BY <2>6
    <3>2. exec'[e].cmd = c /\ exec'[e] # None
      <4>1. Run("exit", KeyFor(c), c, cmd[c].amount, "released") \in Execution
        BY <1>3 DEF Run, KeyFor, Execution, Command, Phase
      <4> QED
        BY <3>1, <4>1, FreshExecution DEF Run
    <3> QED
      BY <1>3, <1>6, <3>1, <3>2 DEF Unexecuted
  <2> QED
    BY <1>1, <2>4, <2>5, <2>6 DEF HandleExit, Free
<1>7. CASE \E e \in Exec :
             /\ exec[e] = None
             /\ ~\E f \in Exec : exec[f] # None /\ exec[f].key = KeyFor(c)
             /\ exec' = [exec EXCEPT ![e] = Run("exit", KeyFor(c), c, cmd[c].amount, "released")]
             /\ Answer(c, "executed", e, "released")
  <2>1. PICK e \in Exec :
             /\ exec[e] = None
             /\ ~\E f \in Exec : exec[f] # None /\ exec[f].key = KeyFor(c)
             /\ exec' = [exec EXCEPT ![e] = Run("exit", KeyFor(c), c, cmd[c].amount, "released")]
             /\ Answer(c, "executed", e, "released")
    BY <1>7
  <2> DEFINE r == Run("exit", KeyFor(c), c, cmd[c].amount, "released")
  <2>2. /\ r \in Execution /\ r.cmd = c /\ r.kind = "exit" /\ r.key = KeyFor(c)
        /\ r.amount = cmd[c].amount /\ r.phase = "released"
    BY <1>3 DEF Run, KeyFor, Execution, Command, Phase
  <2> HIDE DEF r
  <2>3. /\ exec' \in [Exec -> Execution \union {None}] /\ ExecGrows
        /\ exec'[e] = r /\ r # None /\ \A f \in Exec : f # e => exec'[f] = exec[f]
        /\ \A d \in Cmd : d # c /\ Unexecuted(d) => Unexecuted(d)'
    BY <2>1, <2>2, FreshExecution DEF r
  <2>4. \A f \in Exec : ExitKeyed(f)'
    BY <1>1, <2>2, <2>3 DEF References, ExitKeyed, KeyFor
  <2>5. KeysDiffer'
    BY <2>1, <2>2, <2>3 DEF References, KeysDiffer
  <2>6. KnownExec(e)' /\ "released" \in Phase /\ ~Terminal("released")
    BY <2>3 DEF KnownExec, Phase, Terminal
  <2>7. [type |-> "executed", id |-> e, status |-> "released"] \in Reply
    BY <1>4, <2>6
  <2> HIDE DEF KnownExec, KnownWorkflow, Answer, Unexecuted, ExitKeyed, KeysDiffer, Terminal
  <2> QED
    BY <1>1, <1>2, <1>5, <2>1, <2>3, <2>4, <2>5, <2>6, <2>7, AnswerKeeps
<1> QED
  <2>1. \/ UNCHANGED exec
        \/ \E e \in Exec :
             /\ exec[e] = None
             /\ ~\E f \in Exec : exec[f] # None /\ exec[f].key = KeyFor(c)
             /\ exec' = [exec EXCEPT ![e] = Run("exit", KeyFor(c), c, cmd[c].amount, "released")]
             /\ Answer(c, "executed", e, "released")
    BY DEF HandleExit, Free
  <2> QED
    BY <1>6, <1>7, <2>1

LEMMA HandleRunKeeps ==
    ASSUME Types, References, NEW c \in Cmd, HandleRun(c), UNCHANGED remote
    PROVE  Types' /\ References'
<1>1. /\ c \in inbox /\ cmd[c].kind \in Runs
      /\ UNCHANGED <<cmd, log, workflow, file, newest, overlapped, calls>>
  BY DEF HandleRun, remote, Runs
<1>2. PICK e \in Exec :
        /\ exec[e] = None
        /\ exec' = [exec EXCEPT ![e] = Run(IF cmd[c].kind = "guard_run" THEN "guard" ELSE "keeper",
                                           None, c, cmd[c].amount, "triggered")]
        /\ Answer(c, "started", e, "triggered")
  BY DEF HandleRun, Free
<1> DEFINE r == Run(IF cmd[c].kind = "guard_run" THEN "guard" ELSE "keeper",
                    None, c, cmd[c].amount, "triggered")
<1>3. r \in Execution /\ r.cmd = c /\ r.kind # "exit"
  BY DEF Types, Command, Run, Execution, Phase
<1> HIDE DEF r
<1>4. /\ exec' \in [Exec -> Execution \union {None}] /\ ExecGrows /\ NoNewExit
      /\ exec'[e] = r /\ r # None
      /\ \A d \in Cmd : d # c /\ Unexecuted(d) => Unexecuted(d)'
  BY <1>2, <1>3, FreshExecution DEF r
<1>5. WorkflowsGrow /\ CommandsStay /\ workflow' \in [Workflow -> Switch \union {None}]
  BY <1>1 DEF WorkflowsGrow, CommandsStay, Types
<1>6. (\A f \in Exec : ExitKeyed(f)') /\ KeysDiffer'
  BY <1>4, <1>5, ExitsStay DEF References
<1>7. KnownExec(e)'
  BY <1>4 DEF KnownExec
<1>8. [type |-> "started", id |-> e, status |-> "triggered"] \in Reply
  BY DEF Reply, Phase
<1>9. cmd[c].kind # "exit" /\ cmd[c].kind \notin Deploys
  BY <1>1 DEF Runs, Deploys
<1> HIDE DEF KnownExec, KnownWorkflow, Answer, Unexecuted, ExitKeyed, KeysDiffer, Terminal
<1> QED
  BY <1>1, <1>2, <1>4, <1>5, <1>6, <1>7, <1>8, <1>9, AnswerKeeps

LEMMA HandleWorkflowKeeps ==
    ASSUME Types, References, NEW c \in Cmd, HandleCreate(c) \/ HandleEnable(c)
    PROVE  Types' /\ References'
<1>1. /\ c \in inbox /\ UNCHANGED <<cmd, exec, log, file, newest, overlapped, calls>>
      /\ cmd[c].kind \in Deploys \union {"keeper_enable"}
  BY DEF HandleCreate, HandleEnable, Deploys
<1>2. ExecGrows /\ NoNewExit /\ CommandsStay /\ exec' \in [Exec -> Execution \union {None}]
      /\ \A d \in Cmd : Unexecuted(d) => Unexecuted(d)'
  BY <1>1 DEF ExecGrows, NoNewExit, CommandsStay, Types, Unexecuted
<1>3. (\A f \in Exec : ExitKeyed(f)') /\ KeysDiffer'
  BY <1>2, ExitsStay DEF References
<1>4. cmd[c].kind # "exit" /\ cmd[c].kind \notin Runs
  BY <1>1 DEF Deploys, Runs
<1>5. cmd[c] \in Command /\ CommandOK(c) /\ cmd[c].pc \in {"asking", "enabling", "failed"}
  BY <1>1 DEF Types, References, CommandOK, Shape
<1>6. CASE HandleCreate(c)
  <2>1. PICK w \in Workflow :
          /\ workflow[w] = None /\ Answer(c, "created", w, None)
          /\ workflow' = [workflow EXCEPT ![w] = [kind |-> FileOf(cmd[c].kind), enabled |-> FALSE]]
    BY <1>6 DEF HandleCreate
  <2>2. [kind |-> FileOf(cmd[c].kind), enabled |-> FALSE] \in Switch
    BY DEF FileOf, Switch, FileKind
  <2>3. workflow' \in [Workflow -> Switch \union {None}] /\ WorkflowsGrow /\ KnownWorkflow(w)'
    BY <2>1, <2>2, NoneIsNothing DEF Types, WorkflowsGrow, KnownWorkflow
  <2>4. [type |-> "created", id |-> w, status |-> None] \in Reply
    BY DEF Reply
  <2> HIDE DEF KnownExec, KnownWorkflow, Answer, Unexecuted, ExitKeyed, KeysDiffer, Terminal
  <2> QED
    BY <1>1, <1>2, <1>3, <1>4, <2>1, <2>3, <2>4, AnswerKeeps
<1>7. CASE HandleEnable(c)
  <2>1. KnownWorkflow(cmd[c].id)
    BY <1>5, <1>7 DEF HandleEnable, CommandOK, Shape, Deploys
  <2>2. /\ workflow' = [workflow EXCEPT ![cmd[c].id].enabled = ~cmd[c].dry]
        /\ Answer(c, "ok", cmd[c].id, None)
    BY <1>7 DEF HandleEnable
  <2>3. workflow[cmd[c].id] \in Switch
    BY <2>1 DEF KnownWorkflow, Types
  <2>4. [workflow[cmd[c].id] EXCEPT !.enabled = ~cmd[c].dry] \in Switch
    BY <1>5, <2>3 DEF Switch, Command
  <2>5. workflow' \in [Workflow -> Switch \union {None}] /\ WorkflowsGrow
    BY <2>1, <2>2, <2>4, NoneIsNothing DEF Types, WorkflowsGrow, KnownWorkflow
  <2>6. [type |-> "ok", id |-> cmd[c].id, status |-> None] \in Reply
    BY <2>1 DEF Reply, KnownWorkflow
  <2>7. KnownWorkflow(cmd[c].id)'
    BY <1>1, <2>1, <2>5 DEF KnownWorkflow, WorkflowsGrow
  <2>8. cmd[c].kind \in Deploys /\ cmd[c].pc = "asking" => KnownWorkflow(cmd[c].id)'
    BY <2>7
  <2> HIDE DEF KnownExec, KnownWorkflow, Answer, Unexecuted, ExitKeyed, KeysDiffer, Terminal
  <2> QED
    BY <1>1, <1>2, <1>3, <1>4, <2>2, <2>5, <2>6, <2>7, <2>8, AnswerKeeps
<1> QED
  BY <1>6, <1>7

------------------------------------------------------------------------------
(***************************************************************************)
(* A command goes on with the answer it waited for.                        *)
(***************************************************************************)
\* The command's record and its answer after a step of its own.
Moves(c, k) ==
    /\ cmd' = [cmd EXCEPT ![c] = k]
    /\ k \in Command
    /\ k.kind = cmd[c].kind /\ k.work = cmd[c].work /\ k.copy = cmd[c].copy

\* The step takes the answer, if one was waited for; a request may go out.
LEMMA MoveKeepsOthers ==
    ASSUME Types, References, NEW c \in Cmd, cmd[c].kind # "none", NEW k, Moves(c, k),
           answer' \in {answer, [answer EXCEPT ![c] = None]},
           inbox' \in {inbox, inbox \union {c}},
           UNCHANGED <<exec, workflow, calls, overlapped>>,
           log' \in [Exec -> SUBSET Phase], LogGrows, \A e \in Exec : RowTrue(e)',
           file' \in [FileKind -> State \union {None}], FilesKnown',
           newest' \in [FileKind -> Workflow \union {None}],
           Shape(c)', Answered(c)', Ended(c)'
    PROVE  Types' /\ References'
<1>1. /\ \A d \in Cmd \ {c} : /\ cmd'[d] = cmd[d] /\ answer'[d] = answer[d]
                              /\ d \in inbox' <=> d \in inbox
      /\ answer' \in [Cmd -> Reply \union {None}] /\ inbox' \subseteq Cmd
      /\ cmd' \in [Cmd -> Command] /\ cmd'[c] = k
  BY DEF Types, Moves
<1>2. Types'
  BY <1>1 DEF Types
<1>3. ExecGrows /\ WorkflowsGrow /\ NoNewExit
  BY DEF ExecGrows, WorkflowsGrow, NoNewExit
<1>4. CommandsStay
  BY <1>1 DEF CommandsStay, Moves
<1>5. \A d \in Cmd \ {c} : CommandOK(d)'
  <2> SUFFICES ASSUME NEW d \in Cmd \ {c} PROVE CommandOK(d)'
    OBVIOUS
  <2>1. Untouched(d)
    BY <1>1 DEF Untouched, Unexecuted
  <2> QED
    BY <1>3, <2>1, UntouchedOK DEF References
<1>6. (\A e \in Exec : ExitKeyed(e)') /\ KeysDiffer'
  BY <1>3, <1>4, ExitsStay DEF References
<1> QED
  BY <1>2, <1>5, <1>6 DEF CommandOK, References

LEMMA TakeExitKeeps ==
    ASSUME Types, References, NEW c \in Cmd, TakeExit(c), UNCHANGED remote
    PROVE  Types' /\ References'
<1>1. /\ cmd[c].kind = "exit" /\ cmd[c].pc = "asking" /\ answer[c] # None
      /\ answer' = [answer EXCEPT ![c] = None]
      /\ UNCHANGED <<inbox, exec, workflow, file, newest, overlapped, calls>>
  BY DEF TakeExit, Take, remote
<1>2. cmd[c] \in Command /\ answer[c] \in Reply /\ CommandOK(c)
  BY <1>1 DEF Types, References
<1>3. c \notin inbox /\ answer'[c] = None
  BY <1>1, <1>2 DEF CommandOK, Answered, Types
<1>4. FilesKnown' /\ file' \in [FileKind -> State \union {None}]
      /\ newest' \in [FileKind -> Workflow \union {None}]
  BY <1>1, FilesStay DEF References, Types, WorkflowsGrow
<1>5. Answered(c)'
  BY <1>3 DEF Answered
<1>6. CASE answer[c].type # "executed"
  <2>1. answer[c].type \in {"dry", "refused"} /\ Unexecuted(c)
    BY <1>1, <1>2, <1>6 DEF CommandOK, Answered, Ended, Pending
  <2>2. cmd' = [cmd EXCEPT ![c].pc = "done", ![c].result = answer[c].type] /\ UNCHANGED log
    BY <1>6 DEF TakeExit, Finish
  <2> DEFINE k == [cmd[c] EXCEPT !.pc = "done", !.result = answer[c].type]
  <2>3. /\ k \in Command /\ k.kind = cmd[c].kind /\ k.work = cmd[c].work /\ k.copy = cmd[c].copy
        /\ k.pc = "done" /\ k.result = answer[c].type /\ k.id = cmd[c].id
    BY <1>2, <2>1 DEF Command
  <2>4. cmd' = [cmd EXCEPT ![c] = k]
    BY <2>2 DEF Types
  <2> HIDE DEF k
  <2>5. Moves(c, k) /\ cmd'[c] = k
    BY <2>3, <2>4 DEF Moves, Types
  <2>6. Shape(c)'
    BY <1>1, <1>2, <1>3, <2>3, <2>5 DEF CommandOK, Shape, Deploys, Runs
  <2>7. Ended(c)'
    <3>1. Unexecuted(c)'
      BY <1>1, <2>1 DEF Unexecuted
    <3>2. k.result # "executed" /\ k.kind = "exit"
      BY <1>1, <2>1, <2>3
    <3> HIDE DEF Unexecuted
    <3> QED
      BY <2>5, <3>1, <3>2 DEF Ended
  <2>8. LogGrows /\ \A e \in Exec : RowTrue(e)'
    BY <1>1, <2>2 DEF LogGrows, References, RowTrue
  <2>9. log' \in [Exec -> SUBSET Phase]
    BY <2>2 DEF Types
  <2> QED
    BY <1>1, <1>4, <1>5, <2>5, <2>6, <2>7, <2>8, <2>9, MoveKeepsOthers
<1>7. CASE answer[c].type = "executed"
  <2>1. KnownExec(answer[c].id) /\ answer[c].status \in Phase
        /\ (Terminal(answer[c].status) => answer[c].status = exec[answer[c].id].phase)
    BY <1>1, <1>2, <1>7 DEF CommandOK, Answered
  <2>2. /\ cmd' = [cmd EXCEPT ![c].pc = "settling", ![c].id = answer[c].id]
        /\ log' = [log EXCEPT ![answer[c].id] = @ \union {answer[c].status}]
    BY <1>7 DEF TakeExit
  <2> DEFINE k == [cmd[c] EXCEPT !.pc = "settling", !.id = answer[c].id]
  <2>3. /\ k \in Command /\ k.kind = cmd[c].kind /\ k.work = cmd[c].work /\ k.copy = cmd[c].copy
        /\ k.pc = "settling" /\ k.id = answer[c].id
    BY <1>2, <2>1 DEF Command, KnownExec
  <2>4. cmd' = [cmd EXCEPT ![c] = k]
    BY <2>2 DEF Types
  <2> HIDE DEF k
  <2>5. Moves(c, k) /\ cmd'[c] = k
    BY <2>3, <2>4 DEF Moves, Types
  <2>6. Shape(c)'
    BY <1>1, <1>2, <1>3, <2>1, <2>3, <2>5 DEF CommandOK, Shape, KnownExec, Deploys, Runs
  <2>7. Ended(c)'
    BY <1>1, <1>3, <2>3, <2>5 DEF Ended, Pending
  <2>8. /\ log' \in [Exec -> SUBSET Phase]
        /\ \A e \in Exec : log'[e] = IF e = answer[c].id THEN log[e] \union {answer[c].status} ELSE log[e]
    BY <2>1, <2>2 DEF Types, KnownExec
  <2>9. LogGrows
    BY <1>1, <2>8 DEF LogGrows
  <2>10. \A e \in Exec : RowTrue(e)'
    BY <1>1, <2>1, <2>8 DEF References, RowTrue, KnownExec
  <2> QED
    BY <1>1, <1>4, <1>5, <2>5, <2>6, <2>7, <2>8, <2>9, <2>10, MoveKeepsOthers
<1> QED
  BY <1>6, <1>7

LEMMA SettleExitKeeps ==
    ASSUME Types, References, NEW c \in Cmd, SettleExit(c), UNCHANGED remote
    PROVE  Types' /\ References'
<1>1. /\ cmd[c].pc = "settling" /\ UNCHANGED <<inbox, answer, exec, workflow, file, newest, overlapped, calls>>
      /\ Terminal(exec[cmd[c].id].phase)
      /\ log' = [log EXCEPT ![cmd[c].id] = {exec[cmd[c].id].phase}]
      /\ cmd' = [cmd EXCEPT ![c].pc = "done", ![c].result = "executed"]
  BY DEF SettleExit, Finish, remote
<1>2. cmd[c] \in Command /\ CommandOK(c) /\ KnownExec(cmd[c].id)
  BY <1>1 DEF Types, References, CommandOK, Shape
<1>3. c \notin inbox /\ answer[c] = None /\ cmd[c].kind = "exit"
  BY <1>1, <1>2 DEF CommandOK, Shape, Command, Kind, Deploys, Runs
<1> DEFINE k == [cmd[c] EXCEPT !.pc = "done", !.result = "executed"]
<1>4. /\ k \in Command /\ k.kind = cmd[c].kind /\ k.work = cmd[c].work /\ k.copy = cmd[c].copy
      /\ k.pc = "done" /\ k.result = "executed" /\ k.id = cmd[c].id
  BY <1>2 DEF Command
<1>5. cmd' = [cmd EXCEPT ![c] = k]
  BY <1>1 DEF Types
<1> HIDE DEF k
<1>6. Moves(c, k) /\ cmd'[c] = k
  BY <1>4, <1>5 DEF Moves, Types
<1>7. exec[cmd[c].id].phase \in Phase
  BY <1>2 DEF KnownExec, Types, Execution
<1>8. /\ log' \in [Exec -> SUBSET Phase]
      /\ \A e \in Exec : log'[e] = IF e = cmd[c].id THEN {exec[e].phase} ELSE log[e]
  BY <1>1, <1>2, <1>7 DEF Types, KnownExec
<1>9. LogGrows
  BY <1>1, <1>8 DEF LogGrows
<1>10. \A e \in Exec : RowTrue(e)'
  BY <1>1, <1>2, <1>8 DEF References, RowTrue, KnownExec
<1>11. Shape(c)'
  BY <1>1, <1>2, <1>3, <1>4, <1>6 DEF CommandOK, Shape, Deploys, Runs
<1>12. Answered(c)'
  BY <1>1, <1>3 DEF Answered
<1>13. Ended(c)'
  <2>1. /\ cmd'[c].kind = "exit" /\ cmd'[c].pc = "done" /\ cmd'[c].result = "executed"
        /\ cmd'[c].id = cmd[c].id
    BY <1>3, <1>4, <1>6
  <2>2. ~Pending(c)'
    BY <1>1, <1>3, <2>1 DEF Pending
  <2>3. KnownExec(cmd[c].id)' /\ exec' = exec
    BY <1>1, <1>2, <2>1 DEF KnownExec
  <2>4. exec[cmd[c].id].phase \in log'[cmd[c].id]
    BY <1>2, <1>8 DEF KnownExec
  <2>5. Terminal(exec[cmd[c].id].phase)
    BY <1>1
  <2> QED
    BY <2>1, <2>2, <2>3, <2>4, <2>5 DEF Ended
<1>14. FilesKnown' /\ file' \in [FileKind -> State \union {None}]
       /\ newest' \in [FileKind -> Workflow \union {None}]
  BY <1>1, FilesStay DEF References, Types, WorkflowsGrow
<1> QED
  BY <1>1, <1>3, <1>6, <1>8, <1>9, <1>10, <1>11, <1>12, <1>13, <1>14, MoveKeepsOthers

LEMMA TakeRunKeeps ==
    ASSUME Types, References, NEW c \in Cmd, TakeRun(c), UNCHANGED remote
    PROVE  Types' /\ References'
<1>1. /\ cmd[c].kind \in Runs /\ cmd[c].pc = "asking" /\ answer[c] # None
      /\ answer' = [answer EXCEPT ![c] = None]
      /\ cmd' = [cmd EXCEPT ![c].pc = "following", ![c].id = answer[c].id]
      /\ UNCHANGED <<inbox, exec, log, workflow, file, newest, overlapped, calls>>
  BY DEF TakeRun, Take, remote, Runs
<1>2. cmd[c] \in Command /\ answer[c] \in Reply /\ CommandOK(c)
  BY <1>1 DEF Types, References
<1>3. c \notin inbox /\ answer'[c] = None /\ KnownExec(answer[c].id)
  BY <1>1, <1>2 DEF CommandOK, Answered, Types
<1> DEFINE k == [cmd[c] EXCEPT !.pc = "following", !.id = answer[c].id]
<1>4. /\ k \in Command /\ k.kind = cmd[c].kind /\ k.work = cmd[c].work /\ k.copy = cmd[c].copy
      /\ k.pc = "following" /\ k.id = answer[c].id
  BY <1>2, <1>3 DEF Command, KnownExec
<1>5. cmd' = [cmd EXCEPT ![c] = k]
  BY <1>1 DEF Types
<1> HIDE DEF k
<1>6. Moves(c, k) /\ cmd'[c] = k
  BY <1>4, <1>5 DEF Moves, Types
<1>7. Shape(c)'
  BY <1>1, <1>2, <1>3, <1>4, <1>6 DEF CommandOK, Shape, KnownExec, KnownWorkflow, Deploys, Runs
<1>8. Answered(c)'
  BY <1>3 DEF Answered
<1>9. Ended(c)'
  BY <1>1, <1>4, <1>6 DEF Ended, Runs
<1>10. LogGrows /\ log' \in [Exec -> SUBSET Phase] /\ \A e \in Exec : RowTrue(e)'
  BY <1>1 DEF LogGrows, Types, References, RowTrue
<1>11. FilesKnown' /\ file' \in [FileKind -> State \union {None}]
       /\ newest' \in [FileKind -> Workflow \union {None}]
  BY <1>1, FilesStay DEF References, Types, WorkflowsGrow
<1>12. cmd[c].kind # "none"
  BY <1>1 DEF Runs
<1> QED
  BY <1>1, <1>6, <1>7, <1>8, <1>9, <1>10, <1>11, <1>12, MoveKeepsOthers

\* A file that is written with a state of a workflow KeeperHub has.
LEMMA WriteKeeps ==
    ASSUME Types, References, NEW c \in Cmd, NEW s \in State, KnownWorkflow(s.id),
           Write(c, s), UNCHANGED workflow
    PROVE  FilesKnown' /\ file' \in [FileKind -> State \union {None}]
<1>1. FileOf(cmd[c].kind) \in FileKind
  BY DEF FileOf, FileKind
<1>2. \A k \in FileKind : file'[k] = IF k = FileOf(cmd[c].kind) THEN s ELSE file[k]
  BY <1>1 DEF Write, Types
<1> QED
  BY <1>1, <1>2 DEF Write, Types, References, FilesKnown, KnownWorkflow

LEMMA RememberedState ==
    ASSUME NEW w \in Workflow, NEW on \in BOOLEAN
    PROVE  Remembered(w, on) \in State /\ Remembered(w, on).id = w
BY DEF Remembered, State

LEMMA TakeCreatedKeeps ==
    ASSUME Types, References, NEW c \in Cmd, TakeCreated(c)
    PROVE  Types' /\ References'
<1>1. /\ cmd[c].kind \in Deploys /\ cmd[c].pc = "asking" /\ answer[c] # None
      /\ answer' = [answer EXCEPT ![c] = None]
      /\ cmd' = [cmd EXCEPT ![c].pc = "validating", ![c].id = answer[c].id]
      /\ newest' = [newest EXCEPT ![FileOf(cmd[c].kind)] = answer[c].id]
      /\ Write(c, Remembered(answer[c].id, FALSE))
      /\ UNCHANGED <<inbox, exec, log, workflow, overlapped, calls>>
  BY DEF TakeCreated, TakeCreatedWith, Take, Deploys
<1>2. cmd[c] \in Command /\ answer[c] \in Reply /\ CommandOK(c)
  BY <1>1 DEF Types, References
<1>3. c \notin inbox /\ answer'[c] = None /\ KnownWorkflow(answer[c].id) /\ answer[c].id \in Workflow
  BY <1>1, <1>2 DEF CommandOK, Answered, Types, KnownWorkflow
<1> DEFINE k == [cmd[c] EXCEPT !.pc = "validating", !.id = answer[c].id]
<1>4. /\ k \in Command /\ k.kind = cmd[c].kind /\ k.work = cmd[c].work /\ k.copy = cmd[c].copy
      /\ k.pc = "validating" /\ k.id = answer[c].id
  BY <1>2, <1>3 DEF Command
<1>5. cmd' = [cmd EXCEPT ![c] = k]
  BY <1>1 DEF Types
<1> HIDE DEF k
<1>6. Moves(c, k) /\ cmd'[c] = k
  BY <1>4, <1>5 DEF Moves, Types
<1>7. workflow'[answer[c].id] # None
  BY <1>1, <1>3 DEF KnownWorkflow
<1>8. Shape(c)'
  BY <1>1, <1>2, <1>3, <1>4, <1>6, <1>7 DEF CommandOK, Shape, KnownWorkflow, Deploys, Runs
<1>9. Answered(c)'
  BY <1>3 DEF Answered
<1>10. Ended(c)'
  BY <1>1, <1>4, <1>6 DEF Ended, Deploys
<1>11. LogGrows /\ log' \in [Exec -> SUBSET Phase] /\ \A e \in Exec : RowTrue(e)'
  BY <1>1 DEF LogGrows, Types, References, RowTrue
<1>12. FilesKnown' /\ file' \in [FileKind -> State \union {None}]
  BY <1>1, <1>3, RememberedState, WriteKeeps
<1>13. newest' \in [FileKind -> Workflow \union {None}]
  BY <1>1, <1>3 DEF Types
<1>14. cmd[c].kind # "none"
  BY <1>1 DEF Deploys
<1> QED
  BY <1>1, <1>6, <1>8, <1>9, <1>10, <1>11, <1>12, <1>13, <1>14, MoveKeepsOthers

LEMMA ValidatedKeeps ==
    ASSUME Types, References, NEW c \in Cmd, Validated(c)
    PROVE  Types' /\ References'
<1>1. /\ cmd[c].pc = "validating"
      /\ UNCHANGED <<answer, exec, log, workflow, newest, overlapped, calls>>
  BY DEF Validated
<1>2. cmd[c] \in Command /\ CommandOK(c)
  BY <1>1 DEF Types, References
<1>3. /\ cmd[c].kind \in Deploys /\ KnownWorkflow(cmd[c].id) /\ cmd[c].id \in Workflow
      /\ c \notin inbox /\ answer[c] = None
  BY <1>1, <1>2 DEF CommandOK, Shape, Command, Kind, Deploys, Runs, KnownWorkflow
<1>4. LogGrows /\ log' \in [Exec -> SUBSET Phase] /\ (\A e \in Exec : RowTrue(e)')
      /\ newest' \in [FileKind -> Workflow \union {None}] /\ Answered(c)'
      /\ cmd[c].kind # "none" /\ workflow'[cmd[c].id] # None
  BY <1>1, <1>3 DEF LogGrows, Types, References, RowTrue, Answered, Deploys, KnownWorkflow
<1>5. CASE /\ Write(c, Remembered(cmd[c].id, FALSE)) /\ Finish(c, "deployed") /\ UNCHANGED inbox
  <2> DEFINE k == [cmd[c] EXCEPT !.pc = "done", !.result = "deployed"]
  <2>1. /\ k \in Command /\ k.kind = cmd[c].kind /\ k.work = cmd[c].work /\ k.copy = cmd[c].copy
        /\ k.pc = "done" /\ k.id = cmd[c].id /\ k.result = "deployed"
    BY <1>2 DEF Command
  <2>2. cmd' = [cmd EXCEPT ![c] = k]
    BY <1>5 DEF Finish, Types
  <2> HIDE DEF k
  <2>3. Moves(c, k) /\ cmd'[c] = k
    BY <2>1, <2>2 DEF Moves, Types
  <2>4. Shape(c)'
    BY <1>1, <1>2, <1>3, <1>4, <1>5, <2>1, <2>3 DEF CommandOK, Shape, KnownWorkflow, Deploys, Runs
  <2>5. Ended(c)'
    BY <1>3, <2>1, <2>3 DEF Ended, Deploys
  <2>6. FilesKnown' /\ file' \in [FileKind -> State \union {None}]
    BY <1>1, <1>3, <1>5, RememberedState, WriteKeeps
  <2> QED
    BY <1>1, <1>4, <1>5, <2>3, <2>4, <2>5, <2>6, MoveKeepsOthers
<1>6. CASE /\ cmd' = [cmd EXCEPT ![c].pc = "enabling"] /\ inbox' = inbox \union {c} /\ UNCHANGED file
  <2> DEFINE k == [cmd[c] EXCEPT !.pc = "enabling"]
  <2>1. /\ k \in Command /\ k.kind = cmd[c].kind /\ k.work = cmd[c].work /\ k.copy = cmd[c].copy
        /\ k.pc = "enabling" /\ k.id = cmd[c].id
    BY <1>2 DEF Command
  <2>2. cmd' = [cmd EXCEPT ![c] = k]
    BY <1>6 DEF Types
  <2> HIDE DEF k
  <2>3. Moves(c, k) /\ cmd'[c] = k
    BY <2>1, <2>2 DEF Moves, Types
  <2>4. Shape(c)'
    BY <1>1, <1>2, <1>3, <1>4, <1>6, <2>1, <2>3 DEF CommandOK, Shape, KnownWorkflow, Deploys, Runs
  <2>5. Ended(c)'
    BY <1>3, <2>1, <2>3 DEF Ended, Deploys
  <2>6. FilesKnown' /\ file' \in [FileKind -> State \union {None}]
    BY <1>1, <1>6, FilesStay DEF References, Types, WorkflowsGrow
  <2> QED
    BY <1>1, <1>4, <1>6, <2>3, <2>4, <2>5, <2>6, MoveKeepsOthers
<1> QED
  BY <1>5, <1>6 DEF Validated

LEMMA TakeEnabledKeeps ==
    ASSUME Types, References, NEW c \in Cmd, TakeEnabled(c)
    PROVE  Types' /\ References'
<1>1. /\ cmd[c].pc = "enabling" /\ answer[c] # None
      /\ answer' = [answer EXCEPT ![c] = None] /\ Finish(c, "enabled")
      /\ UNCHANGED <<inbox, exec, log, workflow, newest, overlapped, calls>>
  BY DEF TakeEnabled, Take
<1>2. cmd[c] \in Command /\ CommandOK(c)
  BY <1>1 DEF Types, References
<1>3. /\ cmd[c].kind \in Deploys \union {"keeper_enable"} /\ KnownWorkflow(cmd[c].id)
      /\ cmd[c].id \in Workflow /\ c \notin inbox /\ answer'[c] = None
  BY <1>1, <1>2 DEF CommandOK, Shape, Answered, Command, Kind, Deploys, Runs, KnownWorkflow, Types
<1>4. LogGrows /\ log' \in [Exec -> SUBSET Phase] /\ (\A e \in Exec : RowTrue(e)')
      /\ newest' \in [FileKind -> Workflow \union {None}] /\ Answered(c)'
      /\ cmd[c].kind # "none" /\ workflow'[cmd[c].id] # None
  BY <1>1, <1>3 DEF LogGrows, Types, References, RowTrue, Answered, Deploys, KnownWorkflow
<1> DEFINE k == [cmd[c] EXCEPT !.pc = "done", !.result = "enabled"]
<1>5. /\ k \in Command /\ k.kind = cmd[c].kind /\ k.work = cmd[c].work /\ k.copy = cmd[c].copy
      /\ k.pc = "done" /\ k.id = cmd[c].id /\ k.result = "enabled"
  BY <1>2 DEF Command
<1>6. cmd' = [cmd EXCEPT ![c] = k]
  BY <1>1 DEF Finish, Types
<1> HIDE DEF k
<1>7. Moves(c, k) /\ cmd'[c] = k
  BY <1>5, <1>6 DEF Moves, Types
<1>8. Shape(c)'
  BY <1>1, <1>2, <1>3, <1>4, <1>5, <1>7 DEF CommandOK, Shape, KnownWorkflow, Deploys, Runs
<1>9. Ended(c)'
  BY <1>3, <1>5, <1>7 DEF Ended, Deploys
<1>10. FilesKnown' /\ file' \in [FileKind -> State \union {None}]
  <2>1. CASE cmd[c].kind = "keeper_enable"
    <3>1. cmd[c].copy \in State /\ KnownWorkflow(cmd[c].copy.id)
      BY <1>2, <2>1 DEF CommandOK, Shape
    <3> DEFINE s == [cmd[c].copy EXCEPT !.enabled = ~cmd[c].dry]
    <3>2. s \in State /\ s.id = cmd[c].copy.id
      BY <1>2, <3>1 DEF State, Command
    <3>3. Write(c, s)
      BY <2>1 DEF TakeEnabled
    <3> HIDE DEF s
    <3> QED
      BY <1>1, <3>1, <3>2, <3>3, WriteKeeps
  <2>2. CASE cmd[c].kind # "keeper_enable"
    BY <1>1, <1>3, <2>2, RememberedState, WriteKeeps DEF TakeEnabled
  <2> QED
    BY <2>1, <2>2
<1> QED
  BY <1>1, <1>4, <1>7, <1>8, <1>9, <1>10, MoveKeepsOthers

LEMMA FinishRunKeeps ==
    ASSUME Types, References, NEW c \in Cmd, FinishRun(c)
    PROVE  Types' /\ References'
<1>1. /\ cmd[c].pc = "following"
      /\ UNCHANGED <<inbox, answer, exec, log, workflow, newest, overlapped, calls>>
      /\ Write(c, [cmd[c].copy EXCEPT !.runs = @ \union {c}])
  BY DEF FinishRun
<1> DEFINE p == exec[cmd[c].id].phase
           result == IF cmd[c].kind = "guard_run" THEN GuardOutcome(p) ELSE p
<1>2. cmd[c] \in Command /\ CommandOK(c) /\ KnownExec(cmd[c].id)
  BY <1>1 DEF Types, References, CommandOK, Shape
<1>3. p \in Phase
  BY <1>2 DEF KnownExec, Types, Execution
<1>4. cmd[c].kind \in Runs /\ c \notin inbox /\ answer[c] = None
  BY <1>1, <1>2 DEF CommandOK, Shape, Command, Kind, Deploys, Runs
<1>5. GuardOutcome(p) \in {"executed", "stopped", "unknown"}
  BY DEF GuardOutcome
<1>6. /\ GuardOutcome(p) = "stopped" => p = "stopped"
      /\ GuardOutcome(p) = "executed" => p = "completed"
  BY <1>3 DEF GuardOutcome, Reported, CompletedStatus, HasHashes, Phase
<1>7. result \in Phase \union {"executed", "unknown"} /\ result \notin {"dry", "refused"}
  BY <1>3, <1>5 DEF Phase
<1>8. cmd' = [cmd EXCEPT ![c].pc = "done", ![c].result = result]
  BY DEF FinishRun, Finish
<1> HIDE DEF p, result
<1> DEFINE k == [cmd[c] EXCEPT !.pc = "done", !.result = result]
<1>9. /\ k \in Command /\ k.kind = cmd[c].kind /\ k.work = cmd[c].work /\ k.copy = cmd[c].copy
      /\ k.pc = "done" /\ k.id = cmd[c].id /\ k.result = result
  BY <1>2, <1>7 DEF Command
<1>10. cmd' = [cmd EXCEPT ![c] = k]
  BY <1>8 DEF Types
<1> HIDE DEF k
<1>11. Moves(c, k) /\ cmd'[c] = k
  BY <1>9, <1>10 DEF Moves, Types
<1>12. cmd[c].copy \in State /\ KnownWorkflow(cmd[c].copy.id)
  BY <1>2, <1>4 DEF CommandOK, Shape
<1>13. Shape(c)'
  BY <1>1, <1>2, <1>4, <1>7, <1>9, <1>11, <1>12 DEF Shape, KnownWorkflow, Deploys, Runs
<1>14. Answered(c)'
  BY <1>1, <1>4 DEF Answered
<1>15. Ended(c)'
  <2>1. cmd'[c].kind \notin {"exit", "none"}
    BY <1>4, <1>9, <1>11 DEF Runs
  <2>2. k.kind = "guard_run" => result = GuardOutcome(p)
    BY <1>9 DEF result
  <2>3. k.id \in Exec /\ exec'[k.id] # None /\ exec'[k.id].phase = p
    BY <1>1, <1>2, <1>9 DEF KnownExec, p
  <2> QED
    BY <1>6, <1>9, <1>11, <2>1, <2>2, <2>3 DEF Ended, KnownExec
<1>16. LogGrows /\ log' \in [Exec -> SUBSET Phase] /\ (\A e \in Exec : RowTrue(e)')
       /\ newest' \in [FileKind -> Workflow \union {None}] /\ cmd[c].kind # "none"
  BY <1>1, <1>4 DEF LogGrows, Types, References, RowTrue, Runs
<1>17. FilesKnown' /\ file' \in [FileKind -> State \union {None}]
  <2> DEFINE s == [cmd[c].copy EXCEPT !.runs = @ \union {c}]
  <2>1. s \in State /\ s.id = cmd[c].copy.id
    BY <1>12 DEF State
  <2>2. Write(c, s)
    BY <1>1
  <2> HIDE DEF s
  <2> QED
    BY <1>1, <1>12, <2>1, <2>2, WriteKeeps
<1> QED
  BY <1>1, <1>11, <1>13, <1>14, <1>15, <1>16, <1>17, MoveKeepsOthers

------------------------------------------------------------------------------
(***************************************************************************)
(* The invariant, and what follows from it.                                *)
(***************************************************************************)
Inv == VaultInv /\ Types /\ References

\* The vault changes by a call, a redeem or a deposit that lands, or not.
LEMMA VaultNext ==
    ASSUME VaultInv, Types, [Next]_vars
    PROVE  VaultStep /\ VaultInv'
<1>1. Wallet \in Account /\ Wallet \in Holder
  BY GuardedExitAssumption DEF Holder
<1>2. \A e \in Exec : exec[e] # None => exec[e].amount \in Nat
  BY DEF Types, Execution
<1>3. UNCHANGED vault => VaultStep /\ VaultInv'
  BY DEF vault, VaultStep, VaultInv, VaultTypeOK, Covered, TotalAssets
<1>4. ASSUME NEW c \in Cmd, Begin(c) \/ Handle(c) \/ Step(c) \/ (Die(c) /\ UNCHANGED remote)
      PROVE  UNCHANGED vault
  BY <1>4 DEF Begin, StartExit, StartDeploy, StartEnable, StartKeeperRun, StartGuardRun, Start,
              Handle, HandleExit, HandleRun, HandleCreate, HandleEnable, Step, ExitStep,
              TakeExit, SettleExit, TakeRun, TimeOut, TakeCreated, TakeCreatedWith, Validated,
              TakeEnabled, FinishRun, Die
<1>5. ASSUME NEW e \in Exec, Engine(e)
      PROVE  VaultStep /\ VaultInv'
  <2>1. CASE LandRedeem(e)
    <3>1. /\ exec[e].amount \in Nat /\ Redeem(Wallet, exec[e].amount, Wallet, Wallet)
      BY <1>2, <2>1 DEF LandRedeem
    <3>2. /\ ConvertToAssets(exec[e].amount) \in Nat
          /\ Effect(Wallet, Wallet, ConvertToAssets(exec[e].amount), exec[e].amount)
      BY <1>1, <3>1, RedeemEffect
    <3>3. allowance' \in [Holder -> [Holder -> Uint]]
      BY <1>1, <3>1, SpendType DEF Redeem, VaultInv
    <3> QED
      BY <1>1, <3>1, <3>2, <3>3, EffectKeeps DEF VaultStep
  <2>2. CASE LandDeposit(e)
    <3>1. exec[e].amount \in Nat /\ Deposit(Wallet, exec[e].amount, Wallet)
      BY <1>2, <2>2 DEF LandDeposit
    <3>2. /\ ConvertToShares(exec[e].amount) \in Nat
          /\ Effect(Wallet, Wallet, exec[e].amount, ConvertToShares(exec[e].amount))
      BY <1>1, <3>1, DepositEffect
    <3>3. allowance' \in [Holder -> [Holder -> Uint]]
      BY <3>1 DEF Deposit, VaultInv, VaultTypeOK
    <3> QED
      BY <1>1, <3>1, <3>2, <3>3, EffectKeeps DEF VaultStep
  <2> QED
    BY <1>3, <1>5, <2>1, <2>2
       DEF Engine, ExitEngine, EngineGate, EngineRelease, EngineFail, CompoundGate
<1>6. CASE Schedule
  BY <1>3, <1>6 DEF Schedule
<1>7. CASE Outside
  <2>1. PICK sender \in Account : Call(sender)
    BY <1>7 DEF Outside
  <2>2. PICK to \in Holder, owner \in Holder, n \in Amount :
          \/ Approve(sender, to, n) \/ Transfer(sender, to, n)
          \/ TransferFrom(sender, owner, to, n) \/ Deposit(sender, n, to)
          \/ MintShares(sender, n, to) \/ Withdraw(sender, n, to, owner)
          \/ Redeem(sender, n, to, owner)
    BY <2>1 DEF Call
  <2>3. n \in Uint
    BY VaultAssumption DEF Uint
  <2> QED
    BY <2>2, <2>3, CallEffect
<1>8. CASE UNCHANGED vars
  BY <1>3, <1>8 DEF vars
<1> QED
  BY <1>3, <1>4, <1>5, <1>6, <1>7, <1>8 DEF Next

------------------------------------------------------------------------------
(***************************************************************************)
(* Balances and totals.  A total is the number of units that are held; it  *)
(* changes by what one holder's balance does.                              *)
(***************************************************************************)
\* One unit for everything that f counts.
Units(f) == UNION {{a} \X (1 .. f[a]) : a \in DOMAIN f}
Holds(f, n) == IsFiniteSet(Units(f)) /\ Cardinality(Units(f)) = n

\* A column of units.
LEMMA Column ==
    ASSUME NEW a, NEW n \in Nat
    PROVE  IsFiniteSet({a} \X (1..n)) /\ Cardinality({a} \X (1..n)) = n
<1>1. IsFiniteSet({a}) /\ Cardinality({a}) = 1
  BY FS_Singleton
<1>2. IsFiniteSet(1..n) /\ Cardinality(1..n) = n
  BY FS_Interval
<1>3. /\ IsFiniteSet({a} \X (1..n))
      /\ Cardinality({a} \X (1..n)) = Cardinality({a}) * Cardinality(1..n)
  BY <1>1, <1>2, FS_Product
<1> QED
  BY <1>1, <1>2, <1>3

\* A holder's units are among all.
LEMMA HeldByOne ==
    ASSUME NEW S, NEW f \in [S -> Nat], NEW t \in Nat, Holds(f, t), NEW a \in S
    PROVE  f[a] <= t
<1>1. {a} \X (1 .. f[a]) \in SUBSET Units(f)
  BY DEF Units
<1>2. Cardinality({a} \X (1 .. f[a])) <= t
  BY <1>1, FS_Subset DEF Holds
<1> QED
  BY <1>2, Column

\* To change one entry changes the total by as much.
LEMMA OneChanges ==
    ASSUME NEW S, NEW f \in [S -> Nat], NEW t \in Nat, Holds(f, t),
           NEW a \in S, NEW v \in Nat
    PROVE  Holds([f EXCEPT ![a] = v], t - f[a] + v)
<1> DEFINE g == [f EXCEPT ![a] = v]
           old == {a} \X (1 .. f[a])
           new == {a} \X (1 .. v)
           rest == Units(f) \ old
<1>1. f[a] \in Nat /\ DOMAIN f = S /\ DOMAIN g = S /\ g[a] = v
  OBVIOUS
<1>2. \A b \in S : b # a => g[b] = f[b]
  OBVIOUS
<1>3. old \subseteq Units(f)
  BY <1>1 DEF Units
<1>4. Units(g) = rest \union new
  <2>1. ASSUME NEW u \in Units(g) PROVE u \in rest \union new
    <3>1. PICK b \in S : u \in {b} \X (1 .. g[b])
      BY <1>1, <2>1 DEF Units
    <3>2. CASE b = a
      BY <1>1, <3>1, <3>2
    <3>3. CASE b # a
      BY <1>1, <1>2, <3>1, <3>3 DEF Units
    <3> QED
      BY <3>2, <3>3
  <2>2. ASSUME NEW u \in rest PROVE u \in Units(g)
    <3>1. PICK b \in S : u \in {b} \X (1 .. f[b])
      BY <1>1, <2>2 DEF Units
    <3>2. b # a
      BY <2>2, <3>1
    <3> QED
      BY <1>1, <1>2, <3>1, <3>2 DEF Units
  <2>3. ASSUME NEW u \in new PROVE u \in Units(g)
    BY <1>1, <2>3 DEF Units
  <2> QED
    BY <2>1, <2>2, <2>3
<1>5. rest \cap new = {}
  <2> SUFFICES ASSUME NEW u \in rest, u \in new PROVE FALSE
    OBVIOUS
  <2>1. PICK b \in S : u \in {b} \X (1 .. f[b])
    BY <1>1 DEF Units
  <2>2. b # a
    BY <2>1
  <2> QED
    BY <2>1, <2>2
<1>6. IsFiniteSet(old) /\ Cardinality(old) = f[a]
  BY <1>1, Column
<1>7. IsFiniteSet(new) /\ Cardinality(new) = v
  BY Column
<1>8. IsFiniteSet(Units(f)) /\ Cardinality(Units(f)) = t
  BY DEF Holds
<1> HIDE DEF g, old, new
<1>9. Units(f) \cap old = old
  BY <1>3
<1>10. IsFiniteSet(rest) /\ Cardinality(rest) = t - f[a]
  BY <1>6, <1>8, <1>9, FS_Difference
<1> HIDE DEF rest
<1>11. /\ IsFiniteSet(rest \union new)
       /\ Cardinality(rest \union new) = Cardinality(rest) + Cardinality(new) - Cardinality(rest \cap new)
  BY <1>7, <1>10, FS_Union
<1>12. Cardinality(rest \cap new) = 0
  BY <1>5, FS_EmptySet
<1>13. IsFiniteSet(Units(g)) /\ Cardinality(Units(g)) = t - f[a] + v
  BY <1>1, <1>4, <1>7, <1>10, <1>11, <1>12
<1> QED
  BY <1>13 DEF Holds, g

\* What moves from one holder to another is not lost.
LEMMA Moved ==
    ASSUME NEW S, NEW f \in [S -> Nat], NEW t \in Nat, Holds(f, t),
           NEW from \in S, NEW to \in S, NEW n \in Nat, n <= f[from]
    PROVE  Holds([[f EXCEPT ![from] = @ - n] EXCEPT ![to] = @ + n], t)
<1> DEFINE g == [f EXCEPT ![from] = f[from] - n]
<1>1. f[from] \in Nat /\ f[from] - n \in Nat /\ f[from] <= t
  BY HeldByOne
<1>2. g \in [S -> Nat]
  BY <1>1
<1>3. Holds(g, t - n) /\ t - n \in Nat
  <2>1. Holds(g, t - f[from] + (f[from] - n))
    BY <1>1, OneChanges
  <2> QED
    BY <1>1, <2>1
<1>4. g[to] \in Nat /\ g[to] + n \in Nat
  BY <1>2
<1> HIDE DEF g
<1>5. Holds([g EXCEPT ![to] = g[to] + n], (t - n) - g[to] + (g[to] + n))
  BY <1>2, <1>3, <1>4, OneChanges
<1>6. (t - n) - g[to] + (g[to] + n) = t
  BY <1>3, <1>4
<1> QED
  BY <1>5, <1>6 DEF g

\* The supply is the sum of the shares; the tokens are those there were.
Conserved == Holds(shares, supply) /\ Holds(tokens, Position + Balance)

LEMMA EffectConserves ==
    ASSUME VaultTypeOK, Conserved, NEW from \in Holder, NEW to \in Holder,
           NEW n \in Nat, NEW m \in Nat, Effect(from, to, n, m)
    PROVE  Conserved'
<1> DEFINE world == Position + Balance
<1>1. supply \in Nat /\ shares \in [Holder -> Nat] /\ tokens \in [Holder -> Nat]
  BY VaultAssumption DEF VaultTypeOK, Uint
<1>2. world \in Nat /\ world' = world
  BY KeeperAssumption, VaultAssumption DEF Uint
<1>3. shares[from] \in Nat /\ shares[to] \in Nat
  BY <1>1
<1>4. Vault \in Holder
  BY DEF Holder
<1> HIDE DEF world
<1>5. Holds(shares, supply) /\ Holds(tokens, world)
  BY DEF Conserved, world
<1>6. ASSUME NEW a \in Holder, NEW b \in Holder, Pay(a, b, n)
      PROVE  Holds(tokens', world)
  <2>1. n <= tokens[a] /\ tokens' = [[tokens EXCEPT ![a] = @ - n] EXCEPT ![b] = @ + n]
    BY <1>6 DEF Pay
  <2> QED
    BY <1>1, <1>2, <1>5, <2>1, Moved
<1>7. CASE Pay(from, Vault, n) /\ Mint(to, m)
  <2>1. shares' = [shares EXCEPT ![to] = shares[to] + m] /\ supply' = supply + m
    BY <1>7 DEF Mint
  <2>2. shares[to] + m \in Nat
    BY <1>3
  <2>3. Holds(shares', supply - shares[to] + (shares[to] + m))
    BY <1>1, <1>5, <2>1, <2>2, OneChanges
  <2>4. Holds(shares', supply')
    BY <1>1, <1>3, <2>1, <2>3
  <2> QED
    BY <1>2, <1>4, <1>6, <1>7, <2>4 DEF Conserved, Holds, Units, world
<1>8. CASE Burn(from, m) /\ Pay(Vault, to, n)
  <2>1. m <= shares[from] /\ shares' = [shares EXCEPT ![from] = shares[from] - m]
        /\ supply' = supply - m
    BY <1>8 DEF Burn
  <2>2. shares[from] - m \in Nat
    BY <1>3, <2>1
  <2>3. Holds(shares', supply - shares[from] + (shares[from] - m))
    BY <1>1, <1>5, <2>1, <2>2, OneChanges
  <2>4. Holds(shares', supply')
    BY <1>1, <1>3, <2>1, <2>3
  <2> QED
    BY <1>2, <1>4, <1>6, <1>8, <2>4 DEF Conserved, Holds, Units, world
<1>9. CASE Move(from, to, m)
  <2>1. /\ m <= shares[from] /\ UNCHANGED <<supply, tokens>>
        /\ shares' = [[shares EXCEPT ![from] = @ - m] EXCEPT ![to] = @ + m]
    BY <1>9 DEF Move
  <2>2. Holds(shares', supply)
    BY <1>1, <1>5, <2>1, Moved
  <2> QED
    BY <1>2, <1>5, <2>1, <2>2 DEF Conserved, Holds, Units, world
<1> QED
  BY <1>7, <1>8, <1>9 DEF Effect

LEMMA ConservedInit == Init => Conserved
<1> SUFFICES ASSUME Init PROVE Conserved
  OBVIOUS
<1>1. Position \in Nat /\ Balance \in Nat
  BY KeeperAssumption
<1>2. Wallet \in Holder /\ Vault \in Holder /\ Wallet # Vault
  BY GuardedExitAssumption, VaultAssumption DEF Holder
<1>3. \A f, S : f = [a \in S |-> 0] => Holds(f, 0)
  <2>1. ASSUME NEW f, NEW S, f = [a \in S |-> 0] PROVE Units(f) = {}
    BY <2>1 DEF Units
  <2> QED
    BY <2>1, FS_EmptySet DEF Holds
<1>4. Holds(shares, supply)
  <2> DEFINE zero == [a \in Holder |-> 0]
  <2>1. shares = [zero EXCEPT ![Wallet] = Position] /\ supply = Position
    BY <1>2 DEF Init
  <2>2. zero \in [Holder -> Nat] /\ zero[Wallet] = 0 /\ Holds(zero, 0)
    BY <1>2, <1>3
  <2> HIDE DEF zero
  <2>3. Holds([zero EXCEPT ![Wallet] = Position], 0 - zero[Wallet] + Position)
    BY <1>1, <1>2, <2>2, OneChanges
  <2> QED
    BY <1>1, <2>1, <2>2, <2>3
<1>5. Holds(tokens, Position + Balance)
  <2> DEFINE zero == [a \in Holder |-> 0]
             some == [zero EXCEPT ![Wallet] = Balance]
  <2>1. tokens = [some EXCEPT ![Vault] = Position]
    BY <1>2 DEF Init
  <2>2. /\ zero \in [Holder -> Nat] /\ zero[Wallet] = 0 /\ Holds(zero, 0)
        /\ some \in [Holder -> Nat] /\ some[Vault] = 0
    BY <1>1, <1>2, <1>3
  <2> HIDE DEF zero
  <2>3. Holds(some, 0 - zero[Wallet] + Balance)
    BY <1>1, <1>2, <2>2, OneChanges
  <2>4. Holds(some, Balance)
    BY <1>1, <2>2, <2>3
  <2> HIDE DEF some
  <2>5. Holds([some EXCEPT ![Vault] = Position], Balance - some[Vault] + Position)
    BY <1>1, <1>2, <2>2, <2>4, OneChanges
  <2>6. Balance - some[Vault] + Position = Position + Balance
    BY <1>1, <2>2
  <2> QED
    BY <2>1, <2>5, <2>6
<1> QED
  BY <1>4, <1>5 DEF Conserved

LEMMA ConservedNext ==
    ASSUME VaultInv, Types, Conserved, [Next]_vars
    PROVE  Conserved'
<1>1. CASE UNCHANGED <<supply, shares, tokens>>
  BY <1>1 DEF Conserved, Holds, Units
<1>2. ASSUME NEW from \in Holder, NEW to \in Holder, NEW n \in Nat, NEW m \in Nat,
             Effect(from, to, n, m)
      PROVE  Conserved'
  BY <1>2, EffectConserves DEF VaultInv
<1> QED
  BY <1>1, <1>2, VaultNext DEF VaultStep

LEMMA HeldByTwo ==
    ASSUME NEW S, NEW f \in [S -> Nat], NEW t \in Nat, Holds(f, t),
           NEW a \in S, NEW b \in S, a # b
    PROVE  f[a] + f[b] <= t
<1> DEFINE g == [f EXCEPT ![a] = 0]
<1>1. f[a] \in Nat /\ f[b] \in Nat /\ f[a] <= t
  BY HeldByOne
<1>2. Holds(g, t - f[a] + 0)
  BY OneChanges
<1>3. g \in [S -> Nat] /\ g[b] = f[b] /\ t - f[a] \in Nat /\ t - f[a] + 0 = t - f[a]
  BY <1>1
<1> HIDE DEF g
<1>4. g[b] <= t - f[a]
  BY <1>2, <1>3, HeldByOne
<1> QED
  BY <1>1, <1>3, <1>4

\* Two balances and what is minted for one of them are in the supply.
BalancesFit == \A a, b \in Holder : a # b => shares[a] + shares[b] <= supply

\* Nothing in a redeem of s shares of one's own reverts.
Redeemable(s) ==
    /\ AssetsFor(s) /\ ConvertToAssets(s) # 0
    /\ s <= supply /\ ConvertToAssets(s) <= tokens[Vault]

HoldersCovered ==
    \A a \in Account : \A s \in 1 .. shares[a] :
        /\ s <= ConvertToAssets(s)
        /\ s * TotalAssets <= MaxUint => Redeemable(s)

LEMMA ConservedFits == VaultInv /\ Conserved => BalancesFit
<1>1. VaultInv => supply \in Nat /\ shares \in [Holder -> Nat]
  BY VaultAssumption DEF VaultInv, VaultTypeOK, Uint
<1> QED
  BY <1>1, HeldByTwo DEF Conserved, BalancesFit

LEMMA ConservedCovers == VaultInv /\ Conserved => HoldersCovered
<1> SUFFICES ASSUME VaultInv, Conserved, NEW a \in Account, NEW s \in 1 .. shares[a]
             PROVE  /\ s <= ConvertToAssets(s)
                    /\ s * TotalAssets <= MaxUint => Redeemable(s)
  BY DEF HoldersCovered
<1>1. supply \in Nat /\ TotalAssets \in Nat /\ supply <= TotalAssets
  BY VaultNumbers
<1>2. shares \in [Holder -> Nat] /\ a \in Holder
  BY VaultAssumption DEF VaultInv, VaultTypeOK, Uint, Holder
<1>3. shares[a] \in Nat /\ shares[a] <= supply
  BY <1>1, <1>2, HeldByOne DEF Conserved
<1>4. s \in Nat /\ s >= 1 /\ s <= supply
  BY <1>1, <1>3
<1>5. /\ ConvertToAssets(s) \in Nat /\ s <= ConvertToAssets(s)
      /\ ConvertToAssets(s) - s <= TotalAssets - supply
  BY <1>4, AssetsRate
<1>6. ConvertToAssets(s) <= TotalAssets
  BY <1>1, <1>4, <1>5
<1> QED
  BY <1>1, <1>4, <1>5, <1>6 DEF Redeemable, AssetsFor, Computes, TotalAssets

\* Shares are burned, and their tokens stay.
TokensStay == OneToOne /\ ~OneToOne' => UNCHANGED tokens /\ supply' < supply

LEMMA TokensStayNext ==
    ASSUME VaultInv, Types, [Next]_vars
    PROVE  TokensStay
<1> SUFFICES ASSUME OneToOne, ~OneToOne'
             PROVE  UNCHANGED tokens /\ supply' < supply
  BY DEF TokensStay
<1>1. supply \in Nat /\ tokens \in [Holder -> Nat] /\ tokens[Vault] = supply /\ Vault \in Holder
  BY VaultNumbers DEF VaultInv, VaultTypeOK, OneToOne, TotalAssets
<1>2. supply' # tokens'[Vault]
  BY DEF OneToOne, TotalAssets
<1>3. PICK from \in Holder, to \in Holder, n \in Nat, m \in Nat : Effect(from, to, n, m)
  BY <1>1, <1>2, VaultNext DEF VaultStep
<1>4. n = m
  BY <1>3 DEF Effect
<1>5. ~(from \in Account /\ Pay(from, Vault, n) /\ Mint(to, m)) /\ ~Move(from, to, m)
  <2>1. Move(from, to, m) => tokens'[Vault] = supply'
    BY <1>1 DEF Move
  <2>2. ASSUME from \in Account, Pay(from, Vault, n), Mint(to, m)
        PROVE  tokens'[Vault] = supply'
    <3>1. from # Vault
      BY <2>2, VaultAssumption
    <3>2. tokens'[Vault] = tokens[Vault] + n
      BY <1>1, <2>2, <3>1 DEF Pay
    <3> QED
      BY <1>1, <1>4, <2>2, <3>2 DEF Mint
  <2> QED
    BY <1>2, <2>1, <2>2
<1>6. /\ m <= supply /\ supply' = supply - m /\ n <= tokens[Vault]
      /\ tokens' = [[tokens EXCEPT ![Vault] = @ - n] EXCEPT ![to] = @ + n]
  BY <1>3, <1>5 DEF Effect, Burn, Pay
<1>7. to = Vault /\ n # 0
  <2>1. CASE to # Vault
    <3>1. tokens'[Vault] = tokens[Vault] - n
      BY <1>1, <1>6, <2>1
    <3> QED
      BY <1>1, <1>2, <1>4, <1>6, <3>1
  <2>2. CASE to = Vault /\ n = 0
    <3>1. tokens'[Vault] = tokens[Vault]
      BY <1>1, <1>6, <2>2
    <3> QED
      BY <1>1, <1>2, <1>4, <1>6, <2>2, <3>1
  <2> QED
    BY <2>1, <2>2
<1>8. tokens' = tokens
  <2>1. tokens'[Vault] = tokens[Vault]
    BY <1>1, <1>6, <1>7
  <2>2. DOMAIN tokens' = Holder /\ \A a \in Holder : a # Vault => tokens'[a] = tokens[a]
    BY <1>1, <1>6, <1>7
  <2>3. tokens' = [a \in Holder |-> tokens'[a]]
    BY <1>1, <1>6
  <2> QED
    BY <1>1, <2>1, <2>2, <2>3
<1> QED
  BY <1>1, <1>4, <1>6, <1>7, <1>8

\* Whose shares they are has called, or has allowed the caller that many.
Consents(a) ==
    \/ Call(a)
    \/ a = Wallet /\ \E e \in Exec : LandRedeem(e) /\ exec[e].amount = shares[a] - shares'[a]
    \/ \E b \in Account : Call(b) /\ allowance[a][b] >= shares[a] - shares'[a]
LostWithConsent ==
    \A a \in Account :
        /\ shares'[a] < shares[a] => Consents(a)
        /\ \A b \in Holder : allowance'[a][b] > allowance[a][b] => Call(a)

LEMMA AllowedCall ==
    ASSUME VaultInv, VaultInv', NEW sender \in Account, Call(sender),
           NEW a \in Account, shares'[a] < shares[a], sender # a
    PROVE  allowance[a][sender] >= shares[a] - shares'[a]
<1>1. PICK to \in Holder, owner \in Holder, n \in Amount :
        \/ Approve(sender, to, n) \/ Transfer(sender, to, n)
        \/ TransferFrom(sender, owner, to, n) \/ Deposit(sender, n, to)
        \/ MintShares(sender, n, to) \/ Withdraw(sender, n, to, owner)
        \/ Redeem(sender, n, to, owner)
  BY DEF Call
<1>2. n \in Nat /\ MaxUint \in Nat /\ a \in Holder /\ sender \in Holder
  BY VaultAssumption DEF Holder
<1>3. /\ shares \in [Holder -> Uint] /\ shares' \in [Holder -> Uint]
      /\ allowance[a][sender] \in Nat
  BY <1>2 DEF VaultInv, VaultTypeOK, Uint
<1>4. shares[a] \in Nat /\ shares'[a] \in Nat /\ shares[a] <= MaxUint
  BY <1>2, <1>3 DEF Uint
<1>5. SUFFICES \E m \in Nat : Spend(a, sender, m) /\ shares'[a] >= shares[a] - m
  <2>1. PICK m \in Nat : Spend(a, sender, m) /\ shares'[a] >= shares[a] - m
    BY <1>5
  <2>2. allowance[a][sender] = MaxUint \/ m <= allowance[a][sender]
    BY <2>1 DEF Spend
  <2> QED
    BY <1>2, <1>3, <1>4, <2>1, <2>2
<1>6. \A m \in Nat : Mint(to, m) => shares'[a] >= shares[a]
  <2> SUFFICES ASSUME NEW m \in Nat, Mint(to, m)
               PROVE  shares'[a] >= shares[a]
    OBVIOUS
  <2>1. shares' = [shares EXCEPT ![to] = shares[to] + m] /\ shares[to] \in Nat
    BY <1>3 DEF Mint, Uint
  <2> QED
    BY <1>2, <1>3, <1>4, <2>1
<1>7. ~ (Approve(sender, to, n) \/ Deposit(sender, n, to) \/ MintShares(sender, n, to))
  <2>1. Deposit(sender, n, to) => \E m \in Nat : Mint(to, m)
    BY <1>2, SharesRate DEF Deposit
  <2>2. MintShares(sender, n, to) => Mint(to, n)
    BY DEF MintShares
  <2> QED
    BY <1>2, <1>4, <1>6, <2>1, <2>2 DEF Approve
<1>8. \A from \in Holder : Move(from, to, n) => from = a /\ shares'[a] >= shares[a] - n
  <2> SUFFICES ASSUME NEW from \in Holder, Move(from, to, n)
               PROVE  from = a /\ shares'[a] >= shares[a] - n
    OBVIOUS
  <2> DEFINE g == [shares EXCEPT ![from] = shares[from] - n]
  <2>1. shares' = [g EXCEPT ![to] = g[to] + n]
    BY DEF Move
  <2>2. shares[from] - n \in Nat /\ shares[from] \in Nat
    BY <1>2, <1>3 DEF Move, Uint
  <2>3. g \in [Holder -> Nat]
    BY <1>3, <2>2 DEF Uint
  <2>4. g[a] = IF a = from THEN shares[a] - n ELSE shares[a]
    BY <1>2, <1>3
  <2> HIDE DEF g
  <2>5. shares'[a] >= g[a]
    BY <1>2, <2>1, <2>3
  <2> QED
    BY <1>2, <1>4, <2>3, <2>4, <2>5
<1>9. \A m \in Nat : Burn(owner, m) => owner = a /\ shares'[a] >= shares[a] - m
  <2> SUFFICES ASSUME NEW m \in Nat, Burn(owner, m)
               PROVE  owner = a /\ shares'[a] >= shares[a] - m
    OBVIOUS
  <2>1. shares' = [shares EXCEPT ![owner] = shares[owner] - m]
    BY DEF Burn
  <2> QED
    BY <1>2, <1>3, <1>4, <2>1
<1>10. CASE Transfer(sender, to, n)
  BY <1>2, <1>8, <1>10 DEF Transfer
<1>11. CASE TransferFrom(sender, owner, to, n)
  BY <1>2, <1>8, <1>11 DEF TransferFrom
<1>12. CASE Withdraw(sender, n, to, owner)
  <2>1. ConvertToShares(n) \in Nat
    BY <1>2, <1>12, SharesRate DEF Withdraw
  <2>2. owner = a /\ shares'[a] >= shares[a] - ConvertToShares(n)
    BY <1>9, <1>12, <2>1 DEF Withdraw
  <2> QED
    BY <1>12, <2>1, <2>2 DEF Withdraw, SpendAllowance
<1>13. CASE Redeem(sender, n, to, owner)
  <2>1. owner = a /\ shares'[a] >= shares[a] - n
    BY <1>2, <1>9, <1>13 DEF Redeem
  <2> QED
    BY <1>2, <1>13, <2>1 DEF Redeem, SpendAllowance
<1> QED
  BY <1>1, <1>7, <1>10, <1>11, <1>12, <1>13

\* Only its owner raises an allowance.
LEMMA AllowedByOwner ==
    ASSUME VaultInv, VaultInv', Types, [Next]_vars,
           NEW a \in Account, NEW b \in Holder, allowance'[a][b] > allowance[a][b]
    PROVE  Call(a)
<1>1. /\ allowance \in [Holder -> [Holder -> Nat]] /\ MaxUint \in Nat
      /\ a \in Holder /\ Account \subseteq Holder
  BY VaultAssumption DEF VaultInv, VaultTypeOK, Uint, Holder
<1>2. allowance' # allowance
  BY <1>1
<1>3. \A owner, spender \in Holder, n \in Nat : ~Spend(owner, spender, n)
  <2> SUFFICES ASSUME NEW owner \in Holder, NEW spender \in Holder, NEW n \in Nat,
                      Spend(owner, spender, n)
               PROVE  FALSE
    OBVIOUS
  <2>1. allowance' = [allowance EXCEPT ![owner][spender] = @ - n]
    BY <1>2 DEF Spend
  <2>2. CASE a = owner /\ b = spender
    BY <1>1, <2>1, <2>2
  <2>3. CASE ~(a = owner /\ b = spender)
    <3>1. allowance'[a][b] = allowance[a][b]
      BY <1>1, <2>1, <2>3
    <3> QED
      BY <1>1, <3>1
  <2> QED
    BY <2>2, <2>3
<1>4. \A n \in Amount : n \in Nat
  BY VaultAssumption
<1>5. CASE Outside
  <2>1. PICK sender \in Account : Call(sender)
    BY <1>5 DEF Outside
  <2>2. PICK to \in Holder, owner \in Holder, n \in Amount :
          \/ Approve(sender, to, n) \/ Transfer(sender, to, n)
          \/ TransferFrom(sender, owner, to, n) \/ Deposit(sender, n, to)
          \/ MintShares(sender, n, to) \/ Withdraw(sender, n, to, owner)
          \/ Redeem(sender, n, to, owner)
    BY <2>1 DEF Call
  <2>3. ~TransferFrom(sender, owner, to, n) /\ ~Redeem(sender, n, to, owner)
    BY <1>1, <1>2, <1>3, <1>4 DEF TransferFrom, Redeem, SpendAllowance
  <2>4. ~Withdraw(sender, n, to, owner)
    <3>1. Withdraw(sender, n, to, owner) => ConvertToShares(n) \in Nat
      BY <1>4, SharesRate DEF Withdraw
    <3> QED
      BY <1>1, <1>2, <1>3, <3>1 DEF Withdraw, SpendAllowance
  <2>5. Approve(sender, to, n)
    BY <1>2, <2>2, <2>3, <2>4 DEF Transfer, Deposit, MintShares
  <2>6. allowance' = [allowance EXCEPT ![sender][to] = n]
    BY <2>5 DEF Approve
  <2>7. a = sender
    <3> SUFFICES ASSUME a # sender PROVE FALSE
      OBVIOUS
    <3>1. allowance'[a] = allowance[a]
      BY <1>1, <2>6
    <3> QED
      BY <1>1, <3>1
  <2> QED
    BY <2>1, <2>7
<1>6. \A e \in Exec : ~Engine(e)
  BY <1>2
     DEF Engine, ExitEngine, EngineGate, EngineRelease, EngineFail, CompoundGate, LandRedeem,
         LandDeposit, Redeem, Deposit, SpendAllowance, vault
<1>7. ASSUME NEW c \in Cmd, Begin(c) \/ Handle(c) \/ Step(c) \/ (Die(c) /\ UNCHANGED remote)
      PROVE  UNCHANGED allowance
  BY <1>7 DEF Begin, StartExit, StartDeploy, StartEnable, StartKeeperRun, StartGuardRun, Start,
              Handle, HandleExit, HandleRun, HandleCreate, HandleEnable, Step, ExitStep,
              TakeExit, SettleExit, TakeRun, TimeOut, TakeCreated, TakeCreatedWith, Validated,
              TakeEnabled, FinishRun, Die, vault
<1> QED
  BY <1>2, <1>5, <1>6, <1>7 DEF Next, Schedule, vars, vault

LEMMA ConsentNext ==
    ASSUME VaultInv, VaultInv', Types, [Next]_vars
    PROVE  LostWithConsent
<1> SUFFICES ASSUME NEW a \in Account, shares'[a] < shares[a]
             PROVE  Consents(a)
  BY AllowedByOwner DEF LostWithConsent
<1>1. /\ shares \in [Holder -> Nat] /\ shares' \in [Holder -> Nat]
      /\ Wallet \in Holder /\ a \in Holder
  BY VaultAssumption, GuardedExitAssumption DEF VaultInv, VaultTypeOK, Uint, Holder
<1>2. shares' # shares
  BY <1>1
<1>3. CASE Outside
  <2>1. PICK sender \in Account : Call(sender)
    BY <1>3 DEF Outside
  <2> QED
    BY <2>1, AllowedCall DEF Consents
<1>4. ASSUME NEW e \in Exec, Engine(e)
      PROVE  Consents(a)
  <2>1. exec[e] # None => exec[e].amount \in Nat
    BY DEF Types, Execution
  <2>2. CASE LandRedeem(e)
    <3>1. exec[e].amount \in Nat /\ Burn(Wallet, exec[e].amount)
      BY <2>1, <2>2 DEF LandRedeem, Redeem
    <3>2. shares' = [shares EXCEPT ![Wallet] = shares[Wallet] - exec[e].amount]
      BY <3>1 DEF Burn
    <3>3. a = Wallet
      BY <1>1, <3>2
    <3>4. exec[e].amount = shares[a] - shares'[a]
      BY <1>1, <3>1, <3>2, <3>3
    <3> QED
      BY <2>2, <3>3, <3>4 DEF Consents
  <2>3. CASE LandDeposit(e)
    <3>1. \E m \in Nat : Mint(Wallet, m)
      BY <2>1, <2>3, SharesRate DEF LandDeposit, Deposit
    <3>2. PICK m \in Nat : shares' = [shares EXCEPT ![Wallet] = shares[Wallet] + m]
      BY <3>1 DEF Mint
    <3> QED
      BY <1>1, <3>2
  <2> QED
    BY <1>2, <1>4, <2>2, <2>3
       DEF Engine, ExitEngine, EngineGate, EngineRelease, EngineFail, CompoundGate, vault
<1>5. ASSUME NEW c \in Cmd, Begin(c) \/ Handle(c) \/ Step(c) \/ (Die(c) /\ UNCHANGED remote)
      PROVE  UNCHANGED shares
  BY <1>5 DEF Begin, StartExit, StartDeploy, StartEnable, StartKeeperRun, StartGuardRun, Start,
              Handle, HandleExit, HandleRun, HandleCreate, HandleEnable, Step, ExitStep,
              TakeExit, SettleExit, TakeRun, TimeOut, TakeCreated, TakeCreatedWith, Validated,
              TakeEnabled, FinishRun, Die, vault
<1> QED
  BY <1>2, <1>3, <1>4, <1>5 DEF Next, Schedule, vars, vault

------------------------------------------------------------------------------
LEMMA HandleKeeps ==
    ASSUME Types, References, NEW c \in Cmd, Handle(c)
    PROVE  Types' /\ References'
BY HandleExitKeeps, HandleRunKeeps, HandleWorkflowKeeps DEF Handle

LEMMA StepKeeps ==
    ASSUME Types, References, NEW c \in Cmd, Step(c)
    PROVE  Types' /\ References'
BY TakeExitKeeps, SettleExitKeeps, TakeRunKeeps, GiveUpKeeps, TakeCreatedKeeps, ValidatedKeeps,
   TakeEnabledKeeps, FinishRunKeeps DEF Step, ExitStep

LEMMA InvNext == Inv /\ [Next]_vars => Inv'
<1> SUFFICES ASSUME VaultInv, VaultTypeOK, Types, References, [Next]_vars
             PROVE  VaultInv' /\ Types' /\ References'
  BY DEF Inv, VaultInv
<1>1. VaultInv'
  BY VaultNext
<1>2. ASSUME NEW c \in Cmd, Begin(c) \/ Handle(c) \/ Step(c) \/ (Die(c) /\ UNCHANGED remote)
      PROVE  Types' /\ References'
  BY <1>2, BeginKeeps, HandleKeeps, StepKeeps, GiveUpKeeps
<1>3. ASSUME NEW e \in Exec, Engine(e)
      PROVE  Types' /\ References'
  BY <1>3, EngineKeeps
<1>4. CASE Schedule
  BY <1>1, <1>4, ScheduleKeeps
<1>5. CASE Outside \/ UNCHANGED vars
  <2>1. UNCHANGED <<cmd, inbox, answer, exec, log, workflow, file, newest, overlapped>>
    BY <1>5 DEF Outside, vars, exits, remote
  <2>2. calls' \in 0 .. MaxCalls
    BY <1>5, KeeperAssumption DEF Outside, vars, remote, Types
  <2>3. ExecGrows /\ NoNewExit /\ \A c \in Cmd : Unexecuted(c) => Unexecuted(c)'
    BY <2>1 DEF ExecGrows, NoNewExit, Unexecuted
  <2> QED
    BY <1>1, <2>1, <2>2, <2>3, NoCommand DEF Types
<1> QED
  BY <1>1, <1>2, <1>3, <1>4, <1>5 DEF Next

LEMMA InvInit == Init => Inv
<1> SUFFICES ASSUME Init PROVE Inv
  OBVIOUS
<1>1. VaultInv
  <2>1. Position \in Uint /\ 0 \in Uint /\ Position \in Nat /\ Balance \in Nat
    BY KeeperAssumption, VaultAssumption DEF Uint
  <2>2. Wallet \in Account /\ Wallet # Vault
    BY GuardedExitAssumption, VaultAssumption
  <2> QED
    BY <2>1, <2>2 DEF Init, VaultInv, VaultTypeOK, Covered, TotalAssets, Holder
<1>2. Types
  <2>1. Idle \in Command
    BY DEF Idle, Command, Kind
  <2>2. 0 \in 0 .. MaxCalls
    BY KeeperAssumption
  <2> HIDE DEF Idle
  <2> QED
    BY <2>1, <2>2 DEF Init, Types
<1>3. \A c \in Cmd : cmd[c].kind = "none" /\ cmd[c].pc = "off"
  BY DEF Init, Idle
<1>4. \A c \in Cmd : Unexecuted(c)
  BY DEF Init, Unexecuted
<1>5. \A c \in Cmd : CommandOK(c)
  <2>1. \A c \in Cmd : Shape(c)
    BY <1>3 DEF Init, Shape, Deploys, Runs
  <2>2. \A c \in Cmd : Answered(c)
    BY DEF Init, Answered
  <2>3. \A c \in Cmd : Ended(c)
    BY <1>3, <1>4 DEF Ended
  <2> QED
    BY <2>1, <2>2, <2>3 DEF CommandOK
<1> QED
  BY <1>1, <1>2, <1>5 DEF Init, Inv, References, ExitKeyed, RowTrue, KeysDiffer, FilesKnown

LEMMA Invariance == Spec => []Inv
BY InvInit, InvNext, PTL DEF Spec

(* Types of the commands, KeeperHub's executions and workflows, the        *)
(* receipts, the state files and the vault.                                *)
THEOREM KeeperTypes == Spec => []TypeOK
<1>1. Inv => TypeOK
  BY DEF Inv, VaultInv, Types, TypeOK
<1> QED
  BY <1>1, Invariance, PTL

(* The vault never has more shares than tokens, whoever calls it how       *)
(* often, in whoever's favour, and through every exit and compounding that *)
(* lands.                                                                  *)
THEOREM VaultStaysCovered == Spec => []Covered
<1>1. Inv => Covered
  BY DEF Inv, VaultInv
<1> QED
  BY <1>1, Invariance, PTL

(* A decision retried for the same shares has one execution.               *)
THEOREM RetriesAreReplays == Spec => []RetriesReplay
<1>1. Inv => RetriesReplay
  BY DEF Inv, References, ExitKeyed, KeysDiffer, RetriesReplay
<1> QED
  BY <1>1, Invariance, PTL

(* The receipts file never runs ahead of KeeperHub, and a followed         *)
(* execution's final status is in it.                                      *)
THEOREM RowsFollowChain == Spec => []LogFollowsChain
<1>1. Inv => LogFollowsChain
  BY DEF Inv, References, CommandOK, Ended, RowTrue, LogFollowsChain
<1> QED
  BY <1>1, Invariance, PTL

(* What a command said when it ended is so and stays so.                   *)
THEOREM OutcomesAreTrue == Spec => []OutcomeTruthful
<1>1. Inv => OutcomeTruthful
  <2> SUFFICES ASSUME Inv, NEW c \in Cmd, cmd[c].pc = "done"
               PROVE  /\ cmd[c].result \in {"dry", "refused"} =>
                           ~\E e \in Exec : exec[e] # None /\ exec[e].cmd = c
                      /\ cmd[c].kind = "guard_run" /\ cmd[c].result = "stopped" =>
                           exec[cmd[c].id].phase = "stopped"
                      /\ cmd[c].kind = "guard_run" /\ cmd[c].result = "executed" =>
                           exec[cmd[c].id].phase = "completed"
    BY DEF OutcomeTruthful
  <2>1. Shape(c) /\ Ended(c)
    BY DEF Inv, References, CommandOK
  <2>2. cmd[c].result \in {"dry", "refused"} => Unexecuted(c)
    BY <2>1 DEF Shape, Ended, Pending
  <2> QED
    BY <2>1, <2>2 DEF Ended, Unexecuted
<1> QED
  BY <1>1, Invariance, PTL

LEMMA Conservation == Spec => [](Conserved /\ VaultInv /\ Types)
<1>1. Conserved /\ Inv /\ Inv' /\ [Next]_vars => Conserved'
  BY ConservedNext DEF Inv
<1>2. Inv => VaultInv /\ Types
  BY DEF Inv
<1> QED
  BY <1>1, <1>2, ConservedInit, Invariance, PTL DEF Spec

(* The supply is always the sum of the balances, and no call, exit or      *)
(* compounding makes or destroys a token (TestVault.sol:80-135).           *)
THEOREM NothingIsLost == Spec => []Conserved
BY Conservation, PTL

(* Any two balances are within the supply, so that what a mint or a        *)
(* transfer adds to a balance never overflows it once the supply has been  *)
(* checked (TestVault.sol:112-135).                                        *)
THEOREM BalancesNeverOverflow == Spec => []BalancesFit
BY Conservation, ConservedFits, PTL

(* Shares redeem for as many tokens at least, and the vault has them: a    *)
(* redeem of one's own shares, few or all, reverts only when the product   *)
(* in its conversion is past MaxUint (TestVault.sol:66-69, 103-110).       *)
THEOREM HoldersCanLeave == Spec => []HoldersCovered
BY Conservation, ConservedCovers, PTL

(* "Shares are 1:1 with assets" (TestVault.sol:6) ends in one way only:    *)
(* shares are burned and no token goes to anyone, that is, the vault is    *)
(* the receiver of what is withdrawn from it (TestVault.sol:95-110).       *)
THEOREM OneToOneEnds == Spec => [][TokensStay]_vars
<1>1. VaultInv /\ Types /\ [Next]_vars => TokensStay
  BY TokensStayNext
<1> QED
  BY <1>1, Conservation, PTL DEF Spec

(* An account's balance falls only by its own call, by that of a spender   *)
(* whom it has allowed as much, or - the wallet's - by the redeem of a     *)
(* guarded exit, by exactly the amount that was decided; and an allowance  *)
(* rises only by its owner's call.                                         *)
(* (TestVault.sol:39-56, 80-137, guarded_exit.py:92-134.)                  *)
THEOREM NoLossWithoutConsent == Spec => [][LostWithConsent]_vars
<1>1. VaultInv /\ Types /\ VaultInv' /\ [Next]_vars => LostWithConsent
  BY ConsentNext
<1> QED
  BY <1>1, Conservation, PTL DEF Spec

------------------------------------------------------------------------------
(***************************************************************************)
(* The redeems that exits and guarded runs stand for (RedeemLedger).  An   *)
(* exit is admitted when it is received; a guarded run has an execution    *)
(* once its request has been received, and then no other.                  *)
(***************************************************************************)
Guards ==
    /\ \A c \in inbox : cmd[c].kind \in Runs => Unexecuted(c)
    /\ \A e \in Exec : exec[e] # None /\ exec[e].kind = "exit" =>
         exec[e].phase \in {"released", "completed", "failed"}
    /\ \A e, f \in Exec :
         /\ exec[e] # None /\ exec[f] # None
         /\ exec[e].kind = "guard" /\ exec[f].kind = "guard" /\ exec[e].cmd = exec[f].cmd
         => e = f

\* Commands keep what they are, and only one that starts asks for a run.
LEMMA CommandsNext ==
    ASSUME Types, References, [Next]_vars
    PROVE  /\ CommandsStay
           /\ \A c \in Cmd : c \in inbox' /\ cmd'[c].kind \in Runs =>
                \/ c \in inbox /\ cmd'[c].kind = cmd[c].kind
                \/ Unexecuted(c) /\ UNCHANGED exec
<1> DEFINE Keeps(c) == cmd[c].kind # "none" => cmd'[c].kind = cmd[c].kind /\ cmd'[c].work = cmd[c].work
           Asks(c) == c \in inbox' /\ cmd'[c].kind \in Runs =>
                        \/ c \in inbox /\ cmd'[c].kind = cmd[c].kind
                        \/ Unexecuted(c) /\ UNCHANGED exec
<1>1. ASSUME UNCHANGED <<cmd, inbox>>
      PROVE  \A c \in Cmd : Keeps(c) /\ Asks(c)
  BY <1>1
<1>2. CASE \/ \E e \in Exec : Engine(e)
           \/ Schedule \/ Outside \/ UNCHANGED vars
  <2>1. UNCHANGED <<cmd, inbox>>
    BY <1>2 DEF Engine, ExitEngine, EngineGate, EngineRelease, EngineFail, LandRedeem,
                CompoundGate, LandDeposit, Schedule, Outside, exits, vars
  <2> QED
    BY <1>1, <2>1 DEF CommandsStay
<1>3. ASSUME NEW d \in Cmd, Begin(d)
      PROVE  \A c \in Cmd : Keeps(c) /\ Asks(c)
  <2>1. \E k : cmd' = [cmd EXCEPT ![d] = k]
    BY <1>3 DEF Begin, StartExit, StartDeploy, StartEnable, StartKeeperRun, StartGuardRun, Start
  <2>2. cmd[d].pc = "off" /\ inbox' = inbox \union {d} /\ UNCHANGED exec
    BY <1>3 DEF Begin, StartExit, StartDeploy, StartEnable, StartKeeperRun, StartGuardRun, Start
  <2>3. cmd[d].kind = "none" /\ Unexecuted(d)
    BY <2>2 DEF References, CommandOK, Shape, Ended
  <2>4. \A c \in Cmd : c # d => cmd'[c] = cmd[c]
    BY <2>1 DEF Types
  <2> HIDE DEF Unexecuted
  <2> QED
    BY <2>2, <2>3, <2>4
<1>4. ASSUME NEW d \in Cmd, Handle(d)
      PROVE  \A c \in Cmd : Keeps(c) /\ Asks(c)
  <2>1. UNCHANGED cmd /\ inbox' = inbox \ {d}
    BY <1>4 DEF Handle, HandleExit, HandleRun, HandleCreate, HandleEnable, Answer
  <2> QED
    BY <2>1
<1>5. ASSUME NEW d \in Cmd, Step(d) \/ (Die(d) /\ UNCHANGED remote)
      PROVE  \A c \in Cmd : Keeps(c) /\ Asks(c)
  <2>1. cmd[d] \in Command
    BY DEF Types
  <2> DEFINE Kept == /\ cmd'[d].kind = cmd[d].kind /\ cmd'[d].work = cmd[d].work
                     /\ \A c \in Cmd : c # d => cmd'[c] = cmd[c]
  <2>2. ASSUME TimeOut(d) \/ Die(d) \/ TakeExit(d) \/ SettleExit(d) \/ TakeRun(d)
        PROVE  Kept
    BY <2>1, <2>2 DEF TimeOut, Die, TakeExit, SettleExit, TakeRun, Finish, Types, Command
  <2>3. ASSUME TakeCreated(d)
        PROVE  Kept
    BY <2>1, <2>3 DEF TakeCreated, TakeCreatedWith, Types, Command
  <2>4. ASSUME Validated(d)
        PROVE  Kept
    <3>1. \/ cmd' = [cmd EXCEPT ![d].pc = "done", ![d].result = "deployed"]
          \/ cmd' = [cmd EXCEPT ![d].pc = "enabling"]
      BY <2>4 DEF Validated, Finish
    <3> QED
      BY <2>1, <3>1 DEF Types, Command
  <2>5. ASSUME TakeEnabled(d)
        PROVE  Kept
    BY <2>1, <2>5 DEF TakeEnabled, Finish, Types, Command
  <2>6. ASSUME FinishRun(d)
        PROVE  Kept
    <3>1. \E r : Finish(d, r)
      BY <2>6 DEF FinishRun
    <3> QED
      BY <2>1, <3>1 DEF Finish, Types, Command
  <2>7. inbox' = inbox \/ Validated(d)
    BY <1>5 DEF Step, ExitStep, TakeExit, SettleExit, TakeRun, TimeOut, TakeCreated,
                TakeCreatedWith, TakeEnabled, FinishRun, Die
  <2> HIDE DEF Kept
  <2>8. Kept
    BY <1>5, <2>2, <2>3, <2>4, <2>5, <2>6 DEF Step, ExitStep
  <2>9. CASE inbox' = inbox
    BY <2>9, <2>8 DEF Kept
  <2>10. CASE Validated(d)
    <3>1. cmd[d].pc = "validating" /\ inbox' \in {inbox, inbox \union {d}}
      BY <2>10 DEF Validated
    <3>2. cmd[d].kind \notin Runs
      BY <3>1 DEF References, CommandOK, Shape
    <3> QED
      BY <2>8, <3>1, <3>2 DEF Kept
  <2> QED
    BY <2>7, <2>9, <2>10
<1>6. \A c \in Cmd : Keeps(c) /\ Asks(c)
  BY <1>1, <1>2, <1>3, <1>4, <1>5 DEF Next, Engine, ExitEngine, EngineGate, EngineRelease, EngineFail,
     LandRedeem, CompoundGate, LandDeposit, Schedule, Outside, exits, vars
<1> HIDE DEF Keeps, Asks
<1> QED
  BY <1>6 DEF CommandsStay, Keeps, Asks

\* An execution there was not: of the compounder, of an exit whose guard is met
\* and whose key is new, or of a guarded run that had none.
Enters(e) ==
    /\ exec[e] = None /\ exec'[e] # None /\ exec'[e] \in Execution
    /\ UNCHANGED <<cmd, vault>> /\ exec'[e].cmd \notin inbox'
    /\ \/ exec'[e].kind = "keeper" /\ exec'[e].phase = "triggered"
       \/ /\ exec'[e].kind = "exit" /\ exec'[e].phase = "released"
          /\ GuardMet(exec'[e].amount) /\ exec'[e].cmd \in Cmd
          /\ exec'[e].key = <<exec'[e].amount, cmd[exec'[e].cmd].work>>
          /\ \A f \in Exec : exec[f] # None => exec[f].key # exec'[e].key
       \/ /\ exec'[e].kind = "guard" /\ exec'[e].phase = "triggered"
          /\ Unexecuted(exec'[e].cmd)

\* How a redeem goes on.
Advances(e) ==
    /\ exec'[e].amount = exec[e].amount
    /\ \/ /\ exec[e].phase = "triggered" /\ GuardMet(exec[e].amount)
          /\ exec[e].kind = "guard" /\ exec'[e].phase = "gated" /\ UNCHANGED vault
       \/ /\ exec[e].phase = "triggered" /\ ~GuardMet(exec[e].amount)
          /\ exec[e].kind = "guard" /\ exec'[e].phase = "stopped" /\ UNCHANGED vault
       \/ exec[e].phase = "gated" /\ exec'[e].phase = "released" /\ UNCHANGED vault
       \/ ~Terminal(exec[e].phase) /\ exec'[e].phase = "failed" /\ UNCHANGED vault
       \/ /\ exec[e].phase = "released" /\ exec'[e].phase = "completed"
          /\ exec[e].kind # "keeper" /\ Redeem(Wallet, exec[e].amount, Wallet, Wallet)

\* What only the compounder's execution does: the window, and the deposit.
Compounds(e) ==
    \/ /\ exec[e].phase = "triggered" /\ exec'[e].amount = tokens[Wallet]
       /\ exec'[e].phase = IF InWindow(tokens[Wallet]) THEN "gated" ELSE "stopped"
       /\ UNCHANGED vault
    \/ /\ exec[e].phase = "released" /\ exec'[e].phase = "completed"
       /\ exec'[e].amount = exec[e].amount
       /\ Deposit(Wallet, exec[e].amount, Wallet)

\* An execution there was goes on.
GoesOn(e) ==
    /\ exec[e] # None /\ exec'[e] # None
    /\ exec'[e].kind = exec[e].kind /\ exec'[e].cmd = exec[e].cmd
    /\ UNCHANGED <<cmd, inbox>>
    /\ \/ exec[e].kind = "keeper" /\ Compounds(e)
       \/ Advances(e)

OthersAsTheyAre(e) == \A f \in Exec : f # e => exec'[f] = exec[f]

LEMMA Rewritten ==
    ASSUME Types, NEW e \in Exec, exec[e] # None, NEW n \in Nat, NEW p \in Phase,
           exec' = [exec EXCEPT ![e].amount = n, ![e].phase = p]
    PROVE  /\ OthersAsTheyAre(e) /\ exec'[e] # None
           /\ exec'[e].kind = exec[e].kind /\ exec'[e].cmd = exec[e].cmd
           /\ exec'[e].amount = n /\ exec'[e].phase = p
<1>1. exec[e] \in Execution
  BY DEF Types
<1>2. /\ \A f \in Exec : f # e => exec'[f] = exec[f]
      /\ exec'[e] \in Execution /\ exec'[e].kind = exec[e].kind
      /\ exec'[e].cmd = exec[e].cmd /\ exec'[e].amount = n /\ exec'[e].phase = p
  BY <1>1 DEF Types, Execution
<1> QED
  BY <1>2, NoneIsNothing DEF OthersAsTheyAre

LEMMA EngineGoesOn ==
    ASSUME Types, VaultTypeOK, NEW e \in Exec, Engine(e)
    PROVE  OthersAsTheyAre(e) /\ GoesOn(e)
<1>1. exec[e] # None /\ UNCHANGED <<cmd, inbox>>
  BY DEF Engine, ExitEngine, EngineGate, EngineRelease, EngineFail, LandRedeem,
         CompoundGate, LandDeposit
<1>2. exec[e].amount \in Nat /\ tokens[Wallet] \in Nat
  BY <1>1, GuardedExitAssumption DEF Types, Execution, VaultTypeOK, Holder
<1>3. CASE CompoundGate(e)
  <2>1. exec' = [exec EXCEPT ![e].amount = tokens[Wallet],
                             ![e].phase = IF InWindow(tokens[Wallet]) THEN "gated" ELSE "stopped"]
    BY <1>3 DEF CompoundGate
  <2> DEFINE p == IF InWindow(tokens[Wallet]) THEN "gated" ELSE "stopped"
  <2>2. p \in Phase
    BY DEF Phase
  <2>3. exec[e].kind = "keeper" /\ exec[e].phase = "triggered" /\ UNCHANGED vault
    BY <1>3 DEF CompoundGate
  <2>4. /\ OthersAsTheyAre(e) /\ exec'[e] # None
        /\ exec'[e].kind = exec[e].kind /\ exec'[e].cmd = exec[e].cmd
        /\ exec'[e].amount = tokens[Wallet] /\ exec'[e].phase = p
    <3>1. exec' = [exec EXCEPT ![e].amount = tokens[Wallet], ![e].phase = p]
      BY <2>1
    <3> HIDE DEF p
    <3>2. ASSUME NEW n \in Nat, NEW q \in Phase,
                 exec' = [exec EXCEPT ![e].amount = n, ![e].phase = q]
          PROVE  /\ OthersAsTheyAre(e) /\ exec'[e] # None
                 /\ exec'[e].kind = exec[e].kind /\ exec'[e].cmd = exec[e].cmd
                 /\ exec'[e].amount = n /\ exec'[e].phase = q
      BY <1>1, <3>2, Rewritten
    <3> QED
      BY <1>2, <2>2, <3>1, <3>2
  <2>5. Compounds(e)
    BY <2>3, <2>4 DEF Compounds
  <2> QED
    BY <1>1, <2>3, <2>4, <2>5 DEF GoesOn
<1>4. CASE LandDeposit(e)
  <2>1. /\ exec[e].kind = "keeper" /\ exec' = [exec EXCEPT ![e].phase = "completed"]
        /\ exec[e].phase = "released" /\ Deposit(Wallet, exec[e].amount, Wallet)
    BY <1>4 DEF LandDeposit
  <2>2. exec' = [exec EXCEPT ![e].amount = exec[e].amount, ![e].phase = "completed"]
    BY <1>1, <2>1, PhaseOnly
  <2>3. "completed" \in Phase
    BY DEF Phase
  <2>4. /\ OthersAsTheyAre(e) /\ exec'[e] # None
        /\ exec'[e].kind = exec[e].kind /\ exec'[e].cmd = exec[e].cmd
        /\ exec'[e].amount = exec[e].amount /\ exec'[e].phase = "completed"
    BY <1>1, <1>2, <2>2, <2>3, Rewritten
  <2>5. Compounds(e)
    BY <2>1, <2>4 DEF Compounds
  <2> QED
    BY <1>1, <2>1, <2>4, <2>5 DEF GoesOn
<1>5. CASE ExitEngine(e)
  <2>1. PICK p \in Phase :
          /\ exec' = [exec EXCEPT ![e].phase = p]
          /\ \/ /\ exec[e].kind = "guard" /\ exec[e].phase = "triggered" /\ UNCHANGED vault
                /\ p = IF GuardMet(exec[e].amount) THEN "gated" ELSE "stopped"
             \/ exec[e].phase = "gated" /\ p = "released" /\ UNCHANGED vault
             \/ ~Terminal(exec[e].phase) /\ p = "failed" /\ UNCHANGED vault
             \/ /\ exec[e].phase = "released" /\ p = "completed" /\ exec[e].kind # "keeper"
                /\ Redeem(Wallet, exec[e].amount, Wallet, Wallet)
    <3>1. CASE EngineGate(e)
      BY <3>1 DEF EngineGate, Phase
    <3>2. CASE EngineRelease(e)
      BY <3>2 DEF EngineRelease, Phase
    <3>3. CASE EngineFail(e)
      BY <3>3 DEF EngineFail, Phase
    <3>4. CASE LandRedeem(e)
      BY <3>4 DEF LandRedeem, Phase
    <3> QED
      BY <1>5, <3>1, <3>2, <3>3, <3>4 DEF ExitEngine
  <2>2. exec' = [exec EXCEPT ![e].amount = exec[e].amount, ![e].phase = p]
    BY <1>1, <2>1, PhaseOnly
  <2>3. /\ OthersAsTheyAre(e) /\ exec'[e] # None
        /\ exec'[e].kind = exec[e].kind /\ exec'[e].cmd = exec[e].cmd
        /\ exec'[e].amount = exec[e].amount /\ exec'[e].phase = p
    BY <1>1, <1>2, <2>2, Rewritten
  <2>4. Advances(e)
    BY <2>1, <2>3 DEF Advances
  <2> QED
    BY <1>1, <2>3, <2>4 DEF GoesOn
<1> QED
  BY <1>3, <1>4, <1>5 DEF Engine

LEMMA EnteredExit ==
    ASSUME Types, References, NEW c \in Cmd, HandleExit(c)
    PROVE  UNCHANGED exec \/ \E e \in Exec : OthersAsTheyAre(e) /\ Enters(e)
<1> SUFFICES ASSUME exec' # exec
             PROVE  \E e \in Exec : OthersAsTheyAre(e) /\ Enters(e)
  OBVIOUS
<1>1. PICK e \in Exec :
        /\ exec[e] = None /\ GuardMet(cmd[c].amount)
        /\ ~\E f \in Exec : exec[f] # None /\ exec[f].key = KeyFor(c)
        /\ exec' = [exec EXCEPT ![e] = Run("exit", KeyFor(c), c, cmd[c].amount, "released")]
        /\ Answer(c, "executed", e, "released")
  BY DEF HandleExit, Free
<1> DEFINE r == Run("exit", KeyFor(c), c, cmd[c].amount, "released")
<1>2. c \in inbox /\ cmd[c].kind = "exit" /\ UNCHANGED <<cmd, vault>> /\ c \notin inbox'
  BY <1>1 DEF HandleExit, Answer
<1>3. cmd[c] \in Command /\ cmd[c].work \in Work
  BY <1>2 DEF Types, References, CommandOK, Shape
<1>4. /\ r \in Execution /\ r.cmd = c /\ r.kind = "exit" /\ r.key = KeyFor(c)
      /\ r.amount = cmd[c].amount /\ r.phase = "released"
  BY <1>3 DEF Run, KeyFor, Execution, Command, Phase
<1> HIDE DEF r
<1>5. exec'[e] = r /\ r # None /\ OthersAsTheyAre(e)
  BY <1>1, <1>4, FreshExecution DEF r, OthersAsTheyAre
<1>6. r.key = <<r.amount, cmd[r.cmd].work>>
  BY <1>4 DEF KeyFor
<1>7. Enters(e)
  BY <1>1, <1>2, <1>4, <1>5, <1>6 DEF Enters
<1> QED
  BY <1>5, <1>7

LEMMA EnteredRun ==
    ASSUME Types, Guards, NEW c \in Cmd, HandleRun(c)
    PROVE  \E e \in Exec : OthersAsTheyAre(e) /\ Enters(e)
<1>1. PICK e \in Exec :
        /\ exec[e] = None
        /\ exec' = [exec EXCEPT ![e] = Run(IF cmd[c].kind = "guard_run" THEN "guard" ELSE "keeper",
                                           None, c, cmd[c].amount, "triggered")]
        /\ Answer(c, "started", e, "triggered")
  BY DEF HandleRun, Free
<1> DEFINE r == Run(IF cmd[c].kind = "guard_run" THEN "guard" ELSE "keeper",
                    None, c, cmd[c].amount, "triggered")
<1>2. UNCHANGED <<cmd, vault>> /\ c \notin inbox' /\ Unexecuted(c)
  BY <1>1 DEF HandleRun, Answer, Guards, Runs
<1>3. r \in Execution /\ r.cmd = c /\ r.kind \in {"guard", "keeper"} /\ r.phase = "triggered"
  BY DEF Types, Command, Run, Execution, Phase
<1> HIDE DEF r
<1>4. exec'[e] = r /\ r # None /\ OthersAsTheyAre(e)
  BY <1>1, <1>3, FreshExecution DEF r, OthersAsTheyAre
<1>5. Enters(e)
  BY <1>1, <1>2, <1>3, <1>4 DEF Enters
<1> QED
  BY <1>4, <1>5

LEMMA EnteredSchedule ==
    ASSUME Types, Schedule
    PROVE  \E e \in Exec : OthersAsTheyAre(e) /\ Enters(e)
<1> DEFINE r == Run("keeper", None, None, 0, "triggered")
<1>1. PICK e \in Exec : exec[e] = None /\ exec' = [exec EXCEPT ![e] = r]
  BY DEF Schedule, Free
<1>2. r \in Execution /\ r.kind = "keeper" /\ r.cmd = None /\ r.phase = "triggered"
  BY DEF Run, Execution, Phase
<1>3. UNCHANGED <<cmd, vault>> /\ None \notin inbox'
  BY NoneIsNothing DEF Schedule, Types
<1> HIDE DEF r
<1>4. exec'[e] = r /\ r # None /\ OthersAsTheyAre(e)
  BY <1>1, <1>2, FreshExecution DEF OthersAsTheyAre
<1>5. Enters(e)
  BY <1>1, <1>2, <1>3, <1>4 DEF Enters
<1> QED
  BY <1>4, <1>5

LEMMA ExecNext ==
    ASSUME Types, VaultTypeOK, References, Guards, [Next]_vars
    PROVE  \/ UNCHANGED exec
           \/ \E e \in Exec : OthersAsTheyAre(e) /\ (Enters(e) \/ GoesOn(e))
<1>1. CASE Outside \/ UNCHANGED vars
  BY <1>1 DEF Outside, exits, vars
<1>2. CASE \E e \in Exec : Engine(e)
  BY <1>2, EngineGoesOn
<1>3. ASSUME NEW c \in Cmd, Handle(c), ~HandleExit(c), ~HandleRun(c)
      PROVE  UNCHANGED exec
  BY <1>3 DEF Handle, HandleCreate, HandleEnable
<1>4. ASSUME NEW c \in Cmd, Begin(c) \/ Step(c) \/ (Die(c) /\ UNCHANGED remote)
      PROVE  UNCHANGED exec
  BY <1>4 DEF Begin, StartExit, StartDeploy, StartEnable, StartKeeperRun, StartGuardRun, Start,
              Step, ExitStep, TakeExit, SettleExit, TakeRun, TimeOut, TakeCreated,
              TakeCreatedWith, Validated, TakeEnabled, FinishRun, Die
<1> QED
  BY <1>1, <1>2, <1>3, <1>4, EnteredExit, EnteredRun, EnteredSchedule DEF Next

LEMMA GuardsNext ==
    ASSUME Types, Types', VaultTypeOK, References, Guards, [Next]_vars
    PROVE  Guards'
<1>1. \A c \in inbox' : cmd'[c].kind \in Runs => Unexecuted(c)
  BY CommandsNext DEF Guards, Types
<1>2. CASE UNCHANGED exec
  BY <1>1, <1>2 DEF Guards, Unexecuted
<1>3. ASSUME NEW e \in Exec, OthersAsTheyAre(e), Enters(e)
      PROVE  Guards'
  <2>1. \A c \in inbox' : cmd'[c].kind \in Runs => Unexecuted(c)'
    BY <1>1, <1>3 DEF OthersAsTheyAre, Enters, Unexecuted
  <2>2. \A f \in Exec : exec'[f] # None /\ exec'[f].kind = "exit" =>
          exec'[f].phase \in {"released", "completed", "failed"}
    BY <1>3 DEF OthersAsTheyAre, Enters, Guards
  <2>3. ASSUME NEW f \in Exec, exec'[f] # None, exec'[f].kind = "guard", f # e
        PROVE  exec'[e].kind = "guard" => exec'[f].cmd # exec'[e].cmd
    BY <1>3, <2>3 DEF OthersAsTheyAre, Enters, Unexecuted
  <2> QED
    BY <1>3, <2>1, <2>2, <2>3 DEF OthersAsTheyAre, Guards
<1>4. ASSUME NEW e \in Exec, OthersAsTheyAre(e), GoesOn(e)
      PROVE  Guards'
  <2>1. \A c \in inbox' : cmd'[c].kind \in Runs => Unexecuted(c)'
    BY <1>1, <1>4 DEF OthersAsTheyAre, GoesOn, Unexecuted
  <2>2. \A f \in Exec : exec'[f] # None /\ exec'[f].kind = "exit" =>
          exec'[f].phase \in {"released", "completed", "failed"}
    BY <1>4 DEF OthersAsTheyAre, GoesOn, Advances, Guards
  <2> QED
    BY <1>4, <2>1, <2>2 DEF OthersAsTheyAre, GoesOn, Guards
<1> QED
  BY <1>2, <1>3, <1>4, ExecNext

LEMMA SameRedeem ==
    ASSUME References, CommandsStay, NEW f \in Exec, exec'[f] = exec[f]
    PROVE  RedeemOf(f)' = RedeemOf(f)
<1>1. exec[f] # None /\ exec[f].kind = "exit" => cmd'[exec[f].cmd].work = cmd[exec[f].cmd].work
  BY DEF References, ExitKeyed, CommandsStay
<1> QED
  BY <1>1 DEF RedeemOf

\* The redeem of an execution that enters is asked for; the position waits.
LEMMA RedeemEnters ==
    ASSUME Types, VaultTypeOK, References, Guards, CommandsStay,
           NEW e \in Exec, OthersAsTheyAre(e), Enters(e)
    PROVE  [Ledger!LedgerNext]_(Ledger!ledgerVars)
<1>1. UNCHANGED <<cmd, shares>>
  BY DEF Enters, vault
<1>2. \A f \in Exec : f # e => RedeemOf(f)' = RedeemOf(f)
  BY SameRedeem DEF OthersAsTheyAre
<1>3. RedeemOf(e) = [decision |-> None, amount |-> 0, state |-> "none"]
  BY DEF Enters, RedeemOf
<1>4. CASE exec'[e].kind = "keeper"
  <2>1. RedeemOf(e)' = RedeemOf(e)
    BY <1>3, <1>4 DEF RedeemOf
  <2> QED
    BY <1>1, <1>2, <2>1 DEF Ledger!ledgerVars
<1>5. CASE exec'[e].kind # "keeper"
  <2>1. /\ RedeemOf(e)'.state = "asked"
        \/ /\ RedeemOf(e)'.state = "admitted" /\ RedeemOf(e)'.amount <= shares[Wallet]
    BY <1>5 DEF Enters, RedeemOf, GuardMet
  <2>2. ASSUME NEW f \in Exec, RedeemOf(f).state # "none"
        PROVE  RedeemOf(f).decision # RedeemOf(e)'.decision
    <3>1. exec[f] # None /\ exec[f].kind # "keeper"
      BY <2>2 DEF RedeemOf
    <3>2. exec[f].kind = "exit" =>
            RedeemOf(f).decision = [by |-> "exit", of |-> exec[f].key]
      BY <3>1 DEF RedeemOf, References, ExitKeyed
    <3>3. exec[f].kind # "exit" =>
            RedeemOf(f).decision = [by |-> "run", of |-> exec[f].cmd]
      BY <3>1 DEF RedeemOf
    <3>4. exec'[e].kind = "exit" =>
            /\ RedeemOf(e)'.decision = [by |-> "exit", of |-> exec'[e].key]
            /\ exec[f].key # exec'[e].key
      BY <1>1, <1>5, <3>1 DEF Enters, RedeemOf
    <3>5. exec'[e].kind # "exit" =>
            /\ RedeemOf(e)'.decision = [by |-> "run", of |-> exec'[e].cmd]
            /\ exec[f].cmd # exec'[e].cmd
      BY <1>5, <3>1 DEF Enters, RedeemOf, Unexecuted
    <3> HIDE DEF RedeemOf
    <3> QED
      BY <3>2, <3>3, <3>4, <3>5
  <2>3. [f \in Exec |-> RedeemOf(f)]' = [[f \in Exec |-> RedeemOf(f)] EXCEPT ![e] = RedeemOf(e)']
    BY <1>2
  <2>4. Ledger!Ask(e, RedeemOf(e)')
    BY <1>1, <1>3, <2>1, <2>2, <2>3 DEF Ledger!Ask, Ledger!Unasked
  <2> QED
    BY <2>4 DEF Ledger!LedgerNext
<1> QED
  BY <1>4, <1>5

\* The redeem of an execution that goes on is admitted, refused, lands or fails.
LEMMA RedeemGoesOn ==
    ASSUME Types, VaultTypeOK, VaultTypeOK', References, CommandsStay,
           NEW e \in Exec, OthersAsTheyAre(e), GoesOn(e)
    PROVE  [Ledger!LedgerNext]_(Ledger!ledgerVars)
<1> DEFINE R == [f \in Exec |-> RedeemOf(f)]
<1>1. \A f \in Exec : f # e => RedeemOf(f)' = RedeemOf(f)
  BY SameRedeem DEF OthersAsTheyAre
<1>2. UNCHANGED R => [Ledger!LedgerNext]_(Ledger!ledgerVars)
  <2>1. shares'[Wallet] \in Nat
    BY GuardedExitAssumption, VaultAssumption DEF VaultTypeOK, Uint, Holder
  <2> QED
    BY <2>1 DEF Ledger!LedgerNext, Ledger!Elsewhere
<1>3. CASE exec[e].kind = "keeper"
  <2>1. RedeemOf(e)' = RedeemOf(e)
    BY <1>3 DEF GoesOn, RedeemOf
  <2> QED
    BY <1>1, <1>2, <2>1
<1>4. CASE exec[e].kind # "keeper"
  <2>1. Advances(e) /\ exec[e] # None /\ exec'[e] # None /\ UNCHANGED cmd
        /\ exec'[e].kind = exec[e].kind /\ exec'[e].cmd = exec[e].cmd
        /\ exec'[e].amount = exec[e].amount
    BY <1>4 DEF GoesOn, Advances
  <2>2. /\ RedeemOf(e)' = [RedeemOf(e) EXCEPT !.state = RedeemOf(e)'.state]
        /\ RedeemOf(e).amount = exec[e].amount
    <3>1. RedeemOf(e) = [decision |-> RedeemOf(e).decision, amount |-> exec[e].amount,
                         state |-> RedeemOf(e).state]
      BY <1>4, <2>1 DEF RedeemOf
    <3>2. RedeemOf(e)' = [decision |-> RedeemOf(e)'.decision, amount |-> exec'[e].amount,
                          state |-> RedeemOf(e)'.state]
      BY <1>4, <2>1 DEF RedeemOf
    <3>3. RedeemOf(e)'.decision = RedeemOf(e).decision
      BY <1>4, <2>1 DEF RedeemOf
    <3> HIDE DEF RedeemOf
    <3> QED
      BY <2>1, <3>1, <3>2, <3>3
  <2>3. R' = [R EXCEPT ![e].state = RedeemOf(e)'.state]
    BY <1>1, <2>2
  <2>4. R[e].amount = exec[e].amount /\ R[e].state = RedeemOf(e).state
    BY <2>2
  <2>5. /\ exec[e].amount \in Nat /\ shares[Wallet] \in Nat
        /\ shares \in [Holder -> Nat] /\ Wallet \in Holder
    BY <2>1, GuardedExitAssumption, VaultAssumption
       DEF Types, Execution, VaultTypeOK, Uint, Holder
  <2>6. /\ exec[e].phase = "triggered" => RedeemOf(e).state = "asked"
        /\ exec[e].phase \in {"gated", "released"} => RedeemOf(e).state = "admitted"
    BY <1>4, <2>1 DEF RedeemOf
  <2>7. /\ exec'[e].phase \in {"gated", "released"} => RedeemOf(e)'.state = "admitted"
        /\ exec'[e].phase = "stopped" => RedeemOf(e)'.state = "refused"
        /\ exec'[e].phase = "completed" => RedeemOf(e)'.state = "landed"
        /\ exec'[e].phase = "failed" => RedeemOf(e)'.state = "failed"
    BY <1>4, <2>1 DEF RedeemOf
  <2> HIDE DEF RedeemOf
  <2>8. CASE /\ exec[e].phase = "released" /\ exec'[e].phase = "completed"
             /\ Redeem(Wallet, exec[e].amount, Wallet, Wallet)
    <3>1. exec[e].amount <= shares[Wallet] /\ shares'[Wallet] = shares[Wallet] - exec[e].amount
      BY <2>5, <2>8 DEF Redeem, Burn
    <3>2. Ledger!Land(e)
      BY <2>3, <2>4, <2>6, <2>7, <2>8, <3>1 DEF Ledger!Land, Ledger!Becomes
    <3> QED
      BY <3>2 DEF Ledger!LedgerNext
  <2>9. CASE UNCHANGED vault
    <3>1. UNCHANGED shares
      BY <2>9 DEF vault
    <3>2. CASE exec[e].phase = "triggered" /\ GuardMet(exec[e].amount) /\ exec'[e].phase = "gated"
      <4>1. Ledger!Admit(e)
        BY <2>3, <2>4, <2>6, <2>7, <3>1, <3>2 DEF Ledger!Admit, Ledger!Becomes, GuardMet
      <4> QED
        BY <4>1 DEF Ledger!LedgerNext
    <3>3. CASE exec[e].phase = "triggered" /\ ~GuardMet(exec[e].amount) /\ exec'[e].phase = "stopped"
      <4>1. exec[e].amount > shares[Wallet]
        BY <2>5, <3>3 DEF GuardMet
      <4>2. Ledger!Refuse(e)
        BY <2>3, <2>4, <2>6, <2>7, <3>1, <3>3, <4>1 DEF Ledger!Refuse, Ledger!Becomes
      <4> QED
        BY <4>2 DEF Ledger!LedgerNext
    <3>4. CASE exec[e].phase = "gated" /\ exec'[e].phase = "released"
      <4>1. RedeemOf(e)' = RedeemOf(e)
        BY <1>4, <2>1, <3>4 DEF RedeemOf
      <4>2. UNCHANGED R
        BY <1>1, <4>1 DEF R
      <4> QED
        BY <1>2, <4>2
    <3>5. CASE ~Terminal(exec[e].phase) /\ exec'[e].phase = "failed"
      <4>1. RedeemOf(e).state \in {"asked", "admitted"}
        <5>1. exec[e].phase \in Phase
          BY <2>1 DEF Types, Execution
        <5> QED
          BY <2>6, <3>5, <5>1 DEF Phase, Terminal
      <4>2. Ledger!Fail(e)
        BY <2>3, <2>4, <2>7, <3>1, <3>5, <4>1 DEF Ledger!Fail, Ledger!Becomes
      <4> QED
        BY <4>2 DEF Ledger!LedgerNext
    <3> QED
      BY <2>1, <2>8, <2>9, <3>2, <3>3, <3>4, <3>5 DEF Advances
  <2> QED
    BY <2>1, <2>8, <2>9 DEF Advances
<1> QED
  BY <1>3, <1>4

LEMMA RedeemStep ==
    ASSUME Inv, Inv', Guards, [Next]_vars
    PROVE  [Ledger!LedgerNext]_(Ledger!ledgerVars)
<1>1. Types /\ VaultTypeOK /\ VaultTypeOK' /\ References
  BY DEF Inv, VaultInv
<1>2. CommandsStay
  BY <1>1, CommandsNext
<1>3. CASE UNCHANGED exec
  <2>1. [f \in Exec |-> RedeemOf(f)]' = [f \in Exec |-> RedeemOf(f)]
    BY <1>1, <1>2, <1>3, SameRedeem
  <2>2. shares'[Wallet] \in Nat
    BY <1>1, GuardedExitAssumption, VaultAssumption DEF VaultTypeOK, Uint, Holder
  <2> QED
    BY <2>1, <2>2 DEF Ledger!LedgerNext, Ledger!Elsewhere
<1> QED
  BY <1>1, <1>2, <1>3, ExecNext, RedeemEnters, RedeemGoesOn

LEMMA RedeemInitial == Init => Guards /\ Ledger!LedgerInit
<1> SUFFICES ASSUME Init PROVE Guards /\ Ledger!LedgerInit
  OBVIOUS
<1>1. Guards
  BY DEF Init, Guards
<1>2. shares[Wallet] \in Nat
  BY GuardedExitAssumption, KeeperAssumption DEF Init, Holder
<1> QED
  BY <1>1, <1>2 DEF Init, Ledger!LedgerInit, Ledger!Unasked, RedeemOf

(* Each decision gets one redeem: its guard was met when it was admitted,  *)
(* it takes from the wallet exactly what was decided, and has one end.     *)
(* The commands with their requests, retries and deaths, the answers, the  *)
(* workflow engine and the chain do nothing else to it.                    *)
(* (guarded_exit.py:92-161, exit_workflow.py:60-175, keeper.py:192-240.)   *)
THEOREM KeeperImplementsLedger == Spec => ImplementsRedeems
<1>1. Inv /\ Inv' /\ Guards /\ [Next]_vars => Guards'
  BY GuardsNext DEF Inv, VaultInv
<1>2. Inv /\ Inv' /\ Guards /\ [Next]_vars => [Ledger!LedgerNext]_(Ledger!ledgerVars)
  BY RedeemStep
<1> QED
  BY <1>1, <1>2, RedeemInitial, Invariance, PTL DEF Spec, ImplementsRedeems, Ledger!LedgerSpec

------------------------------------------------------------------------------
(***************************************************************************)
(* The compounder, and the way of a command.                               *)
(***************************************************************************)
Windowed ==
    \A e \in Exec :
        /\ exec[e] # None /\ exec[e].kind = "keeper"
        /\ exec[e].phase \in {"gated", "released", "completed"}
        => InWindow(exec[e].amount)

LEMMA WindowedNext ==
    ASSUME Types, VaultTypeOK, References, Guards, Windowed, [Next]_vars
    PROVE  Windowed'
<1>1. CASE UNCHANGED exec
  BY <1>1 DEF Windowed, InWindow
<1>2. ASSUME NEW e \in Exec, OthersAsTheyAre(e), Enters(e)
      PROVE  Windowed'
  BY <1>2 DEF Windowed, InWindow, OthersAsTheyAre, Enters
<1>3. ASSUME NEW e \in Exec, OthersAsTheyAre(e), GoesOn(e)
      PROVE  Windowed'
  <2>1. ASSUME exec[e].kind = "keeper", exec'[e].phase \in {"gated", "released", "completed"}
        PROVE  InWindow(exec'[e].amount)
    <3>1. CASE Compounds(e)
      BY <1>3, <2>1, <3>1 DEF Compounds, Windowed, GoesOn
    <3>2. CASE Advances(e)
      BY <1>3, <2>1, <3>2 DEF Advances, Windowed, GoesOn
    <3> QED
      BY <1>3, <3>1, <3>2 DEF GoesOn
  <2> QED
    BY <1>3, <2>1 DEF Windowed, OthersAsTheyAre, GoesOn, InWindow
<1> QED
  BY <1>1, <1>2, <1>3, ExecNext

LEMMA WindowedCorrect == Spec => [](Inv /\ Guards /\ Windowed)
<1>1. Init => Guards /\ Windowed
  BY RedeemInitial DEF Init, Windowed
<1>2. Inv /\ Inv' /\ Guards /\ Windowed /\ [Next]_vars => Guards' /\ Windowed'
  BY GuardsNext, WindowedNext DEF Inv, VaultInv
<1> QED
  BY <1>1, <1>2, Invariance, PTL DEF Spec

\* A run of the compounder has deposited.
Deposited(e) ==
    /\ exec[e] # None /\ exec[e].kind = "keeper"
    /\ exec[e].phase # "completed" /\ exec'[e].phase = "completed"

DepositsInWindow ==
    \A e \in Exec : Deposited(e) =>
        LET n == exec[e].amount
            m == ConvertToShares(n)
        IN  /\ InWindow(n) /\ Pay(Wallet, Vault, n)
            /\ m \in 1 .. n /\ Mint(Wallet, m)
            /\ OneToOne => m = n

(* What a run of the compounder deposits is in the window that --min and   *)
(* --max set, though the wallet may hold another amount when the deposit   *)
(* lands than when the workflow looked; it takes exactly that from the     *)
(* wallet, and the wallet gets shares for it: never none, never more, and  *)
(* as many while the vault is one to one (keeper.py:56-190,                *)
(* TestVault.sol:80-86).                                                   *)
THEOREM CompounderKeepsWindow == Spec => [][DepositsInWindow]_vars
<1>1. ASSUME Inv, Guards, Windowed, [Next]_vars, NEW e \in Exec, Deposited(e)
      PROVE  LET n == exec[e].amount
                 m == ConvertToShares(n)
             IN  /\ InWindow(n) /\ Pay(Wallet, Vault, n)
                 /\ m \in 1 .. n /\ Mint(Wallet, m)
                 /\ OneToOne => m = n
  <2>1. exec[e].amount \in Nat
    BY <1>1 DEF Inv, Types, Execution, Deposited
  <2>2. GoesOn(e)
    <3>1. exec'[e] # exec[e] /\ ~Enters(e)
      BY <1>1 DEF Deposited, Enters
    <3>2. \E f \in Exec : OthersAsTheyAre(f) /\ (Enters(f) \/ GoesOn(f))
      BY <1>1, <3>1, ExecNext DEF Inv, VaultInv
    <3> QED
      BY <3>1, <3>2 DEF OthersAsTheyAre
  <2>3. ~Advances(e)
    BY <1>1 DEF Advances, Deposited
  <2>4. exec[e].phase = "released" /\ Deposit(Wallet, exec[e].amount, Wallet)
    <3>1. Compounds(e)
      BY <2>2, <2>3 DEF GoesOn
    <3> QED
      BY <1>1, <3>1 DEF Compounds, Deposited
  <2>5. InWindow(exec[e].amount)
    BY <1>1, <2>4 DEF Windowed, Deposited
  <2>6. /\ ConvertToShares(exec[e].amount) \in 1 .. exec[e].amount
        /\ OneToOne => ConvertToShares(exec[e].amount) = exec[e].amount
    BY <1>1, <2>1, <2>4, SharesRate DEF Inv, Deposit
  <2> QED
    BY <2>4, <2>5, <2>6 DEF Deposit
<1>2. Inv /\ Guards /\ Windowed /\ [Next]_vars => [DepositsInWindow]_vars
  BY <1>1 DEF DepositsInWindow
<1> QED
  BY <1>2, WindowedCorrect, PTL DEF Spec

\* How much of its way a command has before it.
Ahead(p) ==
    CASE p = "off" -> 5
      [] p = "asking" -> 4
      [] p = "validating" -> 3
      [] p = "enabling" -> 2
      [] p \in {"settling", "following"} -> 1
      [] p \in {"done", "failed"} -> 0

Forward ==
    UNCHANGED cmd \/ \E c \in Cmd :
        /\ Ahead(cmd'[c].pc) < Ahead(cmd[c].pc)
        /\ \A d \in Cmd : d # c => cmd'[d] = cmd[d]

CommandsGoForward == [][Forward]_vars

(* A command goes forward only, one step after the other, and has at most  *)
(* five; one that has ended keeps the outcome it showed, whatever is still *)
(* answered, retried or landed.  As each wait of a command has a deadline, *)
(* this is why it ends.                                                    *)
(* (cli.py:570-710, 1125-1255, guarded_exit.py:92-161, keeper.py:192-240.) *)
THEOREM CommandsAdvance == Spec => CommandsGoForward
<1>1. ASSUME NEW c \in Cmd, cmd[c].pc = "off", cmd'[c].pc \in {"asking", "enabling"},
             \A d \in Cmd : d # c => cmd'[d] = cmd[d]
      PROVE  Forward
  <2>1. Ahead(cmd'[c].pc) \in {4, 2} /\ Ahead(cmd[c].pc) = 5
    BY <1>1 DEF Ahead
  <2>2. Ahead(cmd'[c].pc) < Ahead(cmd[c].pc)
    BY <2>1
  <2> QED
    BY <1>1, <2>2 DEF Forward
<1>2. ASSUME Types, NEW c \in Cmd, NEW k, cmd' = [cmd EXCEPT ![c] = k]
      PROVE  cmd'[c] = k /\ \A d \in Cmd : d # c => cmd'[d] = cmd[d]
  BY <1>2 DEF Types
<1>3. ASSUME Types, NEW c \in Cmd, Begin(c)
      PROVE  Forward
  <2>1. cmd'[c].pc \in {"asking", "enabling"} /\ \A d \in Cmd : d # c => cmd'[d] = cmd[d]
    <3>1. CASE StartExit(c)
      <4>1. PICK w \in Work, dry \in BOOLEAN, n \in {shares[Wallet]} \union Expected :
              cmd' = [cmd EXCEPT ![c] = [Idle EXCEPT !.kind = "exit",
                        !.pc = "asking", !.amount = n, !.work = w, !.dry = dry]]
        BY <3>1 DEF StartExit
      <4> DEFINE k == [Idle EXCEPT !.kind = "exit",
                                 !.pc = "asking", !.amount = n, !.work = w, !.dry = dry]
      <4>2. k.pc \in {"asking", "enabling"}
        BY DEF Idle
      <4>3. cmd' = [cmd EXCEPT ![c] = k]
        BY <4>1
      <4> HIDE DEF k
      <4> QED
        BY <1>2, <1>3, <4>2, <4>3
    <3>2. CASE StartDeploy(c)
      <4>1. PICK kind \in {"guard_deploy", "keeper_deploy"}, off \in BOOLEAN :
              cmd' = [cmd EXCEPT ![c] = [Idle EXCEPT !.kind = kind, !.pc = "asking", !.dry = off]]
        BY <3>2 DEF StartDeploy, Start
      <4> DEFINE k == [Idle EXCEPT !.kind = kind, !.pc = "asking", !.dry = off]
      <4>2. k.pc \in {"asking", "enabling"}
        BY DEF Idle
      <4>3. cmd' = [cmd EXCEPT ![c] = k]
        BY <4>1
      <4> HIDE DEF k
      <4> QED
        BY <1>2, <1>3, <4>2, <4>3
    <3>3. CASE StartEnable(c)
      <4>1. PICK off \in BOOLEAN :
              cmd' = [cmd EXCEPT ![c] =
                        [Idle EXCEPT !.kind = "keeper_enable", !.pc = "enabling", !.dry = off,
                                     !.id = file["keeper"].id, !.copy = file["keeper"]]]
        BY <3>3 DEF StartEnable, Start
      <4> DEFINE k == [Idle EXCEPT !.kind = "keeper_enable", !.pc = "enabling", !.dry = off,
                                   !.id = file["keeper"].id, !.copy = file["keeper"]]
      <4>2. k.pc \in {"asking", "enabling"}
        BY DEF Idle
      <4>3. cmd' = [cmd EXCEPT ![c] = k]
        BY <4>1
      <4> HIDE DEF k
      <4> QED
        BY <1>2, <1>3, <4>2, <4>3
    <3>4. CASE StartKeeperRun(c)
      <4>1. cmd' = [cmd EXCEPT ![c] = [Idle EXCEPT !.kind = "keeper_run", !.pc = "asking",
                                                   !.copy = file["keeper"]]]
        BY <3>4 DEF StartKeeperRun, Start
      <4> DEFINE k == [Idle EXCEPT !.kind = "keeper_run", !.pc = "asking",
                                   !.copy = file["keeper"]]
      <4>2. k.pc \in {"asking", "enabling"}
        BY DEF Idle
      <4>3. cmd' = [cmd EXCEPT ![c] = k]
        BY <4>1
      <4> HIDE DEF k
      <4> QED
        BY <1>2, <1>3, <4>2, <4>3
    <3>5. CASE StartGuardRun(c)
      <4>1. PICK n \in {shares[Wallet], shares[Wallet] + 1} \union Expected :
              cmd' = [cmd EXCEPT ![c] = [Idle EXCEPT !.kind = "guard_run", !.pc = "asking",
                                                     !.amount = n, !.copy = file["guard"]]]
        BY <3>5 DEF StartGuardRun, Start
      <4> DEFINE k == [Idle EXCEPT !.kind = "guard_run",
                                 !.pc = "asking", !.amount = n, !.copy = file["guard"]]
      <4>2. k.pc \in {"asking", "enabling"}
        BY DEF Idle
      <4>3. cmd' = [cmd EXCEPT ![c] = k]
        BY <4>1
      <4> HIDE DEF k
      <4> QED
        BY <1>2, <1>3, <4>2, <4>3
    <3> QED
      BY <1>3, <3>1, <3>2, <3>3, <3>4, <3>5 DEF Begin
  <2>2. cmd[c].pc = "off"
    BY <1>3 DEF Begin, StartExit, StartDeploy, StartEnable, StartKeeperRun, StartGuardRun, Start
  <2> QED
    BY <1>1, <2>1, <2>2
<1>4. ASSUME Types, References, NEW c \in Cmd, Step(c) \/ Die(c)
      PROVE  Forward
  <2>0. cmd \in [Cmd -> Command] /\ cmd[c] \in Command
    BY <1>4 DEF Types
  <2>1. ASSUME NEW p \in {"validating", "enabling", "settling", "following", "done", "failed"},
               cmd'[c].pc = p, \A d \in Cmd : d # c => cmd'[d] = cmd[d],
               Ahead(p) < Ahead(cmd[c].pc)
        PROVE  Forward
    BY <2>1 DEF Forward
  <2>2. ASSUME NEW n, Finish(c, n),
               cmd[c].pc \in {"asking", "validating", "enabling", "settling", "following"}
        PROVE  Forward
    <3>1. cmd'[c].pc = "done" /\ \A d \in Cmd : d # c => cmd'[d] = cmd[d]
      BY <2>0, <2>2 DEF Finish, Command
    <3>2. Ahead("done") < Ahead(cmd[c].pc)
      BY <2>2 DEF Ahead
    <3> QED
      BY <2>1, <3>1, <3>2
  <2>3. CASE TimeOut(c) \/ Die(c)
    <3>1. cmd'[c].pc = "failed" /\ \A d \in Cmd : d # c => cmd'[d] = cmd[d]
      BY <2>0, <2>3 DEF TimeOut, Die, Command
    <3>2. cmd[c].pc \in {"asking", "validating", "enabling", "settling", "following"}
      BY <2>0, <2>3 DEF TimeOut, Die, Active, Command
    <3>3. Ahead("failed") < Ahead(cmd[c].pc)
      BY <3>2 DEF Ahead
    <3> QED
      BY <2>1, <3>1, <3>3
  <2>4. CASE TakeExit(c)
    <3>1. cmd[c].pc = "asking"
      BY <2>4 DEF TakeExit
    <3>2. CASE Finish(c, answer[c].type)
      BY <2>2, <3>1, <3>2
    <3>3. CASE cmd' = [cmd EXCEPT ![c].pc = "settling", ![c].id = answer[c].id]
      <4>1. cmd'[c].pc = "settling" /\ \A d \in Cmd : d # c => cmd'[d] = cmd[d]
        BY <2>0, <3>3 DEF Command
      <4> QED
        BY <2>1, <3>1, <4>1 DEF Ahead
    <3> QED
      BY <2>4, <3>2, <3>3 DEF TakeExit
  <2>5. CASE SettleExit(c)
    BY <2>2, <2>5 DEF SettleExit
  <2>6. CASE TakeRun(c)
    <3>1. /\ cmd[c].pc = "asking" /\ cmd'[c].pc = "following"
          /\ \A d \in Cmd : d # c => cmd'[d] = cmd[d]
      BY <2>0, <2>6 DEF TakeRun, Command
    <3> QED
      BY <2>1, <3>1 DEF Ahead
  <2>7. CASE TakeCreated(c)
    <3>1. /\ cmd[c].pc = "asking" /\ cmd'[c].pc = "validating"
          /\ \A d \in Cmd : d # c => cmd'[d] = cmd[d]
      BY <2>0, <2>7 DEF TakeCreated, TakeCreatedWith, Command
    <3> QED
      BY <2>1, <3>1 DEF Ahead
  <2>8. CASE Validated(c)
    <3>1. cmd[c].pc = "validating"
      BY <2>8 DEF Validated
    <3>2. CASE Finish(c, "deployed")
      BY <2>2, <3>1, <3>2
    <3>3. CASE cmd' = [cmd EXCEPT ![c].pc = "enabling"]
      <4>1. cmd'[c].pc = "enabling" /\ \A d \in Cmd : d # c => cmd'[d] = cmd[d]
        BY <2>0, <3>3 DEF Command
      <4> QED
        BY <2>1, <3>1, <4>1 DEF Ahead
    <3> QED
      BY <2>8, <3>2, <3>3 DEF Validated
  <2>9. CASE TakeEnabled(c)
    BY <2>2, <2>9 DEF TakeEnabled
  <2>10. CASE FinishRun(c)
    BY <2>2, <2>10 DEF FinishRun
  <2> QED
    BY <1>4, <2>3, <2>4, <2>5, <2>6, <2>7, <2>8, <2>9, <2>10 DEF Step, ExitStep
<1>5. ASSUME \/ \E c \in Cmd : Handle(c)
             \/ \E e \in Exec : Engine(e)
             \/ Schedule \/ Outside \/ UNCHANGED vars
      PROVE  UNCHANGED cmd
  BY <1>5 DEF Handle, HandleExit, HandleRun, HandleCreate, HandleEnable, Engine, ExitEngine,
              EngineGate, EngineRelease, EngineFail, LandRedeem, CompoundGate, LandDeposit,
              Schedule, Outside, exits, vars
<1>6. Inv /\ [Next]_vars => [Forward]_vars
  BY <1>3, <1>4, <1>5 DEF Next, Inv, Forward
<1> QED
  BY <1>6, Invariance, PTL DEF Spec, CommandsGoForward

==============================================================================
