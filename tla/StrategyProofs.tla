---------------------------- MODULE StrategyProofs ----------------------------
(***************************************************************************)
(* Theorems about Strategy, for every configuration __init__ accepts, any  *)
(* capital and any number of faults.                                       *)
(***************************************************************************)
EXTENDS Strategy, TLAPS

------------------------------------------------------------------------------
(***************************************************************************)
(* Types.                                                                  *)
(***************************************************************************)
\* What base units the receipt tells are the token's own again.
LEMMA UnitsCancel ==
    ASSUME NEW a \in Nat
    PROVE  AssetsToHuman(a * Scale) = a
<1>1. \A b \in Nat : b # 0 => (a * b) \div b = a
  OBVIOUS
<1>2. Scale \in Nat /\ Scale # 0
  BY StrategyAssumption DEF ConfigAccepted
<1> QED
  BY <1>1, <1>2 DEF AssetsToHuman

LEMMA ToldAmount ==
    ASSUME TypeOK, pc = "landed"
    PROVE  /\ intent \in Intent /\ intent.amount \in Nat
           /\ \A logs \in BOOLEAN : Told(logs) = IF logs THEN intent.amount ELSE 0
<1>1. intent \in Intent /\ intent.amount \in Nat
  BY DEF TypeOK, Intent
<1> QED
  BY <1>1, UnitsCancel DEF Told

LEMMA CountTypes ==
    /\ Checks \in Nat /\ Checks >= 1
    /\ \A n \in 0 .. Checks + 1 : OneMore(n) \in 0 .. Checks + 1
BY StrategyAssumption DEF OneMore, Smaller, ConfigAccepted

LEMMA FailedType ==
    ASSUME NEW m \in Memory
    PROVE  Failed(m) \in Memory /\ Healthy(m) \in Memory
BY CountTypes DEF Memory, Failed, Healthy

LEMMA AfterTypes ==
    ASSUME TypeOK, pc = "landed", NEW logs \in BOOLEAN
    PROVE  AfterDeposit(mem, logs) \in Memory /\ AfterRedeem(mem, logs) \in Memory
<1>1. Told(logs) \in Int
  BY ToldAmount
<1>2. mem \in Memory /\ LastSeen \in Time
  BY DEF TypeOK, LastSeen
<1>3. Told(logs) - mem.total \in Int
  BY <1>1, <1>2 DEF Memory
<1> HIDE DEF Told
<1>4. AfterDeposit(mem, logs) \in Memory
  <2> DEFINE time == IF mem.state = "compounding" THEN LastSeen ELSE mem.compounded
  <2>1. time \in Time \union {None} /\ mem.total + Told(logs) \in Int /\ mem.shares + Told(logs) \in Int
    BY <1>1, <1>2 DEF Memory
  <2>2. AfterDeposit(mem, logs) =
          [mem EXCEPT !.compounded = time, !.state = "deposited",
                      !.total = mem.total + Told(logs), !.shares = mem.shares + Told(logs)]
    BY <1>2 DEF AfterDeposit, Memory
  <2> HIDE DEF time
  <2> QED
    BY <1>2, <2>1, <2>2 DEF Memory, Stable
<1>5. AfterRedeem(mem, logs) \in Memory
  <2> DEFINE earned == Told(logs) - mem.total
             gain == IF logs /\ earned > 0 THEN mem.gain + earned ELSE mem.gain
  <2>1. gain \in Int
    BY <1>2, <1>3 DEF Memory
  <2>2. AfterRedeem(mem, logs) =
          [mem EXCEPT !.state = "idle", !.total = 0, !.shares = 0, !.low = 0,
                      !.entered = None, !.compounded = None, !.gain = gain]
    BY <1>2 DEF AfterRedeem, Memory
  <2>3. "idle" \in Stable \union Transitional /\ 0 \in 0 .. Checks + 1
    BY CountTypes DEF Stable
  <2> HIDE DEF gain
  <2>4. \A m \in Memory :
          /\ [m EXCEPT !.state = "idle"] \in Memory /\ [m EXCEPT !.total = 0] \in Memory
          /\ [m EXCEPT !.shares = 0] \in Memory /\ [m EXCEPT !.low = 0] \in Memory
          /\ [m EXCEPT !.entered = None] \in Memory /\ [m EXCEPT !.compounded = None] \in Memory
          /\ [m EXCEPT !.gain = gain] \in Memory
    BY <2>1, <2>3 DEF Memory
  <2>5. [mem EXCEPT !.state = "idle", !.total = 0] \in Memory
    BY <1>2, <2>4
  <2>6. [mem EXCEPT !.state = "idle", !.total = 0, !.shares = 0, !.low = 0] \in Memory
    BY <2>4, <2>5
  <2> QED
    BY <2>2, <2>4, <2>6
<1> QED
  BY <1>4, <1>5

LEMMA DepositIntent ==
    ASSUME TypeOK
    PROVE  /\ EntryAmount \in Int
           /\ Smaller(wallet, DepositAmount) \in Nat
           /\ \A t \in {"VAULT_DEPOSIT", "VAULT_REDEEM"}, n \in Nat, b \in BOOLEAN :
                [type |-> t, amount |-> n, teardown |-> b, decided |-> hour] \in Intent
<1>1. wallet \in Nat /\ DepositAmount \in Nat /\ AllocationPct \in Int /\ hour \in Time
  BY StrategyAssumption DEF TypeOK, ConfigAccepted
<1>2. \A a, b \in Int : (a * b) \div 100 \in Int
  OBVIOUS
<1> QED
  BY <1>1, <1>2 DEF EntryAmount, Smaller, Intent

LEMMA DecideTypes ==
    ASSUME TypeOK, Decide
    PROVE  TypeOK'
<1>1. mem \in Memory
  BY DEF TypeOK
<1>0. seen' \in Time \union {None}
  BY DEF Decide, Revert, Hold, Enter, BelowFloor, AboveFloor, Asked, TypeOK
<1>2. CASE Revert
  BY <1>0, <1>1, <1>2 DEF Revert, TypeOK, chain, runner, history, Memory
<1>6. CASE Hold
  BY <1>0, <1>6 DEF Hold, TypeOK, chain, runner, history
<1>3. CASE Enter
  <2>1. mem' \in Memory
    BY <1>1, <1>3 DEF Enter, Memory, Stable, Transitional, TypeOK
  <2>2. intent' \in Intent
    <3>1. EntryAmount \in Nat
      BY <1>3, DepositIntent DEF Enter
    <3> QED
      BY <1>3, <3>1, DepositIntent DEF Enter, Emit, Run
  <2>3. streak' \in 0 .. Checks + 1
    BY <1>3, CountTypes DEF Enter
  <2> QED
    BY <1>0, <1>3, <2>1, <2>2, <2>3, NoneAssumption DEF Enter, Emit, Run, TypeOK, chain
<1>4. CASE BelowFloor
  <2>1. mem' \in Memory
    BY <1>1, <1>4, CountTypes DEF BelowFloor, Memory, Stable, Transitional
  <2>2. streak' \in 0 .. Checks + 1
    BY <1>4, CountTypes DEF BelowFloor, TypeOK
  <2>3. CASE UNCHANGED runner
    BY <1>0, <1>4, <2>1, <2>2, <2>3 DEF BelowFloor, TypeOK, chain, runner
  <2>4. CASE Emit("VAULT_REDEEM", 0)
    <3>1. intent' \in Intent
      BY <2>4, DepositIntent DEF Emit, Run
    <3> QED
      BY <1>0, <1>4, <2>1, <2>2, <2>4, <3>1, NoneAssumption DEF BelowFloor, Emit, Run, TypeOK, chain
  <2> QED
    BY <1>4, <2>3, <2>4 DEF BelowFloor
<1>5. CASE AboveFloor
  <2>1. mem' \in Memory
    <3>1. Healthy(mem) \in Memory
      BY <1>1, FailedType
    <3>2. [Healthy(mem) EXCEPT !.stable = "deposited", !.state = "compounding"] \in Memory
      BY <3>1 DEF Memory, Stable, Transitional
    <3> QED
      BY <1>5, <3>1, <3>2 DEF AboveFloor
  <2>2. CASE UNCHANGED runner
    BY <1>0, <1>5, <2>1, <2>2, CountTypes DEF AboveFloor, TypeOK, chain, runner
  <2>3. CASE wallet >= MinDeposit /\ Emit("VAULT_DEPOSIT", Smaller(wallet, DepositAmount))
    <3>1. intent' \in Intent
      BY <2>3, DepositIntent DEF Emit, Run
    <3>2. streak' \in 0 .. Checks + 1
      BY <1>5, CountTypes DEF AboveFloor
    <3> QED
      BY <1>0, <1>5, <2>1, <2>3, <3>1, <3>2, NoneAssumption DEF AboveFloor, Emit, Run, TypeOK, chain
  <2> QED
    BY <1>5, <2>2, <2>3 DEF AboveFloor
<1> QED
  BY <1>2, <1>3, <1>4, <1>5, <1>6 DEF Decide

LEMMA MoveTypes ==
    ASSUME TypeOK, NEW i \in Intent, CanLand(i), MoveFunds(i)
    PROVE  wallet' \in Nat /\ held' \in Nat /\ accrued' \in Nat
BY DEF TypeOK, Intent, CanLand, MoveFunds

LEMMA AbandonedType ==
    ASSUME TypeOK, pc = "executing"
    PROVE  Abandoned \in Intent
<1>1. intent \in Intent /\ 0 \in Time
  BY StrategyAssumption DEF TypeOK, Time
<1>2. \A i \in Intent : [i EXCEPT !.decided = 0] \in Intent /\ [i EXCEPT !.teardown = FALSE] \in Intent
  BY <1>1 DEF Intent
<1> QED
  BY <1>1, <1>2 DEF Abandoned

LEMMA ExecuteTypes ==
    ASSUME TypeOK, Execute
    PROVE  TypeOK'
<1>1. pc = "executing" /\ intent \in Intent
  BY DEF Execute, Land, Fail, GiveUp, TypeOK
<1>2. CASE Land
  <2>1. intent' \in Intent
    BY <1>1, <1>2 DEF Land, Intent, TypeOK
  <2> QED
    BY <1>1, <1>2, <2>1, MoveTypes, NoneAssumption DEF Land, TypeOK, history
<1>3. CASE Fail
  BY <1>1, <1>3, NoneAssumption DEF Fail, TypeOK, chain, history
<1>4. CASE GiveUp
  <2>1. Abandoned \in Intent
    BY <1>1, AbandonedType
  <2>2. faults' \in 0 .. MaxFaults /\ misled' \in BOOLEAN
    BY <1>4, StrategyAssumption DEF GiveUp, TypeOK
  <2> QED
    BY <1>4, <2>1, <2>2, FailedType DEF GiveUp, TypeOK, chain
<1> QED
  BY <1>2, <1>3, <1>4 DEF Execute

LEMMA ReportTypes ==
    ASSUME TypeOK, Report
    PROVE  TypeOK'
<1>1. mem \in Memory /\ mem.entered \in Time \union {None}
  BY DEF TypeOK, Memory
<1>2. CASE Succeeded
  <2>1. mem' \in Memory
    BY <1>2, AfterTypes DEF Succeeded
  <2>2. funded' \in Time
    <3>1. intent \in Intent /\ 0 \in Time
      BY <1>2, ToldAmount, StrategyAssumption DEF Succeeded, Time
    <3> QED
      BY <1>2, <3>1 DEF Succeeded, Intent
  <2>3. faults' \in 0 .. MaxFaults /\ misled' \in BOOLEAN
    BY <1>2, StrategyAssumption DEF Succeeded, TypeOK
  <2> QED
    BY <1>2, <2>1, <2>2, <2>3 DEF Succeeded, TypeOK, chain
<1>3. CASE ToldFailed
  <2>1. misled' \in BOOLEAN
    BY <1>3 DEF ToldFailed, TypeOK
  <2> QED
    BY <1>1, <1>3, <2>1, FailedType DEF ToldFailed, TypeOK, chain
<1> QED
  BY <1>2, <1>3 DEF Report

LEMMA OtherTypes ==
    ASSUME TypeOK, Teardown \/ Save \/ Restart \/ World \/ UNCHANGED vars
    PROVE  TypeOK'
<1>1. CASE Teardown
  <2>1. intent' \in Intent
    BY <1>1, DepositIntent DEF Teardown, Run
  <2> QED
    BY <1>1, <2>1, NoneAssumption DEF Teardown, Run, TypeOK, chain, history
<1>2. CASE Save
  BY <1>2 DEF Save, TypeOK, chain, runner, history
<1>3. CASE Restart
  <2>1. late' \in Intent \union {None}
    BY <1>3, AbandonedType DEF Restart, TypeOK
  <2>2. misled' \in BOOLEAN /\ faults' \in 0 .. MaxFaults
    BY <1>3, StrategyAssumption DEF Restart, TypeOK
  <2> QED
    BY <1>3, <2>1, <2>2 DEF Restart, TypeOK, chain
<1>4. CASE LateLand
  <2>1. wallet' \in Nat /\ held' \in Nat /\ accrued' \in Nat
    BY <1>4, MoveTypes DEF LateLand, TypeOK
  <2> QED
    BY <1>4, <2>1 DEF LateLand, TypeOK
<1>5. CASE LateFail
  BY <1>5 DEF LateFail, TypeOK, chain, history
<1>6. CASE RateMoves \/ Accrue
  BY <1>6 DEF RateMoves, Accrue, TypeOK, chain, runner, history
<1>7. CASE Tick
  <2>1. hour' \in Time
    BY <1>7, StrategyAssumption DEF Tick, TypeOK, Time
  <2> QED
    BY <1>7, <2>1 DEF Tick, TypeOK, chain, runner, history
<1>8. CASE UNCHANGED vars
  BY <1>8 DEF vars, TypeOK, chain, runner, history
<1> QED
  BY <1>1, <1>2, <1>3, <1>4, <1>5, <1>6, <1>7, <1>8 DEF World

LEMMA TypesNext == TypeOK /\ [Next]_vars => TypeOK'
BY DecideTypes, ExecuteTypes, ReportTypes, OtherTypes DEF Next

LEMMA TypesInit == Init => TypeOK
<1>1. Fresh \in Memory
  BY CountTypes DEF Fresh, Memory, Stable
<1>2. 0 \in Time /\ 0 \in 0 .. Checks + 1 /\ 0 \in 0 .. MaxFaults /\ Capital \in Nat
  BY StrategyAssumption, CountTypes DEF Time
<1> SUFFICES ASSUME Init PROVE TypeOK
  OBVIOUS
<1>3. mem \in Memory /\ saved \in Memory /\ hour \in Time /\ funded \in Time
  BY <1>1, <1>2 DEF Init
<1>4. streak \in 0 .. Checks + 1 /\ faults \in 0 .. MaxFaults /\ wallet \in Nat
  BY <1>2 DEF Init
<1> QED
  BY <1>3, <1>4 DEF Init, TypeOK

------------------------------------------------------------------------------
(***************************************************************************)
(* What a strategy that missed nothing knows.                              *)
(***************************************************************************)
\* Where decide() came from: what a failure or a revert goes back to.
Leaves ==
    /\ mem.state = "depositing" => mem.stable = "idle"
    /\ mem.state \in {"compounding", "redeeming"} => mem.stable = "deposited"

\* An intent goes with the state it was returned from.
Carries ==
    /\ pc # "ready" /\ intent.type = "VAULT_DEPOSIT" =>
         /\ ~intent.teardown /\ mem.state \in {"depositing", "compounding"}
         /\ mem.state = "depositing" => intent.amount >= 1
    /\ pc # "ready" /\ intent.type = "VAULT_REDEEM" =>
         /\ mem.state \in Holding
         /\ ~intent.teardown => mem.state = "redeeming"

\* The books, and what is missing in them from the landing to the report.
Balanced ==
    /\ (held > 0) = (mem.state \in Holding)
    /\ mem.shares = held /\ mem.total = held
    /\ wallet + held = Capital + mem.gain
Unreported ==
    IF intent.type = "VAULT_DEPOSIT"
      THEN /\ held > 0 /\ mem.shares + intent.amount = held /\ mem.total + intent.amount = held
           /\ wallet + held = Capital + mem.gain
      ELSE /\ held = 0 /\ intent.amount >= mem.total
           /\ wallet + mem.total = Capital + mem.gain + intent.amount
Books == IF pc = "landed" THEN Unreported ELSE Balanced

\* The count of sub-floor reads is never above the reads there were.
Counted ==
    /\ mem.low <= streak
    /\ mem.state \in {"idle", "depositing"} => mem.low = 0

\* The compound timer starts when the last deposit was decided, or later.
Timed ==
    /\ mem.state \in {"idle", "depositing"} => mem.compounded = None
    /\ mem.state \in Holding =>
         /\ mem.compounded # None => mem.compounded >= funded
         /\ mem.compounded = None /\ mem.entered # None => mem.entered >= funded

\* Until a deposit is reported, the last decide() is the one that asked for it.
Dated ==
    pc # "ready" /\ intent.type = "VAULT_DEPOSIT" =>
        /\ intent.decided <= LastSeen
        /\ mem.state = "depositing" => mem.entered = intent.decided

Mind == Leaves /\ Carries /\ Books /\ Counted /\ Timed /\ Dated

LEMMA RevertMind ==
    ASSUME TypeOK, Mind, Revert
    PROVE  Mind'
<1>1. mem' = [mem EXCEPT !.state = mem.stable] /\ mem \in Memory /\ pc = "ready"
      /\ mem.state \in Transitional
      /\ UNCHANGED <<wallet, held, accrued, pc, intent, streak, funded>>
  BY DEF Revert, Asked, NewTick, Stuck, TypeOK, chain, runner, history
<1>2. /\ mem'.state = mem.stable /\ mem'.stable = mem.stable /\ mem'.shares = mem.shares
      /\ mem'.total = mem.total /\ mem'.gain = mem.gain /\ mem'.low = mem.low
      /\ mem'.entered = mem.entered /\ mem'.compounded = mem.compounded
  BY <1>1 DEF Memory
<1>3. /\ mem.stable = IF mem.state = "depositing" THEN "idle" ELSE "deposited"
      /\ mem.stable \in Holding <=> mem.state \in Holding
  BY <1>1 DEF Mind, Leaves, Transitional, Holding
<1> QED
  BY <1>1, <1>2, <1>3 DEF Mind, Leaves, Carries, Books, Balanced, Counted, Timed, Dated, Holding

LEMMA HoldMind ==
    ASSUME TypeOK, Mind, Hold
    PROVE  Mind'
<1>1. pc = "ready" /\ UNCHANGED <<mem, wallet, held, accrued, pc, intent, streak, funded>>
  BY DEF Hold, Asked, NewTick, chain, runner, history
<1> QED
  BY <1>1 DEF Mind, Leaves, Carries, Books, Balanced, Counted, Timed, Dated

\* An intent just returned was decided at the time decide() has seen last.
LEMMA RunDates ==
    ASSUME TypeOK, Asked, NEW type, NEW amount, Run(type, amount, FALSE), UNCHANGED hour
    PROVE  /\ pc' = "executing" /\ intent'.type = type /\ intent'.amount = amount
           /\ intent'.teardown = FALSE /\ intent'.decided = hour /\ intent'.decided <= LastSeen'
<1>1. LastSeen' = hour /\ hour \in Int
  BY DEF Asked, TypeOK, Time, LastSeen
<1>2. pc' = "executing" /\ intent' = [type |-> type, amount |-> amount, teardown |-> FALSE,
                                      decided |-> hour]
  BY DEF Run
<1>3. intent'.decided = hour
  BY <1>2
<1>4. intent'.type = type
  BY <1>2
<1>5. intent'.amount = amount
  BY <1>2
<1>6. intent'.teardown = FALSE
  BY <1>2
<1> QED
  BY <1>1, <1>2, <1>3, <1>4, <1>5, <1>6

LEMMA EnterMind ==
    ASSUME TypeOK, Mind, Enter
    PROVE  Mind'
<1>1. /\ mem' = [mem EXCEPT !.stable = "idle", !.state = "depositing", !.entered = hour]
      /\ mem \in Memory /\ mem.state = "idle" /\ pc = "ready" /\ pc' = "executing"
      /\ EntryAmount >= 1 /\ streak' = 0 /\ UNCHANGED <<wallet, held, accrued, funded>>
  BY DEF Enter, Emit, Run, Asked, NewTick, TypeOK, chain
<1>2. /\ mem'.state = "depositing" /\ mem'.stable = "idle" /\ mem'.shares = mem.shares
      /\ mem'.total = mem.total /\ mem'.gain = mem.gain /\ mem'.low = mem.low
      /\ mem'.entered = hour /\ mem'.compounded = mem.compounded
  BY <1>1 DEF Memory
<1>3. /\ intent'.type = "VAULT_DEPOSIT" /\ ~intent'.teardown /\ intent'.amount >= 1
      /\ intent'.decided = hour /\ intent'.decided <= LastSeen'
  <2>1. Asked /\ Run("VAULT_DEPOSIT", EntryAmount, FALSE) /\ UNCHANGED hour
    BY DEF Enter, Emit
  <2> QED
    BY <1>1, <2>1, RunDates
<1> QED
  BY <1>1, <1>2, <1>3 DEF Mind, Leaves, Carries, Books, Balanced, Counted, Timed, Dated, Holding

LEMMA BelowFloorMind ==
    ASSUME TypeOK, Mind, BelowFloor
    PROVE  Mind'
<1>1. /\ mem \in Memory /\ mem.state = "deposited" /\ pc = "ready"
      /\ streak' = OneMore(streak) /\ UNCHANGED <<wallet, held, accrued, funded>>
  BY DEF BelowFloor, Asked, NewTick, TypeOK, chain
<1>2. /\ mem.low \in Int /\ streak \in Int /\ mem.low <= streak => OneMore(mem.low) <= OneMore(streak)
      /\ mem.low \in Int /\ streak \in Int
  BY <1>1, CountTypes DEF OneMore, Smaller, TypeOK, Memory
<1>3. CASE /\ mem' = [mem EXCEPT !.low = OneMore(mem.low), !.stable = "deposited",
                                 !.state = "redeeming"]
           /\ Emit("VAULT_REDEEM", 0)
  <2>1. /\ mem'.state = "redeeming" /\ mem'.stable = "deposited" /\ mem'.shares = mem.shares
        /\ mem'.total = mem.total /\ mem'.gain = mem.gain /\ mem'.low = OneMore(mem.low)
        /\ mem'.entered = mem.entered /\ mem'.compounded = mem.compounded
    BY <1>1, <1>3 DEF Memory
  <2>2. pc' = "executing" /\ intent'.type = "VAULT_REDEEM"
    BY <1>3 DEF Emit, Run
  <2> QED
    BY <1>1, <1>2, <2>1, <2>2 DEF Mind, Leaves, Carries, Books, Balanced, Counted, Timed, Dated, Holding
<1>4. CASE mem' = [mem EXCEPT !.low = OneMore(mem.low)] /\ UNCHANGED runner
  <2>1. /\ mem'.state = mem.state /\ mem'.stable = mem.stable /\ mem'.shares = mem.shares
        /\ mem'.total = mem.total /\ mem'.gain = mem.gain /\ mem'.low = OneMore(mem.low)
        /\ mem'.entered = mem.entered /\ mem'.compounded = mem.compounded
    BY <1>1, <1>4 DEF Memory
  <2>2. pc' = pc
    BY <1>4 DEF runner
  <2> QED
    BY <1>1, <1>2, <2>1, <2>2 DEF Mind, Leaves, Carries, Books, Balanced, Counted, Timed, Dated, Holding
<1> QED
  BY <1>3, <1>4 DEF BelowFloor

LEMMA AboveFloorMind ==
    ASSUME TypeOK, Mind, AboveFloor
    PROVE  Mind'
<1>1. /\ mem \in Memory /\ mem.state = "deposited" /\ pc = "ready"
      /\ streak' = 0 /\ UNCHANGED <<wallet, held, accrued, funded>>
  BY DEF AboveFloor, Asked, NewTick, TypeOK, chain
<1>2. CASE /\ mem' = [Healthy(mem) EXCEPT !.stable = "deposited", !.state = "compounding"]
           /\ Emit("VAULT_DEPOSIT", Smaller(wallet, DepositAmount))
  <2>1. /\ mem'.state = "compounding" /\ mem'.stable = "deposited" /\ mem'.shares = mem.shares
        /\ mem'.total = mem.total /\ mem'.gain = mem.gain /\ mem'.low = 0
        /\ mem'.entered = mem.entered /\ mem'.compounded = mem.compounded
    BY <1>1, <1>2 DEF Memory, Healthy
  <2>2. /\ pc' = "executing" /\ intent'.type = "VAULT_DEPOSIT" /\ ~intent'.teardown
        /\ intent'.decided <= LastSeen'
    BY <1>2, RunDates DEF AboveFloor, Emit
  <2> QED
    BY <1>1, <2>1, <2>2 DEF Mind, Leaves, Carries, Books, Balanced, Counted, Timed, Dated, Holding
<1>3. CASE mem' = Healthy(mem) /\ UNCHANGED runner
  <2>1. /\ mem'.state = mem.state /\ mem'.stable = mem.stable /\ mem'.shares = mem.shares
        /\ mem'.total = mem.total /\ mem'.gain = mem.gain /\ mem'.low = 0
        /\ mem'.entered = mem.entered /\ mem'.compounded = mem.compounded
    BY <1>1, <1>3 DEF Memory, Healthy
  <2>2. pc' = pc
    BY <1>3 DEF runner
  <2> QED
    BY <1>1, <2>1, <2>2 DEF Mind, Leaves, Carries, Books, Balanced, Counted, Timed, Dated, Holding
<1> QED
  BY <1>2, <1>3 DEF AboveFloor

LEMMA TeardownMind ==
    ASSUME TypeOK, Mind, Teardown
    PROVE  Mind'
<1>1. /\ pc = "ready" /\ pc' = "executing" /\ mem.state \in Holding
      /\ intent'.type = "VAULT_REDEEM" /\ intent'.teardown
      /\ UNCHANGED <<mem, wallet, held, accrued, streak, funded>>
  BY DEF Teardown, Run, NewTick, OpenPosition, chain, history
<1> QED
  BY <1>1 DEF Mind, Leaves, Carries, Books, Balanced, Counted, Timed, Dated

LEMMA LandMind ==
    ASSUME TypeOK, Mind, Land
    PROVE  Mind'
<1>1. /\ pc = "executing" /\ pc' = "landed" /\ intent \in Intent /\ mem \in Memory
      /\ UNCHANGED <<mem, seen, hour, streak, funded>>
      /\ held \in Nat /\ accrued \in Nat /\ wallet \in Int
  BY DEF Land, TypeOK, history
<1>2. /\ intent'.type = intent.type /\ intent'.teardown = intent.teardown
      /\ intent'.decided = intent.decided
      /\ intent.type = "VAULT_DEPOSIT" => intent'.amount = intent.amount
      /\ intent.type = "VAULT_REDEEM" => intent'.amount = held + accrued
  BY <1>1 DEF Land, Intent
<1>3. Carries'
  BY <1>1, <1>2 DEF Mind, Carries
<1>4. Balanced /\ intent.amount \in Nat /\ Capital \in Int /\ mem.gain \in Int
  BY <1>1, StrategyAssumption DEF Mind, Books, Intent, Memory
<1>5. Books'
  <2>1. CASE intent.type = "VAULT_DEPOSIT"
    <3>1. wallet' = wallet - intent.amount /\ held' = held + intent.amount
      BY <2>1 DEF Land, MoveFunds
    <3>2. held > 0 \/ intent.amount >= 1
      BY <1>1, <1>4, <2>1 DEF Mind, Carries, Balanced, Holding
    <3> QED
      BY <1>1, <1>2, <1>4, <2>1, <3>1, <3>2 DEF Books, Balanced, Unreported
  <2>2. CASE intent.type = "VAULT_REDEEM"
    <3>1. wallet' = wallet + held + accrued /\ held' = 0
      BY <2>2 DEF Land, MoveFunds
    <3> QED
      BY <1>1, <1>2, <1>4, <2>2, <3>1 DEF Books, Balanced, Unreported
  <2> QED
    BY <1>1, <2>1, <2>2 DEF Intent
<1> QED
  BY <1>1, <1>2, <1>3, <1>5 DEF Mind, Leaves, Counted, Timed, Dated, LastSeen

LEMMA FailMind ==
    ASSUME TypeOK, Mind, Fail
    PROVE  Mind'
BY DEF Fail, chain, history, Mind, Leaves, Carries, Books, Balanced, Counted, Timed, Dated, LastSeen

\* The state the strategy goes back to is the vault's, unless a failed
\* teardown takes it back to the time before the position.
LEMMA FailedMind ==
    ASSUME TypeOK, Mind, pc \in {"executing", "failed"}, mem' = Failed(mem),
           ~(intent.teardown /\ mem.stable = "idle"), pc' = "ready",
           UNCHANGED <<wallet, held, accrued, streak, funded>>
    PROVE  Mind'
<1>1. mem \in Memory /\ intent \in Intent
  BY DEF TypeOK
<1>2. /\ mem'.state = mem.stable /\ mem'.stable = mem.stable /\ mem'.shares = mem.shares
      /\ mem'.total = mem.total /\ mem'.gain = mem.gain /\ mem'.low = mem.low
      /\ mem'.entered = mem.entered /\ mem'.compounded = mem.compounded
  BY <1>1 DEF Memory, Failed
<1>3. mem.stable \in Stable /\ intent.type \in {"VAULT_DEPOSIT", "VAULT_REDEEM"}
  BY <1>1 DEF Memory, Intent
<1>4. \/ mem.state = "depositing" /\ mem.stable = "idle"
      \/ mem.state \in Holding /\ mem.stable = "deposited"
  BY <1>3 DEF Mind, Leaves, Carries, Holding, Stable
<1> QED
  BY <1>2, <1>4 DEF Mind, Leaves, Carries, Books, Balanced, Counted, Timed, Dated, Holding

LEMMA SucceededMind ==
    ASSUME TypeOK, Mind, Succeeded, ~misled'
    PROVE  Mind'
<1>1. /\ pc = "landed" /\ pc' = "ready" /\ mem \in Memory /\ Unreported
      /\ UNCHANGED <<wallet, held, streak>>
  BY DEF Succeeded, TypeOK, chain, Mind, Books
<1>2. intent \in Intent /\ intent.amount \in Nat /\ Told(TRUE) = intent.amount
  BY <1>1, ToldAmount
<1>3. mem' = IF intent.type = "VAULT_DEPOSIT" THEN AfterDeposit(mem, TRUE) ELSE AfterRedeem(mem, TRUE)
  BY DEF Succeeded
<1>4. LastSeen \in Int /\ wallet \in Int /\ held \in Nat /\ mem.total \in Int /\ mem.gain \in Int
      /\ Capital \in Int /\ intent.decided \in Int /\ LastSeen # None
  BY <1>1, <1>2, StrategyAssumption DEF TypeOK, Memory, Intent, Time, LastSeen
<1>5. CASE intent.type = "VAULT_DEPOSIT"
  <2>1. /\ mem'.state = "deposited" /\ mem'.total = mem.total + intent.amount
        /\ mem'.shares = mem.shares + intent.amount /\ mem'.gain = mem.gain
        /\ mem'.low = mem.low /\ mem'.entered = mem.entered
        /\ mem'.compounded = IF mem.state = "compounding" THEN LastSeen ELSE mem.compounded
    BY <1>1, <1>2, <1>3, <1>5 DEF AfterDeposit, Memory
  <2>2. funded' = intent.decided
    BY <1>5 DEF Succeeded
  <2>3. /\ mem.state = "depositing" => mem.compounded = None /\ mem.entered = intent.decided
        /\ intent.decided <= LastSeen
    BY <1>1, <1>5 DEF Mind, Timed, Dated
  <2>4. mem.state \in {"depositing", "compounding"}
    BY <1>1, <1>5 DEF Mind, Carries
  <2>5. Books'
    BY <1>1, <1>2, <1>4, <1>5, <2>1 DEF Books, Balanced, Unreported, Holding
  <2>6. Counted'
    BY <1>1, <2>1 DEF Mind, Counted
  <2>7. Timed'
    BY <1>4, <2>1, <2>2, <2>3, <2>4 DEF Timed, Holding
  <2> QED
    BY <1>1, <2>1, <2>5, <2>6, <2>7 DEF Mind, Leaves, Carries, Dated
<1>6. CASE intent.type = "VAULT_REDEEM"
  <2> DEFINE earned == intent.amount - mem.total
             gain == IF earned > 0 THEN mem.gain + earned ELSE mem.gain
  <2>1. mem' = [mem EXCEPT !.state = "idle", !.total = 0, !.shares = 0, !.low = 0,
                           !.entered = None, !.compounded = None, !.gain = gain]
    BY <1>1, <1>2, <1>3, <1>6 DEF AfterRedeem, Memory
  <2> HIDE DEF gain
  <2>2. /\ mem'.state = "idle" /\ mem'.total = 0 /\ mem'.shares = 0 /\ mem'.gain = gain
        /\ mem'.low = 0 /\ mem'.entered = None /\ mem'.compounded = None
    BY <1>1, <2>1 DEF Memory
  <2>3. gain = mem.gain + intent.amount - mem.total
    BY <1>1, <1>2, <1>4, <1>6 DEF Unreported, gain
  <2>4. Books'
    BY <1>1, <1>2, <1>4, <1>6, <2>2, <2>3 DEF Books, Balanced, Unreported, Holding
  <2>5. Counted' /\ Timed' /\ Dated'
    BY <1>1, <2>2 DEF Counted, Timed, Dated, Holding, TypeOK
  <2> QED
    BY <1>1, <2>2, <2>4, <2>5 DEF Mind, Leaves, Carries
<1> QED
  BY <1>2, <1>5, <1>6 DEF Intent

LEMMA RestartMind ==
    ASSUME TypeOK, Mind, Restart, ~misled'
    PROVE  Mind'
<1>1. /\ pc # "landed" /\ saved = mem /\ mem' = mem /\ pc' = "ready"
      /\ UNCHANGED <<wallet, held, accrued, streak, funded>>
  BY DEF Restart, chain
<1> QED
  BY <1>1 DEF Mind, Leaves, Carries, Books, Balanced, Counted, Timed, Dated

\* The outside moves neither the principal nor what is known of it.
LEMMA WorldMind ==
    ASSUME TypeOK, Mind, Save \/ (World /\ ~misled') \/ UNCHANGED vars
    PROVE  Mind'
<1>1. UNCHANGED <<mem, seen, pc, intent, wallet, held, streak, funded>>
  BY DEF Save, World, LateLand, LateFail, RateMoves, Tick, Accrue, vars, chain, runner, history
<1>2. hour \in Int /\ hour' \in Int /\ hour <= hour'
  BY DEF TypeOK, Time, Save, World, LateLand, LateFail, RateMoves, Tick, Accrue, vars
<1>3. pc # "ready" => intent.decided \in Int
  BY DEF TypeOK, Intent, Time
<1>4. Dated'
  <2>1. seen # None => seen \in Int
    BY DEF TypeOK, Time
  <2> QED
    BY <1>1, <1>2, <1>3, <2>1 DEF Mind, Dated, LastSeen
<1> QED
  BY <1>1, <1>4 DEF Mind, Leaves, Carries, Books, Balanced, Unreported, Counted, Timed

------------------------------------------------------------------------------
(***************************************************************************)
(* The invariant, and what follows from it.                                *)
(***************************************************************************)
Inv == TypeOK /\ (~misled => Mind)

LEMMA MisledStays == TypeOK /\ [Next]_vars /\ misled => misled'
BY DEF Next, Decide, Revert, Hold, Enter, BelowFloor, AboveFloor, Teardown, Execute, Land, Fail,
       GiveUp, Report, Succeeded, ToldFailed, Save, Restart, World, LateLand, LateFail, RateMoves, Tick,
       Accrue, vars, history

LEMMA InvNext == Inv /\ [Next]_vars => Inv'
<1> SUFFICES ASSUME TypeOK, [Next]_vars, Mind, ~misled'
             PROVE  Mind'
  BY TypesNext, MisledStays DEF Inv
<1>1. CASE Decide
  BY <1>1, RevertMind, HoldMind, EnterMind, BelowFloorMind, AboveFloorMind DEF Decide
<1>2. CASE Execute
  <2>1. CASE GiveUp
    <3>1. /\ pc = "executing" /\ mem' = Failed(mem) /\ pc' = "ready"
          /\ ~(intent.teardown /\ mem.stable = "idle")
          /\ UNCHANGED <<wallet, held, accrued, streak, funded>>
      BY <2>1 DEF GiveUp, chain
    <3> QED
      BY <3>1, FailedMind
  <2> QED
    BY <1>2, <2>1, LandMind, FailMind DEF Execute
<1>3. CASE Report
  <2>1. CASE ToldFailed
    <3>1. /\ pc = "failed" /\ mem' = Failed(mem) /\ pc' = "ready"
          /\ ~(intent.teardown /\ mem.stable = "idle")
          /\ UNCHANGED <<wallet, held, accrued, streak, funded>>
      BY <2>1 DEF ToldFailed, chain
    <3> QED
      BY <3>1, FailedMind
  <2> QED
    BY <1>3, <2>1, SucceededMind DEF Report
<1> QED
  BY <1>1, <1>2, <1>3, TeardownMind, RestartMind, WorldMind DEF Next

LEMMA InvInit == Init => Inv
<1>1. Init => Mind
  BY StrategyAssumption DEF Init, Fresh, Mind, Leaves, Carries, Books, Balanced, Counted, Timed, Dated,
                              Holding
<1> QED
  BY <1>1, TypesInit DEF Inv

LEMMA Invariance == Spec => []Inv
BY InvInit, InvNext, PTL DEF Spec

(* Types of the strategy's memory, the runner's intent and the chain.      *)
THEOREM StrategyTypes == Spec => []TypeOK
BY TypesInit, TypesNext, PTL DEF Spec

(* The books of a strategy that missed nothing are the vault's, between    *)
(* intents, through reverts, failures, restarts and compounding.           *)
THEOREM BooksAreTheVaults == Spec => []BooksMatchVault
<1>1. Inv => BooksMatchVault
  BY DEF Inv, Mind, Books, Balanced, BooksMatchVault, OpenPosition, TypeOK
<1> QED
  BY <1>1, Invariance, PTL

(* An exit follows as many sub-floor reads in a row as are configured.     *)
THEOREM ExitsAreConfirmed == Spec => ExitNeedsConfirmation
<1>1. Inv /\ [Next]_vars =>
        [~misled /\ pc = "ready" /\ mem'.state = "redeeming" /\ pc' = "executing"
           /\ ~intent'.teardown => streak' >= Checks]_vars
  <2> SUFFICES ASSUME Inv, Next, ~misled, pc = "ready", mem'.state = "redeeming",
                      pc' = "executing", ~intent'.teardown
               PROVE  streak' >= Checks
    OBVIOUS
  <2>1. mem \in Memory /\ mem.low <= streak /\ streak \in Int /\ mem.low \in Int
    BY DEF Inv, TypeOK, Mind, Counted, Memory
  <2>2. BelowFloor
    <3>1. ~Enter /\ ~AboveFloor
      BY <2>1 DEF Enter, AboveFloor, Emit, Run, runner, Memory, Healthy
    <3>2. ~Revert /\ ~Hold /\ ~Teardown
      BY DEF Revert, Hold, Teardown, Run, runner
    <3> QED
      BY <3>1, <3>2 DEF Next, Decide, Execute, Land, Fail, GiveUp, Report, Succeeded, ToldFailed,
             Save, Restart, World, LateLand, LateFail, RateMoves, Tick, Accrue, runner
  <2>3. Confirmed(OneMore(mem.low)) /\ streak' = OneMore(streak)
    BY <2>2 DEF BelowFloor, runner
  <2> QED
    BY <2>1, <2>3, CountTypes DEF Confirmed, OneMore, Smaller
<1> QED
  BY <1>1, Invariance, PTL DEF Spec, ExitNeedsConfirmation

(* Compounding is decided no sooner than the interval after the deposit    *)
(* before it was decided: the timer holds that decision's time, or a later *)
(* one when the snapshots tell no time.                                    *)
THEOREM CompoundsAreSpaced == Spec => CompoundSpacing
<1>1. Inv /\ [Next]_vars =>
        [~misled /\ pc = "ready" /\ pc' = "executing" /\ mem'.state = "compounding"
           /\ ~intent'.teardown => hour - funded >= CompoundInterval]_vars
  <2> SUFFICES ASSUME Inv, Next, ~misled, pc = "ready", pc' = "executing",
                      mem'.state = "compounding", ~intent'.teardown
               PROVE  hour - funded >= CompoundInterval
    OBVIOUS
  <2>1. mem \in Memory /\ Timed
    BY DEF Inv, TypeOK, Mind
  <2>2. AboveFloor
    <3>1. ~Enter /\ ~BelowFloor
      BY <2>1 DEF Enter, BelowFloor, Emit, Run, runner, Memory
    <3>2. ~Revert /\ ~Hold /\ ~Teardown
      BY DEF Revert, Hold, Teardown, Run, runner
    <3> QED
      BY <3>1, <3>2 DEF Next, Decide, Execute, Land, Fail, GiveUp, Report, Succeeded, ToldFailed,
             Save, Restart, World, LateLand, LateFail, RateMoves, Tick, Accrue, runner
  <2>3. ShouldCompound /\ mem.state = "deposited"
    BY <2>2 DEF AboveFloor, runner
  <2>4. /\ hour \in Int /\ funded \in Int /\ CompoundInterval \in Int
        /\ \A t \in {mem.entered, mem.compounded} : t # None => t \in Int
    BY <2>1, StrategyAssumption DEF Inv, TypeOK, Memory, Time, ConfigAccepted
  <2> QED
    BY <2>1, <2>3, <2>4 DEF ShouldCompound, Timed, Holding
<1> QED
  BY <1>1, Invariance, PTL DEF Spec, CompoundSpacing

------------------------------------------------------------------------------
(***************************************************************************)
(* What the intents ask of the vault.                                      *)
(***************************************************************************)
\* The first deposit of an epoch takes no more than the configuration allows.
WithinCaps(n) == n <= DepositAmount /\ n * 100 <= wallet * AllocationPct

\* Only an allocation above the whole lets it ask for more than there is.
Overcommits == mem.state = "depositing" /\ AllocationPct > 100 /\ DepositAmount > wallet

IntentsFit ==
    pc = "executing" /\ ~misled =>
        /\ CanLand(intent) \/ Overcommits
        /\ mem.state = "depositing" => held = 0 /\ WithinCaps(intent.amount)

LEMMA EntryFits ==
    ASSUME wallet \in Nat
    PROVE  /\ WithinCaps(EntryAmount)
           /\ AllocationPct <= 100 \/ DepositAmount <= wallet => EntryAmount <= wallet
<1>1. DepositAmount \in Nat /\ AllocationPct \in Int
  BY StrategyAssumption DEF ConfigAccepted
<1> DEFINE share == wallet * AllocationPct
<1>2. share \in Int /\ (AllocationPct <= 100 => share <= wallet * 100)
  <2>1. share \in Int
    BY <1>1
  <2>2. ASSUME AllocationPct <= 100
        PROVE  share <= wallet * 100
    <3>1. wallet * (100 - AllocationPct) >= 0
      BY <1>1, <2>2
    <3>2. wallet * (100 - AllocationPct) = wallet * 100 - wallet * AllocationPct
      BY <1>1
    <3> QED
      BY <1>1, <3>1, <3>2
  <2> QED
    BY <2>1, <2>2
<1>3. EntryAmount = Smaller(DepositAmount, share \div 100)
  BY DEF EntryAmount
<1>4. WithinCaps(EntryAmount) <=> EntryAmount <= DepositAmount /\ EntryAmount * 100 <= share
  BY DEF WithinCaps
<1> HIDE DEF share
<1>5. /\ share \div 100 \in Int /\ (share \div 100) * 100 <= share
      /\ AllocationPct <= 100 => share \div 100 <= wallet
  BY <1>2
<1> QED
  BY <1>1, <1>2, <1>3, <1>4, <1>5 DEF Smaller

LEMMA FitsStep ==
    ASSUME Inv, IntentsFit, [Next]_vars
    PROVE  IntentsFit'
<1> SUFFICES ASSUME pc' = "executing", ~misled'
             PROVE  /\ CanLand(intent)' \/ Overcommits'
                    /\ mem'.state = "depositing" => held' = 0 /\ WithinCaps(intent.amount)'
  BY DEF IntentsFit
<1>1. /\ TypeOK /\ mem \in Memory /\ held \in Nat /\ wallet \in Nat
      /\ misled \in BOOLEAN /\ ~misled /\ Mind
  BY MisledStays DEF Inv, TypeOK
<1>2. CASE pc = "executing" /\ UNCHANGED <<wallet, held, intent, mem>>
  BY <1>1, <1>2 DEF IntentsFit, CanLand, WithinCaps, Overcommits
<1>3. CASE Enter
  <2>1. /\ intent'.type = "VAULT_DEPOSIT" /\ intent'.amount = EntryAmount
        /\ UNCHANGED <<wallet, held>> /\ mem.state = "idle" /\ pc = "ready"
        /\ mem'.state = "depositing"
    BY <1>1, <1>3 DEF Enter, Emit, Run, chain, Asked, NewTick, Memory
  <2>2. DepositAmount \in Int /\ AllocationPct \in Int
    BY StrategyAssumption DEF ConfigAccepted
  <2>3. held = 0
    BY <1>1, <2>1 DEF Mind, Books, Balanced, Holding
  <2>4. WithinCaps(intent.amount)' <=> WithinCaps(EntryAmount)
    BY <2>1 DEF WithinCaps
  <2>5. CanLand(intent)' <=> EntryAmount <= wallet
    BY <2>1 DEF CanLand
  <2> QED
    BY <1>1, <2>1, <2>2, <2>3, <2>4, <2>5, EntryFits DEF Overcommits
<1>4. CASE BelowFloor \/ Teardown
  <2>1. /\ pc = "ready" /\ intent'.type = "VAULT_REDEEM" /\ UNCHANGED held
        /\ mem.state \in Holding /\ mem'.state # "depositing"
    <3>1. CASE BelowFloor
      <4>1. pc = "ready" /\ mem.state = "deposited" /\ UNCHANGED held
        BY <3>1 DEF BelowFloor, Asked, NewTick, chain
      <4>2. /\ mem' = [mem EXCEPT !.low = OneMore(mem.low), !.stable = "deposited",
                                  !.state = "redeeming"]
            /\ Emit("VAULT_REDEEM", 0)
        BY <3>1, <4>1 DEF BelowFloor, runner
      <4> QED
        BY <1>1, <4>1, <4>2 DEF Emit, Run, Holding, Memory
    <3>2. CASE Teardown
      BY <3>2 DEF Teardown, Run, NewTick, OpenPosition, Holding, chain
    <3> QED
      BY <1>4, <3>1, <3>2
  <2> QED
    BY <1>1, <2>1 DEF Mind, Books, Balanced, CanLand
<1>5. CASE AboveFloor
  <2>1. /\ intent'.type = "VAULT_DEPOSIT" /\ intent'.amount = Smaller(wallet, DepositAmount)
        /\ UNCHANGED wallet /\ mem'.state # "depositing"
    <3>1. /\ mem' = [Healthy(mem) EXCEPT !.stable = "deposited", !.state = "compounding"]
          /\ Emit("VAULT_DEPOSIT", Smaller(wallet, DepositAmount)) /\ UNCHANGED wallet
      BY <1>5 DEF AboveFloor, Asked, NewTick, chain, runner
    <3>2. mem'.state = "compounding"
      BY <1>1, <3>1 DEF Healthy, Memory
    <3> QED
      BY <3>1, <3>2 DEF Emit, Run
  <2>2. Smaller(wallet, DepositAmount) <= wallet
    BY <1>1, StrategyAssumption DEF Smaller, ConfigAccepted
  <2> QED
    BY <2>1, <2>2 DEF CanLand
<1> QED
  BY <1>2, <1>3, <1>4, <1>5
     DEF Next, Decide, Revert, Hold, Asked, NewTick, Execute, Land, Fail, GiveUp, Report, Succeeded,
         ToldFailed, Save, Restart, World, LateLand, LateFail, RateMoves, Tick, Accrue, runner, chain, vars

(* What a strategy that missed nothing asks of the vault, up to the moment *)
(* the transaction lands: a redeem finds a position, a compounding deposit *)
(* is covered by the wallet, and the first deposit goes into an empty      *)
(* position, whatever was retried, failed or restarted before, within      *)
(* deposit_amount and within its percentage of the wallet.  It is covered  *)
(* too, unless max_vault_allocation_pct is above 100, which __init__ does  *)
(* not reject, and deposit_amount is more than there is; then the vault    *)
(* may revert it.  (strategy.py:97-100, 219-272, 301-330.)                 *)
THEOREM IntentsCanLand == Spec => []IntentsFit
<1>1. Init => IntentsFit
  BY DEF Init, IntentsFit
<1> QED
  BY <1>1, FitsStep, Invariance, PTL DEF Spec

------------------------------------------------------------------------------
(***************************************************************************)
(* What takes a strategy's view away from the vault.                       *)
(***************************************************************************)
NothingLate == faults = 0 => late = None

LEMMA NothingLateNext == TypeOK /\ NothingLate /\ [Next]_vars => NothingLate'
<1> SUFFICES ASSUME TypeOK, NothingLate, [Next]_vars, faults' = 0
             PROVE  late' = None
  BY DEF NothingLate
<1>0. faults \in Nat
  BY StrategyAssumption DEF TypeOK
<1>1. CASE faults' = faults + 1
  BY <1>0, <1>1
<1>2. CASE faults' = faults /\ (late' = late \/ late' = None)
  BY <1>2 DEF NothingLate
<1> QED
  BY <1>1, <1>2
     DEF Next, Decide, Revert, Hold, Enter, BelowFloor, AboveFloor, Emit, Run, Teardown, Execute,
         Land, Fail, GiveUp, Report, Succeeded, ToldFailed, Save, Restart, World, LateLand, LateFail,
         RateMoves, Tick, Accrue, vars, history, runner

\* A failed teardown leaves the position in the vault and the strategy idle.
LeftBehind ==
    /\ pc = "failed" /\ TearingDown
    /\ mem.state = "deposited" /\ mem'.state = "idle"
    /\ held' > 0 /\ mem'.shares = held'

GoesAstray == faults' = 0 /\ ~misled /\ misled'

OnlyTeardownsGoAstray == [][GoesAstray => LeftBehind]_vars

(* As long as no process dies, no intent is given up and every receipt     *)
(* carries its logs, the one thing that takes the strategy's view away     *)
(* from the vault is the failure of a teardown's redeem: decide() has left *)
(* no stable state for it, so on_intent_executed() goes back to idle over  *)
(* a position that is still there (strategy.py:466-474, 582-594).          *)
THEOREM OnlyTeardownsMislead == Spec => OnlyTeardownsGoAstray
<1>1. ASSUME Inv, NothingLate, Next, GoesAstray
      PROVE  LeftBehind
  <2>0. faults \in Nat /\ mem \in Memory
    BY <1>1, StrategyAssumption DEF Inv, TypeOK
  <2>1. faults' # faults + 1 /\ (faults' = faults => late = None)
    BY <1>1, <2>0 DEF GoesAstray, NothingLate
  <2>2. ToldFailed
    BY <1>1, <2>1
       DEF GoesAstray, Next, Decide, Revert, Hold, Enter, BelowFloor, AboveFloor, Teardown, Execute, Land,
           Fail, GiveUp, Report, Succeeded, Save, Restart, World, LateLand, LateFail, RateMoves, Tick,
           Accrue, history
  <2>3. /\ pc = "failed" /\ intent.teardown /\ mem.stable = "idle"
        /\ mem' = Failed(mem) /\ UNCHANGED <<wallet, held, accrued>>
    BY <1>1, <2>2 DEF ToldFailed, GoesAstray, chain
  <2>4. intent \in Intent /\ intent # None
    BY <1>1, <2>3, NoneAssumption DEF Inv, TypeOK
  <2>5. intent.type = "VAULT_REDEEM"
    BY <1>1, <2>3, <2>4 DEF Inv, GoesAstray, Mind, Carries, Intent
  <2>6. mem.state \in Holding
    BY <1>1, <2>3, <2>5 DEF Inv, GoesAstray, Mind, Carries
  <2>7. mem.state = "deposited"
    BY <1>1, <2>3, <2>6 DEF Inv, GoesAstray, Mind, Leaves, Holding
  <2>8. held > 0 /\ mem.shares = held
    BY <1>1, <2>3, <2>6 DEF Inv, GoesAstray, Mind, Books, Balanced
  <2>9. mem'.state = "idle" /\ mem'.shares = mem.shares
    BY <2>0, <2>3 DEF Failed, Memory
  <2> QED
    BY <2>3, <2>4, <2>7, <2>8, <2>9 DEF LeftBehind, TearingDown
<1>2. Inv /\ NothingLate /\ [Next]_vars => [GoesAstray => LeftBehind]_vars
  BY <1>1
<1>3. Init => NothingLate
  BY DEF Init, NothingLate
<1> QED
  BY <1>2, <1>3, NothingLateNext, StrategyTypes, Invariance, PTL DEF Spec, OnlyTeardownsGoAstray

===============================================================================
