------------------------------- MODULE Strategy -------------------------------
(***************************************************************************)
(* MetaMorphoBaseYield (demos/metamorpho_base_yield/strategy.py; the       *)
(* base_sepolia copy differs in one declared chain): the vault rotation    *)
(* the package executes.  decide() moves idle capital into the vault while *)
(* the supply rate is at or above the floor, compounds, and leaves after   *)
(* Checks sub-floor reads; state settles only in on_intent_executed().     *)
(*                                                                         *)
(* External: the Almanak runner, which calls the strategy, executes the    *)
(* intent it returns, tells it the result and saves its state; the wallet, *)
(* the vault and the rate.  What reaches the strategy may be wrong in the  *)
(* ways the package admits: an intent reported failed lands later, a       *)
(* receipt carries no logs (README.md:613), the process dies.              *)
(*                                                                         *)
(* The market clock is one: the timestamp of a snapshot is the hour it is  *)
(* taken, and so is now() where the code falls back to it.  The epoch and  *)
(* compound counters, the last rate and the last redeemed amount are only  *)
(* displayed and are left out.                                             *)
(***************************************************************************)
EXTENDS Integers

CONSTANTS
    DepositAmount,    \* deposit_amount
    MinDeposit,       \* min_deposit_usd; a pegged token is worth its amount
    AllocationPct,    \* max_vault_allocation_pct
    CompoundInterval, \* compound_interval_hours
    Checks,           \* exit_confirm_checks
    Scale,            \* 10 ** deposit_token_decimals
    Capital,          \* what the wallet starts with
    None,             \* no intent; no timestamp
    MaxHour,          \* bound: hours the clock runs
    MaxYield,         \* bound: yield the position has earned, not redeemed
    MaxFaults         \* bound: deaths, intents given up, receipts without logs

\* __init__ rejects a confirmation below one and negative decimals; the other
\* numbers it takes as they are.  The floor is a cut of the rate here, and the
\* token and its decimals are one of the pegged pairs.  A negative
\* deposit_amount, which never deposits, is left out.
ConfigAccepted ==
    /\ Checks \in Nat /\ Checks >= 1
    /\ Scale \in Nat /\ Scale >= 1
    /\ DepositAmount \in Nat
    /\ {MinDeposit, AllocationPct, CompoundInterval} \subseteq Int

ASSUME StrategyAssumption ==
    /\ ConfigAccepted
    /\ {Capital, MaxHour, MaxYield, MaxFaults} \subseteq Nat
    /\ None \notin Int

VARIABLES
    mem,      \* the strategy object: what the code assigns to self and saves
    seen,     \* its _last_seen_market_ts, which is not saved
    saved,    \* the state the runner persisted last
    apy,      \* the supply rate: unreadable, or on which side of the floor
    hour,     \* the market clock
    wallet,   \* deposit token in the wallet
    held,     \* vault shares, in the token they were minted for
    accrued,  \* what the shares have earned
    pc,       \* the runner: ready, or how far the intent it executes is
    intent,   \* that intent
    late,     \* an intent given up on that may still land
    streak,   \* consecutive sub-floor reads of a position, as they were
    funded,   \* when the last deposit into the position was decided
    misled,   \* the strategy's view lost a result, a landing or its state
    faults    \* deaths, intents given up and receipts without logs so far

chain == <<wallet, held, accrued>>
runner == <<pc, intent, late>>
history == <<streak, funded, misled, faults>>
vars == <<mem, seen, saved, apy, hour, chain, runner, history>>

Stable == {"idle", "deposited"}
Transitional == {"depositing", "redeeming", "compounding"}
Holding == {"deposited", "compounding", "redeeming"}
Time == 0 .. MaxHour
Memory == [state : Stable \union Transitional, stable : Stable,
           total : Int, shares : Int, entered : Time \union {None},
           compounded : Time \union {None}, low : 0 .. Checks + 1, gain : Int]
\* "decided" is history: the hour decide() returned it.
Intent == [type : {"VAULT_DEPOSIT", "VAULT_REDEEM"}, amount : Nat,
           teardown : BOOLEAN, decided : Time]

ASSUME NoneAssumption == None \notin Intent

Fresh == [state |-> "idle", stable |-> "idle", total |-> 0, shares |-> 0,
          entered |-> None, compounded |-> None, low |-> 0, gain |-> 0]

Init ==
    /\ mem = Fresh
    /\ seen = None
    /\ saved = Fresh
    /\ apy \in {"unavailable", "below", "above"}
    /\ hour = 0
    /\ wallet = Capital
    /\ held = 0
    /\ accrued = 0
    /\ pc = "ready"
    /\ intent = None
    /\ late = None
    /\ streak = 0
    /\ funded = 0
    /\ misled = FALSE
    /\ faults = 0

------------------------------------------------------------------------------
(***************************************************************************)
(* decide().                                                               *)
(***************************************************************************)
Smaller(a, b) == IF a <= b THEN a ELSE b

\* Counts are compared with Checks only: one above it stands for all above.
OneMore(n) == Smaller(n + 1, Checks + 1)

\* Faulty: the count must hit exit_confirm_checks exactly.
ConfirmedOnce(n) == n = Checks

Confirmed(n) == n >= Checks

\* Faulty: a redeem that never finished is not looked at again.
StuckUnlessRedeeming == mem.state \in Transitional \ {"redeeming"}

Stuck == mem.state \in Transitional

\* The amount of the first deposit of an epoch.
EntryAmount == Smaller(DepositAmount, (wallet * AllocationPct) \div 100)

\* _should_compound().
ShouldCompound ==
    LET reference == IF mem.compounded = None THEN mem.entered
                                              ELSE mem.compounded
    IN  reference # None /\ hour - reference >= CompoundInterval

\* The runner begins a tick when the last one is saved.
NewTick == pc = "ready" /\ saved = mem

\* The runner asks decide(): it notes the snapshot's timestamp, if it has one.
Asked == NewTick /\ seen' \in {hour, None}

\* An intent is returned, and the runner starts executing it.
Run(type, amount, teardown) ==
    /\ pc' = "executing"
    /\ intent' = [type |-> type, amount |-> amount, teardown |-> teardown,
                  decided |-> hour]
    /\ UNCHANGED late

Emit(type, amount) == Run(type, amount, FALSE)

\* A transitional state found at the start of a tick is given up.
Revert ==
    /\ Asked /\ Stuck
    /\ mem' = [mem EXCEPT !.state = mem.stable]
    /\ UNCHANGED <<saved, apy, hour, chain, runner, history>>

\* Nothing is done without a balance when idle or without a rate when deposited.
Hold ==
    /\ Asked
    /\ mem.state = "idle" \/ (mem.state = "deposited" /\ apy = "unavailable")
    /\ UNCHANGED <<mem, saved, apy, hour, chain, runner, history>>

\* _handle_idle(): only a readable rate below the floor keeps capital out.
Enter ==
    /\ Asked /\ mem.state = "idle"
    /\ wallet >= MinDeposit
    /\ apy # "below"
    /\ EntryAmount >= 1
    /\ mem' = [mem EXCEPT !.stable = "idle", !.state = "depositing",
                          !.entered = hour]
    /\ Emit("VAULT_DEPOSIT", EntryAmount)
    /\ streak' = 0
    /\ UNCHANGED <<saved, apy, hour, chain, funded, misled, faults>>

\* _handle_deposited(), rate readable and below the floor.
BelowFloor ==
    /\ Asked /\ mem.state = "deposited" /\ apy = "below"
    /\ streak' = OneMore(streak)
    /\ LET low == OneMore(mem.low) IN
       \/ /\ Confirmed(low)
          /\ mem' = [mem EXCEPT !.low = low, !.stable = "deposited",
                                !.state = "redeeming"]
          /\ Emit("VAULT_REDEEM", 0)
       \/ /\ ~Confirmed(low)
          /\ mem' = [mem EXCEPT !.low = low]
          /\ UNCHANGED runner
    /\ UNCHANGED <<saved, apy, hour, chain, funded, misled, faults>>

\* Faulty: a healthy read leaves the exit counter as it was.
HealthyKeepsCount(m) == m

\* A healthy read starts the confirmation over.
Healthy(m) == [m EXCEPT !.low = 0]

\* _handle_deposited(), rate at or above the floor: compound what is idle when
\* it is time and the balance can be read.
AboveFloor ==
    /\ Asked /\ mem.state = "deposited" /\ apy = "above"
    /\ streak' = 0
    /\ \/ /\ ShouldCompound
          /\ wallet >= MinDeposit
          /\ mem' = [Healthy(mem) EXCEPT !.stable = "deposited",
                                         !.state = "compounding"]
          /\ Emit("VAULT_DEPOSIT", Smaller(wallet, DepositAmount))
       \/ /\ mem' = Healthy(mem)
          /\ UNCHANGED runner
    /\ UNCHANGED <<saved, apy, hour, chain, funded, misled, faults>>

\* generate_teardown_intents(), and the summary get_open_positions() gives:
\* there is a position if the state says so and shares were counted.
OpenPosition == mem.state \in Holding /\ mem.shares > 0

Teardown ==
    /\ NewTick /\ OpenPosition
    /\ Run("VAULT_REDEEM", 0, TRUE)
    /\ UNCHANGED <<mem, seen, saved, apy, hour, chain, history>>

------------------------------------------------------------------------------
(***************************************************************************)
(* Execution.  A transaction moves the token or nothing; the receipt gives *)
(* raw units, or nothing when it came without logs.                        *)
(***************************************************************************)
CanLand(i) == IF i.type = "VAULT_DEPOSIT" THEN i.amount <= wallet ELSE held > 0

MoveFunds(i) ==
    \/ /\ i.type = "VAULT_DEPOSIT"
       /\ wallet' = wallet - i.amount
       /\ held' = held + i.amount
       /\ UNCHANGED accrued
    \/ /\ i.type = "VAULT_REDEEM"
       /\ wallet' = wallet + held + accrued
       /\ held' = 0
       /\ accrued' = 0

\* The amount the strategy will be told: the redeemed total goes with it.
Land ==
    /\ pc = "executing" /\ CanLand(intent)
    /\ MoveFunds(intent)
    /\ pc' = "landed"
    /\ intent' = IF intent.type = "VAULT_REDEEM"
                   THEN [intent EXCEPT !.amount = held + accrued] ELSE intent
    /\ UNCHANGED <<mem, seen, saved, apy, hour, late, history>>

Fail ==
    /\ pc = "executing"
    /\ pc' = "failed"
    /\ UNCHANGED <<mem, seen, saved, apy, hour, chain, intent, late, history>>

LateLand ==
    /\ late # None /\ CanLand(late)
    /\ MoveFunds(late)
    /\ late' = None
    /\ misled' = TRUE
    /\ UNCHANGED <<mem, seen, saved, apy, hour, pc, intent, streak, funded, faults>>

LateFail ==
    /\ late # None
    /\ late' = None
    /\ UNCHANGED <<mem, seen, saved, apy, hour, chain, pc, intent, history>>

------------------------------------------------------------------------------
(***************************************************************************)
(* on_intent_executed().                                                   *)
(***************************************************************************)
\* Faulty: raw base units are taken for human ones.
RawIsHuman(raw) == raw

AssetsToHuman(raw) == raw \div Scale

\* The amount a receipt tells: raw units, zero without logs.
Told(logs) == IF logs THEN AssetsToHuman(intent.amount * Scale) ELSE 0

\* The time the last decide() was given, or now.
LastSeen == IF seen = None THEN hour ELSE seen

\* Faulty: compounding again does not restart the interval.
CompoundsOnce(m, logs) ==
    [m EXCEPT !.compounded = IF m.state = "compounding" /\ @ = None
                               THEN LastSeen ELSE @,
              !.state = "deposited",
              !.total = @ + Told(logs),
              !.shares = @ + Told(logs)]

AfterDeposit(m, logs) ==
    [m EXCEPT !.compounded = IF m.state = "compounding" THEN LastSeen ELSE @,
              !.state = "deposited",
              !.total = @ + Told(logs),
              !.shares = @ + Told(logs)]

\* Faulty: the compound timers outlive the position.
RedeemKeepsTimers(m, logs) ==
    LET earned == Told(logs) - m.total
    IN  [m EXCEPT !.state = "idle", !.total = 0, !.shares = 0, !.low = 0,
                  !.gain = IF logs /\ earned > 0 THEN @ + earned ELSE @]

\* The yield counts when it is positive; the timers go with the position.
AfterRedeem(m, logs) ==
    LET earned == Told(logs) - m.total
    IN  [m EXCEPT !.state = "idle", !.total = 0, !.shares = 0, !.low = 0,
                  !.entered = None, !.compounded = None,
                  !.gain = IF logs /\ earned > 0 THEN @ + earned ELSE @]

Succeeded ==
    /\ pc = "landed"
    /\ \E logs \in BOOLEAN :
         /\ mem' = IF intent.type = "VAULT_DEPOSIT" THEN AfterDeposit(mem, logs)
                                                    ELSE AfterRedeem(mem, logs)
         /\ logs \/ faults < MaxFaults
         /\ misled' = (misled \/ ~logs)
         /\ faults' = IF logs THEN faults ELSE faults + 1
    /\ funded' = IF intent.type = "VAULT_DEPOSIT" THEN intent.decided ELSE 0
    /\ pc' = "ready"
    /\ intent' = None
    /\ UNCHANGED <<seen, saved, apy, hour, chain, late, streak>>

\* Faulty: the failed state is taken for the stable one.
FailedSwapped(m) == [m EXCEPT !.stable = m.state]

\* Any failure goes back to the stable state decide() last left.  A teardown
\* leaves none: its failure goes back to the one before the position.
Failed(m) == [m EXCEPT !.state = m.stable]

ToldFailed ==
    /\ pc = "failed"
    /\ mem' = Failed(mem)
    /\ misled' = (misled \/ (intent.teardown /\ mem.stable = "idle"))
    /\ pc' = "ready"
    /\ intent' = None
    /\ UNCHANGED <<seen, saved, apy, hour, chain, late, streak, funded, faults>>

\* What may still land of an intent given up on: only what it moves counts.
Abandoned == [intent EXCEPT !.decided = 0, !.teardown = FALSE]

\* The submitter gives up on a transaction that may still land.
GiveUp ==
    /\ pc = "executing" /\ late = None
    /\ faults < MaxFaults
    /\ mem' = Failed(mem)
    /\ misled' = (misled \/ (intent.teardown /\ mem.stable = "idle"))
    /\ pc' = "ready"
    /\ intent' = None
    /\ late' = Abandoned
    /\ faults' = faults + 1
    /\ UNCHANGED <<seen, saved, apy, hour, chain, streak, funded>>

------------------------------------------------------------------------------
(***************************************************************************)
(* The runner saves get_persistent_state() at any point of a tick and at   *)
(* its end; a new process starts from what was saved                       *)
(* (load_persistent_state).                                                *)
(***************************************************************************)
Save ==
    /\ saved # mem
    /\ saved' = mem
    /\ UNCHANGED <<mem, seen, apy, hour, chain, runner, history>>

Restart ==
    /\ faults < MaxFaults
    /\ faults' = faults + 1
    /\ mem' = saved
    /\ seen' = None
    /\ pc' = "ready"
    /\ intent' = None
    /\ \/ pc = "executing" /\ late = None /\ late' = Abandoned
       \/ pc # "executing" /\ UNCHANGED late
    /\ misled' = (misled \/ pc = "landed" \/ saved # mem)
    /\ UNCHANGED <<saved, apy, hour, chain, streak, funded>>

\* The outside: the rate moves, time passes, the position earns.
RateMoves ==
    /\ apy' \in {"unavailable", "below", "above"} \ {apy}
    /\ UNCHANGED <<mem, seen, saved, hour, chain, runner, history>>

Tick ==
    /\ hour < MaxHour
    /\ hour' = hour + 1
    /\ UNCHANGED <<mem, seen, saved, apy, chain, runner, history>>

Accrue ==
    /\ held > 0 /\ pc = "ready"
    /\ wallet + held + accrued < Capital + MaxYield
    /\ accrued' = accrued + 1
    /\ UNCHANGED <<mem, seen, saved, apy, hour, wallet, held, runner, history>>

Decide == Revert \/ Hold \/ Enter \/ BelowFloor \/ AboveFloor
Execute == Land \/ Fail \/ GiveUp
Report == Succeeded \/ ToldFailed
World == LateLand \/ LateFail \/ RateMoves \/ Tick \/ Accrue

Next == Decide \/ Teardown \/ Execute \/ Report \/ Save \/ Restart \/ World

\* The runner's loop: a ready strategy is asked, an intent comes to an end, its
\* result is reported and the state is saved.
Fairness ==
    WF_vars(Decide) /\ WF_vars(Execute) /\ WF_vars(Report) /\ WF_vars(Save)

Spec == Init /\ [][Next]_vars /\ Fairness

------------------------------------------------------------------------------
TypeOK ==
    /\ mem \in Memory
    /\ seen \in Time \union {None}
    /\ saved \in Memory
    /\ apy \in {"unavailable", "below", "above"}
    /\ hour \in Time
    /\ wallet \in Nat /\ held \in Nat /\ accrued \in Nat
    /\ pc \in {"ready", "executing", "landed", "failed"}
    /\ intent \in Intent \union {None}
    /\ late \in Intent \union {None}
    /\ (intent = None) = (pc = "ready")
    /\ streak \in 0 .. Checks + 1
    /\ funded \in Time
    /\ misled \in BOOLEAN
    /\ faults \in 0 .. MaxFaults

(* Between intents the books are the vault's: a strategy that missed no    *)
(* result holds shares exactly in the states that say so, has counted what *)
(* it deposited in the token's own units, offers teardown the position if  *)
(* there is one, and the wallet plus the principal is the capital plus the *)
(* yield it booked - through reverted intents, intents given up on and     *)
(* restarts (strategy.py:403-474, 548-594).                                *)
BooksMatchVault ==
    pc = "ready" /\ ~misled =>
        /\ (held > 0) = (mem.state \in Holding)
        /\ (held > 0) = OpenPosition
        /\ mem.shares = held
        /\ mem.total = held
        /\ wallet + held = Capital + mem.gain

(* A strategy that missed nothing leaves the vault only after Checks       *)
(* readable sub-floor rates in a row, counted over restarts and failed     *)
(* redeems; a single dip does not churn (strategy.py:15-18, 284-297).      *)
ExitNeedsConfirmation ==
    [][~misled /\ pc = "ready" /\ mem'.state = "redeeming" /\ pc' = "executing"
         /\ ~intent'.teardown
       => streak' >= Checks]_vars

(* A strategy that missed nothing decides to compound no sooner than the   *)
(* interval after it decided on the deposit before, the entry or the last  *)
(* compounding of this epoch, however late that one was executed and       *)
(* whether or not the snapshots tell the time (strategy.py:197-201,        *)
(* 377-390, 423, 460-464).                                                 *)
CompoundSpacing ==
    [][~misled /\ pc = "ready" /\ pc' = "executing" /\ mem'.state = "compounding"
         /\ ~intent'.teardown
       => hour - funded >= CompoundInterval]_vars

TearingDown == intent # None /\ intent.teardown

(* Once the rate stays below the floor and no teardown is asked for, a     *)
(* deposited position is redeemed, or at least tried, whatever failed      *)
(* before: the count never passes the confirmation by                      *)
(* (strategy.py:284-297).                                                  *)
SustainedDropExits ==
    <>[](apy = "below" /\ ~TearingDown) =>
        (mem.state = "deposited" ~> mem.state # "deposited")

(* A transitional state left behind by a death never stays: the next tick  *)
(* or the result of the intent settles it (strategy.py:207-216).           *)
StuckStateRecovers == mem.state \in Transitional ~> mem.state \in Stable
==============================================================================
