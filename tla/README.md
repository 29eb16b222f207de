# A verification project for almanak-keeperhub

almanak-keeperhub lets the Almanak strategy framework execute through KeeperHub:
Almanak decides and compiles an intent to a bundle of transactions, KeeperHub
dry-runs, signs in its enclave and broadcasts them. This directory holds TLA+
modules of the parts of the repository where order, failure and restarts
matter, TLC configurations that check them on small instances, and TLAPS proofs
of their main properties for every value of the constants. `PROJECT.json` lists
the components, the runs, the source lines of every definition, the hazards,
the findings and the theorems.

    tlc -workers 2 -config MCSubmitter.cfg MCSubmitter
    tlapm SubmitterProofs.tla

Source paths below are relative to `src/almanak_keeperhub/` unless they name
another directory.

## 1. Inventory

| Part | State it keeps | Operations | Talks to | What makes it correct |
| --- | --- | --- | --- | --- |
| Submitter (`submitter.py`, the polling loop and calls of `client.py`, the key of `signer.py`) | `_executions` in memory; the receipts log on disk | `submit`, `get_receipt`, `execution_for` | orchestrator above; KeeperHub's Direct Execution API and an RPC node below; receipts log | funds move at most once for an intent's call; a bundle goes out in order and stops at the first failure; what is reported is what happened; a fresh process resumes |
| Receipts log (`receipts.py`) | a JSON file, a lock file, a temporary file | `record`, `record_simulation`, `update`, `find_by_hash` | submitter, simulator, guarded exit, bot and CLI, in several processes | no entry is ever lost; a corrupt file is not replaced; calls are atomic |
| Operator bot (`bot.py`) | `_pending`, `_busy`, `_offset`, `owner_chat_id`, the asyncio tasks in flight | `handle` and one method per command, `run_forever`, `_answer` | Telegram; the command line in subprocesses | only what the owner armed and confirmed runs, once, in its minute, one at a time; nothing old is acted on |
| Simulator (`simulator.py`) and capabilities (`client.py`) | latches for raw calldata and for the sequence endpoint, shared by all executions of a process | `simulate` over a sequence or the first call | KeeperHub's simulate endpoints; receipts log | nothing is signed that was not dry-run, or is said not to have been |
| Gateway wrappers (`gateway.py`, `backend.py`) | the installed patches, the work id scope | `install`, `_get_orchestrator`, `_always_simulate` | Almanak's gateway servicer | every orchestrator dry-runs first; simulate-only never broadcasts; the work id is that of the intent |
| Guarded exit (`guarded_exit.py`) | none; the decision of one call | `run_guarded_exit`, `current_shares` | check-and-execute; receipts log | redeem only what the decision saw, once |
| Keeper (`keeper.py`, its CLI) | its state file, the workflow at KeeperHub | `build`, `deploy`, `set_enabled`, `run_now` | KeeperHub workflows | the file and the workflow agree |
| Exit-guard workflow (`exit_workflow.py`) | its state file, the workflow | `deploy`, `run` | KeeperHub workflows | the write only on the Condition's true branch |
| Strategies (`demos/*/strategy.py`) | phase, shares, amounts, counters | `decide`, `on_intent_executed`, teardown | Almanak's runner | the books are the vault's; exits are confirmed and compounds spaced |
| TestVault (`contracts/TestVault.sol`) | balances, allowances, total shares | approve, transfer, transferFrom, deposit, mint, withdraw, redeem | strategies, guards | shares are backed |
| Calldata, wallets, wei rendering | a registry file | decode and re-encode, resolve | submitter, simulator | only exact round trips are sent decoded |
| CLI and MCP server (`cli.py`, `mcp_server.py`) | the combined receipts file of `merge-receipts` | commands | everything above | entries only accumulate |
| Console, export, verify, notify, testnet, errors | none | read-only views, best-effort messages | HTTP | formatting |

How they interact. The runner's gateway asks the orchestrator wrapper for a
bundle under a work id; the simulator dry-runs it; the submitter sends it one
transaction at a time and writes each execution to the receipts log before it
goes on; the runner stores the hashes and asks for receipts, possibly from
another process. The bot and the MCP server start the same commands as
subprocesses, so several processes share the receipts log and the strategy
state. The exit command, the keeper's and the exit guard's workflows, the
strategy and anybody else call the same vault.

What is hard: a POST that times out may have been received; a process dies
between a broadcast and its log entry; KeeperHub's verdict and the chain's
status bit disagree; several processes rewrite one JSON file; bot tasks sleep
in their "Working" notice while other tasks change what they are about to use;
Telegram hands updates out again after a restart; concurrent executions share
what the client has learned of the API; a balance moves between the decision to
exit, KeeperHub's guard and the block; a command keeps a copy of its state file
while it waits; an intent that was given up on lands after all. `PROJECT.json` lists each
hazard at its line with the properties that cover it.

## 2. Modules

### Submitter, BundleLedger, SubmitterProofs, MCSubmitter

`Submitter` models `KeeperHubSubmitter` step by step; a step runs from one
await to the next. The variables are the process (`pc`, `work`, `index`,
`tries`, `cur`, `sent`), what it knows (`memory`, that is `_executions`), what
survives it (`logged`, the receipts log; `session`, `outcome` and `receipt`,
what the orchestrator was told) and the external world (`network`, `request`,
`phase`: the POSTs that may still arrive, KeeperHub's idempotency table and the
fate of each execution). `Submit` .. `Finish` are `submit()` and its exits; `Post`, `Retry`,
`GiveUp`, `Reject`, `Answer*` are `_broadcast` and `_retry_or_give_up`;
`Resolve*` is `_resolve_hash`; `Settle*` and `Learn` are `_settle`;
`GetReceipt` .. `ReceiptFails` are `get_receipt` and `execution_for`. KeeperHub
executes a request whose key is new and answers the others with the envelope
of the execution that holds the key. The orchestrator calls `submit()` again
for an intent it has not finished, as its retry of a session does.

The receipts log may be torn or refuse a write. The error is no `SubmissionError`, so it
leaves `submit()` at once: after a broadcast (`AnswerUnrecorded`, `ResolveUnrecorded`: the
hash is in memory only) or after a settlement (`SettleUnlogged`, and `ReceiptUnlogged` in
`get_receipt`: memory has the outcome, the entry stays as it was, and this process does not
write it again).

`BundleLedger` says what a user of the submitter sees: per intent, the calls of
its bundle are broadcast in order, each once, the next one only when the one
before has landed well. `ImplementsLedger` is the refinement.

Abstractions: an execution and its transaction share one identifier; a call is
a model value; the spelling of a request body (raw or typed), the content of
receipts and notifications are left out; KeeperHub's idempotency table does not
expire (its window is 24 hours, and no clock is modelled).

### ReceiptFile, ReceiptLog, ReceiptReadError, ReceiptFileProofs, MCReceiptFile

`ReceiptFile` is `receipts.py` at the level of system calls: `Acquire` is
`flock` in the shared or exclusive mode, `Parse` and `ParseRaises` the read,
`OpenTmp`, `FillTmp` and `Replace` the `write_text` and `os.replace` of
`_mutate`, `Unlock` the end of the call; `Crash` kills a process between any two
of them, whereupon the kernel drops its lock and the temporary file, whose name
all processes share, stays. A torn log (`Torn`) is a possible initial state. An
entry is its execution and whether it is settled; a dry run's entry has no
execution.

`ReceiptLog` is the abstract log: append an entry, settle an execution, return.
`promised` holds the rows of calls that returned. `ImplementsLog` refines the
first to the second, with the rename as the linearization point.

`ReceiptReadError` adds one step, a read that fails with an `OSError` although
the file is there, which `_parse` takes for a missing file.

### OperatorBot, OperatorBotProofs, MCOperatorBot

`OperatorBot` is the event loop of `bot.py`: `Poll` is one `getUpdates` (which
confirms everything before the offset, and may come back with some, all or none
of the waiting updates), `Start` runs the oldest task up to its first await,
`Noticed` runs the rest of the commands that send a "Working" notice first,
`Finish` is the end of the subprocess, `Crash` a restart, after which `_offset`
is 0 and Telegram hands out again what was not confirmed. Each command is an
operator with the code's conditions in the code's order. Time is counted in
confirm windows of 60 s. `journal` is a history variable.

`owner` is `owner_chat_id`, from the environment or claimed with the secret of the
running process (`Claim`); an update carries its chat, and `Admit` decides when
the command is handled, after its notice. A claim carries the number of the
process it was sent to, so one sent before a restart no longer works.

Abstractions: commands that only read (`Read`, `Ask`) answer with something and
change nothing; a subprocess that survives its bot is not tracked.

### Simulator, SimulatorProofs, MCSimulator

`Simulator` is one process of the package executing intents, from the dry run to
the broadcast. `Run`, `SimulateTick` and `RunTick` start it (`cli.py`,
`mcp_server.py`) for the wallet `wallets.py` resolves; `Execute` is the wrapper of
`gateway.py`, which turns simulation on and broadcasting off where it has to;
`Simulate` is `simulate()` up to its first request, `Sequence*` and `Single*` the
answers to it, `SimulationRetried` one turn of `_with_retries`; `LearnTyped` and
`LearnRaw` are the latch in `_post_call`, with the second request it makes in
the older spelling; `Sign` .. `PostRetried` send the bundle. `caps` is
`client.capabilities`: one for all executions of the process, lost with it.
`keys` is KeeperHub's table: the spelling of the body that holds a key, with
which a different one is a conflict. `ApiChanges` redeploys KeeperHub with other
features while a process runs.

Abstractions: a call is known to the selector index, unknown to it, or has no
selector; what a dry run answers is which calls were good; what `submit()` does
with an answer is `Submitter`'s.

### TestVault, GuardedExit, Keeper, RedeemLedger, KeeperProofs, KeeperFileProofs, MCKeeper

Three layers of one system, and `Keeper`'s `Spec` is the whole.

`TestVault` is the contract: an action for every external function that writes,
not enabled where the call reverts (a failed `require`, checked arithmetic past
`MaxUint` or below zero, a division by zero). A receiver or an owner may be anyone, the
vault itself too. What is withdrawn or redeemed to the vault burns shares and moves no token
(`TestVault.sol:95-110`), so the vault is one to one (`TestVault.sol:6`) only until that
happens; `Covered`, no share without a token, holds always.

`GuardedExit` is `run_guarded_exit` and `exit-guard run`: `StartExit` reads the
balance and sends the request, `HandleExit` is KeeperHub's check-and-execute
(dry run, guard not met, key it knows, new execution), `TakeExit` and
`SettleExit` the rows written on the answer and on the final status; `HandleRun`,
`Engine*` and `GuardOutcome` are the workflow, its engine (external) and
`guard_outcome()`. The guard is read before the transaction is broadcast and the
redeem lands later, so the balance may move in between. A command can die or
time out at any await while its request is still on its way (`inbox`).

`Keeper` adds `deploy`, `enable` and `run` with their state files, and the
compounder on its schedule. A command keeps in `copy` what it read from its file
and writes the file whole when it is done, as `cli.py` does. `overlapped`
remembers of which kind two commands were under way at once: those overwrite
each other's file, the code has no lock for it, and `FilesTruthful` is about the
other kinds. `newest` is a history variable.

`RedeemLedger` says what leaving under a guard promises, with neither commands nor
requests, answers, workflows or deaths in it: a decision gets one redeem, which is
admitted only while the wallet holds what it takes, takes that and has one end. The
decision of an exit is its work id with the number of shares (finding 5 is about
that number), that of a guarded run is the command. `RedeemOf` is the mapping and
`ImplementsRedeems` the refinement; the position may move between the admission
and the landing, and then the redeem fails or waits.

Abstractions: chain, wallet and vault are fixed, so that a key is the amount and
the decision id; the nodes of a workflow are what they do; a status lists the
nodes it reports. The runs a state file lists are the commands that made them.

### Strategy, StrategyProofs, MCStrategy

`Strategy` is `MetaMorphoBaseYield` with the runner around it. `Revert`, `Hold`, `Enter`,
`BelowFloor` and `AboveFloor` are `decide()`, which first notes the snapshot's time, if it
has one, in `seen` (`_last_seen_market_ts`); `Teardown` is
`generate_teardown_intents()`; `AfterDeposit`, `AfterRedeem` and `Failed` are
`on_intent_executed()`; `Save` and `Restart` are the runner with
`get_persistent_state` and `load_persistent_state`. The chain and the runner are
external: an intent lands or fails, may be given up on and land later
(`LateLand`), a receipt may carry no logs (KeeperHub's verified
copy), and the process may die at any time. `misled` remembers that the strategy
was not told of something (such a landing, receipt or death, or a teardown that
failed before any exit, see section 5); its books cannot be right then, and the properties are
about the others. `streak` and `funded` are history variables: the sub-floor
reads as they were and the hour at which the last deposit into the position was decided,
whatever the strategy's own counters say. The strategy's timer takes `seen` when the result
is reported (`strategy.py:423`), which may be hours after the decision, or the hour of the
report when the snapshot had no time.

Abstractions: the floor is a cut of the rate (below, above, unreadable); shares
are counted in the token they were minted for; the clock counts hours.

### Calldata, SelectorIndex

`SelectorIndex` is the table of known signatures; `Calldata` gives it its selectors
and has `decode_calldata` as operators on ABI inputs and decoded values, with
KeeperHub's reading of them as the reference. Those operators are recursive, so
`Calldata` is checked by `MCSimulator`'s assumptions and not proved about.

### ReceiptMerge, AlgorithmProofs

`entry_key`, `merge_logs` and `merge-receipts` as operators on logs; `IsUnion` is
the reference definition. `MCReceiptFile` checks them; `AlgorithmProofs` has the
theorems about this loop and about that of the selector index.

Operators whose comment begins with "Faulty" are not part of any specification.
Each is a plausible bug in the definition after it; `PROJECT.json` names, for
every checked property, the one that violates it when it takes the definition's
place.

## 3. What is checked

| Run | Checks | Shows |
| --- | --- | --- |
| `submitter_safety` | `TypeOK`, `AtMostOnce`, `BundleOrder`, `SuccessMeansWholeBundle`, `SessionResumable`, `ReceiptTruthful`, `SettledStaysSettled`, `ImplementsLedger` | two intents that share a call, one of two transactions; three executions, one retry, repeated submits, failing writes of the log, one death |
| `submitter_live` | `SubmitReturns`, `HashesSettle` | `submit()` comes back, and every stored hash gets its receipt through a restart |
| `submitter_hashes` | `EarlierHashesReported`, violated | finding 1 |
| `submitter_twice` | `SuccessMeansWholeBundle`, violated for a bundle with two equal calls | finding 2 |
| `receipts` | `TypeOK`, `Durable`, `NoLostUpdate`, `TornLeftUntouched`, `NeverLosesAnEntry`, `CallsReturn`, `ImplementsLog` | three processes, four calls, one death |
| `receipts_read_error` | `NeverLosesAnEntry`, violated | finding 3 |
| `bot` | `TypeOK`, `RunsWhatWasArmed`, `OneActionAtATime`, `NeverActsOnOldMessages`, `BusyEnds`, `UpdatesAnswered` | three updates, typed and tapped, two chats, three instants, one restart |
| `bot_stale` | `NeverActsOnOldUpdates`, violated | finding 4 |
| `simulate` | `TypeOK`, `SameSpelling`, `DryRunFirst`, `ExecuteReturns` | two intents over one client, two processes, a KeeperHub with or without raw calldata and sequences, redeployed once |
| `exits` | `TypeOK`, `Covered`, `LogFollowsChain`, `OutcomeTruthful`, `FilesTruthful`, `ImplementsRedeems`, `CommandsReturn` | two command lines, two executions, one workflow, two calls of the vault from outside |
| `exits_retry` | `OneRedeemPerDecision`, violated | finding 5 |
| `strategy` | `TypeOK`, `BooksMatchVault`, `ExitNeedsConfirmation`, `CompoundSpacing`, `SustainedDropExits`, `StuckStateRecovers` | a deposit, two compounds, exits and teardowns with one fault |

Four assumptions are evaluated before a run starts, each over all inputs of a
small size. `MCReceiptFile`: `MergeIsUnion` (logs of up to three entries; the
merge is the union that `IsUnion` defines without the loop) and
`MergeAccumulates` (merging a second log, and both again, loses no key and takes
no entry back). `MCSimulator`: `DecodedReadsBack` (KeeperHub reads out of the
typed spelling of a call what was compiled, through tuples in arrays in tuples)
and `IndexPrefersRealNames` (every list of up to three signatures).

Bounds, and why they are enough.

- Submitter: `MaxRetries = 1` separates an answered retry from exhaustion; two
  intents sharing a call separate the work id from the call in the key; a bundle
  of two has a first, a last and a next transaction; three executions are one
  more than the bundle needs, so a duplicate could appear; `MaxCrashes = 1` is a
  fresh process with the requests of a dead one still in flight. Execution ids
  are symmetric in the safety run, which checks no liveness property.
- Receipts: a writer that dies, a writer behind it and a reader or a third
  writer; one process calls twice, so that it can settle or look up what it
  recorded. One execution id is enough for collisions; the theorems have no
  bound.
- Bot: `ArmFor = StaleAfter = 1` and `MaxTime = 2`, so that an arming can
  expire and a message can become stale, before or during a notice. (The code
  has 60 s and 180 s; nothing in the properties depends on the ratio.) An
  arming or a claim, a second command (confirm, stale guard, demo, dry run, a
  look at the keeper, a repeat, another arming, cancel, a claim) and a confirm by
  either chat are the shortest conversations in which one overtakes another, and
  in which the bot changes hands between an arming and its confirmation: it has
  an owner from its environment or none, at its start and after its restart.

- Simulator: `Attempts = 2` separates a retry from the last attempt (the code has
  3); one intent has two calls, of which the second may be unknown to the index,
  the other's bundle is two known calls, undecodable or empty; three `execute()`
  calls are two at once and a retry; two processes, so that a retry comes from
  one that has nothing learned; one redeployment.
- Exits: a wallet with one share and one token, so that an exit, a compound and a
  transfer compete for it. Each command line may be of several kinds: one
  exits or deploys, the other exits, runs or switches. Two executions are an exit and
  its duplicate or a workflow in between; two calls from outside take the
  balance away and give it back, or leave a token in the vault without its share. An
  allowance is given to one account (`Spender`). `exits_retry` has one call, of two shares.
- Strategy: three tokens, deposited one at a time, so that one position is entered and
  compounded twice; `Checks = 2` separates a dip from an exit; three instants an hour
  apart are an entry and two intervals, and let time pass between a decision and its
  result; one fault and one token of yield, each at any time.

`CHECK_DEADLOCK FALSE` where a bound on calls, updates or time lets the system
stop when it is used up; `MCStrategy` checks deadlock, as a rate can always move.

Fairness. Submitter: the process keeps running (weak fairness of its steps: the
event loop resumes it and its clock reaches its deadlines); KeeperHub moves each
execution it has started to an end; the orchestrator asks again for a hash it
holds, and neither every status poll, nor every read of the receipts log or of the RPC node fails (strong
fairness of `GetReceipt`, `ReceiptSettle` and `ReceiptFromChain`: each is
enabled again and again between failures). Nothing is assumed of the network,
which may lose any request: the bounded retries end the loop. Receipts: a process inside a call takes its next
step; it need not be strong, as `flock` is held over finitely many steps and
the bound on calls ends the competition. Bot: Telegram answers at last (the loop polls
for ever and retries after errors), the event loop runs its ready tasks, the
notice has a timeout and four attempts, the subprocess a timeout of 900 s.
Simulator: a request is answered or times out, and asyncio resumes a task whose
await is over; nothing is assumed of what KeeperHub answers. Keeper: a command
takes its next step (`httpx`, `wait_for_terminal` and `run_now` have deadlines);
nothing is assumed of KeeperHub or of the chain, not even that they answer.
Strategy: the runner's loop asks a strategy that is ready, brings an intent to
an end, reports it and saves the state; nothing is assumed of the rate, the
clock or the faults. `SustainedDropExits` is conditional on the rate staying
below the floor and no teardown getting in the way.

## 4. What is proved

TLAPS proves these for every value of the constants that satisfies the modules'
named assumptions, so for any number of intents, executions, retries, deaths,
processes and calls.

`SubmitterProofs`. The invariants are layered, each preserved with the help of
the ones below it. `Position`: where the process is determines what it holds.
`Keys`: an execution's key is that of its work and call, and two executions do
not share a key (KeeperHub's promise, carried through retries), from which
`AtMostOnce` follows. `Order`: everything before the index of the process has
settled well, and no request in the network is ahead of it; this gives
`BundleOrder` and needs the requests of dead processes in the invariant, not
only the live one's. `Knowledge`: what memory and log say of an execution is not
ahead of the chain; from it `SessionResumable`, `ReceiptTruthful` and
`SettledStaysSettled`. The refinement `SubmitterImplementsLedger` uses all four.
`SentMeansWhole` proves `SuccessMeansWholeBundle` under the assumption that the
calls of a bundle are distinct, which finding 2 shows to be needed.

Three more properties are stated next to their proofs. `BrokenBundlesStop`: once a
transaction of a bundle was refused or has failed, no attempt, of this process or of a
later one, has KeeperHub hold or still receive a later transaction of the bundle.
`HashesReachTheOrchestrator` is the other side of finding 1: however `submit()` ends, the
session has the hash of every transaction it got past and of the one it waited for,
and of the whole bundle when it was sent, except when a status poll is rejected or a write
of the receipts log fails; neither error is a `SubmissionError`. `SubmitIsBounded` is a rank: every step of
`submit()` lowers a natural number, made of the posts it has left and the stage it is in.

`ReceiptFileProofs`. The invariant `Inv` joins `Locking` (a process past the
lock holds it in the mode of its call; a writer is alone), `Snapshot`
(`NoLostUpdate`, the temporary file is that of the process about to rename it,
and a call about to return has read or written what the file says) and the
promises. `FileStep` says that a rename is the only step that changes the log
and that it applies one call; durability, that no entry is lost, that a torn
file stays, and the refinement `FileImplementsLog` all follow from it. Two more are the
part of `CallsReturn` that needs no fairness. `LockComesBack`: while some process is in a
call, one can take its next step, so calls that raise, readers and dead processes give
the lock back. `CallsAreShort`: `Left` counts down from six with each own step, and another
process's step never raises it.

`OperatorBotProofs`. `HandleActs` reduces every command to six ways to leave the
desk, and `StepCases` every step to one of them, the transport, the clock or a
restart. On that rest: `Desk` (what is armed is the last entry of the journal,
by the chat that owns the bot), which gives `RunsWhatWasArmed`; `Queue` (a task waits to be started at most once,
an update that was not taken has no task) and on it `Flag` (the flag is up
exactly while one task that set it runs), which gives `OneActionAtATime`; and
`Fresh` (what was taken has a task that carries the message's date; an entry of
the journal names an update that exists), which gives `NeverActsOnOldMessages`.
`OneChatActsOncePerUpdate` compares the entries the journal has from one start to the
next: they are by one chat and of different updates.
`OwnersAreProven`: the owner is the environment's or has sent the secret of the
process that is running.

`Line` is about the transport: what waits to be started is ascending, no waiting update is
older than one that has started, and every update that was taken or that Telegram has let
go of has a task, in the queue of the loop if it has not started. It needs `Queue` and what
a poll hands out (`PollReady`), and gives `UpdatesStartInOrder` and `UpdatesAreKept`.
`TasksProgress` is an action property: a task only goes forward, and stops or begins anew
only with a restart, so that an update is handled twice only if the bot died before the
poll that acknowledges it. The three are the part of `UpdatesAnswered` that needs no
fairness.

`SimulatorProofs`. On types rest `Spelled` (as long as KeeperHub stays as it is,
the latches are what it accepts, and every key holds the spelling any client
would use, so a retry from a fresh process cannot conflict), which gives
`SameSpelling`; and `Vouched` (between the dry run and the last broadcast, where
an execution is determines what was dry-run for it), which gives `DryRunFirst`.
The invariant has to hold for every execution at once, because one execution's
answer changes the latch the others use. `ExecuteIsBounded` is a rank for `execute()`:
twice the requests it has left plus one while the client has something to learn, so
that a step of another execution, which may teach the client, never raises it.

`KeeperProofs`. `VaultInv` (types and `Covered`) is inductive on its own: with a token at
least for each share, `ConvertToShares` gives no more shares than tokens (`SharesRate`) and
`ConvertToAssets` no fewer tokens than shares, but no more than leave the others covered
(`AssetsRate`); the rounding is that of two lemmas about integer division, `RoundedDown`
and `RoundedUp`. While the vault is one to one both are the identity, and it stops being
so only by a step that burns shares and moves no token (`OneToOneEnds`). `Types` and `References` (an
answer and an execution name the command that asked; two executions do not share
a key; rows are not ahead of their execution) give what the commands, the rows and
the retries claim (`RetriesAreReplays`, `RowsFollowChain`, `OutcomesAreTrue`).

Totals are counted in units, one for every share or token held (`Units`), as a sum
over all accounts would be a recursive definition. A step is a payment in, with shares made,
a payment out, with shares burned, a move of shares, or none of these (`VaultStep`): it moves
units between two holders, makes as many as it adds to the supply or removes as many; so the supply is the sum of the balances and no token is made or
lost (`NothingIsLost`), from which a balance never overflows where the supply does not
(`BalancesNeverOverflow`), and a holder's redeem reverts only for an overflow of the product
in its conversion (`HoldersCanLeave`). An account loses shares only by its own call, by that
of a spender with the allowance, or by a guarded redeem of the amount decided
(`NoLossWithoutConsent`).

`KeeperImplementsLedger` is the refinement of `RedeemLedger`. It adds `Guards` to the
invariant: a run whose request is still under way has no execution, and no two
executions are one run's; an exit is admitted from the start. `ExecNext` reduces
every step to three: the executions stay, one enters (`Enters`), or one goes on (`GoesOn`);
each maps to a step of the ledger or to none.

The compounder is not in that ledger. `CompounderKeepsWindow` states what its runs may do to
the vault: a deposit takes from the wallet the amount the workflow saw, and that amount is
in the window of `--min` and `--max`; the wallet gets a share at least, never more than
tokens, and as many while the vault is one to one. `Windowed` is the invariant it
needs, as the gate, the release and the deposit are steps that other runs come between.
`CommandsAdvance` ranks the five stages of a command: each step lowers the rank, and what a
command said when it ended stays. It is the part of `CommandsReturn` that needs no fairness.

`KeeperFileProofs`. `FileInv` is stated for each kind whose commands did not
overlap: one command at most is under way with the file, and it knows what is in
it, so that writing its copy back loses nothing. `SwitchInv` says how far a
command that switches has come and holds as long as none was cut short, which is
what `FilesTruthful` claims.

`StrategyProofs`. Types hold always; `Mind` holds as long as the strategy is not
misled: `Leaves` and `Carries` (what the runner executes is what the state
says), `Books` (shares, total and gain against the vault, with the intent that has
landed and is not yet reported), `Counted` (its exit counter is no more than
the sub-floor reads in a row) and `Timed` and `Dated` (its timers are those of this position and hold the time
`funded` names or a later one; until a deposit is reported, the last `decide()` is the one
that asked for it). Restarts preserve it because what was saved is what was in memory, or
the strategy is misled. `IntentsCanLand` draws on the same invariant and on the
arithmetic of `EntryAmount`: while such a strategy has an intent executed, the wallet
holds what a deposit takes and the vault holds a position to redeem, and a first deposit
goes into an empty position within `deposit_amount` and the allocation cap. `__init__`
accepts a `max_vault_allocation_pct` above 100; then, and only then, a first deposit can be
more than the wallet has (`Overcommits`).
`OnlyTeardownsMislead` says which step takes such a strategy's view away from the vault when
no process dies, no intent is given up and every receipt carries its logs: only the failure
of a teardown's redeem, for which `decide()` has left no stable state to go back to. The
other properties are about strategies that are not misled, so this bounds what they leave out.

`AlgorithmProofs`. `MergedIsUnion` and `FirstRealAlwaysWins` say what the loops of
`merge_logs` and of the selector index return, for inputs of any length: the first
`n` turns give the union (the index) of the first `n` elements, by induction on
`n`. `FoldLeft` is a recursive function over sets of positions, so that it exists
at all is an induction too (`FoldExists`, `IndexFoldExists`). The library's
induction theorems take an operator; `NaturalInduction` takes a set and follows
from the well-foundedness of `<`. `MergingAgain` adds that "entries only ever
accumulate" (`cli.py:465`) over any number of later merges.

Only model-checked: the liveness properties (`SubmitReturns`, `HashesSettle`,
`CallsReturn`, `BusyEnds`, `UpdatesAnswered`, `ExecuteReturns`, `CommandsReturn`,
`SustainedDropExits`, `StuckStateRecovers`), as liveness under fairness is out of
the prover's reach, and the operators of `Calldata`, which are recursive. Five of the
liveness properties have a proved part, the one that needs no fairness: `SubmitIsBounded`
(of `SubmitReturns`), `ExecuteIsBounded` (of `ExecuteReturns`), `LockComesBack` and
`CallsAreShort` (of `CallsReturn`), `CommandsAdvance` (of `CommandsReturn`),
`UpdatesStartInOrder`, `UpdatesAreKept` and `TasksProgress` (of `UpdatesAnswered`).

## 5. Findings

1. `submitter.py:149` (and 283): a 4xx answer to a status poll is re-raised by
   `wait_for_terminal` (`client.py:454`) as an error that `submit()` does not
   catch, so the hashes broadcast before it are not returned, although
   `submitter.py:99-100` says that they "must reach the orchestrator". They are
   in the receipts log, so a retry of the intent replays them. A receipts log that cannot
   be written (`submitter.py:117`, `receipts.py:137`) leaves `submit()` in the same way,
   and then the hash is not in the log either; the retry still replays it.
2. `signer.py:66`: the key has no position, so a bundle that makes the same call
   twice sends it once, gets a replay for the second and is reported as
   submitted (`submitter.py:11-14`: never "a partial bundle as success").
3. `receipts.py:130`: any `OSError` while reading counts as a missing file, and
   the next write replaces the log (`receipts.py:5-8`: "must never lose an
   entry").
4. `bot.py:637`: a button tap counts as sent when it is received, so taps made
   while the bot was offline are acted on (`bot.py:242`: "never act on an old
   /tick or /confirm").

5. `guarded_exit.py:83`: the key of an exit holds the number of shares besides the
   decision, and a retry without `--expect-shares` reads them again
   (`cli.py:426`). If the first exit landed and the position was rebuilt at
   another size, the retry redeems that one (`guarded_exit.py:99-100`: a retry
   "replays rather than redeems twice").

Seen while reading; the models take these steps, and no property claims the
opposite:

- A demo or a dry run can run beside a real tick although `bot.py:233` says that
  a second action must wait; a `/confirm` that is waiting for its notice runs
  whatever is armed when it wakes; updates that Telegram has not been told about
  are acted on again after a restart.
- Two executions over one client can both send the raw body before either has
  learned the capability. The second answer about the shape is then taken for a
  verdict on the call (`client.py:275`), and its intent fails once, although
  `client.py:82-85` says that a process asks at most once.
- A redeployment of KeeperHub between two attempts makes the spelling of a body
  change under its key, which is answered `idempotency_conflict`.
- Two keeper commands that overlap write back what they read before their awaits
  (`cli.py:741`): a run, a switch or a new workflow is forgotten.
- The redeem of a teardown that fails goes back to the stable state the last
  intent of `decide()` left (`strategy.py:467`). After a first deposit that is
  `idle`: the strategy no longer offers its position to the next teardown, and
  deposits on top of it.
- A deposit whose receipt carries no logs counts no shares, and
  `get_open_positions()` does not offer the position to a teardown
  (`strategy.py:552`).
- Compounding deposits up to `deposit_amount` of the idle tokens (`strategy.py:314`) and
  does not look at `max_vault_allocation_pct`, although
  `demos/metamorpho_base_yield/README.md:31` calls it a "Cap on % of wallet balance
  deployed".
- `max_vault_allocation_pct` above 100 is accepted (`strategy.py:99`), and the entry deposit
  may then be more than the wallet holds.
- Shares withdrawn or redeemed to the vault itself leave their tokens without a share, after
  which the vault is not "1:1 with assets" (`TestVault.sol:6`).
- A receipts log that is valid JSON but not a list is read as empty (`receipts.py:140`), and
  the next write replaces it, while one that does not parse is left alone. This one is not
  modelled: `Torn` is a log that does not parse.

## 6. Not modelled, and limits

- Time: KeeperHub's replay window of 24 hours, the dates of executions, two dry
  runs recorded at the same instant (`receipts.py:33` takes them for one entry).
- The guard compares amounts. A balance that left and came back satisfies it
  although the position is another one; the models keep the gap between the
  guard and the landing open, and no property excludes this.
- A power loss that takes back what the file system acknowledged
  (`receipts.py:125`); a crash is the death of a process.
- The write of `merge-receipts` (`cli.py:476`) takes no lock and does not rename.
  The merge is modelled, two of these commands at once are not.
- `Submitter` logs the state an execution is in when its answer is taken. An envelope that
  is older than that is produced only over a retry or a restart, not within one answer.
- `Calldata`'s detail is used by assumptions TLC evaluates and by no state machine;
  `Simulator` keys a call by its position, where `signer.py:66` keys it by its content
  (finding 2 is checked in `Submitter`).
- Rendering of wei as ether, splitting of signature text and `eth_abi`:
  arithmetic and text on one value, without state.
- Subprocesses that survive their bot; what the bot's replies say.
- Installing the gateway's patches, the wallet registry's file, tokens sent to
  the vault outside of its functions.
- The console, the export and the decoding of events (`console/`, `verify.py`):
  read-only views. Notifications (best effort, errors swallowed), testnet
  registration, argument parsing and printing in the CLI, docs, videos, scripts.
