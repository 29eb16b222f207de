-------------------------------- MODULE Keeper --------------------------------
(***************************************************************************)
(* The workflows KeeperHub runs for a strategy (keeper.py,                 *)
(* exit_workflow.py), the command lines that create, switch and run them   *)
(* (cli.py: keeper deploy | enable | run, exit-guard deploy | run), and    *)
(* the state file each kind remembers its workflow in.  A command reads    *)
(* the file, waits for KeeperHub and writes the file whole.  Composed with *)
(* the guarded exits and the vault they all move: Spec is the whole.       *)
(***************************************************************************)
EXTENDS GuardedExit

CONSTANTS
    MaxWorkflow, \* bound: workflows created
    MinAmount,   \* keeper --min and --max: the window the compounder
    MaxAmount,   \*   deposits in
    Position,    \* the wallet's shares and its tokens at the start
    Balance,
    MaxCalls     \* bound: calls of the vault by anyone, outside of KeeperHub

ASSUME KeeperAssumption ==
    /\ {MaxWorkflow, MinAmount, MaxAmount, Position, Balance, MaxCalls} \subseteq Nat
    /\ Position + Balance <= MaxUint

VARIABLES
    workflow,   \* KeeperHub's workflows: kind and whether they are enabled
    file,       \* the state file of each kind of workflow
    newest,     \* the last workflow whose creation a command was told of
    overlapped, \* kinds of which two commands were under way at once
    calls       \* calls of the vault so far

remote == <<workflow, file, newest, overlapped, calls>>
vars == <<vault, exits, remote>>

Workflow == 1 .. MaxWorkflow
FileKind == {"guard", "keeper"}

\* The state file a kind of command reads and writes.
FileOf(kind) ==
    IF kind \in {"guard_deploy", "guard_run"} THEN "guard" ELSE "keeper"
WritesFile(kind) == kind \notin {"none", "exit"}

Init ==
    /\ supply = Position
    /\ shares = [a \in Holder |-> IF a = Wallet THEN Position ELSE 0]
    /\ allowance = [a \in Holder |-> [b \in Holder |-> 0]]
    /\ tokens = [a \in Holder |->
         CASE a = Wallet -> Balance [] a = Vault -> Position [] OTHER -> 0]
    /\ cmd = [c \in Cmd |-> Idle]
    /\ inbox = {}
    /\ answer = [c \in Cmd |-> None]
    /\ exec = [e \in Exec |-> None]
    /\ log = [e \in Exec |-> {}]
    /\ workflow = [w \in Workflow |-> None]
    /\ file = [k \in FileKind |-> None]
    /\ newest = [k \in FileKind |-> None]
    /\ overlapped = {}
    /\ calls = 0

\* A command of a kind starts with what it read from its file.
Start(c, kind, fields) ==
    /\ cmd[c].pc = "off" /\ kind \in May[c]
    /\ cmd' = [cmd EXCEPT ![c] = fields]
    /\ inbox' = inbox \union {c}
    /\ overlapped' =
         IF \E d \in Cmd : /\ Active(d) /\ WritesFile(cmd[d].kind)
                           /\ FileOf(cmd[d].kind) = FileOf(kind)
           THEN overlapped \union {FileOf(kind)} ELSE overlapped
    /\ UNCHANGED <<vault, answer, exec, log, workflow, file, newest, calls>>

\* The command writes its state file whole and ends, or goes on.
Write(c, state) == file' = [file EXCEPT ![FileOf(cmd[c].kind)] = state]
Remembered(w, on) == [id |-> w, enabled |-> on, runs |-> {}]

------------------------------------------------------------------------------
(***************************************************************************)
(* deploy: create (disabled), remember, validate, enable if asked to (only *)
(* keeper deploy has the option; dry says that it is off), remember again. *)
(***************************************************************************)
StartDeploy(c) ==
    \E kind \in {"guard_deploy", "keeper_deploy"}, off \in BOOLEAN :
        /\ kind = "guard_deploy" => off
        /\ Start(c, kind, [Idle EXCEPT !.kind = kind, !.pc = "asking", !.dry = off])

HandleCreate(c) ==
    /\ c \in inbox /\ cmd[c].kind \in {"guard_deploy", "keeper_deploy"}
    /\ cmd[c].id = None
    /\ \E w \in Workflow :
         /\ workflow[w] = None
         /\ \A v \in Workflow : v < w => workflow[v] # None
         /\ workflow' = [workflow EXCEPT ![w] =
              [kind |-> FileOf(cmd[c].kind), enabled |-> FALSE]]
         /\ Answer(c, "created", w, None)
    /\ UNCHANGED <<vault, cmd, exec, log, file, newest, overlapped, calls>>

TakeCreatedWith(c, remember) ==
    /\ cmd[c].kind \in {"guard_deploy", "keeper_deploy"}
    /\ cmd[c].pc = "asking" /\ Take(c)
    /\ cmd' = [cmd EXCEPT ![c].pc = "validating", ![c].id = answer[c].id]
    /\ newest' = [newest EXCEPT ![FileOf(cmd[c].kind)] = answer[c].id]
    /\ IF remember THEN Write(c, Remembered(answer[c].id, FALSE))
                   ELSE UNCHANGED file
    /\ UNCHANGED <<vault, inbox, exec, log, workflow, overlapped, calls>>

\* Faulty: the id is remembered at the end only.
TakeCreatedLate(c) == TakeCreatedWith(c, FALSE)

\* The id is remembered before anything else can fail.
TakeCreated(c) == TakeCreatedWith(c, TRUE)

\* The verdict is only shown; an error of the call ends the command.
Validated(c) ==
    /\ cmd[c].pc = "validating"
    /\ \/ /\ cmd[c].dry
          /\ Write(c, Remembered(cmd[c].id, FALSE))
          /\ Finish(c, "deployed")
          /\ UNCHANGED inbox
       \/ /\ ~cmd[c].dry
          /\ cmd' = [cmd EXCEPT ![c].pc = "enabling"]
          /\ inbox' = inbox \union {c}
          /\ UNCHANGED file
    /\ UNCHANGED <<vault, answer, exec, log, workflow, newest, overlapped, calls>>

------------------------------------------------------------------------------
(***************************************************************************)
(* keeper enable [--off]: dry stands for --off.                            *)
(***************************************************************************)
StartEnable(c) ==
    /\ file["keeper"] # None
    /\ \E off \in BOOLEAN :
         Start(c, "keeper_enable",
               [Idle EXCEPT !.kind = "keeper_enable", !.pc = "enabling", !.dry = off,
                            !.id = file["keeper"].id, !.copy = file["keeper"]])

\* set_enabled() reaches KeeperHub.
HandleEnable(c) ==
    /\ c \in inbox
    /\ \/ cmd[c].kind = "keeper_enable"
       \/ cmd[c].kind = "keeper_deploy" /\ cmd[c].id # None
    /\ workflow' = [workflow EXCEPT ![cmd[c].id].enabled = ~cmd[c].dry]
    /\ Answer(c, "ok", cmd[c].id, None)
    /\ UNCHANGED <<vault, cmd, exec, log, file, newest, overlapped, calls>>

TakeEnabled(c) ==
    /\ cmd[c].pc = "enabling" /\ Take(c)
    /\ Write(c, IF cmd[c].kind = "keeper_enable"
                  THEN [cmd[c].copy EXCEPT !.enabled = ~cmd[c].dry]
                  ELSE Remembered(cmd[c].id, TRUE))
    /\ Finish(c, "enabled")
    /\ UNCHANGED <<vault, inbox, exec, log, workflow, newest, overlapped, calls>>

------------------------------------------------------------------------------
(***************************************************************************)
(* run: trigger the remembered workflow, follow it, append to the file.    *)
(***************************************************************************)
StartKeeperRun(c) ==
    /\ file["keeper"] # None
    /\ Start(c, "keeper_run",
             [Idle EXCEPT !.kind = "keeper_run", !.pc = "asking",
                          !.copy = file["keeper"]])

\* The decision: the balance, one more (--stale), or what is expected.
StartGuardRun(c) ==
    /\ file["guard"] # None
    /\ \E n \in {shares[Wallet], shares[Wallet] + 1} \union Expected :
         /\ n > 0
         /\ Start(c, "guard_run",
                  [Idle EXCEPT !.kind = "guard_run", !.pc = "asking",
                               !.amount = n, !.copy = file["guard"]])

FinishRun(c) ==
    /\ cmd[c].pc = "following"
    /\ LET p == exec[cmd[c].id].phase IN
         /\ EndPolling(p)
         /\ Finish(c, IF cmd[c].kind = "guard_run" THEN GuardOutcome(p) ELSE p)
    /\ Write(c, [cmd[c].copy EXCEPT !.runs = @ \union {c}])
    /\ UNCHANGED <<vault, inbox, answer, exec, log, workflow, newest, overlapped, calls>>

------------------------------------------------------------------------------
(***************************************************************************)
(* The compounder: on its schedule while it is enabled, or when it is run. *)
(* It reads the wallet's tokens, and deposits what it read if that is in   *)
(* the window.                                                             *)
(***************************************************************************)
Schedule ==
    /\ \E w \in Workflow : workflow[w] # None /\ workflow[w].kind = "keeper"
                                              /\ workflow[w].enabled
    /\ \E e \in Exec :
         /\ Free(e)
         /\ exec' = [exec EXCEPT ![e] = Run("keeper", None, None, 0, "triggered")]
    /\ UNCHANGED <<vault, cmd, inbox, answer, log, remote>>

InWindow(n) == n \in MinAmount .. MaxAmount

CompoundGate(e) ==
    /\ exec[e] # None /\ exec[e].kind = "keeper" /\ exec[e].phase = "triggered"
    /\ LET n == tokens[Wallet] IN
         exec' = [exec EXCEPT ![e].amount = n,
                              ![e].phase = IF InWindow(n) THEN "gated" ELSE "stopped"]
    /\ UNCHANGED <<vault, cmd, inbox, answer, log, remote>>

LandDeposit(e) ==
    /\ exec[e] # None /\ exec[e].kind = "keeper" /\ exec[e].phase = "released"
    /\ Deposit(Wallet, exec[e].amount, Wallet)
    /\ exec' = [exec EXCEPT ![e].phase = "completed"]
    /\ UNCHANGED <<cmd, inbox, answer, log, remote>>

\* Anyone else calls the vault: the strategy, another holder.
Outside ==
    /\ calls < MaxCalls
    /\ calls' = calls + 1
    /\ \E a \in Account : Call(a)
    /\ UNCHANGED <<exits, workflow, file, newest, overlapped>>

------------------------------------------------------------------------------
Begin(c) ==
    \/ StartExit(c) /\ UNCHANGED remote
    \/ StartDeploy(c) \/ StartEnable(c) \/ StartKeeperRun(c) \/ StartGuardRun(c)
Handle(c) ==
    \/ (HandleExit(c) \/ HandleRun(c)) /\ UNCHANGED remote
    \/ HandleCreate(c) \/ HandleEnable(c)
Step(c) ==
    \/ ExitStep(c) /\ UNCHANGED remote
    \/ TakeCreated(c) \/ Validated(c) \/ TakeEnabled(c) \/ FinishRun(c)
Engine(e) ==
    \/ ExitEngine(e) /\ UNCHANGED remote
    \/ CompoundGate(e) \/ LandDeposit(e)

Next ==
    \/ \E c \in Cmd : \/ Begin(c) \/ Handle(c) \/ Step(c)
                      \/ Die(c) /\ UNCHANGED remote
    \/ \E e \in Exec : Engine(e)
    \/ Schedule
    \/ Outside

\* A command takes its own steps: httpx, wait_for_terminal() and run_now()
\* have deadlines.  Nothing is assumed of KeeperHub or of the chain.
Spec == Init /\ [][Next]_vars /\ \A c \in Cmd : WF_vars(Step(c))

------------------------------------------------------------------------------
Kind == {"none", "exit", "guard_deploy", "keeper_deploy", "keeper_enable",
         "guard_run", "keeper_run"}
State == [id : Workflow, enabled : BOOLEAN, runs : SUBSET Cmd]
Switch == [kind : FileKind, enabled : BOOLEAN]
Reply == [type : {"dry", "refused", "executed", "started", "created", "ok"},
          id : Exec \union Workflow \union {None}, status : Phase \union {None}]
Command ==
    [kind : Kind,
     pc : {"off", "asking", "settling", "following", "validating", "enabling",
           "done", "failed"},
     amount : Nat, work : Work \union {None}, dry : BOOLEAN,
     id : Exec \union Workflow \union {None}, copy : State \union {None},
     result : Phase \union {None, "dry", "refused", "executed", "unknown",
                            "deployed", "enabled"}]
Execution ==
    [kind : {"exit", "guard", "keeper"}, key : (Nat \X Work) \union {None},
     cmd : Cmd \union {None}, amount : Nat, phase : Phase]

ASSUME NoneAssumption ==
    /\ None \notin Cmd \union Workflow
    /\ None \notin Execution \union Switch \union Reply \union State

TypeOK ==
    /\ VaultTypeOK
    /\ cmd \in [Cmd -> Command]
    /\ inbox \subseteq Cmd
    /\ answer \in [Cmd -> Reply \union {None}]
    /\ exec \in [Exec -> Execution \union {None}]
    /\ log \in [Exec -> SUBSET Phase]
    /\ workflow \in [Workflow -> Switch \union {None}]
    /\ file \in [FileKind -> State \union {None}]
    /\ newest \in [FileKind -> Workflow \union {None}]
    /\ overlapped \subseteq FileKind
    /\ calls \in 0 .. MaxCalls

(* The state files tell the truth about KeeperHub as long as the commands  *)
(* of a kind did not overlap: the workflow a command was last told of is   *)
(* the one remembered, whatever died after that (cli.py:605-606 "a failure *)
(* after create must not orphan it"); the remembered switch is KeeperHub's *)
(* once every command that asked to turn it has ended and none was cut     *)
(* short; every run that ended is remembered with the workflow it ran      *)
(* (cli.py:596-710, 1125-1255).                                            *)
FilesTruthful ==
    \A k \in FileKind \ overlapped :
        /\ newest[k] # None => file[k] # None /\ file[k].id = newest[k]
        /\ k = "keeper" /\ file[k] # None =>
             \/ \E c \in Cmd : /\ cmd[c].kind \in {"keeper_deploy", "keeper_enable"}
                               /\ cmd[c].pc \notin {"off", "done"}
             \/ file[k].enabled = workflow[file[k].id].enabled
        /\ \A c \in Cmd :
             /\ cmd[c].pc = "done" /\ cmd[c].kind \in {"guard_run", "keeper_run"}
             /\ FileOf(cmd[c].kind) = k
             /\ file[k].id = cmd[c].copy.id
             => c \in file[k].runs

(* Every command ends: no poll and no request waits for ever, even if      *)
(* KeeperHub answers nothing and the chain stands still                    *)
(* (client.py:429-470, keeper.py:230-240).                                 *)
CommandsReturn == \A c \in Cmd : Active(c) ~> ~Active(c)

------------------------------------------------------------------------------
\* The redeems that exits and guarded runs stand for, whatever the commands
\* and the workflow engine are doing about them.
RedeemOf(e) ==
    IF exec[e] = None \/ exec[e].kind = "keeper"
      THEN [decision |-> None, amount |-> 0, state |-> "none"]
      ELSE [decision |-> IF exec[e].kind = "exit"
                           THEN [by |-> "exit", of |-> <<exec[e].amount, cmd[exec[e].cmd].work>>]
                           ELSE [by |-> "run", of |-> exec[e].cmd],
            amount |-> exec[e].amount,
            state |-> CASE exec[e].phase = "triggered" -> "asked"
                        [] exec[e].phase \in {"gated", "released"} -> "admitted"
                        [] exec[e].phase = "stopped" -> "refused"
                        [] exec[e].phase = "completed" -> "landed"
                        [] exec[e].phase = "failed" -> "failed"]

Ledger == INSTANCE RedeemLedger WITH
    RedeemId <- Exec,
    NoDecision <- None,
    redeems <- [e \in Exec |-> RedeemOf(e)],
    position <- shares[Wallet]

(* A decision has one redeem, that passed the guard before it went out and *)
(* takes from the wallet what was decided, at most once: the commands, the *)
(* requests, the retries and the workflow engine implement RedeemLedger    *)
(* (guarded_exit.py:92-161, exit_workflow.py:60-175, keeper.py:192-240).   *)
ImplementsRedeems == Ledger!LedgerSpec
==============================================================================
