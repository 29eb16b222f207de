----------------------------- MODULE GuardedExit -----------------------------
(***************************************************************************)
(* Leaving the vault under a guard that KeeperHub evaluates:               *)
(*   exit           guarded_exit.py over client.check_and_execute()        *)
(*   exit-guard run exit_workflow.py over keeper.run_now()                 *)
(* as the command line runs them (cli.py).  Every command is a process of  *)
(* its own; it may die or lose an answer at any await, while the request   *)
(* it sent is still on its way.  A retry is another command with the work  *)
(* id of the first (ALMANAK_KEEPERHUB_EXIT_ID).                            *)
(*                                                                         *)
(* KeeperHub, its idempotency table and its workflow engine are external.  *)
(* The guard is read before the transaction is broadcast and the           *)
(* transaction lands later.  Whether the guard or the key is looked at     *)
(* first is left open.                                                     *)
(***************************************************************************)
EXTENDS TestVault, FiniteSets

CONSTANTS
    Cmd,       \* command lines, each run at most once
    May,       \* bound: the kinds of command each of them may be
    Work,      \* decision ids
    Expected,  \* --expect-shares
    Wallet,    \* KeeperHub's organization wallet
    MaxExec,   \* bound: executions
    None       \* nothing

ASSUME GuardedExitAssumption ==
    /\ Wallet \in Account
    /\ MaxExec \in Nat
    /\ Expected \subseteq Nat
    /\ IsFiniteSet(Cmd)

VARIABLES
    cmd,     \* what each command line is doing
    inbox,   \* commands whose request KeeperHub may still receive
    answer,  \* KeeperHub's answer to a command's request
    exec,    \* executions of KeeperHub
    log      \* per execution, the statuses of its rows in the receipts file

exits == <<cmd, inbox, answer, exec, log>>

Exec == 1 .. MaxExec
Idle == [kind |-> "none", pc |-> "off", amount |-> 0, work |-> None,
         dry |-> FALSE, id |-> None, copy |-> None, result |-> None]

\* How far an execution is.  A released one has broadcast its transaction.
Phase == {"triggered", "gated", "released", "stopped", "completed", "failed"}
Terminal(p) == p \in {"stopped", "completed", "failed"}

Active(c) == cmd[c].pc \notin {"off", "done", "failed"}

\* A fresh execution, numbered in order.
Free(e) == exec[e] = None /\ \A f \in Exec : f < e => exec[f] # None

Run(kind, key, c, n, p) ==
    [kind |-> kind, key |-> key, cmd |-> c, amount |-> n, phase |-> p]

\* KeeperHub answers a request; the answer to a dead process is gone.
Answer(c, type, id, status) ==
    /\ inbox' = inbox \ {c}
    /\ answer' = [answer EXCEPT ![c] =
         IF Active(c) THEN [type |-> type, id |-> id, status |-> status] ELSE None]

Take(c) == answer[c] # None /\ answer' = [answer EXCEPT ![c] = None]

Finish(c, result) ==
    cmd' = [cmd EXCEPT ![c].pc = "done", ![c].result = result]

------------------------------------------------------------------------------
(***************************************************************************)
(* exit: one check-and-execute request.                                    *)
(***************************************************************************)
\* Faulty: the key is new whenever the command is.
KeyPerCommand(c) == <<cmd[c].amount, c>>

\* idempotency_key(): chain, wallet and vault are fixed here.
KeyFor(c) == <<cmd[c].amount, cmd[c].work>>

\* The balance is read, or the amount is given; none of it is asked for if
\* there is nothing to redeem.
StartExit(c) ==
    /\ cmd[c].pc = "off" /\ "exit" \in May[c]
    /\ \E w \in Work, dry \in BOOLEAN, n \in {shares[Wallet]} \union Expected :
         /\ n > 0
         /\ cmd' = [cmd EXCEPT ![c] = [Idle EXCEPT !.kind = "exit",
              !.pc = "asking", !.amount = n, !.work = w, !.dry = dry]]
    /\ inbox' = inbox \union {c}
    /\ UNCHANGED <<answer, exec, log, vault>>

GuardMet(n) == shares[Wallet] >= n

\* KeeperHub receives the request: a dry run, a guard not met, a key it
\* knows, or a new execution.
HandleExit(c) ==
    /\ c \in inbox /\ cmd[c].kind = "exit"
    /\ \/ /\ cmd[c].dry
          /\ Answer(c, IF GuardMet(cmd[c].amount) THEN "dry" ELSE "refused",
                    None, None)
          /\ UNCHANGED exec
       \/ /\ ~cmd[c].dry /\ ~GuardMet(cmd[c].amount)
          /\ Answer(c, "refused", None, None)
          /\ UNCHANGED exec
       \/ /\ ~cmd[c].dry
          /\ \E e \in Exec :
               /\ exec[e] # None /\ exec[e].key = KeyFor(c)
               /\ UNCHANGED exec
               /\ Answer(c, "executed", e, exec[e].phase)
       \/ /\ ~cmd[c].dry /\ GuardMet(cmd[c].amount)
          /\ ~\E e \in Exec : exec[e] # None /\ exec[e].key = KeyFor(c)
          /\ \E e \in Exec :
               /\ Free(e)
               /\ exec' = [exec EXCEPT ![e] =
                    Run("exit", KeyFor(c), c, cmd[c].amount, "released")]
               /\ Answer(c, "executed", e, "released")
    /\ UNCHANGED <<cmd, log, vault>>

\* run_guarded_exit() after the answer: a dry run or a refusal leaves a
\* simulation row and ends; an execution is recorded and followed.
TakeExit(c) ==
    /\ cmd[c].kind = "exit" /\ cmd[c].pc = "asking" /\ Take(c)
    /\ LET a == answer[c] IN
       \/ /\ a.type # "executed"
          /\ Finish(c, a.type)
          /\ UNCHANGED log
       \/ /\ a.type = "executed"
          /\ cmd' = [cmd EXCEPT ![c].pc = "settling", ![c].id = a.id]
          /\ log' = [log EXCEPT ![a.id] = @ \union {a.status}]
    /\ UNCHANGED <<inbox, exec, vault>>

\* Faulty: the status of the first answer is kept.
SettleUnrecorded(c) ==
    /\ cmd[c].pc = "settling" /\ Terminal(exec[cmd[c].id].phase)
    /\ Finish(c, "executed")
    /\ UNCHANGED <<inbox, answer, exec, log, vault>>

\* wait_for_terminal() returns, and update() rewrites every row of the
\* execution.
SettleExit(c) ==
    /\ cmd[c].pc = "settling"
    /\ LET e == cmd[c].id IN
         /\ Terminal(exec[e].phase)
         /\ log' = [log EXCEPT ![e] = {exec[e].phase}]
    /\ Finish(c, "executed")
    /\ UNCHANGED <<inbox, answer, exec, vault>>

------------------------------------------------------------------------------
(***************************************************************************)
(* exit-guard run: trigger the remembered workflow and follow it.          *)
(***************************************************************************)
\* The workflow engine: read the shares, compare, redeem.  An execution can
\* fail at any node.
EngineGate(e) ==
    /\ exec[e] # None /\ exec[e].kind = "guard" /\ exec[e].phase = "triggered"
    /\ exec' = [exec EXCEPT ![e].phase =
         IF GuardMet(exec[e].amount) THEN "gated" ELSE "stopped"]
    /\ UNCHANGED <<cmd, inbox, answer, log, vault>>

EngineRelease(e) ==
    /\ exec[e] # None /\ exec[e].phase = "gated"
    /\ exec' = [exec EXCEPT ![e].phase = "released"]
    /\ UNCHANGED <<cmd, inbox, answer, log, vault>>

EngineFail(e) ==
    /\ exec[e] # None /\ ~Terminal(exec[e].phase)
    /\ exec' = [exec EXCEPT ![e].phase = "failed"]
    /\ UNCHANGED <<cmd, inbox, answer, log, vault>>

\* The redeem lands, if the wallet still holds the shares; else EngineFail.
LandRedeem(e) ==
    /\ exec[e] # None /\ exec[e].kind \in {"exit", "guard"}
    /\ exec[e].phase = "released"
    /\ Redeem(Wallet, exec[e].amount, Wallet, Wallet)
    /\ exec' = [exec EXCEPT ![e].phase = "completed"]
    /\ UNCHANGED <<cmd, inbox, answer, log>>

HandleRun(c) ==
    /\ c \in inbox /\ cmd[c].kind \in {"guard_run", "keeper_run"}
    /\ \E e \in Exec :
         /\ Free(e)
         /\ exec' = [exec EXCEPT ![e] =
              Run(IF cmd[c].kind = "guard_run" THEN "guard" ELSE "keeper",
                  None, c, cmd[c].amount, "triggered")]
         /\ Answer(c, "started", e, "triggered")
    /\ UNCHANGED <<cmd, log, vault>>

TakeRun(c) ==
    /\ cmd[c].kind \in {"guard_run", "keeper_run"}
    /\ cmd[c].pc = "asking" /\ Take(c)
    /\ cmd' = [cmd EXCEPT ![c].pc = "following", ![c].id = answer[c].id]
    /\ UNCHANGED <<inbox, exec, log, vault>>

\* What a status reports of the nodes: a node never reached has no entry.
\* It counts the ones a failed execution reached, which is left out: its
\* status settles the outcome.
Reported(p) ==
    CASE p = "triggered" -> {"trigger"}
      [] p \in {"gated", "stopped"} -> {"trigger", "shares", "gate"}
      [] OTHER -> {"trigger", "shares", "gate", "redeem"}
CompletedStatus(p) == p \in {"stopped", "completed"}
HasHashes(p) == p = "completed"

\* Faulty: the gate was passed in the trace, so the run is over.
StoppedAtLastNode(p) ==
    CASE "redeem" \in Reported(p) /\ CompletedStatus(p) /\ HasHashes(p) -> "executed"
      [] "redeem" \notin Reported(p) /\ "gate" \in Reported(p) -> "stopped"
      [] OTHER -> "unknown"

\* guard_outcome() of the last status that was polled.
GuardOutcome(p) ==
    CASE "redeem" \in Reported(p) /\ CompletedStatus(p) /\ HasHashes(p) -> "executed"
      [] "redeem" \notin Reported(p) /\ CompletedStatus(p) /\ "gate" \in Reported(p)
           -> "stopped"
      [] OTHER -> "unknown"

\* Faulty: run_now() polls until the execution ends.
EndWhenTerminal(p) == Terminal(p)

\* run_now() stops at a terminal status or, with whatever it polled last, at
\* its deadline.
EndPolling(p) == p \in Phase

------------------------------------------------------------------------------
\* The HTTP client gives up on an answer, wait_for_terminal() on a status:
\* the command line ends with an error and nothing more is written.
TimeOut(c) ==
    /\ cmd[c].pc \in {"asking", "settling", "validating", "enabling"}
    /\ cmd' = [cmd EXCEPT ![c].pc = "failed"]
    /\ answer' = [answer EXCEPT ![c] = None]
    /\ UNCHANGED <<inbox, exec, log, vault>>

\* The process dies.
Die(c) ==
    /\ Active(c)
    /\ cmd' = [cmd EXCEPT ![c].pc = "failed"]
    /\ answer' = [answer EXCEPT ![c] = None]
    /\ UNCHANGED <<inbox, exec, log, vault>>

ExitStep(c) == TakeExit(c) \/ SettleExit(c) \/ TakeRun(c) \/ TimeOut(c)
ExitEngine(e) ==
    EngineGate(e) \/ EngineRelease(e) \/ EngineFail(e) \/ LandRedeem(e)

(* However often a decision is retried for the same shares, whatever was   *)
(* lost or delayed, one execution carries it out                           *)
(* (guarded_exit.py:72-86, 99-101).                                        *)
RetriesReplay ==
    \A e, f \in Exec :
        /\ exec[e] # None /\ exec[f] # None
        /\ exec[e].kind = "exit" /\ exec[f].kind = "exit"
        /\ cmd[exec[e].cmd].work = cmd[exec[f].cmd].work
        /\ exec[e].amount = exec[f].amount
        => e = f

(* One decision, one redeem: the executions created under one work id do   *)
(* not complete twice (guarded_exit.py:99-100 "a retry of the same         *)
(* decision replays rather than redeems twice").                           *)
OneRedeemPerDecision ==
    \A e, f \in Exec :
        /\ exec[e] # None /\ exec[f] # None
        /\ exec[e].kind = "exit" /\ exec[f].kind = "exit"
        /\ exec[e].phase = "completed" /\ exec[f].phase = "completed"
        /\ cmd[exec[e].cmd].work = cmd[exec[f].cmd].work
        => e = f

(* The receipts file never runs ahead of KeeperHub: a terminal status in a *)
(* row is the execution's own, and a command that has followed its         *)
(* execution to the end leaves that status in the file                     *)
(* (guarded_exit.py:139-161).                                              *)
LogFollowsChain ==
    /\ \A e \in Exec : \A s \in log[e] :
         exec[e] # None /\ (Terminal(s) => s = exec[e].phase)
    /\ \A c \in Cmd :
         cmd[c].kind = "exit" /\ cmd[c].pc = "done" /\ cmd[c].result = "executed"
         => exec[cmd[c].id].phase \in log[cmd[c].id]

(* What a finished command says is so and stays so: a dry run or a refusal *)
(* has no execution of its own, a run stopped at the gate never broadcasts *)
(* even when its deadline cut it short, and one called executed has        *)
(* redeemed (guarded_exit.py:112-138, exit_workflow.py:151-175).           *)
OutcomeTruthful ==
    \A c \in Cmd : cmd[c].pc = "done" =>
        /\ cmd[c].result \in {"dry", "refused"} =>
             ~\E e \in Exec : exec[e] # None /\ exec[e].cmd = c
        /\ cmd[c].kind = "guard_run" /\ cmd[c].result = "stopped" =>
             exec[cmd[c].id].phase = "stopped"
        /\ cmd[c].kind = "guard_run" /\ cmd[c].result = "executed" =>
             exec[cmd[c].id].phase = "completed"
==============================================================================
