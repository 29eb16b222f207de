----------------------------- MODULE OperatorBot -----------------------------
(***************************************************************************)
(* The operator bot (almanak_keeperhub/bot.py): long polling, one asyncio  *)
(* task per update, an action that is armed and then confirmed, and a flag *)
(* for the action that is running.                                         *)
(*                                                                         *)
(* A task gives up the event loop only while it sends the "Working" notice *)
(* and while the command line runs in a thread.  Time is in units of the   *)
(* confirm window, so ArmFor is 60 s and StaleAfter 180 s.                 *)
(***************************************************************************)
EXTENDS Naturals, Sequences, FiniteSets

CONSTANTS
    Chat,         \* chats that write to the bot
    OwnerEnv,     \* what CHAT_ENV can say when the bot is started: a chat, or None
    Inputs,       \* the n-th update is one of Inputs[n]: a chat, its command, typed or tapped
    None,         \* nothing armed, no owner
    ArmFor,       \* how long an armed action can be confirmed
    StaleAfter,   \* how old an update may be: STALE_AFTER_SECONDS
    MaxUpdates,   \* bound: updates sent
    MaxTime,      \* bound: the clock
    MaxCrashes    \* bound: deaths of the bot

Ids == 1 .. MaxUpdates
Armable == {"tick", "exit", "guard"}
TaskState == {"none", "ready", "notice", "running", "done", "lost"}
\* "read" stands for /help, /executions and /dryruns, "keeper" for /status too.
Looking == {"read", "keeper", "verify"}
Command == Armable \union Looking \union {"confirm", "cancel", "simulate", "stale guard", "demo", "claim"}
Input == [chat : Chat, text : Command, button : BOOLEAN]

ASSUME BotAssumption ==
    /\ Inputs \in [Ids -> SUBSET Input]
    /\ None \notin Chat /\ OwnerEnv \subseteq Chat \union {None}
    /\ ArmFor \in Nat /\ StaleAfter \in Nat
    /\ MaxUpdates \in Nat /\ MaxTime \in Nat /\ MaxCrashes \in Nat
    /\ None \notin [action : Armable, at : Nat]

VARIABLES
    now,        \* the clock
    updates,    \* what was sent, in the order of the update ids
    confirmed,  \* Telegram: updates it will not hand out again
    offset,     \* _offset: updates taken by this process
    tasks,      \* the state of the task of each update
    ready,      \* tasks that the event loop has not started, oldest first
    seen,       \* sent_at of each task
    owner,      \* owner_chat_id
    pending,    \* _pending: the armed action and when
    busy,       \* _busy
    crashes,    \* deaths so far
    journal     \* history: what was armed, dropped, run, and restarts

transport == <<updates, confirmed, offset>>
desk == <<pending, busy, journal>>
vars == <<now, transport, tasks, ready, seen, owner, desk, crashes>>

\* _answer() sends a notice, and so yields, before these.
WithNotice == {"confirm", "simulate", "stale guard", "demo", "verify"}
Stale(i) == now - seen[i] > StaleAfter
ChatOf(i) == IF i \in DOMAIN updates THEN updates[i].input.chat ELSE None
Note(what, action, i) ==
    journal' = Append(journal, [what |-> what, action |-> action, by |-> i, chat |-> ChatOf(i), at |-> now])

Init ==
    /\ now = 0
    /\ updates = << >> /\ confirmed = 0 /\ offset = 0
    /\ tasks = [i \in Ids |-> "none"]
    /\ ready = << >>
    /\ seen = [i \in Ids |-> 0]
    /\ owner \in OwnerEnv
    /\ pending = None /\ busy = FALSE
    /\ crashes = 0
    /\ journal = << >>

------------------------------------------------------------------------------
(***************************************************************************)
(* The chats, time and Telegram.                                           *)
(***************************************************************************)
\* A claim carries the secret of the process that runs when it is sent.
Send(input) ==
    /\ Len(updates) < MaxUpdates
    /\ input \in Inputs[Len(updates) + 1]
    /\ updates' = Append(updates, [input |-> input, sent |-> now,
                                   secret |-> IF input.text = "claim" THEN crashes ELSE 0])
    /\ UNCHANGED <<now, confirmed, offset, tasks, ready, seen, owner, desk, crashes>>

Pass ==
    /\ now < MaxTime
    /\ now' = now + 1
    /\ UNCHANGED <<transport, tasks, ready, seen, owner, desk, crashes>>

\* The updates after "from" up to n become tasks, in their order.  A button tap
\* carries no date: it counts as sent when it is received.
Take(from, n) ==
    LET new == from + 1 .. n
    IN  /\ ready' = ready \o [k \in 1 .. n - from |-> from + k]
        /\ tasks' = [i \in Ids |-> IF i \in new THEN "ready" ELSE tasks[i]]
        /\ seen' = [i \in Ids |-> IF i \notin new THEN seen[i]
                                  ELSE IF updates[i].input.button THEN now ELSE updates[i].sent]
        /\ UNCHANGED <<now, updates, owner, desk, crashes>>

\* Faulty: the offset passes updates that were not handed out.
PollSkips(n) ==
    LET from == IF offset > confirmed THEN offset ELSE confirmed
    IN  /\ n \in from .. Len(updates)
        /\ Take(from, n)
        /\ confirmed' = from
        /\ offset' = IF n > from THEN Len(updates) ELSE offset

\* Faulty: an update id is taken for a count.
PollOffByOne(n) ==
    LET from == IF offset > confirmed THEN offset ELSE confirmed
    IN  /\ n \in from .. Len(updates)
        /\ Take(from, n)
        /\ confirmed' = from
        /\ offset' = IF n > from THEN n + 1 ELSE offset

\* getUpdates with the offset confirms what came before it, even when the
\* answer is empty or lost.
Poll(n) ==
    LET from == IF offset > confirmed THEN offset ELSE confirmed
    IN  /\ n \in from .. Len(updates)
        /\ Take(from, n)
        /\ confirmed' = from
        /\ offset' = IF n > from THEN n ELSE offset

------------------------------------------------------------------------------
(***************************************************************************)
(* What a command does.  Each says where its task goes.                    *)
(***************************************************************************)
Goes(i, where) == tasks' = [tasks EXCEPT ![i] = where]
Refuse(i) == Goes(i, "done") /\ UNCHANGED desk

AlreadyArmed(action) ==
    \E at \in 0 .. now : pending = [action |-> action, at |-> at] /\ now - at < ArmFor

\* _arm(): a repeat is answered, not stacked; another action takes over.
Arm(i, action) ==
    \/ busy /\ Refuse(i)
    \/ ~busy /\ AlreadyArmed(action) /\ Refuse(i)
    \/ /\ ~busy /\ ~AlreadyArmed(action)
       /\ pending' = [action |-> action, at |-> now]
       /\ Note("arm", action, i)
       /\ Goes(i, "done")
       /\ UNCHANGED busy

Cancel(i) ==
    \/ pending = None /\ Refuse(i)
    \/ /\ pending # None
       /\ pending' = None
       /\ Note("drop", pending.action, i)
       /\ Goes(i, "done")
       /\ UNCHANGED busy

\* Faulty: a confirm while something runs is not refused.
ConfirmUnchecked(i) ==
    \/ pending = None /\ Refuse(i)
    \/ /\ pending # None
       /\ pending' = None
       /\ busy' = TRUE
       /\ Note("run", pending.action, i)
       /\ Goes(i, "running")

\* Faulty: the armed action stays armed while it runs and after.
ConfirmKeepsPending(i) ==
    \/ busy /\ Refuse(i)
    \/ ~busy /\ pending = None /\ Refuse(i)
    \/ /\ ~busy /\ pending # None /\ now - pending.at <= ArmFor
       /\ busy' = TRUE
       /\ Note("run", pending.action, i)
       /\ Goes(i, "running")
       /\ UNCHANGED pending

Confirm(i) ==
    \/ busy /\ Refuse(i)
    \/ ~busy /\ pending = None /\ Refuse(i)
    \/ /\ ~busy /\ pending # None /\ now - pending.at > ArmFor
       /\ pending' = None
       /\ Note("drop", pending.action, i)
       /\ Goes(i, "done")
       /\ UNCHANGED busy
    \/ /\ ~busy /\ pending # None /\ now - pending.at <= ArmFor
       /\ pending' = None
       /\ busy' = TRUE
       /\ Note("run", pending.action, i)
       /\ Goes(i, "running")

\* The dry run looks at the flag and does not set it.
Simulate(i) ==
    \/ busy /\ Refuse(i)
    \/ ~busy /\ Goes(i, "running") /\ UNCHANGED desk

GuardStale(i) ==
    \/ busy /\ Refuse(i)
    \/ ~busy /\ busy' = TRUE /\ Goes(i, "running") /\ UNCHANGED <<pending, journal>>

\* A demo neither looks at the flag nor sets it.
Demo(i) == Goes(i, "running") /\ UNCHANGED desk

\* The file of receipts is read and answered from; KeeperHub is asked as well.
Read(i) == Goes(i, "done") /\ UNCHANGED desk
Ask(i) == Goes(i, "running") /\ UNCHANGED desk

Do(i, text) ==
    \/ text \in Armable /\ Arm(i, text)
    \/ text = "cancel" /\ Cancel(i)
    \/ text = "confirm" /\ Confirm(i)
    \/ text = "simulate" /\ Simulate(i)
    \/ text = "stale guard" /\ GuardStale(i)
    \/ text = "demo" /\ Demo(i)
    \/ text \in {"read", "claim"} /\ Read(i)
    \/ text \in {"keeper", "verify"} /\ Ask(i)

\* Without an owner only /start with the secret that this process printed counts.
Claim(i) ==
    LET knows == updates[i].input.text = "claim" /\ updates[i].secret = crashes
    IN  owner' = (IF knows THEN ChatOf(i) ELSE owner) /\ Refuse(i)

\* Who may act: the chat that the bot belongs to when the command is handled.
Admit(i) ==
    \/ owner = None /\ Claim(i)
    \/ owner \notin {None, ChatOf(i)} /\ Refuse(i) /\ UNCHANGED owner
    \/ owner # None /\ owner = ChatOf(i) /\ Do(i, updates[i].input.text) /\ UNCHANGED owner

\* Faulty: the age of an update is looked at only before the notice.
HandleUnchecked(i) == Admit(i)

\* handle(): the age is looked at again, after the notice.
Handle(i) ==
    \/ Stale(i) /\ Refuse(i) /\ UNCHANGED owner
    \/ ~Stale(i) /\ Admit(i)

------------------------------------------------------------------------------
(***************************************************************************)
(* The tasks.                                                              *)
(***************************************************************************)
\* The event loop starts the oldest task; it runs until its first await.
Start ==
    /\ ready # << >>
    /\ ready' = Tail(ready)
    /\ LET i == Head(ready)
       IN  \/ Stale(i) /\ Refuse(i) /\ UNCHANGED owner
           \/ /\ ~Stale(i) /\ updates[i].input.text \in WithNotice
              /\ Goes(i, "notice") /\ UNCHANGED <<owner, desk>>
           \/ ~Stale(i) /\ updates[i].input.text \notin WithNotice /\ Handle(i)
    /\ UNCHANGED <<now, transport, seen, crashes>>

\* The notice is sent, or its retries failed.
Noticed(i) ==
    /\ tasks[i] = "notice"
    /\ Handle(i)
    /\ UNCHANGED <<now, transport, ready, seen, crashes>>

\* Faulty: an exception of the command line leaves the flag set.
FinishKeepsBusy(i) ==
    /\ tasks[i] = "running"
    /\ Goes(i, "done")
    /\ UNCHANGED <<now, transport, ready, seen, owner, desk, crashes>>

\* The command line comes back, fails, or is killed after 900 s; KeeperHub answers or not.
Finish(i) ==
    /\ tasks[i] = "running"
    /\ Goes(i, "done")
    /\ busy' = (busy /\ updates[i].input.text \notin {"confirm", "stale guard"})
    /\ UNCHANGED <<now, transport, ready, seen, owner, pending, journal, crashes>>

\* The bot dies and is started again.  Updates that Telegram holds confirmed
\* are lost with their tasks, the others will be handed out again.
Crash ==
    /\ crashes < MaxCrashes
    /\ crashes' = crashes + 1
    /\ offset' = 0
    /\ owner' \in OwnerEnv
    /\ ready' = << >>
    /\ tasks' = [i \in Ids |->
           IF i > confirmed THEN "none"
           ELSE IF tasks[i] = "done" THEN "done" ELSE "lost"]
    /\ pending' = None
    /\ busy' = FALSE
    /\ Note("restart", "none", 0)
    /\ UNCHANGED <<now, updates, confirmed, seen>>

------------------------------------------------------------------------------
Next ==
    \/ \E input \in UNION {Inputs[n] : n \in Ids} : Send(input)
    \/ Pass
    \/ \E n \in 0 .. MaxUpdates : Poll(n)
    \/ Start
    \/ \E i \in Ids : Noticed(i) \/ Finish(i)
    \/ Crash

Spec == Init /\ [][Next]_vars

\* Telegram answers a poll at last, the loop runs its tasks, a notice and the
\* command line come to an end.
FairSpec ==
    /\ Spec
    /\ \A n \in Ids : WF_vars(Len(updates) = n /\ offset < n /\ Poll(n))
    /\ WF_vars(Start)
    /\ \A i \in Ids : WF_vars(Noticed(i)) /\ WF_vars(Finish(i))

------------------------------------------------------------------------------
TypeOK ==
    /\ now \in 0 .. MaxTime
    /\ updates \in Seq([input : Input, sent : 0 .. MaxTime, secret : 0 .. MaxCrashes]) /\ Len(updates) <= MaxUpdates
    /\ confirmed \in 0 .. Len(updates) /\ offset \in 0 .. Len(updates)
    /\ tasks \in [Ids -> TaskState]
    /\ ready \in Seq(Ids)
    /\ seen \in [Ids -> 0 .. MaxTime]
    /\ owner \in Chat \union {None}
    /\ pending \in [action : Armable, at : 0 .. MaxTime] \union {None}
    /\ busy \in BOOLEAN
    /\ crashes \in 0 .. MaxCrashes
    /\ journal \in Seq([what : {"arm", "drop", "run", "restart"}, action : Armable \union {"none"},
                        by : 0 .. MaxUpdates, chat : Chat \union {None}, at : 0 .. MaxTime])

\* What runs was armed: the last thing that happened at the desk before it is
\* the arming of that very action, by the same chat, in the confirm window.  So
\* an arming runs once, and neither after a cancel, nor after another arming,
\* nor after the bot was restarted and claimed by another chat, however long the
\* notices of the confirms take.
RunsWhatWasArmed ==
    \A k \in DOMAIN journal :
        journal[k].what = "run" =>
            /\ k > 1
            /\ journal[k - 1].what = "arm"
            /\ journal[k - 1].action = journal[k].action
            /\ journal[k - 1].chat = journal[k].chat
            /\ journal[k].at - journal[k - 1].at <= ArmFor

\* Confirmed actions and stale guards that run.
Running == {i \in Ids : tasks[i] = "running" /\ updates[i].input.text \in {"confirm", "stale guard"}}

\* One of them runs at a time, and the bot says it is busy exactly then.
OneActionAtATime == Cardinality(Running) <= 1 /\ (busy <=> Running # {})

\* An entry that acts on an update older than StaleAfter.
OldEntry(k) ==
    /\ journal[k].what \in {"arm", "run"}
    /\ journal[k].at - updates[journal[k].by].sent > StaleAfter

\* Nothing is armed or run on an old message, though a task may have waited
\* for its notice since the bot took it.
NeverActsOnOldMessages ==
    \A k \in DOMAIN journal : OldEntry(k) => updates[journal[k].by].input.button

\* "Queued while the bot was offline: never act on an old /tick or /confirm."
NeverActsOnOldUpdates == \A k \in DOMAIN journal : ~OldEntry(k)

\* The bot does not stay busy, whatever becomes of the action.
BusyEnds == busy ~> ~busy

\* Every update is answered, unless the bot dies on it after Telegram has let
\* go of it.
UpdatesAnswered ==
    \A i \in Ids : Len(updates) >= i ~> tasks[i] \in {"done", "lost"}

==============================================================================
