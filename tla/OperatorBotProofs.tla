-------------------------- MODULE OperatorBotProofs --------------------------
(***************************************************************************)
(* Theorems about OperatorBot, for any conversation, any windows and any   *)
(* number of restarts.                                                     *)
(***************************************************************************)
EXTENDS OperatorBot, FiniteSetTheorems, TLAPS

------------------------------------------------------------------------------
(***************************************************************************)
(* What a command can do.                                                  *)
(***************************************************************************)
Quiet(i) == Goes(i, "done") /\ UNCHANGED desk
Armed(i) ==
    /\ ~Stale(i) /\ owner # None /\ owner = ChatOf(i)
    /\ \E action \in Armable :
        /\ pending' = [action |-> action, at |-> now]
        /\ Note("arm", action, i)
    /\ Goes(i, "done")
    /\ UNCHANGED busy
Dropped(i) ==
    /\ owner # None /\ owner = ChatOf(i)
    /\ pending # None
    /\ pending' = None
    /\ Note("drop", pending.action, i)
    /\ Goes(i, "done")
    /\ UNCHANGED busy
Fired(i) ==
    /\ ~Stale(i) /\ ~busy /\ owner # None /\ owner = ChatOf(i)
    /\ updates[i].input.text = "confirm"
    /\ pending # None /\ now - pending.at <= ArmFor
    /\ pending' = None
    /\ busy' = TRUE
    /\ Note("run", pending.action, i)
    /\ Goes(i, "running")
Aside(i) ==
    /\ updates[i].input.text \in {"simulate", "demo", "keeper", "verify"}
    /\ Goes(i, "running")
    /\ UNCHANGED desk
Guarded(i) ==
    /\ ~busy
    /\ updates[i].input.text = "stale guard"
    /\ busy' = TRUE
    /\ Goes(i, "running")
    /\ UNCHANGED <<pending, journal>>
OwnerKept(i) ==
    \/ owner' = owner
    \/ /\ owner = None /\ owner' = ChatOf(i)
       /\ updates[i].input.text = "claim" /\ updates[i].secret = crashes
Acts(i) == Quiet(i) \/ Armed(i) \/ Dropped(i) \/ Fired(i) \/ Aside(i) \/ Guarded(i)

LEMMA HandleActs ==
    ASSUME NEW i \in Ids, Handle(i)
    PROVE  Acts(i) /\ OwnerKept(i)
<1>1. CASE Refuse(i)
  BY <1>1 DEF Handle, Admit, Claim, OwnerKept, Refuse, Acts, Quiet
<1>2. CASE owner # None /\ owner = ChatOf(i) /\ ~Stale(i) /\ Do(i, updates[i].input.text) /\ UNCHANGED owner
  <2> DEFINE text == updates[i].input.text
  <2>0. OwnerKept(i)
    BY <1>2 DEF OwnerKept
  <2>1. CASE text \in Armable /\ Arm(i, text)
    BY <1>2, <2>0, <2>1 DEF Arm, Refuse, Acts, Quiet, Armed
  <2>2. CASE text = "cancel" /\ Cancel(i)
    BY <1>2, <2>0, <2>2 DEF Cancel, Refuse, Acts, Quiet, Dropped
  <2>3. CASE text = "confirm" /\ Confirm(i)
    BY <1>2, <2>0, <2>3 DEF Confirm, Refuse, Acts, Quiet, Dropped, Fired
  <2>4. CASE text = "simulate" /\ Simulate(i)
    BY <2>0, <2>4 DEF Simulate, Refuse, Acts, Quiet, Aside
  <2>5. CASE text = "stale guard" /\ GuardStale(i)
    BY <2>0, <2>5 DEF GuardStale, Refuse, Acts, Quiet, Guarded
  <2>6. CASE text = "demo" /\ Demo(i)
    BY <2>0, <2>6 DEF Demo, Acts, Aside
  <2>7. CASE text \in {"read", "claim"} /\ Read(i)
    BY <2>0, <2>7 DEF Read, Acts, Quiet
  <2>8. CASE text \in {"keeper", "verify"} /\ Ask(i)
    BY <2>0, <2>8 DEF Ask, Acts, Aside
  <2> QED
    BY <1>2, <2>1, <2>2, <2>3, <2>4, <2>5, <2>6, <2>7, <2>8 DEF Do
<1> QED
  BY <1>1, <1>2 DEF Handle, Admit, Claim

\* A task that the loop runs: up to its notice, or at the desk.
Turn(i) ==
    /\ \/ ready # << >> /\ i = Head(ready) /\ ready' = Tail(ready)
       \/ tasks[i] = "notice" /\ UNCHANGED ready
    /\ \/ Goes(i, "notice") /\ UNCHANGED desk
       \/ Acts(i)
    /\ OwnerKept(i)
    /\ UNCHANGED <<now, transport, seen, crashes>>

LEMMA StepCases ==
    ASSUME TypeOK, [Next]_vars
    PROVE  \/ \E input \in Input : Send(input)
           \/ Pass
           \/ \E n \in 0 .. MaxUpdates : Poll(n)
           \/ \E i \in Ids : Turn(i)
           \/ \E i \in Ids : Finish(i)
           \/ Crash
           \/ UNCHANGED vars
<1>1. ASSUME NEW input \in UNION {Inputs[n] : n \in Ids}
      PROVE  input \in Input
  BY BotAssumption
<1>2. ASSUME Start
      PROVE  \E i \in Ids : Turn(i)
  <2> DEFINE i == Head(ready)
  <2>1. i \in Ids
    BY <1>2 DEF Start, TypeOK
  <2>2. \/ Goes(i, "notice") /\ UNCHANGED desk
        \/ Acts(i)
    BY <1>2, <2>1, HandleActs DEF Start, Refuse, Acts, Quiet
  <2>3. OwnerKept(i)
    BY <1>2, <2>1, HandleActs DEF Start, OwnerKept
  <2> QED
    BY <1>2, <2>1, <2>2, <2>3 DEF Start, Turn
<1>3. ASSUME NEW i \in Ids, Noticed(i)
      PROVE  Turn(i)
  BY <1>3, HandleActs DEF Noticed, Turn
<1> QED
  BY <1>1, <1>2, <1>3 DEF Next

------------------------------------------------------------------------------
(***************************************************************************)
(* Types.                                                                  *)
(***************************************************************************)
Update == [input : Input, sent : 0 .. MaxTime, secret : 0 .. MaxCrashes]
Event == [what : {"arm", "drop", "run", "restart"}, action : Armable \union {"none"},
          by : 0 .. MaxUpdates, chat : Chat \union {None}, at : 0 .. MaxTime]

LEMMA TypeInit == Init => TypeOK
<1> SUFFICES ASSUME Init
             PROVE  TypeOK
  OBVIOUS
<1>1. << >> \in Seq(Update) /\ << >> \in Seq(Ids) /\ << >> \in Seq(Event)
  OBVIOUS
<1>2. 0 \in 0 .. MaxTime /\ 0 \in 0 .. MaxCrashes /\ 0 <= MaxUpdates
  BY BotAssumption
<1>3. updates \in Seq(Update) /\ Len(updates) = 0 /\ ready \in Seq(Ids) /\ journal \in Seq(Event)
  BY <1>1 DEF Init
<1>4. tasks \in [Ids -> TaskState]
  BY DEF Init, TaskState
<1>5. seen \in [Ids -> 0 .. MaxTime] /\ now \in 0 .. MaxTime /\ crashes \in 0 .. MaxCrashes
  BY <1>2 DEF Init
<1>6. confirmed \in 0 .. Len(updates) /\ offset \in 0 .. Len(updates)
  BY <1>3 DEF Init
<1>7. pending = None /\ busy = FALSE /\ owner \in Chat \union {None}
  BY BotAssumption DEF Init
<1> QED
  BY <1>2, <1>3, <1>4, <1>5, <1>6, <1>7 DEF TaskState, TypeOK, Update, Event

LEMMA ChatType ==
    ASSUME TypeOK, NEW i
    PROVE  ChatOf(i) \in Chat \union {None}
<1>1. CASE i \in DOMAIN updates
  <2>1. updates \in Seq(Update)
    BY DEF TypeOK, Update
  <2>2. updates[i] \in Update
    BY <1>1, <2>1
  <2> QED
    BY <1>1, <2>2 DEF ChatOf, Update, Input
<1> QED
  BY <1>1 DEF ChatOf

LEMMA NoteType ==
    ASSUME TypeOK, NEW what \in {"arm", "drop", "run", "restart"},
           NEW action \in Armable \union {"none"}, NEW i \in 0 .. MaxUpdates, Note(what, action, i)
    PROVE  journal' \in Seq(Event)
<1>1. [what |-> what, action |-> action, by |-> i, chat |-> ChatOf(i), at |-> now] \in Event
  BY ChatType DEF TaskState, TypeOK, Event
<1>2. journal \in Seq(Event)
  BY DEF TaskState, TypeOK, Event
<1> QED
  BY <1>1, <1>2 DEF Note

LEMMA PollTypes ==
    ASSUME TypeOK, NEW n \in 0 .. MaxUpdates, Poll(n)
    PROVE  TypeOK'
<1> USE BotAssumption
<1> DEFINE from == IF offset > confirmed THEN offset ELSE confirmed
           batch == [k \in 1 .. n - from |-> from + k]
<1>1. from \in 0 .. Len(updates) /\ n \in from .. Len(updates) /\ Len(updates) \in Nat
  BY DEF TaskState, Poll, TypeOK
<1>2. Len(updates) <= MaxUpdates /\ updates \in Seq(Update)
  BY DEF TaskState, TypeOK, Update
<1>3. batch \in Seq(Ids)
  <2>1. \A k \in 1 .. n - from : from + k \in Ids
    BY <1>1, <1>2 DEF Ids
  <2>2. batch \in [1 .. n - from -> Ids] /\ n - from \in Nat
    BY <1>1, <2>1
  <2> QED
    BY <2>2
<1>4. ready' \in Seq(Ids)
  BY <1>3 DEF TaskState, Poll, Take, TypeOK
<1>5. tasks' \in [Ids -> TaskState]
  BY DEF TaskState, Poll, Take, TypeOK
<1>6. \A i \in from + 1 .. n : updates[i].sent \in 0 .. MaxTime
  <2>1. \A i \in from + 1 .. n : updates[i] \in Update
    BY <1>1, <1>2
  <2> QED
    BY <2>1 DEF Update
<1>7. seen' \in [Ids -> 0 .. MaxTime]
  BY <1>6 DEF TaskState, Poll, Take, TypeOK
<1>8. UNCHANGED <<now, updates, owner, pending, busy, journal, crashes>>
  BY DEF Poll, Take, desk
<1>9. confirmed' \in 0 .. Len(updates) /\ offset' \in 0 .. Len(updates)
  BY <1>1 DEF Poll, TypeOK
<1> QED
  BY <1>4, <1>5, <1>7, <1>8, <1>9 DEF TypeOK

LEMMA ActTypes ==
    ASSUME TypeOK, NEW i \in Ids, Acts(i)
    PROVE  /\ tasks' \in [Ids -> TaskState]
           /\ pending' \in [action : Armable, at : 0 .. MaxTime] \union {None}
           /\ busy' \in BOOLEAN
           /\ journal' \in Seq(Event)
<1>1. i \in 0 .. MaxUpdates
  BY BotAssumption DEF Ids
<1>2. pending # None => pending.action \in Armable \union {"none"}
  BY DEF TaskState, TypeOK
<1>3. journal \in Seq(Event)
  BY DEF TaskState, TypeOK, Event
<1>4. CASE Quiet(i) \/ Aside(i) \/ Guarded(i)
  BY <1>3, <1>4 DEF TaskState, Quiet, Aside, Guarded, Goes, desk, TypeOK
<1>5. CASE Armed(i)
  <2>1. PICK action \in Armable : pending' = [action |-> action, at |-> now] /\ Note("arm", action, i)
    BY <1>5 DEF Armed
  <2>2. journal' \in Seq(Event)
    BY <1>1, <2>1, NoteType
  <2> QED
    BY <1>5, <2>1, <2>2 DEF TaskState, Armed, Goes, TypeOK
<1>6. CASE Dropped(i)
  <2>1. journal' \in Seq(Event)
    BY <1>1, <1>2, <1>6, NoteType DEF Dropped
  <2> QED
    BY <1>6, <2>1 DEF TaskState, Dropped, Goes, TypeOK
<1>7. CASE Fired(i)
  <2>1. journal' \in Seq(Event)
    BY <1>1, <1>2, <1>7, NoteType DEF Fired
  <2> QED
    BY <1>7, <2>1 DEF TaskState, Fired, Goes, TypeOK
<1> QED
  BY <1>4, <1>5, <1>6, <1>7 DEF Acts

LEMMA TypeStep == TypeOK /\ [Next]_vars => TypeOK'
<1> SUFFICES ASSUME TypeOK, [Next]_vars
             PROVE  TypeOK'
  OBVIOUS
<1> USE BotAssumption
<1>1. ASSUME NEW input \in Input, Send(input)
      PROVE  TypeOK'
  <2> DEFINE update == [input |-> input, sent |-> now, secret |-> IF input.text = "claim" THEN crashes ELSE 0]
  <2>1. update \in Update
    BY DEF TaskState, TypeOK, Update
  <2>2. updates' \in Seq(Update) /\ Len(updates') = Len(updates) + 1 /\ Len(updates) \in Nat
    BY <1>1, <2>1 DEF TaskState, Send, TypeOK, Update
  <2>3. Len(updates') <= MaxUpdates /\ confirmed \in 0 .. Len(updates') /\ offset \in 0 .. Len(updates')
    BY <1>1, <2>2 DEF TaskState, Send, TypeOK
  <2> QED
    BY <1>1, <2>2, <2>3 DEF TaskState, Send, TypeOK, Update, desk
<1>2. CASE Pass
  BY <1>2 DEF TaskState, Pass, TypeOK, transport, desk
<1>3. ASSUME NEW n \in 0 .. MaxUpdates, Poll(n)
      PROVE  TypeOK'
  BY <1>3, PollTypes
<1>4. ASSUME NEW i \in Ids, Turn(i)
      PROVE  TypeOK'
  <2>4. owner' \in Chat \union {None}
    BY <1>4, ChatType DEF Turn, OwnerKept, TypeOK
  <2>1. ready' \in Seq(Ids)
    <3>1. ready \in Seq(Ids)
      BY DEF TaskState, TypeOK
    <3>2. ready # << >> => Tail(ready) \in Seq(Ids)
      BY <3>1
    <3> QED
      BY <1>4, <3>1, <3>2 DEF Turn
  <2>2. CASE Goes(i, "notice") /\ UNCHANGED desk
    BY <1>4, <2>1, <2>2, <2>4 DEF TaskState, Turn, TypeOK, Goes, transport, desk
  <2>3. CASE Acts(i)
    BY <1>4, <2>1, <2>3, <2>4, ActTypes DEF TaskState, Turn, TypeOK, transport, Event
  <2> QED
    BY <1>4, <2>2, <2>3 DEF Turn
<1>5. ASSUME NEW i \in Ids, Finish(i)
      PROVE  TypeOK'
  BY <1>5 DEF TaskState, Finish, TypeOK, Goes, transport
<1>6. CASE Crash
  <2>1. journal' \in Seq(Event)
    <3>1. Note("restart", "none", 0) /\ 0 \in 0 .. MaxUpdates
      BY <1>6 DEF Crash
    <3> QED
      BY <3>1, NoteType
  <2>2. << >> \in Seq(Ids)
    OBVIOUS
  <2>3. offset' \in 0 .. Len(updates)
    BY <1>6 DEF TaskState, Crash, TypeOK
  <2>4. tasks' \in [Ids -> TaskState]
    BY <1>6 DEF Crash, TaskState
  <2>5. crashes' \in 0 .. MaxCrashes
    BY <1>6 DEF TaskState, Crash, TypeOK
  <2> QED
    BY <1>6, <2>1, <2>2, <2>3, <2>4, <2>5 DEF TaskState, Crash, TypeOK, Event
<1>7. CASE UNCHANGED vars
  BY <1>7 DEF TaskState, vars, TypeOK, transport, desk
<1> QED
  BY <1>1, <1>2, <1>3, <1>4, <1>5, <1>6, <1>7, StepCases

\* Every variable of the bot keeps its type.
THEOREM BotTypes == Spec => []TypeOK
BY TypeInit, TypeStep, PTL DEF Spec

------------------------------------------------------------------------------
(***************************************************************************)
(* The desk: what is armed is the last entry of the journal, so a run is   *)
(* preceded by its arming.                                                 *)
(***************************************************************************)
Desk ==
    pending # None =>
        /\ journal # << >>
        /\ journal[Len(journal)].what = "arm"
        /\ journal[Len(journal)].action = pending.action
        /\ journal[Len(journal)].at = pending.at
        /\ owner # None /\ journal[Len(journal)].chat = owner

\* The journal grows at its end.
LEMMA NoteAppends ==
    ASSUME TypeOK, NEW what, NEW action, NEW i, Note(what, action, i)
    PROVE  /\ Len(journal') = Len(journal) + 1
           /\ Len(journal) \in Nat
           /\ DOMAIN journal = 1 .. Len(journal)
           /\ DOMAIN journal' = 1 .. Len(journal) + 1
           /\ \A k \in 1 .. Len(journal) : journal'[k] = journal[k]
           /\ journal'[Len(journal) + 1] = [what |-> what, action |-> action, by |-> i, chat |-> ChatOf(i), at |-> now]
<1>1. journal \in Seq(Event)
  BY DEF TypeOK, Event
<1> DEFINE e == [what |-> what, action |-> action, by |-> i, chat |-> ChatOf(i), at |-> now]
<1>2. journal' = Append(journal, e)
  BY DEF Note
<1> HIDE DEF e
<1>3. /\ Len(Append(journal, e)) = Len(journal) + 1
      /\ Len(journal) \in Nat
      /\ DOMAIN journal = 1 .. Len(journal)
      /\ DOMAIN Append(journal, e) = 1 .. Len(journal) + 1
      /\ \A k \in 1 .. Len(journal) : Append(journal, e)[k] = journal[k]
      /\ Append(journal, e)[Len(journal) + 1] = e
  BY <1>1
<1> QED
  BY <1>2, <1>3 DEF e

\* An entry that is not a run breaks nothing.
LEMMA NoteNoRun ==
    ASSUME TypeOK, RunsWhatWasArmed, NEW what, NEW action, NEW i, Note(what, action, i),
           what # "run"
    PROVE  RunsWhatWasArmed'
<1>1. /\ DOMAIN journal' = 1 .. Len(journal) + 1 /\ DOMAIN journal = 1 .. Len(journal)
      /\ Len(journal) \in Nat
      /\ \A k \in 1 .. Len(journal) : journal'[k] = journal[k]
      /\ journal'[Len(journal) + 1].what = what
  <2>1. /\ DOMAIN journal' = 1 .. Len(journal) + 1 /\ DOMAIN journal = 1 .. Len(journal)
        /\ Len(journal) \in Nat
        /\ \A k \in 1 .. Len(journal) : journal'[k] = journal[k]
        /\ journal'[Len(journal) + 1] = [what |-> what, action |-> action, by |-> i, chat |-> ChatOf(i), at |-> now]
    BY NoteAppends
  <2> QED
    BY <2>1
<1> QED
  BY <1>1 DEF RunsWhatWasArmed

LEMMA DeskStep == TypeOK /\ Desk /\ RunsWhatWasArmed /\ [Next]_vars => Desk' /\ RunsWhatWasArmed'
<1> SUFFICES ASSUME TypeOK, Desk, RunsWhatWasArmed, [Next]_vars
             PROVE  Desk' /\ RunsWhatWasArmed'
  OBVIOUS
<1>1. CASE UNCHANGED <<pending, journal>> /\ (owner # None => owner' = owner)
  BY <1>1 DEF Desk, RunsWhatWasArmed
<1>2. ASSUME NEW i \in Ids, Armed(i), OwnerKept(i)
      PROVE  Desk' /\ RunsWhatWasArmed'
  <2>1. PICK action \in Armable : pending' = [action |-> action, at |-> now] /\ Note("arm", action, i)
    BY <1>2 DEF Armed
  <2>2. RunsWhatWasArmed'
    BY <2>1, NoteNoRun
  <2>3. /\ Len(journal') = Len(journal) + 1 /\ Len(journal) \in Nat
        /\ DOMAIN journal' = 1 .. Len(journal) + 1
        /\ journal'[Len(journal) + 1] = [what |-> "arm", action |-> action, by |-> i, chat |-> ChatOf(i), at |-> now]
    BY <2>1, NoteAppends
  <2>4. owner' = owner /\ owner # None /\ owner = ChatOf(i)
    BY <1>2 DEF Armed, OwnerKept
  <2>5. Desk'
    BY <2>1, <2>3, <2>4 DEF Desk
  <2> QED
    BY <2>2, <2>5
<1>3. ASSUME NEW i \in Ids, Dropped(i)
      PROVE  Desk' /\ RunsWhatWasArmed'
  BY <1>3, NoteNoRun DEF Dropped, Desk
<1>4. ASSUME NEW i \in Ids, Fired(i)
      PROVE  Desk' /\ RunsWhatWasArmed'
  <2> DEFINE n == Len(journal)
  <2>1. /\ n \in Nat /\ DOMAIN journal = 1 .. n /\ DOMAIN journal' = 1 .. n + 1
        /\ \A k \in 1 .. n : journal'[k] = journal[k]
        /\ journal'[n + 1] = [what |-> "run", action |-> pending.action, by |-> i, chat |-> ChatOf(i), at |-> now]
    BY <1>4, NoteAppends DEF Fired
  <2>2. n > 0
    <3>1. journal # << >> /\ journal \in Seq(Event)
      BY <1>4 DEF Fired, Desk, TypeOK, Event
    <3> QED
      BY <3>1
  <2>3. /\ journal[n].what = "arm" /\ journal[n].action = pending.action
        /\ journal[n].chat = ChatOf(i)
        /\ journal[n].at = pending.at /\ now - pending.at <= ArmFor
    BY <1>4 DEF Fired, Desk
  <2>4. ASSUME NEW k \in 1 .. n + 1, journal'[k].what = "run"
        PROVE  /\ k > 1
               /\ journal'[k - 1].what = "arm"
               /\ journal'[k - 1].action = journal'[k].action
               /\ journal'[k - 1].chat = journal'[k].chat
               /\ journal'[k].at - journal'[k - 1].at <= ArmFor
    <3>1. CASE k = n + 1
      <4>1. k - 1 = n /\ k > 1 /\ n \in 1 .. n
        BY <2>1, <2>2, <3>1
      <4>2. journal'[k - 1] = journal[n]
        BY <2>1, <4>1
      <4>3. journal'[k].action = pending.action /\ journal'[k].at = now /\ journal'[k].chat = ChatOf(i)
        BY <2>1, <3>1
      <4> QED
        BY <2>3, <4>1, <4>2, <4>3
    <3>2. CASE k \in 1 .. n
      <4>1. journal[k].what = "run"
        BY <2>1, <2>4, <3>2
      <4>2. /\ k > 1 /\ journal[k - 1].what = "arm" /\ journal[k - 1].action = journal[k].action
            /\ journal[k - 1].chat = journal[k].chat
            /\ journal[k].at - journal[k - 1].at <= ArmFor
        BY <2>1, <3>2, <4>1 DEF RunsWhatWasArmed
      <4>3. k - 1 \in 1 .. n
        BY <2>1, <3>2, <4>2
      <4> QED
        BY <2>1, <3>2, <4>2, <4>3
    <3> QED
      BY <2>1, <3>1, <3>2
  <2>5. RunsWhatWasArmed'
    BY <2>1, <2>4 DEF RunsWhatWasArmed
  <2> QED
    BY <1>4, <2>5 DEF Fired, Desk
<1>5. CASE Crash
  BY <1>5, NoteNoRun DEF Crash, Desk
<1>6. ASSUME NEW i \in Ids, Turn(i)
      PROVE  Desk' /\ RunsWhatWasArmed'
  BY <1>1, <1>2, <1>3, <1>4, <1>6 DEF Turn, Acts, Quiet, Aside, Guarded, OwnerKept, desk
<1>7. ASSUME NEW n \in 0 .. MaxUpdates, Poll(n)
      PROVE  UNCHANGED <<owner, pending, journal>>
  BY <1>7 DEF Poll, Take, desk
<1> QED
  BY <1>1, <1>5, <1>6, <1>7, StepCases DEF Send, Pass, Finish, desk, vars

\* Whatever overtakes whatever, an action runs because it was the last thing
\* armed, by the chat that confirms it, in its window, since the last run,
\* cancel or restart, whoever claims the bot.
THEOREM OnlyWhatWasArmed == Spec => []RunsWhatWasArmed
<1>1. Init => Desk /\ RunsWhatWasArmed
  BY DEF Init, Desk, RunsWhatWasArmed
<1> QED
  BY <1>1, DeskStep, BotTypes, PTL DEF Spec

------------------------------------------------------------------------------
(***************************************************************************)
(* The tasks.  A task that waits to be started waits once; an update that  *)
(* was not taken has none.                                                 *)
(***************************************************************************)
Queue ==
    /\ \A k \in DOMAIN ready : tasks[ready[k]] = "ready"
    /\ \A k, l \in DOMAIN ready : ready[k] = ready[l] => k = l
    /\ \A i \in Ids : i > offset /\ i > confirmed => tasks[i] = "none"

\* A task that runs a command which sets the flag.
Holding(i) == tasks[i] = "running" /\ updates[i].input.text \in {"confirm", "stale guard"}

Flag ==
    /\ \A i \in Ids : Holding(i) => busy
    /\ \A i, j \in Ids : Holding(i) /\ Holding(j) => i = j
    /\ busy => \E i \in Ids : Holding(i)

\* What a message's task takes for its date is its date.
Dated ==
    \A i \in Ids : tasks[i] # "none" /\ ~updates[i].input.button => seen[i] = updates[i].sent

LEMMA Taken ==
    ASSUME TypeOK, Queue, NEW i \in Ids, tasks[i] # "none"
    PROVE  i \in 1 .. Len(updates)
BY BotAssumption DEF TypeOK, Queue, Ids

LEMMA Appended ==
    ASSUME NEW E, NEW s \in Seq(E), NEW t \in Seq(E),
           NEW k \in Len(s) + 1 .. Len(s) + Len(t)
    PROVE  (s \o t)[k] = t[k - Len(s)]
OBVIOUS

\* The updates of a poll join the queue behind those that wait, in their order.
From == IF offset > confirmed THEN offset ELSE confirmed

LEMMA PollReady ==
    ASSUME TypeOK, Queue, NEW n \in 0 .. MaxUpdates, Poll(n)
    PROVE  /\ From \in Nat /\ n >= From /\ offset <= From /\ confirmed <= From
           /\ ready \in Seq(Ids) /\ Len(ready) \in Nat /\ DOMAIN ready = 1 .. Len(ready)
           /\ \A k \in 1 .. Len(ready) : ready[k] \in Ids /\ ready[k] <= From
           /\ DOMAIN ready' = 1 .. Len(ready) + (n - From)
           /\ \A k \in 1 .. Len(ready) : ready'[k] = ready[k]
           /\ \A k \in Len(ready) + 1 .. Len(ready) + (n - From) :
                  ready'[k] = From + (k - Len(ready))
           /\ tasks' = [i \in Ids |-> IF i \in From + 1 .. n THEN "ready" ELSE tasks[i]]
           /\ confirmed' = From /\ offset' = IF n > From THEN n ELSE offset
<1> DEFINE from == From
           batch == [k \in 1 .. n - from |-> from + k]
           len == Len(ready)
<1> USE BotAssumption
<1>1. /\ from \in Nat /\ n \in Nat /\ n >= from /\ n <= MaxUpdates
      /\ offset \in Nat /\ confirmed \in Nat
  BY DEF Poll, From, TypeOK
<1>2. ready \in Seq(Ids) /\ len \in Nat /\ DOMAIN ready = 1 .. len
  BY DEF TypeOK
<1>0. offset <= from /\ confirmed <= from
  BY <1>1 DEF From
<1>3. \A k \in 1 .. len : ready[k] \in Ids /\ ready[k] <= from
  <2>1. \A k \in 1 .. len : ready[k] \in Ids /\ tasks[ready[k]] = "ready"
    BY <1>2 DEF Queue
  <2>2. \A k \in 1 .. len : ready[k] <= offset \/ ready[k] <= confirmed
    BY <1>1, <2>1 DEF Queue, Ids
  <2> QED
    BY <1>0, <1>1, <2>1, <2>2 DEF Ids
<1>4. batch \in Seq(Ids) /\ Len(batch) = n - from
  <2>1. \A k \in 1 .. n - from : from + k \in Ids
    BY <1>1 DEF Ids
  <2>2. batch \in [1 .. n - from -> Ids] /\ n - from \in Nat
    BY <1>1, <2>1
  <2> QED
    BY <2>2
<1>5. ready' = ready \o batch /\ DOMAIN ready' = 1 .. len + (n - from)
  <2>1. ready' = ready \o batch
    BY DEF Poll, Take, From
  <2>2. DOMAIN (ready \o batch) = 1 .. len + (n - from)
    <3> HIDE DEF batch
    <3> QED
      BY <1>2, <1>4
  <2> QED
    BY <2>1, <2>2
<1>6. \A k \in 1 .. len : ready'[k] = ready[k]
  <2> HIDE DEF batch
  <2> QED
    BY <1>2, <1>4, <1>5
<1>7. \A k \in len + 1 .. len + (n - from) : ready'[k] = from + (k - len)
  <2>1. \A k \in len + 1 .. len + (n - from) : ready'[k] = batch[k - len]
    <3> HIDE DEF batch
    <3> QED
      BY <1>2, <1>4, <1>5, Appended
  <2>2. \A k \in len + 1 .. len + (n - from) : k - len \in 1 .. n - from
    BY <1>1, <1>2
  <2> QED
    BY <2>1, <2>2
<1>8. tasks' = [i \in Ids |-> IF i \in from + 1 .. n THEN "ready" ELSE tasks[i]]
  BY DEF Poll, Take, From
<1>9. confirmed' = from /\ offset' = IF n > from THEN n ELSE offset
  BY DEF Poll, From
<1> QED
  BY <1>0, <1>1, <1>2, <1>3, <1>5, <1>6, <1>7, <1>8, <1>9

LEMMA PollQueue ==
    ASSUME TypeOK, Queue, NEW n \in 0 .. MaxUpdates, Poll(n)
    PROVE  Queue'
<1> DEFINE from == From
           len == Len(ready)
<1> USE BotAssumption
<1>1. from \in Nat /\ n \in Nat /\ n >= from /\ offset <= from /\ confirmed <= from
  BY PollReady
<1>2. len \in Nat /\ DOMAIN ready = 1 .. len
  BY PollReady
<1>3. \A k \in 1 .. len : ready[k] \in Ids /\ ready[k] <= from
  BY PollReady
<1>5. DOMAIN ready' = 1 .. len + (n - from)
  BY PollReady
<1>6. \A k \in 1 .. len : ready'[k] = ready[k]
  BY PollReady
<1>7. \A k \in len + 1 .. len + (n - from) : ready'[k] = from + (k - len)
  BY PollReady
<1>8. tasks' = [i \in Ids |-> IF i \in from + 1 .. n THEN "ready" ELSE tasks[i]]
  BY PollReady
<1>9. ASSUME NEW k \in DOMAIN ready'
      PROVE  tasks'[ready'[k]] = "ready"
  <2>1. CASE k \in 1 .. len
    <3>1. ready'[k] = ready[k] /\ ready[k] \in Ids /\ ready[k] \notin from + 1 .. n
      BY <1>1, <1>3, <1>6, <2>1 DEF Ids
    <3> QED
      BY <1>2, <1>8, <2>1, <3>1 DEF Queue
  <2>2. CASE k \in len + 1 .. len + (n - from)
    <3>1. ready'[k] \in from + 1 .. n /\ ready'[k] \in Ids
      BY <1>1, <1>2, <1>7, <2>2 DEF Ids
    <3> QED
      BY <1>8, <3>1
  <2> QED
    BY <1>1, <1>2, <1>5, <2>1, <2>2
<1>10. ASSUME NEW k \in DOMAIN ready', NEW l \in DOMAIN ready', ready'[k] = ready'[l]
       PROVE  k = l
  <2>1. k \in 1 .. len \/ k \in len + 1 .. len + (n - from)
    BY <1>1, <1>2, <1>5
  <2>2. l \in 1 .. len \/ l \in len + 1 .. len + (n - from)
    BY <1>1, <1>2, <1>5
  <2>3. CASE k \in 1 .. len /\ l \in 1 .. len
    BY <1>2, <1>6, <1>10, <2>3 DEF Queue
  <2>4. CASE k \in 1 .. len /\ l \in len + 1 .. len + (n - from)
    <3>1. ready'[k] \in Ids /\ ready'[k] <= from
      BY <1>3, <1>6, <2>4
    <3>2. ready'[l] = from + (l - len) /\ l > len
      BY <1>2, <1>7, <2>4
    <3> QED
      BY <1>1, <1>2, <1>10, <2>4, <3>1, <3>2 DEF Ids
  <2>5. CASE k \in len + 1 .. len + (n - from) /\ l \in 1 .. len
    <3>1. ready'[l] \in Ids /\ ready'[l] <= from
      BY <1>3, <1>6, <2>5
    <3>2. ready'[k] = from + (k - len) /\ k > len
      BY <1>2, <1>7, <2>5
    <3> QED
      BY <1>1, <1>2, <1>10, <2>5, <3>1, <3>2 DEF Ids
  <2>6. CASE k \in len + 1 .. len + (n - from) /\ l \in len + 1 .. len + (n - from)
    BY <1>1, <1>2, <1>7, <1>10, <2>6
  <2> QED
    BY <2>1, <2>2, <2>3, <2>4, <2>5, <2>6
<1>11. ASSUME NEW i \in Ids, i > offset', i > confirmed'
       PROVE  tasks'[i] = "none"
  <2>1. confirmed' = from /\ (n > from => offset' = n)
    BY PollReady
  <2>2. i > from /\ i \notin from + 1 .. n
    BY <1>1, <1>11, <2>1 DEF Ids
  <2>3. offset \in Nat /\ confirmed \in Nat
    BY DEF TypeOK
  <2>4. tasks[i] = "none"
    BY <1>1, <2>2, <2>3 DEF Queue, Ids
  <2> QED
    BY <1>8, <2>2, <2>4
<1> QED
  BY <1>9, <1>10, <1>11 DEF Queue

\* A task that has its turn is not running, and waits no longer.
LEMMA TurnQueue ==
    ASSUME TypeOK, Queue, NEW i \in Ids, Turn(i)
    PROVE  Queue' /\ tasks[i] \in {"ready", "notice"} /\ tasks'[i] # "ready"
           /\ tasks' = [tasks EXCEPT ![i] = tasks'[i]]
<1>1. \/ Goes(i, "notice") \/ Goes(i, "done") \/ Goes(i, "running")
  BY DEF Turn, Acts, Quiet, Armed, Dropped, Fired, Aside, Guarded
<1>2. tasks' = [tasks EXCEPT ![i] = tasks'[i]] /\ tasks'[i] \in {"notice", "done", "running"}
  BY <1>1 DEF Goes, TypeOK, TaskState
<1>3. ready \in Seq(Ids) /\ DOMAIN ready = 1 .. Len(ready) /\ Len(ready) \in Nat
  BY DEF TypeOK
<1>4. UNCHANGED <<offset, confirmed>>
  BY DEF Turn, transport
<1>5. ASSUME tasks[i] # "none"
      PROVE  \A j \in Ids : j > offset' /\ j > confirmed' => tasks'[j] = "none"
  BY <1>2, <1>4, <1>5 DEF Queue, TypeOK
<1>6. CASE ready # << >> /\ i = Head(ready) /\ ready' = Tail(ready)
  <2>1. Len(ready) >= 1 /\ i = ready[1]
    BY <1>3, <1>6
  <2>2. tasks[i] = "ready"
    BY <1>3, <2>1 DEF Queue
  <2>3. DOMAIN ready' = 1 .. Len(ready) - 1 /\ \A k \in 1 .. Len(ready) - 1 : ready'[k] = ready[k + 1]
    BY <1>3, <1>6, <2>1
  <2>4. ASSUME NEW k \in 1 .. Len(ready) - 1
        PROVE  k + 1 \in 1 .. Len(ready) /\ ready[k + 1] # i /\ ready[k + 1] \in Ids
    <3>1. k + 1 \in 1 .. Len(ready) /\ 1 \in 1 .. Len(ready) /\ k + 1 # 1
      BY <1>3, <2>1
    <3> QED
      BY <1>3, <2>1, <3>1 DEF Queue
  <2>5. \A k \in DOMAIN ready' : tasks'[ready'[k]] = "ready"
    <3>1. SUFFICES ASSUME NEW k \in 1 .. Len(ready) - 1
                   PROVE  tasks'[ready[k + 1]] = "ready"
      BY <2>3
    <3>2. tasks[ready[k + 1]] = "ready"
      BY <1>3, <2>4 DEF Queue
    <3>3. tasks'[ready[k + 1]] = tasks[ready[k + 1]]
      BY <1>2, <2>4 DEF TypeOK
    <3> QED
      BY <3>2, <3>3
  <2>6. \A k, l \in DOMAIN ready' : ready'[k] = ready'[l] => k = l
    <3>1. SUFFICES ASSUME NEW k \in DOMAIN ready', NEW l \in DOMAIN ready', ready'[k] = ready'[l]
                   PROVE  k = l
      OBVIOUS
    <3>2. ready[k + 1] = ready[l + 1] /\ k + 1 \in DOMAIN ready /\ l + 1 \in DOMAIN ready
      BY <1>3, <2>3, <2>4, <3>1
    <3>3. k + 1 = l + 1
      BY <3>2 DEF Queue
    <3> QED
      BY <1>3, <2>3, <3>3
  <2> QED
    BY <1>2, <1>5, <2>2, <2>5, <2>6 DEF Queue
<1>7. CASE tasks[i] = "notice" /\ UNCHANGED ready
  <2>1. \A k \in DOMAIN ready : ready[k] # i
    BY <1>7 DEF Queue
  <2>2. \A k \in DOMAIN ready' : tasks'[ready'[k]] = "ready"
    BY <1>2, <1>3, <1>7, <2>1 DEF Queue, TypeOK
  <2>3. \A k, l \in DOMAIN ready' : ready'[k] = ready'[l] => k = l
    BY <1>7 DEF Queue
  <2> QED
    BY <1>2, <1>5, <1>7, <2>2, <2>3 DEF Queue
<1> QED
  BY <1>6, <1>7 DEF Turn

LEMMA QueueStep == TypeOK /\ Queue /\ [Next]_vars => Queue'
<1> SUFFICES ASSUME TypeOK, Queue, [Next]_vars
             PROVE  Queue'
  OBVIOUS
<1>1. ASSUME NEW input \in Input, Send(input)
      PROVE  Queue'
  BY <1>1 DEF Send, Queue
<1>2. CASE Pass
  BY <1>2 DEF Pass, Queue, transport
<1>3. ASSUME NEW i \in Ids, Finish(i)
      PROVE  Queue'
  <2>1. \A k \in DOMAIN ready : ready[k] # i
    BY <1>3 DEF Finish, Queue
  <2>2. /\ UNCHANGED <<ready, offset, confirmed>>
        /\ tasks' = [tasks EXCEPT ![i] = "done"]
        /\ tasks[i] = "running"
    BY <1>3 DEF Finish, Goes, transport
  <2>3. ready \in Seq(Ids) /\ DOMAIN ready = 1 .. Len(ready) /\ tasks \in [Ids -> TaskState]
    BY DEF TypeOK, TaskState
  <2>4. \A k \in DOMAIN ready : tasks'[ready[k]] = "ready"
    BY <2>1, <2>2, <2>3 DEF Queue
  <2>5. \A j \in Ids : j > offset /\ j > confirmed => tasks'[j] = "none"
    BY <2>2, <2>3 DEF Queue
  <2> QED
    BY <2>2, <2>4, <2>5 DEF Queue
<1>4. CASE Crash
  <2>1. ready' = << >> /\ confirmed' = confirmed
    BY <1>4 DEF Crash
  <2>2. \A i \in Ids : i > confirmed => tasks'[i] = "none"
    BY <1>4 DEF Crash
  <2> QED
    BY <2>1, <2>2 DEF Queue
<1>5. CASE UNCHANGED vars
  BY <1>5 DEF vars, Queue, transport
<1> QED
  BY <1>1, <1>2, <1>3, <1>4, <1>5, PollQueue, TurnQueue, StepCases

LEMMA QueueCorrect == Spec => []Queue
<1>1. Init => Queue
  BY DEF Init, Queue
<1> QED
  BY <1>1, QueueStep, BotTypes, PTL DEF Spec


------------------------------------------------------------------------------
(***************************************************************************)
(* The busy flag.                                                          *)
(***************************************************************************)
\* A task that has its turn was not running; of those that are it leaves all.
LEMMA TurnHolding ==
    ASSUME TypeOK, Queue, Flag, NEW i \in Ids, Turn(i)
    PROVE  Flag'
<1>1. /\ tasks[i] \in {"ready", "notice"}
      /\ tasks' = [tasks EXCEPT ![i] = tasks'[i]]
      /\ updates' = updates
  BY TurnQueue DEF Turn, transport
<1>2. tasks \in [Ids -> TaskState] /\ busy \in BOOLEAN
  BY DEF TypeOK, TaskState
<1>3. ~Holding(i) /\ \A j \in Ids : j # i => (Holding(j)' <=> Holding(j))
  BY <1>1, <1>2 DEF Holding
<1>4. CASE ~Holding(i)' /\ busy' = busy
  BY <1>3, <1>4 DEF Flag
<1>5. CASE Holding(i)' /\ ~busy /\ busy'
  <2>1. \A j \in Ids : ~Holding(j)
    BY <1>5 DEF Flag
  <2> QED
    BY <1>3, <1>5, <2>1 DEF Flag
<1>6. CASE Goes(i, "notice") /\ UNCHANGED desk
  BY <1>1, <1>2, <1>4, <1>6 DEF Goes, Holding, desk
<1>7. CASE Quiet(i) \/ Armed(i) \/ Dropped(i) \/ Aside(i)
  BY <1>1, <1>2, <1>4, <1>7 DEF Quiet, Armed, Dropped, Aside, Goes, Holding, desk
<1>8. CASE Fired(i) \/ Guarded(i)
  BY <1>1, <1>2, <1>5, <1>8 DEF Fired, Guarded, Goes, Holding
<1> QED
  BY <1>6, <1>7, <1>8 DEF Turn, Acts

LEMMA FlagStep == TypeOK /\ Queue /\ Flag /\ [Next]_vars => Flag'
<1> SUFFICES ASSUME TypeOK, Queue, Flag, [Next]_vars
             PROVE  Flag'
  OBVIOUS
<1> USE BotAssumption
<1>1. tasks \in [Ids -> TaskState] /\ busy \in BOOLEAN
  BY DEF TypeOK, TaskState
<1>2. ASSUME busy' = busy, \A i \in Ids : Holding(i)' <=> Holding(i)
      PROVE  Flag'
  BY <1>2 DEF Flag
<1>3. ASSUME NEW input \in Input, Send(input)
      PROVE  Flag'
  <2>1. updates \in Seq(Update) /\ Len(updates) \in Nat
    BY DEF TypeOK, Update
  <2>2. \A i \in 1 .. Len(updates) : updates'[i] = updates[i]
    BY <1>3, <2>1 DEF Send
  <2>3. ASSUME NEW i \in Ids
        PROVE  Holding(i)' <=> Holding(i)
    BY <1>3, <2>2, Taken DEF Send, Holding
  <2> QED
    BY <1>2, <1>3, <2>3 DEF Send, desk
<1>4. CASE Pass
  BY <1>2, <1>4 DEF Pass, Holding, transport, desk
<1>5. ASSUME NEW n \in 0 .. MaxUpdates, Poll(n)
      PROVE  Flag'
  <2> DEFINE from == IF offset > confirmed THEN offset ELSE confirmed
  <2>1. tasks' = [i \in Ids |-> IF i \in from + 1 .. n THEN "ready" ELSE tasks[i]]
    BY <1>5 DEF Poll, Take
  <2>2. \A i \in from + 1 .. n : i \in Ids => tasks[i] = "none"
    BY <1>5 DEF Poll, Queue, TypeOK
  <2>3. ASSUME NEW i \in Ids
        PROVE  Holding(i)' <=> Holding(i)
    BY <1>5, <2>1, <2>2 DEF Poll, Take, Holding
  <2> QED
    BY <1>2, <1>5, <2>3 DEF Poll, Take, desk
<1>6. ASSUME NEW i \in Ids, Finish(i)
      PROVE  Flag'
  <2>1. /\ tasks' = [tasks EXCEPT ![i] = "done"] /\ tasks[i] = "running" /\ updates' = updates
        /\ busy' = (busy /\ updates[i].input.text \notin {"confirm", "stale guard"})
    BY <1>6 DEF Finish, Goes, transport
  <2>2. ~Holding(i)' /\ \A j \in Ids : j # i => (Holding(j)' <=> Holding(j))
    BY <1>1, <2>1 DEF Holding
  <2>3. CASE Holding(i)
    <3>1. \A j \in Ids : ~Holding(j)'
      BY <2>2, <2>3 DEF Flag
    <3>2. busy' = FALSE
      BY <1>1, <2>1, <2>3 DEF Holding
    <3> QED
      BY <3>1, <3>2 DEF Flag
  <2>4. CASE ~Holding(i)
    <3>1. busy' = busy
      BY <1>1, <2>1, <2>4 DEF Holding
    <3> QED
      BY <1>2, <2>2, <2>4, <3>1
  <2> QED
    BY <2>3, <2>4
<1>7. CASE Crash
  <2>1. busy' = FALSE /\ \A i \in Ids : tasks'[i] # "running"
    BY <1>7 DEF Crash
  <2> QED
    BY <2>1 DEF Flag, Holding
<1>8. CASE UNCHANGED vars
  BY <1>2, <1>8 DEF vars, Holding, transport, desk
<1> QED
  BY <1>3, <1>4, <1>5, <1>6, <1>7, <1>8, TurnHolding, StepCases

\* Confirmed actions and stale guards run one at a time, and the flag is up
\* exactly while one does, whatever the tasks' notices let pass in between.
THEOREM OneAtATime == Spec => []OneActionAtATime
<1>1. Init => Flag
  BY DEF Init, Flag, Holding
<1>2. Flag => OneActionAtATime
  <2> SUFFICES ASSUME Flag
               PROVE  OneActionAtATime
    OBVIOUS
  <2>1. Running = {i \in Ids : Holding(i)}
    BY DEF Running, Holding
  <2>2. CASE Running = {}
    BY <2>1, <2>2, FS_EmptySet DEF OneActionAtATime, Flag
  <2>3. CASE Running # {}
    <3>1. PICK i \in Ids : Holding(i)
      BY <2>1, <2>3
    <3>2. Running = {i}
      BY <2>1, <3>1 DEF Flag
    <3>3. Cardinality(Running) = 1
      BY <3>2, FS_Singleton
    <3> QED
      BY <2>3, <3>1, <3>3 DEF OneActionAtATime, Flag
  <2> QED
    BY <2>2, <2>3
<1> QED
  BY <1>1, <1>2, FlagStep, QueueCorrect, BotTypes, PTL DEF Spec

------------------------------------------------------------------------------
(***************************************************************************)
(* The age of messages.  What was taken has a task, and the task of a      *)
(* message carries its date.                                               *)
(***************************************************************************)
Fresh ==
    /\ \A i \in Ids : i <= offset \/ i <= confirmed => tasks[i] # "none"
    /\ Dated
    /\ \A k \in DOMAIN journal :
        journal[k].what \in {"arm", "run"} => journal[k].by \in 1 .. Len(updates)
    /\ NeverActsOnOldMessages

\* The journal gets one more entry; if it arms or runs, it is of an update
\* that is not too old or is a tap.
LEMMA NoteFresh ==
    ASSUME TypeOK, Fresh, updates' = updates, NEW what, NEW action, NEW i, Note(what, action, i),
           what \in {"arm", "run"} =>
               /\ i \in 1 .. Len(updates)
               /\ updates[i].input.button \/ ~(now - updates[i].sent > StaleAfter)
    PROVE  /\ \A k \in DOMAIN journal' :
                journal'[k].what \in {"arm", "run"} => journal'[k].by \in 1 .. Len(updates')
           /\ NeverActsOnOldMessages'
<1> DEFINE n == Len(journal)
<1>1. /\ n \in Nat /\ DOMAIN journal = 1 .. n /\ DOMAIN journal' = 1 .. n + 1
      /\ \A k \in 1 .. n : journal'[k] = journal[k]
      /\ journal'[n + 1] = [what |-> what, action |-> action, by |-> i, chat |-> ChatOf(i), at |-> now]
  BY NoteAppends
<1>2. ASSUME NEW k \in 1 .. n + 1
      PROVE  /\ journal'[k].what \in {"arm", "run"} => journal'[k].by \in 1 .. Len(updates)
             /\ OldEntry(k)' => updates[journal'[k].by].input.button
  <2>1. CASE k = n + 1
    <3>1. journal'[k].what = what /\ journal'[k].by = i /\ journal'[k].at = now
      BY <1>1, <2>1
    <3> QED
      BY <3>1 DEF OldEntry
  <2>2. CASE k \in 1 .. n
    <3>1. journal'[k] = journal[k] /\ k \in DOMAIN journal
      BY <1>1, <2>2
    <3>2. OldEntry(k)' <=> OldEntry(k)
      BY <3>1 DEF OldEntry
    <3> QED
      BY <3>1, <3>2 DEF Fresh, NeverActsOnOldMessages
  <2> QED
    BY <1>1, <2>1, <2>2
<1> QED
  BY <1>1, <1>2 DEF NeverActsOnOldMessages

LEMMA FreshStep == TypeOK /\ Queue /\ Fresh /\ [Next]_vars => Fresh'
<1> SUFFICES ASSUME TypeOK, Queue, Fresh, [Next]_vars
             PROVE  Fresh'
  OBVIOUS
<1> USE BotAssumption
<1> DEFINE Signed == \A k \in DOMAIN journal :
               journal[k].what \in {"arm", "run"} => journal[k].by \in 1 .. Len(updates)
<1>1. tasks \in [Ids -> TaskState] /\ offset \in Nat /\ confirmed \in Nat
  BY DEF TypeOK
<1>3. ASSUME NEW input \in Input, Send(input)
      PROVE  Fresh'
  <2>1. updates \in Seq(Update) /\ Len(updates) \in Nat
    BY DEF TypeOK, Update
  <2>2. Len(updates') = Len(updates) + 1 /\ \A i \in 1 .. Len(updates) : updates'[i] = updates[i]
    BY <1>3, <2>1 DEF Send
  <2>3. UNCHANGED <<offset, confirmed, tasks, seen, journal>>
    BY <1>3 DEF Send, desk
  <2>4. Dated'
    BY <2>2, <2>3, Taken DEF Fresh, Dated
  <2>5. \A k \in DOMAIN journal : OldEntry(k)' => OldEntry(k)
                                  /\ updates'[journal[k].by] = updates[journal[k].by]
    BY <2>2, <2>3 DEF Fresh, OldEntry
  <2>6. NeverActsOnOldMessages'
    BY <2>3, <2>5 DEF Fresh, NeverActsOnOldMessages
  <2>7. Signed'
    BY <2>1, <2>2, <2>3 DEF Fresh
  <2> QED
    BY <2>3, <2>4, <2>6, <2>7 DEF Fresh
<1>4. ASSUME NEW n \in 0 .. MaxUpdates, Poll(n)
      PROVE  Fresh'
  <2> DEFINE from == IF offset > confirmed THEN offset ELSE confirmed
  <2>1. /\ tasks' = [i \in Ids |-> IF i \in from + 1 .. n THEN "ready" ELSE tasks[i]]
        /\ seen' = [i \in Ids |-> IF i \notin from + 1 .. n THEN seen[i]
                                  ELSE IF updates[i].input.button THEN now ELSE updates[i].sent]
        /\ updates' = updates /\ journal' = journal
        /\ confirmed' = from /\ offset' = IF n > from THEN n ELSE offset
    BY <1>4 DEF Poll, Take, desk
  <2>2. Dated'
    BY <2>1 DEF Fresh, Dated
  <2>3. ASSUME NEW i \in Ids, i <= offset' \/ i <= confirmed'
        PROVE  tasks'[i] # "none"
    BY <1>1, <2>1, <2>3 DEF Fresh, Ids
  <2>4. Signed' /\ NeverActsOnOldMessages'
    BY <2>1 DEF Fresh, NeverActsOnOldMessages, OldEntry
  <2> QED
    BY <2>2, <2>3, <2>4 DEF Fresh
<1>5. ASSUME NEW i \in Ids, tasks[i] # "none", NEW where \in TaskState \ {"none"}, Goes(i, where),
             UNCHANGED <<updates, offset, confirmed, seen>>
      PROVE  /\ \A j \in Ids : j <= offset' \/ j <= confirmed' => tasks'[j] # "none"
             /\ Dated'
  BY <1>1, <1>5 DEF Goes, Fresh, Dated
<1>6. ASSUME NEW i \in Ids, Turn(i)
      PROVE  Fresh'
  <2>1. tasks[i] \in {"ready", "notice"} /\ UNCHANGED <<updates, offset, confirmed, seen>>
    BY <1>6, TurnQueue DEF Turn, transport
  <2>2. Goes(i, "notice") \/ Goes(i, "done") \/ Goes(i, "running")
    BY <1>6 DEF Turn, Acts, Quiet, Armed, Dropped, Fired, Aside, Guarded
  <2>3. /\ \A j \in Ids : j <= offset' \/ j <= confirmed' => tasks'[j] # "none"
        /\ Dated'
    BY <1>5, <2>1, <2>2 DEF TaskState
  <2>4. i \in 1 .. Len(updates) /\ (updates[i].input.button \/ seen[i] = updates[i].sent)
    BY <2>1, Taken DEF Fresh, Dated
  <2>5. CASE UNCHANGED journal
    BY <2>1, <2>3, <2>5 DEF Fresh, NeverActsOnOldMessages, OldEntry
  <2>6. CASE Armed(i)
    <3>1. PICK action \in Armable : Note("arm", action, i)
      BY <2>6 DEF Armed
    <3>2. Signed' /\ NeverActsOnOldMessages'
      BY <2>1, <2>4, <2>6, <3>1, NoteFresh DEF Armed, Stale
    <3> QED
      BY <2>3, <3>2 DEF Fresh
  <2>7. CASE Dropped(i)
    <3>1. Signed' /\ NeverActsOnOldMessages'
      BY <2>1, <2>7, NoteFresh DEF Dropped
    <3> QED
      BY <2>3, <3>1 DEF Fresh
  <2>8. CASE Fired(i)
    <3>1. Signed' /\ NeverActsOnOldMessages'
      BY <2>1, <2>4, <2>8, NoteFresh DEF Fired, Stale
    <3> QED
      BY <2>3, <3>1 DEF Fresh
  <2> QED
    BY <1>6, <2>5, <2>6, <2>7, <2>8 DEF Turn, Acts, Quiet, Aside, Guarded, desk
<1>7. ASSUME NEW i \in Ids, Finish(i)
      PROVE  Fresh'
  <2>1. tasks[i] = "running" /\ Goes(i, "done") /\ UNCHANGED <<updates, offset, confirmed, seen, journal>>
    BY <1>7 DEF Finish, transport
  <2>2. /\ \A j \in Ids : j <= offset' \/ j <= confirmed' => tasks'[j] # "none"
        /\ Dated'
    BY <1>5, <2>1 DEF TaskState
  <2> QED
    BY <2>1, <2>2 DEF Fresh, NeverActsOnOldMessages, OldEntry
<1>8. CASE Crash
  <2>1. /\ offset' = 0 /\ UNCHANGED <<updates, confirmed, seen>>
        /\ tasks' = [i \in Ids |-> IF i > confirmed THEN "none"
                                   ELSE IF tasks[i] = "done" THEN "done" ELSE "lost"]
        /\ Note("restart", "none", 0)
    BY <1>8 DEF Crash
  <2>2. \A j \in Ids : j <= offset' \/ j <= confirmed' => tasks'[j] # "none"
    BY <1>1, <2>1 DEF Ids
  <2>3. \A j \in Ids : tasks'[j] # "none" => tasks[j] # "none"
    BY <1>1, <2>1 DEF Fresh, Ids
  <2>4. Dated'
    BY <2>1, <2>3 DEF Fresh, Dated
  <2>5. Signed' /\ NeverActsOnOldMessages'
    BY <2>1, NoteFresh
  <2> QED
    BY <2>2, <2>4, <2>5 DEF Fresh
<1>9. CASE Pass
  BY <1>9 DEF Pass, Fresh, Dated, NeverActsOnOldMessages, OldEntry, transport, desk
<1>10. CASE UNCHANGED vars
  BY <1>10 DEF vars, Fresh, Dated, NeverActsOnOldMessages, OldEntry, transport, desk
<1> QED
  BY <1>3, <1>4, <1>6, <1>7, <1>8, <1>9, <1>10, StepCases

\* However long a task waits for its notice, it neither arms nor runs anything
\* on a message that has become too old.
THEOREM OldMessagesIgnored == Spec => []NeverActsOnOldMessages
<1>1. Init => Fresh
  BY DEF Init, Fresh, Dated, NeverActsOnOldMessages, Ids
<1>2. Fresh => NeverActsOnOldMessages
  BY DEF Fresh
<1> QED
  BY <1>1, <1>2, FreshStep, QueueCorrect, BotTypes, PTL DEF Spec

------------------------------------------------------------------------------
(***************************************************************************)
(* One life of the bot, from one start to the next.                        *)
(***************************************************************************)
SameLife(j, k) == \A m \in j .. k : journal[m].what # "restart"

\* Two entries of one life are of one chat and of two updates.
OneOwnerPerLife ==
    \A k \in DOMAIN journal : \A j \in 1 .. k - 1 : SameLife(j, k) =>
        /\ journal[j].chat = journal[k].chat
        /\ journal[j].by # journal[k].by

\* The entries of this life are its owner's, and the tasks they are of have
\* left the desk.
ThisLife ==
    \A k \in DOMAIN journal : SameLife(k, Len(journal)) =>
        /\ owner # None /\ journal[k].chat = owner
        /\ journal[k].by \in Ids /\ tasks[journal[k].by] \in {"running", "done"}

\* The owner's entry is the first of its task in this life.
LEMMA EntryKeepsLife ==
    ASSUME TypeOK, OneOwnerPerLife, ThisLife, NEW what \in {"arm", "drop", "run"}, NEW action,
           NEW i \in Ids, Note(what, action, i), owner # None, owner = ChatOf(i), owner' = owner,
           tasks[i] \in {"ready", "notice"}, Goes(i, "done") \/ Goes(i, "running")
    PROVE  OneOwnerPerLife' /\ ThisLife'
<1>1. PICK n \in Nat :
        /\ Len(journal) = n /\ DOMAIN journal = 1 .. n /\ DOMAIN journal' = 1 .. n + 1
        /\ Len(journal') = n + 1
        /\ \A k \in 1 .. n : journal'[k] = journal[k]
        /\ journal'[n + 1] = [what |-> what, action |-> action, by |-> i, chat |-> ChatOf(i), at |-> now]
  BY NoteAppends
<1>2. journal'[n + 1].by = i /\ journal'[n + 1].chat = owner
  BY <1>1
<1>3. /\ tasks' \in [Ids -> TaskState] /\ tasks'[i] \in {"running", "done"}
      /\ \A j \in Ids : j # i => tasks'[j] = tasks[j]
  BY DEF TypeOK, Goes, TaskState
<1>4. \A j, k \in 1 .. n : SameLife(j, k)' <=> SameLife(j, k)
  BY <1>1 DEF SameLife
<1>5. \A j \in 1 .. n : SameLife(j, n + 1)' => SameLife(j, n)
  BY <1>1 DEF SameLife
<1>6. ASSUME NEW j \in 1 .. n, SameLife(j, n + 1)'
      PROVE  /\ journal[j].chat = owner /\ journal[j].by \in Ids
             /\ journal[j].by # i /\ tasks[journal[j].by] \in {"running", "done"}
  <2>1. SameLife(j, n)
    BY <1>5, <1>6
  <2> QED
    BY <1>1, <2>1 DEF ThisLife
<1>7. OneOwnerPerLife'
  <2> SUFFICES ASSUME NEW k \in 1 .. n + 1, NEW j \in 1 .. k - 1, SameLife(j, k)'
               PROVE  journal'[j].chat = journal'[k].chat /\ journal'[j].by # journal'[k].by
    BY <1>1 DEF OneOwnerPerLife
  <2>1. CASE k = n + 1
    <3>1. j \in 1 .. n /\ SameLife(j, n + 1)'
      BY <1>1, <2>1
    <3> QED
      BY <1>1, <1>2, <1>6, <2>1, <3>1
  <2>2. CASE k # n + 1
    <3>1. k \in 1 .. n /\ j \in 1 .. n
      BY <1>1, <2>2
    <3> QED
      BY <1>1, <1>4, <3>1 DEF OneOwnerPerLife
  <2> QED
    BY <2>1, <2>2
<1>8. ThisLife'
  <2> SUFFICES ASSUME NEW k \in 1 .. n + 1, SameLife(k, n + 1)'
               PROVE  /\ journal'[k].chat = owner /\ journal'[k].by \in Ids
                      /\ tasks'[journal'[k].by] \in {"running", "done"}
    BY <1>1 DEF ThisLife
  <2>1. CASE k = n + 1
    BY <1>2, <1>3, <2>1
  <2>2. CASE k # n + 1
    <3>1. k \in 1 .. n
      BY <1>1, <2>2
    <3> QED
      BY <1>1, <1>3, <1>6, <3>1
  <2> QED
    BY <2>1, <2>2
<1> QED
  BY <1>7, <1>8

LEMMA LifeStep ==
    ASSUME TypeOK, Queue, OneOwnerPerLife, ThisLife, [Next]_vars
    PROVE  OneOwnerPerLife' /\ ThisLife'
<1>1. tasks \in [Ids -> TaskState]
  BY DEF TypeOK, TaskState
<1>2. ASSUME UNCHANGED journal, owner # None => owner' = owner,
             \A j \in Ids : tasks[j] \in {"running", "done"} => tasks'[j] \in {"running", "done"}
      PROVE  OneOwnerPerLife' /\ ThisLife'
  BY <1>2 DEF OneOwnerPerLife, ThisLife, SameLife
<1>3. CASE Pass \/ UNCHANGED vars \/ \E input \in Input : Send(input)
  BY <1>2, <1>3 DEF Pass, Send, vars, desk
<1>4. ASSUME NEW n \in 0 .. MaxUpdates, Poll(n)
      PROVE  OneOwnerPerLife' /\ ThisLife'
  <2> DEFINE from == IF offset > confirmed THEN offset ELSE confirmed
  <2>1. /\ tasks' = [i \in Ids |-> IF i \in from + 1 .. n THEN "ready" ELSE tasks[i]]
        /\ UNCHANGED <<journal, owner>>
    BY <1>4 DEF Poll, Take, desk
  <2>2. \A i \in from + 1 .. n : i \in Ids => tasks[i] = "none"
    BY <1>4 DEF Poll, Queue, TypeOK
  <2> QED
    BY <1>2, <2>1, <2>2
<1>5. ASSUME NEW i \in Ids, Finish(i)
      PROVE  OneOwnerPerLife' /\ ThisLife'
  BY <1>1, <1>2, <1>5 DEF Finish, Goes
<1>6. ASSUME NEW i \in Ids, Turn(i)
      PROVE  OneOwnerPerLife' /\ ThisLife'
  <2>1. tasks[i] \in {"ready", "notice"} /\ OwnerKept(i)
    BY <1>6, TurnQueue DEF Turn
  <2>2. Goes(i, "notice") \/ Goes(i, "done") \/ Goes(i, "running")
    BY <1>6 DEF Turn, Acts, Quiet, Armed, Dropped, Fired, Aside, Guarded
  <2>3. \A j \in Ids : tasks[j] \in {"running", "done"} => tasks'[j] = tasks[j]
    BY <1>1, <2>1, <2>2 DEF Goes
  <2>4. CASE UNCHANGED journal
    BY <1>2, <2>1, <2>3, <2>4 DEF OwnerKept
  <2>5. CASE Armed(i)
    BY <2>1, <2>5, EntryKeepsLife DEF Armed, OwnerKept
  <2>6. CASE Dropped(i)
    BY <2>1, <2>6, EntryKeepsLife DEF Dropped, OwnerKept
  <2>7. CASE Fired(i)
    BY <2>1, <2>7, EntryKeepsLife DEF Fired, OwnerKept
  <2> QED
    BY <1>6, <2>4, <2>5, <2>6, <2>7 DEF Turn, Acts, Quiet, Aside, Guarded, desk
<1>7. CASE Crash
  <2>1. Note("restart", "none", 0)
    BY <1>7 DEF Crash
  <2>2. PICK n \in Nat :
          /\ Len(journal) = n /\ DOMAIN journal = 1 .. n /\ DOMAIN journal' = 1 .. n + 1
          /\ Len(journal') = n + 1
          /\ \A k \in 1 .. n : journal'[k] = journal[k]
          /\ journal'[n + 1] = [what |-> "restart", action |-> "none", by |-> 0,
                                chat |-> ChatOf(0), at |-> now]
    BY <2>1, NoteAppends
  <2>3. \A k \in 1 .. n + 1 : ~SameLife(k, n + 1)'
    BY <2>2 DEF SameLife
  <2>4. \A j, k \in 1 .. n : SameLife(j, k)' <=> SameLife(j, k)
    BY <2>2 DEF SameLife
  <2>5. ASSUME NEW k \in 1 .. n + 1, NEW j \in 1 .. k - 1, SameLife(j, k)'
        PROVE  journal'[j].chat = journal'[k].chat /\ journal'[j].by # journal'[k].by
    <3>1. k \in 1 .. n /\ j \in 1 .. n
      BY <2>2, <2>3, <2>5
    <3> QED
      BY <2>2, <2>4, <2>5, <3>1 DEF OneOwnerPerLife
  <2> QED
    BY <2>2, <2>3, <2>5 DEF OneOwnerPerLife, ThisLife
<1> QED
  BY <1>3, <1>4, <1>5, <1>6, <1>7, StepCases

(* From one start of the bot to the next, everything that is armed, run or *)
(* cancelled is by one chat, its owner, whatever the others write and      *)
(* whoever knows an old secret; and no update acts twice, though its task  *)
(* waited for a notice and the update was offered by several polls.        *)
(* (bot.py:240-254, 429-527, 597-634.)                                     *)
THEOREM OneChatActsOncePerUpdate == Spec => []OneOwnerPerLife
<1>1. Init => OneOwnerPerLife /\ ThisLife
  BY DEF Init, OneOwnerPerLife, ThisLife
<1> QED
  BY <1>1, LifeStep, QueueCorrect, BotTypes, PTL DEF Spec

\* The owner is the environment's, or has sent this process its secret.
OwnerProven ==
    owner # None =>
        \/ owner \in OwnerEnv
        \/ \E i \in 1 .. Len(updates) :
              /\ updates[i].input.text = "claim" /\ updates[i].input.chat = owner
              /\ updates[i].secret = crashes

LEMMA OwnerStep == TypeOK /\ Queue /\ OwnerProven /\ [Next]_vars => OwnerProven'
<1> SUFFICES ASSUME TypeOK, Queue, OwnerProven, [Next]_vars
             PROVE  OwnerProven'
  OBVIOUS
<1>1. updates \in Seq(Update) /\ Len(updates) \in Nat /\ DOMAIN updates = 1 .. Len(updates)
  BY DEF TypeOK, Update
<1>2. CASE UNCHANGED <<owner, updates, crashes>>
  BY <1>2 DEF OwnerProven
<1>3. ASSUME NEW input \in Input, Send(input)
      PROVE  OwnerProven'
  <2>1. /\ Len(updates') = Len(updates) + 1
        /\ \A i \in 1 .. Len(updates) : updates'[i] = updates[i]
        /\ UNCHANGED <<owner, crashes>>
    BY <1>1, <1>3 DEF Send
  <2>2. \A i \in 1 .. Len(updates) : i \in 1 .. Len(updates')
    BY <1>1, <2>1
  <2> QED
    BY <2>1, <2>2 DEF OwnerProven
<1>4. ASSUME NEW i \in Ids, Turn(i)
      PROVE  OwnerProven'
  <2>1. UNCHANGED <<updates, crashes>> /\ OwnerKept(i)
    BY <1>4 DEF Turn, transport
  <2>2. i \in 1 .. Len(updates)
    BY <1>4, Taken, TurnQueue DEF Turn
  <2> QED
    BY <1>1, <1>2, <2>1, <2>2 DEF OwnerKept, OwnerProven, ChatOf
<1>5. CASE Crash
  BY <1>5 DEF Crash, OwnerProven
<1>6. CASE \/ Pass \/ UNCHANGED vars \/ (\E i \in Ids : Finish(i))
           \/ \E n \in 0 .. MaxUpdates : Poll(n)
  BY <1>2, <1>6 DEF Pass, vars, Finish, Poll, Take, transport
<1> QED
  BY <1>3, <1>4, <1>5, <1>6, StepCases

(* Whoever the bot obeys was named by its environment or has sent the      *)
(* secret that the process now running has printed: a /start that was sent *)
(* before a restart and is handed out after it claims nothing.             *)
(* (bot.py:229-252.)                                                       *)
THEOREM OwnersAreProven == Spec => []OwnerProven
<1>1. Init => OwnerProven
  BY DEF Init, OwnerProven
<1> QED
  BY <1>1, OwnerStep, QueueCorrect, BotTypes, PTL DEF Spec

------------------------------------------------------------------------------
(***************************************************************************)
(* The order of the tasks.  The queue holds every task that waits to be    *)
(* started, the oldest update first; nothing is older than an update that  *)
(* has been started and still waits.                                       *)
(***************************************************************************)
StartsInOrder ==
    \A i, j \in Ids : i < j /\ tasks[j] # "none" =>
        /\ tasks[i] # "none"
        /\ tasks[i] = "ready" => tasks[j] = "ready"

NoTaskForgotten ==
    /\ \A i \in Ids : i <= offset \/ i <= confirmed => tasks[i] # "none"
    /\ \A i \in Ids : tasks[i] = "ready" => \E k \in DOMAIN ready : ready[k] = i

Line ==
    /\ StartsInOrder
    /\ NoTaskForgotten
    /\ \A k, l \in DOMAIN ready : k < l => ready[k] < ready[l]

LEMMA PollLine ==
    ASSUME TypeOK, Queue, Line, NEW n \in 0 .. MaxUpdates, Poll(n)
    PROVE  Line'
<1> DEFINE len == Len(ready)
<1> USE BotAssumption
<1>1. From \in Nat /\ n \in Nat /\ n >= From /\ offset <= From /\ confirmed <= From
  BY PollReady
<1>2. len \in Nat /\ DOMAIN ready = 1 .. len
  BY PollReady
<1>3. DOMAIN ready' = 1 .. len + (n - From)
  BY PollReady
<1>4. \A k \in 1 .. len : ready'[k] = ready[k] /\ ready[k] \in Ids /\ ready[k] <= From
  BY PollReady
<1>5. \A k \in len + 1 .. len + (n - From) : ready'[k] = From + (k - len)
  BY PollReady
<1>6. tasks' = [i \in Ids |-> IF i \in From + 1 .. n THEN "ready" ELSE tasks[i]]
  BY PollReady
<1>7. offset \in Nat /\ confirmed \in Nat /\ tasks \in [Ids -> TaskState]
  BY DEF TypeOK
<1>8. From = offset \/ From = confirmed
  BY DEF From
<1>9. \A i \in Ids : i <= From => tasks[i] # "none" /\ tasks'[i] = tasks[i]
  BY <1>1, <1>6, <1>8 DEF Line, NoTaskForgotten, Ids
<1>10. \A i \in Ids : i > From => tasks[i] = "none"
  BY <1>1, <1>7 DEF Queue, Ids
<1>11. \A i \in Ids : i > From => tasks'[i] = IF i <= n THEN "ready" ELSE "none"
  BY <1>1, <1>6, <1>10 DEF Ids
<1>12. ASSUME NEW i \in Ids, NEW j \in Ids, i < j, tasks'[j] # "none"
       PROVE  tasks'[i] # "none" /\ (tasks'[i] = "ready" => tasks'[j] = "ready")
  <2>1. CASE j <= From
    <3>1. i <= From
      BY <1>1, <1>12, <2>1 DEF Ids
    <3>2. tasks'[i] = tasks[i] /\ tasks'[j] = tasks[j]
      BY <1>9, <2>1, <3>1
    <3> QED
      BY <1>12, <3>2 DEF Line, StartsInOrder
  <2>2. CASE j > From
    <3>1. j <= n /\ tasks'[j] = "ready"
      BY <1>11, <1>12, <2>2
    <3>2. i <= n
      BY <1>1, <1>12, <3>1 DEF Ids
    <3>3. tasks'[i] # "none"
      BY <1>1, <1>9, <1>11, <3>2 DEF Ids
    <3> QED
      BY <3>1, <3>3
  <2> QED
    BY <1>1, <2>1, <2>2 DEF Ids
<1>13. ASSUME NEW i \in Ids, i <= offset' \/ i <= confirmed'
       PROVE  tasks'[i] # "none"
  <2>1. confirmed' = From /\ offset' = IF n > From THEN n ELSE offset
    BY PollReady
  <2>2. i <= n
    BY <1>1, <1>7, <1>13, <2>1 DEF Ids
  <2> QED
    BY <1>1, <1>9, <1>11, <2>2 DEF Ids
<1>14. ASSUME NEW i \in Ids, tasks'[i] = "ready"
       PROVE  \E k \in DOMAIN ready' : ready'[k] = i
  <2>1. CASE i <= From
    <3>1. PICK k \in 1 .. len : ready[k] = i
      BY <1>2, <1>9, <1>14, <2>1 DEF Line, NoTaskForgotten
    <3>2. k \in DOMAIN ready'
      BY <1>1, <1>2, <1>3
    <3> QED
      BY <1>4, <3>1, <3>2
  <2>2. CASE i > From
    <3>1. i \in From + 1 .. n
      BY <1>1, <1>11, <1>14, <2>2 DEF Ids
    <3>2. PICK k \in len + 1 .. len + (n - From) : k - len = i - From
      <4>1. len + (i - From) \in len + 1 .. len + (n - From)
        BY <1>1, <1>2, <3>1
      <4>2. (len + (i - From)) - len = i - From
        BY <1>1, <1>2, <3>1
      <4> QED
        BY <4>1, <4>2
    <3>3. k \in DOMAIN ready'
      BY <1>2, <1>3, <3>2
    <3>4. ready'[k] = From + (i - From)
      BY <1>5, <3>2
    <3>5. From + (i - From) = i
      BY <1>1, <3>1
    <3> QED
      BY <3>3, <3>4, <3>5
  <2> QED
    BY <1>1, <2>1, <2>2 DEF Ids
<1>15. ASSUME NEW k \in DOMAIN ready', NEW l \in DOMAIN ready', k < l
       PROVE  ready'[k] < ready'[l]
  <2>1. CASE l \in 1 .. len
    <3>1. k \in 1 .. len
      BY <1>2, <1>3, <1>15, <2>1
    <3> QED
      BY <1>2, <1>4, <1>15, <2>1, <3>1 DEF Line
  <2>2. CASE k \in 1 .. len /\ l \in len + 1 .. len + (n - From)
    <3>1. ready'[k] \in Ids /\ ready'[k] <= From
      BY <1>4, <2>2
    <3>2. ready'[l] = From + (l - len) /\ l > len
      BY <1>2, <1>5, <2>2
    <3> QED
      BY <1>1, <1>2, <2>2, <3>1, <3>2 DEF Ids
  <2>3. CASE k \in len + 1 .. len + (n - From) /\ l \in len + 1 .. len + (n - From)
    BY <1>1, <1>2, <1>5, <1>15, <2>3
  <2> QED
    BY <1>1, <1>2, <1>3, <2>1, <2>2, <2>3
<1> QED
  BY <1>12, <1>13, <1>14, <1>15 DEF Line, StartsInOrder, NoTaskForgotten

\* The oldest of the queue starts; a notice is of a task that has left it.
LEMMA TurnLine ==
    ASSUME TypeOK, Queue, Line, NEW i \in Ids, Turn(i)
    PROVE  Line'
<1>1. /\ tasks[i] \in {"ready", "notice"} /\ tasks'[i] # "ready"
      /\ tasks' = [tasks EXCEPT ![i] = tasks'[i]]
  BY TurnQueue
<1>0. tasks \in [Ids -> TaskState]
  BY DEF TypeOK
<1>2. tasks'[i] # "none" /\ UNCHANGED <<offset, confirmed>>
  <2>1. Goes(i, "notice") \/ Goes(i, "done") \/ Goes(i, "running")
    BY DEF Turn, Acts, Quiet, Armed, Dropped, Fired, Aside, Guarded
  <2>2. tasks'[i] # "none"
    BY <1>0, <2>1 DEF Goes
  <2> QED
    BY <2>2 DEF Turn, transport
<1>3. \A j \in Ids : j # i => tasks'[j] = tasks[j]
  BY <1>0, <1>1
<1>4. ready \in Seq(Ids) /\ DOMAIN ready = 1 .. Len(ready) /\ Len(ready) \in Nat
  BY DEF TypeOK
<1>5. \A j \in Ids : j <= offset' \/ j <= confirmed' => tasks'[j] # "none"
  BY <1>2, <1>3 DEF Line, NoTaskForgotten
<1>6. CASE ready # << >> /\ i = Head(ready) /\ ready' = Tail(ready)
  <2>1. Len(ready) >= 1 /\ i = ready[1]
    BY <1>4, <1>6
  <2>2. /\ DOMAIN ready' = 1 .. Len(ready) - 1
        /\ \A k \in 1 .. Len(ready) - 1 : ready'[k] = ready[k + 1]
    BY <1>4, <1>6, <2>1
  <2>3. tasks[i] = "ready"
    BY <1>4, <2>1 DEF Queue
  <2>4. \A j \in Ids : tasks[j] = "ready" /\ j # i =>
            /\ i < j
            /\ \E k \in 1 .. Len(ready) - 1 : ready'[k] = j
    <3> SUFFICES ASSUME NEW j \in Ids, tasks[j] = "ready", j # i
                 PROVE  i < j /\ \E k \in 1 .. Len(ready) - 1 : ready'[k] = j
      OBVIOUS
    <3>1. PICK l \in 1 .. Len(ready) : ready[l] = j
      BY <1>4 DEF Line, NoTaskForgotten
    <3>2. l # 1 /\ 1 \in 1 .. Len(ready)
      BY <1>4, <2>1, <3>1
    <3>3. i < j
      <4>1. 1 < l
        BY <3>2
      <4> QED
        BY <1>4, <2>1, <3>1, <3>2, <4>1 DEF Line
    <3>4. l - 1 \in 1 .. Len(ready) - 1 /\ (l - 1) + 1 = l
      BY <1>4, <3>2
    <3>5. ready'[l - 1] = j
      BY <2>2, <3>1, <3>4
    <3> QED
      BY <3>3, <3>4, <3>5
  <2>5. StartsInOrder'
    <3> SUFFICES ASSUME NEW a \in Ids, NEW b \in Ids, a < b, tasks'[b] # "none"
                 PROVE  tasks'[a] # "none" /\ (tasks'[a] = "ready" => tasks'[b] = "ready")
      BY DEF StartsInOrder
    <3>1. tasks[b] # "none"
      BY <1>3, <2>3
    <3>2. tasks[a] # "none" /\ (tasks[a] = "ready" => tasks[b] = "ready")
      BY <3>1 DEF Line, StartsInOrder
    <3>3. ASSUME b = i, tasks'[a] = "ready"
          PROVE  FALSE
      <4>1. a # i /\ tasks[a] = "ready"
        BY <1>1, <1>3, <3>3
      <4>2. i < a
        BY <2>4, <4>1
      <4> QED
        BY <3>3, <4>2 DEF Ids
    <3> QED
      BY <1>1, <1>2, <1>3, <3>2, <3>3
  <2>6. NoTaskForgotten'
    BY <1>1, <1>3, <1>5, <2>2, <2>4 DEF NoTaskForgotten
  <2>7. ASSUME NEW k \in 1 .. Len(ready) - 1, NEW l \in 1 .. Len(ready) - 1, k < l
        PROVE  ready[k + 1] < ready[l + 1]
    <3>1. k + 1 \in 1 .. Len(ready) /\ l + 1 \in 1 .. Len(ready) /\ k + 1 < l + 1
      BY <1>4, <2>7
    <3> QED
      BY <1>4, <3>1 DEF Line
  <2> QED
    BY <2>2, <2>5, <2>6, <2>7 DEF Line
<1>7. CASE tasks[i] = "notice" /\ UNCHANGED ready
  <2>1. StartsInOrder'
    BY <1>1, <1>2, <1>3, <1>7 DEF Line, StartsInOrder
  <2>2. NoTaskForgotten'
    BY <1>1, <1>3, <1>5, <1>7 DEF Line, NoTaskForgotten
  <2> QED
    BY <1>7, <2>1, <2>2 DEF Line
<1> QED
  BY <1>6, <1>7 DEF Turn

LEMMA LineStep == TypeOK /\ Queue /\ Line /\ [Next]_vars => Line'
<1> SUFFICES ASSUME TypeOK, Queue, Line, [Next]_vars
             PROVE  Line'
  OBVIOUS
<1>1. CASE UNCHANGED <<tasks, ready, offset, confirmed>>
  BY <1>1 DEF Line, StartsInOrder, NoTaskForgotten
<1>2. ASSUME NEW i \in Ids, Finish(i)
      PROVE  Line'
  <2>1. tasks[i] = "running" /\ UNCHANGED <<ready, offset, confirmed>>
    BY <1>2 DEF Finish, transport
  <2>2. tasks'[i] = "done" /\ \A j \in Ids : j # i => tasks'[j] = tasks[j]
    <3>1. tasks \in [Ids -> TaskState] /\ tasks' = [tasks EXCEPT ![i] = "done"]
      BY <1>2 DEF Finish, Goes, TypeOK
    <3> QED
      BY <3>1
  <2>3. StartsInOrder'
    BY <2>1, <2>2 DEF Line, StartsInOrder
  <2>4. NoTaskForgotten'
    BY <2>1, <2>2 DEF Line, NoTaskForgotten
  <2> QED
    BY <2>1, <2>3, <2>4 DEF Line
<1>3. CASE Crash
  <2>1. ready' = << >> /\ offset' = 0 /\ confirmed' = confirmed
    BY <1>3 DEF Crash
  <2>2. confirmed \in Nat
    BY BotAssumption DEF TypeOK
  <2>3. \A i \in Ids : tasks'[i] # "ready" /\ (tasks'[i] = "none" <=> i > confirmed)
    BY <1>3 DEF Crash
  <2>4. StartsInOrder'
    BY <2>2, <2>3 DEF StartsInOrder, Ids
  <2>5. NoTaskForgotten'
    BY <2>1, <2>2, <2>3 DEF NoTaskForgotten, Ids
  <2> QED
    BY <2>1, <2>4, <2>5 DEF Line
<1>4. CASE Pass \/ UNCHANGED vars \/ \E input \in Input : Send(input)
  BY <1>1, <1>4 DEF Pass, Send, vars, transport
<1> QED
  BY <1>2, <1>3, <1>4, PollLine, TurnLine, StepCases

LEMMA LineCorrect == Spec => []Line
<1>1. Init => Line
  BY BotAssumption DEF Init, Line, StartsInOrder, NoTaskForgotten, Ids
<1> QED
  BY <1>1, LineStep, QueueCorrect, BotTypes, PTL DEF Spec

(* The loop starts the updates in the order in which Telegram numbered     *)
(* them, whatever polls they came with and however many were refused or    *)
(* lost: none starts while an older one still waits, and none is lost      *)
(* behind one that is not.                                                 *)
(* (bot.py:640-679: one task per update, in the order of the answer.)      *)
THEOREM UpdatesStartInOrder == Spec => []StartsInOrder
<1>1. Line => StartsInOrder
  BY DEF Line
<1> QED
  BY <1>1, LineCorrect, PTL

(* What the bot has taken, or Telegram has let go of, has a task, and a    *)
(* task that has not started is in the queue of the loop: no update falls  *)
(* between two polls, and none between a poll and the loop.                *)
(* (bot.py:648-679.)                                                       *)
THEOREM UpdatesAreKept == Spec => []NoTaskForgotten
<1>1. Line => NoTaskForgotten
  BY DEF Line
<1> QED
  BY <1>1, LineCorrect, PTL

\* From its start over its notice and its command to its end.
Forward(i) ==
    \/ tasks[i] = "none" /\ tasks'[i] = "ready"
    \/ tasks[i] = "ready" /\ tasks'[i] \in {"notice", "running", "done"}
    \/ tasks[i] = "notice" /\ tasks'[i] \in {"running", "done"}
    \/ tasks[i] = "running" /\ tasks'[i] = "done"

\* The restart, before Telegram was told of the update and after.
DiedOn(i) ==
    /\ crashes' = crashes + 1
    /\ \/ i > confirmed /\ tasks[i] # "none" /\ tasks'[i] = "none"
       \/ i <= confirmed /\ tasks[i] \in {"ready", "notice", "running"} /\ tasks'[i] = "lost"

TasksGoForward == [][\A i \in Ids : tasks'[i] = tasks[i] \/ Forward(i) \/ DiedOn(i)]_vars

LEMMA ForwardStep ==
    ASSUME TypeOK, Queue, Line, [Next]_vars
    PROVE  \A i \in Ids : tasks'[i] = tasks[i] \/ Forward(i) \/ DiedOn(i)
<1>0. tasks \in [Ids -> TaskState] /\ confirmed \in Nat
  BY BotAssumption DEF TypeOK
<1>1. CASE UNCHANGED tasks
  BY <1>1
<1>2. ASSUME NEW n \in 0 .. MaxUpdates, Poll(n)
      PROVE  \A i \in Ids : tasks'[i] = tasks[i] \/ Forward(i)
  <2>1. tasks' = [i \in Ids |-> IF i \in From + 1 .. n THEN "ready" ELSE tasks[i]]
    BY <1>2, PollReady
  <2>2. From \in Nat /\ n \in Nat /\ offset <= From /\ confirmed <= From /\ offset \in Nat
    BY <1>2, PollReady, BotAssumption DEF TypeOK
  <2>3. \A i \in Ids : i \in From + 1 .. n => tasks[i] = "none"
    BY <1>0, <2>2 DEF Queue, Ids
  <2> QED
    BY <2>1, <2>3 DEF Forward
<1>3. ASSUME NEW i \in Ids, Turn(i), NEW j \in Ids
      PROVE  tasks'[j] = tasks[j] \/ Forward(j)
  <2>1. tasks[i] \in {"ready", "notice"}
    BY <1>3, TurnQueue
  <2>2. Goes(i, "notice") \/ Goes(i, "done") \/ Goes(i, "running")
    BY <1>3 DEF Turn, Acts, Quiet, Armed, Dropped, Fired, Aside, Guarded
  <2>3. tasks'[i] \in {"notice", "running", "done"} /\ (j # i => tasks'[j] = tasks[j])
    BY <1>0, <2>2 DEF Goes
  <2>4. CASE tasks[i] = "ready"
    BY <2>3, <2>4 DEF Forward
  <2>5. CASE tasks[i] = "notice"
    BY <2>3, <2>5 DEF Forward
  <2> QED
    BY <2>1, <2>4, <2>5
<1>4. ASSUME NEW i \in Ids, Finish(i), NEW j \in Ids
      PROVE  tasks'[j] = tasks[j] \/ Forward(j)
  <2>1. tasks[i] = "running" /\ tasks' = [tasks EXCEPT ![i] = "done"]
    BY <1>4 DEF Finish, Goes
  <2> QED
    BY <1>0, <2>1 DEF Forward
<1>5. ASSUME Crash, NEW i \in Ids
      PROVE  tasks'[i] = tasks[i] \/ DiedOn(i)
  <2>1. /\ crashes' = crashes + 1
        /\ tasks'[i] = IF i > confirmed THEN "none"
                       ELSE IF tasks[i] = "done" THEN "done" ELSE "lost"
    BY <1>5 DEF Crash
  <2>2. CASE i > confirmed
    BY <2>1, <2>2 DEF DiedOn
  <2>3. CASE ~(i > confirmed)
    <3>1. i <= confirmed
      BY <1>0, <2>3 DEF Ids
    <3>2. tasks[i] # "none" /\ tasks[i] \in TaskState
      BY <1>0, <3>1 DEF Line, NoTaskForgotten
    <3> QED
      BY <2>1, <2>3, <3>1, <3>2 DEF DiedOn, TaskState
  <2> QED
    BY <2>2, <2>3
<1>6. Pass \/ UNCHANGED vars \/ (\E input \in Input : Send(input)) => UNCHANGED tasks
  BY DEF Pass, Send, vars
<1> QED
  BY <1>1, <1>2, <1>3, <1>4, <1>5, <1>6, StepCases

(* A task goes forward, from its start over its notice and its command to  *)
(* its end, and stops or begins anew only with a restart: an update that   *)
(* was answered is handed out and handled again only if the bot died       *)
(* before the poll that tells Telegram, and one is lost only if it died on *)
(* it after.  With the fairness of the loop this is why every update is    *)
(* answered (bot.py:597-679).                                              *)
THEOREM TasksProgress == Spec => TasksGoForward
<1>1. TypeOK /\ Queue /\ Line /\ [Next]_vars
      => [\A i \in Ids : tasks'[i] = tasks[i] \/ Forward(i) \/ DiedOn(i)]_vars
  BY ForwardStep
<1> QED
  BY <1>1, LineCorrect, QueueCorrect, BotTypes, PTL DEF Spec, TasksGoForward

==============================================================================
