-------------------------- MODULE KeeperFileProofs ---------------------------
(***************************************************************************)
(* The state files of the keeper and guard commands tell the truth about   *)
(* KeeperHub, for any number of commands that do not overlap.              *)
(***************************************************************************)
EXTENDS KeeperProofs

------------------------------------------------------------------------------
\* While no two commands that write a file overlapped, the one under way
\* knows what is in it.
Writer(c, k) == WritesFile(cmd[c].kind) /\ FileOf(cmd[c].kind) = k
Switcher(c) == cmd[c].kind \in {"keeper_deploy", "keeper_enable"}
CutShort == \E c \in Cmd : Switcher(c) /\ cmd[c].pc = "failed"

\* No run that ended was one of workflow w.
Unrun(k, w) ==
    \A c \in Cmd : cmd[c].kind \in Runs /\ Writer(c, k) /\ cmd[c].pc = "done" =>
        cmd[c].copy.id # w

Sole(k) ==
    \A c, d \in Cmd : Active(c) /\ Active(d) /\ Writer(c, k) /\ Writer(d, k) => c = d

Knows(c, k) ==
    Active(c) /\ Writer(c, k) =>
        /\ cmd[c].kind \notin Deploys => cmd[c].copy = file[k]
        /\ cmd[c].kind \in Deploys /\ cmd[c].pc = "asking" /\ answer[c] # None =>
             Unrun(k, answer[c].id)
        /\ cmd[c].kind \in Deploys /\ cmd[c].pc # "asking" =>
             /\ file[k] = Remembered(cmd[c].id, FALSE)
             /\ newest[k] = cmd[c].id
             /\ Unrun(k, cmd[c].id)

RunRemembered(c, k) ==
    cmd[c].kind \in Runs /\ Writer(c, k) /\ cmd[c].pc = "done" =>
        file[k] # None /\ (file[k].id = cmd[c].copy.id => c \in file[k].runs)

NewestRemembered(k) == newest[k] # None => file[k] # None /\ file[k].id = newest[k]

\* How far a command that switches has come; once all have ended, the file is right.
SwitchKnown(c) ==
    Active(c) /\ Switcher(c) =>
        /\ cmd[c].pc = "asking" /\ answer[c] # None => ~workflow[answer[c].id].enabled
        /\ cmd[c].pc = "validating" => ~workflow[cmd[c].id].enabled
        /\ cmd[c].pc = "enabling" /\ answer[c] # None =>
             workflow[cmd[c].id].enabled = ~cmd[c].dry
        /\ cmd[c].pc = "enabling" /\ cmd[c].kind = "keeper_deploy" => ~cmd[c].dry

SwitchTrue ==
    \/ \E c \in Cmd : Active(c) /\ Switcher(c)
    \/ file["keeper"] = None
    \/ file["keeper"].enabled = workflow[file["keeper"].id].enabled

FileInv(k) ==
    /\ Sole(k) /\ NewestRemembered(k)
    /\ \A c \in Cmd : Knows(c, k) /\ RunRemembered(c, k)
SwitchInv == ~CutShort => SwitchTrue /\ \A c \in Cmd : SwitchKnown(c)

Files ==
    /\ \A k \in FileKind \ overlapped : FileInv(k)
    /\ "keeper" \notin overlapped => SwitchInv


------------------------------------------------------------------------------
(***************************************************************************)
(* A step of one command, and what it does not disturb.                    *)
(***************************************************************************)
OthersStay(c) == \A d \in Cmd \ {c} : cmd'[d] = cmd[d] /\ answer'[d] = answer[d]

\* No other command is under way that writes the file of kind k.
Alone(c, k) == \A d \in Cmd \ {c} : Active(d) => ~Writer(d, k)

LEMMA SoleIsAlone ==
    ASSUME NEW k, NEW c \in Cmd, Sole(k), Active(c), Writer(c, k)
    PROVE  Alone(c, k)
BY DEF Sole, Alone

\* c is alone with the file.
LEMMA AloneKeeps ==
    ASSUME NEW k, NEW c \in Cmd, OthersStay(c), Alone(c, k),
           NewestRemembered(k)', Knows(c, k)', \A d \in Cmd : RunRemembered(d, k)'
    PROVE  FileInv(k)'
<1>1. \A d \in Cmd \ {c} : ~(Active(d)' /\ Writer(d, k)')
  BY DEF OthersStay, Alone, Active, Writer
<1>2. Sole(k)'
  BY <1>1 DEF Sole
<1>3. \A d \in Cmd : Knows(d, k)'
  BY <1>1 DEF Knows
<1> QED
  BY <1>2, <1>3 DEF FileInv

\* c has nothing to do with the file.
LEMMA BystanderKeeps ==
    ASSUME NEW k, NEW c \in Cmd, OthersStay(c), FileInv(k),
           ~Writer(c, k), ~Writer(c, k)', file'[k] = file[k], newest'[k] = newest[k]
    PROVE  FileInv(k)'
<1>1. \A d \in Cmd \ {c} : (Active(d)' <=> Active(d)) /\ (Writer(d, k)' <=> Writer(d, k))
  BY DEF OthersStay, Active, Writer
<1>2. \A w : Unrun(k, w) => Unrun(k, w)'
  BY <1>1 DEF Unrun, OthersStay
<1>3. Sole(k)'
  BY <1>1 DEF Sole, FileInv
<1>4. \A d \in Cmd : Knows(d, k)'
  <2> SUFFICES ASSUME NEW d \in Cmd \ {c} PROVE Knows(d, k)'
    BY DEF Knows
  <2>1. cmd'[d] = cmd[d] /\ answer'[d] = answer[d] /\ Knows(d, k)
    BY DEF OthersStay, FileInv
  <2> HIDE DEF Active, Writer, Unrun
  <2> QED
    BY <1>1, <1>2, <2>1 DEF Knows
<1>5. \A d \in Cmd : RunRemembered(d, k)'
  BY <1>1 DEF RunRemembered, OthersStay, FileInv
<1>6. NewestRemembered(k)'
  BY DEF NewestRemembered, FileInv
<1> QED
  BY <1>3, <1>4, <1>5, <1>6 DEF FileInv

\* Only an answer arrives.
LEMMA ArrivalKeeps ==
    ASSUME NEW k, NEW c \in Cmd, OthersStay(c), FileInv(k), cmd'[c] = cmd[c],
           file'[k] = file[k], newest'[k] = newest[k], Knows(c, k)'
    PROVE  FileInv(k)'
<1>1. \A d \in Cmd : cmd'[d] = cmd[d] /\ (Active(d)' <=> Active(d)) /\ (Writer(d, k)' <=> Writer(d, k))
  BY DEF OthersStay, Active, Writer
<1>2. \A w : Unrun(k, w) => Unrun(k, w)'
  BY <1>1 DEF Unrun
<1>3. Sole(k)'
  BY <1>1 DEF Sole, FileInv
<1>4. \A d \in Cmd : Knows(d, k)'
  <2> SUFFICES ASSUME NEW d \in Cmd \ {c} PROVE Knows(d, k)'
    OBVIOUS
  <2>1. cmd'[d] = cmd[d] /\ answer'[d] = answer[d] /\ Knows(d, k)
    BY DEF OthersStay, FileInv
  <2> HIDE DEF Active, Writer, Unrun
  <2> QED
    BY <1>1, <1>2, <2>1 DEF Knows
<1>5. \A d \in Cmd : RunRemembered(d, k)'
  BY <1>1 DEF RunRemembered, FileInv
<1>6. NewestRemembered(k)'
  BY DEF NewestRemembered, FileInv
<1> QED
  BY <1>3, <1>4, <1>5, <1>6 DEF FileInv

\* A command that was cut short stays so.
LEMMA CutStays ==
    ASSUME NEW c \in Cmd, OthersStay(c), cmd[c].pc = "failed" => cmd'[c] = cmd[c], CutShort
    PROVE  CutShort'
BY DEF CutShort, Switcher, OthersStay

\* c switches, and no other command does.
LEMMA AloneSwitches ==
    ASSUME NEW c \in Cmd, OthersStay(c), Alone(c, "keeper"),
           SwitchTrue', SwitchKnown(c)'
    PROVE  SwitchInv'
<1>1. \A d \in Cmd \ {c} : ~(Active(d)' /\ Switcher(d)')
  BY DEF OthersStay, Alone, Active, Writer, Switcher, WritesFile, FileOf
<1> QED
  BY <1>1 DEF SwitchInv, SwitchKnown

\* c does not switch, and what the file and KeeperHub say of switches stays.
LEMMA SwitchesStay ==
    ASSUME Types, References, NEW c \in Cmd, OthersStay(c), SwitchInv,
           cmd[c].pc = "failed" => cmd'[c] = cmd[c],
           ~Switcher(c), ~Switcher(c)',
           \A w \in Workflow : workflow[w] # None => workflow'[w].enabled = workflow[w].enabled,
           file'["keeper"] # None =>
               /\ file["keeper"] # None /\ file'["keeper"].id = file["keeper"].id
               /\ file'["keeper"].enabled = file["keeper"].enabled
    PROVE  SwitchInv'
<1> SUFFICES ASSUME ~CutShort' PROVE SwitchTrue' /\ \A d \in Cmd : SwitchKnown(d)'
  BY DEF SwitchInv
<1>1. SwitchTrue /\ \A d \in Cmd : SwitchKnown(d)
  BY CutStays DEF SwitchInv
<1>2. \A d \in Cmd : (Active(d)' /\ Switcher(d)' => d # c) /\ (Active(d) /\ Switcher(d) => d # c)
  OBVIOUS
<1>3. \A w : KnownWorkflow(w) => workflow'[w].enabled = workflow[w].enabled
  BY DEF KnownWorkflow
<1>4. SwitchTrue'
  <2>1. CASE \E d \in Cmd : Active(d) /\ Switcher(d)
    BY <1>2, <2>1 DEF SwitchTrue, OthersStay, Active, Switcher
  <2>2. CASE file["keeper"] = None
    BY <2>2 DEF SwitchTrue
  <2>3. CASE file["keeper"] # None /\ file["keeper"].enabled = workflow[file["keeper"].id].enabled
    <3>1. KnownWorkflow(file["keeper"].id)
      BY <2>3 DEF References, FilesKnown, FileKind
    <3> QED
      BY <1>3, <2>3, <3>1 DEF SwitchTrue
  <2> QED
    BY <1>1, <2>1, <2>2, <2>3 DEF SwitchTrue
<1>5. ASSUME NEW d \in Cmd \ {c} PROVE SwitchKnown(d)'
  <2>1. /\ cmd'[d] = cmd[d] /\ answer'[d] = answer[d] /\ SwitchKnown(d)
        /\ (Active(d)' <=> Active(d)) /\ (Switcher(d)' <=> Switcher(d))
    BY <1>1 DEF OthersStay, Active, Switcher
  <2>2. Active(d) /\ Switcher(d) =>
          /\ cmd[d].pc = "asking" /\ answer[d] # None => KnownWorkflow(answer[d].id)
          /\ cmd[d].pc \in {"validating", "enabling"} => KnownWorkflow(cmd[d].id)
    BY DEF References, CommandOK, Shape, Answered, Switcher, Deploys
  <2> HIDE DEF KnownWorkflow, Active, Switcher
  <2> QED
    BY <1>3, <2>1, <2>2 DEF SwitchKnown
<1> QED
  BY <1>2, <1>4, <1>5 DEF SwitchKnown


------------------------------------------------------------------------------
(***************************************************************************)
(* KeeperHub answers.                                                      *)
(***************************************************************************)
\* An exit or a run is answered: no file and no switch is concerned.
LEMMA HandleOtherFiles ==
    ASSUME Types, References, Files, NEW c \in Cmd,
           HandleExit(c) \/ HandleRun(c), UNCHANGED remote
    PROVE  Files'
<1>1. /\ cmd[c].kind \in Runs \union {"exit"} /\ UNCHANGED cmd
      /\ UNCHANGED <<workflow, file, newest, overlapped>>
  BY DEF HandleExit, HandleRun, Runs, remote
<1>2. OthersStay(c)
  BY DEF HandleExit, HandleRun, OthersStay, Answer, Types
<1>3. cmd[c].kind \notin Deploys /\ ~Switcher(c)
  BY <1>1 DEF Runs, Deploys, Switcher
<1>4. ASSUME NEW k \in FileKind \ overlapped' PROVE FileInv(k)'
  <2>1. FileInv(k) /\ Knows(c, k)
    BY <1>1, <1>4 DEF Files, FileInv
  <2>2. Knows(c, k)'
    BY <1>1, <1>3, <2>1 DEF Knows, Active, Writer
  <2> QED
    BY <1>1, <1>2, <2>1, <2>2, ArrivalKeeps
<1>5. "keeper" \notin overlapped => SwitchInv'
  BY <1>1, <1>2, <1>3, SwitchesStay DEF Files, Switcher
<1> QED
  BY <1>1, <1>4, <1>5 DEF Files

\* A workflow is created: no run that ended was one of it.
LEMMA HandleCreateFiles ==
    ASSUME Types, References, Files, NEW c \in Cmd, HandleCreate(c)
    PROVE  Files'
<1>1. PICK w \in Workflow :
        /\ workflow[w] = None /\ Answer(c, "created", w, None)
        /\ workflow' = [workflow EXCEPT ![w] = [kind |-> FileOf(cmd[c].kind), enabled |-> FALSE]]
  BY DEF HandleCreate
<1>2. UNCHANGED <<cmd, exec, log, file, newest, overlapped>> /\ cmd[c].kind \in Deploys
      /\ cmd[c].id = None /\ c \in inbox
  BY DEF HandleCreate, Deploys
<1>3. OthersStay(c) /\ (answer'[c] # None => answer'[c].id = w)
  BY <1>1, <1>2 DEF Types, Answer, OthersStay
<1>4. /\ ~workflow'[w].enabled
      /\ \A v \in Workflow : v # w => workflow'[v] = workflow[v]
  BY <1>1 DEF Types
<1>5. \A k : Unrun(k, w)'
  BY <1>1, <1>2 DEF Unrun, References, CommandOK, Shape, KnownWorkflow
<1>6. cmd[c].pc # "enabling"
  BY <1>2, NoneIsNothing DEF References, CommandOK, Shape, KnownWorkflow
<1>7. ASSUME NEW k \in FileKind \ overlapped' PROVE FileInv(k)'
  <2>1. FileInv(k) /\ Knows(c, k)
    BY <1>2, <1>7 DEF Files, FileInv
  <2>2. \A v : Unrun(k, v)' <=> Unrun(k, v)
    BY <1>2 DEF Unrun, Writer
  <2>3. Knows(c, k)'
    BY <1>2, <1>3, <1>5, <2>1, <2>2 DEF Knows, Active, Writer
  <2> QED
    BY <1>2, <1>3, <2>1, <2>3, ArrivalKeeps
<1>8. ASSUME "keeper" \notin overlapped' PROVE SwitchInv'
  <2>1. SwitchInv /\ FileInv("keeper")
    BY <1>2, <1>8 DEF Files, FileKind
  <2>2. ~Switcher(c) => SwitchInv'
    BY <1>1, <1>2, <1>3, <1>4, <2>1, SwitchesStay DEF Switcher
  <2>3. ASSUME Switcher(c), ~CutShort' PROVE SwitchInv'
    <3>1. cmd[c].pc \in {"asking", "enabling"} /\ Active(c)
      BY <1>2, <2>3 DEF CutShort, Switcher, References, CommandOK, Shape, Active
    <3>2. Alone(c, "keeper")
      BY <2>1, <2>3, <3>1, SoleIsAlone DEF FileInv, Switcher, Writer, WritesFile, FileOf
    <3>3. SwitchTrue'
      BY <1>2, <2>3, <3>1 DEF SwitchTrue, Active, Switcher
    <3>4. SwitchKnown(c)'
      BY <1>2, <1>3, <1>4, <1>6, <3>1 DEF SwitchKnown
    <3> QED
      BY <1>3, <3>2, <3>3, <3>4, AloneSwitches
  <2> QED
    BY <2>2, <2>3 DEF SwitchInv
<1> QED
  BY <1>7, <1>8 DEF Files


\* A switch is set: only the command that asks for it is concerned, or it
\* was cut short.
LEMMA HandleEnableFiles ==
    ASSUME Types, References, Files, NEW c \in Cmd, HandleEnable(c)
    PROVE  Files'
<1>1. /\ c \in inbox /\ Switcher(c) /\ UNCHANGED <<cmd, exec, log, file, newest, overlapped>>
      /\ cmd[c].kind = "keeper_deploy" => cmd[c].id # None
      /\ workflow' = [workflow EXCEPT ![cmd[c].id].enabled = ~cmd[c].dry]
  BY DEF HandleEnable, Switcher
<1>2. OthersStay(c)
  BY <1>1 DEF HandleEnable, OthersStay, Answer, Types
<1>3. cmd[c].pc \in {"enabling", "failed"} /\ KnownWorkflow(cmd[c].id)
  BY <1>1 DEF Switcher, References, CommandOK, Shape, Deploys
<1>4. workflow'[cmd[c].id].enabled = ~cmd[c].dry
  BY <1>1, <1>3 DEF Types, KnownWorkflow, Switch
<1>5. ASSUME NEW k \in FileKind \ overlapped' PROVE FileInv(k)'
  <2>1. FileInv(k) /\ Knows(c, k)
    BY <1>1, <1>5 DEF Files, FileInv
  <2>2. \A v : Unrun(k, v)' <=> Unrun(k, v)
    BY <1>1 DEF Unrun, Writer
  <2>3. Knows(c, k)'
    BY <1>1, <1>3, <2>1, <2>2 DEF Knows, Active, Writer
  <2> QED
    BY <1>1, <1>2, <2>1, <2>3, ArrivalKeeps
<1>6. ASSUME "keeper" \notin overlapped', ~CutShort' PROVE SwitchInv'
  <2>1. cmd[c].pc = "enabling" /\ Active(c)
    BY <1>1, <1>3, <1>6 DEF CutShort, Switcher, Active
  <2>2. SwitchInv /\ FileInv("keeper") /\ ~CutShort
    BY <1>1, <1>6 DEF Files, FileKind, CutShort, Switcher
  <2>3. Alone(c, "keeper")
    BY <1>1, <2>1, <2>2, SoleIsAlone DEF FileInv, Switcher, Writer, WritesFile, FileOf
  <2>4. SwitchTrue'
    BY <1>1, <2>1 DEF SwitchTrue, Active, Switcher
  <2>5. SwitchKnown(c)'
    BY <1>1, <1>4, <2>1, <2>2 DEF SwitchKnown, SwitchInv, Active, Switcher
  <2> QED
    BY <1>2, <2>3, <2>4, <2>5, AloneSwitches
<1> QED
  BY <1>5, <1>6 DEF Files, SwitchInv

------------------------------------------------------------------------------
(***************************************************************************)
(* The commands' own steps.                                                *)
(***************************************************************************)
\* An exit writes no state file.
LEMMA ExitFiles ==
    ASSUME Types, References, Files, NEW c \in Cmd,
           StartExit(c) \/ TakeExit(c) \/ SettleExit(c), UNCHANGED remote
    PROVE  Files'
<1>1. UNCHANGED <<workflow, file, newest, overlapped>> /\ OthersStay(c)
      /\ cmd[c].pc # "failed"
  BY DEF StartExit, TakeExit, SettleExit, Take, Finish, remote, OthersStay, Types
<1>2. cmd[c].kind \in {"none", "exit"}
  BY DEF StartExit, TakeExit, SettleExit, Types, Command, Kind, References, CommandOK, Shape,
         Deploys, Runs
<1>3. cmd'[c].kind = "exit"
  <2>1. cmd[c] \in Command
    BY DEF Types
  <2>2. CASE StartExit(c)
    <3>1. PICK w \in Work, dry \in BOOLEAN, n \in {shares[Wallet]} \union Expected :
            cmd' = [cmd EXCEPT ![c] = [Idle EXCEPT !.kind = "exit",
                      !.pc = "asking", !.amount = n, !.work = w, !.dry = dry]]
      BY <2>2 DEF StartExit
    <3> QED
      BY <3>1 DEF Types, Idle
  <2>3. CASE TakeExit(c) \/ SettleExit(c)
    <3>1. cmd[c].kind = "exit"
      BY <1>2, <2>3 DEF TakeExit, SettleExit, References, CommandOK, Shape
    <3> QED
      BY <2>1, <2>3, <3>1 DEF TakeExit, SettleExit, Finish, Types, Command
  <2> QED
    BY <2>2, <2>3
<1>4. ~Switcher(c) /\ ~Switcher(c)' /\ \A k : ~Writer(c, k) /\ ~Writer(c, k)'
  BY <1>2, <1>3 DEF Switcher, Writer, WritesFile
<1>5. \A k \in FileKind \ overlapped' : FileInv(k)'
  BY <1>1, <1>4, BystanderKeeps DEF Files
<1>6. "keeper" \notin overlapped' => SwitchInv'
  BY <1>1, <1>4, SwitchesStay DEF Files
<1> QED
  BY <1>5, <1>6 DEF Files

\* The command that gives up writes nothing, and its switch may be either.
LEMMA GiveUpFiles ==
    ASSUME Types, References, Files, NEW c \in Cmd, TimeOut(c) \/ Die(c), UNCHANGED remote
    PROVE  Files'
<1>1. /\ UNCHANGED <<workflow, file, newest, overlapped>> /\ OthersStay(c) /\ Active(c)
      /\ cmd' = [cmd EXCEPT ![c].pc = "failed"]
  BY DEF TimeOut, Die, Active, remote, OthersStay, Types
<1>2. /\ cmd'[c].pc = "failed" /\ cmd'[c].kind = cmd[c].kind /\ ~Active(c)'
      /\ \A k : Writer(c, k)' <=> Writer(c, k)
  BY <1>1 DEF Types, Command, Active, Writer
<1>3. ASSUME NEW k \in FileKind \ overlapped' PROVE FileInv(k)'
  <2>1. FileInv(k)
    BY <1>1, <1>3 DEF Files
  <2>2. CASE Writer(c, k)
    <3>1. Alone(c, k)
      BY <1>1, <2>1, <2>2, SoleIsAlone DEF FileInv
    <3>2. \A d \in Cmd : RunRemembered(d, k)'
      BY <1>1, <1>2, <2>1 DEF RunRemembered, OthersStay, FileInv, Writer
    <3>3. NewestRemembered(k)'
      BY <1>1, <2>1 DEF NewestRemembered, FileInv
    <3>4. Knows(c, k)'
      BY <1>2 DEF Knows
    <3> QED
      BY <1>1, <3>1, <3>2, <3>3, <3>4, AloneKeeps
  <2>3. CASE ~Writer(c, k)
    BY <1>1, <1>2, <2>1, <2>3, BystanderKeeps
  <2> QED
    BY <2>2, <2>3
<1>4. ASSUME "keeper" \notin overlapped' PROVE SwitchInv'
  <2>1. SwitchInv
    BY <1>1, <1>4 DEF Files
  <2>2. CASE Switcher(c)
    BY <1>2, <2>2 DEF SwitchInv, CutShort, Switcher
  <2>3. CASE ~Switcher(c)
    <3>1. ~Switcher(c)'
      BY <1>2, <2>3 DEF Switcher
    <3>2. cmd[c].pc # "failed"
      BY <1>1 DEF Active
    <3> QED
      BY <1>1, <2>1, <2>3, <3>1, <3>2, SwitchesStay
  <2> QED
    BY <2>2, <2>3
<1> QED
  BY <1>3, <1>4 DEF Files


\* What the writer of a file, alone, must leave behind.
LEMMA WriterKeeps ==
    ASSUME Types, References, Files, NEW c \in Cmd,
           cmd[c].kind \in Deploys \union Runs \union {"keeper_enable"},
           NEW own, own = FileOf(cmd[c].kind),
           Active(c), OthersStay(c), cmd'[c].kind = cmd[c].kind,
           UNCHANGED <<workflow, overlapped>>,
           \A k \in FileKind : k # own => file'[k] = file[k] /\ newest'[k] = newest[k],
           FileInv(own) /\ Alone(c, own) =>
               /\ NewestRemembered(own)' /\ Knows(c, own)'
               /\ \A d \in Cmd : RunRemembered(d, own)',
           Switcher(c) /\ FileInv("keeper") /\ SwitchTrue /\ SwitchKnown(c) =>
               SwitchTrue' /\ SwitchKnown(c)',
           ~Switcher(c) /\ FileInv("keeper") /\ file'["keeper"] # None =>
               /\ file["keeper"] # None /\ file'["keeper"].id = file["keeper"].id
               /\ file'["keeper"].enabled = file["keeper"].enabled
    PROVE  Files'
<1>1. \A k : (Writer(c, k) <=> k = own) /\ (Writer(c, k)' <=> k = own)
  BY DEF Writer, WritesFile, Deploys, Runs
<1>2. own \in FileKind /\ (Switcher(c) => own = "keeper")
  BY DEF FileOf, FileKind, Switcher
<1>3. ASSUME NEW k \in FileKind \ overlapped' PROVE FileInv(k)'
  <2>1. FileInv(k)
    BY <1>3 DEF Files
  <2>2. CASE k = own
    <3>1. Alone(c, k)
      BY <1>1, <2>1, <2>2, SoleIsAlone DEF FileInv
    <3> QED
      BY <2>1, <2>2, <3>1, AloneKeeps
  <2>3. CASE k # own
    <3>1. file'[k] = file[k] /\ newest'[k] = newest[k]
      BY <2>3
    <3> QED
      BY <1>1, <2>1, <2>3, <3>1, BystanderKeeps
  <2> QED
    BY <2>2, <2>3
<1>4. ASSUME "keeper" \notin overlapped', ~CutShort' PROVE SwitchInv'
  <2>1. SwitchInv /\ FileInv("keeper")
    BY <1>4 DEF Files, FileKind
  <2>2. CASE Switcher(c)
    <3>1. ~CutShort
      BY <1>4, CutStays DEF Active
    <3>2. SwitchTrue' /\ SwitchKnown(c)'
      BY <2>1, <2>2, <3>1 DEF SwitchInv
    <3>3. Alone(c, "keeper")
      BY <1>1, <1>2, <2>1, <2>2, SoleIsAlone DEF FileInv
    <3> QED
      BY <3>2, <3>3, AloneSwitches
  <2>3. CASE ~Switcher(c)
    <3>1. ~Switcher(c)'
      BY <2>3 DEF Switcher
    <3>2. cmd[c].pc # "failed"
      BY DEF Active
    <3> QED
      BY <2>1, <2>3, <3>1, <3>2, SwitchesStay
  <2> QED
    BY <2>2, <2>3
<1> QED
  BY <1>3, <1>4 DEF Files, SwitchInv

LEMMA TakeRunFiles ==
    ASSUME Types, References, Files, NEW c \in Cmd, TakeRun(c), UNCHANGED remote
    PROVE  Files'
<1>1. /\ cmd[c].kind \in Runs /\ cmd[c].pc = "asking" /\ OthersStay(c)
      /\ UNCHANGED <<workflow, file, newest, overlapped>>
      /\ cmd' = [cmd EXCEPT ![c].pc = "following", ![c].id = answer[c].id]
  BY DEF TakeRun, Runs, OthersStay, Take, Types, remote
<1>2. cmd'[c].kind = cmd[c].kind /\ cmd'[c].copy = cmd[c].copy /\ cmd'[c].pc = "following"
  BY <1>1 DEF Types, Command
<1>3. Active(c) /\ ~Switcher(c) /\ cmd[c].kind \notin Deploys
  BY <1>1 DEF Active, Switcher, Runs, Deploys
<1>4. ASSUME NEW k, FileInv(k)
      PROVE  /\ NewestRemembered(k)' /\ Knows(c, k)' /\ \A d \in Cmd : RunRemembered(d, k)'
  <2>1. \A d \in Cmd : RunRemembered(d, k)'
    BY <1>1, <1>2, <1>4 DEF RunRemembered, OthersStay, FileInv, Writer
  <2>2. NewestRemembered(k)'
    BY <1>1, <1>4 DEF NewestRemembered, FileInv
  <2>3. Knows(c, k)'
    BY <1>1, <1>2, <1>3, <1>4 DEF Knows, FileInv, Writer
  <2> QED
    BY <2>1, <2>2, <2>3
<1> QED
  BY <1>1, <1>2, <1>3, <1>4, WriterKeeps


\* The file after a command wrote it.
LEMMA Written ==
    ASSUME Types, NEW c \in Cmd, NEW s, Write(c, s)
    PROVE  /\ file'[FileOf(cmd[c].kind)] = s
           /\ \A k \in FileKind : k # FileOf(cmd[c].kind) => file'[k] = file[k]
<1>1. FileOf(cmd[c].kind) \in FileKind
  BY DEF FileOf, FileKind
<1> QED
  BY <1>1 DEF Types, Write

\* The id is remembered: no run that ended was one of it.
LEMMA TakeCreatedFiles ==
    ASSUME Types, References, Files, NEW c \in Cmd, TakeCreated(c)
    PROVE  Files'
<1> PICK own, w : own = FileOf(cmd[c].kind) /\ w = answer[c].id
  OBVIOUS
<1>1. /\ cmd[c].kind \in Deploys /\ cmd[c].pc = "asking" /\ answer[c] # None
      /\ answer' = [answer EXCEPT ![c] = None]
      /\ cmd' = [cmd EXCEPT ![c].pc = "validating", ![c].id = w]
      /\ newest' = [newest EXCEPT ![own] = w] /\ Write(c, Remembered(w, FALSE))
      /\ UNCHANGED <<workflow, overlapped>>
  BY DEF TakeCreated, TakeCreatedWith, Take, Deploys
<1>2. cmd'[c].kind = cmd[c].kind /\ cmd'[c].id = w /\ cmd'[c].pc = "validating"
  BY <1>1 DEF Types, Command
<1>3. OthersStay(c) /\ Active(c) /\ own \in FileKind /\ answer'[c] = None
  BY <1>1 DEF OthersStay, Active, FileOf, FileKind, Types
<1>4. /\ file'[own] = Remembered(w, FALSE) /\ newest'[own] = w
      /\ \A k \in FileKind : k # own => file'[k] = file[k] /\ newest'[k] = newest[k]
  BY <1>1, <1>3, Written DEF Types
<1>5. file'[own] # None /\ file'[own].id = w /\ w \in Workflow
  <2>1. w \in Workflow
    BY <1>1 DEF References, CommandOK, Answered, KnownWorkflow
  <2> QED
    BY <1>4, <2>1, RememberedState, NoneIsNothing
<1>6. Switcher(c) => own = "keeper"
  BY DEF Switcher, FileOf
<1>7. ~Switcher(c) => own # "keeper"
  BY <1>1 DEF Switcher, FileOf, Deploys
<1>8. ASSUME FileInv(own)
      PROVE  /\ NewestRemembered(own)' /\ Knows(c, own)' /\ \A d \in Cmd : RunRemembered(d, own)'
  <2>1. Unrun(own, w)
    BY <1>1, <1>3, <1>8 DEF FileInv, Knows, Writer, WritesFile, Deploys
  <2>2. Unrun(own, w)'
    BY <1>1, <1>2, <1>3, <2>1 DEF Unrun, OthersStay, Writer
  <2>3. \A d \in Cmd : RunRemembered(d, own)'
    BY <1>1, <1>2, <1>5, <2>2 DEF RunRemembered, Unrun
  <2>4. NewestRemembered(own)'
    BY <1>4, <1>5 DEF NewestRemembered
  <2>5. Knows(c, own)'
    BY <1>1, <1>2, <1>4, <2>2 DEF Knows
  <2> QED
    BY <2>3, <2>4, <2>5
<1>9. Switcher(c) /\ SwitchKnown(c) => SwitchTrue' /\ SwitchKnown(c)'
  <2>1. Active(c)'
    BY <1>2 DEF Active
  <2> QED
    BY <1>1, <1>2, <1>3, <2>1 DEF SwitchTrue, SwitchKnown, Switcher
<1>10. ~Switcher(c) => file'["keeper"] = file["keeper"]
  BY <1>4, <1>7 DEF FileKind
<1>11. /\ cmd[c].kind \in Deploys \union Runs \union {"keeper_enable"}
       /\ Active(c) /\ OthersStay(c) /\ cmd'[c].kind = cmd[c].kind
       /\ UNCHANGED <<workflow, overlapped>>
       /\ \A k \in FileKind : k # own => file'[k] = file[k] /\ newest'[k] = newest[k]
  BY <1>1, <1>2, <1>3, <1>4
<1>12. FileInv(own) /\ Alone(c, own) =>
         /\ NewestRemembered(own)' /\ Knows(c, own)' /\ \A d \in Cmd : RunRemembered(d, own)'
  BY <1>8
<1>13. Switcher(c) /\ FileInv("keeper") /\ SwitchTrue /\ SwitchKnown(c) =>
         SwitchTrue' /\ SwitchKnown(c)'
  BY <1>9
<1>14. ~Switcher(c) /\ FileInv("keeper") /\ file'["keeper"] # None =>
         /\ file["keeper"] # None /\ file'["keeper"].id = file["keeper"].id
         /\ file'["keeper"].enabled = file["keeper"].enabled
  BY <1>10
<1> QED
  BY <1>11, <1>12, <1>13, <1>14, WriterKeeps

\* What is written again is what the file says.
LEMMA ValidatedFiles ==
    ASSUME Types, References, Files, NEW c \in Cmd, Validated(c)
    PROVE  Files'
<1> PICK own : own = FileOf(cmd[c].kind)
  OBVIOUS
<1>1. /\ cmd[c].kind \in Deploys /\ cmd[c].pc = "validating" /\ answer[c] = None
      /\ UNCHANGED <<answer, workflow, newest, overlapped>>
  BY DEF Validated, References, CommandOK, Shape, Types, Command, Kind, Deploys, Runs
<1>2. OthersStay(c) /\ Active(c) /\ own \in FileKind /\ Writer(c, own)
      /\ (Switcher(c) <=> own = "keeper")
  BY <1>1 DEF Validated, Finish, OthersStay, Active, FileOf, FileKind, Types, Writer, WritesFile,
              Deploys, Switcher
<1>3. /\ \/ cmd[c].dry /\ Write(c, Remembered(cmd[c].id, FALSE)) /\ cmd'[c].pc = "done"
         \/ ~cmd[c].dry /\ UNCHANGED file /\ cmd'[c].pc = "enabling"
      /\ cmd'[c].kind = cmd[c].kind /\ cmd'[c].id = cmd[c].id /\ cmd'[c].dry = cmd[c].dry
  <2>1. cmd[c] \in Command
    BY DEF Types
  <2>2. CASE cmd[c].dry /\ Write(c, Remembered(cmd[c].id, FALSE)) /\ Finish(c, "deployed")
    BY <2>1, <2>2 DEF Finish, Types, Command
  <2>3. CASE ~cmd[c].dry /\ UNCHANGED file /\ cmd' = [cmd EXCEPT ![c].pc = "enabling"]
    BY <2>1, <2>3 DEF Types, Command
  <2> QED
    BY <2>2, <2>3 DEF Validated
<1>4. KnownWorkflow(cmd[c].id) /\ cmd[c].id \in Workflow
  BY <1>1 DEF References, CommandOK, Shape, KnownWorkflow
<1>5. \A k \in FileKind : k # own => file'[k] = file[k] /\ newest'[k] = newest[k]
  BY <1>1, <1>3, Written
<1>6. FileInv(own) => file[own] = Remembered(cmd[c].id, FALSE) /\ file'[own] = file[own]
  <2>1. FileInv(own) => file[own] = Remembered(cmd[c].id, FALSE)
    BY <1>1, <1>2 DEF FileInv, Knows
  <2> QED
    BY <1>3, <2>1, Written
<1>7. ASSUME FileInv(own)
      PROVE  /\ NewestRemembered(own)' /\ Knows(c, own)' /\ \A d \in Cmd : RunRemembered(d, own)'
  <2>1. /\ file'[own] = file[own] /\ newest'[own] = newest[own]
        /\ newest[own] = cmd[c].id /\ Unrun(own, cmd[c].id)
        /\ file[own] = Remembered(cmd[c].id, FALSE)
    BY <1>1, <1>2, <1>6, <1>7 DEF FileInv, Knows
  <2>2. cmd[c].kind \notin Runs
    BY <1>1 DEF Runs, Deploys
  <2>3. Unrun(own, cmd[c].id)'
    BY <1>2, <1>3, <2>1, <2>2 DEF Unrun, OthersStay, Writer
  <2>4. \A d \in Cmd : RunRemembered(d, own)'
    BY <1>2, <1>3, <1>7, <2>1, <2>2 DEF RunRemembered, OthersStay, FileInv, Writer
  <2>5. NewestRemembered(own)'
    BY <1>7, <2>1 DEF NewestRemembered, FileInv
  <2>6. Knows(c, own)'
    BY <1>1, <1>3, <2>1, <2>3 DEF Knows
  <2> QED
    BY <2>4, <2>5, <2>6
<1>8. ASSUME Switcher(c), FileInv("keeper"), SwitchKnown(c)
      PROVE  SwitchTrue' /\ SwitchKnown(c)'
  <2>1. ~workflow[cmd[c].id].enabled
    BY <1>1, <1>2, <1>8 DEF SwitchKnown
  <2>2. CASE cmd'[c].pc = "done"
    <3>1. file'["keeper"] = Remembered(cmd[c].id, FALSE)
      BY <1>2, <1>6, <1>8
    <3>2. file'["keeper"].id = cmd[c].id /\ file'["keeper"].enabled = FALSE
      BY <3>1 DEF Remembered
    <3>3. workflow[cmd[c].id] \in Switch
      BY <1>4 DEF KnownWorkflow, Types
    <3>4. workflow[cmd[c].id].enabled = FALSE
      BY <2>1, <3>3 DEF Switch
    <3> QED
      BY <1>1, <2>2, <3>2, <3>4 DEF SwitchTrue, SwitchKnown, Active
  <2>3. CASE cmd'[c].pc = "enabling"
    BY <1>1, <1>3, <1>8, <2>3 DEF SwitchTrue, SwitchKnown, Active, Switcher
  <2> QED
    BY <1>3, <2>2, <2>3
<1>9. ~Switcher(c) => file'["keeper"] = file["keeper"]
  BY <1>2, <1>5 DEF FileKind
<1> QED
  BY <1>1, <1>2, <1>3, <1>5, <1>7, <1>8, <1>9, WriterKeeps


\* The switch is remembered, with the workflow and the runs there were.
LEMMA TakeEnabledFiles ==
    ASSUME Types, References, Files, NEW c \in Cmd, TakeEnabled(c)
    PROVE  Files'
<1> PICK own : own = FileOf(cmd[c].kind)
  OBVIOUS
<1>1. /\ cmd[c].pc = "enabling" /\ cmd[c].kind \in Deploys \union {"keeper_enable"}
      /\ answer[c] # None /\ answer' = [answer EXCEPT ![c] = None] /\ Finish(c, "enabled")
      /\ UNCHANGED <<workflow, newest, overlapped>>
  BY DEF TakeEnabled, Take, References, CommandOK, Shape, Types, Command, Kind, Deploys, Runs
<1>2. OthersStay(c) /\ Active(c) /\ own \in FileKind /\ Writer(c, own)
      /\ (Switcher(c) <=> own = "keeper")
  BY <1>1 DEF Finish, OthersStay, Active, FileOf, FileKind, Types, Writer, WritesFile,
              Deploys, Switcher
<1>3. cmd'[c].pc = "done" /\ cmd'[c].kind = cmd[c].kind
  BY <1>1 DEF Finish, Types, Command
<1>4. \A k \in FileKind : k # own => file'[k] = file[k] /\ newest'[k] = newest[k]
  BY <1>1, Written DEF TakeEnabled
<1>5. KnownWorkflow(cmd[c].id) /\ cmd[c].id \in Workflow
  BY <1>1 DEF References, CommandOK, Shape, KnownWorkflow, Deploys
<1>6. ASSUME FileInv(own)
      PROVE  /\ file[own] # None /\ file'[own] # None /\ file'[own].id = file[own].id
             /\ file'[own].runs = file[own].runs /\ file'[own].id = cmd[c].id
             /\ cmd[c].kind = "keeper_enable" => file'[own].enabled = ~cmd[c].dry
             /\ cmd[c].kind # "keeper_enable" => file'[own].enabled = TRUE
  <2>1. Knows(c, own)
    BY <1>6 DEF FileInv
  <2>2. CASE cmd[c].kind = "keeper_enable"
    <3>1. cmd[c].copy = file[own] /\ cmd[c].copy \in State /\ cmd[c].id = cmd[c].copy.id
      BY <1>2, <2>1, <2>2 DEF Knows, Deploys, References, CommandOK, Shape
    <3>2. file'[own] = [cmd[c].copy EXCEPT !.enabled = ~cmd[c].dry]
      BY <2>2, Written DEF TakeEnabled
    <3>3. cmd[c].dry \in BOOLEAN
      BY DEF Types, Command
    <3>4. file'[own] \in State
      BY <3>1, <3>2, <3>3 DEF State
    <3> QED
      BY <2>2, <3>1, <3>2, <3>4, NoneIsNothing DEF State
  <2>3. CASE cmd[c].kind # "keeper_enable"
    <3>1. file[own] = Remembered(cmd[c].id, FALSE) /\ file'[own] = Remembered(cmd[c].id, TRUE)
      BY <1>1, <1>2, <2>1, <2>3, Written DEF Knows, TakeEnabled
    <3>2. file[own] \in State /\ file'[own] \in State
      BY <1>5, <3>1, RememberedState
    <3>3. \A on \in BOOLEAN : /\ Remembered(cmd[c].id, on).id = cmd[c].id
                              /\ Remembered(cmd[c].id, on).enabled = on
                              /\ Remembered(cmd[c].id, on).runs = {}
      BY DEF Remembered
    <3>4. file[own] # None /\ file'[own] # None
      BY <3>2, NoneIsNothing
    <3> QED
      BY <2>3, <3>1, <3>3, <3>4
  <2> QED
    BY <2>2, <2>3
<1>7. ASSUME FileInv(own)
      PROVE  /\ NewestRemembered(own)' /\ Knows(c, own)' /\ \A d \in Cmd : RunRemembered(d, own)'
  <2>1. cmd[c].kind \notin Runs
    BY <1>1 DEF Runs, Deploys
  <2>2. \A d \in Cmd : RunRemembered(d, own)'
    BY <1>2, <1>3, <1>6, <1>7, <2>1 DEF RunRemembered, OthersStay, FileInv, Writer
  <2>3. NewestRemembered(own)'
    BY <1>1, <1>6, <1>7 DEF NewestRemembered, FileInv
  <2>4. Knows(c, own)'
    BY <1>3 DEF Knows, Active
  <2> QED
    BY <2>2, <2>3, <2>4
<1>8. ASSUME Switcher(c), FileInv("keeper"), SwitchKnown(c)
      PROVE  SwitchTrue' /\ SwitchKnown(c)'
  <2>1. workflow[cmd[c].id].enabled = ~cmd[c].dry
    BY <1>1, <1>2, <1>8 DEF SwitchKnown
  <2>2. cmd[c].kind # "keeper_enable" => cmd[c].dry = FALSE
    BY <1>1, <1>2, <1>8 DEF SwitchKnown, Switcher, Types, Command
  <2>3. file'["keeper"].id = cmd[c].id /\ file'["keeper"].enabled = ~cmd[c].dry
    BY <1>2, <1>6, <1>8, <2>2
  <2> QED
    BY <1>1, <1>3, <2>1, <2>3 DEF SwitchTrue, SwitchKnown, Active
<1>9. ~Switcher(c) => file'["keeper"] = file["keeper"]
  BY <1>2, <1>4 DEF FileKind
<1> QED
  BY <1>1, <1>2, <1>3, <1>4, <1>7, <1>8, <1>9, WriterKeeps

\* The run is remembered, with all that the file said.
LEMMA FinishRunFiles ==
    ASSUME Types, References, Files, NEW c \in Cmd, FinishRun(c)
    PROVE  Files'
<1> PICK own : own = FileOf(cmd[c].kind)
  OBVIOUS
<1>1. /\ cmd[c].pc = "following" /\ cmd[c].kind \in Runs /\ cmd[c].kind \notin Deploys
      /\ UNCHANGED <<answer, workflow, newest, overlapped>>
      /\ Write(c, [cmd[c].copy EXCEPT !.runs = @ \union {c}])
  BY DEF FinishRun, References, CommandOK, Shape, Types, Command, Kind, Deploys, Runs
<1>2. cmd'[c].pc = "done" /\ cmd'[c].kind = cmd[c].kind /\ cmd'[c].copy = cmd[c].copy
  BY DEF FinishRun, Finish, Types, Command
<1>3. OthersStay(c) /\ Active(c) /\ own \in FileKind /\ Writer(c, own) /\ ~Switcher(c)
  BY <1>1 DEF FinishRun, Finish, OthersStay, Active, FileOf, FileKind, Types, Writer,
              WritesFile, Runs, Switcher
<1>4. /\ file'[own] = [cmd[c].copy EXCEPT !.runs = @ \union {c}]
      /\ \A k \in FileKind : k # own => file'[k] = file[k] /\ newest'[k] = newest[k]
  BY <1>1, Written
<1>5. cmd[c].copy \in State
  BY <1>1 DEF References, CommandOK, Shape
<1>6. ASSUME FileInv(own)
      PROVE  /\ cmd[c].copy = file[own] /\ file[own] # None /\ file'[own] # None
             /\ file'[own].id = file[own].id /\ file'[own].enabled = file[own].enabled
             /\ file'[own].runs = file[own].runs \union {c}
  <2>1. cmd[c].copy = file[own]
    BY <1>1, <1>3, <1>6 DEF FileInv, Knows
  <2>2. file'[own] \in State
    BY <1>4, <1>5 DEF State
  <2> QED
    BY <1>4, <1>5, <2>1, <2>2, NoneIsNothing DEF State
<1>7. ASSUME FileInv(own)
      PROVE  /\ NewestRemembered(own)' /\ Knows(c, own)' /\ \A d \in Cmd : RunRemembered(d, own)'
  <2>1. \A d \in Cmd : RunRemembered(d, own)'
    BY <1>2, <1>3, <1>6, <1>7 DEF RunRemembered, OthersStay, FileInv, Writer
  <2>2. NewestRemembered(own)'
    BY <1>1, <1>6, <1>7 DEF NewestRemembered, FileInv
  <2>3. Knows(c, own)'
    BY <1>2 DEF Knows, Active
  <2> QED
    BY <2>1, <2>2, <2>3
<1>8. FileInv("keeper") /\ file'["keeper"] # None =>
        /\ file["keeper"] # None /\ file'["keeper"].id = file["keeper"].id
        /\ file'["keeper"].enabled = file["keeper"].enabled
  BY <1>4, <1>6 DEF FileKind
<1> QED
  BY <1>1, <1>2, <1>3, <1>4, <1>7, <1>8, WriterKeeps


\* A command starts with what the file says; if another is under way, the
\* two overlap.
LEMMA StartFiles ==
    ASSUME Types, References, Files, NEW c \in Cmd, NEW kind, NEW fields \in Command,
           Start(c, kind, fields), fields.kind = kind,
           kind \in Deploys \union Runs \union {"keeper_enable"},
           fields.pc \in {"asking", "enabling"},
           kind \in Deploys => fields.pc = "asking",
           kind \notin Deploys => fields.copy = file[FileOf(kind)]
    PROVE  Files'
<1> PICK own : own = FileOf(kind)
  OBVIOUS
<1>1. /\ cmd[c].pc = "off" /\ UNCHANGED <<answer, workflow, file, newest>>
      /\ cmd' = [cmd EXCEPT ![c] = fields]
      /\ overlapped' = IF \E d \in Cmd : /\ Active(d) /\ WritesFile(cmd[d].kind)
                                         /\ FileOf(cmd[d].kind) = own
                         THEN overlapped \union {own} ELSE overlapped
  BY DEF Start
<1>2. cmd'[c] = fields /\ OthersStay(c)
  BY <1>1 DEF OthersStay, Types
<1>3. answer'[c] = None /\ cmd[c].kind = "none"
  BY <1>1 DEF References, CommandOK, Shape
<1>4. own \in FileKind /\ (\A k : Writer(c, k)' <=> k = own) /\ (\A k : ~Writer(c, k))
  BY <1>2, <1>3 DEF FileOf, FileKind, Writer, WritesFile, Deploys, Runs
<1>5. Switcher(c)' => own = "keeper"
  BY <1>2 DEF Switcher, FileOf
<1>6. own \notin overlapped' => Alone(c, own)
  BY <1>1 DEF Alone, Writer
<1>7. overlapped \subseteq overlapped'
  BY <1>1
<1>8. ASSUME NEW k \in FileKind \ overlapped' PROVE FileInv(k)'
  <2>1. FileInv(k)
    BY <1>7, <1>8 DEF Files
  <2>2. CASE k # own
    BY <1>1, <1>2, <1>4, <2>1, <2>2, BystanderKeeps
  <2>3. CASE k = own
    <3>1. NewestRemembered(k)'
      BY <1>1, <2>1 DEF NewestRemembered, FileInv
    <3>2. Knows(c, k)'
      BY <1>1, <1>2, <1>3, <2>3 DEF Knows
    <3>3. \A d \in Cmd : RunRemembered(d, k)'
      BY <1>1, <1>2, <2>1 DEF RunRemembered, OthersStay, FileInv, Writer
    <3> QED
      BY <1>2, <1>6, <1>8, <2>3, <3>1, <3>2, <3>3, AloneKeeps
  <2> QED
    BY <2>2, <2>3
<1>9. ASSUME "keeper" \notin overlapped' PROVE SwitchInv'
  <2>1. CASE Switcher(c)'
    <3>1. SwitchTrue'
      BY <1>2, <2>1 DEF SwitchTrue, Active
    <3>2. SwitchKnown(c)'
      BY <1>2, <1>3, <2>1 DEF SwitchKnown, Switcher, Deploys
    <3> QED
      BY <1>2, <1>5, <1>6, <1>9, <2>1, <3>1, <3>2, AloneSwitches
  <2>2. CASE ~Switcher(c)'
    <3>1. ~Switcher(c)
      BY <1>3 DEF Switcher
    <3>2. SwitchInv
      BY <1>7, <1>9 DEF Files
    <3> QED
      BY <1>1, <1>2, <2>2, <3>1, <3>2, SwitchesStay
  <2> QED
    BY <2>1, <2>2
<1> QED
  BY <1>8, <1>9 DEF Files


------------------------------------------------------------------------------
(***************************************************************************)
(* The invariant, and what follows from it.                                *)
(***************************************************************************)
LEMMA StayFiles ==
    ASSUME Files, UNCHANGED <<cmd, answer, workflow, file, newest, overlapped>>
    PROVE  Files'
<1>1. \A k : FileInv(k)' <=> FileInv(k)
  BY DEF FileInv, Sole, NewestRemembered, Knows, RunRemembered, Unrun, Writer, Active
<1>2. SwitchInv' <=> SwitchInv
  BY DEF SwitchInv, SwitchTrue, SwitchKnown, CutShort, Switcher, Active
<1> QED
  BY <1>1, <1>2 DEF Files

LEMMA FilesNext == Inv /\ Files /\ [Next]_vars => Files'
<1> SUFFICES ASSUME VaultTypeOK, Types, References, Files, [Next]_vars
             PROVE  Files'
  BY DEF Inv, VaultInv
<1>1. ASSUME NEW c \in Cmd, Begin(c)
      PROVE  Files'
  <2>1. CASE StartExit(c) /\ UNCHANGED remote
    BY <2>1, ExitFiles
  <2>2. CASE StartDeploy(c) \/ StartEnable(c) \/ StartKeeperRun(c) \/ StartGuardRun(c)
    BY <2>2, BeginsFromFile, StartFiles DEF Deploys, Runs
  <2> QED
    BY <1>1, <2>1, <2>2 DEF Begin
<1>2. ASSUME NEW c \in Cmd, Handle(c)
      PROVE  Files'
  BY <1>2, HandleOtherFiles, HandleCreateFiles, HandleEnableFiles DEF Handle
<1>3. ASSUME NEW c \in Cmd, Step(c) \/ (Die(c) /\ UNCHANGED remote)
      PROVE  Files'
  BY <1>3, ExitFiles, GiveUpFiles, TakeRunFiles, TakeCreatedFiles, ValidatedFiles,
     TakeEnabledFiles, FinishRunFiles DEF Step, ExitStep
<1>4. CASE (\E e \in Exec : Engine(e)) \/ Schedule \/ Outside \/ UNCHANGED vars
  <2>1. UNCHANGED <<cmd, answer, workflow, file, newest, overlapped>>
    BY <1>4 DEF Engine, ExitEngine, EngineGate, EngineRelease, EngineFail, LandRedeem,
               CompoundGate, LandDeposit, Schedule, Outside, vars, exits, remote
  <2> QED
    BY <2>1, StayFiles
<1> QED
  BY <1>1, <1>2, <1>3, <1>4 DEF Next

LEMMA FilesInit == Init => Files
<1> SUFFICES ASSUME Init PROVE Files
  OBVIOUS
<1>1. \A c \in Cmd : ~Active(c) /\ cmd[c].kind \notin Runs
  BY DEF Init, Idle, Active, Runs
<1>2. \A k \in FileKind : FileInv(k)
  BY <1>1 DEF Init, FileInv, Sole, NewestRemembered, Knows, RunRemembered
<1>3. SwitchInv
  BY <1>1 DEF Init, SwitchInv, SwitchTrue, SwitchKnown, FileKind
<1> QED
  BY <1>2, <1>3 DEF Files

(* Each state file names the workflow a command was last told of, the      *)
(* switch KeeperHub has and every run that ended, whatever died or was     *)
(* lost, as long as no two commands of its kind overlapped.                *)
THEOREM FilesAreTruthful == Spec => []FilesTruthful
<1>1. Inv /\ Files => FilesTruthful
  <2> SUFFICES ASSUME Inv, Files, NEW k \in FileKind \ overlapped
               PROVE  /\ newest[k] # None => file[k] # None /\ file[k].id = newest[k]
                      /\ k = "keeper" /\ file[k] # None =>
                           \/ \E c \in Cmd :
                                /\ cmd[c].kind \in {"keeper_deploy", "keeper_enable"}
                                /\ cmd[c].pc \notin {"off", "done"}
                           \/ file[k].enabled = workflow[file[k].id].enabled
                      /\ \A c \in Cmd :
                           /\ cmd[c].pc = "done" /\ cmd[c].kind \in {"guard_run", "keeper_run"}
                           /\ FileOf(cmd[c].kind) = k
                           /\ file[k].id = cmd[c].copy.id
                           => c \in file[k].runs
    BY DEF FilesTruthful
  <2>1. FileInv(k) /\ (k = "keeper" => SwitchInv)
    BY DEF Files
  <2>2. newest[k] # None => file[k] # None /\ file[k].id = newest[k]
    BY <2>1 DEF FileInv, NewestRemembered
  <2>3. ASSUME k = "keeper", file[k] # None
        PROVE  \/ \E c \in Cmd : /\ cmd[c].kind \in {"keeper_deploy", "keeper_enable"}
                                 /\ cmd[c].pc \notin {"off", "done"}
               \/ file[k].enabled = workflow[file[k].id].enabled
    BY <2>1, <2>3 DEF SwitchInv, SwitchTrue, CutShort, Switcher, Active
  <2>4. ASSUME NEW c \in Cmd, cmd[c].pc = "done", cmd[c].kind \in {"guard_run", "keeper_run"},
               FileOf(cmd[c].kind) = k, file[k].id = cmd[c].copy.id
        PROVE  c \in file[k].runs
    BY <2>1, <2>4 DEF FileInv, RunRemembered, Runs, Writer, WritesFile
  <2> QED
    BY <2>2, <2>3, <2>4
<1>2. Init => Inv /\ Files
  BY InvInit, FilesInit
<1>3. Inv /\ Files /\ [Next]_vars => (Inv /\ Files)'
  BY InvNext, FilesNext
<1> QED
  BY <1>1, <1>2, <1>3, PTL DEF Spec

==============================================================================
