-------------------------- MODULE ReceiptFileProofs --------------------------
(***************************************************************************)
(* Theorems about ReceiptFile, for any processes, executions and number of *)
(* calls and deaths.                                                       *)
(***************************************************************************)
EXTENDS ReceiptFile, TLAPS

------------------------------------------------------------------------------
(***************************************************************************)
(* What a call does to a log.                                              *)
(***************************************************************************)
LEMMA CallType ==
    ASSUME NEW c \in Call
    PROVE  /\ c.row \in Row
           /\ c.kind \in {"record", "simulate", "update", "find"}
BY DEF Call, Row

LEMMA AppliedType ==
    ASSUME NEW c \in Call, NEW log \in Seq(Row)
    PROVE  Applied(c, log) \in Seq(Row)
<1>1. CASE c.kind = "find"
  BY <1>1 DEF Applied
<1>2. CASE c.kind = "update"
  <2> DEFINE new == [i \in 1 .. Len(log) |->
             IF log[i].exec = c.row.exec THEN [log[i] EXCEPT !.settled = TRUE] ELSE log[i]]
  <2>1. Applied(c, log) = new
    BY <1>2 DEF Applied
  <2>2. \A i \in 1 .. Len(log) : new[i] \in Row
    <3>1. \A i \in 1 .. Len(log) : log[i] \in Row
      OBVIOUS
    <3> QED
      BY <3>1 DEF Row
  <2>3. Len(log) \in Nat
    OBVIOUS
  <2>4. new \in Seq(Row)
    <3> HIDE DEF new
    <3>1. new \in [1 .. Len(log) -> Row]
      BY <2>2 DEF new
    <3> QED
      BY <2>3, <3>1
  <2> QED
    BY <2>1, <2>4
<1>3. CASE c.kind \in {"record", "simulate"}
  BY <1>3, CallType DEF Applied
<1> QED
  BY <1>1, <1>2, <1>3, CallType

\* A call takes nothing back of what the log says.
LEMMA AppliedSays ==
    ASSUME NEW c \in Call, NEW log \in Seq(Row), NEW row \in Row, Says(log, row)
    PROVE  Says(Applied(c, log), row)
<1>1. PICK i \in 1 .. Len(log) : log[i].exec = row.exec /\ (row.settled => log[i].settled)
  BY DEF Says
<1>2. log[i] \in Row
  BY <1>1
<1>3. CASE c.kind = "find"
  BY <1>3 DEF Applied
<1>4. CASE c.kind = "update"
  BY <1>1, <1>2, <1>4 DEF Applied, Says, Row
<1>5. CASE c.kind \in {"record", "simulate"}
  <2>1. Applied(c, log) = Append(log, c.row)
    BY <1>5 DEF Applied
  <2>2. i \in DOMAIN Append(log, c.row) /\ Append(log, c.row)[i] = log[i]
    BY <1>1, CallType
  <2> QED
    BY <1>1, <2>1, <2>2 DEF Says
<1> QED
  BY <1>3, <1>4, <1>5, CallType

\* A call takes no execution out of the log.
LEMMA AppliedLogged ==
    ASSUME NEW c \in Call, NEW log \in Seq(Row)
    PROVE  Logged(log) \subseteq Logged(Applied(c, log))
<1>1. log # Torn /\ Applied(c, log) # Torn
  BY AppliedType, FileAssumption
<1>2. ASSUME NEW i \in 1 .. Len(log)
      PROVE  \E j \in DOMAIN Applied(c, log) : Applied(c, log)[j].exec = log[i].exec
  <2>1. [exec |-> log[i].exec, settled |-> FALSE] \in Row
    <3>1. log[i] \in Row
      OBVIOUS
    <3> QED
      BY <3>1 DEF Row
  <2>2. Says(log, [exec |-> log[i].exec, settled |-> FALSE])
    BY DEF Says
  <2>3. Says(Applied(c, log), [exec |-> log[i].exec, settled |-> FALSE])
    BY <2>1, <2>2, AppliedSays
  <2> QED
    BY <2>3 DEF Says
<1> QED
  BY <1>1, <1>2 DEF Logged

------------------------------------------------------------------------------
(***************************************************************************)
(* The lock.  A process that is past the lock holds it in the mode of its  *)
(* call, a writer alone; so the file stands still from its parse to its    *)
(* rename, and the temporary file is its own.                              *)
(***************************************************************************)
Inside == {"parse", "parsed", "fill", "replace", "unlock"}
ModeOf(c) == IF Writing(c) THEN "exclusive" ELSE "shared"

Locking ==
    /\ \A p \in Proc : pc[p] # "idle" => call[p] \in Call
    /\ \A p \in Proc : lock[p] = IF pc[p] \in Inside THEN ModeOf(call[p]) ELSE "none"
    /\ \A p, q \in Proc : p # q /\ lock[p] = "exclusive" => lock[q] = "none"
    /\ \A p \in Proc : pc[p] \in {"parsed", "fill", "replace"} => Writing(call[p])

Snapshot ==
    /\ NoLostUpdate
    /\ \A p \in Proc : pc[p] = "replace" => tmp = rows[p]
    /\ \A p \in Proc : pc[p] = "unlock" => file # Torn /\ rows[p] = file

Inv == TypeOK /\ Locking /\ Snapshot /\ (file # Torn => Durable) /\ (file = Torn => promised = {})

LEMMA InvInit == Init => Inv
<1> SUFFICES ASSUME Init
             PROVE  Inv
  OBVIOUS
<1>1. TypeOK
  <2>1. << >> \in Seq(Row)
    OBVIOUS
  <2>2. file \in Seq(Row) \union {Torn} /\ tmp \in Seq(Row) \union {Torn}
    BY <2>1 DEF Init
  <2>3. rows \in [Proc -> Seq(Row)]
    BY <2>1 DEF Init
  <2>4. calls \in [Proc -> Nat] /\ \A p \in Proc : calls[p] <= MaxCalls[p]
    BY FileAssumption DEF Init
  <2>5. crashes \in 0 .. MaxCrashes
    BY FileAssumption DEF Init
  <2>6. /\ lock \in [Proc -> {"none", "shared", "exclusive"}]
        /\ pc \in [Proc -> {"idle", "lock", "parse", "parsed", "fill", "replace", "unlock"}]
        /\ call \in [Proc -> Call \union {None}]
        /\ promised \subseteq Row
    BY DEF Init
  <2> QED
    BY <2>2, <2>3, <2>4, <2>5, <2>6 DEF TypeOK
<1>2. Locking
  BY DEF Init, Locking, Inside
<1>3. Snapshot
  BY DEF Init, Snapshot, NoLostUpdate
<1> QED
  BY <1>1, <1>2, <1>3 DEF Init, Inv, Durable

LEMMA TypeStep == Inv /\ [Next]_vars => TypeOK'
<1> SUFFICES ASSUME Inv, [Next]_vars
             PROVE  TypeOK'
  OBVIOUS
<1> USE FileAssumption
<1>1. ASSUME NEW p \in Proc, NEW c \in Call, Enter(p, c)
      PROVE  TypeOK'
  BY <1>1 DEF Enter, Inv, TypeOK
<1>2. ASSUME NEW p \in Proc, Acquire(p)
      PROVE  TypeOK'
  BY <1>2 DEF Acquire, Inv, TypeOK, counters
<1>3. ASSUME NEW p \in Proc, Parse(p)
      PROVE  TypeOK'
  <2>1. Applied(call[p], file) \in Seq(Row)
    BY <1>3, AppliedType DEF Parse, Inv, TypeOK, Locking
  <2> QED
    BY <1>3, <2>1 DEF Parse, Inv, TypeOK, counters
<1>4. ASSUME NEW p \in Proc, Leave(p)
      PROVE  /\ lock' \in [Proc -> {"none", "shared", "exclusive"}]
             /\ pc' \in [Proc -> {"idle", "lock", "parse", "parsed", "fill", "replace", "unlock"}]
             /\ call' \in [Proc -> Call \union {None}]
             /\ rows' \in [Proc -> Seq(Row)]
  BY <1>4 DEF Leave, Inv, TypeOK
<1>5. ASSUME NEW p \in Proc, ParseRaises(p)
      PROVE  TypeOK'
  BY <1>4, <1>5 DEF ParseRaises, Inv, TypeOK, counters
<1>8. ASSUME NEW p \in Proc, Crash(p)
      PROVE  TypeOK'
  BY <1>4, <1>8 DEF Crash, Inv, TypeOK
<1>9. ASSUME NEW p \in Proc, OpenTmp(p)
      PROVE  TypeOK'
  BY <1>9 DEF OpenTmp, Inv, TypeOK, counters
<1>10. ASSUME NEW p \in Proc, FillTmp(p)
      PROVE  TypeOK'
  BY <1>10 DEF FillTmp, Inv, TypeOK, counters
<1>11. ASSUME NEW p \in Proc, Replace(p)
      PROVE  TypeOK'
  BY <1>11 DEF Replace, Inv, TypeOK, counters
<1>6. ASSUME NEW p \in Proc, Unlock(p)
      PROVE  TypeOK'
  <2>1. call[p].row \in Row
    BY <1>6, CallType DEF Unlock, Inv, Locking
  <2> QED
    BY <1>4, <1>6, <2>1 DEF Unlock, Inv, TypeOK, counters
<1>7. CASE UNCHANGED vars
  BY <1>7 DEF vars, private, counters, Inv, TypeOK
<1> QED
  BY <1>1, <1>2, <1>3, <1>5, <1>6, <1>7, <1>8, <1>9, <1>10, <1>11 DEF Next, Step

LEMMA LockingStep == Inv /\ [Next]_vars => Locking'
<1> SUFFICES ASSUME Inv, [Next]_vars
             PROVE  Locking'
  OBVIOUS
<1>1. ASSUME NEW p \in Proc, NEW c \in Call, Enter(p, c)
      PROVE  Locking'
  BY <1>1 DEF Enter, Inv, TypeOK, Locking, Inside
<1>2. ASSUME NEW p \in Proc, Acquire(p)
      PROVE  Locking'
  BY <1>2 DEF Acquire, Inv, TypeOK, Locking, Inside, ModeOf, Writing
<1>3. ASSUME NEW p \in Proc, Parse(p)
      PROVE  Locking'
  BY <1>3 DEF Parse, Inv, TypeOK, Locking, Inside
<1>4. ASSUME NEW p \in Proc, Leave(p)
      PROVE  Locking'
  BY <1>4 DEF Leave, Inv, TypeOK, Locking, Inside
<1>5. ASSUME NEW p \in Proc, OpenTmp(p) \/ FillTmp(p) \/ Replace(p)
      PROVE  Locking'
  <2>1. CASE OpenTmp(p)
    BY <2>1 DEF OpenTmp, Inv, TypeOK, Locking, Inside
  <2>2. CASE FillTmp(p)
    BY <2>2 DEF FillTmp, Inv, TypeOK, Locking, Inside
  <2>3. CASE Replace(p)
    BY <2>3 DEF Replace, Inv, TypeOK, Locking, Inside
  <2> QED
    BY <1>5, <2>1, <2>2, <2>3
<1>6. CASE UNCHANGED vars
  BY <1>6 DEF vars, private, Inv, Locking
<1> QED
  BY <1>1, <1>2, <1>3, <1>4, <1>5, <1>6 DEF Next, Step, ParseRaises, Crash, Unlock

\* A process that is about to rename its file is the only one inside.
LEMMA Alone ==
    ASSUME Inv, NEW p \in Proc, pc[p] \in {"parsed", "fill", "replace"}, NEW q \in Proc, q # p
    PROVE  pc[q] \in {"idle", "lock"}
BY DEF Inv, Locking, Inside, ModeOf, TypeOK

LEMMA SnapshotStep == Inv /\ [Next]_vars => Snapshot'
<1> SUFFICES ASSUME Inv, [Next]_vars
             PROVE  Snapshot'
  OBVIOUS
<1>1. ASSUME NEW p \in Proc, NEW c \in Call, Enter(p, c)
      PROVE  Snapshot'
  BY <1>1 DEF Enter, Inv, TypeOK, Snapshot, NoLostUpdate
<1>2. ASSUME NEW p \in Proc, Acquire(p)
      PROVE  Snapshot'
  BY <1>2 DEF Acquire, Inv, TypeOK, Snapshot, NoLostUpdate
<1>3. ASSUME NEW p \in Proc, Parse(p)
      PROVE  Snapshot'
  <2>1. ~Writing(call[p]) => Applied(call[p], file) = file
    BY DEF Writing, Applied
  <2> QED
    BY <1>3, <2>1 DEF Parse, Inv, TypeOK, Snapshot, NoLostUpdate
<1>4. ASSUME NEW p \in Proc, ParseRaises(p) \/ Crash(p) \/ Unlock(p)
      PROVE  Snapshot'
  <2>1. Leave(p) /\ UNCHANGED <<file, tmp>>
    BY <1>4 DEF ParseRaises, Crash, Unlock
  <2> QED
    BY <2>1 DEF Leave, Inv, TypeOK, Snapshot, NoLostUpdate
<1>5. ASSUME NEW p \in Proc, OpenTmp(p) \/ FillTmp(p)
      PROVE  Snapshot'
  <2>1. \A q \in Proc \ {p} : pc[q] \in {"idle", "lock"}
    BY <1>5, Alone DEF OpenTmp, FillTmp
  <2>2. CASE OpenTmp(p)
    BY <2>1, <2>2 DEF OpenTmp, Inv, TypeOK, Snapshot, NoLostUpdate
  <2>3. CASE FillTmp(p)
    BY <2>1, <2>3 DEF FillTmp, Inv, TypeOK, Snapshot, NoLostUpdate
  <2> QED
    BY <1>5, <2>2, <2>3
<1>6. ASSUME NEW p \in Proc, Replace(p)
      PROVE  Snapshot'
  <2>1. file' = rows[p] /\ rows' = rows /\ call' = call /\ pc' = [pc EXCEPT ![p] = "unlock"]
    BY <1>6 DEF Replace, Inv, Snapshot
  <2>2. rows[p] # Torn
    BY FileAssumption DEF Inv, TypeOK
  <2>3. \A q \in Proc \ {p} : pc'[q] \in {"idle", "lock"}
    BY <1>6, <2>1, Alone DEF Replace, Inv, TypeOK
  <2> QED
    BY <2>1, <2>2, <2>3 DEF Inv, TypeOK, Snapshot, NoLostUpdate
<1>7. CASE UNCHANGED vars
  BY <1>7 DEF vars, private, Inv, Snapshot, NoLostUpdate
<1> QED
  BY <1>1, <1>2, <1>3, <1>4, <1>5, <1>6, <1>7 DEF Next, Step


\* A rename is the only step that changes the log, and it puts there what the
\* log was with the change of the call applied.
LEMMA FileStep ==
    ASSUME Inv, [Next]_vars, file' # file
    PROVE  \E p \in Proc : /\ Replace(p)
                           /\ call[p] \in Call /\ Writing(call[p])
                           /\ file \in Seq(Row)
                           /\ file' = Applied(call[p], file)
<1>2. PICK p \in Proc : Replace(p)
  BY DEF Next, Step, Enter, Acquire, Parse, ParseRaises, OpenTmp, FillTmp, Unlock, Crash, vars
<1>3. pc[p] = "replace"
  BY <1>2 DEF Replace
<1>4. file # Torn /\ rows[p] = Applied(call[p], file) /\ tmp = rows[p]
  BY <1>3 DEF Inv, Snapshot, NoLostUpdate
<1>5. file \in Seq(Row)
  BY <1>4 DEF Inv, TypeOK
<1>6. call[p] \in Call /\ Writing(call[p])
  BY <1>3 DEF Inv, Locking
<1> QED
  BY <1>2, <1>4, <1>5, <1>6 DEF Replace

Kept == (file # Torn => Durable) /\ (file = Torn => promised = {})

LEMMA KeptStep == Inv /\ [Next]_vars => Kept'
<1> SUFFICES ASSUME Inv, [Next]_vars
             PROVE  Kept'
  OBVIOUS
<1>1. CASE file' # file
  <2>1. PICK p \in Proc : /\ Replace(p)
                          /\ call[p] \in Call
                          /\ file \in Seq(Row)
                          /\ file' = Applied(call[p], file)
    BY <1>1, FileStep
  <2>2. file # Torn /\ file' # Torn /\ promised' = promised
    BY <2>1, AppliedType, FileAssumption DEF Replace
  <2>3. ASSUME NEW row \in promised
        PROVE  Says(Applied(call[p], file), row)
    <3>1. row \in Row
      BY DEF Inv, TypeOK
    <3>2. Says(file, row)
      BY <2>2 DEF Inv, Durable
    <3> QED
      BY <2>1, <3>1, <3>2, AppliedSays
  <2> QED
    BY <2>1, <2>2, <2>3 DEF Kept, Durable
<1>2. CASE file' = file /\ promised' = promised
  BY <1>2 DEF Kept, Inv, Durable
<1>3. CASE file' = file /\ promised' # promised
  <2>1. PICK p \in Proc : Unlock(p)
    BY <1>3 DEF Next, Step, Enter, Acquire, Parse, ParseRaises, OpenTmp, FillTmp, Replace,
                Crash, vars
  <2>2. file # Torn /\ rows[p] = file
    BY <2>1 DEF Unlock, Inv, Snapshot
  <2>3. \A row \in promised' : row \in promised \/ Says(file, row)
    BY <2>1, <2>2 DEF Unlock
  <2> QED
    BY <1>3, <2>2, <2>3 DEF Kept, Inv, Durable
<1> QED
  BY <1>1, <1>2, <1>3

\* The lock, the snapshots and what was promised hold together, always.
THEOREM FileInvariant == Spec => []Inv
<1>1. Init => Inv
  BY InvInit
<1>2. Inv /\ [Next]_vars => Inv'
  BY TypeStep, LockingStep, SnapshotStep, KeptStep DEF Inv, Kept
<1> QED
  BY <1>1, <1>2, PTL DEF Spec

\* The variables have their types in every reachable state.
THEOREM FileTypes == Spec => []TypeOK
BY FileInvariant, PTL DEF Inv

\* A writer writes the current log with its own change, for any number of
\* writers and wherever they die.
THEOREM WritersDoNotOverwrite == Spec => []NoLostUpdate
<1>1. Inv => NoLostUpdate
  BY DEF Inv, Snapshot
<1> QED
  BY <1>1, FileInvariant, PTL

\* What a returned call put in the log stays there.
THEOREM PromisesKept == Spec => []Durable
<1>1. Inv => Durable
  BY DEF Inv, Durable
<1> QED
  BY <1>1, FileInvariant, PTL

\* A log that cannot be parsed is never replaced, and a good log is never torn.
THEOREM TornStays == Spec => TornLeftUntouched
<1>1. Inv /\ [Next]_vars => [file # Torn <=> file' # Torn]_file
  <2> SUFFICES ASSUME Inv, [Next]_vars, file' # file
               PROVE  file # Torn <=> file' # Torn
    OBVIOUS
  <2> QED
    BY FileStep, AppliedType, FileAssumption
<1> QED
  BY <1>1, FileInvariant, PTL DEF Spec, TornLeftUntouched

\* No step takes an execution out of the log.
THEOREM EntriesStay == Spec => NeverLosesAnEntry
<1>1. Inv /\ [Next]_vars => [Logged(file) \subseteq Logged(file')]_file
  <2> SUFFICES ASSUME Inv, [Next]_vars, file' # file
               PROVE  Logged(file) \subseteq Logged(file')
    OBVIOUS
  <2>1. PICK p \in Proc : call[p] \in Call /\ file \in Seq(Row) /\ file' = Applied(call[p], file)
    BY FileStep
  <2> QED
    BY <2>1, AppliedLogged
<1> QED
  BY <1>1, FileInvariant, PTL DEF Spec, NeverLosesAnEntry

------------------------------------------------------------------------------
(***************************************************************************)
(* The file implements the atomic log: a rename is one append or one       *)
(* settlement, the end of a call is the promise, all other steps stutter.  *)
(***************************************************************************)
LEMMA LogStart == Init => Log!LogInit
BY DEF Init, Log!LogInit

LEMMA LogStep == Inv /\ [Next]_vars => [Log!LogNext]_(Log!logVars)
<1> SUFFICES ASSUME Inv, [Next]_vars
             PROVE  [Log!LogNext]_(Log!logVars)
  OBVIOUS
<1>1. CASE file' # file
  <2>1. PICK p \in Proc : /\ Replace(p)
                          /\ call[p] \in Call /\ Writing(call[p])
                          /\ file \in Seq(Row)
                          /\ file' = Applied(call[p], file)
    BY <1>1, FileStep
  <2>2. file # Torn /\ file' # Torn /\ promised' = promised
    BY <2>1, AppliedType, FileAssumption DEF Replace
  <2>3. call[p].row \in Row
    BY <2>1, CallType
  <2>4. CASE call[p].kind = "update"
    <3>1. Log!SettleEntries(call[p].row.exec)
      BY <2>1, <2>2, <2>4 DEF Applied, Log!SettleEntries
    <3> QED
      BY <2>3, <3>1 DEF Log!LogNext
  <2>5. CASE call[p].kind \in {"record", "simulate"}
    <3>1. Log!AppendEntry(call[p].row)
      BY <2>1, <2>2, <2>5 DEF Applied, Log!AppendEntry
    <3> QED
      BY <2>3, <3>1 DEF Log!LogNext
  <2> QED
    BY <2>1, <2>4, <2>5, CallType DEF Writing
<1>2. CASE file' = file /\ promised' = promised
  BY <1>2 DEF Log!logVars
<1>3. CASE file' = file /\ promised' # promised
  <2>1. PICK p \in Proc : Unlock(p)
    BY <1>3 DEF Next, Step, Enter, Acquire, Parse, ParseRaises, OpenTmp, FillTmp, Replace,
                Crash, vars
  <2>2. file # Torn /\ rows[p] = file
    BY <2>1 DEF Unlock, Inv, Snapshot
  <2>3. Says(file, call[p].row) /\ promised' = promised \union {call[p].row}
    BY <1>3, <2>1, <2>2 DEF Unlock
  <2>4. call[p].row \in Row
    BY <2>1, CallType DEF Unlock, Inv, Locking
  <2>5. Log!Return(call[p].row)
    BY <1>3, <2>2, <2>3 DEF Log!Return, Log!Says, Says
  <2> QED
    BY <2>4, <2>5 DEF Log!LogNext
<1> QED
  BY <1>1, <1>2, <1>3

\* Seen from its callers the locked, renamed file is an atomic log.
THEOREM FileImplementsLog == Spec => ImplementsLog
BY FileInvariant, LogStart, LogStep, PTL DEF Spec, ImplementsLog, Log!LogSpec

------------------------------------------------------------------------------
(***************************************************************************)
(* What lets every call come back.                                         *)
(***************************************************************************)
\* What the next step of a process in a call waits for: the lock file, in the
\* mode of the call, or nothing.
MayAcquire(p) ==
    /\ pc[p] = "lock"
    /\ \A q \in Proc : lock[q] = "none" \/ (ModeOf(call[p]) = "shared" /\ lock[q] = "shared")

CanGoOn(p) == pc[p] \in Inside \/ MayAcquire(p)

NobodyStuck == (\E p \in Proc : pc[p] # "idle") => \E p \in Proc : CanGoOn(p)

(* The lock file never has every process wait: if somebody is in a call,   *)
(* somebody is past the lock, or the lock is free for whoever waits.  A    *)
(* call that raises, a reader and a process that dies all give it back     *)
(* (receipts.py:115-151).                                                  *)
THEOREM LockComesBack == Spec => []NobodyStuck
<1>1. ASSUME Inv, NEW p \in Proc, pc[p] # "idle"
      PROVE  \E q \in Proc : CanGoOn(q)
  <2>1. CASE \E q \in Proc : pc[q] \in Inside
    BY <2>1 DEF CanGoOn
  <2>2. CASE \A q \in Proc : pc[q] \notin Inside
    <3>1. \A q \in Proc : lock[q] = "none"
      BY <1>1, <2>2 DEF Inv, Locking
    <3>2. pc[p] \in {"idle", "lock", "parse", "parsed", "fill", "replace", "unlock"}
      BY <1>1 DEF Inv, TypeOK
    <3>3. pc[p] = "lock"
      BY <1>1, <2>2, <3>2 DEF Inside
    <3> QED
      BY <3>1, <3>3 DEF CanGoOn, MayAcquire
  <2> QED
    BY <2>1, <2>2
<1>2. Inv => NobodyStuck
  BY <1>1 DEF NobodyStuck
<1> QED
  BY <1>2, FileInvariant, PTL

\* The steps a call has left.
Left(p) ==
    CASE pc[p] = "idle" -> 0
      [] pc[p] = "unlock" -> 1
      [] pc[p] = "replace" -> 2
      [] pc[p] = "fill" -> 3
      [] pc[p] = "parsed" -> 4
      [] pc[p] = "parse" -> 5
      [] pc[p] = "lock" -> 6

\* A step is of one process: it begins a call that the program may still make,
\* or brings its call nearer to its end; the others stay where they are.
OneStep ==
    UNCHANGED vars \/ \E p \in Proc :
        /\ \/ pc[p] = "idle" /\ pc'[p] = "lock" /\ calls'[p] = calls[p] + 1
           \/ pc[p] # "idle" /\ Left(p)' < Left(p) /\ calls'[p] = calls[p]
        /\ \A q \in Proc \ {p} : pc'[q] = pc[q] /\ call'[q] = call[q] /\ calls'[q] = calls[q]

CallsShrink == [][OneStep]_vars

(* A call is at most six steps, and no step of another process sends it    *)
(* back: nothing in the log retries, not the lock, not the parse and not   *)
(* the rename.  With the fairness of the processes and the lock that comes *)
(* back this is why a call returns (receipts.py:115-151).                  *)
THEOREM CallsAreShort == Spec => CallsShrink
<1>1. ASSUME Inv, NEW p \in Proc, NEW c \in Call, Enter(p, c)
      PROVE  OneStep
  <2>1. /\ pc[p] = "idle" /\ pc'[p] = "lock" /\ calls'[p] = calls[p] + 1
        /\ \A q \in Proc \ {p} : pc'[q] = pc[q] /\ call'[q] = call[q] /\ calls'[q] = calls[q]
    BY <1>1 DEF Enter, Inv, TypeOK
  <2> QED
    BY <2>1 DEF OneStep
<1>2. ASSUME Inv, NEW p \in Proc, NEW to, pc' = [pc EXCEPT ![p] = to],
             UNCHANGED <<call, calls>>,
             \/ pc[p] = "lock" /\ to = "parse"
             \/ pc[p] = "parse" /\ to \in {"parsed", "unlock"}
             \/ pc[p] = "parsed" /\ to = "fill"
             \/ pc[p] = "fill" /\ to = "replace"
             \/ pc[p] = "replace" /\ to = "unlock"
      PROVE  OneStep
  <2>1. pc'[p] = to /\ \A q \in Proc \ {p} : pc'[q] = pc[q]
    BY <1>2 DEF Inv, TypeOK
  <2>2. Left(p)' < Left(p)
    BY <1>2, <2>1 DEF Left
  <2> QED
    BY <1>2, <2>1, <2>2 DEF OneStep
<1>3. ASSUME Inv, NEW p \in Proc, pc[p] # "idle", Leave(p), UNCHANGED calls
      PROVE  OneStep
  <2>1. /\ pc'[p] = "idle"
        /\ \A q \in Proc \ {p} : pc'[q] = pc[q] /\ call'[q] = call[q]
    BY <1>3 DEF Leave, Inv, TypeOK
  <2>2. Left(p)' = 0
    BY <2>1 DEF Left
  <2>3. Left(p) \in 1 .. 6
    <3>1. pc[p] \in {"lock", "parse", "parsed", "fill", "replace", "unlock"}
      BY <1>3 DEF Inv, TypeOK
    <3> QED
      BY <3>1 DEF Left
  <2>4. Left(p)' < Left(p)
    BY <2>2, <2>3
  <2> QED
    BY <1>3, <2>1, <2>4 DEF OneStep
<1>4. ASSUME Inv, NEW p \in Proc, Step(p)
      PROVE  OneStep
  <2>1. CASE Acquire(p)
    BY <1>2, <1>4, <2>1 DEF Acquire, counters
  <2>2. CASE Parse(p)
    BY <1>2, <1>4, <2>2 DEF Parse, counters
  <2>3. CASE ParseRaises(p)
    BY <1>3, <1>4, <2>3 DEF ParseRaises, counters
  <2>4. CASE OpenTmp(p)
    BY <1>2, <1>4, <2>4 DEF OpenTmp, counters
  <2>5. CASE FillTmp(p)
    BY <1>2, <1>4, <2>5 DEF FillTmp, counters
  <2>6. CASE Replace(p)
    BY <1>2, <1>4, <2>6 DEF Replace, counters
  <2>7. CASE Unlock(p)
    BY <1>3, <1>4, <2>7 DEF Unlock, counters
  <2> QED
    BY <1>4, <2>1, <2>2, <2>3, <2>4, <2>5, <2>6, <2>7 DEF Step
<1>5. ASSUME Inv, NEW p \in Proc, Crash(p)
      PROVE  OneStep
  BY <1>3, <1>5 DEF Crash
<1>6. Inv /\ [Next]_vars => [OneStep]_vars
  BY <1>1, <1>4, <1>5 DEF Next
<1> QED
  BY <1>6, FileInvariant, PTL DEF Spec, CallsShrink

==============================================================================
