----------------------------- MODULE ReceiptFile -----------------------------
(***************************************************************************)
(* ReceiptLog (almanak_keeperhub/receipts.py) at the level of the file:    *)
(* the lock file, the parse, the temporary file, the atomic rename, and    *)
(* processes (strategy, bot, demos, exit) that die anywhere in between.    *)
(*                                                                         *)
(* An entry is an execution and whether its status is settled; a dry run   *)
(* is an entry of no execution.                                            *)
(***************************************************************************)
EXTENDS Naturals, Sequences

CONSTANTS
    Proc,           \* processes that share the log
    Exec,           \* execution ids
    NoExec,         \* the execution id of a dry run: it has none
    None,           \* no call
    Torn,           \* content that is not valid JSON
    MaxCalls,       \* bound: calls of each process, [Proc -> Nat]
    MaxCrashes      \* bound: deaths of a process

Row == [exec : Exec \union {NoExec}, settled : BOOLEAN]

\* The calls of ReceiptLog: record, record_simulation, update, find_by_hash.
Call ==
    [kind : {"record"}, row : [exec : Exec, settled : BOOLEAN]]
        \union [kind : {"simulate"}, row : [exec : {NoExec}, settled : {FALSE}]]
        \union [kind : {"update", "find"}, row : [exec : Exec, settled : {TRUE}]]

ASSUME FileAssumption ==
    /\ NoExec \notin Exec
    /\ None \notin Call
    /\ Torn \notin Seq(Row)
    /\ MaxCalls \in [Proc -> Nat]
    /\ MaxCrashes \in Nat

VARIABLES
    file,        \* the log: rows, or torn
    tmp,         \* the temporary file beside it, shared by all processes
    lock,        \* the mode each process holds the lock file in
    pc,          \* where each process is
    call,        \* the call it is in
    rows,        \* entries: what it parsed, with its change applied
    promised,    \* rows of the calls that returned
    calls,       \* calls of each process so far
    crashes      \* deaths so far

private == <<tmp, lock, pc, call, rows>>
counters == <<calls, crashes>>
vars == <<file, private, promised, counters>>

Writing(c) == c.kind # "find"

\* Some entry says at least what the row says.
Says(log, row) ==
    \E i \in DOMAIN log : log[i].exec = row.exec /\ (row.settled => log[i].settled)

\* Faulty: an entry takes the place of the last one.
AppliedToLast(c, log) ==
    IF Writing(c) /\ log # << >> THEN [log EXCEPT ![Len(log)] = c.row]
    ELSE IF Writing(c) THEN <<c.row>> ELSE log

\* Faulty: an entry nests the fields of the call.
AppliedNested(c, log) == IF Writing(c) THEN Append(log, c) ELSE log

\* What a call makes of the entries.
Applied(c, log) ==
    IF c.kind = "find" THEN log
    ELSE IF c.kind = "update"
    THEN [i \in DOMAIN log |->
             IF log[i].exec = c.row.exec THEN [log[i] EXCEPT !.settled = TRUE] ELSE log[i]]
    ELSE Append(log, c.row)

Init ==
    /\ file \in {<< >>, Torn}
    /\ tmp = << >>
    /\ lock = [p \in Proc |-> "none"]
    /\ pc = [p \in Proc |-> "idle"]
    /\ call = [p \in Proc |-> None]
    /\ rows = [p \in Proc |-> << >>]
    /\ promised = {}
    /\ calls = [p \in Proc |-> 0]
    /\ crashes = 0

------------------------------------------------------------------------------
Enter(p, c) ==
    /\ pc[p] = "idle"
    /\ calls[p] < MaxCalls[p]
    /\ calls' = [calls EXCEPT ![p] = @ + 1]
    /\ call' = [call EXCEPT ![p] = c]
    /\ pc' = [pc EXCEPT ![p] = "lock"]
    /\ UNCHANGED <<file, tmp, lock, rows, promised, crashes>>

\* Faulty: a writer takes the lock in shared mode, like a reader.
AcquireShared(p) ==
    /\ pc[p] = "lock"
    /\ \A q \in Proc : lock[q] # "exclusive"
    /\ lock' = [lock EXCEPT ![p] = "shared"]
    /\ pc' = [pc EXCEPT ![p] = "parse"]
    /\ UNCHANGED <<file, tmp, call, rows, promised, counters>>

\* flock: a writer waits for everybody, a reader for the writer.
Acquire(p) ==
    LET mode == IF Writing(call[p]) THEN "exclusive" ELSE "shared"
    IN  /\ pc[p] = "lock"
        /\ \A q \in Proc : lock[q] = "none" \/ (mode = "shared" /\ lock[q] = "shared")
        /\ lock' = [lock EXCEPT ![p] = mode]
        /\ pc' = [pc EXCEPT ![p] = "parse"]
        /\ UNCHANGED <<file, tmp, call, rows, promised, counters>>

\* Faulty: a file that cannot be parsed starts a new log.
ParseTornAsEmpty(p) ==
    /\ pc[p] = "parse"
    /\ rows' = [rows EXCEPT ![p] = Applied(call[p], IF file = Torn THEN << >> ELSE file)]
    /\ pc' = [pc EXCEPT ![p] = IF Writing(call[p]) THEN "parsed" ELSE "unlock"]
    /\ UNCHANGED <<file, tmp, lock, call, promised, counters>>

Parse(p) ==
    /\ pc[p] = "parse"
    /\ file # Torn
    /\ rows' = [rows EXCEPT ![p] = Applied(call[p], file)]
    /\ pc' = [pc EXCEPT ![p] = IF Writing(call[p]) THEN "parsed" ELSE "unlock"]
    /\ UNCHANGED <<file, tmp, lock, call, promised, counters>>

\* The process is out of the call and of the lock.
Leave(p) ==
    /\ lock' = [lock EXCEPT ![p] = "none"]
    /\ pc' = [pc EXCEPT ![p] = "idle"]
    /\ call' = [call EXCEPT ![p] = None]
    /\ rows' = [rows EXCEPT ![p] = << >>]

\* The ValueError leaves the file as it is and releases the lock.
ParseRaises(p) ==
    /\ pc[p] = "parse"
    /\ file = Torn
    /\ Leave(p)
    /\ UNCHANGED <<file, tmp, promised, counters>>

\* Faulty: the log itself is opened for writing, without a temporary file.
OpenInPlace(p) ==
    /\ pc[p] = "parsed"
    /\ file' = Torn
    /\ tmp' = rows[p]
    /\ pc' = [pc EXCEPT ![p] = "replace"]
    /\ UNCHANGED <<lock, call, rows, promised, counters>>

\* write_text truncates the temporary file and then fills it.
OpenTmp(p) ==
    /\ pc[p] = "parsed"
    /\ tmp' = Torn
    /\ pc' = [pc EXCEPT ![p] = "fill"]
    /\ UNCHANGED <<file, lock, call, rows, promised, counters>>

FillTmp(p) ==
    /\ pc[p] = "fill"
    /\ tmp' = rows[p]
    /\ pc' = [pc EXCEPT ![p] = "replace"]
    /\ UNCHANGED <<file, lock, call, rows, promised, counters>>

Replace(p) ==
    /\ pc[p] = "replace"
    /\ file' = tmp
    /\ tmp' = << >>
    /\ pc' = [pc EXCEPT ![p] = "unlock"]
    /\ UNCHANGED <<lock, call, rows, promised, counters>>

\* Faulty: an exception path or an early return that keeps the lock.
UnlockForgotten(p) ==
    /\ pc[p] = "unlock"
    /\ pc' = [pc EXCEPT ![p] = "idle"]
    /\ UNCHANGED <<file, tmp, lock, call, rows, promised, counters>>

\* The call returns.  An update of an execution that is not in the log has
\* changed nothing, and its caller is not told.
Unlock(p) ==
    /\ pc[p] = "unlock"
    /\ promised' = promised \union
           (IF Writing(call[p]) /\ Says(rows[p], call[p].row) THEN {call[p].row} ELSE {})
    /\ Leave(p)
    /\ UNCHANGED <<file, tmp, counters>>

\* A process dies: the kernel drops its lock, its temporary file stays.
Crash(p) ==
    /\ pc[p] # "idle"
    /\ crashes < MaxCrashes
    /\ crashes' = crashes + 1
    /\ Leave(p)
    /\ UNCHANGED <<file, tmp, promised, calls>>

------------------------------------------------------------------------------
Step(p) ==
    \/ Acquire(p) \/ Parse(p) \/ ParseRaises(p)
    \/ OpenTmp(p) \/ FillTmp(p) \/ Replace(p) \/ Unlock(p)

Next ==
    \E p \in Proc :
        \/ \E c \in Call : Enter(p, c)
        \/ Step(p)
        \/ Crash(p)

Spec == Init /\ [][Next]_vars

\* A process that is in a call keeps running.
FairSpec == Spec /\ \A p \in Proc : WF_vars(Step(p))

------------------------------------------------------------------------------
TypeOK ==
    /\ file \in Seq(Row) \union {Torn}
    /\ tmp \in Seq(Row) \union {Torn}
    /\ lock \in [Proc -> {"none", "shared", "exclusive"}]
    /\ pc \in [Proc -> {"idle", "lock", "parse", "parsed", "fill", "replace", "unlock"}]
    /\ call \in [Proc -> Call \union {None}]
    /\ rows \in [Proc -> Seq(Row)]
    /\ promised \subseteq Row
    /\ calls \in [Proc -> Nat] /\ \A p \in Proc : calls[p] <= MaxCalls[p]
    /\ crashes \in 0 .. MaxCrashes

\* A call that returned has left its entry in the log, whoever wrote or died
\* since: the resume table loses nothing it promised.
Durable == \A row \in promised : file # Torn /\ Says(file, row)

\* What a writer is about to put in the log is the log as it is now with its
\* own change applied, not the log as it was when somebody else wrote.
NoLostUpdate ==
    \A p \in Proc :
        pc[p] \in {"parsed", "fill", "replace"} => file # Torn /\ rows[p] = Applied(call[p], file)

\* "A file that cannot be parsed is left untouched and reported rather than
\* replaced", and no writer, dead or alive, tears the log.
TornLeftUntouched == [][file # Torn <=> file' # Torn]_file

\* Executions in the log.
Logged(log) == IF log = Torn THEN {} ELSE {log[i].exec : i \in DOMAIN log}

\* "It must never lose an entry": no step takes an execution out of the log.
NeverLosesAnEntry == [][Logged(file) \subseteq Logged(file')]_file

\* A call comes back: nobody keeps the lock, and nobody waits for a process
\* that died.
CallsReturn == \A p \in Proc : pc[p] = "lock" ~> pc[p] = "idle"

\* ReceiptFile implements the atomic log.
Log == INSTANCE ReceiptLog WITH
    entries <- IF file = Torn THEN << >> ELSE file

ImplementsLog == Log!LogSpec

==============================================================================
