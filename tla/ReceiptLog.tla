------------------------------ MODULE ReceiptLog ------------------------------
(***************************************************************************)
(* What the receipts log promises its callers: entries are appended and    *)
(* settled one at a time, none is ever removed, and a call that returned   *)
(* has left its entry in the log.  ReceiptFile refines this module.        *)
(***************************************************************************)
EXTENDS Naturals, Sequences

CONSTANT Row  \* what an entry says: [exec, settled]

VARIABLES
    entries,  \* the log, oldest entry first
    promised  \* the rows that calls which returned have left in the log

logVars == <<entries, promised>>

LogInit == entries = << >> /\ promised = {}

\* Some entry says at least what the row says.
Says(log, row) ==
    \E i \in DOMAIN log : log[i].exec = row.exec /\ (row.settled => log[i].settled)

AppendEntry(row) ==
    /\ entries' = Append(entries, row)
    /\ UNCHANGED promised

\* Every entry of an execution is settled, the others are left alone.
SettleEntries(exec) ==
    /\ entries' = [i \in DOMAIN entries |->
                      IF entries[i].exec = exec THEN [entries[i] EXCEPT !.settled = TRUE]
                                                ELSE entries[i]]
    /\ UNCHANGED promised

\* A call returns; what it wrote is there.
Return(row) ==
    /\ Says(entries, row)
    /\ promised' = promised \union {row}
    /\ UNCHANGED entries

LogNext ==
    \E row \in Row : AppendEntry(row) \/ SettleEntries(row.exec) \/ Return(row)

LogSpec == LogInit /\ [][LogNext]_logVars

==============================================================================
