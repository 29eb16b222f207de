---------------------------- MODULE ReceiptMerge ----------------------------
(***************************************************************************)
(* merge_logs (almanak_keeperhub/receipts.py) and merge-receipts (cli.py): *)
(* the union of several receipts logs, the one it wrote before included.   *)
(*                                                                         *)
(* An entry is its execution id, its hash ("" for a dry run, which has     *)
(* neither), the log it was made in and two times: recorded, and updated   *)
(* (0 when it was never updated: "" is before every timestamp).  A log is  *)
(* its source and its entries; a union has the source "".                  *)
(***************************************************************************)
EXTENDS Naturals, Sequences, SequencesExt

\* entry_key: what makes an entry the same piece of work in two logs.
EntryKey(e) ==
    IF e.id # "" THEN <<"id", e.id>>
    ELSE IF e.hash # "" THEN <<"hash", e.hash>> ELSE <<"at", e.recorded>>

\* An entry keeps the source it was saved with.
SourcedEntry(e, source) == IF e.source = "" THEN [e EXCEPT !.source = source] ELSE e

\* The entries in the order merge_logs reads them.
EntriesOf(logs) ==
    FlattenSeq([l \in DOMAIN logs |->
        [n \in DOMAIN logs[l].entries |-> SourcedEntry(logs[l].entries[n], logs[l].source)]])

\* Whether e takes the place of what the union has under its key.
TakesOver(merged, e) ==
    EntryKey(e) \in DOMAIN merged => e.updated >= merged[EntryKey(e)].updated

TakeEntry(merged, e) ==
    [k \in DOMAIN merged \union {EntryKey(e)} |->
        IF k = EntryKey(e) /\ TakesOver(merged, e) THEN e ELSE merged[k]]

NothingMerged == [k \in {} |-> k]

MergedEntries(entries) == FoldLeft(TakeEntry, NothingMerged, entries)

\* sorted(merged.values()) by recorded_at
OldestFirst(merged) ==
    SetToSortSeq({merged[k] : k \in DOMAIN merged}, LAMBDA a, b : a.recorded < b.recorded)

MergeLogs(logs) == OldestFirst(MergedEntries(EntriesOf(logs)))

\* merge-receipts: the target is one of the inputs, and is replaced.
MergeReceipts(target, logs) ==
    [source |-> "", entries |-> MergeLogs(<<target>> \o logs)]

(* The union of the first n entries: every key once, and under it the copy *)
(* that was updated last, of equal ones the one read last.                 *)
(* (receipts.py:51-68.)                                                    *)
IsUnion(merged, entries, n) ==
    /\ DOMAIN merged = {EntryKey(entries[i]) : i \in 1..n}
    /\ \A k \in DOMAIN merged :
          \E i \in 1..n :
             /\ merged[k] = entries[i] /\ EntryKey(entries[i]) = k
             /\ \A j \in 1..n : EntryKey(entries[j]) = k =>
                   \/ entries[j].updated < entries[i].updated
                   \/ entries[j].updated = entries[i].updated /\ j <= i

(* The result lists each key once, oldest first, and merging again, with   *)
(* the result as target, changes nothing.  (cli.py:461-478.)               *)
IsOldestFirst(entries) ==
    \A i, j \in DOMAIN entries : i < j =>
        /\ entries[i].recorded <= entries[j].recorded
        /\ EntryKey(entries[i]) # EntryKey(entries[j])

==============================================================================
