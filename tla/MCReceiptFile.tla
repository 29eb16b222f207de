---------------------------- MODULE MCReceiptFile ----------------------------
(***************************************************************************)
(* ReceiptFile for TLC: three processes, one of which calls twice, so that *)
(* two readers can be in while a writer waits, and a process can settle or *)
(* look up what it recorded.  The merge of logs is checked on all small    *)
(* logs before.                                                            *)
(***************************************************************************)
EXTENDS ReceiptReadError, ReceiptMerge, TLC

CONSTANTS p1, p2, p3

MCProc == {p1, p2, p3}
MCCalls == p1 :> 2 @@ p2 :> 1 @@ p3 :> 1

------------------------------------------------------------------------------
\* Copies of two executions and of dry runs at two times.
MCEntry ==
    [id : {"x1", "x2"}, hash : {""}, source : {""}, recorded : 1..2, updated : 0..1]
        \union [id : {""}, hash : {""}, source : {""}, recorded : 1..2, updated : {0}]

MCLogs == UNION {[1..n -> MCEntry] : n \in 0..3}

ASSUME MergeIsUnion ==
    \A entries \in MCLogs : IsUnion(MergedEntries(entries), entries, Len(entries))

\* A strategy's log, merged into the union of the demos' log.
ASSUME MergeAccumulates ==
    \A a \in UNION {[1..n -> MCEntry] : n \in 0..2}, b \in UNION {[1..n -> MCEntry] : n \in 0..2} :
        LET demos == [source |-> "failure-modes", entries |-> a]
            strategy == [source |-> "strategy", entries |-> b]
            empty == [source |-> "", entries |-> << >>]
            union == MergeReceipts(empty, <<demos>>)
            both == MergeReceipts(union, <<strategy>>)
            again == MergeReceipts(both, <<demos, strategy>>)
            Keys(log) == {EntryKey(e) : e \in ToSet(log.entries)}
        IN  /\ IsOldestFirst(both.entries)
            /\ Keys(both) = Keys(demos) \union Keys(strategy)
            /\ Keys(again) = Keys(both)
            /\ \A e \in ToSet(again.entries), f \in ToSet(both.entries) :
                  EntryKey(e) = EntryKey(f) => e.updated = f.updated

==============================================================================
