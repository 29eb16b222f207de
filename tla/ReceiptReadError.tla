--------------------------- MODULE ReceiptReadError ---------------------------
(***************************************************************************)
(* ReceiptFile where reading the log can fail.  _parse() takes any OSError *)
(* for a missing file and starts an empty log; a read that fails while the *)
(* file is there (an I/O error, a stale network mount, a permission) is    *)
(* then followed by a rename over it.                                      *)
(***************************************************************************)
EXTENDS ReceiptFile

ParseReadError(p) ==
    /\ pc[p] = "parse"
    /\ rows' = [rows EXCEPT ![p] = Applied(call[p], << >>)]
    /\ pc' = [pc EXCEPT ![p] = IF Writing(call[p]) THEN "parsed" ELSE "unlock"]
    /\ UNCHANGED <<file, tmp, lock, call, promised, counters>>

NextReadError == Next \/ \E p \in Proc : ParseReadError(p)

SpecReadError == Init /\ [][NextReadError]_vars

==============================================================================
