---------------------------- MODULE SelectorIndex ----------------------------
(***************************************************************************)
(* SelectorIndex (almanak_keeperhub/calldata.py): the signatures the       *)
(* decoder knows, by selector.  What a selector is and which signatures    *)
(* have made-up argument names is the decoder's business (Calldata).       *)
(***************************************************************************)
EXTENDS Naturals, Sequences, SequencesExt

CONSTANTS
    Selector(_), \* the selector of a signature
    IsBare(_)    \* its arguments have no names of their own

\* A real ABI wins over a bare signature for the same selector.
AddSig(index, sig) ==
    IF \/ Selector(sig) \notin DOMAIN index
       \/ IsBare(index[Selector(sig)]) /\ ~IsBare(sig)
    THEN [s \in DOMAIN index \union {Selector(sig)} |->
             IF s = Selector(sig) THEN sig ELSE index[s]]
    ELSE index

IndexOf(sigs) == FoldLeft(AddSig, << >>, sigs)

(* The index has, for every selector that was added, the first signature   *)
(* with real names, or the first one when all are bare; the order in which *)
(* signatures and ABIs are loaded decides nothing else.                    *)
(* (calldata.py:61-72.)                                                    *)
FirstRealWins(sigs) ==
    \A n \in DOMAIN sigs :
        LET same == {i \in DOMAIN sigs : Selector(sigs[i]) = Selector(sigs[n])}
            real == {i \in same : ~IsBare(sigs[i])}
        IN  IndexOf(sigs)[Selector(sigs[n])] =
                sigs[CHOOSE i \in IF real = {} THEN same ELSE real :
                        \A j \in IF real = {} THEN same ELSE real : i <= j]

==============================================================================
