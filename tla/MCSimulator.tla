---------------------------- MODULE MCSimulator ----------------------------
(* Instance of Simulator for TLC: two intents that execute over one client. *)
(* The decoder under it is checked on all small inputs before.              *)
EXTENDS Simulator, Calldata

CONSTANTS deposit, other  \* the intents

MCBundles ==
    [i \in Intent |->
        IF i = deposit
        THEN {<<"known", "known">>, <<"known", "unknown">>}
        ELSE {<<"known", "known">>, <<"bare">>, << >>}]

------------------------------------------------------------------------------
MCNames == {"", "c1", "owner"}
MCLeaf == [name : MCNames, type : {"uint256"}, dims : 0..1, components : {<< >>}]
MCPair == [name : {""}, type : {"tuple"}, dims : 0..1, components : MCLeaf \X MCLeaf]
MCNested == [name : {"", "arg0"}, type : {"tuple"}, dims : {0}, components : MCLeaf \X MCPair]

\* A value of the type with every leaf different: n tells them apart.
RECURSIVE MCValue(_, _)
MCValue(input, n) ==
    IF input.dims > 0
    THEN [i \in 1..2 |-> MCValue([input EXCEPT !.dims = @ - 1], 10 * n + i)]
    ELSE IF input.type = "tuple"
    THEN [i \in DOMAIN input.components |-> MCValue(input.components[i], 10 * n + i)]
    ELSE n

MCSig(input) == [name |-> "f", inputs |-> <<input>>]

ASSUME DecodedReadsBack ==
    \A input \in MCLeaf \union MCPair \union MCNested :
        LET data == [selector |-> Selector(MCSig(input)), trailing |-> FALSE,
                     values |-> <<MCValue(input, 1)>>]
            index == IndexOf(<<MCSig(input)>>)
        IN  Decodable(data, index) /\ ReadsBack(DecodeCalldata(data, 0, index), data)

ASSUME IndexPrefersRealNames ==
    LET input(n) == [name |-> n, type |-> "uint256", dims |-> 0, components |-> << >>]
        sigs == {[name |-> f, inputs |-> <<input(n)>>] :
                    f \in {"f", "g"}, n \in {"arg0", "argument", "amount", ""}}
    IN  \A k \in 1..3 : \A list \in [1..k -> sigs] : FirstRealWins(list)

============================================================================
