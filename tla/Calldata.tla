------------------------------ MODULE Calldata ------------------------------
(***************************************************************************)
(* The decoder (almanak_keeperhub/calldata.py), over its SelectorIndex:    *)
(* compiled calldata becomes a function name, an ABI entry and arguments   *)
(* in the form KeeperHub's functionArgs takes.                             *)
(*                                                                         *)
(* An ABI input is [name, type, dims, components]; dims counts the array   *)
(* suffixes, components are empty but for a tuple.  A decoded value is a   *)
(* leaf, or a sequence for an array or a tuple.  Calldata is the selector  *)
(* it starts with (<< >> when it is shorter), the values eth_abi decodes, and *)
(* whether bytes follow that encoding the values again does not give.      *)
(***************************************************************************)
EXTENDS Naturals, Sequences, SequencesExt, TLC

RECURSIVE CanonicalType(_)
CanonicalType(input) ==
    <<input.type, input.dims, [i \in DOMAIN input.components |->
                                  CanonicalType(input.components[i])]>>

\* The hash of the signature; names are no part of it.
Selector(sig) == <<sig.name, [i \in DOMAIN sig.inputs |-> CanonicalType(sig.inputs[i])]>>

\* The names _type_to_abi_input gives the inputs of a bare signature.
ArgNames == {"arg0", "arg1", "argument"}
IsBare(sig) == \A i \in DOMAIN sig.inputs : sig.inputs[i].name \in ArgNames

\* The index of them: AddSig, IndexOf, FirstRealWins.
INSTANCE SelectorIndex

\* Every component, at any depth, gets a name.
RECURSIVE NamedInput(_, _)
NamedInput(input, fallback) ==
    [input EXCEPT
        !.name = IF @ = "" THEN fallback ELSE @,
        !.components = [i \in DOMAIN @ |-> NamedInput(@[i], "c" \o ToString(i - 1))]]

Form == [address |-> "checksummed", bool |-> "boolean", uint256 |-> "decimal", bytes |-> "hex"]

\* A tuple becomes an object; of two components with one name the last stays.
RECURSIVE JsonValue(_, _)
JsonValue(value, input) ==
    IF input.dims > 0
    THEN [i \in DOMAIN value |-> JsonValue(value[i], [input EXCEPT !.dims = @ - 1])]
    ELSE IF input.type = "tuple"
    THEN LET names == {input.components[i].name : i \in DOMAIN input.components}
             Kept(n) == CHOOSE i \in DOMAIN input.components :
                 /\ input.components[i].name = n
                 /\ \A j \in DOMAIN input.components :
                       input.components[j].name = n => j <= i
         IN  [n \in names |-> JsonValue(value[Kept(n)], input.components[Kept(n)])]
    ELSE [form |-> Form[input.type], of |-> value]

Decodable(data, index) ==
    data.selector # << >> /\ data.selector \in DOMAIN index /\ ~data.trailing

DecodeCalldata(data, valueWei, index) ==
    LET sig == index[data.selector]
        inputs == [i \in DOMAIN sig.inputs |->
                      NamedInput(sig.inputs[i], "arg" \o ToString(i - 1))]
    IN  [name |-> sig.name,
         inputs |-> inputs,
         mutability |-> IF valueWei > 0 THEN "payable" ELSE "nonpayable",
         args |-> [i \in DOMAIN inputs |-> JsonValue(data.values[i], inputs[i])]]

------------------------------------------------------------------------------
(* KeeperHub, external: it reads the arguments back by the ABI it was sent *)
(* (reshapeArgsForAbi: a tuple's components by name).                      *)
RECURSIVE ValueRead(_, _)
ValueRead(json, input) ==
    IF input.dims > 0
    THEN [i \in DOMAIN json |-> ValueRead(json[i], [input EXCEPT !.dims = @ - 1])]
    ELSE IF input.type = "tuple"
    THEN [i \in DOMAIN input.components |->
             ValueRead(json[input.components[i].name], input.components[i])]
    ELSE json.of

RECURSIVE NamesDistinct(_)
NamesDistinct(input) ==
    /\ \A i, j \in DOMAIN input.components :
          input.components[i].name = input.components[j].name => i = j
    /\ \A i \in DOMAIN input.components : NamesDistinct(input.components[i])

(* What KeeperHub reads out of the typed spelling is what was compiled, at *)
(* any nesting of tuples and arrays, when the components of each tuple     *)
(* have distinct names once the empty ones are filled.                     *)
(* (calldata.py:120-146, 209-248.)                                         *)
ReadsBack(call, data) ==
    (\A i \in DOMAIN call.inputs : NamesDistinct(call.inputs[i])) =>
        \A i \in DOMAIN call.inputs : ValueRead(call.args[i], call.inputs[i]) = data.values[i]

==============================================================================
