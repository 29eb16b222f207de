--------------------------- MODULE SimulatorProofs ---------------------------
(***************************************************************************)
(* Theorems about Simulator, for any intents, bundles and bounds.          *)
(***************************************************************************)
EXTENDS Simulator, TLAPS

Posts == {"sequence", "single", "post"}

------------------------------------------------------------------------------
(***************************************************************************)
(* Where an execute() can go, and what of its variables stays typed.       *)
(***************************************************************************)
ExecutionType ==
    /\ caps \in [raw : Learned, seq : Learned]
    /\ pc \in [Intent -> Awaits \union {"idle"}]
    /\ dry \in [Intent -> BOOLEAN]
    /\ at \in [Intent -> Nat]
    /\ \A i \in Intent : pc[i] \in Posts => at[i] \in Positions(i)
    /\ tries \in [Intent -> 0..Attempts]
    /\ raw \in [Intent -> BOOLEAN]
    /\ proof \in [Intent -> SUBSET Nat]
    /\ outcome \in [Intent -> Outcome]

WorldType ==
    /\ bundle \in [Intent -> Seq(Kind)]
    /\ api \in [raw : BOOLEAN, seq : BOOLEAN]
    /\ keys \in [Intent -> Seq(BOOLEAN \union {None})]
    /\ \A i \in Intent : Len(keys[i]) = Len(bundle[i])
    /\ mode \in {"off", "execute", "simulate"}
    /\ account \in Wallet \union {None}
    /\ runs \in 0..MaxRuns /\ changes \in 0..MaxChanges
    /\ executes \in 0..MaxExecutes

LEMMA TypeParts == TypeOK <=> ExecutionType /\ WorldType
BY DEF TypeOK, ExecutionType, WorldType, Posts

LEMMA OutsideType ==
    ASSUME WorldType, Outside
    PROVE  WorldType'
BY DEF WorldType, Outside, bounded

LEMMA FirstPosition ==
    ASSUME WorldType, NEW i \in Intent, bundle[i] # << >>
    PROVE  1 \in Positions(i)
BY DEF WorldType, Positions

LEMMA AskType ==
    ASSUME ExecutionType, UNCHANGED bundle,
           NEW i \in Intent, NEW p \in Posts, NEW k \in Positions(i), k \in Nat,
           NEW n \in 0..Attempts, NEW c \in [raw : Learned, seq : Learned],
           Ask(i, p, k, n, c)
    PROVE  ExecutionType'
<1>1. UseRaw(i, k, c) \in BOOLEAN
  BY DEF UseRaw, RawOnly
<1>2. p \in Awaits
  BY DEF Posts, Awaits
<1>3. \A j \in Intent : pc'[j] \in Posts => at'[j] \in Positions(j)'
  BY DEF Ask, ExecutionType, Positions
<1> HIDE DEF UseRaw
<1> QED
  BY <1>1, <1>2, <1>3 DEF Ask, ExecutionType

LEMMA ProceedType ==
    ASSUME ExecutionType, UNCHANGED bundle,
           NEW i \in Intent, NEW positions \in SUBSET Nat,
           caps' \in [raw : Learned, seq : Learned],
           Proceed(i, positions)
    PROVE  ExecutionType'
<1>1. \A j \in Intent : pc'[j] \in Posts => at'[j] \in Positions(j)'
  BY DEF Proceed, Goto, ExecutionType, Positions, Posts
<1>2. 0 \in 0..Attempts
  BY SimulatorAssumption
<1> QED
  BY <1>1, <1>2 DEF Proceed, Goto, ExecutionType, Awaits

LEMMA ReturnType ==
    ASSUME ExecutionType, UNCHANGED bundle,
           NEW i \in Intent, NEW verdict \in Outcome,
           caps' \in [raw : Learned, seq : Learned],
           Return(i, verdict)
    PROVE  ExecutionType'
<1>1. \A j \in Intent : pc'[j] \in Posts => at'[j] \in Positions(j)'
  BY DEF Return, Goto, ExecutionType, Positions, Posts
<1>2. 0 \in 0..Attempts
  BY SimulatorAssumption
<1> QED
  BY <1>1, <1>2 DEF Return, Goto, ExecutionType

LEMMA StoredType ==
    ASSUME TypeOK, NEW i \in Intent, pc[i] = "post"
    PROVE  /\ Stored(i) \in [Intent -> Seq(BOOLEAN \union {None})]
           /\ \A j \in Intent : Len(Stored(i)[j]) = Len(bundle[j])
           /\ \A j \in Intent \ {i} : Stored(i)[j] = keys[j]
           /\ Stored(i)[i] = [keys[i] EXCEPT ![at[i]] = IF @ = None THEN raw[i] ELSE @]
<1> DEFINE old == keys[i]
           v == IF old[at[i]] = None THEN raw[i] ELSE old[at[i]]
           new == [old EXCEPT ![at[i]] = v]
<1>1. Stored(i) = [keys EXCEPT ![i] = new]
  BY DEF Stored
<1>2. at[i] \in 1..Len(old) /\ old \in Seq(BOOLEAN \union {None})
  BY DEF TypeOK, Positions
<1>3. v \in BOOLEAN \union {None}
  BY <1>2 DEF TypeOK
<1>4. new \in Seq(BOOLEAN \union {None}) /\ Len(new) = Len(old)
  <2> HIDE DEF v, old
  <2> QED
    BY <1>2, <1>3
<1> HIDE DEF new
<1>5. Stored(i) \in [Intent -> Seq(BOOLEAN \union {None})]
  BY <1>1, <1>4 DEF TypeOK
<1>6. \A j \in Intent : Stored(i)[j] = IF j = i THEN new ELSE keys[j]
  BY <1>1 DEF TypeOK
<1>7. \A j \in Intent : Len(Stored(i)[j]) = Len(bundle[j])
  BY <1>4, <1>6 DEF TypeOK
<1> QED
  BY <1>5, <1>6, <1>7 DEF new

LEMMA LearnRawType ==
    ASSUME ExecutionType, NEW i \in Intent
    PROVE  LearnRaw(i) \in [raw : Learned, seq : Learned]
BY DEF LearnRaw, ExecutionType, Learned

------------------------------------------------------------------------------
(***************************************************************************)
(* Type correctness.                                                       *)
(***************************************************************************)
LEMMA InitType == Init => TypeOK
<1> SUFFICES ASSUME Init PROVE TypeOK
  OBVIOUS
<1>1. bundle \in [Intent -> Seq(Kind)]
  BY SimulatorAssumption DEF Init
<1>2. \A i \in Intent : Positions(i) = 1..Len(bundle[i]) /\ Len(bundle[i]) \in Nat
  BY <1>1 DEF Positions
<1>3. \A i \in Intent : keys[i] \in Seq(BOOLEAN \union {None}) /\ Len(keys[i]) = Len(bundle[i])
  <2> TAKE i \in Intent
  <2>1. keys[i] = [k \in 1..Len(bundle[i]) |-> None]
    BY <1>2 DEF Init
  <2>2. Len(bundle[i]) \in Nat
    BY <1>2
  <2>3. keys[i] \in [1..Len(bundle[i]) -> BOOLEAN \union {None}]
    BY <2>1
  <2> QED
    BY <2>1, <2>2, <2>3
<1>4. keys \in [Intent -> Seq(BOOLEAN \union {None})]
  BY <1>3 DEF Init
<1>5. 0 \in 0..Attempts /\ 0 \in 0..MaxRuns /\ 0 \in 0..MaxExecutes /\ 0 \in 0..MaxChanges
  BY SimulatorAssumption
<1> QED
  BY <1>1, <1>3, <1>4, <1>5 DEF Init, TypeOK, Fresh, Learned, Awaits, Outcome

LEMMA BeginType == TypeOK /\ Begin => TypeOK'
<1> SUFFICES ASSUME TypeOK, NEW m \in {"execute", "simulate"}, NEW explicit, Start(m, explicit)
             PROVE  TypeOK'
  BY DEF Begin, Run, SimulateTick, RunTick
<1>1. account' \in Wallet
  BY SimulatorAssumption DEF Start, ResolveWallet
<1>2. runs' \in 0..MaxRuns
  BY SimulatorAssumption DEF Start, TypeOK
<1> QED
  BY <1>1, <1>2 DEF Start, TypeOK, execution, Positions

LEMMA ExecuteType ==
    ASSUME TypeOK, NEW i \in Intent, Execute(i)
    PROVE  TypeOK'
<1>1. executes' \in 0..MaxExecutes
  BY SimulatorAssumption DEF Execute, TypeOK
<1>2. PICK enabled \in BOOLEAN, dryRun \in BOOLEAN :
          /\ Goto(i, IF SimulationEnabled(enabled) THEN "simulate" ELSE "sign")
          /\ dry' = [dry EXCEPT ![i] = dryRun \/ mode = "simulate"]
  BY DEF Execute
<1>3. Goto(i, "simulate")
  BY <1>2 DEF SimulationEnabled
<1>4. dry' \in [Intent -> BOOLEAN]
  BY <1>2 DEF TypeOK
<1>5. 0 \in 0..Attempts
  BY SimulatorAssumption
<1>6. ExecutionType'
  <2>1. \A j \in Intent : pc'[j] \in Posts => at'[j] \in Positions(j)'
    BY <1>3, TypeParts DEF Goto, ExecutionType, Posts, Positions, Execute
  <2> QED
    BY <1>3, <1>4, <1>5, <2>1 DEF Execute, Goto, TypeOK, ExecutionType, Awaits, Outcome, client
<1>7. WorldType'
  BY <1>1 DEF Execute, TypeOK, WorldType, client
<1> QED
  BY <1>6, <1>7, TypeParts DEF TypeOK, ExecutionType, WorldType, Posts

LEMMA SimulateType ==
    ASSUME TypeOK, NEW i \in Intent, Simulate(i)
    PROVE  TypeOK'
<1>0. ExecutionType /\ WorldType
  BY TypeParts
<1>1. WorldType' /\ UNCHANGED bundle
  BY <1>0, OutsideType DEF Simulate, Outside
<1>2. 1 \in 0..Attempts
  BY SimulatorAssumption
<1>3. ExecutionType'
  <2>1. CASE bundle[i] = << >> /\ Proceed(i, {}) /\ UNCHANGED caps
    BY <1>0, <1>1, <2>1, ProceedType DEF ExecutionType
  <2>2. CASE Return(i, "undecodable") /\ UNCHANGED caps
    BY <1>0, <1>1, <2>2, ReturnType DEF ExecutionType, Outcome
  <2>3. CASE bundle[i] # << >> /\ (Ask(i, "sequence", 1, 1, caps) \/ Ask(i, "single", 1, 1, caps))
    BY <1>0, <1>1, <1>2, <2>3, AskType, FirstPosition DEF ExecutionType, Posts
  <2> QED
    BY <2>1, <2>2, <2>3 DEF Simulate
<1> QED
  BY <1>1, <1>3 DEF TypeOK, ExecutionType, WorldType, Posts

LEMMA AnsweredDryRunType ==
    ASSUME TypeOK, NEW i \in Intent,
           \/ SequenceResults(i) \/ SequenceUnsupported(i) \/ SimulationRetried(i)
           \/ SimulationUnavailable(i) \/ LearnTyped(i) \/ SingleGood(i) \/ SingleRefused(i)
    PROVE  TypeOK'
<1>0. ExecutionType /\ WorldType
  BY TypeParts
<1>1. WorldType' /\ UNCHANGED bundle
  BY <1>0, OutsideType
     DEF SequenceResults, SequenceUnsupported, SimulationRetried, SimulationUnavailable,
         LearnTyped, SingleGood, SingleRefused, Outside
<1>2. Attempts \in Nat /\ 1 \in 0..Attempts /\ tries[i] \in 0..Attempts
  BY <1>0, SimulatorAssumption DEF ExecutionType
<1>3. \A a, b \in Learned : [raw |-> a, seq |-> b] \in [raw : Learned, seq : Learned]
  OBVIOUS
<1>4. /\ [caps EXCEPT !.seq = "yes"] \in [raw : Learned, seq : Learned]
      /\ [caps EXCEPT !.seq = "no"] \in [raw : Learned, seq : Learned]
      /\ [caps EXCEPT !.raw = "no"] \in [raw : Learned, seq : Learned]
  BY <1>0 DEF ExecutionType, Learned
<1>5. pc[i] \in Posts => at[i] \in Positions(i) /\ bundle[i] # << >> /\ 1 \in Positions(i) /\ at[i] \in Nat
  BY <1>0 DEF ExecutionType, WorldType, Positions
<1>6. CASE SequenceResults(i)
  <2>1. PICK good \in Nat :
            \/ Return(i, "refused") \/ Return(i, "unavailable") \/ Proceed(i, 1..good)
    BY <1>6 DEF SequenceResults
  <2>2. caps' \in [raw : Learned, seq : Learned]
    BY <1>4, <1>6 DEF SequenceResults
  <2>3. 1..good \in SUBSET Nat
    OBVIOUS
  <2>4. ExecutionType'
    BY <1>0, <1>1, <2>1, <2>2, <2>3, ReturnType, ProceedType DEF Outcome
  <2> QED
    BY <1>1, <2>4 DEF TypeOK, ExecutionType, WorldType, Posts
<1>7. CASE SequenceUnsupported(i)
  <2>1. Ask(i, "single", 1, 1, [caps EXCEPT !.seq = "no"]) /\ 1 \in Positions(i)
    BY <1>5, <1>7 DEF SequenceUnsupported, Posts
  <2>2. ExecutionType'
    BY <1>0, <1>1, <1>2, <1>4, <2>1, AskType DEF Posts
  <2> QED
    BY <1>1, <2>2 DEF TypeOK, ExecutionType, WorldType, Posts
<1>8. CASE SimulationRetried(i)
  <2>1. Attempt(i) \in 0..Attempts
    BY <1>2, <1>8 DEF SimulationRetried, Attempt
  <2>2. PICK p \in {"sequence", "single"}, n \in 0..Attempts : Ask(i, p, 1, n, caps)
    BY <1>2, <1>8, <2>1 DEF SimulationRetried
  <2>3. 1 \in Positions(i)
    BY <1>5, <1>8 DEF SimulationRetried, Posts
  <2>4. ExecutionType'
    BY <1>0, <1>1, <2>2, <2>3, AskType DEF Posts, ExecutionType
  <2> QED
    BY <1>1, <2>4 DEF TypeOK, ExecutionType, WorldType, Posts
<1>9. CASE SimulationUnavailable(i) \/ SingleRefused(i)
  <2>1. ExecutionType'
    BY <1>0, <1>1, <1>9, ReturnType DEF SimulationUnavailable, SingleRefused, Outcome, ExecutionType
  <2> QED
    BY <1>1, <2>1 DEF TypeOK, ExecutionType, WorldType, Posts
<1>10. CASE LearnTyped(i)
  <2>1. CASE RawOnly(i, at[i])
    <3>1. caps' \in [raw : Learned, seq : Learned]
      BY <1>4, <1>10, <2>1 DEF LearnTyped
    <3>2. Return(i, "unavailable") \/ Return(i, "failed")
      BY <1>10, <2>1 DEF LearnTyped
    <3> QED
      BY <1>0, <1>1, <3>1, <3>2, ReturnType DEF Outcome, TypeOK, ExecutionType, WorldType, Posts
  <2>2. CASE ~RawOnly(i, at[i])
    <3>1. Ask(i, pc[i], at[i], tries[i], [caps EXCEPT !.raw = "no"])
      BY <1>10, <2>2 DEF LearnTyped
    <3>2. pc[i] \in Posts
      BY <1>10 DEF LearnTyped, Posting, Posts
    <3>3. ExecutionType'
      BY <1>0, <1>1, <1>2, <1>4, <1>5, <3>1, <3>2, AskType
    <3> QED
      BY <1>1, <3>3 DEF TypeOK, ExecutionType, WorldType, Posts
  <2> QED
    BY <2>1, <2>2
<1>11. CASE SingleGood(i)
  <2>1. caps' \in [raw : Learned, seq : Learned]
    BY <1>0, <1>11, LearnRawType DEF SingleGood
  <2>2. ExecutionType'
    BY <1>0, <1>1, <1>11, <2>1, ProceedType DEF SingleGood
  <2> QED
    BY <1>1, <2>2 DEF TypeOK, ExecutionType, WorldType, Posts
<1> QED
  BY <1>6, <1>7, <1>8, <1>9, <1>10, <1>11

LEMMA SignType ==
    ASSUME TypeOK, NEW i \in Intent, Sign(i)
    PROVE  TypeOK'
<1>0. ExecutionType /\ WorldType
  BY TypeParts
<1>1. WorldType' /\ UNCHANGED bundle
  BY <1>0, OutsideType DEF Sign, Outside
<1>2. 1 \in 0..Attempts
  BY SimulatorAssumption
<1>3. ExecutionType'
  <2>1. CASE \E verdict \in {"undecodable", "dry", "sent"} : Return(i, verdict) /\ UNCHANGED caps
    BY <1>0, <1>1, <2>1, ReturnType DEF ExecutionType, Outcome
  <2>2. CASE bundle[i] # << >> /\ Ask(i, "post", 1, 1, caps)
    BY <1>0, <1>1, <1>2, <2>2, AskType, FirstPosition DEF ExecutionType, Posts
  <2> QED
    BY <2>1, <2>2 DEF Sign
<1> QED
  BY <1>1, <1>3 DEF TypeOK, ExecutionType, WorldType, Posts

LEMMA AnsweredPostType ==
    ASSUME TypeOK, NEW i \in Intent,
           Accepted(i) \/ Conflicting(i) \/ PostFails(i) \/ PostRetried(i)
    PROVE  TypeOK'
<1>0. ExecutionType /\ WorldType
  BY TypeParts
<1>1. /\ pc[i] = "post" /\ at[i] \in Positions(i) /\ Positions(i) = 1..Len(bundle[i])
      /\ Len(bundle[i]) \in Nat
  BY <1>0 DEF ExecutionType, WorldType, Posts, Positions,
              Accepted, Conflicting, PostFails, PostRetried, Receivable
<1>2. keys' \in {keys, Stored(i)}
  BY DEF Accepted, Conflicting, PostFails, PostRetried, Outside
<1>3. UNCHANGED <<bundle, api, mode, account, runs, executes, changes>>
  BY DEF Accepted, Conflicting, PostFails, PostRetried, Outside, bounded
<1>4. WorldType'
  <2>1. CASE keys' = keys
    BY <1>0, <1>3, <2>1 DEF WorldType
  <2>2. CASE keys' = Stored(i)
    <3> HIDE DEF Stored
    <3>1. /\ Stored(i) \in [Intent -> Seq(BOOLEAN \union {None})]
          /\ \A j \in Intent : Len(Stored(i)[j]) = Len(bundle[j])
      BY <1>1, StoredType
    <3> QED
      BY <1>0, <1>3, <2>2, <3>1 DEF WorldType
  <2> QED
    BY <1>2, <2>1, <2>2
<1>5. Attempts \in Nat /\ 1 \in 0..Attempts /\ tries[i] \in 0..Attempts
  BY <1>0, SimulatorAssumption DEF ExecutionType
<1>6. ExecutionType'
  <2>1. CASE Accepted(i)
    <3>1. CASE at[i] < Len(bundle[i])
      <4>1. at[i] + 1 \in Positions(i) /\ at[i] + 1 \in Nat
        BY <1>1, <3>1
      <4>2. Ask(i, "post", at[i] + 1, 1, LearnRaw(i))
        BY <2>1, <3>1 DEF Accepted
      <4> HIDE DEF LearnRaw
      <4> QED
        BY <1>0, <1>3, <1>5, <4>1, <4>2, AskType, LearnRawType DEF Posts
    <3>2. CASE ~(at[i] < Len(bundle[i]))
      BY <1>0, <1>3, <2>1, <3>2, ReturnType, LearnRawType DEF Accepted, Outcome
    <3> QED
      BY <3>1, <3>2
  <2>2. CASE Conflicting(i) \/ PostFails(i)
    BY <1>0, <1>3, <2>2, ReturnType DEF Conflicting, PostFails, Outcome, ExecutionType
  <2>3. CASE PostRetried(i)
    <3>1. Attempt(i) \in 0..Attempts
      BY <1>5, <2>3 DEF PostRetried, Attempt
    <3>2. Ask(i, "post", at[i], Attempt(i), caps) /\ at[i] \in Nat
      BY <1>1, <2>3 DEF PostRetried
    <3> HIDE DEF Attempt
    <3> QED
      BY <1>0, <1>1, <1>3, <3>1, <3>2, AskType DEF Posts, ExecutionType
  <2> QED
    BY <2>1, <2>2, <2>3
<1> QED
  BY <1>4, <1>6 DEF TypeOK, ExecutionType, WorldType, Posts

LEMMA StopType == TypeOK /\ Stop => TypeOK'
<1> SUFFICES ASSUME TypeOK, Stop PROVE TypeOK'
  OBVIOUS
<1>1. PICK arrives \in SUBSET {i \in Intent : Receivable(i)} :
          keys' = [i \in Intent |-> IF i \in arrives THEN Stored(i)[i] ELSE keys[i]]
  BY DEF Stop
<1>2. \A i \in Intent : keys'[i] \in Seq(BOOLEAN \union {None}) /\ Len(keys'[i]) = Len(bundle[i])
  <2> HIDE DEF Stored
  <2> TAKE i \in Intent
  <2>1. CASE i \in arrives
    <3>1. pc[i] = "post"
      BY <2>1 DEF Receivable
    <3>2. Stored(i)[i] \in Seq(BOOLEAN \union {None}) /\ Len(Stored(i)[i]) = Len(bundle[i])
      BY <3>1, StoredType
    <3> QED
      BY <1>1, <2>1, <3>2
  <2>2. CASE i \notin arrives
    BY <1>1, <2>2 DEF TypeOK
  <2> QED
    BY <2>1, <2>2
<1>3. keys' \in [Intent -> Seq(BOOLEAN \union {None})]
  BY <1>1, <1>2
<1>4. 0 \in 0..Attempts
  BY SimulatorAssumption
<1> QED
  BY <1>2, <1>3, <1>4 DEF Stop, TypeOK, Fresh, Learned, Awaits, bounded

LEMMA NextType == TypeOK /\ [Next]_vars => TypeOK'
<1> SUFFICES ASSUME TypeOK, [Next]_vars PROVE TypeOK'
  OBVIOUS
<1>1. CASE ApiChanges
  <2>1. changes' \in 0..MaxChanges
    BY <1>1, SimulatorAssumption DEF ApiChanges, TypeOK
  <2> QED
    BY <1>1, <2>1 DEF ApiChanges, TypeOK, client, execution, Positions
<1>2. CASE UNCHANGED vars
  BY <1>2 DEF vars, client, execution, bounded, TypeOK, Positions
<1> QED
  BY <1>1, <1>2, BeginType, StopType, ExecuteType, SimulateType, SignType,
     AnsweredDryRunType, AnsweredPostType DEF Next, Answered

(* The types, the retry bounds and the positions that requests are made    *)
(* for hold in every reachable state.                                      *)
THEOREM TypeCorrect == Spec => []TypeOK
BY InitType, NextType, PTL DEF Spec

------------------------------------------------------------------------------
(***************************************************************************)
(* The spelling of a body.  While KeeperHub stays as it is there is one    *)
(* spelling for each call, and what is on its way has it or is rejected.   *)
(***************************************************************************)
Truthful(c) ==
    /\ c.raw \in {"unknown", IF api.raw THEN "yes" ELSE "no"}
    /\ c.seq \in {"unknown", IF api.seq THEN "yes" ELSE "no"}

Spelling(i, k) == IF RawOnly(i, k) THEN TRUE ELSE api.raw

KeysSpelled ==
    \A i \in Intent : \A k \in Positions(i) :
        keys[i][k] # None => keys[i][k] = Spelling(i, k)

RequestsSpelled ==
    \A i \in Intent : pc[i] \in {"single", "post"} /\ ~raw[i] =>
        ~RawOnly(i, at[i]) /\ ~api.raw

Spelled ==
    changes = 0 =>
        /\ Truthful(caps) /\ KeysSpelled /\ RequestsSpelled
        /\ \A i \in Intent : outcome[i] # "conflict"

LEMMA SpelledByAsk ==
    ASSUME TypeOK, Truthful(caps), RequestsSpelled,
           UNCHANGED <<bundle, api>>,
           NEW i \in Intent, NEW p \in Posts, NEW k, NEW n,
           NEW c \in [raw : Learned, seq : Learned], Truthful(c), Ask(i, p, k, n, c)
    PROVE  Truthful(caps)' /\ RequestsSpelled' /\ UNCHANGED outcome
<1>1. Truthful(caps)'
  BY DEF Ask, Truthful
<1>2. ~UseRaw(i, k, c) => ~RawOnly(i, k) /\ ~api.raw
  BY DEF UseRaw, Truthful
<1>3. \A j \in Intent : pc'[j] \in {"single", "post"} /\ ~raw'[j] =>
          ~RawOnly(j, at[j])' /\ ~api'.raw
  <2> TAKE j \in Intent
  <2>1. CASE j = i
    <3>1. raw'[i] = UseRaw(i, k, c) /\ at'[i] = k
      BY DEF Ask, TypeOK
    <3>2. RawOnly(i, at[i])' = RawOnly(i, k)
      BY <3>1 DEF RawOnly
    <3> HIDE DEF UseRaw
    <3> QED
      BY <1>2, <2>1, <3>1, <3>2
  <2>2. CASE j # i
    <3>1. raw'[j] = raw[j] /\ at'[j] = at[j] /\ pc'[j] = pc[j]
      BY <2>2 DEF Ask, TypeOK
    <3> QED
      BY <3>1 DEF RequestsSpelled, RawOnly
  <2> QED
    BY <2>1, <2>2
<1> QED
  BY <1>1, <1>3 DEF Ask, RequestsSpelled

LEMMA SpelledByGoto ==
    ASSUME TypeOK, RequestsSpelled, UNCHANGED <<bundle, api>>,
           NEW i \in Intent, NEW p, p \notin {"single", "post"}, Goto(i, p)
    PROVE  RequestsSpelled'
BY DEF Goto, RequestsSpelled, RawOnly, TypeOK

LEMMA SpelledKeys ==
    ASSUME TypeOK, KeysSpelled, RequestsSpelled, NEW i \in Intent, Receivable(i)
    PROVE  \A j \in Intent : \A k \in Positions(j) :
               Stored(i)[j][k] # None => Stored(i)[j][k] = Spelling(j, k)
<1>1. pc[i] = "post" /\ (raw[i] => api.raw)
  BY DEF Receivable, ShapeRejected
<1>2. raw[i] = Spelling(i, at[i])
  BY <1>1 DEF RequestsSpelled, Spelling, TypeOK
<1>3. /\ \A j \in Intent \ {i} : Stored(i)[j] = keys[j]
      /\ Stored(i)[i] = [keys[i] EXCEPT ![at[i]] = IF @ = None THEN raw[i] ELSE @]
  BY <1>1, StoredType
<1> HIDE DEF Stored
<1>4. \A k \in Positions(i) :
          Stored(i)[i][k] = IF k = at[i] /\ keys[i][k] = None THEN raw[i] ELSE keys[i][k]
  <2>1. Positions(i) = DOMAIN keys[i] /\ at[i] \in Positions(i)
    BY <1>1 DEF TypeOK, Positions
  <2> QED
    BY <1>3, <2>1
<1> HIDE DEF Spelling
<1>5. SUFFICES ASSUME NEW j \in Intent, NEW k \in Positions(j), Stored(i)[j][k] # None
               PROVE  Stored(i)[j][k] = Spelling(j, k)
  OBVIOUS
<1>6. CASE j # i
  <2>1. Stored(i)[j][k] = keys[j][k]
    BY <1>3, <1>6
  <2> QED
    BY <1>5, <2>1 DEF KeysSpelled
<1>7. CASE j = i
  <2>1. CASE k = at[i] /\ keys[i][k] = None
    BY <1>2, <1>4, <1>7, <2>1
  <2>2. CASE ~(k = at[i] /\ keys[i][k] = None)
    BY <1>4, <1>5, <1>7, <2>2 DEF KeysSpelled
  <2> QED
    BY <2>1, <2>2
<1> QED
  BY <1>6, <1>7

LEMMA SpelledNext ==
    ASSUME TypeOK, Spelled, [Next]_vars
    PROVE  Spelled'
<1> SUFFICES ASSUME changes' = 0
             PROVE  /\ Truthful(caps)' /\ KeysSpelled' /\ RequestsSpelled'
                    /\ \A i \in Intent : outcome'[i] # "conflict"
  BY DEF Spelled
<1>0. /\ Truthful(caps) /\ KeysSpelled /\ RequestsSpelled
      /\ \A i \in Intent : outcome[i] # "conflict"
      /\ UNCHANGED <<bundle, api, changes>>
  <2>1. changes \in Nat
    BY SimulatorAssumption DEF TypeOK
  <2>2. UNCHANGED <<bundle, api, changes>>
    BY <2>1 DEF Next, ApiChanges, Begin, Run, SimulateTick, RunTick, Start, Stop, Execute, Simulate,
           Sign, Answered, SequenceResults, SequenceUnsupported, SimulationRetried,
           SimulationUnavailable, LearnTyped, SingleGood, SingleRefused, Accepted, Conflicting,
           PostFails, PostRetried, Outside, bounded, vars
  <2> QED
    BY <2>2 DEF Spelled
<1> USE <1>0
<1>1. caps \in [raw : Learned, seq : Learned] /\ Truthful(caps)
  BY DEF TypeOK
<1>2. ASSUME UNCHANGED keys PROVE KeysSpelled'
  BY <1>2 DEF KeysSpelled, Positions, Spelling, RawOnly
<1>3. ASSUME NEW i \in Intent, NEW verdict, verdict # "conflict", Return(i, verdict)
      PROVE  RequestsSpelled' /\ \A j \in Intent : outcome'[j] # "conflict"
  BY <1>3, SpelledByGoto DEF Return, TypeOK
<1>4. ASSUME NEW i \in Intent, NEW positions, Proceed(i, positions)
      PROVE  RequestsSpelled' /\ \A j \in Intent : outcome'[j] # "conflict"
  BY <1>4, SpelledByGoto DEF Proceed
<1>5. ASSUME NEW i \in Intent, NEW p \in Posts, NEW k, NEW n,
             NEW c \in [raw : Learned, seq : Learned], Truthful(c), Ask(i, p, k, n, c)
      PROVE  /\ Truthful(caps)' /\ RequestsSpelled'
             /\ \A j \in Intent : outcome'[j] # "conflict"
  BY <1>5, SpelledByAsk
<1>6. ASSUME UNCHANGED caps PROVE Truthful(caps)'
  BY <1>6 DEF Truthful
<1>7. CASE Begin
  BY <1>7, <1>2, <1>6 DEF Begin, Run, SimulateTick, RunTick, Start, execution, RequestsSpelled, RawOnly
<1>8. CASE Stop
  <2>1. PICK arrives \in SUBSET {i \in Intent : Receivable(i)} :
            keys' = [i \in Intent |-> IF i \in arrives THEN Stored(i)[i] ELSE keys[i]]
    BY <1>8 DEF Stop
  <2>2. KeysSpelled'
    <3> HIDE DEF Stored, Receivable, Spelling
    <3>1. \A i \in arrives : i \in Intent /\ Receivable(i)
      OBVIOUS
    <3>2. \A i \in arrives : \A k \in Positions(i) :
              Stored(i)[i][k] # None => Stored(i)[i][k] = Spelling(i, k)
      BY <3>1, SpelledKeys
    <3>3. \A i \in Intent : \A k \in Positions(i) :
              keys'[i][k] # None => keys'[i][k] = Spelling(i, k)
      BY <2>1, <3>2 DEF KeysSpelled
    <3> QED
      BY <3>3 DEF KeysSpelled, Positions, Spelling, RawOnly
  <2> QED
    BY <1>8, <2>2 DEF Stop, Fresh, Truthful, RequestsSpelled
<1>9. ASSUME NEW i \in Intent, Execute(i)
      PROVE  /\ Truthful(caps)' /\ KeysSpelled' /\ RequestsSpelled'
             /\ \A j \in Intent : outcome'[j] # "conflict"
  <2>1. Goto(i, "simulate")
    BY <1>9 DEF Execute, SimulationEnabled
  <2> QED
    BY <1>2, <1>6, <1>9, <2>1, SpelledByGoto DEF Execute, client, TypeOK
<1>10. ASSUME NEW i \in Intent, Simulate(i) \/ Sign(i)
       PROVE  /\ Truthful(caps)' /\ KeysSpelled' /\ RequestsSpelled'
              /\ \A j \in Intent : outcome'[j] # "conflict"
  <2>1. KeysSpelled'
    BY <1>2, <1>10 DEF Simulate, Sign, Outside
  <2>2. CASE /\ UNCHANGED caps
             /\ \/ Proceed(i, {})
                \/ \E verdict \in {"undecodable", "dry", "sent"} : Return(i, verdict)
    BY <1>3, <1>4, <1>6, <2>1, <2>2
  <2>3. CASE \E p \in Posts : Ask(i, p, 1, 1, caps)
    BY <1>1, <1>5, <2>1, <2>3
  <2> QED
    BY <1>10, <2>2, <2>3 DEF Simulate, Sign, Posts
<1>11. ASSUME NEW i \in Intent, Answered(i)
       PROVE  /\ Truthful(caps)' /\ KeysSpelled' /\ RequestsSpelled'
              /\ \A j \in Intent : outcome'[j] # "conflict"
  <2>1. CASE SequenceResults(i)
    <3>1. Truthful(caps)'
      BY <1>1, <2>1 DEF SequenceResults, Truthful
    <3>2. KeysSpelled'
      BY <1>2, <2>1 DEF SequenceResults, Outside
    <3> QED
      BY <1>3, <1>4, <2>1, <3>1, <3>2 DEF SequenceResults
  <2>2. CASE SequenceUnsupported(i)
    <3>1. [caps EXCEPT !.seq = "no"] \in [raw : Learned, seq : Learned]
      BY <1>1 DEF Learned
    <3>2. Truthful([caps EXCEPT !.seq = "no"])
      BY <1>1, <2>2 DEF SequenceUnsupported, Truthful
    <3> QED
      BY <1>2, <1>5, <2>2, <3>1, <3>2 DEF SequenceUnsupported, Outside, Posts
  <2>3. CASE SimulationRetried(i)
    <3>1. KeysSpelled' /\ \E p \in Posts, n \in {1, Attempt(i)} : Ask(i, p, 1, n, caps)
      BY <1>2, <2>3 DEF SimulationRetried, Outside, Posts
    <3> QED
      BY <1>1, <1>5, <3>1
  <2>4. CASE SimulationUnavailable(i) \/ SingleRefused(i) \/ PostFails(i)
    BY <1>2, <1>3, <1>6, <2>4 DEF SimulationUnavailable, SingleRefused, PostFails, Outside
  <2>5. CASE LearnTyped(i)
    <3>1. [caps EXCEPT !.raw = "no"] \in [raw : Learned, seq : Learned]
      BY <1>1 DEF Learned
    <3>2. Truthful([caps EXCEPT !.raw = "no"])
      BY <1>1, <2>5 DEF LearnTyped, RejectsUnknownShape, ShapeRejected, Truthful
    <3>3. KeysSpelled' /\ pc[i] \in Posts
      BY <1>2, <2>5 DEF LearnTyped, Posting, Outside, Posts
    <3>4. CASE RawOnly(i, at[i])
      BY <1>3, <2>5, <3>2, <3>3, <3>4 DEF LearnTyped, Truthful
    <3>5. CASE ~RawOnly(i, at[i])
      BY <1>5, <2>5, <3>1, <3>2, <3>3, <3>5 DEF LearnTyped
    <3> QED
      BY <3>4, <3>5
  <2>6. Posting(i) /\ ~ShapeRejected(i) =>
            LearnRaw(i) \in [raw : Learned, seq : Learned] /\ Truthful(LearnRaw(i))
    BY <1>1 DEF ShapeRejected, LearnRaw, Truthful, Learned
  <2>7. CASE SingleGood(i)
    BY <1>2, <1>4, <2>6, <2>7 DEF SingleGood, Posting, Outside, Truthful
  <2>8. CASE Accepted(i)
    <3>1. KeysSpelled'
      <4> HIDE DEF Stored, Receivable, Spelling
      <4>1. \A j \in Intent : \A k \in Positions(j) :
               keys'[j][k] # None => keys'[j][k] = Spelling(j, k)
        BY <2>8, SpelledKeys DEF Accepted
      <4> QED
        BY <4>1 DEF KeysSpelled, Positions, Spelling, RawOnly
    <3>2. LearnRaw(i) \in [raw : Learned, seq : Learned] /\ Truthful(LearnRaw(i))
      BY <2>6, <2>8 DEF Accepted, Receivable, Posting
    <3>3. CASE at[i] < Len(bundle[i])
      BY <1>5, <2>8, <3>1, <3>2, <3>3 DEF Accepted, Posts
    <3>4. CASE ~(at[i] < Len(bundle[i]))
      BY <1>3, <2>8, <3>1, <3>2, <3>4 DEF Accepted, Truthful
    <3> QED
      BY <3>3, <3>4
  <2>9. CASE Conflicting(i)
    <3>1. pc[i] = "post" /\ (raw[i] => api.raw) /\ keys[i][at[i]] \notin {None, raw[i]}
      BY <2>9 DEF Conflicting, ShapeRejected, Conflict
    <3>2. raw[i] = Spelling(i, at[i])
      BY <3>1 DEF RequestsSpelled, Spelling, TypeOK
    <3>3. at[i] \in Positions(i)
      BY <3>1 DEF TypeOK
    <3> QED
      BY <3>1, <3>2, <3>3 DEF KeysSpelled
  <2>10. CASE PostRetried(i)
    <3>1. KeysSpelled'
      <4>1. CASE keys' = keys
        BY <1>2, <4>1
      <4>2. CASE Receivable(i) /\ keys' = Stored(i)
        <5> HIDE DEF Stored, Receivable, Spelling
        <5>1. \A j \in Intent : \A k \in Positions(j) :
                 keys'[j][k] # None => keys'[j][k] = Spelling(j, k)
          BY <4>2, SpelledKeys
        <5> QED
          BY <5>1 DEF KeysSpelled, Positions, Spelling, RawOnly
      <4> QED
        BY <2>10, <4>1, <4>2 DEF PostRetried
    <3> QED
      BY <1>1, <1>5, <2>10, <3>1 DEF PostRetried, Posts
  <2> QED
    BY <1>11, <2>1, <2>2, <2>3, <2>4, <2>5, <2>7, <2>8, <2>9, <2>10 DEF Answered
<1>12. CASE ApiChanges
  <2>1. changes \in Nat
    BY SimulatorAssumption DEF TypeOK
  <2> QED
    BY <1>12, <2>1 DEF ApiChanges
<1>13. CASE UNCHANGED vars
  BY <1>2, <1>6, <1>13 DEF vars, client, execution, RequestsSpelled, RawOnly
<1> QED
  BY <1>7, <1>8, <1>9, <1>10, <1>11, <1>12, <1>13 DEF Next

LEMMA SpelledInit == Init => Spelled
BY DEF Init, Spelled, Truthful, Fresh, KeysSpelled, RequestsSpelled

(* While KeeperHub is not redeployed, what a process learns of it is true  *)
(* and no retry meets an idempotency conflict, for any number of           *)
(* processes, intents and lost answers.                                    *)
THEOREM SpellingIsStable == Spec => []SameSpelling
<1>1. Init => TypeOK /\ Spelled
  BY InitType, SpelledInit
<1>2. TypeOK /\ Spelled /\ [Next]_vars => (TypeOK /\ Spelled)'
  BY NextType, SpelledNext
<1>3. TypeOK /\ Spelled => SameSpelling
  BY DEF Spelled, Truthful, SameSpelling
<1> QED
  BY <1>1, <1>2, <1>3, PTL DEF Spec

------------------------------------------------------------------------------
(***************************************************************************)
(* What a dry run vouches for.  An execute() that awaits a single dry run  *)
(* has one call, or an API that cannot chain its calls; one that signs or  *)
(* broadcasts has been vouched for; and it does not submit when the        *)
(* process, or the runner, only simulates.                                 *)
(***************************************************************************)
FirstOnly(i) == caps.seq = "no" \/ ~Chainable(i) \/ changes > 0

VouchedFor(i) ==
    /\ pc[i] = "single" => Len(bundle[i]) = 1 \/ FirstOnly(i)
    /\ pc[i] \in {"sign", "post"} => Proven(i)
    /\ pc[i] # "idle" => mode # "off" /\ (mode = "simulate" => dry[i])
    /\ pc[i] = "post" => ~dry[i]

Vouched ==
    /\ \A i \in Intent : VouchedFor(i)
    /\ mode # "off" => account = OrgWallet

LEMMA ProvenForm ==
    ASSUME NEW i \in Intent
    PROVE  Proven(i) <=> proof[i] = Positions(i) \/ (1 \in proof[i] /\ FirstOnly(i))
BY DEF Proven, FirstOnly

\* One execution's step, by where it leaves its execute().
LEMMA VouchedStep ==
    ASSUME TypeOK, Vouched, UNCHANGED <<bundle, mode, account, changes>>,
           NEW i \in Intent,
           \A j \in Intent : FirstOnly(j) => FirstOnly(j)',
           \A j \in Intent \ {i} : /\ pc'[j] = pc[j]
                                   /\ dry'[j] = dry[j]
                                   /\ proof'[j] = proof[j],
           VouchedFor(i)'
    PROVE  Vouched'
<1> SUFFICES ASSUME NEW j \in Intent, j # i PROVE VouchedFor(j)'
  BY DEF Vouched
<1>1. VouchedFor(j) /\ (FirstOnly(j) => FirstOnly(j)')
  BY DEF Vouched
<1>2. pc'[j] = pc[j] /\ dry'[j] = dry[j] /\ proof'[j] = proof[j] /\ Positions(j)' = Positions(j)
  BY DEF Positions
<1>3. Proven(j) => Proven(j)'
  BY <1>1, <1>2, ProvenForm DEF Proven, FirstOnly
<1> HIDE DEF Proven, FirstOnly
<1> QED
  BY <1>1, <1>2, <1>3 DEF VouchedFor

LEMMA AskOthers ==
    ASSUME TypeOK, NEW i \in Intent, NEW p, NEW k, NEW n, NEW c, Ask(i, p, k, n, c)
    PROVE  /\ pc'[i] = p /\ dry' = dry /\ proof' = proof
           /\ \A j \in Intent \ {i} : pc'[j] = pc[j]
BY DEF Ask, TypeOK

LEMMA ReturnOthers ==
    ASSUME TypeOK, NEW i \in Intent, NEW verdict, Return(i, verdict)
    PROVE  /\ pc'[i] = "idle"
           /\ \A j \in Intent \ {i} : /\ pc'[j] = pc[j] /\ dry'[j] = dry[j]
                                      /\ proof'[j] = proof[j]
BY DEF Return, Goto, TypeOK

LEMMA ProceedOthers ==
    ASSUME TypeOK, NEW i \in Intent, NEW positions, Proceed(i, positions)
    PROVE  /\ pc'[i] = "sign" /\ proof'[i] = positions /\ dry' = dry
           /\ \A j \in Intent \ {i} : pc'[j] = pc[j] /\ proof'[j] = proof[j]
BY DEF Proceed, Goto, TypeOK

\* A client that has learned that sequences are not supported unlearns it
\* only when KeeperHub has changed.
LEMMA FirstOnlyKept ==
    ASSUME TypeOK, Spelled, NEW i \in Intent,
           Simulate(i) \/ Sign(i) \/ Answered(i)
    PROVE  \A j \in Intent : FirstOnly(j) => FirstOnly(j)'
<1>1. UNCHANGED <<bundle, changes>>
  BY DEF Simulate, Sign, Answered, SequenceResults, SequenceUnsupported, SimulationRetried,
         SimulationUnavailable, LearnTyped, SingleGood, SingleRefused, Accepted, Conflicting,
         PostFails, PostRetried, Outside, bounded
<1>2. \A j \in Intent : Chainable(j)' <=> Chainable(j)
  BY <1>1 DEF Chainable, Positions, RawOnly
<1>3. changes \in Nat
  BY SimulatorAssumption DEF TypeOK
<1>4. changes = 0 /\ caps.seq = "no" => caps'.seq = "no"
  <2> SUFFICES ASSUME changes = 0, caps.seq = "no" PROVE caps'.seq = "no"
    OBVIOUS
  <2>1. ~api.seq
    BY DEF Spelled, Truthful
  <2>2. caps \in [raw : Learned, seq : Learned]
    BY DEF TypeOK
  <2>3. LearnRaw(i).seq = "no"
    BY <2>2 DEF LearnRaw
  <2>4. [caps EXCEPT !.raw = "no"].seq = "no" /\ [caps EXCEPT !.seq = "no"].seq = "no"
    BY <2>2
  <2> HIDE DEF LearnRaw
  <2> QED
    BY <2>1, <2>3, <2>4
       DEF Simulate, Sign, Answered, SequenceResults, SequenceUnsupported, SimulationRetried,
           SimulationUnavailable, LearnTyped, SingleGood, SingleRefused, Accepted, Conflicting,
           PostFails, PostRetried, Ask
<1> HIDE DEF Chainable
<1> QED
  BY <1>1, <1>2, <1>3, <1>4 DEF FirstOnly

LEMMA VouchedReturn ==
    ASSUME TypeOK, Vouched, UNCHANGED <<bundle, mode, account, changes>>,
           NEW i \in Intent, NEW verdict, Return(i, verdict),
           \A j \in Intent : FirstOnly(j) => FirstOnly(j)'
    PROVE  Vouched'
BY ReturnOthers, VouchedStep DEF VouchedFor

LEMMA VouchedProceed ==
    ASSUME TypeOK, Vouched, UNCHANGED <<bundle, mode, account, changes>>,
           NEW i \in Intent, pc[i] # "idle", NEW positions, Proceed(i, positions),
           \A j \in Intent : FirstOnly(j) => FirstOnly(j)',
           positions = Positions(i) \/ (1 \in positions /\ FirstOnly(i))
    PROVE  Vouched'
<1>1. /\ pc'[i] = "sign" /\ proof'[i] = positions /\ dry' = dry
      /\ \A j \in Intent \ {i} : pc'[j] = pc[j] /\ proof'[j] = proof[j]
  BY ProceedOthers
<1>2. Proven(i)'
  <2>1. Positions(i)' = Positions(i)
    BY DEF Positions
  <2> QED
    BY <1>1, <2>1 DEF Proven, FirstOnly
<1>3. VouchedFor(i)'
  <2> HIDE DEF Proven
  <2> QED
    BY <1>1, <1>2 DEF VouchedFor, Vouched
<1> QED
  BY <1>1, <1>3, VouchedStep

LEMMA VouchedAsk ==
    ASSUME TypeOK, Vouched, UNCHANGED <<bundle, mode, account, changes>>,
           NEW i \in Intent, pc[i] # "idle", NEW p \in Posts, NEW k, NEW n, NEW c, Ask(i, p, k, n, c),
           \A j \in Intent : FirstOnly(j) => FirstOnly(j)',
           p = "single" => Len(bundle[i]) = 1 \/ FirstOnly(i)',
           p = "post" => Proven(i) /\ ~dry[i]
    PROVE  Vouched'
<1>1. /\ pc'[i] = p /\ dry' = dry /\ proof' = proof
      /\ \A j \in Intent \ {i} : pc'[j] = pc[j]
  BY AskOthers
<1>2. Proven(i) => Proven(i)'
  <2>1. Positions(i)' = Positions(i)
    BY DEF Positions
  <2> QED
    BY <1>1, <2>1, ProvenForm DEF Proven, FirstOnly
<1>3. VouchedFor(i)'
  <2> HIDE DEF Proven, FirstOnly
  <2> QED
    BY <1>1, <1>2 DEF VouchedFor, Vouched, Posts
<1> QED
  BY <1>1, <1>3, VouchedStep

LEMMA VouchedNext ==
    ASSUME TypeOK, Spelled, Vouched, [Next]_vars
    PROVE  Vouched'
<1>0. OrgWallet # None /\ changes \in Nat
  BY SimulatorAssumption DEF TypeOK
<1>1. ASSUME NEW i \in Intent, Simulate(i) \/ Sign(i) \/ Answered(i)
      PROVE  Vouched'
  <2>1. UNCHANGED <<bundle, mode, account, changes>>
    BY <1>1 DEF Simulate, Sign, Answered, SequenceResults, SequenceUnsupported,
           SimulationRetried, SimulationUnavailable, LearnTyped, SingleGood, SingleRefused,
           Accepted, Conflicting, PostFails, PostRetried, Outside, bounded
  <2>2. \A j \in Intent : FirstOnly(j) => FirstOnly(j)'
    BY <1>1, FirstOnlyKept
  <2>3. VouchedFor(i)
    BY DEF Vouched
  <2>4. bundle[i] \in Seq(Kind) /\ Positions(i) = 1..Len(bundle[i]) /\ Len(bundle[i]) \in Nat
    BY DEF TypeOK, Positions
  <2>5. CASE Simulate(i)
    <3>1. CASE bundle[i] = << >> /\ Proceed(i, {})
      <4>1. Positions(i) = {}
        BY <2>4, <3>1
      <4> QED
        BY <2>1, <2>2, <2>5, <3>1, <4>1, VouchedProceed DEF Simulate
    <3>2. CASE Return(i, "undecodable")
      BY <2>1, <2>2, <3>2, VouchedReturn
    <3>3. CASE Len(bundle[i]) > 1 /\ caps.seq # "no" /\ Chainable(i) /\ Ask(i, "sequence", 1, 1, caps)
      BY <2>1, <2>2, <2>5, <3>3, VouchedAsk DEF Simulate, Posts
    <3>4. CASE /\ bundle[i] # << >>
               /\ ~(Len(bundle[i]) > 1 /\ caps.seq # "no" /\ Chainable(i))
               /\ Ask(i, "single", 1, 1, caps)
      <4>0. Len(bundle[i]) # 0
        BY <2>4, <3>4
      <4>1. Len(bundle[i]) = 1 \/ FirstOnly(i)
        <5>1. Len(bundle[i]) > 1 \/ Len(bundle[i]) = 1
          <6>1. \A n \in Nat : n # 0 => n > 1 \/ n = 1
            OBVIOUS
          <6>2. Len(bundle[i]) \in Nat
            BY <2>4
          <6> QED
            BY <4>0, <6>1, <6>2, Zenon
        <5>2. ~(Len(bundle[i]) > 1) \/ caps.seq = "no" \/ ~Chainable(i)
          BY <3>4
        <5> QED
          BY <5>1, <5>2, Zenon DEF FirstOnly
      <4> QED
        BY <2>1, <2>2, <2>5, <3>4, <4>1, VouchedAsk DEF Simulate, Posts
    <3> QED
      BY <2>5, <3>1, <3>2, <3>3, <3>4 DEF Simulate
  <2>6. CASE Sign(i)
    <3>1. CASE \E verdict \in {"undecodable", "dry", "sent"} : Return(i, verdict)
      BY <2>1, <2>2, <3>1, VouchedReturn
    <3>2. CASE ~dry[i] /\ Ask(i, "post", 1, 1, caps)
      BY <2>1, <2>2, <2>3, <2>6, <3>2, VouchedAsk DEF Sign, Posts, VouchedFor
    <3> QED
      BY <2>6, <3>1, <3>2 DEF Sign
  <2>7. CASE SequenceResults(i)
    <3>1. CASE \E verdict \in Outcome : Return(i, verdict)
      BY <2>1, <2>2, <3>1, VouchedReturn
    <3>2. CASE \E good \in Nat : AllVouched(i, good, good) /\ Proceed(i, 1..good)
      <4>1. PICK good \in Nat : good = Len(bundle[i]) /\ Proceed(i, 1..good)
        BY <3>2 DEF AllVouched
      <4>2. 1..good = Positions(i)
        BY <2>4, <4>1
      <4> QED
        BY <2>1, <2>2, <2>7, <4>1, <4>2, VouchedProceed DEF SequenceResults
    <3> QED
      BY <2>7, <3>1, <3>2 DEF SequenceResults, AllVouched, Outcome
  <2>8. CASE SequenceUnsupported(i)
    <3>1. FirstOnly(i)'
      BY <2>8 DEF SequenceUnsupported, Ask, FirstOnly, TypeOK
    <3>2. Ask(i, "single", 1, 1, [caps EXCEPT !.seq = "no"]) /\ pc[i] # "idle"
      BY <2>8 DEF SequenceUnsupported
    <3> QED
      BY <2>1, <2>2, <3>1, <3>2, VouchedAsk DEF Posts
  <2>9. CASE SimulationRetried(i)
    <3>1. CASE pc[i] = "sequence" /\ caps.seq # "no"
      BY <2>1, <2>2, <2>9, <3>1, VouchedAsk DEF SimulationRetried, Posts
    <3>2. CASE ~(pc[i] = "sequence" /\ caps.seq # "no")
      <4>1. Len(bundle[i]) = 1 \/ FirstOnly(i)
        BY <2>3, <2>9, <3>2 DEF SimulationRetried, FirstOnly, VouchedFor
      <4>2. \E n : Ask(i, "single", 1, n, caps) /\ pc[i] # "idle"
        BY <2>9, <3>2 DEF SimulationRetried
      <4> QED
        BY <2>1, <2>2, <4>1, <4>2, VouchedAsk DEF Posts
    <3> QED
      BY <3>1, <3>2
  <2>10. CASE SimulationUnavailable(i) \/ SingleRefused(i) \/ Conflicting(i) \/ PostFails(i)
    BY <2>1, <2>2, <2>10, VouchedReturn
       DEF SimulationUnavailable, SingleRefused, Conflicting, PostFails
  <2>11. CASE LearnTyped(i)
    <3>1. CASE \E verdict \in Outcome : Return(i, verdict)
      BY <2>1, <2>2, <3>1, VouchedReturn
    <3>2. CASE Ask(i, pc[i], at[i], tries[i], [caps EXCEPT !.raw = "no"])
      BY <2>1, <2>2, <2>3, <2>11, <3>2, VouchedAsk DEF LearnTyped, Posting, Posts, VouchedFor
    <3> QED
      BY <2>11, <3>1, <3>2 DEF LearnTyped, Outcome
  <2>12. CASE SingleGood(i)
    <3>1. Len(bundle[i]) = 1 => Positions(i) = {1}
      BY <2>4
    <3> QED
      BY <2>1, <2>2, <2>3, <2>12, <3>1, VouchedProceed DEF SingleGood, VouchedFor
  <2>13. CASE Accepted(i)
    <3>1. pc[i] = "post"
      BY <2>13 DEF Accepted, Receivable
    <3>2. CASE Return(i, "sent")
      BY <2>1, <2>2, <3>2, VouchedReturn
    <3>3. CASE Ask(i, "post", at[i] + 1, 1, LearnRaw(i))
      <4> HIDE DEF LearnRaw
      <4> QED
        BY <2>1, <2>2, <2>3, <3>1, <3>3, VouchedAsk DEF Posts, VouchedFor
    <3> QED
      BY <2>13, <3>2, <3>3 DEF Accepted
  <2>14. CASE PostRetried(i)
    BY <2>1, <2>2, <2>3, <2>14, VouchedAsk DEF PostRetried, Posts, VouchedFor
  <2> QED
    BY <1>1, <2>5, <2>6, <2>7, <2>8, <2>9, <2>10, <2>11, <2>12, <2>13, <2>14 DEF Answered
<1>2. ASSUME NEW i \in Intent, Execute(i)
      PROVE  Vouched'
  <2>1. PICK dryRun \in BOOLEAN :
            Goto(i, "simulate") /\ dry' = [dry EXCEPT ![i] = dryRun \/ mode = "simulate"]
    BY <1>2 DEF Execute, SimulationEnabled
  <2>2. /\ pc' = [pc EXCEPT ![i] = "simulate"] /\ pc \in [Intent -> Awaits \union {"idle"}]
        /\ dry \in [Intent -> BOOLEAN] /\ mode # "off"
        /\ UNCHANGED <<bundle, mode, account, caps, changes, proof>>
    BY <1>2, <2>1 DEF Goto, TypeOK, Execute, client
  <2>3. VouchedFor(i)'
    BY <2>1, <2>2 DEF VouchedFor
  <2>4. \A j \in Intent : FirstOnly(j) => FirstOnly(j)'
    BY <2>2 DEF FirstOnly, Chainable, Positions, RawOnly
  <2> QED
    BY <2>1, <2>2, <2>3, <2>4, VouchedStep
<1>3. CASE Begin
  <2>1. /\ mode = "off" /\ account' = OrgWallet
        /\ UNCHANGED <<pc, dry, proof>>
    BY <1>0, <1>3 DEF Begin, Run, SimulateTick, RunTick, Start, ResolveWallet, execution
  <2>2. \A i \in Intent : pc[i] = "idle"
    BY <2>1 DEF Vouched, VouchedFor
  <2> QED
    BY <2>1, <2>2 DEF Vouched, VouchedFor
<1>4. CASE Stop
  BY <1>4 DEF Stop, Vouched, VouchedFor
<1>5. CASE ApiChanges
  <2>1. changes' > 0
    BY <1>0, <1>5 DEF ApiChanges
  <2>2. \A i \in Intent : FirstOnly(i)'
    BY <2>1 DEF FirstOnly
  <2>3. \A i \in Intent : Proven(i) => Proven(i)'
    BY <1>5, <2>1 DEF ApiChanges, Proven, Positions, execution
  <2> HIDE DEF FirstOnly, Proven
  <2> QED
    BY <1>5, <2>2, <2>3 DEF ApiChanges, Vouched, VouchedFor, client, execution
<1>6. CASE UNCHANGED vars
  <2>1. \A i \in Intent : (FirstOnly(i) => FirstOnly(i)') /\ (Proven(i) => Proven(i)')
    BY <1>6 DEF vars, client, execution, bounded, FirstOnly, Proven, Chainable, Positions, RawOnly
  <2> HIDE DEF FirstOnly, Proven
  <2> QED
    BY <1>6, <2>1 DEF vars, client, execution, bounded, Vouched, VouchedFor
<1> QED
  BY <1>1, <1>2, <1>3, <1>4, <1>5, <1>6 DEF Next

LEMMA VouchedInit == Init => Vouched
BY DEF Init, Vouched, VouchedFor

\* Only a request that is being broadcast creates an execution.
LEMMA KeysChange ==
    ASSUME TypeOK, [Next]_vars, NEW i \in Intent, keys'[i] # keys[i]
    PROVE  pc[i] = "post"
<1>1. \A j \in Intent : Receivable(j) => pc[j] = "post"
  BY DEF Receivable
<1>2. CASE Stop
  <2> HIDE DEF Stored, Receivable
  <2> QED
    BY <1>1, <1>2 DEF Stop, TypeOK
<1>3. CASE \E j \in Intent : Receivable(j) /\ keys' = Stored(j)
  <2>1. PICK j \in Intent : Receivable(j) /\ keys' = Stored(j)
    BY <1>3
  <2>2. pc[j] = "post" /\ \A h \in Intent \ {j} : Stored(j)[h] = keys[h]
    BY <1>1, <2>1, StoredType
  <2> QED
    BY <2>1, <2>2
<1>4. CASE UNCHANGED keys
  BY <1>4
<1> QED
  <2> HIDE DEF Stored, Receivable
  <2> QED
    BY <1>2, <1>3, <1>4
       DEF Next, Begin, Run, SimulateTick, RunTick, Start, Execute, Simulate, Sign, Answered,
           SequenceResults, SequenceUnsupported, SimulationRetried, SimulationUnavailable,
           LearnTyped, SingleGood, SingleRefused, Accepted, Conflicting, PostFails, PostRetried,
           ApiChanges, Outside, vars

(* Nothing is broadcast that the same execute() has not had dry-run, in a  *)
(* process that may submit and compiled for KeeperHub's wallet, for any    *)
(* bundles, any number of concurrent executions and redeployments.         *)
THEOREM NothingUnproven == Spec => DryRunFirst
<1>1. Init => TypeOK /\ Spelled /\ Vouched
  BY InitType, SpelledInit, VouchedInit
<1>2. TypeOK /\ Spelled /\ Vouched /\ [Next]_vars => (TypeOK /\ Spelled /\ Vouched)'
  BY NextType, SpelledNext, VouchedNext
<1>3. TypeOK /\ Vouched /\ [Next]_vars =>
          [\A i \in Intent : keys'[i] # keys[i] =>
              Proven(i) /\ mode = "execute" /\ account = OrgWallet]_vars
  <2> SUFFICES ASSUME TypeOK, Vouched, [Next]_vars, NEW i \in Intent, keys'[i] # keys[i]
               PROVE  Proven(i) /\ mode = "execute" /\ account = OrgWallet
    OBVIOUS
  <2>1. pc[i] = "post"
    BY KeysChange
  <2> HIDE DEF Proven
  <2> QED
    BY <2>1 DEF Vouched, VouchedFor, TypeOK
<1> QED
  BY <1>1, <1>2, <1>3, PTL DEF Spec, DryRunFirst

------------------------------------------------------------------------------
(***************************************************************************)
(* How much an execute() can still ask.                                    *)
(***************************************************************************)
\* The requests it can still make: Attempts for each call it posts, and
\* before that for the call and for the sequence it has dry-run.
ForCalls(n) == n * Attempts
Left(i) == Attempts - tries[i]
Requests(i) ==
    LET calls == ForCalls(Len(bundle[i]))
    IN  CASE pc[i] = "post" -> ForCalls(Len(bundle[i]) - at[i]) + Left(i) + 1
          [] pc[i] = "sign" -> calls + 1
          [] pc[i] = "single" -> calls + Left(i) + 2
          [] pc[i] = "sequence" -> calls + Attempts + Left(i) + 2
          [] pc[i] = "simulate" -> calls + Attempts + Attempts + 2
          [] OTHER -> 0

\* A body is spelled again only when the client has just learned of it.
Unlearned == IF caps.raw = "unknown" THEN 1 ELSE 0

Effort(i) == 2 * Requests(i) + Unlearned

Own(i) == Simulate(i) \/ Sign(i) \/ Answered(i)

EffortFalls ==
    \A i \in Intent : pc[i] # "idle" =>
        \/ pc'[i] = "idle"
        \/ Effort(i)' <= Effort(i) /\ (Own(i) => Effort(i)' < Effort(i))

LEMMA CallsLeft ==
    ASSUME NEW l \in Nat, NEW k \in 1..l
    PROVE  /\ ForCalls(l) \in Nat /\ ForCalls(l - k) \in Nat
           /\ ForCalls(l - k) + Attempts <= ForCalls(l)
           /\ k + 1 <= l => ForCalls(l - (k + 1)) + Attempts = ForCalls(l - k)
<1>0. Attempts \in Nat
  BY SimulatorAssumption
<1>1. l * Attempts \in Nat /\ (l - k) * Attempts \in Nat
  BY <1>0
<1>2. (l - k) * Attempts = l * Attempts - k * Attempts
  BY <1>0
<1>3. k * Attempts = (k - 1) * Attempts + Attempts /\ (k - 1) * Attempts \in Nat
  BY <1>0
<1>4. (l - (k + 1)) * Attempts = (l - k) * Attempts - Attempts
  BY <1>0
<1> QED
  BY <1>0, <1>1, <1>2, <1>3, <1>4 DEF ForCalls

LEMMA RequestsType ==
    ASSUME TypeOK, NEW i \in Intent
    PROVE  Requests(i) \in Nat /\ (pc[i] # "idle" => Requests(i) > 0)
<1>1. /\ Len(bundle[i]) \in Nat /\ Attempts \in Nat /\ tries[i] \in 0..Attempts
      /\ pc[i] \in Awaits \union {"idle"}
  BY SimulatorAssumption DEF TypeOK
<1>2. ForCalls(Len(bundle[i])) \in Nat /\ Left(i) \in Nat
  BY <1>1 DEF ForCalls, Left
<1>3. pc[i] = "post" => ForCalls(Len(bundle[i]) - at[i]) \in Nat
  <2>1. pc[i] = "post" => at[i] \in 1..Len(bundle[i])
    BY DEF TypeOK, Positions
  <2> QED
    BY <1>1, <2>1, CallsLeft
<1>4. CASE pc[i] = "post"
  BY <1>2, <1>3, <1>4 DEF Requests
<1>5. CASE pc[i] = "sign"
  BY <1>2, <1>5 DEF Requests
<1>6. CASE pc[i] = "single"
  BY <1>2, <1>6 DEF Requests
<1>7. CASE pc[i] = "sequence"
  BY <1>1, <1>2, <1>7 DEF Requests
<1>8. CASE pc[i] = "simulate"
  BY <1>1, <1>2, <1>8 DEF Requests
<1>9. CASE pc[i] = "idle"
  BY <1>9 DEF Requests
<1> QED
  BY <1>1, <1>4, <1>5, <1>6, <1>7, <1>8, <1>9 DEF Awaits

EffortTyped ==
    /\ Unlearned \in 0..1
    /\ \A i \in Intent : /\ Requests(i) \in Nat /\ Effort(i) \in Nat
                         /\ pc[i] # "idle" => Requests(i) > 0

LEMMA EffortType == TypeOK => EffortTyped
<1> SUFFICES ASSUME TypeOK PROVE EffortTyped
  OBVIOUS
<1>1. Unlearned \in 0..1
  BY DEF Unlearned
<1> QED
  BY <1>1, RequestsType DEF Effort, EffortTyped

LEMMA EffortTypeNext == TypeOK' => EffortTyped'
BY EffortType, PTL

\* What the client knows of raw calldata is never forgotten while it lives.
LEMMA UnlearnedFalls ==
    ASSUME TypeOK, [Next]_vars
    PROVE  Stop \/ Unlearned' <= Unlearned
<1> USE DEF Unlearned
<1>1. CASE \E i \in Intent : Simulate(i) \/ Sign(i) \/ Answered(i)
  BY <1>1
     DEF Simulate, Sign, Answered, SequenceResults, SequenceUnsupported, SimulationRetried,
         SimulationUnavailable, LearnTyped, SingleGood, SingleRefused, Accepted, Conflicting,
         PostFails, PostRetried, Ask, LearnRaw, TypeOK
<1>2. CASE UNCHANGED caps
  BY <1>2
<1> QED
  BY <1>1, <1>2
     DEF Next, Begin, Run, SimulateTick, RunTick, Start, Execute, ApiChanges, client, vars

\* Fewer requests left after an Ask of the same call, the next or another kind.
LEMMA AskFewer ==
    ASSUME TypeOK, UNCHANGED bundle, NEW i \in Intent, pc[i] # "idle",
           NEW p \in {"sequence", "single", "post"}, NEW k \in Positions(i), k \in Nat,
           NEW n \in 1..Attempts, NEW c, Ask(i, p, k, n, c)
    PROVE  (\/ p = pc[i] /\ n = tries[i] + 1 /\ (p = "post" => k = at[i])
            \/ p = "post" /\ pc[i] = "post" /\ k = at[i] + 1
            \/ p = "post" /\ pc[i] = "sign"
            \/ p = "single" /\ pc[i] \in {"sequence", "simulate"}
            \/ p = "sequence" /\ pc[i] = "simulate")
           => Requests(i)' < Requests(i)
<1> DEFINE l == Len(bundle[i])
<1>1. /\ l \in Nat /\ Attempts \in Nat /\ tries[i] \in 0..Attempts /\ k \in 1..l
      /\ Left(i) = Attempts - tries[i]
  BY SimulatorAssumption DEF TypeOK, Positions, Left
<1>2. pc'[i] = p /\ at'[i] = k /\ tries'[i] = n
  BY DEF Ask, TypeOK
<1>3. /\ p = "post" => Requests(i)' = ForCalls(l - k) + (Attempts - n) + 1
      /\ p = "single" => Requests(i)' = ForCalls(l) + (Attempts - n) + 2
      /\ p = "sequence" => Requests(i)' = ForCalls(l) + Attempts + (Attempts - n) + 2
  BY <1>2 DEF Requests, Left, ForCalls
<1>4. /\ ForCalls(l) \in Nat /\ ForCalls(l - k) \in Nat
      /\ ForCalls(l - k) + Attempts <= ForCalls(l)
  BY <1>1, CallsLeft
<1>5. /\ pc[i] = "post" => Requests(i) = ForCalls(l - at[i]) + Left(i) + 1
      /\ pc[i] = "sign" => Requests(i) = ForCalls(l) + 1
      /\ pc[i] = "single" => Requests(i) = ForCalls(l) + Left(i) + 2
      /\ pc[i] = "sequence" => Requests(i) = ForCalls(l) + Attempts + Left(i) + 2
      /\ pc[i] = "simulate" => Requests(i) = ForCalls(l) + Attempts + Attempts + 2
  BY DEF Requests
<1>6. /\ Attempts \in Nat /\ Attempts - n \in Nat /\ Attempts - n < Attempts
  BY SimulatorAssumption
<1>7. ASSUME p = pc[i] /\ n = tries[i] + 1 /\ (p = "post" => k = at[i])
     PROVE  Requests(i)' < Requests(i)
  <2>0. Left(i) = (Attempts - n) + 1
    BY <1>1, <1>7
  <2>1. CASE p = "post"
    <3>1. /\ Requests(i) = ForCalls(l - k) + Left(i) + 1
          /\ Requests(i)' = ForCalls(l - k) + (Attempts - n) + 1
      BY <1>3, <1>7, <2>1, <1>5
    <3> QED
      BY <1>4, <1>6, <2>0, <3>1
  <2>2. CASE p = "single"
    <3>1. /\ Requests(i) = ForCalls(l) + Left(i) + 2
          /\ Requests(i)' = ForCalls(l) + (Attempts - n) + 2
      BY <1>3, <1>7, <2>2, <1>5
    <3> QED
      BY <1>4, <1>6, <2>0, <3>1
  <2>3. CASE p = "sequence"
    <3>1. /\ Requests(i) = ForCalls(l) + Attempts + Left(i) + 2
          /\ Requests(i)' = ForCalls(l) + Attempts + (Attempts - n) + 2
      BY <1>3, <1>7, <2>3, <1>5
    <3> QED
      BY <1>4, <1>6, <2>0, <3>1
  <2> QED
    BY <2>1, <2>2, <2>3
<1>8. ASSUME p = "post" /\ pc[i] = "post" /\ k = at[i] + 1
     PROVE  Requests(i)' < Requests(i)
  <2>1. at[i] \in 1..l /\ at[i] + 1 <= l
    BY <1>1, <1>8 DEF TypeOK, Positions
  <2>2. ForCalls(l - k) + Attempts = ForCalls(l - at[i]) /\ ForCalls(l - at[i]) \in Nat
    BY <1>1, <1>8, <2>1, CallsLeft
  <2>3. /\ Requests(i) = ForCalls(l - at[i]) + Left(i) + 1
        /\ Requests(i)' = ForCalls(l - k) + (Attempts - n) + 1
    BY <1>3, <1>8, <1>5
  <2>4. Left(i) \in Nat
    BY <1>1
  <2>5. Requests(i) = ForCalls(l - k) + Attempts + Left(i) + 1
    BY <2>2, <2>3
  <2> QED
    BY <1>4, <1>6, <2>3, <2>4, <2>5
<1>9. ASSUME p = "post" /\ pc[i] = "sign"
     PROVE  Requests(i)' < Requests(i)
  <2>1. /\ Requests(i) = ForCalls(l) + 1
        /\ Requests(i)' = ForCalls(l - k) + (Attempts - n) + 1
    BY <1>3, <1>9, <1>5
  <2> QED
    BY <1>4, <1>6, <2>1
<1>10. ASSUME p = "single" /\ pc[i] \in {"sequence", "simulate"}
      PROVE  Requests(i)' < Requests(i)
  <2>1. Requests(i)' = ForCalls(l) + (Attempts - n) + 2
    BY <1>3, <1>10
  <2>2. \/ Requests(i) = ForCalls(l) + Attempts + Left(i) + 2
        \/ Requests(i) = ForCalls(l) + Attempts + Attempts + 2
    BY <1>10, <1>5
  <2>3. Left(i) \in Nat
    BY <1>1
  <2> QED
    BY <1>4, <1>6, <2>1, <2>2, <2>3
<1>11. ASSUME p = "sequence" /\ pc[i] = "simulate"
      PROVE  Requests(i)' < Requests(i)
  <2>1. /\ Requests(i) = ForCalls(l) + Attempts + Attempts + 2
        /\ Requests(i)' = ForCalls(l) + Attempts + (Attempts - n) + 2
    BY <1>3, <1>11, <1>5
  <2> QED
    BY <1>4, <1>6, <2>1
<1> QED
  BY <1>7, <1>8, <1>9, <1>10, <1>11

LEMMA OwnFewer ==
    ASSUME TypeOK, TypeOK', [Next]_vars, NEW i \in Intent, pc[i] # "idle", Own(i)
    PROVE  pc'[i] = "idle" \/ Effort(i)' < Effort(i)
<1>1. SUFFICES ASSUME pc'[i] # "idle", ~LearnTyped(i)
               PROVE  Requests(i)' < Requests(i)
  <2>1. /\ Requests(i) \in Nat /\ Requests(i)' \in Nat
        /\ Unlearned \in 0..1 /\ Unlearned' \in 0..1
    BY EffortType, EffortTypeNext DEF EffortTyped
  <2>2. CASE LearnTyped(i)
    <3>1. pc'[i] = "idle" \/ Ask(i, pc[i], at[i], tries[i], [caps EXCEPT !.raw = "no"])
      BY <2>2 DEF LearnTyped, Return, Goto, TypeOK
    <3>2. UNCHANGED bundle /\ caps.raw = "unknown"
      BY <2>2 DEF LearnTyped, Outside, RejectsUnknownShape
    <3>3. ASSUME Ask(i, pc[i], at[i], tries[i], [caps EXCEPT !.raw = "no"])
          PROVE  Requests(i)' = Requests(i) /\ Unlearned' = 0
      <4>1. pc'[i] = pc[i] /\ at'[i] = at[i] /\ tries'[i] = tries[i] /\ caps'.raw = "no"
        BY <3>3 DEF Ask, TypeOK
      <4> QED
        BY <3>2, <4>1 DEF Requests, Left, ForCalls, Unlearned
    <3>4. Unlearned = 1
      BY <3>2 DEF Unlearned
    <3> QED
      BY <2>1, <3>1, <3>3, <3>4 DEF Effort
  <2>3. ~Stop
    BY <2>2 DEF Own, Simulate, Sign, Answered, SequenceResults, SequenceUnsupported,
       SimulationRetried, SimulationUnavailable, LearnTyped, SingleGood, SingleRefused, Accepted,
       Conflicting, PostFails, PostRetried, Outside, Stop, TypeOK
  <2>4. Unlearned' <= Unlearned
    BY <2>3, UnlearnedFalls
  <2> QED
    BY <1>1, <2>1, <2>2, <2>4 DEF Effort
<1>2. ASSUME NEW verdict, Return(i, verdict) PROVE FALSE
  BY <1>1, <1>2 DEF Return, Goto, TypeOK
<1>3. ASSUME NEW positions, Proceed(i, positions), UNCHANGED bundle,
             pc[i] \in {"simulate", "sequence", "single"}
      PROVE  Requests(i)' < Requests(i)
  <2>1. pc'[i] = "sign"
    BY <1>3 DEF Proceed, Goto, TypeOK
  <2>2. Requests(i)' = ForCalls(Len(bundle[i])) + 1
    BY <1>3, <2>1 DEF Requests, ForCalls
  <2>0. Len(bundle[i]) \in Nat /\ Attempts \in Nat /\ tries[i] \in 0..Attempts
    BY SimulatorAssumption DEF TypeOK
  <2>3. /\ ForCalls(Len(bundle[i])) \in Nat /\ Attempts \in Nat /\ Left(i) \in Nat
    BY <2>0 DEF ForCalls, Left
  <2> QED
    BY <1>3, <2>2, <2>3 DEF Requests
<1>4. 1 \in 1..Attempts /\ tries[i] \in 0..Attempts /\ Attempts \in Nat
  BY SimulatorAssumption DEF TypeOK
<1>5. /\ \A k \in Positions(i) : k \in Nat
      /\ bundle[i] # << >> => 1 \in Positions(i)
      /\ pc[i] \in {"sequence", "single", "post"} => at[i] \in Positions(i) /\ 1 \in Positions(i)
      /\ at[i] \in Positions(i) /\ at[i] < Len(bundle[i]) => at[i] + 1 \in Positions(i)
  BY DEF TypeOK, Positions
<1>6. CASE Simulate(i)
  BY <1>2, <1>3, <1>4, <1>5, <1>6, AskFewer DEF Simulate, Outside
<1>7. CASE Sign(i)
  BY <1>2, <1>4, <1>5, <1>7, AskFewer DEF Sign, Outside
<1>8. CASE SequenceResults(i) \/ SingleGood(i)
  BY <1>2, <1>3, <1>8 DEF SequenceResults, SingleGood, Outside
<1>9. CASE SequenceUnsupported(i)
  BY <1>4, <1>5, <1>9, AskFewer DEF SequenceUnsupported, Outside
<1>10. CASE SimulationRetried(i)
  <2>1. /\ UNCHANGED bundle /\ 1 \in Positions(i) /\ 1 \in Nat
        /\ tries[i] + 1 \in 1..Attempts
    BY <1>4, <1>5, <1>10 DEF SimulationRetried, Outside
  <2>2. CASE pc[i] = "sequence" /\ caps.seq # "no"
    BY <1>10, <2>1, <2>2, AskFewer DEF SimulationRetried, Attempt
  <2>3. CASE pc[i] = "sequence" /\ caps.seq = "no"
    BY <1>4, <1>10, <2>1, <2>3, AskFewer DEF SimulationRetried
  <2>4. CASE pc[i] = "single"
    BY <1>10, <2>1, <2>4, AskFewer DEF SimulationRetried, Attempt
  <2> QED
    BY <1>10, <2>2, <2>3, <2>4 DEF SimulationRetried
<1>11. CASE Accepted(i)
  BY <1>2, <1>4, <1>5, <1>11, AskFewer DEF Accepted, Receivable
<1>12. CASE PostRetried(i)
  <2>1. UNCHANGED bundle /\ pc[i] = "post" /\ at[i] \in Positions(i) /\ at[i] \in Nat
    BY <1>5, <1>12 DEF PostRetried
  <2>2. tries[i] + 1 \in 1..Attempts
    BY <1>4, <1>12 DEF PostRetried
  <2>3. Ask(i, "post", at[i], tries[i] + 1, caps)
    BY <1>12 DEF PostRetried, Attempt
  <2> QED
    BY <2>1, <2>2, <2>3, AskFewer
<1> QED
  BY <1>1, <1>2, <1>6, <1>7, <1>8, <1>9, <1>10, <1>11, <1>12
     DEF Own, Answered, SimulationUnavailable, SingleRefused, Conflicting, PostFails

\* An execute() that does nothing has as much left as before, or less.
LEMMA OthersLeave ==
    ASSUME TypeOK, TypeOK', [Next]_vars, NEW i \in Intent, pc[i] # "idle", ~Own(i)
    PROVE  pc'[i] = "idle" \/ Effort(i)' <= Effort(i)
<1>1. CASE Stop
  BY <1>1 DEF Stop
<1>2. CASE ~Stop
  <2>1. UNCHANGED <<bundle, pc[i], at[i], tries[i]>>
    <3>1. ASSUME NEW j \in Intent, j # i, Own(j) \/ Execute(j)
          PROVE  UNCHANGED <<bundle, pc[i], at[i], tries[i]>>
      <4>1. \A p, k, n, c : Ask(j, p, k, n, c) => UNCHANGED <<pc[i], at[i], tries[i]>>
        BY <3>1 DEF Ask, TypeOK
      <4>2. \A p : Goto(j, p) => UNCHANGED <<pc[i], at[i], tries[i]>>
        BY <3>1 DEF Goto, TypeOK
      <4>3. UNCHANGED bundle
        BY <3>1
           DEF Own, Simulate, Sign, Answered, SequenceResults, SequenceUnsupported,
               SimulationRetried, SimulationUnavailable, LearnTyped, SingleGood, SingleRefused,
               Accepted, Conflicting, PostFails, PostRetried, Execute, Outside
      <4> QED
        BY <3>1, <4>1, <4>2, <4>3
           DEF Own, Simulate, Sign, Answered, SequenceResults, SequenceUnsupported,
               SimulationRetried, SimulationUnavailable, LearnTyped, SingleGood, SingleRefused,
               Accepted, Conflicting, PostFails, PostRetried, Execute, Proceed, Return
    <3>2. ~Execute(i)
      BY DEF Execute
    <3> QED
      BY <1>2, <3>1, <3>2
         DEF Next, Own, Begin, Run, SimulateTick, RunTick, Start, ApiChanges, execution, vars
  <2>2. Requests(i)' = Requests(i)
    BY <2>1 DEF Requests, Left, ForCalls
  <2>3. Unlearned' <= Unlearned
    BY <1>2, UnlearnedFalls
  <2>4. Unlearned \in Nat /\ Unlearned' \in Nat /\ Requests(i) \in Nat
    BY EffortType, EffortTypeNext DEF EffortTyped
  <2> QED
    BY <2>2, <2>3, <2>4 DEF Effort
<1> QED
  BY <1>1, <1>2

(* execute() cannot go on for ever: each of its own steps uses up one of   *)
(* the requests it has left, or the one time a body is spelled again, and  *)
(* no other execution gives it any back, though they share what the client *)
(* knows: what one has learned does not send another round again.          *)
(* (simulator.py:50-112, client.py:262-334, submitter.py:253-306.)          *)
THEOREM ExecuteIsBounded == Spec => [][EffortFalls]_vars
<1>1. TypeOK /\ TypeOK' /\ [Next]_vars => EffortFalls
  <2> SUFFICES ASSUME TypeOK, TypeOK', [Next]_vars, NEW i \in Intent, pc[i] # "idle",
                      pc'[i] # "idle"
               PROVE  Effort(i)' <= Effort(i) /\ (Own(i) => Effort(i)' < Effort(i))
    BY DEF EffortFalls
  <2>1. Effort(i) \in Nat /\ Effort(i)' \in Nat
    BY EffortType, EffortTypeNext DEF EffortTyped
  <2> QED
    BY <2>1, OwnFewer, OthersLeave
<1> QED
  BY <1>1, TypeCorrect, PTL DEF Spec

==============================================================================
