--------------------------- MODULE SubmitterProofs ---------------------------
(***************************************************************************)
(* Theorems about Submitter, for any intents and bundles, any number of    *)
(* executions and any bounds.                                              *)
(***************************************************************************)
EXTENDS Submitter, TLAPS

------------------------------------------------------------------------------
(***************************************************************************)
(* Types.                                                                  *)
(***************************************************************************)
LEMMA StatusType ==
    ASSUME NEW p \in Phase
    PROVE  Status(p) \in {"completed", "running", "unconfirmed", "failed"}
BY DEF Status

LEMMA SettledStatus ==
    ASSUME NEW p \in Settled
    PROVE  /\ Status(p) \in {"completed", "failed"}
           /\ Status(p) = "completed" <=> p = "completed"
BY DEF Status, Settled

\* What a step of the submitter records as the status of an execution.
LEMMA HashStatus ==
    ASSUME NEW p \in Phase, HasHash(p)
    PROVE  /\ Status(p) \in {"unconfirmed", "completed", "failed"}
           /\ Status(p) \in {"completed", "failed"} => p \in Settled
           /\ Status(p) = "completed" <=> p = "completed"
BY DEF Status, HasHash, Settled, Phase

LEMMA KeyForType ==
    ASSUME NEW w \in Work, NEW i \in DOMAIN Bundle[w]
    PROVE  /\ i \in Nat \ {0}
           /\ KeyFor(w, i) \in Work \X Call
           /\ RequestFor(w, i) \in Request
<1>1. Bundle[w] \in Seq(Call)
  BY SubmitterAssumption
<1>2. i \in 1 .. Len(Bundle[w]) /\ Len(Bundle[w]) \in Nat
  BY <1>1
<1> QED
  BY <1>1, <1>2 DEF KeyFor, RequestFor, Request

------------------------------------------------------------------------------
(***************************************************************************)
(* Where the process can be.  While it is in submit() it is at a position  *)
(* of its intent's bundle; while it polls, it polls the execution of that  *)
(* very transaction; in get_receipt() it reads a hash of the session.      *)
(***************************************************************************)
Submitting == {"post", "await", "resolve", "settle"}

Position ==
    /\ pc \in Submitting => work \in Work /\ index \in DOMAIN Bundle[work]
    /\ pc = "settle" => index # Len(Bundle[work])
    /\ pc \in {"resolve", "settle"} => cur \in Id /\ Holds(cur, KeyFor(work, index))
    /\ pc \in {"receipt", "fetch"} => cur \in session
    /\ pc \notin Submitting => work = None /\ index = 1

LEMMA NextPosition ==
    ASSUME NEW w \in Work, NEW i \in DOMAIN Bundle[w], i # Len(Bundle[w])
    PROVE  i + 1 \in DOMAIN Bundle[w]
<1>1. Bundle[w] \in Seq(Call)
  BY SubmitterAssumption
<1>2. i \in 1 .. Len(Bundle[w]) /\ Len(Bundle[w]) \in Nat
  BY <1>1
<1> QED
  BY <1>1, <1>2

LEMMA FirstPosition ==
    ASSUME NEW w \in Work
    PROVE  1 \in DOMAIN Bundle[w]
BY SubmitterAssumption

LEMMA TypeInit == Init => TypeOK /\ Position
BY SubmitterAssumption DEF Init, TypeOK, Position, Phase, Submitting

LEMMA TypeStep == TypeOK /\ Position /\ [Next]_vars => TypeOK' /\ Position'
<1> SUFFICES ASSUME TypeOK, Position, [Next]_vars
             PROVE  TypeOK' /\ Position'
  OBVIOUS
<1> USE SubmitterAssumption
<1>1. CASE Post
  BY <1>1, KeyForType DEF Post, TypeOK, Position, Submitting, process, durable
<1>2. CASE Retry
  BY <1>2 DEF Retry, TypeOK, Position, Submitting, keeperhub, durable
<1>3. ASSUME NEW verdict \in {"raised", "partial", "sent"}, NEW hashes \in SUBSET Id,
             Finish(verdict, hashes), pc \in Submitting,
             memory' \in [Id -> {"none", "envelope", "terminal", "unlogged"}],
             logged' \in [Id -> {"absent", "unconfirmed", "completed", "failed"}],
             UNCHANGED <<keeperhub, receipt, submits, crashes>>
      PROVE  TypeOK' /\ Position'
  BY <1>3 DEF Finish, TypeOK, Position, Submitting, keeperhub
<1>4. CASE GiveUp \/ Reject
  BY <1>3, <1>4 DEF GiveUp, Reject, BroadcastFails, TypeOK, Submitting
<1>21. ASSUME NEW id \in Id, pc \in Submitting, Unrecorded(id)
       PROVE  TypeOK' /\ Position'
  <2>1. memory' \in [Id -> {"none", "envelope", "terminal", "unlogged"}]
    BY <1>21 DEF Unrecorded, TypeOK
  <2> QED
    BY <1>3, <1>21, <2>1 DEF Unrecorded, TypeOK
<1>22. CASE ResolveUnrecorded \/ \E id \in Id : AnswerUnrecorded(id)
  BY <1>21, <1>22 DEF ResolveUnrecorded, AnswerUnrecorded, Answered, Position, Submitting
<1>23. CASE SettleUnlogged
  <2>1. memory' \in [Id -> {"none", "envelope", "terminal", "unlogged"}]
    BY <1>23 DEF SettleUnlogged, Unlogged, TypeOK
  <2> QED
    BY <1>3, <1>23, <2>1 DEF SettleUnlogged, Unlogged, Submitting, TypeOK
<1>24. CASE ReceiptUnlogged
  <2>1. memory' \in [Id -> {"none", "envelope", "terminal", "unlogged"}]
    BY <1>24 DEF ReceiptUnlogged, Unlogged, TypeOK
  <2> QED
    BY <1>24, <2>1 DEF ReceiptUnlogged, Unlogged, TypeOK, Position, Submitting, keeperhub
<1>5. ASSUME NEW id \in Id, HasHash(phase[id]), Holds(id, KeyFor(work, index)),
             pc \in {"await", "resolve"}, Accept(id),
             UNCHANGED <<keeperhub, receipt, submits, crashes>>
      PROVE  TypeOK' /\ Position'
  <2>1. /\ work \in Work
        /\ index \in DOMAIN Bundle[work]
    BY <1>5 DEF Position, Submitting
  <2>2. Status(phase[id]) \in {"unconfirmed", "completed", "failed"}
    BY <1>5, HashStatus DEF TypeOK
  <2>3. memory' \in [Id -> {"none", "envelope", "terminal", "unlogged"}]
        /\ logged' \in [Id -> {"absent", "unconfirmed", "completed", "failed"}]
    BY <1>5, <2>2 DEF Accept, Record, TypeOK
  <2>4. CASE Finish("sent", sent \union {id}) \/ Finish("partial", sent \union {id})
    BY <1>3, <1>5, <2>3, <2>4 DEF TypeOK, Submitting
  <2>5. CASE index # Len(Bundle[work]) /\ NextTransaction(sent \union {id})
    BY <1>5, <2>1, <2>3, <2>5, NextPosition
       DEF NextTransaction, TypeOK, Position, Submitting, keeperhub
  <2>6. CASE index # Len(Bundle[work]) /\ AwaitSettlement(id)
    <3>1. TypeOK'
      BY <1>5, <2>3, <2>6 DEF AwaitSettlement, TypeOK, keeperhub
    <3>2. Position'
      BY <1>5, <2>1, <2>6 DEF AwaitSettlement, Position, Submitting, keeperhub, Holds
    <3> QED
      BY <3>1, <3>2
  <2> QED
    BY <1>5, <2>4, <2>5, <2>6 DEF Accept
<1>6. ASSUME NEW id \in Id, AnswerHash(id)
      PROVE  TypeOK' /\ Position'
  BY <1>5, <1>6 DEF AnswerHash, Answered
<1>7. ASSUME NEW id \in Id, AnswerRefused(id)
      PROVE  TypeOK' /\ Position'
  BY <1>3, <1>7 DEF AnswerRefused, Answered, TypeOK, Submitting
<1>8. ASSUME NEW id \in Id, AnswerRunning(id)
      PROVE  TypeOK' /\ Position'
  BY <1>8 DEF AnswerRunning, Answered, TypeOK, Position, Submitting, keeperhub, durable, Holds
<1>9. CASE ResolveHash
  BY <1>5, <1>9 DEF ResolveHash, HasHash, Position
<1>10. CASE ResolveRefused \/ ResolveTimeout \/ SettleTimeout \/ PollRejected
  BY <1>3, <1>10
     DEF ResolveRefused, ResolveTimeout, SettleTimeout, PollRejected, BroadcastFails,
         TypeOK, Submitting
<1>11. CASE Settle
  <2>1. /\ work \in Work
        /\ index \in DOMAIN Bundle[work]
        /\ index # Len(Bundle[work])
        /\ cur \in Id
    BY <1>11 DEF Settle, Position, Submitting
  <2>2. Status(phase[cur]) \in {"completed", "failed"}
    BY <1>11, SettledStatus DEF Settle
  <2>3. memory' \in [Id -> {"none", "envelope", "terminal", "unlogged"}]
        /\ logged' \in [Id -> {"absent", "unconfirmed", "completed", "failed"}]
    BY <1>11, <2>2 DEF Settle, Learn, TypeOK
  <2>4. CASE Finish("partial", sent)
    BY <1>3, <1>11, <2>3, <2>4 DEF Settle, TypeOK, Submitting
  <2>5. CASE NextTransaction(sent)
    BY <1>11, <2>1, <2>3, <2>5, NextPosition
       DEF Settle, NextTransaction, TypeOK, Position, Submitting, keeperhub
  <2> QED
    BY <1>11, <2>4, <2>5 DEF Settle
<1>12. CASE ReceiptSettle
  <2>1. cur \in Id
    BY <1>12 DEF ReceiptSettle, Position, TypeOK
  <2>2. phase[cur] \in Settled => Status(phase[cur]) \in {"completed", "failed"}
    BY SettledStatus
  <2>3. CASE UNCHANGED <<memory, logged>>
    BY <1>12, <2>1, <2>3 DEF ReceiptSettle, TypeOK, Position, Submitting, keeperhub
  <2>4. CASE phase[cur] \in Settled /\ Learn(cur)
    <3>1. memory' \in [Id -> {"none", "envelope", "terminal", "unlogged"}]
      BY <2>4 DEF Learn, TypeOK
    <3>2. logged' \in [Id -> {"absent", "unconfirmed", "completed", "failed"}]
      BY <2>2, <2>4 DEF Learn, TypeOK
    <3> QED
      BY <1>12, <2>1, <3>1, <3>2 DEF ReceiptSettle, TypeOK, Position, Submitting, keeperhub
  <2> QED
    BY <1>12, <2>3, <2>4 DEF ReceiptSettle
<1>13. CASE ReceiptFromChain \/ ReceiptFromKeeperHub
  <2>1. PICK verdict \in {"success", "reverted"} : Deliver(verdict)
    BY <1>13 DEF ReceiptFromChain, ReceiptFromKeeperHub
  <2>2. pc = "fetch"
    BY <1>13 DEF ReceiptFromChain, ReceiptFromKeeperHub
  <2>3. cur \in Id
    BY <2>2 DEF Position, TypeOK
  <2> QED
    BY <2>1, <2>2, <2>3 DEF Deliver, TypeOK, Position, Submitting, keeperhub
<1>14. CASE ReceiptFails
  BY <1>14 DEF ReceiptFails, TypeOK, Position, Submitting, keeperhub, durable
<1>15. ASSUME NEW r \in network, NEW id \in Id, Execute(r, id)
       PROVE  TypeOK' /\ Position'
  <2>1. r \in Request
    BY DEF TypeOK
  <2> QED
    BY <1>15, <2>1 DEF Execute, TypeOK, Position, Submitting, process, durable, Holds, Phase
<1>16. ASSUME NEW id \in Id, NEW p \in Phase, Progress(id, p)
       PROVE  TypeOK' /\ Position'
  BY <1>16 DEF Progress, TypeOK, Position, Submitting, process, durable, Holds
<1>17. ASSUME NEW w \in Work, Submit(w)
       PROVE  TypeOK' /\ Position'
  BY <1>17, FirstPosition
     DEF Submit, TypeOK, Position, Submitting, keeperhub, durable, Holds
<1>18. ASSUME NEW id \in Id, GetReceipt(id)
       PROVE  TypeOK' /\ Position'
  BY <1>18 DEF GetReceipt, TypeOK, Position, Submitting, keeperhub, durable, Holds
<1>19. CASE Crash
  BY <1>19 DEF Crash, TypeOK, Position, Submitting, keeperhub, durable, Holds
<1>20. CASE UNCHANGED vars
  BY <1>20 DEF vars, keeperhub, process, durable, TypeOK, Position, Submitting, Holds
<1> QED
  BY <1>1, <1>2, <1>4, <1>6, <1>7, <1>8, <1>9, <1>10, <1>11, <1>12, <1>13, <1>14,
     <1>15, <1>16, <1>17, <1>18, <1>19, <1>20, <1>22, <1>23, <1>24
     DEF Next, ProcessStep, KeeperHubStep, OrchestratorStep

\* Every variable keeps its type and its bounds, and the process is always
\* at a position of the bundle it submits.
THEOREM TypeCorrect == Spec => [](TypeOK /\ Position)
BY TypeInit, TypeStep, PTL DEF Spec

------------------------------------------------------------------------------
(***************************************************************************)
(* Keys.  What is sent and what KeeperHub holds is a transaction of a      *)
(* bundle under the key the signer derives for it, and KeeperHub holds one *)
(* execution for a key.                                                    *)
(***************************************************************************)
Signed(r) == r.index \in DOMAIN Bundle[r.work] /\ r.key = KeyFor(r.work, r.index)

Keys ==
    /\ \A r \in network : Signed(r)
    /\ \A id \in Id : request[id] # None => Signed(request[id])
    /\ \A id \in Id : phase[id] = "none" <=> request[id] = None
    /\ \A a, b \in Id : request[a] # None /\ Holds(b, request[a].key) => a = b

\* Only three kinds of step change what KeeperHub and the network hold.
LEMMA KeeperHubChanges ==
    [Next]_vars =>
        \/ UNCHANGED keeperhub
        \/ Post
        \/ \E r \in network, id \in Id : Execute(r, id)
        \/ \E id \in Id, p \in Phase : Progress(id, p)
BY DEF Next, ProcessStep, KeeperHubStep, OrchestratorStep, Retry, GiveUp, Reject, AnswerHash,
       AnswerRefused, AnswerRunning, ResolveHash, ResolveRefused, ResolveTimeout, Settle,
       SettleTimeout, PollRejected, ReceiptSettle, ReceiptFromChain, ReceiptFromKeeperHub,
       Deliver, ReceiptFails, Submit, GetReceipt, Crash, vars, AnswerUnrecorded,
       ResolveUnrecorded, Unrecorded, SettleUnlogged, ReceiptUnlogged

LEMMA KeysInit == Init => Keys
BY DEF Init, Keys, Holds

LEMMA KeysStep == TypeOK /\ Position /\ Keys /\ [Next]_vars => Keys'
<1> SUFFICES ASSUME TypeOK, Position, Keys, [Next]_vars
             PROVE  Keys'
  OBVIOUS
<1>1. CASE UNCHANGED keeperhub
  BY <1>1 DEF Keys, keeperhub, Holds, Signed
<1>2. CASE Post
  <2>1. Signed(RequestFor(work, index))
    BY <1>2 DEF Post, Position, Submitting, RequestFor, Signed
  <2> QED
    BY <1>2, <2>1 DEF Post, Keys, Holds, Signed
<1>3. ASSUME NEW r \in network, NEW id \in Id, Execute(r, id)
      PROVE  Keys'
  <2>1. r \in Request /\ r # None /\ Signed(r)
    BY NoneAssumption DEF TypeOK, Keys
  <2>2. /\ network' = network
        /\ request' = [request EXCEPT ![id] = r]
        /\ phase' = [phase EXCEPT ![id] = "running"]
        /\ request[id] = None
        /\ \A other \in Id : ~Holds(other, r.key)
    BY <1>3 DEF Execute
  <2>3. \A r2 \in network' : Signed(r2)
    BY <2>2 DEF Keys
  <2>4. \A b \in Id : request'[b] # None => Signed(request'[b])
    BY <2>1, <2>2 DEF Keys, TypeOK
  <2>5. \A b \in Id : phase'[b] = "none" <=> request'[b] = None
    BY <2>1, <2>2 DEF Keys, TypeOK
  <2>6. \A a, b \in Id : request'[a] # None /\ request'[b] # None
                           /\ request'[b].key = request'[a].key => a = b
    BY <2>2 DEF Keys, TypeOK, Holds
  <2> QED
    BY <2>3, <2>4, <2>5, <2>6 DEF Keys, Holds, Signed
<1>4. ASSUME NEW id \in Id, NEW p \in Phase, Progress(id, p)
      PROVE  Keys'
  BY <1>4 DEF Progress, Keys, TypeOK, Holds, Signed, Settled
<1> QED
  BY <1>1, <1>2, <1>3, <1>4, KeeperHubChanges

\* An execution keeps its request, a hash stays known and an outcome final.
LEMMA Monotone ==
    ASSUME TypeOK, Keys, [Next]_vars, NEW id \in Id
    PROVE  /\ request[id] # None => request'[id] = request[id]
           /\ HasHash(phase[id]) => HasHash(phase'[id])
           /\ phase[id] \in Settled => phase'[id] = phase[id]
<1>1. CASE UNCHANGED keeperhub \/ Post
  BY <1>1 DEF keeperhub, Post
<1>2. CASE \E r \in network, b \in Id : Execute(r, b)
  BY <1>2 DEF Execute, Keys, TypeOK, HasHash, Settled
<1>3. CASE \E b \in Id, p \in Phase : Progress(b, p)
  BY <1>3 DEF Progress, TypeOK, HasHash, Settled
<1> QED
  BY <1>1, <1>2, <1>3, KeeperHubChanges

LEMMA ExecutedStable ==
    ASSUME TypeOK, Keys, [Next]_vars, NEW id \in Id, Executed(id)
    PROVE  Executed(id)' /\ request'[id] = request[id]
BY Monotone DEF Executed

\* The submitter never moves funds twice for one piece of work.
THEOREM WorkAtMostOnce == Spec => []AtMostOnce
<1>1. TypeOK /\ Keys => AtMostOnce
  BY DEF Keys, AtMostOnce, Executed, Signed, WorkOf, KeyFor, Holds
<1>2. Spec => []Keys
  BY TypeCorrect, KeysInit, KeysStep, PTL DEF Spec
<1> QED
  BY <1>1, <1>2, TypeCorrect, PTL

------------------------------------------------------------------------------
(***************************************************************************)
(* Order.  Whatever the network, KeeperHub or the process is about to do   *)
(* for a transaction, every earlier transaction of the bundle is done.     *)
(***************************************************************************)
Done(w, j) == \E e \in Id : Holds(e, KeyFor(w, j)) /\ phase[e] = "completed"

Order ==
    /\ \A r \in network : \A j \in 1 .. r.index - 1 : Done(r.work, j)
    /\ BundleOrder
    /\ pc \in Submitting => \A j \in 1 .. index - 1 : Done(work, j)

LEMMA DoneStable ==
    ASSUME TypeOK, Keys, [Next]_vars, NEW w, NEW j, Done(w, j)
    PROVE  Done(w, j)'
<1>1. PICK e \in Id : Holds(e, KeyFor(w, j)) /\ phase[e] = "completed"
  BY DEF Done
<1>2. request'[e] = request[e] /\ phase'[e] = phase[e]
  BY <1>1, Monotone DEF Holds, Settled
<1> QED
  BY <1>1, <1>2 DEF Done, Holds, KeyFor

\* submit() moves on only past a transaction that has completed.
LEMMA Advance ==
    ASSUME TypeOK, Position, [Next]_vars, pc' \in Submitting
    PROVE  \/ index' = 1
           \/ pc \in Submitting /\ work' = work /\ index' = index
           \/ pc \in Submitting /\ work' = work /\ index' = index + 1 /\ Done(work, index)
<1>1. ASSUME NEW id \in Id, HasHash(phase[id]), Holds(id, KeyFor(work, index)),
             pc \in {"await", "resolve"}, Accept(id)
      PROVE  \/ work' = work /\ index' = index
             \/ work' = work /\ index' = index + 1 /\ Done(work, index)
  BY <1>1, HashStatus
     DEF Accept, Finish, NextTransaction, AwaitSettlement, Done, Submitting, TypeOK
<1>2. ASSUME NEW id \in Id, AnswerHash(id)
      PROVE  \/ work' = work /\ index' = index
             \/ work' = work /\ index' = index + 1 /\ Done(work, index)
  BY <1>1, <1>2 DEF AnswerHash, Answered
<1>3. CASE ResolveHash
  BY <1>1, <1>3 DEF ResolveHash, HasHash, Position, Submitting
<1>4. CASE Settle
  BY <1>4, SettledStatus DEF Settle, Finish, NextTransaction, Position, Submitting, Done
<1> QED
  BY <1>2, <1>3, <1>4
     DEF Next, ProcessStep, KeeperHubStep, OrchestratorStep, Post, Retry, GiveUp, Reject,
         BroadcastFails, Finish, AnswerHash, Answered, AnswerRefused, AnswerRunning, ResolveHash,
         ResolveRefused, ResolveTimeout, Settle, SettleTimeout, PollRejected, ReceiptSettle,
         ReceiptFromChain, ReceiptFromKeeperHub, Deliver, ReceiptFails, GetReceipt, Crash,
         Execute, Progress, vars, process, Submitting, Submit, Position, AnswerUnrecorded,
         ResolveUnrecorded, Unrecorded, SettleUnlogged, ReceiptUnlogged

LEMMA OrderInit == Init => Order
BY DEF Init, Order, BundleOrder, Submitting

LEMMA OrderStep == TypeOK /\ Position /\ Keys /\ Order /\ [Next]_vars => Order'
<1> SUFFICES ASSUME TypeOK, Position, Keys, Order, [Next]_vars
             PROVE  Order'
  OBVIOUS
<1>1. ASSUME NEW r \in network', NEW j \in 1 .. r.index - 1
      PROVE  Done(r.work, j)'
  <2>1. CASE r \in network
    BY <2>1, DoneStable DEF Order
  <2>2. CASE Post /\ r = RequestFor(work, index)
    <3>1. Done(work, j)
      BY <2>2 DEF Post, Order, Submitting, RequestFor
    <3> QED
      BY <2>2, <3>1, DoneStable DEF RequestFor
  <2> QED
    BY <2>1, <2>2, KeeperHubChanges DEF Post, Execute, Progress, keeperhub
<1>2. ASSUME NEW id \in Id, request'[id] # None
      PROVE  \A j \in 1 .. request'[id].index - 1 : Done(request[id].work, j)'
  <2>1. PICK r : r = request'[id]
    OBVIOUS
  <2>2. ASSUME NEW j \in 1 .. r.index - 1
        PROVE  Done(r.work, j)
    <3>1. CASE request[id] # None
      BY <2>1, <2>2, <3>1, Monotone DEF Order, BundleOrder, Done
    <3>2. CASE request[id] = None
      <4>1. r \in network
        BY <1>2, <2>1, <3>2, KeeperHubChanges DEF Post, Execute, Progress, keeperhub, TypeOK
      <4> QED
        BY <2>2, <4>1 DEF Order
    <3> QED
      BY <3>1, <3>2
  <2>3. \A j \in 1 .. r.index - 1 : Done(r.work, j)'
    BY <2>2, DoneStable
  <2> QED
    BY <2>1, <2>3
<1>3. ASSUME pc' \in Submitting
      PROVE  \A j \in 1 .. index' - 1 : Done(work, j)'
  <2>1. CASE index' = 1
    BY <2>1
  <2>2. CASE index' # 1
    <3>1. /\ pc \in Submitting
          /\ work' = work
          /\ index' = index \/ (index' = index + 1 /\ Done(work, index))
      BY <1>3, <2>2, Advance
    <3>2. PICK w : w = work
      OBVIOUS
    <3>3. ASSUME NEW j \in 1 .. index' - 1
          PROVE  Done(w, j)
      BY <3>1, <3>2, <3>3 DEF Order, TypeOK
    <3>4. \A j \in 1 .. index' - 1 : Done(w, j)'
      BY <3>3, DoneStable
    <3> QED
      BY <3>1, <3>2, <3>4
  <2> QED
    BY <2>1, <2>2
<1>4. BundleOrder'
  BY <1>2 DEF BundleOrder, Done
<1>5. (\A r \in network : \A j \in 1 .. r.index - 1 : Done(r.work, j))'
  BY <1>1
<1>6. (pc \in Submitting => \A j \in 1 .. index - 1 : Done(work, j))'
  BY <1>3
<1> QED
  BY <1>4, <1>5, <1>6 DEF Order

\* Keys and Order hold throughout.
LEMMA OrderCorrect == Spec => [](Keys /\ Order)
<1>1. Spec => []Keys
  BY TypeCorrect, KeysInit, KeysStep, PTL DEF Spec
<1> QED
  BY <1>1, TypeCorrect, OrderInit, OrderStep, PTL DEF Spec

\* No transaction of a bundle reaches KeeperHub before the earlier ones of
\* the bundle have completed.
THEOREM BundlesInOrder == Spec => []BundleOrder
BY OrderCorrect, PTL DEF Order

------------------------------------------------------------------------------
(***************************************************************************)
(* Knowledge.  What the process remembers, what the log says and what the  *)
(* orchestrator was told agree with what happened.                         *)
(***************************************************************************)
OutcomeLogged(id) == logged[id] \in {"completed", "failed"}

\* What the process remembers of an execution it has seen the end of.
Over == {"terminal", "unlogged"}

Knowledge ==
    /\ \A id \in sent : Executed(id) /\ logged[id] # "absent"
    /\ SessionResumable
    /\ \A id \in Id : OutcomeLogged(id) =>
           phase[id] \in Settled /\ logged[id] = Status(phase[id])
    /\ \A id \in Id : memory[id] \in Over => phase[id] \in Settled
    /\ pc = "fetch" => phase[cur] \in Settled
    /\ ReceiptTruthful

\* A step writes the log, if at all, from the execution's current status,
\* and KeeperHub stands still meanwhile.
Writes(id) ==
    /\ Executed(id)
    /\ UNCHANGED keeperhub
    /\ logged' = [logged EXCEPT ![id] = Status(phase[id])]

LEMMA LogWrites ==
    ASSUME TypeOK, Position, Keys, Knowledge, [Next]_vars
    PROVE  UNCHANGED logged \/ \E id \in Id : Writes(id)
<1>1. ASSUME NEW id \in Id, AnswerHash(id)
      PROVE  Writes(id)
  BY <1>1 DEF AnswerHash, Answered, Accept, Record, Writes, Executed, Holds
<1>2. CASE ResolveHash
  BY <1>2 DEF ResolveHash, Accept, Record, Writes, Executed, Holds, HasHash, Position
<1>3. CASE Settle
  BY <1>3 DEF Settle, Learn, Writes, Executed, Holds, HasHash, Position
<1>4. CASE ReceiptSettle
  BY <1>4 DEF ReceiptSettle, Learn, Writes, Position, Knowledge, SessionResumable, TypeOK
<1> QED
  BY <1>1, <1>2, <1>3, <1>4
     DEF Next, ProcessStep, KeeperHubStep, OrchestratorStep, Post, Retry, GiveUp, Reject,
         AnswerRefused, AnswerRunning, ResolveRefused, ResolveTimeout, SettleTimeout,
         PollRejected, ReceiptFromChain, ReceiptFromKeeperHub, Deliver, ReceiptFails, Submit,
         GetReceipt, Crash, Execute, Progress, vars, durable, AnswerUnrecorded,
         ResolveUnrecorded, Unrecorded, SettleUnlogged, ReceiptUnlogged, Unlogged

\* What is said of an execution that has a hash and is logged stays so.
LEMMA LoggedStable ==
    ASSUME TypeOK, Position, Keys, Knowledge, [Next]_vars,
           NEW id \in Id, Executed(id), logged[id] # "absent"
    PROVE  Executed(id)' /\ logged'[id] # "absent"
<1>1. Executed(id)'
  BY ExecutedStable
<1>2. ASSUME NEW b \in Id, Writes(b)
      PROVE  logged'[id] # "absent"
  BY <1>2, HashStatus DEF Writes, Executed, TypeOK
<1> QED
  BY <1>1, <1>2, LogWrites

\* Every hash that a step adds to the session or to the results is logged.
LEMMA NewHashes ==
    ASSUME TypeOK, Position, Keys, Knowledge, [Next]_vars, NEW id \in sent' \union session'
    PROVE  Executed(id)' /\ logged'[id] # "absent"
<1>1. CASE id \in sent \union session
  BY <1>1, LoggedStable DEF Knowledge, SessionResumable, TypeOK
<1>2. ASSUME NEW b \in Id, Writes(b)
      PROVE  Executed(b)' /\ logged'[b] # "absent"
  BY <1>2, HashStatus DEF Writes, Executed, TypeOK, keeperhub
<1>3. ASSUME NEW b \in Id, Accept(b), AnswerHash(b) \/ ResolveHash, id \notin sent \union session
      PROVE  id = b
  BY <1>3 DEF Accept, Finish, NextTransaction, AwaitSettlement
<1>4. ASSUME NEW b \in Id, AnswerHash(b), id \notin sent \union session
      PROVE  Executed(id)' /\ logged'[id] # "absent"
  BY <1>2, <1>3, <1>4 DEF AnswerHash, Answered, Accept, Record, Writes, Executed, Holds
<1>5. ASSUME ResolveHash, id \notin sent \union session
      PROVE  Executed(id)' /\ logged'[id] # "absent"
  BY <1>2, <1>3, <1>5
     DEF ResolveHash, Accept, Record, Writes, Executed, Holds, HasHash, Position
<1>6. CASE id \notin sent \union session
  BY <1>4, <1>5, <1>6
     DEF Next, ProcessStep, KeeperHubStep, OrchestratorStep, Post, Retry, GiveUp, Reject,
         BroadcastFails, Finish, AnswerRefused, AnswerRunning, ResolveRefused, ResolveTimeout,
         Settle, NextTransaction, SettleTimeout, PollRejected, ReceiptSettle, ReceiptFromChain,
         ReceiptFromKeeperHub, Deliver, ReceiptFails, Submit, GetReceipt, Crash, Execute,
         Progress, vars, process, durable, AnswerUnrecorded, ResolveUnrecorded, Unrecorded,
         SettleUnlogged, ReceiptUnlogged
<1> QED
  BY <1>1, <1>6

\* The process takes an execution for terminal only when it is.
LEMMA TerminalStep ==
    ASSUME TypeOK, Position, Keys, Knowledge, [Next]_vars
    PROVE  /\ \A id \in Id : memory'[id] \in Over => phase'[id] \in Settled
           /\ pc' = "fetch" => phase'[cur'] \in Settled
<1>1. ASSUME NEW id \in Id, memory'[id] \in Over
      PROVE  phase[id] \in Settled
  <2>1. CASE memory[id] \in Over
    BY <2>1 DEF Knowledge
  <2>2. CASE memory[id] \notin Over
    <3>1. CASE Settle \/ ReceiptSettle \/ SettleUnlogged \/ ReceiptUnlogged
      <4>1. /\ phase[cur] \in Settled
            /\ \E m \in Over : memory' = [memory EXCEPT ![cur] = m]
        BY <1>1, <2>2, <3>1
           DEF Settle, ReceiptSettle, Learn, SettleUnlogged, ReceiptUnlogged, Unlogged, Over
      <4>2. id = cur
        BY <1>1, <2>2, <4>1 DEF TypeOK
      <4> QED
        BY <4>1, <4>2
    <3>2. ASSUME NEW u \in Id, \/ AnswerHash(u) \/ AnswerUnrecorded(u)
                               \/ AnswerRefused(u) \/ AnswerRunning(u)
          PROVE  FALSE
      BY <1>1, <2>2, <3>2 DEF AnswerHash, Accept, Record, AnswerUnrecorded, Unrecorded,
                              AnswerRefused, AnswerRunning, TypeOK, Over
    <3>3. CASE ResolveHash \/ ResolveUnrecorded
      BY <1>1, <2>2, <3>3
         DEF ResolveHash, Accept, Record, ResolveUnrecorded, Unrecorded, TypeOK, Over
    <3>4. CASE Crash
      BY <1>1, <2>2, <3>4 DEF Crash, TypeOK, Over
    <3>5. CASE Post \/ Retry \/ GiveUp \/ Reject \/ ResolveRefused \/ ResolveTimeout
               \/ SettleTimeout \/ PollRejected \/ ReceiptFromChain
               \/ ReceiptFromKeeperHub \/ ReceiptFails
      <4>1. UNCHANGED memory
        BY <3>5 DEF Post, Retry, GiveUp, Reject, ResolveRefused, ResolveTimeout, SettleTimeout,
             PollRejected, ReceiptFromChain, ReceiptFromKeeperHub, Deliver, ReceiptFails,
             process, durable
      <4> QED
        BY <1>1, <2>2, <4>1
    <3>6. CASE KeeperHubStep \/ OrchestratorStep \/ UNCHANGED vars
      <4>1. \/ UNCHANGED memory
            \/ \E u \in Id : GetReceipt(u)
        BY <3>6 DEF KeeperHubStep, OrchestratorStep, Execute, Progress, Submit, vars, process
      <4> QED
        BY <1>1, <2>2, <4>1 DEF GetReceipt, TypeOK, Over
    <3> QED
      BY <3>1, <3>2, <3>3, <3>4, <3>5, <3>6 DEF Next, ProcessStep
  <2> QED
    BY <2>1, <2>2
<1>2. ASSUME pc' = "fetch"
      PROVE  cur' \in Id /\ cur' = cur /\ phase[cur] \in Settled
  BY <1>2
     DEF Next, ProcessStep, KeeperHubStep, OrchestratorStep, Post, Retry, GiveUp, Reject,
         BroadcastFails, Finish, AnswerHash, Accept, NextTransaction, AwaitSettlement,
         AnswerRefused, AnswerRunning, ResolveHash, ResolveRefused, ResolveTimeout, Settle,
         SettleTimeout, PollRejected, ReceiptSettle, ReceiptFromChain, ReceiptFromKeeperHub,
         Deliver, ReceiptFails, Submit, GetReceipt, Crash, Execute, Progress, vars, process,
         TypeOK, Position, Knowledge, Over, AnswerUnrecorded, ResolveUnrecorded, Unrecorded,
         SettleUnlogged, ReceiptUnlogged
<1> QED
  BY <1>1, <1>2, Monotone

\* The orchestrator is told success only of a transaction that took effect.
LEMMA TruthStep ==
    ASSUME TypeOK, Position, Keys, Knowledge, [Next]_vars
    PROVE  ReceiptTruthful'
<1>1. \A id \in Id : phase[id] \in Settled => phase'[id] = phase[id]
  BY Monotone
<1>2. CASE UNCHANGED receipt
  BY <1>1, <1>2 DEF ReceiptTruthful, Knowledge, Settled
<1>3. ASSUME NEW verdict, Deliver(verdict), pc = "fetch",
             verdict = "success" => phase[cur] \in {"completed", "misreported"},
             verdict = "reverted" => phase[cur] \in {"reverted", "inner_failure"}
      PROVE  ReceiptTruthful'
  BY <1>1, <1>3 DEF Deliver, ReceiptTruthful, Knowledge, Settled, TypeOK, Position
<1>4. CASE ReceiptFromChain
  BY <1>3, <1>4 DEF ReceiptFromChain, ChainSuccess, ClassifiedFailed, Knowledge, Settled
<1>5. CASE ReceiptFromKeeperHub
  BY <1>3, <1>5 DEF ReceiptFromKeeperHub, HasVerifiedReceipt, ClassifiedFailed
<1> QED
  BY <1>2, <1>4, <1>5
     DEF Next, ProcessStep, KeeperHubStep, OrchestratorStep, Post, Retry, GiveUp, Reject,
         AnswerHash, AnswerRefused, AnswerRunning, ResolveHash, ResolveRefused, ResolveTimeout,
         Settle, SettleTimeout, PollRejected, ReceiptSettle, ReceiptFails, Submit, GetReceipt,
         Crash, Execute, Progress, vars, durable, AnswerUnrecorded, ResolveUnrecorded, Unrecorded,
         SettleUnlogged, ReceiptUnlogged

LEMMA OutcomeStep ==
    ASSUME TypeOK, Position, Keys, Knowledge, [Next]_vars, NEW id \in Id, OutcomeLogged(id)'
    PROVE  phase'[id] \in Settled /\ logged'[id] = Status(phase'[id])
<1>1. CASE UNCHANGED logged
  BY <1>1, Monotone DEF OutcomeLogged, Knowledge
<1>2. ASSUME NEW b \in Id, Writes(b)
      PROVE  phase'[id] \in Settled /\ logged'[id] = Status(phase'[id])
  BY <1>2, HashStatus, Monotone DEF Writes, Executed, OutcomeLogged, Knowledge, TypeOK, keeperhub
<1> QED
  BY <1>1, <1>2, LogWrites

LEMMA KnowledgeInit == Init => Knowledge
BY DEF Init, Knowledge, SessionResumable, OutcomeLogged, ReceiptTruthful, Over

LEMMA KnowledgeStep == TypeOK /\ Position /\ Keys /\ Knowledge /\ [Next]_vars => Knowledge'
<1> SUFFICES ASSUME TypeOK, Position, Keys, Knowledge, [Next]_vars
             PROVE  Knowledge'
  OBVIOUS
<1>1. \A id \in sent' : Executed(id)' /\ logged'[id] # "absent"
  BY NewHashes
<1>2. SessionResumable'
  BY NewHashes DEF SessionResumable
<1>3. \A id \in Id : OutcomeLogged(id)' => phase'[id] \in Settled /\ logged'[id] = Status(phase'[id])
  BY OutcomeStep
<1> QED
  BY <1>1, <1>2, <1>3, TerminalStep, TruthStep DEF Knowledge

LEMMA KnowledgeCorrect == Spec => []Knowledge
BY TypeCorrect, OrderCorrect, KnowledgeInit, KnowledgeStep, PTL DEF Spec

\* A hash the orchestrator persisted can always be finished by a process
\* that never saw its broadcast.
THEOREM SessionsResume == Spec => []SessionResumable
BY KnowledgeCorrect, PTL DEF Knowledge

\* get_receipt() tells the orchestrator what happened.
THEOREM ReceiptsTellTheTruth == Spec => []ReceiptTruthful
BY KnowledgeCorrect, PTL DEF Knowledge

\* A settlement in the receipts log is never changed.
THEOREM SettlementsAreFinal == Spec => SettledStaysSettled
<1>1. TypeOK /\ Position /\ Keys /\ Knowledge /\ [Next]_vars
      => [\A id \in Id : logged[id] \in {"completed", "failed"} => logged'[id] = logged[id]]_logged
  BY LogWrites DEF Writes, Knowledge, OutcomeLogged, TypeOK
<1> QED
  BY <1>1, TypeCorrect, OrderCorrect, KnowledgeCorrect, PTL DEF Spec, SettledStaysSettled

------------------------------------------------------------------------------
(***************************************************************************)
(* Refinement.  KeeperHub's step from running to unconfirmed broadcasts,   *)
(* the one to completed lands; every other step leaves the ledger alone.   *)
(***************************************************************************)
Carries(id) == IF Executed(id) THEN WorkOf(id) ELSE None

LEMMA CarriesKey ==
    ASSUME TypeOK, Keys, NEW id \in Id, request[id] # None
    PROVE  /\ WorkOf(id) = request[id].key
           /\ WorkOf(id) # None
<1>1. request[id] \in Request /\ Signed(request[id])
  BY DEF TypeOK, Keys
<1> QED
  BY <1>1, SubmitterAssumption DEF Signed, WorkOf, KeyFor, Request

\* An execution that is about to be broadcast may be: nobody carries its
\* work yet, and the earlier transactions of its bundle have landed.
LEMMA MayBroadcast ==
    ASSUME TypeOK, Keys, Order, NEW id \in Id, phase[id] = "running"
    PROVE  /\ request[id].work \in Work
           /\ request[id].index \in DOMAIN Bundle[request[id].work]
           /\ Carries(id) = None
           /\ \A u \in Id : Carries(u) # WorkOf(id)
           /\ \A j \in 1 .. request[id].index - 1 :
                  \E u \in Id : phase[u] = "completed"
                                /\ Carries(u) = <<request[id].work, Bundle[request[id].work][j]>>
<1>1. request[id] # None /\ request[id] \in Request /\ Signed(request[id])
  BY DEF TypeOK, Keys
<1>2. ~HasHash(phase[id])
  BY DEF HasHash, Settled
<1>3. ASSUME NEW u \in Id
      PROVE  Carries(u) # WorkOf(id)
  BY <1>1, <1>2, CarriesKey DEF Carries, Executed, Keys, Holds
<1>4. ASSUME NEW j \in 1 .. request[id].index - 1
      PROVE  \E u \in Id : phase[u] = "completed"
                           /\ Carries(u) = <<request[id].work, Bundle[request[id].work][j]>>
  <2>1. PICK u \in Id : Holds(u, KeyFor(request[id].work, j)) /\ phase[u] = "completed"
    BY <1>1 DEF Order, BundleOrder
  <2>2. Executed(u) /\ WorkOf(u) = KeyFor(request[id].work, j)
    BY <2>1, CarriesKey DEF Executed, Holds, HasHash, Settled
  <2> QED
    BY <2>1, <2>2 DEF Carries, KeyFor
<1> QED
  BY <1>1, <1>2, <1>3, <1>4 DEF Carries, Executed, Signed, Request

LEMMA LedgerInitial == Init => Ledger!LedgerInit
BY DEF Init, Ledger!LedgerInit, Executed

LEMMA LedgerStep ==
    TypeOK /\ Position /\ Keys /\ Order /\ [Next]_vars
    => [Ledger!LedgerNext]_(Ledger!ledgerVars)
<1> SUFFICES ASSUME TypeOK, Position, Keys, Order, [Next]_vars
             PROVE  [Ledger!LedgerNext]_(Ledger!ledgerVars)
  OBVIOUS
<1>1. CASE UNCHANGED keeperhub \/ Post
  BY <1>1 DEF keeperhub, Post, Ledger!ledgerVars, Executed, WorkOf
<1>2. ASSUME NEW r \in network, NEW id \in Id, Execute(r, id)
      PROVE  UNCHANGED Ledger!ledgerVars
  <2>1. \A u \in Id : Executed(u)' <=> Executed(u)
    BY <1>2, NoneAssumption DEF Execute, Executed, HasHash, Settled, TypeOK, Keys
  <2>2. \A u \in Id : Executed(u) => WorkOf(u)' = WorkOf(u)
    BY <1>2 DEF Execute, Executed, WorkOf, TypeOK
  <2>3. \A u \in Id : phase'[u] = "completed" <=> phase[u] = "completed"
    BY <1>2 DEF Execute, TypeOK, Keys
  <2> QED
    BY <2>1, <2>2, <2>3 DEF Ledger!ledgerVars
<1>3. ASSUME NEW id \in Id, NEW p \in Phase, Progress(id, p), p = "unconfirmed"
      PROVE  Ledger!Broadcast(id, request[id].work, request[id].index)
  <2>1. phase[id] = "running" /\ request' = request
        /\ phase' = [phase EXCEPT ![id] = "unconfirmed"]
    BY <1>3 DEF Progress, Settled
  <2>2. request[id] # None
    BY <2>1 DEF Keys
  <2>3. \A u \in Id : Executed(u)' <=> Executed(u) \/ u = id
    BY <2>1, <2>2 DEF Executed, HasHash, TypeOK
  <2>4. \A u \in Id : phase'[u] = "completed" <=> phase[u] = "completed"
    BY <2>1 DEF TypeOK
  <2>5. \A u \in Id : WorkOf(u)' = WorkOf(u)
    BY <2>1 DEF WorkOf
  <2>6. WorkOf(id) = <<request[id].work, Bundle[request[id].work][request[id].index]>>
    BY DEF WorkOf
  <2>7. [u \in Id |-> IF Executed(u) THEN WorkOf(u) ELSE None]'
        = [[u \in Id |-> IF Executed(u) THEN WorkOf(u) ELSE None] EXCEPT ![id] = WorkOf(id)]
    BY <2>3, <2>5
  <2>8. {u \in Id : phase[u] = "completed"}' = {u \in Id : phase[u] = "completed"}
    BY <2>4
  <2>9. \A j \in 1 .. request[id].index - 1 :
            \E u \in {v \in Id : phase[v] = "completed"} :
                Carries(u) = <<request[id].work, Bundle[request[id].work][j]>>
    BY <2>1, MayBroadcast
  <2>10. Carries(id) = None /\ \A u \in Id : Carries(u) # WorkOf(id)
    BY <2>1, MayBroadcast
  <2> DEFINE carries == [u \in Id |-> IF Executed(u) THEN WorkOf(u) ELSE None]
  <2>11. \A u \in Id : carries[u] = Carries(u)
    BY DEF Carries
  <2>12. /\ carries[id] = None
         /\ \A u \in Id : carries[u] # WorkOf(id)
         /\ \A j \in 1 .. request[id].index - 1 :
                \E u \in {v \in Id : phase[v] = "completed"} :
                    carries[u] = <<request[id].work, Bundle[request[id].work][j]>>
    BY <2>9, <2>10, <2>11
  <2> QED
    BY <2>6, <2>7, <2>8, <2>12 DEF Ledger!Broadcast
<1>4. ASSUME NEW id \in Id, NEW p \in Phase, Progress(id, p), p # "unconfirmed"
      PROVE  Ledger!Land(id) \/ UNCHANGED Ledger!ledgerVars
  <2>1. request' = request /\ phase' = [phase EXCEPT ![id] = p]
    BY <1>4 DEF Progress
  <2>2. \A u \in Id : Executed(u)' <=> Executed(u)
    BY <1>4, <2>1 DEF Progress, Executed, HasHash, Settled, TypeOK
  <2>3. \A u \in Id : WorkOf(u)' = WorkOf(u)
    BY <2>1 DEF WorkOf
  <2>4. CASE p = "completed"
    <3>1. Executed(id) /\ WorkOf(id) # None
      BY <1>4, <2>4, CarriesKey DEF Progress, Executed, HasHash, Keys
    <3>2. {u \in Id : phase'[u] = "completed"} = {u \in Id : phase[u] = "completed"} \union {id}
      BY <2>1, <2>4 DEF TypeOK
    <3> QED
      BY <2>2, <2>3, <3>1, <3>2 DEF Ledger!Land
  <2>5. CASE p # "completed"
    <3>1. \A u \in Id : phase'[u] = "completed" <=> phase[u] = "completed"
      BY <1>4, <2>1, <2>5 DEF Progress, TypeOK
    <3> QED
      BY <2>2, <2>3, <3>1 DEF Ledger!ledgerVars
  <2> QED
    BY <2>4, <2>5
<1>5. ASSUME NEW id \in Id, NEW p \in Phase, Progress(id, p)
      PROVE  [Ledger!LedgerNext]_(Ledger!ledgerVars)
  <2>1. CASE p = "unconfirmed"
    <3>1. phase[id] = "running"
      BY <1>5, <2>1 DEF Progress, Settled
    <3> QED
      BY <1>3, <1>5, <2>1, <3>1, MayBroadcast DEF Ledger!LedgerNext
  <2>2. CASE p # "unconfirmed"
    BY <1>4, <1>5, <2>2 DEF Ledger!LedgerNext
  <2> QED
    BY <2>1, <2>2
<1> QED
  BY <1>1, <1>2, <1>5, KeeperHubChanges

\* The submitter implements the ledger.
THEOREM SubmitterImplementsLedger == Spec => ImplementsLedger
BY LedgerInitial, LedgerStep, TypeCorrect, OrderCorrect, PTL
   DEF Spec, ImplementsLedger, Ledger!LedgerSpec

------------------------------------------------------------------------------
(***************************************************************************)
(* Whole bundles.  When no bundle makes the same call twice, a key names   *)
(* one position of one bundle, and a bundle reported as sent was sent.     *)
(***************************************************************************)
DistinctCalls ==
    \A w \in Work : \A i, j \in DOMAIN Bundle[w] : Bundle[w][i] = Bundle[w][j] => i = j

OnItsWay(w, i) ==
    \E id \in Id : Executed(id) /\ request[id].work = w /\ request[id].index = i

LEMMA KeyNamesPosition ==
    ASSUME DistinctCalls, TypeOK, Keys, NEW id \in Id, Executed(id),
           NEW w \in Work, NEW i \in DOMAIN Bundle[w], Holds(id, KeyFor(w, i))
    PROVE  OnItsWay(w, i)
<1>1. request[id] \in Request /\ Signed(request[id])
  BY DEF Executed, TypeOK, Keys
<1>2. KeyFor(request[id].work, request[id].index) = KeyFor(w, i)
  BY <1>1 DEF Signed, Holds
<1>3. request[id].work = w /\ request[id].index = i
  BY <1>1, <1>2 DEF KeyFor, Signed, DistinctCalls
<1> QED
  BY <1>3 DEF OnItsWay

LEMMA OnItsWayStable ==
    ASSUME TypeOK, Keys, [Next]_vars, NEW w, NEW i, OnItsWay(w, i)
    PROVE  OnItsWay(w, i)'
<1>1. PICK id \in Id : Executed(id) /\ request[id].work = w /\ request[id].index = i
  BY DEF OnItsWay
<1> QED
  BY <1>1, ExecutedStable DEF OnItsWay

\* submit() says "sent" only at the last transaction, once it has a hash.
LEMMA SaysSent ==
    ASSUME TypeOK, Position, [Next]_vars, NEW w \in Work,
           outcome'[w] = "sent", outcome[w] # "sent"
    PROVE  /\ work = w
           /\ pc \in Submitting
           /\ index = Len(Bundle[w])
           /\ UNCHANGED keeperhub
           /\ \E id \in Id : Executed(id) /\ Holds(id, KeyFor(work, index))
<1>1. ASSUME NEW id \in Id, HasHash(phase[id]), Holds(id, KeyFor(work, index)),
             pc \in {"await", "resolve"}, Accept(id), UNCHANGED keeperhub
      PROVE  /\ work = w
             /\ pc \in Submitting
             /\ index = Len(Bundle[w])
             /\ UNCHANGED keeperhub
             /\ \E b \in Id : Executed(b) /\ Holds(b, KeyFor(work, index))
  BY <1>1 DEF Accept, Finish, NextTransaction, AwaitSettlement, Submitting, Executed, Holds, TypeOK
<1>2. ASSUME NEW id \in Id, AnswerHash(id)
      PROVE  /\ work = w
             /\ pc \in Submitting
             /\ index = Len(Bundle[w])
             /\ UNCHANGED keeperhub
             /\ \E b \in Id : Executed(b) /\ Holds(b, KeyFor(work, index))
  BY <1>1, <1>2 DEF AnswerHash, Answered
<1>3. CASE ResolveHash
  BY <1>1, <1>3 DEF ResolveHash, HasHash, Position
<1> QED
  BY <1>2, <1>3
     DEF Next, ProcessStep, KeeperHubStep, OrchestratorStep, Post, Retry, GiveUp, Reject,
         BroadcastFails, Finish, AnswerRefused, AnswerRunning, ResolveRefused, ResolveTimeout,
         Settle, NextTransaction, SettleTimeout, PollRejected, ReceiptSettle, ReceiptFromChain,
         ReceiptFromKeeperHub, Deliver, ReceiptFails, Submit, GetReceipt, Crash, Execute,
         Progress, vars, durable, TypeOK, AnswerUnrecorded, ResolveUnrecorded, Unrecorded,
         SettleUnlogged, ReceiptUnlogged

LEMMA WholeStep ==
    ASSUME DistinctCalls, TypeOK, Position, Keys, Order, SuccessMeansWholeBundle, [Next]_vars
    PROVE  SuccessMeansWholeBundle'
<1>1. ASSUME NEW w \in Work, outcome'[w] = "sent", NEW i \in DOMAIN Bundle[w]
      PROVE  OnItsWay(w, i)
  <2>1. CASE outcome[w] = "sent"
    BY <2>1 DEF SuccessMeansWholeBundle, OnItsWay
  <2>2. CASE outcome[w] # "sent"
    <3>1. /\ work = w
          /\ pc \in Submitting
          /\ index = Len(Bundle[w])
          /\ \E id \in Id : Executed(id) /\ Holds(id, KeyFor(work, index))
      BY <1>1, <2>2, SaysSent
    <3>2. CASE i = index
      BY <3>1, <3>2, KeyNamesPosition
    <3>3. CASE i # index
      <4>1. Bundle[w] \in Seq(Call) /\ i \in 1 .. Len(Bundle[w]) /\ index \in Nat
        BY SubmitterAssumption DEF TypeOK
      <4>2. i \in 1 .. index - 1
        BY <3>1, <3>3, <4>1
      <4>3. PICK e \in Id : Holds(e, KeyFor(w, i)) /\ phase[e] = "completed"
        BY <3>1, <4>2 DEF Order, Done
      <4>4. Executed(e)
        BY <4>3 DEF Executed, Holds, HasHash, Settled
      <4> QED
        BY <4>3, <4>4, KeyNamesPosition
    <3> QED
      BY <3>2, <3>3
  <2> QED
    BY <2>1, <2>2
<1>2. ASSUME NEW w \in Work, outcome'[w] = "sent", NEW i \in DOMAIN Bundle[w]
      PROVE  OnItsWay(w, i)'
  BY <1>1, <1>2, OnItsWayStable
<1> QED
  BY <1>2 DEF SuccessMeansWholeBundle, OnItsWay

\* When no bundle makes the same call twice, a partial bundle is never
\* reported as a success.
THEOREM SentMeansWhole ==
    ASSUME DistinctCalls
    PROVE  Spec => []SuccessMeansWholeBundle
<1>1. Init => SuccessMeansWholeBundle
  BY DEF Init, SuccessMeansWholeBundle
<1>2. TypeOK /\ Position /\ Keys /\ Order /\ SuccessMeansWholeBundle /\ [Next]_vars
      => SuccessMeansWholeBundle'
  BY WholeStep
<1> QED
  BY <1>1, <1>2, TypeCorrect, OrderCorrect, PTL DEF Spec

------------------------------------------------------------------------------
(***************************************************************************)
(* Where a bundle stops.                                                   *)
(***************************************************************************)
Broken == {"refused", "reverted", "inner_failure", "misreported"}

StopsForGood ==
    \A id \in Id : phase[id] \in Broken =>
        LET after(r) == r.work = request[id].work /\ r.index > request[id].index
        IN  /\ \A r \in network : ~after(r)
            /\ \A e \in Id : request[e] # None => ~after(request[e])

(* A bundle stops for good at a transaction that was refused or failed: no *)
(* attempt, of this process or of another, sends KeeperHub a later one of  *)
(* the bundle, as the key brings each attempt back to the same execution   *)
(* (submitter.py:104-156, signer.py:60-66).                                *)
THEOREM BrokenBundlesStop == Spec => []StopsForGood
<1>1. TypeOK /\ Keys /\ Order => StopsForGood
  <2> SUFFICES ASSUME TypeOK, Keys, Order PROVE StopsForGood
    OBVIOUS
  <2> SUFFICES ASSUME NEW id \in Id, phase[id] \in Broken,
                      NEW r \in Request, r.work = request[id].work,
                      r.index > request[id].index,
                      r \in network \/ \E e \in Id : r = request[e]
               PROVE  FALSE
    <3>1. network \subseteq Request /\ \A e \in Id : request[e] # None => request[e] \in Request
      BY DEF TypeOK
    <3> QED
      BY <3>1 DEF StopsForGood
  <2>1. request[id] \in Request /\ request[id] # None /\ Signed(request[id])
    BY NoneAssumption DEF Broken, Keys, TypeOK
  <2> DEFINE w == request[id].work
             j == request[id].index
  <2>2. r # None
    BY NoneAssumption
  <2>3. j \in 1 .. r.index - 1
    BY <2>1 DEF Request
  <2>4. Done(w, j)
    BY <2>2, <2>3 DEF Order, BundleOrder, Done
  <2>5. PICK e \in Id : Holds(e, KeyFor(w, j)) /\ phase[e] = "completed"
    BY <2>4 DEF Done
  <2>6. e = id
    BY <2>1, <2>5 DEF Keys, Signed
  <2> QED
    BY <2>5, <2>6 DEF Broken
<1> QED
  BY <1>1, OrderCorrect, TypeCorrect, PTL

------------------------------------------------------------------------------
(***************************************************************************)
(* What submit() hands over.                                               *)
(***************************************************************************)
\* submit() has the hash of every transaction it is past, and of the one
\* whose outcome it waits for; before the first one it has none.
HashesKept ==
    /\ pc \in Submitting =>
         \A j \in 1 .. index - 1 : \E e \in sent : Holds(e, KeyFor(work, j))
    /\ pc = "settle" => cur \in sent
    /\ pc # "settle" /\ index = 1 => sent = {}

\* The log could not be written.
WriteFails == ResolveUnrecorded \/ SettleUnlogged \/ \E id \in Id : AnswerUnrecorded(id)

HandsOver ==
    work # None /\ pc' = "idle" /\ crashes' = crashes =>
        \/ PollRejected \/ WriteFails
        \/ LET given(j) == \E e \in session' : Holds(e, KeyFor(work, j))
           IN  /\ sent \subseteq session'
               /\ \A j \in 1 .. index - 1 : given(j)
               /\ outcome'[work] = "sent" => \A j \in DOMAIN Bundle[work] : given(j)

LEMMA KeptByAccept ==
    ASSUME TypeOK, Position, HashesKept, NEW id \in Id, Holds(id, KeyFor(work, index)),
           pc \in {"await", "resolve"}, Accept(id), UNCHANGED keeperhub
    PROVE  HashesKept'
<1>1. index \in Nat \ {0} /\ pc \in Submitting
  BY DEF TypeOK, Submitting
<1>2. \A j \in 1 .. index : \E e \in sent \union {id} : Holds(e, KeyFor(work, j))
  BY <1>1 DEF HashesKept
<1>3. CASE Finish("sent", sent \union {id}) \/ Finish("partial", sent \union {id})
  BY <1>3 DEF Finish, HashesKept, Submitting
<1>4. CASE NextTransaction(sent \union {id})
  <2>1. /\ work' = work /\ index' = index + 1 /\ sent' = sent \union {id} /\ pc' = "post"
        /\ \A e, j : Holds(e, KeyFor(work, j)) <=> Holds(e, KeyFor(work, j))'
    BY <1>4 DEF NextTransaction, Holds, KeyFor, keeperhub
  <2> QED
    BY <1>1, <1>2, <2>1 DEF HashesKept
<1>5. CASE AwaitSettlement(id)
  <2>1. /\ work' = work /\ index' = index /\ sent' = sent \union {id} /\ pc' = "settle"
        /\ cur' = id
        /\ \A e, j : Holds(e, KeyFor(work, j)) <=> Holds(e, KeyFor(work, j))'
    BY <1>5 DEF AwaitSettlement, Holds, KeyFor, keeperhub
  <2> QED
    BY <1>1, <1>2, <2>1 DEF HashesKept
<1> QED
  BY <1>3, <1>4, <1>5 DEF Accept

LEMMA KeptStep == TypeOK /\ Position /\ Keys /\ HashesKept /\ [Next]_vars => HashesKept'
<1> SUFFICES ASSUME TypeOK, Position, Keys, HashesKept, [Next]_vars
             PROVE  HashesKept'
  OBVIOUS
<1>1. ASSUME NEW id \in Id, AnswerHash(id)
      PROVE  HashesKept'
  BY <1>1, KeptByAccept DEF AnswerHash, Answered
<1>2. CASE ResolveHash
  BY <1>2, KeptByAccept DEF ResolveHash, Position
<1>3. CASE Settle
  <2>1. CASE Finish("partial", sent)
    BY <2>1 DEF Finish, HashesKept, Submitting
  <2>2. CASE NextTransaction(sent)
    <3>1. index \in Nat \ {0} /\ pc = "settle" /\ cur \in sent /\ Holds(cur, KeyFor(work, index))
      BY <1>3 DEF Settle, TypeOK, Position, HashesKept
    <3>2. \A j \in 1 .. index : \E e \in sent : Holds(e, KeyFor(work, j))
      BY <3>1 DEF HashesKept, Submitting
    <3>3. /\ work' = work /\ index' = index + 1 /\ sent' = sent /\ pc' = "post"
          /\ \A e, j : Holds(e, KeyFor(work, j)) <=> Holds(e, KeyFor(work, j))'
      BY <1>3, <2>2 DEF Settle, NextTransaction, Holds, KeyFor, keeperhub
    <3> QED
      BY <3>1, <3>2, <3>3 DEF HashesKept
  <2> QED
    BY <1>3, <2>1, <2>2 DEF Settle
<1>4. CASE \/ GiveUp \/ Reject \/ ResolveRefused \/ ResolveTimeout \/ SettleTimeout \/ PollRejected
           \/ WriteFails \/ Crash \/ \E id \in Id : AnswerRefused(id)
  BY <1>4 DEF GiveUp, Reject, BroadcastFails, ResolveRefused, ResolveTimeout, SettleTimeout,
              PollRejected, WriteFails, AnswerUnrecorded, ResolveUnrecorded, Unrecorded,
              SettleUnlogged, Crash, AnswerRefused, Finish, HashesKept, Submitting
<1>5. ASSUME \A e \in Id : request[e] # None => request'[e] = request[e],
             work' = work, index' = index, sent' = sent,
             pc' \in Submitting => pc \in Submitting,
             pc' = "settle" => pc = "settle" /\ cur' = cur, pc' # "settle" => pc # "settle"
      PROVE  HashesKept'
  BY <1>5 DEF HashesKept, Holds, KeyFor, TypeOK
<1>6. CASE \/ Post \/ Retry \/ ReceiptSettle \/ ReceiptFromChain \/ ReceiptFromKeeperHub
           \/ ReceiptUnlogged \/ ReceiptFails \/ (\E id \in Id : AnswerRunning(id) \/ GetReceipt(id))
           \/ UNCHANGED vars
  <2>1. UNCHANGED <<request, work, index, sent>>
    BY <1>6 DEF Post, Retry, ReceiptSettle, ReceiptFromChain, ReceiptFromKeeperHub, Deliver,
                ReceiptUnlogged, ReceiptFails, AnswerRunning, GetReceipt, vars, keeperhub, process
  <2>2. /\ pc' \in Submitting => pc \in Submitting
        /\ pc' = "settle" => pc = "settle" /\ cur' = cur
        /\ pc' # "settle" => pc # "settle"
    BY <1>6 DEF Post, Retry, ReceiptSettle, ReceiptFromChain, ReceiptFromKeeperHub, Deliver,
                ReceiptUnlogged, ReceiptFails, AnswerRunning, Answered, GetReceipt, vars, process, Submitting
  <2> QED
    BY <1>5, <2>1, <2>2
<1>7. CASE KeeperHubStep
  <2>1. UNCHANGED process
    BY <1>7 DEF KeeperHubStep, Execute, Progress
  <2>2. \A e \in Id : request[e] # None => request'[e] = request[e]
    BY <1>7 DEF KeeperHubStep, Execute, Progress, TypeOK
  <2> QED
    BY <1>5, <2>1, <2>2 DEF process
<1>8. ASSUME NEW w \in Work, Submit(w)
      PROVE  HashesKept'
  BY <1>8 DEF Submit, Position, HashesKept, Submitting
<1> QED
  BY <1>1, <1>2, <1>3, <1>4, <1>6, <1>7, <1>8
     DEF Next, ProcessStep, OrchestratorStep, WriteFails

LEMMA HandedOver ==
    ASSUME TypeOK, Position, HashesKept, [Next]_vars
    PROVE  HandsOver
<1> DEFINE given(j) == \E e \in session' : Holds(e, KeyFor(work, j))
<1> SUFFICES ASSUME work # None, pc' = "idle", crashes' = crashes, ~PollRejected, ~WriteFails
             PROVE  /\ sent \subseteq session'
                    /\ \A j \in 1 .. index - 1 : given(j)
                    /\ outcome'[work] = "sent" => \A j \in DOMAIN Bundle[work] : given(j)
  BY DEF HandsOver
<1>1. /\ pc \in Submitting /\ index \in Nat \ {0} /\ crashes \in Nat
      /\ work \in Work /\ outcome \in [Work -> {"none", "raised", "partial", "sent"}]
  BY DEF Position, TypeOK
<1>2. \A j \in 1 .. index - 1 : \E e \in sent : Holds(e, KeyFor(work, j))
  BY <1>1 DEF HashesKept
<1>3. SUFFICES /\ sent \subseteq session'
               /\ outcome'[work] = "sent" => index = Len(Bundle[work]) /\ given(index)
  <2>1. \A j \in 1 .. index - 1 : given(j)
    BY <1>2, <1>3
  <2>2. ASSUME outcome'[work] = "sent", NEW j \in DOMAIN Bundle[work]
        PROVE  given(j)
    <3>1. Bundle[work] \in Seq(Call) /\ index = Len(Bundle[work]) /\ given(index)
      BY <1>1, <1>3, <2>2, SubmitterAssumption
    <3>2. j \in 1 .. index - 1 \/ j = index
      BY <1>1, <3>1
    <3> HIDE DEF given
    <3> QED
      BY <2>1, <3>1, <3>2
  <2> QED
    BY <1>3, <2>1, <2>2
<1>4. ASSUME NEW verdict, NEW hashes, Finish(verdict, hashes), verdict # "sent",
             sent \subseteq hashes
      PROVE  sent \subseteq session' /\ outcome'[work] # "sent"
  BY <1>1, <1>4 DEF Finish
<1>5. ASSUME BroadcastFails, pc # "settle"
      PROVE  sent \subseteq session' /\ outcome'[work] # "sent"
  BY <1>4, <1>5 DEF BroadcastFails, HashesKept
<1>6. ASSUME NEW id \in Id, Accept(id), Holds(id, KeyFor(work, index))
      PROVE  /\ sent \subseteq session'
             /\ outcome'[work] = "sent" => index = Len(Bundle[work]) /\ given(index)
  <2>1. CASE Finish("partial", sent \union {id})
    BY <1>4, <2>1
  <2>2. CASE index = Len(Bundle[work]) /\ Finish("sent", sent \union {id})
    BY <1>6, <2>2 DEF Finish
  <2> QED
    BY <1>6, <2>1, <2>2 DEF Accept, NextTransaction, AwaitSettlement
<1>7. CASE GiveUp \/ Reject \/ ResolveTimeout
  BY <1>5, <1>7 DEF GiveUp, Reject, ResolveTimeout
<1>8. CASE ResolveHash \/ \E id \in Id : AnswerHash(id)
  BY <1>6, <1>8 DEF ResolveHash, AnswerHash, Answered, Position
<1>9. CASE ResolveRefused \/ SettleTimeout \/ Settle \/ \E id \in Id : AnswerRefused(id)
  BY <1>4, <1>9 DEF ResolveRefused, SettleTimeout, Settle, AnswerRefused, NextTransaction
<1> QED
  BY <1>1, <1>7, <1>8, <1>9
     DEF Next, ProcessStep, KeeperHubStep, OrchestratorStep, Post, Retry, AnswerRunning,
         ReceiptSettle, ReceiptUnlogged, ReceiptFromChain, ReceiptFromKeeperHub, ReceiptFails,
         Submit, GetReceipt, Crash, Execute, Progress, Submitting, WriteFails, vars, process

(* However submit() ends, short of the death of the process, a status poll *)
(* that is rejected or a receipts log that cannot be written, the          *)
(* orchestrator is given every hash: that of each transaction that was got *)
(* past and of the one that was waited for, and those of the whole bundle  *)
(* when it was sent.  The last two exceptions leave submit() because they  *)
(* are no SubmissionErrors (submitter.py:94-158, receipts.py:137,          *)
(* client.py:454).                                                         *)
THEOREM HashesReachTheOrchestrator == Spec => [][HandsOver]_vars
<1>1. Spec => []HashesKept
  <2>1. Init => HashesKept
    BY DEF Init, HashesKept, Submitting
  <2> QED
    BY <2>1, KeptStep, TypeCorrect, OrderCorrect, PTL DEF Spec
<1>2. TypeOK /\ Position /\ HashesKept /\ [Next]_vars => HandsOver
  BY HandedOver
<1> QED
  BY <1>1, <1>2, TypeCorrect, PTL DEF Spec

------------------------------------------------------------------------------
(***************************************************************************)
(* How much submit() can still do.                                         *)
(***************************************************************************)
\* A transaction is posted MaxRetries + 1 times at most, each post is
\* awaited, and its hash and its outcome are waited for once.
Stage ==
    CASE pc = "post" -> 3 [] pc = "await" -> 2 [] pc = "resolve" -> 1 [] OTHER -> 0
Posts == (Len(Bundle[work]) - index) * (MaxRetries + 1) + (MaxRetries - tries)
Effort == 4 * Posts + Stage

EffortFalls ==
    work # None =>
        \/ work' = None
        \/ UNCHANGED process
        \/ work' = work /\ Effort' < Effort

LEMMA PostsLeft ==
    ASSUME NEW l \in Nat, NEW i \in 1 .. l, NEW m \in Nat, NEW t \in 0 .. m
    PROVE  /\ (l - i) * (m + 1) + (m - t) \in Nat
           /\ i + 1 <= l =>
                (l - (i + 1)) * (m + 1) + (m - 0) < (l - i) * (m + 1) + (m - t)
           /\ t + 1 <= m =>
                (l - i) * (m + 1) + (m - (t + 1)) < (l - i) * (m + 1) + (m - t)
<1>1. (l - i) * (m + 1) \in Nat
  OBVIOUS
<1>2. (l - (i + 1)) * (m + 1) = (l - i) * (m + 1) - (m + 1)
  OBVIOUS
<1> QED
  BY <1>1, <1>2

LEMMA Shorter ==
    ASSUME NEW p \in Nat, NEW q \in Nat, NEW s \in 0 .. 3, NEW r \in 0 .. 3,
           q < p \/ (q = p /\ r < s)
    PROVE  4 * q + r < 4 * p + s
OBVIOUS

LEMMA EffortStep ==
    ASSUME TypeOK, Position, [Next]_vars
    PROVE  EffortFalls
<1> SUFFICES ASSUME work # None, work' # None, ~UNCHANGED process
             PROVE  work' = work /\ Effort' < Effort
  BY DEF EffortFalls
<1> DEFINE l == Len(Bundle[work])
<1>1. /\ pc \in Submitting /\ work \in Work /\ index \in 1..l /\ l \in Nat
      /\ tries \in 0 .. MaxRetries /\ MaxRetries \in Nat
  BY SubmitterAssumption DEF Position, TypeOK
<1>2. Posts \in Nat /\ Stage \in 0 .. 3
  <2>1. Posts \in Nat
    BY <1>1, PostsLeft DEF Posts
  <2> QED
    BY <2>1 DEF Stage
<1>3. Stage' \in 0 .. 3
  BY DEF Stage
<1>4. ASSUME NEW h, NextTransaction(h), index # l
      PROVE  work' = work /\ Effort' < Effort
  <2>1. work' = work /\ index' = index + 1 /\ tries' = 0
    BY <1>4 DEF NextTransaction
  <2>2. Posts' = (l - (index + 1)) * (MaxRetries + 1) + (MaxRetries - 0)
    BY <2>1 DEF Posts
  <2>3. index + 1 <= l /\ index + 1 \in 1..l /\ 0 \in 0 .. MaxRetries
    BY <1>1, <1>4
  <2>4. Posts' < Posts
    BY <1>1, <2>2, <2>3, PostsLeft DEF Posts
  <2>5. Posts' \in Nat
    BY <1>1, <2>2, <2>3, PostsLeft
  <2> QED
    BY <1>2, <1>3, <2>1, <2>4, <2>5, Shorter DEF Effort
<1>5. ASSUME UNCHANGED <<work, index, tries>>, Stage' < Stage
      PROVE  work' = work /\ Effort' < Effort
  <2>1. Posts' = Posts
    BY <1>5 DEF Posts
  <2> QED
    BY <1>2, <1>3, <1>5, <2>1, Shorter DEF Effort
<1>6. ASSUME NEW id \in Id, pc \in {"await", "resolve"}, Accept(id)
      PROVE  work' = work /\ Effort' < Effort
  <2>1. CASE AwaitSettlement(id)
    BY <1>5, <1>6, <2>1 DEF AwaitSettlement, Stage
  <2>2. CASE index # l /\ NextTransaction(sent \union {id})
    BY <1>4, <2>2
  <2> QED
    BY <1>6, <2>1, <2>2 DEF Accept, Finish
<1>7. CASE Post
  BY <1>5, <1>7 DEF Post, Stage
<1>8. CASE Retry
  <2>1. UNCHANGED <<work, index>> /\ tries' = tries + 1 /\ tries < MaxRetries
    BY <1>8 DEF Retry
  <2>2. Posts' = (l - index) * (MaxRetries + 1) + (MaxRetries - (tries + 1))
    BY <2>1 DEF Posts
  <2>3. tries + 1 \in 0 .. MaxRetries
    BY <1>1, <2>1
  <2>4. Posts' \in Nat
    BY <1>1, <2>2, <2>3, PostsLeft
  <2>5. tries + 1 <= MaxRetries
    BY <1>1, <2>1
  <2>6. Posts' < Posts
    BY <1>1, <2>2, <2>5, PostsLeft DEF Posts
  <2> QED
    BY <1>2, <1>3, <2>1, <2>4, <2>6, Shorter DEF Effort
<1>9. CASE \E id \in Id : AnswerHash(id) \/ AnswerRunning(id)
  BY <1>5, <1>6, <1>9 DEF AnswerHash, AnswerRunning, Answered, Stage
<1>10. CASE ResolveHash
  BY <1>6, <1>10 DEF ResolveHash, Position
<1>11. CASE Settle
  <2>1. index # l
    BY <1>11 DEF Settle, Position
  <2> QED
    BY <1>4, <1>11, <2>1 DEF Settle, Finish
<1> QED
  BY <1>1, <1>7, <1>8, <1>9, <1>10, <1>11
     DEF Next, ProcessStep, KeeperHubStep, OrchestratorStep, GiveUp, Reject, BroadcastFails,
         Finish, AnswerRefused, ResolveRefused, ResolveTimeout, SettleTimeout, PollRejected,
         ReceiptSettle, ReceiptFromChain, ReceiptFromKeeperHub, ReceiptFails, Submit, GetReceipt,
         Crash, Execute, Progress, Submitting, vars, AnswerUnrecorded, ResolveUnrecorded,
         Unrecorded, SettleUnlogged, ReceiptUnlogged

(* submit() cannot go on for ever: whatever KeeperHub answers and however  *)
(* long it stays silent, every step submit() takes brings it nearer to its *)
(* end, counted from (MaxRetries + 1) posts for each transaction; and in   *)
(* each of its waits there is a step that depends on no answer (Retry or   *)
(* GiveUp, ResolveTimeout, SettleTimeout).                                 *)
(* (submitter.py:89-157, 253-355.)                                         *)
THEOREM SubmitIsBounded == Spec => [][EffortFalls]_vars
BY EffortStep, TypeCorrect, PTL DEF Spec
==============================================================================
