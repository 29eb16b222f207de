------------------------------ MODULE Submitter ------------------------------
(***************************************************************************)
(* KeeperHubSubmitter (almanak_keeperhub/submitter.py) with the client     *)
(* loop under it (client.py) and the idempotency key the signer derives    *)
(* (signer.py), against the KeeperHub Direct Execution API and the Almanak *)
(* orchestrator, both external.                                            *)
(*                                                                         *)
(* The orchestrator hands submit() the bundle of an intent, any number of  *)
(* times, and asks get_receipt() for the hashes it was given.  The process *)
(* may die at any step and a fresh one starts with nothing in memory; only *)
(* KeeperHub, the chain, the receipts log and the orchestrator's session   *)
(* store survive.  A request may be lost, delayed past the death of the    *)
(* process that sent it, or delivered twice.                               *)
(*                                                                         *)
(* A step of the process runs from one await to the next.  An execution    *)
(* and the transaction it broadcasts share the identifier id: KeeperHub    *)
(* broadcasts one transaction per execution.                               *)
(***************************************************************************)
EXTENDS Naturals, Sequences

CONSTANTS
    Work,        \* intents: correlation_id, the work id of the key
    Call,        \* (chain, sender, to, data, value) of a transaction
    Bundle,      \* the calls an intent compiles to, in order
    Id,          \* execution ids, and the hashes of their transactions
    None,        \* no request, no execution, no intent
    MaxRetries,  \* max_in_progress_retries
    MaxSubmits,  \* bound: submit() calls of each intent
    MaxCrashes   \* bound: deaths of the process

ASSUME SubmitterAssumption ==
    /\ Bundle \in [Work -> Seq(Call)]
    /\ \A w \in Work : Bundle[w] # << >>
    /\ MaxRetries \in Nat
    /\ MaxSubmits \in [Work -> Nat]
    /\ MaxCrashes \in Nat
    /\ None \notin Id \union Work \union (Work \X Call)

VARIABLES
    network,   \* requests sent to KeeperHub that it may (still) receive
    request,   \* the request that created each execution
    phase,     \* how far KeeperHub is with each execution
    pc,        \* the await the process is suspended at
    work,      \* the intent submit() is working on
    index,     \* the position of its current transaction
    tries,     \* attempts: retries of the current broadcast
    cur,       \* the execution being polled or read
    sent,      \* results: the hashes submit() has to return so far
    memory,    \* _executions: what the process knows of each hash, and
               \* whether the log has not been told ("unlogged")
    logged,    \* status of the newest receipts-log entry of each hash
    session,   \* the hashes the orchestrator was given and persisted
    outcome,   \* how the last finished submit() of each intent ended
    receipt,   \* what get_receipt() last told the orchestrator of a hash
    submits,   \* submit() calls so far, per intent
    crashes    \* deaths of the process so far

keeperhub == <<network, request, phase>>
process == <<pc, work, index, tries, cur, sent, memory>>
durable == <<logged, session, outcome, receipt>>
vars == <<keeperhub, process, durable, submits, crashes>>

------------------------------------------------------------------------------
(***************************************************************************)
(* KeeperHub.  An execution is running until it is refused (nothing was    *)
(* broadcast) or its transaction is out and unconfirmed.  The transaction  *)
(* then succeeds, reverts, or succeeds around a failed Safe inner call; or *)
(* it succeeds while KeeperHub reports failed (the README's #2374).        *)
(***************************************************************************)
Settled == {"completed", "reverted", "inner_failure", "misreported"}
Phase == {"none", "running", "refused", "unconfirmed"} \union Settled

HasHash(p) == p \in {"unconfirmed"} \union Settled

\* The status field of the envelope and of GET /status.
Status(p) == IF p \in {"completed", "running", "unconfirmed"} THEN p ELSE "failed"

\* The status bit of the chain's own receipt.
ChainSuccess(p) == p \in {"completed", "inner_failure", "misreported"}
\* Faulty: a failed Safe inner call is not counted as a failure.
ClassifiedReverted(p) == p = "reverted"

\* receipts[].receiptStatus is in FAILED_RECEIPT_STATUSES.
ClassifiedFailed(p) == p \in {"reverted", "inner_failure"}
\* receipts[] holds a verified receipt with a block number.
HasVerifiedReceipt(p) == p \in {"completed", "reverted", "inner_failure"}

\* Faulty: a fresh nonce, here the attempt, is part of the key.
KeyForAttempt(w, i) == <<w, <<Bundle[w][i], submits[w]>>>>

\* The key names the work, never the attempt: no nonce is in it.
\* It does not name the position in the bundle either.
KeyFor(w, i) == <<w, Bundle[w][i]>>

RequestFor(w, i) == [key |-> KeyFor(w, i), work |-> w, index |-> i]
Request == [key : Work \X Call, work : Work, index : Nat \ {0}]

ASSUME NoneAssumption == None \notin Request

\* The execution KeeperHub's idempotency table holds for a key.
Holds(id, key) == request[id] # None /\ request[id].key = key

Init ==
    /\ network = {}
    /\ request = [id \in Id |-> None]
    /\ phase = [id \in Id |-> "none"]
    /\ pc = "idle"
    /\ work = None
    /\ index = 1
    /\ tries = 0
    /\ cur = None
    /\ sent = {}
    /\ memory = [id \in Id |-> "none"]
    /\ logged = [id \in Id |-> "absent"]
    /\ session = {}
    /\ outcome = [w \in Work |-> "none"]
    /\ receipt = [id \in Id |-> "none"]
    /\ submits = [w \in Work |-> 0]
    /\ crashes = 0

\* KeeperHub receives a request whose key it has not seen.  A key it has
\* seen creates nothing: the answer is a replay or in_progress.
Execute(r, id) ==
    /\ r \in network
    /\ \A other \in Id : ~Holds(other, r.key)
    /\ request[id] = None
    /\ request' = [request EXCEPT ![id] = r]
    /\ phase' = [phase EXCEPT ![id] = "running"]
    /\ UNCHANGED <<network, process, durable, submits, crashes>>

\* KeeperHub and the chain move an execution on.
Progress(id, p) ==
    /\ \/ phase[id] = "running" /\ p \in {"refused", "unconfirmed"}
       \/ phase[id] = "unconfirmed" /\ p \in Settled
    /\ phase' = [phase EXCEPT ![id] = p]
    /\ UNCHANGED <<network, request, process, durable, submits, crashes>>

------------------------------------------------------------------------------
(***************************************************************************)
(* submit().  A transaction is posted ("post"), its answer awaited         *)
(* ("await"), its hash waited for when the answer has none ("resolve"),    *)
(* and, unless it is the last, its outcome waited for ("settle").          *)
(***************************************************************************)
Submit(w) ==
    /\ pc = "idle"
    /\ submits[w] < MaxSubmits[w]
    /\ submits' = [submits EXCEPT ![w] = @ + 1]
    /\ pc' = "post"
    /\ work' = w
    /\ UNCHANGED <<keeperhub, index, tries, cur, sent, memory, durable, crashes>>

\* submit() ends, and the orchestrator persists the hashes it is given.
Finish(verdict, hashes) ==
    /\ pc' = "idle"
    /\ work' = None
    /\ index' = 1
    /\ tries' = 0
    /\ cur' = None
    /\ sent' = {}
    /\ session' = session \union hashes
    /\ outcome' = [outcome EXCEPT ![work] = verdict]

\* A SubmissionError out of _broadcast: with nothing sent yet it is raised,
\* later the rest of the bundle is abandoned.
BroadcastFails ==
    IF index = 1 THEN Finish("raised", {}) ELSE Finish("partial", sent)

NextTransaction(hashes) ==
    /\ pc' = "post"
    /\ index' = index + 1
    /\ tries' = 0
    /\ cur' = None
    /\ sent' = hashes
    /\ UNCHANGED <<work, session, outcome>>

\* Faulty: the next transaction goes out while this one is unconfirmed.
SendNext(id) == NextTransaction(sent \union {id})

AwaitSettlement(id) ==
    /\ pc' = "settle"
    /\ cur' = id
    /\ sent' = sent \union {id}
    /\ UNCHANGED <<work, index, tries, session, outcome>>

\* Faulty: the log is never written, or always says unconfirmed.
RecordInMemory(id) ==
    /\ memory' = [memory EXCEPT ![id] = "envelope"]
    /\ UNCHANGED logged
RecordUnconfirmed(id) ==
    /\ memory' = [memory EXCEPT ![id] = "envelope"]
    /\ logged' = [logged EXCEPT ![id] = "unconfirmed"]

\* _executions and the receipts log get an entry for the hash; a replay
\* appends another one, and the newest is what find_by_hash() answers with.
Record(id) ==
    /\ memory' = [memory EXCEPT ![id] = "envelope"]
    /\ logged' = [logged EXCEPT ![id] = Status(phase[id])]

\* The envelope carries a hash: remember it, record it, report it, and
\* decide from its status whether the next transaction may go.
Accept(id) ==
    LET status == Status(phase[id])
        last == index = Len(Bundle[work])
    IN  /\ Record(id)
        /\ \/ last /\ Finish("sent", sent \union {id})
           \/ ~last /\ status = "failed" /\ Finish("partial", sent \union {id})
           \/ ~last /\ status = "completed" /\ NextTransaction(sent \union {id})
           \/ ~last /\ status \notin {"failed", "completed"} /\ AwaitSettlement(id)

Post ==
    /\ pc = "post"
    /\ pc' = "await"
    /\ network' = network \union {RequestFor(work, index)}
    /\ UNCHANGED <<request, phase, work, index, tries, cur, sent, memory, durable,
                   submits, crashes>>

\* Faulty: no bound on the retries, or none of them counted.
RetryUnbounded ==
    /\ pc = "await"
    /\ tries' = tries + 1
    /\ pc' = "post"
    /\ UNCHANGED <<keeperhub, work, index, cur, sent, memory, durable, submits, crashes>>
RetryUncounted ==
    /\ pc = "await"
    /\ tries < MaxRetries
    /\ pc' = "post"
    /\ UNCHANGED <<keeperhub, work, index, tries, cur, sent, memory, durable, submits, crashes>>

\* A transport error, a 5xx, a rate limit or in_progress: the same request
\* goes out again.
Retry ==
    /\ pc = "await"
    /\ tries < MaxRetries
    /\ tries' = tries + 1
    /\ pc' = "post"
    /\ UNCHANGED <<keeperhub, work, index, cur, sent, memory, durable, submits, crashes>>

GiveUp ==
    /\ pc = "await"
    /\ tries = MaxRetries
    /\ BroadcastFails
    /\ UNCHANGED <<keeperhub, memory, logged, receipt, submits, crashes>>

\* idempotency_conflict, a credential that cannot broadcast, any other 4xx.
Reject ==
    /\ pc = "await"
    /\ BroadcastFails
    /\ UNCHANGED <<keeperhub, memory, logged, receipt, submits, crashes>>

Answered(id) == pc = "await" /\ Holds(id, KeyFor(work, index))

\* The answer carries a hash, the first time or as a replay.
AnswerHash(id) ==
    /\ Answered(id)
    /\ HasHash(phase[id])
    /\ Accept(id)
    /\ UNCHANGED <<keeperhub, receipt, submits, crashes>>

\* The log is torn, or cannot be written: the entry is not made, and what
\* the write raises, which is no SubmissionError, leaves submit() at once.
\* The hash is known to this process only.
Unrecorded(id) ==
    /\ memory' = [memory EXCEPT ![id] = "envelope"]
    /\ Finish("raised", {})
    /\ UNCHANGED <<keeperhub, logged, receipt, submits, crashes>>

AnswerUnrecorded(id) == Answered(id) /\ HasHash(phase[id]) /\ Unrecorded(id)

\* Faulty: a refused transaction is passed over.
SkipRefused(id) ==
    /\ Answered(id)
    /\ phase[id] = "refused"
    /\ IF index = Len(Bundle[work]) THEN Finish("sent", sent) ELSE NextTransaction(sent)
    /\ UNCHANGED <<keeperhub, memory, logged, receipt, submits, crashes>>

\* No hash and failed: refused before broadcast.
AnswerRefused(id) ==
    /\ Answered(id)
    /\ phase[id] = "refused"
    /\ Finish("partial", sent)
    /\ UNCHANGED <<keeperhub, memory, logged, receipt, submits, crashes>>

\* No hash and not terminal: broadcast in flight, not a refusal.
AnswerRunning(id) ==
    /\ Answered(id)
    /\ phase[id] = "running"
    /\ pc' = "resolve"
    /\ cur' = id
    /\ UNCHANGED <<keeperhub, work, index, tries, sent, memory, durable, submits, crashes>>

ResolveHash ==
    /\ pc = "resolve"
    /\ phase[cur] \in Settled
    /\ Accept(cur)
    /\ UNCHANGED <<keeperhub, receipt, submits, crashes>>

ResolveUnrecorded == pc = "resolve" /\ phase[cur] \in Settled /\ Unrecorded(cur)

ResolveRefused ==
    /\ pc = "resolve"
    /\ phase[cur] = "refused"
    /\ Finish("partial", sent)
    /\ UNCHANGED <<keeperhub, memory, logged, receipt, submits, crashes>>

ResolveTimeout ==
    /\ pc = "resolve"
    /\ BroadcastFails
    /\ UNCHANGED <<keeperhub, memory, logged, receipt, submits, crashes>>

\* A poll finds the execution terminal: memory and the log learn it.
Learn(id) ==
    /\ memory' = [memory EXCEPT ![id] = "terminal"]
    /\ logged' = [logged EXCEPT ![id] = Status(phase[id])]

\* The poll finds it terminal, but the log cannot be written: from now on
\* this process answers from memory and does not update the entry again.
Unlogged(id) ==
    /\ memory' = [memory EXCEPT ![id] = "unlogged"]
    /\ UNCHANGED logged

\* Faulty: the bundle goes on after a transaction that failed.
SettleAnyway ==
    /\ pc = "settle"
    /\ phase[cur] \in Settled
    /\ Learn(cur)
    /\ NextTransaction(sent)
    /\ UNCHANGED <<keeperhub, receipt, submits, crashes>>

Settle ==
    /\ pc = "settle"
    /\ phase[cur] \in Settled
    /\ Learn(cur)
    /\ IF Status(phase[cur]) = "failed"
       THEN Finish("partial", sent)
       ELSE NextTransaction(sent)
    /\ UNCHANGED <<keeperhub, receipt, submits, crashes>>

SettleUnlogged ==
    /\ pc = "settle"
    /\ phase[cur] \in Settled
    /\ Unlogged(cur)
    /\ Finish("raised", {})
    /\ UNCHANGED <<keeperhub, receipt, submits, crashes>>

SettleTimeout ==
    /\ pc = "settle"
    /\ Finish("partial", sent)
    /\ UNCHANGED <<keeperhub, memory, logged, receipt, submits, crashes>>

\* A 4xx while polling is no SubmissionError: it leaves submit() at once.
PollRejected ==
    /\ pc \in {"resolve", "settle"}
    /\ Finish("raised", {})
    /\ UNCHANGED <<keeperhub, memory, logged, receipt, submits, crashes>>

------------------------------------------------------------------------------
(***************************************************************************)
(* get_receipt(), for a hash the orchestrator holds, in this process or in *)
(* one that never saw the broadcast.                                       *)
(***************************************************************************)
\* Faulty: only the process that broadcast a hash knows its execution.
GetReceiptFromMemory(id) ==
    /\ pc = "idle"
    /\ id \in session
    /\ memory[id] # "none"
    /\ pc' = "receipt"
    /\ cur' = id
    /\ UNCHANGED <<keeperhub, work, index, tries, sent, memory, durable, submits, crashes>>

GetReceipt(id) ==
    /\ pc = "idle"
    /\ id \in session
    /\ memory[id] # "none" \/ logged[id] # "absent"
    /\ memory' = [memory EXCEPT ![id] = IF @ = "none" THEN "envelope" ELSE @]
    /\ pc' = "receipt"
    /\ cur' = id
    /\ UNCHANGED <<keeperhub, work, index, tries, sent, durable, submits, crashes>>

ReceiptSettle ==
    /\ pc = "receipt"
    /\ \/ memory[cur] \in {"terminal", "unlogged"} /\ UNCHANGED <<memory, logged>>
       \/ memory[cur] = "envelope" /\ phase[cur] \in Settled /\ Learn(cur)
    /\ pc' = "fetch"
    /\ UNCHANGED <<keeperhub, work, index, tries, cur, sent, session, outcome, receipt,
                   submits, crashes>>

ReceiptUnlogged ==
    /\ pc = "receipt"
    /\ memory[cur] = "envelope" /\ phase[cur] \in Settled
    /\ Unlogged(cur)
    /\ pc' = "idle"
    /\ cur' = None
    /\ UNCHANGED <<keeperhub, work, index, tries, sent, session, outcome, receipt, submits, crashes>>

Deliver(verdict) ==
    /\ receipt' = [receipt EXCEPT ![cur] = verdict]
    /\ pc' = "idle"
    /\ cur' = None
    /\ UNCHANGED <<keeperhub, work, index, tries, sent, memory, logged, session, outcome,
                   submits, crashes>>

\* The local RPC has the receipt; KeeperHub's verdict outranks its status.
ReceiptFromChain ==
    /\ pc = "fetch"
    /\ Deliver(IF ChainSuccess(phase[cur]) /\ ~ClassifiedFailed(phase[cur])
               THEN "success" ELSE "reverted")

\* The local RPC lags: KeeperHub's verified receipt is used instead.
ReceiptFromKeeperHub ==
    /\ pc = "fetch"
    /\ HasVerifiedReceipt(phase[cur])
    /\ Deliver(IF ClassifiedFailed(phase[cur]) THEN "reverted" ELSE "success")

\* A deadline, a rejected poll, or no receipt from either side: an error
\* goes to the orchestrator, which may ask again.
ReceiptFails ==
    /\ pc \in {"receipt", "fetch"}
    /\ pc' = "idle"
    /\ cur' = None
    /\ UNCHANGED <<keeperhub, work, index, tries, sent, memory, durable, submits, crashes>>

\* The process dies, whatever it was doing, and a fresh one starts.
Crash ==
    /\ crashes < MaxCrashes
    /\ crashes' = crashes + 1
    /\ pc' = "idle"
    /\ work' = None
    /\ index' = 1
    /\ tries' = 0
    /\ cur' = None
    /\ sent' = {}
    /\ memory' = [id \in Id |-> "none"]
    /\ UNCHANGED <<keeperhub, durable, submits>>

------------------------------------------------------------------------------
\* Steps the process takes on its own once it is called.
ProcessStep ==
    \/ Post \/ Retry \/ GiveUp \/ Reject
    \/ \E id \in Id :
         AnswerHash(id) \/ AnswerUnrecorded(id) \/ AnswerRefused(id) \/ AnswerRunning(id)
    \/ ResolveHash \/ ResolveUnrecorded \/ ResolveRefused \/ ResolveTimeout
    \/ Settle \/ SettleUnlogged \/ SettleTimeout \/ PollRejected
    \/ ReceiptSettle \/ ReceiptUnlogged
    \/ ReceiptFromChain \/ ReceiptFromKeeperHub \/ ReceiptFails

KeeperHubStep ==
    \/ \E r \in network, id \in Id : Execute(r, id)
    \/ \E id \in Id, p \in Phase : Progress(id, p)

OrchestratorStep ==
    \/ \E w \in Work : Submit(w)
    \/ \E id \in Id : GetReceipt(id)

Next == ProcessStep \/ KeeperHubStep \/ OrchestratorStep \/ Crash

Spec == Init /\ [][Next]_vars

\* The process keeps running (asyncio resumes it, its clock reaches its
\* deadlines), KeeperHub finishes what it started, the orchestrator asks
\* again for a hash it holds, and neither every poll, nor every read of the
\* receipts log or of the local RPC fails.
Fairness ==
    /\ WF_vars(ProcessStep)
    /\ \A id \in Id :
        /\ WF_vars(\E p \in Phase : Progress(id, p))
        /\ SF_vars(GetReceipt(id))
        /\ SF_vars(cur = id /\ ReceiptSettle)
        /\ SF_vars(cur = id /\ ReceiptFromChain)

FairSpec == Spec /\ Fairness

------------------------------------------------------------------------------
TypeOK ==
    /\ network \subseteq Request
    /\ request \in [Id -> Request \union {None}]
    /\ phase \in [Id -> Phase]
    /\ pc \in {"idle", "post", "await", "resolve", "settle", "receipt", "fetch"}
    /\ work \in Work \union {None}
    /\ index \in Nat \ {0}
    /\ tries \in 0 .. MaxRetries
    /\ cur \in Id \union {None}
    /\ sent \subseteq Id
    /\ memory \in [Id -> {"none", "envelope", "terminal", "unlogged"}]
    /\ logged \in [Id -> {"absent", "unconfirmed", "completed", "failed"}]
    /\ session \subseteq Id
    /\ outcome \in [Work -> {"none", "raised", "partial", "sent"}]
    /\ receipt \in [Id -> {"none", "success", "reverted"}]
    /\ submits \in [Work -> Nat] /\ \A w \in Work : submits[w] <= MaxSubmits[w]
    /\ crashes \in 0 .. MaxCrashes

\* The intent and the call an execution was created for.
WorkOf(id) == <<request[id].work, Bundle[request[id].work][request[id].index]>>

Executed(id) == request[id] # None /\ HasHash(phase[id])

\* A piece of work moves funds at most once: however often it is retried,
\* by a live process or by one started after a crash, and however late a
\* request of a dead process arrives, one transaction carries it.
AtMostOnce ==
    \A a, b \in Id :
        Executed(a) /\ Executed(b) /\ WorkOf(a) = WorkOf(b) => a = b

\* A call of a bundle reaches KeeperHub only after every earlier call of the
\* bundle has completed: nothing runs on top of a transaction that was
\* refused, failed or is still in doubt, in whichever attempt it was sent.
BundleOrder ==
    \A id \in Id : request[id] # None =>
        \A j \in 1 .. request[id].index - 1 :
            \E e \in Id :
                /\ Holds(e, KeyFor(request[id].work, j))
                /\ phase[e] = "completed"

\* When submit() has last reported every transaction of an intent as
\* submitted, each one has a transaction of its own on its way: a partial
\* bundle is never reported as a success.
SuccessMeansWholeBundle ==
    \A w \in Work : outcome[w] = "sent" =>
        \A i \in DOMAIN Bundle[w] :
            \E id \in Id :
                /\ Executed(id)
                /\ request[id].work = w
                /\ request[id].index = i

\* Every hash the orchestrator persisted has an entry in the receipts log,
\* so that a process that never saw the broadcast can finish it.
SessionResumable == \A id \in session : Executed(id) /\ logged[id] # "absent"

\* What get_receipt() tells is what happened: success only for a transaction
\* whose effects took place, reverted only for one whose effects did not,
\* whether the local RPC or KeeperHub's copy of the receipt was used.
ReceiptTruthful ==
    \A id \in Id :
        /\ receipt[id] = "success" => phase[id] \in {"completed", "misreported"}
        /\ receipt[id] = "reverted" => phase[id] \in {"reverted", "inner_failure"}

\* A settlement in the receipts log is final: neither a replayed broadcast
\* nor a settlement resumed by another process changes it.
SettledStaysSettled ==
    [][\A id \in Id :
        logged[id] \in {"completed", "failed"} => logged'[id] = logged[id]]_logged

\* The comment in submit(): "the earlier hashes are real and must reach the
\* orchestrator".  However submit() ends short of the death of the process,
\* the hashes it has sent are given to the orchestrator.
EarlierHashesReported ==
    [][work # None /\ pc' = "idle" /\ crashes' = crashes => sent \subseteq session']_vars

\* submit() always comes back: its retries and its waits are bounded.
SubmitReturns == work # None ~> work = None

\* Every hash the orchestrator holds gets its receipt and its settlement in
\* the log, through crashes and retries; only where the write of the log
\* failed has the process that made it alone the settlement.
HashesSettle ==
    \A id \in Id :
        id \in session ~>
            /\ receipt[id] # "none"
            /\ logged[id] \in {"completed", "failed"} \/ memory[id] = "unlogged"

\* Submitter implements the ledger: a piece of work is carried by the
\* transaction of its execution from the moment it is broadcast.
Ledger == INSTANCE BundleLedger WITH
    Tx <- Id,
    NoWork <- None,
    carries <- [id \in Id |-> IF Executed(id) THEN WorkOf(id) ELSE None],
    landed <- {id \in Id : phase[id] = "completed"}

ImplementsLedger == Ledger!LedgerSpec

==============================================================================
