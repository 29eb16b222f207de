------------------------------ MODULE Simulator ------------------------------
(***************************************************************************)
(* One process of the package executing intents: the wallet it takes at    *)
(* start (wallets.py), the wrapped execute() of the gateway's orchestrator *)
(* (gateway.py), KeeperHubSimulator (simulator.py) and the client's calls  *)
(* (client.py) in the spelling the API has been found to accept.  What     *)
(* submit() does about answers is Submitter's; here a broadcast is only    *)
(* accepted, a replay, a conflict, refused or lost.                        *)
(*                                                                         *)
(* The gateway answers execute() calls concurrently and hands every        *)
(* orchestrator one client, so what one execution learns of the API (caps) *)
(* another uses.  A step runs from one await to the next.                  *)
(*                                                                         *)
(* External: the Almanak orchestrator (it simulates, signs the bundle,     *)
(* submits it), the runner that retries an intent, and KeeperHub, which    *)
(* may be redeployed with other features while a process runs.             *)
(***************************************************************************)
EXTENDS Naturals, Sequences

CONSTANTS
    Intent,         \* work ids
    Bundles,        \* what an intent can compile to: sequences of kinds of calls
    Wallet,         \* addresses
    OrgWallet,      \* the wallet KeeperHub signs with, or its Safe
    None,           \* no address set; no execution under a key
    AllowBroadcast, \* the MCP server was started with --write
    Attempts,       \* simulator._with_retries: 3; the submitter's bound
    MaxRuns,        \* bound: processes started
    MaxExecutes,    \* bound: execute() calls
    MaxChanges      \* bound: redeployments of KeeperHub

\* known: the selector index decodes it; unknown: its selector is not in the
\* index; bare: it has no selector.
Kind == {"known", "unknown", "bare"}

ASSUME SimulatorAssumption ==
    /\ DOMAIN Bundles = Intent
    /\ \A i \in Intent : Bundles[i] \subseteq Seq(Kind)
    /\ OrgWallet \in Wallet
    /\ None \notin Wallet \union BOOLEAN
    /\ AllowBroadcast \in BOOLEAN
    /\ {Attempts, MaxRuns, MaxExecutes, MaxChanges} \subseteq Nat
    /\ Attempts >= 1

VARIABLES
    bundle,   \* the calls of each intent
    api,      \* what KeeperHub accepts: raw calldata, call sequences
    keys,     \* spelling of the body that created the execution of a key
    mode,     \* the process: off, execute, or simulate (SIMULATE_ONLY)
    account,  \* the address it compiles intents for
    caps,     \* client.capabilities
    pc,       \* per intent, where its execute() is
    dry,      \* per intent, whether its execute() stops before it submits
    at,       \* per intent, the position of the call being posted
    tries,    \* per intent, requests made for the current call
    raw,      \* per intent, whether the request on its way is raw
    proof,    \* per intent, positions this execute() had dry-run as good
    outcome,  \* per intent, how its last execute() ended
    runs, executes, changes  \* what the bounds count

client == <<mode, account, caps>>
execution == <<pc, dry, at, tries, raw, proof, outcome>>
bounded == <<runs, executes, changes>>
vars == <<bundle, api, keys, client, execution, bounded>>

Learned == {"unknown", "yes", "no"}
Outcome == {"none", "refused", "unavailable", "undecodable", "dry",
            "sent", "failed", "conflict"}
Awaits == {"simulate", "sequence", "single", "sign", "post"}
Fresh == [raw |-> "unknown", seq |-> "unknown"]

Positions(i) == DOMAIN bundle[i]
RawOnly(i, k) == bundle[i][k] = "unknown"
Chainable(i) == \A k \in Positions(i) : ~RawOnly(i, k)

Init ==
    /\ bundle \in {b \in [Intent -> UNION {Bundles[i] : i \in Intent}] :
                     \A i \in Intent : b[i] \in Bundles[i]}
    /\ api \in [raw : BOOLEAN, seq : BOOLEAN]
    /\ keys = [i \in Intent |-> [k \in Positions(i) |-> None]]
    /\ mode = "off" /\ account = None /\ caps = Fresh
    /\ pc = [i \in Intent |-> "idle"]
    /\ dry = [i \in Intent |-> FALSE]
    /\ at = [i \in Intent |-> 1]
    /\ tries = [i \in Intent |-> 0]
    /\ raw = [i \in Intent |-> FALSE]
    /\ proof = [i \in Intent |-> {}]
    /\ outcome = [i \in Intent |-> "none"]
    /\ runs = 0 /\ executes = 0 /\ changes = 0

------------------------------------------------------------------------------
(***************************************************************************)
(* Starting a process.  The command line runs with or without              *)
(* --simulate-only; the MCP tools start the same command: simulate_tick    *)
(* always with it, run_tick only when the server may broadcast and the     *)
(* caller confirms.  The wallet comes from KEEPERHUB_WALLET_ADDRESS, which *)
(* has to be the one the API names.                                        *)
(***************************************************************************)
ResolveWallet(explicit) == IF explicit \in {None, OrgWallet} THEN OrgWallet ELSE None

Start(m, explicit) ==
    /\ mode = "off" /\ runs < MaxRuns
    /\ ResolveWallet(explicit) # None
    /\ mode' = m
    /\ account' = ResolveWallet(explicit)
    /\ runs' = runs + 1
    /\ UNCHANGED <<bundle, api, keys, caps, execution, executes, changes>>

Run(simulateOnly, explicit) ==
    Start(IF simulateOnly THEN "simulate" ELSE "execute", explicit)

SimulateTick(explicit) == Run(TRUE, explicit)

RunTick(confirm, explicit) == AllowBroadcast /\ confirm /\ Run(FALSE, explicit)

------------------------------------------------------------------------------
(***************************************************************************)
(* The calls of a bundle and how they are spelled.                         *)
(***************************************************************************)
\* call_for raises SigningError.
Undecodable(kind) ==
    \/ kind = "bare"
    \/ kind = "unknown" /\ caps.raw = "no"

CallsFor(i) == \A k \in Positions(i) : ~Undecodable(bundle[i][k])

UseRaw(i, k, c) == RawOnly(i, k) \/ c.raw # "no"

\* The request for call k goes out, spelled by what the client knows then.
Ask(i, p, k, n, c) ==
    /\ pc' = [pc EXCEPT ![i] = p]
    /\ at' = [at EXCEPT ![i] = k]
    /\ tries' = [tries EXCEPT ![i] = n]
    /\ raw' = [raw EXCEPT ![i] = UseRaw(i, k, c)]
    /\ caps' = c
    /\ UNCHANGED <<dry, proof, outcome>>

\* No request is out.
Goto(i, p) ==
    /\ pc' = [pc EXCEPT ![i] = p]
    /\ at' = [at EXCEPT ![i] = 1]
    /\ tries' = [tries EXCEPT ![i] = 0]
    /\ raw' = [raw EXCEPT ![i] = FALSE]

\* The dry run is good, as far as it went.
Proceed(i, positions) ==
    /\ Goto(i, "sign")
    /\ proof' = [proof EXCEPT ![i] = positions]
    /\ UNCHANGED <<dry, outcome>>

Return(i, verdict) ==
    /\ Goto(i, "idle")
    /\ dry' = [dry EXCEPT ![i] = FALSE]
    /\ proof' = [proof EXCEPT ![i] = {}]
    /\ outcome' = [outcome EXCEPT ![i] = verdict]

Outside == UNCHANGED <<bundle, api, keys, mode, account, bounded>>

------------------------------------------------------------------------------
(***************************************************************************)
(* execute() as _always_simulate wraps it, for the context the runner      *)
(* built, and simulate() up to its first request.                          *)
(***************************************************************************)
\* Faulty: the runner's simulation_enabled = False is left alone.
SimulationUnwrapped(enabled) == enabled

SimulationEnabled(enabled) == TRUE

Execute(i) ==
    /\ mode # "off" /\ pc[i] = "idle" /\ executes < MaxExecutes
    /\ \E enabled, dryRun \in BOOLEAN :
          /\ Goto(i, IF SimulationEnabled(enabled) THEN "simulate" ELSE "sign")
          /\ dry' = [dry EXCEPT ![i] = dryRun \/ mode = "simulate"]
    /\ outcome' = [outcome EXCEPT ![i] = "none"]
    /\ executes' = executes + 1
    /\ UNCHANGED <<bundle, api, keys, client, proof, runs, changes>>

Simulate(i) ==
    /\ pc[i] = "simulate"
    /\ \/ /\ bundle[i] = << >>
          /\ Proceed(i, {}) /\ UNCHANGED caps
       \/ /\ ~CallsFor(i)
          /\ Return(i, "undecodable") /\ UNCHANGED caps
       \/ /\ bundle[i] # << >> /\ CallsFor(i)
          /\ IF Len(bundle[i]) > 1 /\ caps.seq # "no" /\ Chainable(i)
             THEN Ask(i, "sequence", 1, 1, caps)
             ELSE Ask(i, "single", 1, 1, caps)
    /\ Outside

------------------------------------------------------------------------------
(***************************************************************************)
(* The dry run of a whole bundle: KeeperHub answers with a result for each *)
(* call up to some point, or does not know call sequences.                 *)
(***************************************************************************)
\* Faulty: calls without a result are taken for good.
AllVouchedLoose(i, good, n) == good = n

AllVouched(i, good, n) == good = n /\ n = Len(bundle[i])

SequenceResults(i) ==
    /\ pc[i] = "sequence" /\ api.seq
    /\ \E n \in 0..Len(bundle[i]) : \E good \in 0..n :
          \/ good < n /\ Return(i, "refused")
          \/ good = n /\ ~AllVouched(i, good, n) /\ Return(i, "unavailable")
          \/ AllVouched(i, good, n) /\ Proceed(i, 1..good)
    /\ caps' = [caps EXCEPT !.seq = "yes"]
    /\ Outside

\* Faulty: the dry run starts over with nothing learned.
SequenceStartsOver(i) ==
    /\ pc[i] = "sequence" /\ ~api.seq
    /\ Goto(i, "simulate")
    /\ UNCHANGED <<caps, dry, proof, outcome>> /\ Outside

SequenceUnsupported(i) ==
    /\ pc[i] = "sequence" /\ ~api.seq
    /\ Ask(i, "single", 1, 1, [caps EXCEPT !.seq = "no"])
    /\ Outside

Attempt(i) == tries[i] + 1

\* Faulty: one attempt too many.
SimulationRetriedAlways(i) ==
    /\ pc[i] \in {"sequence", "single"} /\ tries[i] <= Attempts
    /\ Ask(i, pc[i], 1, Attempt(i), caps)
    /\ Outside

\* _with_retries: 429, 503 or no answer; the request is then made again from
\* what is known by now.
SimulationRetried(i) ==
    /\ pc[i] \in {"sequence", "single"} /\ tries[i] < Attempts
    /\ IF pc[i] = "sequence" /\ caps.seq # "no"
       THEN Ask(i, "sequence", 1, Attempt(i), caps)
       ELSE Ask(i, "single", 1, IF pc[i] = "single" THEN Attempt(i) ELSE 1, caps)
    /\ Outside

\* The last attempt, or an error that is not retried.
SimulationUnavailable(i) ==
    /\ pc[i] \in {"sequence", "single"}
    /\ Return(i, "unavailable")
    /\ UNCHANGED caps /\ Outside

------------------------------------------------------------------------------
(***************************************************************************)
(* One call (_post_call).  An API without raw calldata answers a raw body  *)
(* with a 400 that asks for functionName; the client reads that as such    *)
(* only while it has not learned the capability.                           *)
(***************************************************************************)
ShapeRejected(i) == raw[i] /\ ~api.raw
Posting(i) == pc[i] \in {"single", "post"}

\* Faulty: any 400 to a raw body is taken for the older schema's.
RejectsAnything(i) == raw[i] /\ caps.raw = "unknown"

RejectsUnknownShape(i) == ShapeRejected(i) /\ caps.raw = "unknown"

LearnTyped(i) ==
    /\ Posting(i) /\ RejectsUnknownShape(i)
    /\ IF RawOnly(i, at[i])
       THEN /\ Return(i, IF pc[i] = "single" THEN "unavailable" ELSE "failed")
            /\ caps' = [caps EXCEPT !.raw = "no"]
       ELSE Ask(i, pc[i], at[i], tries[i], [caps EXCEPT !.raw = "no"])
    /\ Outside

LearnRaw(i) == IF raw[i] /\ caps.raw = "unknown" THEN [caps EXCEPT !.raw = "yes"] ELSE caps

SingleGood(i) ==
    /\ pc[i] = "single" /\ ~ShapeRejected(i)
    /\ caps' = LearnRaw(i)
    /\ Proceed(i, {1})
    /\ Outside

\* The call would revert, KeeperHub cannot decode it, or the 400 was about
\* the shape and somebody else has learned the capability meanwhile.
SingleRefused(i) ==
    /\ pc[i] = "single" /\ ~RejectsUnknownShape(i)
    /\ Return(i, "refused")
    /\ UNCHANGED caps /\ Outside

------------------------------------------------------------------------------
(***************************************************************************)
(* Signing decides again how each call can be spelled; then the calls are  *)
(* broadcast in order, each under the key of its intent and position.      *)
(***************************************************************************)
Sign(i) ==
    /\ pc[i] = "sign"
    /\ \/ ~CallsFor(i) /\ Return(i, "undecodable") /\ UNCHANGED caps
       \/ CallsFor(i) /\ dry[i] /\ Return(i, "dry") /\ UNCHANGED caps
       \/ /\ CallsFor(i) /\ ~dry[i] /\ bundle[i] = << >>
          /\ Return(i, "sent") /\ UNCHANGED caps
       \/ /\ CallsFor(i) /\ ~dry[i] /\ bundle[i] # << >>
          /\ Ask(i, "post", 1, 1, caps)
    /\ Outside

\* KeeperHub has taken i's request before, or takes it now.
Stored(i) == [keys EXCEPT ![i][at[i]] = IF @ = None THEN raw[i] ELSE @]
Conflict(i) == keys[i][at[i]] \notin {None, raw[i]}
Receivable(i) == pc[i] = "post" /\ ~ShapeRejected(i) /\ ~Conflict(i)

Accepted(i) ==
    /\ Receivable(i)
    /\ keys' = Stored(i)
    /\ IF at[i] < Len(bundle[i])
       THEN Ask(i, "post", at[i] + 1, 1, LearnRaw(i))
       ELSE Return(i, "sent") /\ caps' = LearnRaw(i)
    /\ UNCHANGED <<bundle, api, mode, account, bounded>>

Conflicting(i) ==
    /\ pc[i] = "post" /\ ~ShapeRejected(i) /\ Conflict(i)
    /\ Return(i, "conflict")
    /\ UNCHANGED caps /\ Outside

\* A 4xx, the shape rejected after somebody else learned it, or the last
\* attempt.
PostFails(i) ==
    /\ pc[i] = "post" /\ ~RejectsUnknownShape(i)
    /\ Return(i, "failed")
    /\ UNCHANGED caps /\ Outside

\* The answer is lost, and with it perhaps the request; the submitter asks
\* again under the same key.
PostRetried(i) ==
    /\ pc[i] = "post" /\ tries[i] < Attempts
    /\ keys' \in {keys} \union (IF Receivable(i) THEN {Stored(i)} ELSE {})
    /\ Ask(i, "post", at[i], Attempt(i), caps)
    /\ UNCHANGED <<bundle, api, mode, account, bounded>>

------------------------------------------------------------------------------
\* The process ends; a request on its way may still arrive.
Stop ==
    /\ mode # "off"
    /\ \E arrives \in SUBSET {i \in Intent : Receivable(i)} :
          keys' = [i \in Intent |-> IF i \in arrives THEN Stored(i)[i] ELSE keys[i]]
    /\ mode' = "off" /\ account' = None /\ caps' = Fresh
    /\ pc' = [i \in Intent |-> "idle"]
    /\ dry' = [i \in Intent |-> FALSE]
    /\ at' = [i \in Intent |-> 1]
    /\ tries' = [i \in Intent |-> 0]
    /\ raw' = [i \in Intent |-> FALSE]
    /\ proof' = [i \in Intent |-> {}]
    /\ UNCHANGED <<bundle, api, outcome, bounded>>

ApiChanges ==
    /\ changes < MaxChanges
    /\ api' \in [raw : BOOLEAN, seq : BOOLEAN] \ {api}
    /\ changes' = changes + 1
    /\ UNCHANGED <<bundle, keys, client, execution, runs, executes>>

Answered(i) ==
    \/ SequenceResults(i) \/ SequenceUnsupported(i)
    \/ SimulationRetried(i) \/ SimulationUnavailable(i)
    \/ LearnTyped(i) \/ SingleGood(i) \/ SingleRefused(i)
    \/ Accepted(i) \/ Conflicting(i) \/ PostFails(i) \/ PostRetried(i)

Begin ==
    \E explicit \in Wallet \union {None} :
       \/ \E simulateOnly \in BOOLEAN : Run(simulateOnly, explicit)
       \/ SimulateTick(explicit)
       \/ \E confirm \in BOOLEAN : RunTick(confirm, explicit)

Next ==
    \/ Begin \/ Stop \/ ApiChanges
    \/ \E i \in Intent : Execute(i) \/ Simulate(i) \/ Sign(i) \/ Answered(i)

Spec == Init /\ [][Next]_vars

\* A request is answered or times out (the client's timeout), and asyncio
\* resumes every task whose await is over.
Fairness == \A i \in Intent : WF_vars(Simulate(i) \/ Sign(i) \/ Answered(i))

FairSpec == Spec /\ Fairness

------------------------------------------------------------------------------
(* Every variable has the values the code gives it; the requests made for  *)
(* one call stay within the bound of the retry loops.                      *)
TypeOK ==
    /\ bundle \in [Intent -> Seq(Kind)]
    /\ api \in [raw : BOOLEAN, seq : BOOLEAN]
    /\ keys \in [Intent -> Seq(BOOLEAN \union {None})]
    /\ \A i \in Intent : Len(keys[i]) = Len(bundle[i])
    /\ mode \in {"off", "execute", "simulate"}
    /\ account \in Wallet \union {None}
    /\ caps \in [raw : Learned, seq : Learned]
    /\ pc \in [Intent -> Awaits \union {"idle"}]
    /\ dry \in [Intent -> BOOLEAN]
    /\ at \in [Intent -> Nat]
    /\ \A i \in Intent : pc[i] \in {"sequence", "single", "post"} => at[i] \in Positions(i)
    /\ tries \in [Intent -> 0..Attempts]
    /\ raw \in [Intent -> BOOLEAN]
    /\ proof \in [Intent -> SUBSET Nat]
    /\ outcome \in [Intent -> Outcome]
    /\ runs \in 0..MaxRuns /\ changes \in 0..MaxChanges
    /\ executes \in 0..MaxExecutes

\* What the dry run of this execute() has shown: the whole bundle, or its
\* first call where KeeperHub cannot chain the others onto it.
Proven(i) ==
    \/ proof[i] = Positions(i)
    \/ 1 \in proof[i] /\ (caps.seq = "no" \/ ~Chainable(i) \/ changes > 0)

(* Whatever the runner's context says, no transaction of an intent reaches *)
(* KeeperHub for broadcast unless the same execute() had the bundle        *)
(* dry-run before, in a process that was not started to simulate only, and *)
(* that compiled for the wallet KeeperHub sends from.  (gateway.py:77-98,  *)
(* simulator.py:50-133, wallets.py:74-112, cli.py:82-98.)                  *)
DryRunFirst ==
    [][\A i \in Intent : keys'[i] # keys[i] =>
          Proven(i) /\ mode = "execute" /\ account = OrgWallet]_vars

(* While KeeperHub stays as it is, what the client learned of it is true,  *)
(* and no retry of an intent, by this process or by a fresh one that has   *)
(* to learn it all again, spells a call otherwise than the execution its   *)
(* key stands for: none is answered idempotency_conflict.                  *)
(* (client.py:78-93, 262-287, 297-334.)                                    *)
SameSpelling ==
    changes = 0 =>
       /\ caps.raw \in {"unknown", IF api.raw THEN "yes" ELSE "no"}
       /\ caps.seq \in {"unknown", IF api.seq THEN "yes" ELSE "no"}
       /\ \A i \in Intent : outcome[i] # "conflict"

(* Every execute() comes back to the runner, whatever KeeperHub answers.   *)
(* (simulator.py:102-112, client.py:265-287.)                              *)
ExecuteReturns == \A i \in Intent : pc[i] # "idle" ~> pc[i] = "idle"

==============================================================================
