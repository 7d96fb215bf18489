--------------------------- MODULE ParallelDeploy ---------------------------
(***************************************************************************)
(* One `playground deploy-all` batch.                                      *)
(*                                                                         *)
(* runParallelDeploys (src/src/utils/deploy/parallel.ts) starts a pool of  *)
(* workers that pull app indices from a shared counter.  Each app resolves *)
(* its options, builds, queues at the signing gate of its signer key       *)
(* (src/src/utils/deploy/signingGate.ts) and, inside the gate, uploads to  *)
(* Bulletin, drives DotNS and publishes (src/src/utils/deploy/run.ts).     *)
(* Every extrinsic first reads the account's next index and then submits   *)
(* with it: two steps, between which any other app may run.                *)
(*                                                                         *)
(* JavaScript runs one job at a time, so a stretch of code without an      *)
(* await is one action; the interleaving is that of the awaits.            *)
(***************************************************************************)
EXTENDS Integers, FiniteSets

CONSTANTS
    NumApps,        \* apps in the manifest; parseManifest rejects an empty list
    Requested,      \* the --concurrency value asked for
    Keys,           \* signer keys: what signerKey(app) can return
    SignerKey,      \* signerKey of each app
    Accounts,       \* on-chain accounts with a nonce
    SignsWith,      \* the accounts the extrinsics of each app are signed by
    NoAccount,      \* no extrinsic is being prepared
    SkipBuild,      \* the skipBuild flag of each app
    Publish,        \* the batch's --playground flag
    MaxTx           \* bound: extrinsics per app

Apps == 0 .. NumApps - 1
NoApp == -1

ASSUME NumAppsAssumption == NumApps \in Nat \ {0}
ASSUME RequestedAssumption == Requested \in Int
ASSUME KeyAssumption == SignerKey \in [Apps -> Keys]
ASSUME AccountAssumption ==
    /\ SignsWith \in [Apps -> SUBSET Accounts]
    /\ NoAccount \notin Accounts
ASSUME FlagAssumption == SkipBuild \in [Apps -> BOOLEAN] /\ Publish \in BOOLEAN
ASSUME MaxTxAssumption == MaxTx \in Nat

(***************************************************************************)
(* The contract of SignerKeyResolver (parallel.ts, lines 55-62): a key is  *)
(* "the on-chain identity an app's extrinsics sign as", so two apps that   *)
(* submit from a common account have the same key.                         *)
(***************************************************************************)
ASSUME KeyCoversAccounts ==
    \A a, b \in Apps :
        SignsWith[a] \cap SignsWith[b] # {} => SignerKey[a] = SignerKey[b]

VARIABLES
    command,        \* the command: "preflight", "batch", or over before the batch
    nextIndex,      \* the shared counter the workers pull from
    wpc, job,       \* each worker: where it is in its loop, and its app
    pc,             \* each app: the await it is at
    outcome,        \* how the app's promise settled
    results,        \* the results array
    tail, pred,     \* the gate: last promise of each key's chain, and what
                    \* each queued app is chained to
    ticket, clock,  \* history: the order in which apps queued at a gate (-1: not yet)
    signing, readNonce,     \* the extrinsic an app prepares, and its nonce
    txs,            \* extrinsics submitted by each app (bounded by MaxTx)
    nextNonce,      \* the chain: next nonce of each account
    linked, published,      \* the chain: content hash set, registry entry made
    exitCode        \* -1 until the batch returns

gateVars == <<tail, pred, ticket, clock>>
txVars == <<signing, readNonce, txs, nextNonce>>
chainVars == <<linked, published>>
poolVars == <<nextIndex, wpc, job, results>>
vars == <<command, nextIndex, wpc, job, pc, outcome, results, tail, pred, ticket, clock,
          signing, readNonce, txs, nextNonce, linked, published, exitCode>>

-----------------------------------------------------------------------------
\* parallel.ts: clampConcurrency.  A flag that is no number counts as < 1.
clampConcurrency(requested, appCount) ==
    IF requested < 1 THEN 1
    ELSE IF requested < appCount THEN requested ELSE appCount

Workers == 1 .. clampConcurrency(Requested, NumApps)

Phases == {"upload", "dotns", "publish"}    \* where extrinsics are submitted
Gated == {"resolve"} \cup Phases            \* inside gate.runExclusive
Over == {"threw", "released", "settled"}    \* the gate, if entered, is free
AppPCs == {"queued", "options", "build", "gate"} \cup Gated \cup Over

Init ==
    /\ command = "preflight"
    /\ nextIndex = 0
    /\ wpc = [w \in Workers |-> "loop"]
    /\ job = [w \in Workers |-> NoApp]
    /\ pc = [a \in Apps |-> "queued"]
    /\ outcome = [a \in Apps |-> "none"]
    /\ results = [a \in Apps |-> "none"]
    /\ tail = [k \in Keys |-> NoApp]
    /\ pred = [a \in Apps |-> NoApp]
    /\ ticket = [a \in Apps |-> -1]
    /\ clock = 0
    /\ signing = [a \in Apps |-> NoAccount]
    /\ readNonce = [a \in Apps |-> 0]
    /\ txs = [a \in Apps |-> 0]
    /\ nextNonce = [x \in Accounts |-> 0]
    /\ linked = {}
    /\ published = {}
    /\ exitCode = -1

-----------------------------------------------------------------------------

\* runDeployAll before its workers: the identity gate turns the caller away, with
\* a notice and exit code 0; an await rejects, the session's account is not mapped
\* or there is no session, with exit code 1; or the batch starts.
Preflight ==
    /\ command = "preflight"
    /\ \/ command' = "blocked" /\ exitCode' = 0
       \/ command' = "threw" /\ exitCode' = 1
       \/ command' = "batch" /\ exitCode' = exitCode
    /\ UNCHANGED <<poolVars, pc, outcome, gateVars, txVars, chainVars>>

\* Faulty variant of Pull: the bound check is off by one.
PullOffByOne(w) ==
    /\ wpc[w] = "loop"
    /\ IF nextIndex > NumApps
       THEN /\ wpc' = [wpc EXCEPT ![w] = "returned"]
            /\ UNCHANGED <<nextIndex, job, pc>>
       ELSE /\ nextIndex' = nextIndex + 1
            /\ wpc' = [wpc EXCEPT ![w] = "deploying"]
            /\ job' = [job EXCEPT ![w] = nextIndex]
            /\ pc' = [pc EXCEPT ![nextIndex] = "options"]
    /\ UNCHANGED <<outcome, results, gateVars, txVars, chainVars, exitCode>>

\* worker: one turn of its loop.  It takes the next index and calls deployOne,
\* which runs up to `await options.buildRunOptions(app)`, or it returns.
Pull(w) ==
    /\ wpc[w] = "loop"
    /\ IF nextIndex >= NumApps
       THEN /\ wpc' = [wpc EXCEPT ![w] = "returned"]
            /\ UNCHANGED <<nextIndex, job, pc>>
       ELSE /\ nextIndex' = nextIndex + 1
            /\ wpc' = [wpc EXCEPT ![w] = "deploying"]
            /\ job' = [job EXCEPT ![w] = nextIndex]
            /\ pc' = [pc EXCEPT ![nextIndex] = "options"]
    /\ UNCHANGED <<outcome, results, gateVars, txVars, chainVars, exitCode>>

\* Faulty variant of runExclusive: the tail is not replaced, so every caller
\* chains behind the same, already settled promise.
runExclusiveStaleTail(a) ==
    /\ pred' = [pred EXCEPT ![a] = tail[SignerKey[a]]]
    /\ ticket' = [ticket EXCEPT ![a] = clock]
    /\ clock' = clock + 1
    /\ UNCHANGED tail

\* SigningGate.runExclusive: chain behind the current tail and become the tail.
runExclusive(a) ==
    LET k == SignerKey[a] IN
    /\ pred' = [pred EXCEPT ![a] = tail[k]]
    /\ tail' = [tail EXCEPT ![k] = a]
    /\ ticket' = [ticket EXCEPT ![a] = clock]
    /\ clock' = clock + 1

\* buildRunOptions resolved: the domain is available, runDeploy's synchronous
\* prefix passed, and the app either starts its build or queues at the gate.
OptionsReady(a) ==
    /\ pc[a] = "options"
    /\ IF SkipBuild[a]
       THEN runExclusive(a) /\ pc' = [pc EXCEPT ![a] = "gate"]
       ELSE UNCHANGED gateVars /\ pc' = [pc EXCEPT ![a] = "build"]
    /\ UNCHANGED <<poolVars, outcome, txVars, chainVars, exitCode>>

\* The build, outside any gate, ends well; the app queues at its gate.
BuildDone(a) ==
    /\ pc[a] = "build"
    /\ runExclusive(a)
    /\ pc' = [pc EXCEPT ![a] = "gate"]
    /\ UNCHANGED <<poolVars, outcome, txVars, chainVars, exitCode>>

\* The domain is not available, the build directory is missing, the signer
\* cannot be resolved, or the build fails: deployOne catches the error.
FailBeforeGate(a) ==
    /\ pc[a] \in {"options", "build"}
    /\ pc' = [pc EXCEPT ![a] = "threw"]
    /\ outcome' = [outcome EXCEPT ![a] = "error"]
    /\ UNCHANGED <<poolVars, gateVars, txVars, chainVars, exitCode>>

\* Faulty variant: only a fulfilled predecessor lets the next section start
\* (tail.then(fn) without the rejection handler).
PredecessorFulfilled(a) ==
    \A b \in Apps : pred[a] = b => pc[b] \in Over /\ outcome[b] = "ok"

\* Faulty variant: the gate lets any queued caller in when nobody is inside.
AnyFreeMoment(a) ==
    \A b \in Apps : SignerKey[b] = SignerKey[a] => pc[b] \notin Gated

\* The promise the app is chained to has settled, fulfilled or rejected alike
\* (tail.then(() => fn(), () => fn())), so its gated section starts.
PredecessorSettled(a) == \A b \in Apps : pred[a] = b => pc[b] \in Over

EnterGate(a) ==
    /\ pc[a] = "gate"
    /\ PredecessorSettled(a)
    /\ pc' = [pc EXCEPT ![a] = "resolve"]
    /\ UNCHANGED <<poolVars, outcome, gateVars, txVars, chainVars, exitCode>>

\* resolveStorageSignerOptions returned; the storage phase starts.
StorageSignerReady(a) ==
    /\ pc[a] = "resolve"
    /\ pc' = [pc EXCEPT ![a] = "upload"]
    /\ UNCHANGED <<poolVars, outcome, gateVars, txVars, chainVars, exitCode>>

\* An extrinsic starts: its signer account's next index is read ...
ReadNextIndex(a) ==
    /\ pc[a] \in Phases
    /\ signing[a] = NoAccount
    /\ txs[a] < MaxTx
    /\ \E x \in SignsWith[a] :
          /\ signing' = [signing EXCEPT ![a] = x]
          /\ readNonce' = [readNonce EXCEPT ![a] = nextNonce[x]]
    /\ UNCHANGED <<poolVars, pc, outcome, gateVars, txs, nextNonce, chainVars,
                   exitCode>>

\* ... and submitted later.  The pool includes it if the nonce is still the
\* account's next one, and rejects it otherwise, which fails the deploy.
Submit(a) ==
    /\ signing[a] # NoAccount
    /\ LET x == signing[a] IN
       IF readNonce[a] = nextNonce[x]
       THEN /\ nextNonce' = [nextNonce EXCEPT ![x] = @ + 1]
            /\ txs' = [txs EXCEPT ![a] = @ + 1]
            /\ UNCHANGED <<pc, outcome>>
       ELSE /\ pc' = [pc EXCEPT ![a] = "released"]
            /\ outcome' = [outcome EXCEPT ![a] = "error"]
            /\ UNCHANGED <<nextNonce, txs>>
    /\ signing' = [signing EXCEPT ![a] = NoAccount]
    /\ readNonce' = [readNonce EXCEPT ![a] = 0]
    /\ UNCHANGED <<poolVars, gateVars, chainVars, exitCode>>

\* A phase completes: upload, then DotNS (which sets the content hash), then
\* the registry publish when the batch asked for it.
PhaseDone(a) ==
    /\ pc[a] \in Phases
    /\ signing[a] = NoAccount
    /\ LET next == CASE pc[a] = "upload" -> "dotns"
                     [] pc[a] = "dotns" -> IF Publish THEN "publish" ELSE "released"
                     [] pc[a] = "publish" -> "released"
       IN /\ pc' = [pc EXCEPT ![a] = next]
          /\ outcome' = [outcome EXCEPT ![a] = IF next = "released" THEN "ok" ELSE @]
    /\ linked' = IF pc[a] = "dotns" THEN linked \cup {a} ELSE linked
    /\ published' = IF pc[a] = "publish" THEN published \cup {a} ELSE published
    /\ UNCHANGED <<poolVars, gateVars, txVars, exitCode>>

\* Any await inside the gated section rejects: the gate's promise settles and
\* the error travels to deployOne.  What is on chain stays there.
FailInGate(a) ==
    /\ pc[a] \in Gated
    /\ pc' = [pc EXCEPT ![a] = "released"]
    /\ outcome' = [outcome EXCEPT ![a] = "error"]
    /\ signing' = [signing EXCEPT ![a] = NoAccount]
    /\ readNonce' = [readNonce EXCEPT ![a] = 0]
    /\ UNCHANGED <<poolVars, gateVars, txs, nextNonce, chainVars, exitCode>>

\* Faulty variant of Settle: an error is reported as a success.
SettleIgnoringErrors(w) ==
    /\ wpc[w] = "deploying"
    /\ pc[job[w]] \in {"threw", "released"}
    /\ results' = [results EXCEPT ![job[w]] =
                      IF pc[job[w]] = "released" THEN "success" ELSE "failed"]
    /\ pc' = [pc EXCEPT ![job[w]] = "settled"]
    /\ wpc' = [wpc EXCEPT ![w] = "loop"]
    /\ UNCHANGED <<nextIndex, job, outcome, gateVars, txVars, chainVars, exitCode>>

\* deployOne records the result (its catch included), reports it through
\* onAppSettled, and its worker loops.
Settle(w) ==
    /\ wpc[w] = "deploying"
    /\ pc[job[w]] \in {"threw", "released"}
    /\ results' = [results EXCEPT ![job[w]] =
                      IF outcome[job[w]] = "ok" THEN "success" ELSE "failed"]
    /\ pc' = [pc EXCEPT ![job[w]] = "settled"]
    /\ wpc' = [wpc EXCEPT ![w] = "loop"]
    /\ UNCHANGED <<nextIndex, job, outcome, gateVars, txVars, chainVars, exitCode>>

\* Promise.all(workers) resolved: count, print, choose the exit code.
Failed == {a \in Apps : results[a] # "success"}

Summarise ==
    /\ command = "batch"
    /\ \A w \in Workers : wpc[w] = "returned"
    /\ exitCode = -1
    /\ exitCode' = IF Cardinality(Failed) > 0 THEN 1 ELSE 0
    /\ UNCHANGED <<command, poolVars, pc, outcome, gateVars, txVars, chainVars>>

\* The command has returned.
Terminated == exitCode # -1 /\ UNCHANGED vars

AppStep(a) ==
    /\ UNCHANGED command
    /\ \/ OptionsReady(a) \/ BuildDone(a) \/ FailBeforeGate(a)
       \/ EnterGate(a) \/ StorageSignerReady(a)
       \/ ReadNextIndex(a) \/ Submit(a) \/ PhaseDone(a) \/ FailInGate(a)

\* There are workers once runParallelDeploys is called.
WorkerStep(w) ==
    /\ command = "batch" /\ UNCHANGED command
    /\ Pull(w) \/ Settle(w)

Next ==
    \/ Preflight
    \/ \E a \in Apps : AppStep(a)
    \/ \E w \in Workers : WorkerStep(w)
    \/ Summarise
    \/ Terminated

Spec == Init /\ [][Next]_vars

(***************************************************************************)
(* The event loop runs every ready job, and every await of a deploy        *)
(* settles: the preflight, builds, uploads and extrinsics end or fail.      *)
(***************************************************************************)
Fairness ==
    /\ \A a \in Apps : WF_vars(AppStep(a))
    /\ \A w \in Workers : WF_vars(WorkerStep(w))
    /\ WF_vars(Preflight) /\ WF_vars(Summarise)

FairSpec == Spec /\ Fairness

-----------------------------------------------------------------------------
(***************************************************************************)
(* Properties.                                                             *)
(***************************************************************************)

\* The state the code keeps is well formed.
TypeOK ==
    /\ command \in {"preflight", "batch", "blocked", "threw"}
    /\ nextIndex \in 0 .. NumApps
    /\ wpc \in [Workers -> {"loop", "deploying", "returned"}]
    /\ job \in [Workers -> Apps \cup {NoApp}]
    /\ pc \in [Apps -> AppPCs]
    /\ outcome \in [Apps -> {"none", "ok", "error"}]
    /\ results \in [Apps -> {"none", "success", "failed"}]
    /\ tail \in [Keys -> Apps \cup {NoApp}]
    /\ pred \in [Apps -> Apps \cup {NoApp}]
    /\ ticket \in [Apps -> Nat \cup {-1}]
    /\ clock \in Nat
    /\ signing \in [Apps -> Accounts \cup {NoAccount}]
    /\ readNonce \in [Apps -> Nat]
    /\ txs \in [Apps -> Nat]
    /\ nextNonce \in [Accounts -> Nat]
    /\ linked \subseteq Apps
    /\ published \subseteq Apps
    /\ exitCode \in {-1, 0, 1}

Arrived(a) == ticket[a] >= 0
Started(a) == Arrived(a) /\ pc[a] # "gate"

\* "Every read sees a settled value" (signingGate.ts, lines 36-42): while an app
\* prepares an extrinsic nobody else takes the nonce it read, so no extrinsic
\* of the batch is ever rejected for its nonce.
NonceSafe ==
    \A a \in Apps : signing[a] # NoAccount => readNonce[a] = nextNonce[signing[a]]

\* The promise chain is a FIFO mutex: the gated section of an app has started
\* only if every app that queued earlier under the same key is out of it, even
\* when one of those failed.
GateFifo ==
    \A a, b \in Apps :
        /\ SignerKey[a] = SignerKey[b]
        /\ Arrived(a) /\ Started(b)
        /\ ticket[a] < ticket[b]
        => pc[a] \in Over

\* The exit code tells the truth about the chain.  After the batch it is 0 only
\* if every app of the manifest has its content linked and, when asked for, its
\* registry entry, 1 only if some app's result is a failure, and never set before
\* all results are in.  A command that ended before the batch, with 0 at the
\* identity gate or with 1, has submitted nothing for any app.
ExitCodeHonest ==
    /\ exitCode # -1 /\ command = "batch" => \A a \in Apps : results[a] # "none"
    /\ exitCode = 0 /\ command # "blocked" => linked = Apps /\ (Publish => published = Apps)
    /\ exitCode = 1 /\ command # "threw" => \E a \in Apps : results[a] = "failed"
    /\ command # "batch" => linked = {} /\ published = {} /\ \A x \in Accounts : nextNonce[x] = 0

\* One bad deploy never stalls the batch (parallel.ts, lines 108-115): whatever
\* fails, every worker returns and the command ends.
BatchReturns == <>(exitCode # -1)

(***************************************************************************)
(* The batch implements serial submission: an app owns its accounts from   *)
(* EnterGate until its gated section ends, and the two-step read/submit    *)
(* behaves as one atomic step.                                             *)
(***************************************************************************)
Serial == INSTANCE SerialSubmission WITH
    Deploys <- Apps,
    holding <- {a \in Apps : pc[a] \in Gated},
    finished <- {a \in Apps : Arrived(a) /\ pc[a] \in Over},
    nonce <- nextNonce

\* Every behaviour of the batch is a behaviour of SerialSubmission.
ImplementsSerialSubmission == Serial!Spec
=============================================================================
