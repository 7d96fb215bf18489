--------------------------- MODULE DeployPipeline ---------------------------
(***************************************************************************)
(* One call of runDeploy (utils/deploy/run.ts): build, storage and DotNS,  *)
(* playground publish (utils/deploy/playground.ts), with the Bulletin      *)
(* allowance it uploads under (utils/allowances/bulletin.ts) and the rows  *)
(* the screen shows (commands/deploy/runningState.ts).                     *)
(*                                                                         *)
(* The chains move on their own: an authorization expires or lands at any  *)
(* moment, and a transaction can land although its submitter got an error. *)
(***************************************************************************)
EXTENDS Naturals, SignerSetup

CONSTANT MaxRegistryRetries     \* MAX_REGISTRY_RETRIES (playground.ts)

ASSUME RetriesAssumption == MaxRegistryRetries \in Nat \ {0}

Rows == {"build", "upload", "playground"}
Statuses == {"pending", "running", "complete", "error", "skipped"}
Facts == {"content", "link", "metadata", "entry"}
Inputs == [mode : Modes, user : Users, skipBuild : BOOLEAN, publish : BOOLEAN]

VARIABLES
    inputs,     \* RunDeployOptions
    pc,         \* the await runDeploy is at
    caller,     \* on whose behalf getBulletinAllowanceSigner runs
    rows,       \* RunningState: the status of each row
    prompts,    \* grant prompts opened, and closed, by this deploy
    client,     \* the dedicated Bulletin client: "none" or "open"
    cached,     \* is the slot key of the session cached?
    auth,       \* the slot's authorization on the Bulletin chain
    chain,      \* what is on chain because of this deploy
    attempts,   \* registry publish attempts that failed
    result, cause   \* how runDeploy settled, and why it failed

vars == <<inputs, pc, caller, rows, prompts, client, cached, auth, chain,
          attempts, result, cause>>

\* Only a phone deploy of a session uploads with the session's slot key.
UsesSlot == StorageSigner(inputs.mode, inputs.user) = "slotKey"
Publisher == PublishSigner(inputs.mode, inputs.user, inputs.publish)

\* initialRunningState
initialRunningState(in) ==
    [build |-> IF in.skipBuild THEN "skipped" ELSE "pending",
     upload |-> "pending",
     playground |-> IF in.publish THEN "pending" ELSE "skipped"]

Init ==
    /\ inputs \in Inputs
    /\ pc = "setup"
    /\ caller = "storage"
    /\ rows = initialRunningState(inputs)
    /\ prompts = [opened |-> 0, closed |-> 0]
    /\ client = "none"
    /\ cached \in BOOLEAN
    /\ auth \in {"missing", "active", "expired"}
    /\ chain = {}
    /\ attempts = 0
    /\ result = "none"
    /\ cause = "none"

-----------------------------------------------------------------------------
(* Phases and rows.                                                        *)

\* The row of the phase each await belongs to; the allowance is resolved before
\* the storage phase opens, but inside the playground phase.
RowOf(p) ==
    CASE p = "build" -> "build"
      [] p \in {"store", "link"} -> "upload"
      [] p \in {"metadata", "connect", "publish", "retry"} -> "playground"
      [] p \in {"probe", "grant", "check"} ->
            IF caller = "storage" THEN "none" ELSE "playground"
      [] OTHER -> "none"

\* runningReducer: a phase event sets the row of that phase.
Reduce(r, status) == [x \in Rows |-> IF x = r THEN status ELSE rows[x]]

\* Faulty variant: a phase that fails emits no error event.
FailSilently(why) ==
    /\ client' = "none"
    /\ result' = "error" /\ cause' = why
    /\ pc' = "over"
    /\ rows' = rows

\* Faulty variant: the dedicated client is only destroyed on success.
FailLeaving(why) ==
    /\ client' = client
    /\ result' = "error" /\ cause' = why
    /\ pc' = "over"
    /\ rows' = Reduce(RowOf(pc), "error")

\* An error leaves the current await: the finally blocks destroy the client,
\* withDeployPhase marks the phase it is in (if any) and rethrows to the caller.
Fail(why) ==
    /\ client' = "none"
    /\ result' = "error" /\ cause' = why
    /\ pc' = "over"
    /\ rows' = Reduce(RowOf(pc), "error")

\* Nothing but the place in the program changes.
Continue(next) == pc' = next /\ UNCHANGED <<rows, client, result, cause>>

\* assertBuildDirExists and resolveSignerSetup come before anything else; then
\* the build phase opens, unless the build is skipped.
Setup ==
    /\ pc = "setup"
    /\ \/ /\ ~SetupFails(inputs.mode, inputs.user)
          /\ ~inputs.skipBuild
          /\ pc' = "build"
          /\ rows' = Reduce("build", "running")
          /\ UNCHANGED <<client, result, cause>>
       \/ /\ ~SetupFails(inputs.mode, inputs.user)
          /\ inputs.skipBuild
          /\ Continue("resolve")
       \/ /\ inputs.skipBuild \/ SetupFails(inputs.mode, inputs.user)
          /\ Fail("setup")
    /\ UNCHANGED <<inputs, caller, prompts, cached, auth, chain, attempts>>

\* The build phase: runBuild resolves or rejects.
Build ==
    /\ pc = "build"
    /\ \/ /\ pc' = "resolve"
          /\ rows' = Reduce("build", "complete")
          /\ UNCHANGED <<client, result, cause>>
       \/ Fail("build")
    /\ UNCHANGED <<inputs, caller, prompts, cached, auth, chain, attempts>>

\* createBulletinAuthContext (best effort) and resolveStorageSignerOptions: only
\* a session's phone deploy looks its slot key up, the others pin a local key.
Resolve ==
    /\ pc = "resolve"
    /\ \/ /\ UsesSlot
          /\ client' \in {"none", "open"}
          /\ pc' = "probe"
          /\ rows' = rows
       \/ /\ ~UsesSlot
          /\ pc' = "store"
          /\ rows' = Reduce("upload", "running")
          /\ client' = client
    /\ UNCHANGED <<inputs, caller, prompts, cached, auth, chain, attempts,
                   result, cause>>

-----------------------------------------------------------------------------
(* getBulletinAllowanceSigner, for a session signer.                       *)

\* getCachedAllocation: a prompt is opened only when the phone will be asked.
Probe ==
    /\ pc = "probe"
    /\ \/ cached /\ Continue("check") /\ prompts' = prompts
       \/ /\ ~cached
          /\ Continue("grant")
          /\ prompts' = [prompts EXCEPT !.opened = @ + 1]
       \/ Fail("cache") /\ prompts' = prompts
    /\ UNCHANGED <<inputs, caller, cached, auth, chain, attempts>>

\* ensureSlotAccountSigner on a cache miss: the phone grants the slot, which is
\* then cached, or refuses.  Either way the prompt is closed.
Grant ==
    /\ pc = "grant"
    /\ prompts' = [prompts EXCEPT !.closed = @ + 1]
    /\ \/ cached' = TRUE /\ Continue("check")
       \/ cached' = cached /\ Fail("refused")
    /\ UNCHANGED <<inputs, caller, auth, chain, attempts>>

\* Back in resolveStorageSignerOptions, whose client is destroyed before the
\* storage phase opens, or in the metadata upload.
SlotReady ==
    IF caller = "storage"
    THEN /\ pc' = "store"
         /\ client' = "none"
         /\ rows' = Reduce("upload", "running")
         /\ UNCHANGED <<result, cause>>
    ELSE Continue("metadata")

\* getBulletinSlotAuthorization: a status that cannot be read, or no client to
\* read it with, lets the slot key through; one that was read must be usable.
Check ==
    /\ pc = "check"
    /\ \/ SlotReady
       \/ client = "open" /\ auth # "active" /\ Fail("relogin")
    /\ UNCHANGED <<inputs, caller, prompts, cached, auth, chain, attempts>>

-----------------------------------------------------------------------------
(* Storage and DotNS: runStorageDeploy, which is bulletin-deploy.          *)

\* Chunks are stored under the uploader's authorization, or the phase fails.
Store ==
    /\ pc = "store"
    /\ \/ /\ UsesSlot => auth = "active"
          /\ chain' = chain \cup {"content"}
          /\ Continue("link")
       \/ chain' = chain /\ Fail("storage")
    /\ UNCHANGED <<inputs, caller, prompts, cached, auth, attempts>>

\* The domain's content hash is set.  The storage phase completes and, when the
\* app is published, the playground phase opens with a client of its own.  An
\* error may hide a link that did land.
Link ==
    /\ pc = "link"
    /\ \/ /\ chain' = chain \cup {"link"}
          /\ \/ /\ Publisher = None
                /\ rows' = Reduce("upload", "complete")
                /\ pc' = "over"
                /\ result' = "ok"
                /\ UNCHANGED <<caller, client>>
             \/ /\ Publisher # None
                /\ rows' = [rows EXCEPT !["upload"] = "complete", !["playground"] = "running"]
                /\ client' = "open"
                /\ caller' = "metadata"
                /\ pc' = IF Publisher = "session" THEN "probe" ELSE "metadata"
                /\ result' = result
          /\ cause' = cause
       \/ /\ chain' \in {chain, chain \cup {"link"}}
          /\ Fail("dotns")
          /\ caller' = caller
    /\ UNCHANGED <<inputs, prompts, cached, auth, attempts>>

-----------------------------------------------------------------------------
(* publishToPlayground.                                                    *)

Stored == chain \cup {"metadata"}
MayStore == Publisher = "session" => auth = "active"

\* Faulty variant: the allowance is looked up again after every Invalid Payment.
MetadataRecheckAlways ==
    /\ pc = "metadata"
    /\ \/ /\ MayStore
          /\ chain' = Stored
          /\ client' = "none"
          /\ pc' = "connect"
          /\ UNCHANGED <<rows, result, cause, caller>>
       \/ /\ Publisher = "session"
          /\ chain' = chain
          /\ caller' = "recheck"
          /\ Continue("probe")
       \/ chain' = chain /\ Fail("upload") /\ UNCHANGED caller
    /\ UNCHANGED <<inputs, prompts, cached, auth, attempts>>

\* Faulty variant: an upload that failed does not stop the publish.
MetadataIgnored ==
    /\ pc = "metadata"
    /\ chain' \in {chain, Stored}
    /\ client' = "none"
    /\ pc' = "connect"
    /\ UNCHANGED <<inputs, caller, rows, prompts, cached, auth, attempts,
                   result, cause>>

\* submitAndWatch of the metadata, with withRetry around it.  After an Invalid
\* Payment a session's allowance is looked up once more and the store repeated.
Metadata ==
    /\ pc = "metadata"
    /\ \/ /\ MayStore
          /\ chain' = Stored
          /\ client' = "none"
          /\ pc' = "connect"
          /\ UNCHANGED <<rows, result, cause, caller>>
       \/ /\ Publisher = "session" /\ caller = "metadata"
          /\ chain' = chain
          /\ caller' = "recheck"
          /\ Continue("probe")
       \/ /\ Publisher # "session" \/ caller = "recheck"
          /\ chain' = chain
          /\ Fail("payment")
          /\ UNCHANGED caller
       \/ /\ chain' = chain \/ (MayStore /\ chain' = Stored)
          /\ Fail("upload")
          /\ UNCHANGED caller
    /\ UNCHANGED <<inputs, prompts, cached, auth, attempts>>

\* getConnection and getRegistryContract are outside the retry loop.
Connect ==
    /\ pc = "connect"
    /\ Continue("publish") \/ Fail("connection")
    /\ UNCHANGED <<inputs, caller, prompts, cached, auth, chain, attempts>>

\* How registry.publish.tx fails: the contract reverts, the dry run fails, the
\* dispatch fails; or the transaction times out, the connection drops, the phone
\* refuses to sign.
PublishErrors == {"reverted", "dryRunFailed", "dispatchFailed", "timeout", "dropped", "refused"}

\* classifyRevert: the errors that carry a reason, data or a dispatch error.
Deterministic(e) == e \in {"reverted", "dryRunFailed", "dispatchFailed"}

\* A transaction whose watcher gave up may land nevertheless.
MayHaveLanded(e) == e \in {"timeout", "dropped"}

PublishOk ==
    /\ chain' = chain \cup {"entry"}
    /\ rows' = Reduce("playground", "complete")
    /\ pc' = "over"
    /\ result' = "ok"
    /\ UNCHANGED <<client, cause, attempts>>

\* The catch of the retry loop: a deterministic revert is final, anything else is
\* tried again up to MaxRegistryRetries times.
PublishFailed(e) ==
    /\ chain' = chain \/ (MayHaveLanded(e) /\ chain' = chain \cup {"entry"})
    /\ attempts' = attempts + 1
    /\ \/ Deterministic(e) /\ Fail("revert")
       \/ ~Deterministic(e) /\ attempts' >= MaxRegistryRetries /\ Fail("exhausted")
       \/ ~Deterministic(e) /\ attempts' < MaxRegistryRetries /\ Continue("retry")

Publish ==
    /\ pc = "publish"
    /\ PublishOk \/ \E e \in PublishErrors : PublishFailed(e)
    /\ UNCHANGED <<inputs, caller, prompts, cached, auth>>

\* The six seconds between two attempts.
Retry ==
    /\ pc = "retry"
    /\ Continue("publish")
    /\ UNCHANGED <<inputs, caller, prompts, cached, auth, chain, attempts>>

-----------------------------------------------------------------------------
\* The Bulletin chain: a grant lands some time after the phone gave it, and an
\* authorization expires when its block is reached.
Land ==
    /\ cached /\ auth = "missing"
    /\ auth' = "active"
    /\ UNCHANGED <<inputs, pc, caller, rows, prompts, client, cached, chain, attempts,
                   result, cause>>

Expire ==
    /\ auth = "active"
    /\ auth' = "expired"
    /\ UNCHANGED <<inputs, pc, caller, rows, prompts, client, cached, chain, attempts,
                   result, cause>>

\* runDeploy has settled.
Settled == pc = "over" /\ UNCHANGED vars

DeployStep ==
    \/ Setup \/ Build \/ Resolve \/ Probe \/ Grant \/ Check \/ Store \/ Link
    \/ Metadata \/ Connect \/ Publish \/ Retry

Next == DeployStep \/ Land \/ Expire \/ Settled

Spec == Init /\ [][Next]_vars

\* Every await settles: builds end, the phone answers or its request times out,
\* transactions are included or fail.
FairSpec == Spec /\ WF_vars(DeployStep)

-----------------------------------------------------------------------------
TypeOK ==
    /\ inputs \in Inputs
    /\ pc \in {"setup", "build", "resolve", "probe", "grant", "check", "store", "link",
               "metadata", "connect", "publish", "retry", "over"}
    /\ caller \in {"storage", "metadata", "recheck"}
    /\ rows \in [Rows -> Statuses]
    /\ prompts \in [opened : Nat, closed : Nat]
    /\ client \in {"none", "open"}
    /\ cached \in BOOLEAN
    /\ auth \in {"missing", "active", "expired"}
    /\ chain \subseteq Facts
    /\ attempts \in 0 .. MaxRegistryRetries
    /\ result \in {"none", "ok", "error"}

\* A registry entry never points at nothing: whatever failed or was retried, an
\* app is registered only once its content is stored and linked and the metadata
\* the entry names is on Bulletin (run.ts:240-263, playground.ts:412-520).
RegisteredIsServed == "entry" \in chain => {"content", "link", "metadata"} \subseteq chain

\* The rows never lie: at most one runs, none runs any more once runDeploy has
\* settled, a complete row means its effect is on chain, and success means every
\* row is complete or was skipped (phase.ts:35-51, runningState.ts:61-139).
RowsTellTruth ==
    /\ \A r, q \in Rows : rows[r] = "running" /\ rows[q] = "running" => r = q
    /\ result # "none" => \A r \in Rows : rows[r] # "running"
    /\ rows["upload"] = "complete" => {"content", "link"} \subseteq chain
    /\ rows["playground"] = "complete" => "entry" \in chain
    /\ result = "ok" => \A r \in Rows : rows[r] \in {"complete", "skipped"}
    /\ result = "ok" /\ inputs.publish => "entry" \in chain

\* However runDeploy ends, its dedicated Bulletin clients are destroyed and every
\* phone prompt it opened was closed, once (bulletin.ts:61-65: "Close it exactly
\* once"); and the phone is asked for the allowance at most once, although the
\* slot is looked up up to three times (bulletin.ts:232-241).
NothingLeftOpen ==
    /\ prompts.closed <= prompts.opened /\ prompts.opened <= 1
    /\ result # "none" => client = "none" /\ prompts.closed = prompts.opened

\* The effects a deploy is asked for.
Wanted == IF inputs.publish THEN Facts ELSE {"content", "link"}

Promised == INSTANCE Publication WITH wanted <- Wanted, made <- chain, verdict <- result

\* Every run of runDeploy is a publication: the app appears on chain in order and
\* at most one effect at a time, nothing is registered that was not asked for, and
\* success means that all of it is there, through every failure, re-check and
\* retry (run.ts:240-322, playground.ts:412-544).
ImplementsPublication == Promised!Spec

\* Re-checks and retries are bounded: runDeploy settles however the chains move.
DeployEnds == <>(pc = "over")
=============================================================================
