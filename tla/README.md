# A TLA+ model of playground-cli

`playground` is a command line tool that builds a web app, stores it on the
Polkadot Bulletin chain, points a DotNS name at it and lists it in a registry.
Most transactions are signed on a phone that is paired with the terminal. This
directory models the parts where that is hard to get right, checks them with
TLC on small instances, and proves the safety properties with TLAPS for every
instance.

    tlc -workers 2 -config ParallelDeploy_batch.cfg MCParallelDeploy
    tlapm ParallelDeployProofs.tla

`PROJECT.json` lists components, runs, mutants, the source lines behind every
definition, findings, hazards and theorems.

## 1. The system

Paths are relative to `src/src`.

| Part | State it keeps | Operations | Hard because of |
|---|---|---|---|
| `deploy-all` (`commands/deploy-all`, `utils/deploy/parallel.ts`, `signingGate.ts`) | shared app counter, per-key promise chain, results | pull an app, queue at the gate, submit, settle, summarise | deploys of one account interleave at every await |
| `deploy` command (`commands/deploy`, `utils/deploy/signerMode.ts`) | options, wizard answers, signer | gate, defaults, preflight, one stage per question, confirm | four ways to give every answer; two code paths that must agree |
| deploy pipeline (`utils/deploy/run.ts`, `playground.ts`, `storage.ts`, `utils/allowances/bulletin.ts`, `commands/deploy/runningState.ts`) | phase, rows, allowance slot, clients, prompts, what is on chain | build, store, link, metadata, publish, retry | authorizations expire, answers get lost, each phase can fail |
| signing proxy (`utils/deploy/signingProxy.ts`, consumer in `DeployScreen.tsx`) | step counter, label index, prompt | request, re-send, approve, reject | several attempts of one operation pending at once |
| console interception (`availability.ts`, `storage.ts`, `sessionSigner.ts`) | the global `console` methods | save and replace, restore | unrelated code swaps the same global |
| process exit (`utils/process-guard.ts`, `cli-runtime.ts`, `index.ts`) | hooks, timers, exit code | signals, cleanup loop, hard exit, watchdog | five exits race |
| `decentralize` (`commands/decentralize`, `utils/decentralize`) | wizard answers, temporary mirror, signer | name search, mirror, upload, register, publish, cancel | Ctrl+C reaches the process in two ways |
| identity gate (`utils/identity`) | none | ask the registry's verifier about an account | which account will publish is decided later |
| login, logout, session (`utils/auth.ts`, `sessionReset.ts`, `commands/login`, `commands/logout`) | session files, adapter, device identity | pair, load, reset, disconnect | statements replayed days later, adapters that leak, files that cannot be removed |
| account (`utils/account`, `commands/drip`) | balances on chain, cached allowances | drip, map, ask for allowances | the phone changes its account, a cap tested before the transfer |
| `contract` (`commands/contract.ts`, `contractPipelineStatus.ts`, the two screens) | rows per crate and library, `cdm.json`, session and client | build, deploy and register, publish metadata, install, pin | events of one chunk in either order, a signal at every await |
| `mod`, `init` (`commands/mod`, `utils/mod`) | the picked app, the target directory | browse, probe quests, download, plan, install, run setup.sh | a directory the user works in, eight ways for a step to end |
| toolchain (`utils/toolchain.ts`, `packageManagers.ts`, `login/DependencyList.tsx`, `utils/build`) | installations in flight, the PATH | check, install once, look again, build | concurrent builds, installers that exit 0 and install nothing |
| `update`, `status`, telemetry, theme | little of their own | sequences of shell and chain calls | partial failure |

How they interact: `deploy-all` runs one deploy pipeline per app and passes it
the signing gate; the pipeline calls the allowance code, bulletin-deploy (an
external library that stores content and drives DotNS) and the registry; every
phone signature of all of these goes through the signing proxy and, below it,
the fast-fail guard that swaps `console.error`. `decentralize` reuses the
storage and publish halves of the pipeline. The wizard's contract step runs
`contract deploy` and then `contract install` before the frontend is built;
builds and `mod` share the package manager code. All commands run inside
`runCliCommand` and end through the process guard.

What makes each part correct is stated as the properties below; what can go
wrong, line by line, is the list of hazards in `PROJECT.json`.

## 2. The modules

JavaScript runs one job at a time, so a stretch of code without an `await` is
one action, and what interleaves is the awaits. Payloads, names and addresses
are small symbolic values; wording and layout are left out.

**ParallelDeploy** (constants in MCParallelDeploy) models one batch. `nextIndex`,
`results` and the workers' `wpc`/`job` are the locals of `runParallelDeploys`;
`tail` is the gate's map of promise chains and `pred` the promise an app was
chained to; `nextNonce` is the chain, `readNonce` what an app read. `Pull` and
`Settle` are a worker's loop; `EnterGate`, `ReadNextIndex`, `Submit`,
`PhaseDone`, `FailInGate` an app's gated section. `Preflight` is what runDeployAll
does before its workers: `command` says whether the identity gate turned the
caller away (exit code 0), a step threw (1) or the batch began. Submitting is two steps
because bulletin-deploy reads the next index and submits later. The key map is
a constant; `KeyCoversAccounts` states the contract written on
`SignerKeyResolver` (parallel.ts:55-62).

**SerialSubmission** is the abstract specification: a deploy owns its accounts
for one period, and submission is atomic. ParallelDeploy implements it by
mapping "inside the gate" to "holding".

**ConsoleOverride** (MCConsoleOverride) keeps, per console stream, the function
installed now, and what each of the three pieces of code saved when it
replaced it. A signature swaps `console.error` when it is asked for and then joins
`sessionQueue`, host-papp's queue, which answers the oldest call only; it may be
asked for again while one is pending. `overlapped` is a history variable: a
signature was asked for, or a phase left, while an earlier one was pending.

**SigningProxy** (MCSigningProxy) has the shared counter, `wrapDotnsSigner`'s
`completed`, every signer call with its state, and the prompt on screen.
bulletin-deploy is external: it may time a request out and ask again at any
moment (`Resend`), which is how signingProxy.ts:57-60 describes it.

**SignerSetup** holds `signerMode.ts` as operators: who signs DotNS, storage and
publish and contracts, and which taps are announced. DeployCommand, DeployPipeline and
Decentralize use them.

**DeployCommand** (MCDeployCommand) runs from the flags to the call of
`runDeploy` and the exit code; one action per wizard stage, stages named as in
the code.

**DeployPipeline** is one `runDeploy`. `pc` is the await it is at, `rows` the
reducer's rows, `chain` what is on chain because of it; `Land` and `Expire` are
the Bulletin chain moving on its own, and an error of `Publish` may hide a
transaction that landed.

**Publication** is the abstract specification of one deploy: the effects asked
for appear on chain in order and one at a time, none is taken back, and "ok" is
said only when all of them are there. DeployPipeline implements it by mapping
`chain` to what was made and `result` to the verdict; the allowances, clients,
prompts, re-checks and retries are its stuttering steps.

**ProcessExit** (MCProcessExit) has the command's body, the hook list, one
cleanup loop per signal, the timers, and the process's end.

**Decentralize** has the headless path and the wizard, the search for a name,
`runDecentralize` with its temporary directory, Ctrl+C and a crash of the
screen.

**Session** runs a sequence of `login`, `logout`, `drip` and signing commands
over the session files (`ident`, `list`, `cache`), the phone, the statement
store (`served`, `stale`) and the chain. A command is a chain of its awaits;
every SDK call may fail, time out, or miss a stored session. Login's screen and
the effect of `AccountSetup` run side by side; the render that shows completion
starts the effect once more while the screen goes away (`Unmount`). None of these
screens reads keys, so Ctrl+C is a SIGINT that ends the process wherever it is
(`Interrupt`), with files half removed or a transfer on its way (`inFlight`), which
may land during a later command (`LandsLate`). An account is mapped once it has
received PAS or PGAS (`credited`, `pgas`). Balances are carried from command to
command, in half PAS, half a drip; whether the dev funder can pay is a
nondeterministic choice.

**ContractCommand** (MCContractCommand) has `contract deploy`, `contract install`
and the wizard's step that runs both. The CDM builder is the events it emits:
within a chunk the transaction and the metadata upload report in either order.
`row` and `irow` are the two status adapters, `res`, `ran` and `registered` the
resources and their `cleanupOnce` closures, `manifest` is `cdm.json`.

**Toolchain** has the programs of a machine, `TOOL_STEPS` with the programs each
installer runs, the dependency list of the login screen, and
`ensurePackageManager` called by concurrent builds: `inFlight` is
`inFlightInstalls`, `running` counts the installer processes.

**AppBrowser** is the picker: pages by scanned offset, metadata that arrives in
any order, the cursor, the GitHub check, other publishers.

**ModCommand** (MCModCommand) composes the two with `playground mod`: a process is
a login's dependency list, a batch of builds, or mods that follow one another
on one disk; the user creates and clears the same directory meanwhile, and
Ctrl+C ends the command at any step.

**Selection** is `Array.prototype.filter` by what it keeps: `Filtered(l, kept)` is the
set that holds the one sequence of the entries of `l` at the indices `kept`, in
order. Session and AppBrowser take it instead of SelectSeq, whose recursion the
provers cannot follow.

The proofs are in **ParallelDeployProofs**, **DeployPipelineProofs**,
**DeployCommandProofs**, **SigningProxyProofs** (also for ConsoleOverride),
**ProcessExitProofs** (also for Decentralize), **SessionProofs**,
**ContractCommandProofs** and **ModCommandProofs** (also for Toolchain and
AppBrowser). Where two components share a module of proofs, one of them carries
its name in its specification (`ConsoleSpec`, `DecentralizeSpec`).

## 3. The runs

| Run | Checks | Instance |
|---|---|---|
| `batch_deploy` | TypeOK, NonceSafe, GateFifo, ExitCodeHonest, ImplementsSerialSubmission, BatchReturns | 3 apps, 2 workers, 2 keys, 1 extrinsic per app |
| `console_nesting` | RestoresNest, violated | 3 apps, 2 signatures each, symmetric |
| `signing_approvals` | StallIsNotProgress, LabelTracksOperations, PromptLostOnlyToLateAnswer | grant, 3 DotNS operations, publish; 7 calls; a plan that predicted 1 operation |
| `deploy_paths` | ContractsRebuild, OwnerIsSigner, TapsAnnounced | every command line, answer and outcome |
| `deploy_gate_account` | GateAsksPublisher, violated | the same |
| `deploy_pipeline` | ImplementsPublication, RowsTellTruth, NothingLeftOpen, DeployEnds | every input, 3 publish attempts |
| `process_exit_races` | FailureReported, OrderlyExitCleansUp, ProcessEnds | 2 signals |
| `decentralize_paths` | OnlyMirrorRemoved, RunEnds | every command line and answer, 3 random names |
| `decentralize_cancel` | CancelEnds, violated | the same |
| `session_lifecycle` | NoPoisonedPairing, GrantsAreForThisAccount, OnlyOrphansStayOpen, SignedOutIsGone, SetupUsesNewPairing, DripBounded, LoginReturns | 2 accounts, 3 device identities, 2 commands |
| `contract_deploy_install` | RowsSettle, FrontendSeesDeployed, ReleasedUnlessRaced, PinsAgree | 2 crates in 1 or 2 layers, 2 libraries, 2 registries, 15 command lines |
| `project_setup` | NoConcurrentInstall, EnsuredIsUsable, CleanMachineReady, BrowserComplete, NeverClobbers, ModOutcomes | every subset of the tools on 3 platforms, 2 builds, 5 registry slots in pages of 2 and 1 published late, 2 mods, 1 installer that fails by itself |

Why the bounds suffice. `batch_deploy`: two apps share a key and one does not,
so both contention and independence happen, and with three apps and two workers
somebody always queues behind somebody (161,154 states); the theorems hold for
any number.
`console_nesting`: two signatures of one app are enough to overlap, the other apps
swap the console meanwhile. `signing_approvals`: seven calls let every operation be asked
for once and leave two for re-sends and rejections at any place.
`deploy_pipeline`: 3 is the code's own budget. `process_exit_races`: a second
signal is enough to start a second loop. `decentralize_paths`: the search tries
20 names in the code; three shows a first, a middle and a last one.
`session_lifecycle`: the stored session and the cache the first command finds
are arbitrary, so two commands are a pair such as logout and login, and the
third identity is the one a rotation creates after a second pairing (820,374
states). Every account starts with no PAS and the cap is one drip (ten in the code), so
that two commands reach it, and fees bring an account to just below it again.
`contract_deploy_install`: two crates show a chunk of two and two layers of
one; one library named twice, a package of somebody else's and an older
registry are among the cases. `project_setup`: a join of an installation needs
two builds; three pages cover a hidden app, an app without a repository and one
that is not GitHub's; the second mod meets what the first one left.

Fairness. `batch_deploy`, `deploy_pipeline` and `decentralize_paths` assume that
every await settles: builds, wget and transactions end or fail, and a phone
request is answered or times out. `process_exit_races` assumes only what is
bounded by a timer or by Sentry's flush limit: the end of a command, and the 3 s
fallback. It assumes nothing of the command itself or of a hook.
`session_lifecycle` assumes that the steps of a command go on: the SDK's calls and
the chain client's have their own timeouts. In none of them is the user obliged
to do anything, and the runs of contracts and project setup check safety only.

Each property is shown to depend on the code by a mutant: an operator
marked "Faulty variant" in the module, put in the place of the definition it
varies, makes TLC find the property violated.

## 4. What was found

By a run:

* `console_nesting`: sessionSigner.ts:174-177 says that the swaps of `console.error`
  nest because host-papp answers one call at a time. The swap happens before a
  call joins that queue, and bulletin-deploy asks again while a request is pending
  (signingProxy.ts:57-60): the first answer takes the second call's guard out
  while that call waits, the second puts the guard of the first back although it
  has ended.

* `deploy_gate_account`: `deploy --yes --playground` asks the identity gate about the
  phone session and publishes with the dev key; identityGate.ts:74-79.
* `decentralize_cancel`: Ctrl+C at a prompt closes the screen and leaves the
  command pending; DecentralizeScreen.tsx:247-248 says it cancels, and
  deploy/index.ts:721-735 guards against this very case.

Visible in the models, without a run of their own:

* Console: two domain checks of a batch overlap, restore in the other order, and
  `console.log` stays a no-op, which the comment on `silenceConsole`
  (availability.ts:298-303) rules out.
* Signing: an abandoned attempt that is answered late moves the label on, and
  the next re-send carries the following operation's name, although
  signingProxy.ts:136-137 says that `max` keeps a late completion from skipping a
  label. LabelTracksOperations bounds the shift by the late approvals, and that
  bound is reached.
* Session: `ensureSmartContractAllowance` (smartContracts.ts:55) believes a cached
  marker of whatever account was paired before. `summarizeOutcomes` takes an
  outcome the phone left out for a grant, and the login's second witness, the
  mapping, is there for any account that received PAS (mapping.ts:19-25): with
  another account's cache entry the screen says "granted" of an account that has
  none. Both are exemptions in GrantsAreForThisAccount. `handleAccountDone` is new
  at every render (LoginScreen.tsx:57) and a dependency of the setup effect, so the
  completing render starts the effect again, and an adapter it opens has no owner:
  with the probe of an underivable session the exemptions in OnlyOrphansStayOpen.
  Nothing hangs on them, since index.ts:174 exits whatever is open, although
  login/index.ts:86-90 says the event loop has to drain. drip.ts:30-32 and 89-93 say
  "up to 10 PAS and no further"; an account just below the cap is lifted above it by
  a drip, and by one more for each transfer whose command gave up waiting or was
  interrupted, which is the bound DripBounded states.
* Contracts: `contract deploy` without contracts exits 0; a library named twice
  takes its dependency from the first request and its pin from the last result
  (contract.ts:544); the registry of `cdm.json` is overwritten while pins of
  another registry stay; a failed metadata fetch of an install shows a hash
  where the others show a mark (contractInstallUi.tsx:310); a build error after
  full progress is put down to the registry column; what was being opened when a
  signal came is released by nobody (the exemption in ReleasedUnlessRaced).
* Toolchain: the installers are `curl … | sh` under a shell without pipefail, so a
  failed download exits 0. `ensurePackageManager` looks again; the dependency list
  does not, and marks rustup ok. `runBuild` ensures the manager that the
  packageManager field, the lock file or setup.sh name, in that order, and then
  runs the one of the lock file, or npm: with setup.sh naming bun and no lock
  file, bun is installed and `npm install` fails on a machine without Node
  (runner.ts:110-116, detect.ts:176, packageManagers.ts:66-77).
* Mod: every way to end after the download has begun leaves the directory, and
  resolveTargetDir refuses it next time, although the note after a declined
  installation says to install the manager and "re-run playground mod"
  (SetupScreen.tsx:299-301). Ctrl+C at that question leaves the command waiting
  (pc "hung"). `stripPostinstall` ignores every error (SetupScreen.tsx:341-347), so
  next steps may be printed over a project that kept its hook. The community notice is meant for the direct path
  (SetupScreen.tsx:209-211), where on a terminal the metadata is already there
  and it is not shown. What the user puts into the directory while the archive
  is on its way is written over. In the picker the app under the cursor
  changes when metadata of an earlier one arrives.
* Elsewhere: signingGate.ts:46-48 says the gate does not throttle uploads, which
  run inside it (run.ts:206-264); the repository's README.md:92 and :96 simplify
  when a deploy is headless and who signs the publish; the header of
  utils/decentralize/run.ts speaks of an owner override that signerMode.ts no
  longer has; a mirror that fails, or is interrupted, leaves its temporary
  directory behind; a publish rejected on the phone is asked for up to three
  times (playground.ts:521); a rejected promise stays in the cache of
  availability.ts:84.

## 5. What is proved

Every invariant and action property of the passing runs is a theorem, and so are
both refinements. They hold for every value of the constants that satisfies the
named assumptions. Each rests on an inductive invariant: a conjunction of named
parts, one lemma per action or per part, and a last step that puts them together.

**ParallelDeployProofs**, from `NumAppsAssumption`, `KeyAssumption`,
`AccountAssumption`, `FlagAssumption`, `MaxTxAssumption` and, for the nonces,
`KeyCoversAccounts`:

* `TypeCorrect`, `GateIsFifo`, `NonceSafety`, `BatchIsSerial`, `ExitCodeIsHonest`,
  `BatchIsNeverStuck`.

`GateFifo` is not inductive. The invariant `IInv` adds `Chain`: tickets are
distinct and given in the order of arrival, the tail of a key is its latest
arrival, and each app is chained to the arrival just before it under its key.
An app enters when its predecessor is over; by `GateFifo` everything before the
predecessor is over too, so at most one app of a key is inside
(`GateExclusive`). As apps that share an account share a key, the nonce an app
read can only be moved by itself, which is `NonceSafe`. The refinement to
SerialSubmission follows from the same facts, action by action. The exit code
needs two more parts: what a result and an outcome say of the chain
(`OutcomeSound`), and that no index is skipped, every app under way has its worker
and a worker returns only when no index is left (`PoolSound`), so that no result
is missing when all workers are back. A command that ended in its preflight has
submitted nothing.

`BatchIsNeverStuck` is the part of BatchReturns that fairness cannot give
(`PoolAdvances`): a worker that has not returned is at the top of its loop, has an
app to record, or waits for an app of a key under which some app can move. Apps
at a gate could only be stuck behind one another; each is chained to an app of its
key with an earlier ticket (`PredEarlier`), so of those not over the one with the
least ticket is inside the gate or may enter it (`LeastTicket`, `GateDrains`), and a
worker's app is under way and its own (`JobsOwn`).

**DeployPipelineProofs**, from `RetriesAssumption`:

* `PipelineTypeCorrect`, `EntriesAreServed`, `RowsAreTruthful`, `NothingLeaks`,
  `DeployIsPublication`, `DeployWindsDown`.

The invariant ties every piece of state to the await the deploy is at: which
facts are on chain by then (`ChainInv`), where a client can be open
(`ClientInv`) and a prompt pending (`PromptInv`), which row is running
(`RowInv`), and that a settled deploy has a result (`SettledInv`). `DeployIsPublication` is the refinement
of Publication: the steps that reach the chain (`StorePublishes` for content and
metadata, `LinkPublishes`, `PublishPublishes`) make the next effect, end with an
error, or both, since a publish may land and be reported lost; all others leave
what was made alone (`QuietStep`).
`EntriesAreServed` says the same of a registered entry as an invariant.
`DeployWindsDown` gives the bound behind DeployEnds: `Rank` is computed from the
await, the caller of the allowance look-up and the publish attempts left; it
starts at no more than 2 * MaxRegistryRetries + 18, every step of runDeploy lowers
it, the chains leave it alone, and it is 0 exactly when the deploy has settled.

**DeployCommandProofs**, from `FlagsAssumption`, for any set of command lines:

* `ContractsAreRebuilt`, `CheckedOwnerSigns`, `AnnouncedTapsAreSigned`.

The two paths decide the same things in different orders, so the invariant says
what each stage may take as decided: `YesInv` for the headless path, `BuildInv`
for contracts against `--no-build`, `SignerInv` for the mode, the user and the
account checked, and `JobInv` for what runDeploy was called with. `PickNextFacts`
states what `pickNextStage` guarantees of every stage it picks, so that the stages
need not be gone through answer by answer.

**SigningProxyProofs**, from `PlanAssumption`, for any operations, labels, retry
budget and number of calls:

* `StepsCountApprovals`, `LabelsNameWhatIsLeft`, `PromptIsLostOnlyToLateAnswer`;
  `OnlyOverlapsBreakNesting`.

`CountInv` adds to the property that the counter has a step in hand only while the
next request would be a re-send, so that a request that takes a new step finds
every earlier one approved. `LabelInv` says that the signatures completed cover
the DotNS operations done, which `max` never takes back, and that the operation
waited for is the newest call's; `AheadInv` bounds how far ahead they are by the
abandoned attempts approved late, which is the other half of the property.

`OnlyOverlapsBreakNesting` is about ConsoleOverride, for any apps and any number of
signatures. RestoresNest does not hold (section 4); it is proved for every
behaviour up to the first overlap, so that overlapping signatures are its only
cause. The invariant `Nested` says that until then the swaps of console.error are a
stack: one app at a time is past the gate, and a pending signature will put back
what its app installed.

**ProcessExitProofs**, for any set of signals:

* `FailuresAreReported`, `CleanupIsOnceAndDone`; `UserDirectorySurvives`,
  `RunsEndTruthfully`, `RunsWindDown`.

`CodeInv` says what the command has said of itself at each place, `CleanupInv`
that the flag of `cleanupOnce` and the count of releases agree, with the command's
finally and every loop past its hook, and `ExitInv` who may have ended the process
with which code. The others are about Decentralize. `MirrorInv` says that
mirrorDir is never the user's directory, that until a run fails it names the mirror
on disk, and that what the finally block leaves is a mirror rmSync could not remove
(`stuck`) or one whose name the run never learnt. `RunInv` says that a run, once started, stays inside
its finally blocks and that the screen says done only of a run that succeeded; so
exit code 0 means that the site is up, and a run that was not interrupted has
closed the connection and the session adapter. `RunRank` bounds the steps of a run:
it only goes forwards through its stages, at most eight of them.

**SessionProofs**, from `SessionAssumption`:

* `PairingsAreNotPoisoned`, `GrantsAreTheAccountsOwn`, `LoginLeavesOnlyOrphans`,
  `LogoutReportsAreTrue`, `SetupTalksOnNewPairing`, `DripsAreBounded`,
  `LoginScreenWindsDown`.

`IdentInv` and `TopicInv` say that no session and no topic is on an identity still
to be created, so the identity a login pairs on has no topic with an old statement
unless its file could not be removed. `PlaceInv` relates the place of the screen
to that of the account setup, which run side by side, and `AdapterInv` says who
holds each adapter there. `MemoryInv` says what a command starts without and
`LogoutInv` that a logout reports at its end only. `GrantInv` follows the
smart-contract grant through the setup: asked for, held by the account, or taken for held (`Held`:
a cache entry and a mapping by PAS).
`PairInv` keeps the new session the last of the stored list, unless a statement
has removed it. `LoginScreenWindsDown` is the safety half of LoginReturns: a
screen that waits has a step of its own or of the effect left (`ScreenGoesOn`), and
`LoginRank` allows at most nine steps from the screen to the end, which neither the
phone nor the chain can add to. `DripInv` adds to DripBounded that the account of a
transfer under way was read below the cap, raised since then only by what landed late.

**ContractCommandProofs**, from `ContractAssumption` (finitely many libraries,
well-formed command lines, every crate in a layer, a package this account owns
has a version):

* `CommandReleases`, `TableSettles`, `FrontendBuildsOnDeployed`, `PinsMatchRequests`
  (an action property).

`ReleaseInv` says that something open is lent, was opened too late, or waits for a
cleanup that is registered and has not run. `TableInv` is the state of a layer:
the crates of earlier layers are settled and those in progress are of this one
(`LayerInv`), the chunk says how far its crates are and whose the phone's last
answer is (`ChunkInv`), and a row fits what became of its crate (`RowInv`).
`TargetInv` and `InstallInv` carry what was deployed through the install: packages
deployed belong to this account, so nobody else moves their version, each is still
in the queue or has its result, and a result answers its request. Where the
argument is an induction over layers or over a queue, it is made by taking the
least index that fails (`Least`, `Greatest`).

**ModCommandProofs**, from `ModAssumption` (what a machine and a project are) and
`BrowserAssumption` (names in the registry are unique, pages are not empty):

* `InstallersAreShared`, `EnsuredManagersAreUsable`, `OnePassIsEnough`;
  `PickerIsComplete`, `FilterIsTotal`; `DownloadsAreApart`, `ModReportsAreTrue`.

`FlightInv` counts one running installer per entry of `inFlightInstalls` and none
without. `EnsureInv` records how far each build has got in
`ensurePackageManager`: every program it needs and has passed was there or is on
its list of missing ones (`Seen`), and in the second look everything before the
current program is there. Builds only interfere through the machine, which only
gains programs (`Gains`), so what one build has seen survives the installers of
the others, the failed and the falsely successful included (`GainsKeeps`).
`ListInv` and `StepOrder` are the order of TOOL_STEPS: whatever an installer runs
is put there by an earlier step. The picker's pages go by offset into a list that
grows at its front; `ReadOk` keeps, for what has been read, how far the list has
moved since (`lag`), which is why an app may repeat and none is skipped. `DiskInv`
relates what is in the directory, from whom, to the place of the command, `CmdInv`
the command's own fields, and `SetupInv` takes the package manager of setup.sh
from EnsureInv.

Expressions with overlapping CASE arms, of which TLA+ leaves open which one is
taken, are written as IF chains in the order of the code.

Only model-checked: the liveness properties BatchReturns, DeployEnds,
ProcessEnds, RunEnds and LoginReturns, which are out of the prover's reach; and
the three properties that are violated. Of BatchReturns, DeployEnds, RunEnds and
LoginReturns the part that is safety is proved (`BatchIsNeverStuck`,
`DeployWindsDown`, `RunsWindDown`, `LoginScreenWindsDown`): what stays with TLC is
that the steps left are taken.

## 6. What is abstracted, and what is not modelled

* bulletin-deploy, host-papp, Ink, the chains and the phone are external. They
  are modelled by how the code uses them: they answer, fail, or answer late.
* A build, a contract deploy and a repository check are one step that succeeds
  or fails.
* The events of the CDM builder name every crate of a chunk: a crate that
  deploy-register-done gives no address keeps its row (contractPipelineStatus.ts:142-144),
  which is excluded by assumption on the builder.
* The dev funder's balance is not tracked: a drip finds it with or without funds.
* One CLI process runs at a time on a machine; `deploy-all` is concurrency inside
  a process. The login stamp, which other terminals watch, is left out.
* `funding.ts`, `allowance.ts` and `attestation.ts` of `utils/account` hold helpers that
  no command calls in a way that changes their state.
* The registry contract of the picker, the CDM builder and GitHub are external;
  a query of theirs that rejects outright, instead of answering "no", is not
  modelled in the picker. The picker is only opened on a terminal.
* An installer's effect is its program on the PATH, or not; versions, `sudo` and
  package repositories are left out.
* Not modelled: `update`, `status`, telemetry attributes, the theme. The reasons
  stand with the components in `PROJECT.json`.

## 7. Plan

1. Two terminals over one set of session files, with the login stamp; the
   invariants of Session without the assumption of one process.
2. Update: download, check, swap of the binary.
