--------------------------- MODULE ContractCommand --------------------------
(***************************************************************************)
(* `playground contract deploy`, `playground contract install`, and the    *)
(* deploy wizard's contract step, which runs the first and then the second *)
(* before it builds the frontend (commands/contract.ts,                    *)
(* contractPipelineStatus.ts, contractDeployUi.tsx, contractInstallUi.tsx, *)
(* deploy/contracts.ts, the contract half of DeployScreen.tsx).            *)
(*                                                                         *)
(* The CDM builder, the registry contract and the IPFS gateway are         *)
(* external: they are modelled by the events the code consumes.  Within    *)
(* one chunk the transaction and the metadata upload run concurrently, so  *)
(* their events interleave; a shutdown signal may arrive at every await;   *)
(* other accounts register packages at any time.                           *)
(***************************************************************************)
EXTENDS Integers, Sequences, FiniteSets, FiniteSetsExt, SequencesExt

CONSTANTS Libs,      \* CDM package names
          Starts     \* the cases considered: command line, project (what
                     \* detectBuildOrder finds), cdm.json, registry contents

NoPackage == "no package"
Absent == 0          \* no version
Latest == -1         \* the version "latest"
Registries == {"active", "other"}
NoFlag == "no flag"

\* What a missing cdm.json is read as.
EmptyManifest == [legacy |-> FALSE, registry |-> "none", deps |-> [l \in Libs |-> Absent],
                  pins |-> [l \in Libs |-> Absent]]

Versions == Nat \cup {Latest}
Request == [lib : Libs, ver : Versions]

\* What a command line may say.  The wizard names neither a preset nor
\* libraries (runContractsBeforeFrontend).
CommandLines ==
    {f \in [cmd : {"deploy", "install", "prestep"}, mode : {"none", "dev", "phone"},
            suri : BOOLEAN, user : {"none", "dev", "session"}, session : BOOLEAN,
            registry : Registries \cup {NoFlag}, preset : BOOLEAN, active : BOOLEAN,
            args : Seq(Request)] :
        f.cmd = "prestep" => ~f.preset /\ f.args = <<>>}

\* detectBuildOrder puts every crate into a layer.
IsProject(p) ==
    /\ p.pkg \in [DOMAIN p.pkg -> Libs \cup {NoPackage}]
    /\ p.layers \in Seq(SUBSET DOMAIN p.pkg)
    /\ \A c \in DOMAIN p.pkg : \E i \in 1..Len(p.layers) : c \in p.layers[i]

Manifests == [legacy : BOOLEAN, registry : Registries \cup {"none"},
              deps : [Libs -> Versions], pins : [Libs -> Nat]]

\* A package with an owner has a version.
Chains ==
    {ch \in [Registries -> [Libs -> [version : Nat, owner : {"nobody", "me", "other"}]]] :
        \A r \in Registries, l \in Libs : ch[r][l].owner = "me" => ch[r][l].version > 0}

ASSUME ContractAssumption ==
    /\ IsFiniteSet(Libs) /\ NoPackage \notin Libs
    /\ \A s \in Starts : /\ s.flags \in CommandLines /\ IsProject(s.project)
                         /\ s.manifest \in Manifests /\ s.chain \in Chains

VARIABLES
    flags,     \* the command line
    project,   \* layers of crates, and the package of each crate
    pc,        \* where the command is
    res,       \* signer, client (deploy) and reader (install): none, open, closed
    ran,       \* which cleanupOnce closures have run
    registered,\* which cleanupOnce closures the process guard knows
    shutdown,  \* a signal has started the process guard's cleanup
    raced,     \* what was opened after its cleanup had run
    chain,     \* registry -> package -> [version, owner]
    layer,     \* the layer the CDM builder is working on
    work,      \* its progress per crate
    chunk,     \* the deploy-and-register chunk in flight
    failure,   \* why a crate failed: none, build, sign, chain
    row,       \* ContractPipelineStatusAdapter.statuses
    prompt,    \* signingPrompt is set
    signErr,   \* signingError is set
    queue,     \* install requests still to do
    lib,       \* step of the request at the head of the queue
    irow,      \* ContractInstallStatusAdapter.statuses
    results,   \* InstallSummary.results
    errors,    \* InstallSummary.errors is not empty
    manifest,  \* the cdm.json on disk
    exit       \* running, ok, failed (result.success is false), threw

deployVars == <<layer, work, chunk, failure, row, prompt, signErr>>
installVars == <<queue, lib, irow, results, errors>>
resVars == <<res, ran, registered, shutdown, raced>>
vars == <<flags, project, pc, resVars, chain, deployVars, installVars, manifest, exit>>

Crates == DOMAIN project.pkg
CratesIn(i) == project.layers[i]
Package(c) == project.pkg[c]
Packages == {Package(c) : c \in Crates} \ {NoPackage}

-----------------------------------------------------------------------------
(* Which signer, registry and requests the command line selects.           *)

\* contractSignerOverride: the wizard lends its signer, when it is the right one.
Borrowed ==
    IF flags.cmd = "prestep" /\ (flags.mode = "phone" \/ flags.user = "dev")
    THEN flags.user ELSE "none"

OverrideThrows == flags.cmd = "prestep" /\ flags.mode = "phone" /\ flags.user # "session"

\* resolveContractSignerOptions: a local key, or the phone session.
OwnSource ==
    CASE flags.mode = "dev" -> "dev"
      [] flags.mode = "phone" -> IF flags.suri THEN "throws" ELSE "session"
      [] OTHER -> IF flags.suri THEN "dev" ELSE "session"

SignerSource == IF Borrowed # "none" THEN Borrowed ELSE OwnSource
OwnsSigner == Borrowed = "none"

\* resolveContractDeployTarget; "none" is an address assertHexAddress refuses.
DeployRegistry ==
    IF flags.registry # NoFlag THEN flags.registry
    ELSE IF flags.active THEN "active" ELSE "none"

\* resolveContractInstallTarget: flag, then preset, then network, then cdm.json.
InstallRegistry ==
    IF flags.registry # NoFlag THEN flags.registry
    ELSE IF flags.preset THEN "other"
    ELSE IF flags.active THEN "active" ELSE manifest.registry

\* installRequestsFromArgs for the dependencies of cdm.json, in some order.
DependencyRequests ==
    LET order == SetToSeq({l \in Libs : manifest.deps[l] # Absent})
    IN  [i \in 1..Len(order) |-> [lib |-> order[i], ver |-> manifest.deps[order[i]]]]

Requests(args) == IF args # <<>> THEN args ELSE DependencyRequests

\* findForeignOwnedCdmPackages
ForeignOwned(reg) ==
    {p \in Packages : chain[reg][p].version > 0 /\ chain[reg][p].owner = "other"}

-----------------------------------------------------------------------------
(* Opening and releasing: cleanupOnce, onProcessShutdown, finally.         *)

Resources(who) == IF who = "install" THEN {"reader"}
                  ELSE {"client"} \cup (IF OwnsSigner THEN {"signer"} ELSE {})

Closed(rs, held) == [r \in DOMAIN held |-> IF r \in rs /\ held[r] = "open" THEN "closed" ELSE held[r]]

\* cleanupOnce of one run: nothing the second time.
CleanupOnce(who) ==
    /\ ran' = ran \cup {who}
    /\ res' = IF who \in ran THEN res ELSE Closed(Resources(who), res)

\* An awaited open has returned and is assigned to the variable cleanup reads.
Open(r, who) ==
    /\ res' = [res EXCEPT ![r] = "open"]
    /\ raced' = IF who \in ran THEN raced \cup {r} ELSE raced

Doing(p) == exit = "running" /\ pc = p
Who == IF pc \in {"args", "reader", "registry", "installing"} THEN "install" ELSE "deploy"

\* A throw before the try block: nothing is registered, nothing is open.
Refuse ==
    /\ exit' = "threw" /\ pc' = "ended"
    /\ UNCHANGED <<flags, project, resVars, chain, deployVars, installVars, manifest>>

\* Faulty variant: the cleanup is at the end of the try block, not in finally.
ThrowKeepsOpen ==
    /\ exit' = "threw" /\ pc' = "ended"
    /\ UNCHANGED <<flags, project, resVars, chain, deployVars, installVars, manifest>>

\* A throw inside it: finally runs the cleanup.
Throw ==
    /\ exit' = "threw" /\ pc' = "ended"
    /\ CleanupOnce(Who)
    /\ UNCHANGED <<flags, project, registered, shutdown, raced, chain, deployVars,
                   installVars, manifest>>

\* A signal: every registered cleanup runs, the command's awaits go on.
Shutdown ==
    /\ exit = "running" /\ ~shutdown
    /\ shutdown' = TRUE
    /\ ran' = ran \cup registered
    /\ res' = Closed(UNION {Resources(w) : w \in registered \ ran}, res)
    /\ UNCHANGED <<flags, project, pc, registered, raced, chain, deployVars, installVars,
                   manifest, exit>>

-----------------------------------------------------------------------------
(* runContractDeploy up to the pipeline.                                   *)

StartDeploy ==
    /\ Doing("start") /\ flags.cmd # "install"
    /\ IF OverrideThrows \/ DeployRegistry = "none" THEN Refuse
       ELSE /\ pc' = "signer"
            /\ registered' = registered \cup {"deploy"}
            /\ res' = IF OwnsSigner THEN res ELSE [res EXCEPT !.signer = "open"]
            /\ UNCHANGED <<flags, project, ran, shutdown, raced, chain, deployVars,
                           installVars, manifest, exit>>

\* signer ??= await resolveSigner(...): no session, no session signer.
ResolveSigner ==
    /\ Doing("signer")
    /\ IF ~OwnsSigner THEN pc' = "client" /\ UNCHANGED <<res, raced>>
       ELSE /\ OwnSource = "dev" \/ (OwnSource = "session" /\ flags.session)
            /\ pc' = "client" /\ Open("signer", "deploy")
    /\ UNCHANGED <<flags, project, ran, registered, shutdown, chain, deployVars, installVars,
                   manifest, exit>>

SignerFails == Doing("signer") /\ OwnsSigner /\ OwnSource # "dev" /\ Throw

\* createContractChainClient: a client that cannot reach both chains is
\* destroyed there, before the caller has seen it.
ConnectChains ==
    /\ Doing("client")
    /\ pc' = "ownership" /\ Open("client", "deploy")
    /\ UNCHANGED <<flags, project, ran, registered, shutdown, chain, deployVars, installVars,
                   manifest, exit>>

ConnectFails == Doing("client") /\ Throw

\* assertCdmPackageOwnership, then the cached allowance signer.
CheckOwnership ==
    /\ Doing("ownership")
    /\ ForeignOwned(DeployRegistry) = {}
    /\ pc' = "pipeline"
    /\ UNCHANGED <<flags, project, resVars, chain, deployVars, installVars, manifest, exit>>

\* A foreign package, cargo metadata, or a registry query that failed.
OwnershipFails == Doing("ownership") /\ Throw

-----------------------------------------------------------------------------
(* The status rows: ContractPipelineStatusAdapter and its table cells.     *)

NewRow == [state |-> "waiting", error |-> "none", address |-> FALSE, published |-> FALSE,
           compiled |-> FALSE, deploying |-> FALSE, registering |-> FALSE, publishing |-> FALSE]

NoChunk == [crates |-> {}, sign |-> "none", tx |-> "none", pub |-> "none"]

Update(crates, f(_)) == row' = [c \in Crates |-> IF c \in crates THEN f(row[c]) ELSE row[c]]

\* errorPhase: which column a failed row blames.
ErrorPhase(s) ==
    IF s.address /\ s.published THEN "register"
    ELSE IF s.compiled THEN "deploy" ELSE "build"

BuildCell(s) ==
    CASE s.state = "building" -> "spinner"
      [] s.state = "error" /\ ErrorPhase(s) = "build" -> "fail"
      [] s.state = "waiting" -> "idle"
      [] OTHER -> "ok"

RegistryCell(s) ==
    IF s.deploying \/ s.registering THEN "spinner"
    ELSE IF s.state = "error" /\ ErrorPhase(s) \in {"deploy", "register"} THEN "fail"
    ELSE IF s.state \in {"cached", "done"} THEN "ok" ELSE "idle"

MetadataCell(s) ==
    IF s.publishing THEN "spinner"
    ELSE IF s.state = "cached" \/ s.published THEN "ok" ELSE "idle"

Cells(s) == <<BuildCell(s), RegistryCell(s), MetadataCell(s)>>

-----------------------------------------------------------------------------
(* deployContracts, by the events it emits.                                *)

Pipeline == Doing("pipeline") /\ layer <= Len(project.layers)
OuterSame == UNCHANGED <<flags, project, pc, resVars, installVars, manifest, exit>>

\* build-start and build-progress; `compiled` when the last unit has compiled.
BuildStart(c) ==
    /\ Pipeline /\ c \in CratesIn(layer) /\ work[c] = "todo"
    /\ work' = [work EXCEPT ![c] = "building"]
    /\ Update({c}, LAMBDA s : [s EXCEPT !.state = "building"])
    /\ OuterSame /\ UNCHANGED <<chain, layer, chunk, failure, prompt, signErr>>

BuildProgress(c, all) ==
    /\ Pipeline /\ work[c] = "building"
    /\ Update({c}, LAMBDA s : [s EXCEPT !.state = "building", !.compiled = all])
    /\ OuterSame /\ UNCHANGED <<chain, layer, work, chunk, failure, prompt, signErr>>

BuildDone(c) ==
    /\ Pipeline /\ work[c] = "building"
    /\ work' = [work EXCEPT ![c] = "built"]
    /\ Update({c}, LAMBDA s : [s EXCEPT !.state = "built", !.compiled = TRUE])
    /\ OuterSame /\ UNCHANGED <<chain, layer, chunk, failure, prompt, signErr>>

BuildError(c) ==
    /\ Pipeline /\ work[c] = "building"
    /\ work' = [work EXCEPT ![c] = "failed"]
    /\ failure' = [failure EXCEPT ![c] = "build"]
    /\ Update({c}, LAMBDA s : [s EXCEPT !.state = "error", !.error = "build"])
    /\ OuterSame /\ UNCHANGED <<chain, layer, chunk, prompt, signErr>>

\* check-cached: this bytecode is already registered for this account.
CheckCached(c) ==
    /\ Pipeline /\ work[c] = "built" /\ Package(c) # NoPackage
    /\ chain[DeployRegistry][Package(c)].owner = "me"
    /\ work' = [work EXCEPT ![c] = "cached"]
    /\ Update({c}, LAMBDA s : [s EXCEPT !.state = "cached", !.address = TRUE])
    /\ OuterSame /\ UNCHANGED <<chain, layer, chunk, failure, prompt, signErr>>

\* check-needs-deploy shows nothing.
CheckNeedsDeploy(c) ==
    /\ Pipeline /\ work[c] = "built"
    /\ work' = [work EXCEPT ![c] = "ready"]
    /\ OuterSame /\ UNCHANGED <<chain, layer, chunk, failure, row, prompt, signErr>>

\* deploy-register-start
ChunkStart(S) ==
    /\ Pipeline /\ chunk = NoChunk
    /\ S # {} /\ \A c \in S : work[c] = "ready"
    /\ chunk' = [NoChunk EXCEPT !.crates = S, !.tx = "open"]
    /\ signErr' = FALSE
    /\ row' = [c \in Crates |->
                 IF c \in S THEN [row[c] EXCEPT !.state = "deploying", !.deploying = TRUE,
                                                !.registering = Package(c) # NoPackage]
                 ELSE row[c]]
    /\ OuterSame /\ UNCHANGED <<chain, layer, work, failure, prompt>>

\* publish-start follows it, before anything of the chunk has settled.
PublishStart ==
    /\ Pipeline /\ chunk.tx = "open" /\ chunk.pub = "none" /\ chunk.sign = "none"
    /\ chunk' = [chunk EXCEPT !.pub = "open"]
    /\ Update(chunk.crates, LAMBDA s : [s EXCEPT !.state = "deploying", !.publishing = TRUE])
    /\ OuterSame /\ UNCHANGED <<chain, layer, work, failure, prompt, signErr>>

\* handleSigningEvent: only a session signer is wrapped; a refusal may be retried.
SignRequest ==
    /\ Pipeline /\ SignerSource = "session"
    /\ chunk.tx = "open" /\ chunk.sign \in {"none", "refused"}
    /\ chunk' = [chunk EXCEPT !.sign = "asked"]
    /\ prompt' = TRUE /\ signErr' = FALSE
    /\ OuterSame /\ UNCHANGED <<chain, layer, work, failure, row>>

SignComplete ==
    /\ Pipeline /\ chunk.sign = "asked"
    /\ chunk' = [chunk EXCEPT !.sign = "given"]
    /\ prompt' = FALSE
    /\ OuterSame /\ UNCHANGED <<chain, layer, work, failure, row, signErr>>

SignError ==
    /\ Pipeline /\ chunk.sign = "asked"
    /\ chunk' = [chunk EXCEPT !.sign = "refused"]
    /\ prompt' = FALSE /\ signErr' = TRUE
    /\ OuterSame /\ UNCHANGED <<chain, layer, work, failure, row>>

\* deploy-register-done: the registry contract takes a new version from the owner
\* only.  Assumption on the builder: its addresses name every crate of the chunk (a
\* crate without one would keep the row it has).
TxDone ==
    /\ Pipeline /\ chunk.tx = "open"
    /\ chunk.sign = IF SignerSource = "session" THEN "given" ELSE "none"
    /\ \A c \in chunk.crates : Package(c) \in Libs =>
           chain[DeployRegistry][Package(c)].owner # "other"
    /\ chain' = [chain EXCEPT ![DeployRegistry] = [p \in Libs |->
           IF \E c \in chunk.crates : Package(c) = p
           THEN [version |-> @[p].version + 1, owner |-> "me"] ELSE @[p]]]
    /\ chunk' = [chunk EXCEPT !.tx = "done"]
    /\ work' = [c \in Crates |-> IF c \in chunk.crates THEN "done" ELSE work[c]]
    /\ Update(chunk.crates, LAMBDA s : [s EXCEPT !.state = "done", !.address = TRUE,
                                               !.deploying = FALSE, !.registering = FALSE])
    /\ OuterSame /\ UNCHANGED <<layer, failure, prompt, signErr>>

\* deploy-register-error: the phone's own message is shown over the library's.
ChunkFailed ==
    LET why == IF signErr THEN "sign" ELSE "chain"
    IN  /\ work' = [c \in Crates |-> IF c \in chunk.crates THEN "failed" ELSE work[c]]
        /\ Update(chunk.crates, LAMBDA s :
               [s EXCEPT !.state = "error", !.error = why, !.deploying = FALSE,
                         !.publishing = FALSE, !.registering = FALSE])
        /\ failure' = [c \in Crates |->
               IF c \in chunk.crates
               THEN IF chunk.sign = "refused" THEN "sign" ELSE "chain"
               ELSE failure[c]]

TxFailed ==
    /\ Pipeline /\ chunk.tx = "open" /\ chunk.sign # "asked"
    /\ chunk' = [chunk EXCEPT !.tx = "failed"]
    /\ ChunkFailed
    /\ OuterSame /\ UNCHANGED <<chain, layer, prompt, signErr>>

\* Faulty variant: finished metadata counts as a finished contract.
PublishDoneMarksDone ==
    /\ Pipeline /\ chunk.pub = "open"
    /\ chunk' = [chunk EXCEPT !.pub = "done"]
    /\ Update(chunk.crates, LAMBDA s : [s EXCEPT !.state = "done", !.published = TRUE,
                                               !.publishing = FALSE])
    /\ OuterSame /\ UNCHANGED <<chain, layer, work, failure, prompt, signErr>>

\* publish-done keeps the row's state, which may be an error by now.
PublishDone ==
    /\ Pipeline /\ chunk.pub = "open"
    /\ chunk' = [chunk EXCEPT !.pub = "done"]
    /\ Update(chunk.crates, LAMBDA s : [s EXCEPT !.published = TRUE, !.publishing = FALSE])
    /\ OuterSame /\ UNCHANGED <<chain, layer, work, failure, prompt, signErr>>

\* The upload fails once the transaction is in a block.
PublishFailed ==
    /\ Pipeline /\ chunk.pub = "open" /\ chunk.tx = "done"
    /\ chunk' = [chunk EXCEPT !.pub = "failed"]
    /\ ChunkFailed
    /\ OuterSame /\ UNCHANGED <<chain, layer, prompt, signErr>>

ChunkEnds ==
    /\ Pipeline /\ chunk.tx \in {"done", "failed"} /\ chunk.pub # "open"
    /\ chunk' = NoChunk
    /\ OuterSame /\ UNCHANGED <<chain, layer, work, failure, row, prompt, signErr>>

NextLayer ==
    /\ Pipeline /\ chunk = NoChunk
    /\ \A c \in CratesIn(layer) : work[c] \in {"cached", "done", "failed"}
    /\ layer' = layer + 1
    /\ OuterSame /\ UNCHANGED <<chain, work, chunk, failure, row, prompt, signErr>>

\* Another account registers a package nobody owned yet.
OtherRegisters(r, l) ==
    /\ exit = "running" /\ chain[r][l].version = 0
    /\ chain' = [chain EXCEPT ![r][l] = [version |-> 1, owner |-> "other"]]
    /\ UNCHANGED <<flags, project, pc, resVars, deployVars, installVars, manifest, exit>>

-----------------------------------------------------------------------------
(* After the pipeline.                                                     *)

PipelineOver == Doing("pipeline") /\ layer > Len(project.layers)
DeploySuccess == \A c \in Crates : work[c] # "failed"

\* Faulty variant: crates that were already registered are not installed.
InstallLibrariesNew == {Package(c) : c \in {d \in Crates : work[d] = "done"}} \ {NoPackage}

\* installLibrariesFromDeploySummary
InstallLibraries == {Package(c) : c \in {d \in Crates : work[d] # "failed"}} \ {NoPackage}

\* The command ends; the wizard's step goes on to install what it deployed,
\* and throws when something failed or there is nothing to install.
DeployReturns ==
    /\ PipelineOver
    /\ CleanupOnce("deploy")
    /\ IF flags.cmd = "prestep"
       THEN IF DeploySuccess /\ InstallLibraries # {}
            THEN /\ pc' = "args" /\ exit' = exit
                 /\ LET order == SetToSeq(InstallLibraries)
                    IN  queue' = [i \in 1..Len(order) |-> [lib |-> order[i], ver |-> Latest]]
            ELSE pc' = "ended" /\ exit' = "threw" /\ UNCHANGED queue
       ELSE /\ pc' = "ended" /\ UNCHANGED queue
            /\ exit' = IF DeploySuccess THEN "ok" ELSE "failed"
    /\ UNCHANGED <<flags, project, registered, shutdown, raced, chain, deployVars,
                   lib, irow, results, errors, manifest>>

\* pipeline-error: deployContracts rejects.
PipelineError == Doing("pipeline") /\ Throw

-----------------------------------------------------------------------------
(* runContractInstall.                                                     *)

\* readCdmJson, assertSupportedCdmJson, the target and the requests.
StartInstall ==
    /\ (Doing("start") /\ flags.cmd = "install") \/ Doing("args")
    /\ LET args == IF pc = "args" THEN queue ELSE flags.args
       IN  IF \/ manifest.legacy
              \/ InstallRegistry = "none"
              \/ Requests(args) = <<>>
           THEN Refuse
           ELSE /\ pc' = "reader"
                /\ queue' = Requests(args)
                /\ irow' = [l \in Libs |-> "waiting"]
                /\ registered' = registered \cup {"install"}
                /\ UNCHANGED <<flags, project, res, ran, shutdown, raced, chain, deployVars,
                               lib, results, errors, manifest, exit>>

OpenReader ==
    /\ Doing("reader")
    /\ pc' = "registry" /\ Open("reader", "install")
    /\ UNCHANGED <<flags, project, ran, registered, shutdown, chain, deployVars, installVars,
                   manifest, exit>>

ReaderFails == Doing("reader") /\ Throw

\* getChainSpecData and createContractFromClient.
ConnectRegistry ==
    /\ Doing("registry")
    /\ pc' = "installing"
    /\ UNCHANGED <<flags, project, resVars, chain, deployVars, installVars, manifest, exit>>

RegistryFails == Doing("registry") /\ Throw

Installing == Doing("installing") /\ queue # <<>>
InstallSame == UNCHANGED <<flags, project, pc, resVars, chain, deployVars, manifest, exit>>

\* install-start and query-start
QueryStart ==
    /\ Installing /\ lib = "idle"
    /\ lib' = "querying"
    /\ irow' = [irow EXCEPT ![Head(queue).lib] = "querying"]
    /\ InstallSame /\ UNCHANGED <<queue, results, errors>>

Resolved(req) ==
    LET known == chain[InstallRegistry][req.lib].version
    IN  IF req.ver = Latest THEN known ELSE IF req.ver <= known THEN req.ver ELSE Absent

\* query-done and fetch-start: the version, address and metadata are known.
QueryDone ==
    /\ Installing /\ lib = "querying" /\ Resolved(Head(queue)) # Absent
    /\ lib' = "fetching"
    /\ irow' = [irow EXCEPT ![Head(queue).lib] = "fetching"]
    /\ results' = Append(results, [lib |-> Head(queue).lib, ver |-> Resolved(Head(queue))])
    /\ InstallSame /\ UNCHANGED <<queue, errors>>

InstallDone ==
    /\ Installing /\ lib = "fetching"
    /\ lib' = "idle" /\ queue' = Tail(queue)
    /\ irow' = [irow EXCEPT ![Head(queue).lib] = "done"]
    /\ InstallSame /\ UNCHANGED <<results, errors>>

\* install-error: the others go on; nothing is kept of this one.
InstallError ==
    /\ Installing /\ lib \in {"querying", "fetching"}
    /\ lib' = "idle" /\ queue' = Tail(queue)
    /\ irow' = [irow EXCEPT ![Head(queue).lib] = "error"]
    /\ results' = IF lib = "fetching" THEN Front(results) ELSE results
    /\ errors' = TRUE
    /\ InstallSame

\* pipeline-error: installContracts rejects, cdm.json is not written.
InstallThrows == Doing("installing") /\ Throw

\* The requests as they were: what is installed may have been asked for twice.
Asked == IF flags.cmd = "prestep"
         THEN [i \in 1..Len(results) |-> [results[i] EXCEPT !.ver = Latest]]
         ELSE Requests(flags.args)

RequestedVersion(l) == LET i == CHOOSE k \in 1..Len(Asked) :
                                  /\ Asked[k].lib = l
                                  /\ \A m \in 1..(k - 1) : Asked[m].lib # l
                       IN  Asked[i].ver

LastResult(l) == LET i == Max({k \in 1..Len(results) : results[k].lib = l}) IN results[i].ver
InstalledNow(l) == \E k \in 1..Len(results) : results[k].lib = l

\* Faulty variant: every requested library becomes a dependency, installed or not.
UpdatedAllRequests ==
    [manifest EXCEPT
           !.registry = InstallRegistry,
           !.deps = [l \in Libs |-> IF \E k \in 1..Len(Asked) : Asked[k].lib = l
                                    THEN RequestedVersion(l) ELSE @[l]],
           !.pins = [l \in Libs |-> IF InstalledNow(l) THEN LastResult(l) ELSE @[l]]]

\* updateCdmJsonAfterInstall
Updated ==
    [manifest EXCEPT
           !.registry = InstallRegistry,
           !.deps = [l \in Libs |-> IF InstalledNow(l) THEN RequestedVersion(l) ELSE @[l]],
           !.pins = [l \in Libs |-> IF InstalledNow(l) THEN LastResult(l) ELSE @[l]]]

\* cdm.json is written whatever was installed; then the wizard goes on to the
\* frontend, or throws when a library is missing.
InstallReturns ==
    /\ Doing("installing") /\ queue = <<>>
    /\ manifest' = Updated
    /\ CleanupOnce("install")
    /\ pc' = "ended"
    /\ exit' = IF ~errors THEN "ok" ELSE IF flags.cmd = "prestep" THEN "threw" ELSE "failed"
    /\ UNCHANGED <<flags, project, registered, shutdown, raced, chain, deployVars, installVars>>

-----------------------------------------------------------------------------
Init ==
    /\ \E s \in Starts : /\ flags = s.flags /\ project = s.project
                         /\ manifest = s.manifest /\ chain = s.chain
    /\ pc = "start" /\ exit = "running"
    /\ res = [r \in {"signer", "client", "reader"} |-> "none"]
    /\ ran = {} /\ registered = {} /\ raced = {} /\ shutdown = FALSE
    /\ layer = 1 /\ chunk = NoChunk
    /\ work = [c \in Crates |-> "todo"]
    /\ failure = [c \in Crates |-> "none"]
    /\ row = [c \in Crates |-> NewRow]
    /\ prompt = FALSE /\ signErr = FALSE
    /\ queue = <<>> /\ lib = "idle" /\ results = <<>> /\ errors = FALSE
    /\ irow = [l \in Libs |-> "waiting"]

Before == StartDeploy \/ ResolveSigner \/ SignerFails \/ ConnectChains \/ ConnectFails
          \/ CheckOwnership \/ OwnershipFails

Builder ==
    \/ \E c \in Crates : \/ BuildStart(c) \/ BuildDone(c) \/ BuildError(c)
                         \/ CheckCached(c) \/ CheckNeedsDeploy(c)
                         \/ \E all \in BOOLEAN : BuildProgress(c, all)
    \/ \E S \in SUBSET Crates : ChunkStart(S)
    \/ PublishStart \/ SignRequest \/ SignComplete \/ SignError
    \/ TxDone \/ TxFailed \/ PublishDone \/ PublishFailed
    \/ ChunkEnds \/ NextLayer \/ DeployReturns \/ PipelineError

Install == StartInstall \/ OpenReader \/ ReaderFails \/ ConnectRegistry \/ RegistryFails
           \/ QueryStart \/ QueryDone \/ InstallDone \/ InstallError \/ InstallThrows
           \/ InstallReturns

Others == Shutdown \/ \E r \in Registries, l \in Libs : OtherRegisters(r, l)

Next == Before \/ Builder \/ Install \/ Others

Spec == Init /\ [][Next]_vars

-----------------------------------------------------------------------------
(* Properties.                                                             *)

\* When deployContracts has reported every layer, the table is settled: no
\* row spins, no phone prompt is open, a crate that failed shows its own
\* failure in exactly one column, with the message of its own chunk, and a
\* crate that did not fail shows none.  The transaction and the metadata
\* upload of a chunk report in either order, and a signing error of one chunk
\* must not be blamed for the next one's failure (contractPipelineStatus.ts).
RowsSettle ==
    PipelineOver =>
        /\ ~prompt
        /\ \A c \in Crates :
             LET marks == {i \in 1..3 : Cells(row[c])[i] = "fail"}
             IN  /\ \A i \in 1..3 : Cells(row[c])[i] # "spinner"
                 /\ Cardinality(marks) = IF work[c] = "failed" THEN 1 ELSE 0
                 /\ work[c] = "failed" => row[c].error = failure[c]

\* A wizard that goes on to the frontend has, in the cdm.json it will be built
\* against, every package of its contracts, pinned to the newest version in
\* the registry it deployed to, which this account owns: the deploy step and
\* the install step agree, whoever else registers packages meanwhile
\* (deploy/contracts.ts, updateCdmJsonAfterInstall).
FrontendSeesDeployed ==
    flags.cmd = "prestep" /\ exit = "ok" =>
        \A p \in Packages :
            /\ chain[DeployRegistry][p].owner = "me"
            /\ manifest.registry = DeployRegistry
            /\ manifest.pins[p] = chain[DeployRegistry][p].version
            /\ manifest.deps[p] = Latest

\* cdm.json never asks for one version and pins another, and never asks for a
\* library it has no contract of, unless it already did before or the library
\* was given twice on the command line (requests.find takes the first, the
\* last result wins: contract.ts:544).
Twice(l) == Cardinality({k \in DOMAIN flags.args : flags.args[k].lib = l}) > 1
PinsAgree ==
    [][manifest' # manifest =>
        \A l \in Libs :
            LET was == manifest.deps[l]
                want == manifest'.deps[l]
                pin == manifest'.pins[l]
            IN  Twice(l) \/ want = Absent \/ want = was
                \/ (pin # Absent /\ want \in {Latest, pin})]_vars

\* Once the command is over it holds nothing open that it opened itself,
\* except what was still being opened when a signal ran its cleanup; and the
\* signer the wizard lends is never destroyed, for the frontend deploy signs
\* with it next (cleanupOnce, contract.ts:409-424, 635-645).
ReleasedUnlessRaced ==
    /\ pc = "ended" => \A r \in {"signer", "client", "reader"} :
           res[r] = "open" => r \in raced \/ (r = "signer" /\ ~OwnsSigner)
    /\ raced # {} => shutdown
    /\ ~OwnsSigner => res.signer # "closed"

=============================================================================
