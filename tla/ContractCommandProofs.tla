------------------------ MODULE ContractCommandProofs -----------------------
(***************************************************************************)
(* Proofs about ContractCommand, for any packages, projects, command lines *)
(* and registry contents: what the command opened it releases, the status  *)
(* table settles, the frontend is built against the contracts that were    *)
(* just deployed, and cdm.json pins what it asks for.                      *)
(***************************************************************************)
EXTENDS ContractCommand, FiniteSetTheorems, WellFoundedInduction, TLAPS

\* The command line and the project are what the command was started with.
InputInv == flags \in CommandLines /\ IsProject(project)

-----------------------------------------------------------------------------
(* Resources.                                                              *)

Names == {"signer", "client", "reader"}
Owner(r) == IF r = "reader" THEN "install" ELSE "deploy"
Lent(r) == r = "signer" /\ ~OwnsSigner

DeployPhase == {"signer", "client", "ownership", "pipeline"}
InstallPhase == {"reader", "registry", "installing"}

\* Where the command is once the resource has been opened.
Holding(r) ==
    CASE r = "signer" -> {"client", "ownership", "pipeline"}
      [] r = "client" -> {"ownership", "pipeline"}
      [] r = "reader" -> {"registry", "installing"}

\* Something open is lent, was opened too late, or waits for a cleanup that is
\* registered and has not run; a cleanup that ran early was a signal's.
ReleaseInv ==
    /\ res \in [Names -> {"none", "open", "closed"}]
    /\ ran \subseteq {"deploy", "install"} /\ registered \subseteq {"deploy", "install"}
    /\ pc \in DeployPhase => "deploy" \in registered
    /\ pc \in InstallPhase => "install" \in registered
    /\ "deploy" \in ran => shutdown \/ pc \in InstallPhase \cup {"args", "ended"}
    /\ "install" \in ran => shutdown \/ pc = "ended"
    /\ raced # {} => shutdown
    /\ \A r \in Names : res[r] = "open" =>
           r \in raced \/ Lent(r) \/ (Owner(r) \notin ran /\ pc \in Holding(r))
    /\ ~OwnsSigner => res.signer # "closed"

-----------------------------------------------------------------------------
(* The status table.                                                       *)

Works == {"todo", "building", "built", "cached", "ready", "done", "failed"}
Settled == {"cached", "done", "failed"}
Failures == {"none", "build", "sign", "chain"}
RowStates == {"waiting", "building", "built", "cached", "deploying", "done", "error"}
RowSet == [state : RowStates, error : Failures, address : BOOLEAN, published : BOOLEAN,
           compiled : BOOLEAN, deploying : BOOLEAN, registering : BOOLEAN,
           publishing : BOOLEAN]
ChunkSet == [crates : SUBSET Crates, sign : {"none", "asked", "given", "refused"},
             tx : {"none", "open", "done", "failed"},
             pub : {"none", "open", "done", "failed"}]

TableType ==
    /\ layer \in Nat \ {0}
    /\ work \in [Crates -> Works]
    /\ failure \in [Crates -> Failures]
    /\ row \in [Crates -> RowSet]
    /\ chunk \in ChunkSet
    /\ prompt \in BOOLEAN /\ signErr \in BOOLEAN

\* A crate in progress is of this layer; the layers before it have settled.
LayerInv ==
    /\ \A c \in Crates : work[c] \in {"building", "built", "ready"} =>
           layer <= Len(project.layers) /\ c \in CratesIn(layer)
    /\ \A i \in 1..Len(project.layers) : i < layer => \A c \in CratesIn(i) : work[c] \in Settled

\* The chunk in flight says how far its crates are, and whose the phone's last
\* answer is.
ChunkInv ==
    /\ chunk.tx = "none" => chunk = NoChunk
    /\ chunk # NoChunk => layer <= Len(project.layers)
    /\ chunk.pub = "failed" => chunk.tx = "done"
    /\ chunk.sign = "asked" => chunk.tx = "open"
    /\ \A c \in chunk.crates :
           work[c] = IF chunk.tx = "open" THEN "ready"
                     ELSE IF chunk.tx = "failed" \/ chunk.pub = "failed" THEN "failed" ELSE "done"
    /\ prompt <=> chunk.sign = "asked"
    /\ chunk # NoChunk => (signErr <=> chunk.sign = "refused")

\* Each row shows the work on its crate; only the chunk in flight spins.
Still(s) == ~s.deploying /\ ~s.registering /\ ~s.publishing
RowFits(w, s, f, flying, pub) ==
    /\ w = "todo" => s.state = "waiting" /\ Still(s)
    /\ w = "building" => s.state = "building" /\ Still(s)
    /\ w \in {"built", "ready"} /\ ~flying => s.state = "built" /\ Still(s)
    /\ w = "ready" /\ flying => s.state = "deploying" /\ (s.publishing => pub = "open")
    /\ w = "cached" => s.state = "cached" /\ Still(s)
    /\ w = "done" => /\ s.state = "done" /\ ~s.deploying /\ ~s.registering
                     /\ s.publishing => flying /\ pub = "open"
    /\ w = "failed" => s.state = "error" /\ Still(s) /\ s.error = f
RowOk(c) == RowFits(work[c], row[c], failure[c], c \in chunk.crates, chunk.pub)
RowInv == \A c \in Crates : RowOk(c)

-----------------------------------------------------------------------------
(* The registry and cdm.json.                                              *)

Mine(p) == chain[DeployRegistry][p].owner = "me"

\* The command has a target; what it has deployed is this account's.
TargetInv ==
    /\ chain \in Chains /\ manifest \in Manifests
    /\ pc \in DeployPhase => flags.cmd # "install"
    /\ flags.cmd # "install" /\ pc \notin {"start", "ended"} => DeployRegistry \in Registries
    /\ pc \in InstallPhase => InstallRegistry \in Registries /\ flags.cmd # "deploy"
    /\ pc = "args" => flags.cmd = "prestep"
    /\ DeployRegistry \in Registries => \A c \in Crates :
           work[c] \in {"done", "cached"} /\ Package(c) # NoPackage => Mine(Package(c))
    /\ DeployRegistry \notin Registries => \A c \in Crates : work[c] = "todo"

Queued(p) == \E k \in 1..Len(queue) : queue[k].lib = p

\* Requests and results of the installation: every package of the wizard's
\* contracts is among them, and a result answers its request.
InstallInv ==
    /\ queue \in Seq(Request) /\ results \in Seq(Request)
    /\ lib \in {"idle", "querying", "fetching"} /\ errors \in BOOLEAN
    /\ lib # "idle" \/ pc = "args" => queue # <<>>
    /\ lib = "fetching" => results # <<>> /\ results[Len(results)].lib = Head(queue).lib
    /\ pc \notin {"installing", "ended"} => results = <<>> /\ lib = "idle" /\ ~errors
    /\ \A k \in 1..Len(results) : results[k].ver > 0
    /\ flags.cmd = "prestep" /\ pc \in InstallPhase \cup {"args"} =>
           /\ \A p \in Packages : Mine(p)
           /\ ~errors => \A p \in Packages : Queued(p) \/ InstalledNow(p)
           /\ \A k \in 1..Len(queue) : queue[k].ver = Latest
           /\ \A k \in 1..Len(results) : results[k].lib \in Packages =>
                  results[k].ver = chain[DeployRegistry][results[k].lib].version
    /\ flags.cmd = "install" /\ pc \in InstallPhase =>
           /\ \A k \in 1..Len(queue) :
                  \E j \in 1..Len(Requests(flags.args)) : Requests(flags.args)[j] = queue[k]
           /\ \A k \in 1..Len(results) : \E j \in 1..Len(Requests(flags.args)) :
                  /\ Requests(flags.args)[j].lib = results[k].lib
                  /\ Requests(flags.args)[j].ver \in {Latest, results[k].ver}

\* The command has ended when it has an exit code.
EndInv ==
    /\ exit = "running" <=> pc # "ended"
    /\ FrontendSeesDeployed

TableInv == InputInv /\ TableType /\ LayerInv /\ ChunkInv /\ RowInv

IInv == TableInv /\ TargetInv /\ InstallInv /\ EndInv

-----------------------------------------------------------------------------
(* What the steps leave alone.                                             *)

\* An event of the CDM builder.
TableStep ==
    \/ \E c \in Crates : \/ BuildStart(c) \/ BuildDone(c) \/ BuildError(c)
                         \/ CheckCached(c) \/ CheckNeedsDeploy(c)
                         \/ \E all \in BOOLEAN : BuildProgress(c, all)
    \/ \E S \in SUBSET Crates : ChunkStart(S)
    \/ PublishStart \/ SignRequest \/ SignComplete \/ SignError
    \/ TxDone \/ TxFailed \/ PublishDone \/ PublishFailed
    \/ ChunkEnds \/ NextLayer

\* An event of the installer.
QueueStep == QueryStart \/ QueryDone \/ InstallDone \/ InstallError

\* Another account's registration.
OtherStep == \E r \in Registries, l \in Libs : OtherRegisters(r, l)

\* A step of the command itself, or a signal.
CommandStep == Before \/ DeployReturns \/ PipelineError \/ StartInstall \/ OpenReader
               \/ ReaderFails \/ ConnectRegistry \/ RegistryFails \/ InstallThrows
               \/ InstallReturns \/ Shutdown

\* These are all the steps.
LEMMA StepKinds == Next <=> TableStep \/ QueueStep \/ OtherStep \/ CommandStep
  BY DEF Next, Builder, Install, Others, TableStep, QueueStep, OtherStep, CommandStep

\* A builder event touches nothing but the table and the chain.
LEMMA TableFrame ==
    ASSUME TableStep
    PROVE  UNCHANGED <<flags, project, pc, resVars, installVars, manifest, exit>>
  BY DEF TableStep, BuildStart, BuildDone, BuildError, CheckCached, CheckNeedsDeploy,
         BuildProgress, ChunkStart, PublishStart, SignRequest, SignComplete, SignError, TxDone,
         TxFailed, PublishDone, PublishFailed, ChunkEnds, NextLayer, OuterSame

\* An installer event touches nothing but its own variables.
LEMMA QueueFrame ==
    ASSUME QueueStep
    PROVE  UNCHANGED <<flags, project, pc, resVars, chain, deployVars, manifest, exit>>
  BY DEF QueueStep, QueryStart, QueryDone, InstallDone, InstallError, InstallSame

\* A registration touches nothing but the chain.
LEMMA OtherFrame ==
    ASSUME OtherStep
    PROVE  UNCHANGED <<flags, project, pc, resVars, deployVars, installVars, manifest, exit>>
  BY DEF OtherStep, OtherRegisters

\* A throw, and a refusal, leave the table, the queue, the chain and cdm.json.
LEMMA ThrowFrame ==
    ASSUME Throw \/ Refuse
    PROVE  /\ UNCHANGED <<flags, project, registered, shutdown, raced, chain, deployVars,
                         installVars, manifest>>
           /\ pc' = "ended" /\ exit' = "threw"
  BY DEF Throw, Refuse, resVars

\* A step of the command leaves the inputs, the table and the chain.
LEMMA CommandFrame ==
    ASSUME CommandStep
    PROVE  UNCHANGED <<flags, project, chain, deployVars>>
  BY ThrowFrame
     DEF CommandStep, Before, StartDeploy, ResolveSigner, SignerFails, ConnectChains,
         ConnectFails, CheckOwnership, OwnershipFails, DeployReturns, PipelineError,
         StartInstall, OpenReader, ReaderFails, ConnectRegistry, RegistryFails,
         InstallThrows, InstallReturns, Shutdown

\* No step changes the command line or the project.
LEMMA InputsKept ==
    ASSUME [Next]_vars
    PROVE  UNCHANGED <<flags, project>>
  BY StepKinds, TableFrame, QueueFrame, OtherFrame, CommandFrame DEF vars

-----------------------------------------------------------------------------
(* What is open is released.                                               *)

\* Nothing is open before the command starts.
LEMMA InitRelease == Init => ReleaseInv
  BY DEF Init, ReleaseInv, Names, DeployPhase, InstallPhase, Lent

\* Steps that leave the resources and the place.
LEMMA QuietRelease ==
    ASSUME ReleaseInv, UNCHANGED <<flags, pc, resVars>>
    PROVE  ReleaseInv'
  BY DEF ReleaseInv, resVars, Lent, OwnsSigner, Borrowed

\* A cleanup closes what its run has opened and not lent.
LEMMA CleanupReleases ==
    ASSUME ReleaseInv, NEW who \in {"deploy", "install"}, CleanupOnce(who),
           UNCHANGED <<flags, raced>>
    PROVE  /\ res' \in [Names -> {"none", "open", "closed"}]
           /\ ran' = ran \cup {who}
           /\ \A r \in Names : res'[r] = "open" => res[r] = "open"
           /\ \A r \in Names : Owner(r) = who /\ res'[r] = "open" => r \in raced \/ Lent(r)
           /\ ~OwnsSigner => res'.signer # "closed"
  <1>1. CASE who \in ran
    BY <1>1 DEF ReleaseInv, CleanupOnce
  <1>2. CASE who \notin ran
    <2>1. res' = [r \in Names |-> IF r \in Resources(who) /\ res[r] = "open"
                                  THEN "closed" ELSE res[r]]
      BY <1>2 DEF ReleaseInv, CleanupOnce, Closed
    <2>2. \A r \in Names : Owner(r) = who => r \in Resources(who) \/ Lent(r)
      BY DEF Owner, Resources, Names, Lent
    <2>3. ~OwnsSigner => "signer" \notin Resources(who)
      BY DEF Resources
    <2>4. ran' = ran \cup {who}
      BY DEF CleanupOnce
    <2> QED
      BY <2>1, <2>2, <2>3, <2>4 DEF ReleaseInv, Names
  <1> QED
    BY <1>1, <1>2

\* An end of the command: its cleanup has run, so what is open is lent or late.
LEMMA EndReleases ==
    ASSUME ReleaseInv, CleanupOnce(Who), pc \in DeployPhase \cup InstallPhase,
           UNCHANGED <<flags, registered, shutdown, raced>>, pc' = "ended"
    PROVE  ReleaseInv'
  <1>1. Who \in {"deploy", "install"}
    BY DEF Who
  <1>2. /\ res' \in [Names -> {"none", "open", "closed"}]
        /\ ran' = ran \cup {Who}
        /\ \A r \in Names : res'[r] = "open" => res[r] = "open"
        /\ \A r \in Names : Owner(r) = Who /\ res'[r] = "open" => r \in raced \/ Lent(r)
        /\ ~OwnsSigner => res'.signer # "closed"
    BY <1>1, CleanupReleases
  <1>3. \A r \in Names : pc \in Holding(r) => Owner(r) = Who
    BY DEF Names, Holding, Owner, Who
  <1>4. \A r \in Names : res'[r] = "open" => r \in raced \/ Lent(r)
    BY <1>2, <1>3 DEF ReleaseInv
  <1>5. \A r \in Names : Lent(r)' <=> Lent(r)
    BY DEF Lent, OwnsSigner, Borrowed
  <1>6. OwnsSigner' <=> OwnsSigner
    BY DEF OwnsSigner, Borrowed
  <1> QED
    BY <1>1, <1>2, <1>4, <1>5, <1>6 DEF ReleaseInv, DeployPhase, InstallPhase

\* A throw runs the cleanup in its finally block.
LEMMA ThrowReleases ==
    ASSUME ReleaseInv, Throw, pc \in DeployPhase \cup InstallPhase
    PROVE  ReleaseInv'
  BY EndReleases DEF Throw

\* A refusal happens where nothing of the run is open yet.
LEMMA RefuseReleases ==
    ASSUME ReleaseInv, Refuse, pc \in {"start", "args"}
    PROVE  ReleaseInv'
  <1>1. \A r \in Names : pc \notin Holding(r)
    BY DEF Names, Holding
  <1>2. \A r \in Names : Lent(r)' <=> Lent(r)
    BY DEF Lent, OwnsSigner, Borrowed, Refuse
  <1>3. OwnsSigner' <=> OwnsSigner
    BY DEF OwnsSigner, Borrowed, Refuse
  <1> QED
    BY <1>1, <1>2, <1>3 DEF ReleaseInv, Refuse, resVars, DeployPhase, InstallPhase

\* An awaited open: late when its cleanup has already run.
LEMMA OpenReleases ==
    ASSUME ReleaseInv, NEW r \in Names, Open(r, Owner(r)), pc' \in Holding(r),
           UNCHANGED <<flags, ran, registered, shutdown>>,
           \/ pc \in DeployPhase /\ pc' \in DeployPhase
           \/ pc \in InstallPhase /\ pc' \in InstallPhase,
           \A q \in Names : pc \in Holding(q) => pc' \in Holding(q)
    PROVE  ReleaseInv'
  <1>1. /\ res' \in [Names -> {"none", "open", "closed"}]
        /\ \A q \in Names \ {r} : res'[q] = res[q]
        /\ res'[r] = "open"
    BY DEF ReleaseInv, Open
  <1>2. raced' = IF Owner(r) \in ran THEN raced \cup {r} ELSE raced
    BY DEF Open
  <1>3. Owner(r) \in ran => shutdown
    BY DEF ReleaseInv, Owner, Names, Holding, DeployPhase, InstallPhase
  <1>4. \A q \in Names : Lent(q)' <=> Lent(q)
    BY DEF Lent, OwnsSigner, Borrowed
  <1>5. OwnsSigner' <=> OwnsSigner
    BY DEF OwnsSigner, Borrowed
  <1>6. \A q \in Names : res'[q] = "open" =>
            q \in raced' \/ Lent(q) \/ (Owner(q) \notin ran /\ pc' \in Holding(q))
    BY <1>1, <1>2 DEF ReleaseInv
  <1>7. ~OwnsSigner => res'.signer # "closed"
    BY <1>1 DEF ReleaseInv, Names
  <1>8. /\ "deploy" \in ran => shutdown \/ pc' \in InstallPhase \cup {"args", "ended"}
        /\ "install" \in ran => shutdown \/ pc' = "ended"
        /\ pc' \in DeployPhase => "deploy" \in registered
        /\ pc' \in InstallPhase => "install" \in registered
    BY DEF ReleaseInv, DeployPhase, InstallPhase
  <1> QED
    BY <1>1, <1>2, <1>3, <1>4, <1>5, <1>6, <1>7, <1>8 DEF ReleaseInv

\* A step that only moves on inside its phase.
LEMMA MoveReleases ==
    ASSUME ReleaseInv, UNCHANGED <<flags, resVars>>,
           \/ pc \in DeployPhase /\ pc' \in DeployPhase
           \/ pc \in InstallPhase /\ pc' \in InstallPhase,
           \A q \in Names : pc \in Holding(q) => pc' \in Holding(q)
    PROVE  ReleaseInv'
  <1>1. \A q \in Names : Lent(q)' <=> Lent(q)
    BY DEF Lent, OwnsSigner, Borrowed
  <1>2. OwnsSigner' <=> OwnsSigner
    BY DEF OwnsSigner, Borrowed
  <1> QED
    BY <1>1, <1>2 DEF ReleaseInv, resVars, DeployPhase, InstallPhase

\* The steps of the command up to the pipeline.
LEMMA BeforeReleases ==
    ASSUME ReleaseInv, Before
    PROVE  ReleaseInv'
  <1> USE DEF Doing
  <1>1. CASE StartDeploy
    <2>1. CASE Refuse
      BY <1>1, <2>1, RefuseReleases DEF StartDeploy
    <2>2. CASE ~Refuse
      <3>1. /\ pc = "start" /\ pc' = "signer"
            /\ registered' = registered \cup {"deploy"}
            /\ res' = IF OwnsSigner THEN res ELSE [res EXCEPT !.signer = "open"]
            /\ UNCHANGED <<flags, ran, shutdown, raced>>
        BY <1>1, <2>2 DEF StartDeploy
      <3>2. \A q \in Names : Lent(q)' <=> Lent(q)
        BY <3>1 DEF Lent, OwnsSigner, Borrowed
      <3>3. OwnsSigner' <=> OwnsSigner
        BY <3>1 DEF OwnsSigner, Borrowed
      <3>4. res' \in [Names -> {"none", "open", "closed"}]
        BY <3>1 DEF ReleaseInv, Names
      <3>5. \A q \in Names : res'[q] = "open" => res[q] = "open" \/ Lent(q)
        BY <3>1 DEF ReleaseInv, Names, Lent
      <3>6. \A q \in Names : pc \notin Holding(q)
        BY <3>1 DEF Names, Holding
      <3>7. ~OwnsSigner => res'.signer # "closed"
        BY <3>1 DEF ReleaseInv, Names
      <3> QED
        BY <3>1, <3>2, <3>3, <3>4, <3>5, <3>6, <3>7
           DEF ReleaseInv, DeployPhase, InstallPhase
    <2> QED
      BY <2>1, <2>2
  <1>2. CASE ResolveSigner
    <2>1. pc = "signer" /\ pc' = "client" /\ UNCHANGED <<flags, ran, registered, shutdown>>
      BY <1>2 DEF ResolveSigner
    <2>2. \A q \in Names : pc \in Holding(q) => pc' \in Holding(q)
      BY <2>1 DEF Names, Holding
    <2>3. CASE OwnsSigner
      <3>1. Open("signer", Owner("signer"))
        BY <1>2, <2>3 DEF ResolveSigner, Owner
      <3> QED
        BY <2>1, <2>2, <3>1, OpenReleases DEF Names, Holding, DeployPhase
    <2>4. CASE ~OwnsSigner
      BY <1>2, <2>1, <2>2, <2>4, MoveReleases DEF ResolveSigner, resVars, DeployPhase
    <2> QED
      BY <2>3, <2>4
  <1>3. CASE SignerFails \/ ConnectFails \/ OwnershipFails
    BY <1>3, ThrowReleases DEF SignerFails, ConnectFails, OwnershipFails, DeployPhase
  <1>4. CASE ConnectChains
    <2>1. /\ pc = "client" /\ pc' = "ownership" /\ UNCHANGED <<flags, ran, registered, shutdown>>
          /\ Open("client", Owner("client"))
      BY <1>4 DEF ConnectChains, Owner
    <2>2. \A q \in Names : pc \in Holding(q) => pc' \in Holding(q)
      BY <2>1 DEF Names, Holding
    <2> QED
      BY <2>1, <2>2, OpenReleases DEF Names, Holding, DeployPhase
  <1>5. CASE CheckOwnership
    <2>1. pc = "ownership" /\ pc' = "pipeline" /\ UNCHANGED <<flags, resVars>>
      BY <1>5 DEF CheckOwnership
    <2>2. \A q \in Names : pc \in Holding(q) => pc' \in Holding(q)
      BY <2>1 DEF Names, Holding
    <2> QED
      BY <2>1, <2>2, MoveReleases DEF DeployPhase
  <1> QED
    BY <1>1, <1>2, <1>3, <1>4, <1>5 DEF Before

\* The end of the deploy: it is over, or the wizard goes on to install.
LEMMA DeployReturnsReleases ==
    ASSUME ReleaseInv, DeployReturns
    PROVE  ReleaseInv'
  <1>1. /\ pc = "pipeline" /\ CleanupOnce("deploy") /\ pc' \in {"args", "ended"}
        /\ UNCHANGED <<flags, registered, shutdown, raced>>
    BY DEF DeployReturns, PipelineOver, Doing
  <1>2. /\ res' \in [Names -> {"none", "open", "closed"}]
        /\ ran' = ran \cup {"deploy"}
        /\ \A r \in Names : res'[r] = "open" => res[r] = "open"
        /\ \A r \in Names : Owner(r) = "deploy" /\ res'[r] = "open" => r \in raced \/ Lent(r)
        /\ ~OwnsSigner => res'.signer # "closed"
    BY <1>1, CleanupReleases
  <1>3. \A r \in Names : pc \in Holding(r) => Owner(r) = "deploy"
    BY <1>1 DEF Names, Holding, Owner
  <1>4. \A r \in Names : res'[r] = "open" => r \in raced \/ Lent(r)
    BY <1>2, <1>3 DEF ReleaseInv
  <1>5. \A r \in Names : Lent(r)' <=> Lent(r)
    BY <1>1 DEF Lent, OwnsSigner, Borrowed
  <1>6. OwnsSigner' <=> OwnsSigner
    BY <1>1 DEF OwnsSigner, Borrowed
  <1>7. "install" \in ran => shutdown
    BY <1>1 DEF ReleaseInv
  <1> QED
    BY <1>1, <1>2, <1>4, <1>5, <1>6, <1>7 DEF ReleaseInv, DeployPhase, InstallPhase

\* The steps of the installation.
LEMMA InstallReleases ==
    ASSUME ReleaseInv, StartInstall \/ OpenReader \/ ReaderFails \/ ConnectRegistry
                       \/ RegistryFails \/ InstallThrows \/ InstallReturns
    PROVE  ReleaseInv'
  <1> USE DEF Doing
  <1>1. CASE StartInstall
    <2>1. CASE Refuse
      BY <1>1, <2>1, RefuseReleases DEF StartInstall
    <2>2. CASE ~Refuse
      <3>1. /\ pc \in {"start", "args"} /\ pc' = "reader"
            /\ registered' = registered \cup {"install"}
            /\ UNCHANGED <<flags, res, ran, shutdown, raced>>
        BY <1>1, <2>2 DEF StartInstall
      <3>2. \A q \in Names : Lent(q)' <=> Lent(q)
        BY <3>1 DEF Lent, OwnsSigner, Borrowed
      <3>3. OwnsSigner' <=> OwnsSigner
        BY <3>1 DEF OwnsSigner, Borrowed
      <3>4. \A q \in Names : pc \notin Holding(q)
        BY <3>1 DEF Names, Holding
      <3> QED
        BY <3>1, <3>2, <3>3, <3>4 DEF ReleaseInv, DeployPhase, InstallPhase
    <2> QED
      BY <2>1, <2>2
  <1>2. CASE OpenReader
    <2>1. /\ pc = "reader" /\ pc' = "registry" /\ UNCHANGED <<flags, ran, registered, shutdown>>
          /\ Open("reader", Owner("reader"))
      BY <1>2 DEF OpenReader, Owner
    <2>2. \A q \in Names : pc \in Holding(q) => pc' \in Holding(q)
      BY <2>1 DEF Names, Holding
    <2> QED
      BY <2>1, <2>2, OpenReleases DEF Names, Holding, InstallPhase
  <1>3. CASE ReaderFails \/ RegistryFails \/ InstallThrows
    BY <1>3, ThrowReleases DEF ReaderFails, RegistryFails, InstallThrows, InstallPhase
  <1>4. CASE ConnectRegistry
    <2>1. pc = "registry" /\ pc' = "installing" /\ UNCHANGED <<flags, resVars>>
      BY <1>4 DEF ConnectRegistry
    <2>2. \A q \in Names : pc \in Holding(q) => pc' \in Holding(q)
      BY <2>1 DEF Names, Holding
    <2> QED
      BY <2>1, <2>2, MoveReleases DEF InstallPhase
  <1>5. CASE InstallReturns
    <2>1. /\ pc = "installing" /\ CleanupOnce("install") /\ pc' = "ended"
          /\ UNCHANGED <<flags, registered, shutdown, raced>>
      BY <1>5 DEF InstallReturns
    <2>2. Who = "install"
      BY <2>1 DEF Who
    <2> QED
      BY <2>1, <2>2, EndReleases DEF InstallPhase
  <1> QED
    BY <1>1, <1>2, <1>3, <1>4, <1>5

\* A signal closes what every registered and waiting cleanup can see.
LEMMA ShutdownReleases ==
    ASSUME ReleaseInv, Shutdown
    PROVE  ReleaseInv'
  <1> DEFINE shut == UNION {Resources(w) : w \in registered \ ran}
  <1>1. /\ res' = [r \in Names |-> IF r \in shut /\ res[r] = "open" THEN "closed" ELSE res[r]]
        /\ ran' = ran \cup registered /\ shutdown' = TRUE
        /\ UNCHANGED <<flags, pc, registered, raced>>
    BY DEF Shutdown, Closed, ReleaseInv
  <1>2. \A r \in Names : pc \in Holding(r) => Owner(r) \in registered
    BY DEF ReleaseInv, Names, Holding, Owner, DeployPhase, InstallPhase
  <1>3. \A r \in Names : Owner(r) \in registered \ ran => r \in shut \/ Lent(r)
    BY DEF Names, Owner, Resources, Lent
  <1>4. ~OwnsSigner => "signer" \notin shut
    BY DEF Resources
  <1>5. \A q \in Names : Lent(q)' <=> Lent(q)
    BY <1>1 DEF Lent, OwnsSigner, Borrowed
  <1>6. OwnsSigner' <=> OwnsSigner
    BY <1>1 DEF OwnsSigner, Borrowed
  <1> HIDE DEF shut
  <1>7. \A r \in Names : res'[r] = "open" => r \in raced \/ Lent(r)
    BY <1>1, <1>2, <1>3 DEF ReleaseInv
  <1>8. ~OwnsSigner => res'.signer # "closed"
    BY <1>1, <1>4 DEF ReleaseInv, Names
  <1>9. res' \in [Names -> {"none", "open", "closed"}]
    BY <1>1 DEF ReleaseInv
  <1> QED
    BY <1>1, <1>5, <1>6, <1>7, <1>8, <1>9 DEF ReleaseInv

\* Every step preserves ReleaseInv.
LEMMA NextRelease ==
    ASSUME ReleaseInv, [Next]_vars
    PROVE  ReleaseInv'
  <1>1. CASE TableStep
    BY <1>1, TableFrame, QuietRelease
  <1>2. CASE QueueStep
    BY <1>2, QueueFrame, QuietRelease
  <1>3. CASE OtherStep
    BY <1>3, OtherFrame, QuietRelease
  <1>4. CASE PipelineError
    BY <1>4, ThrowReleases DEF PipelineError, Doing, DeployPhase
  <1>5. CASE CommandStep /\ ~PipelineError
    BY <1>5, BeforeReleases, DeployReturnsReleases, InstallReleases, ShutdownReleases
       DEF CommandStep
  <1>6. CASE UNCHANGED vars
    BY <1>6, QuietRelease DEF vars
  <1> QED
    BY <1>1, <1>2, <1>3, <1>4, <1>5, <1>6, StepKinds

\* Once the command is over it holds nothing open that it opened itself, except
\* what was still being opened when a signal ran its cleanup; and the wizard's
\* signer survives it (cleanupOnce, contract.ts:409-424, 635-645).
THEOREM CommandReleases == Spec => []ReleasedUnlessRaced
  <1>1. ReleaseInv => ReleasedUnlessRaced
    BY DEF ReleaseInv, ReleasedUnlessRaced, Names, Holding, Lent
  <1>2. ReleaseInv /\ [Next]_vars => ReleaseInv'
    BY NextRelease
  <1> QED
    BY <1>1, <1>2, InitRelease, PTL DEF Spec

-----------------------------------------------------------------------------
(* The status table settles.                                               *)

\* The table before the pipeline.
LEMMA InitTable == Init => TableInv
  <1> SUFFICES ASSUME Init PROVE TableInv
    OBVIOUS
  <1>1. InputInv
    BY ContractAssumption DEF Init, InputInv
  <1>2. NewRow \in RowSet /\ NoChunk \in ChunkSet
    BY DEF NewRow, RowSet, RowStates, Failures, NoChunk, ChunkSet
  <1>3. TableType
    <2>1. /\ layer = 1 /\ chunk = NoChunk /\ prompt = FALSE /\ signErr = FALSE
          /\ work = [c \in Crates |-> "todo"] /\ failure = [c \in Crates |-> "none"]
          /\ row = [c \in Crates |-> NewRow]
      BY DEF Init
    <2>2. prompt \in BOOLEAN /\ signErr \in BOOLEAN
      BY <2>1
    <2> QED
      BY <1>2, <2>1, <2>2 DEF TableType, Works, Failures
  <1>4. Len(project.layers) \in Nat
    BY <1>1 DEF InputInv, IsProject
  <1>5. LayerInv
    BY <1>4 DEF Init, LayerInv
  <1>6. ChunkInv
    BY DEF Init, ChunkInv, NoChunk
  <1>7. RowInv
    BY DEF Init, RowInv, RowOk, RowFits, Still, NewRow, NoChunk
  <1> QED
    BY <1>1, <1>3, <1>5, <1>6, <1>7 DEF TableInv

\* Steps that leave the table.
LEMMA QuietTable ==
    ASSUME TableInv, UNCHANGED <<flags, project, deployVars>>
    PROVE  TableInv'
  BY DEF TableInv, InputInv, TableType, LayerInv, ChunkInv, ChunkSet, RowInv, RowOk, RowFits,
         Still, Crates, CratesIn, deployVars

\* An event of one crate that is in no chunk and has not settled.
LEMMA OneCrate ==
    ASSUME TableInv, NEW c \in Crates, layer <= Len(project.layers),
           work[c] \in {"todo", "building", "built"},
           UNCHANGED <<flags, project, layer, chunk, prompt, signErr>>,
           NEW w \in Works, NEW s \in RowSet, NEW f \in Failures,
           work' = [work EXCEPT ![c] = w], row' = [row EXCEPT ![c] = s],
           failure' = [failure EXCEPT ![c] = f],
           c \in CratesIn(layer), RowFits(w, s, f, FALSE, chunk.pub)
    PROVE  TableInv'
  <1>1. Crates' = Crates /\ InputInv' /\ (\A i : CratesIn(i)' = CratesIn(i))
    BY DEF TableInv, InputInv, Crates, CratesIn
  <1>2. TableType'
    BY <1>1 DEF TableInv, TableType, ChunkSet
  <1>3. c \notin chunk.crates
    BY DEF TableInv, ChunkInv
  <1>4. LayerInv'
    <2>1. \A i \in 1..Len(project.layers) : i < layer => c \notin CratesIn(i)
      BY DEF TableInv, LayerInv, Settled
    <2>2. \A d \in Crates \ {c} : work'[d] = work[d]
      BY DEF TableInv, TableType
    <2>3. \A i \in 1..Len(project.layers) : CratesIn(i) \subseteq Crates
      BY DEF TableInv, InputInv, IsProject, CratesIn, Crates
    <2> QED
      BY <1>1, <2>1, <2>2, <2>3 DEF TableInv, LayerInv
  <1>5. ChunkInv'
    <2>1. \A d \in chunk.crates : work'[d] = work[d]
      BY <1>3 DEF TableInv, TableType, ChunkSet
    <2> QED
      BY <2>1 DEF TableInv, ChunkInv
  <1>6. RowInv'
    <2> SUFFICES ASSUME NEW d \in Crates PROVE RowOk(d)'
      BY <1>1 DEF RowInv
    <2>1. CASE d = c
      BY <1>3, <2>1 DEF TableInv, TableType, RowOk, RowFits, Still
    <2>2. CASE d # c
      <3>1. work'[d] = work[d] /\ row'[d] = row[d] /\ failure'[d] = failure[d]
        BY <2>2 DEF TableInv, TableType
      <3>2. RowOk(d)
        BY DEF TableInv, RowInv
      <3> QED
        BY <3>1, <3>2 DEF RowOk, RowFits, Still
    <2> QED
      BY <2>1, <2>2
  <1> QED
    BY <1>1, <1>2, <1>4, <1>5, <1>6 DEF TableInv

\* The builder's events of one crate.
LEMMA CrateEvents ==
    ASSUME TableInv, NEW c \in Crates,
           \/ BuildStart(c) \/ BuildDone(c) \/ BuildError(c) \/ CheckCached(c)
           \/ CheckNeedsDeploy(c) \/ \E all \in BOOLEAN : BuildProgress(c, all)
    PROVE  TableInv'
  <1> DEFINE s0 == row[c]
  <1>1. /\ layer <= Len(project.layers)
        /\ UNCHANGED <<flags, project, layer, chunk, prompt, signErr>>
        /\ work[c] \in {"todo", "building", "built"}
    BY DEF BuildStart, BuildDone, BuildError, CheckCached, CheckNeedsDeploy, BuildProgress,
           OuterSame, Pipeline
  <1>2. c \in CratesIn(layer)
    <2>1. CASE BuildStart(c)
      BY <2>1 DEF BuildStart
    <2>2. CASE ~BuildStart(c)
      BY <2>2 DEF BuildDone, BuildError, CheckCached, CheckNeedsDeploy, BuildProgress,
                  TableInv, LayerInv
    <2> QED
      BY <2>1, <2>2
  <1>3. /\ s0 \in RowSet /\ failure[c] \in Failures /\ row = [row EXCEPT ![c] = s0]
        /\ failure = [failure EXCEPT ![c] = failure[c]]
        /\ work = [work EXCEPT ![c] = work[c]]
    BY DEF TableInv, TableType
  <1>4. c \notin chunk.crates
    BY <1>1 DEF TableInv, ChunkInv
  <1>5. RowFits(work[c], s0, failure[c], FALSE, chunk.pub)
    BY <1>1, <1>4 DEF TableInv, RowInv, RowOk, RowFits
  <1> HIDE DEF s0
  <1>7. CASE BuildStart(c)
    <2> DEFINE s == [s0 EXCEPT !.state = "building"]
    <2>1. /\ work' = [work EXCEPT ![c] = "building"] /\ failure' = failure
          /\ row' = [row EXCEPT ![c] = s]
      BY <1>7 DEF BuildStart, Update, TableInv, TableType, s0
    <2>2. work[c] = "todo"
      BY <1>7 DEF BuildStart
    <2>3. s \in RowSet /\ RowFits("building", s, failure[c], FALSE, chunk.pub)
      BY <1>3, <1>5, <2>2 DEF RowSet, RowStates, RowFits, Still
    <2> HIDE DEF s
    <2> QED
      BY <1>1, <1>2, <1>3, <2>1, <2>3, OneCrate DEF Works
  <1>8. CASE \E all \in BOOLEAN : BuildProgress(c, all)
    <2>1. PICK all \in BOOLEAN : BuildProgress(c, all)
      BY <1>8
    <2> DEFINE s == [s0 EXCEPT !.state = "building", !.compiled = all]
    <2>2. work' = work /\ failure' = failure /\ row' = [row EXCEPT ![c] = s]
      BY <2>1 DEF BuildProgress, Update, TableInv, TableType, s0
    <2>3. work[c] = "building"
      BY <2>1 DEF BuildProgress
    <2>4. s \in RowSet /\ RowFits("building", s, failure[c], FALSE, chunk.pub)
      BY <1>3, <1>5, <2>3 DEF RowSet, RowStates, RowFits, Still
    <2> HIDE DEF s
    <2> QED
      BY <1>1, <1>2, <1>3, <2>2, <2>3, <2>4, OneCrate DEF Works
  <1>9. CASE BuildDone(c)
    <2> DEFINE s == [s0 EXCEPT !.state = "built", !.compiled = TRUE]
    <2>1. /\ work' = [work EXCEPT ![c] = "built"] /\ failure' = failure
          /\ row' = [row EXCEPT ![c] = s]
      BY <1>9 DEF BuildDone, Update, TableInv, TableType, s0
    <2>2. work[c] = "building"
      BY <1>9 DEF BuildDone
    <2>3. s \in RowSet /\ RowFits("built", s, failure[c], FALSE, chunk.pub)
      BY <1>3, <1>5, <2>2 DEF RowSet, RowStates, RowFits, Still
    <2> HIDE DEF s
    <2> QED
      BY <1>1, <1>2, <1>3, <2>1, <2>3, OneCrate DEF Works
  <1>10. CASE BuildError(c)
    <2> DEFINE s == [s0 EXCEPT !.state = "error", !.error = "build"]
    <2>1. /\ work' = [work EXCEPT ![c] = "failed"]
          /\ failure' = [failure EXCEPT ![c] = "build"]
          /\ row' = [row EXCEPT ![c] = s]
      BY <1>10 DEF BuildError, Update, TableInv, TableType, s0
    <2>2. work[c] = "building"
      BY <1>10 DEF BuildError
    <2>3. s \in RowSet /\ RowFits("failed", s, "build", FALSE, chunk.pub)
      BY <1>3, <1>5, <2>2 DEF RowSet, RowStates, RowFits, Still, Failures
    <2> HIDE DEF s
    <2> QED
      BY <1>1, <1>2, <1>3, <2>1, <2>3, OneCrate DEF Works, Failures
  <1>11. CASE CheckCached(c)
    <2> DEFINE s == [s0 EXCEPT !.state = "cached", !.address = TRUE]
    <2>1. /\ work' = [work EXCEPT ![c] = "cached"] /\ failure' = failure
          /\ row' = [row EXCEPT ![c] = s]
      BY <1>11 DEF CheckCached, Update, TableInv, TableType, s0
    <2>2. work[c] = "built"
      BY <1>11 DEF CheckCached
    <2>3. s \in RowSet /\ RowFits("cached", s, failure[c], FALSE, chunk.pub)
      BY <1>3, <1>5, <2>2 DEF RowSet, RowStates, RowFits, Still
    <2> HIDE DEF s
    <2> QED
      BY <1>1, <1>2, <1>3, <2>1, <2>3, OneCrate DEF Works
  <1>12. CASE CheckNeedsDeploy(c)
    <2>1. work' = [work EXCEPT ![c] = "ready"] /\ failure' = failure /\ row' = row
      BY <1>12 DEF CheckNeedsDeploy
    <2>2. RowFits("ready", s0, failure[c], FALSE, chunk.pub)
      BY <1>5, <1>12 DEF CheckNeedsDeploy, RowFits, Still
    <2> QED
      BY <1>1, <1>2, <1>3, <2>1, <2>2, OneCrate DEF Works
  <1> QED
    BY <1>7, <1>8, <1>9, <1>10, <1>11, <1>12

\* An event of the chunk in flight.
LEMMA ChunkEvent ==
    ASSUME TableInv, layer <= Len(project.layers), UNCHANGED <<flags, project, layer>>,
           chunk' \in ChunkSet, chunk.crates \subseteq chunk'.crates,
           work' \in [Crates -> Works], row' \in [Crates -> RowSet],
           failure' \in [Crates -> Failures], prompt' \in BOOLEAN, signErr' \in BOOLEAN,
           \A c \in Crates \ chunk'.crates :
               work'[c] = work[c] /\ row'[c] = row[c] /\ failure'[c] = failure[c],
           \A c \in chunk'.crates :
               /\ RowFits(work'[c], row'[c], failure'[c], TRUE, chunk'.pub)
               /\ work'[c] \in {"ready", "done", "failed"}
               /\ work[c] = "ready" \/ (work[c] \in Settled /\ work'[c] \in Settled),
           ChunkInv'
    PROVE  TableInv'
  <1>1. Crates' = Crates /\ InputInv' /\ (\A i : CratesIn(i)' = CratesIn(i))
    BY DEF TableInv, InputInv, Crates, CratesIn
  <1>2. TableType'
    BY <1>1 DEF TableInv, TableType, ChunkSet
  <1>3. LayerInv'
    <2>1. chunk'.crates \subseteq Crates
      BY DEF ChunkSet
    <2>2. \A i \in 1..Len(project.layers) : CratesIn(i) \subseteq Crates
      BY DEF TableInv, InputInv, IsProject, CratesIn, Crates
    <2>3. \A c \in Crates : work'[c] \in {"building", "built", "ready"} =>
              work[c] \in {"building", "built", "ready"}
      BY <2>1 DEF Settled
    <2>4. \A c \in Crates : work[c] \in Settled => work'[c] \in Settled
      BY <2>1 DEF Settled
    <2>5. \A c \in Crates : work[c] \in {"building", "built", "ready"} =>
              layer <= Len(project.layers) /\ c \in CratesIn(layer)
      BY DEF TableInv, LayerInv
    <2>6. \A i \in 1..Len(project.layers) : i < layer => \A c \in CratesIn(i) : work[c] \in Settled
      BY DEF TableInv, LayerInv
    <2> QED
      BY <1>1, <2>2, <2>3, <2>4, <2>5, <2>6 DEF LayerInv
  <1>4. RowInv'
    <2> SUFFICES ASSUME NEW c \in Crates PROVE RowOk(c)'
      BY <1>1 DEF RowInv
    <2>1. CASE c \in chunk'.crates
      BY <2>1 DEF RowOk, RowFits, Still
    <2>2. CASE c \notin chunk'.crates
      <3>1. c \notin chunk.crates
        BY <2>2
      <3>2. RowOk(c)
        BY DEF TableInv, RowInv
      <3>3. RowFits(work[c], row[c], failure[c], FALSE, chunk.pub)
        BY <3>1, <3>2 DEF RowOk, RowFits, Still
      <3> QED
        BY <2>2, <3>3 DEF RowOk, RowFits, Still
    <2> QED
      BY <2>1, <2>2
  <1> QED
    BY <1>1, <1>2, <1>3, <1>4 DEF TableInv

\* The phone is asked and answers.
LEMMA SignEvents ==
    ASSUME TableInv, SignRequest \/ SignComplete \/ SignError
    PROVE  TableInv'
  <1>1. /\ layer <= Len(project.layers) /\ chunk.tx = "open"
        /\ UNCHANGED <<flags, project, layer, work, failure, row>>
    BY DEF SignRequest, SignComplete, SignError, OuterSame, Pipeline, TableInv, ChunkInv
  <1>2. PICK x \in {"asked", "given", "refused"} :
            /\ chunk' = [chunk EXCEPT !.sign = x]
            /\ prompt' = (x = "asked") /\ signErr' = (x = "refused")
    <2>1. CASE SignRequest
      BY <2>1 DEF SignRequest
    <2>2. CASE SignComplete
      <3>1. chunk # NoChunk /\ signErr = FALSE
        BY <2>2 DEF SignComplete, TableInv, TableType, ChunkInv, NoChunk
      <3> QED
        BY <2>2, <3>1 DEF SignComplete
    <2>3. CASE SignError
      BY <2>3 DEF SignError
    <2> QED
      BY <2>1, <2>2, <2>3
  <1>3. /\ chunk' \in ChunkSet /\ chunk'.sign = x
        /\ chunk'.crates = chunk.crates /\ chunk'.tx = "open" /\ chunk'.pub = chunk.pub
    BY <1>1, <1>2 DEF TableInv, TableType, ChunkSet
  <1>4. prompt' \in BOOLEAN /\ signErr' \in BOOLEAN
    BY <1>2
  <1>5. ChunkInv'
    <2>1. \A c \in chunk.crates : work[c] = "ready"
      BY <1>1 DEF TableInv, ChunkInv
    <2>2. chunk'.pub # "failed"
      BY <1>1, <1>3 DEF TableInv, ChunkInv
    <2> QED
      BY <1>1, <1>2, <1>3, <2>1, <2>2 DEF ChunkInv
  <1>6. \A c \in chunk.crates : /\ c \in Crates /\ work[c] = "ready"
                                /\ RowFits(work[c], row[c], failure[c], TRUE, chunk.pub)
    BY <1>1 DEF TableInv, ChunkInv, TableType, ChunkSet, RowInv, RowOk
  <1>7. /\ work \in [Crates -> Works] /\ row \in [Crates -> RowSet]
        /\ failure \in [Crates -> Failures]
    BY DEF TableInv, TableType
  <1> QED
    BY <1>1, <1>3, <1>4, <1>5, <1>6, <1>7, ChunkEvent

\* deploy-register-start
LEMMA ChunkStartTable ==
    ASSUME TableInv, NEW S \in SUBSET Crates, ChunkStart(S)
    PROVE  TableInv'
  <1>1. /\ layer <= Len(project.layers) /\ chunk = NoChunk /\ S # {}
        /\ \A c \in S : work[c] = "ready"
        /\ UNCHANGED <<flags, project, layer, work, failure, prompt>>
        /\ signErr' = FALSE
        /\ chunk' = [NoChunk EXCEPT !.crates = S, !.tx = "open"]
    BY DEF ChunkStart, Pipeline, OuterSame
  <1>2. /\ chunk' \in ChunkSet /\ chunk'.crates = S /\ chunk'.tx = "open"
        /\ chunk'.pub = "none" /\ chunk'.sign = "none" /\ chunk.crates = {}
        /\ chunk.sign = "none"
    BY <1>1 DEF NoChunk, ChunkSet
  <1>3. /\ work \in [Crates -> Works] /\ failure \in [Crates -> Failures]
        /\ row \in [Crates -> RowSet]
    BY DEF TableInv, TableType
  <1>4. prompt' = FALSE
    BY <1>1, <1>2 DEF TableInv, ChunkInv, TableType
  <1>5. ChunkInv'
    BY <1>1, <1>2, <1>4 DEF ChunkInv
  <1>6. /\ row' \in [Crates -> RowSet]
        /\ \A c \in Crates \ S : row'[c] = row[c]
    BY <1>3 DEF ChunkStart, RowSet, RowStates
  <1>7. \A c \in S : RowFits(work'[c], row'[c], failure'[c], TRUE, chunk'.pub)
    <2> SUFFICES ASSUME NEW c \in S
                 PROVE  RowFits(work'[c], row'[c], failure'[c], TRUE, chunk'.pub)
      OBVIOUS
    <2>1. RowFits("ready", row[c], failure[c], FALSE, chunk.pub)
      BY <1>1, <1>2 DEF TableInv, RowInv, RowOk, RowFits, Still
    <2>2. /\ row[c] \in RowSet
          /\ row'[c] = [row[c] EXCEPT !.state = "deploying", !.deploying = TRUE,
                                      !.registering = Package(c) # NoPackage]
      BY <1>3 DEF ChunkStart
    <2>3. row'[c].state = "deploying" /\ row'[c].publishing = row[c].publishing
      BY <2>2 DEF RowSet
    <2> QED
      BY <1>1, <2>1, <2>3 DEF RowFits, Still
  <1>8. prompt' \in BOOLEAN /\ signErr' \in BOOLEAN
    BY <1>1, <1>4
  <1> QED
    BY <1>1, <1>2, <1>3, <1>5, <1>6, <1>7, <1>8, ChunkEvent

\* publish-start and publish-done: metadata goes up, whatever the transaction does.
LEMMA PublishEvents ==
    ASSUME TableInv, PublishStart \/ PublishDone
    PROVE  TableInv'
  <1>1. /\ layer <= Len(project.layers)
        /\ UNCHANGED <<flags, project, layer, work, failure, prompt, signErr>>
        /\ chunk # NoChunk /\ chunk.pub # "failed"
    BY DEF PublishStart, PublishDone, OuterSame, Pipeline, NoChunk
  <1>2. PICK x \in {"open", "done"} : chunk' = [chunk EXCEPT !.pub = x]
    BY DEF PublishStart, PublishDone
  <1>3. /\ chunk' \in ChunkSet /\ chunk'.sign = chunk.sign
        /\ chunk'.crates = chunk.crates /\ chunk'.tx = chunk.tx /\ chunk'.pub = x
    BY <1>2 DEF TableInv, TableType, ChunkSet
  <1>4. /\ work \in [Crates -> Works] /\ failure \in [Crates -> Failures]
        /\ row \in [Crates -> RowSet] /\ chunk.crates \subseteq Crates
    BY DEF TableInv, TableType, ChunkSet
  <1>5. chunk.tx # "none"
    BY <1>1 DEF TableInv, ChunkInv
  <1>6. ChunkInv'
    <2>1. chunk' # NoChunk
      BY <1>3, <1>5 DEF NoChunk
    <2>2. \A c \in chunk.crates : work[c] = IF chunk.tx = "open" THEN "ready"
                                  ELSE IF chunk.tx = "failed" THEN "failed" ELSE "done"
      BY <1>1 DEF TableInv, ChunkInv
    <2> QED
      BY <1>1, <1>2, <1>3, <1>5, <2>1, <2>2 DEF TableInv, ChunkInv
  <1>7. /\ row' \in [Crates -> RowSet]
        /\ \A c \in Crates \ chunk.crates : row'[c] = row[c]
    <2>1. CASE PublishStart
      BY <1>4, <2>1 DEF PublishStart, Update, RowSet, RowStates
    <2>2. CASE PublishDone
      BY <1>4, <2>2 DEF PublishDone, Update, RowSet
    <2> QED
      BY <2>1, <2>2
  <1>8. \A c \in chunk.crates : RowFits(work'[c], row'[c], failure'[c], TRUE, chunk'.pub)
    <2> SUFFICES ASSUME NEW c \in chunk.crates
                 PROVE  RowFits(work'[c], row'[c], failure'[c], TRUE, chunk'.pub)
      OBVIOUS
    <2>1. row[c] \in RowSet /\ RowFits(work[c], row[c], failure[c], TRUE, chunk.pub)
      BY <1>4 DEF TableInv, RowInv, RowOk, RowFits, Still
    <2>2. CASE PublishStart
      <3>1. work[c] = "ready"
        BY <2>2 DEF PublishStart, TableInv, ChunkInv
      <3>2. row'[c] = [row[c] EXCEPT !.state = "deploying", !.publishing = TRUE]
        BY <1>4, <2>2 DEF PublishStart, Update
      <3>3. chunk'.pub = "open"
        BY <1>3, <2>2 DEF PublishStart, TableInv, TableType, ChunkSet
      <3> QED
        BY <1>1, <2>1, <3>1, <3>2, <3>3 DEF RowFits, Still, RowSet
    <2>3. CASE PublishDone
      <3>1. row'[c] = [row[c] EXCEPT !.published = TRUE, !.publishing = FALSE]
        BY <1>4, <2>3 DEF PublishDone, Update
      <3>2. work[c] \in {"ready", "done", "failed"}
        BY DEF TableInv, ChunkInv
      <3>3. /\ row'[c].state = row[c].state /\ ~row'[c].publishing
            /\ row'[c].deploying = row[c].deploying /\ row'[c].error = row[c].error
            /\ row'[c].registering = row[c].registering
        BY <2>1, <3>1 DEF RowSet
      <3> QED
        BY <1>1, <2>1, <3>2, <3>3 DEF RowFits, Still
    <2> QED
      BY <2>2, <2>3
  <1>9. prompt' \in BOOLEAN /\ signErr' \in BOOLEAN
    BY <1>1 DEF TableInv, TableType
  <1>10. \A c \in chunk.crates : work[c] \in {"ready", "done", "failed"}
    BY DEF TableInv, ChunkInv
  <1> QED
    BY <1>1, <1>3, <1>4, <1>6, <1>7, <1>8, <1>9, <1>10, ChunkEvent DEF Settled

\* deploy-register-done
LEMMA TxDoneTable ==
    ASSUME TableInv, TxDone
    PROVE  TableInv'
  <1>1. /\ layer <= Len(project.layers) /\ chunk.tx = "open"
        /\ UNCHANGED <<flags, project, layer, failure, prompt, signErr>>
        /\ chunk' = [chunk EXCEPT !.tx = "done"]
        /\ work' = [c \in Crates |-> IF c \in chunk.crates THEN "done" ELSE work[c]]
        /\ chunk.sign \in {"given", "none"}
    BY DEF TxDone, OuterSame, Pipeline
  <1>2. /\ chunk' \in ChunkSet /\ chunk'.sign = chunk.sign
        /\ chunk'.crates = chunk.crates /\ chunk'.tx = "done" /\ chunk'.pub = chunk.pub
        /\ chunk # NoChunk /\ chunk' # NoChunk
    BY <1>1 DEF TableInv, TableType, ChunkSet, NoChunk
  <1>3. /\ work \in [Crates -> Works] /\ failure \in [Crates -> Failures]
        /\ row \in [Crates -> RowSet] /\ chunk.crates \subseteq Crates
    BY DEF TableInv, TableType, ChunkSet
  <1>4. /\ work' \in [Crates -> Works]
        /\ \A c \in Crates \ chunk.crates : work'[c] = work[c]
        /\ \A c \in chunk.crates : work[c] = "ready" /\ work'[c] = "done"
    BY <1>1, <1>3 DEF Works, TableInv, ChunkInv
  <1>5. ChunkInv'
    <2>1. chunk'.pub # "failed"
      BY <1>1, <1>2 DEF TableInv, ChunkInv
    <2> QED
      BY <1>1, <1>2, <1>4, <2>1 DEF TableInv, ChunkInv
  <1>6. /\ row' \in [Crates -> RowSet]
        /\ \A c \in Crates \ chunk.crates : row'[c] = row[c]
    BY <1>3 DEF TxDone, Update, RowSet, RowStates
  <1>7. \A c \in chunk.crates : RowFits(work'[c], row'[c], failure'[c], TRUE, chunk'.pub)
    <2> SUFFICES ASSUME NEW c \in chunk.crates
                 PROVE  RowFits(work'[c], row'[c], failure'[c], TRUE, chunk'.pub)
      OBVIOUS
    <2>1. row[c] \in RowSet /\ RowFits("ready", row[c], failure[c], TRUE, chunk.pub)
      BY <1>3, <1>4 DEF TableInv, RowInv, RowOk, RowFits, Still
    <2>2. row'[c] = [row[c] EXCEPT !.state = "done", !.address = TRUE,
                                   !.deploying = FALSE, !.registering = FALSE]
      BY <1>3 DEF TxDone, Update
    <2>3. /\ row'[c].state = "done" /\ ~row'[c].deploying /\ ~row'[c].registering
          /\ row'[c].publishing = row[c].publishing
      BY <2>1, <2>2 DEF RowSet
    <2> QED
      BY <1>2, <1>4, <2>1, <2>3 DEF RowFits, Still
  <1>8. prompt' \in BOOLEAN /\ signErr' \in BOOLEAN
    BY <1>1 DEF TableInv, TableType
  <1> QED
    BY <1>1, <1>2, <1>3, <1>4, <1>5, <1>6, <1>7, <1>8, ChunkEvent

\* deploy-register-error, of the transaction or of the upload after it.
LEMMA FailedTable ==
    ASSUME TableInv, TxFailed \/ PublishFailed
    PROVE  TableInv'
  <1>1. /\ layer <= Len(project.layers) /\ ChunkFailed /\ chunk.sign # "asked"
        /\ UNCHANGED <<flags, project, layer, prompt, signErr>>
        /\ \/ chunk.tx = "open" /\ chunk' = [chunk EXCEPT !.tx = "failed"]
           \/ chunk.tx = "done" /\ chunk.pub = "open" /\ chunk' = [chunk EXCEPT !.pub = "failed"]
    BY DEF TxFailed, PublishFailed, OuterSame, Pipeline, TableInv, ChunkInv
  <1>2. /\ chunk' \in ChunkSet /\ chunk'.sign = chunk.sign /\ chunk'.crates = chunk.crates
        /\ \/ chunk'.tx = "failed" /\ chunk'.pub = chunk.pub
           \/ chunk'.tx = "done" /\ chunk'.pub = "failed"
        /\ chunk # NoChunk /\ chunk' # NoChunk
    BY <1>1 DEF TableInv, TableType, ChunkSet, NoChunk
  <1>3. /\ work \in [Crates -> Works] /\ failure \in [Crates -> Failures]
        /\ row \in [Crates -> RowSet] /\ chunk.crates \subseteq Crates
        /\ signErr \in BOOLEAN /\ prompt \in BOOLEAN
    BY DEF TableInv, TableType, ChunkSet
  <1> DEFINE why == IF signErr THEN "sign" ELSE "chain"
  <1>4. why = IF chunk.sign = "refused" THEN "sign" ELSE "chain"
    BY <1>2, <1>3 DEF TableInv, ChunkInv
  <1>5. why \in Failures
    BY DEF Failures
  <1>6. /\ work' = [c \in Crates |-> IF c \in chunk.crates THEN "failed" ELSE work[c]]
        /\ row' = [c \in Crates |-> IF c \in chunk.crates
                     THEN [row[c] EXCEPT !.state = "error", !.error = why, !.deploying = FALSE,
                                         !.publishing = FALSE, !.registering = FALSE]
                     ELSE row[c]]
        /\ failure' = [c \in Crates |-> IF c \in chunk.crates THEN why ELSE failure[c]]
    BY <1>1, <1>4 DEF ChunkFailed, Update
  <1> HIDE DEF why
  <1>7. /\ work' \in [Crates -> Works] /\ failure' \in [Crates -> Failures]
        /\ \A c \in Crates \ chunk.crates : work'[c] = work[c] /\ failure'[c] = failure[c]
        /\ \A c \in chunk.crates : work'[c] = "failed" /\ failure'[c] = why
    BY <1>3, <1>5, <1>6 DEF Works
  <1>8. /\ row' \in [Crates -> RowSet]
        /\ \A c \in Crates \ chunk.crates : row'[c] = row[c]
    BY <1>3, <1>5, <1>6 DEF RowSet, RowStates
  <1>9. \A c \in chunk.crates : work[c] \in {"ready", "done"}
    BY <1>1 DEF TableInv, ChunkInv
  <1>10. ChunkInv'
    BY <1>1, <1>2, <1>7 DEF TableInv, ChunkInv
  <1>11. \A c \in chunk.crates : RowFits(work'[c], row'[c], failure'[c], TRUE, chunk'.pub)
    <2> SUFFICES ASSUME NEW c \in chunk.crates
                 PROVE  RowFits(work'[c], row'[c], failure'[c], TRUE, chunk'.pub)
      OBVIOUS
    <2>1. /\ row[c] \in RowSet
          /\ row'[c] = [row[c] EXCEPT !.state = "error", !.error = why, !.deploying = FALSE,
                                      !.publishing = FALSE, !.registering = FALSE]
      BY <1>3, <1>6
    <2>2. row'[c].state = "error" /\ row'[c].error = why /\ Still(row'[c])
      BY <2>1 DEF RowSet, Still
    <2> QED
      BY <1>7, <2>2 DEF RowFits
  <1>12. prompt' \in BOOLEAN /\ signErr' \in BOOLEAN
    BY <1>1, <1>3
  <1> QED
    BY <1>1, <1>2, <1>7, <1>8, <1>9, <1>10, <1>11, <1>12, ChunkEvent DEF Settled

\* The chunk is over; the next layer starts when its crates have settled.
LEMMA EndTable ==
    ASSUME TableInv, ChunkEnds \/ NextLayer
    PROVE  TableInv'
  <1>1. /\ layer <= Len(project.layers)
        /\ UNCHANGED <<flags, project, work, failure, row, prompt, signErr>>
    BY DEF ChunkEnds, NextLayer, OuterSame, Pipeline
  <1>2. Crates' = Crates /\ InputInv' /\ (\A i : CratesIn(i)' = CratesIn(i))
    BY <1>1 DEF TableInv, InputInv, Crates, CratesIn
  <1>3. CASE ChunkEnds
    <2>1. chunk' = NoChunk /\ layer' = layer /\ chunk.tx \in {"done", "failed"} /\ chunk.pub # "open"
      BY <1>3 DEF ChunkEnds
    <2>2. NoChunk \in ChunkSet /\ NoChunk.crates = {} /\ NoChunk.sign = "none"
      BY DEF NoChunk, ChunkSet
    <2>3. prompt = FALSE
      BY <2>1 DEF TableInv, ChunkInv, TableType
    <2>4. TableType'
      BY <1>1, <1>2, <2>1, <2>2 DEF TableInv, TableType, ChunkSet
    <2>5. ChunkInv'
      BY <1>1, <2>1, <2>2, <2>3 DEF ChunkInv, NoChunk
    <2>6. LayerInv'
      BY <1>1, <1>2, <2>1 DEF TableInv, LayerInv
    <2>7. RowInv'
      <3> SUFFICES ASSUME NEW c \in Crates PROVE RowOk(c)'
        BY <1>2 DEF RowInv
      <3>1. RowOk(c) /\ (c \in chunk.crates => work[c] \in {"done", "failed"})
        BY <2>1 DEF TableInv, RowInv, ChunkInv
      <3> QED
        BY <1>1, <2>1, <2>2, <3>1 DEF RowOk, RowFits, Still
    <2> QED
      BY <1>2, <2>4, <2>5, <2>6, <2>7 DEF TableInv
  <1>4. CASE NextLayer
    <2>1. /\ layer' = layer + 1 /\ chunk' = chunk /\ chunk = NoChunk
          /\ \A c \in CratesIn(layer) : work[c] \in Settled
      BY <1>4 DEF NextLayer, Settled
    <2>2. layer \in Nat \ {0}
      BY DEF TableInv, TableType
    <2>3. TableType'
      <3>1. layer' \in Nat \ {0}
        BY <2>1, <2>2
      <3> QED
        BY <1>1, <1>2, <2>1, <3>1 DEF TableInv, TableType, ChunkSet
    <2>4. ChunkInv'
      BY <1>1, <2>1 DEF TableInv, ChunkInv
    <2>5. RowInv'
      BY <1>1, <1>2, <2>1 DEF TableInv, RowInv, RowOk, RowFits, Still
    <2>6. LayerInv'
      <3>1. \A c \in Crates : work[c] \notin {"building", "built", "ready"}
        BY <2>1 DEF TableInv, LayerInv, Settled
      <3>2. Len(project.layers) \in Nat
        BY DEF TableInv, InputInv, IsProject
      <3>3. \A i \in 1..Len(project.layers) : i < layer' => i < layer \/ i = layer
        BY <2>1, <2>2, <3>2
      <3>4. \A i \in 1..Len(project.layers) : i < layer' => \A c \in CratesIn(i) : work[c] \in Settled
        BY <2>1, <3>3 DEF TableInv, LayerInv
      <3> QED
        BY <1>1, <1>2, <3>1, <3>4 DEF LayerInv
    <2> QED
      BY <1>2, <2>3, <2>4, <2>5, <2>6 DEF TableInv
  <1> QED
    BY <1>3, <1>4

\* Every step preserves TableInv.
LEMMA NextTable ==
    ASSUME TableInv, [Next]_vars
    PROVE  TableInv'
  <1>1. CASE TableStep
    BY <1>1, CrateEvents, ChunkStartTable, PublishEvents, SignEvents, TxDoneTable, FailedTable,
       EndTable DEF TableStep
  <1>2. CASE ~TableStep
    BY <1>2, QuietTable, StepKinds, QueueFrame, OtherFrame, CommandFrame DEF vars
  <1> QED
    BY <1>1, <1>2

\* When deployContracts has reported every layer no row spins and no prompt is
\* open, and a failed crate shows its own failure in exactly one column
\* (contractPipelineStatus.ts).
THEOREM TableSettles == Spec => []RowsSettle
  <1>1. ASSUME TableInv PROVE RowsSettle
    <2> SUFFICES ASSUME PipelineOver PROVE RowsSettle
      BY DEF RowsSettle
    <2>1. layer > Len(project.layers) /\ Len(project.layers) \in Nat /\ layer \in Nat
      BY <1>1 DEF PipelineOver, TableInv, TableType, InputInv, IsProject
    <2>2. chunk = NoChunk
      BY <1>1, <2>1 DEF TableInv, ChunkInv
    <2>3. ~prompt
      BY <1>1, <2>2 DEF TableInv, ChunkInv, NoChunk
    <2>4. ASSUME NEW c \in Crates
          PROVE  LET marks == {i \in 1..3 : Cells(row[c])[i] = "fail"}
                 IN  /\ \A i \in 1..3 : Cells(row[c])[i] # "spinner"
                     /\ Cardinality(marks) = IF work[c] = "failed" THEN 1 ELSE 0
                     /\ work[c] = "failed" => row[c].error = failure[c]
      <3> DEFINE marks == {i \in 1..3 : Cells(row[c])[i] = "fail"}
      <3>1. work[c] \in Works \ {"building", "built", "ready"} /\ row[c] \in RowSet
        BY <1>1, <2>1 DEF TableInv, TableType, LayerInv
      <3>2. RowFits(work[c], row[c], failure[c], FALSE, "none")
        BY <1>1, <2>2 DEF TableInv, RowInv, RowOk, RowFits, Still, NoChunk
      <3>3. Still(row[c]) /\ row[c].state # "building"
        BY <3>1, <3>2 DEF RowFits, Still, Works
      <3>4. row[c].state = "error" <=> work[c] = "failed"
        BY <3>1, <3>2 DEF RowFits, Works
      <3>5. /\ Cells(row[c])[1] = BuildCell(row[c]) /\ Cells(row[c])[2] = RegistryCell(row[c])
            /\ Cells(row[c])[3] = MetadataCell(row[c])
        BY DEF Cells
      <3>6. /\ BuildCell(row[c]) # "spinner" /\ RegistryCell(row[c]) # "spinner"
            /\ MetadataCell(row[c]) # "spinner"
        BY <3>3 DEF BuildCell, RegistryCell, MetadataCell, Still
      <3>7. MetadataCell(row[c]) # "fail"
        BY <3>3 DEF MetadataCell, Still
      <3>8. work[c] = "failed" => \/ BuildCell(row[c]) = "fail" /\ RegistryCell(row[c]) # "fail"
                                  \/ BuildCell(row[c]) # "fail" /\ RegistryCell(row[c]) = "fail"
        BY <3>3, <3>4 DEF BuildCell, RegistryCell, ErrorPhase, Still
      <3>9. work[c] # "failed" => BuildCell(row[c]) # "fail" /\ RegistryCell(row[c]) # "fail"
        BY <3>3, <3>4 DEF BuildCell, RegistryCell, Still
      <3>10. \A i \in 1..3 : i = 1 \/ i = 2 \/ i = 3
        OBVIOUS
      <3>11. work[c] = "failed" => marks = {1} \/ marks = {2}
        BY <3>5, <3>7, <3>8, <3>10
      <3>12. work[c] # "failed" => marks = {}
        BY <3>5, <3>7, <3>9, <3>10
      <3>13. \A i \in 1..3 : Cells(row[c])[i] # "spinner"
        BY <3>5, <3>6, <3>10
      <3>14. work[c] = "failed" => row[c].error = failure[c]
        BY <3>2 DEF RowFits
      <3> HIDE DEF marks
      <3>15. Cardinality(marks) = IF work[c] = "failed" THEN 1 ELSE 0
        BY <3>11, <3>12, FS_Singleton, FS_EmptySet
      <3> QED
        BY <3>13, <3>14, <3>15 DEF marks
    <2> QED
      BY <2>3, <2>4 DEF RowsSettle
  <1>2. TableInv /\ [Next]_vars => TableInv'
    BY NextTable
  <1>3. TableInv => RowsSettle
    BY <1>1
  <1> QED
    BY <1>2, <1>3, InitTable, PTL DEF Spec

-----------------------------------------------------------------------------
(* Sequences, sets and registries.                                         *)

\* A nonempty set of natural numbers has a least element.
LEMMA Least ==
    ASSUME NEW T \in SUBSET Nat, T # {}
    PROVE  \E x \in T : \A y \in T : x <= y
  <1> DEFINE below == {ss \in Nat \X Nat : ss[1] < ss[2]}
  <1>1. OpToRel(<, Nat) = below
    BY Zenon DEF OpToRel
  <1>2. IsWellFoundedOn(below, Nat)
    BY <1>1, NatLessThanWellFounded, Zenon
  <1> HIDE DEF below
  <1>3. PICK x \in T : \A y \in T : ~ (<<y, x>> \in below)
    BY <1>2, WFMin
  <1>4. ASSUME NEW y \in T PROVE x <= y
    <2>1. <<y, x>> \in Nat \X Nat /\ x \in Nat /\ y \in Nat
      OBVIOUS
    <2>2. y < x => <<y, x>> \in below
      BY <2>1, Zenon DEF below
    <2> QED
      BY <1>3, <2>1, <2>2
  <1> QED
    BY <1>4

\* A nonempty set of indices has a greatest one, and Max is it.
LEMMA Greatest ==
    ASSUME NEW n \in Nat, NEW T \in SUBSET (1..n), T # {}
    PROVE  Max(T) \in T
  <1> DEFINE gaps == {n - x : x \in T}
  <1>1. gaps \in SUBSET Nat /\ gaps # {}
    <2>1. \A x \in T : n - x \in Nat
      OBVIOUS
    <2> QED
      BY <2>1
  <1>2. PICK g \in gaps : \A h \in gaps : g <= h
    <2> HIDE DEF gaps
    <2> QED
      BY <1>1, Least
  <1>3. PICK x \in T : g = n - x
    BY <1>2
  <1>4. \A y \in T : n - x <= n - y
    BY <1>2, <1>3
  <1>5. \A y \in T : x >= y
    BY <1>4
  <1> QED
    BY <1>5 DEF Max

\* SetToSeq lists every element once.
LEMMA SetToSeqLists ==
    ASSUME NEW S, IsFiniteSet(S)
    PROVE  /\ SetToSeq(S) \in Seq(S) /\ Len(SetToSeq(S)) = Cardinality(S)
           /\ \A x \in S : \E i \in 1..Len(SetToSeq(S)) : SetToSeq(S)[i] = x
           /\ \A i, j \in 1..Len(SetToSeq(S)) : SetToSeq(S)[i] = SetToSeq(S)[j] => i = j
  <1> DEFINE n == Cardinality(S)
             s == SetToSeq(S)
  <1>1. n \in Nat /\ ExistsBijection(1..n, S)
    BY FS_CardinalityType
  <1>2. PICK f : f \in [1..n -> S] /\ IsInjective(f)
    BY <1>1 DEF ExistsBijection, Bijection, Injection
  <1>3. s \in [1..n -> S] /\ IsInjective(s)
    BY <1>2 DEF SetToSeq
  <1>4. s \in Injection(1..n, S)
    BY <1>3 DEF Injection
  <1>5. Cardinality(1..n) = n
    <2>1. 1 \in Int /\ n \in Int
      BY <1>1
    <2>2. Cardinality(1..n) = IF 1 > n THEN 0 ELSE n - 1 + 1
      BY <2>1, FS_Interval
    <2> QED
      BY <1>1, <2>2
  <1>6. s \in Surjection(1..n, S)
    BY <1>1, <1>4, <1>5, FS_Injection
  <1>7. \A x \in S : \E i \in 1..n : s[i] = x
    BY <1>6 DEF Surjection
  <1> HIDE DEF n, s
  <1>8. s \in Seq(S) /\ Len(s) = n
    BY <1>1, <1>3
  <1> QED
    BY <1>3, <1>7, <1>8 DEF IsInjective, n, s

\* Packages are libraries.
LEMMA PackagesAreLibs ==
    ASSUME InputInv
    PROVE  Packages \subseteq Libs /\ \A c \in Crates : Package(c) \in Libs \cup {NoPackage}
  BY DEF InputInv, IsProject, Packages, Package, Crates

\* The requests of an installation are a sequence of requests.
LEMMA RequestsType ==
    ASSUME InputInv, manifest \in Manifests
    PROVE  Requests(flags.args) \in Seq(Request)
  <1> DEFINE deps == {l \in Libs : manifest.deps[l] # Absent}
             order == SetToSeq(deps)
  <1>1. flags.args \in Seq(Request)
    BY DEF InputInv, CommandLines
  <1>2. IsFiniteSet(deps)
    BY ContractAssumption, FS_Subset
  <1>3. order \in Seq(deps)
    BY <1>2, SetToSeqLists
  <1>4. DependencyRequests = [i \in 1..Len(order) |->
                                 [lib |-> order[i], ver |-> manifest.deps[order[i]]]]
    BY DEF DependencyRequests
  <1>5. \A l \in deps : l \in Libs /\ manifest.deps[l] \in Versions
    BY DEF Manifests
  <1> HIDE DEF deps, order
  <1>6. \A i \in 1..Len(order) : [lib |-> order[i], ver |-> manifest.deps[order[i]]] \in Request
    BY <1>3, <1>5 DEF Request
  <1>7. DependencyRequests \in Seq(Request)
    BY <1>3, <1>4, <1>6
  <1> QED
    BY <1>1, <1>7 DEF Requests

\* The registries a command line selects; the wizard's two steps agree.
LEMMA RegistryFacts ==
    ASSUME InputInv
    PROVE  /\ DeployRegistry \in Registries \cup {"none"}
           /\ flags.cmd = "prestep" /\ DeployRegistry \in Registries =>
                  InstallRegistry = DeployRegistry
  <1>1. flags.registry \in Registries \cup {NoFlag}
    BY DEF InputInv, CommandLines
  <1>2. flags.cmd = "prestep" => ~flags.preset
    BY DEF InputInv, CommandLines
  <1>3. DeployRegistry \in Registries \cup {"none"}
    BY <1>1 DEF DeployRegistry, Registries
  <1>4. "none" \notin Registries
    BY DEF Registries
  <1>5. ASSUME flags.cmd = "prestep", DeployRegistry \in Registries
        PROVE  InstallRegistry = DeployRegistry
    <2>1. CASE flags.registry # NoFlag
      BY <2>1, <1>5 DEF DeployRegistry, InstallRegistry
    <2>2. CASE flags.registry = NoFlag
      <3>1. flags.active /\ DeployRegistry = "active"
        BY <1>4, <1>5, <2>2 DEF DeployRegistry
      <3> QED
        BY <1>2, <1>5, <2>2, <3>1 DEF InstallRegistry
    <2> QED
      BY <2>1, <2>2
  <1> QED
    BY <1>3, <1>5

\* RequestedVersion is the version of a request for that library.
LEMMA RequestedIsAsked ==
    ASSUME Asked \in Seq(Request), NEW l, \E k \in 1..Len(Asked) : Asked[k].lib = l
    PROVE  \E k \in 1..Len(Asked) : Asked[k].lib = l /\ RequestedVersion(l) = Asked[k].ver
  <1> DEFINE T == {k \in 1..Len(Asked) : Asked[k].lib = l}
             P(k) == Asked[k].lib = l /\ \A m \in 1..(k - 1) : Asked[m].lib # l
             i == CHOOSE k \in 1..Len(Asked) : P(k)
  <1>1. T \in SUBSET Nat /\ T # {} /\ Len(Asked) \in Nat
    OBVIOUS
  <1>2. PICK x \in T : \A y \in T : x <= y
    <2> HIDE DEF T
    <2> QED
      BY <1>1, Least
  <1>3. x \in 1..Len(Asked) /\ P(x)
    BY <1>2
  <1>4. RequestedVersion(l) = Asked[i].ver
    BY DEF RequestedVersion
  <1>5. i \in 1..Len(Asked) /\ P(i)
    <2> HIDE DEF P
    <2> QED
      BY <1>3
  <1> QED
    BY <1>4, <1>5

\* LastResult is the version of a result for that library.
LEMMA LastIsResult ==
    ASSUME results \in Seq(Request), NEW l, InstalledNow(l)
    PROVE  \E k \in 1..Len(results) : results[k].lib = l /\ LastResult(l) = results[k].ver
  <1> DEFINE T == {k \in 1..Len(results) : results[k].lib = l}
  <1>1. T \in SUBSET (1..Len(results)) /\ T # {} /\ Len(results) \in Nat
    BY DEF InstalledNow
  <1>2. LastResult(l) = results[Max(T)].ver
    BY DEF LastResult
  <1>3. Max(T) \in T
    <2> HIDE DEF T
    <2> QED
      BY <1>1, Greatest
  <1> QED
    BY <1>2, <1>3

-----------------------------------------------------------------------------
(* The frontend is built against what was deployed.                        *)

\* Everything holds at the start.
LEMMA InitCommand == Init => IInv
  <1> SUFFICES ASSUME Init PROVE IInv
    OBVIOUS
  <1>1. TableInv
    BY InitTable
  <1>2. PICK s \in Starts : /\ flags = s.flags /\ project = s.project
                            /\ manifest = s.manifest /\ chain = s.chain
    BY DEF Init
  <1>3. chain \in Chains /\ manifest \in Manifests
    BY <1>2, ContractAssumption
  <1>4. /\ pc = "start" /\ exit = "running" /\ queue = <<>> /\ lib = "idle"
        /\ results = <<>> /\ errors = FALSE /\ work = [c \in Crates |-> "todo"]
    BY DEF Init
  <1>5. TargetInv
    BY <1>3, <1>4 DEF TargetInv, DeployPhase, InstallPhase
  <1>6. InstallInv
    <2>1. queue \in Seq(Request) /\ results \in Seq(Request) /\ 1..Len(results) = {}
      BY <1>4
    <2>2. errors \in BOOLEAN /\ ~errors
      BY <1>4
    <2> QED
      BY <1>4, <2>1, <2>2 DEF InstallInv, InstallPhase
  <1>7. EndInv
    BY <1>4 DEF EndInv, FrontendSeesDeployed
  <1> QED
    BY <1>1, <1>5, <1>6, <1>7 DEF IInv

\* Only a running command takes steps.
LEMMA StepsRun ==
    ASSUME Next
    PROVE  exit = "running"
  <1>1. TableStep => exit = "running"
    BY DEF TableStep, BuildStart, BuildDone, BuildError, CheckCached, CheckNeedsDeploy,
           BuildProgress, ChunkStart, PublishStart, SignRequest, SignComplete, SignError,
           TxDone, TxFailed, PublishDone, PublishFailed, ChunkEnds, NextLayer, Pipeline, Doing
  <1>2. QueueStep => exit = "running"
    BY DEF QueueStep, QueryStart, QueryDone, InstallDone, InstallError, Installing, Doing
  <1>3. OtherStep => exit = "running"
    BY DEF OtherStep, OtherRegisters
  <1>4. CommandStep => exit = "running"
    BY DEF CommandStep, Before, StartDeploy, ResolveSigner, SignerFails, ConnectChains,
         ConnectFails, CheckOwnership, OwnershipFails, DeployReturns, PipelineOver,
         PipelineError, StartInstall, OpenReader, ReaderFails, ConnectRegistry,
         RegistryFails, InstallThrows, InstallReturns, Shutdown, Doing
  <1> QED
    BY <1>1, <1>2, <1>3, <1>4, StepKinds

\* A builder event happens in the pipeline.
LEMMA TableStepsInPipeline ==
    ASSUME TableStep
    PROVE  pc = "pipeline"
  BY DEF TableStep, BuildStart, BuildDone, BuildError, CheckCached, CheckNeedsDeploy,
         BuildProgress, ChunkStart, PublishStart, SignRequest, SignComplete, SignError,
         TxDone, TxFailed, PublishDone, PublishFailed, ChunkEnds, NextLayer, Pipeline, Doing

\* The registry entry of a crate that is done or cached is this account's.
LEMMA TableStepOwns ==
    ASSUME TableInv, TargetInv, TableStep
    PROVE  /\ chain' \in Chains
           /\ DeployRegistry \in Registries
           /\ \A c \in Crates : work'[c] \in {"done", "cached"} /\ Package(c) # NoPackage =>
                  chain'[DeployRegistry][Package(c)].owner = "me"
  <1> DEFINE reg == DeployRegistry
  <1>1. reg \in Registries
    BY TableStepsInPipeline DEF TargetInv, DeployPhase
  <1>2. \A c \in Crates : work[c] \in {"done", "cached"} /\ Package(c) # NoPackage =>
            chain[reg][Package(c)].owner = "me"
    BY <1>1 DEF TargetInv, Mine
  <1>3. \A c \in Crates : Package(c) \in Libs \cup {NoPackage}
    BY PackagesAreLibs DEF TableInv
  <1>4. work \in [Crates -> Works] /\ chain \in Chains
    BY DEF TableInv, TableType, TargetInv
  <1>5. CASE TxDone
    <2> DEFINE hit(p) == \E c \in chunk.crates : Package(c) = p
               new == [p \in Libs |-> IF hit(p)
                          THEN [version |-> chain[reg][p].version + 1, owner |-> "me"]
                          ELSE chain[reg][p]]
    <2>1. /\ chain' = [chain EXCEPT ![reg] = new]
          /\ work' = [c \in Crates |-> IF c \in chunk.crates THEN "done" ELSE work[c]]
      BY <1>5 DEF TxDone
    <2>2. new \in [Libs -> [version : Nat, owner : {"nobody", "me", "other"}]]
      BY <1>1, <1>4 DEF Chains
    <2>3. \A l \in Libs : new[l].owner = "me" => new[l].version > 0
      BY <1>1, <1>4 DEF Chains
    <2>4. \A l \in Libs : hit(l) \/ chain[reg][l].owner = "me" => new[l].owner = "me"
      OBVIOUS
    <2> HIDE DEF new, hit
    <2>5. /\ chain' \in [Registries -> [Libs -> [version : Nat, owner : {"nobody", "me", "other"}]]]
          /\ chain'[reg] = new /\ \A r \in Registries \ {reg} : chain'[r] = chain[r]
      BY <1>1, <1>4, <2>1, <2>2 DEF Chains
    <2>6. chain' \in Chains
      BY <1>4, <2>3, <2>5 DEF Chains
    <2>7. \A c \in Crates : work'[c] \in {"done", "cached"} /\ Package(c) # NoPackage =>
              chain'[reg][Package(c)].owner = "me"
      BY <1>2, <1>3, <2>1, <2>4, <2>5 DEF hit
    <2> QED
      BY <1>1, <2>6, <2>7
  <1>6. CASE ~TxDone
    <2>1. chain' = chain
      BY <1>6 DEF TableStep, BuildStart, BuildDone, BuildError, CheckCached, CheckNeedsDeploy,
           BuildProgress, ChunkStart, PublishStart, SignRequest, SignComplete, SignError,
           TxFailed, PublishDone, PublishFailed, ChunkEnds, NextLayer
    <2>2. CASE \E c \in Crates : CheckCached(c)
      <3>1. PICK c \in Crates : CheckCached(c)
        BY <2>2
      <3>2. work' = [work EXCEPT ![c] = "cached"] /\ chain[reg][Package(c)].owner = "me"
        BY <3>1 DEF CheckCached
      <3> QED
        BY <1>1, <1>2, <1>4, <2>1, <3>2
    <2>3. CASE ~ \E c \in Crates : CheckCached(c)
      <3>1. \A c \in Crates : work'[c] \in {"done", "cached"} => work'[c] = work[c]
        <4>1. CASE \E c \in Crates : \/ BuildStart(c) \/ BuildDone(c) \/ BuildError(c)
                                     \/ CheckNeedsDeploy(c)
          BY <1>4, <4>1 DEF BuildStart, BuildDone, BuildError, CheckNeedsDeploy
        <4>2. CASE TxFailed \/ PublishFailed
          BY <1>4, <4>2 DEF TxFailed, PublishFailed, ChunkFailed
        <4>3. CASE \/ \E c \in Crates : \E all \in BOOLEAN : BuildProgress(c, all)
                   \/ \E S \in SUBSET Crates : ChunkStart(S)
                   \/ PublishStart \/ SignRequest \/ SignComplete \/ SignError
                   \/ PublishDone \/ ChunkEnds \/ NextLayer
          BY <4>3 DEF BuildProgress, ChunkStart, PublishStart, SignRequest, SignComplete,
                      SignError, PublishDone, ChunkEnds, NextLayer
        <4> QED
          BY <1>6, <2>3, <4>1, <4>2, <4>3 DEF TableStep
      <3> QED
        BY <1>1, <1>2, <1>4, <2>1, <3>1
    <2> QED
      BY <2>2, <2>3
  <1> QED
    BY <1>5, <1>6

\* InstallInv follows when the queue, the results and cdm.json are as they were
\* and the packages keep their entries.
LEMMA QuietInstall ==
    ASSUME InputInv, InstallInv, UNCHANGED <<flags, project, pc, installVars, manifest>>,
           flags.cmd = "prestep" /\ pc \in InstallPhase \cup {"args"} =>
               \A p \in Packages : chain'[DeployRegistry][p] = chain[DeployRegistry][p]
    PROVE  InstallInv'
  <1>1. /\ Packages' = Packages /\ DeployRegistry' = DeployRegistry
        /\ Requests(flags.args)' = Requests(flags.args)
    BY DEF Packages, Package, Crates, DeployRegistry, Requests, DependencyRequests
  <1>2. UNCHANGED <<queue, lib, results, errors>>
    BY DEF installVars
  <1>3. /\ (\A p : Queued(p)' <=> Queued(p)) /\ (\A p : InstalledNow(p)' <=> InstalledNow(p))
    BY <1>2 DEF Queued, InstalledNow
  <1>4. ASSUME flags.cmd = "prestep", pc \in InstallPhase \cup {"args"}
        PROVE  /\ \A p \in Packages : Mine(p)'
               /\ ~errors => \A p \in Packages : Queued(p) \/ InstalledNow(p)
               /\ \A k \in 1..Len(queue) : queue[k].ver = Latest
               /\ \A k \in 1..Len(results) : results[k].lib \in Packages =>
                      results[k].ver = chain'[DeployRegistry][results[k].lib].version
    BY <1>1, <1>4 DEF InstallInv, Mine
  <1>5. ASSUME flags.cmd = "install", pc \in InstallPhase
        PROVE  /\ \A k \in 1..Len(queue) :
                      \E j \in 1..Len(Requests(flags.args)) : Requests(flags.args)[j] = queue[k]
               /\ \A k \in 1..Len(results) : \E j \in 1..Len(Requests(flags.args)) :
                      /\ Requests(flags.args)[j].lib = results[k].lib
                      /\ Requests(flags.args)[j].ver \in {Latest, results[k].ver}
    BY <1>5 DEF InstallInv
  <1>6. /\ queue \in Seq(Request) /\ results \in Seq(Request)
        /\ lib \in {"idle", "querying", "fetching"} /\ errors \in BOOLEAN
        /\ lib # "idle" \/ pc = "args" => queue # <<>>
        /\ lib = "fetching" => results # <<>> /\ results[Len(results)].lib = Head(queue).lib
        /\ pc \notin {"installing", "ended"} => results = <<>> /\ lib = "idle" /\ ~errors
        /\ \A k \in 1..Len(results) : results[k].ver > 0
    BY DEF InstallInv
  <1> QED
    BY <1>1, <1>2, <1>3, <1>4, <1>5, <1>6 DEF InstallInv

\* FrontendSeesDeployed is about an end the command has not reached.
LEMMA RunningEnd ==
    ASSUME exit' = "running", pc' # "ended"
    PROVE  EndInv'
  BY DEF EndInv, FrontendSeesDeployed

\* A builder event.
LEMMA TableCommand ==
    ASSUME IInv, TableStep
    PROVE  IInv'
  <1>1. /\ UNCHANGED <<flags, project, pc, installVars, manifest, exit>> /\ pc = "pipeline"
        /\ exit = "running"
    BY TableFrame, TableStepsInPipeline, StepsRun, StepKinds
  <1>2. TableInv'
    BY NextTable, StepKinds DEF IInv
  <1>3. InstallInv'
    BY <1>1, QuietInstall DEF IInv, TableInv, InstallPhase
  <1>4. Crates' = Crates /\ DeployRegistry' = DeployRegistry /\ \A c : Package(c)' = Package(c)
    BY <1>1 DEF Crates, DeployRegistry, Package
  <1>5. TargetInv'
    BY <1>1, <1>4, TableStepOwns DEF IInv, TargetInv, Mine, DeployPhase, InstallPhase
  <1>6. EndInv'
    BY <1>1, RunningEnd
  <1> QED
    BY <1>2, <1>3, <1>5, <1>6 DEF IInv

\* Another account's registration takes a package nobody has.
LEMMA OtherCommand ==
    ASSUME IInv, OtherStep
    PROVE  IInv'
  <1>1. /\ UNCHANGED <<flags, project, pc, deployVars, installVars, manifest, exit>>
        /\ exit = "running" /\ pc # "ended"
    BY OtherFrame, StepsRun, StepKinds DEF IInv, EndInv
  <1>2. PICK r \in Registries, l \in Libs :
            /\ chain[r][l].version = 0
            /\ chain' = [chain EXCEPT ![r][l] = [version |-> 1, owner |-> "other"]]
    BY DEF OtherStep, OtherRegisters
  <1>3. chain \in Chains
    BY DEF IInv, TargetInv
  <1> DEFINE new == [version |-> 1, owner |-> "other"]
  <1>4. new \in [version : Nat, owner : {"nobody", "me", "other"}] /\ new.owner = "other"
    OBVIOUS
  <1> HIDE DEF new
  <1>5. chain' = [chain EXCEPT ![r][l] = new]
    BY <1>2 DEF new
  <1>6. chain' \in [Registries -> [Libs -> [version : Nat, owner : {"nobody", "me", "other"}]]]
    BY <1>3, <1>4, <1>5 DEF Chains
  <1>7. \A q \in Registries, m \in Libs :
            chain'[q][m] = IF q = r /\ m = l THEN new ELSE chain[q][m]
    BY <1>3, <1>5 DEF Chains
  <1>8. chain' \in Chains
    BY <1>3, <1>4, <1>6, <1>7 DEF Chains
  <1>9. \A q \in Registries, m \in Libs : chain[q][m].owner = "me" => chain'[q][m] = chain[q][m]
    BY <1>2, <1>3, <1>7 DEF Chains
  <1>10. TableInv'
    BY NextTable, StepKinds DEF IInv
  <1>11. Crates' = Crates /\ DeployRegistry' = DeployRegistry /\ \A c : Package(c)' = Package(c)
    BY <1>1 DEF Crates, DeployRegistry, Package
  <1>12. InputInv /\ Packages \subseteq Libs
         /\ \A c \in Crates : Package(c) \in Libs \cup {NoPackage}
    BY PackagesAreLibs DEF IInv, TableInv
  <1>13. TargetInv'
    <2>1. InstallRegistry' = InstallRegistry
      BY <1>1 DEF InstallRegistry
    <2>2. work' = work
      BY <1>1 DEF deployVars
    <2>3. DeployRegistry \in Registries => \A c \in Crates :
              work[c] \in {"done", "cached"} /\ Package(c) # NoPackage => Mine(Package(c))'
      BY <1>9, <1>11, <1>12 DEF IInv, TargetInv, Mine
    <2> QED
      BY <1>1, <1>8, <1>11, <2>1, <2>2, <2>3 DEF IInv, TargetInv
  <1>14. InstallInv'
    <2>1. ASSUME flags.cmd = "prestep", pc \in InstallPhase \cup {"args"}
          PROVE  \A p \in Packages : chain'[DeployRegistry][p] = chain[DeployRegistry][p]
      <3>1. DeployRegistry \in Registries
        BY <2>1 DEF IInv, TargetInv, InstallPhase
      <3>2. \A p \in Packages : chain[DeployRegistry][p].owner = "me"
        BY <2>1 DEF IInv, InstallInv, Mine
      <3> QED
        BY <1>9, <1>12, <3>1, <3>2
    <2> QED
      BY <1>1, <1>12, <2>1, QuietInstall DEF IInv
  <1>15. EndInv'
    BY <1>1, RunningEnd
  <1> QED
    BY <1>10, <1>13, <1>14, <1>15 DEF IInv

\* What is left of a queue of requests.
LEMMA TailFacts ==
    ASSUME NEW q \in Seq(Request), q # <<>>
    PROVE  /\ Tail(q) \in Seq(Request) /\ Head(q) = q[1] /\ Head(q) \in Request
           /\ 1 \in 1..Len(q)
           /\ \A k \in 1..Len(Tail(q)) : \E j \in 1..Len(q) : Tail(q)[k] = q[j]
           /\ \A k \in 1..Len(q) : k = 1 \/ \E j \in 1..Len(Tail(q)) : Tail(q)[j] = q[k]
  <1>1. Len(q) \in Nat /\ Len(q) >= 1 /\ Len(Tail(q)) = Len(q) - 1
    OBVIOUS
  <1>2. \A k \in 1..Len(Tail(q)) : Tail(q)[k] = q[k + 1] /\ k + 1 \in 1..Len(q)
    BY <1>1
  <1>3. \A k \in 1..Len(q) : k = 1 \/ (k - 1 \in 1..Len(Tail(q)) /\ Tail(q)[k - 1] = q[k])
    BY <1>1
  <1> QED
    BY <1>1, <1>2, <1>3

\* What a query resolves to.
LEMMA ResolvedFacts ==
    ASSUME chain \in Chains, InstallRegistry \in Registries, NEW req \in Request,
           Resolved(req) # Absent
    PROVE  /\ Resolved(req) \in Nat /\ Resolved(req) > 0
           /\ req.ver \in {Latest, Resolved(req)}
           /\ req.ver = Latest => Resolved(req) = chain[InstallRegistry][req.lib].version
  <1> DEFINE known == chain[InstallRegistry][req.lib].version
  <1>1. known \in Nat /\ req.ver \in Versions
    BY DEF Chains, Request
  <1>2. Resolved(req) = IF req.ver = Latest THEN known
                        ELSE IF req.ver <= known THEN req.ver ELSE Absent
    BY DEF Resolved
  <1> HIDE DEF known
  <1>3. Resolved(req) \in Nat /\ Resolved(req) > 0 /\ req.ver \in {Latest, Resolved(req)}
    BY <1>1, <1>2 DEF Versions, Latest, Absent
  <1> QED
    BY <1>2, <1>3 DEF known

\* An installer event.
LEMMA QueueCommand ==
    ASSUME IInv, QueueStep
    PROVE  IInv'
  <1>1. /\ UNCHANGED <<flags, project, pc, chain, deployVars, manifest, exit>>
        /\ exit = "running" /\ pc = "installing" /\ queue # <<>>
    <2>1. exit = "running" /\ pc = "installing" /\ queue # <<>>
      BY DEF QueueStep, QueryStart, QueryDone, InstallDone, InstallError, Installing, Doing
    <2> QED
      BY <2>1, QueueFrame
  <1>2. TableInv'
    BY NextTable, StepKinds DEF IInv
  <1>3. /\ Crates' = Crates /\ DeployRegistry' = DeployRegistry /\ (\A c : Package(c)' = Package(c))
        /\ Packages' = Packages /\ InstallRegistry' = InstallRegistry
        /\ Requests(flags.args)' = Requests(flags.args) /\ (\A p : Mine(p)' <=> Mine(p))
    BY <1>1 DEF Crates, DeployRegistry, Package, Packages, InstallRegistry, Requests,
                DependencyRequests, Mine
  <1>4. TargetInv'
    <2>1. work' = work
      BY <1>1 DEF deployVars
    <2> QED
      BY <1>1, <1>3, <2>1 DEF IInv, TargetInv
  <1>5. EndInv'
    BY <1>1, RunningEnd
  <1> DEFINE R == Requests(flags.args)
             h == Head(queue)
  <1>6. /\ queue \in Seq(Request) /\ results \in Seq(Request) /\ InstallRegistry \in Registries
        /\ chain \in Chains /\ errors \in BOOLEAN
        /\ \A k \in 1..Len(results) : results[k].ver > 0
        /\ lib = "fetching" => results # <<>> /\ results[Len(results)].lib = h.lib
    BY <1>1 DEF IInv, InstallInv, TargetInv, InstallPhase
  <1>7. flags.cmd = "prestep" =>
            /\ \A p \in Packages : Mine(p)
            /\ ~errors => \A p \in Packages : Queued(p) \/ InstalledNow(p)
            /\ \A k \in 1..Len(queue) : queue[k].ver = Latest
            /\ \A k \in 1..Len(results) : results[k].lib \in Packages =>
                   results[k].ver = chain[DeployRegistry][results[k].lib].version
            /\ InstallRegistry = DeployRegistry
    <2>1. flags.cmd = "prestep" => DeployRegistry \in Registries
      BY <1>1 DEF IInv, TargetInv
    <2>2. InputInv
      BY DEF IInv, TableInv
    <2> QED
      BY <1>1, <2>1, <2>2, RegistryFacts DEF IInv, InstallInv, InstallPhase
  <1>8. flags.cmd = "install" =>
            /\ \A k \in 1..Len(queue) : \E j \in 1..Len(R) : R[j] = queue[k]
            /\ \A k \in 1..Len(results) : \E j \in 1..Len(R) :
                   R[j].lib = results[k].lib /\ R[j].ver \in {Latest, results[k].ver}
    BY <1>1 DEF IInv, InstallInv, InstallPhase
  <1>9. /\ Tail(queue) \in Seq(Request) /\ h = queue[1] /\ h \in Request
        /\ 1 \in 1..Len(queue)
        /\ \A k \in 1..Len(Tail(queue)) : \E j \in 1..Len(queue) : Tail(queue)[k] = queue[j]
        /\ \A k \in 1..Len(queue) :
               k = 1 \/ \E j \in 1..Len(Tail(queue)) : Tail(queue)[j] = queue[k]
    BY <1>1, <1>6, TailFacts
  <1> SUFFICES InstallInv'
    BY <1>2, <1>4, <1>5 DEF IInv
  <1>10. ASSUME queue' \in Seq(Request), results' \in Seq(Request), errors' \in BOOLEAN,
                lib' \in {"idle", "querying", "fetching"}, lib' # "idle" => queue' # <<>>,
                lib' = "fetching" => results' # <<>> /\ results'[Len(results')].lib = Head(queue').lib,
                \A k \in 1..Len(results') : results'[k].ver > 0,
                flags.cmd = "prestep" =>
                    /\ ~errors' => \A p \in Packages : Queued(p)' \/ InstalledNow(p)'
                    /\ \A k \in 1..Len(queue') : queue'[k].ver = Latest
                    /\ \A k \in 1..Len(results') : results'[k].lib \in Packages =>
                           results'[k].ver = chain[DeployRegistry][results'[k].lib].version,
                flags.cmd = "install" =>
                    /\ \A k \in 1..Len(queue') : \E j \in 1..Len(R) : R[j] = queue'[k]
                    /\ \A k \in 1..Len(results') : \E j \in 1..Len(R) :
                           R[j].lib = results'[k].lib /\ R[j].ver \in {Latest, results'[k].ver}
         PROVE  InstallInv'
    BY <1>1, <1>3, <1>7, <1>10 DEF InstallInv
  <1>11. CASE QueryStart
    <2>1. UNCHANGED <<queue, results, errors>> /\ lib' = "querying"
      BY <1>11 DEF QueryStart
    <2>2. (\A p : Queued(p)' <=> Queued(p)) /\ (\A p : InstalledNow(p)' <=> InstalledNow(p))
      BY <2>1 DEF Queued, InstalledNow
    <2> HIDE DEF R, h
    <2> QED
      BY <1>1, <1>6, <1>7, <1>8, <1>10, <2>1, <2>2
  <1>12. CASE QueryDone
    <2> DEFINE item == [lib |-> h.lib, ver |-> Resolved(h)]
    <2>1. /\ UNCHANGED <<queue, errors>> /\ lib' = "fetching"
          /\ Resolved(h) # Absent /\ results' = Append(results, item)
      BY <1>12 DEF QueryDone
    <2>2. /\ Resolved(h) \in Nat /\ Resolved(h) > 0 /\ h.ver \in {Latest, Resolved(h)}
          /\ h.ver = Latest => Resolved(h) = chain[InstallRegistry][h.lib].version
      BY <1>6, <1>9, <2>1, ResolvedFacts
    <2>3. item \in Request /\ item.lib = h.lib /\ item.ver = Resolved(h)
      BY <1>9, <2>2 DEF Request, Versions
    <2> HIDE DEF item, h, R
    <2>4. /\ results' \in Seq(Request) /\ results' # <<>> /\ results'[Len(results')] = item
          /\ \A k \in 1..Len(results') : results'[k] = item \/
                 (k \in 1..Len(results) /\ results'[k] = results[k])
          /\ \A k \in 1..Len(results) : k \in 1..Len(results') /\ results'[k] = results[k]
      BY <1>6, <2>1, <2>3
    <2>5. \A p : Queued(p)' <=> Queued(p)
      BY <2>1 DEF Queued
    <2>6. \A p : InstalledNow(p) => InstalledNow(p)'
      <3> SUFFICES ASSUME NEW p, InstalledNow(p) PROVE InstalledNow(p)'
        OBVIOUS
      <3>1. PICK k \in 1..Len(results) : results[k].lib = p
        BY DEF InstalledNow
      <3>2. k \in 1..Len(results') /\ results'[k].lib = p
        BY <2>4, <3>1
      <3> QED
        BY <3>2 DEF InstalledNow
    <2>7. \A k \in 1..Len(results') : results'[k].ver > 0
      BY <1>6, <2>2, <2>3, <2>4
    <2>8. flags.cmd = "prestep" =>
              \A k \in 1..Len(results') : results'[k].lib \in Packages =>
                  results'[k].ver = chain[DeployRegistry][results'[k].lib].version
      BY <1>7, <1>9, <2>2, <2>3, <2>4
    <2>9. flags.cmd = "install" => \A k \in 1..Len(results') : \E j \in 1..Len(R) :
              R[j].lib = results'[k].lib /\ R[j].ver \in {Latest, results'[k].ver}
      <3> SUFFICES ASSUME flags.cmd = "install", NEW k \in 1..Len(results')
                   PROVE  \E j \in 1..Len(R) :
                              R[j].lib = results'[k].lib /\ R[j].ver \in {Latest, results'[k].ver}
        OBVIOUS
      <3>1. CASE results'[k] = item
        <4>1. PICK j \in 1..Len(R) : R[j] = h
          BY <1>8, <1>9
        <4>2. R[j].lib = results'[k].lib /\ R[j].ver \in {Latest, results'[k].ver}
          BY <2>2, <2>3, <3>1, <4>1
        <4> QED
          BY <4>2
      <3>2. CASE k \in 1..Len(results) /\ results'[k] = results[k]
        BY <1>8, <3>2
      <3> QED
        BY <2>4, <3>1, <3>2
    <2>10. Head(queue') = h
      BY <2>1 DEF h
    <2> QED
      BY <1>1, <1>6, <1>7, <1>8, <1>10, <2>1, <2>3, <2>4, <2>5, <2>6, <2>7, <2>8, <2>9, <2>10
  <1>13. CASE InstallDone
    <2>1. /\ UNCHANGED <<results, errors>> /\ lib = "fetching" /\ lib' = "idle"
          /\ queue' = Tail(queue)
      BY <1>13 DEF InstallDone
    <2> HIDE DEF R, h
    <2>2. \A p : Queued(p) \/ InstalledNow(p) => Queued(p)' \/ InstalledNow(p)'
      <3> SUFFICES ASSUME NEW p, Queued(p) \/ InstalledNow(p)
                   PROVE  Queued(p)' \/ InstalledNow(p)'
        OBVIOUS
      <3>1. CASE InstalledNow(p)
        BY <2>1, <3>1 DEF InstalledNow
      <3>2. CASE Queued(p)
        <4>1. PICK k \in 1..Len(queue) : queue[k].lib = p
          BY <3>2 DEF Queued
        <4>2. CASE k = 1
          <5>1. results # <<>> /\ results[Len(results)].lib = p
            BY <1>6, <1>9, <2>1, <4>1, <4>2
          <5>2. Len(results) \in 1..Len(results)
            BY <1>6, <5>1
          <5> QED
            BY <2>1, <5>1, <5>2 DEF InstalledNow
        <4>3. CASE k # 1
          BY <1>9, <2>1, <4>1, <4>3 DEF Queued
        <4> QED
          BY <4>2, <4>3
      <3> QED
        BY <3>1, <3>2
    <2>3. flags.cmd = "prestep" => \A k \in 1..Len(queue') : queue'[k].ver = Latest
      BY <1>7, <1>9, <2>1
    <2>4. flags.cmd = "install" => \A k \in 1..Len(queue') : \E j \in 1..Len(R) : R[j] = queue'[k]
      BY <1>8, <1>9, <2>1
    <2> QED
      BY <1>6, <1>7, <1>8, <1>9, <1>10, <2>1, <2>2, <2>3, <2>4
  <1>14. CASE InstallError
    <2>1. /\ errors' = TRUE /\ lib' = "idle" /\ queue' = Tail(queue)
          /\ results' = IF lib = "fetching" THEN Front(results) ELSE results
      BY <1>14 DEF InstallError
    <2> HIDE DEF R, h
    <2>2. /\ results' \in Seq(Request)
          /\ \A k \in 1..Len(results') : k \in 1..Len(results) /\ results'[k] = results[k]
      <3>1. CASE lib = "fetching"
        <4>1. Len(results) \in Nat /\ Len(results) >= 1
          BY <1>6, <3>1
        <4> QED
          BY <1>6, <2>1, <3>1, <4>1 DEF Front
      <3>2. CASE lib # "fetching"
        BY <1>6, <2>1, <3>2
      <3> QED
        BY <3>1, <3>2
    <2>3. flags.cmd = "prestep" => \A k \in 1..Len(queue') : queue'[k].ver = Latest
      BY <1>7, <1>9, <2>1
    <2>4. flags.cmd = "install" => \A k \in 1..Len(queue') : \E j \in 1..Len(R) : R[j] = queue'[k]
      BY <1>8, <1>9, <2>1
    <2>5. \A k \in 1..Len(results') : results'[k].ver > 0
      BY <1>6, <2>2
    <2>6. flags.cmd = "prestep" => \A k \in 1..Len(results') : results'[k].lib \in Packages =>
              results'[k].ver = chain[DeployRegistry][results'[k].lib].version
      BY <1>7, <2>2
    <2>7. flags.cmd = "install" => \A k \in 1..Len(results') : \E j \in 1..Len(R) :
              R[j].lib = results'[k].lib /\ R[j].ver \in {Latest, results'[k].ver}
      BY <1>8, <2>2
    <2>8. errors' \in BOOLEAN /\ ~(~errors')
      BY <2>1
    <2> QED
      BY <1>9, <1>10, <2>1, <2>2, <2>3, <2>4, <2>5, <2>6, <2>7, <2>8
  <1> QED
    BY <1>11, <1>12, <1>13, <1>14 DEF QueueStep

\* The end of a command that does not go on to the frontend.
LEMMA EndCommand ==
    ASSUME IInv, TableInv', pc' = "ended", exit' # "running",
           exit' = "ok" => flags.cmd # "prestep",
           UNCHANGED <<flags, project, chain, deployVars, installVars, manifest>>
    PROVE  IInv'
  <1>1. /\ Crates' = Crates /\ DeployRegistry' = DeployRegistry
        /\ \A c : Package(c)' = Package(c) /\ Mine(Package(c))' = Mine(Package(c))
    BY DEF Crates, DeployRegistry, Package, Mine
  <1>2. TargetInv'
    <2>1. work' = work
      BY DEF deployVars
    <2> QED
      BY <1>1, <2>1 DEF IInv, TargetInv, DeployPhase, InstallPhase
  <1>3. InstallInv'
    <2>1. UNCHANGED <<queue, lib, results, errors>>
      BY DEF installVars
    <2> QED
      BY <2>1 DEF IInv, InstallInv, InstallPhase
  <1>4. EndInv'
    BY DEF EndInv, FrontendSeesDeployed
  <1> QED
    BY <1>2, <1>3, <1>4 DEF IInv

\* A step that moves on and leaves the queue and cdm.json.
LEMMA MoveCommand ==
    ASSUME IInv, TableInv', pc' # "ended", exit' = "running",
           UNCHANGED <<flags, project, chain, deployVars, installVars, manifest>>,
           \/ pc = "start" /\ pc' = "signer" /\ flags.cmd # "install" /\ DeployRegistry # "none"
           \/ pc \in DeployPhase /\ pc' \in DeployPhase
           \/ pc = "reader" /\ pc' = "registry"
           \/ pc = "registry" /\ pc' = "installing"
           \/ pc' = pc
    PROVE  IInv'
  <1>1. /\ Crates' = Crates /\ DeployRegistry' = DeployRegistry
        /\ InstallRegistry' = InstallRegistry /\ Packages' = Packages
        /\ Requests(flags.args)' = Requests(flags.args)
        /\ (\A c : Package(c)' = Package(c)) /\ (\A p : Mine(p)' = Mine(p))
    BY DEF Crates, DeployRegistry, InstallRegistry, Package, Packages, Mine, Requests,
           DependencyRequests
  <1>2. TargetInv'
    <2>1. work' = work
      BY DEF deployVars
    <2>2. DeployRegistry \in Registries \cup {"none"}
      BY RegistryFacts DEF IInv, TableInv
    <2> QED
      BY <1>1, <2>1, <2>2 DEF IInv, TargetInv, DeployPhase, InstallPhase
  <1>3. InstallInv'
    <2>1. UNCHANGED <<queue, lib, results, errors>>
      BY DEF installVars
    <2>2. (\A p : Queued(p)' <=> Queued(p)) /\ (\A p : InstalledNow(p)' <=> InstalledNow(p))
      BY <2>1 DEF Queued, InstalledNow
    <2>3. /\ pc' \in InstallPhase \cup {"args"} => pc \in InstallPhase \cup {"args"}
          /\ pc' \in InstallPhase => pc \in InstallPhase
          /\ pc' \notin {"installing", "ended"} => pc \notin {"installing", "ended"}
          /\ pc' = "args" => pc = "args"
      BY DEF InstallPhase, DeployPhase
    <2> QED
      BY <1>1, <2>1, <2>2, <2>3 DEF IInv, InstallInv
  <1>4. EndInv'
    BY RunningEnd
  <1> QED
    BY <1>2, <1>3, <1>4 DEF IInv

\* The deploy ends; the wizard asks for every package it has deployed.
LEMMA DeployReturnsCommand ==
    ASSUME IInv, DeployReturns
    PROVE  IInv'
  <1>1. /\ pc = "pipeline" /\ exit = "running" /\ layer > Len(project.layers)
        /\ UNCHANGED <<flags, project, chain, deployVars, lib, irow, results, errors, manifest>>
    BY DEF DeployReturns, PipelineOver, Doing
  <1>2. TableInv'
    BY NextTable, StepKinds DEF IInv, CommandStep
  <1>3. CASE pc' = "ended"
    <2>1. /\ exit' # "running" /\ (exit' = "ok" => flags.cmd # "prestep")
          /\ queue' = queue
      BY <1>1, <1>3 DEF DeployReturns
    <2> QED
      BY <1>1, <1>2, <1>3, <2>1, EndCommand DEF installVars
  <1>4. CASE pc' # "ended"
    <2> DEFINE order == SetToSeq(InstallLibraries)
    <2>1. /\ flags.cmd = "prestep" /\ DeploySuccess /\ InstallLibraries # {}
          /\ pc' = "args" /\ exit' = "running"
          /\ queue' = [i \in 1..Len(order) |-> [lib |-> order[i], ver |-> Latest]]
      BY <1>1, <1>4 DEF DeployReturns
    <2>2. InputInv /\ Packages \subseteq Libs /\ IsFiniteSet(Packages)
          /\ \A c \in Crates : Package(c) \in Libs \cup {NoPackage}
      <3>1. InputInv
        BY DEF IInv, TableInv
      <3>2. Packages \subseteq Libs /\ \A c \in Crates : Package(c) \in Libs \cup {NoPackage}
        BY <3>1, PackagesAreLibs
      <3> QED
        BY <3>1, <3>2, ContractAssumption, FS_Subset
    <2>3. InstallLibraries = Packages
      BY <2>1 DEF InstallLibraries, Packages, DeploySuccess
    <2>4. DeployRegistry \in Registries
      BY <1>1, <2>1 DEF IInv, TargetInv
    <2>5. \A c \in Crates : work[c] \in {"done", "cached"}
      <3> SUFFICES ASSUME NEW c \in Crates PROVE work[c] \in {"done", "cached"}
        OBVIOUS
      <3>1. PICK i \in 1..Len(project.layers) : c \in CratesIn(i)
        BY <2>2 DEF InputInv, IsProject, Crates, CratesIn
      <3>2. i < layer
        BY <1>1, <2>2 DEF InputInv, IsProject, IInv, TableInv, TableType
      <3>3. work[c] \in Settled
        BY <3>1, <3>2 DEF IInv, TableInv, LayerInv
      <3> QED
        BY <2>1, <3>3 DEF Settled, DeploySuccess
    <2>6. \A p \in Packages : Mine(p)
      BY <2>4, <2>5 DEF IInv, TargetInv, Packages
    <2>7. /\ order \in Seq(Packages) /\ Len(order) = Cardinality(Packages)
          /\ \A p \in Packages : \E i \in 1..Len(order) : order[i] = p
      BY <2>2, <2>3, SetToSeqLists
    <2>8. /\ Crates' = Crates /\ DeployRegistry' = DeployRegistry /\ Packages' = Packages
          /\ (\A c : Package(c)' = Package(c)) /\ (\A p : Mine(p)' = Mine(p))
      BY <1>1 DEF Crates, DeployRegistry, Package, Packages, Mine
    <2>9. TargetInv'
      <3>1. work' = work
        BY <1>1 DEF deployVars
      <3> QED
        BY <1>1, <2>1, <2>4, <2>8, <3>1 DEF IInv, TargetInv, DeployPhase, InstallPhase
    <2> HIDE DEF order
    <2>10. \A i \in 1..Len(order) : [lib |-> order[i], ver |-> Latest] \in Request
      <3>1. \A i \in 1..Len(order) : order[i] \in Libs
        BY <2>2, <2>7
      <3> QED
        BY <3>1 DEF Request, Versions
    <2>11. /\ queue' \in Seq(Request) /\ Len(queue') = Len(order)
           /\ \A i \in 1..Len(queue') : queue'[i].lib = order[i] /\ queue'[i].ver = Latest
      BY <2>1, <2>7, <2>10
    <2>12. \A p \in Packages : Queued(p)'
      BY <2>7, <2>11 DEF Queued
    <2>13. queue' # <<>>
      <3>1. PICK p : p \in Packages
        BY <2>1, <2>3
      <3>2. PICK i \in 1..Len(order) : order[i] = p
        BY <2>7, <3>1
      <3>3. Len(order) \in Nat /\ Len(order) > 0
        BY <2>7, <3>2
      <3> QED
        BY <2>11, <3>3
    <2>14. InstallInv'
      <3>1. results = <<>> /\ lib = "idle" /\ ~errors /\ errors \in BOOLEAN
        BY <1>1 DEF IInv, InstallInv
      <3>2. results' = <<>> /\ lib' = "idle" /\ ~errors' /\ errors' \in BOOLEAN
            /\ results' \in Seq(Request) /\ 1..Len(results') = {}
        BY <1>1, <3>1
      <3> QED
        BY <1>1, <2>1, <2>6, <2>8, <2>11, <2>12, <2>13, <3>2 DEF InstallInv, InstallPhase
    <2>15. EndInv'
      BY <2>1, RunningEnd
    <2> QED
      BY <1>2, <2>9, <2>14, <2>15 DEF IInv
  <1> QED
    BY <1>3, <1>4

\* The requests become the queue.
LEMMA StartInstallCommand ==
    ASSUME IInv, StartInstall, ~Refuse
    PROVE  IInv'
  <1> DEFINE args == IF pc = "args" THEN queue ELSE flags.args
             R == Requests(flags.args)
  <1>1. /\ pc = "args" \/ (pc = "start" /\ flags.cmd = "install")
        /\ exit = "running" /\ pc' = "reader" /\ InstallRegistry # "none"
        /\ Requests(args) # <<>> /\ queue' = Requests(args)
        /\ UNCHANGED <<flags, project, chain, deployVars, lib, results, errors, manifest, exit>>
    BY DEF StartInstall, Doing
  <1>2. TableInv'
    BY NextTable, StepKinds DEF IInv, CommandStep
  <1>3. InputInv /\ manifest \in Manifests
    BY DEF IInv, TableInv, TargetInv
  <1>4. InstallRegistry \in Registries
    <2>1. flags.registry \in Registries \cup {NoFlag} /\ manifest.registry \in Registries \cup {"none"}
      BY <1>3 DEF InputInv, CommandLines, Manifests
    <2> QED
      BY <1>1, <2>1 DEF InstallRegistry, Registries
  <1>5. /\ Crates' = Crates /\ DeployRegistry' = DeployRegistry /\ Packages' = Packages
        /\ InstallRegistry' = InstallRegistry /\ R' = R
        /\ (\A c : Package(c)' = Package(c)) /\ (\A p : Mine(p)' = Mine(p))
    BY <1>1 DEF Crates, DeployRegistry, Package, Packages, Mine, InstallRegistry, Requests,
                DependencyRequests
  <1>6. TargetInv'
    <2>1. work' = work
      BY <1>1 DEF deployVars
    <2> QED
      BY <1>1, <1>4, <1>5, <2>1 DEF IInv, TargetInv, DeployPhase, InstallPhase
  <1>7. EndInv'
    BY <1>1, RunningEnd
  <1>8. pc = "args" => flags.cmd = "prestep" /\ queue' = queue
    BY <1>1 DEF IInv, TargetInv, InstallInv, Requests
  <1>9. pc = "start" => flags.cmd = "install" /\ queue' = R
    BY <1>1
  <1>10. R \in Seq(Request)
    BY <1>3, RequestsType
  <1>11. /\ results = <<>> /\ lib = "idle" /\ ~errors /\ errors \in BOOLEAN
         /\ queue \in Seq(Request)
    BY <1>1 DEF IInv, InstallInv
  <1> HIDE DEF args, R
  <1>12. /\ results' = <<>> /\ lib' = "idle" /\ ~errors' /\ errors' \in BOOLEAN
         /\ results' \in Seq(Request) /\ 1..Len(results') = {}
         /\ queue' \in Seq(Request)
    BY <1>1, <1>8, <1>9, <1>10, <1>11
  <1>13. ASSUME flags.cmd = "prestep"
         PROVE  /\ \A p \in Packages : Mine(p)' /\ Queued(p)'
                /\ \A k \in 1..Len(queue') : queue'[k].ver = Latest
    <2>1. pc = "args"
      BY <1>1, <1>13
    <2>2. queue' = queue
      BY <1>8, <2>1
    <2>3. \A p \in Packages : Queued(p) \/ InstalledNow(p)
      BY <1>11, <1>13, <2>1 DEF IInv, InstallInv
    <2>4. \A p : ~InstalledNow(p)
      BY <1>11 DEF InstalledNow
    <2>5. \A p : Queued(p)' <=> Queued(p)
      BY <2>2 DEF Queued
    <2> QED
      BY <1>5, <1>13, <2>1, <2>2, <2>3, <2>4, <2>5 DEF IInv, InstallInv
  <1>14. ASSUME flags.cmd = "install"
         PROVE  \A k \in 1..Len(queue') : \E j \in 1..Len(R) : R[j] = queue'[k]
    <2>1. queue' = R
      BY <1>1, <1>8, <1>9, <1>14
    <2> QED
      BY <2>1
  <1>15. InstallInv'
    BY <1>1, <1>5, <1>12, <1>13, <1>14 DEF InstallInv, R
  <1> QED
    BY <1>2, <1>6, <1>7, <1>15 DEF IInv

\* What is written to cdm.json.
LEMMA UpdatedFacts ==
    ASSUME manifest \in Manifests
    PROVE  /\ Updated.legacy = manifest.legacy /\ Updated.registry = InstallRegistry
           /\ \A l \in Libs : Updated.deps[l] = IF InstalledNow(l) THEN RequestedVersion(l)
                                                ELSE manifest.deps[l]
           /\ \A l \in Libs : Updated.pins[l] = IF InstalledNow(l) THEN LastResult(l)
                                                ELSE manifest.pins[l]
  <1> DEFINE deps == [l \in Libs |-> IF InstalledNow(l) THEN RequestedVersion(l)
                                     ELSE manifest.deps[l]]
             pins == [l \in Libs |-> IF InstalledNow(l) THEN LastResult(l)
                                     ELSE manifest.pins[l]]
  <1>1. Updated = [manifest EXCEPT !.registry = InstallRegistry, !.deps = deps, !.pins = pins]
    BY DEF Updated, Manifests
  <1>2. /\ \A l \in Libs : deps[l] = IF InstalledNow(l) THEN RequestedVersion(l)
                                     ELSE manifest.deps[l]
        /\ \A l \in Libs : pins[l] = IF InstalledNow(l) THEN LastResult(l)
                                     ELSE manifest.pins[l]
    OBVIOUS
  <1> HIDE DEF deps, pins
  <1>3. /\ Updated.legacy = manifest.legacy /\ Updated.registry = InstallRegistry
        /\ Updated.deps = deps /\ Updated.pins = pins
    BY <1>1 DEF Manifests
  <1> QED
    BY <1>2, <1>3

\* A library that is not given twice has one request.
LEMMA OneRequest ==
    ASSUME InputInv, manifest \in Manifests, NEW l, ~Twice(l),
           NEW i \in 1..Len(Requests(flags.args)), NEW j \in 1..Len(Requests(flags.args)),
           Requests(flags.args)[i].lib = l, Requests(flags.args)[j].lib = l
    PROVE  i = j
  <1>1. CASE flags.args # <<>>
    <2> DEFINE T == {k \in DOMAIN flags.args : flags.args[k].lib = l}
    <2>1. flags.args \in Seq(Request) /\ Requests(flags.args) = flags.args
      BY <1>1 DEF Requests, InputInv, CommandLines
    <2>2. Len(flags.args) \in Nat /\ DOMAIN flags.args = 1..Len(flags.args)
      BY <2>1
    <2>3. IsFiniteSet(1..Len(flags.args))
      BY <2>2, FS_Interval
    <2>4. IsFiniteSet(T)
      BY <2>2, <2>3, FS_Subset
    <2>5. i \in T /\ j \in T
      BY <2>1, <2>2
    <2>6. ~(Cardinality(T) > 1)
      BY DEF Twice
    <2> HIDE DEF T
    <2>7. ASSUME i # j PROVE FALSE
      <3>1. IsFiniteSet({i}) /\ Cardinality({i}) = 1
        BY FS_Singleton
      <3>2. Cardinality({i} \cup {j}) = Cardinality({i}) + 1
        BY <2>7, <3>1, FS_AddElement
      <3>3. ({i} \cup {j}) \in SUBSET T
        BY <2>5
      <3> DEFINE both == {i} \cup {j}
                 n == Cardinality(T)
                 m == Cardinality(both)
                 o == Cardinality({i})
      <3>4. m = o + 1 /\ o = 1 /\ ~(n > 1)
        BY <2>6, <3>1, <3>2
      <3>5. both \in SUBSET T
        BY <3>3
      <3> HIDE DEF both
      <3>6. m <= n
        BY <2>4, <3>5, FS_Subset
      <3>7. n \in Nat
        BY <2>4, FS_CardinalityType
      <3> HIDE DEF n, m, o
      <3> QED
        BY <3>4, <3>6, <3>7
    <2> QED
      BY <2>7
  <1>2. CASE flags.args = <<>>
    <2> DEFINE deps == {m \in Libs : manifest.deps[m] # Absent}
               order == SetToSeq(deps)
    <2>1. IsFiniteSet(deps)
      BY ContractAssumption, FS_Subset
    <2>2. /\ order \in Seq(deps)
          /\ \A x, y \in 1..Len(order) : order[x] = order[y] => x = y
      BY <2>1, SetToSeqLists
    <2>3. Requests(flags.args) = [k \in 1..Len(order) |->
                                     [lib |-> order[k], ver |-> manifest.deps[order[k]]]]
      BY <1>2 DEF Requests, DependencyRequests
    <2> HIDE DEF deps, order
    <2>4. /\ Len(Requests(flags.args)) = Len(order)
          /\ \A k \in 1..Len(order) : Requests(flags.args)[k].lib = order[k]
      BY <2>2, <2>3
    <2> QED
      BY <2>2, <2>4
  <1> QED
    BY <1>1, <1>2

\* The pin and the dependency of an installed library.
LEMMA InstalledFacts ==
    ASSUME IInv, pc = "installing", NEW l \in Libs, InstalledNow(l)
    PROVE  /\ LastResult(l) \in Nat \ {0} /\ RequestedVersion(l) \in Versions
           /\ flags.cmd = "prestep" =>
                  /\ RequestedVersion(l) = Latest
                  /\ l \in Packages => LastResult(l) = chain[DeployRegistry][l].version
           /\ ~Twice(l) => RequestedVersion(l) \in {Latest, LastResult(l)}
  <1> DEFINE R == Requests(flags.args)
  <1>1. /\ results \in Seq(Request) /\ InputInv /\ manifest \in Manifests
        /\ \A k \in 1..Len(results) : results[k].ver > 0
        /\ flags.cmd \in {"install", "prestep"}
    <2>1. flags.cmd # "deploy"
      BY DEF IInv, TargetInv, InstallPhase
    <2>2. InputInv /\ manifest \in Manifests
      BY DEF IInv, TableInv, TargetInv
    <2>3. flags.cmd \in {"install", "prestep"}
      BY <2>1, <2>2 DEF InputInv, CommandLines
    <2> QED
      BY <2>2, <2>3 DEF IInv, InstallInv
  <1>2. PICK k \in 1..Len(results) : results[k].lib = l /\ LastResult(l) = results[k].ver
    BY <1>1, LastIsResult
  <1>3. LastResult(l) \in Nat \ {0}
    <2>1. results[k] \in Request
      BY <1>1, <1>2
    <2>2. results[k].ver \in Versions
      BY <2>1 DEF Request
    <2>3. results[k].ver > 0
      BY <1>1
    <2> QED
      BY <1>2, <2>2, <2>3 DEF Versions, Latest
  <1>4. CASE flags.cmd = "prestep"
    <2>1. Asked = [i \in 1..Len(results) |-> [results[i] EXCEPT !.ver = Latest]]
      BY <1>4 DEF Asked
    <2>2. \A i \in 1..Len(results) : /\ [results[i] EXCEPT !.ver = Latest] \in Request
                                     /\ [results[i] EXCEPT !.ver = Latest].lib = results[i].lib
                                     /\ [results[i] EXCEPT !.ver = Latest].ver = Latest
      <3>1. \A i \in 1..Len(results) : results[i] \in Request
        BY <1>1
      <3>2. Latest \in Versions
        BY DEF Versions
      <3> QED
        BY <3>1, <3>2 DEF Request
    <2>3. /\ Asked \in Seq(Request) /\ Len(Asked) = Len(results)
          /\ \A i \in 1..Len(Asked) : Asked[i].lib = results[i].lib /\ Asked[i].ver = Latest
      BY <1>1, <2>1, <2>2
    <2>4. PICK i \in 1..Len(Asked) : RequestedVersion(l) = Asked[i].ver
      BY <1>2, <2>3, RequestedIsAsked
    <2>5. l \in Packages => LastResult(l) = chain[DeployRegistry][l].version
      BY <1>2, <1>4 DEF IInv, InstallInv, InstallPhase
    <2> QED
      BY <1>3, <2>3, <2>4, <2>5 DEF Versions
  <1>5. CASE flags.cmd = "install"
    <2>1. Asked = R /\ R \in Seq(Request)
      BY <1>1, <1>5, RequestsType DEF Asked
    <2>2. PICK j \in 1..Len(R) : R[j].lib = l /\ R[j].ver \in {Latest, results[k].ver}
      BY <1>2, <1>5 DEF IInv, InstallInv, InstallPhase
    <2>3. \E m \in 1..Len(Asked) : Asked[m].lib = l
      BY <2>1, <2>2
    <2>4. PICK i \in 1..Len(Asked) : Asked[i].lib = l /\ RequestedVersion(l) = Asked[i].ver
      BY <2>1, <2>3, RequestedIsAsked
    <2>5. RequestedVersion(l) \in Versions
      <3>1. Asked[i] \in Request
        BY <2>1, <2>4
      <3> QED
        BY <2>4, <3>1 DEF Request
    <2>6. ~Twice(l) => i = j
      BY <1>1, <2>1, <2>2, <2>4, OneRequest
    <2> QED
      BY <1>2, <1>3, <1>5, <2>1, <2>2, <2>4, <2>5, <2>6
  <1> QED
    BY <1>1, <1>4, <1>5

\* cdm.json is written; the wizard goes on when nothing is missing.
LEMMA InstallReturnsCommand ==
    ASSUME IInv, InstallReturns
    PROVE  IInv'
  <1>1. /\ pc = "installing" /\ exit = "running" /\ queue = <<>> /\ manifest' = Updated
        /\ pc' = "ended" /\ exit' # "running" /\ (exit' = "ok" => ~errors)
        /\ UNCHANGED <<flags, project, chain, deployVars, installVars>>
    BY DEF InstallReturns, Doing
  <1>2. TableInv'
    BY NextTable, StepKinds DEF IInv, CommandStep
  <1>3. manifest \in Manifests /\ InputInv /\ InstallRegistry \in Registries
    BY <1>1 DEF IInv, TableInv, TargetInv, InstallPhase
  <1>4. /\ Updated.legacy = manifest.legacy /\ Updated.registry = InstallRegistry
        /\ \A l \in Libs : Updated.deps[l] = IF InstalledNow(l) THEN RequestedVersion(l)
                                             ELSE manifest.deps[l]
        /\ \A l \in Libs : Updated.pins[l] = IF InstalledNow(l) THEN LastResult(l)
                                             ELSE manifest.pins[l]
    BY <1>3, UpdatedFacts
  <1>5. manifest' \in Manifests
    <2> DEFINE deps == [l \in Libs |-> IF InstalledNow(l) THEN RequestedVersion(l)
                                       ELSE manifest.deps[l]]
               pins == [l \in Libs |-> IF InstalledNow(l) THEN LastResult(l)
                                       ELSE manifest.pins[l]]
    <2>1. \A l \in Libs : manifest.deps[l] \in Versions /\ manifest.pins[l] \in Nat
      BY <1>3 DEF Manifests
    <2>2. \A l \in Libs : InstalledNow(l) => LastResult(l) \in Nat /\ RequestedVersion(l) \in Versions
      BY <1>1, InstalledFacts
    <2>3. deps \in [Libs -> Versions] /\ pins \in [Libs -> Nat]
      BY <2>1, <2>2
    <2>4. Updated = [manifest EXCEPT !.registry = InstallRegistry, !.deps = deps, !.pins = pins]
      BY <1>3 DEF Updated, Manifests
    <2> HIDE DEF deps, pins
    <2> QED
      BY <1>1, <1>3, <2>3, <2>4 DEF Manifests
  <1>6. /\ Crates' = Crates /\ DeployRegistry' = DeployRegistry /\ Packages' = Packages
        /\ (\A c : Package(c)' = Package(c)) /\ (\A p : Mine(p)' = Mine(p))
    BY <1>1 DEF Crates, DeployRegistry, Package, Packages, Mine
  <1>7. TargetInv'
    <2>1. work' = work
      BY <1>1 DEF deployVars
    <2> QED
      BY <1>1, <1>5, <1>6, <2>1 DEF IInv, TargetInv, DeployPhase, InstallPhase
  <1>8. InstallInv'
    <2>1. UNCHANGED <<queue, lib, results, errors>>
      BY <1>1 DEF installVars
    <2> QED
      BY <1>1, <2>1 DEF IInv, InstallInv, InstallPhase
  <1>9. EndInv'
    <2> SUFFICES ASSUME flags.cmd = "prestep", exit' = "ok", NEW p \in Packages
                 PROVE  /\ chain[DeployRegistry][p].owner = "me"
                        /\ manifest'.registry = DeployRegistry
                        /\ manifest'.pins[p] = chain[DeployRegistry][p].version
                        /\ manifest'.deps[p] = Latest
      BY <1>1, <1>6 DEF EndInv, FrontendSeesDeployed
    <2>1. DeployRegistry \in Registries /\ InstallRegistry = DeployRegistry
      BY <1>1, <1>3, RegistryFacts DEF IInv, TargetInv
    <2>2. p \in Libs
      BY <1>3, PackagesAreLibs
    <2>3. Mine(p) /\ (Queued(p) \/ InstalledNow(p))
      BY <1>1 DEF IInv, InstallInv, InstallPhase
    <2>4. ~Queued(p)
      BY <1>1 DEF Queued
    <2>5. /\ RequestedVersion(p) = Latest
          /\ LastResult(p) = chain[DeployRegistry][p].version
      BY <1>1, <2>2, <2>3, <2>4, InstalledFacts
    <2> QED
      BY <1>1, <1>4, <2>1, <2>2, <2>3, <2>4, <2>5 DEF Mine
  <1> QED
    BY <1>2, <1>7, <1>8, <1>9 DEF IInv

\* The other steps of the command move on, throw or refuse.
LEMMA OtherCommandSteps ==
    ASSUME IInv, CommandStep, ~DeployReturns, ~InstallReturns, ~(StartInstall /\ ~Refuse)
    PROVE  IInv'
  <1>1. TableInv'
    BY NextTable, StepKinds DEF IInv
  <1>2. exit = "running" /\ pc # "ended" /\ InputInv
    BY StepsRun, StepKinds DEF IInv, EndInv, TableInv
  <1>3. CASE Throw \/ Refuse
    BY <1>1, <1>3, ThrowFrame, EndCommand
  <1>4. CASE ~Throw /\ ~Refuse
    <2>1. /\ exit' = "running" /\ pc' # "ended"
          /\ UNCHANGED <<flags, project, chain, deployVars, installVars, manifest>>
          /\ \/ pc = "start" /\ pc' = "signer" /\ flags.cmd # "install" /\ DeployRegistry # "none"
             \/ pc \in DeployPhase /\ pc' \in DeployPhase
             \/ pc = "reader" /\ pc' = "registry"
             \/ pc = "registry" /\ pc' = "installing"
             \/ pc' = pc
      <3>1. CASE StartDeploy
        BY <1>2, <1>4, <3>1 DEF StartDeploy, Doing
      <3>2. CASE ResolveSigner
        BY <1>2, <1>4, <3>2 DEF ResolveSigner, Doing, DeployPhase
      <3>3. CASE ConnectChains \/ CheckOwnership
        BY <1>2, <1>4, <3>3 DEF ConnectChains, CheckOwnership, Doing, DeployPhase
      <3>4. CASE OpenReader \/ ConnectRegistry
        BY <1>2, <1>4, <3>4 DEF OpenReader, ConnectRegistry, Doing
      <3>5. CASE Shutdown
        BY <1>2, <1>4, <3>5 DEF Shutdown
      <3> QED
        BY <1>4, <3>1, <3>2, <3>3, <3>4, <3>5
           DEF CommandStep, Before, SignerFails, ConnectFails, OwnershipFails, PipelineError,
               ReaderFails, RegistryFails, InstallThrows
    <2> QED
      BY <1>1, <2>1, MoveCommand
  <1> QED
    BY <1>3, <1>4

\* Every step preserves the invariant.
LEMMA NextCommand ==
    ASSUME IInv, [Next]_vars
    PROVE  IInv'
  <1>1. CASE Next
    BY <1>1, StepKinds, TableCommand, QueueCommand, OtherCommand, DeployReturnsCommand,
       StartInstallCommand, InstallReturnsCommand, OtherCommandSteps
  <1>2. CASE UNCHANGED vars
    <2>1. TableInv' /\ UNCHANGED <<flags, project, chain, deployVars, installVars, manifest, pc, exit>>
      BY <1>2, NextTable DEF IInv, vars
    <2>2. CASE pc # "ended"
      BY <2>1, <2>2, MoveCommand DEF IInv, EndInv
    <2>3. CASE pc = "ended"
      <3>1. EndInv'
        BY <2>1 DEF IInv, EndInv, FrontendSeesDeployed, Packages, Package, Crates, DeployRegistry
      <3>2. UNCHANGED <<queue, lib, results, errors, work>>
        BY <2>1 DEF installVars, deployVars
      <3>3. InstallInv'
        BY <2>1, <2>3, <3>2 DEF IInv, InstallInv, InstallPhase
      <3>4. TargetInv'
        BY <2>1, <2>3, <3>2 DEF IInv, TargetInv, InstallPhase, DeployPhase, Mine,
               DeployRegistry, Package, Crates
      <3> QED
        BY <2>1, <3>1, <3>3, <3>4 DEF IInv
    <2> QED
      BY <2>2, <2>3
  <1> QED
    BY <1>1, <1>2

\* A wizard that goes on to the frontend has, in the cdm.json it builds against,
\* every package of its contracts, pinned to the newest version in the registry
\* it deployed to, which this account owns (deploy/contracts.ts).
THEOREM FrontendBuildsOnDeployed == Spec => []FrontendSeesDeployed
  <1>1. IInv => FrontendSeesDeployed
    BY DEF IInv, EndInv
  <1>2. IInv /\ [Next]_vars => IInv'
    BY NextCommand
  <1> QED
    BY <1>1, <1>2, InitCommand, PTL DEF Spec

\* cdm.json never asks for one version and pins another, and asks for no library
\* without a contract, unless it did before or the library was given twice
\* (updateCdmJsonAfterInstall).
THEOREM PinsMatchRequests == Spec => PinsAgree
  <1> DEFINE Agree == manifest' # manifest =>
                 \A l \in Libs :
                     LET was == manifest.deps[l]
                         want == manifest'.deps[l]
                         pin == manifest'.pins[l]
                     IN  Twice(l) \/ want = Absent \/ want = was
                         \/ (pin # Absent /\ want \in {Latest, pin})
  <1>1. ASSUME IInv, [Next]_vars PROVE Agree
    <2>1. CASE InstallReturns
      <3>1. pc = "installing" /\ manifest' = Updated /\ manifest \in Manifests
        BY <1>1, <2>1 DEF InstallReturns, Doing, IInv, TargetInv
      <3>2. \A l \in Libs :
                /\ Updated.deps[l] = IF InstalledNow(l) THEN RequestedVersion(l) ELSE manifest.deps[l]
                /\ Updated.pins[l] = IF InstalledNow(l) THEN LastResult(l) ELSE manifest.pins[l]
        BY <3>1, UpdatedFacts
      <3>3. \A l \in Libs : InstalledNow(l) =>
                /\ LastResult(l) \in Nat \ {0}
                /\ ~Twice(l) => RequestedVersion(l) \in {Latest, LastResult(l)}
        BY <1>1, <3>1, InstalledFacts
      <3> QED
        BY <3>1, <3>2, <3>3 DEF Absent
    <2>2. CASE ~InstallReturns
      <3>1. CommandStep => manifest' = manifest
        BY <2>2, ThrowFrame
           DEF CommandStep, Before, StartDeploy, ResolveSigner, SignerFails, ConnectChains,
               ConnectFails, CheckOwnership, OwnershipFails, DeployReturns, PipelineError,
               StartInstall, OpenReader, ReaderFails, ConnectRegistry, RegistryFails,
               InstallThrows, Shutdown
      <3>2. manifest' = manifest
        BY <1>1, <3>1, StepKinds, TableFrame, QueueFrame, OtherFrame DEF vars
      <3> QED
        BY <3>2
    <2> QED
      BY <2>1, <2>2
  <1>2. IInv /\ [Next]_vars => IInv'
    BY NextCommand
  <1>3. IInv /\ [Next]_vars => [Agree]_vars
    BY <1>1
  <1> QED
    BY <1>2, <1>3, InitCommand, PTL DEF Spec, PinsAgree

=============================================================================
