------------------------ MODULE DeployPipelineProofs ------------------------
(***************************************************************************)
(* The safety properties of DeployPipeline, proved for every retry budget. *)
(*                                                                         *)
(* None of them is inductive alone: what is on chain, which row runs and   *)
(* what is still open all follow from where runDeploy is, so the invariant *)
(* ties each of them to pc.  From it follows, action by action, that       *)
(* runDeploy implements Publication.                                       *)
(***************************************************************************)
EXTENDS DeployPipeline, TLAPS

InSlot == pc \in {"probe", "grant", "check"}
\* runDeploy is inside the playground phase.
Publishing ==
    \/ pc \in {"metadata", "connect", "publish", "retry"}
    \/ InSlot /\ caller # "storage"

\* runDeploy has settled exactly when it has a result; it never went past a setup
\* that fails, and it stops when the retry budget is spent.
SettledInv ==
    /\ result = "none" <=> pc # "over"
    /\ pc \in {"setup", "over"} \/ ~SetupFails(inputs.mode, inputs.user)
    /\ caller = "storage" \/ Publishing \/ pc = "over"
    /\ pc = "over" \/ attempts < MaxRegistryRetries

\* Each place in the program comes after the effects of those before it.
ChainInv ==
    /\ pc = "link" => "content" \in chain
    /\ Publishing => {"content", "link"} \subseteq chain
    /\ pc \in {"connect", "publish", "retry"} => "metadata" \in chain
    /\ RegisteredIsServed

\* A client is open only around the allowance lookup and the metadata upload.
ClientInv == client = "open" => InSlot \/ pc = "metadata"

\* A prompt is open exactly while the phone is asked; a grant is cached.
PromptInv ==
    /\ prompts.opened = IF pc = "grant" THEN prompts.closed + 1 ELSE prompts.closed
    /\ prompts.opened <= 1
    /\ prompts.opened = 1 => cached \/ pc \in {"grant", "over"}
    /\ pc = "grant" => ~cached

\* The row of the current phase runs, the rows of earlier phases are complete or
\* were skipped, and the playground row is skipped unless the app is published.
RowInv ==
    /\ \A r \in Rows : rows[r] = "running" <=> RowOf(pc) = r
    /\ rows["build"] \in {"complete", "skipped"} \/ pc \in {"setup", "build", "over"}
    /\ rows["build"] = "skipped" <=> inputs.skipBuild
    /\ Publishing => rows["upload"] = "complete" /\ inputs.publish
    /\ rows["upload"] = "complete" => {"content", "link"} \subseteq chain
    /\ rows["playground"] = "complete" => "entry" \in chain
    /\ rows["playground"] = "skipped" <=> ~inputs.publish
    /\ result = "ok" => \A r \in Rows : rows[r] \in {"complete", "skipped"}

IInv == TypeOK /\ SettledInv /\ ChainInv /\ ClientInv /\ PromptInv /\ RowInv

-----------------------------------------------------------------------------
\* The invariant holds when runDeploy is called.
LEMMA InitIInv == Init => IInv
  <1> SUFFICES ASSUME Init PROVE IInv
    OBVIOUS
  <1> USE RetriesAssumption DEF Init
  <1>1. TypeOK
    <2>1. rows \in [Rows -> Statuses]
      BY DEF initialRunningState, Inputs, Rows, Statuses
    <2>2. cached \in BOOLEAN
      OBVIOUS
    <2>3. prompts \in [opened : Nat, closed : Nat] /\ attempts \in 0 .. MaxRegistryRetries
      OBVIOUS
    <2> QED
      BY <2>1, <2>2, <2>3 DEF TypeOK
  <1>2. SettledInv /\ ChainInv /\ ClientInv /\ PromptInv
    BY DEF SettledInv, ChainInv, RegisteredIsServed, ClientInv, PromptInv,
           Publishing, InSlot
  <1>3. RowInv
    BY <1>1 DEF TypeOK, RowInv, RowOf, initialRunningState, Publishing, InSlot, Rows, Inputs
  <1> QED BY <1>1, <1>2, <1>3 DEF IInv

\* The checks before the build phase keep the invariant.
LEMMA SetupStep == IInv /\ Setup => IInv'
  <1> SUFFICES ASSUME IInv, Setup PROVE IInv'
    OBVIOUS
  <1> USE RetriesAssumption DEF IInv, Setup
  <1>1. TypeOK'
    BY DEF TypeOK, Inputs, Rows, Statuses, Facts, Fail, Continue, Reduce
  <1>2. SettledInv'
    BY DEF TypeOK, SettledInv, Publishing, InSlot, Fail, Continue, Reduce
  <1>3. ChainInv'
    BY DEF TypeOK, SettledInv, ChainInv, RegisteredIsServed, Publishing, InSlot, Facts, Fail, Continue, Reduce
  <1>4. ClientInv'
    BY DEF TypeOK, ClientInv, InSlot, Fail, Continue, Reduce
  <1>5. PromptInv'
    BY DEF TypeOK, PromptInv, Fail, Continue, Reduce
  <1>6. RowInv'
    BY DEF TypeOK, SettledInv, ChainInv, RowInv, RowOf, Publishing, InSlot, Rows, Inputs, Fail, Continue, Reduce
  <1> QED BY <1>1, <1>2, <1>3, <1>4, <1>5, <1>6

\* The build phase keeps the invariant.
LEMMA BuildStep == IInv /\ Build => IInv'
  <1> SUFFICES ASSUME IInv, Build PROVE IInv'
    OBVIOUS
  <1> USE RetriesAssumption DEF IInv, Build
  <1>1. TypeOK'
    BY DEF TypeOK, Inputs, Rows, Statuses, Facts, Fail, Reduce
  <1>2. SettledInv'
    BY DEF TypeOK, SettledInv, Publishing, InSlot, Fail, Reduce
  <1>3. ChainInv'
    BY DEF TypeOK, SettledInv, ChainInv, RegisteredIsServed, Publishing, InSlot, Facts, Fail, Reduce
  <1>4. ClientInv'
    BY DEF TypeOK, ClientInv, InSlot, Fail, Reduce
  <1>5. PromptInv'
    BY DEF TypeOK, PromptInv, Fail, Reduce
  <1>6. RowInv'
    BY DEF TypeOK, SettledInv, ChainInv, RowInv, RowOf, Publishing, InSlot, Rows, Inputs, Fail, Reduce
  <1> QED BY <1>1, <1>2, <1>3, <1>4, <1>5, <1>6

\* Choosing the storage signer keeps the invariant.
LEMMA ResolveStep == IInv /\ Resolve => IInv'
  <1> SUFFICES ASSUME IInv, Resolve PROVE IInv'
    OBVIOUS
  <1> USE RetriesAssumption DEF IInv, Resolve
  <1>1. TypeOK'
    BY DEF TypeOK, Inputs, Rows, Statuses, Facts, Reduce
  <1>2. SettledInv'
    BY DEF TypeOK, SettledInv, Publishing, InSlot, Reduce
  <1>3. ChainInv'
    BY DEF TypeOK, SettledInv, ChainInv, RegisteredIsServed, Publishing, InSlot, Facts, Reduce
  <1>4. ClientInv'
    BY DEF TypeOK, ClientInv, InSlot, Reduce
  <1>5. PromptInv'
    BY DEF TypeOK, PromptInv, Reduce
  <1>6. RowInv'
    BY DEF TypeOK, SettledInv, ChainInv, RowInv, RowOf, Publishing, InSlot, Rows, Inputs, Reduce
  <1> QED BY <1>1, <1>2, <1>3, <1>4, <1>5, <1>6

\* The cache probe, which may open the prompt, keeps the invariant.
LEMMA ProbeStep == IInv /\ Probe => IInv'
  <1> SUFFICES ASSUME IInv, Probe PROVE IInv'
    OBVIOUS
  <1> USE RetriesAssumption DEF IInv, Probe
  <1>1. TypeOK'
    BY DEF TypeOK, Inputs, Rows, Statuses, Facts, Fail, Continue, Reduce
  <1>2. SettledInv'
    BY DEF TypeOK, SettledInv, Publishing, InSlot, Fail, Continue, Reduce
  <1>3. ChainInv'
    BY DEF TypeOK, SettledInv, ChainInv, RegisteredIsServed, Publishing, InSlot, Facts, Fail, Continue, Reduce
  <1>4. ClientInv'
    BY DEF TypeOK, ClientInv, InSlot, Fail, Continue, Reduce
  <1>5. PromptInv'
    BY DEF TypeOK, PromptInv, Fail, Continue, Reduce
  <1>6. RowInv'
    BY DEF TypeOK, SettledInv, ChainInv, RowInv, RowOf, Publishing, InSlot, Rows, Inputs, Fail, Continue, Reduce
  <1> QED BY <1>1, <1>2, <1>3, <1>4, <1>5, <1>6

\* The phone's answer, which closes the prompt, keeps the invariant.
LEMMA GrantStep == IInv /\ Grant => IInv'
  <1> SUFFICES ASSUME IInv, Grant PROVE IInv'
    OBVIOUS
  <1> USE RetriesAssumption DEF IInv, Grant
  <1>1. TypeOK'
    <2>1. rows' \in [Rows -> Statuses]
      BY DEF TypeOK, Rows, Statuses, Fail, Continue, Reduce
    <2>2. chain' \subseteq Facts
      BY DEF TypeOK, Facts, Fail, Continue, Reduce
    <2>3. cached' \in BOOLEAN
      BY DEF TypeOK, Fail, Continue, Reduce
    <2>4. attempts' \in 0 .. MaxRegistryRetries
      BY DEF TypeOK, SettledInv, Fail, Continue, Reduce
    <2> QED
      BY <2>1, <2>2, <2>3, <2>4 DEF TypeOK, Fail, Continue, Reduce
  <1>2. SettledInv'
    BY DEF TypeOK, SettledInv, Publishing, InSlot, Fail, Continue, Reduce
  <1>3. ChainInv'
    BY DEF TypeOK, SettledInv, ChainInv, RegisteredIsServed, Publishing, InSlot, Facts, Fail, Continue, Reduce
  <1>4. ClientInv'
    BY DEF TypeOK, ClientInv, InSlot, Fail, Continue, Reduce
  <1>5. PromptInv'
    BY DEF TypeOK, PromptInv, Fail, Continue, Reduce
  <1>6. RowInv'
    BY DEF TypeOK, SettledInv, ChainInv, RowInv, RowOf, Publishing, InSlot, Rows, Inputs, Fail, Continue, Reduce
  <1> QED BY <1>1, <1>2, <1>3, <1>4, <1>5, <1>6

\* The authorization check keeps the invariant.
LEMMA CheckStep == IInv /\ Check => IInv'
  <1> SUFFICES ASSUME IInv, Check PROVE IInv'
    OBVIOUS
  <1> USE RetriesAssumption DEF IInv, Check
  <1>1. TypeOK'
    BY DEF TypeOK, Inputs, Rows, Statuses, Facts, Fail, Continue, Reduce, SlotReady
  <1>2. SettledInv'
    BY DEF TypeOK, SettledInv, Publishing, InSlot, Fail, Continue, Reduce, SlotReady
  <1>3. ChainInv'
    BY DEF TypeOK, SettledInv, ChainInv, RegisteredIsServed, Publishing, InSlot, Facts, Fail, Continue, Reduce, SlotReady
  <1>4. ClientInv'
    BY DEF TypeOK, ClientInv, InSlot, Fail, Continue, Reduce, SlotReady
  <1>5. PromptInv'
    BY DEF TypeOK, PromptInv, Fail, Continue, Reduce, SlotReady
  <1>6. RowInv'
    BY DEF TypeOK, SettledInv, ChainInv, RowInv, RowOf, Publishing, InSlot, Rows, Inputs, Fail, Continue, Reduce, SlotReady
  <1> QED BY <1>1, <1>2, <1>3, <1>4, <1>5, <1>6

\* The upload keeps the invariant.
LEMMA StoreStep == IInv /\ Store => IInv'
  <1> SUFFICES ASSUME IInv, Store PROVE IInv'
    OBVIOUS
  <1> USE RetriesAssumption DEF IInv, Store
  <1>1. TypeOK'
    <2>1. rows' \in [Rows -> Statuses]
      BY DEF TypeOK, Rows, Statuses, Fail, Continue, Reduce
    <2>2. chain' \subseteq Facts
      BY DEF TypeOK, Facts, Fail, Continue, Reduce
    <2>3. cached' \in BOOLEAN
      BY DEF TypeOK, Fail, Continue, Reduce
    <2>4. attempts' \in 0 .. MaxRegistryRetries
      BY DEF TypeOK, SettledInv, Fail, Continue, Reduce
    <2> QED
      BY <2>1, <2>2, <2>3, <2>4 DEF TypeOK, Fail, Continue, Reduce
  <1>2. SettledInv'
    BY DEF TypeOK, SettledInv, Publishing, InSlot, Fail, Continue, Reduce
  <1>3. ChainInv'
    BY DEF TypeOK, SettledInv, ChainInv, RegisteredIsServed, Publishing, InSlot, Facts, Fail, Continue, Reduce
  <1>4. ClientInv'
    BY DEF TypeOK, ClientInv, InSlot, Fail, Continue, Reduce
  <1>5. PromptInv'
    BY DEF TypeOK, PromptInv, Fail, Continue, Reduce
  <1>6. RowInv'
    BY DEF TypeOK, SettledInv, ChainInv, RowInv, RowOf, Publishing, InSlot, Rows, Inputs, Fail, Continue, Reduce
  <1> QED BY <1>1, <1>2, <1>3, <1>4, <1>5, <1>6

\* The end of the storage phase, with what follows it, keeps the invariant.
LEMMA LinkStep == IInv /\ Link => IInv'
  <1> SUFFICES ASSUME IInv, Link PROVE IInv'
    OBVIOUS
  <1> USE RetriesAssumption DEF IInv, Link
  <1>1. TypeOK'
    <2>1. rows' \in [Rows -> Statuses]
      BY DEF TypeOK, Rows, Statuses, Fail, Reduce, SetupFails, Publisher, PublishSigner, None, Modes, Users
    <2>2. chain' \subseteq Facts
      BY DEF TypeOK, Facts, Fail, Reduce, SetupFails, Publisher, PublishSigner, None, Modes, Users
    <2>3. cached' \in BOOLEAN
      BY DEF TypeOK, Fail, Reduce, SetupFails, Publisher, PublishSigner, None, Modes, Users
    <2>4. attempts' \in 0 .. MaxRegistryRetries
      BY DEF TypeOK, SettledInv, Fail, Reduce, SetupFails, Publisher, PublishSigner, None, Modes, Users
    <2> QED
      BY <2>1, <2>2, <2>3, <2>4 DEF TypeOK, Fail, Reduce, SetupFails, Publisher, PublishSigner, None, Modes, Users
  <1>2. SettledInv'
    BY DEF TypeOK, SettledInv, Publishing, InSlot, Fail, Reduce, SetupFails, Publisher, PublishSigner, None, Modes, Users
  <1>3. ChainInv'
    BY DEF TypeOK, SettledInv, ChainInv, RegisteredIsServed, Publishing, InSlot, Facts, Fail, Reduce, SetupFails, Publisher, PublishSigner, None, Modes, Users
  <1>4. ClientInv'
    BY DEF TypeOK, ClientInv, InSlot, Fail, Reduce, SetupFails, Publisher, PublishSigner, None, Modes, Users
  <1>5. PromptInv'
    BY DEF TypeOK, PromptInv, Fail, Reduce, SetupFails, Publisher, PublishSigner, None, Modes, Users
  <1>6. RowInv'
    BY DEF TypeOK, SettledInv, ChainInv, RowInv, RowOf, Publishing, InSlot, Rows, Inputs, Fail, Reduce, SetupFails, Publisher, PublishSigner, None, Modes, Users
  <1> QED BY <1>1, <1>2, <1>3, <1>4, <1>5, <1>6

\* The metadata upload and its re-check keep the invariant.
LEMMA MetadataStep == IInv /\ Metadata => IInv'
  <1> SUFFICES ASSUME IInv, Metadata PROVE IInv'
    OBVIOUS
  <1> USE RetriesAssumption DEF IInv, Metadata
  <1>1. TypeOK'
    <2>1. rows' \in [Rows -> Statuses]
      BY DEF TypeOK, Rows, Statuses, Fail, Continue, Reduce, Stored, MayStore
    <2>2. chain' \subseteq Facts
      BY DEF TypeOK, Facts, Fail, Continue, Reduce, Stored, MayStore
    <2>3. cached' \in BOOLEAN
      BY DEF TypeOK, Fail, Continue, Reduce, Stored, MayStore
    <2>4. attempts' \in 0 .. MaxRegistryRetries
      BY DEF TypeOK, SettledInv, Fail, Continue, Reduce, Stored, MayStore
    <2> QED
      BY <2>1, <2>2, <2>3, <2>4 DEF TypeOK, Fail, Continue, Reduce, Stored, MayStore
  <1>2. SettledInv'
    BY DEF TypeOK, SettledInv, Publishing, InSlot, Fail, Continue, Reduce, Stored, MayStore
  <1>3. ChainInv'
    BY DEF TypeOK, SettledInv, ChainInv, RegisteredIsServed, Publishing, InSlot, Facts, Fail, Continue, Reduce, Stored, MayStore
  <1>4. ClientInv'
    BY DEF TypeOK, ClientInv, InSlot, Fail, Continue, Reduce, Stored, MayStore
  <1>5. PromptInv'
    BY DEF TypeOK, PromptInv, Fail, Continue, Reduce, Stored, MayStore
  <1>6. RowInv'
    BY DEF TypeOK, SettledInv, ChainInv, RowInv, RowOf, Publishing, InSlot, Rows, Inputs, Fail, Continue, Reduce, Stored, MayStore
  <1> QED BY <1>1, <1>2, <1>3, <1>4, <1>5, <1>6

\* Connecting to the registry keeps the invariant.
LEMMA ConnectStep == IInv /\ Connect => IInv'
  <1> SUFFICES ASSUME IInv, Connect PROVE IInv'
    OBVIOUS
  <1> USE RetriesAssumption DEF IInv, Connect
  <1>1. TypeOK'
    BY DEF TypeOK, Inputs, Rows, Statuses, Facts, Fail, Continue, Reduce
  <1>2. SettledInv'
    BY DEF TypeOK, SettledInv, Publishing, InSlot, Fail, Continue, Reduce
  <1>3. ChainInv'
    BY DEF TypeOK, SettledInv, ChainInv, RegisteredIsServed, Publishing, InSlot, Facts, Fail, Continue, Reduce
  <1>4. ClientInv'
    BY DEF TypeOK, ClientInv, InSlot, Fail, Continue, Reduce
  <1>5. PromptInv'
    BY DEF TypeOK, PromptInv, Fail, Continue, Reduce
  <1>6. RowInv'
    BY DEF TypeOK, SettledInv, ChainInv, RowInv, RowOf, Publishing, InSlot, Rows, Inputs, Fail, Continue, Reduce
  <1> QED BY <1>1, <1>2, <1>3, <1>4, <1>5, <1>6

\* A publish attempt keeps the invariant.
LEMMA PublishStep == IInv /\ Publish => IInv'
  <1> SUFFICES ASSUME IInv, Publish PROVE IInv'
    OBVIOUS
  <1> USE RetriesAssumption DEF IInv, Publish
  <1>1. TypeOK'
    <2>1. rows' \in [Rows -> Statuses]
      BY DEF TypeOK, Rows, Statuses, PublishOk, PublishFailed, Fail, Continue, Reduce
    <2>2. chain' \subseteq Facts
      BY DEF TypeOK, Facts, PublishOk, PublishFailed, Fail, Continue, Reduce
    <2>3. cached' \in BOOLEAN
      BY DEF TypeOK, PublishOk, PublishFailed, Fail, Continue, Reduce
    <2>4. attempts' \in 0 .. MaxRegistryRetries
      BY DEF TypeOK, SettledInv, PublishOk, PublishFailed, Fail, Continue, Reduce
    <2> QED
      BY <2>1, <2>2, <2>3, <2>4 DEF TypeOK, PublishOk, PublishFailed, Fail, Continue, Reduce
  <1>2. SettledInv'
    BY DEF TypeOK, SettledInv, Publishing, InSlot, PublishOk, PublishFailed, Fail, Continue, Reduce
  <1>3. ChainInv'
    BY DEF TypeOK, SettledInv, ChainInv, RegisteredIsServed, Publishing, InSlot, Facts, PublishOk, PublishFailed, Fail, Continue, Reduce
  <1>4. ClientInv'
    BY DEF TypeOK, ClientInv, InSlot, PublishOk, PublishFailed, Fail, Continue, Reduce
  <1>5. PromptInv'
    BY DEF TypeOK, PromptInv, PublishOk, PublishFailed, Fail, Continue, Reduce
  <1>6. RowInv'
    BY DEF TypeOK, SettledInv, ChainInv, RowInv, RowOf, Publishing, InSlot, Rows, Inputs, PublishOk, PublishFailed, Fail, Continue, Reduce
  <1> QED BY <1>1, <1>2, <1>3, <1>4, <1>5, <1>6

\* The wait between two attempts keeps the invariant.
LEMMA RetryStep == IInv /\ Retry => IInv'
  <1> SUFFICES ASSUME IInv, Retry PROVE IInv'
    OBVIOUS
  <1> USE RetriesAssumption DEF IInv, Retry
  <1>1. TypeOK'
    BY DEF TypeOK, Inputs, Rows, Statuses, Facts, Continue
  <1>2. SettledInv'
    BY DEF TypeOK, SettledInv, Publishing, InSlot, Continue
  <1>3. ChainInv'
    BY DEF TypeOK, SettledInv, ChainInv, RegisteredIsServed, Publishing, InSlot, Facts, Continue
  <1>4. ClientInv'
    BY DEF TypeOK, ClientInv, InSlot, Continue
  <1>5. PromptInv'
    BY DEF TypeOK, PromptInv, Continue
  <1>6. RowInv'
    BY DEF TypeOK, SettledInv, ChainInv, RowInv, RowOf, Publishing, InSlot, Rows, Inputs, Continue
  <1> QED BY <1>1, <1>2, <1>3, <1>4, <1>5, <1>6

\* A grant that lands keeps the invariant.
LEMMA LandStep == IInv /\ Land => IInv'
  <1> SUFFICES ASSUME IInv, Land PROVE IInv'
    OBVIOUS
  <1> USE RetriesAssumption DEF IInv, Land
  <1>1. TypeOK'
    BY DEF TypeOK, Inputs, Rows, Statuses, Facts
  <1>2. SettledInv'
    BY DEF TypeOK, SettledInv, Publishing, InSlot
  <1>3. ChainInv'
    BY DEF TypeOK, SettledInv, ChainInv, RegisteredIsServed, Publishing, InSlot, Facts
  <1>4. ClientInv'
    BY DEF TypeOK, ClientInv, InSlot
  <1>5. PromptInv'
    BY DEF TypeOK, PromptInv
  <1>6. RowInv'
    BY DEF TypeOK, SettledInv, ChainInv, RowInv, RowOf, Publishing, InSlot, Rows, Inputs
  <1> QED BY <1>1, <1>2, <1>3, <1>4, <1>5, <1>6

\* An authorization that expires keeps the invariant.
LEMMA ExpireStep == IInv /\ Expire => IInv'
  <1> SUFFICES ASSUME IInv, Expire PROVE IInv'
    OBVIOUS
  <1> USE RetriesAssumption DEF IInv, Expire
  <1>1. TypeOK'
    BY DEF TypeOK, Inputs, Rows, Statuses, Facts
  <1>2. SettledInv'
    BY DEF TypeOK, SettledInv, Publishing, InSlot
  <1>3. ChainInv'
    BY DEF TypeOK, SettledInv, ChainInv, RegisteredIsServed, Publishing, InSlot, Facts
  <1>4. ClientInv'
    BY DEF TypeOK, ClientInv, InSlot
  <1>5. PromptInv'
    BY DEF TypeOK, PromptInv
  <1>6. RowInv'
    BY DEF TypeOK, SettledInv, ChainInv, RowInv, RowOf, Publishing, InSlot, Rows, Inputs
  <1> QED BY <1>1, <1>2, <1>3, <1>4, <1>5, <1>6

\* A step that changes no variable keeps the invariant.
LEMMA StutterStep == IInv /\ UNCHANGED vars => IInv'
  BY DEF IInv, vars, TypeOK, SettledInv, ChainInv, RegisteredIsServed, ClientInv, PromptInv,
         RowInv, RowOf, Publisher, Publishing, InSlot

\* Every step keeps the invariant.
LEMMA NextIInv == IInv /\ [Next]_vars => IInv'
  BY SetupStep, BuildStep, ResolveStep, ProbeStep, GrantStep, CheckStep, StoreStep,
     LinkStep, MetadataStep, ConnectStep, PublishStep, RetryStep, LandStep, ExpireStep, StutterStep
     DEF Next, DeployStep, Settled

\* The invariant implies the properties the run checks.
LEMMA IInvProperties ==
    IInv => /\ TypeOK /\ RegisteredIsServed /\ RowsTellTruth /\ NothingLeftOpen
  <1> SUFFICES ASSUME IInv
               PROVE  /\ TypeOK /\ RegisteredIsServed /\ RowsTellTruth /\ NothingLeftOpen
    OBVIOUS
  <1> USE DEF IInv
  <1>1. RegisteredIsServed
    BY DEF ChainInv
  <1>2. NothingLeftOpen
    BY DEF TypeOK, SettledInv, ClientInv, PromptInv, InSlot, NothingLeftOpen
  <1>3. RowsTellTruth
    BY DEF TypeOK, SettledInv, ChainInv, RowInv, RowOf, Rows, Inputs, RowsTellTruth
  <1> QED BY <1>1, <1>2, <1>3

\* The invariant holds throughout.
LEMMA Invariance == Spec => []IInv
  <1>1. Init => IInv
    BY InitIInv
  <1>2. IInv /\ [Next]_vars => IInv'
    BY NextIInv
  <1> QED BY <1>1, <1>2, PTL DEF Spec

\* runDeploy's state is well formed; in particular a publish is attempted at most
\* MaxRegistryRetries times, whatever the budget is.
THEOREM PipelineTypeCorrect == Spec => []TypeOK
  BY Invariance, IInvProperties, PTL

\* publishToPlayground's ordering: no registry entry without content, content
\* hash and metadata, through every failure, re-check and retry.
THEOREM EntriesAreServed == Spec => []RegisteredIsServed
  BY Invariance, IInvProperties, PTL

\* withDeployPhase and runningReducer: what the rows show is what happened.
THEOREM RowsAreTruthful == Spec => []RowsTellTruth
  BY Invariance, IInvProperties, PTL

\* The finally blocks of runDeploy, publishToPlayground and
\* getBulletinAllowanceSigner leave no client and no prompt behind, and the phone
\* is asked for the allowance at most once.
THEOREM NothingLeaks == Spec => []NothingLeftOpen
  BY Invariance, IInvProperties, PTL

-----------------------------------------------------------------------------
(***************************************************************************)
(* runDeploy implements Publication.                                       *)
(***************************************************************************)
\* Nothing is on chain that was not asked for.
AskedFor == chain \subseteq Wanted

\* A step that puts nothing on chain and does not report success.
LEMMA QuietStep ==
    ASSUME UNCHANGED <<inputs, chain>>,
           UNCHANGED result \/ (result = "none" /\ result' = "error")
    PROVE  [Promised!Next]_Promised!vars
  BY DEF Promised!Next, Promised!vars, Promised!Conclude, Wanted

\* A step that makes an asked-for effect, after those it rests on, and either
\* goes on, fails, or reports success with everything made.
LEMMA EffectStep ==
    ASSUME NEW f \in Wanted, result = "none", UNCHANGED inputs,
           Promised!RestsOn(f) \subseteq chain, chain' = chain \cup {f},
           result' \in {"none", "error"} \/ (result' = "ok" /\ Wanted = chain')
    PROVE  [Promised!Next]_Promised!vars
  <1>1. Promised!Make(f)
    BY DEF Promised!Make
  <1>2. UNCHANGED result \/ Promised!Conclude
    BY DEF Promised!Conclude
  <1> QED
    BY <1>1, <1>2 DEF Promised!Next, Wanted

\* The end of the storage phase is a step of the publication.
LEMMA LinkPublishes == IInv /\ AskedFor /\ Link => [Promised!Next]_Promised!vars
  <1> SUFFICES ASSUME IInv, AskedFor, Link PROVE [Promised!Next]_Promised!vars
    OBVIOUS
  <1>1. /\ result = "none" /\ "content" \in chain /\ chain \subseteq Wanted
        /\ UNCHANGED inputs /\ inputs \in Inputs /\ ~SetupFails(inputs.mode, inputs.user)
    BY DEF IInv, Link, SettledInv, ChainInv, TypeOK, AskedFor
  <1>2. CASE chain' = chain /\ result' = "error"
    BY <1>1, <1>2, QuietStep
  <1>3. "link" \in Wanted /\ Promised!RestsOn("link") \subseteq chain
    BY <1>1 DEF Wanted, Facts, Promised!RestsOn
  <1>4. CASE chain' = chain \cup {"link"} /\ result' \in {"none", "error"}
    BY <1>1, <1>3, <1>4, EffectStep
  <1>5. CASE chain' = chain \cup {"link"} /\ result' = "ok" /\ Publisher = None
    <2>1. ~inputs.publish
      BY <1>1, <1>5 DEF Publisher, PublishSigner, SetupFails, Inputs, Modes, Users, None
    <2>2. Wanted = chain'
      BY <1>1, <1>5, <2>1 DEF Wanted
    <2> QED
      BY <1>1, <1>3, <1>5, <2>2, EffectStep
  <1> QED
    BY <1>1, <1>2, <1>4, <1>5 DEF Link, Fail

\* A store, of the content or of the metadata, is a step of the publication.
LEMMA StorePublishes == IInv /\ (Store \/ Metadata) => [Promised!Next]_Promised!vars
  <1> SUFFICES ASSUME IInv, Store \/ Metadata PROVE [Promised!Next]_Promised!vars
    OBVIOUS
  <1>1. /\ result = "none" /\ UNCHANGED inputs
        /\ Metadata => {"content", "link"} \subseteq chain /\ inputs.publish
    BY DEF IInv, Store, Metadata, SettledInv, ChainInv, RowInv, Publishing
  <1>2. result' \in {"none", "error"}
    BY <1>1 DEF Store, Metadata, Fail, Continue
  <1>3. CASE chain' = chain
    BY <1>1, <1>2, <1>3, QuietStep
  <1>4. CASE Store /\ chain' = chain \cup {"content"}
    <2>1. "content" \in Wanted /\ Promised!RestsOn("content") \subseteq chain
      BY DEF Wanted, Facts, Promised!RestsOn
    <2> QED
      BY <1>1, <1>2, <1>4, <2>1, EffectStep
  <1>5. CASE Metadata /\ chain' = chain \cup {"metadata"}
    <2>1. "metadata" \in Wanted /\ Promised!RestsOn("metadata") \subseteq chain
      BY <1>1, <1>5 DEF Wanted, Facts, Promised!RestsOn
    <2> QED
      BY <1>1, <1>2, <1>5, <2>1, EffectStep
  <1> QED
    BY <1>3, <1>4, <1>5 DEF Store, Metadata, Stored

\* A publish attempt is a step of the publication, whether it is reported to have
\* succeeded, failed, or failed and landed.
LEMMA PublishPublishes == IInv /\ Publish => [Promised!Next]_Promised!vars
  <1> SUFFICES ASSUME IInv, Publish PROVE [Promised!Next]_Promised!vars
    OBVIOUS
  <1>1. /\ result = "none" /\ UNCHANGED inputs /\ chain \subseteq Facts
        /\ {"content", "link", "metadata"} \subseteq chain /\ inputs.publish
    BY DEF IInv, Publish, SettledInv, ChainInv, RowInv, Publishing, TypeOK
  <1>2. "entry" \in Wanted /\ Promised!RestsOn("entry") \subseteq chain
    BY <1>1 DEF Wanted, Facts, Promised!RestsOn
  <1>3. CASE PublishOk
    <2>1. chain' = chain \cup {"entry"} /\ result' = "ok"
      BY <1>3 DEF PublishOk
    <2>2. Wanted = chain'
      BY <1>1, <2>1 DEF Wanted, Facts
    <2> QED
      BY <1>1, <1>2, <2>1, <2>2, EffectStep
  <1>4. ASSUME NEW e \in PublishErrors, PublishFailed(e)
        PROVE  [Promised!Next]_Promised!vars
    <2>1. /\ result' \in {"none", "error"}
          /\ chain' = chain \/ chain' = chain \cup {"entry"}
      BY <1>1, <1>4 DEF PublishFailed, Fail, Continue
    <2>2. CASE chain' = chain
      BY <1>1, <2>1, <2>2, QuietStep
    <2>3. CASE chain' = chain \cup {"entry"}
      BY <1>1, <1>2, <2>1, <2>3, EffectStep
    <2> QED
      BY <2>1, <2>2, <2>3
  <1> QED
    BY <1>3, <1>4 DEF Publish

\* Every step of runDeploy is a step of the publication or none.
LEMMA PublicationStep ==
    IInv /\ AskedFor /\ [Next]_vars => [Promised!Next]_Promised!vars
  <1> SUFFICES ASSUME IInv, AskedFor, [Next]_vars PROVE [Promised!Next]_Promised!vars
    OBVIOUS
  <1>1. CASE Setup \/ Build \/ Resolve \/ Probe \/ Grant \/ Check \/ Connect \/ Retry
    <2>1. UNCHANGED <<inputs, chain>> /\ pc # "over"
      BY <1>1 DEF Setup, Build, Resolve, Probe, Grant, Check, Connect, Retry
    <2>2. result = "none"
      BY <2>1 DEF IInv, SettledInv
    <2>3. result' \in {"none", "error"}
      BY <1>1, <2>2 DEF Setup, Build, Resolve, Probe, Grant, Check, SlotReady, Connect,
         Retry, Fail, Continue
    <2> QED
      BY <2>1, <2>2, <2>3, QuietStep
  <1>2. CASE Land \/ Expire \/ UNCHANGED vars
    BY <1>2, QuietStep DEF Land, Expire, vars
  <1> QED
    BY <1>1, <1>2, LinkPublishes, StorePublishes, PublishPublishes
       DEF Next, DeployStep, Settled

\* run.ts and playground.ts publish an app in order, make nothing unasked, and
\* report success only of a whole one: runDeploy, with its allowance lookups,
\* lost answers, re-check and retries, implements the abstract Publication.
THEOREM DeployIsPublication == Spec => ImplementsPublication
  <1>1. Init => Promised!Init /\ AskedFor
    BY DEF Init, Promised!Init, Promised!Site, Promised!Listing, Wanted, AskedFor, Facts
  <1>2. AskedFor /\ [Promised!Next]_Promised!vars => AskedFor'
    BY DEF AskedFor, Promised!Next, Promised!vars, Promised!Make
  <1>3. IInv /\ AskedFor /\ [Next]_vars => [Promised!Next]_Promised!vars
    BY PublicationStep
  <1> QED
    BY <1>1, <1>2, <1>3, Invariance, PTL DEF Spec, Promised!Spec, ImplementsPublication
-----------------------------------------------------------------------------
(***************************************************************************)
(* Why runDeploy ends.                                                     *)
(***************************************************************************)
\* How far a lookup of the allowance is from the store it is made for.
LookupRank ==
    CASE pc = "probe" -> 3
      [] pc = "grant" -> 2
      [] pc = "check" -> 1
      [] OTHER -> 0

\* How many steps of its own runDeploy may still take.  Each failed attempt costs
\* two, the attempt and the wait; the allowance is looked up before the upload,
\* before the metadata and once more after an Invalid Payment.
Rank ==
    LET last == 2 * MaxRegistryRetries + 1
    IN  CASE pc = "over" -> 0
          [] pc = "publish" -> 2 * (MaxRegistryRetries - attempts)
          [] pc = "retry" -> 2 * (MaxRegistryRetries - attempts) + 1
          [] pc = "connect" -> last
          [] pc \in {"probe", "grant", "check", "metadata"} ->
                LookupRank + (IF caller = "recheck" THEN last + 1
                              ELSE IF caller = "metadata" THEN last + 5
                              ELSE last + 11)
          [] pc = "link" -> last + 9
          [] pc = "store" -> last + 10
          [] pc = "resolve" -> last + 15
          [] pc = "build" -> last + 16
          [] pc = "setup" -> last + 17

\* The rank is a number of steps, and runDeploy has settled when none is left.
RankCounts ==
    /\ Rank \in 0 .. 2 * MaxRegistryRetries + 18
    /\ pc = "over" <=> Rank = 0

\* Every step of runDeploy itself lowers the rank; the chains moving leave it.
WindsDown == [][IF DeployStep THEN Rank' < Rank ELSE Rank' = Rank]_vars

\* The rank is a number wherever the invariant holds.
LEMMA RankIsCount == IInv => RankCounts
  <1> SUFFICES ASSUME IInv PROVE RankCounts
    OBVIOUS
  <1>1. /\ MaxRegistryRetries \in Nat \ {0} /\ attempts \in 0 .. MaxRegistryRetries
        /\ pc # "over" => attempts < MaxRegistryRetries
    BY RetriesAssumption DEF IInv, TypeOK, SettledInv
  <1>2. /\ pc \in {"setup", "build", "resolve", "probe", "grant", "check", "store", "link",
                   "metadata", "connect", "publish", "retry", "over"}
        /\ caller \in {"storage", "metadata", "recheck"}
    BY DEF IInv, TypeOK
  <1>3. LookupRank \in 0 .. 3
    BY DEF LookupRank
  <1>4. CASE pc \in {"probe", "grant", "check", "metadata"}
    BY <1>1, <1>2, <1>3, <1>4 DEF RankCounts, Rank
  <1>5. CASE pc \in {"publish", "retry"}
    <2>1. \/ Rank = 2 * (MaxRegistryRetries - attempts)
          \/ Rank = 2 * (MaxRegistryRetries - attempts) + 1
      BY <1>5 DEF Rank
    <2>2. attempts < MaxRegistryRetries /\ pc # "over"
      BY <1>1, <1>5
    <2> QED
      BY <1>1, <2>1, <2>2 DEF RankCounts
  <1>6. CASE pc \in {"connect", "link", "store", "resolve", "build", "setup"}
    <2>1. \E n \in {0, 9, 10, 15, 16, 17} : Rank = 2 * MaxRegistryRetries + 1 + n
      BY <1>1, <1>6 DEF Rank
    <2>2. pc # "over"
      BY <1>6
    <2> QED
      BY <1>1, <2>1, <2>2 DEF RankCounts
  <1>7. CASE pc = "over"
    BY <1>1, <1>7 DEF RankCounts, Rank
  <1> QED
    BY <1>2, <1>4, <1>5, <1>6, <1>7

\* A step that settles runDeploy lowers the rank to 0.
LEMMA SettlingWindsDown ==
    ASSUME IInv, pc # "over", pc' = "over"
    PROVE  Rank' < Rank
  <1>1. Rank' = 0
    BY DEF Rank
  <1> QED
    BY <1>1, RankIsCount DEF RankCounts

\* Steps up to the playground phase.
LEMMA StorageWindsDown ==
    ASSUME IInv, Setup \/ Build \/ Resolve \/ Store \/ Link, pc' # "over"
    PROVE  Rank' < Rank
  <1>1. MaxRegistryRetries \in Nat /\ caller \in {"storage", "metadata", "recheck"}
    BY RetriesAssumption DEF IInv, TypeOK
  <1>2. CASE Setup
    BY <1>1, <1>2 DEF Setup, Continue, Fail, Rank
  <1>3. CASE Build
    BY <1>1, <1>3 DEF Build, Fail, Rank
  <1>4. CASE Resolve
    <2>1. pc = "resolve" /\ pc' \in {"probe", "store"} /\ caller' = caller
      BY <1>4 DEF Resolve
    <2>2. caller = "storage"
      BY <2>1 DEF IInv, SettledInv, Publishing, InSlot
    <2> QED
      BY <1>1, <2>1, <2>2 DEF Rank, LookupRank
  <1>5. CASE Store
    BY <1>1, <1>5 DEF Store, Continue, Fail, Rank
  <1>6. CASE Link
    <2>1. pc = "link" /\ pc' \in {"probe", "metadata"} /\ caller' = "metadata"
      BY <1>6 DEF Link, Fail
    <2> QED
      BY <1>1, <2>1 DEF Rank, LookupRank
  <1> QED
    BY <1>2, <1>3, <1>4, <1>5, <1>6

\* A lookup of the allowance, and the metadata upload with its one re-check.
LEMMA LookupWindsDown ==
    ASSUME IInv, Probe \/ Grant \/ Check \/ Metadata, pc' # "over"
    PROVE  Rank' < Rank
  <1>1. MaxRegistryRetries \in Nat /\ caller \in {"storage", "metadata", "recheck"}
    BY RetriesAssumption DEF IInv, TypeOK
  <1>2. CASE Probe
    <2>1. pc = "probe" /\ pc' \in {"check", "grant"} /\ caller' = caller
      BY <1>2 DEF Probe, Continue, Fail
    <2> QED
      BY <1>1, <2>1 DEF Rank, LookupRank
  <1>3. CASE Grant
    <2>1. pc = "grant" /\ pc' = "check" /\ caller' = caller
      BY <1>3 DEF Grant, Continue, Fail
    <2> QED
      BY <1>1, <2>1 DEF Rank, LookupRank
  <1>4. CASE Check
    <2>1. /\ pc = "check" /\ caller' = caller
          /\ pc' = IF caller = "storage" THEN "store" ELSE "metadata"
      BY <1>4 DEF Check, SlotReady, Continue, Fail
    <2> QED
      BY <1>1, <2>1 DEF Rank, LookupRank
  <1>5. CASE Metadata
    <2>1. /\ pc = "metadata"
          /\ \/ pc' = "connect"
             \/ pc' = "probe" /\ caller = "metadata" /\ caller' = "recheck"
      BY <1>5 DEF Metadata, Continue, Fail
    <2> QED
      BY <1>1, <2>1 DEF Rank, LookupRank
  <1> QED
    BY <1>2, <1>3, <1>4, <1>5

\* The registry: every attempt that fails is one of the budget.
LEMMA PublishWindsDown ==
    ASSUME IInv, Connect \/ Publish \/ Retry, pc' # "over"
    PROVE  Rank' < Rank
  <1>1. MaxRegistryRetries \in Nat /\ attempts \in 0 .. MaxRegistryRetries
    BY RetriesAssumption DEF IInv, TypeOK
  <1>2. CASE Connect
    BY <1>1, <1>2 DEF Connect, Continue, Fail, Rank
  <1>3. CASE Publish
    <2>1. pc = "publish" /\ pc' = "retry" /\ attempts' = attempts + 1
      BY <1>3 DEF Publish, PublishOk, PublishFailed, Continue, Fail
    <2> QED
      BY <1>1, <2>1 DEF Rank
  <1>4. CASE Retry
    BY <1>1, <1>4 DEF Retry, Continue, Rank
  <1> QED
    BY <1>2, <1>3, <1>4

\* Why DeployEnds holds for every retry budget, but for fairness: each step of
\* runDeploy uses up one of at most 2 * MaxRegistryRetries + 18, whatever the
\* phone, the Bulletin chain and the registry answer.
THEOREM DeployWindsDown == Spec => []RankCounts /\ WindsDown
  <1>1. IInv /\ [Next]_vars => [IF DeployStep THEN Rank' < Rank ELSE Rank' = Rank]_vars
    <2> SUFFICES ASSUME IInv, Next
                 PROVE  IF DeployStep THEN Rank' < Rank ELSE Rank' = Rank
      OBVIOUS
    <2>1. CASE DeployStep
      <3>1. pc # "over"
        BY <2>1 DEF DeployStep, Setup, Build, Resolve, Probe, Grant, Check, Store, Link,
           Metadata, Connect, Publish, Retry
      <3>2. Rank' < Rank
        BY <2>1, <3>1, SettlingWindsDown, StorageWindsDown, LookupWindsDown,
           PublishWindsDown DEF DeployStep
      <3> QED
        BY <2>1, <3>2
    <2>2. CASE ~DeployStep
      <3>1. UNCHANGED <<pc, caller, attempts>>
        BY <2>2 DEF Next, Land, Expire, Settled, vars
      <3> QED
        BY <2>2, <3>1 DEF Rank, LookupRank
    <2> QED
      BY <2>1, <2>2
  <1> QED
    BY <1>1, RankIsCount, Invariance, PTL DEF Spec, WindsDown
=============================================================================
