--------------------------- MODULE DeployCommand ----------------------------
(***************************************************************************)
(* `playground deploy`, from the flags to the call of runDeploy and the    *)
(* exit code (commands/deploy/index.ts and DeployScreen.tsx).              *)
(*                                                                         *)
(*   gate -> --yes defaults -> preflight -> dispatch                       *)
(*        -> runHeadless, or the wizard's stages                           *)
(*        -> contracts -> runDeploy -> exit                                *)
(*                                                                         *)
(* The command is sequential; what varies is the flags, the user's         *)
(* answers, and how each query, build and transaction turns out.           *)
(***************************************************************************)
EXTENDS SignerSetup, FiniteSets, Naturals

CONSTANT Flags   \* the command lines explored, each a record as in FlagShape

Unset == "unset"
YesNo == {"yes", "no"}
Tri == YesNo \cup {Unset}

FlagShape ==
    [signer : Modes \cup {Unset}, domain : {Unset, "valid", "invalid"},
     buildDir : {Unset, "given"}, playground : {Unset, "yes"}, build : YesNo,
     contracts : Tri, moddable : Tri, tag : {Unset, "given"},
     suri : BOOLEAN, yes : BOOLEAN, tty : BOOLEAN]

ASSUME FlagsAssumption == Flags \subseteq FlagShape

\* Null marks "no job yet"; a job is what runDeploy was called with.
NoJob == [mode |-> None]

VARIABLES flags,       \* the (effective) options
          session,     \* a phone session is stored on this machine
          stage,       \* where the command is; prompts carry the code's names
          gateAccount, \* the account the identity gate asked about
          user,        \* the signer preflight resolved
          answers,     \* the wizard's answers, or runHeadless's locals
          plan,        \* what the availability check found
          checkedFor,  \* the owner the availability check asked about
          job,         \* inputs of the runDeploy call
          result,      \* "none", "ok", "failed"
          exit         \* "none", "0", "1"

vars == <<flags, session, stage, gateAccount, user, answers, plan, checkedFor,
          job, result, exit>>

NoAnswers == [skipBuild |-> Unset, mode |-> Unset, contracts |-> Unset,
              buildDir |-> Unset, domain |-> Unset, publish |-> Unset,
              moddable |-> Unset, repo |-> None, tag |-> Unset]

Init ==
    /\ flags \in Flags
    /\ session \in BOOLEAN
    /\ stage = "gate"
    /\ gateAccount = None
    /\ user = None
    /\ answers = NoAnswers
    /\ plan = None
    /\ checkedFor = None
    /\ job = NoJob
    /\ result = "none"
    /\ exit = "none"

End(code) == stage' = "ended" /\ exit' = code
Go(s) == stage' = s /\ exit' = exit

-----------------------------------------------------------------------------
(* Gate, defaults, preflight, dispatch.                                    *)

\* resolveActingH160 and findSession: whose identity the gate asks about.
ActingAccount ==
    IF flags.suri THEN "suri"
    ELSE IF flags.signer = "dev" THEN "devKey"
    ELSE IF session THEN "session"
    ELSE None

\* enforceIdentityGate: only a revealed account goes on.  Not logged in,
\* anonymous and unverifiable are a notice and exit 0; a throw is exit 1.
Gate ==
    /\ stage = "gate"
    /\ gateAccount' = ActingAccount
    /\ \/ ActingAccount # None /\ Go("options")
       \/ End("0")
       \/ End("1")
    /\ UNCHANGED <<flags, session, user, answers, plan, checkedFor, job, result>>

\* resolveYesDeployOpts
ResolveYes ==
    /\ stage = "options"
    /\ IF flags.yes /\ flags.domain = Unset
       THEN End("1") /\ flags' = flags
       ELSE /\ Go("preflight")
            /\ flags' = IF ~flags.yes THEN flags
                        ELSE [flags EXCEPT !.signer = IF @ = Unset THEN "dev" ELSE @,
                                           !.buildDir = "given"]
    /\ UNCHANGED <<session, gateAccount, user, answers, plan, checkedFor, job, result>>

\* shouldResolveUserSigner
NeedsUserSigner == flags.signer # "dev" \/ flags.suri \/ flags.playground = "yes"

\* preflight: no signer is fine; a session account that is not mapped, or a
\* failed lookup, ends the command.
Preflight ==
    /\ stage = "preflight"
    /\ \/ /\ user' = IF ~NeedsUserSigner THEN None
                     ELSE IF flags.suri THEN "suri"
                     ELSE IF session THEN "session" ELSE None
          /\ Go("dispatch")
       \/ NeedsUserSigner /\ user' = user /\ End("1")
    /\ UNCHANGED <<flags, session, gateAccount, answers, plan, checkedFor, job, result>>

\* isFullySpecified: `--playground` can only be passed as true.
FullySpecified ==
    /\ flags.signer # Unset
    /\ flags.domain # Unset
    /\ flags.buildDir # Unset
    /\ flags.playground # Unset
    /\ flags.contracts # Unset

OrNo(x) == IF x = Unset THEN "no" ELSE x

\* Faulty variant: --no-build wins over contracts that changed.
HeadlessInputsNoBuild ==
    [skipBuild |-> IF flags.build = "yes" THEN "no" ELSE "yes",
     mode |-> flags.signer, contracts |-> OrNo(flags.contracts),
     buildDir |-> flags.buildDir, domain |-> flags.domain,
     publish |-> OrNo(flags.playground), moddable |-> OrNo(flags.moddable),
     repo |-> None, tag |-> IF flags.tag = Unset THEN None ELSE flags.tag]

\* runHeadless: the locals it starts from.
HeadlessInputs ==
    [skipBuild |-> IF flags.contracts = "yes" \/ flags.build = "yes" THEN "no" ELSE "yes",
     mode |-> flags.signer, contracts |-> OrNo(flags.contracts),
     buildDir |-> flags.buildDir, domain |-> flags.domain,
     publish |-> OrNo(flags.playground), moddable |-> OrNo(flags.moddable),
     repo |-> None, tag |-> IF flags.tag = Unset THEN None ELSE flags.tag]

HasSession == user = "session"

\* runInteractive's props and DeployScreen's initial state: without a session
\* --signer phone is asked again, and so is a --domain that does not parse.
WizardInputs ==
    [skipBuild |-> IF flags.contracts = "yes" THEN "no"
                   ELSE IF flags.build = "no" THEN "yes" ELSE Unset,
     mode |-> IF flags.signer = "phone" /\ ~HasSession THEN Unset ELSE flags.signer,
     contracts |-> flags.contracts,
     buildDir |-> flags.buildDir,
     domain |-> IF flags.domain = "invalid" THEN Unset ELSE flags.domain,
     publish |-> flags.playground, moddable |-> flags.moddable,
     repo |-> None, tag |-> flags.tag]

\* chooseDeployDispatch
Dispatch ==
    /\ stage = "dispatch"
    /\ \/ /\ flags.yes \/ FullySpecified
          /\ answers' = HeadlessInputs
          /\ Go("headless")
       \/ /\ ~(flags.yes \/ FullySpecified)
          /\ flags.tty
          /\ answers' = WizardInputs
          /\ Go("ack")
       \/ /\ ~(flags.yes \/ FullySpecified)
          /\ ~flags.tty
          /\ answers' = answers
          /\ End("1")
    /\ UNCHANGED <<flags, session, gateAccount, user, plan, checkedFor, job, result>>

-----------------------------------------------------------------------------
(* runHeadless.                                                            *)

\* The checks before any network call; --no-build without artifacts throws too.
HeadlessChecks ==
    /\ stage = "headless"
    /\ \/ /\ answers.publish = "yes" \/ (answers.moddable = "no" /\ answers.tag = None)
          /\ ~(answers.mode = "phone" /\ ~HasSession)
          /\ answers.domain = "valid"
          /\ Go("headless-domain")
       \/ /\ \/ answers.publish = "no" /\ (answers.moddable = "yes" \/ answers.tag # None)
             \/ answers.skipBuild = "yes"
             \/ answers.mode = "phone" /\ ~HasSession
             \/ answers.domain = "invalid"
          /\ End("1")
    /\ UNCHANGED <<flags, session, gateAccount, user, answers, plan, checkedFor, job, result>>

\* checkDomainAvailability for the account that will sign.
HeadlessDomain ==
    /\ stage = "headless-domain"
    /\ checkedFor' = DotnsOwner(answers.mode, user)
    /\ \/ plan' \in {"register", "update"} /\ Go("headless-repo")
       \/ plan' = plan /\ End("1")
    /\ UNCHANGED <<flags, session, gateAccount, user, answers, job, result>>

\* ensureGitInstalled, resolveRepositoryUrl.
HeadlessRepo ==
    /\ stage = "headless-repo"
    /\ \/ answers' = [answers EXCEPT !.repo = IF answers.moddable = "yes" THEN "url" ELSE None]
          /\ Go("contracts")
       \/ answers.moddable = "yes" /\ answers' = answers /\ End("1")
    /\ UNCHANGED <<flags, session, gateAccount, user, plan, checkedFor, job, result>>

-----------------------------------------------------------------------------
(* The wizard (DeployScreen).                                              *)

EffectiveSkipBuild(a) == IF a.contracts = "yes" THEN "no" ELSE a.skipBuild

\* pickNextStage: the first question still open.
PickNextStage(a) ==
    LET open == << <<a.contracts = Unset, "prompt-contracts">>,
                   <<EffectiveSkipBuild(a) = Unset, "prompt-build">>,
                   <<a.mode = Unset, "prompt-signer">>,
                   <<a.buildDir = Unset, "prompt-buildDir">>,
                   <<a.domain = Unset, "prompt-domain">>,
                   <<a.publish = Unset, "prompt-publish">>,
                   <<a.publish = "yes" /\ a.moddable = Unset, "prompt-moddable">>,
                   <<a.publish = "yes" /\ a.moddable = "yes" /\ a.repo = None,
                     "moddable-preflight">>,
                   <<a.publish = "yes" /\ a.tag = Unset, "prompt-tags">>,
                   <<TRUE, "confirm">> >>
    IN  open[CHOOSE i \in DOMAIN open :
                 open[i][1] /\ \A k \in 1..(i - 1) : ~open[k][1]][2]

\* `resolved`: ConfirmStage and RunningStage render only when this holds.
Complete(a) ==
    /\ Unset \notin {a.mode, a.contracts, a.buildDir, a.domain, a.publish,
                     EffectiveSkipBuild(a), a.moddable}
    /\ a.publish = "yes" => a.tag # Unset

Resolved(a) == [a EXCEPT !.skipBuild = EffectiveSkipBuild(a),
                         !.tag = IF a.publish = "yes" THEN @ ELSE None]

\* One prompt answered: the answer is stored and the next stage picked.
Answer(a) ==
    /\ answers' = a
    /\ Go(PickNextStage(a))
    /\ UNCHANGED <<flags, session, gateAccount, user, plan, checkedFor, job, result>>

At(s) == stage = s

\* Leave without deploying: graceful is exit 0, a cancel is exit 1.
Leave(code) ==
    /\ End(code)
    /\ UNCHANGED <<flags, session, gateAccount, user, answers, plan, checkedFor, job, result>>

Ack == At("ack") /\ (Answer(answers) \/ Leave("0"))

AnswerContracts ==
    /\ At("prompt-contracts")
    /\ \/ Answer([answers EXCEPT !.contracts = "no"])
       \/ /\ answers' = [answers EXCEPT !.contracts = "yes", !.skipBuild = "no"]
          /\ Go("prompt-contracts-notice")
          /\ UNCHANGED <<flags, session, gateAccount, user, plan, checkedFor, job, result>>

ContractsNotice == At("prompt-contracts-notice") /\ (Answer(answers) \/ Leave("0"))

AnswerBuild ==
    /\ At("prompt-build")
    /\ \E skip \in YesNo : Answer([answers EXCEPT !.skipBuild = skip])

\* deploySignerOptions: the phone option is disabled without a session.
AnswerSigner ==
    /\ At("prompt-signer")
    /\ \E m \in Modes : (m = "phone" => HasSession) /\ Answer([answers EXCEPT !.mode = m])

AnswerBuildDir == At("prompt-buildDir") /\ Answer([answers EXCEPT !.buildDir = "given"])

\* The input's validate admits only names that parse.
AnswerDomain ==
    /\ At("prompt-domain")
    /\ answers' = [answers EXCEPT !.domain = "valid"]
    /\ Go("validate-domain")
    /\ UNCHANGED <<flags, session, gateAccount, user, plan, checkedFor, job, result>>

\* The owner ValidateDomainStage is given, DeployScreen's own expression.
WizardOwner ==
    IF answers.mode = "phone" THEN user
    ELSE IF user = "suri" THEN "suri" ELSE "devKey"

\* Faulty variant: the check always asks about the session account.
ValidateDomainForUser ==
    /\ At("validate-domain")
    /\ checkedFor' = user
    /\ \/ plan' \in {"register", "update"} /\ Go(PickNextStage(answers))
       \/ plan' = plan /\ Go("prompt-domain")
    /\ UNCHANGED <<flags, session, gateAccount, user, answers, job, result>>

\* ValidateDomainStage: available, or back to the prompt with the reason.
ValidateDomain ==
    /\ At("validate-domain")
    /\ checkedFor' = WizardOwner
    /\ \/ plan' \in {"register", "update"} /\ Go(PickNextStage(answers))
       \/ plan' = plan /\ Go("prompt-domain")
    /\ UNCHANGED <<flags, session, gateAccount, user, answers, job, result>>

AnswerPublish ==
    /\ At("prompt-publish")
    /\ \E yes \in YesNo :
          Answer([answers EXCEPT !.publish = yes,
                                 !.moddable = IF yes = "yes" THEN @ ELSE "no"])

AnswerModdable ==
    /\ At("prompt-moddable")
    /\ \/ /\ answers' = [answers EXCEPT !.moddable = "yes"]
          /\ Go("moddable-preflight")
          /\ UNCHANGED <<flags, session, gateAccount, user, plan, checkedFor, job, result>>
       \/ Answer([answers EXCEPT !.moddable = "no"])

ModdablePreflight ==
    /\ At("moddable-preflight")
    /\ \/ Answer([answers EXCEPT !.repo = "url"])
       \/ /\ Go("moddable-error")
          /\ UNCHANGED <<flags, session, gateAccount, user, answers, plan, checkedFor,
                         job, result>>

ModdableError ==
    /\ At("moddable-error")
    /\ Answer([answers EXCEPT !.moddable = "no"]) \/ Leave("0")

AnswerTag ==
    /\ At("prompt-tags")
    /\ \E t \in {"given", None} : Answer([answers EXCEPT !.tag = t])

\* ConfirmStage renders only when every answer is there.
Confirm ==
    /\ At("confirm")
    /\ Complete(answers)
    /\ \/ /\ answers' = Resolved(answers)
          /\ Go("contracts")
          /\ UNCHANGED <<flags, session, gateAccount, user, plan, checkedFor, job, result>>
       \/ Leave("1")

WizardStages ==
    {"ack", "prompt-contracts", "prompt-contracts-notice", "prompt-build",
     "prompt-signer", "prompt-buildDir", "prompt-domain", "validate-domain",
     "prompt-publish", "prompt-moddable", "moddable-preflight", "moddable-error",
     "prompt-tags", "confirm"}

-----------------------------------------------------------------------------
(* Both paths: contracts, then the deploy.                                 *)

\* The inputs runDeploy is called with.
JobOf(a) == [mode |-> a.mode, skipBuild |-> a.skipBuild, contracts |-> a.contracts,
             publish |-> a.publish, moddable |-> a.moddable, repo |-> a.repo,
             tag |-> a.tag]

\* runContractsBeforeFrontend: every step of it must succeed.
Contracts ==
    /\ stage = "contracts"
    /\ \/ job' = JobOf(answers) /\ Go("running") /\ result' = result
       \/ /\ answers.contracts = "yes"
          /\ job' = job /\ result' = "failed" /\ End("1")
    /\ UNCHANGED <<flags, session, gateAccount, user, answers, plan, checkedFor>>

\* runDeploy returns or throws; classifyDeployDone and the catch set the code.
RunDeploy ==
    /\ stage = "running"
    /\ \/ ~SetupFails(job.mode, user) /\ result' = "ok" /\ End("0")
       \/ result' = "failed" /\ End("1")
    /\ UNCHANGED <<flags, session, gateAccount, user, answers, plan, checkedFor, job>>

\* waitUntilExit before onDone: the terminal UI was closed (ctrl-c).
TuiClosed ==
    /\ stage \in WizardStages \cup {"contracts", "running"}
    /\ ~(flags.yes \/ FullySpecified)
    /\ Leave("1")

Ended == stage = "ended" /\ UNCHANGED vars

Next ==
    \/ Gate \/ ResolveYes \/ Preflight \/ Dispatch
    \/ HeadlessChecks \/ HeadlessDomain \/ HeadlessRepo
    \/ Ack \/ AnswerContracts \/ ContractsNotice \/ AnswerBuild \/ AnswerSigner
    \/ AnswerBuildDir \/ AnswerDomain \/ ValidateDomain \/ AnswerPublish
    \/ AnswerModdable \/ ModdablePreflight \/ ModdableError \/ AnswerTag
    \/ Confirm \/ TuiClosed
    \/ Contracts \/ RunDeploy
    \/ Ended

Spec == Init /\ [][Next]_vars

-----------------------------------------------------------------------------
Running == job # NoJob

\* Contracts that were redeployed are compiled into the frontend: no path, flag
\* or answer, combines a contract deploy with a skipped build.
ContractsRebuild == Running /\ job.contracts = "yes" => job.skipBuild = "no"

\* The availability check asked about the account that then signs DotNS, in
\* both paths: "mine" in the check is "mine" on chain.
OwnerIsSigner ==
    Running /\ checkedFor # None => checkedFor = DotnsSigner(job.mode, user)

\* The summary announces a phone approval, counted or hinted at, for exactly those
\* parts of the deploy the session account has to approve: the DotNS operations, the
\* registry publish, the contract deploy and the grant of the slot key that uploads
\* (signerMode.ts against summary.ts, contracts.ts and index.ts, four code paths).
TapsAnnounced ==
    Running =>
        LET publish == job.publish = "yes"
            contracts == job.contracts = "yes"
            shown == Announced(job.mode, plan, publish, contracts)
        IN  /\ "link" \in shown <=> DotnsSigner(job.mode, user) = "session"
            /\ "publish" \in shown <=> PublishSigner(job.mode, user, publish) = "session"
            /\ "contracts" \in shown <=> ContractSigner(job.mode, user, contracts) = "session"
            /\ "allowance" \in shown <=> StorageSigner(job.mode, user) = "slotKey"

\* What identityGate.ts:74-79 says: "the registry decides on the account that
\* actually publishes", so for a local key "the gate must ask about THAT key".
GateAsksPublisher ==
    Running /\ flags.yes /\ job.publish = "yes" =>
        gateAccount = PublishSigner(job.mode, user, TRUE)
=============================================================================
