---------------------------- MODULE Decentralize ----------------------------
(***************************************************************************)
(* `playground decentralize`: republish a static site, mirrored from a URL *)
(* or taken from a local directory (commands/decentralize and              *)
(* utils/decentralize).                                                    *)
(*                                                                         *)
(*   gate -> runHeadless, or the wizard -> runDecentralize -> exit         *)
(*                                                                         *)
(* Ctrl+C reaches the process in two ways.  While a prompt is on screen    *)
(* Ink holds the terminal in raw mode, sees the key itself and unmounts;   *)
(* at any other time it is a SIGINT, which the process guard handles.      *)
(***************************************************************************)
EXTENDS SignerSetup, Naturals

CONSTANT MaxAttempts   \* findAvailableRandomName's maxAttempts (20 in the code)

ASSUME MaxAttemptsAssumption == MaxAttempts \in Nat \ {0}

Unset == "unset"
YesNo == {"yes", "no"}
Sources == {"url", "path"}

\* The command lines commander accepts: --moddable conflicts with --site.
FlagShape ==
    {f \in [source : Sources \cup {Unset}, dot : {Unset, "valid", "invalid"},
            suri : BOOLEAN, playground : BOOLEAN, tag : BOOLEAN, moddable : BOOLEAN] :
        ~(f.source = "url" /\ f.moddable)}

NoJob == [mode |-> None]

VARIABLES flags,      \* the options
          session,    \* a phone session is stored
          stage,      \* where the command is; prompts carry the code's names
          user,       \* explicitSigner ?? sessionSigner
          answers,    \* the wizard's answers, or runHeadless's locals
          checkedFor, \* the owner the availability checks asked about
          tries,      \* random names tried by the present search
          job,        \* inputs of the runDecentralize call
          mirrorDir,  \* the local of that name in runDecentralize
          disk,       \* directories that exist: the user's and the mirror's
          stuck,      \* history: rmSync could not remove the mirror
          result,     \* of runDecentralize: "none", "ok", "failed"
          open,       \* the shared connection and the session adapter, while open
          exit        \* "none", "0", "1", "130"

decentralizeVars == <<flags, session, stage, user, answers, checkedFor, tries, job,
                      mirrorDir, disk, stuck, result, open, exit>>

Rest == <<flags, session, user, answers, checkedFor, tries, job, mirrorDir, disk, stuck, result>>

Interactive == flags.source = Unset

\* DecentralizeScreen's initial state; runHeadless reads the same options.
InitialAnswers(f) ==
    [kind |-> f.source, located |-> f.source # Unset,
     mode |-> IF f.suri THEN "dev" ELSE Unset, dot |-> f.dot, label |-> Unset,
     publish |-> IF f.playground THEN "yes" ELSE Unset,
     moddable |-> IF f.moddable THEN "yes" ELSE Unset, repo |-> None,
     tag |-> IF f.tag THEN "given" ELSE Unset]

DecentralizeInit ==
    /\ flags \in FlagShape
    /\ session \in BOOLEAN
    /\ stage = "gate"
    /\ user = None
    /\ answers = InitialAnswers(flags)
    /\ checkedFor = None
    /\ tries = 0
    /\ job = NoJob
    /\ mirrorDir = None
    /\ disk = {"userDir"}
    /\ stuck = FALSE
    /\ result = "none"
    /\ open = {"connection"}
    /\ exit = "none"

Go(s) == stage' = s /\ UNCHANGED <<open, exit>>

\* The command's end; the finally blocks release what is open.
End(code) == stage' = "ended" /\ exit' = code /\ open' = {}

\* A throw outside every try: nothing is released, index.ts exits.
ThrowUncaught == stage' = "ended" /\ exit' = "1" /\ open' = open

-----------------------------------------------------------------------------
(* Gate and signer.                                                        *)

\* enforceIdentityGate on the --suri account or the session: only a revealed
\* one goes on; a notice destroys the connection and is exit 0.
Gate ==
    /\ stage = "gate"
    /\ \/ (flags.suri \/ session) /\ Go(IF Interactive THEN "preflight" ELSE "checks")
       \/ End("0")
       \/ ThrowUncaught
    /\ UNCHANGED Rest

\* runHeadless up to the signer: the tag check is outside the try; then the
\* directory, --moddable without --playground, git and the repository URL.
HeadlessChecks ==
    /\ stage = "checks"
    /\ \/ /\ flags.tag /\ ~flags.playground
          /\ ThrowUncaught
          /\ answers' = answers
       \/ /\ flags.tag => flags.playground
          /\ flags.source = "path"
          /\ End("1")
          /\ answers' = answers
       \/ /\ flags.tag => flags.playground
          /\ flags.moddable => flags.playground
          /\ Go("signer")
          /\ answers' = [answers EXCEPT !.repo = IF flags.moddable THEN "url" ELSE None]
    /\ UNCHANGED <<flags, session, user, checkedFor, tries, job, mirrorDir, disk, stuck, result>>

\* resolveSigner: the --suri key, or a session whose adapter stays open.
Resolved(who) ==
    /\ user' = who
    /\ open' = IF who = "session" THEN open \cup {"adapter"} ELSE open

\* resolveSigner and `mode` in runHeadless; no signer is an error here.
HeadlessSigner ==
    /\ stage = "signer"
    /\ \/ /\ flags.suri \/ session
          /\ Resolved(IF flags.suri THEN "suri" ELSE "session")
          /\ answers' = [answers EXCEPT !.mode = IF flags.suri THEN "dev" ELSE "phone"]
          /\ stage' = "validate-domain" /\ exit' = exit
       \/ End("1") /\ UNCHANGED <<user, answers>>
    /\ UNCHANGED <<flags, session, checkedFor, tries, job, mirrorDir, disk, stuck, result>>

\* resolvePreflightSigner: no session is fine here; the store's read may also
\* time out.  A throw comes before the try.
Preflight ==
    /\ stage = "preflight"
    /\ \/ \E who \in IF flags.suri THEN {"suri"}
                     ELSE {None} \cup (IF session THEN {"session"} ELSE {}) :
             /\ Resolved(who)
             /\ stage' = "prompt-source"
             /\ exit' = exit
       \/ user' = user /\ ThrowUncaught
    /\ UNCHANGED <<flags, session, answers, checkedFor, tries, job, mirrorDir, disk, stuck, result>>

-----------------------------------------------------------------------------
(* The wizard (DecentralizeScreen).                                        *)

\* pickNextStage: the first question still open.
PickNextStage(a) ==
    LET source == a.kind = "path" /\ a.publish = "yes"
    IN  IF a.kind = Unset THEN "prompt-source"
        ELSE IF ~a.located THEN IF a.kind = "url" THEN "prompt-url" ELSE "prompt-path"
        ELSE IF a.mode = Unset THEN "prompt-signer"
        ELSE IF a.label = Unset
             THEN IF a.dot = Unset THEN "prompt-domain" ELSE "validate-domain"
        ELSE IF a.publish = Unset THEN "prompt-publish"
        ELSE IF source /\ a.moddable = Unset THEN "prompt-moddable"
        ELSE IF source /\ a.moddable = "yes" /\ a.repo = None THEN "moddable-preflight"
        ELSE IF a.publish = "yes" /\ a.tag = Unset THEN "prompt-tags"
        ELSE "confirm"

At(s) == stage = s
WizardRest == <<flags, session, user, checkedFor, tries, job, mirrorDir, disk, stuck, result>>

\* The answer is stored and the next stage picked (advance).
Answer(a) == answers' = a /\ Go(PickNextStage(a)) /\ UNCHANGED WizardRest

\* The answer is stored and the stage set by name.
AnswerTo(a, s) == answers' = a /\ Go(s) /\ UNCHANGED WizardRest

\* onDone with "cancel": exit 0.
Cancel == End("0") /\ UNCHANGED Rest

AnswerSource ==
    /\ At("prompt-source")
    /\ \E k \in Sources : Answer([answers EXCEPT !.kind = k])

\* The inputs' validate admits only a URL, or a directory with an index.html.
AnswerLocation ==
    /\ stage \in {"prompt-url", "prompt-path"}
    /\ Answer([answers EXCEPT !.located = TRUE])

\* Phone stays selectable without a session, and is then an error.
AnswerSigner ==
    /\ At("prompt-signer")
    /\ \E m \in Modes :
          IF m = "phone" /\ user # "session" THEN AnswerTo(answers, "error")
          ELSE Answer([answers EXCEPT !.mode = m])

\* Blank asks for a generated name.
AnswerDomain ==
    /\ At("prompt-domain")
    /\ \E d \in {"blank", "valid"} : Answer([answers EXCEPT !.dot = d])

AnswerPublish ==
    /\ At("prompt-publish")
    /\ \E yes \in YesNo : Answer([answers EXCEPT !.publish = yes])

AnswerModdable ==
    /\ At("prompt-moddable")
    /\ \/ AnswerTo([answers EXCEPT !.moddable = "yes"], "moddable-preflight")
       \/ Answer([answers EXCEPT !.moddable = "no"])

ModdablePreflight ==
    /\ At("moddable-preflight")
    /\ \/ Answer([answers EXCEPT !.moddable = "yes", !.repo = "url"])
       \/ AnswerTo(answers, "moddable-error")

ModdableError ==
    /\ At("moddable-error")
    /\ Answer([answers EXCEPT !.moddable = "no"]) \/ Cancel

AnswerTag ==
    /\ At("prompt-tags")
    /\ \E t \in {"given", None} : Answer([answers EXCEPT !.tag = t])

Confirm ==
    /\ At("confirm")
    /\ AnswerTo(answers, "start") \/ Cancel

-----------------------------------------------------------------------------
(* resolveDomain, for both paths.                                          *)

\* activeSigner of the wizard, `signer` of runHeadless.
ActiveSigner ==
    IF ~Interactive \/ user = "suri" THEN user
    ELSE IF answers.mode = "phone" THEN user
    ELSE "devKey"

\* The label is settled: back to advance, or on to runDecentralize.
LabelFound(l) ==
    LET a == [answers EXCEPT !.label = l]
    IN  /\ answers' = a
        /\ Go(IF Interactive THEN PickNextStage(a) ELSE "start")

\* resolveDomain throws: the wizard asks again, runHeadless gives up.
LabelFailed ==
    IF Interactive
    THEN answers' = [answers EXCEPT !.dot = Unset] /\ Go("prompt-domain")
    ELSE answers' = answers /\ End("1")

\* A name was given: it is checked; one whose status is unknown is used.
CheckProvided ==
    /\ At("validate-domain") /\ answers.dot = "valid"
    /\ checkedFor' = ActiveSigner
    /\ LabelFound("asked") \/ LabelFailed
    /\ UNCHANGED <<flags, session, user, tries, job, mirrorDir, disk, stuck, result>>

\* normalizeDomain throws before any check.
RejectProvided ==
    /\ At("validate-domain") /\ answers.dot = "invalid"
    /\ LabelFailed
    /\ UNCHANGED WizardRest

\* findAvailableRandomName: one name is made up and checked.  Only one that is
\* known to be free will do.
TryRandomName ==
    /\ At("validate-domain") /\ answers.dot \in {Unset, "blank"}
    /\ checkedFor' = ActiveSigner
    /\ \/ LabelFound("random") /\ tries' = 0
       \/ /\ tries + 1 < MaxAttempts
          /\ tries' = tries + 1
          /\ UNCHANGED <<stage, answers, open, exit>>
       \/ tries + 1 = MaxAttempts /\ LabelFailed /\ tries' = 0
    /\ UNCHANGED <<flags, session, user, job, mirrorDir, disk, stuck, result>>

-----------------------------------------------------------------------------
(* runDecentralize.                                                        *)

Failed(s) == result' = "failed" /\ Go(s)

\* resolveSignerSetup and the outcome's signerSource, before the try.
StartRun ==
    /\ At("start")
    /\ job' = [mode |-> answers.mode, kind |-> answers.kind,
               publish |-> answers.publish = "yes", repo |-> answers.repo,
               source |-> IF answers.mode = "phone" THEN "session" ELSE "dev"]
    /\ IF SetupFails(answers.mode, user) THEN Failed("settled")
       ELSE result' = result /\ Go("acquire")
    /\ UNCHANGED <<flags, session, user, answers, checkedFor, tries, mirrorDir, disk, stuck>>

\* Faulty variant: the upload root is taken for the directory to clean up.
AcquireAnyDir ==
    /\ At("acquire")
    /\ \/ /\ mirrorDir' = IF job.kind = "url" THEN "mirror" ELSE "userDir"
          /\ disk' = IF job.kind = "url" THEN disk \cup {"mirror"} ELSE disk
          /\ result' = result /\ Go("slot")
       \/ mirrorDir' = mirrorDir /\ disk' = disk /\ Failed("finally")
    /\ UNCHANGED <<flags, session, user, answers, checkedFor, tries, job, stuck>>

\* How mirrorSite can end: a bad URL makes no directory; wget that is missing,
\* fails or finds no page leaves the one made for it behind.
MirrorOutcomes ==
    {[made |-> FALSE, ok |-> FALSE], [made |-> TRUE, ok |-> FALSE],
     [made |-> TRUE, ok |-> TRUE]}

\* prepareLocalDirectory only looks; the directory may have changed meanwhile.
LocalOutcomes == {[made |-> FALSE, ok |-> FALSE], [made |-> FALSE, ok |-> TRUE]}

\* The site is mirrored, or the local directory looked at again; mirrorDir is
\* set once mirrorSite has returned.
Acquire ==
    /\ At("acquire")
    /\ \E o \in IF job.kind = "url" THEN MirrorOutcomes ELSE LocalOutcomes :
          /\ disk' = IF o.made THEN disk \cup {"mirror"} ELSE disk
          /\ mirrorDir' = IF o.ok /\ job.kind = "url" THEN "mirror" ELSE mirrorDir
          /\ IF o.ok THEN result' = result /\ Go("slot") ELSE Failed("finally")
    /\ UNCHANGED <<flags, session, user, answers, checkedFor, tries, job, stuck>>

\* resolveStorageSignerOptions, runStorageDeploy, publishToPlayground: each may
\* throw (DeployPipeline and SigningProxy look inside them).
Phase(s, next) ==
    /\ At(s)
    /\ (result' = result /\ Go(next)) \/ Failed("finally")
    /\ UNCHANGED <<flags, session, user, answers, checkedFor, tries, job, mirrorDir, disk, stuck>>

StorageSignerPhase == Phase("slot", "storage")
StoragePhase == Phase("storage", IF job.publish THEN "publish" ELSE "finally")
PublishPhase == Phase("publish", "finally")

\* The finally block removes mirrorDir, and ignores an rmSync that throws; then
\* the caller hears of the outcome.
Finally ==
    /\ At("finally")
    /\ \/ disk' = disk \ {mirrorDir} /\ stuck' = stuck
       \/ mirrorDir # None /\ disk' = disk /\ stuck' = TRUE
    /\ result' = IF result = "failed" THEN "failed" ELSE "ok"
    /\ Go("settled")
    /\ UNCHANGED <<flags, session, user, answers, checkedFor, tries, job, mirrorDir>>

\* runHeadless prints the outcome, or the error, and is done.
HeadlessOutcome ==
    /\ At("settled") /\ ~Interactive
    /\ End(IF result = "ok" THEN "0" ELSE "1")
    /\ UNCHANGED Rest

\* Faulty variant: RunningStage does not catch.
ScreenOutcomeUncaught ==
    /\ At("settled") /\ Interactive /\ result = "ok"
    /\ Go("done")
    /\ UNCHANGED Rest

\* RunningStage's effect: onComplete or onFailed.
ScreenOutcome ==
    /\ At("settled") /\ Interactive
    /\ Go(IF result = "ok" THEN "done" ELSE "error")
    /\ UNCHANGED Rest

\* DoneStage and ErrorStage call onDone as soon as they are shown.
ScreenDone ==
    /\ stage \in {"done", "error"}
    /\ End(IF stage = "done" THEN "0" ELSE "1")
    /\ UNCHANGED Rest

-----------------------------------------------------------------------------
(* Ctrl+C and a crash of the screen.                                       *)

\* Stages with a Select or an Input, which put the terminal in raw mode.
PromptStages ==
    {"prompt-source", "prompt-url", "prompt-path", "prompt-signer", "prompt-domain",
     "prompt-publish", "prompt-moddable", "moddable-error", "prompt-tags", "confirm"}

RunStages == {"start", "acquire", "slot", "storage", "publish", "finally", "settled",
              "done", "error"}
ScreenStages == PromptStages \cup RunStages \cup {"validate-domain", "moddable-preflight"}

\* Ink takes the key and unmounts: waitUntilExit resolves, which nobody awaits.
CancelPrompt ==
    /\ stage \in PromptStages
    /\ Go("closed")
    /\ UNCHANGED Rest

\* Anywhere else, and once the screen is closed: SIGINT.  Only the wizard has a
\* hook that releases; no finally block runs.
Interrupt ==
    /\ stage \notin PromptStages \cup {"ended"}
    /\ stage' = "ended"
    /\ exit' = "130"
    /\ open' = IF Interactive /\ stage \in ScreenStages \cup {"closed"} THEN {} ELSE open
    /\ UNCHANGED Rest

\* A render throws: waitUntilExit rejects, the promise with it.
ScreenCrash ==
    /\ Interactive
    /\ stage \in ScreenStages
    /\ End("1")
    /\ UNCHANGED Rest

Ended == stage = "ended" /\ UNCHANGED decentralizeVars

\* What the program does of itself.
ProgramStep ==
    \/ Gate \/ HeadlessChecks \/ HeadlessSigner \/ Preflight
    \/ CheckProvided \/ RejectProvided \/ TryRandomName \/ ModdablePreflight
    \/ StartRun \/ Acquire \/ StorageSignerPhase \/ StoragePhase \/ PublishPhase
    \/ Finally \/ HeadlessOutcome \/ ScreenOutcome \/ ScreenDone

\* What the user does.
UserStep ==
    \/ AnswerSource \/ AnswerLocation \/ AnswerSigner \/ AnswerDomain \/ AnswerPublish
    \/ AnswerModdable \/ ModdableError \/ AnswerTag \/ Confirm
    \/ CancelPrompt \/ Interrupt

DecentralizeNext == ProgramStep \/ UserStep \/ ScreenCrash \/ Ended

DecentralizeSpec == DecentralizeInit /\ [][DecentralizeNext]_decentralizeVars

\* wget, the uploads and the phone answer or fail; the user need not do anything.
DecentralizeFairSpec == DecentralizeSpec /\ WF_decentralizeVars(ProgramStep)

-----------------------------------------------------------------------------
Running == job # NoJob

\* "uploaded in place - never deleted" (run.ts:57-58): the user's directory survives
\* every path.  Once the outcome is known a mirror is left only when rmSync could
\* not remove it, or when wget failed after mirrorSite had made the directory: then
\* runDecentralize never learns its name, and no site went up.
OnlyMirrorRemoved ==
    /\ "userDir" \in disk
    /\ (stage \in {"settled", "done", "error"} \/ result = "ok") /\ "mirror" \in disk =>
          stuck \/ (mirrorDir = None /\ result = "failed")

\* A run that was started comes to an end, and unless it was interrupted the
\* connection and the session adapter are closed.
RunEnds == Running ~> (stage = "ended" /\ (exit # "130" => open = {}))

\* What DecentralizeScreen.tsx:247 says: "Press Ctrl+C any time to cancel."
CancelEnds == (stage = "closed") ~> (stage = "ended")
=============================================================================
