-------------------------- MODULE ProcessExitProofs -------------------------
(***************************************************************************)
(* The safety properties of ProcessExit, for any number of signals: what   *)
(* the exit code says, what the user is told and what is released, whoever *)
(* of the five wins the race to process.exit; and, at the end, what        *)
(* Decentralize removes from disk and says at its end, whatever the run    *)
(* meets.                                                                  *)
(***************************************************************************)
EXTENDS ProcessExit, Decentralize, TLAPS

SignalCodes == {"1", "130", "143"}

TypeOK ==
    /\ body \in {"starting", "running", "flushing", "tail", "banner"}
    /\ registered = IF body = "starting" THEN 2 ELSE 4
    /\ threw \in BOOLEAN /\ ran \in BOOLEAN
    /\ exitCode \in {"unset", "0", "1"}
    /\ hardExit \in {"none", "0", "1"}
    /\ handler \in [Signals -> [state : {"idle", "cleaning"},
                                code : SignalCodes \cup {"none"}, at : Nat]]

\* What the command has said of itself: nothing before it ended; then a code it
\* set and a message go together; after EndCommand the code is final, the error
\* is printed, and an armed timer agrees with the code.
CodeInv ==
    /\ body \in {"starting", "running"} =>
         ~threw /\ exitCode = "unset" /\ hardExit = "none"
    /\ body = "flushing" => hardExit = "none"
    /\ body \in {"tail", "banner"} =>
         /\ exitCode # "unset"
         /\ threw => exitCode = "1"
         /\ hardExit \in {"none", exitCode}
    /\ printed = IF exitCode = "1" THEN 1 ELSE 0

\* cleanupOnce has run after the command's finally, and in a loop past its hook.
CleanupInv ==
    /\ destroyed = IF ran THEN 1 ELSE 0
    /\ body \in {"flushing", "tail", "banner"} => ran
    /\ \A s \in Signals : handler[s].state = "cleaning" =>
         handler[s].code \in SignalCodes /\ (handler[s].at > 4 => ran)

\* Who ended the process, and with which code.
ExitInv ==
    \/ exited = NotExited
    \/ exited.by = "tail" /\ body = "banner" /\ exited.code = exitCode
    \/ exited.by = "timer" /\ hardExit # "none" /\ exited.code = hardExit
    \/ exited.by = "handler" /\ exited.code \in SignalCodes /\ (registered = 2 \/ ran)
    \/ exited.by \in {"fallback", "watchdog"} /\ exited.code \in SignalCodes \cup {"137"}

IInv == TypeOK /\ CodeInv /\ CleanupInv /\ ExitInv

\* Nothing has happened.
LEMMA InitIInv == Init => IInv
  <1> SUFFICES ASSUME Init PROVE IInv
    OBVIOUS
  <1>1. handler = [s \in Signals |-> Idle]
    BY DEF Init
  <1>2. Idle \in [state : {"idle", "cleaning"}, code : SignalCodes \cup {"none"}, at : Nat]
    BY DEF Idle
  <1>3. Idle.state = "idle"
    BY DEF Idle
  <1>4. TypeOK
    BY <1>1, <1>2 DEF Init, TypeOK
  <1>5. CleanupInv
    BY <1>1, <1>3 DEF Init, CleanupInv
  <1>6. CodeInv /\ ExitInv
    BY DEF Init, CodeInv, ExitInv
  <1> QED BY <1>4, <1>5, <1>6 DEF IInv

\* The command: start, end, and the tail of index.ts.
LEMMA CommandIInv ==
    ASSUME IInv,
           \/ Start
           \/ \E code \in {"unset", "0", "1"} : Return(code)
           \/ \E told \in BOOLEAN : Throw(told)
           \/ EndCommand \/ Flushed
    PROVE  IInv'
  <1> USE DEF IInv, TypeOK
  <1>1. CASE Start
    BY <1>1 DEF Start, CodeInv, CleanupInv, ExitInv, Alive
  <1>2. ASSUME NEW code \in {"unset", "0", "1"}, Return(code) PROVE IInv'
    BY <1>2 DEF Return, Cleanup, CodeInv, CleanupInv, ExitInv, Alive
  <1>3. ASSUME NEW told \in BOOLEAN, Throw(told) PROVE IInv'
    BY <1>3 DEF Throw, Cleanup, CodeInv, CleanupInv, ExitInv, Alive
  <1>4. CASE EndCommand
    BY <1>4 DEF EndCommand, Arm, CodeAfterArm, CodeInv, CleanupInv, ExitInv, Alive
  <1>5. CASE Flushed
    BY <1>5 DEF Flushed, CodeInv, CleanupInv, ExitInv, Alive
  <1> QED BY <1>1, <1>2, <1>3, <1>4, <1>5

\* The exits change nothing but how the process ended.
LEMMA ExitsIInv ==
    ASSUME IInv, \/ IndexExit \/ HardExit \/ WatchdogKill
                 \/ \E s \in Signals : HandlerExit(s) \/ Fallback(s)
    PROVE  IInv'
  <1> USE DEF IInv, TypeOK, Exit, Alive
  <1>1. CASE IndexExit
    BY <1>1 DEF IndexExit, CodeInv, CleanupInv, ExitInv
  <1>2. CASE HardExit
    BY <1>2 DEF HardExit, CodeInv, CleanupInv, ExitInv
  <1>3. CASE WatchdogKill
    BY <1>3 DEF WatchdogKill, CodeInv, CleanupInv, ExitInv
  <1>4. ASSUME NEW s \in Signals, HandlerExit(s) PROVE IInv'
    BY <1>4 DEF HandlerExit, Cleaning, CodeInv, CleanupInv, ExitInv
  <1>5. ASSUME NEW s \in Signals, Fallback(s) PROVE IInv'
    BY <1>5 DEF Fallback, Cleaning, CodeInv, CleanupInv, ExitInv
  <1> QED BY <1>1, <1>2, <1>3, <1>4, <1>5

\* A signal and the hooks of its loop, one of which is the command's cleanup.
LEMMA LoopIInv ==
    ASSUME IInv, NEW s \in Signals,
           (\E code \in SignalCodes : Receive(s, code)) \/ RunHook(s)
    PROVE  IInv'
  <1> USE DEF IInv, TypeOK
  <1>1. ASSUME NEW code \in SignalCodes, Receive(s, code) PROVE IInv'
    BY <1>1 DEF Receive, CodeInv, CleanupInv, ExitInv, Alive
  <1>2. CASE RunHook(s)
    <2>1. handler[s].at <= 4 /\ handler[s].at \in Nat
      BY <1>2 DEF RunHook
    <2>2. ran' \in BOOLEAN /\ (ran => ran') /\ destroyed' = IF ran' THEN 1 ELSE 0
      <3>1. Cleanup \/ (destroyed' = destroyed /\ ran' = ran)
        BY <1>2 DEF RunHook
      <3>2. destroyed = IF ran THEN 1 ELSE 0
        BY DEF CleanupInv
      <3>3. CASE Cleanup
        <4>1. ran' = TRUE
          BY <3>3 DEF Cleanup
        <4>2. destroyed' = 1
          BY <3>2, <3>3 DEF Cleanup
        <4> QED BY <4>1, <4>2
      <3>4. CASE destroyed' = destroyed /\ ran' = ran
        BY <3>2, <3>4
      <3> QED BY <3>1, <3>3, <3>4
    <2>3. handler[s].at = 4 => ran'
      <3>1. Hooks[4] = "cleanup"
        BY DEF Hooks
      <3>2. ASSUME handler[s].at = 4 PROVE Cleanup
        BY <1>2, <3>1, <3>2 DEF RunHook
      <3> QED BY <3>2 DEF Cleanup
    <2>4. handler' = [handler EXCEPT ![s].at = @ + 1]
      BY <1>2 DEF RunHook
    <2>5. CleanupInv'
      BY <1>2, <2>1, <2>2, <2>3, <2>4 DEF RunHook, CleanupInv
    <2>6. TypeOK' /\ CodeInv' /\ ExitInv'
      BY <1>2, <2>1, <2>2, <2>4 DEF RunHook, CodeInv, ExitInv, Alive, Cleaning
    <2> QED BY <2>5, <2>6
  <1> QED BY <1>1, <1>2

\* Every step keeps the invariant.
LEMMA NextIInv == IInv /\ [Next]_vars => IInv'
  <1> SUFFICES ASSUME IInv, [Next]_vars PROVE IInv'
    OBVIOUS
  <1>1. CASE UNCHANGED vars
    BY <1>1 DEF vars, IInv, TypeOK, CodeInv, CleanupInv, ExitInv
  <1>2. CASE Gone
    BY <1>1, <1>2 DEF Gone
  <1> QED BY <1>1, <1>2, CommandIInv, ExitsIInv, LoopIInv DEF Next, SignalCodes

\* The invariant of the race holds throughout, for any number of signals.
LEMMA ExitRaceInvariant == Spec => []IInv
  BY InitIInv, NextIInv, PTL DEF Spec

\* Whoever ends the process, a command that failed does not end it with 0, and
\* the user has been told once by the time index.ts or the timer exits with 1.
THEOREM FailuresAreReported == Spec => []FailureReported
  <1>1. IInv => FailureReported
    BY DEF IInv, TypeOK, CodeInv, ExitInv, FailureReported, Alive, NotExited, SignalCodes
  <1> QED BY <1>1, ExitRaceInvariant, PTL

\* However many signals run the hooks while the command cleans up, resources are
\* destroyed once, and before any orderly exit.
THEOREM CleanupIsOnceAndDone == Spec => []OrderlyExitCleansUp
  <1>1. IInv => OrderlyExitCleansUp
    BY DEF IInv, TypeOK, CleanupInv, ExitInv, OrderlyExitCleansUp, Alive, NotExited
  <1> QED BY <1>1, ExitRaceInvariant, PTL

-----------------------------------------------------------------------------
(* The directories of decentralize.                                        *)

Outcomes == {"settled", "done", "error"}

\* mirrorDir is never the user's directory; there is no mirror before the run makes
\* one; until a run fails mirrorDir names the mirror on disk; a run that succeeded
\* does not come back to where a mirror is made; and what the finally block leaves.
MirrorInv ==
    /\ "userDir" \in disk
    /\ mirrorDir \in {None, "mirror"}
    /\ result \in {"none", "ok", "failed"}
    /\ stage \notin {"slot", "storage", "publish", "finally", "ended"} \cup Outcomes =>
          "mirror" \notin disk /\ mirrorDir = None
    /\ result # "failed" /\ "mirror" \in disk => mirrorDir = "mirror"
    /\ result = "ok" => stage \in {"settled", "done", "ended"}
    /\ (stage \in Outcomes \/ result = "ok") /\ "mirror" \in disk =>
          stuck \/ (mirrorDir = None /\ result = "failed")

\* Steps of the gate, the wizard and the name search.
LEMMA MirrorUntouched ==
    ASSUME MirrorInv, UNCHANGED <<mirrorDir, disk, stuck, result>>,
           result = "ok" => stage' \in {"settled", "done", "ended"},
           "mirror" \in disk \/ mirrorDir # None =>
              stage' = "ended" \/ (stage \in Outcomes /\ stage' \in Outcomes)
    PROVE  MirrorInv'
  BY DEF MirrorInv, None, Outcomes

\* The questions of the wizard: the run has not begun, or has failed.
LEMMA WizardKeepsMirror ==
    ASSUME MirrorInv,
           \/ AnswerSource \/ AnswerLocation \/ AnswerSigner
           \/ AnswerDomain \/ AnswerPublish \/ AnswerModdable
           \/ ModdablePreflight \/ ModdableError \/ AnswerTag
           \/ Confirm
    PROVE  MirrorInv'
  <1>1. UNCHANGED <<mirrorDir, disk, stuck, result>>
    BY DEF AnswerSource, AnswerLocation, AnswerSigner,
           AnswerDomain, AnswerPublish, AnswerModdable,
           ModdablePreflight, ModdableError, AnswerTag,
           Confirm, Answer, AnswerTo, Cancel,
           WizardRest, Rest
  <1>2. stage \notin {"slot", "storage", "publish", "finally", "ended"} \cup Outcomes
    BY DEF AnswerSource, AnswerLocation, AnswerSigner,
           AnswerDomain, AnswerPublish, AnswerModdable,
           ModdablePreflight, ModdableError, AnswerTag,
           Confirm, At, Outcomes
  <1> QED
    BY <1>1, <1>2, MirrorUntouched DEF MirrorInv, Outcomes

\* Everything before the run: gate, checks, signer and name.
LEMMA PreparationKeepsMirror ==
    ASSUME MirrorInv,
           \/ Gate \/ HeadlessChecks \/ HeadlessSigner
           \/ Preflight \/ CheckProvided \/ RejectProvided
           \/ TryRandomName
    PROVE  MirrorInv'
  <1>1. UNCHANGED <<mirrorDir, disk, stuck, result>>
    BY DEF Gate, HeadlessChecks, HeadlessSigner,
           Preflight, CheckProvided, RejectProvided,
           TryRandomName, WizardRest, Rest
  <1>2. stage \notin {"slot", "storage", "publish", "finally", "ended"} \cup Outcomes
    BY DEF Gate, HeadlessChecks, HeadlessSigner,
           Preflight, CheckProvided, RejectProvided,
           TryRandomName, At, Outcomes
  <1> QED
    BY <1>1, <1>2, MirrorUntouched DEF MirrorInv, Outcomes

\* Every step of the command keeps it.
LEMMA MirrorStep ==
    ASSUME MirrorInv, [DecentralizeNext]_decentralizeVars
    PROVE  MirrorInv'
  <1> USE DEF At, Go, Failed, End, Rest
  <1>1. CASE StartRun
    BY <1>1 DEF StartRun, MirrorInv, None, Outcomes
  <1>2. CASE Acquire
    <2>1. PICK o \in MirrorOutcomes \cup LocalOutcomes :
             /\ o \in IF job.kind = "url" THEN MirrorOutcomes
                      ELSE LocalOutcomes
             /\ disk' = IF o.made THEN disk \cup {"mirror"} ELSE disk
             /\ mirrorDir' = IF o.ok /\ job.kind = "url" THEN "mirror" ELSE mirrorDir
             /\ IF o.ok THEN result' = result /\ stage' = "slot"
                ELSE result' = "failed" /\ stage' = "finally"
      BY <1>2 DEF Acquire
    <2>2. o.made /\ o.ok => job.kind = "url"
      BY <2>1 DEF LocalOutcomes
    <2>3. stage = "acquire"
      BY <1>2 DEF Acquire
    <2> QED
      BY <1>2, <2>1, <2>2, <2>3 DEF Acquire, MirrorInv, None, Outcomes
  <1>3. CASE StorageSignerPhase \/ StoragePhase \/ PublishPhase
    BY <1>3 DEF StorageSignerPhase, StoragePhase,
                PublishPhase, Phase, MirrorInv, None, Outcomes
  <1>4. CASE Finally
    BY <1>4 DEF Finally, MirrorInv, None, Outcomes
  <1>5. CASE HeadlessOutcome \/ ScreenOutcome \/ ScreenDone
    BY <1>5, MirrorUntouched
       DEF HeadlessOutcome, ScreenOutcome, ScreenDone, Outcomes
  <1>6. CASE CancelPrompt
    <2>1. stage \notin {"slot", "storage", "publish", "finally", "ended"} \cup Outcomes
      BY <1>6 DEF CancelPrompt, PromptStages, Outcomes
    <2> QED
      BY <1>6, <2>1, MirrorUntouched DEF CancelPrompt, MirrorInv, Outcomes
  <1>7. CASE Interrupt \/ ScreenCrash
    BY <1>7, MirrorUntouched DEF Interrupt, ScreenCrash
  <1>8. CASE UNCHANGED decentralizeVars
    BY <1>8 DEF decentralizeVars, MirrorInv
  <1> QED
    BY <1>1, <1>2, <1>3, <1>4, <1>5, <1>6, <1>7, <1>8, WizardKeepsMirror,
       PreparationKeepsMirror
       DEF DecentralizeNext, ProgramStep, UserStep, Ended

\* "uploaded in place - never deleted" (utils/decentralize/run.ts): on every path
\* through decentralize the user's directory survives, and once the outcome is known
\* the only mirrors left are the ones rmSync failed on and the ones of a failed wget.
THEOREM UserDirectorySurvives == DecentralizeSpec => []OnlyMirrorRemoved
  <1>1. DecentralizeInit => MirrorInv
    BY DEF DecentralizeInit, MirrorInv, None, Outcomes
  <1>2. MirrorInv => OnlyMirrorRemoved
    BY DEF MirrorInv, OnlyMirrorRemoved, Outcomes
  <1> QED
    BY <1>1, <1>2, MirrorStep, PTL DEF DecentralizeSpec
-----------------------------------------------------------------------------
(* How a run of decentralize ends.                                         *)

\* Exit code 0 of a run means that the site is up, and a run that was not
\* interrupted has closed the connection and the session adapter.
RunTellsTruth ==
    Running /\ stage = "ended" =>
        /\ exit = "0" => result = "ok"
        /\ exit # "130" => open = {}

\* Once started a run stays in its own stages, where nothing throws past the
\* finally blocks; the screen says done only of a run that succeeded; and the
\* exit code is set by the step that ends the command.
RunInv ==
    /\ Running => stage \in RunStages \cup {"ended"}
    /\ stage = "done" => result = "ok"
    /\ exit = "none" <=> stage # "ended"
    /\ RunTellsTruth

\* A step that ends the command of a run, with the finally blocks, as they say.
LEMMA EndKeepsRun ==
    ASSUME RunInv, NEW code \in {"0", "1"}, End(code), UNCHANGED <<job, result>>,
           code = "0" => ~Running \/ result = "ok"
    PROVE  RunInv'
  BY DEF RunInv, RunTellsTruth, End, Running

\* A step before the run, to a stage that is neither done nor the end.
LEMMA BeforeRun ==
    ASSUME RunInv, ~Running, UNCHANGED job, stage' # "done",
           exit' = "none" <=> stage' # "ended"
    PROVE  RunInv'
  BY DEF RunInv, RunTellsTruth, Running

\* Where the wizard goes after an answer.
LEMMA PickNextIsAQuestion ==
    ASSUME NEW a
    PROVE  PickNextStage(a) \in PromptStages \cup {"validate-domain", "moddable-preflight"}
  BY DEF PickNextStage, PromptStages

\* Gate, checks, signer, questions and the name search come before the run.
LEMMA PreparationKeepsRun ==
    ASSUME RunInv,
           \/ Gate \/ HeadlessChecks \/ HeadlessSigner \/ Preflight
           \/ CheckProvided \/ RejectProvided \/ TryRandomName
           \/ AnswerSource \/ AnswerLocation \/ AnswerSigner
           \/ AnswerDomain \/ AnswerPublish \/ AnswerModdable
           \/ ModdablePreflight \/ ModdableError \/ AnswerTag \/ Confirm
    PROVE  RunInv'
  <1> USE PickNextIsAQuestion DEF Go, End, ThrowUncaught
  <1>1. CASE Gate \/ HeadlessChecks \/ HeadlessSigner \/ Preflight
    <2>1. stage \notin RunStages \cup {"ended"} /\ UNCHANGED job
      BY <1>1 DEF Gate, HeadlessChecks, HeadlessSigner, Preflight, Rest, RunStages
    <2>2. stage' # "done" /\ (exit' = "none" <=> stage' # "ended")
      BY <1>1, <2>1 DEF Gate, HeadlessChecks, HeadlessSigner, Preflight, RunInv
    <2> QED
      BY <2>1, <2>2, BeforeRun DEF RunInv
  <1>2. CASE CheckProvided \/ RejectProvided \/ TryRandomName
    <2>1. stage = "validate-domain" /\ UNCHANGED job
      BY <1>2 DEF CheckProvided, RejectProvided, TryRandomName, At, WizardRest
    <2>2. exit = "none"
      BY <2>1 DEF RunInv
    <2>3. ASSUME NEW l, LabelFound(l)
          PROVE  stage' # "done" /\ stage' # "ended" /\ exit' = exit
      BY <2>3 DEF LabelFound, PromptStages
    <2>4. ASSUME LabelFailed PROVE stage' # "done" /\ (exit' = "none" <=> stage' # "ended")
      BY <2>2, <2>4 DEF LabelFailed
    <2>5. stage' # "done" /\ (exit' = "none" <=> stage' # "ended")
      BY <1>2, <2>1, <2>2, <2>3, <2>4 DEF CheckProvided, RejectProvided, TryRandomName
    <2> QED
      BY <2>1, <2>5, BeforeRun DEF RunInv, RunStages
  <1>3. CASE \/ AnswerSource \/ AnswerLocation \/ AnswerSigner
             \/ AnswerDomain \/ AnswerPublish \/ AnswerModdable
             \/ ModdablePreflight \/ ModdableError \/ AnswerTag \/ Confirm
    <2>1. stage \in PromptStages \cup {"moddable-preflight"}
      BY <1>3 DEF AnswerSource, AnswerLocation, AnswerSigner, AnswerDomain, AnswerPublish,
         AnswerModdable, ModdablePreflight, ModdableError, AnswerTag, Confirm, At,
         PromptStages
    <2>2. UNCHANGED job /\ (Cancel \/ (stage' \notin {"done", "ended"} /\ exit' = exit))
      <3>1. ASSUME NEW a, Answer(a)
            PROVE  UNCHANGED job /\ stage' \notin {"done", "ended"} /\ exit' = exit
        BY <3>1 DEF Answer, WizardRest, PromptStages
      <3>2. ASSUME NEW a, NEW s, AnswerTo(a, s)
            PROVE  UNCHANGED job /\ stage' = s /\ exit' = exit
        BY <3>2 DEF AnswerTo, WizardRest
      <3>3. Cancel => UNCHANGED job
        BY DEF Cancel, Rest
      <3>4. CASE AnswerSource \/ AnswerLocation \/ AnswerDomain \/ AnswerPublish \/ AnswerTag
        <4>1. \E a : Answer(a)
          BY <3>4 DEF AnswerSource, AnswerLocation, AnswerDomain, AnswerPublish, AnswerTag
        <4> QED
          BY <3>1, <4>1
      <3>5. CASE AnswerSigner \/ AnswerModdable \/ ModdablePreflight
        <4>1. \/ \E a : Answer(a)
              \/ \E a : \E s \in {"error", "moddable-preflight", "moddable-error"} : AnswerTo(a, s)
          BY <3>5 DEF AnswerSigner, AnswerModdable, ModdablePreflight
        <4> QED
          BY <3>1, <3>2, <4>1
      <3>6. CASE ModdableError \/ Confirm
        <4>1. Cancel \/ AnswerTo(answers, "start") \/ \E a : Answer(a)
          BY <3>6 DEF ModdableError, Confirm
        <4> QED
          BY <3>1, <3>2, <3>3, <4>1
      <3> QED
        BY <1>3, <3>4, <3>5, <3>6
    <2>3. ~Running /\ exit = "none"
      BY <2>1 DEF RunInv, PromptStages, RunStages
    <2>4. Cancel => stage' = "ended" /\ exit' = "0"
      BY DEF Cancel
    <2> QED
      BY <2>2, <2>3, <2>4, BeforeRun
  <1> QED
    BY <1>1, <1>2, <1>3

\* Every step of the command keeps it.
LEMMA RunStep == RunInv /\ [DecentralizeNext]_decentralizeVars => RunInv'
  <1> SUFFICES ASSUME RunInv, [DecentralizeNext]_decentralizeVars PROVE RunInv'
    OBVIOUS
  <1>1. CASE StartRun \/ Acquire \/ StorageSignerPhase \/ StoragePhase \/ PublishPhase
             \/ Finally
    <2>1. /\ stage \in {"start", "acquire", "slot", "storage", "publish", "finally"}
          /\ stage' \in {"acquire", "slot", "storage", "publish", "finally", "settled"}
          /\ exit' = exit
      BY <1>1 DEF StartRun, Acquire, StorageSignerPhase, StoragePhase, PublishPhase, Phase,
         Finally, Failed, Go, At
    <2> QED
      BY <2>1 DEF RunInv, RunTellsTruth, RunStages
  <1>2. CASE HeadlessOutcome \/ ScreenDone
    <2>1. UNCHANGED <<job, result>> /\ stage # "ended"
      BY <1>2 DEF HeadlessOutcome, ScreenDone, At, Rest
    <2>2. End("1") \/ (End("0") /\ result = "ok")
      BY <1>2 DEF HeadlessOutcome, ScreenDone, RunInv
    <2> QED
      BY <2>1, <2>2, EndKeepsRun
  <1>3. CASE ScreenOutcome
    BY <1>3 DEF ScreenOutcome, Go, At, Rest, RunInv, RunTellsTruth, RunStages, Running
  <1>4. CASE CancelPrompt
    BY <1>4, BeforeRun DEF CancelPrompt, Go, Rest, RunInv, PromptStages, RunStages
  <1>5. CASE Interrupt
    BY <1>5 DEF Interrupt, Rest, RunInv, RunTellsTruth, Running
  <1>6. CASE ScreenCrash
    BY <1>6, EndKeepsRun DEF ScreenCrash, Rest
  <1>7. CASE UNCHANGED decentralizeVars
    BY <1>7 DEF decentralizeVars, RunInv, RunTellsTruth, Running
  <1> QED
    BY <1>1, <1>2, <1>3, <1>4, <1>5, <1>6, <1>7, PreparationKeepsRun
       DEF DecentralizeNext, ProgramStep, UserStep, Ended

\* runDecentralize and its callers: exit code 0 after a run has started means the
\* site went up, and unless it was interrupted the finally blocks closed the
\* connection and the session adapter, through every failure and a crash of the
\* screen.
THEOREM RunsEndTruthfully == DecentralizeSpec => []RunTellsTruth
  <1>1. DecentralizeInit => RunInv
    BY DEF DecentralizeInit, RunInv, RunTellsTruth, Running
  <1>2. RunInv => RunTellsTruth
    BY DEF RunInv
  <1> QED
    BY <1>1, <1>2, RunStep, PTL DEF DecentralizeSpec
\* How many steps a run can still take.
RunRank ==
    CASE stage = "start" -> 8 [] stage = "acquire" -> 7 [] stage = "slot" -> 6 [] stage = "storage" -> 5
      [] stage = "publish" -> 4 [] stage = "finally" -> 3 [] stage = "settled" -> 2
      [] stage \in {"done", "error"} -> 1 [] OTHER -> 0

\* Every step of a run that was started, the user's and a crash of the screen
\* included, brings its end nearer.
RunWindsDown == [][Running => RunRank' < RunRank /\ Running']_decentralizeVars

\* A run goes from stage to stage, forwards, or ends.
LEMMA RunGoesForward ==
    ASSUME RunInv, DecentralizeNext, ~UNCHANGED decentralizeVars, Running
    PROVE  RunRank' < RunRank /\ Running'
  <1>1. stage \in RunStages \cup {"ended"}
    BY DEF RunInv
  <1>2. ~(Gate \/ HeadlessChecks \/ HeadlessSigner \/ Preflight
          \/ CheckProvided \/ RejectProvided \/ TryRandomName \/ ModdablePreflight)
    BY <1>1 DEF Gate, HeadlessChecks, HeadlessSigner, Preflight, CheckProvided, RejectProvided,
       TryRandomName, ModdablePreflight, At, RunStages
  <1>3. ~(AnswerSource \/ AnswerLocation \/ AnswerSigner \/ AnswerDomain \/ AnswerPublish
          \/ AnswerModdable \/ ModdableError \/ AnswerTag \/ Confirm \/ CancelPrompt)
    BY <1>1 DEF AnswerSource, AnswerLocation, AnswerSigner, AnswerDomain, AnswerPublish,
       AnswerModdable, ModdableError, AnswerTag, Confirm, CancelPrompt, At, PromptStages, RunStages
  <1>4. CASE StartRun
    <2>1. stage = "start" /\ stage' \in {"acquire", "settled"}
      BY <1>4 DEF StartRun, At, Failed, Go
    <2>2. "kind" \in DOMAIN job' /\ "kind" \notin DOMAIN NoJob
      BY <1>4 DEF StartRun, NoJob
    <2>3. Running'
      BY <2>2 DEF Running
    <2> QED BY <2>1, <2>3 DEF RunRank
  <1>5. CASE Acquire \/ StorageSignerPhase \/ StoragePhase \/ PublishPhase \/ Finally
    <2>1. /\ UNCHANGED job
          /\ \/ stage = "acquire" /\ stage' \in {"slot", "finally"}
             \/ stage = "slot" /\ stage' \in {"storage", "finally"}
             \/ stage = "storage" /\ stage' \in {"publish", "finally"}
             \/ stage = "publish" /\ stage' = "finally"
             \/ stage = "finally" /\ stage' = "settled"
      BY <1>5 DEF Acquire, StorageSignerPhase, StoragePhase, PublishPhase, Finally, Phase, At,
         Failed, Go
    <2> QED BY <2>1 DEF RunRank, Running
  <1>6. CASE ScreenOutcome
    <2>1. UNCHANGED job /\ stage = "settled" /\ stage' \in {"done", "error"}
      BY <1>6 DEF ScreenOutcome, At, Go, Rest
    <2> QED BY <2>1 DEF RunRank, Running
  <1>7. CASE HeadlessOutcome \/ ScreenDone \/ Interrupt \/ ScreenCrash
    <2>1. UNCHANGED job /\ stage' = "ended"
      BY <1>7 DEF HeadlessOutcome, ScreenDone, Interrupt, ScreenCrash, End, Rest
    <2>2. stage \in RunStages
      BY <1>1, <1>7 DEF HeadlessOutcome, ScreenDone, Interrupt, ScreenCrash, At, ScreenStages,
         PromptStages, RunStages
    <2> QED BY <2>1, <2>2 DEF RunRank, Running, RunStages
  <1> QED
    BY <1>2, <1>3, <1>4, <1>5, <1>6, <1>7 DEF DecentralizeNext, ProgramStep, UserStep, Ended

\* Why RunEnds holds, but for fairness: a run of runDecentralize takes at most
\* eight steps to the end of the command, whatever wget, the uploads and the phone
\* answer and whenever Ctrl+C comes.
THEOREM RunsWindDown == DecentralizeSpec => RunWindsDown
  <1>1. DecentralizeInit => RunInv
    BY DEF DecentralizeInit, RunInv, RunTellsTruth, Running
  <1>2. RunInv /\ [DecentralizeNext]_decentralizeVars =>
          [Running => RunRank' < RunRank /\ Running']_decentralizeVars
    BY RunGoesForward
  <1> QED
    BY <1>1, <1>2, RunStep, PTL DEF DecentralizeSpec, RunWindsDown
=============================================================================
