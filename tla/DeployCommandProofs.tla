------------------------ MODULE DeployCommandProofs -------------------------
(***************************************************************************)
(* The safety properties of DeployCommand, for every set of command lines. *)
(***************************************************************************)
EXTENDS DeployCommand, TLAPS

Questions == {"prompt-contracts", "prompt-build", "prompt-signer", "prompt-buildDir",
              "prompt-domain", "prompt-publish", "prompt-moddable", "moddable-preflight",
              "prompt-tags", "confirm"}

\* The wizard asks for the signer only while it has none, and for the domain
\* only when it has one.
LEMMA PickNextFacts ==
    ASSUME NEW a
    PROVE  /\ PickNextStage(a) \in Questions
           /\ PickNextStage(a) = "prompt-signer" => a.mode = Unset
           /\ PickNextStage(a) = "prompt-domain" => a.mode # Unset
  <1> DEFINE open == << <<a.contracts = Unset, "prompt-contracts">>,
                   <<EffectiveSkipBuild(a) = Unset, "prompt-build">>,
                   <<a.mode = Unset, "prompt-signer">>,
                   <<a.buildDir = Unset, "prompt-buildDir">>,
                   <<a.domain = Unset, "prompt-domain">>,
                   <<a.publish = Unset, "prompt-publish">>,
                   <<a.publish = "yes" /\ a.moddable = Unset, "prompt-moddable">>,
                   <<a.publish = "yes" /\ a.moddable = "yes" /\ a.repo = None,
                     "moddable-preflight">>,
                   <<a.publish = "yes" /\ a.tag = Unset, "prompt-tags">>,
                   <<TRUE, "confirm">> >>
         First(i) == open[i][1] /\ \A k \in 1..(i - 1) : ~open[k][1]
  <1>1. DOMAIN open = 1..10
    OBVIOUS
  <1>2. /\ open[1][2] = "prompt-contracts" /\ open[2][2] = "prompt-build" /\ open[3][2] = "prompt-signer"
        /\ open[4][2] = "prompt-buildDir" /\ open[5][2] = "prompt-domain" /\ open[6][2] = "prompt-publish"
        /\ open[7][2] = "prompt-moddable" /\ open[8][2] = "moddable-preflight" /\ open[9][2] = "prompt-tags"
        /\ open[10][2] = "confirm"
    OBVIOUS
  <1>3. open[3][1] = (a.mode = Unset) /\ open[10][1] = TRUE
    OBVIOUS
  <1>4. PickNextStage(a) = open[CHOOSE i \in DOMAIN open : First(i)][2]
    BY DEF PickNextStage
  <1> HIDE DEF open
  <1>5. \E i \in 1..10 : First(i)
    <2>1. CASE \A k \in 1..9 : ~open[k][1]
      <3>1. First(10)
        BY <1>3, <2>1
      <3> QED BY <3>1
    <2>2. CASE \E k \in 1..9 : open[k][1]
      <3>1. open[1][1] => First(1)
        OBVIOUS
      <3>2. ~open[1][1] /\ open[2][1] => First(2)
        OBVIOUS
      <3>3. ~open[1][1] /\ ~open[2][1] /\ open[3][1] => First(3)
        OBVIOUS
      <3> DEFINE none == ~open[1][1] /\ ~open[2][1] /\ ~open[3][1]
      <3>4. none /\ open[4][1] => First(4)
        OBVIOUS
      <3>5. none /\ ~open[4][1] /\ open[5][1] => First(5)
        OBVIOUS
      <3>6. none /\ ~open[4][1] /\ ~open[5][1] /\ open[6][1] => First(6)
        OBVIOUS
      <3> DEFINE none6 == none /\ ~open[4][1] /\ ~open[5][1] /\ ~open[6][1]
      <3>7. none6 /\ open[7][1] => First(7)
        OBVIOUS
      <3>8. none6 /\ ~open[7][1] /\ open[8][1] => First(8)
        OBVIOUS
      <3>9. none6 /\ ~open[7][1] /\ ~open[8][1] /\ open[9][1] => First(9)
        OBVIOUS
      <3> HIDE DEF First
      <3> QED BY <2>2, <3>1, <3>2, <3>3, <3>4, <3>5, <3>6, <3>7, <3>8, <3>9
    <2> QED BY <2>1, <2>2
  <1> DEFINE j == CHOOSE i \in DOMAIN open : First(i)
  <1>6. j \in 1..10 /\ First(j)
    BY <1>1, <1>5
  <1>7. PickNextStage(a) = open[j][2]
    BY <1>4
  <1> HIDE DEF j
  <1>8. open[j][2] \in Questions
    BY <1>2, <1>6 DEF Questions
  <1>9. j = 3 => a.mode = Unset
    BY <1>3, <1>6
  <1>10. j = 5 => a.mode # Unset
    <2> SUFFICES ASSUME j = 5 PROVE a.mode # Unset
      OBVIOUS
    <2>1. 3 \in 1..(j - 1)
      OBVIOUS
    <2>2. ~open[3][1]
      BY <1>6, <2>1
    <2> QED BY <1>3, <2>2
  <1> QED BY <1>2, <1>6, <1>7, <1>8, <1>9, <1>10

-----------------------------------------------------------------------------
(* The inductive invariant.                                                *)

AnswerShape ==
    [skipBuild : Tri, mode : Modes \cup {Unset}, contracts : Tri, buildDir : {Unset, "given"},
     domain : {Unset, "valid", "invalid"}, publish : Tri, moddable : Tri,
     repo : {None, "url"}, tag : {Unset, None, "given"}]

Early == {"gate", "options", "preflight", "dispatch"}
Headless == {"headless", "headless-domain", "headless-repo"}
Late == {"contracts", "running"}

TypeOK ==
    /\ flags \in FlagShape
    /\ user \in Users
    /\ answers \in AnswerShape
    /\ stage \in Early \cup Headless \cup WizardStages \cup Late \cup {"ended"}

\* --yes has given the signer mode once the options are resolved.
YesInv == flags.yes = TRUE /\ stage \in {"preflight", "dispatch"} => flags.signer # Unset

\* Contracts force a build wherever the wizard no longer decides it.
BuildInv ==
    stage \in Headless \cup Late =>
        answers.mode \in Modes /\ (answers.contracts = "yes" => answers.skipBuild = "no")

\* A phone deploy has a session, and the availability check was about the
\* account of the mode that is no longer asked for.
SignerInv ==
    /\ stage \in Early => answers.mode = Unset /\ checkedFor = None
    /\ answers.mode = "phone" /\ stage \notin {"headless", "ended"} => user = "session"
    /\ stage = "prompt-signer" => answers.mode = Unset
    /\ stage \in {"prompt-domain", "validate-domain"} => answers.mode # Unset
    /\ checkedFor # None /\ stage # "ended" =>
         answers.mode # Unset /\ checkedFor = DotnsOwner(answers.mode, user)

\* What runDeploy was called with.
JobInv ==
    /\ stage \notin {"running", "ended"} => job = NoJob
    /\ job # NoJob =>
         /\ job.mode \in Modes
         /\ job.contracts = "yes" => job.skipBuild = "no"
         /\ job.mode = "phone" => user = "session"
         /\ checkedFor # None => checkedFor = DotnsOwner(job.mode, user)

IInv == TypeOK /\ YesInv /\ BuildInv /\ SignerInv /\ JobInv

\* The command has just been started.
LEMMA InitIInv == Init => IInv
  <1> SUFFICES ASSUME Init PROVE IInv
    OBVIOUS
  <1>1. flags \in FlagShape /\ stage = "gate" /\ job = NoJob /\ checkedFor = None /\ user = None
    BY FlagsAssumption DEF Init
  <1>2. answers \in AnswerShape /\ answers.mode = Unset
    BY DEF Init, NoAnswers, AnswerShape, Tri
  <1>3. Unset # "phone"
    BY DEF Unset
  <1> QED BY <1>1, <1>2, <1>3 DEF IInv, TypeOK, YesInv, BuildInv, SignerInv, JobInv, Early, Headless,
                                  Late, Users

\* Leaving the command early keeps everything else.
LEMMA LeavePreserved ==
    ASSUME IInv, stage' = "ended", stage # "ended",
           UNCHANGED <<user, checkedFor, job>>, flags' \in FlagShape, answers' \in AnswerShape
    PROVE  IInv'
  BY DEF IInv, TypeOK, YesInv, BuildInv, SignerInv, JobInv, Early, Headless, Late

\* A question answered: the next stage is a question, a check or a notice.
LEMMA AnswerPreserved ==
    ASSUME IInv, stage \in WizardStages, UNCHANGED <<flags, user, checkedFor, job>>,
           answers' \in AnswerShape,
           answers'.mode = answers.mode \/ (stage = "prompt-signer" /\ answers'.mode # Unset),
           answers'.mode = "phone" => user = "session",
           \/ stage' = PickNextStage(answers')
           \/ stage' \in {"prompt-contracts-notice", "moddable-preflight", "moddable-error"}
    PROVE  IInv'
  <1>1. /\ stage' \in WizardStages
        /\ stage' = "prompt-signer" => answers'.mode = Unset
        /\ stage' = "prompt-domain" => answers'.mode # Unset
        /\ stage' # "validate-domain" /\ stage' # "ended"
    BY PickNextFacts DEF Questions, WizardStages
  <1>2. stage \notin Early \cup Headless \cup Late \cup {"ended"}
        /\ stage' \notin Early \cup Headless \cup Late \cup {"ended"}
    BY <1>1 DEF WizardStages, Early, Headless, Late
  <1>3. checkedFor # None => answers.mode # Unset /\ answers'.mode = answers.mode
    BY <1>2 DEF IInv, SignerInv
  <1> QED BY <1>1, <1>2, <1>3 DEF IInv, TypeOK, YesInv, BuildInv, SignerInv, JobInv, Early, Headless, Late

\* The steps before the two paths part.
LEMMA EarlyPreserved ==
    ASSUME IInv, Gate \/ ResolveYes \/ Preflight \/ Dispatch
    PROVE  IInv'
  <1> USE DEF End, Go
  <1>0. TypeOK /\ YesInv /\ SignerInv /\ JobInv
    BY DEF IInv
  <1>1. CASE Gate
    <2>1. /\ stage = "gate" /\ stage' \in {"options", "ended"}
          /\ UNCHANGED <<flags, user, answers, checkedFor, job>>
      BY <1>1 DEF Gate
    <2> QED BY <2>1 DEF IInv, TypeOK, YesInv, BuildInv, SignerInv, JobInv, Early, Headless, Late
  <1>2. CASE ResolveYes
    <2>1. stage = "options" /\ stage' \in {"preflight", "ended"} /\ UNCHANGED <<user, answers, checkedFor, job>>
      BY <1>2 DEF ResolveYes
    <2>2. flags' \in FlagShape
      BY <1>0, <1>2 DEF ResolveYes, TypeOK, FlagShape, Modes
    <2>3. stage' = "preflight" /\ flags'.yes = TRUE => flags'.signer # Unset
      <3>1. CASE flags.yes
        BY <1>0, <1>2, <3>1 DEF ResolveYes, TypeOK, FlagShape, Unset
      <3>2. CASE ~flags.yes
        BY <1>0, <1>2, <3>2 DEF ResolveYes, TypeOK, FlagShape
      <3> QED BY <3>1, <3>2
    <2> QED BY <2>1, <2>2, <2>3 DEF IInv, TypeOK, YesInv, BuildInv, SignerInv, JobInv, Early, Headless, Late
  <1>3. CASE Preflight
    <2>1. /\ stage = "preflight" /\ stage' \in {"dispatch", "ended"}
          /\ UNCHANGED <<flags, answers, checkedFor, job>>
      BY <1>3 DEF Preflight
    <2>2. user' \in Users
      BY <1>0, <1>3 DEF Preflight, TypeOK, Users
    <2>3. answers.mode = Unset /\ checkedFor = None /\ job = NoJob
      BY <1>0, <2>1 DEF SignerInv, JobInv, Early
    <2>4. Unset # "phone"
      BY DEF Unset
    <2> QED BY <2>1, <2>2, <2>3, <2>4 DEF IInv, TypeOK, YesInv, BuildInv, SignerInv, JobInv, Early, Headless, Late
  <1>4. CASE Dispatch
    <2>1. stage = "dispatch" /\ UNCHANGED <<flags, user, checkedFor, job>>
      BY <1>4 DEF Dispatch
    <2>2. checkedFor = None /\ job = NoJob
      BY <1>0, <2>1 DEF SignerInv, JobInv, Early
    <2>3. CASE answers' = HeadlessInputs /\ stage' = "headless" /\ (flags.yes \/ FullySpecified)
      <3>1. flags.signer \in Modes
        BY <1>0, <2>1, <2>3 DEF FullySpecified, YesInv, TypeOK, FlagShape
      <3>2. answers' \in AnswerShape
        BY <1>0, <2>3 DEF HeadlessInputs, AnswerShape, TypeOK, FlagShape, Tri, YesNo, OrNo
      <3>3. answers'.mode \in Modes /\ (answers'.contracts = "yes" => answers'.skipBuild = "no")
        BY <2>3, <3>1 DEF HeadlessInputs, OrNo
      <3> QED BY <1>0, <2>1, <2>2, <2>3, <3>2, <3>3
              DEF IInv, TypeOK, YesInv, BuildInv, SignerInv, JobInv, Early, Headless, Late
    <2>4. CASE answers' = WizardInputs /\ stage' = "ack"
      <3>1. answers' \in AnswerShape
        BY <1>0, <2>4 DEF WizardInputs, AnswerShape, TypeOK, FlagShape, Tri, YesNo, Unset
      <3>2. answers'.mode = "phone" => user = "session"
        BY <2>4 DEF WizardInputs, HasSession, Unset
      <3>3. "ack" \in WizardStages
        BY DEF WizardStages
      <3> QED BY <1>0, <2>1, <2>2, <2>4, <3>1, <3>2, <3>3
              DEF IInv, TypeOK, YesInv, BuildInv, SignerInv, JobInv, Early, Headless, Late
    <2>5. CASE answers' = answers /\ stage' = "ended"
      BY <1>0, <2>1, <2>5, LeavePreserved DEF TypeOK
    <2> QED BY <1>4, <2>3, <2>4, <2>5 DEF Dispatch
  <1> QED BY <1>1, <1>2, <1>3, <1>4

\* The steps of runHeadless.
LEMMA HeadlessPreserved ==
    ASSUME IInv, HeadlessChecks \/ HeadlessDomain \/ HeadlessRepo
    PROVE  IInv'
  <1> USE DEF End, Go
  <1>0. TypeOK /\ YesInv /\ BuildInv /\ SignerInv /\ JobInv
    BY DEF IInv
  <1>1. CASE HeadlessChecks
    <2>1. stage = "headless" /\ UNCHANGED <<flags, user, answers, checkedFor, job>>
          /\ (stage' = "ended" \/ (stage' = "headless-domain" /\ ~(answers.mode = "phone" /\ ~HasSession)))
      BY <1>1 DEF HeadlessChecks
    <2> QED BY <2>1 DEF IInv, TypeOK, YesInv, BuildInv, SignerInv, JobInv, Early, Headless, Late, HasSession
  <1>2. CASE HeadlessDomain
    <2>1. /\ stage = "headless-domain" /\ UNCHANGED <<flags, user, answers, job>>
          /\ checkedFor' = DotnsOwner(answers.mode, user) /\ stage' \in {"ended", "headless-repo"}
      BY <1>2 DEF HeadlessDomain
    <2>2. answers.mode \in Modes /\ job = NoJob
      BY <1>0, <2>1 DEF BuildInv, JobInv, Headless
    <2>3. answers.mode # Unset
      BY <2>2 DEF Modes, Unset
    <2> QED BY <2>1, <2>2, <2>3 DEF IInv, TypeOK, YesInv, BuildInv, SignerInv, JobInv, Early, Headless, Late
  <1>3. CASE HeadlessRepo
    <2>1. /\ stage = "headless-repo" /\ UNCHANGED <<flags, user, checkedFor, job>>
          /\ stage' \in {"ended", "contracts"}
      BY <1>3 DEF HeadlessRepo
    <2>2. \/ answers' = answers
          \/ \E r \in {None, "url"} : answers' = [answers EXCEPT !.repo = r]
      BY <1>3 DEF HeadlessRepo
    <2>3. /\ answers' \in AnswerShape /\ answers'.mode = answers.mode
          /\ answers'.contracts = answers.contracts /\ answers'.skipBuild = answers.skipBuild
      BY <1>0, <2>2 DEF TypeOK, AnswerShape
    <2> QED BY <2>1, <2>3 DEF IInv, TypeOK, YesInv, BuildInv, SignerInv, JobInv, Early, Headless, Late
  <1> QED BY <1>1, <1>2, <1>3

\* The steps that both paths share.
LEMMA LatePreserved ==
    ASSUME IInv, Contracts \/ RunDeploy \/ TuiClosed \/ Ended
    PROVE  IInv'
  <1> USE DEF End, Go
  <1>0. TypeOK /\ YesInv /\ BuildInv /\ SignerInv /\ JobInv
    BY DEF IInv
  <1>1. CASE Contracts
    <2>1. stage = "contracts" /\ UNCHANGED <<flags, user, answers, checkedFor>>
      BY <1>1 DEF Contracts
    <2>2. CASE job' = JobOf(answers) /\ stage' = "running"
      <3>1. /\ job'.mode = answers.mode /\ job'.contracts = answers.contracts
            /\ job'.skipBuild = answers.skipBuild
        BY <2>2 DEF JobOf
      <3> QED BY <2>1, <2>2, <3>1 DEF IInv, TypeOK, YesInv, BuildInv, SignerInv, JobInv, Early, Headless, Late
    <2>3. CASE job' = job /\ stage' = "ended"
      BY <1>0, <2>1, <2>3, LeavePreserved DEF TypeOK
    <2> QED BY <1>1, <2>2, <2>3 DEF Contracts
  <1>2. CASE RunDeploy
    <2>1. stage = "running" /\ stage' = "ended" /\ UNCHANGED <<flags, user, answers, checkedFor, job>>
      BY <1>2 DEF RunDeploy
    <2> QED BY <1>0, <2>1, LeavePreserved DEF TypeOK
  <1>3. CASE TuiClosed
    <2>1. stage # "ended" /\ stage' = "ended" /\ UNCHANGED <<flags, user, answers, checkedFor, job>>
      BY <1>3 DEF TuiClosed, Leave, WizardStages
    <2> QED BY <1>0, <2>1, LeavePreserved DEF TypeOK
  <1>4. CASE Ended
    BY <1>4 DEF Ended, vars, IInv, TypeOK, YesInv, BuildInv, SignerInv, JobInv
  <1> QED BY <1>1, <1>2, <1>3, <1>4

\* A question answered without touching the signer.
LEMMA PlainAnswer ==
    ASSUME IInv, stage \in WizardStages, NEW a \in AnswerShape, a.mode = answers.mode, Answer(a)
    PROVE  IInv'
  <1>1. answers' = a /\ stage' = PickNextStage(a) /\ UNCHANGED <<flags, user, checkedFor, job>>
    BY DEF Answer, Go
  <1>2. a.mode = "phone" => user = "session"
    BY DEF IInv, SignerInv, WizardStages
  <1> QED BY <1>1, <1>2, AnswerPreserved

\* A wizard left without deploying.
LEMMA WizardLeft ==
    ASSUME IInv, stage \in WizardStages, NEW code, Leave(code)
    PROVE  IInv'
  <1>1. stage # "ended" /\ stage' = "ended" /\ UNCHANGED <<flags, user, answers, checkedFor, job>>
    BY DEF Leave, End, WizardStages
  <1> QED BY <1>1, LeavePreserved DEF IInv, TypeOK

\* The questions of the wizard.
LEMMA WizardPreserved ==
    ASSUME IInv,
           \/ Ack \/ AnswerContracts \/ ContractsNotice \/ AnswerBuild \/ AnswerSigner
           \/ AnswerBuildDir \/ AnswerPublish \/ AnswerModdable \/ ModdablePreflight
           \/ ModdableError \/ AnswerTag
    PROVE  IInv'
  <1>0. answers \in AnswerShape /\ (stage \in WizardStages /\ answers.mode = "phone" => user = "session")
    BY DEF IInv, TypeOK, SignerInv, WizardStages
  <1>1. CASE Ack \/ ContractsNotice
    <2>1. stage \in WizardStages
      BY <1>1 DEF Ack, ContractsNotice, At, WizardStages
    <2> QED BY <1>0, <1>1, <2>1, PlainAnswer, WizardLeft DEF Ack, ContractsNotice
  <1>2. CASE AnswerContracts
    <2>1. stage \in WizardStages
      BY <1>2 DEF AnswerContracts, At, WizardStages
    <2>2. CASE Answer([answers EXCEPT !.contracts = "no"])
      <3> DEFINE a == [answers EXCEPT !.contracts = "no"]
      <3>1. a \in AnswerShape /\ a.mode = answers.mode
        BY <1>0 DEF AnswerShape, Tri, YesNo
      <3> HIDE DEF a
      <3>2. Answer(a)
        BY <2>2 DEF a
      <3> QED BY <2>1, <3>1, <3>2, PlainAnswer
    <2>3. CASE /\ answers' = [answers EXCEPT !.contracts = "yes", !.skipBuild = "no"]
               /\ stage' = "prompt-contracts-notice" /\ UNCHANGED <<flags, user, checkedFor, job>>
      <3>1. answers' \in AnswerShape /\ answers'.mode = answers.mode
        BY <1>0, <2>3 DEF AnswerShape, Tri, YesNo
      <3> QED BY <1>0, <2>1, <2>3, <3>1, AnswerPreserved
    <2> QED BY <1>2, <2>2, <2>3 DEF AnswerContracts, Go
  <1>3. CASE AnswerBuild
    <2>1. stage \in WizardStages
      BY <1>3 DEF AnswerBuild, At, WizardStages
    <2>2. PICK skip \in YesNo : Answer([answers EXCEPT !.skipBuild = skip])
      BY <1>3 DEF AnswerBuild
    <2> DEFINE a == [answers EXCEPT !.skipBuild = skip]
    <2>3. a \in AnswerShape /\ a.mode = answers.mode
      BY <1>0 DEF AnswerShape, Tri
    <2> HIDE DEF a
    <2>4. Answer(a)
      BY <2>2 DEF a
    <2> QED BY <2>1, <2>3, <2>4, PlainAnswer
  <1>4. CASE AnswerSigner
    <2>1. stage = "prompt-signer" /\ stage \in WizardStages
      BY <1>4 DEF AnswerSigner, At, WizardStages
    <2>2. PICK m \in Modes : (m = "phone" => HasSession) /\ Answer([answers EXCEPT !.mode = m])
      BY <1>4 DEF AnswerSigner
    <2>3. /\ answers' = [answers EXCEPT !.mode = m] /\ stage' = PickNextStage(answers')
          /\ UNCHANGED <<flags, user, checkedFor, job>>
      BY <2>2 DEF Answer, Go
    <2>4. answers' \in AnswerShape /\ answers'.mode = m
      BY <1>0, <2>3 DEF AnswerShape
    <2>5. m # Unset
      BY DEF Modes, Unset
    <2>6. answers'.mode = "phone" => user = "session"
      BY <2>2, <2>4 DEF HasSession
    <2> QED BY <2>1, <2>3, <2>4, <2>5, <2>6, AnswerPreserved
  <1>5. CASE AnswerBuildDir
    <2>1. stage \in WizardStages
      BY <1>5 DEF AnswerBuildDir, At, WizardStages
    <2> DEFINE a == [answers EXCEPT !.buildDir = "given"]
    <2>2. a \in AnswerShape /\ a.mode = answers.mode /\ Answer(a)
      BY <1>0, <1>5 DEF AnswerShape, AnswerBuildDir
    <2> HIDE DEF a
    <2> QED BY <2>1, <2>2, PlainAnswer
  <1>6. CASE AnswerPublish
    <2>1. stage \in WizardStages
      BY <1>6 DEF AnswerPublish, At, WizardStages
    <2>2. PICK yes \in YesNo :
            Answer([answers EXCEPT !.publish = yes, !.moddable = IF yes = "yes" THEN @ ELSE "no"])
      BY <1>6 DEF AnswerPublish
    <2> DEFINE a == [answers EXCEPT !.publish = yes, !.moddable = IF yes = "yes" THEN @ ELSE "no"]
    <2>3. a \in AnswerShape /\ a.mode = answers.mode
      BY <1>0 DEF AnswerShape, Tri, YesNo
    <2> HIDE DEF a
    <2>4. Answer(a)
      BY <2>2 DEF a
    <2> QED BY <2>1, <2>3, <2>4, PlainAnswer
  <1>7. CASE AnswerModdable \/ ModdableError
    <2>1. stage \in WizardStages
      BY <1>7 DEF AnswerModdable, ModdableError, At, WizardStages
    <2>2. CASE Answer([answers EXCEPT !.moddable = "no"])
      <3> DEFINE a == [answers EXCEPT !.moddable = "no"]
      <3>1. a \in AnswerShape /\ a.mode = answers.mode
        BY <1>0 DEF AnswerShape, Tri, YesNo
      <3> HIDE DEF a
      <3>2. Answer(a)
        BY <2>2 DEF a
      <3> QED BY <2>1, <3>1, <3>2, PlainAnswer
    <2>3. CASE /\ answers' = [answers EXCEPT !.moddable = "yes"]
               /\ stage' = "moddable-preflight" /\ UNCHANGED <<flags, user, checkedFor, job>>
      <3>1. answers' \in AnswerShape /\ answers'.mode = answers.mode
        BY <1>0, <2>3 DEF AnswerShape, Tri, YesNo
      <3> QED BY <1>0, <2>1, <2>3, <3>1, AnswerPreserved
    <2>4. CASE Leave("0")
      BY <2>1, <2>4, WizardLeft
    <2> QED BY <1>7, <2>2, <2>3, <2>4 DEF AnswerModdable, ModdableError, Go
  <1>8. CASE ModdablePreflight
    <2>1. stage \in WizardStages
      BY <1>8 DEF ModdablePreflight, At, WizardStages
    <2>2. CASE Answer([answers EXCEPT !.repo = "url"])
      <3> DEFINE a == [answers EXCEPT !.repo = "url"]
      <3>1. a \in AnswerShape /\ a.mode = answers.mode
        BY <1>0 DEF AnswerShape
      <3> HIDE DEF a
      <3>2. Answer(a)
        BY <2>2 DEF a
      <3> QED BY <2>1, <3>1, <3>2, PlainAnswer
    <2>3. CASE stage' = "moddable-error" /\ UNCHANGED <<flags, user, answers, checkedFor, job>>
      BY <1>0, <2>1, <2>3, AnswerPreserved
    <2> QED BY <1>8, <2>2, <2>3 DEF ModdablePreflight, Go
  <1>9. CASE AnswerTag
    <2>1. stage \in WizardStages
      BY <1>9 DEF AnswerTag, At, WizardStages
    <2>2. PICK t \in {"given", None} : Answer([answers EXCEPT !.tag = t])
      BY <1>9 DEF AnswerTag
    <2> DEFINE a == [answers EXCEPT !.tag = t]
    <2>3. a \in AnswerShape /\ a.mode = answers.mode
      BY <1>0 DEF AnswerShape
    <2> HIDE DEF a
    <2>4. Answer(a)
      BY <2>2 DEF a
    <2> QED BY <2>1, <2>3, <2>4, PlainAnswer
  <1> QED BY <1>1, <1>2, <1>3, <1>4, <1>5, <1>6, <1>7, <1>8, <1>9

\* The domain prompt, its check and the confirmation.
LEMMA DomainPreserved ==
    ASSUME IInv, AnswerDomain \/ ValidateDomain \/ Confirm
    PROVE  IInv'
  <1> USE DEF Go, At
  <1>0. TypeOK /\ YesInv /\ BuildInv /\ SignerInv /\ JobInv
    BY DEF IInv
  <1>1. CASE AnswerDomain
    <2>1. /\ stage = "prompt-domain" /\ stage' = "validate-domain"
          /\ answers' = [answers EXCEPT !.domain = "valid"] /\ UNCHANGED <<flags, user, checkedFor, job>>
      BY <1>1 DEF AnswerDomain
    <2>2. answers' \in AnswerShape /\ answers'.mode = answers.mode
      BY <1>0, <2>1 DEF TypeOK, AnswerShape
    <2>3. "validate-domain" \in WizardStages
      BY DEF WizardStages
    <2> QED BY <1>0, <2>1, <2>2, <2>3
            DEF IInv, TypeOK, YesInv, BuildInv, SignerInv, JobInv, Early, Headless, Late
  <1>2. CASE ValidateDomain
    <2>1. /\ stage = "validate-domain" /\ stage' \in {PickNextStage(answers), "prompt-domain"}
          /\ checkedFor' = WizardOwner /\ UNCHANGED <<flags, user, answers, job>>
      BY <1>2 DEF ValidateDomain
    <2>2. answers.mode # Unset /\ job = NoJob
      BY <1>0, <2>1 DEF SignerInv, JobInv
    <2>3. WizardOwner = DotnsOwner(answers.mode, user)
      BY DEF WizardOwner, DotnsOwner
    <2>4. stage' \in WizardStages /\ stage' \notin {"prompt-signer", "validate-domain"}
      BY <2>1, <2>2, PickNextFacts DEF Questions, WizardStages
    <2>5. stage' \notin Early \cup Headless \cup Late \cup {"ended"}
      BY <2>4 DEF WizardStages, Early, Headless, Late
    <2> QED BY <1>0, <2>1, <2>2, <2>3, <2>4, <2>5
            DEF IInv, TypeOK, YesInv, BuildInv, SignerInv, JobInv, Early, Headless, Late
  <1>3. CASE Confirm
    <2>1. stage = "confirm" /\ Complete(answers)
      BY <1>3 DEF Confirm
    <2>2. CASE answers' = Resolved(answers) /\ stage' = "contracts" /\ UNCHANGED <<flags, user, checkedFor, job>>
      <3>1. answers.mode \in Modes
        BY <1>0, <2>1 DEF Complete, TypeOK, AnswerShape
      <3>2. /\ answers' \in AnswerShape /\ answers'.mode = answers.mode
            /\ answers'.contracts = answers.contracts
            /\ answers'.skipBuild = EffectiveSkipBuild(answers)
        BY <1>0, <2>2 DEF Resolved, TypeOK, AnswerShape, EffectiveSkipBuild, Tri, YesNo
      <3>3. answers'.contracts = "yes" => answers'.skipBuild = "no"
        BY <3>2 DEF EffectiveSkipBuild
      <3> QED BY <1>0, <2>1, <2>2, <3>1, <3>2, <3>3
              DEF IInv, TypeOK, YesInv, BuildInv, SignerInv, JobInv, Early, Headless, Late
    <2>3. CASE Leave("1")
      <3>1. stage \in WizardStages
        BY <2>1 DEF WizardStages
      <3> QED BY <2>3, <3>1, WizardLeft
    <2> QED BY <1>3, <2>2, <2>3 DEF Confirm
  <1> QED BY <1>1, <1>2, <1>3

\* The invariant holds in every reachable state.
LEMMA CommandInvariant == Spec => []IInv
  <1>1. IInv /\ [Next]_vars => IInv'
    <2> SUFFICES ASSUME IInv, [Next]_vars PROVE IInv'
      OBVIOUS
    <2>1. CASE UNCHANGED vars
      BY <2>1 DEF vars, IInv, TypeOK, YesInv, BuildInv, SignerInv, JobInv
    <2> QED BY <2>1, EarlyPreserved, HeadlessPreserved, LatePreserved, WizardPreserved, DomainPreserved
            DEF Next
  <1> QED BY <1>1, InitIInv, PTL DEF Spec

-----------------------------------------------------------------------------
(* What the deploy is called with.                                         *)

\* No command line and no answer deploys contracts with a skipped build.
THEOREM ContractsAreRebuilt == Spec => []ContractsRebuild
  <1>1. IInv => ContractsRebuild
    BY DEF IInv, JobInv, ContractsRebuild, Running
  <1> QED BY <1>1, CommandInvariant, PTL

\* The account the availability check asked about is the one that signs DotNS.
THEOREM CheckedOwnerSigns == Spec => []OwnerIsSigner
  <1>1. IInv => OwnerIsSigner
    BY DEF IInv, JobInv, OwnerIsSigner, Running, DotnsOwner, DotnsSigner
  <1> QED BY <1>1, CommandInvariant, PTL

\* The summary announces a phone approval for exactly what the session account is asked
\* to approve, for every command line, answer and outcome: DotNS, the publish, the
\* contract deploy and the allowance of the slot key.
THEOREM AnnouncedTapsAreSigned == Spec => []TapsAnnounced
  <1>1. IInv => TapsAnnounced
    <2> SUFFICES ASSUME IInv, Running PROVE TapsAnnounced
      BY DEF TapsAnnounced
    <2>1. job.mode \in Modes /\ (job.mode = "phone" => user = "session") /\ user \in Users
      BY DEF IInv, JobInv, Running, TypeOK
    <2> DEFINE publish == job.publish = "yes"
               contracts == job.contracts = "yes"
               taps == Approvals(job.mode, plan, publish)
               named == {taps[i] : i \in DOMAIN taps}
               shown == Announced(job.mode, plan, publish, contracts)
    <2>2. CASE job.mode = "dev"
      <3>1. taps = <<>>
        BY <2>2 DEF Approvals
      <3>2. named = {}
        BY <3>1
      <3>3. /\ DotnsSigner(job.mode, user) # "session" /\ PublishSigner(job.mode, user, publish) # "session"
            /\ ContractSigner(job.mode, user, contracts) # "session"
            /\ StorageSigner(job.mode, user) # "slotKey"
        BY <2>1, <2>2 DEF DotnsSigner, PublishSigner, ContractSigner, StorageSigner, Users, None
      <3>4. shown = {}
        BY <3>2 DEF Announced
      <3> QED BY <3>3, <3>4 DEF TapsAnnounced
    <2>3. CASE job.mode = "phone"
      <3>1. DotnsSigner(job.mode, user) = "session"
        BY <2>1, <2>3 DEF DotnsSigner
      <3>2. /\ "link" \in named /\ ("publish" \in named <=> publish)
            /\ "contracts" \notin named /\ "allowance" \notin named
        <4> DEFINE head == IF plan = "update" THEN <<"link">> ELSE <<"reserve", "finalize", "link">>
        <4>1. taps = head \o (IF publish THEN <<"publish">> ELSE <<>>)
          BY <2>3 DEF Approvals
        <4>2. /\ head \in Seq({"reserve", "finalize", "link"}) /\ Len(head) \in {1, 3}
              /\ head[Len(head)] = "link"
          <5>1. CASE plan = "update"
            <6>1. head = <<"link">>
              BY <5>1
            <6> HIDE DEF head
            <6>2. head \in Seq({"reserve", "finalize", "link"}) /\ Len(head) = 1 /\ head[1] = "link"
              BY <6>1
            <6> QED BY <6>2
          <5>2. CASE plan # "update"
            <6>1. head = <<"reserve", "finalize", "link">>
              BY <5>2
            <6> HIDE DEF head
            <6>2. head \in Seq({"reserve", "finalize", "link"}) /\ Len(head) = 3 /\ head[3] = "link"
              BY <6>1
            <6> QED BY <6>2
          <5> QED BY <5>1, <5>2
        <4> HIDE DEF head, taps
        <4>3. CASE publish
          <5>1. taps = Append(head, "publish")
            BY <4>1, <4>2, <4>3
          <5>2. /\ DOMAIN taps = 1..(Len(head) + 1) /\ taps[Len(head) + 1] = "publish"
                /\ taps[Len(head)] = "link"
            BY <4>2, <5>1
          <5>3. Len(head) \in DOMAIN taps /\ Len(head) + 1 \in DOMAIN taps
            BY <4>2, <5>2
          <5>4. \A i \in DOMAIN taps : taps[i] \in {"reserve", "finalize", "link", "publish"}
            BY <4>2, <5>1
          <5> QED BY <4>3, <5>2, <5>3, <5>4
        <4>4. CASE ~publish
          <5>1. taps = head
            BY <4>1, <4>2, <4>4
          <5>2. Len(head) \in DOMAIN taps /\ taps[Len(head)] = "link"
            BY <4>2, <5>1
          <5>3. \A i \in DOMAIN taps : taps[i] \in {"reserve", "finalize", "link"}
            BY <4>2, <5>1
          <5> QED BY <4>4, <5>2, <5>3
        <4> QED BY <4>3, <4>4
      <3>3. PublishSigner(job.mode, user, publish) = "session" <=> publish
        BY <2>1, <2>3 DEF PublishSigner, None
      <3>4. /\ ContractSigner(job.mode, user, contracts) = "session" <=> contracts
            /\ StorageSigner(job.mode, user) = "slotKey"
        BY <2>1, <2>3 DEF ContractSigner, StorageSigner, None
      <3>5. /\ "link" \in shown /\ ("publish" \in shown <=> publish)
            /\ "contracts" \in shown <=> contracts
            /\ "allowance" \in shown
        <4>1. shown = named \cup ApprovalHint(job.mode, contracts)
          BY <3>2 DEF Announced
        <4>2. ApprovalHint(job.mode, contracts) =
                 IF contracts THEN {"contracts", "allowance"} ELSE {"allowance"}
          BY <2>3 DEF ApprovalHint
        <4> HIDE DEF named, shown
        <4> QED BY <3>2, <4>1, <4>2
      <3> HIDE DEF shown
      <3> QED BY <3>1, <3>3, <3>4, <3>5 DEF TapsAnnounced, shown
    <2> QED BY <2>1, <2>2, <2>3 DEF Modes
  <1> QED BY <1>1, CommandInvariant, PTL

=============================================================================
