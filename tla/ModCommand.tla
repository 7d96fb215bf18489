----------------------------- MODULE ModCommand -----------------------------
(***************************************************************************)
(* `playground mod` and `playground init` (commands/mod/index.ts,          *)
(* SetupScreen.tsx, QuestPicker.tsx, StepRunner.tsx, utils/mod), which     *)
(* pick an app, download its source into a new directory, and install what *)
(* its setup.sh needs; composed with the picker and the toolchain.         *)
(*                                                                         *)
(* A process is one of three: a login showing the dependency list, a batch *)
(* of builds, or a mod.  Mods follow one another on the same disk, and the *)
(* user works on that disk meanwhile.                                      *)
(***************************************************************************)
EXTENDS Toolchain, AppBrowser

CONSTANTS Kinds,     \* the processes of this instance: {"login", "batch", "mod"} or less
          Machines,  \* process -> the machines it may start on
          Projects,  \* process -> the projects it may find there
          ModBuild,  \* the one of Builds that stands for the modded project
          MaxRuns    \* bound on mod invocations

\* What a machine and a project are (the constants above give the cases).
Platforms == {"linux", "mac", "mac without brew"}
IpfsStates == {"current", "stale", "none"}
MachineSet == [path : SUBSET Tools, platform : Platforms, ipfs : IpfsStates, faults : Nat]
ManagerOrNone == Managers \cup {NoManager}
FileSet == [field : ManagerOrNone, lock : ManagerOrNone, script : ManagerOrNone,
            deps : BOOLEAN, asks : BOOLEAN]

ASSUME ModAssumption ==
    /\ ModBuild \in Builds
    /\ \A k \in Kinds : Machines[k] \subseteq MachineSet /\ Projects[k] \subseteq FileSet

VARIABLES kind,  \* the process
          mod,   \* the mod command
          dir    \* app id -> the directory of that name

vars == <<toolVars, browser, kind, mod, dir>>

Apps == {Catalogue[i] : i \in 1..Len(Catalogue)} \cup {Late[i] : i \in 1..Len(Late)}
AppIds == {a.id : a \in Apps}
Repo(id) == (CHOOSE a \in Apps : a.id = id).repo

\* user: files of the user's, put there before the download made sure there
\* were none, or while the archive was on its way; source: how much of the app's.
NoDir == [exists |-> FALSE, user |-> "none", source |-> "none", stripped |-> FALSE, dotJson |-> 0]

\* app 0: none yet.  meta: the metadata is known; planned: planPackageManager
\* answered; made: this run made the directory; declined: the user installs
\* the package manager himself; told: the next steps are printed.
NoMod == [pc |-> "off", tty |-> TRUE, given |-> 0, app |-> 0, meta |-> FALSE, planned |-> FALSE,
          made |-> FALSE, declined |-> FALSE, told |-> FALSE, exit |-> 0, runs |-> 0]
Malformed == 99

ModInit ==
    /\ kind \in Kinds
    /\ machine \in Machines[kind]
    /\ inFlight = {} /\ running = [t \in Tools |-> 0]
    /\ build \in [Builds -> {NewBuild(p) : p \in Projects[kind]}]
    /\ list = NoList /\ browser = NoBrowser
    /\ mod = NoMod /\ dir = [a \in AppIds |-> NoDir]

M(r) == mod' = r
At(pc) == kind = "mod" /\ mod.pc = pc
Goto(pc) == M([mod EXCEPT !.pc = pc])
\* process.exitCode and the finally that destroys the connection.
End(code) == M([mod EXCEPT !.pc = "ended", !.exit = code])
Still == UNCHANGED <<toolVars, browser, kind, dir>>

-----------------------------------------------------------------------------
(* index.ts: which app, which directory.                                   *)

\* A picker needs a terminal; init passes the template's domain.
Invoke ==
    /\ kind = "mod" /\ mod.pc \in {"off", "ended"} /\ mod.runs < MaxRuns
    /\ \E tty \in BOOLEAN, given \in AppIds \cup {0, Malformed} :
         /\ given = 0 => tty
         /\ M([NoMod EXCEPT !.pc = "connect", !.tty = tty, !.given = given, !.runs = mod.runs + 1])
    /\ Still

Connect == At("connect") /\ (Goto("gate") \/ End(1)) /\ Still

\* enforceIdentityGate: a notice and a clean exit, an error, or on.
Gate == At("gate") /\ (Goto("choose") \/ End(0) \/ End(1)) /\ Still

Choose ==
    /\ At("choose")
    /\ \/ mod.given = Malformed /\ End(1) /\ UNCHANGED browser
       \/ mod.given \in AppIds /\ M([mod EXCEPT !.app = mod.given, !.pc = "metadata"])
          /\ UNCHANGED browser
       \/ mod.given = 0 /\ Open /\ Goto("browse")
    /\ UNCHANGED <<toolVars, kind, dir>>

Browsed ==
    /\ At("browse")
    /\ \/ /\ browser.status = "picked"
          /\ M([mod EXCEPT !.app = browser.picked, !.meta = TRUE, !.pc = "metadata"])
       \/ browser.status = "cancelled" /\ End(0)
    /\ browser' = NoBrowser
    /\ UNCHANGED <<toolVars, kind, dir>>

\* On a terminal the metadata is fetched early, for the quests; a failure is
\* left to the setup steps.
ProbeMetadata ==
    /\ At("metadata")
    /\ \E found \in {mod.meta, mod.tty} :
         LET known == mod.meta \/ found
         IN  M([mod EXCEPT !.meta = known,
                           !.pc = IF mod.tty /\ known /\ Repo(mod.app) = "github"
                                  THEN "quests" ELSE "target"])
    /\ Still

\* QuestPicker: no quests, no answer or a quest goes on; q or Ctrl+C ends the command.
Quests == At("quests") /\ (Goto("target") \/ End(0)) /\ Still

ResolveTarget ==
    /\ At("target")
    /\ IF dir[mod.app].exists THEN End(1) ELSE Goto("fetch")
    /\ Still

-----------------------------------------------------------------------------
(* SetupScreen.tsx: the steps, each run by StepRunner.                     *)

\* StepRunner: a step that throws stops the steps, halting for a source that is
\* gone included; onDone then reports ok: false.
StepFails == End(1)

FetchMetadata ==
    /\ At("fetch")
    /\ \/ /\ mod.meta \/ Repo(mod.app) # "none"
          /\ M([mod EXCEPT !.meta = TRUE, !.pc = "download"])
       \/ ~mod.meta /\ StepFails
    /\ Still

\* Faulty variant: an existing directory is not looked into again.
StartDownloadUnchecked ==
    /\ At("download")
    /\ \/ StepFails /\ UNCHANGED dir
       \/ /\ Repo(mod.app) = "github"
          /\ dir' = [dir EXCEPT ![mod.app].exists = TRUE]
          /\ M([mod EXCEPT !.made = TRUE, !.pc = "extract"])
    /\ UNCHANGED <<toolVars, browser, kind>>

\* No repository, not GitHub's, or no longer public ends the step; so does a
\* directory with something in it.  Else the directory is made.
StartDownload ==
    /\ At("download")
    /\ \/ StepFails /\ UNCHANGED dir
       \/ /\ Repo(mod.app) = "github" /\ dir[mod.app].user = "none"
          /\ dir' = [dir EXCEPT ![mod.app].exists = TRUE]
          /\ M([mod EXCEPT !.made = TRUE, !.pc = "extract"])
    /\ UNCHANGED <<toolVars, browser, kind>>

\* The archive: not there, cut off half way, or all of it.
Extract ==
    /\ At("extract")
    /\ \E got \in {"none", "partial", "full"} :
         /\ dir' = [dir EXCEPT ![mod.app].source = got]
         /\ IF got = "full" THEN Goto("finish") ELSE StepFails
    /\ UNCHANGED <<toolVars, browser, kind>>

\* createOptionalGitBaseline cannot fail; stripPostinstall (which ignores that it
\* could not), writeDotJson (which may throw) and ignoreModLogs run in one go.
FinishSource ==
    /\ At("finish")
    /\ \E wrote, stripped \in BOOLEAN :
         /\ dir' = [dir EXCEPT ![mod.app].stripped = stripped,
                               ![mod.app].dotJson = IF wrote THEN mod.app ELSE @]
         /\ IF wrote THEN Goto("plan") ELSE StepFails
    /\ UNCHANGED <<toolVars, browser, kind>>

PmReady == \A i \in 1..Len(Wanted(ModBuild)) : Present(Wanted(ModBuild)[i])

\* decidePmPhase
PmPhase(ready, tty) == IF ready THEN "setup" ELSE IF tty THEN "confirm" ELSE "install"

StartInstall == Ensure(ModBuild) /\ UNCHANGED <<machine, inFlight, running, list>>

PlanPackageManager ==
    /\ At("plan")
    /\ \/ Goto("setup") /\ UNCHANGED toolVars
       \/ /\ M([mod EXCEPT !.planned = TRUE, !.pc = PmPhase(PmReady, mod.tty)])
          /\ IF PmPhase(PmReady, mod.tty) = "install" THEN StartInstall ELSE UNCHANGED toolVars
    /\ UNCHANGED <<browser, kind, dir>>

\* onDone with ok: the next steps are printed.
Succeed(r) == M([r EXCEPT !.told = TRUE, !.pc = "ended"])

\* The question: yes, no, or Ctrl+C, after which Ink is gone and the promise
\* of runSetup stays open.
ConfirmInstall ==
    /\ At("confirm")
    /\ \/ Goto("install") /\ StartInstall
       \/ Succeed([mod EXCEPT !.declined = TRUE]) /\ UNCHANGED toolVars
       \/ Goto("hung") /\ UNCHANGED toolVars
    /\ UNCHANGED <<browser, kind, dir>>

\* Faulty variant: a failed installation goes on to setup.sh.
InstalledAnyway ==
    /\ At("install") /\ build[ModBuild].pc \in {"ensured", "failed"}
    /\ Goto("setup")
    /\ Set(ModBuild, NewBuild(build[ModBuild].files))
    /\ UNCHANGED <<machine, inFlight, running, list, browser, kind, dir>>

Installed ==
    /\ At("install")
    /\ \/ build[ModBuild].pc = "ensured" /\ Goto("setup")
       \/ build[ModBuild].pc = "failed" /\ StepFails
    /\ Set(ModBuild, NewBuild(build[ModBuild].files))
    /\ UNCHANGED <<machine, inFlight, running, list, browser, kind, dir>>


\* run setup.sh: none is a silent skip, a failure fails the command.
SetupSh == At("setup") /\ (Succeed(mod) \/ StepFails) /\ Still

-----------------------------------------------------------------------------
(* Around the command.                                                     *)

\* Ctrl+C outside a screen that reads keys ends the process and its children;
\* the disk stays as it is.
Interrupt ==
    /\ kind = "mod" /\ mod.pc \notin {"off", "ended", "browse", "quests", "confirm"}
    /\ End(130)
    /\ inFlight' = {} /\ running' = [t \in Tools |-> 0]
    /\ Set(ModBuild, NewBuild(build[ModBuild].files))
    /\ UNCHANGED <<machine, list, browser, kind, dir>>

\* The user puts files of his own into the directory, or clears it away.
UserWrites ==
    /\ kind = "mod" /\ mod.app # 0 /\ dir[mod.app].user = "none" /\ dir[mod.app].source = "none"
    /\ dir' = [dir EXCEPT ![mod.app].exists = TRUE,
                          ![mod.app].user = IF mod.pc = "extract" THEN "during" ELSE "before"]
    /\ UNCHANGED <<toolVars, browser, kind, mod>>

UserClears ==
    /\ At("ended") /\ mod.app # 0 /\ dir[mod.app].exists
    /\ dir' = [dir EXCEPT ![mod.app] = NoDir]
    /\ UNCHANGED <<toolVars, browser, kind, mod>>

ModStep == \/ Invoke \/ Connect \/ Gate \/ Choose \/ Browsed \/ ProbeMetadata \/ Quests
           \/ ResolveTarget \/ FetchMetadata \/ StartDownload \/ Extract \/ FinishSource
           \/ PlanPackageManager \/ ConfirmInstall \/ Installed \/ SetupSh
           \/ Interrupt \/ UserWrites \/ UserClears

Next ==
    \/ ModStep
    \/ kind = "mod" /\ mod.pc = "browse" /\ BrowserStep /\ UNCHANGED <<toolVars, kind, mod, dir>>
    \/ (kind = "mod" => mod.pc = "install") /\ EnsureStep /\ UNCHANGED <<browser, kind, mod, dir>>
    \/ kind = "login" /\ ListStep /\ UNCHANGED <<browser, kind, mod, dir>>
    \/ kind = "batch" /\ BuildStep /\ UNCHANGED <<browser, kind, mod, dir>>

Spec == ModInit /\ [][Next]_vars

-----------------------------------------------------------------------------
(* Properties.                                                             *)

\* Files of the user's are never mixed with a download: he may create the
\* directory after resolveTargetDir found none, while metadata and GitHub are
\* asked, and the download still refuses it (source.ts:61).  Only
\* what he puts there while the archive itself is on its way is not seen.
NeverClobbers ==
    \A a \in AppIds : dir[a].source # "none" => dir[a].user # "before"

\* What the end of a mod says is true.  Next steps are printed only over a
\* complete source whose dot.json names the app, with exit code 0; its postinstall
\* hook may still be there.  An exit code of 0 without them (not signed in,
\* nothing picked) has made no directory.  setup.sh is only reached with the
\* project's package manager there, unless planning itself failed.
ModOutcomes ==
    /\ mod.told =>
         /\ mod.pc = "ended" /\ mod.exit = 0 /\ mod.made
         /\ dir[mod.app].exists /\ dir[mod.app].user # "before" =>
              dir[mod.app].source = "full" /\ dir[mod.app].dotJson = mod.app
    /\ mod.pc = "ended" /\ mod.exit = 0 /\ ~mod.told => ~mod.made
    /\ mod.pc = "setup" /\ mod.planned => PmReady

=============================================================================
