------------------------------ MODULE Toolchain -----------------------------
(***************************************************************************)
(* Finding and installing the programs a project needs:                    *)
(*                                                                         *)
(*   - the login screen's dependency list, one TOOL_STEPS entry after the  *)
(*     other (utils/toolchain.ts, login/DependencyList.tsx);               *)
(*   - the package manager of a project (utils/packageManagers.ts), which  *)
(*     the builds of a deploy-all batch ask for concurrently in one        *)
(*     process (utils/build/runner.ts, detect.ts).                         *)
(*                                                                         *)
(* A program is on the process's PATH or it is not.  An installer runs the *)
(* programs it needs; it may succeed, fail, or exit 0 although nothing     *)
(* came onto the PATH: `curl ... | sh` without pipefail does so whenever   *)
(* the download fails.  There is no timeout on an installer.               *)
(***************************************************************************)
EXTENDS Naturals, Sequences

CONSTANTS Builds,    \* projects built concurrently
          MaxFaults  \* bound on installers that go wrong although they could work

\* A project's files: the packageManager field, the manager whose lock file is
\* there, the manager setup.sh mentions ("none" when there is none), whether it
\* has dependencies, and whether the caller asks before installing.
Managers == {"npm", "pnpm", "yarn", "bun"}
NoManager == "none"

VARIABLES machine,  \* [path, platform, ipfs, faults]: the machine
          inFlight, \* keys of inFlightInstalls
          running,  \* tool -> how many installers of it are running
          build,    \* project -> its files and where its build is
          list      \* the dependency list: [at, row, status]

toolVars == <<machine, inFlight, running, build, list>>

-----------------------------------------------------------------------------
(* Which programs.                                                         *)

\* detectProjectPackageManager: the field, the lock file, setup.sh, npm.
ProjectManager(p) ==
    IF p.field # NoManager THEN p.field
    ELSE IF p.lock # NoManager THEN p.lock
    ELSE IF p.script # NoManager THEN p.script ELSE "npm"

\* detectPackageManager, which the install and build commands are made with.
LockfileManager(p) == IF p.lock # NoManager THEN p.lock ELSE "npm"

\* PM_TOOLS
PmTools(pm) ==
    CASE pm = "npm" -> <<"node">>
      [] pm = "pnpm" -> <<"node", "pnpm">>
      [] pm = "yarn" -> <<"node", "yarn">>
      [] pm = "bun" -> <<"bun">>

\* Faulty variant: the C linker comes after the program that needs it.
ToolStepsLateLinker == <<"git", "curl", "rustup", "nightly", "rust-src", "cargo-pvm-contract",
                         "cc", "ipfs", "wget">>

\* TOOL_STEPS: the order is load-bearing.
ToolSteps == <<"git", "curl", "cc", "rustup", "nightly", "rust-src", "cargo-pvm-contract",
               "ipfs", "wget">>

Tools == {"node", "pnpm", "yarn", "bun"} \cup
         {"git", "curl", "cc", "rustup", "nightly", "rust-src", "cargo-pvm-contract", "ipfs", "wget"}

\* Where an installer gives up without trying.
Installable(t) ==
    CASE t = "cc" -> machine.platform = "linux"
      [] t \in {"git", "curl", "wget", "node"} -> machine.platform # "mac without brew"
      [] OTHER -> TRUE

\* The programs an installer's command line runs.
Runs(t) ==
    CASE t \in {"rustup", "pnpm", "bun"} -> {"curl"}
      [] t = "ipfs" -> IF machine.platform = "mac" \/ "ipfs" \in machine.path THEN {} ELSE {"curl"}
      [] t = "yarn" -> {"node"}
      [] t = "nightly" -> {"rustup"}
      [] t = "rust-src" -> {"rustup", "nightly"}
      [] t = "cargo-pvm-contract" -> {"git", "cc", "rustup"}
      [] OTHER -> {}

\* The programs a check runs besides.
Probes(t) ==
    CASE t \in {"nightly", "cargo-pvm-contract"} -> {"rustup"}
      [] t = "rust-src" -> {"rustup", "nightly"}
      [] OTHER -> {}

\* commandExists and the checks built on it; IPFS needs a current repository.
Present(t) == {t} \cup Probes(t) \subseteq machine.path /\ (t = "ipfs" => machine.ipfs = "current")

\* Installers of the form `curl ... | sh`, and corepack, which may put yarn elsewhere.
Piped == {"rustup", "pnpm", "bun"}

\* How one run of an installer may end, and the machine after it.  Afterwards
\* rustup, pnpm, yarn and bun are found because prependPath adds their directory.
InstallEnds(t, outcome) ==
    LET able == Installable(t) /\ Runs(t) \subseteq machine.path
    IN  /\ outcome = "ok" => able
        /\ outcome = "nothing" => t \in Piped \/ (able /\ t = "yarn")
        /\ outcome = "fails" => able \/ t \notin Piped
        /\ able /\ outcome # "ok" => machine.faults < MaxFaults
        /\ machine' = [machine EXCEPT
               !.path = IF outcome = "ok" THEN @ \cup {t} ELSE @,
               !.ipfs = IF outcome = "ok" /\ t = "ipfs" THEN "current" ELSE @,
               !.faults = IF able /\ outcome # "ok" THEN @ + 1 ELSE @]

Outcomes == {"ok", "nothing", "fails"}

-----------------------------------------------------------------------------
(* The dependency list of the login screen.                                *)

NoList == [at |-> 0, status |-> "off", row |-> [i \in 1..Len(ToolSteps) |-> "pending"]]

ListStart ==
    /\ list.status = "off"
    /\ list' = [NoList EXCEPT !.at = 1, !.status = "checking", !.row[1] = "checking"]
    /\ UNCHANGED <<machine, inFlight, running, build>>

\* The row is settled; the next one is checked, or the list is complete.
RowSettled(mark) ==
    IF list.at = Len(ToolSteps)
    THEN list' = [list EXCEPT !.row[list.at] = mark, !.status = "complete"]
    ELSE list' = [list EXCEPT !.row = [@ EXCEPT ![list.at] = mark, ![list.at + 1] = "checking"],
                              !.at = @ + 1, !.status = "checking"]

ListCheck ==
    /\ list.status = "checking"
    /\ IF Present(ToolSteps[list.at]) THEN RowSettled("ok")
       ELSE list' = [list EXCEPT !.status = "installing", !.row[list.at] = "installing"]
    /\ UNCHANGED <<machine, inFlight, running, build>>

\* A failed step is marked and the list goes on; a finished one is not checked again.
ListInstall ==
    /\ list.status = "installing"
    /\ \E o \in Outcomes :
         /\ InstallEnds(ToolSteps[list.at], o)
         /\ RowSettled(IF o = "fails" THEN "failed" ELSE "ok")
    /\ UNCHANGED <<inFlight, running, build>>

-----------------------------------------------------------------------------
(* ensurePackageManager, called by several builds at once.                 *)

NewBuild(p) == [files |-> p, pc |-> "off", at |-> 1, missing |-> <<>>]

Set(b, r) == build' = [build EXCEPT ![b] = r]
Wanted(b) == PmTools(ProjectManager(build[b].files))

\* The call: the files are read, the checks begin.
Ensure(b) == Set(b, [build[b] EXCEPT !.pc = "checking", !.at = 1, !.missing = <<>>])

\* One awaited check; after the last, nothing to do, the question, or the first install.
AfterChecks(b, missing) ==
    IF missing = <<>> THEN "ensured"
    ELSE IF build[b].files.asks THEN "confirm" ELSE "install"

Check(b) ==
    /\ build[b].pc = "checking"
    /\ LET t == Wanted(b)[build[b].at]
           missing == IF Present(t) THEN build[b].missing ELSE Append(build[b].missing, t)
       IN  IF build[b].at < Len(Wanted(b))
           THEN Set(b, [build[b] EXCEPT !.at = @ + 1, !.missing = missing])
           ELSE Set(b, [build[b] EXCEPT !.at = 1, !.missing = missing,
                                        !.pc = AfterChecks(b, missing)])
    /\ UNCHANGED <<machine, inFlight, running, list>>

Confirm(b) ==
    /\ build[b].pc = "confirm"
    /\ \E answer \in {"install", "declined"} : Set(b, [build[b] EXCEPT !.pc = answer])
    /\ UNCHANGED <<machine, inFlight, running, list>>

Current(b) == build[b].missing[build[b].at]

\* Faulty variant: the in-flight promises are not consulted.
InstallAlways(b) ==
    /\ build[b].pc = "install"
    /\ running' = [running EXCEPT ![Current(b)] = @ + 1]
    /\ inFlight' = inFlight \cup {Current(b)}
    /\ Set(b, [build[b] EXCEPT !.pc = "waiting"])
    /\ UNCHANGED <<machine, list>>

\* installOnce: join the installation in flight, or start one.
InstallOnce(b) ==
    /\ build[b].pc = "install"
    /\ running' = IF Current(b) \in inFlight THEN running
                  ELSE [running EXCEPT ![Current(b)] = @ + 1]
    /\ inFlight' = inFlight \cup {Current(b)}
    /\ Set(b, [build[b] EXCEPT !.pc = "waiting"])
    /\ UNCHANGED <<machine, list>>

\* Faulty variant: an installer that exits 0 is believed.
ResumedUnverified(r, ok) ==
    IF ~ok THEN [r EXCEPT !.pc = "failed"]
    ELSE IF r.at < Len(r.missing) THEN [r EXCEPT !.at = @ + 1, !.pc = "install"]
    ELSE [r EXCEPT !.at = 1, !.pc = "ensured"]

\* What a waiter does next: the next tool, the second look, or the error.
Resumed(r, ok) ==
    IF ~ok THEN [r EXCEPT !.pc = "failed"]
    ELSE IF r.at < Len(r.missing) THEN [r EXCEPT !.at = @ + 1, !.pc = "install"]
    ELSE [r EXCEPT !.at = 1, !.pc = "verifying"]

\* An installer ends (runStreamed): its entry goes, everyone who waits resumes.
InstallerEnds(t) ==
    /\ running[t] > 0
    /\ \E o \in Outcomes :
         /\ InstallEnds(t, o)
         /\ build' = [b \in Builds |->
                IF build[b].pc = "waiting" /\ Current(b) = t
                THEN Resumed(build[b], o # "fails") ELSE build[b]]
    /\ running' = [running EXCEPT ![t] = @ - 1]
    /\ inFlight' = inFlight \ {t}
    /\ UNCHANGED list

\* Every tool that was missing is looked for again, one await each.
Verify(b) ==
    /\ build[b].pc = "verifying"
    /\ IF ~Present(Current(b)) THEN Set(b, [build[b] EXCEPT !.pc = "failed"])
       ELSE IF build[b].at < Len(build[b].missing) THEN Set(b, [build[b] EXCEPT !.at = @ + 1])
       ELSE Set(b, [build[b] EXCEPT !.pc = "ensured"])
    /\ UNCHANGED <<machine, inFlight, running, list>>

\* runBuild: dependencies first, and for them the package manager.
StartBuild(b) ==
    /\ build[b].pc = "off"
    /\ IF build[b].files.deps THEN Ensure(b)
       ELSE Set(b, [build[b] EXCEPT !.pc = "building"])
    /\ UNCHANGED <<machine, inFlight, running, list>>

\* The install command, then the build command, of the lock file's manager.
Spawns(b) == PmTools(LockfileManager(build[b].files))
Works(b) == \A i \in 1..Len(Spawns(b)) : Spawns(b)[i] \in machine.path

RunCommand(b) ==
    /\ build[b].pc \in {"ensured", "building"}
    /\ \E pc \in {"failed", IF build[b].pc = "ensured" THEN "building" ELSE "built"} :
         /\ pc # "failed" => Works(b)
         /\ Set(b, [build[b] EXCEPT !.pc = pc])
    /\ UNCHANGED <<machine, inFlight, running, list>>

EnsureStep == \/ \E b \in Builds : Check(b) \/ Confirm(b) \/ InstallOnce(b) \/ Verify(b)
              \/ \E t \in Tools : InstallerEnds(t)
ListStep == ListStart \/ ListCheck \/ ListInstall
BuildStep == \E b \in Builds : StartBuild(b) \/ RunCommand(b)

-----------------------------------------------------------------------------
(* Properties.                                                             *)

\* Two builds that miss the same program never run its installer at the same
\* time, however their checks interleave (inFlightInstalls,
\* packageManagers.ts:237-241: racing `apt` locks, two downloads).
NoConcurrentInstall == \A t \in Tools : running[t] <= 1

\* A build told that its package manager is there finds every program of it,
\* also when another build installed it or its installer exited 0 over a
\* failed download (the second look of ensurePackageManagerForTools).
EnsuredIsUsable ==
    \A b \in Builds : build[b].pc = "ensured" =>
        \A i \in 1..Len(Wanted(b)) : Present(Wanted(b)[i])

\* On Linux one pass of the dependency list makes any machine ready, unless an
\* installer goes wrong by itself: no step runs a program that only a later
\* step installs, and a missing or stale IPFS repository is made current
\* (TOOL_STEPS, "Step order is load-bearing").
CleanMachineReady ==
    list.status = "complete" /\ machine.platform = "linux" /\ machine.faults = 0 =>
        \A i \in 1..Len(ToolSteps) : list.row[i] = "ok" /\ Present(ToolSteps[i])

=============================================================================
