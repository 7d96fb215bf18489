-------------------------- MODULE ModCommandProofs --------------------------
(***************************************************************************)
(* Proofs about ModCommand and what it composes, for any set of builds,    *)
(* machines, projects and apps and any number of mods: installers that run *)
(* once at a time and managers that are there (ensurePackageManager), the  *)
(* login's dependency list, the filter and the pages of the app picker,    *)
(* and what `playground mod` does to the disk and says about it.           *)
(***************************************************************************)
EXTENDS ModCommand, FiniteSetTheorems, WellFoundedInduction, TLAPS

-----------------------------------------------------------------------------
(* Installers.                                                             *)

\* An installer runs exactly while its promise is in inFlightInstalls.
FlightInv ==
    /\ running \in [Tools -> Nat]
    /\ \A t \in Tools : running[t] = IF t \in inFlight THEN 1 ELSE 0

\* ModInit starts with no installer.
LEMMA InitFlight == ModInit => FlightInv
  BY DEF ModInit, FlightInv

\* installOnce joins what is in flight, or starts it.
LEMMA InstallOnceFlight ==
    ASSUME FlightInv, NEW b \in Builds, InstallOnce(b)
    PROVE  FlightInv'
  <1> DEFINE c == Current(b)
  <1>1. running' = (IF c \in inFlight THEN running ELSE [running EXCEPT ![c] = @ + 1])
    BY DEF InstallOnce
  <1>2. inFlight' = inFlight \cup {c}
    BY DEF InstallOnce
  <1> HIDE DEF c
  <1>3. running' \in [Tools -> Nat]
    <2>1. CASE c \in inFlight
      BY <1>1, <2>1 DEF FlightInv
    <2>2. CASE c \notin inFlight
      <3>1. running' = [t \in Tools |-> IF t = c THEN running[c] + 1 ELSE running[t]]
        BY <1>1, <2>2 DEF FlightInv
      <3>2. ASSUME NEW t \in Tools
            PROVE  (IF t = c THEN running[c] + 1 ELSE running[t]) \in Nat
        BY DEF FlightInv
      <3> QED BY <3>1, <3>2
    <2> QED BY <2>1, <2>2
  <1>4. ASSUME NEW t \in Tools PROVE running'[t] = IF t \in inFlight' THEN 1 ELSE 0
    BY <1>1, <1>2 DEF FlightInv
  <1> QED BY <1>3, <1>4 DEF FlightInv

\* The finally of installOnce removes the entry as the installer ends.
LEMMA InstallerEndsFlight ==
    ASSUME FlightInv, NEW t \in Tools, InstallerEnds(t)
    PROVE  FlightInv'
  BY DEF FlightInv, InstallerEnds

\* Steps of the machine: only those two touch the installers.
LEMMA EnsureFlight == FlightInv /\ EnsureStep => FlightInv'
  <1> SUFFICES ASSUME FlightInv, EnsureStep PROVE FlightInv'
    OBVIOUS
  <1>1. ASSUME NEW b \in Builds, Check(b) \/ Confirm(b) \/ Verify(b) PROVE FlightInv'
    BY <1>1 DEF FlightInv, Check, Confirm, Verify
  <1> QED BY <1>1, InstallOnceFlight, InstallerEndsFlight DEF EnsureStep

\* A step of the mod command leaves the installers alone, or ends the process.
LEMMA ModFlight == FlightInv /\ ModStep => FlightInv'
  <1> SUFFICES ASSUME FlightInv, ModStep PROVE FlightInv'
    OBVIOUS
  <1>1. CASE Interrupt
    BY <1>1 DEF FlightInv, Interrupt
  <1>2. CASE UNCHANGED <<inFlight, running>>
    BY <1>2 DEF FlightInv
  <1>3. CASE \/ Invoke \/ Connect \/ Gate \/ Choose \/ Browsed \/ ProbeMetadata \/ Quests
             \/ ResolveTarget \/ FetchMetadata \/ StartDownload \/ Extract \/ FinishSource
    BY <1>2, <1>3 DEF Invoke, Connect, Gate, Choose, Browsed, ProbeMetadata, Quests, ResolveTarget,
       FetchMetadata, StartDownload, Extract, FinishSource, Still, toolVars
  <1>4. CASE \/ PlanPackageManager \/ ConfirmInstall \/ Installed \/ SetupSh
             \/ UserWrites \/ UserClears
    BY <1>2, <1>4 DEF PlanPackageManager, ConfirmInstall, StartInstall, Installed, SetupSh,
       UserWrites, UserClears, Still, toolVars
  <1> QED BY <1>1, <1>3, <1>4 DEF ModStep

\* Every step of the composition keeps FlightInv.
LEMMA NextFlight == FlightInv /\ [Next]_vars => FlightInv'
  <1> SUFFICES ASSUME FlightInv, [Next]_vars PROVE FlightInv'
    OBVIOUS
  <1>1. CASE UNCHANGED <<inFlight, running>>
    BY <1>1 DEF FlightInv
  <1>2. CASE UNCHANGED vars
    BY <1>1, <1>2 DEF vars, toolVars
  <1>3. CASE BrowserStep /\ UNCHANGED <<toolVars, kind, mod, dir>>
    BY <1>1, <1>3 DEF toolVars
  <1>4. CASE ListStep
    BY <1>1, <1>4 DEF ListStep, ListStart, ListCheck, ListInstall
  <1>5. CASE BuildStep
    BY <1>1, <1>5 DEF BuildStep, StartBuild, RunCommand
  <1> QED BY <1>2, <1>3, <1>4, <1>5, EnsureFlight, ModFlight DEF Next

\* inFlightInstalls keeps two builds from running one installer at a time,
\* for any number of builds.
THEOREM InstallersAreShared == Spec => []NoConcurrentInstall
  <1>1. FlightInv => NoConcurrentInstall
    BY DEF FlightInv, NoConcurrentInstall
  <1> QED BY InitFlight, NextFlight, <1>1, PTL DEF Spec

-----------------------------------------------------------------------------
(* Package managers.                                                       *)

BuildPcs == {"off", "checking", "confirm", "install", "waiting", "verifying", "ensured",
             "declined", "building", "built", "failed"}
BuildRec == [files : FileSet, pc : BuildPcs, at : Nat, missing : Seq(Tools)]

\* Present and Wanted, of a given machine and a given build.
Has(m, t) == {t} \cup Probes(t) \subseteq m.path /\ (t = "ipfs" => m.ipfs = "current")
Needs(r) == PmTools(ProjectManager(r.files))

\* The first n of the programs w are there, or on the list q of missing ones.
Seen(m, w, q, n) ==
    \A i \in 1..n : Has(m, w[i]) \/ \E j \in 1..Len(q) : q[j] = w[i]

\* The list after one more check.
Grown(m, r) == IF Has(m, Needs(r)[r.at]) THEN r.missing
               ELSE Append(r.missing, Needs(r)[r.at])

HasList == {"confirm", "install", "waiting", "verifying"}

\* How far a build has got in ensurePackageManager.
BuildOk(m, r) ==
    /\ r.pc = "checking" => r.at \in 1..Len(Needs(r)) /\ Seen(m, Needs(r), r.missing, r.at - 1)
    /\ r.pc \in HasList => r.at \in 1..Len(r.missing) /\ Seen(m, Needs(r), r.missing, Len(Needs(r)))
    /\ r.pc = "verifying" => \A j \in 1..(r.at - 1) : Has(m, r.missing[j])
    /\ r.pc = "ensured" => \A i \in 1..Len(Needs(r)) : Has(m, Needs(r)[i])

\* A machine has these fields, whatever is in them.
Fields(m) == m = [path |-> m.path, platform |-> m.platform, ipfs |-> m.ipfs, faults |-> m.faults]

\* Every build keeps to it.
EnsureInv ==
    /\ Fields(machine)
    /\ build \in [Builds -> BuildRec]
    /\ \A b \in Builds : BuildOk(machine, build[b])

\* PM_TOOLS names at least one program for every manager.
LEMMA NeedsType ==
    ASSUME NEW r \in BuildRec
    PROVE  Needs(r) \in Seq(Tools) /\ Len(Needs(r)) \in Nat \ {0}
  <1>1. r.files \in FileSet
    BY DEF BuildRec
  <1>2. ProjectManager(r.files) \in Managers
    BY <1>1 DEF ProjectManager, FileSet, ManagerOrNone, NoManager, Managers
  <1> DEFINE pm == ProjectManager(r.files)
  <1>3. pm = "npm" \/ pm = "pnpm" \/ pm = "yarn" \/ pm = "bun"
    BY <1>2 DEF Managers
  <1> HIDE DEF pm
  <1>4. PmTools(pm) \in Seq(Tools) /\ Len(PmTools(pm)) \in Nat \ {0}
    <2>1. CASE pm = "npm"
      <3>1. PmTools(pm) = <<"node">>
        BY <2>1 DEF PmTools
      <3> QED BY <3>1 DEF Tools
    <2>2. CASE pm = "pnpm"
      <3>1. PmTools(pm) = <<"node", "pnpm">>
        BY <2>2 DEF PmTools
      <3> QED BY <3>1 DEF Tools
    <2>3. CASE pm = "yarn"
      <3>1. PmTools(pm) = <<"node", "yarn">>
        BY <2>3 DEF PmTools
      <3> QED BY <3>1 DEF Tools
    <2>4. CASE pm = "bun"
      <3>1. PmTools(pm) = <<"bun">>
        BY <2>4 DEF PmTools
      <3> QED BY <3>1 DEF Tools
    <2> QED BY <1>3, <2>1, <2>2, <2>3, <2>4
  <1> QED BY <1>4 DEF pm, Needs

\* A program that is there stays there on a machine that only gains programs.
Gains(m, n) == m.path \subseteq n.path /\ (m.ipfs = "current" => n.ipfs = "current")

\* So a build that was right about a machine is right about one that gained.
LEMMA GainsKeeps ==
    ASSUME NEW m, NEW n, NEW r \in BuildRec, Gains(m, n), BuildOk(m, r)
    PROVE  BuildOk(n, r)
  <1>1. ASSUME NEW t, Has(m, t) PROVE Has(n, t)
    BY <1>1 DEF Has, Gains
  <1> QED BY <1>1 DEF BuildOk, Seen

\* The machine after an installer, whatever became of it.
LEMMA InstallGains ==
    ASSUME Fields(machine), NEW t, NEW o \in Outcomes, InstallEnds(t, o)
    PROVE  Fields(machine') /\ Gains(machine, machine')
  <1> DEFINE able == Installable(t) /\ Runs(t) \subseteq machine.path
             path == IF o = "ok" THEN machine.path \cup {t} ELSE machine.path
             ipfs == IF o = "ok" /\ t = "ipfs" THEN "current" ELSE machine.ipfs
             faults == IF able /\ o # "ok" THEN machine.faults + 1 ELSE machine.faults
  <1>1. machine' = [machine EXCEPT !.path = path, !.ipfs = ipfs, !.faults = faults]
    BY DEF InstallEnds
  <1>2. machine.path \subseteq path /\ (machine.ipfs = "current" => ipfs = "current")
    OBVIOUS
  <1> HIDE DEF path, ipfs, faults
  <1>3. machine' = [path |-> path, platform |-> machine.platform, ipfs |-> ipfs, faults |-> faults]
    BY <1>1 DEF Fields
  <1> QED BY <1>2, <1>3 DEF Fields, Gains

\* The second look and the list come from Present and Wanted.
LEMMA PresentHas == ASSUME NEW t PROVE Present(t) <=> Has(machine, t)
  BY DEF Present, Has

\* The call of ensurePackageManager.
LEMMA EnsureBegins ==
    ASSUME NEW m, NEW r \in BuildRec,
           NEW s, s = [r EXCEPT !.pc = "checking", !.at = 1, !.missing = <<>>]
    PROVE  s \in BuildRec /\ BuildOk(m, s)
  <1> DEFINE none == <<>>
             d == [r EXCEPT !.pc = "checking", !.at = 1, !.missing = none]
  <1>1. none \in Seq(Tools) /\ "checking" \in BuildPcs
    BY DEF BuildPcs
  <1> HIDE DEF none
  <1>2. d \in BuildRec /\ d.pc = "checking" /\ d.at = 1
    BY <1>1 DEF BuildRec
  <1>3. Len(Needs(d)) \in Nat \ {0}
    BY <1>2, NeedsType
  <1> HIDE DEF d
  <1>4. BuildOk(m, d)
    BY <1>2, <1>3 DEF BuildOk, Seen, HasList
  <1> QED BY <1>2, <1>4, Zenon DEF d, none

\* One check: the program is there, or goes on the list.
LEMMA ListGrows ==
    ASSUME NEW m, NEW r \in BuildRec, BuildOk(m, r), r.pc = "checking"
    PROVE  Grown(m, r) \in Seq(Tools) /\ Seen(m, Needs(r), Grown(m, r), r.at)
  <1> DEFINE w == Needs(r)
             t == w[r.at]
             q == Grown(m, r)
  <1>1. w \in Seq(Tools) /\ r.missing \in Seq(Tools) /\ r.at \in 1..Len(w)
    BY NeedsType DEF BuildRec, BuildOk
  <1>2. \A i \in 1..(r.at - 1) : Has(m, w[i]) \/ \E j \in 1..Len(r.missing) : r.missing[j] = w[i]
    BY DEF BuildOk, Seen
  <1>3. q = IF Has(m, t) THEN r.missing ELSE Append(r.missing, t)
    BY DEF Grown
  <1> HIDE DEF w, q
  <1>4. t \in Tools
    BY <1>1
  <1> HIDE DEF t
  <1>5. CASE Has(m, t)
    <2>1. q = r.missing
      BY <1>3, <1>5
    <2>2. ASSUME NEW i \in 1..r.at
          PROVE  Has(m, w[i]) \/ \E j \in 1..Len(q) : q[j] = w[i]
      BY <1>1, <1>2, <1>5, <2>1 DEF t
    <2> QED BY <1>1, <2>1, <2>2 DEF Seen, w, q
  <1>6. CASE ~Has(m, t)
    <2>1. q = Append(r.missing, t)
      BY <1>3, <1>6
    <2>2. q \in Seq(Tools) /\ Len(q) = Len(r.missing) + 1 /\ q[Len(q)] = t
      BY <2>1, <1>1, <1>4
    <2>3. \A j \in 1..Len(r.missing) : q[j] = r.missing[j]
      BY <2>1, <1>1, <1>4
    <2>4. Len(r.missing) \in Nat
      BY <1>1
    <2>5. ASSUME NEW i \in 1..r.at
          PROVE  Has(m, w[i]) \/ \E j \in 1..Len(q) : q[j] = w[i]
      <3>1. CASE i = r.at
        <4>1. Len(q) \in 1..Len(q) /\ q[Len(q)] = w[i]
          BY <2>2, <2>4, <3>1 DEF t
        <4> QED BY <4>1
      <3>2. CASE i # r.at
        <4>1. i \in 1..(r.at - 1)
          BY <1>1, <3>2
        <4> QED BY <1>2, <2>2, <2>3, <2>4, <4>1
      <3> QED BY <3>1, <3>2
    <2> QED BY <2>2, <2>5 DEF Seen, w, q
  <1> QED BY <1>5, <1>6

\* A check that is not the last.
LEMMA CheckOn ==
    ASSUME NEW m, NEW r \in BuildRec, BuildOk(m, r), r.pc = "checking", r.at < Len(Needs(r)),
           NEW s, s = [r EXCEPT !.at = r.at + 1, !.missing = Grown(m, r)]
    PROVE  s \in BuildRec /\ BuildOk(m, s)
  <1> DEFINE q == Grown(m, r)
             n == r.at + 1
             d == [r EXCEPT !.at = n, !.missing = q]
  <1>1. q \in Seq(Tools) /\ Seen(m, Needs(r), q, r.at)
    BY ListGrows
  <1>2. Len(Needs(r)) \in Nat /\ r.at \in 1..Len(Needs(r))
    BY NeedsType DEF BuildOk
  <1>3. n \in 1..Len(Needs(r)) /\ n \in Nat /\ n - 1 = r.at
    BY <1>2
  <1> HIDE DEF q, n
  <1>4. d \in BuildRec /\ d.pc = "checking" /\ d.at = n /\ d.missing = q /\ d.files = r.files
    BY <1>1, <1>3 DEF BuildRec
  <1> HIDE DEF d
  <1>5. Needs(d) = Needs(r)
    BY <1>4 DEF Needs
  <1>6. BuildOk(m, d)
    BY <1>1, <1>3, <1>4, <1>5 DEF BuildOk, HasList
  <1> QED BY <1>4, <1>6 DEF d, n, q

\* The last check.
LEMMA CheckLast ==
    ASSUME NEW m, NEW r \in BuildRec, BuildOk(m, r), r.pc = "checking", ~(r.at < Len(Needs(r))),
           NEW pc \in {"ensured", "confirm", "install"}, Grown(m, r) = <<>> <=> pc = "ensured",
           NEW s, s = [r EXCEPT !.at = 1, !.missing = Grown(m, r), !.pc = pc]
    PROVE  s \in BuildRec /\ BuildOk(m, s)
  <1> DEFINE q == Grown(m, r)
             d == [r EXCEPT !.at = 1, !.missing = q, !.pc = pc]
  <1>1. q \in Seq(Tools) /\ Seen(m, Needs(r), q, r.at)
    BY ListGrows
  <1>2. r.at = Len(Needs(r))
    BY NeedsType DEF BuildOk
  <1>3. pc \in BuildPcs
    BY DEF BuildPcs
  <1>4. q = <<>> <=> pc = "ensured"
    OBVIOUS
  <1> HIDE DEF q
  <1>5. d \in BuildRec /\ d.pc = pc /\ d.at = 1 /\ d.missing = q /\ d.files = r.files
    BY <1>1, <1>3 DEF BuildRec
  <1> HIDE DEF d
  <1>6. Needs(d) = Needs(r)
    BY <1>5 DEF Needs
  <1>7. BuildOk(m, d)
    <2>1. CASE q = <<>>
      <3>1. Len(q) = 0 /\ pc = "ensured"
        BY <1>4, <2>1
      <3>2. \A i \in 1..Len(Needs(d)) : Has(m, Needs(d)[i])
        BY <1>1, <1>2, <1>6, <3>1 DEF Seen
      <3> QED BY <1>5, <3>1, <3>2 DEF BuildOk, HasList
    <2>2. CASE q # <<>>
      <3>1. Len(q) \in Nat \ {0}
        BY <1>1, <2>2
      <3>2. pc \in {"confirm", "install"}
        BY <1>4, <2>2
      <3>3. 1 \in 1..Len(q)
        BY <3>1
      <3> QED BY <1>1, <1>2, <1>5, <1>6, <3>2, <3>3 DEF BuildOk, HasList
    <2> QED BY <2>1, <2>2
  <1> QED BY <1>5, <1>7 DEF d, q

\* From the list, on with it.
LEMMA ListKept ==
    ASSUME NEW m, NEW r \in BuildRec, BuildOk(m, r), r.pc \in HasList,
           NEW pc \in {"install", "waiting"},
           NEW s, s = [r EXCEPT !.pc = pc]
    PROVE  s \in BuildRec /\ BuildOk(m, s)
  <1> DEFINE d == [r EXCEPT !.pc = pc]
  <1>1. pc \in BuildPcs /\ pc \in HasList /\ pc \notin {"checking", "verifying", "ensured"}
    BY DEF BuildPcs, HasList
  <1>2. d \in BuildRec /\ d.pc = pc /\ d.at = r.at /\ d.missing = r.missing /\ d.files = r.files
    BY <1>1 DEF BuildRec
  <1> HIDE DEF d
  <1>3. Needs(d) = Needs(r)
    BY <1>2 DEF Needs
  <1>4. BuildOk(m, d)
    BY <1>1, <1>2, <1>3 DEF BuildOk
  <1> QED BY <1>2, <1>4 DEF d

\* Out of ensurePackageManager otherwise than ensured.
LEMMA Left ==
    ASSUME NEW m, NEW r \in BuildRec, NEW pc \in {"declined", "failed", "building", "built"},
           NEW s, s = [r EXCEPT !.pc = pc]
    PROVE  s \in BuildRec /\ BuildOk(m, s)
  <1> DEFINE d == [r EXCEPT !.pc = pc]
  <1>1. pc \in BuildPcs /\ pc \notin HasList /\ pc \notin {"checking", "verifying", "ensured"}
    BY DEF BuildPcs, HasList
  <1>2. d \in BuildRec /\ d.pc = pc
    BY <1>1 DEF BuildRec
  <1> HIDE DEF d
  <1>3. BuildOk(m, d)
    BY <1>1, <1>2 DEF BuildOk
  <1> QED BY <1>2, <1>3 DEF d

\* A fresh build.
LEMMA NewBuildOk ==
    ASSUME NEW m, NEW p \in FileSet
    PROVE  NewBuild(p) \in BuildRec /\ BuildOk(m, NewBuild(p))
  <1>1. NewBuild(p) \in BuildRec
    BY DEF NewBuild, BuildRec, BuildPcs
  <1>2. NewBuild(p).pc = "off"
    BY DEF NewBuild
  <1> QED BY <1>1, <1>2 DEF BuildOk, HasList

\* What a waiter does next.
LEMMA ResumedOk ==
    ASSUME NEW m, NEW r \in BuildRec, BuildOk(m, r), r.pc = "waiting", NEW ok \in BOOLEAN
    PROVE  Resumed(r, ok) \in BuildRec /\ BuildOk(m, Resumed(r, ok))
  <1>1. CASE ~ok
    <2>1. Resumed(r, ok) = [r EXCEPT !.pc = "failed"]
      BY <1>1 DEF Resumed
    <2> QED BY <2>1, Left
  <1>2. /\ r.missing \in Seq(Tools) /\ Len(r.missing) \in Nat /\ r.at \in 1..Len(r.missing)
        /\ Seen(m, Needs(r), r.missing, Len(Needs(r)))
    BY DEF BuildRec, BuildOk, HasList
  <1>3. CASE ok /\ r.at < Len(r.missing)
    <2> DEFINE n == r.at + 1
               s == [r EXCEPT !.at = n, !.pc = "install"]
    <2>1. Resumed(r, ok) = s
      BY <1>3 DEF Resumed
    <2>2. n \in 1..Len(r.missing) /\ n \in Nat
      BY <1>2, <1>3
    <2> HIDE DEF n
    <2>3. /\ s \in BuildRec /\ s.pc = "install" /\ s.at = n
          /\ s.missing = r.missing /\ s.files = r.files
      BY <2>2 DEF BuildRec, BuildPcs
    <2> HIDE DEF s
    <2>4. Needs(s) = Needs(r)
      BY <2>3 DEF Needs
    <2>5. BuildOk(m, s)
      BY <1>2, <2>2, <2>3, <2>4 DEF BuildOk, HasList
    <2> QED BY <2>1, <2>3, <2>5
  <1>4. CASE ok /\ ~(r.at < Len(r.missing))
    <2> DEFINE s == [r EXCEPT !.at = 1, !.pc = "verifying"]
    <2>1. Resumed(r, ok) = s
      BY <1>4 DEF Resumed
    <2>2. /\ s \in BuildRec /\ s.pc = "verifying" /\ s.at = 1
          /\ s.missing = r.missing /\ s.files = r.files
      BY DEF BuildRec, BuildPcs
    <2> HIDE DEF s
    <2>3. Needs(s) = Needs(r)
      BY <2>2 DEF Needs
    <2>4. 1 \in 1..Len(r.missing)
      BY <1>2
    <2>5. BuildOk(m, s)
      BY <1>2, <2>2, <2>3, <2>4 DEF BuildOk, HasList
    <2> QED BY <2>1, <2>2, <2>5
  <1> QED BY <1>1, <1>3, <1>4

\* The second look, before the last program.
LEMMA VerifyOn ==
    ASSUME NEW m, NEW r \in BuildRec, BuildOk(m, r), r.pc = "verifying",
           Has(m, r.missing[r.at]), r.at < Len(r.missing),
           NEW s, s = [r EXCEPT !.at = r.at + 1]
    PROVE  s \in BuildRec /\ BuildOk(m, s)
  <1> DEFINE n == r.at + 1
             d == [r EXCEPT !.at = n]
  <1>1. /\ r.missing \in Seq(Tools) /\ Len(r.missing) \in Nat /\ r.at \in 1..Len(r.missing)
        /\ Seen(m, Needs(r), r.missing, Len(Needs(r)))
        /\ \A j \in 1..(r.at - 1) : Has(m, r.missing[j])
    BY DEF BuildRec, BuildOk, HasList
  <1>2. n \in 1..Len(r.missing) /\ n \in Nat /\ n - 1 = r.at
    BY <1>1
  <1>3. \A j \in 1..(n - 1) : Has(m, r.missing[j])
    <2>1. ASSUME NEW j \in 1..r.at PROVE Has(m, r.missing[j])
      <3>1. j = r.at \/ j \in 1..(r.at - 1)
        BY <1>1
      <3> QED BY <1>1, <3>1
    <2> QED BY <1>2, <2>1
  <1> HIDE DEF n
  <1>4. /\ d \in BuildRec /\ d.pc = "verifying" /\ d.at = n
        /\ d.missing = r.missing /\ d.files = r.files
    BY <1>2 DEF BuildRec
  <1> HIDE DEF d
  <1>5. Needs(d) = Needs(r)
    BY <1>4 DEF Needs
  <1>6. BuildOk(m, d)
    BY <1>1, <1>2, <1>3, <1>4, <1>5 DEF BuildOk, HasList
  <1> QED BY <1>4, <1>6 DEF d, n

\* The second look at the last program: everything on the list is there now,
\* and what is not on it was there at the first look and stayed.
LEMMA VerifyLast ==
    ASSUME NEW m, NEW r \in BuildRec, BuildOk(m, r), r.pc = "verifying",
           Has(m, r.missing[r.at]), ~(r.at < Len(r.missing)),
           NEW s, s = [r EXCEPT !.pc = "ensured"]
    PROVE  s \in BuildRec /\ BuildOk(m, s)
  <1> DEFINE d == [r EXCEPT !.pc = "ensured"]
  <1>1. /\ r.missing \in Seq(Tools) /\ Len(r.missing) \in Nat /\ r.at \in 1..Len(r.missing)
        /\ Seen(m, Needs(r), r.missing, Len(Needs(r)))
        /\ \A j \in 1..(r.at - 1) : Has(m, r.missing[j])
    BY DEF BuildRec, BuildOk, HasList
  <1>2. ASSUME NEW j \in 1..Len(r.missing) PROVE Has(m, r.missing[j])
    <2>1. j = r.at \/ j \in 1..(r.at - 1)
      BY <1>1
    <2> QED BY <1>1, <2>1
  <1>3. \A i \in 1..Len(Needs(r)) : Has(m, Needs(r)[i])
    BY <1>1, <1>2 DEF Seen
  <1>4. d \in BuildRec /\ d.pc = "ensured" /\ d.files = r.files
    BY DEF BuildRec, BuildPcs
  <1> HIDE DEF d
  <1>5. Needs(d) = Needs(r)
    BY <1>4 DEF Needs
  <1>6. BuildOk(m, d)
    BY <1>3, <1>4, <1>5 DEF BuildOk, HasList
  <1> QED BY <1>4, <1>6 DEF d

\* One build moves on an unchanged machine.
LEMMA SetKeeps ==
    ASSUME EnsureInv, NEW b \in Builds, NEW s \in BuildRec, BuildOk(machine, s),
           Set(b, s), machine' = machine
    PROVE  EnsureInv'
  BY DEF EnsureInv, Set

\* The machine and the builds are left alone.
LEMMA EnsureStutter ==
    ASSUME EnsureInv, machine' = machine, build' = build
    PROVE  EnsureInv'
  BY DEF EnsureInv

\* ModInit starts no build.
LEMMA InitEnsure == ModInit => EnsureInv
  <1> SUFFICES ASSUME ModInit PROVE EnsureInv
    OBVIOUS
  <1>1. kind \in Kinds /\ machine \in Machines[kind]
    BY DEF ModInit
  <1>2. Fields(machine) /\ Projects[kind] \subseteq FileSet
    BY <1>1, ModAssumption DEF MachineSet, Fields
  <1>3. build \in [Builds -> {NewBuild(p) : p \in Projects[kind]}]
    BY DEF ModInit
  <1>4. ASSUME NEW b \in Builds PROVE build[b] \in BuildRec /\ BuildOk(machine, build[b])
    <2>1. PICK p \in Projects[kind] : build[b] = NewBuild(p)
      BY <1>3
    <2> QED BY <1>2, <2>1, NewBuildOk
  <1>5. build \in [Builds -> BuildRec]
    BY <1>3, <1>4
  <1> QED BY <1>2, <1>4, <1>5 DEF EnsureInv

\* One awaited check.
LEMMA CheckEnsure ==
    ASSUME EnsureInv, NEW b \in Builds, Check(b)
    PROVE  EnsureInv'
  <1> DEFINE r == build[b]
             q == Grown(machine, r)
  <1>1. r \in BuildRec /\ BuildOk(machine, r) /\ r.pc = "checking" /\ machine' = machine
    BY DEF EnsureInv, Check
  <1>2. Wanted(b) = Needs(r)
    BY DEF Wanted, Needs
  <1>3. q = IF Present(Wanted(b)[r.at]) THEN r.missing ELSE Append(r.missing, Wanted(b)[r.at])
    BY <1>2, PresentHas DEF Grown
  <1>4. CASE r.at < Len(Needs(r))
    <2> DEFINE s == [r EXCEPT !.at = r.at + 1, !.missing = q]
    <2>1. Set(b, s)
      BY <1>2, <1>3, <1>4 DEF Check
    <2>2. s \in BuildRec /\ BuildOk(machine, s)
      BY <1>1, <1>4, CheckOn
    <2> HIDE DEF s
    <2> QED BY <1>1, <2>1, <2>2, SetKeeps
  <1>5. CASE ~(r.at < Len(Needs(r)))
    <2> DEFINE pc == AfterChecks(b, q)
               s == [r EXCEPT !.at = 1, !.missing = q, !.pc = pc]
    <2>1. Set(b, s)
      BY <1>2, <1>3, <1>5 DEF Check
    <2>2. pc \in {"ensured", "confirm", "install"} /\ (q = <<>> <=> pc = "ensured")
      BY DEF AfterChecks
    <2> HIDE DEF pc
    <2>3. s \in BuildRec /\ BuildOk(machine, s)
      BY <1>1, <1>5, <2>2, CheckLast
    <2> HIDE DEF s
    <2> QED BY <1>1, <2>1, <2>3, SetKeeps
  <1> QED BY <1>4, <1>5

\* The question, the start of an installer, and the commands of the build.
LEMMA MovesEnsure ==
    ASSUME EnsureInv, NEW b \in Builds, Confirm(b) \/ InstallOnce(b) \/ StartBuild(b) \/ RunCommand(b)
    PROVE  EnsureInv'
  <1> DEFINE r == build[b]
  <1>1. r \in BuildRec /\ BuildOk(machine, r)
    BY DEF EnsureInv
  <1>2. machine' = machine
    BY DEF Confirm, InstallOnce, StartBuild, RunCommand
  <1>3. ASSUME NEW pc \in {"install", "waiting"}, r.pc \in HasList, Set(b, [r EXCEPT !.pc = pc])
        PROVE  EnsureInv'
    <2> DEFINE s == [r EXCEPT !.pc = pc]
    <2>1. s \in BuildRec /\ BuildOk(machine, s)
      BY <1>1, <1>3, ListKept
    <2>2. Set(b, s)
      BY <1>3
    <2> HIDE DEF s
    <2> QED BY <1>2, <2>1, <2>2, SetKeeps
  <1>4. ASSUME NEW pc \in {"declined", "failed", "building", "built"}, Set(b, [r EXCEPT !.pc = pc])
        PROVE  EnsureInv'
    <2> DEFINE s == [r EXCEPT !.pc = pc]
    <2>1. s \in BuildRec /\ BuildOk(machine, s)
      BY <1>1, Left
    <2>2. Set(b, s)
      BY <1>4
    <2> HIDE DEF s
    <2> QED BY <1>2, <2>1, <2>2, SetKeeps
  <1>5. CASE Confirm(b)
    <2>1. r.pc \in HasList
      BY <1>5 DEF Confirm, HasList
    <2>2. PICK pc \in {"install", "declined"} : Set(b, [r EXCEPT !.pc = pc])
      BY <1>5 DEF Confirm
    <2> QED BY <1>3, <1>4, <2>1, <2>2
  <1>6. CASE InstallOnce(b)
    <2>1. r.pc \in HasList /\ Set(b, [r EXCEPT !.pc = "waiting"])
      BY <1>6 DEF InstallOnce, HasList
    <2> QED BY <1>3, <2>1
  <1>7. CASE StartBuild(b)
    <2>1. CASE Set(b, [r EXCEPT !.pc = "building"])
      BY <1>4, <2>1
    <2>2. CASE Ensure(b)
      <3> DEFINE s == [r EXCEPT !.pc = "checking", !.at = 1, !.missing = <<>>]
      <3>1. s \in BuildRec /\ BuildOk(machine, s)
        BY <1>1, EnsureBegins
      <3>2. Set(b, s)
        BY <2>2 DEF Ensure
      <3> HIDE DEF s
      <3> QED BY <1>2, <3>1, <3>2, SetKeeps
    <2> QED BY <1>7, <2>1, <2>2 DEF StartBuild
  <1>8. CASE RunCommand(b)
    <2>1. PICK pc \in {"failed", "building", "built"} : Set(b, [r EXCEPT !.pc = pc])
      BY <1>8 DEF RunCommand
    <2> QED BY <1>4, <2>1
  <1> QED BY <1>5, <1>6, <1>7, <1>8

\* The second look.
LEMMA VerifyEnsure ==
    ASSUME EnsureInv, NEW b \in Builds, Verify(b)
    PROVE  EnsureInv'
  <1> DEFINE r == build[b]
  <1>1. r \in BuildRec /\ BuildOk(machine, r) /\ r.pc = "verifying" /\ machine' = machine
    BY DEF EnsureInv, Verify
  <1>2. Present(Current(b)) <=> Has(machine, r.missing[r.at])
    BY PresentHas DEF Current
  <1>3. PICK s : /\ Set(b, s)
                 /\ \/ s = [r EXCEPT !.pc = "failed"]
                    \/ Present(Current(b)) /\ r.at < Len(r.missing) /\ s = [r EXCEPT !.at = r.at + 1]
                    \/ /\ Present(Current(b)) /\ ~(r.at < Len(r.missing))
                       /\ s = [r EXCEPT !.pc = "ensured"]
    BY DEF Verify
  <1>4. s \in BuildRec /\ BuildOk(machine, s)
    <2>1. CASE s = [r EXCEPT !.pc = "failed"]
      BY <1>1, <2>1, Left
    <2>2. CASE Present(Current(b)) /\ r.at < Len(r.missing) /\ s = [r EXCEPT !.at = r.at + 1]
      BY <1>1, <1>2, <2>2, VerifyOn
    <2>3. CASE /\ Present(Current(b)) /\ ~(r.at < Len(r.missing))
               /\ s = [r EXCEPT !.pc = "ensured"]
      BY <1>1, <1>2, <2>3, VerifyLast
    <2> QED BY <1>3, <2>1, <2>2, <2>3
  <1> QED BY <1>1, <1>3, <1>4, SetKeeps

\* An installer ends: the machine gains, those who wait resume.
LEMMA InstallerEnsure ==
    ASSUME EnsureInv, NEW t \in Tools, InstallerEnds(t)
    PROVE  EnsureInv'
  <1>1. PICK o \in Outcomes :
          /\ InstallEnds(t, o)
          /\ build' = [b \in Builds |-> IF build[b].pc = "waiting" /\ Current(b) = t
                                        THEN Resumed(build[b], o # "fails") ELSE build[b]]
    BY DEF InstallerEnds
  <1>2. Fields(machine') /\ Gains(machine, machine')
    BY <1>1, InstallGains DEF EnsureInv
  <1>3. ASSUME NEW b \in Builds PROVE build'[b] \in BuildRec /\ BuildOk(machine', build'[b])
    <2>1. build[b] \in BuildRec /\ BuildOk(machine, build[b])
      BY DEF EnsureInv
    <2>2. BuildOk(machine', build[b])
      BY <1>2, <2>1, GainsKeeps
    <2> DEFINE ok == o # "fails"
    <2>3. ok \in BOOLEAN
      OBVIOUS
    <2> HIDE DEF ok
    <2>4. CASE build[b].pc = "waiting" /\ Current(b) = t
      <3>1. build'[b] = Resumed(build[b], ok)
        BY <1>1, <2>4 DEF ok
      <3> QED BY <2>1, <2>2, <2>3, <2>4, <3>1, ResumedOk
    <2>5. CASE ~(build[b].pc = "waiting" /\ Current(b) = t)
      <3>1. build'[b] = build[b]
        BY <1>1, <2>5
      <3> QED BY <2>1, <2>2, <3>1
    <2> QED BY <2>4, <2>5
  <1>4. build' \in [Builds -> BuildRec]
    BY <1>1, <1>3
  <1> QED BY <1>2, <1>3, <1>4 DEF EnsureInv

\* The dependency list only adds to the machine.
LEMMA ListEnsure ==
    ASSUME EnsureInv, ListStep
    PROVE  EnsureInv'
  <1>1. CASE ListStart \/ ListCheck
    <2>1. machine' = machine /\ build' = build
      BY <1>1 DEF ListStart, ListCheck
    <2> QED BY <2>1, EnsureStutter
  <1>2. CASE ListInstall
    <2>1. PICK o \in Outcomes : InstallEnds(ToolSteps[list.at], o)
      BY <1>2 DEF ListInstall
    <2>2. Fields(machine') /\ Gains(machine, machine')
      BY <2>1, InstallGains DEF EnsureInv
    <2>3. build' = build
      BY <1>2 DEF ListInstall
    <2>4. ASSUME NEW b \in Builds PROVE BuildOk(machine', build[b])
      BY <2>2, GainsKeeps DEF EnsureInv
    <2> QED BY <2>2, <2>3, <2>4 DEF EnsureInv
  <1> QED BY <1>1, <1>2 DEF ListStep

\* The mod command starts its installation, ends it, or touches no build.
LEMMA ModEnsure ==
    ASSUME EnsureInv, ModStep
    PROVE  EnsureInv'
  <1> DEFINE r == build[ModBuild]
  <1>1. r \in BuildRec /\ BuildOk(machine, r) /\ ModBuild \in Builds
    BY ModAssumption DEF EnsureInv
  <1>2. CASE machine' = machine /\ build' = build
    BY <1>2, EnsureStutter
  <1>3. CASE StartInstall
    <2> DEFINE s == [r EXCEPT !.pc = "checking", !.at = 1, !.missing = <<>>]
    <2>1. s \in BuildRec /\ BuildOk(machine, s)
      BY <1>1, EnsureBegins
    <2>2. Set(ModBuild, s) /\ machine' = machine
      BY <1>3 DEF StartInstall, Ensure
    <2> HIDE DEF s
    <2> QED BY <1>1, <2>1, <2>2, SetKeeps
  <1>4. CASE Set(ModBuild, NewBuild(r.files)) /\ machine' = machine
    <2>1. r.files \in FileSet
      BY <1>1 DEF BuildRec
    <2>2. NewBuild(r.files) \in BuildRec /\ BuildOk(machine, NewBuild(r.files))
      BY <2>1, NewBuildOk
    <2> QED BY <1>1, <1>4, <2>2, SetKeeps
  <1>5. CASE \/ Invoke \/ Connect \/ Gate \/ Choose \/ Browsed \/ ProbeMetadata \/ Quests
             \/ ResolveTarget \/ FetchMetadata \/ StartDownload \/ Extract \/ FinishSource
             \/ SetupSh \/ UserWrites \/ UserClears
    BY <1>2, <1>5 DEF Invoke, Connect, Gate, Choose, Browsed, ProbeMetadata, Quests, ResolveTarget,
       FetchMetadata, StartDownload, Extract, FinishSource, SetupSh, UserWrites, UserClears,
       Still, toolVars
  <1>6. CASE PlanPackageManager \/ ConfirmInstall
    BY <1>2, <1>3, <1>6 DEF PlanPackageManager, ConfirmInstall, toolVars
  <1>7. CASE Installed \/ Interrupt
    BY <1>4, <1>7 DEF Installed, Interrupt
  <1> QED BY <1>5, <1>6, <1>7 DEF ModStep

\* Every step of the composition keeps EnsureInv.
LEMMA NextEnsure == EnsureInv /\ [Next]_vars => EnsureInv'
  <1> SUFFICES ASSUME EnsureInv, [Next]_vars PROVE EnsureInv'
    OBVIOUS
  <1>1. CASE UNCHANGED vars \/ (BrowserStep /\ UNCHANGED <<toolVars, kind, mod, dir>>)
    <2>1. machine' = machine /\ build' = build
      BY <1>1 DEF vars, toolVars
    <2> QED BY <2>1, EnsureStutter
  <1>2. CASE EnsureStep
    BY <1>2, CheckEnsure, MovesEnsure, VerifyEnsure, InstallerEnsure DEF EnsureStep
  <1>3. CASE BuildStep
    BY <1>3, MovesEnsure DEF BuildStep
  <1> QED BY <1>1, <1>2, <1>3, ListEnsure, ModEnsure DEF Next

\* A build told that its package manager is there finds every program of it,
\* for any number of concurrent builds, any machine and any faulty installers:
\* the second look of ensurePackageManagerForTools covers what was missing at
\* the first, and a program once found is not lost.
THEOREM EnsuredManagersAreUsable == Spec => []EnsuredIsUsable
  <1>1. EnsureInv => EnsuredIsUsable
    <2> SUFFICES ASSUME EnsureInv, NEW b \in Builds, build[b].pc = "ensured",
                        NEW i \in 1..Len(Wanted(b))
                 PROVE  Present(Wanted(b)[i])
      BY DEF EnsuredIsUsable
    <2>1. Wanted(b) = Needs(build[b])
      BY DEF Wanted, Needs
    <2>2. Has(machine, Wanted(b)[i])
      BY <2>1 DEF EnsureInv, BuildOk
    <2> QED BY <2>2, PresentHas
  <1> QED BY InitEnsure, NextEnsure, <1>1, PTL DEF Spec

-----------------------------------------------------------------------------
(* The dependency list.                                                    *)

ListLast == 9
Rows == 1 .. ListLast

\* The rows before n are settled well on the machine m.
Settled(m, row, n) ==
    \A i \in Rows : i < n => row[i] = "ok" /\ Has(m, ToolSteps[i])

\* On Linux without a fault, what the list has passed is there.
ListInv ==
    /\ Fields(machine) /\ machine.faults \in Nat
    /\ list = [at |-> list.at, status |-> list.status, row |-> list.row]
    /\ list.row = [i \in Rows |-> list.row[i]]
    /\ list.status # "off" => list.at \in Rows
    /\ machine.platform = "linux" /\ machine.faults = 0 =>
         /\ list.status # "off" => Settled(machine, list.row, list.at)
         /\ list.status = "complete" => Settled(machine, list.row, ListLast + 1)

\* TOOL_STEPS, by position.
LEMMA StepNames ==
    /\ Len(ToolSteps) = ListLast
    /\ ToolSteps[1] = "git" /\ ToolSteps[2] = "curl" /\ ToolSteps[3] = "cc"
    /\ ToolSteps[4] = "rustup" /\ ToolSteps[5] = "nightly" /\ ToolSteps[6] = "rust-src"
    /\ ToolSteps[7] = "cargo-pvm-contract" /\ ToolSteps[8] = "ipfs" /\ ToolSteps[9] = "wget"
  BY DEF ToolSteps, ListLast

\* The order of TOOL_STEPS: what the installer and the check of a step run is
\* installed by an earlier step.
LEMMA StepOrder ==
    ASSUME NEW n \in Rows, machine.platform = "linux",
           \A i \in Rows : i < n => ToolSteps[i] \in machine.path
    PROVE  /\ Installable(ToolSteps[n])
           /\ Runs(ToolSteps[n]) \subseteq machine.path
           /\ Probes(ToolSteps[n]) \subseteq machine.path
  <1>1. n = 1 \/ n = 2 \/ n = 3 \/ n = 4 \/ n = 5 \/ n = 6 \/ n = 7 \/ n = 8 \/ n = 9
    BY DEF Rows, ListLast
  <1>2. /\ n > 1 => "git" \in machine.path
        /\ n > 2 => "curl" \in machine.path
        /\ n > 3 => "cc" \in machine.path
        /\ n > 4 => "rustup" \in machine.path
        /\ n > 5 => "nightly" \in machine.path
    BY StepNames DEF Rows, ListLast
  <1>3. CASE n \in {1, 2, 3}
    BY <1>2, <1>3, StepNames DEF Installable, Runs, Probes
  <1>4. CASE n \in {4, 5, 6}
    BY <1>2, <1>4, StepNames DEF Installable, Runs, Probes
  <1>5. CASE n \in {7, 8, 9}
    BY <1>2, <1>5, StepNames DEF Installable, Runs, Probes
  <1> QED BY <1>1, <1>3, <1>4, <1>5

\* A row is settled and the list goes on.
LEMMA SettledOn ==
    ASSUME ListInv, list.status # "off", NEW mark, RowSettled(mark),
           Fields(machine'), machine'.faults \in Nat,
           machine'.platform = "linux" /\ machine'.faults = 0 =>
             /\ Settled(machine', list.row, list.at)
             /\ mark = "ok" /\ Has(machine', ToolSteps[list.at])
    PROVE  ListInv'
  <1> DEFINE n == list.at
             row == list.row
             st == list.status
  <1>1. /\ n \in Rows /\ row = [i \in Rows |-> row[i]]
        /\ list = [at |-> n, status |-> st, row |-> row]
    BY DEF ListInv
  <1> HIDE DEF n, row, st
  <1>2. CASE n = ListLast
    <2> DEFINE row2 == [row EXCEPT ![n] = mark]
    <2>1. list' = [list EXCEPT !.row = row2, !.status = "complete"]
      BY <1>2, StepNames DEF RowSettled, n, row
    <2>2. row2 = [i \in Rows |-> IF i = n THEN mark ELSE row[i]]
      BY <1>1
    <2> HIDE DEF row2
    <2>3. list' = [at |-> n, status |-> "complete", row |-> row2]
      BY <1>1, <2>1
    <2>4. ASSUME machine'.platform = "linux", machine'.faults = 0
          PROVE  Settled(machine', row2, n) /\ Settled(machine', row2, ListLast + 1)
      BY <1>1, <1>2, <2>2, <2>4 DEF Settled, Rows, ListLast, n, row
    <2> QED BY <1>1, <2>2, <2>3, <2>4 DEF ListInv
  <1>3. CASE n # ListLast
    <2> DEFINE row2 == [row EXCEPT ![n] = mark, ![n + 1] = "checking"]
    <2>1. list' = [list EXCEPT !.row = row2, !.at = n + 1, !.status = "checking"]
      BY <1>3, StepNames DEF RowSettled, n, row
    <2>2. row2 = [i \in Rows |-> IF i = n + 1 THEN "checking" ELSE IF i = n THEN mark ELSE row[i]]
      BY <1>1
    <2> HIDE DEF row2
    <2>3. list' = [at |-> n + 1, status |-> "checking", row |-> row2] /\ n + 1 \in Rows
      <3> DEFINE n1 == n + 1
      <3>1. list' = [list EXCEPT !.row = row2, !.at = n1, !.status = "checking"]
        BY <2>1
      <3>2. n1 \in Rows
        BY <1>1, <1>3 DEF Rows, ListLast
      <3> HIDE DEF n1
      <3>3. list' = [at |-> n1, status |-> "checking", row |-> row2]
        BY <1>1, <3>1
      <3> QED BY <3>2, <3>3 DEF n1
    <2>4. ASSUME machine'.platform = "linux", machine'.faults = 0
          PROVE  Settled(machine', row2, n + 1)
      BY <1>1, <2>2, <2>4 DEF Settled, Rows, ListLast, n, row
    <2> QED BY <1>1, <2>2, <2>3, <2>4 DEF ListInv
  <1> QED BY <1>2, <1>3

\* A machine that only gains programs and counts its faults keeps the list right.
LEMMA ListGains ==
    ASSUME ListInv, list' = list, Fields(machine'), Gains(machine, machine'),
           machine'.platform = machine.platform, machine'.faults \in Nat,
           machine'.faults = 0 => machine.faults = 0
    PROVE  ListInv'
  <1>1. ASSUME NEW t, Has(machine, t) PROVE Has(machine', t)
    BY <1>1 DEF Has, Gains
  <1>2. ASSUME NEW n, Settled(machine, list.row, n) PROVE Settled(machine', list.row, n)
    BY <1>1, <1>2 DEF Settled
  <1> QED BY <1>2 DEF ListInv

\* An installer counts as a fault when it could have worked and did not.
LEMMA InstallFaults ==
    ASSUME Fields(machine), machine.faults \in Nat, NEW t, NEW o \in Outcomes, InstallEnds(t, o)
    PROVE  /\ Fields(machine') /\ Gains(machine, machine')
           /\ machine'.platform = machine.platform /\ machine'.faults \in Nat
           /\ machine'.faults = 0 =>
                /\ machine.faults = 0
                /\ Installable(t) /\ Runs(t) \subseteq machine.path =>
                     /\ o = "ok" /\ t \in machine'.path
                     /\ t = "ipfs" => machine'.ipfs = "current"
  <1> DEFINE able == Installable(t) /\ Runs(t) \subseteq machine.path
             path == IF o = "ok" THEN machine.path \cup {t} ELSE machine.path
             ipfs == IF o = "ok" /\ t = "ipfs" THEN "current" ELSE machine.ipfs
             faults == IF able /\ o # "ok" THEN machine.faults + 1 ELSE machine.faults
  <1>1. machine' = [machine EXCEPT !.path = path, !.ipfs = ipfs, !.faults = faults]
    BY DEF InstallEnds
  <1>2. /\ faults \in Nat /\ (faults = 0 => machine.faults = 0 /\ (able => o = "ok"))
        /\ o = "ok" => t \in path /\ (t = "ipfs" => ipfs = "current")
    OBVIOUS
  <1> HIDE DEF able, path, ipfs, faults
  <1>3. machine' = [path |-> path, platform |-> machine.platform, ipfs |-> ipfs, faults |-> faults]
    BY <1>1 DEF Fields
  <1>4. machine'.platform = machine.platform /\ machine'.faults \in Nat
    BY <1>2, <1>3
  <1>5. machine'.faults = 0 => machine.faults = 0 /\ (able => o = "ok")
    BY <1>2, <1>3
  <1>6. o = "ok" => t \in machine'.path /\ (t = "ipfs" => machine'.ipfs = "current")
    BY <1>2, <1>3
  <1> QED BY <1>4, <1>5, <1>6, InstallGains DEF able

\* A row is checked: there, or to be installed.
LEMMA ListCheckKeeps ==
    ASSUME ListInv, ListCheck
    PROVE  ListInv'
  <1>1. list.status = "checking" /\ machine' = machine
    BY DEF ListCheck
  <1>2. CASE Present(ToolSteps[list.at])
    <2>1. RowSettled("ok")
      BY <1>2 DEF ListCheck
    <2>2. Has(machine, ToolSteps[list.at])
      BY <1>2, PresentHas
    <2>3. /\ Fields(machine') /\ machine'.faults \in Nat
          /\ machine'.platform = "linux" /\ machine'.faults = 0 =>
               Settled(machine', list.row, list.at) /\ Has(machine', ToolSteps[list.at])
      BY <1>1, <2>2 DEF ListInv
    <2> QED BY <1>1, <2>1, <2>3, SettledOn
  <1>3. CASE ~Present(ToolSteps[list.at])
    <2> DEFINE n == list.at
               row == list.row
               row2 == [row EXCEPT ![n] = "installing"]
    <2>1. list' = [list EXCEPT !.status = "installing", !.row = row2]
      BY <1>3 DEF ListCheck
    <2>2. /\ n \in Rows /\ row = [i \in Rows |-> row[i]]
          /\ list = [at |-> n, status |-> "checking", row |-> row]
      BY <1>1 DEF ListInv
    <2> HIDE DEF row
    <2>3. row2 = [i \in Rows |-> IF i = n THEN "installing" ELSE row[i]]
      BY <2>2
    <2> HIDE DEF row2, n
    <2>4. list' = [at |-> n, status |-> "installing", row |-> row2]
      BY <2>1, <2>2
    <2>5. ASSUME machine.platform = "linux", machine.faults = 0 PROVE Settled(machine, row2, n)
      <3>1. Settled(machine, row, n)
        BY <1>1, <2>5 DEF ListInv, n, row
      <3> QED BY <2>2, <2>3, <3>1 DEF Settled, Rows
    <2> QED BY <1>1, <2>2, <2>3, <2>4, <2>5 DEF ListInv
  <1> QED BY <1>2, <1>3

\* An installer of the list ends.
LEMMA ListInstallKeeps ==
    ASSUME ListInv, ListInstall
    PROVE  ListInv'
  <1> DEFINE t == ToolSteps[list.at]
  <1>1. PICK o \in Outcomes : InstallEnds(t, o) /\ RowSettled(IF o = "fails" THEN "failed" ELSE "ok")
    BY DEF ListInstall
  <1>2. list.status = "installing" /\ Fields(machine) /\ machine.faults \in Nat /\ list.at \in Rows
    BY DEF ListInstall, ListInv
  <1>3. /\ Fields(machine') /\ Gains(machine, machine')
        /\ machine'.platform = machine.platform /\ machine'.faults \in Nat
    BY <1>1, <1>2, InstallFaults
  <1>4. ASSUME machine'.platform = "linux", machine'.faults = 0
        PROVE  Settled(machine', list.row, list.at) /\ o = "ok" /\ Has(machine', t)
    <2>1. machine.platform = "linux" /\ machine.faults = 0
      BY <1>1, <1>2, <1>3, <1>4, InstallFaults
    <2>2. Settled(machine, list.row, list.at)
      BY <1>2, <2>1 DEF ListInv
    <2>3. Settled(machine', list.row, list.at)
      BY <1>3, <2>2 DEF Settled, Has, Gains
    <2>4. \A i \in Rows : i < list.at => ToolSteps[i] \in machine.path
      BY <2>2 DEF Settled, Has
    <2>5. Installable(t) /\ Runs(t) \subseteq machine.path /\ Probes(t) \subseteq machine.path
      BY <1>2, <2>1, <2>4, StepOrder
    <2>6. o = "ok" /\ t \in machine'.path /\ (t = "ipfs" => machine'.ipfs = "current")
      BY <1>1, <1>2, <1>4, <2>5, InstallFaults
    <2> HIDE DEF t
    <2>7. Has(machine', t)
      BY <1>3, <2>5, <2>6 DEF Has, Gains
    <2> QED BY <2>3, <2>6, <2>7
  <1> DEFINE mark == IF o = "fails" THEN "failed" ELSE "ok"
  <1>5. RowSettled(mark) /\ (o = "ok" => mark = "ok")
    BY <1>1
  <1> HIDE DEF mark
  <1> QED BY <1>2, <1>3, <1>4, <1>5, SettledOn

\* Every step of the composition keeps ListInv.
LEMMA NextList == ListInv /\ [Next]_vars => ListInv'
  <1> SUFFICES ASSUME ListInv, [Next]_vars PROVE ListInv'
    OBVIOUS
  <1>1. CASE machine' = machine /\ list' = list
    BY <1>1 DEF ListInv
  <1>2. CASE UNCHANGED vars \/ (BrowserStep /\ UNCHANGED <<toolVars, kind, mod, dir>>)
    BY <1>1, <1>2 DEF vars, toolVars
  <1>3. CASE \/ Invoke \/ Connect \/ Gate \/ Choose \/ Browsed \/ ProbeMetadata \/ Quests
             \/ ResolveTarget \/ FetchMetadata \/ StartDownload \/ Extract \/ FinishSource
             \/ SetupSh \/ UserWrites \/ UserClears
    BY <1>1, <1>3 DEF Invoke, Connect, Gate, Choose, Browsed, ProbeMetadata, Quests, ResolveTarget,
       FetchMetadata, StartDownload, Extract, FinishSource, SetupSh, UserWrites, UserClears,
       Still, toolVars
  <1>4. CASE PlanPackageManager \/ ConfirmInstall \/ Installed \/ Interrupt
    BY <1>1, <1>4 DEF PlanPackageManager, ConfirmInstall, StartInstall, Installed, Interrupt, toolVars
  <1>5. ASSUME NEW b \in Builds,
               Check(b) \/ Confirm(b) \/ InstallOnce(b) \/ Verify(b) \/ StartBuild(b) \/ RunCommand(b)
        PROVE  ListInv'
    BY <1>1, <1>5 DEF Check, Confirm, InstallOnce, Verify, StartBuild, RunCommand
  <1>6. ASSUME NEW t \in Tools, InstallerEnds(t) PROVE ListInv'
    <2>1. PICK o \in Outcomes : InstallEnds(t, o)
      BY <1>6 DEF InstallerEnds
    <2>2. Fields(machine) /\ machine.faults \in Nat /\ list' = list
      BY <1>6 DEF ListInv, InstallerEnds
    <2> QED BY <2>1, <2>2, InstallFaults, ListGains
  <1>7. CASE ListStart
    <2> DEFINE row == [i \in Rows |-> "pending"]
               row2 == [row EXCEPT ![1] = "checking"]
    <2>1. NoList = [at |-> 0, status |-> "off", row |-> row]
      BY StepNames DEF NoList, Rows
    <2>2. list' = [NoList EXCEPT !.at = 1, !.status = "checking", !.row[1] = "checking"]
      BY <1>7 DEF ListStart
    <2>3. row2 = [i \in Rows |-> row2[i]]
      OBVIOUS
    <2>4. NoList.row = row
      BY <2>1
    <2> HIDE DEF row
    <2>5. list' = [at |-> 1, status |-> "checking", row |-> row2]
      BY <2>1, <2>2, <2>4
    <2> HIDE DEF row2
    <2>6. Settled(machine, row2, 1) /\ 1 \in Rows /\ machine' = machine
      BY <1>7 DEF Settled, Rows, ListLast, ListStart
    <2> QED BY <2>3, <2>5, <2>6 DEF ListInv
  <1> QED BY <1>2, <1>3, <1>4, <1>5, <1>6, <1>7, ListCheckKeeps, ListInstallKeeps
          DEF Next, ModStep, EnsureStep, ListStep, BuildStep

\* One pass of the dependency list makes any Linux machine ready on which no
\* installer goes wrong by itself: TOOL_STEPS installs nothing before what its
\* installer and its check run.
THEOREM OnePassIsEnough == Spec => []CleanMachineReady
  <1>1. ModInit => ListInv
    <2> SUFFICES ASSUME ModInit PROVE ListInv
      OBVIOUS
    <2>1. machine \in MachineSet /\ list = NoList
      BY ModAssumption DEF ModInit
    <2>2. Fields(machine) /\ machine.faults \in Nat
      BY <2>1 DEF MachineSet, Fields
    <2>3. list = [at |-> 0, status |-> "off", row |-> [i \in Rows |-> "pending"]]
      BY <2>1, StepNames DEF NoList, Rows
    <2> QED BY <2>2, <2>3 DEF ListInv
  <1>2. ListInv => CleanMachineReady
    <2> SUFFICES ASSUME ListInv, list.status = "complete", machine.platform = "linux",
                        machine.faults = 0, NEW i \in 1 .. Len(ToolSteps)
                 PROVE  list.row[i] = "ok" /\ Present(ToolSteps[i])
      BY DEF CleanMachineReady
    <2>1. Settled(machine, list.row, ListLast + 1) /\ i \in Rows /\ i < ListLast + 1
      BY StepNames DEF ListInv, Rows, ListLast
    <2>2. list.row[i] = "ok" /\ Has(machine, ToolSteps[i])
      BY <2>1 DEF Settled
    <2> QED BY <2>2, PresentHas
  <1> QED BY <1>1, <1>2, NextList, PTL DEF Spec

-----------------------------------------------------------------------------
(* The picker.                                                             *)

\* Induction, as the provers can use it: a set of naturals has a least one.
LEMMA LeastNatural ==
    ASSUME NEW T \in SUBSET Nat, T # {}
    PROVE  \E x \in T : \A y \in T : x <= y
  <1> DEFINE R == {ss \in Nat \X Nat : ss[1] < ss[2]}
  <1>1. OpToRel(<, Nat) = R
    BY Zenon DEF OpToRel
  <1>2. IsWellFoundedOn(R, Nat)
    BY <1>1, NatLessThanWellFounded, Zenon
  <1> HIDE DEF R
  <1>3. PICK x \in T : \A y \in T : ~ (<<y, x>> \in R)
    BY <1>2, WFMin
  <1>4. ASSUME NEW y \in T PROVE x <= y
    <2>1. <<y, x>> \in Nat \X Nat /\ x \in Nat /\ y \in Nat
      OBVIOUS
    <2>2. y < x => <<y, x>> \in R
      BY <2>1, Zenon DEF R
    <2> QED BY <1>3, <2>1, <2>2
  <1> QED BY <1>4

\* A set of indices has an increasing enumeration, by induction on its bound.
LEMMA InOrderExists ==
    ASSUME NEW n \in Nat, NEW kept \in SUBSET (1 .. n)
    PROVE  InOrder(kept) # {}
  <1> DEFINE bad == {m \in Nat : \E s \in SUBSET (1 .. m) : InOrder(s) = {}}
  <1> SUFFICES ASSUME n \in bad PROVE FALSE
    OBVIOUS
  <1>1. PICK m \in bad : \A k \in bad : m <= k
    <2>1. bad \in SUBSET Nat /\ bad # {}
      OBVIOUS
    <2> HIDE DEF bad
    <2> QED BY <2>1, LeastNatural
  <1>2. PICK s \in SUBSET (1 .. m) : InOrder(s) = {}
    BY <1>1
  <1>3. m \in Nat /\ IsFiniteSet(s)
    <2>1. m \in Nat
      BY <1>1
    <2>2. IsFiniteSet(1 .. m)
      BY <2>1, FS_Interval
    <2> QED BY <2>1, <2>2, FS_Subset
  <1>4. CASE m = 0
    <2>1. s = {}
      BY <1>2, <1>4
    <2>2. Cardinality(s) = 0
      BY <2>1, FS_EmptySet
    <2> DEFINE f == [i \in 1 .. 0 |-> i]
    <2>3. f \in [1 .. Cardinality(s) -> s] /\ DOMAIN f = {}
      BY <2>2
    <2>4. f \in InOrder(s)
      BY <2>1, <2>3 DEF InOrder
    <2> QED BY <1>2, <2>4
  <1>5. CASE m # 0
    <2> DEFINE p == m - 1
               r == s \ {m}
    <2>1. p \in Nat /\ p < m /\ r \in SUBSET (1 .. p)
      BY <1>2, <1>3, <1>5
    <2>2. ~(m <= p)
      BY <1>3, <2>1
    <2>3. p \notin bad
      BY <1>1, <2>2
    <2>4. InOrder(r) # {}
      BY <2>1, <2>3
    <2>5. CASE m \notin s
      <3>1. r = s
        BY <2>5
      <3> QED BY <1>2, <2>4, <3>1
    <2>6. CASE m \in s
      <3> DEFINE c == Cardinality(s)
                 b == Cardinality(r)
      <3>1. IsFiniteSet(r) /\ b = c - 1
        BY <1>3, <2>6, FS_RemoveElement
      <3>2. b \in Nat /\ c \in Nat
        BY <1>3, <3>1, FS_CardinalityType
      <3>3. PICK g \in [1 .. b -> r] :
              /\ \A k \in r : \E i \in 1 .. b : g[i] = k
              /\ \A i, j \in 1 .. b : i < j => g[i] < g[j]
        BY <2>4 DEF InOrder
      <3> DEFINE f == [i \in 1 .. c |-> IF i = c THEN m ELSE g[i]]
      <3> HIDE DEF c, b
      <3>4. ASSUME NEW i \in 1 .. c, i # c PROVE i \in 1 .. b /\ g[i] \in r
        BY <3>1, <3>2, <3>3, <3>4
      <3>5. f \in [1 .. c -> s]
        BY <2>6, <3>4
      <3>6. \A k \in s : \E i \in 1 .. c : f[i] = k
        <4>1. c \in 1 .. c /\ f[c] = m
          BY <3>1, <3>2
        <4>2. ASSUME NEW k \in r PROVE \E i \in 1 .. c : f[i] = k
          <5>1. PICK i \in 1 .. b : g[i] = k
            BY <3>3, <4>2
          <5>2. i \in 1 .. c /\ i # c
            BY <3>1, <3>2
          <5> QED BY <5>1, <5>2
        <4> QED BY <4>1, <4>2
      <3>7. ASSUME NEW i \in 1 .. c, NEW j \in 1 .. c, i < j PROVE f[i] < f[j]
        <4>1. i # c /\ i \in 1 .. b /\ f[i] = g[i]
          BY <3>1, <3>2, <3>7
        <4>2. CASE j = c
          <5>1. f[j] = m /\ g[i] \in 1 .. p
            BY <2>1, <3>3, <4>1, <4>2
          <5> QED BY <1>3, <2>1, <4>1, <5>1
        <4>3. CASE j # c
          <5>1. j \in 1 .. b /\ f[j] = g[j]
            BY <3>4, <4>3
          <5> QED BY <3>3, <3>7, <4>1, <5>1
        <4> QED BY <4>2, <4>3
      <3>8. f \in InOrder(s)
        <4>1. DOMAIN f = 1 .. c
          OBVIOUS
        <4> HIDE DEF f
        <4> QED BY <3>5, <3>6, <3>7, <4>1 DEF InOrder, c
      <3> QED BY <1>2, <3>8
    <2> QED BY <2>5, <2>6
  <1> QED BY <1>4, <1>5

\* filter always has a result: stated as a relation, it takes no step away from
\* the picker or the session manager.
THEOREM FilterIsTotal ==
    ASSUME NEW S, NEW l \in Seq(S), NEW kept \in SUBSET (1 .. Len(l))
    PROVE  Filtered(l, kept) # {}
  <1>1. Len(l) \in Nat
    OBVIOUS
  <1>2. PICK f : f \in InOrder(kept)
    BY <1>1, InOrderExists
  <1>3. [i \in DOMAIN f |-> l[f[i]]] \in Filtered(l, kept)
    BY <1>2, Zenon DEF Filtered
  <1> QED BY <1>3

\* filter keeps the entries at the indices it is given, and no others.
LEMMA FilteredFacts ==
    ASSUME NEW S, NEW l \in Seq(S), NEW kept \in SUBSET (1 .. Len(l)),
           NEW e \in Filtered(l, kept)
    PROVE  /\ e \in Seq(S) /\ Len(e) = Cardinality(kept)
           /\ \A i \in 1 .. Len(e) : \E k \in kept : e[i] = l[k]
           /\ \A k \in kept : \E i \in 1 .. Len(e) : e[i] = l[k]
  <1> DEFINE c == Cardinality(kept)
  <1>1. c \in Nat
    <2>1. IsFiniteSet(1 .. Len(l))
      BY FS_Interval
    <2>2. IsFiniteSet(kept)
      BY <2>1, FS_Subset
    <2> QED BY <2>2, FS_CardinalityType
  <1>2. PICK f \in InOrder(kept) : e = [i \in DOMAIN f |-> l[f[i]]]
    BY DEF Filtered
  <1>3. f \in [1 .. c -> kept] /\ \A k \in kept : \E i \in 1 .. c : f[i] = k
    BY <1>2 DEF InOrder
  <1> HIDE DEF c
  <1>4. e = [i \in 1 .. c |-> l[f[i]]]
    BY <1>2, <1>3
  <1>5. e \in [1 .. c -> S]
    <2>1. ASSUME NEW i \in 1 .. c PROVE l[f[i]] \in S
      <3>1. f[i] \in 1 .. Len(l)
        BY <1>3
      <3> QED BY <3>1
    <2> QED BY <1>4, <2>1
  <1>6. e \in Seq(S) /\ Len(e) = c
    BY <1>1, <1>4, <1>5
  <1>7. \A i \in 1 .. Len(e) : \E k \in kept : e[i] = l[k]
    BY <1>3, <1>4, <1>6
  <1>8. \A k \in kept : \E i \in 1 .. Len(e) : e[i] = l[k]
    BY <1>3, <1>4, <1>6
  <1> QED BY <1>6, <1>7, <1>8 DEF c

\* The slots a page starts from, newest first, and how many it walks: at least
\* one if there is one.
LEMMA WalkFacts ==
    ASSUME NEW slots \in Seq(AppSet), NEW next \in 0 .. Len(slots),
           NEW page \in Walked(slots, next)
    PROVE  \E rest \in Seq(AppSet), n \in 0 .. Len(slots) - next :
             /\ Len(rest) = Len(slots) - next
             /\ \A k \in 1 .. Len(rest) : rest[k] = slots[Len(slots) - next - k + 1]
             /\ n = 0 => Len(rest) = 0
             /\ page.scanned = n /\ page.entries \in Filtered(rest, Visible(rest, n))
  <1> DEFINE N == Len(slots)
             rest == SubSeq(Newest(slots), next + 1, N)
             n == Scanned(rest)
  <1>1. N \in Nat /\ next \in Nat /\ next <= N
    OBVIOUS
  <1>2. Newest(slots) = [i \in 1 .. N |-> slots[(N - i) + 1]]
    BY DEF Newest, Reverse
  <1>3. \A i \in 1 .. N : slots[(N - i) + 1] \in AppSet
    BY <1>1
  <1>4. Newest(slots) \in Seq(AppSet) /\ Len(Newest(slots)) = N
    <2> HIDE DEF N
    <2>1. Newest(slots) \in [1 .. N -> AppSet]
      BY <1>2, <1>3
    <2> QED BY <1>1, <1>2, <2>1
  <1>5. rest \in Seq(AppSet) /\ Len(rest) = N - next
    BY <1>1, <1>4
  <1>6. ASSUME NEW k \in 1 .. Len(rest) PROVE rest[k] = slots[N - next - k + 1]
    <2>1. rest[k] = Newest(slots)[next + 1 + k - 1]
      BY <1>1, <1>4, <1>5
    <2>2. next + 1 + k - 1 \in 1 .. N /\ (N - (next + 1 + k - 1)) + 1 = N - next - k + 1
      BY <1>1, <1>5
    <2> QED BY <1>2, <2>1, <2>2
  <1>7. page \in {[entries |-> e, scanned |-> n] : e \in Filtered(rest, Visible(rest, n))}
    BY DEF Walked
  <1>8. page.scanned = n /\ page.entries \in Filtered(rest, Visible(rest, n))
    BY <1>7
  <1> HIDE DEF rest
  <1>9. n \in 0 .. Len(rest) /\ (n = 0 => Len(rest) = 0)
    <2> DEFINE full == {m \in 0 .. Len(rest) : Cardinality(Visible(rest, m)) = Batch}
    <2>1. n = IF full = {} THEN Len(rest) ELSE CHOOSE k \in full : \A m \in full : k <= m
      BY DEF Scanned
    <2>2. 0 \notin full
      <3>1. Visible(rest, 0) = {}
        BY DEF Visible
      <3>2. Cardinality(Visible(rest, 0)) = 0
        BY <3>1, FS_EmptySet
      <3> QED BY <3>2, BrowserAssumption
    <2>3. full \in SUBSET Nat /\ full \in SUBSET (0 .. Len(rest))
      OBVIOUS
    <2> HIDE DEF full, n
    <2>4. CASE full = {}
      BY <1>1, <1>5, <2>1, <2>4
    <2>5. CASE full # {}
      <3>1. \E k \in full : \A m \in full : k <= m
        BY <2>3, <2>5, LeastNatural
      <3>2. n \in full
        BY <2>1, <2>5, <3>1
      <3> QED BY <2>2, <2>3, <3>2
    <2> QED BY <2>4, <2>5
  <1> HIDE DEF n, N
  <1>10. n \in 0 .. N - next
    BY <1>5, <1>9
  <1> QED BY <1>5, <1>6, <1>8, <1>9, <1>10 DEF N

Ids(apps) == {apps[k].id : k \in 1 .. Len(apps)}

\* Apps published while the picker is open move every reverse offset: a page
\* may start inside what an earlier one has read, by as many slots as were
\* published between the two.  lag of them have been read again; nothing below
\* the lowest slot read is in the picker yet.
Lagging(slots, next, apps, lag) ==
    /\ next <= Len(Catalogue) + lag
    /\ \A k \in 1 .. Len(apps) : \E i \in 1 .. Len(slots) :
         i > Len(Catalogue) + lag - next /\ apps[k] = slots[i]
    /\ Len(apps) - Cardinality(Ids(apps)) <= lag

\* The slots are what has been published so far; everything from the offset up
\* is in the picker.
ReadOk(slots, late, next, apps, done) ==
    /\ slots \in Seq(AppSet) /\ apps \in Seq(AppSet) /\ next \in Nat /\ late \in 0 .. Len(Late)
    /\ Len(slots) = Len(Catalogue) + late
    /\ \A i \in 1 .. Len(slots) : slots[i] = Published[i]
    /\ \E lag \in 0 .. late : Lagging(slots, next, apps, lag)
    /\ \A i \in 1 .. Len(Catalogue) :
         i > Len(slots) - next \/ done => Catalogue[i].hidden \/ Catalogue[i].id \in Ids(apps)

\* What has been published, by slot.
LEMMA PublishedFacts ==
    /\ Published \in Seq(AppSet) /\ Len(Published) = Len(Catalogue) + Len(Late)
    /\ Len(Catalogue) \in Nat /\ Len(Late) \in Nat
    /\ \A i \in 1 .. Len(Catalogue) : Published[i] = Catalogue[i]
    /\ \A i \in 1 .. Len(Late) : Published[Len(Catalogue) + i] = Late[i]
    /\ \A i, j \in 1 .. Len(Published) : Published[i].id = Published[j].id => i = j
  <1>1. /\ Catalogue \in Seq(AppSet) /\ Late \in Seq(AppSet)
        /\ \A i, j \in 1 .. Len(Published) : Published[i].id = Published[j].id => i = j
    BY BrowserAssumption
  <1>2. Published = Catalogue \o Late
    BY DEF Published
  <1> QED BY <1>1, <1>2

\* The apps of a sequence are finitely many.
LEMMA IdsFinite ==
    ASSUME NEW apps \in Seq(AppSet)
    PROVE  IsFiniteSet(Ids(apps)) /\ Cardinality(Ids(apps)) \in Nat
  <1> DEFINE D == 1 .. Len(apps)
             f == [k \in D |-> apps[k].id]
  <1>1. IsFiniteSet(D)
    BY FS_Interval
  <1>2. f \in Surjection(D, Ids(apps))
    BY DEF Surjection, Ids
  <1> HIDE DEF f, D
  <1>3. IsFiniteSet(Ids(apps))
    BY <1>1, <1>2, FS_Surjection
  <1> QED BY <1>3, FS_CardinalityType

\* The apps of two sequences, one after the other.
LEMMA IdsConcat ==
    ASSUME NEW apps \in Seq(AppSet), NEW e \in Seq(AppSet)
    PROVE  /\ apps \o e \in Seq(AppSet) /\ Len(apps \o e) = Len(apps) + Len(e)
           /\ Ids(apps \o e) = Ids(apps) \cup Ids(e)
  <1> DEFINE b == apps \o e
  <1>1. /\ b \in Seq(AppSet) /\ Len(b) = Len(apps) + Len(e)
        /\ \A k \in 1 .. Len(apps) : b[k] = apps[k]
        /\ \A k \in 1 .. Len(e) : b[Len(apps) + k] = e[k]
        /\ \A k \in 1 .. Len(b) : b[k] = IF k <= Len(apps) THEN apps[k] ELSE e[k - Len(apps)]
        /\ Len(apps) \in Nat /\ Len(e) \in Nat
    OBVIOUS
  <1> HIDE DEF b
  <1>2. ASSUME NEW x \in Ids(b) PROVE x \in Ids(apps) \cup Ids(e)
    <2>1. PICK k \in 1 .. Len(b) : x = b[k].id
      BY DEF Ids
    <2>2. CASE k <= Len(apps)
      BY <1>1, <2>1, <2>2 DEF Ids
    <2>3. CASE ~(k <= Len(apps))
      <3>1. k - Len(apps) \in 1 .. Len(e) /\ x = e[k - Len(apps)].id
        BY <1>1, <2>1, <2>3
      <3> QED BY <3>1 DEF Ids
    <2> QED BY <2>2, <2>3
  <1>3. ASSUME NEW x \in Ids(apps) PROVE x \in Ids(b)
    <2>1. PICK k \in 1 .. Len(apps) : x = apps[k].id
      BY DEF Ids
    <2>2. k \in 1 .. Len(b) /\ x = b[k].id
      BY <1>1, <2>1
    <2> QED BY <2>2 DEF Ids
  <1>4. ASSUME NEW x \in Ids(e) PROVE x \in Ids(b)
    <2>1. PICK k \in 1 .. Len(e) : x = e[k].id
      BY DEF Ids
    <2>2. Len(apps) + k \in 1 .. Len(b) /\ x = b[Len(apps) + k].id
      BY <1>1, <2>1
    <2> QED BY <2>2 DEF Ids
  <1>5. Ids(b) = Ids(apps) \cup Ids(e)
    BY <1>2, <1>3, <1>4
  <1> QED BY <1>1, <1>5 DEF b

\* Entries that come from different slots, and none of them from what is
\* already there, are that many new apps.
LEMMA NewApps ==
    ASSUME NEW apps \in Seq(AppSet), NEW rest \in Seq(AppSet), NEW e \in Seq(AppSet),
           NEW kept \in SUBSET (1 .. Len(rest)), NEW over \in 0 .. Len(rest),
           Len(e) = Cardinality(kept),
           \A k \in kept : \E i \in 1 .. Len(e) : e[i] = rest[k],
           \A j, k \in kept : rest[j].id = rest[k].id => j = k,
           \A k \in kept : k > over => rest[k].id \notin Ids(apps)
    PROVE  Len(apps) + Len(e) - Cardinality(Ids(apps) \cup Ids(e))
             <= Len(apps) - Cardinality(Ids(apps)) + over
  <1> DEFINE old == {k \in kept : k <= over}
             fresh == {k \in kept : k > over}
             names == {rest[k].id : k \in fresh}
  <1>0. Len(rest) \in Int /\ over \in Nat /\ over \in Int /\ \A k \in kept : k \in Nat
    OBVIOUS
  <1>1. IsFiniteSet(1 .. Len(rest)) /\ IsFiniteSet(1 .. over) /\ Cardinality(1 .. over) = over
    <2>1. IsFiniteSet(1 .. Len(rest)) /\ IsFiniteSet(1 .. over)
      BY <1>0, FS_Interval
    <2>2. Cardinality(1 .. over) = IF 1 > over THEN 0 ELSE over - 1 + 1
      BY <1>0, FS_Interval
    <2> QED BY <1>0, <2>1, <2>2
  <1>2. IsFiniteSet(kept)
    BY <1>1, FS_Subset
  <1>3. IsFiniteSet(old) /\ IsFiniteSet(fresh) /\ old \cup fresh = kept /\ old \cap fresh = {}
    <2>1. \A k \in kept : k <= over <=> ~(k > over)
      BY <1>0
    <2>2. old \in SUBSET kept /\ fresh \in SUBSET kept /\ old \cup fresh = kept /\ old \cap fresh = {}
      BY <2>1, Zenon
    <2> QED BY <1>2, <2>2, FS_Subset
  <1>4. Cardinality(old) <= over
    <2>0. ASSUME NEW k \in kept, k <= over PROVE k \in 1 .. over
      <3>1. k \in 1 .. Len(rest)
        OBVIOUS
      <3> QED BY <1>0, <2>0, <3>1
    <2>1. old \in SUBSET (1 .. over)
      BY <2>0, Zenon
    <2> HIDE DEF old
    <2> QED BY <1>1, <2>1, FS_Subset
  <1>5. Cardinality(old) \in Nat /\ Cardinality(fresh) \in Nat
    BY <1>3, FS_CardinalityType
  <1>6. Cardinality(kept) = Cardinality(old) + Cardinality(fresh)
    <2> HIDE DEF old, fresh
    <2>1. Cardinality(old \cup fresh) = Cardinality(old) + Cardinality(fresh) - Cardinality({})
      BY <1>3, FS_Union
    <2>2. Cardinality({}) = 0
      BY FS_EmptySet
    <2>3. Cardinality(kept) = Cardinality(old \cup fresh)
      BY <1>3
    <2> QED BY <1>5, <2>1, <2>2, <2>3
  <1>7. IsFiniteSet(names) /\ Cardinality(names) = Cardinality(fresh)
    <2> DEFINE f == [k \in fresh |-> rest[k].id]
    <2>0. f \in [fresh -> names]
      OBVIOUS
    <2>1. f \in Surjection(fresh, names)
      BY <2>0, Zenon DEF Surjection
    <2>2. ASSUME NEW j \in fresh, NEW k \in fresh, f[j] = f[k] PROVE j = k
      BY <2>2
    <2>3. f \in Injection(fresh, names)
      BY <2>0, <2>2, Zenon DEF Injection, IsInjective
    <2> HIDE DEF f, names, fresh
    <2> QED BY <1>3, <2>1, <2>3, FS_Surjection
  <1>8. names \cap Ids(apps) = {} /\ names \subseteq Ids(e)
    <2>1. ASSUME NEW x \in names PROVE x \notin Ids(apps) /\ x \in Ids(e)
      <3>1. PICK k \in kept : k > over /\ x = rest[k].id
        OBVIOUS
      <3>2. PICK i \in 1 .. Len(e) : e[i] = rest[k]
        BY <3>1
      <3>3. x \in Ids(e)
        BY <3>1, <3>2, Zenon DEF Ids
      <3> QED BY <3>1, <3>3
    <2> HIDE DEF names
    <2> QED BY <2>1
  <1>9. IsFiniteSet(Ids(apps)) /\ Cardinality(Ids(apps)) \in Nat /\ IsFiniteSet(Ids(e))
    BY IdsFinite
  <1> HIDE DEF old, fresh, names
  <1>10. /\ IsFiniteSet(Ids(apps) \cup names)
         /\ Cardinality(Ids(apps) \cup names) = Cardinality(Ids(apps)) + Cardinality(names)
    <2>1. Ids(apps) \cap names = {}
      BY <1>8
    <2>2. Cardinality({}) = 0
      BY FS_EmptySet
    <2>3. Cardinality(Ids(apps) \cup names)
            = Cardinality(Ids(apps)) + Cardinality(names) - Cardinality(Ids(apps) \cap names)
      BY <1>7, <1>9, FS_Union
    <2>4. IsFiniteSet(Ids(apps) \cup names)
      BY <1>7, <1>9, FS_Union
    <2>5. Cardinality(Ids(apps) \cap names) = 0
      BY <2>1, <2>2
    <2> QED BY <1>5, <1>7, <1>9, <2>3, <2>4, <2>5
  <1>11. /\ Cardinality(Ids(apps) \cup names) <= Cardinality(Ids(apps) \cup Ids(e))
         /\ Cardinality(Ids(apps) \cup Ids(e)) \in Nat
    <2>1. IsFiniteSet(Ids(apps) \cup Ids(e)) /\ Ids(apps) \cup names \in SUBSET (Ids(apps) \cup Ids(e))
      BY <1>8, <1>9, FS_Union
    <2> QED BY <2>1, FS_Subset, FS_CardinalityType
  <1>12. Len(apps) \in Nat /\ over \in Nat
    OBVIOUS
  <1> QED BY <1>4, <1>5, <1>6, <1>7, <1>9, <1>10, <1>11, <1>12

\* One more page.
LEMMA PageKeeps ==
    ASSUME NEW slots, NEW late, NEW next, NEW apps, NEW done, ReadOk(slots, late, next, apps, done),
           NEW page \in Walked(slots, next), NEW done2,
           done2 => ~(page.scanned > 0) \/ ~(next + page.scanned < Len(slots))
    PROVE  /\ ReadOk(slots, late, next + page.scanned, apps \o page.entries, done2)
           /\ page.entries \in Seq(AppSet)
  <1> DEFINE C == Len(Catalogue)
             N == Len(slots)
  <1>1. /\ slots \in Seq(AppSet) /\ apps \in Seq(AppSet) /\ next \in Nat /\ late \in 0 .. Len(Late)
        /\ C \in Nat /\ N \in Nat /\ N = C + late /\ Len(apps) \in Nat
        /\ \A i \in 1 .. N : slots[i] = Published[i]
    BY PublishedFacts DEF ReadOk
  <1>2. PICK lag \in 0 .. late : Lagging(slots, next, apps, lag)
    BY DEF ReadOk
  <1>3. /\ next <= C + lag /\ next \in 0 .. N
        /\ \A k \in 1 .. Len(apps) : \E i \in 1 .. N : i > C + lag - next /\ apps[k] = slots[i]
        /\ Len(apps) - Cardinality(Ids(apps)) <= lag
    BY <1>1, <1>2 DEF Lagging
  <1>4. PICK rest \in Seq(AppSet), n \in 0 .. N - next :
          /\ Len(rest) = N - next
          /\ \A k \in 1 .. Len(rest) : rest[k] = slots[N - next - k + 1]
          /\ n = 0 => Len(rest) = 0
          /\ page.scanned = n /\ page.entries \in Filtered(rest, Visible(rest, n))
    <2>1. slots \in Seq(AppSet) /\ next \in 0 .. Len(slots)
      BY <1>1, <1>3
    <2>2. \E rest \in Seq(AppSet), n \in 0 .. Len(slots) - next :
            /\ Len(rest) = Len(slots) - next
            /\ \A k \in 1 .. Len(rest) : rest[k] = slots[Len(slots) - next - k + 1]
            /\ n = 0 => Len(rest) = 0
            /\ page.scanned = n /\ page.entries \in Filtered(rest, Visible(rest, n))
      BY <2>1, WalkFacts
    <2> QED BY <2>2
  <1> DEFINE e == page.entries
             kept == Visible(rest, n)
             over == IF n <= late - lag THEN n ELSE late - lag
             lag2 == lag + over
  <1>N. /\ C \in Nat /\ N \in Nat /\ next \in Nat /\ late \in Nat /\ lag \in Nat /\ n \in Nat
        /\ N = C + late /\ lag <= late /\ next <= C + lag /\ n <= N - next /\ Len(rest) = N - next
    BY <1>1, <1>3, <1>4
  <1>5. kept \in SUBSET (1 .. Len(rest)) /\ \A k \in kept : k <= n
    BY <1>1, <1>3, <1>4 DEF Visible
  <1>6. /\ e \in Seq(AppSet) /\ Len(e) = Cardinality(kept)
        /\ \A i \in 1 .. Len(e) : \E k \in kept : e[i] = rest[k]
        /\ \A k \in kept : \E i \in 1 .. Len(e) : e[i] = rest[k]
    <2>1. e \in Filtered(rest, kept)
      BY <1>4
    <2>2. rest \in Seq(AppSet) /\ kept \in SUBSET (1 .. Len(rest))
      BY <1>5
    <2> HIDE DEF kept, e
    <2> QED BY <2>1, <2>2, FilteredFacts
  <1> DEFINE apps2 == apps \o e
             next2 == next + n
  <1>7. /\ apps2 \in Seq(AppSet) /\ Len(apps2) = Len(apps) + Len(e)
        /\ Ids(apps2) = Ids(apps) \cup Ids(e)
    BY <1>1, <1>6, IdsConcat
  <1>8. ASSUME NEW i \in 1 .. N, NEW j \in 1 .. N, slots[i].id = slots[j].id PROVE i = j
    <2>1. /\ slots[i] = Published[i] /\ slots[j] = Published[j]
          /\ i \in 1 .. Len(Published) /\ j \in 1 .. Len(Published)
      BY <1>1, PublishedFacts
    <2> QED BY <1>8, <2>1, PublishedFacts
  <1>9. \A j, k \in kept : rest[j].id = rest[k].id => j = k
    <2> SUFFICES ASSUME NEW j \in kept, NEW k \in kept, rest[j].id = rest[k].id PROVE j = k
      OBVIOUS
    <2> HIDE DEF kept
    <2>0. j \in 1 .. Len(rest) /\ k \in 1 .. Len(rest)
      BY <1>5
    <2>1. N - next - j + 1 \in 1 .. N /\ N - next - k + 1 \in 1 .. N /\ j \in Nat /\ k \in Nat
      <3> HIDE DEF N, C
      <3> QED BY <1>N, <2>0
    <2>2. rest[j] = slots[N - next - j + 1] /\ rest[k] = slots[N - next - k + 1]
      BY <1>4, <1>5
    <2>3. N - next - j + 1 = N - next - k + 1
      BY <1>8, <2>1, <2>2
    <2> QED BY <1>1, <2>1, <2>3
  <1>10. over \in 0 .. Len(rest) /\ over \in Nat /\ lag2 \in 0 .. late
    BY <1>1, <1>3, <1>4
  <1>11. \A k \in kept : k > over => rest[k].id \notin Ids(apps)
    <2> SUFFICES ASSUME NEW k \in kept, k > over, rest[k].id \in Ids(apps) PROVE FALSE
      OBVIOUS
    <2>1. PICK h \in 1 .. Len(apps) : rest[k].id = apps[h].id
      BY DEF Ids
    <2>2. PICK i \in 1 .. N : i > C + lag - next /\ apps[h] = slots[i]
      BY <1>3
    <2>3. k > late - lag /\ k \in 1 .. Len(rest)
      <3>1. k \in 1 .. Len(rest) /\ k <= n
        BY <1>5
      <3> QED BY <1>1, <1>4, <3>1
    <2> HIDE DEF kept, over, lag2
    <2>4. N - next - k + 1 \in 1 .. N /\ N - next - k + 1 <= C + lag - next
      <3> HIDE DEF N, C
      <3> QED BY <1>N, <2>3
    <2>5. slots[N - next - k + 1].id = slots[i].id
      BY <1>4, <2>1, <2>2, <2>3
    <2>6. N - next - k + 1 = i
      BY <1>8, <2>4, <2>5
    <2> QED BY <1>1, <1>3, <2>2, <2>3, <2>4, <2>6
  <1>12. Len(apps2) - Cardinality(Ids(apps2)) <= lag2
    <2> HIDE DEF over, kept, e, apps2
    <2>1. Len(apps) + Len(e) - Cardinality(Ids(apps) \cup Ids(e))
            <= Len(apps) - Cardinality(Ids(apps)) + over
      BY <1>1, <1>4, <1>5, <1>6, <1>9, <1>10, <1>11, NewApps
    <2>2. Cardinality(Ids(apps)) \in Nat /\ Cardinality(Ids(apps2)) \in Nat
      BY <1>1, <1>7, IdsFinite
    <2>3. Len(e) \in Nat
      BY <1>6
    <2>4. Len(apps) \in Nat /\ Len(apps) - Cardinality(Ids(apps)) <= lag
      BY <1>1, <1>3
    <2>5. Len(apps2) = Len(apps) + Len(e)
      BY <1>7
    <2>6. Cardinality(Ids(apps2)) = Cardinality(Ids(apps) \cup Ids(e))
      BY <1>7
    <2> DEFINE a == Len(apps)
               b == Len(e)
               x == Cardinality(Ids(apps))
               y == Cardinality(Ids(apps) \cup Ids(e))
    <2>7. /\ a \in Nat /\ b \in Nat /\ x \in Nat /\ y \in Nat /\ lag \in Nat /\ over \in Nat
          /\ a + b - y <= a - x + over /\ a - x <= lag
      BY <1>N, <1>10, <2>1, <2>2, <2>3, <2>4, <2>6
    <2>8. Len(apps2) - Cardinality(Ids(apps2)) = a + b - y
      BY <2>5, <2>6, <2>7
    <2> HIDE DEF a, b, x, y
    <2>9. a + b - y <= lag + over
      BY <2>7
    <2> QED BY <2>8, <2>9
  <1>13. next2 <= C + lag2 /\ next2 \in Nat
    <2> HIDE DEF N, C
    <2> QED BY <1>N
  <1>14. ASSUME NEW k \in 1 .. Len(apps2)
         PROVE  \E i \in 1 .. N : i > C + lag2 - next2 /\ apps2[k] = slots[i]
    <2>1. CASE k <= Len(apps)
      <3>1. apps2[k] = apps[k] /\ k \in 1 .. Len(apps)
        BY <1>1, <1>6, <2>1
      <3>2. PICK i \in 1 .. N : i > C + lag - next /\ apps[k] = slots[i]
        BY <1>3, <3>1
      <3>3. C + lag2 - next2 <= C + lag - next
        <4> HIDE DEF N, C
        <4> QED BY <1>N
      <3> HIDE DEF lag2, next2, apps2, over
      <3>4. i > C + lag2 - next2
        BY <1>1, <1>3, <1>10, <1>13, <3>2, <3>3
      <3> QED BY <3>1, <3>2, <3>4
    <2>2. CASE ~(k <= Len(apps))
      <3>1. k - Len(apps) \in 1 .. Len(e) /\ apps2[k] = e[k - Len(apps)]
        BY <1>1, <1>6, <1>7, <2>2
      <3>2. PICK h \in kept : e[k - Len(apps)] = rest[h]
        BY <1>6, <3>1
      <3>3. h \in 1 .. Len(rest) /\ h <= n
        BY <1>5
      <3> HIDE DEF kept, apps2, e
      <3>4. /\ rest[h] = slots[N - next - h + 1] /\ N - next - h + 1 \in 1 .. N
            /\ N - next - h + 1 > C + lag2 - next2
        <4> HIDE DEF N, C
        <4>1. N - next - h + 1 \in 1 .. N /\ N - next - h + 1 > C + lag2 - next2
          BY <1>N, <3>3
        <4> QED BY <1>4, <3>3, <4>1
      <3> QED BY <3>1, <3>2, <3>4
    <2> QED BY <2>1, <2>2
  <1>15. ASSUME NEW i \in 1 .. C, i > N - next2 \/ done2
         PROVE  Catalogue[i].hidden \/ Catalogue[i].id \in Ids(apps2)
    <2>1. i > N - next2
      <3>1. CASE done2
        <4>1. n = 0 \/ ~(next + n < N)
          BY <1>1, <1>4, <3>1
        <4>2. next + n = N
          BY <1>1, <1>3, <1>4, <4>1
        <4> QED BY <1>1, <4>2
      <3> QED BY <1>15, <3>1
    <2>2. CASE i > N - next
      BY <1>7, <2>2 DEF ReadOk
    <2>3. CASE ~(i > N - next)
      <3> DEFINE k == N - next - i + 1
      <3>1. k \in 1 .. n /\ k \in 1 .. Len(rest) /\ N - next - k + 1 = i /\ i \in 1 .. N
        BY <1>1, <1>3, <1>4, <2>1, <2>3
      <3> HIDE DEF k
      <3>2. rest[k] = Catalogue[i]
        BY <1>1, <1>4, <3>1, PublishedFacts
      <3>3. rest[k].hidden \/ k \in kept
        BY <3>1 DEF Visible
      <3>4. k \in kept => rest[k].id \in Ids(e)
        BY <1>6 DEF Ids
      <3> QED BY <1>7, <3>2, <3>3, <3>4
    <2> QED BY <2>2, <2>3
  <1>16. Lagging(slots, next2, apps2, lag2)
    <2> HIDE DEF next2, apps2, lag2
    <2> QED BY <1>12, <1>13, <1>14 DEF Lagging
  <1>17. ReadOk(slots, late, next2, apps2, done2)
    <2> HIDE DEF next2, apps2, lag2
    <2> QED BY <1>1, <1>7, <1>10, <1>13, <1>15, <1>16 DEF ReadOk
  <1> QED BY <1>4, <1>6, <1>17

\* Another publisher.
LEMMA PublishKeeps ==
    ASSUME NEW slots, NEW late, NEW next, NEW apps, NEW done, ReadOk(slots, late, next, apps, done),
           late < Len(Late)
    PROVE  ReadOk(Append(slots, Late[late + 1]), late + 1, next, apps, done)
  <1> DEFINE slots2 == Append(slots, Late[late + 1])
             late2 == late + 1
  <1>1. /\ slots \in Seq(AppSet) /\ apps \in Seq(AppSet) /\ next \in Nat /\ late \in 0 .. Len(Late)
        /\ Len(Catalogue) \in Nat /\ Len(slots) = Len(Catalogue) + late
        /\ \A i \in 1 .. Len(slots) : slots[i] = Published[i]
    BY PublishedFacts DEF ReadOk
  <1>2. PICK lag \in 0 .. late : Lagging(slots, next, apps, lag)
    BY DEF ReadOk
  <1>3. late2 \in 1 .. Len(Late) /\ late2 \in 0 .. Len(Late) /\ Late[late2] \in AppSet
    BY <1>1, BrowserAssumption
  <1>4. /\ slots2 \in Seq(AppSet) /\ Len(slots2) = Len(slots) + 1
        /\ \A i \in 1 .. Len(slots) : slots2[i] = slots[i]
        /\ slots2[Len(slots) + 1] = Late[late2]
    BY <1>1, <1>3
  <1> HIDE DEF slots2
  <1>5. ASSUME NEW i \in 1 .. Len(slots2) PROVE slots2[i] = Published[i]
    <2>1. CASE i \in 1 .. Len(slots)
      BY <1>1, <1>4, <2>1
    <2>2. CASE i \notin 1 .. Len(slots)
      <3>1. i = Len(Catalogue) + late2
        <4>1. i \in 1 .. Len(slots) + 1 /\ Len(slots) \in Nat
          BY <1>1, <1>4
        <4>2. i = Len(slots) + 1
          BY <2>2, <4>1
        <4> QED BY <1>1, <4>2
      <3> QED BY <1>1, <1>3, <1>4, <3>1, PublishedFacts
    <2> QED BY <2>1, <2>2
  <1>6. Lagging(slots2, next, apps, lag) /\ lag \in 0 .. late2
    <2>1. 1 .. Len(slots) \subseteq 1 .. Len(slots2)
      BY <1>1, <1>4
    <2>2. ASSUME NEW k \in 1 .. Len(apps)
          PROVE  \E i \in 1 .. Len(slots2) : i > Len(Catalogue) + lag - next /\ apps[k] = slots2[i]
      <3>1. PICK i \in 1 .. Len(slots) :
               i > Len(Catalogue) + lag - next /\ apps[k] = slots[i]
        BY <1>2, <2>2 DEF Lagging
      <3>2. i \in 1 .. Len(slots2) /\ slots2[i] = slots[i]
        BY <1>4, <2>1, <3>1
      <3> QED BY <3>1, <3>2, Zenon
    <2>3. Len(apps) - Cardinality(Ids(apps)) <= lag
      BY <1>2 DEF Lagging
    <2>4. lag \in 0 .. late2
      BY <1>1, <1>2
    <2> QED BY <1>2, <2>2, <2>3, <2>4 DEF Lagging
  <1>7. \A i \in 1 .. Len(Catalogue) :
          i > Len(slots2) - next \/ done => Catalogue[i].hidden \/ Catalogue[i].id \in Ids(apps)
    <2>1. ASSUME NEW i \in 1 .. Len(Catalogue), i > Len(slots2) - next PROVE i > Len(slots) - next
      BY <1>1, <1>4, <2>1
    <2> QED BY <2>1 DEF ReadOk
  <1>8. Len(slots2) = Len(Catalogue) + late2
    BY <1>1, <1>4
  <1> HIDE DEF late2
  <1>9. ReadOk(slots2, late2, next, apps, done)
    BY <1>1, <1>3, <1>4, <1>5, <1>6, <1>7, <1>8 DEF ReadOk
  <1> QED BY <1>9 DEF slots2, late2

\* The fields of the picker, whatever is in them.
BrowserFields(s) ==
    s = [status |-> s.status, slots |-> s.slots, late |-> s.late, fetching |-> s.fetching,
         next |-> s.next, more |-> s.more, failed |-> s.failed, apps |-> s.apps, known |-> s.known,
         cursor |-> s.cursor, checking |-> s.checking, cancelled |-> s.cancelled,
         picked |-> s.picked]

\* The cursor is on an app that is listed, or at the top.
CursorOk(s) == s.cursor \in Nat /\ (s.cursor = 0 \/ s.cursor < Shown(s))

\* The picker only names apps that were published.
NamesOk(s) ==
    /\ s.checking \in AppIds \cup {0}
    /\ s.status = "picked" => s.picked \in AppIds

\* Reading, the cursor and the names, together.
BrowserInv ==
    /\ BrowserFields(browser)
    /\ ReadOk(browser.slots, browser.late, browser.next, browser.apps,
              ~browser.more /\ ~browser.failed)
    /\ CursorOk(browser) /\ NamesOk(browser)

\* The apps of the picker were published.
LEMMA AppsArePublished ==
    ASSUME NEW slots, NEW late, NEW next, NEW apps, NEW done, ReadOk(slots, late, next, apps, done)
    PROVE  \A k \in 1 .. Len(apps) : apps[k].id \in AppIds
  <1> SUFFICES ASSUME NEW k \in 1 .. Len(apps) PROVE apps[k].id \in AppIds
    OBVIOUS
  <1>1. PICK i \in 1 .. Len(slots) : apps[k] = slots[i]
    BY DEF ReadOk, Lagging
  <1>2. /\ late \in 0 .. Len(Late) /\ Len(slots) = Len(Catalogue) + late
        /\ slots[i] = Published[i]
    BY DEF ReadOk
  <1>3. Published[i] \in Apps
    <2>1. CASE i <= Len(Catalogue)
      BY <1>2, <2>1, PublishedFacts DEF Apps
    <2>2. CASE ~(i <= Len(Catalogue))
      <3> DEFINE j == i - Len(Catalogue)
      <3>1. j \in 1 .. Len(Late) /\ i = Len(Catalogue) + j
        BY <1>2, <2>2, PublishedFacts
      <3> HIDE DEF j
      <3> QED BY <3>1, PublishedFacts DEF Apps
    <2> QED BY <2>1, <2>2
  <1> QED BY <1>1, <1>2, <1>3 DEF AppIds

\* More apps and more metadata never take an app off the list.
LEMMA ListedGrows ==
    ASSUME NEW s, NEW t, CursorOk(s), s.apps \in Seq(AppSet), t.apps \in Seq(AppSet),
           Len(s.apps) <= Len(t.apps), \A k \in 1 .. Len(s.apps) : t.apps[k] = s.apps[k],
           s.known \subseteq t.known, t.cursor = s.cursor
    PROVE  CursorOk(t)
  <1>1. Listed(s) \in SUBSET Listed(t)
    BY DEF Listed
  <1>2. IsFiniteSet(1 .. Len(t.apps))
    BY FS_Interval
  <1>3. Listed(t) \in SUBSET (1 .. Len(t.apps))
    BY DEF Listed
  <1>4. IsFiniteSet(Listed(t))
    BY <1>2, <1>3, FS_Subset
  <1>5. /\ IsFiniteSet(Listed(s)) /\ Cardinality(Listed(s)) <= Cardinality(Listed(t))
    BY <1>1, <1>4, FS_Subset
  <1>6. Cardinality(Listed(s)) \in Nat /\ Cardinality(Listed(t)) \in Nat
    BY <1>4, <1>5, FS_CardinalityType
  <1> QED BY <1>5, <1>6 DEF CursorOk, Shown

\* A step that reads nothing.
LEMMA BrowserMoves ==
    ASSUME BrowserInv, BrowserFields(browser'),
           browser'.slots = browser.slots, browser'.late = browser.late,
           browser'.next = browser.next, browser'.apps = browser.apps,
           browser'.known = browser.known,
           ~browser'.more /\ ~browser'.failed => ~browser.more /\ ~browser.failed,
           browser'.cursor \in Nat, browser'.cursor = 0 \/ browser'.cursor < Shown(browser),
           NamesOk(browser')
    PROVE  BrowserInv'
  <1> DEFINE done == ~browser.more /\ ~browser.failed
             done2 == ~browser'.more /\ ~browser'.failed
  <1>1. ReadOk(browser.slots, browser.late, browser.next, browser.apps, done) /\ (done2 => done)
    BY DEF BrowserInv
  <1> HIDE DEF done, done2
  <1>2. ReadOk(browser.slots, browser.late, browser.next, browser.apps, done2)
    BY <1>1 DEF ReadOk
  <1>3. Shown(browser') = Shown(browser)
    BY DEF Shown, Listed
  <1>4. CursorOk(browser')
    BY <1>3 DEF CursorOk
  <1>5. ReadOk(browser'.slots, browser'.late, browser'.next, browser'.apps, done2)
    BY <1>2
  <1> QED BY <1>4, <1>5 DEF BrowserInv, done2

\* The picker before it is opened, and as it opens.
LEMMA NoBrowserOk ==
    ASSUME NEW s, s = NoBrowser \/ s = [NoBrowser EXCEPT !.status = "open", !.fetching = TRUE]
    PROVE  /\ BrowserFields(s) /\ CursorOk(s) /\ NamesOk(s)
           /\ ReadOk(s.slots, s.late, s.next, s.apps, ~s.more /\ ~s.failed)
  <1> DEFINE none == <<>>
  <1>1. /\ s.slots = Catalogue /\ s.late = 0 /\ s.next = 0 /\ s.more = TRUE /\ s.apps = none
        /\ s.cursor = 0 /\ s.checking = 0 /\ s.status # "picked" /\ BrowserFields(s)
    <2>1. CASE s = NoBrowser
      BY <2>1 DEF NoBrowser, BrowserFields
    <2>2. CASE s = [NoBrowser EXCEPT !.status = "open", !.fetching = TRUE]
      BY <2>2 DEF NoBrowser, BrowserFields
    <2> QED BY <2>1, <2>2
  <1>2. none \in Seq(AppSet) /\ Len(none) = 0
    OBVIOUS
  <1>3. Ids(none) = {}
    BY <1>2 DEF Ids
  <1>4. Cardinality(Ids(none)) = 0
    BY <1>3, FS_EmptySet
  <1> HIDE DEF none
  <1>5. Lagging(Catalogue, 0, none, 0)
    BY <1>2, <1>4, PublishedFacts DEF Lagging
  <1>6. ReadOk(Catalogue, 0, 0, none, FALSE)
    BY <1>2, <1>5, PublishedFacts, BrowserAssumption DEF ReadOk
  <1>7. ReadOk(s.slots, s.late, s.next, s.apps, ~s.more /\ ~s.failed)
    <2>1. (~s.more /\ ~s.failed) = FALSE
      BY <1>1
    <2> QED BY <1>1, <1>6, <2>1
  <1> QED BY <1>1, <1>7 DEF CursorOk, NamesOk

\* A page arrives, or the query fails.
LEMMA LoadBatchKeeps ==
    ASSUME BrowserInv, LoadBatch
    PROVE  BrowserInv'
  <1>1. CASE browser' = [browser EXCEPT !.more = FALSE, !.fetching = FALSE, !.failed = TRUE]
    <2>1. /\ BrowserFields(browser') /\ browser'.failed = TRUE
          /\ browser'.slots = browser.slots /\ browser'.late = browser.late
          /\ browser'.next = browser.next /\ browser'.apps = browser.apps
          /\ browser'.known = browser.known /\ browser'.cursor = browser.cursor
          /\ browser'.checking = browser.checking /\ browser'.status = browser.status
          /\ browser'.picked = browser.picked
      BY <1>1 DEF BrowserInv, BrowserFields
    <2>2. NamesOk(browser') /\ CursorOk(browser)
      BY <2>1 DEF BrowserInv, NamesOk
    <2> QED BY <2>1, <2>2, BrowserMoves DEF CursorOk
  <1>2. ASSUME NEW page \in Walked(browser.slots, browser.next), browser' = Page(page)
        PROVE  BrowserInv'
    <2> DEFINE apps2 == browser.apps \o page.entries
               next2 == browser.next + page.scanned
               more2 == page.scanned > 0 /\ next2 < Len(browser.slots)
               done == ~browser.more /\ ~browser.failed
               done2 == ~more2 /\ ~browser.failed
    <2>1. browser' = [browser EXCEPT !.apps = apps2, !.fetching = FALSE, !.more = more2, !.next = next2]
      BY <1>2 DEF Page
    <2>2. ReadOk(browser.slots, browser.late, browser.next, browser.apps, done)
      BY DEF BrowserInv
    <2>3. done2 => ~(page.scanned > 0) \/ ~(browser.next + page.scanned < Len(browser.slots))
      OBVIOUS
    <2> HIDE DEF done, done2
    <2>4. ReadOk(browser.slots, browser.late, next2, apps2, done2) /\ page.entries \in Seq(AppSet)
      BY <1>2, <2>2, <2>3, PageKeeps
    <2>5. /\ browser.apps \in Seq(AppSet) /\ apps2 \in Seq(AppSet) /\ Len(browser.apps) <= Len(apps2)
          /\ \A k \in 1 .. Len(browser.apps) : apps2[k] = browser.apps[k]
      <3> DEFINE a == browser.apps
                 e == page.entries
      <3>1. a \in Seq(AppSet) /\ e \in Seq(AppSet)
        BY <2>2, <2>4 DEF ReadOk
      <3> HIDE DEF a, e
      <3>2. /\ a \o e \in Seq(AppSet) /\ Len(a) <= Len(a \o e)
            /\ \A k \in 1 .. Len(a) : (a \o e)[k] = a[k]
        BY <3>1
      <3> QED BY <3>1, <3>2 DEF a, e
    <2> HIDE DEF apps2, next2, more2
    <2>6. /\ BrowserFields(browser')
          /\ browser'.slots = browser.slots /\ browser'.late = browser.late
          /\ browser'.next = next2 /\ browser'.apps = apps2 /\ browser'.more = more2
          /\ browser'.known = browser.known /\ browser'.cursor = browser.cursor
          /\ browser'.checking = browser.checking /\ browser'.status = browser.status
          /\ browser'.picked = browser.picked /\ browser'.failed = browser.failed
      BY <2>1 DEF BrowserInv, BrowserFields
    <2>7. CursorOk(browser')
      BY <2>5, <2>6, ListedGrows DEF BrowserInv
    <2>8. NamesOk(browser')
      BY <2>6 DEF BrowserInv, NamesOk
    <2>9. ReadOk(browser'.slots, browser'.late, browser'.next, browser'.apps,
                 ~browser'.more /\ ~browser'.failed)
      BY <2>4, <2>6 DEF done2
    <2> QED BY <2>6, <2>7, <2>8, <2>9 DEF BrowserInv
  <1> QED BY <1>1, <1>2 DEF LoadBatch, B

\* Metadata arrives.
LEMMA MetadataKeeps ==
    ASSUME BrowserInv, NEW id, Metadata(id)
    PROVE  BrowserInv'
  <1>1. browser' = [browser EXCEPT !.known = browser.known \cup {id}]
    BY DEF Metadata, B
  <1>2. /\ BrowserFields(browser') /\ browser'.failed = browser.failed /\ browser'.more = browser.more
        /\ browser'.slots = browser.slots /\ browser'.late = browser.late
        /\ browser'.next = browser.next /\ browser'.apps = browser.apps
        /\ browser'.known = browser.known \cup {id} /\ browser'.cursor = browser.cursor
        /\ browser'.checking = browser.checking /\ browser'.status = browser.status
        /\ browser'.picked = browser.picked
    BY <1>1 DEF BrowserInv, BrowserFields
  <1>3. browser.apps \in Seq(AppSet)
    BY DEF BrowserInv, ReadOk
  <1>4. CursorOk(browser')
    BY <1>2, <1>3, ListedGrows DEF BrowserInv
  <1>5. NamesOk(browser')
    BY <1>2 DEF BrowserInv, NamesOk
  <1> QED BY <1>2, <1>4, <1>5 DEF BrowserInv

\* Another app is published.
LEMMA PublishStepKeeps ==
    ASSUME BrowserInv, Publish
    PROVE  BrowserInv'
  <1> DEFINE slots2 == Append(browser.slots, Late[browser.late + 1])
             late2 == browser.late + 1
             done == ~browser.more /\ ~browser.failed
  <1>1. browser' = [browser EXCEPT !.slots = slots2, !.late = late2]
    BY DEF Publish, B
  <1>2. ReadOk(browser.slots, browser.late, browser.next, browser.apps, done)
    BY DEF BrowserInv
  <1>3. ReadOk(slots2, late2, browser.next, browser.apps, done)
    <2> HIDE DEF done
    <2> QED BY <1>2, PublishKeeps DEF Publish
  <1> HIDE DEF slots2, late2
  <1>4. /\ BrowserFields(browser') /\ browser'.failed = browser.failed /\ browser'.more = browser.more
        /\ browser'.slots = slots2 /\ browser'.late = late2
        /\ browser'.next = browser.next /\ browser'.apps = browser.apps
        /\ browser'.known = browser.known /\ browser'.cursor = browser.cursor
        /\ browser'.checking = browser.checking /\ browser'.status = browser.status
        /\ browser'.picked = browser.picked
    BY <1>1 DEF BrowserInv, BrowserFields
  <1>5. CursorOk(browser')
    BY <1>4 DEF BrowserInv, CursorOk, Shown, Listed
  <1>6. NamesOk(browser')
    BY <1>4 DEF BrowserInv, NamesOk
  <1> QED BY <1>3, <1>4, <1>5, <1>6 DEF BrowserInv

\* The keys, GitHub's answer and the paging effect.
LEMMA KeysKeep ==
    ASSUME BrowserInv, NextBatch \/ Down \/ Up \/ Enter \/ Checked \/ Quit
    PROVE  BrowserInv'
  <1> DEFINE s == browser
  <1>1. BrowserFields(s) /\ CursorOk(s) /\ NamesOk(s)
    BY DEF BrowserInv
  <1>2. \/ browser' = [s EXCEPT !.fetching = TRUE]
        \/ browser' = [s EXCEPT !.cursor = s.cursor + 1] /\ s.cursor + 1 < Shown(s)
        \/ browser' = [s EXCEPT !.cursor = s.cursor - 1] /\ s.cursor > 0
        \/ \E i \in Listed(s) : browser' = [s EXCEPT !.checking = s.apps[i].id]
        \/ browser' = [s EXCEPT !.checking = 0]
        \/ /\ browser' = [s EXCEPT !.status = "picked", !.picked = s.checking, !.checking = 0]
           /\ s.checking # 0
        \/ browser' = [s EXCEPT !.status = "cancelled", !.cancelled = TRUE]
    BY DEF NextBatch, Down, Up, Enter, UnderCursor, Checked, Quit, B
  <1>3. ASSUME NEW i \in Listed(s) PROVE s.apps[i].id \in AppIds
    <2>1. i \in 1 .. Len(s.apps)
      BY <1>3 DEF Listed
    <2> QED BY <2>1, AppsArePublished DEF BrowserInv
  <1>4. Shown(s) \in Nat
    <2>1. IsFiniteSet(1 .. Len(s.apps)) /\ Listed(s) \in SUBSET (1 .. Len(s.apps))
      <3>1. s.apps \in Seq(AppSet)
        BY DEF BrowserInv, ReadOk
      <3> QED BY <3>1, FS_Interval DEF Listed
    <2>2. IsFiniteSet(Listed(s))
      BY <2>1, FS_Subset
    <2> QED BY <2>2, FS_CardinalityType DEF Shown
  <1>5. /\ BrowserFields(browser') /\ browser'.failed = s.failed /\ browser'.more = s.more
        /\ browser'.slots = s.slots /\ browser'.late = s.late
        /\ browser'.next = s.next /\ browser'.apps = s.apps /\ browser'.known = s.known
    BY <1>1, <1>2 DEF BrowserFields
  <1>6. browser'.cursor \in Nat /\ (browser'.cursor = 0 \/ browser'.cursor < Shown(s))
    <2>1. \/ browser'.cursor = s.cursor
          \/ browser'.cursor = s.cursor + 1 /\ s.cursor + 1 < Shown(s)
          \/ browser'.cursor = s.cursor - 1 /\ s.cursor > 0
      BY <1>1, <1>2 DEF BrowserFields
    <2> QED BY <1>1, <1>4, <2>1 DEF CursorOk
  <1>7. NamesOk(browser')
    <2>1. \/ browser'.checking \in {s.checking, 0} /\ browser'.status = s.status /\ browser'.picked = s.picked
          \/ /\ \E i \in Listed(s) : browser'.checking = s.apps[i].id
             /\ browser'.status = s.status /\ browser'.picked = s.picked
          \/ browser'.checking = 0 /\ browser'.picked = s.checking /\ s.checking # 0
          \/ browser'.checking = s.checking /\ browser'.status = "cancelled"
      BY <1>1, <1>2 DEF BrowserFields
    <2> QED BY <1>1, <1>3, <2>1 DEF NamesOk
  <1> QED BY <1>5, <1>6, <1>7, BrowserMoves

\* Every step of the composition keeps the picker right.
LEMMA NextBrowser == BrowserInv /\ [Next]_vars => BrowserInv'
  <1> SUFFICES ASSUME BrowserInv, [Next]_vars PROVE BrowserInv'
    OBVIOUS
  <1>1. CASE browser' = browser
    BY <1>1 DEF BrowserInv
  <1>2. CASE BrowserStep
    BY <1>2, LoadBatchKeeps, MetadataKeeps, PublishStepKeeps, KeysKeep DEF BrowserStep
  <1>3. ASSUME browser' = NoBrowser \/ browser' = [NoBrowser EXCEPT !.status = "open", !.fetching = TRUE]
        PROVE  BrowserInv'
    <2> DEFINE s == browser'
    <2>1. s = NoBrowser \/ s = [NoBrowser EXCEPT !.status = "open", !.fetching = TRUE]
      BY <1>3
    <2>2. /\ BrowserFields(s) /\ CursorOk(s) /\ NamesOk(s)
          /\ ReadOk(s.slots, s.late, s.next, s.apps, ~s.more /\ ~s.failed)
      <3> HIDE DEF s
      <3> QED BY <2>1, NoBrowserOk
    <2> QED BY <2>2 DEF BrowserInv
  <1>4. CASE Choose \/ Browsed
    BY <1>1, <1>3, <1>4 DEF Choose, Browsed, Open, B
  <1>5. CASE \/ Invoke \/ Connect \/ Gate \/ ProbeMetadata \/ Quests
             \/ ResolveTarget \/ FetchMetadata \/ StartDownload \/ Extract \/ FinishSource
             \/ PlanPackageManager \/ ConfirmInstall \/ Installed \/ SetupSh
             \/ Interrupt \/ UserWrites \/ UserClears
    BY <1>1, <1>5 DEF Invoke, Connect, Gate, ProbeMetadata, Quests, ResolveTarget,
       FetchMetadata, StartDownload, Extract, FinishSource, PlanPackageManager, ConfirmInstall,
       Installed, SetupSh, Interrupt, UserWrites, UserClears, Still
  <1>6. CASE UNCHANGED vars
    BY <1>1, <1>6 DEF vars
  <1> QED BY <1>1, <1>2, <1>4, <1>5, <1>6 DEF Next, ModStep

\* ModInit has no picker open.
LEMMA InitBrowser == ModInit => BrowserInv
  BY NoBrowserOk DEF ModInit, BrowserInv

\* For any registry, page size and publishers: once the last page is read no
\* visible app is missing, an app is read again only for an app published
\* meanwhile, and the cursor is on the list.
THEOREM PickerIsComplete == Spec => []BrowserComplete
  <1>1. BrowserInv => BrowserComplete
    <2> SUFFICES ASSUME BrowserInv PROVE BrowserComplete
      OBVIOUS
    <2> DEFINE done == ~browser.more /\ ~browser.failed
    <2>1. ReadOk(browser.slots, browser.late, browser.next, browser.apps, done)
      BY DEF BrowserInv
    <2>2. PICK lag \in 0 .. browser.late : Len(browser.apps) - Cardinality(Ids(browser.apps)) <= lag
      BY <2>1 DEF ReadOk, Lagging
    <2>3. Len(browser.apps) - Cardinality(Ids(browser.apps)) <= browser.late
      <3>1. browser.apps \in Seq(AppSet) /\ browser.late \in 0 .. Len(Late)
        BY <2>1 DEF ReadOk
      <3>2. Len(browser.apps) \in Nat /\ Cardinality(Ids(browser.apps)) \in Nat /\ browser.late \in Nat
        BY <3>1, IdsFinite, PublishedFacts
      <3> QED BY <2>2, <3>2
    <2>4. done => \A i \in 1 .. Len(Catalogue) :
            Catalogue[i].hidden \/ Catalogue[i].id \in Ids(browser.apps)
      <3> HIDE DEF done
      <3> QED BY <2>1 DEF ReadOk
    <2>5. Listed(browser) # {} => browser.cursor < Shown(browser)
      <3>1. browser.apps \in Seq(AppSet)
        BY <2>1 DEF ReadOk
      <3>2. IsFiniteSet(1 .. Len(browser.apps)) /\ Listed(browser) \in SUBSET (1 .. Len(browser.apps))
        BY <3>1, FS_Interval DEF Listed
      <3>3. IsFiniteSet(Listed(browser))
        BY <3>2, FS_Subset
      <3>4. Shown(browser) \in Nat /\ (Shown(browser) = 0 => Listed(browser) = {})
        BY <3>3, FS_CardinalityType, FS_EmptySet DEF Shown
      <3> QED BY <3>4 DEF BrowserInv, CursorOk
    <2> QED BY <2>3, <2>4, <2>5 DEF BrowserComplete, Ids
  <1> QED BY <1>1, InitBrowser, NextBrowser, PTL DEF Spec

-----------------------------------------------------------------------------
(* The mod command.                                                        *)

ModFields(r) ==
    r = [pc |-> r.pc, tty |-> r.tty, given |-> r.given, app |-> r.app, meta |-> r.meta,
         planned |-> r.planned, made |-> r.made, declined |-> r.declined, told |-> r.told,
         exit |-> r.exit, runs |-> r.runs]

\* Where the app is known, where the directory is made, where the source is
\* complete, and where the package manager may have been planned.
Located == {"metadata", "quests", "target", "fetch", "download", "extract", "finish", "plan",
            "confirm", "install", "setup", "hung"}
Making == {"extract", "finish", "plan", "confirm", "install", "setup", "hung"}
Sourced == {"plan", "confirm", "install", "setup"}
Planning == {"confirm", "install", "setup", "hung"}

\* What the command's own variables say of each other.
CmdOk(r) ==
    /\ r.app \in AppIds \cup {0}
    /\ r.pc \in Located => r.app \in AppIds
    /\ r.pc \in Making <=> r.pc # "ended" /\ r.made
    /\ r.planned => r.pc \in Planning \cup {"ended"}
    /\ r.told => r.pc = "ended" /\ r.exit = 0 /\ r.made /\ r.app \in AppIds
    /\ r.pc # "ended" => r.exit = 0
    /\ r.pc = "ended" /\ r.exit = 0 /\ ~r.told => ~r.made

\* The command in a process of its kind.
CmdInv == ModFields(mod) /\ CmdOk(mod) /\ (kind # "mod" => mod.pc = "off")

\* The command starts.
LEMMA InvokeCmd ==
    ASSUME NEW tty, NEW given, NEW runs, NEW r,
           r = [NoMod EXCEPT !.pc = "connect", !.tty = tty, !.given = given, !.runs = runs]
    PROVE  ModFields(r) /\ CmdOk(r)
  <1>1. /\ ModFields(r) /\ r.pc = "connect" /\ r.app = 0 /\ r.exit = 0
        /\ r.planned = FALSE /\ r.made = FALSE /\ r.told = FALSE
    BY DEF NoMod, ModFields
  <1> QED BY <1>1 DEF CmdOk, Located, Making, Planning

\* It goes on.
LEMMA GotoCmd ==
    ASSUME ModFields(mod), CmdOk(mod), NEW pc, NEW r, r = [mod EXCEPT !.pc = pc],
           mod.pc # "ended", pc # "ended", pc \in Located => mod.app \in AppIds,
           pc \in Making <=> mod.pc \in Making, mod.planned => pc \in Planning
    PROVE  ModFields(r) /\ CmdOk(r)
  <1>1. /\ ModFields(r) /\ r.pc = pc /\ r.app = mod.app /\ r.exit = mod.exit
        /\ r.planned = mod.planned /\ r.made = mod.made /\ r.told = mod.told
    BY DEF ModFields
  <1> QED BY <1>1 DEF CmdOk

\* It ends without the next steps: with an error, or before there is a directory.
LEMMA EndCmd ==
    ASSUME ModFields(mod), CmdOk(mod), mod.pc # "ended", NEW code, NEW r,
           r = [mod EXCEPT !.pc = "ended", !.exit = code], code = 0 => mod.pc \notin Making
    PROVE  ModFields(r) /\ CmdOk(r)
  <1>1. /\ ModFields(r) /\ r.pc = "ended" /\ r.app = mod.app /\ r.exit = code
        /\ r.planned = mod.planned /\ r.made = mod.made /\ r.told = mod.told
    BY DEF ModFields
  <1> QED BY <1>1 DEF CmdOk, Located, Making

\* It ends with them.
LEMMA SucceedCmd ==
    ASSUME ModFields(mod), CmdOk(mod), mod.pc \in Sourced, NEW r,
           \/ r = [mod EXCEPT !.told = TRUE, !.pc = "ended"]
           \/ r = [[mod EXCEPT !.declined = TRUE] EXCEPT !.told = TRUE, !.pc = "ended"]
    PROVE  ModFields(r) /\ CmdOk(r)
  <1>1. /\ ModFields(r) /\ r.pc = "ended" /\ r.app = mod.app /\ r.exit = mod.exit
        /\ r.planned = mod.planned /\ r.made = mod.made /\ r.told = TRUE
    BY DEF ModFields
  <1>2. mod.pc \in Making /\ mod.pc \in Located /\ mod.pc # "ended"
    BY DEF Sourced, Making, Located
  <1>3. mod.made /\ mod.app \in AppIds /\ mod.exit = 0
    BY <1>2 DEF CmdOk
  <1> QED BY <1>1, <1>3 DEF CmdOk, Located, Making

\* Steps that move the command's own record.
LEMMA CmdStep ==
    ASSUME CmdInv, BrowserInv, ModStep
    PROVE  CmdInv'
  <1>0. ModFields(mod) /\ CmdOk(mod) /\ kind' = kind
    BY DEF CmdInv, ModStep, Invoke, Connect, Gate, Choose, Browsed, ProbeMetadata, Quests,
       ResolveTarget, FetchMetadata, StartDownload, Extract, FinishSource, PlanPackageManager,
       ConfirmInstall, Installed, SetupSh, Interrupt, UserWrites, UserClears, Still
  <1>1. CASE mod' = mod
    BY <1>0, <1>1 DEF CmdInv
  <1>2. ASSUME kind = "mod", ModFields(mod') /\ CmdOk(mod') PROVE CmdInv'
    BY <1>0, <1>2 DEF CmdInv
  <1>3. ASSUME kind = "mod", mod.pc # "ended", NEW pc, Goto(pc), pc # "ended",
               pc \in Located => mod.app \in AppIds,
               pc \in Making <=> mod.pc \in Making, mod.planned => pc \in Planning
        PROVE  CmdInv'
    BY <1>0, <1>2, <1>3, GotoCmd DEF Goto, M
  <1>4. ASSUME kind = "mod", mod.pc # "ended", NEW code, End(code), code = 0 => mod.pc \notin Making
        PROVE  CmdInv'
    BY <1>0, <1>2, <1>4, EndCmd DEF End, M
  <1>5. CASE Invoke
    <2>1. kind = "mod"
      BY <1>5 DEF Invoke
    <2>2. PICK tty \in BOOLEAN, given \in AppIds \cup {0, Malformed} :
            mod' = [NoMod EXCEPT !.pc = "connect", !.tty = tty, !.given = given, !.runs = mod.runs + 1]
      BY <1>5 DEF Invoke, M
    <2> QED BY <1>2, <2>1, <2>2, InvokeCmd
  <1>6. CASE Connect \/ Gate \/ Quests \/ ResolveTarget
    <2>1. /\ kind = "mod" /\ mod.pc \in {"connect", "gate", "quests", "target"}
          /\ \/ mod.pc = "connect" /\ Goto("gate")
             \/ mod.pc = "gate" /\ Goto("choose")
             \/ mod.pc = "quests" /\ Goto("target")
             \/ mod.pc = "target" /\ Goto("fetch")
             \/ End(0) \/ End(1)
      BY <1>6 DEF Connect, Gate, Quests, ResolveTarget, At
    <2>2. mod.pc \notin Making /\ mod.pc # "ended"
      BY <2>1 DEF Making
    <2>3. mod.pc \in {"quests", "target"} => mod.app \in AppIds
      BY <1>0 DEF CmdOk, Located
    <2>4. ~mod.planned
      BY <1>0, <2>1 DEF CmdOk, Planning
    <2>5. {"gate", "choose", "target", "fetch"} \cap Making = {} /\ {"gate", "choose"} \cap Located = {}
      BY DEF Making, Located
    <2> QED BY <1>3, <1>4, <2>1, <2>2, <2>3, <2>4, <2>5
  <1>7. CASE Choose
    <2>1. kind = "mod" /\ mod.pc = "choose"
      BY <1>7 DEF Choose, At
    <2>2. CASE End(1)
      BY <1>4, <2>1, <2>2
    <2>3. CASE Goto("browse")
      <3>1. ~mod.planned /\ mod.pc \notin Making /\ "browse" \notin Making /\ "browse" \notin Located
        BY <1>0, <2>1 DEF CmdOk, Planning, Making, Located
      <3> QED BY <1>3, <2>1, <2>3, <3>1
    <2>4. CASE mod.given \in AppIds /\ mod' = [mod EXCEPT !.app = mod.given, !.pc = "metadata"]
      <3>1. /\ ModFields(mod') /\ mod'.pc = "metadata" /\ mod'.app = mod.given /\ mod'.exit = mod.exit
            /\ mod'.planned = mod.planned /\ mod'.made = mod.made /\ mod'.told = mod.told
        BY <1>0, <2>4 DEF ModFields
      <3>2. CmdOk(mod')
        BY <1>0, <2>1, <2>4, <3>1 DEF CmdOk, Located, Making, Planning
      <3> QED BY <1>2, <2>1, <3>1, <3>2
    <2> QED BY <1>7, <2>2, <2>3, <2>4 DEF Choose, M
  <1>8. CASE Browsed
    <2>1. kind = "mod" /\ mod.pc = "browse"
      BY <1>8 DEF Browsed, At
    <2>2. CASE End(0)
      <3>1. mod.pc \notin Making
        BY <2>1 DEF Making
      <3> QED BY <1>4, <2>1, <2>2, <3>1
    <2>3. CASE /\ browser.status = "picked"
               /\ mod' = [mod EXCEPT !.app = browser.picked, !.meta = TRUE, !.pc = "metadata"]
      <3>1. /\ ModFields(mod') /\ mod'.pc = "metadata" /\ mod'.app = browser.picked
            /\ mod'.exit = mod.exit
            /\ mod'.planned = mod.planned /\ mod'.made = mod.made /\ mod'.told = mod.told
        BY <1>0, <2>3 DEF ModFields
      <3>2. browser.picked \in AppIds
        BY <2>3 DEF BrowserInv, NamesOk
      <3>3. CmdOk(mod')
        BY <1>0, <2>1, <3>1, <3>2 DEF CmdOk, Located, Making, Planning
      <3> QED BY <1>2, <2>1, <3>1, <3>3
    <2> QED BY <1>8, <2>2, <2>3 DEF Browsed, M
  <1>9. CASE ProbeMetadata
    <2>1. kind = "mod" /\ mod.pc = "metadata"
      BY <1>9 DEF ProbeMetadata, At
    <2>2. PICK found \in {mod.meta, mod.tty} :
            mod' = [mod EXCEPT !.meta = mod.meta \/ found,
                               !.pc = IF mod.tty /\ (mod.meta \/ found) /\ Repo(mod.app) = "github"
                                      THEN "quests" ELSE "target"]
      BY <1>9 DEF ProbeMetadata, M
    <2> DEFINE known == mod.meta \/ found
               pc == IF mod.tty /\ known /\ Repo(mod.app) = "github" THEN "quests" ELSE "target"
    <2>5. pc \in {"quests", "target"} /\ mod' = [mod EXCEPT !.meta = known, !.pc = pc]
      BY <2>2
    <2> HIDE DEF known, pc
    <2>3. /\ ModFields(mod') /\ mod'.pc = pc /\ mod'.app = mod.app /\ mod'.exit = mod.exit
          /\ mod'.planned = mod.planned /\ mod'.made = mod.made /\ mod'.told = mod.told
      BY <1>0, <2>5 DEF ModFields
    <2>4. CmdOk(mod')
      BY <1>0, <2>1, <2>3, <2>5 DEF CmdOk, Located, Making, Planning
    <2> QED BY <1>2, <2>1, <2>3, <2>4
  <1>10. CASE FetchMetadata
    <2>1. kind = "mod" /\ mod.pc = "fetch"
      BY <1>10 DEF FetchMetadata, At
    <2>2. CASE End(1)
      BY <1>4, <2>1, <2>2
    <2>3. CASE mod' = [mod EXCEPT !.meta = TRUE, !.pc = "download"]
      <3>1. /\ ModFields(mod') /\ mod'.pc = "download" /\ mod'.app = mod.app /\ mod'.exit = mod.exit
            /\ mod'.planned = mod.planned /\ mod'.made = mod.made /\ mod'.told = mod.told
        BY <1>0, <2>3 DEF ModFields
      <3>2. CmdOk(mod')
        BY <1>0, <2>1, <3>1 DEF CmdOk, Located, Making, Planning
      <3> QED BY <1>2, <2>1, <3>1, <3>2
    <2> QED BY <1>10, <2>2, <2>3 DEF FetchMetadata, StepFails, M
  <1>11. CASE StartDownload
    <2>1. kind = "mod" /\ mod.pc = "download"
      BY <1>11 DEF StartDownload, At
    <2>2. CASE End(1)
      BY <1>4, <2>1, <2>2
    <2>3. CASE mod' = [mod EXCEPT !.made = TRUE, !.pc = "extract"]
      <3>1. /\ ModFields(mod') /\ mod'.pc = "extract" /\ mod'.app = mod.app /\ mod'.exit = mod.exit
            /\ mod'.planned = mod.planned /\ mod'.made = TRUE /\ mod'.told = mod.told
        BY <1>0, <2>3 DEF ModFields
      <3>2. CmdOk(mod')
        BY <1>0, <2>1, <3>1 DEF CmdOk, Located, Making, Planning
      <3> QED BY <1>2, <2>1, <3>1, <3>2
    <2> QED BY <1>11, <2>2, <2>3 DEF StartDownload, StepFails, M
  <1>12. CASE Extract \/ FinishSource
    <2>1. /\ kind = "mod"
          /\ \/ mod.pc = "extract" /\ Goto("finish")
             \/ mod.pc = "finish" /\ Goto("plan")
             \/ mod.pc \in {"extract", "finish"} /\ End(1)
      BY <1>12 DEF Extract, FinishSource, StepFails, At
    <2>2. mod.pc \in Making /\ mod.app \in AppIds /\ ~mod.planned /\ mod.pc # "ended"
      BY <1>0, <2>1 DEF CmdOk, Making, Located, Planning
    <2>3. "finish" \in Making /\ "plan" \in Making
      BY DEF Making
    <2> QED BY <1>3, <1>4, <2>1, <2>2, <2>3
  <1>13. CASE PlanPackageManager
    <2>1. kind = "mod" /\ mod.pc = "plan"
      BY <1>13 DEF PlanPackageManager, At
    <2>2. mod.pc \in Making /\ mod.app \in AppIds /\ ~mod.planned /\ mod.pc # "ended"
      BY <1>0, <2>1 DEF CmdOk, Making, Located, Planning
    <2>3. CASE Goto("setup")
      <3>1. "setup" \in Making
        BY DEF Making
      <3> QED BY <1>3, <2>1, <2>2, <2>3, <3>1
    <2>4. ASSUME NEW pc \in {"setup", "confirm", "install"},
                 mod' = [mod EXCEPT !.planned = TRUE, !.pc = pc]
          PROVE  CmdInv'
      <3>1. /\ ModFields(mod') /\ mod'.pc = pc /\ mod'.app = mod.app /\ mod'.exit = mod.exit
            /\ mod'.planned = TRUE /\ mod'.made = mod.made /\ mod'.told = mod.told
        BY <1>0, <2>4 DEF ModFields
      <3>2. CmdOk(mod')
        BY <1>0, <2>1, <3>1 DEF CmdOk, Located, Making, Planning
      <3> QED BY <1>2, <2>1, <3>1, <3>2
    <2>5. PmPhase(PmReady, mod.tty) \in {"setup", "confirm", "install"}
      BY DEF PmPhase
    <2> QED BY <1>13, <2>3, <2>4, <2>5 DEF PlanPackageManager, M
  <1>14. CASE ConfirmInstall \/ Installed \/ SetupSh
    <2>1. /\ kind = "mod" /\ mod.pc \in Sourced
          /\ \/ Goto("install") \/ Goto("hung") \/ Goto("setup") \/ End(1)
             \/ mod' = [mod EXCEPT !.told = TRUE, !.pc = "ended"]
             \/ mod' = [[mod EXCEPT !.declined = TRUE] EXCEPT !.told = TRUE, !.pc = "ended"]
      BY <1>14 DEF ConfirmInstall, Installed, SetupSh, Succeed, StepFails, At, M, Sourced
    <2>2. mod.pc \in Making /\ mod.app \in AppIds /\ mod.pc # "ended"
      BY <1>0, <2>1 DEF CmdOk, Making, Located, Sourced
    <2>3. {"install", "hung", "setup"} \subseteq Making /\ {"install", "hung", "setup"} \subseteq Planning
      BY DEF Making, Planning
    <2> QED BY <1>0, <1>2, <1>3, <1>4, <2>1, <2>2, <2>3, SucceedCmd
  <1>15. CASE Interrupt
    BY <1>4, <1>15 DEF Interrupt
  <1>16. CASE UserWrites \/ UserClears
    BY <1>1, <1>16 DEF UserWrites, UserClears
  <1> QED BY <1>5, <1>6, <1>7, <1>8, <1>9, <1>10, <1>11, <1>12, <1>13, <1>14, <1>15, <1>16
          DEF ModStep

\* Steps of the picker and of the installers leave the command where it is.
LEMMA NextCmd == CmdInv /\ BrowserInv /\ [Next]_vars => CmdInv'
  <1> SUFFICES ASSUME CmdInv, BrowserInv, [Next]_vars PROVE CmdInv'
    OBVIOUS
  <1>1. CASE UNCHANGED <<mod, kind>>
    BY <1>1 DEF CmdInv
  <1> QED BY <1>1, CmdStep DEF Next, vars

\* ModInit starts no command.
LEMMA InitCmd == ModInit => CmdInv
  BY DEF ModInit, CmdInv, NoMod, ModFields, CmdOk, Located, Making, Planning

DirFields(d) ==
    d = [exists |-> d.exists, user |-> d.user, source |-> d.source, stripped |-> d.stripped,
         dotJson |-> d.dotJson]

\* A complete download of the app.
SourceOk(d, app) == d.exists /\ d.source = "full" /\ d.dotJson = app

\* What is on the disk, against where the command is: the download refuses a
\* directory with something in it, so what the user put there before is never
\* below the archive; a source that is there keeps him from writing.
DiskInv ==
    /\ dir = [a \in AppIds |-> dir[a]]
    /\ \A a \in AppIds : DirFields(dir[a]) /\ (dir[a].source # "none" => dir[a].user # "before")
    /\ mod.pc = "extract" => dir[mod.app].exists /\ dir[mod.app].user # "before"
    /\ mod.pc = "finish" => dir[mod.app].exists /\ dir[mod.app].source = "full"
    /\ mod.pc \in Sourced => SourceOk(dir[mod.app], mod.app)
    /\ mod.told /\ dir[mod.app].exists /\ dir[mod.app].user # "before" =>
         SourceOk(dir[mod.app], mod.app)

\* One directory changes.
LEMMA DirMoves ==
    ASSUME dir = [a \in AppIds |-> dir[a]], NEW app \in AppIds, NEW d, dir' = [dir EXCEPT ![app] = d]
    PROVE  /\ dir' = [a \in AppIds |-> dir'[a]] /\ dir'[app] = d
           /\ \A a \in AppIds : a # app => dir'[a] = dir[a]
  <1>1. dir' = [a \in AppIds |-> IF a = app THEN d ELSE dir[a]]
    OBVIOUS
  <1> QED BY <1>1

\* Steps that leave the disk alone reach no new stage of it, except for the
\* directory made by the download and what follows the source.
LEMMA DiskStays ==
    ASSUME DiskInv, dir' = dir, mod'.app = mod.app \/ mod'.pc \notin {"extract", "finish"} \cup Sourced,
           mod'.pc \in {"extract", "finish"} => mod'.pc = mod.pc,
           mod'.pc \in Sourced => mod.pc \in Sourced,
           mod'.told => (mod.told \/ mod.pc \in Sourced) /\ mod'.app = mod.app
    PROVE  DiskInv'
  BY DEF DiskInv

\* How the steps that leave the disk alone move the command.
LEMMA DiskFrame ==
    ASSUME CmdInv, [Next]_vars
    PROVE  \/ /\ dir' = dir
              /\ mod'.app = mod.app \/ mod'.pc \notin {"extract", "finish"} \cup Sourced
              /\ mod'.pc \in {"extract", "finish"} => mod'.pc = mod.pc
              /\ mod'.pc \in Sourced => mod.pc \in Sourced
              /\ mod'.told => (mod.told \/ mod.pc \in Sourced) /\ mod'.app = mod.app
           \/ StartDownload \/ Extract \/ FinishSource \/ UserWrites \/ UserClears
  <1> DEFINE Frame == /\ dir' = dir
                      /\ mod'.app = mod.app \/ mod'.pc \notin {"extract", "finish"} \cup Sourced
                      /\ mod'.pc \in {"extract", "finish"} => mod'.pc = mod.pc
                      /\ mod'.pc \in Sourced => mod.pc \in Sourced
                      /\ mod'.told => (mod.told \/ mod.pc \in Sourced) /\ mod'.app = mod.app
  <1>0. ModFields(mod) /\ CmdOk(mod)
    BY DEF CmdInv
  <1>1. CASE UNCHANGED <<mod, dir>>
    BY <1>1
  <1>2. ASSUME NEW pc, Goto(pc), dir' = dir, pc \notin {"extract", "finish"},
               pc \in Sourced => mod.pc \in Sourced
        PROVE  Frame
    <2>1. mod'.pc = pc /\ mod'.app = mod.app /\ mod'.told = mod.told
      BY <1>0, <1>2 DEF Goto, M, ModFields
    <2> QED BY <1>2, <2>1
  <1>3. ASSUME NEW code, End(code), dir' = dir PROVE Frame
    <2>1. mod'.pc = "ended" /\ mod'.app = mod.app /\ mod'.told = mod.told
      BY <1>0, <1>3 DEF End, M, ModFields
    <2> QED BY <1>3, <2>1 DEF Sourced
  <1>4. CASE Invoke
    <2>1. mod'.pc = "connect" /\ mod'.told = FALSE /\ dir' = dir
      BY <1>4 DEF Invoke, M, NoMod, Still
    <2> QED BY <2>1 DEF Sourced
  <1>5. CASE Connect \/ Gate \/ Quests \/ ResolveTarget \/ Interrupt
    <2>1. /\ dir' = dir
          /\ \/ Goto("gate") \/ Goto("choose") \/ Goto("target") \/ Goto("fetch")
             \/ \E code : End(code)
      BY <1>5 DEF Connect, Gate, Quests, ResolveTarget, Interrupt, Still
    <2>2. {"gate", "choose", "target", "fetch"} \cap Sourced = {}
      BY DEF Sourced
    <2> QED BY <1>2, <1>3, <2>1, <2>2
  <1>6. CASE Choose \/ Browsed
    <2>1. dir' = dir
      BY <1>6 DEF Choose, Browsed
    <2>2. CASE Goto("browse") \/ \E code : End(code)
      BY <1>2, <1>3, <2>1, <2>2 DEF Sourced
    <2>3. CASE mod'.pc = "metadata" /\ mod'.told = mod.told /\ mod.pc # "ended"
      BY <1>0, <2>1, <2>3 DEF Sourced, CmdOk
    <2>4. \/ Goto("browse") \/ \E code : End(code)
          \/ mod'.pc = "metadata" /\ mod'.told = mod.told /\ mod.pc # "ended"
      BY <1>0, <1>6 DEF Choose, Browsed, M, ModFields, At
    <2> QED BY <2>2, <2>3, <2>4
  <1>7. CASE ProbeMetadata \/ FetchMetadata
    <2>1. dir' = dir
      BY <1>7 DEF ProbeMetadata, FetchMetadata, Still
    <2>2. CASE End(1)
      BY <1>3, <2>1, <2>2
    <2>3. \/ End(1)
          \/ /\ mod'.pc \in {"quests", "target", "download"} /\ mod'.told = mod.told
             /\ mod'.app = mod.app
      BY <1>0, <1>7 DEF ProbeMetadata, FetchMetadata, StepFails, M, ModFields
    <2> QED BY <2>1, <2>2, <2>3 DEF Sourced
  <1>8. CASE PlanPackageManager
    <2>1. dir' = dir /\ mod.pc \in Sourced
      BY <1>8 DEF PlanPackageManager, At, Sourced
    <2>2. CASE Goto("setup")
      BY <1>2, <2>1, <2>2
    <2>3. CASE mod' = [mod EXCEPT !.planned = TRUE, !.pc = PmPhase(PmReady, mod.tty)]
      <3> DEFINE pc == PmPhase(PmReady, mod.tty)
      <3>1. pc \in {"setup", "confirm", "install"}
        BY DEF PmPhase
      <3> HIDE DEF pc
      <3>2. mod'.pc = pc /\ mod'.told = mod.told /\ mod'.app = mod.app
        BY <1>0, <2>3 DEF ModFields, pc
      <3> QED BY <2>1, <3>1, <3>2
    <2> QED BY <1>8, <2>2, <2>3 DEF PlanPackageManager, M
  <1>9. CASE ConfirmInstall \/ Installed \/ SetupSh
    <2>1. dir' = dir /\ mod.pc \in Sourced
      BY <1>9 DEF ConfirmInstall, Installed, SetupSh, At, Sourced, Still
    <2>2. CASE Goto("install") \/ Goto("hung") \/ Goto("setup") \/ End(1)
      BY <1>2, <1>3, <2>1, <2>2
    <2>3. ASSUME \/ mod' = [mod EXCEPT !.told = TRUE, !.pc = "ended"]
                 \/ mod' = [[mod EXCEPT !.declined = TRUE] EXCEPT !.told = TRUE, !.pc = "ended"]
          PROVE  Frame
      <3>1. mod'.pc = "ended" /\ mod'.app = mod.app
        BY <1>0, <2>3 DEF ModFields
      <3> QED BY <2>1, <3>1 DEF Sourced
    <2> QED BY <1>9, <2>2, <2>3 DEF ConfirmInstall, Installed, SetupSh, Succeed, StepFails, M
  <1> QED BY <1>1, <1>4, <1>5, <1>6, <1>7, <1>8, <1>9 DEF Next, ModStep, vars

\* What the first steps make of a directory.
LEMMA DirUpdates ==
    ASSUME NEW d, DirFields(d), NEW e, NEW x
    PROVE  /\ e = [d EXCEPT !.exists = x] =>
                DirFields(e) /\ e.exists = x /\ e.user = d.user /\ e.source = d.source
           /\ e = [d EXCEPT !.source = x] =>
                DirFields(e) /\ e.exists = d.exists /\ e.user = d.user /\ e.source = x
  <1>1. ASSUME e = [d EXCEPT !.exists = x]
        PROVE  DirFields(e) /\ e.exists = x /\ e.user = d.user /\ e.source = d.source
    BY <1>1 DEF DirFields
  <1>2. ASSUME e = [d EXCEPT !.source = x]
        PROVE  DirFields(e) /\ e.exists = d.exists /\ e.user = d.user /\ e.source = x
    BY <1>2 DEF DirFields
  <1> QED BY <1>1, <1>2

\* The download makes the directory, which had nothing of the user's in it.
LEMMA StartDownloadDisk ==
    ASSUME DiskInv, CmdInv, CmdInv', StartDownload
    PROVE  DiskInv'
  <1> DEFINE app == mod.app
             d == dir[app]
             d2 == [d EXCEPT !.exists = TRUE]
  <1>1. app \in AppIds /\ ModFields(mod) /\ mod.pc = "download"
    BY DEF StartDownload, At, CmdInv, CmdOk, Located
  <1>2. CASE StepFails /\ UNCHANGED dir
    <2>1. mod'.pc = "ended" /\ mod'.told = mod.told /\ ~mod.told
      BY <1>1, <1>2 DEF StepFails, End, M, ModFields, CmdInv, CmdOk
    <2> QED BY <1>2, <2>1, DiskStays DEF Sourced
  <1>3. CASE /\ d.user = "none" /\ dir' = [dir EXCEPT ![mod.app].exists = TRUE]
             /\ mod' = [mod EXCEPT !.made = TRUE, !.pc = "extract"]
    <2>1. mod'.pc = "extract" /\ mod'.app = app
      BY <1>1, <1>3 DEF ModFields
    <2>2. dir = [a \in AppIds |-> dir[a]] /\ DirFields(d) /\ (d.source # "none" => d.user # "before")
      BY <1>1 DEF DiskInv
    <2>3. d2.exists = TRUE /\ d2.user = "none" /\ DirFields(d2)
      <3> HIDE DEF d
      <3> QED BY <1>3, <2>2, DirUpdates
    <2>4. dir' = [dir EXCEPT ![app] = d2]
      BY <1>3
    <2> HIDE DEF d2, d, app
    <2>5. /\ dir' = [a \in AppIds |-> dir'[a]] /\ dir'[app] = d2
          /\ \A a \in AppIds : a # app => dir'[a] = dir[a]
      BY <1>1, <2>2, <2>4, DirMoves
    <2>6. ASSUME NEW a \in AppIds
          PROVE  DirFields(dir'[a]) /\ (dir'[a].source # "none" => dir'[a].user # "before")
      BY <2>3, <2>5 DEF DiskInv
    <2>7. ~mod'.told
      BY <2>1 DEF CmdInv, CmdOk
    <2> QED BY <2>1, <2>3, <2>5, <2>6, <2>7 DEF DiskInv, Sourced
  <1> QED BY <1>2, <1>3 DEF StartDownload, M

\* The archive arrives over what the user may have written meanwhile, never
\* over what he had there before.
LEMMA ExtractDisk ==
    ASSUME DiskInv, CmdInv, CmdInv', Extract
    PROVE  DiskInv'
  <1>1. PICK got \in {"none", "partial", "full"} :
          /\ dir' = [dir EXCEPT ![mod.app].source = got]
          /\ IF got = "full" THEN Goto("finish") ELSE StepFails
    BY DEF Extract
  <1> DEFINE app == mod.app
             d == dir[app]
             d2 == [d EXCEPT !.source = got]
  <1>2. app \in AppIds /\ ModFields(mod) /\ mod.pc = "extract"
    BY DEF Extract, At, CmdInv, CmdOk, Located
  <1>3. /\ mod'.app = app /\ mod'.told = mod.told /\ ~mod.told
        /\ mod'.pc = IF got = "full" THEN "finish" ELSE "ended"
    BY <1>1, <1>2 DEF StepFails, Goto, End, M, ModFields, CmdInv, CmdOk
  <1>4. dir = [a \in AppIds |-> dir[a]] /\ DirFields(d) /\ d.exists /\ d.user # "before"
    BY <1>2 DEF DiskInv
  <1>5. d2.exists = d.exists /\ d2.user = d.user /\ d2.source = got /\ DirFields(d2)
    <2> HIDE DEF d
    <2> QED BY <1>4, DirUpdates
  <1>6. dir' = [dir EXCEPT ![app] = d2]
    BY <1>1
  <1> HIDE DEF d2, d, app
  <1>7. /\ dir' = [a \in AppIds |-> dir'[a]] /\ dir'[app] = d2
        /\ \A a \in AppIds : a # app => dir'[a] = dir[a]
    BY <1>2, <1>4, <1>6, DirMoves
  <1>8. ASSUME NEW a \in AppIds
        PROVE  DirFields(dir'[a]) /\ (dir'[a].source # "none" => dir'[a].user # "before")
    BY <1>4, <1>5, <1>7 DEF DiskInv
  <1> QED BY <1>3, <1>4, <1>5, <1>7, <1>8 DEF DiskInv, Sourced

\* The hook is stripped or not, and dot.json written.
LEMMA FinishDisk ==
    ASSUME DiskInv, CmdInv, CmdInv', FinishSource
    PROVE  DiskInv'
  <1>1. PICK wrote, yes \in BOOLEAN :
          /\ dir' = [dir EXCEPT ![mod.app].stripped = yes,
                                ![mod.app].dotJson = IF wrote THEN mod.app ELSE @]
          /\ IF wrote THEN Goto("plan") ELSE StepFails
    BY DEF FinishSource
  <1> DEFINE app == mod.app
             d == dir[app]
             json == IF wrote THEN app ELSE d.dotJson
             d2 == [d EXCEPT !.stripped = yes, !.dotJson = json]
  <1>2. app \in AppIds /\ ModFields(mod) /\ mod.pc = "finish"
    BY DEF FinishSource, At, CmdInv, CmdOk, Located
  <1>3. /\ mod'.app = app /\ mod'.told = mod.told /\ ~mod.told
        /\ mod'.pc = IF wrote THEN "plan" ELSE "ended"
    BY <1>1, <1>2 DEF StepFails, Goto, End, M, ModFields, CmdInv, CmdOk
  <1>4. /\ dir = [a \in AppIds |-> dir[a]] /\ DirFields(d) /\ d.exists /\ d.source = "full"
        /\ d.user # "before"
    BY <1>2 DEF DiskInv
  <1>5. dir' = [dir EXCEPT ![app] = d2]
    <2>1. [dir EXCEPT ![app].stripped = yes] = [a \in AppIds |->
             IF a = app THEN [d EXCEPT !.stripped = yes] ELSE dir[a]]
      BY <1>2, <1>4
    <2>2. DirFields(d)
      BY <1>4
    <2>3. [d EXCEPT !.stripped = yes].dotJson = d.dotJson
      BY <2>2 DEF DirFields
    <2> QED BY <1>1, <1>2, <1>4, <2>1, <2>3
  <1>6. /\ d2.exists = d.exists /\ d2.user = d.user /\ d2.source = d.source
        /\ d2.stripped = yes /\ d2.dotJson = json /\ DirFields(d2)
    <2>1. d2 = [d EXCEPT !.stripped = yes, !.dotJson = json]
      OBVIOUS
    <2>2. DirFields(d)
      BY <1>4
    <2> HIDE DEF json, d, d2
    <2>3. /\ DirFields(d2) /\ d2.exists = d.exists /\ d2.user = d.user /\ d2.source = d.source
          /\ d2.stripped = yes /\ d2.dotJson = json
      BY <2>1, <2>2 DEF DirFields
    <2> QED BY <2>3
  <1>7. wrote => json = app
    OBVIOUS
  <1> HIDE DEF d2, d, app, json
  <1>8. /\ dir' = [a \in AppIds |-> dir'[a]] /\ dir'[app] = d2
        /\ \A a \in AppIds : a # app => dir'[a] = dir[a]
    BY <1>2, <1>4, <1>5, DirMoves
  <1>9. ASSUME NEW a \in AppIds
        PROVE  DirFields(dir'[a]) /\ (dir'[a].source # "none" => dir'[a].user # "before")
    BY <1>4, <1>6, <1>8 DEF DiskInv
  <1> QED BY <1>3, <1>4, <1>6, <1>7, <1>8, <1>9 DEF DiskInv, Sourced, SourceOk

\* The user writes where there is no source, or clears a directory away.
LEMMA UserDisk ==
    ASSUME DiskInv, CmdInv, UserWrites \/ UserClears
    PROVE  DiskInv'
  <1> DEFINE app == mod.app
             d == dir[app]
             who == IF mod.pc = "extract" THEN "during" ELSE "before"
             w == [d EXCEPT !.exists = TRUE, !.user = who]
  <1>1. app \in AppIds /\ mod' = mod
    BY DEF UserWrites, UserClears, CmdInv, CmdOk
  <1>2. dir = [a \in AppIds |-> dir[a]] /\ DirFields(d)
    BY <1>1 DEF DiskInv
  <1>3. CASE UserWrites
    <2>1. d.user = "none" /\ d.source = "none"
      BY <1>3 DEF UserWrites
    <2>2. dir' = [dir EXCEPT ![app] = w]
      <3>1. dir' = [dir EXCEPT ![app].exists = TRUE, ![app].user = who]
        BY <1>3 DEF UserWrites
      <3> HIDE DEF who
      <3> QED BY <1>1, <1>2, <3>1
    <2>3. w.exists = TRUE /\ w.user = who /\ w.source = "none" /\ DirFields(w)
      <3> DEFINE yes == TRUE
      <3>1. w = [d EXCEPT !.exists = yes, !.user = who]
        OBVIOUS
      <3> HIDE DEF who, d, w, yes
      <3>2. DirFields(w) /\ w.exists = yes /\ w.user = who /\ w.source = d.source
        BY <1>2, <3>1 DEF DirFields
      <3> QED BY <2>1, <3>2 DEF yes
    <2> HIDE DEF w, d
    <2>4. /\ dir' = [a \in AppIds |-> dir'[a]] /\ dir'[app] = w
          /\ \A a \in AppIds : a # app => dir'[a] = dir[a]
      <3> HIDE DEF app
      <3> QED BY <1>1, <1>2, <2>2, DirMoves
    <2>5. ASSUME NEW a \in AppIds
          PROVE  DirFields(dir'[a]) /\ (dir'[a].source # "none" => dir'[a].user # "before")
      BY <2>3, <2>4 DEF DiskInv
    <2>6. mod.pc # "finish" /\ mod.pc \notin Sourced
      BY <2>1 DEF DiskInv, SourceOk, d
    <2>7. mod.pc = "extract" => w.exists /\ w.user # "before"
      BY <2>3
    <2>8. mod.told => w.user = "before"
      BY <2>3 DEF CmdInv, CmdOk
    <2> QED BY <1>1, <2>4, <2>5, <2>6, <2>7, <2>8 DEF DiskInv
  <1>4. CASE UserClears
    <2>1. dir' = [dir EXCEPT ![app] = NoDir] /\ mod.pc = "ended"
      BY <1>4 DEF UserClears, At
    <2>2. NoDir.exists = FALSE /\ NoDir.source = "none" /\ DirFields(NoDir)
      BY DEF NoDir, DirFields
    <2>3. /\ dir' = [a \in AppIds |-> dir'[a]] /\ dir'[app] = NoDir
          /\ \A a \in AppIds : a # app => dir'[a] = dir[a]
      <3> HIDE DEF app
      <3> QED BY <1>1, <1>2, <2>1, DirMoves
    <2>4. ASSUME NEW a \in AppIds
          PROVE  DirFields(dir'[a]) /\ (dir'[a].source # "none" => dir'[a].user # "before")
      BY <2>2, <2>3 DEF DiskInv
    <2> QED BY <1>1, <2>1, <2>2, <2>3, <2>4 DEF DiskInv, Sourced
  <1> QED BY <1>3, <1>4

\* Every step of the composition keeps the disk right.
LEMMA NextDisk == DiskInv /\ CmdInv /\ CmdInv' /\ [Next]_vars => DiskInv'
  BY DiskFrame, DiskStays, StartDownloadDisk, ExtractDisk, FinishDisk, UserDisk

\* ModInit has no directory.
LEMMA InitDisk == ModInit => DiskInv
  <1> SUFFICES ASSUME ModInit PROVE DiskInv
    OBVIOUS
  <1>1. dir = [a \in AppIds |-> NoDir] /\ mod = NoMod
    BY DEF ModInit
  <1>2. NoDir.source = "none" /\ DirFields(NoDir) /\ NoMod.pc = "off" /\ NoMod.told = FALSE
    BY DEF NoDir, DirFields, NoMod
  <1> QED BY <1>1, <1>2 DEF DiskInv, Sourced

\* setup.sh after a plan: the package manager is there.
SetupInv == mod.pc = "setup" /\ mod.planned => PmReady

\* PmReady, by what the project needs and the machine has.
LEMMA ReadyHas ==
    PmReady <=> \A i \in 1 .. Len(Needs(build[ModBuild])) : Has(machine, Needs(build[ModBuild])[i])
  BY PresentHas DEF PmReady, Wanted, Needs

\* While setup.sh is next nothing runs an installer, and it is only reached from
\* a machine that has the programs or an installation that was checked.
LEMMA NextSetup == SetupInv /\ EnsureInv /\ CmdInv /\ [Next]_vars => SetupInv'
  <1> SUFFICES ASSUME SetupInv, EnsureInv, CmdInv, [Next]_vars, mod'.pc = "setup", mod'.planned
               PROVE  PmReady'
    BY DEF SetupInv
  <1>0. ModFields(mod) /\ CmdOk(mod)
    BY DEF CmdInv
  <1>1. ASSUME PmReady, machine' = machine, build'[ModBuild].files = build[ModBuild].files
        PROVE  PmReady'
    BY <1>1 DEF PmReady, Wanted, Present
  <1>2. CASE UNCHANGED <<mod, machine, build>>
    BY <1>1, <1>2 DEF SetupInv
  <1>3. CASE UNCHANGED vars \/ (BrowserStep /\ UNCHANGED <<toolVars, kind, mod, dir>>)
    BY <1>2, <1>3 DEF vars, toolVars
  <1>4. CASE (kind = "mod" => mod.pc = "install") /\ UNCHANGED mod
    BY <1>4 DEF CmdInv
  <1>5. CASE (kind = "login" \/ kind = "batch") /\ UNCHANGED mod
    BY <1>5 DEF CmdInv
  <1>6. CASE UserWrites \/ UserClears
    BY <1>2, <1>6 DEF UserWrites, UserClears, toolVars
  <1>7. CASE PlanPackageManager
    <2>1. mod.pc = "plan" /\ ~mod.planned
      BY <1>0, <1>7 DEF PlanPackageManager, At, CmdOk, Planning
    <2>2. CASE Goto("setup")
      <3>1. mod'.planned = mod.planned
        BY <1>0, <2>2 DEF Goto, M, ModFields
      <3> QED BY <2>1, <3>1
    <2>3. CASE /\ mod' = [mod EXCEPT !.planned = TRUE, !.pc = PmPhase(PmReady, mod.tty)]
               /\ IF PmPhase(PmReady, mod.tty) = "install" THEN StartInstall ELSE UNCHANGED toolVars
      <3>1. PmPhase(PmReady, mod.tty) = "setup"
        BY <1>0, <2>3 DEF ModFields
      <3>2. PmReady
        BY <3>1 DEF PmPhase
      <3>3. machine' = machine /\ build' = build
        BY <2>3, <3>1 DEF toolVars
      <3> QED BY <1>1, <3>2, <3>3
    <2> QED BY <1>7, <2>2, <2>3 DEF PlanPackageManager, M
  <1>8. CASE Installed
    <2>1. build[ModBuild].pc = "ensured"
      <3>1. CASE StepFails
        <4>1. mod'.pc = "ended"
          BY <1>0, <3>1 DEF StepFails, End, M, ModFields
        <4> QED BY <4>1
      <3> QED BY <1>8, <3>1 DEF Installed
    <2>2. PmReady
      BY <2>1, ReadyHas, ModAssumption DEF EnsureInv, BuildOk
    <2>3. machine' = machine /\ build' = [build EXCEPT ![ModBuild] = NewBuild(build[ModBuild].files)]
      BY <1>8 DEF Installed, Set
    <2>4. build'[ModBuild].files = build[ModBuild].files
      <3>1. build'[ModBuild] = NewBuild(build[ModBuild].files)
        BY <2>3, ModAssumption DEF EnsureInv
      <3> QED BY <3>1 DEF NewBuild
    <2> QED BY <1>1, <2>2, <2>3, <2>4
  <1>9. ASSUME mod'.pc # "setup" PROVE FALSE
    BY <1>9
  <1>10. ASSUME NEW pc, Goto(pc), pc # "setup" PROVE FALSE
    BY <1>0, <1>9, <1>10 DEF Goto, M, ModFields
  <1>11. ASSUME NEW code, End(code) PROVE FALSE
    BY <1>0, <1>9, <1>11 DEF End, M, ModFields
  <1>12. CASE Invoke
    BY <1>9, <1>12 DEF Invoke, M, NoMod
  <1>13. CASE Connect \/ Gate \/ Quests \/ ResolveTarget \/ Extract \/ FinishSource \/ Interrupt
    BY <1>10, <1>11, <1>13 DEF Connect, Gate, Quests, ResolveTarget, Extract, FinishSource, Interrupt,
       StepFails
  <1>14. CASE Choose \/ Browsed
    <2>1. \/ Goto("browse") \/ (\E code : End(code)) \/ mod'.pc = "metadata"
      BY <1>0, <1>14 DEF Choose, Browsed, M, ModFields
    <2> QED BY <1>9, <1>10, <1>11, <2>1
  <1>15. CASE ProbeMetadata
    BY <1>0, <1>9, <1>15 DEF ProbeMetadata, M, ModFields
  <1>16. CASE FetchMetadata \/ StartDownload
    <2>1. End(1) \/ mod'.pc \in {"download", "extract"}
      BY <1>0, <1>16 DEF FetchMetadata, StartDownload, StepFails, M, ModFields
    <2> QED BY <1>9, <1>11, <2>1
  <1>17. CASE ConfirmInstall \/ SetupSh
    <2>1. Goto("install") \/ Goto("hung") \/ End(1) \/ mod'.pc = "ended"
      BY <1>0, <1>17 DEF ConfirmInstall, SetupSh, Succeed, StepFails, M, ModFields
    <2> QED BY <1>9, <1>10, <1>11, <2>1
  <1> QED BY <1>3, <1>4, <1>5, <1>6, <1>7, <1>8, <1>12, <1>13, <1>14, <1>15, <1>16, <1>17
          DEF Next, ModStep

\* Files the user had in the directory are never mixed with a download, for any
\* registry and any number of mods.
THEOREM DownloadsAreApart == Spec => []NeverClobbers
  <1>1. DiskInv => NeverClobbers
    BY DEF DiskInv, NeverClobbers
  <1> QED BY InitBrowser, NextBrowser, InitCmd, NextCmd, InitDisk, NextDisk, <1>1, PTL DEF Spec

\* What the end of a mod says is true: the source behind the next steps, the
\* exit code, and the package manager behind setup.sh.
THEOREM ModReportsAreTrue == Spec => []ModOutcomes
  <1>1. ModInit => SetupInv
    BY DEF ModInit, SetupInv, NoMod
  <1>2. CmdInv /\ DiskInv /\ SetupInv => ModOutcomes
    <2> SUFFICES ASSUME CmdInv, DiskInv, SetupInv PROVE ModOutcomes
      OBVIOUS
    <2>1. mod.told => mod.pc = "ended" /\ mod.exit = 0 /\ mod.made
      BY DEF CmdInv, CmdOk
    <2>2. mod.told => (dir[mod.app].exists /\ dir[mod.app].user # "before" =>
            dir[mod.app].source = "full" /\ dir[mod.app].dotJson = mod.app)
      BY DEF DiskInv, SourceOk
    <2>3. mod.pc = "ended" /\ mod.exit = 0 /\ ~mod.told => ~mod.made
      BY DEF CmdInv, CmdOk
    <2> QED BY <2>1, <2>2, <2>3 DEF ModOutcomes, SetupInv
  <1> QED BY InitBrowser, NextBrowser, InitCmd, NextCmd, InitDisk, NextDisk, InitEnsure, NextEnsure,
             NextSetup, <1>1, <1>2, PTL DEF Spec

=============================================================================
