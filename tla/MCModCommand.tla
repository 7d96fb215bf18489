---------------------------- MODULE MCModCommand ----------------------------
(***************************************************************************)
(* Instances of ModCommand: every machine that has or misses the programs  *)
(* that matter to the process, four kinds of project, a registry of five   *)
(* slots read two at a time while one more app is published.               *)
(***************************************************************************)
EXTENDS ModCommand

CONSTANTS b1, b2

MCBuilds == {b1, b2}
MCModBuild == b1

Machine(tools, platform, ipfs) ==
    [path |-> tools, platform |-> platform, ipfs |-> ipfs, faults |-> 0]

ListTools == {ToolSteps[i] : i \in 1..Len(ToolSteps)}
PmPrograms == {"curl", "node", "pnpm", "yarn", "bun"}

LoginMachines == {Machine(ts, p, i) : ts \in SUBSET ListTools, p \in Platforms, i \in IpfsStates}
BuildMachines == {Machine(ts, p, "current") : ts \in SUBSET PmPrograms, p \in Platforms}
ModMachines == {Machine(ts, "linux", "current") : ts \in SUBSET {"curl", "node", "pnpm"}}

Files(field, lock, script, deps, asks) ==
    [field |-> field, lock |-> lock, script |-> script, deps |-> deps, asks |-> asks]

MCMachines == [k \in Kinds |-> CASE k = "login" -> LoginMachines
                                 [] k = "batch" -> BuildMachines
                                 [] k = "mod" -> ModMachines]

AllProjects == {Files("none", "none", "none", FALSE, FALSE),
               Files("pnpm", "none", "none", TRUE, FALSE),
               Files("none", "yarn", "none", TRUE, TRUE),
               Files("none", "none", "bun", TRUE, FALSE)}

\* A mod never asks inside ensurePackageManager, a login builds nothing.
MCProjects == [k \in Kinds |-> CASE k = "login" -> {Files("none", "none", "none", FALSE, FALSE)}
                                 [] k = "batch" -> AllProjects
                                 [] k = "mod" -> {p \in AllProjects : p.field = "pnpm"}]

App(id, hidden, repo) == [id |-> id, hidden |-> hidden, repo |-> repo]
MCCatalogue == <<App(1, FALSE, "github"), App(2, FALSE, "none"), App(3, TRUE, "github"),
                 App(4, FALSE, "other"), App(5, FALSE, "github")>>
MCLate == <<App(6, FALSE, "github")>>

=============================================================================
