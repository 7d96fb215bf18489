------------------------- MODULE MCContractCommand --------------------------
(* Small projects, command lines and manifests for ContractCommand.        *)
EXTENDS ContractCommand

CONSTANTS l1, l2

MCLibs == {l1, l2}

\* Two crates in one layer, two dependent ones of which one has no package, and
\* a directory without contracts.
MCProjects ==
    {[layers |-> <<{"a", "b"}>>, pkg |-> [c \in {"a", "b"} |-> IF c = "a" THEN l1 ELSE l2]],
     [layers |-> <<{"a"}, {"b"}>>, pkg |-> [c \in {"a", "b"} |-> IF c = "a" THEN l1 ELSE NoPackage]],
     [layers |-> <<>>, pkg |-> [c \in {} |-> NoPackage]]}

Deploy == [cmd |-> "deploy", mode |-> "none", suri |-> FALSE, user |-> "none",
           session |-> TRUE, registry |-> NoFlag, preset |-> FALSE, active |-> TRUE,
           args |-> <<>>]
Prestep == [Deploy EXCEPT !.cmd = "prestep"]
Install1 == [Deploy EXCEPT !.cmd = "install", !.session = FALSE]
Req(l, v) == [lib |-> l, ver |-> v]

MCFlags ==
    {Deploy, [Deploy EXCEPT !.session = FALSE], [Deploy EXCEPT !.suri = TRUE],
     [Deploy EXCEPT !.mode = "phone", !.suri = TRUE], [Deploy EXCEPT !.active = FALSE],
     [Deploy EXCEPT !.mode = "dev", !.registry = "other"],
     [Prestep EXCEPT !.mode = "phone", !.user = "session"],
     [Prestep EXCEPT !.mode = "phone", !.user = "none"],
     [Prestep EXCEPT !.mode = "dev", !.user = "dev"],
     [Prestep EXCEPT !.mode = "dev", !.user = "session"],
     Install1, [Install1 EXCEPT !.active = FALSE],
     [Install1 EXCEPT !.args = <<Req(l1, Latest)>>, !.preset = TRUE],
     [Install1 EXCEPT !.args = <<Req(l1, 1), Req(l2, 2)>>, !.registry = "other"],
     [Install1 EXCEPT !.args = <<Req(l1, 1), Req(l1, 2)>>]}

Manifest(reg, d1, p1) ==
    [legacy |-> FALSE, registry |-> reg, deps |-> [l \in Libs |-> IF l = l1 THEN d1 ELSE Latest],
     pins |-> [l \in Libs |-> IF l = l1 THEN p1 ELSE Absent]]

\* A new, an own and a foreign package in the active registry.
New == [version |-> 0, owner |-> "nobody"]
Mine == [version |-> 1, owner |-> "me"]
Foreign == [version |-> 2, owner |-> "other"]
Registry(e1, e2) == [l \in Libs |-> IF l = l1 THEN e1 ELSE e2]
MCChains == {[r \in Registries |-> IF r = "active" THEN Registry(e1, e2) ELSE Registry(Foreign, New)] :
                 e1 \in {New, Mine, Foreign}, e2 \in {New, Mine}}

MCManifests == {EmptyManifest, [EmptyManifest EXCEPT !.legacy = TRUE],
                Manifest("other", 1, 1), Manifest("active", Latest, 1)}

\* Only an install reads cdm.json, only a deploy reads the project.
MCStarts ==
    {s \in [flags : MCFlags, project : MCProjects, manifest : MCManifests, chain : MCChains] :
        /\ s.flags.cmd = "install" => s.project.layers = <<>>
        /\ s.flags.cmd = "deploy" => s.manifest = EmptyManifest}
=============================================================================
