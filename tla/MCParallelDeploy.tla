-------------------------- MODULE MCParallelDeploy --------------------------
(* A small batch for TLC. *)
EXTENDS ParallelDeploy

CONSTANTS k1, k2, session, slot, alice

\* The last app signs as somebody else; the others share one phone session,
\* whose storage is signed by its slot key.
TwoKeys == {k1, k2}
SplitKey == [a \in Apps |-> IF a = NumApps - 1 THEN k2 ELSE k1]
SplitAccounts == {alice, session, slot}
SplitSignsWith == [a \in Apps |-> IF a = NumApps - 1 THEN {alice} ELSE {session, slot}]
SomeSkipBuild == [a \in Apps |-> a = 0]
=============================================================================
