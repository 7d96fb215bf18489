-------------------------- MODULE SerialSubmission --------------------------
(***************************************************************************)
(* What the signing gate promises (the nonce-safety contract stated in     *)
(* src/src/utils/deploy/signingGate.ts, lines 19-48): each deploy owns the *)
(* accounts it signs with for one uninterrupted period, and while it does  *)
(* every extrinsic it submits takes exactly the account's next nonce.      *)
(*                                                                         *)
(* There is no separate "read the next index" step here: reading and       *)
(* submitting are one atomic step.  ParallelDeploy, where they are two,    *)
(* implements this module.                                                 *)
(***************************************************************************)
EXTENDS Naturals

CONSTANTS Deploys,      \* the deploys of one batch
          Accounts,     \* the on-chain accounts
          SignsWith     \* the accounts each deploy submits from

VARIABLES holding,      \* the deploys that own their accounts now
          finished,     \* the deploys that gave them up again
          nonce         \* the next nonce of every account

vars == <<holding, finished, nonce>>

Init ==
    /\ holding = {}
    /\ finished = {}
    /\ nonce = [x \in Accounts |-> 0]

\* A deploy takes all its accounts at once, and only once in its life.
Acquire(d) ==
    /\ d \notin holding \cup finished
    /\ \A e \in holding : SignsWith[e] \cap SignsWith[d] = {}
    /\ holding' = holding \cup {d}
    /\ UNCHANGED <<finished, nonce>>

\* One extrinsic, included with the account's next nonce.
Submit(d, x) ==
    /\ d \in holding
    /\ x \in SignsWith[d]
    /\ nonce' = [nonce EXCEPT ![x] = nonce[x] + 1]
    /\ UNCHANGED <<holding, finished>>

\* The deploy settles, whether it succeeded or failed.
Release(d) ==
    /\ d \in holding
    /\ holding' = holding \ {d}
    /\ finished' = finished \cup {d}
    /\ UNCHANGED nonce

Next ==
    \E d \in Deploys :
        \/ Acquire(d)
        \/ \E x \in Accounts : Submit(d, x)
        \/ Release(d)

Spec == Init /\ [][Next]_vars
=============================================================================
