-------------------------- MODULE MCDeployCommand ---------------------------
(* Every command line of `playground deploy` that TLC explores. *)
EXTENDS DeployCommand

AllFlags == FlagShape
=============================================================================
