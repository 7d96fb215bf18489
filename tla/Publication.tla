----------------------------- MODULE Publication -----------------------------
(***************************************************************************)
(* What one deploy promises, whoever signs it and whatever fails: the app  *)
(* comes into being in order (content, then its name, then the metadata,   *)
(* then the registry entry that points at them), nothing is made that was  *)
(* not asked for or is taken back, and "ok" is said only when all of it is *)
(* there.  An error promises nothing: one more effect may be on its way,   *)
(* since a transaction can land after its submitter gave up.               *)
(*                                                                         *)
(* DeployPipeline, with its allowances, clients, prompts, re-checks and    *)
(* retries, implements this module.                                        *)
(***************************************************************************)
VARIABLES wanted,   \* the effects asked for
          made,     \* the effects on chain
          verdict   \* what the user is told

vars == <<wanted, made, verdict>>

Site == {"content", "link"}
Listing == {"metadata", "entry"}

\* The effects that each effect rests on.
RestsOn(f) ==
    CASE f = "content" -> {}
      [] f = "link" -> {"content"}
      [] f = "metadata" -> {"content", "link"}
      [] f = "entry" -> {"content", "link", "metadata"}

Init ==
    /\ wanted \in {Site, Site \cup Listing}
    /\ made = {}
    /\ verdict = "none"

\* One effect reaches the chain.
Make(f) ==
    /\ verdict # "ok"
    /\ RestsOn(f) \subseteq made
    /\ made' = made \cup {f}

\* The deploy ends; its last effect may land in the same step.
Conclude ==
    /\ verdict = "none"
    /\ \/ verdict' = "ok" /\ wanted = made'
       \/ verdict' = "error"

Next ==
    /\ UNCHANGED made \/ \E f \in wanted : Make(f)
    /\ UNCHANGED verdict \/ Conclude
    /\ UNCHANGED wanted

Spec == Init /\ [][Next]_vars
=============================================================================
