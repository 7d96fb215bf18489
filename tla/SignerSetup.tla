---------------------------- MODULE SignerSetup -----------------------------
(***************************************************************************)
(* Which account does what in a deploy (utils/deploy/signerMode.ts), as    *)
(* operators over the signer mode and the user signer preflight resolved.  *)
(*                                                                         *)
(* Accounts: "session" is the product account behind the paired phone,     *)
(* "suri" the local key given with --suri, "devKey" the shared publishing  *)
(* key (DEV_PUBLISH_ADDRESS), "slotKey" the Bulletin allowance key of a    *)
(* session, which uploads but owns nothing.                                *)
(***************************************************************************)
EXTENDS Sequences

None == "none"
Modes == {"dev", "phone"}
Users == {None, "session", "suri"}
Accounts == {"session", "suri", "devKey", "slotKey"}
Plans == {None, "register", "update"}

\* resolveDotnsOwnerAddress: whose domains count as "mine" in the check.
DotnsOwner(mode, user) ==
    IF mode = "phone" THEN user
    ELSE IF user = "suri" THEN "suri"
    ELSE "devKey"

\* resolveSignerSetup throws: a phone deploy with no user signer at all.
SetupFails(mode, user) == mode = "phone" /\ user = None

\* resolveSignerSetup, bulletinDeployAuthOptions: who signs DotNS.
DotnsSigner(mode, user) ==
    IF mode = "phone" THEN user
    ELSE IF user = "suri" THEN "suri"
    ELSE "devKey"

\* resolveSignerSetup, publishSigner: who signs the registry publish.
PublishSigner(mode, user, publish) ==
    IF ~publish THEN None
    ELSE IF mode = "phone" \/ user = "suri" THEN user
    ELSE "devKey"

\* resolveStorageSignerOptions: who signs the Bulletin chunks; None leaves the
\* choice to bulletin-deploy.
StorageSigner(mode, user) ==
    IF user = "suri" THEN "suri"
    ELSE IF mode = "dev" THEN "devKey"
    ELSE IF user = "session" THEN "slotKey"
    ELSE None

\* contractSignerOverride, resolveContractSignerOptions: who signs a contract deploy;
\* a mnemonic of the environment counts as the dev key.
ContractSigner(mode, user, contracts) ==
    IF ~contracts THEN None
    ELSE IF mode = "phone" \/ user = "suri" THEN user
    ELSE "devKey"

\* Faulty variant: a dev deploy announces a publish tap, too.
ApprovalsAlways(mode, plan, publish) ==
    (IF mode = "dev" THEN <<>> ELSE <<"reserve", "finalize", "link">>)
    \o (IF publish THEN <<"publish">> ELSE <<>>)

\* dotnsApprovals and the publish entry: the phone taps announced up front.
\* Without a plan the longer list is assumed.
Approvals(mode, plan, publish) ==
    IF mode = "dev" THEN <<>>
    ELSE (IF plan = "update" THEN <<"link">> ELSE <<"reserve", "finalize", "link">>)
         \o (IF publish THEN <<"publish">> ELSE <<>>)

\* buildSummaryView, approvalHint: the taps that are mentioned but not counted.
ApprovalHint(mode, contracts) ==
    IF mode # "phone" THEN {}
    ELSE IF contracts THEN {"contracts", "allowance"} ELSE {"allowance"}

\* renderSummaryText and ConfirmStage: what the user reads before confirming.  The
\* hint is printed under the counted taps, so not without any.
Announced(mode, plan, publish, contracts) ==
    LET taps == Approvals(mode, plan, publish)
        counted == {taps[i] : i \in DOMAIN taps}
    IN  IF counted = {} THEN {} ELSE counted \cup ApprovalHint(mode, contracts)
=============================================================================
