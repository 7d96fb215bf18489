---------------------------- MODULE SigningProxy ----------------------------
(***************************************************************************)
(* What one deploy shows while it waits for the phone                      *)
(* (utils/deploy/signingProxy.ts and its consumer in DeployScreen.tsx).    *)
(*                                                                         *)
(* A deploy needs a list of approvals: allowance grants, DotNS operations  *)
(* submitted by bulletin-deploy, the registry publish.  Each request takes *)
(* a step from one shared counter and a label; bulletin-deploy times a     *)
(* request out and asks again while the earlier request is still pending,  *)
(* so several attempts of one operation can be answered, in any order.     *)
(***************************************************************************)
EXTENDS Naturals, Sequences, FiniteSets

CONSTANTS Operations,         \* the kind of each operation of the deploy, in order
          Labels,             \* labels of the DotNS approvals the plan predicts
          MaxRegistryRetries, \* publish attempts (playground.ts)
          MaxCalls            \* bound on signer calls

Kinds == {"allowance", "dotns", "publish"}

ASSUME PlanAssumption ==
    /\ Operations \in Seq(Kinds)
    /\ Labels \in Seq(STRING) /\ Labels # <<>>
    /\ MaxRegistryRetries \in Nat \ {0}
    /\ MaxCalls \in Nat

VARIABLES step,       \* the counter: steps reserved so far
          current,    \* the counter: the request the last step is for
          completed,  \* wrapDotnsSigner: signatures completed, by label index
          calls,      \* every signer call, in the order they were issued
          op,         \* the operation the deploy is at
          phase,      \* "ready" to ask for op, "waiting", "failed"
          tries,      \* failed registry publish attempts
          prompt      \* RunningStage.signingPrompt: a call number, 0 for null

vars == <<step, current, completed, calls, op, phase, tries, prompt>>

NoRequest == [label |-> "none", attempt |-> 0, done |-> TRUE]

Init ==
    /\ step = 0
    /\ current = NoRequest
    /\ completed = 0
    /\ calls = <<>>
    /\ op = 1
    /\ phase = "ready"
    /\ tries = 0
    /\ prompt = 0

Kind(o) == Operations[o]
Over == op > Len(Operations)
\* DotNS operations before operation o.
DotnsBefore(o) == Cardinality({p \in 1..(o - 1) : Operations[p] = "dotns"})
\* labels[index] ?? fallbackLabel
DotnsLabel(index) == IF index < Len(Labels) THEN Labels[index + 1] ELSE Labels[Len(Labels)]
LabelOf(kind) == IF kind = "dotns" THEN DotnsLabel(completed) ELSE kind

-----------------------------------------------------------------------------
\* The counter reads a request as a re-send of the approval it last numbered.
IsResend(label) == ~current.done /\ current.label = label

\* Faulty variant: every request takes a new step.
NumberEveryRequest(label) ==
    /\ step' = step + 1
    /\ current' = [label |-> label, attempt |-> 1, done |-> FALSE]

\* SigningCounter.next
CounterNext(label) ==
    IF IsResend(label)
    THEN /\ step' = step
         /\ current' = [current EXCEPT !.attempt = @ + 1]
    ELSE /\ step' = step + 1
         /\ current' = [label |-> label, attempt |-> 1, done |-> FALSE]

\* SigningCounter.complete: a late completion of an earlier step closes nothing.
CounterComplete(s) ==
    current' = IF s = step THEN [current EXCEPT !.done = TRUE] ELSE current

\* completed = Math.max(completed, index + 1)
CompletedMax(call) ==
    IF call.kind = "dotns" /\ call.index + 1 > completed THEN call.index + 1 ELSE completed

-----------------------------------------------------------------------------
\* Faulty variant: only the first request of a step is shown.
AskQuietly ==
    /\ Len(calls) < MaxCalls
    /\ prompt' = IF IsResend(LabelOf(Kind(op))) THEN prompt ELSE Len(calls) + 1
    /\ CounterNext(LabelOf(Kind(op)))
    /\ calls' = Append(calls, [op |-> op, kind |-> Kind(op), index |-> completed,
                               label |-> LabelOf(Kind(op)), step |-> step',
                               state |-> "pending", settledAt |-> 0])
    /\ phase' = "waiting"
    /\ UNCHANGED <<completed, op, tries>>

\* Faulty variant: the label advances with every call, not with completed signatures.
AskCountingCalls ==
    /\ Len(calls) < MaxCalls
    /\ CounterNext(LabelOf(Kind(op)))
    /\ calls' = Append(calls, [op |-> op, kind |-> Kind(op), index |-> completed,
                               label |-> LabelOf(Kind(op)), step |-> step',
                               state |-> "pending", settledAt |-> 0])
    /\ completed' = IF Kind(op) = "dotns" THEN completed + 1 ELSE completed
    /\ prompt' = Len(calls')
    /\ phase' = "waiting"
    /\ UNCHANGED <<op, tries>>

\* The deploy asks the phone for the current operation: sign-request.
Ask ==
    /\ Len(calls) < MaxCalls
    /\ CounterNext(LabelOf(Kind(op)))
    /\ calls' = Append(calls, [op |-> op, kind |-> Kind(op), index |-> completed,
                               label |-> LabelOf(Kind(op)), step |-> step',
                               state |-> "pending", settledAt |-> 0])
    /\ prompt' = Len(calls')
    /\ phase' = "waiting"
    /\ UNCHANGED <<completed, op, tries>>

Request == ~Over /\ phase = "ready" /\ Ask

\* bulletin-deploy times out and calls the signer again, the first call pending.
Resend == ~Over /\ phase = "waiting" /\ Kind(op) = "dotns" /\ Ask

\* papi sizes a transaction with a mocked signature: passed through unannounced.
Estimate ==
    /\ ~Over /\ phase = "ready" /\ Kind(op) # "allowance"
    /\ UNCHANGED vars

Latest(c) == c = Len(calls)

Settle(c, how) ==
    calls' = [calls EXCEPT ![c].state = how, ![c].settledAt = Len(calls)]

\* The phone answers call c.  Only the newest call's caller still listens.
Approve(c) ==
    /\ calls[c].state = "pending"
    /\ Settle(c, "approved")
    /\ CounterComplete(calls[c].step)
    /\ completed' = CompletedMax(calls[c])
    /\ prompt' = 0
    /\ IF Latest(c) /\ phase = "waiting"
       THEN \/ op' = op + 1 /\ phase' = "ready" /\ tries' = 0
            \/ /\ calls[c].kind = "publish"  \* the signed publish does not land
               /\ tries' = tries + 1
               /\ phase' = IF tries' < MaxRegistryRetries THEN "ready" ELSE "failed"
               /\ op' = op
       ELSE UNCHANGED <<op, phase, tries>>
    /\ UNCHANGED step

\* The phone rejects call c, or the request errors.  A publish is retried; a
\* refused grant ends the deploy; bulletin-deploy may ask again or give up.
Reject(c) ==
    /\ calls[c].state = "pending"
    /\ Settle(c, "rejected")
    /\ prompt' = 0
    /\ IF Latest(c) /\ phase = "waiting"
       THEN \/ calls[c].kind = "allowance" /\ phase' = "failed" /\ tries' = tries
            \/ /\ calls[c].kind = "publish"
               /\ tries' = tries + 1
               /\ phase' = IF tries' < MaxRegistryRetries THEN "ready" ELSE "failed"
            \/ calls[c].kind = "dotns" /\ phase' \in {"ready", "failed"} /\ tries' = tries
       ELSE UNCHANGED <<phase, tries>>
    /\ UNCHANGED <<step, current, completed, op>>

\* Nothing can move: the deploy is over, waits for the user, or the bound is met.
Idle ==
    /\ Over \/ phase = "failed" \/ Len(calls) = MaxCalls
    /\ UNCHANGED vars

Next ==
    \/ Request \/ Resend \/ Estimate
    \/ \E c \in 1..Len(calls) : Approve(c) \/ Reject(c)
    \/ Idle

Spec == Init /\ [][Next]_vars

-----------------------------------------------------------------------------
Approvals == Cardinality({c \in 1..Len(calls) : calls[c].state = "approved"})

\* "Steps count APPROVALS, not requests" (signingProxy.ts:57): the number on
\* screen never runs ahead of the approvals the user has really given, however
\* many requests time out, are re-sent, rejected or answered late.
StallIsNotProgress == step <= Approvals + 1

\* The DotNS attempts approved after the deploy had given them up, while the newest
\* call was among the first n.
LateApprovals(n) ==
    {k \in 1..Len(calls) : /\ calls[k].kind = "dotns" /\ calls[k].state = "approved"
                           /\ k < calls[k].settledAt /\ calls[k].settledAt <= n}

\* "The label advances on COMPLETED signatures, not on calls" (signingProxy.ts:132): a
\* request is never labelled as an operation already done, and it is labelled as a later
\* one only as far as attempts given up on had been approved late before it was sent.
\* So time-outs, re-sends and refusals alone never shift a label, in either direction.
LabelTracksOperations ==
    \A c \in 1..Len(calls) : calls[c].kind = "dotns" =>
        /\ DotnsBefore(calls[c].op) <= calls[c].index
        /\ calls[c].index <= DotnsBefore(calls[c].op) + Cardinality(LateApprovals(c - 1))

\* The screen stops asking for the phone while the newest request is pending
\* only when an attempt given up on was answered after that request was shown.
PromptLostOnlyToLateAnswer ==
    phase = "waiting" /\ prompt = 0 =>
        \E c \in 1..(Len(calls) - 1) : calls[c].settledAt = Len(calls)

=============================================================================
