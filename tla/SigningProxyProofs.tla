------------------------- MODULE SigningProxyProofs -------------------------
(***************************************************************************)
(* The safety properties of SigningProxy, for every list of operations,    *)
(* every list of predicted labels and every number of calls; and, at the   *)
(* end, that of ConsoleOverride, the console.error swap of the deploys     *)
(* that run side by side, for every set of apps.                           *)
(***************************************************************************)
EXTENDS SigningProxy, ConsoleOverride, FiniteSetTheorems, SequenceTheorems, TLAPS

-----------------------------------------------------------------------------
(* Types.                                                                  *)

AllLabels == {DotnsLabel(i) : i \in Nat} \cup Kinds \cup {"none"}

CallRec == [op : Nat, kind : Kinds, index : Nat, label : AllLabels, step : Nat,
            state : {"pending", "approved", "rejected"}, settledAt : Nat]

TypeOK ==
    /\ step \in Nat /\ completed \in Nat /\ tries \in Nat /\ prompt \in Nat
    /\ current \in [label : AllLabels, attempt : Nat, done : BOOLEAN]
    /\ calls \in Seq(CallRec)
    /\ op \in 1..(Len(Operations) + 1)
    /\ phase \in {"ready", "waiting", "failed"}
    /\ phase = "waiting" => ~Over

\* The call a request appends.
NewCall == [op |-> op, kind |-> Kind(op), index |-> completed, label |-> LabelOf(Kind(op)),
            step |-> step', state |-> "pending", settledAt |-> 0]

\* What a request finds and leaves.
LEMMA AskFacts ==
    ASSUME TypeOK, ~Over, Ask
    PROVE  /\ Kind(op) \in Kinds /\ LabelOf(Kind(op)) \in AllLabels
           /\ step' \in {step, step + 1}
           /\ current' \in [label : AllLabels, attempt : Nat, done : BOOLEAN]
           /\ current'.label = LabelOf(Kind(op)) /\ current'.done = FALSE
           /\ NewCall \in CallRec
           /\ calls' = Append(calls, NewCall)
           /\ calls' \in Seq(CallRec)
           /\ Len(calls) \in Nat
           /\ Len(calls') = Len(calls) + 1 /\ calls'[Len(calls')] = NewCall
           /\ \A k \in 1..Len(calls) : calls'[k] = calls[k]
           /\ phase' = "waiting" /\ prompt' = Len(calls')
           /\ completed' = completed /\ op' = op /\ tries' = tries
  <1>1. Len(Operations) \in Nat /\ op \in 1..Len(Operations)
    BY PlanAssumption DEF TypeOK, Over
  <1>2. Kind(op) \in Kinds
    BY <1>1, PlanAssumption DEF Kind
  <1>3. LabelOf(Kind(op)) \in AllLabels
    BY <1>2 DEF LabelOf, AllLabels, TypeOK
  <1> DEFINE l == LabelOf(Kind(op))
  <1> HIDE DEF l
  <1>4. CounterNext(l)
    BY DEF Ask, l
  <1>5. /\ step' \in {step, step + 1} /\ step' \in Nat
        /\ current' \in [label : AllLabels, attempt : Nat, done : BOOLEAN]
        /\ current'.label = l /\ current'.done = FALSE
    <2>1. l \in AllLabels
      BY <1>3 DEF l
    <2>2. CASE IsResend(l)
      <3>1. current' = [current EXCEPT !.attempt = @ + 1] /\ step' = step
        BY <1>4, <2>2 DEF CounterNext
      <3>2. current.label = l /\ current.done = FALSE
        BY <2>2 DEF IsResend, TypeOK
      <3> QED BY <3>1, <3>2 DEF TypeOK
    <2>3. CASE ~IsResend(l)
      <3>1. current' = [label |-> l, attempt |-> 1, done |-> FALSE] /\ step' = step + 1
        BY <1>4, <2>3 DEF CounterNext
      <3> QED BY <2>1, <3>1 DEF TypeOK
    <2> QED BY <2>2, <2>3
  <1>6. NewCall \in CallRec
    BY <1>1, <1>2, <1>3, <1>5 DEF NewCall, CallRec, TypeOK
  <1>7. calls' = Append(calls, NewCall)
    BY DEF Ask, NewCall
  <1> HIDE DEF NewCall
  <1>8. calls \in Seq(CallRec)
    BY DEF TypeOK
  <1>9. /\ calls' \in Seq(CallRec) /\ Len(calls) \in Nat
        /\ Len(calls') = Len(calls) + 1 /\ calls'[Len(calls')] = NewCall
        /\ \A k \in 1..Len(calls) : calls'[k] = calls[k]
    BY <1>6, <1>7, <1>8
  <1> QED BY <1>2, <1>3, <1>5, <1>6, <1>7, <1>9 DEF Ask, l

\* What an answer leaves of the calls.
LEMMA SettleFacts ==
    ASSUME TypeOK, NEW c \in 1..Len(calls), NEW how \in {"approved", "rejected"}, Settle(c, how)
    PROVE  /\ calls' \in Seq(CallRec) /\ Len(calls') = Len(calls) /\ Len(calls) \in Nat
           /\ \A k \in 1..Len(calls) : k # c => calls'[k] = calls[k]
           /\ calls'[c].state = how /\ calls'[c].settledAt = Len(calls)
           /\ calls'[c].op = calls[c].op /\ calls'[c].kind = calls[c].kind
           /\ calls'[c].index = calls[c].index
  <1>1. calls \in Seq(CallRec) /\ Len(calls) \in Nat /\ calls[c] \in CallRec
    BY DEF TypeOK
  <1> DEFINE r == [calls[c] EXCEPT !.state = how, !.settledAt = Len(calls)]
  <1>2. /\ r \in CallRec /\ r.state = how /\ r.settledAt = Len(calls)
        /\ r.op = calls[c].op /\ r.kind = calls[c].kind /\ r.index = calls[c].index
    BY <1>1 DEF CallRec
  <1>3. calls' = [calls EXCEPT ![c] = r]
    BY <1>1 DEF Settle
  <1> HIDE DEF r
  <1>4. /\ calls' \in Seq(CallRec) /\ Len(calls') = Len(calls) /\ calls'[c] = r
        /\ \A k \in 1..Len(calls) : k # c => calls'[k] = calls[k]
    BY <1>1, <1>2, <1>3
  <1> QED BY <1>1, <1>2, <1>4

\* The types hold at the start and after every step.
LEMMA TypeInvariant == Spec => []TypeOK
  <1>1. Init => TypeOK
    <2> SUFFICES ASSUME Init PROVE TypeOK
      OBVIOUS
    <2>1. current \in [label : AllLabels, attempt : Nat, done : BOOLEAN]
      BY DEF Init, NoRequest, AllLabels
    <2>2. Len(Operations) \in Nat
      BY PlanAssumption
    <2> QED BY <2>1, <2>2 DEF Init, TypeOK
  <1>2. TypeOK /\ [Next]_vars => TypeOK'
    <2> SUFFICES ASSUME TypeOK, [Next]_vars PROVE TypeOK'
      OBVIOUS
    <2>0. Len(Operations) \in Nat
      BY PlanAssumption
    <2>1. ASSUME ~Over, Ask PROVE TypeOK'
      <3>1. /\ current' \in [label : AllLabels, attempt : Nat, done : BOOLEAN]
            /\ calls' \in Seq(CallRec) /\ step' \in {step, step + 1}
            /\ phase' = "waiting" /\ prompt' = Len(calls')
            /\ completed' = completed /\ op' = op /\ tries' = tries
        BY <2>1, AskFacts
      <3>2. prompt' \in Nat /\ step' \in Nat
        BY <3>1 DEF TypeOK
      <3>3. ~Over'
        BY <2>1, <3>1 DEF Over
      <3> QED BY <3>1, <3>2, <3>3 DEF TypeOK
    <2>2. ASSUME NEW c \in 1..Len(calls), Approve(c) PROVE TypeOK'
      <3>1. calls' \in Seq(CallRec)
        BY <2>2, SettleFacts DEF Approve
      <3>2. completed' \in Nat
        <4>1. calls[c] \in CallRec
          BY DEF TypeOK
        <4>2. calls[c].index \in Nat
          BY <4>1 DEF CallRec
        <4> QED BY <2>2, <4>2 DEF Approve, CompletedMax, TypeOK
      <3>3. current' \in [label : AllLabels, attempt : Nat, done : BOOLEAN]
        BY <2>2 DEF Approve, CounterComplete, TypeOK
      <3>4. /\ op' \in 1..(Len(Operations) + 1) /\ phase' \in {"ready", "waiting", "failed"}
            /\ tries' \in Nat /\ (phase' = "waiting" => op' = op /\ phase = "waiting")
        BY <2>0, <2>2 DEF Approve, TypeOK, Over
      <3> QED BY <2>2, <3>1, <3>2, <3>3, <3>4 DEF Approve, TypeOK, Over
    <2>3. ASSUME NEW c \in 1..Len(calls), Reject(c) PROVE TypeOK'
      <3>1. calls' \in Seq(CallRec)
        BY <2>3, SettleFacts DEF Reject
      <3>2. /\ phase' \in {"ready", "waiting", "failed"}
            /\ tries' \in Nat /\ (phase' = "waiting" => phase = "waiting")
        BY <2>3 DEF Reject, TypeOK
      <3> QED BY <2>3, <3>1, <3>2 DEF Reject, TypeOK, Over
    <2>4. CASE UNCHANGED vars
      BY <2>4 DEF vars, TypeOK, Over
    <2> QED BY <2>1, <2>2, <2>3, <2>4 DEF Next, Request, Resend, Estimate, Idle
  <1> QED BY <1>1, <1>2, PTL DEF Spec

-----------------------------------------------------------------------------
(* The counter.                                                            *)

\* The approved calls; the calls are finitely many.
Approved == {k \in 1..Len(calls) : calls[k].state = "approved"}

\* The number of approvals is a natural number, in every state.
LEMMA ApprovedFinite ==
    ASSUME TypeOK
    PROVE  IsFiniteSet(Approved) /\ Cardinality(Approved) \in Nat
  <1>1. Len(calls) \in Nat
    BY DEF TypeOK
  <1>2. IsFiniteSet(1..Len(calls))
    BY <1>1, FS_Interval
  <1>3. Approved \subseteq 1..Len(calls)
    BY DEF Approved
  <1>4. IsFiniteSet(Approved)
    BY <1>2, <1>3, FS_Subset
  <1> QED BY <1>4, FS_CardinalityType

\* A request adds no approval.
LEMMA AskApproves ==
    ASSUME TypeOK, ~Over, Ask
    PROVE  Approvals' = Approvals
  <1>1. /\ Len(calls) \in Nat /\ Len(calls') = Len(calls) + 1
        /\ calls'[Len(calls')] = NewCall
        /\ \A k \in 1..Len(calls) : calls'[k] = calls[k]
    BY AskFacts
  <1>2. NewCall.state = "pending"
    BY DEF NewCall
  <1>3. Approved' = Approved
    BY <1>1, <1>2 DEF Approved
  <1> QED BY <1>3 DEF Approved, Approvals

\* A refusal adds none.
LEMMA RejectApproves ==
    ASSUME TypeOK, NEW c \in 1..Len(calls), calls[c].state = "pending", Settle(c, "rejected")
    PROVE  Approvals' = Approvals
  <1>1. Approved' = Approved
    BY SettleFacts DEF Approved
  <1> QED BY <1>1 DEF Approved, Approvals

\* An approval adds one.
LEMMA ApproveApproves ==
    ASSUME TypeOK, NEW c \in 1..Len(calls), calls[c].state = "pending", Settle(c, "approved")
    PROVE  Approvals' = Approvals + 1
  <1>1. Approved' = Approved \cup {c} /\ c \notin Approved
    BY SettleFacts DEF Approved
  <1>2. Cardinality(Approved \cup {c}) = Cardinality(Approved) + 1
    BY <1>1, ApprovedFinite, FS_AddElement
  <1> QED BY <1>1, <1>2 DEF Approved, Approvals

\* The step runs ahead of the approvals by at most one, and not at all when the
\* next request would take a new step.
CountInv ==
    /\ step <= Approvals + 1
    /\ ~IsResend(LabelOf(Kind(op))) => step <= Approvals

\* Every step keeps the count.
LEMMA CountPreserved ==
    ASSUME TypeOK, CountInv, [Next]_vars
    PROVE  CountInv'
  <1>0. Approvals \in Nat
    BY ApprovedFinite DEF Approved, Approvals
  <1>1. ASSUME ~Over, Ask PROVE CountInv'
    <2>1. Approvals' = Approvals
      BY <1>1, AskApproves
    <2>2. step' <= Approvals' + 1
      <3>1. CASE IsResend(LabelOf(Kind(op)))
        BY <1>1, <2>1, <3>1 DEF Ask, CounterNext, CountInv
      <3>2. CASE ~IsResend(LabelOf(Kind(op)))
        BY <1>0, <1>1, <2>1, <3>2 DEF Ask, CounterNext, CountInv, TypeOK
      <3> QED BY <3>1, <3>2
    <2>3. IsResend(LabelOf(Kind(op)))'
      <3>1. current'.label = LabelOf(Kind(op)) /\ current'.done = FALSE
            /\ completed' = completed /\ op' = op
        BY <1>1, AskFacts
      <3> QED BY <3>1 DEF IsResend, LabelOf, Kind, DotnsLabel
    <2> QED BY <2>2, <2>3 DEF CountInv
  <1>2. ASSUME NEW c \in 1..Len(calls), Approve(c) PROVE CountInv'
    <2>1. Approvals' = Approvals + 1 /\ step' = step
      BY <1>2, ApproveApproves DEF Approve
    <2>2. step' <= Approvals'
      BY <2>1 DEF CountInv
    <2>3. step' <= Approvals' + 1
      BY <1>0, <2>1, <2>2 DEF TypeOK
    <2> QED BY <2>2, <2>3 DEF CountInv
  <1>3. ASSUME NEW c \in 1..Len(calls), Reject(c) PROVE CountInv'
    <2>1. Approvals' = Approvals /\ step' = step
      BY <1>3, RejectApproves DEF Reject
    <2>2. UNCHANGED <<step, current, completed, op>>
      BY <1>3 DEF Reject
    <2>3. IsResend(LabelOf(Kind(op)))' <=> IsResend(LabelOf(Kind(op)))
      BY <2>2 DEF IsResend, LabelOf, Kind, DotnsLabel
    <2> QED BY <2>1, <2>3 DEF CountInv
  <1>4. CASE UNCHANGED vars
    <2>1. Approvals' = Approvals
      BY <1>4 DEF vars, Approvals
    <2>2. IsResend(LabelOf(Kind(op)))' <=> IsResend(LabelOf(Kind(op)))
      BY <1>4 DEF vars, IsResend, LabelOf, Kind, DotnsLabel
    <2> QED BY <1>4, <2>1, <2>2 DEF vars, CountInv
  <1> QED BY <1>1, <1>2, <1>3, <1>4 DEF Next, Request, Resend, Estimate, Idle

\* The step on screen counts approvals, not requests: for every deploy and every
\* order of time-outs, re-sends, refusals and late answers.
THEOREM StepsCountApprovals == Spec => []StallIsNotProgress
  <1>1. Init => CountInv
    <2> SUFFICES ASSUME Init PROVE CountInv
      OBVIOUS
    <2>1. TypeOK => Approvals \in Nat
      BY ApprovedFinite DEF Approved, Approvals
    <2>2. Approved = {}
      BY DEF Init, Approved
    <2>3. Approvals = 0
      BY <2>2, FS_EmptySet DEF Approved, Approvals
    <2> QED BY <2>3 DEF Init, CountInv
  <1>2. TypeOK /\ CountInv /\ [Next]_vars => CountInv'
    BY CountPreserved
  <1>3. CountInv => StallIsNotProgress
    BY DEF CountInv, StallIsNotProgress
  <1> QED BY <1>1, <1>2, <1>3, TypeInvariant, PTL DEF Spec

-----------------------------------------------------------------------------
(* The labels.                                                             *)

DotnsAt(o) == {p \in 1..(o - 1) : Operations[p] = "dotns"}

\* The DotNS operations before an operation grow by that operation.
LEMMA DotnsBeforeNext ==
    ASSUME NEW o \in Nat \ {0}
    PROVE  /\ DotnsBefore(o) \in Nat
           /\ DotnsBefore(o + 1) = DotnsBefore(o) + (IF Kind(o) = "dotns" THEN 1 ELSE 0)
  <1>1. IsFiniteSet(1..(o - 1))
    BY FS_Interval
  <1>2. DotnsAt(o) \subseteq 1..(o - 1)
    BY DEF DotnsAt
  <1>3. IsFiniteSet(DotnsAt(o)) /\ Cardinality(DotnsAt(o)) \in Nat
    BY <1>1, <1>2, FS_Subset, FS_CardinalityType
  <1>4. CASE Kind(o) = "dotns"
    <2>1. DotnsAt(o + 1) = DotnsAt(o) \cup {o} /\ o \notin DotnsAt(o)
      BY <1>4 DEF DotnsAt, Kind
    <2>2. Cardinality(DotnsAt(o) \cup {o}) = Cardinality(DotnsAt(o)) + 1
      BY <1>3, <2>1, FS_AddElement
    <2> QED BY <1>3, <1>4, <2>1, <2>2 DEF DotnsBefore, DotnsAt
  <1>5. CASE Kind(o) # "dotns"
    <2>1. DotnsAt(o + 1) = DotnsAt(o)
      BY <1>5 DEF DotnsAt, Kind
    <2> QED BY <1>3, <1>5, <2>1 DEF DotnsBefore, DotnsAt
  <1> QED BY <1>4, <1>5

\* A call is for its operation's kind, and a DotNS call's index is past every
\* DotNS operation before its own.
CallLabelled(k) ==
    /\ calls[k].op \in Nat \ {0}
    /\ calls[k].kind = Kind(calls[k].op)
    /\ calls[k].kind = "dotns" => DotnsBefore(calls[k].op) <= calls[k].index

\* The signatures completed cover the DotNS operations done; the operation the
\* deploy waits for is the newest call's.
LabelInv ==
    /\ DotnsBefore(op) <= completed
    /\ \A k \in 1..Len(calls) : CallLabelled(k)
    /\ phase = "waiting" => Len(calls) > 0 /\ calls[Len(calls)].op = op

\* Every step keeps the labels.
LEMMA LabelPreserved ==
    ASSUME TypeOK, LabelInv, [Next]_vars
    PROVE  LabelInv'
  <1>0. op \in Nat \ {0} /\ Len(calls) \in Nat /\ completed \in Nat
    BY PlanAssumption DEF TypeOK
  <1>1. ASSUME ~Over, Ask PROVE LabelInv'
    <2>1. /\ Len(calls') = Len(calls) + 1 /\ calls'[Len(calls')] = NewCall
          /\ \A k \in 1..Len(calls) : calls'[k] = calls[k]
          /\ phase' = "waiting" /\ completed' = completed /\ op' = op
      BY <1>1, AskFacts
    <2>2. NewCall.op = op /\ NewCall.kind = Kind(op) /\ NewCall.index = completed
      BY DEF NewCall
    <2>3. DotnsBefore(op)' <= completed'
      BY <2>1 DEF LabelInv, DotnsBefore
    <2>4. ASSUME NEW k \in 1..Len(calls') PROVE CallLabelled(k)'
      <3>1. CASE k \in 1..Len(calls)
        BY <2>1, <3>1 DEF LabelInv, CallLabelled, Kind, DotnsBefore
      <3>2. CASE k = Len(calls')
        BY <1>0, <2>1, <2>2, <3>2 DEF LabelInv, CallLabelled, Kind, DotnsBefore
      <3> QED BY <1>0, <2>1, <3>1, <3>2
    <2>5. Len(calls') > 0 /\ calls'[Len(calls')].op = op'
      BY <1>0, <2>1, <2>2
    <2> QED BY <2>3, <2>4, <2>5 DEF LabelInv
  <1>2. ASSUME NEW c \in 1..Len(calls), NEW how \in {"approved", "rejected"}, Settle(c, how)
        PROVE  /\ \A k \in 1..Len(calls') : CallLabelled(k)'
               /\ Len(calls') = Len(calls)
               /\ \A k \in 1..Len(calls) : calls'[k].op = calls[k].op
    <2>1. /\ Len(calls') = Len(calls)
          /\ \A k \in 1..Len(calls) : k # c => calls'[k] = calls[k]
          /\ calls'[c].op = calls[c].op /\ calls'[c].kind = calls[c].kind
          /\ calls'[c].index = calls[c].index
      BY <1>2, SettleFacts
    <2>2. ASSUME NEW k \in 1..Len(calls') PROVE CallLabelled(k)'
      <3>1. CallLabelled(k)
        BY <2>1 DEF LabelInv
      <3>2. /\ calls'[k].op = calls[k].op /\ calls'[k].kind = calls[k].kind
            /\ calls'[k].index = calls[k].index
        BY <2>1
      <3> QED BY <3>1, <3>2 DEF CallLabelled, Kind, DotnsBefore
    <2> QED BY <2>1, <2>2
  <1>3. ASSUME NEW c \in 1..Len(calls), Approve(c) PROVE LabelInv'
    <2>1. Settle(c, "approved") /\ completed' = CompletedMax(calls[c])
      BY <1>3 DEF Approve
    <2>2. /\ \A k \in 1..Len(calls') : CallLabelled(k)'
          /\ Len(calls') = Len(calls)
          /\ \A k \in 1..Len(calls) : calls'[k].op = calls[k].op
      BY <1>2, <2>1
    <2>3. CallLabelled(c) /\ calls[c].index \in Nat
      <3>1. calls[c] \in CallRec
        BY DEF TypeOK
      <3> QED BY <3>1 DEF LabelInv, CallRec
    <2>4. completed' >= completed /\ completed' \in Nat
      BY <1>0, <2>1, <2>3 DEF CompletedMax
    <2>5. DotnsBefore(op) \in Nat
      BY <1>0, DotnsBeforeNext
    <2>6. CASE op' = op /\ (phase' = "waiting" => phase = "waiting")
      <3>1. DotnsBefore(op') <= completed'
        BY <1>0, <2>4, <2>5, <2>6 DEF LabelInv
      <3>2. phase' = "waiting" => Len(calls') > 0 /\ calls'[Len(calls')].op = op'
        BY <1>0, <2>2, <2>6 DEF LabelInv
      <3> QED BY <2>2, <3>1, <3>2 DEF LabelInv, DotnsBefore
    <2>7. CASE Latest(c) /\ phase = "waiting" /\ op' = op + 1 /\ phase' = "ready"
      <3>1. calls[c].op = op /\ calls[c].kind = Kind(op)
        BY <2>3, <2>7 DEF Latest, LabelInv, CallLabelled
      <3>2. DotnsBefore(op + 1) = DotnsBefore(op) + (IF Kind(op) = "dotns" THEN 1 ELSE 0)
        BY <1>0, DotnsBeforeNext
      <3>3. DotnsBefore(op + 1) <= completed'
        <4>1. CASE Kind(op) = "dotns"
          <5>1. DotnsBefore(op) <= calls[c].index
            BY <2>3, <3>1, <4>1 DEF CallLabelled
          <5>2. completed' >= calls[c].index + 1
            BY <1>0, <2>1, <2>3, <3>1, <4>1 DEF CompletedMax
          <5> QED BY <2>3, <2>4, <2>5, <3>2, <4>1, <5>1, <5>2
        <4>2. CASE Kind(op) # "dotns"
          BY <1>0, <2>4, <2>5, <3>2, <4>2 DEF LabelInv
        <4> QED BY <4>1, <4>2
      <3> QED BY <2>2, <2>7, <3>3 DEF LabelInv, DotnsBefore
    <2> QED BY <1>3, <2>6, <2>7 DEF Approve
  <1>4. ASSUME NEW c \in 1..Len(calls), Reject(c) PROVE LabelInv'
    <2>1. /\ Settle(c, "rejected") /\ op' = op /\ completed' = completed
          /\ phase' = "waiting" => phase = "waiting"
      BY <1>4 DEF Reject
    <2>2. /\ \A k \in 1..Len(calls') : CallLabelled(k)'
          /\ Len(calls') = Len(calls)
          /\ \A k \in 1..Len(calls) : calls'[k].op = calls[k].op
      BY <1>2, <2>1
    <2>3. phase' = "waiting" => Len(calls') > 0 /\ calls'[Len(calls')].op = op'
      BY <1>0, <2>1, <2>2 DEF LabelInv
    <2> QED BY <2>1, <2>2, <2>3 DEF LabelInv, DotnsBefore
  <1>5. CASE UNCHANGED vars
    BY <1>5 DEF vars, LabelInv, CallLabelled, Kind, DotnsBefore
  <1> QED BY <1>1, <1>3, <1>4, <1>5 DEF Next, Request, Resend, Estimate, Idle

\* The labels hold in every reachable state.
LEMMA LabelInvariant == Spec => []LabelInv
  <1>1. Init => LabelInv
    <2> SUFFICES ASSUME Init PROVE LabelInv
      OBVIOUS
    <2>1. DotnsAt(1) = {}
      BY DEF DotnsAt
    <2>2. DotnsBefore(op) = 0
      BY <2>1, FS_EmptySet DEF Init, DotnsBefore, DotnsAt
    <2> QED BY <2>2 DEF Init, LabelInv
  <1>2. TypeOK /\ LabelInv /\ [Next]_vars => LabelInv'
    BY LabelPreserved
  <1> QED BY <1>1, <1>2, TypeInvariant, PTL DEF Spec

\* A request changes no earlier count of late approvals, and its own is that of all.
LEMMA AskLate ==
    ASSUME TypeOK, ~Over, Ask, NEW n \in Nat, n <= Len(calls)
    PROVE  LateApprovals(n)' = LateApprovals(n)
  <1>1. /\ Len(calls) \in Nat /\ Len(calls') = Len(calls) + 1
        /\ calls'[Len(calls')] = NewCall
        /\ \A k \in 1..Len(calls) : calls'[k] = calls[k]
    BY AskFacts
  <1>2. NewCall.state = "pending"
    BY DEF NewCall
  <1> QED BY <1>1, <1>2 DEF LateApprovals

\* The late approvals are finitely many.
LEMMA LateFinite ==
    ASSUME TypeOK, NEW n \in Nat
    PROVE  IsFiniteSet(LateApprovals(n)) /\ Cardinality(LateApprovals(n)) \in Nat
  <1>1. Len(calls) \in Nat
    BY DEF TypeOK
  <1>2. IsFiniteSet(1..Len(calls)) /\ LateApprovals(n) \subseteq 1..Len(calls)
    BY <1>1, FS_Interval DEF LateApprovals
  <1> QED BY <1>2, FS_Subset, FS_CardinalityType

\* An answer changes no count of late approvals but that of the whole list, and that
\* one only when an abandoned DotNS attempt is approved.
LEMMA SettleLate ==
    ASSUME TypeOK, NEW c \in 1..Len(calls), calls[c].state = "pending",
           NEW how \in {"approved", "rejected"}, Settle(c, how)
    PROVE  /\ \A n \in Nat : n < Len(calls) => LateApprovals(n)' = LateApprovals(n)
           /\ LET late == how = "approved" /\ calls[c].kind = "dotns" /\ ~Latest(c)
              IN  Cardinality(LateApprovals(Len(calls)))' =
                      Cardinality(LateApprovals(Len(calls))) + (IF late THEN 1 ELSE 0)
  <1>1. /\ Len(calls') = Len(calls) /\ Len(calls) \in Nat
        /\ \A k \in 1..Len(calls) : k # c => calls'[k] = calls[k]
        /\ calls'[c].kind = calls[c].kind /\ calls'[c].state = how
        /\ calls'[c].settledAt = Len(calls)
    BY SettleFacts
  <1>2. \A n \in Nat : n < Len(calls) => LateApprovals(n)' = LateApprovals(n)
    BY <1>1 DEF LateApprovals
  <1> DEFINE N == Len(calls)
  <1>3. CASE how = "approved" /\ calls[c].kind = "dotns" /\ ~Latest(c)
    <2>1. LateApprovals(N)' = LateApprovals(N) \cup {c} /\ c \notin LateApprovals(N)
      BY <1>1, <1>3 DEF LateApprovals, Latest
    <2>2. Cardinality(LateApprovals(N) \cup {c}) = Cardinality(LateApprovals(N)) + 1
      BY <1>1, <2>1, LateFinite, FS_AddElement
    <2> QED BY <1>2, <1>3, <2>1, <2>2
  <1>4. CASE ~(how = "approved" /\ calls[c].kind = "dotns" /\ ~Latest(c))
    <2>1. LateApprovals(N)' = LateApprovals(N)
      BY <1>1, <1>4 DEF LateApprovals, Latest
    <2>2. Cardinality(LateApprovals(N)) \in Nat
      BY <1>1, LateFinite
    <2> QED BY <1>2, <1>4, <2>1, <2>2
  <1> QED BY <1>3, <1>4

\* How far ahead the labels are: the signatures completed exceed the DotNS operations
\* done by the late approvals at most, and so did they when each call was sent; a
\* pending newest call is waited for.
AheadInv ==
    /\ completed <= DotnsBefore(op) + Cardinality(LateApprovals(Len(calls)))
    /\ \A k \in 1..Len(calls) :
           /\ calls[k].index <= completed /\ calls[k].settledAt <= Len(calls)
           /\ calls[k].kind = "dotns" =>
                  calls[k].index <= DotnsBefore(calls[k].op) + Cardinality(LateApprovals(k - 1))
    /\ Len(calls) > 0 /\ calls[Len(calls)].state = "pending" => phase = "waiting"

\* Every step keeps the labels from running ahead.
LEMMA AheadPreserved ==
    ASSUME TypeOK, LabelInv, AheadInv, [Next]_vars
    PROVE  AheadInv'
  <1> DEFINE N == Len(calls)
             late(n) == Cardinality(LateApprovals(n))
  <1>0. /\ op \in Nat \ {0} /\ N \in Nat /\ completed \in Nat
        /\ \A k \in 1..N : /\ calls[k].index \in Nat /\ calls[k].op \in Nat
                           /\ calls[k].settledAt \in Nat
    <2>1. \A k \in 1..N : calls[k] \in CallRec
      BY DEF TypeOK
    <2>2. op \in Nat \ {0} /\ N \in Nat /\ completed \in Nat
      BY PlanAssumption DEF TypeOK
    <2>3. \A k \in 1..N : calls[k].settledAt \in Nat
      BY <2>1 DEF CallRec
    <2> QED BY <2>1, <2>2, <2>3 DEF CallRec
  <1>1. ASSUME ~Over, Ask PROVE AheadInv'
    <2>1. /\ Len(calls') = N + 1 /\ calls'[N + 1] = NewCall
          /\ \A k \in 1..N : calls'[k] = calls[k]
          /\ phase' = "waiting" /\ completed' = completed /\ op' = op
      BY <1>1, AskFacts
    <2>2. NewCall.op = op /\ NewCall.index = completed /\ NewCall.settledAt = 0
      BY DEF NewCall
    <2>3. \A n \in Nat : n <= N => LateApprovals(n)' = LateApprovals(n)
      BY <1>1, AskLate
    <2>4. LateApprovals(Len(calls))' = LateApprovals(N)
      <3>1. NewCall.state = "pending"
        BY DEF NewCall
      <3>2. \A k \in 1..N : calls[k].settledAt <= N
        BY DEF AheadInv
      <3> QED BY <1>0, <2>1, <3>1, <3>2 DEF LateApprovals
    <2>5. completed' <= DotnsBefore(op') + Cardinality(LateApprovals(Len(calls)))'
      BY <2>1, <2>4 DEF AheadInv
    <2>6. ASSUME NEW k \in 1..(N + 1)
          PROVE  /\ calls'[k].index <= completed' /\ calls'[k].settledAt <= N + 1
                 /\ calls'[k].kind = "dotns" =>
                        calls'[k].index <= DotnsBefore(calls'[k].op)
                                           + Cardinality(LateApprovals(k - 1)')
      <3>1. CASE k \in 1..N
        <4>1. LateApprovals(k - 1)' = LateApprovals(k - 1)
          BY <1>0, <2>3, <3>1
        <4> QED BY <1>0, <2>1, <3>1, <4>1 DEF AheadInv
      <3>2. CASE k = N + 1
        <4>1. LateApprovals(k - 1)' = LateApprovals(N)
          BY <1>0, <2>3, <3>2
        <4> QED BY <1>0, <2>1, <2>2, <3>2, <4>1 DEF AheadInv
      <3> QED BY <1>0, <3>1, <3>2
    <2> QED BY <2>1, <2>5, <2>6 DEF AheadInv, DotnsBefore
  <1>2. ASSUME NEW c \in 1..N, NEW how \in {"approved", "rejected"}, Settle(c, how),
               calls[c].state = "pending", completed' >= completed, completed' \in Nat
        PROVE  \A k \in 1..Len(calls') :
                  /\ calls'[k].index <= completed' /\ calls'[k].settledAt <= Len(calls')
                  /\ calls'[k].kind = "dotns" =>
                        calls'[k].index <= DotnsBefore(calls'[k].op)
                                           + Cardinality(LateApprovals(k - 1)')
    <2>1. /\ Len(calls') = N
          /\ \A k \in 1..N : /\ calls'[k].index = calls[k].index
                             /\ calls'[k].kind = calls[k].kind /\ calls'[k].op = calls[k].op
                             /\ calls'[k].settledAt \in {calls[k].settledAt, N}
      BY <1>2, SettleFacts
    <2>2. \A k \in 1..N : LateApprovals(k - 1)' = LateApprovals(k - 1)
      BY <1>0, <1>2, SettleLate
    <2> TAKE k \in 1..Len(calls')
    <2>3. /\ calls[k].index <= completed /\ calls[k].settledAt <= N
          /\ calls[k].kind = "dotns" =>
                calls[k].index <= DotnsBefore(calls[k].op) + Cardinality(LateApprovals(k - 1))
      BY <2>1 DEF AheadInv
    <2>4. k \in 1..N /\ calls[k].index \in Nat
      BY <1>0, <2>1
    <2> QED BY <1>0, <1>2, <2>1, <2>2, <2>3, <2>4
  <1>3. ASSUME NEW c \in 1..N, Reject(c) PROVE AheadInv'
    <2>1. /\ Settle(c, "rejected") /\ op' = op /\ completed' = completed
          /\ calls[c].state = "pending"
      BY <1>3 DEF Reject
    <2>2. Len(calls') = N /\ calls'[c].state = "rejected"
          /\ \A k \in 1..N : k # c => calls'[k] = calls[k]
      BY <2>1, SettleFacts
    <2>3. late(N)' = late(N) + 0
      BY <2>1, SettleLate
    <2>4. late(N) \in Nat
      BY <1>0, LateFinite
    <2>5. late(N)' = late(N)
      BY <2>3, <2>4
    <2>6. completed' <= DotnsBefore(op') + late(N)'
      BY <2>1, <2>5 DEF AheadInv
    <2>7. Len(calls') > 0 /\ calls'[Len(calls')].state = "pending" => phase' = "waiting"
      <3>1. Latest(c) \/ phase' = phase
        BY <1>3 DEF Reject
      <3> QED BY <1>0, <2>2, <3>1 DEF AheadInv, Latest
    <2>8. completed' >= completed
      BY <1>0, <2>1
    <2> QED BY <1>0, <1>2, <2>1, <2>6, <2>7, <2>8 DEF AheadInv, DotnsBefore
  <1>4. ASSUME NEW c \in 1..N, Approve(c) PROVE AheadInv'
    <2>1. /\ Settle(c, "approved") /\ completed' = CompletedMax(calls[c])
          /\ calls[c].state = "pending"
      BY <1>4 DEF Approve
    <2>2. /\ Len(calls') = N /\ calls'[c].state = "approved"
          /\ \A k \in 1..N : k # c => calls'[k] = calls[k]
      BY <2>1, SettleFacts
    <2>3. /\ completed' \in Nat /\ completed' >= completed /\ completed' <= completed + 1
          /\ calls[c].kind # "dotns" => completed' = completed
      <3>1. calls[c].index <= completed
        BY DEF AheadInv
      <3> QED BY <1>0, <2>1, <3>1 DEF CompletedMax
    <2>4. /\ DotnsBefore(op) \in Nat /\ late(N) \in Nat
          /\ DotnsBefore(op + 1) = DotnsBefore(op) + (IF Kind(op) = "dotns" THEN 1 ELSE 0)
      BY <1>0, DotnsBeforeNext, LateFinite
    <2>5. late(N)' = late(N)
                     + (IF calls[c].kind = "dotns" /\ ~Latest(c) THEN 1 ELSE 0)
      BY <2>1, SettleLate
    <2>6. completed <= DotnsBefore(op) + late(N)
      BY DEF AheadInv
    <2>7. completed' <= DotnsBefore(op') + late(N)'
      <3>1. CASE Latest(c)
        <4>1. phase = "waiting" /\ calls[c].op = op /\ calls[c].kind = Kind(op)
          <5>1. calls[N].state = "pending" /\ N > 0 /\ c = N
            BY <1>0, <2>1, <3>1 DEF Latest
          <5> QED BY <5>1 DEF AheadInv, LabelInv, CallLabelled
        <4>2. CASE op' = op + 1
          BY <1>0, <2>3, <2>4, <2>5, <2>6, <3>1, <4>1, <4>2
        <4>3. CASE calls[c].kind = "publish" /\ op' = op
          BY <1>0, <2>3, <2>4, <2>5, <2>6, <3>1, <4>3
        <4> QED BY <1>4, <3>1, <4>1, <4>2, <4>3 DEF Approve
      <3>2. CASE ~Latest(c)
        <4>1. op' = op
          BY <1>4, <3>2 DEF Approve
        <4> QED BY <1>0, <2>3, <2>4, <2>5, <2>6, <3>2, <4>1
      <3> QED BY <3>1, <3>2
    <2>8. Len(calls') > 0 /\ calls'[Len(calls')].state = "pending" => phase' = "waiting"
      <3>1. Latest(c) \/ phase' = phase
        BY <1>4 DEF Approve
      <3> QED BY <1>0, <2>2, <3>1 DEF AheadInv, Latest
    <2> QED BY <1>0, <1>2, <2>1, <2>3, <2>7, <2>8, <2>2 DEF AheadInv, DotnsBefore
  <1>5. CASE UNCHANGED vars
    BY <1>5 DEF vars, AheadInv, LateApprovals, DotnsBefore
  <1> QED BY <1>1, <1>3, <1>4, <1>5 DEF Next, Request, Resend, Estimate, Idle

\* No request carries the label of an operation already done, and none runs ahead by
\* more than the late approvals given before it was sent: for every deploy and every
\* order of time-outs, re-sends, refusals and late answers (signingProxy.ts:132-137).
THEOREM LabelsNameWhatIsLeft == Spec => []LabelTracksOperations
  <1>1. LabelInv /\ AheadInv => LabelTracksOperations
    BY DEF LabelInv, AheadInv, CallLabelled, LabelTracksOperations
  <1>2. Init => AheadInv
    <2> SUFFICES ASSUME Init PROVE AheadInv
      OBVIOUS
    <2>1. DotnsAt(1) = {} /\ LateApprovals(0) = {}
      BY DEF Init, DotnsAt, LateApprovals
    <2>2. DotnsBefore(op) = 0 /\ Cardinality(LateApprovals(Len(calls))) = 0
      BY <2>1, FS_EmptySet DEF Init, DotnsBefore, DotnsAt
    <2> QED BY <2>2 DEF Init, AheadInv
  <1>3. TypeOK /\ LabelInv /\ AheadInv /\ [Next]_vars => AheadInv'
    BY AheadPreserved
  <1> QED BY <1>1, <1>2, <1>3, LabelInvariant, TypeInvariant, PTL DEF Spec

-----------------------------------------------------------------------------
(* The prompt.                                                             *)

\* The prompt goes out while the deploy waits only when an earlier request is
\* answered after the newest was shown.
THEOREM PromptIsLostOnlyToLateAnswer == Spec => []PromptLostOnlyToLateAnswer
  <1>1. Init => PromptLostOnlyToLateAnswer
    BY DEF Init, PromptLostOnlyToLateAnswer
  <1>2. TypeOK /\ LabelInv /\ PromptLostOnlyToLateAnswer /\ [Next]_vars
          => PromptLostOnlyToLateAnswer'
    <2> SUFFICES ASSUME TypeOK, LabelInv, PromptLostOnlyToLateAnswer, [Next]_vars,
                        phase' = "waiting", prompt' = 0
                 PROVE  \E k \in 1..(Len(calls') - 1) : calls'[k].settledAt = Len(calls')
      BY DEF PromptLostOnlyToLateAnswer
    <2>0. Len(calls) \in Nat
      BY DEF TypeOK
    <2>1. ~(~Over /\ Ask)
      <3> SUFFICES ASSUME ~Over, Ask PROVE FALSE
        OBVIOUS
      <3>1. prompt' = Len(calls') /\ Len(calls') = Len(calls) + 1
        BY AskFacts
      <3> QED BY <2>0, <3>1
    <2>2. ASSUME NEW c \in 1..Len(calls), NEW how \in {"approved", "rejected"},
                 Settle(c, how), ~(Latest(c) /\ phase = "waiting"), phase = "waiting"
          PROVE  \E k \in 1..(Len(calls') - 1) : calls'[k].settledAt = Len(calls')
      <3>1. Len(calls') = Len(calls) /\ calls'[c].settledAt = Len(calls)
        BY <2>2, SettleFacts
      <3>2. c \in 1..(Len(calls') - 1)
        BY <2>0, <2>2, <3>1 DEF Latest
      <3> QED BY <3>1, <3>2
    <2>3. ASSUME NEW c \in 1..Len(calls), Approve(c)
          PROVE  \E k \in 1..(Len(calls') - 1) : calls'[k].settledAt = Len(calls')
      <3>1. Settle(c, "approved") /\ ~(Latest(c) /\ phase = "waiting") /\ phase = "waiting"
        BY <2>3 DEF Approve
      <3> QED BY <2>2, <3>1
    <2>4. ASSUME NEW c \in 1..Len(calls), Reject(c)
          PROVE  \E k \in 1..(Len(calls') - 1) : calls'[k].settledAt = Len(calls')
      <3>1. Settle(c, "rejected") /\ ~(Latest(c) /\ phase = "waiting") /\ phase = "waiting"
        BY <2>4 DEF Reject
      <3> QED BY <2>2, <3>1
    <2>5. CASE UNCHANGED vars
      BY <2>5 DEF vars, PromptLostOnlyToLateAnswer
    <2> QED BY <2>1, <2>3, <2>4, <2>5 DEF Next, Request, Resend, Estimate, Idle
  <1> QED BY <1>1, <1>2, TypeInvariant, LabelInvariant, PTL DEF Spec

-----------------------------------------------------------------------------
(* The console while signatures are pending (ConsoleOverride).             *)

InStorageOrPublish(a) == pc[a] \in {"storing", "publishing"}

\* What console.error is while no signature of the app is pending.
ErrorOwner(a) == IF pc[a] = "storing" THEN Shim(a) ELSE Orig

Owners == {Orig} \cup {Shim(a) : a \in Apps}

ConsoleType ==
    /\ pc \in [Apps -> {"start", "checking", "checked", "storing", "publishing", "done"}]
    /\ call \in [Apps -> [Calls -> {"unused", "pending", "settled"}]]
    /\ saved = [a \in Apps |-> saved[a]]
    /\ previousError \in [Apps -> [Calls -> Owners]]

\* The swaps of console.error nest: one app at a time has replaced it, and a
\* pending signature of that app will put back what the app installed.
Nested ==
    /\ \A a, b \in Apps : InStorageOrPublish(a) /\ InStorageOrPublish(b) => a = b
    /\ \A a \in Apps, c \in Calls : call[a][c] = "pending" =>
           /\ InStorageOrPublish(a)
           /\ \A d \in Calls : call[a][d] = "pending" => d = c
           /\ console["error"] = Guard(a, c)
           /\ previousError[a][c] = ErrorOwner(a)
    /\ \A a \in Apps : InStorageOrPublish(a) /\ (\A c \in Calls : call[a][c] # "pending") =>
           console["error"] = ErrorOwner(a)
    /\ \A a \in Apps : pc[a] = "storing" => saved[a]["error"] = Orig
    /\ (\A a \in Apps : ~InStorageOrPublish(a)) => console["error"] = Orig

ConsoleInv == ConsoleType /\ Nested

\* A step that leaves console.error, the signatures and who is inside.
LEMMA QuietConsole ==
    ASSUME ConsoleInv, NEW a \in Apps, NEW x \in {"start", "checking", "checked", "done"},
           pc[a] \in {"start", "checking"}, pc' = [pc EXCEPT ![a] = x],
           console'["error"] = console["error"], UNCHANGED <<call, previousError>>,
           saved' = [saved EXCEPT ![a] = console] \/ saved' = saved
    PROVE  ConsoleInv'
  <1>1. ConsoleType'
    BY DEF ConsoleInv, ConsoleType
  <1>2. \A b \in Apps : /\ InStorageOrPublish(b)' <=> InStorageOrPublish(b)
                        /\ InStorageOrPublish(b) => b # a /\ pc'[b] = pc[b]
    BY DEF ConsoleInv, ConsoleType, InStorageOrPublish
  <1>3. \A b \in Apps : InStorageOrPublish(b) => ErrorOwner(b)' = ErrorOwner(b)
    BY <1>2 DEF ErrorOwner, Shim, Orig
  <1>4. \A b \in Apps : pc'[b] = "storing" => pc[b] = "storing" /\ saved'[b] = saved[b]
    BY DEF ConsoleInv, ConsoleType
  <1> QED
    BY <1>1, <1>2, <1>3, <1>4 DEF ConsoleInv, Nested, Guard, Orig

\* Every step of an app keeps the nesting.
LEMMA ConsoleStep ==
    ASSUME ConsoleInv, ConsoleNext, ~overlapped'
    PROVE  ConsoleInv'
  <1> USE DEF Install, PutBack, Streams
  <1>1. ASSUME NEW a \in Apps, StartCheck(a) \/ EndCheck(a) PROVE ConsoleInv'
    <2>1. PICK x \in {"checking", "checked", "done"} : pc' = [pc EXCEPT ![a] = x]
      BY <1>1 DEF StartCheck, EndCheck
    <2>2. /\ pc[a] \in {"start", "checking"} /\ UNCHANGED <<call, previousError>>
          /\ saved' = [saved EXCEPT ![a] = console] \/ saved' = saved
          /\ console'["error"] = console["error"]
      BY <1>1 DEF StartCheck, EndCheck, Silenced
    <2> QED
      BY <2>1, <2>2, QuietConsole
  <1>2. ASSUME NEW a \in Apps, StartStorage(a) PROVE ConsoleInv'
    <2>1. /\ pc[a] = "checked" /\ \A b \in Apps : ~InStorageOrPublish(b)
          /\ saved' = [saved EXCEPT ![a] = console] /\ console'["error"] = Shim(a)
          /\ pc' = [pc EXCEPT ![a] = "storing"] /\ UNCHANGED <<call, previousError>>
      BY <1>2 DEF StartStorage, Intercepted, InStorageOrPublish
    <2>2. ConsoleType'
      BY <2>1 DEF ConsoleInv, ConsoleType
    <2>3. \A b \in Apps : InStorageOrPublish(b)' <=> b = a
      BY <2>1 DEF ConsoleInv, ConsoleType, InStorageOrPublish
    <2>4. \A b \in Apps, c \in Calls : call[b][c] # "pending"
      BY <2>1 DEF ConsoleInv, Nested
    <2>5. console["error"] = Orig /\ saved'[a] = console
      BY <2>1 DEF ConsoleInv, Nested, ConsoleType
    <2>6. pc'[a] = "storing" /\ \A b \in Apps : pc'[b] = "storing" => b = a
      BY <2>1 DEF ConsoleInv, ConsoleType, InStorageOrPublish
    <2>7. ErrorOwner(a)' = Shim(a)
      BY <2>6 DEF ErrorOwner, Shim
    <2> QED
      BY <2>1, <2>2, <2>3, <2>4, <2>5, <2>6, <2>7 DEF ConsoleInv, Nested, Orig
  <1>3. ASSUME NEW a \in Apps, EndStorage(a) \/ EndPublish(a) PROVE ConsoleInv'
    <2>1. PICK x \in {"publishing", "done"} : pc' = [pc EXCEPT ![a] = x]
      BY <1>3 DEF EndStorage, EndPublish
    <2>2. /\ InStorageOrPublish(a) /\ UNCHANGED <<call, previousError, saved>>
          /\ \A c \in Calls : call[a][c] # "pending"
      BY <1>3 DEF EndStorage, EndPublish, Pending, InStorageOrPublish
    <2>3. console'["error"] = Orig
      <3>1. CASE EndStorage(a)
        <4>1. pc[a] = "storing" /\ console'["error"] = saved[a]["error"]
          BY <3>1 DEF EndStorage, Intercepted
        <4> QED
          BY <4>1 DEF ConsoleInv, Nested
      <3>2. CASE EndPublish(a)
        <4>1. pc[a] = "publishing" /\ console' = console
          BY <3>2 DEF EndPublish
        <4>2. ErrorOwner(a) = Orig
          BY <4>1 DEF ErrorOwner
        <4> QED
          BY <2>2, <4>1, <4>2 DEF ConsoleInv, Nested
      <3> QED
        BY <1>3, <3>1, <3>2
    <2>4. ConsoleType'
      BY <2>1, <2>2 DEF ConsoleInv, ConsoleType
    <2>5. \A b \in Apps, c \in Calls : call[b][c] # "pending"
      BY <2>2 DEF ConsoleInv, Nested
    <2>6. \A b \in Apps : /\ InStorageOrPublish(b)' => b = a
                          /\ pc'[b] # "storing"
      BY <2>1, <2>2 DEF ConsoleInv, ConsoleType, Nested, InStorageOrPublish
    <2>7. \A b \in Apps : ErrorOwner(b)' = Orig
      BY <2>6 DEF ErrorOwner, Orig
    <2> QED
      BY <2>2, <2>3, <2>4, <2>5, <2>6, <2>7 DEF ConsoleInv, Nested, Orig
  <1>4. ASSUME NEW a \in Apps, NEW c \in Calls, Sign(a, c) PROVE ConsoleInv'
    <2>1. /\ InStorageOrPublish(a) /\ \A d \in Calls : call[a][d] # "pending"
          /\ previousError' = [previousError EXCEPT ![a][c] = console["error"]]
          /\ console'["error"] = Guard(a, c)
          /\ call' = [call EXCEPT ![a][c] = "pending"] /\ UNCHANGED <<pc, saved>>
      BY <1>4 DEF Sign, Pending, InStorageOrPublish
    <2>2. ConsoleType'
      <3>1. console["error"] \in Owners
        BY <2>1 DEF ConsoleInv, Nested, ErrorOwner, Owners
      <3>2. Owners' = Owners
        BY DEF Owners, Orig, Shim
      <3> QED
        BY <2>1, <3>1, <3>2 DEF ConsoleInv, ConsoleType
    <2>3. \A b \in Apps, d \in Calls : call'[b][d] = "pending" <=> b = a /\ d = c
      <3>1. \A b \in Apps, d \in Calls : call[b][d] # "pending"
        BY <2>1 DEF ConsoleInv, Nested
      <3> QED
        BY <2>1, <3>1 DEF ConsoleInv, ConsoleType
    <2>4. \A b \in Apps : /\ InStorageOrPublish(b)' <=> InStorageOrPublish(b)
                          /\ ErrorOwner(b)' = ErrorOwner(b)
      BY <2>1 DEF InStorageOrPublish, ErrorOwner, Shim, Orig
    <2>5. previousError'[a][c] = ErrorOwner(a)
      BY <2>1 DEF ConsoleInv, ConsoleType, Nested
    <2>6. \A b \in Apps : InStorageOrPublish(b) => b = a
      BY <2>1 DEF ConsoleInv, Nested
    <2> QED
      BY <2>1, <2>2, <2>3, <2>4, <2>5, <2>6
         DEF ConsoleInv, Nested, Guard, Orig
  <1>5. ASSUME NEW a \in Apps, NEW c \in Calls, RestoreError(a, c) PROVE ConsoleInv'
    <2>1. /\ call[a][c] = "pending" /\ console'["error"] = previousError[a][c]
          /\ call' = [call EXCEPT ![a][c] = "settled"]
          /\ UNCHANGED <<pc, saved, previousError>>
      BY <1>5 DEF RestoreError
    <2>2. ConsoleType'
      BY <2>1 DEF ConsoleInv, ConsoleType
    <2>3. /\ InStorageOrPublish(a) /\ previousError[a][c] = ErrorOwner(a)
          /\ \A b \in Apps : InStorageOrPublish(b) => b = a
      BY <2>1 DEF ConsoleInv, Nested
    <2>4. \A b \in Apps, d \in Calls : call'[b][d] # "pending"
      <3>1. \A b \in Apps, d \in Calls : call[b][d] = "pending" => b = a /\ d = c
        BY <2>1, <2>3 DEF ConsoleInv, Nested
      <3> QED
        BY <2>1, <3>1 DEF ConsoleInv, ConsoleType
    <2>5. \A b \in Apps : /\ InStorageOrPublish(b)' <=> InStorageOrPublish(b)
                          /\ ErrorOwner(b)' = ErrorOwner(b)
      BY <2>1 DEF InStorageOrPublish, ErrorOwner, Shim, Orig
    <2> QED
      BY <2>1, <2>2, <2>3, <2>4, <2>5 DEF ConsoleInv, Nested, Orig
  <1>6. CASE Finished
    BY <1>6 DEF Finished, consoleVars, ConsoleInv, ConsoleType, Nested,
                InStorageOrPublish, ErrorOwner, Shim, Orig, Guard
  <1> QED
    BY <1>1, <1>2, <1>3, <1>4, <1>5, <1>6 DEF ConsoleNext, Signed, FastFail

\* Overlapping signatures are the only thing that breaks the nesting: in any batch, as
\* long as no signature was asked for and no phase was left while an earlier one was
\* pending, console.error belongs to the storing app or to its pending call, and is the
\* original at the end, whatever the domain checks of the other apps swap meanwhile
\* and wherever a signature fails (sessionSigner.ts:174-178, storage.ts:141-143).
THEOREM OnlyOverlapsBreakNesting ==
    ConsoleSpec => [](overlapped \/ RestoresNest)
  <1>1. ConsoleInit => ConsoleInv
    BY DEF ConsoleInit, ConsoleInv, ConsoleType, Nested, InStorageOrPublish, ErrorOwner,
           Owners, Streams
  <1>2. (overlapped \/ ConsoleInv) /\ [ConsoleNext]_consoleVars
          => (overlapped \/ ConsoleInv)'
    <2>1. ASSUME ConsoleInv, UNCHANGED consoleVars PROVE ConsoleInv'
      BY <2>1 DEF consoleVars, ConsoleInv, ConsoleType, Nested, InStorageOrPublish,
                  ErrorOwner, Shim, Orig, Guard
    <2>2. ASSUME overlapped, [ConsoleNext]_consoleVars PROVE overlapped'
      BY <2>2 DEF ConsoleNext, consoleVars, StartCheck, EndCheck, StartStorage, EndStorage,
                  EndPublish, Sign, Signed, FastFail, RestoreError, Finished
    <2>3. ASSUME ConsoleInv, ConsoleNext, ~overlapped' PROVE ConsoleInv'
      BY <2>3, ConsoleStep
    <2> QED
      BY <2>1, <2>2, <2>3
  <1>3. ConsoleInv => RestoresNest
    <2> SUFFICES ASSUME ConsoleInv PROVE RestoresNest
      OBVIOUS
    <2>1. ASSUME NEW a \in Apps, pc[a] = "storing"
          PROVE  console["error"] \in {Shim(a)} \cup
                     {Guard(a, c) : c \in Pending(a)}
      <3>1. InStorageOrPublish(a) /\ ErrorOwner(a) = Shim(a)
        BY <2>1 DEF InStorageOrPublish, ErrorOwner
      <3>2. CASE \E c \in Calls : call[a][c] = "pending"
        BY <3>2 DEF ConsoleInv, Nested, Pending
      <3>3. CASE \A c \in Calls : call[a][c] # "pending"
        BY <3>1, <3>3 DEF ConsoleInv, Nested
      <3> QED
        BY <3>2, <3>3
    <2>2. Quiet => console["error"] = Orig
      BY DEF Quiet, ConsoleInv, Nested, InStorageOrPublish
    <2> QED
      BY <2>1, <2>2 DEF RestoresNest
  <1> QED
    BY <1>1, <1>2, <1>3, PTL DEF ConsoleSpec
=============================================================================
