------------------------ MODULE ParallelDeployProofs ------------------------
(***************************************************************************)
(* Proofs about ParallelDeploy, for any number of apps, workers, signer    *)
(* keys, accounts and extrinsics.                                          *)
(*                                                                         *)
(* NonceSafe is not inductive.  It holds because two apps that share an    *)
(* account are never inside the gate together, which in turn follows from  *)
(* the shape of the promise chain: an app is chained to the app that       *)
(* queued immediately before it under the same key, so "my predecessor     *)
(* settled" carries "everybody before me settled" along the chain.         *)
(***************************************************************************)
EXTENDS ParallelDeploy, FiniteSetTheorems, WellFoundedInduction, TLAPS

\* Indices from nextIndex on have not been touched by any worker.
NotYetPulled == \A a \in Apps : a >= nextIndex => pc[a] = "queued"

\* A deploying worker has an app.
JobIsApp == \A w \in Workers : wpc[w] = "deploying" => job[w] \in Apps

\* Tickets are given out exactly when an app queues, in clock order.
TicketSound ==
    \A a \in Apps :
        /\ Arrived(a) => ticket[a] < clock
        /\ pc[a] \in {"gate", "released"} \cup Gated => Arrived(a)
        /\ pc[a] \in {"queued", "options", "build"} => ~Arrived(a)

TicketsDistinct ==
    \A a, b \in Apps : Arrived(a) /\ Arrived(b) /\ ticket[a] = ticket[b] => a = b

\* The tail of a key's chain is the last app that queued under the key.
TailIsLast ==
    \A a \in Apps :
        LET t == tail[SignerKey[a]] IN
        Arrived(a) => t \in Apps /\ Arrived(t) /\ SignerKey[t] = SignerKey[a]
                      /\ ticket[a] <= ticket[t]

TailArrived ==
    \A k \in Keys : tail[k] \in Apps => Arrived(tail[k]) /\ SignerKey[tail[k]] = k

\* An app is chained to the app that queued immediately before it.
PredIsPrevious ==
    \A a, b \in Apps :
        Arrived(a) /\ Arrived(b) /\ SignerKey[a] = SignerKey[b] /\ ticket[b] < ticket[a]
        => /\ pred[a] \in Apps
           /\ Arrived(pred[a])
           /\ SignerKey[pred[a]] = SignerKey[a]
           /\ ticket[b] <= ticket[pred[a]]
           /\ ticket[pred[a]] < ticket[a]

\* Only an app inside a phase prepares an extrinsic, from one of its accounts.
SigningSound ==
    \A a \in Apps :
        signing[a] # NoAccount => pc[a] \in Phases /\ signing[a] \in SignsWith[a]

Chain ==
    /\ NotYetPulled /\ JobIsApp /\ TicketSound /\ TicketsDistinct
    /\ TailIsLast /\ TailArrived /\ PredIsPrevious

IInv == TypeOK /\ Chain /\ GateFifo /\ SigningSound /\ NonceSafe

-----------------------------------------------------------------------------
\* The two apps of one key inside the gate are one app (from the FIFO order).
LEMMA GateExclusive ==
    ASSUME TypeOK, TicketSound, TicketsDistinct, GateFifo,
           NEW a \in Apps, NEW b \in Apps,
           pc[a] \in Gated, pc[b] \in Gated, SignerKey[a] = SignerKey[b]
    PROVE  a = b
<1>1. Arrived(a) /\ Arrived(b) /\ Started(a) /\ Started(b)
  BY DEF TicketSound, Started, Gated, Phases
<1>2. pc[a] \notin Over /\ pc[b] \notin Over
  BY DEF Gated, Phases, Over
<1>3. ~(ticket[a] < ticket[b]) /\ ~(ticket[b] < ticket[a])
  BY <1>1, <1>2 DEF GateFifo
<1>4. ticket[a] \in Int /\ ticket[b] \in Int
  BY DEF TypeOK
<1> QED
  BY <1>1, <1>3, <1>4 DEF TicketsDistinct

-----------------------------------------------------------------------------
\* Type correctness: each step keeps the state well formed.
LEMMA TypeStep == TypeOK /\ JobIsApp /\ [Next]_vars => TypeOK'
<1> SUFFICES ASSUME TypeOK, JobIsApp, [Next]_vars PROVE TypeOK'
  OBVIOUS
<1> USE NumAppsAssumption, KeyAssumption, AccountAssumption, FlagAssumption
<1> USE DEF AppPCs, Gated, Phases, Over
<1>1. ASSUME NEW w \in Workers, Pull(w), command' = command PROVE TypeOK'
  <2>1. CASE nextIndex >= NumApps
    BY <1>1, <2>1 DEF TypeOK, Pull, gateVars, txVars, chainVars
  <2>2. CASE ~(nextIndex >= NumApps)
    <3>1. nextIndex \in Apps /\ nextIndex + 1 \in 0 .. NumApps
      BY <2>2 DEF TypeOK, Apps
    <3> QED
      BY <1>1, <2>2, <3>1 DEF TypeOK, Pull, gateVars, txVars, chainVars
  <2> QED
    BY <2>1, <2>2
<1>2. ASSUME NEW w \in Workers, Settle(w), command' = command PROVE TypeOK'
  BY <1>2 DEF TypeOK, Settle, gateVars, txVars, chainVars
<1>3. ASSUME NEW a \in Apps, OptionsReady(a), command' = command PROVE TypeOK'
  BY <1>3 DEF TypeOK, OptionsReady, runExclusive, gateVars, poolVars, txVars, chainVars
<1>4. ASSUME NEW a \in Apps, BuildDone(a), command' = command PROVE TypeOK'
  BY <1>4 DEF TypeOK, BuildDone, runExclusive, poolVars, txVars, chainVars
<1>5. ASSUME NEW a \in Apps, FailBeforeGate(a), command' = command PROVE TypeOK'
  BY <1>5 DEF TypeOK, FailBeforeGate, gateVars, poolVars, txVars, chainVars
<1>6. ASSUME NEW a \in Apps, EnterGate(a), command' = command PROVE TypeOK'
  BY <1>6 DEF TypeOK, EnterGate, gateVars, poolVars, txVars, chainVars
<1>7. ASSUME NEW a \in Apps, StorageSignerReady(a), command' = command PROVE TypeOK'
  BY <1>7 DEF TypeOK, StorageSignerReady, gateVars, poolVars, txVars, chainVars
<1>8. ASSUME NEW a \in Apps, ReadNextIndex(a), command' = command PROVE TypeOK'
  BY <1>8 DEF TypeOK, ReadNextIndex, gateVars, poolVars, chainVars
<1>9. ASSUME NEW a \in Apps, Submit(a), command' = command PROVE TypeOK'
  BY <1>9 DEF TypeOK, Submit, gateVars, poolVars, chainVars
<1>10. ASSUME NEW a \in Apps, PhaseDone(a), command' = command PROVE TypeOK'
  BY <1>10 DEF TypeOK, PhaseDone, gateVars, poolVars, txVars
<1>11. ASSUME NEW a \in Apps, FailInGate(a), command' = command PROVE TypeOK'
  BY <1>11 DEF TypeOK, FailInGate, gateVars, poolVars, chainVars
<1>12. CASE Summarise \/ Preflight
  BY <1>12 DEF TypeOK, Summarise, Preflight, gateVars, poolVars, txVars, chainVars
<1>13. CASE UNCHANGED vars
  BY <1>13 DEF TypeOK, vars
<1> QED
  BY <1>1, <1>2, <1>3, <1>4, <1>5, <1>6, <1>7, <1>8, <1>9, <1>10, <1>11, <1>12,
     <1>13 DEF Next, AppStep, WorkerStep, Terminated

-----------------------------------------------------------------------------
\* Queueing at the gate keeps the chain well formed.
LEMMA ChainArrival ==
    ASSUME TypeOK, Chain, NEW c \in Apps, ~Arrived(c),
           runExclusive(c), pc' = [pc EXCEPT ![c] = "gate"],
           UNCHANGED <<nextIndex, wpc, job>>, c < nextIndex
    PROVE  Chain'
<1> USE KeyAssumption
<1> DEFINE k == SignerKey[c]
<1>1. /\ k \in Keys
      /\ ticket' = [ticket EXCEPT ![c] = clock] /\ clock' = clock + 1
      /\ tail' = [tail EXCEPT ![k] = c]
      /\ pred' = [pred EXCEPT ![c] = tail[k]]
  BY DEF runExclusive
<1>2. /\ ticket \in [Apps -> Nat \cup {-1}] /\ clock \in Nat
      /\ tail \in [Keys -> Apps \cup {NoApp}]
      /\ pred \in [Apps -> Apps \cup {NoApp}]
      /\ pc \in [Apps -> AppPCs]
      /\ NoApp \notin Apps
  BY DEF TypeOK, NoApp, Apps
<1>3. /\ Arrived(c)' /\ ticket'[c] = clock
      /\ \A a \in Apps : a # c => /\ Arrived(a)' <=> Arrived(a)
                                  /\ ticket'[a] = ticket[a]
                                  /\ pred'[a] = pred[a]
                                  /\ pc'[a] = pc[a]
  BY <1>1, <1>2 DEF Arrived
<1>4. \A a \in Apps : Arrived(a) => ticket[a] < clock
  BY DEF Chain, TicketSound
<1> HIDE DEF k
<1>5. NotYetPulled'
  BY <1>2 DEF Chain, NotYetPulled, TypeOK, Apps
<1>6. JobIsApp'
  BY DEF Chain, JobIsApp
<1>7. TicketSound'
  <2> SUFFICES ASSUME NEW a \in Apps
      PROVE /\ Arrived(a)' => ticket'[a] < clock'
            /\ pc'[a] \in {"gate", "released"} \cup Gated => Arrived(a)'
            /\ pc'[a] \in {"queued", "options", "build"} => ~Arrived(a)'
    BY DEF TicketSound
  <2>1. CASE a = c
    BY <1>1, <1>2, <1>3, <2>1
  <2>2. CASE a # c
    BY <1>1, <1>2, <1>3, <1>4, <2>2 DEF Chain, TicketSound
  <2> QED
    BY <2>1, <2>2
<1>8. TicketsDistinct'
  <2> SUFFICES ASSUME NEW a \in Apps, NEW b \in Apps, Arrived(a)', Arrived(b)',
                      ticket'[a] = ticket'[b]
               PROVE  a = b
    BY DEF TicketsDistinct
  <2>1. CASE a # c /\ b # c
    BY <1>3, <2>1 DEF Chain, TicketsDistinct
  <2>2. CASE a = c /\ b # c
    BY <1>2, <1>3, <1>4, <2>2
  <2>3. CASE a # c /\ b = c
    BY <1>2, <1>3, <1>4, <2>3
  <2> QED
    BY <2>1, <2>2, <2>3
<1>9. TailIsLast'
  <2> SUFFICES ASSUME NEW a \in Apps, Arrived(a)'
      PROVE /\ tail'[SignerKey[a]] \in Apps
            /\ Arrived(tail[SignerKey[a]])'
            /\ SignerKey[tail'[SignerKey[a]]] = SignerKey[a]
            /\ ticket'[a] <= ticket'[tail'[SignerKey[a]]]
    BY DEF TailIsLast, Arrived
  <2>1. CASE SignerKey[a] = k
    <3>1. tail'[SignerKey[a]] = c
      BY <1>1, <1>2, <2>1
    <3>2. ticket'[a] <= clock
      BY <1>2, <1>3, <1>4
    <3> QED
      BY <1>3, <2>1, <3>1, <3>2 DEF k, Arrived
  <2>2. CASE SignerKey[a] # k
    <3>1. a # c /\ tail'[SignerKey[a]] = tail[SignerKey[a]]
      BY <1>1, <1>2, <2>2 DEF k
    <3>2. /\ tail[SignerKey[a]] \in Apps /\ Arrived(tail[SignerKey[a]])
          /\ SignerKey[tail[SignerKey[a]]] = SignerKey[a]
          /\ ticket[a] <= ticket[tail[SignerKey[a]]]
      BY <1>3, <3>1 DEF Chain, TailIsLast
    <3>3. tail[SignerKey[a]] # c
      BY <3>2
    <3> QED
      BY <1>3, <3>1, <3>2, <3>3 DEF Arrived
  <2> QED
    BY <2>1, <2>2
<1>10. TailArrived'
  <2> SUFFICES ASSUME NEW j \in Keys, tail'[j] \in Apps
               PROVE  Arrived(tail[j])' /\ SignerKey[tail'[j]] = j
    BY DEF TailArrived, Arrived
  <2>1. CASE j = k
    BY <1>1, <1>2, <1>3, <2>1 DEF k, Arrived
  <2>2. CASE j # k
    <3>1. tail'[j] = tail[j] /\ Arrived(tail[j]) /\ SignerKey[tail[j]] = j
      BY <1>1, <1>2, <2>2 DEF Chain, TailArrived
    <3> QED
      BY <1>3, <2>2, <3>1 DEF Arrived
  <2> QED
    BY <2>1, <2>2
<1>11. PredIsPrevious'
  <2> SUFFICES ASSUME NEW a \in Apps, NEW b \in Apps, Arrived(a)', Arrived(b)',
                      SignerKey[a] = SignerKey[b], ticket'[b] < ticket'[a]
      PROVE /\ pred'[a] \in Apps /\ Arrived(pred[a])'
            /\ SignerKey[pred'[a]] = SignerKey[a]
            /\ ticket'[b] <= ticket'[pred'[a]]
            /\ ticket'[pred'[a]] < ticket'[a]
    BY DEF PredIsPrevious, Arrived
  <2>1. CASE a = c
    <3>1. b # c /\ Arrived(b) /\ SignerKey[b] = k
      BY <1>2, <1>3, <2>1 DEF k
    <3>2. /\ tail[k] \in Apps /\ Arrived(tail[k]) /\ SignerKey[tail[k]] = k
          /\ ticket[b] <= ticket[tail[k]]
      BY <3>1 DEF Chain, TailIsLast
    <3>3. tail[k] # c /\ pred'[a] = tail[k]
      BY <1>1, <1>2, <2>1, <3>2
    <3> QED
      BY <1>2, <1>3, <1>4, <2>1, <3>1, <3>2, <3>3 DEF k, Arrived
  <2>2. CASE a # c
    <3>1. Arrived(a) /\ ticket[a] < clock /\ ticket'[a] = ticket[a]
      BY <1>3, <1>4, <2>2
    <3>2. b # c /\ Arrived(b) /\ ticket'[b] = ticket[b]
      BY <1>2, <1>3, <3>1
    <3>3. /\ pred[a] \in Apps /\ Arrived(pred[a])
          /\ SignerKey[pred[a]] = SignerKey[a]
          /\ ticket[b] <= ticket[pred[a]] /\ ticket[pred[a]] < ticket[a]
      BY <3>1, <3>2 DEF Chain, PredIsPrevious
    <3>4. pred[a] # c /\ pred'[a] = pred[a]
      BY <1>3, <2>2, <3>3
    <3> QED
      BY <1>3, <3>1, <3>2, <3>3, <3>4 DEF Arrived
  <2> QED
    BY <2>1, <2>2
<1> QED
  BY <1>5, <1>6, <1>7, <1>8, <1>9, <1>10, <1>11 DEF Chain

\* A step of one app that stays clear of the gate's queue and of the pool, and
\* takes the app from one await to another, keeps the chain.
LEMMA ChainMove ==
    ASSUME TypeOK, Chain, NEW c \in Apps, NEW s \in AppPCs, pc[c] # "queued",
           pc' = [pc EXCEPT ![c] = s],
           s \in {"gate", "released"} \cup Gated => Arrived(c),
           s \in {"queued", "options", "build"} => ~Arrived(c),
           UNCHANGED <<nextIndex, wpc, job>>, UNCHANGED gateVars
    PROVE  Chain'
<1>1. /\ UNCHANGED <<ticket, clock, tail, pred>>
      /\ \A a \in Apps : Arrived(a)' <=> Arrived(a)
  BY DEF gateVars, Arrived
<1>2. pc \in [Apps -> AppPCs]
  BY DEF TypeOK
<1>3. NotYetPulled' /\ JobIsApp'
  BY <1>2 DEF Chain, NotYetPulled, JobIsApp
<1>4. TicketSound'
  BY <1>1, <1>2 DEF Chain, TicketSound
<1>5. TicketsDistinct' /\ TailIsLast' /\ TailArrived' /\ PredIsPrevious'
  BY <1>1 DEF Chain, TicketsDistinct, TailIsLast, TailArrived, PredIsPrevious, Arrived
<1> QED
  BY <1>3, <1>4, <1>5 DEF Chain

\* Every step keeps the chain well formed.
LEMMA ChainStep == TypeOK /\ Chain /\ SigningSound /\ [Next]_vars => Chain'
<1> SUFFICES ASSUME TypeOK, Chain, SigningSound, [Next]_vars PROVE Chain'
  OBVIOUS
<1> USE DEF AppPCs, Gated, Phases, Over
<1>a. \A a \in Apps : pc[a] # "queued" => a < nextIndex
  BY DEF Chain, NotYetPulled, TypeOK, Apps
<1>b. \A a \in Apps :
        /\ pc[a] \in {"options", "build"} => ~Arrived(a)
        /\ pc[a] \in {"gate", "released"} \cup Gated => Arrived(a)
  BY DEF Chain, TicketSound
<1>c. pc \in [Apps -> AppPCs]
  BY DEF TypeOK
<1>1. ASSUME NEW w \in Workers, Pull(w) PROVE Chain'
  <2>1. UNCHANGED gateVars
    BY <1>1 DEF Pull
  <2>2. CASE nextIndex >= NumApps
    <3>1. UNCHANGED <<nextIndex, job, pc>> /\ wpc' = [wpc EXCEPT ![w] = "returned"]
      BY <1>1, <2>2 DEF Pull
    <3> QED
      BY <2>1, <3>1 DEF Chain, NotYetPulled, JobIsApp, TicketSound, TicketsDistinct,
         TailIsLast, TailArrived, PredIsPrevious, Arrived, gateVars, TypeOK
  <2>3. CASE ~(nextIndex >= NumApps)
    <3>1. /\ nextIndex' = nextIndex + 1
          /\ wpc' = [wpc EXCEPT ![w] = "deploying"]
          /\ job' = [job EXCEPT ![w] = nextIndex]
          /\ pc' = [pc EXCEPT ![nextIndex] = "options"]
      BY <1>1, <2>3 DEF Pull
    <3>2. nextIndex \in Apps /\ pc[nextIndex] = "queued" /\ ~Arrived(nextIndex)
      BY <2>3, NumAppsAssumption DEF TypeOK, Apps, Chain, NotYetPulled, TicketSound
    <3>3. NotYetPulled'
      BY <3>1, <3>2, <1>c DEF Chain, NotYetPulled, TypeOK, Apps
    <3>4. JobIsApp'
      BY <3>1, <3>2 DEF Chain, JobIsApp, TypeOK
    <3>5. TicketSound'
      BY <2>1, <3>1, <3>2, <1>c DEF Chain, TicketSound, Arrived, gateVars
    <3>6. TicketsDistinct' /\ TailIsLast' /\ TailArrived' /\ PredIsPrevious'
      BY <2>1 DEF Chain, TicketsDistinct, TailIsLast, TailArrived, PredIsPrevious,
         Arrived, gateVars
    <3> QED
      BY <3>3, <3>4, <3>5, <3>6 DEF Chain
  <2> QED
    BY <2>2, <2>3
<1>2. ASSUME NEW w \in Workers, Settle(w) PROVE Chain'
  <2>1. /\ job[w] \in Apps /\ pc[job[w]] \in {"threw", "released"}
        /\ pc' = [pc EXCEPT ![job[w]] = "settled"]
        /\ wpc' = [wpc EXCEPT ![w] = "loop"] /\ UNCHANGED <<nextIndex, job>>
        /\ UNCHANGED gateVars
    BY <1>2 DEF Settle, Chain, JobIsApp
  <2>2. NotYetPulled' /\ JobIsApp'
    BY <2>1, <1>c DEF Chain, NotYetPulled, JobIsApp, TypeOK
  <2>3. TicketSound'
    BY <2>1, <1>c DEF Chain, TicketSound, Arrived, gateVars
  <2>4. TicketsDistinct' /\ TailIsLast' /\ TailArrived' /\ PredIsPrevious'
    BY <2>1 DEF Chain, TicketsDistinct, TailIsLast, TailArrived, PredIsPrevious,
       Arrived, gateVars
  <2> QED
    BY <2>2, <2>3, <2>4 DEF Chain
<1>3. ASSUME NEW a \in Apps, OptionsReady(a) PROVE Chain'
  <2>1. CASE SkipBuild[a]
    BY <1>3, <2>1, <1>a, <1>b, ChainArrival DEF OptionsReady, poolVars
  <2>2. CASE ~SkipBuild[a]
    BY <1>3, <2>2, <1>b, ChainMove DEF OptionsReady, poolVars
  <2> QED
    BY <2>1, <2>2
<1>4. ASSUME NEW a \in Apps, BuildDone(a) PROVE Chain'
  BY <1>4, <1>a, <1>b, ChainArrival DEF BuildDone, poolVars
<1>5. ASSUME NEW a \in Apps, FailBeforeGate(a) PROVE Chain'
  BY <1>5, ChainMove DEF FailBeforeGate, poolVars
<1>6. ASSUME NEW a \in Apps, EnterGate(a) PROVE Chain'
  BY <1>6, <1>b, ChainMove DEF EnterGate, poolVars
<1>7. ASSUME NEW a \in Apps, StorageSignerReady(a) PROVE Chain'
  BY <1>7, <1>b, ChainMove DEF StorageSignerReady, poolVars
<1>8. ASSUME NEW a \in Apps, ReadNextIndex(a) PROVE Chain'
  <2>1. /\ UNCHANGED <<nextIndex, wpc, job, pc>> /\ UNCHANGED gateVars
    BY <1>8 DEF ReadNextIndex, poolVars
  <2> QED
    BY <2>1 DEF Chain, NotYetPulled, JobIsApp, TicketSound, TicketsDistinct,
       TailIsLast, TailArrived, PredIsPrevious, Arrived, gateVars
<1>9. ASSUME NEW a \in Apps, Submit(a) PROVE Chain'
  <2>1. UNCHANGED <<nextIndex, wpc, job>> /\ UNCHANGED gateVars
    BY <1>9 DEF Submit, poolVars
  <2>2. CASE UNCHANGED pc
    BY <2>1, <2>2 DEF Chain, NotYetPulled, JobIsApp, TicketSound, TicketsDistinct,
       TailIsLast, TailArrived, PredIsPrevious, Arrived, gateVars
  <2>3. CASE pc' = [pc EXCEPT ![a] = "released"]
    <3>1. pc[a] \in Phases
      BY <1>9 DEF Submit, SigningSound
    <3> QED
      BY <2>1, <2>3, <3>1, <1>b, ChainMove
  <2> QED
    BY <1>9, <2>2, <2>3 DEF Submit
<1>10. ASSUME NEW a \in Apps, PhaseDone(a) PROVE Chain'
  <2>1. PICK s \in {"dotns", "publish", "released"} : pc' = [pc EXCEPT ![a] = s]
    BY <1>10, FlagAssumption DEF PhaseDone
  <2>2. pc[a] \in Phases /\ UNCHANGED <<nextIndex, wpc, job>> /\ UNCHANGED gateVars
    BY <1>10 DEF PhaseDone, poolVars
  <2> QED
    BY <2>1, <2>2, <1>b, ChainMove
<1>11. ASSUME NEW a \in Apps, FailInGate(a) PROVE Chain'
  BY <1>11, <1>b, ChainMove DEF FailInGate, poolVars
<1>12. CASE Summarise \/ Preflight \/ UNCHANGED vars
  <2>1. /\ UNCHANGED <<nextIndex, wpc, job, pc>> /\ UNCHANGED gateVars
    BY <1>12 DEF Summarise, Preflight, poolVars, gateVars, vars
  <2> QED
    BY <2>1 DEF Chain, NotYetPulled, JobIsApp, TicketSound, TicketsDistinct,
       TailIsLast, TailArrived, PredIsPrevious, Arrived, gateVars
<1> QED
  BY <1>1, <1>2, <1>3, <1>4, <1>5, <1>6, <1>7, <1>8, <1>9, <1>10, <1>11, <1>12
     DEF Next, AppStep, WorkerStep, Terminated

-----------------------------------------------------------------------------
\* Every step keeps the FIFO order: the entering app's predecessor is out of the
\* gate, and so, by the order itself, is everybody before the predecessor.
LEMMA FifoStep == TypeOK /\ Chain /\ SigningSound /\ GateFifo /\ [Next]_vars => GateFifo'
<1> SUFFICES ASSUME TypeOK, Chain, SigningSound, GateFifo, [Next]_vars,
                    NEW a \in Apps, NEW b \in Apps, SignerKey[a] = SignerKey[b],
                    Arrived(a)', Started(b)', ticket'[a] < ticket'[b]
             PROVE  pc'[a] \in Over
  BY DEF GateFifo
<1> USE DEF AppPCs, Gated, Phases, Over
<1>a. /\ pc \in [Apps -> AppPCs] /\ ticket \in [Apps -> Nat \cup {-1}] /\ clock \in Nat
  BY DEF TypeOK
<1>b. \A c \in Apps : Arrived(c) => ticket[c] < clock
  BY DEF Chain, TicketSound
<1>c. \A c \in Apps : pc[c] \in {"gate", "released"} \cup Gated => Arrived(c)
  BY DEF Chain, TicketSound
<1>0. ASSUME UNCHANGED <<ticket, clock>>, pc[a] \in Over => pc'[a] \in Over,
             pc'[b] # "gate" => pc[b] # "gate"
      PROVE  pc'[a] \in Over
  BY <1>0 DEF GateFifo, Started, Arrived
<1>1. ASSUME NEW c \in Apps, runExclusive(c), pc' = [pc EXCEPT ![c] = "gate"],
             pc[c] \in {"options", "build"}
      PROVE  pc'[a] \in Over
  <2>1. b # c
    BY <1>1, <1>a DEF Started
  <2>2. a # c
    BY <1>1, <1>a, <1>b, <2>1 DEF runExclusive, Started, Arrived
  <2>3. /\ ticket'[a] = ticket[a] /\ ticket'[b] = ticket[b]
        /\ pc'[a] = pc[a] /\ pc'[b] = pc[b]
    BY <1>1, <1>a, <2>1, <2>2 DEF runExclusive
  <2> QED
    BY <2>3 DEF GateFifo, Started, Arrived
<1>2. ASSUME NEW w \in Workers, Pull(w) PROVE pc'[a] \in Over
  <2>1. UNCHANGED <<ticket, clock>>
    BY <1>2 DEF Pull, gateVars
  <2>2. CASE nextIndex >= NumApps
    BY <1>0, <1>2, <2>1, <2>2 DEF Pull
  <2>3. CASE ~(nextIndex >= NumApps)
    <3>1. /\ nextIndex \in Apps /\ pc[nextIndex] = "queued"
          /\ pc' = [pc EXCEPT ![nextIndex] = "options"]
      BY <1>2, <2>3, NumAppsAssumption DEF Pull, TypeOK, Apps, Chain, NotYetPulled
    <3> QED
      BY <1>0, <1>a, <2>1, <3>1
  <2> QED
    BY <2>2, <2>3
<1>3. ASSUME NEW w \in Workers, Settle(w) PROVE pc'[a] \in Over
  <2>1. /\ job[w] \in Apps /\ pc[job[w]] \in {"threw", "released"}
        /\ pc' = [pc EXCEPT ![job[w]] = "settled"] /\ UNCHANGED <<ticket, clock>>
    BY <1>3 DEF Settle, Chain, JobIsApp, gateVars
  <2> QED
    BY <1>0, <1>a, <2>1
<1>4. ASSUME NEW c \in Apps, OptionsReady(c) PROVE pc'[a] \in Over
  <2>1. CASE SkipBuild[c]
    BY <1>1, <1>4, <2>1 DEF OptionsReady
  <2>2. CASE ~SkipBuild[c]
    BY <1>0, <1>4, <1>a, <2>2 DEF OptionsReady, gateVars
  <2> QED
    BY <2>1, <2>2
<1>5. ASSUME NEW c \in Apps, BuildDone(c) PROVE pc'[a] \in Over
  BY <1>1, <1>5 DEF BuildDone
<1>6. ASSUME NEW c \in Apps, EnterGate(c) PROVE pc'[a] \in Over
  <2>1. /\ pc[c] = "gate" /\ PredecessorSettled(c)
        /\ pc' = [pc EXCEPT ![c] = "resolve"] /\ UNCHANGED <<ticket, clock>>
    BY <1>6 DEF EnterGate, gateVars
  <2>2. CASE b # c
    BY <1>0, <1>a, <2>1, <2>2
  <2>3. CASE b = c
    <3>1. Arrived(a) /\ Arrived(b) /\ ticket[a] < ticket[b]
      BY <2>1, <2>3, <1>c DEF Arrived
    <3>2. /\ pred[b] \in Apps /\ Arrived(pred[b]) /\ SignerKey[pred[b]] = SignerKey[b]
          /\ ticket[a] <= ticket[pred[b]]
      BY <3>1 DEF Chain, PredIsPrevious
    <3>3. pc[pred[b]] \in Over
      BY <2>1, <2>3, <3>2 DEF PredecessorSettled
    <3>4. CASE a = pred[b]
      BY <1>a, <2>1, <2>3, <3>3, <3>4
    <3>5. CASE a # pred[b]
      <4>1. ticket[a] < ticket[pred[b]]
        BY <1>a, <3>1, <3>2, <3>5 DEF Chain, TicketsDistinct
      <4>2. Started(pred[b])
        BY <3>2, <3>3 DEF Started
      <4>3. pc[a] \in Over
        BY <3>1, <3>2, <4>1, <4>2 DEF GateFifo
      <4> QED
        BY <1>a, <2>1, <4>3
    <3> QED
      BY <3>4, <3>5
  <2> QED
    BY <2>2, <2>3
<1>7. ASSUME NEW c \in Apps,
             FailBeforeGate(c) \/ StorageSignerReady(c) \/ FailInGate(c) \/ PhaseDone(c)
      PROVE  pc'[a] \in Over
  <2>1. PICK s \in AppPCs : pc' = [pc EXCEPT ![c] = s] /\ (pc[c] \in Over => s \in Over)
    BY <1>7, FlagAssumption DEF FailBeforeGate, StorageSignerReady, FailInGate, PhaseDone
  <2>2. UNCHANGED <<ticket, clock>> /\ pc[c] # "gate"
    BY <1>7 DEF FailBeforeGate, StorageSignerReady, FailInGate, PhaseDone, gateVars
  <2> QED
    BY <1>0, <1>a, <2>1, <2>2
<1>8. ASSUME NEW c \in Apps, Submit(c) PROVE pc'[a] \in Over
  <2>1. UNCHANGED <<ticket, clock>> /\ pc[c] \in Phases
    BY <1>8 DEF Submit, gateVars, SigningSound
  <2>2. UNCHANGED pc \/ pc' = [pc EXCEPT ![c] = "released"]
    BY <1>8 DEF Submit
  <2> QED
    BY <1>0, <1>a, <2>1, <2>2
<1>9. CASE (\E c \in Apps : ReadNextIndex(c)) \/ Summarise \/ Preflight \/ UNCHANGED vars
  <2>1. UNCHANGED <<ticket, clock, pc>>
    BY <1>9 DEF ReadNextIndex, Summarise, Preflight, vars, gateVars
  <2> QED
    BY <1>0, <2>1
<1> QED
  BY <1>2, <1>3, <1>4, <1>5, <1>6, <1>7, <1>8, <1>9
     DEF Next, AppStep, WorkerStep, Terminated

\* Every step keeps: who prepares an extrinsic is inside a phase.
LEMMA SigningStep == TypeOK /\ Chain /\ SigningSound /\ [Next]_vars => SigningSound'
<1> SUFFICES ASSUME TypeOK, Chain, SigningSound, [Next]_vars, NEW a \in Apps,
                    signing'[a] # NoAccount
             PROVE  pc'[a] \in Phases /\ signing'[a] \in SignsWith[a]
  BY DEF SigningSound
<1> USE DEF AppPCs, Gated, Phases, Over
<1>a. pc \in [Apps -> AppPCs] /\ signing \in [Apps -> Accounts \cup {NoAccount}]
  BY DEF TypeOK
<1>b. signing[a] # NoAccount => pc[a] \in Phases /\ signing[a] \in SignsWith[a]
  BY DEF SigningSound
<1>1. ASSUME NEW w \in Workers, Pull(w)
      PROVE  pc'[a] \in Phases /\ signing'[a] \in SignsWith[a]
  <2>1. UNCHANGED signing /\ (UNCHANGED pc \/ pc' = [pc EXCEPT ![nextIndex] = "options"])
    BY <1>1 DEF Pull, txVars
  <2>2. nextIndex \in Apps => pc[nextIndex] = "queued"
    BY DEF Chain, NotYetPulled, TypeOK, Apps
  <2> QED
    BY <2>1, <2>2, <1>a, <1>b
<1>2. ASSUME NEW w \in Workers, Settle(w)
      PROVE  pc'[a] \in Phases /\ signing'[a] \in SignsWith[a]
  BY <1>2, <1>a, <1>b DEF Settle, txVars
<1>3. ASSUME NEW c \in Apps,
             \/ OptionsReady(c) \/ BuildDone(c) \/ FailBeforeGate(c)
             \/ EnterGate(c) \/ StorageSignerReady(c)
      PROVE  pc'[a] \in Phases /\ signing'[a] \in SignsWith[a]
  BY <1>3, <1>a, <1>b DEF OptionsReady, BuildDone, FailBeforeGate, EnterGate,
     StorageSignerReady, txVars
<1>4. ASSUME NEW c \in Apps, ReadNextIndex(c)
      PROVE  pc'[a] \in Phases /\ signing'[a] \in SignsWith[a]
  BY <1>4, <1>a, <1>b DEF ReadNextIndex
<1>5. ASSUME NEW c \in Apps, Submit(c) \/ FailInGate(c)
      PROVE  pc'[a] \in Phases /\ signing'[a] \in SignsWith[a]
  BY <1>5, <1>a, <1>b DEF Submit, FailInGate
<1>6. ASSUME NEW c \in Apps, PhaseDone(c)
      PROVE  pc'[a] \in Phases /\ signing'[a] \in SignsWith[a]
  BY <1>6, <1>a, <1>b DEF PhaseDone, txVars
<1>7. CASE Summarise \/ Preflight \/ UNCHANGED vars
  BY <1>7, <1>b DEF Summarise, Preflight, txVars, vars
<1> QED
  BY <1>1, <1>2, <1>3, <1>4, <1>5, <1>6, <1>7 DEF Next, AppStep, WorkerStep, Terminated

\* Every step keeps NonceSafe: whoever takes a nonce from under a pending read
\* shares an account, hence a key, hence the gate, with the reader.
LEMMA NonceStep ==
    TypeOK /\ Chain /\ GateFifo /\ SigningSound /\ NonceSafe /\ [Next]_vars => NonceSafe'
<1> SUFFICES ASSUME TypeOK, Chain, GateFifo, SigningSound, NonceSafe, [Next]_vars,
                    NEW a \in Apps, signing'[a] # NoAccount
             PROVE  readNonce'[a] = nextNonce'[signing'[a]]
  BY DEF NonceSafe
<1>a. /\ signing \in [Apps -> Accounts \cup {NoAccount}]
      /\ readNonce \in [Apps -> Nat] /\ nextNonce \in [Accounts -> Nat]
  BY DEF TypeOK
<1>1. ASSUME NEW c \in Apps, ReadNextIndex(c)
      PROVE  readNonce'[a] = nextNonce'[signing'[a]]
  BY <1>1, <1>a, AccountAssumption DEF ReadNextIndex, NonceSafe
<1>2. ASSUME NEW c \in Apps, Submit(c)
      PROVE  readNonce'[a] = nextNonce'[signing'[a]]
  <2>1. /\ signing' = [signing EXCEPT ![c] = NoAccount]
        /\ readNonce' = [readNonce EXCEPT ![c] = 0] /\ signing[c] # NoAccount
        /\ \/ nextNonce' = [nextNonce EXCEPT ![signing[c]] = nextNonce[signing[c]] + 1]
           \/ UNCHANGED nextNonce
    BY <1>2 DEF Submit
  <2>2. a # c /\ signing'[a] = signing[a] /\ readNonce'[a] = readNonce[a]
    BY <2>1, <1>a
  <2>3. signing[a] # signing[c]
    <3>1. SUFFICES ASSUME signing[a] = signing[c] PROVE FALSE
      OBVIOUS
    <3>2. /\ pc[a] \in Gated /\ pc[c] \in Gated
          /\ signing[a] \in SignsWith[a] \cap SignsWith[c]
      BY <2>1, <2>2, <3>1 DEF SigningSound, Gated
    <3>3. SignerKey[a] = SignerKey[c]
      BY <3>2, KeyCoversAccounts
    <3> QED
      BY <2>2, <3>2, <3>3, GateExclusive DEF Chain
  <2> QED
    BY <1>a, <2>1, <2>2, <2>3 DEF NonceSafe
<1>3. ASSUME NEW c \in Apps, FailInGate(c)
      PROVE  readNonce'[a] = nextNonce'[signing'[a]]
  BY <1>3, <1>a DEF FailInGate, NonceSafe
<1>4. CASE UNCHANGED txVars
  BY <1>4 DEF txVars, NonceSafe
<1> QED
  BY <1>1, <1>2, <1>3, <1>4 DEF Next, AppStep, WorkerStep, Terminated, Pull, Settle,
     OptionsReady, BuildDone, FailBeforeGate, EnterGate, StorageSignerReady, PhaseDone,
     Summarise, Preflight, txVars, vars

-----------------------------------------------------------------------------
\* The initial state satisfies the inductive invariant.
LEMMA InitIInv == Init => IInv
<1> SUFFICES ASSUME Init PROVE IInv
  OBVIOUS
<1>1. TypeOK
  BY NumAppsAssumption DEF Init, TypeOK, AppPCs, Apps
<1>2. Chain
  BY DEF Init, Chain, NotYetPulled, JobIsApp, TicketSound, TicketsDistinct, TailIsLast,
     TailArrived, PredIsPrevious, Arrived, Gated, Phases, Apps, NoApp
<1>3. GateFifo /\ SigningSound /\ NonceSafe
  BY DEF Init, GateFifo, SigningSound, NonceSafe, Arrived, Started
<1> QED
  BY <1>1, <1>2, <1>3 DEF IInv

\* The inductive invariant holds throughout every batch.
LEMMA Invariance == Spec => []IInv
<1>1. IInv /\ [Next]_vars => IInv'
  BY TypeStep, ChainStep, FifoStep, SigningStep, NonceStep DEF IInv, Chain
<1> QED
  BY <1>1, InitIInv, PTL DEF Spec

\* The state of the batch is well formed (the variables of runParallelDeploys,
\* the gate registry and the chain), for every manifest and concurrency.
THEOREM TypeCorrect == Spec => []TypeOK
<1>1. IInv => TypeOK
  BY DEF IInv
<1> QED
  BY <1>1, Invariance, PTL

\* The gate of signingGate.ts is a FIFO mutex, whatever fails inside it.
THEOREM GateIsFifo == Spec => []GateFifo
<1>1. IInv => GateFifo
  BY DEF IInv
<1> QED
  BY <1>1, Invariance, PTL

\* The nonce-safety contract of signingGate.ts: if the signer key covers the
\* accounts an app signs with, no extrinsic of a batch loses its nonce.
THEOREM NonceSafety == Spec => []NonceSafe
<1>1. IInv => NonceSafe
  BY DEF IInv
<1> QED
  BY <1>1, Invariance, PTL

-----------------------------------------------------------------------------
(***************************************************************************)
(* The exit code.                                                          *)
(***************************************************************************)
\* A good outcome is on chain, and a result is recorded when the app settles.
OutcomeSound ==
    \A a \in Apps :
        /\ pc[a] = "publish" => a \in linked
        /\ outcome[a] = "ok" => a \in linked /\ (Publish => a \in published)
        /\ results[a] # "none" <=> pc[a] = "settled"
        /\ results[a] = "success" => outcome[a] = "ok"

\* No index is skipped, every app under way has its worker, and a worker
\* returns only when no index is left; before the batch nothing has happened.
PoolSound ==
    /\ \A a \in Apps : a < nextIndex => pc[a] # "queued"
    /\ \A a \in Apps : pc[a] \notin {"queued", "settled"} =>
          \E w \in Workers : wpc[w] = "deploying" /\ job[w] = a
    /\ \A w \in Workers : wpc[w] = "returned" => nextIndex >= NumApps
    /\ exitCode # -1 /\ command = "batch" => \A w \in Workers : wpc[w] = "returned"
    /\ command = "preflight" => exitCode = -1
    /\ command # "batch" => /\ \A a \in Apps : pc[a] = "queued"
                            /\ linked = {} /\ published = {}
                            /\ nextNonce = [x \in Accounts |-> 0]

\* What a step of one app changes of its outcome.
LEMMA AppMoves ==
    ASSUME TypeOK, SigningSound, OutcomeSound, NEW a \in Apps, AppStep(a)
    PROVE  /\ pc[a] \notin {"queued", "settled"} /\ pc'[a] \notin {"queued", "settled"}
           /\ \A b \in Apps : b # a => pc'[b] = pc[b] /\ outcome'[b] = outcome[b]
           /\ linked \subseteq linked' /\ published \subseteq published'
           /\ UNCHANGED <<nextIndex, wpc, job, results, command, exitCode>>
           /\ pc'[a] = "publish" => a \in linked'
           /\ outcome'[a] = "ok" => a \in linked' /\ (Publish => a \in published')
<1> USE DEF AppPCs, Gated, Phases
<1>1. /\ pc \in [Apps -> AppPCs] /\ outcome \in [Apps -> {"none", "ok", "error"}]
      /\ command' = command
  BY DEF TypeOK, AppStep
<1>2. CASE OptionsReady(a) \/ BuildDone(a) \/ EnterGate(a) \/ StorageSignerReady(a)
  BY <1>1, <1>2 DEF OptionsReady, BuildDone, EnterGate, StorageSignerReady, poolVars, chainVars,
     OutcomeSound
<1>3. CASE FailBeforeGate(a) \/ FailInGate(a)
  BY <1>1, <1>3 DEF FailBeforeGate, FailInGate, poolVars, chainVars
<1>4. CASE ReadNextIndex(a)
  BY <1>1, <1>4 DEF ReadNextIndex, poolVars, chainVars, OutcomeSound
<1>5. CASE Submit(a)
  <2>1. pc[a] \in Phases /\ UNCHANGED <<poolVars, chainVars, exitCode>>
    BY <1>5 DEF Submit, SigningSound
  <2>2. \/ UNCHANGED <<pc, outcome>>
        \/ pc' = [pc EXCEPT ![a] = "released"] /\ outcome' = [outcome EXCEPT ![a] = "error"]
    BY <1>5 DEF Submit
  <2> QED
    BY <1>1, <2>1, <2>2 DEF OutcomeSound, poolVars, chainVars
<1>6. CASE PhaseDone(a)
  <2>1. /\ UNCHANGED <<poolVars, exitCode>> /\ pc[a] \in Phases
        /\ linked \subseteq linked' /\ published \subseteq published'
    BY <1>6 DEF PhaseDone
  <2>2. CASE pc[a] = "upload"
    BY <1>1, <1>6, <2>1, <2>2 DEF PhaseDone, poolVars, OutcomeSound
  <2>3. CASE pc[a] = "dotns"
    <3>1. a \in linked'
      BY <1>6, <2>3 DEF PhaseDone
    <3>2. CASE Publish
      BY <1>1, <1>6, <2>1, <2>3, <3>1, <3>2 DEF PhaseDone, poolVars, OutcomeSound
    <3>3. CASE ~Publish
      BY <1>1, <1>6, <2>1, <2>3, <3>1, <3>3 DEF PhaseDone, poolVars, OutcomeSound
    <3> QED
      BY <3>2, <3>3
  <2>4. CASE pc[a] = "publish"
    <3>1. a \in linked' /\ a \in published'
      BY <1>6, <2>1, <2>4 DEF PhaseDone, OutcomeSound
    <3> QED
      BY <1>1, <1>6, <2>1, <2>4, <3>1 DEF PhaseDone, poolVars
  <2> QED
    BY <2>1, <2>2, <2>3, <2>4
<1> QED
  BY <1>2, <1>3, <1>4, <1>5, <1>6 DEF AppStep

\* Every step keeps outcomes and pool sound.
LEMMA PoolStep ==
    IInv /\ OutcomeSound /\ PoolSound /\ [Next]_vars => OutcomeSound' /\ PoolSound'
<1> SUFFICES ASSUME IInv, OutcomeSound, PoolSound, [Next]_vars
             PROVE  OutcomeSound' /\ PoolSound'
  OBVIOUS
<1>a. TypeOK /\ SigningSound /\ JobIsApp /\ NotYetPulled
  BY DEF IInv, Chain
<1>1. ASSUME NEW a \in Apps, AppStep(a) PROVE OutcomeSound' /\ PoolSound'
  <2>1. OutcomeSound'
    BY <1>1, <1>a, AppMoves DEF OutcomeSound
  <2>2. PoolSound'
    <3>1. \A b \in Apps : /\ pc'[b] = "queued" <=> pc[b] = "queued"
                          /\ pc'[b] = "settled" <=> pc[b] = "settled"
      BY <1>1, <1>a, AppMoves
    <3>2. UNCHANGED <<nextIndex, wpc, job, command, exitCode>>
      BY <1>1, <1>a, AppMoves
    <3>3. command = "batch"
      BY <1>1, <1>a, AppMoves DEF PoolSound
    <3> QED
      BY <3>1, <3>2, <3>3 DEF PoolSound
  <2> QED
    BY <2>1, <2>2
<1>2. ASSUME NEW w \in Workers, Pull(w), command = "batch", command' = command
      PROVE  OutcomeSound' /\ PoolSound'
  <2>1. /\ wpc[w] = "loop" /\ UNCHANGED <<outcome, results, linked, published, exitCode>>
        /\ wpc \in [Workers -> {"loop", "deploying", "returned"}] /\ exitCode = -1
        /\ command' = "batch"
    BY <1>2, <1>a DEF Pull, chainVars, TypeOK, PoolSound
  <2>2. CASE nextIndex >= NumApps
    <3>1. wpc' = [wpc EXCEPT ![w] = "returned"] /\ UNCHANGED <<nextIndex, job, pc>>
      BY <1>2, <2>2 DEF Pull
    <3> QED
      BY <2>1, <2>2, <3>1 DEF OutcomeSound, PoolSound
  <2>3. CASE ~(nextIndex >= NumApps)
    <3>1. /\ nextIndex' = nextIndex + 1 /\ wpc' = [wpc EXCEPT ![w] = "deploying"]
          /\ job' = [job EXCEPT ![w] = nextIndex] /\ pc' = [pc EXCEPT ![nextIndex] = "options"]
      BY <1>2, <2>3 DEF Pull
    <3>2. nextIndex \in Apps /\ pc[nextIndex] = "queued" /\ nextIndex \in Nat
      BY <1>a, <2>3, NumAppsAssumption DEF TypeOK, Apps, NotYetPulled
    <3>3. pc \in [Apps -> AppPCs] /\ job \in [Workers -> Apps \cup {NoApp}]
      BY <1>a DEF TypeOK
    <3>4. OutcomeSound'
      BY <2>1, <3>1, <3>2, <3>3 DEF OutcomeSound
    <3>5. \A a \in Apps : a < nextIndex' => pc'[a] # "queued"
      BY <3>1, <3>2, <3>3 DEF PoolSound, Apps
    <3>6. ASSUME NEW a \in Apps, pc'[a] \notin {"queued", "settled"}
          PROVE  \E v \in Workers : wpc'[v] = "deploying" /\ job'[v] = a
      <4>1. CASE a = nextIndex
        BY <2>1, <3>1, <3>3, <4>1
      <4>2. CASE a # nextIndex
        <5>1. PICK v \in Workers : wpc[v] = "deploying" /\ job[v] = a
          BY <3>1, <3>2, <3>3, <3>6, <4>2 DEF PoolSound
        <5>2. v # w
          BY <2>1, <5>1
        <5> QED
          BY <2>1, <3>1, <3>3, <5>1, <5>2
      <4> QED
        BY <4>1, <4>2
    <3>7. \A v \in Workers : wpc'[v] = "returned" => nextIndex' >= NumApps
      <4>1. ~(\E v \in Workers : wpc[v] = "returned")
        BY <2>3 DEF PoolSound
      <4> QED
        BY <2>1, <3>1, <4>1
    <3> QED
      BY <2>1, <3>4, <3>5, <3>6, <3>7 DEF PoolSound
  <2> QED
    BY <2>2, <2>3
<1>3. ASSUME NEW w \in Workers, Settle(w), command = "batch", command' = command
      PROVE  OutcomeSound' /\ PoolSound'
  <2> DEFINE c == job[w]
  <2>1. /\ wpc[w] = "deploying" /\ c \in Apps /\ pc[c] \in {"threw", "released"}
        /\ results' = [results EXCEPT ![c] = IF outcome[c] = "ok" THEN "success" ELSE "failed"]
        /\ pc' = [pc EXCEPT ![c] = "settled"] /\ wpc' = [wpc EXCEPT ![w] = "loop"]
        /\ UNCHANGED <<nextIndex, job, outcome, linked, published, exitCode>>
        /\ command = "batch" /\ command' = "batch"
    BY <1>3, <1>a DEF Settle, JobIsApp, chainVars
  <2>2. /\ pc \in [Apps -> AppPCs] /\ results \in [Apps -> {"none", "success", "failed"}]
        /\ wpc \in [Workers -> {"loop", "deploying", "returned"}]
    BY <1>a DEF TypeOK
  <2>3. \A a \in Apps : a # c => pc'[a] = pc[a] /\ results'[a] = results[a]
    BY <2>1, <2>2
  <2>4. /\ pc'[c] = "settled" /\ results'[c] # "none"
        /\ results'[c] = "success" => outcome[c] = "ok"
    BY <2>1, <2>2
  <2>5. \A v \in Workers : v # w => wpc'[v] = wpc[v]
    BY <2>1, <2>2
  <2>6. wpc'[w] = "loop" /\ exitCode = -1
    BY <2>1, <2>2 DEF PoolSound
  <2>7. \A v \in Workers : job[v] # c => v # w
    OBVIOUS
  <2> HIDE DEF c
  <2>8. OutcomeSound'
    BY <2>1, <2>3, <2>4 DEF OutcomeSound
  <2>9. \A a \in Apps : a < nextIndex' => pc'[a] # "queued"
    BY <2>1, <2>3, <2>4 DEF PoolSound
  <2>10. ASSUME NEW a \in Apps, pc'[a] \notin {"queued", "settled"}
         PROVE  \E v \in Workers : wpc'[v] = "deploying" /\ job'[v] = a
    <3>1. a # c /\ pc'[a] = pc[a]
      BY <2>3, <2>4, <2>10
    <3>2. PICK v \in Workers : wpc[v] = "deploying" /\ job[v] = a
      BY <2>10, <3>1 DEF PoolSound
    <3> QED
      BY <2>1, <2>5, <2>7, <3>1, <3>2
  <2>11. \A v \in Workers : wpc'[v] = "returned" => nextIndex' >= NumApps
    BY <2>1, <2>5, <2>6 DEF PoolSound
  <2> QED
    BY <2>1, <2>6, <2>8, <2>9, <2>10, <2>11 DEF PoolSound
<1>4. CASE Summarise \/ Preflight
  <2>1. UNCHANGED <<poolVars, pc, outcome, txVars, chainVars>>
    BY <1>4 DEF Summarise, Preflight
  <2>2. OutcomeSound'
    BY <2>1 DEF OutcomeSound, poolVars, chainVars
  <2>3. /\ exitCode' # -1 /\ command' = "batch" => \A v \in Workers : wpc[v] = "returned"
        /\ command' = "preflight" => exitCode' = -1
        /\ command' # "batch" => command # "batch"
    BY <1>4 DEF Summarise, Preflight, PoolSound
  <2> QED
    BY <2>1, <2>2, <2>3 DEF PoolSound, poolVars, txVars, chainVars
<1>5. CASE UNCHANGED vars
  BY <1>5 DEF vars, OutcomeSound, PoolSound
<1> QED
  BY <1>1, <1>2, <1>3, <1>4, <1>5 DEF Next, WorkerStep, Terminated

\* When every worker has returned, every app has its result.
LEMMA AllSettled ==
    ASSUME TypeOK, OutcomeSound, PoolSound, \A w \in Workers : wpc[w] = "returned"
    PROVE  \A a \in Apps : results[a] \in {"success", "failed"} /\ pc[a] = "settled"
<1>1. 1 \in Workers
  BY NumAppsAssumption, RequestedAssumption DEF Workers, clampConcurrency
<1>2. nextIndex >= NumApps
  BY <1>1 DEF PoolSound
<1> SUFFICES ASSUME NEW a \in Apps
             PROVE  results[a] \in {"success", "failed"} /\ pc[a] = "settled"
  OBVIOUS
<1>3. a < nextIndex
  BY <1>2, NumAppsAssumption DEF Apps, TypeOK
<1>4. pc[a] = "settled"
  BY <1>3 DEF PoolSound
<1> QED
  BY <1>4 DEF OutcomeSound, TypeOK

\* The exit code of deploy-all tells the truth about the chain, for every
\* manifest, concurrency and failure.
THEOREM ExitCodeIsHonest == Spec => []ExitCodeHonest
<1> DEFINE Inv == OutcomeSound /\ PoolSound /\ ExitCodeHonest
<1>1. Init => Inv
  <2> SUFFICES ASSUME Init PROVE Inv
    OBVIOUS
  <2>1. OutcomeSound /\ ExitCodeHonest
    BY DEF Init, OutcomeSound, ExitCodeHonest
  <2>2. PoolSound
    BY DEF Init, PoolSound, Apps
  <2> QED
    BY <2>1, <2>2
<1>2. IInv /\ IInv' /\ Inv /\ [Next]_vars => Inv'
  <2> SUFFICES ASSUME IInv, IInv', Inv, [Next]_vars PROVE ExitCodeHonest'
    BY PoolStep
  <2>a. TypeOK /\ TypeOK' /\ SigningSound /\ JobIsApp
    BY DEF IInv, Chain
  <2>1. CASE Summarise
    <3>1. /\ \A w \in Workers : wpc[w] = "returned"
          /\ exitCode' = IF Cardinality(Failed) > 0 THEN 1 ELSE 0
          /\ UNCHANGED <<results, linked, published, command, nextNonce>>
      BY <2>1 DEF Summarise, poolVars, chainVars, txVars
    <3>2. \A a \in Apps : results[a] \in {"success", "failed"}
      BY <2>a, <3>1, AllSettled
    <3>3. IsFiniteSet(Failed)
      <4>1. IsFiniteSet(0 .. NumApps - 1)
        BY FS_Interval, NumAppsAssumption
      <4> QED
        BY <4>1, FS_Subset DEF Failed, Apps
    <3>4. Cardinality(Failed) \in Nat /\ (Cardinality(Failed) = 0 <=> Failed = {})
      BY <3>3, FS_CardinalityType, FS_EmptySet
    <3>5. CASE Failed = {}
      <4>1. \A a \in Apps : outcome[a] = "ok"
        BY <3>5 DEF Failed, OutcomeSound
      <4>2. Apps \subseteq linked /\ (Publish => Apps \subseteq published)
        BY <4>1 DEF OutcomeSound
      <4>3. exitCode' = 0
        BY <3>1, <3>4, <3>5
      <4> QED
        BY <2>a, <3>1, <3>2, <4>2, <4>3 DEF ExitCodeHonest, TypeOK
    <3>6. CASE Failed # {}
      <4>1. exitCode' = 1
        BY <3>1, <3>4, <3>6
      <4>2. \E a \in Apps : results[a] = "failed"
        BY <3>2, <3>6 DEF Failed
      <4> QED
        BY <3>1, <3>2, <4>1, <4>2 DEF ExitCodeHonest
    <3> QED
      BY <3>5, <3>6
  <2>2. ASSUME NEW a \in Apps, AppStep(a) PROVE ExitCodeHonest'
    <3>1. /\ linked \subseteq linked' /\ published \subseteq published'
          /\ UNCHANGED <<results, command, exitCode>> /\ command = "batch"
      BY <2>2, <2>a, AppMoves DEF PoolSound
    <3> QED
      BY <2>a, <3>1 DEF ExitCodeHonest, TypeOK
  <2>3. ASSUME NEW w \in Workers, WorkerStep(w) PROVE ExitCodeHonest'
    <3>1. wpc[w] # "returned" /\ exitCode' = exitCode /\ command = "batch" /\ command' = command
      BY <2>3 DEF WorkerStep, Pull, Settle
    <3>2. exitCode = -1
      BY <3>1 DEF PoolSound
    <3> QED
      BY <3>1, <3>2 DEF ExitCodeHonest
  <2>4. CASE Preflight
    BY <2>4 DEF Preflight, PoolSound, ExitCodeHonest, poolVars, txVars, chainVars
  <2>5. CASE UNCHANGED vars
    BY <2>5 DEF vars, ExitCodeHonest
  <2> QED
    BY <2>1, <2>2, <2>3, <2>4, <2>5 DEF Next, Terminated
<1>3. Inv => ExitCodeHonest
  OBVIOUS
<1> HIDE DEF Inv
<1> QED
  BY <1>1, <1>2, <1>3, Invariance, PTL DEF Spec

-----------------------------------------------------------------------------
(***************************************************************************)
(* The batch is never stuck.  ENABLED is out of the prover's reach, so     *)
(* what an app or a worker can do next is spelled out by its guards.       *)
(***************************************************************************)
\* The await the app is at may resolve: it depends on no other app.
CanMove(a) ==
    \/ pc[a] \in {"options", "build"} \cup Gated
    \/ pc[a] = "gate" /\ PredecessorSettled(a)

\* A worker of the pool is at the top of its loop, has an app to record, or
\* waits for an app of its own whose gate is moving: some app of the same key
\* is inside the gate or may enter it.
PoolAdvances ==
    \A w \in Workers :
        \/ wpc[w] \in {"loop", "returned"}
        \/ pc[job[w]] \in {"threw", "released"}
        \/ \E a \in Apps : SignerKey[a] = SignerKey[job[w]] /\ CanMove(a)

\* An app is chained to nobody, or to one that queued earlier under its key.
PredEarlier ==
    \A a \in Apps :
        Arrived(a) /\ pred[a] \in Apps
        => /\ Arrived(pred[a]) /\ SignerKey[pred[a]] = SignerKey[a]
           /\ ticket[pred[a]] < ticket[a]

\* Every worker has an app of its own, under way: no two of them wait for one.
JobsOwn ==
    /\ \A w \in Workers : wpc[w] = "deploying" => pc[job[w]] \notin {"queued", "settled"}
    /\ \A v, w \in Workers :
          wpc[v] = "deploying" /\ wpc[w] = "deploying" /\ job[v] = job[w] => v = w

\* Every step keeps the links of the promise chains pointing backwards.
LEMMA PredStep == IInv /\ PredEarlier /\ [Next]_vars => PredEarlier'
<1> SUFFICES ASSUME IInv, PredEarlier, [Next]_vars PROVE PredEarlier'
  OBVIOUS
<1> USE KeyAssumption
<1>a. /\ TypeOK /\ TicketSound /\ TailArrived
      /\ ticket \in [Apps -> Nat \cup {-1}] /\ clock \in Nat
      /\ tail \in [Keys -> Apps \cup {NoApp}] /\ pred \in [Apps -> Apps \cup {NoApp}]
  BY DEF IInv, Chain, TypeOK
<1>1. ASSUME NEW c \in Apps, OptionsReady(c) \/ BuildDone(c), ~UNCHANGED gateVars
      PROVE  PredEarlier'
  <2>1. runExclusive(c) /\ pc[c] \in {"options", "build"}
    BY <1>1 DEF OptionsReady, BuildDone
  <2>2. /\ ticket' = [ticket EXCEPT ![c] = clock]
        /\ pred' = [pred EXCEPT ![c] = tail[SignerKey[c]]] /\ SignerKey[c] \in Keys
        /\ ~Arrived(c)
    BY <2>1, <1>a DEF runExclusive, TicketSound
  <2>3. \A a \in Apps : Arrived(a) => a # c /\ Arrived(a)' /\ ticket'[a] = ticket[a]
                                      /\ pred'[a] = pred[a] /\ ticket[a] < clock
    BY <1>a, <2>2 DEF Arrived, TicketSound
  <2> SUFFICES ASSUME NEW a \in Apps, Arrived(a)', pred'[a] \in Apps
               PROVE  /\ Arrived(pred[a])' /\ SignerKey[pred'[a]] = SignerKey[a]
                      /\ ticket'[pred'[a]] < ticket'[a]
    BY DEF PredEarlier, Arrived
  <2>4. CASE a = c
    <3>1. pred'[a] = tail[SignerKey[c]] /\ ticket'[a] = clock
      BY <1>a, <2>2, <2>4
    <3>2. Arrived(pred'[a]) /\ SignerKey[pred'[a]] = SignerKey[a]
      BY <1>a, <2>2, <2>4, <3>1 DEF TailArrived
    <3> QED
      BY <2>3, <3>1, <3>2 DEF Arrived
  <2>5. CASE a # c
    <3>1. Arrived(a) /\ pred'[a] = pred[a] /\ ticket'[a] = ticket[a]
      BY <1>a, <2>2, <2>5 DEF Arrived
    <3> QED
      BY <2>3, <3>1 DEF PredEarlier, Arrived
  <2> QED
    BY <2>4, <2>5
<1>2. CASE UNCHANGED gateVars
  BY <1>2 DEF gateVars, PredEarlier, Arrived
<1> QED
  BY <1>1, <1>2 DEF Next, AppStep, WorkerStep, Terminated, Pull, Settle, FailBeforeGate,
     EnterGate, StorageSignerReady, ReadNextIndex, Submit, PhaseDone, FailInGate,
     Summarise, Preflight, gateVars, vars

\* Every step keeps the workers' apps apart and under way.
LEMMA JobsStep ==
    IInv /\ OutcomeSound /\ JobsOwn /\ [Next]_vars => JobsOwn'
<1> SUFFICES ASSUME IInv, OutcomeSound, JobsOwn, [Next]_vars PROVE JobsOwn'
  OBVIOUS
<1>a. /\ TypeOK /\ SigningSound /\ JobIsApp /\ NotYetPulled
      /\ pc \in [Apps -> AppPCs] /\ job \in [Workers -> Apps \cup {NoApp}]
      /\ wpc \in [Workers -> {"loop", "deploying", "returned"}]
  BY DEF IInv, Chain, TypeOK
<1>1. ASSUME NEW a \in Apps, AppStep(a) PROVE JobsOwn'
  <2>1. /\ pc'[a] \notin {"queued", "settled"} /\ \A b \in Apps : b # a => pc'[b] = pc[b]
        /\ UNCHANGED <<wpc, job>>
    BY <1>1, <1>a, AppMoves
  <2> QED
    BY <1>a, <2>1 DEF JobsOwn, JobIsApp
<1>2. ASSUME NEW w \in Workers, Pull(w) PROVE JobsOwn'
  <2>1. CASE nextIndex >= NumApps
    BY <1>2, <1>a, <2>1 DEF Pull, JobsOwn
  <2>2. CASE ~(nextIndex >= NumApps)
    <3>1. /\ wpc' = [wpc EXCEPT ![w] = "deploying"]
          /\ job' = [job EXCEPT ![w] = nextIndex] /\ pc' = [pc EXCEPT ![nextIndex] = "options"]
      BY <1>2, <2>2 DEF Pull
    <3>2. nextIndex \in Apps /\ pc[nextIndex] = "queued"
      BY <1>a, <2>2, NumAppsAssumption DEF TypeOK, Apps, NotYetPulled
    <3>3. \A v \in Workers : v # w => wpc'[v] = wpc[v] /\ job'[v] = job[v]
      BY <1>a, <3>1
    <3>4. \A v \in Workers : v # w /\ wpc[v] = "deploying" =>
            job[v] \in Apps /\ job[v] # nextIndex /\ pc'[job[v]] = pc[job[v]]
      BY <1>a, <3>1, <3>2 DEF JobsOwn, JobIsApp
    <3>5. job'[w] = nextIndex /\ pc'[nextIndex] = "options"
      BY <1>a, <3>1, <3>2
    <3> QED
      BY <3>3, <3>4, <3>5 DEF JobsOwn
  <2> QED
    BY <2>1, <2>2
<1>3. ASSUME NEW w \in Workers, Settle(w) PROVE JobsOwn'
  <2>1. /\ wpc[w] = "deploying" /\ job[w] \in Apps /\ UNCHANGED job
        /\ pc' = [pc EXCEPT ![job[w]] = "settled"] /\ wpc' = [wpc EXCEPT ![w] = "loop"]
    BY <1>3, <1>a DEF Settle, JobIsApp
  <2>2. \A v \in Workers : wpc'[v] = "deploying" => v # w /\ wpc[v] = "deploying"
    BY <1>a, <2>1
  <2>3. \A v \in Workers : wpc'[v] = "deploying" => pc'[job[v]] = pc[job[v]]
    BY <1>a, <2>1, <2>2 DEF JobsOwn, JobIsApp
  <2> QED
    BY <2>1, <2>2, <2>3 DEF JobsOwn
<1>4. CASE Summarise \/ Preflight \/ UNCHANGED vars
  BY <1>4 DEF Summarise, Preflight, poolVars, vars, JobsOwn
<1> QED
  BY <1>1, <1>2, <1>3, <1>4 DEF Next, WorkerStep, Terminated

\* A nonempty set of natural numbers has a least element.
LEMMA LeastTicket ==
    ASSUME NEW T \in SUBSET Nat, T # {}
    PROVE  \E x \in T : \A y \in T : x <= y
<1> DEFINE below == {ss \in Nat \X Nat : ss[1] < ss[2]}
<1>1. OpToRel(<, Nat) = below
  BY Zenon DEF OpToRel
<1>2. IsWellFoundedOn(below, Nat)
  BY <1>1, NatLessThanWellFounded, Zenon
<1> HIDE DEF below
<1>3. PICK x \in T : \A y \in T : ~ (<<y, x>> \in below)
  BY <1>2, WFMin
<1>4. ASSUME NEW y \in T PROVE x <= y
  <2>1. <<y, x>> \in Nat \X Nat /\ x \in Nat /\ y \in Nat
    OBVIOUS
  <2>2. y < x => <<y, x>> \in below
    BY <2>1, Zenon DEF below
  <2> QED
    BY <1>3, <2>1, <2>2
<1> QED
  BY <1>4

\* Behind a queue of the gate there is always an app that may move: of those
\* that queued under the key and are not over, the one with the least ticket.
LEMMA GateDrains ==
    ASSUME IInv, PredEarlier, NEW a \in Apps, pc[a] = "gate"
    PROVE  \E b \in Apps : SignerKey[b] = SignerKey[a] /\ CanMove(b)
<1> DEFINE Waiting == {b \in Apps : SignerKey[b] = SignerKey[a] /\ Arrived(b) /\ pc[b] \notin Over}
<1> DEFINE Tickets == {ticket[b] : b \in Waiting}
<1>a. /\ TicketSound /\ pc \in [Apps -> AppPCs] /\ ticket \in [Apps -> Nat \cup {-1}]
  BY DEF IInv, Chain, TypeOK
<1>1. a \in Waiting
  BY <1>a DEF TicketSound, Over
<1>2. Tickets \in SUBSET Nat /\ Tickets # {}
  BY <1>1, <1>a DEF Arrived
<1>3. PICK x \in Tickets : \A y \in Tickets : x <= y
  BY <1>2, LeastTicket
<1>4. PICK b \in Waiting : ticket[b] = x
  BY <1>3
<1>5. pc[b] \in Gated \cup {"gate"}
  BY <1>4, <1>a DEF TicketSound, AppPCs
<1>6. ASSUME NEW c \in Apps, pred[b] = c PROVE pc[c] \in Over
  <2>1. Arrived(c) /\ SignerKey[c] = SignerKey[a] /\ ticket[c] < ticket[b]
    BY <1>4, <1>6 DEF PredEarlier
  <2>2. c \in Waiting => x <= ticket[c]
    BY <1>3
  <2>3. ticket[c] \in Int /\ x \in Int
    BY <1>a, <1>4
  <2> QED
    BY <1>4, <2>1, <2>2, <2>3
<1>7. CanMove(b)
  BY <1>5, <1>6 DEF CanMove, PredecessorSettled
<1> QED
  BY <1>4, <1>7

\* One bad deploy never stalls the batch (parallel.ts, lines 108-115), as far as
\* it is safety: whatever has failed, no worker waits for an app nobody drives,
\* two workers never wait for one app, and a queue at the gate of a key always
\* has an app of that key that may move, for every manifest and concurrency.
THEOREM BatchIsNeverStuck == Spec => []PoolAdvances
<1> DEFINE Inv == OutcomeSound /\ PoolSound /\ PredEarlier /\ JobsOwn
<1>1. Init => Inv
  <2> SUFFICES ASSUME Init PROVE Inv
    OBVIOUS
  <2>1. OutcomeSound /\ JobsOwn
    BY DEF Init, OutcomeSound, JobsOwn
  <2>2. PoolSound
    BY DEF Init, PoolSound, Apps
  <2>3. PredEarlier
    BY DEF Init, PredEarlier, Arrived
  <2> QED
    BY <2>1, <2>2, <2>3
<1>2. IInv /\ Inv /\ [Next]_vars => Inv'
  BY PoolStep, PredStep, JobsStep
<1>3. IInv /\ Inv => PoolAdvances
  <2> SUFFICES ASSUME IInv, Inv, NEW w \in Workers,
                      wpc[w] \notin {"loop", "returned"},
                      pc[job[w]] \notin {"threw", "released"}
               PROVE  \E a \in Apps : SignerKey[a] = SignerKey[job[w]] /\ CanMove(a)
    BY DEF PoolAdvances
  <2>1. /\ TypeOK /\ JobIsApp /\ wpc[w] = "deploying"
    BY DEF IInv, Chain, TypeOK
  <2>2. /\ job[w] \in Apps /\ pc[job[w]] \notin {"queued", "settled"}
        /\ pc[job[w]] \in AppPCs
    BY <2>1 DEF JobIsApp, JobsOwn, TypeOK
  <2>3. CASE pc[job[w]] = "gate"
    BY <2>2, <2>3, GateDrains
  <2>4. CASE pc[job[w]] # "gate"
    <3>1. CanMove(job[w])
      BY <2>2, <2>4 DEF CanMove, AppPCs, Over
    <3> QED
      BY <2>2, <3>1
  <2> QED
    BY <2>3, <2>4
<1> HIDE DEF Inv
<1> QED
  BY <1>1, <1>2, <1>3, Invariance, PTL DEF Spec

-----------------------------------------------------------------------------
(***************************************************************************)
(* The batch implements SerialSubmission.                                  *)
(***************************************************************************)
Holding == {a \in Apps : pc[a] \in Gated}
Finished == {a \in Apps : Arrived(a) /\ pc[a] \in Over}

\* A step of the batch is a step of SerialSubmission or leaves its state alone.
LEMMA SerialStep == IInv /\ [Next]_vars => [Serial!Next]_Serial!vars
<1> SUFFICES ASSUME IInv, [Next]_vars PROVE [Serial!Next]_Serial!vars
  OBVIOUS
<1> USE DEF AppPCs, Gated, Phases, Over
<1>a. TypeOK /\ Chain /\ SigningSound /\ NonceSafe /\ GateFifo
  BY DEF IInv
<1>b. /\ pc \in [Apps -> AppPCs] /\ ticket \in [Apps -> Nat \cup {-1}] /\ clock \in Nat
  BY <1>a DEF TypeOK
<1>c. /\ \A a \in Apps : pc[a] \in {"gate", "released"} \cup Gated => Arrived(a)
      /\ \A a \in Apps : pc[a] \in {"queued", "options", "build"} => ~Arrived(a)
  BY <1>a DEF Chain, TicketSound
<1>s. ASSUME Holding' = Holding, Finished' = Finished, nextNonce' = nextNonce
      PROVE  UNCHANGED Serial!vars
  BY <1>s DEF Serial!vars, Holding, Finished
<1>r. ASSUME NEW c \in Apps, pc[c] \in Gated, pc' = [pc EXCEPT ![c] = "released"],
             UNCHANGED ticket, UNCHANGED nextNonce
      PROVE  Serial!Next
  <2>1. Holding' = Holding \ {c}
    BY <1>r, <1>b DEF Holding
  <2>2. Finished' = Finished \cup {c}
    BY <1>r, <1>b, <1>c DEF Finished, Arrived
  <2>3. Serial!Release(c)
    BY <1>r, <2>1, <2>2 DEF Serial!Release, Holding, Finished
  <2> QED
    BY <2>3 DEF Serial!Next
<1>1. ASSUME NEW w \in Workers, Pull(w) PROVE UNCHANGED Serial!vars
  <2>1. UNCHANGED ticket /\ UNCHANGED nextNonce
    BY <1>1 DEF Pull, gateVars, txVars
  <2>2. UNCHANGED pc \/ pc' = [pc EXCEPT ![nextIndex] = "options"]
    BY <1>1 DEF Pull
  <2>3. nextIndex \in Apps => pc[nextIndex] = "queued"
    BY <1>a DEF Chain, NotYetPulled, TypeOK, Apps
  <2> QED
    BY <1>b, <1>s, <2>1, <2>2, <2>3 DEF Holding, Finished, Arrived
<1>2. ASSUME NEW w \in Workers, Settle(w) PROVE UNCHANGED Serial!vars
  BY <1>2, <1>b, <1>s DEF Settle, Holding, Finished, Arrived, gateVars, txVars
<1>3. ASSUME NEW c \in Apps, OptionsReady(c) \/ BuildDone(c) PROVE UNCHANGED Serial!vars
  <2>1. /\ pc[c] \in {"options", "build"} /\ UNCHANGED nextNonce
        /\ \/ pc' = [pc EXCEPT ![c] = "build"] /\ UNCHANGED ticket
           \/ pc' = [pc EXCEPT ![c] = "gate"] /\ ticket' = [ticket EXCEPT ![c] = clock]
    BY <1>3 DEF OptionsReady, BuildDone, runExclusive, gateVars, txVars
  <2>2. Holding' = Holding
    BY <2>1, <1>b DEF Holding
  <2>3. Finished' = Finished
    BY <2>1, <1>b DEF Finished, Arrived
  <2> QED
    BY <1>s, <2>1, <2>2, <2>3
<1>4. ASSUME NEW c \in Apps, FailBeforeGate(c) PROVE UNCHANGED Serial!vars
  <2>1. /\ pc[c] \in {"options", "build"} /\ UNCHANGED nextNonce /\ ~Arrived(c)
        /\ pc' = [pc EXCEPT ![c] = "threw"] /\ UNCHANGED ticket
    BY <1>4, <1>c DEF FailBeforeGate, gateVars, txVars
  <2> QED
    BY <1>b, <1>s, <2>1 DEF Holding, Finished, Arrived
<1>5. ASSUME NEW c \in Apps, EnterGate(c) PROVE Serial!Next
  <2>1. /\ pc[c] = "gate" /\ pc' = [pc EXCEPT ![c] = "resolve"]
        /\ UNCHANGED ticket /\ UNCHANGED nextNonce
    BY <1>5 DEF EnterGate, gateVars, txVars
  <2>2. c \notin Holding \cup Finished
    BY <2>1 DEF Holding, Finished
  <2>3. Holding' = Holding \cup {c} /\ Finished' = Finished
    BY <2>1, <1>b DEF Holding, Finished, Arrived
  <2>4. ASSUME NEW e \in Holding PROVE SignsWith[e] \cap SignsWith[c] = {}
    <3>1. e \in Apps /\ e # c /\ pc[e] \in Gated
      BY <2>1, <2>4 DEF Holding
    <3>2. GateFifo' /\ Chain' /\ TypeOK'
      BY <1>a, FifoStep, ChainStep, TypeStep DEF Chain
    <3>3. pc'[e] \in Gated /\ pc'[c] \in Gated
      BY <2>1, <3>1, <1>b
    <3>4. SignerKey[e] # SignerKey[c]
      <4>1. SUFFICES ASSUME SignerKey[e] = SignerKey[c] PROVE FALSE
        OBVIOUS
      <4>2. /\ Arrived(e)' /\ Arrived(c)' /\ Started(e)' /\ Started(c)'
        BY <3>1, <3>2, <3>3 DEF Chain, TicketSound, Started
      <4>3. ~(ticket'[e] < ticket'[c]) /\ ~(ticket'[c] < ticket'[e])
        BY <3>1, <3>2, <3>3, <4>1, <4>2 DEF GateFifo
      <4>4. ticket'[e] \in Int /\ ticket'[c] \in Int
        BY <3>1, <3>2 DEF TypeOK
      <4> QED
        BY <3>1, <3>2, <4>2, <4>3, <4>4 DEF Chain, TicketsDistinct
    <3> QED
      BY <3>1, <3>4, KeyCoversAccounts
  <2>5. Serial!Acquire(c)
    BY <2>1, <2>2, <2>3, <2>4 DEF Serial!Acquire, Holding, Finished
  <2> QED
    BY <2>5 DEF Serial!Next
<1>6. ASSUME NEW c \in Apps, StorageSignerReady(c) \/ ReadNextIndex(c)
      PROVE  UNCHANGED Serial!vars
  BY <1>6, <1>b, <1>s DEF StorageSignerReady, ReadNextIndex, Holding, Finished, Arrived,
     gateVars, txVars
<1>7. ASSUME NEW c \in Apps, Submit(c) PROVE Serial!Next
  <2>1. /\ pc[c] \in Gated /\ signing[c] \in SignsWith[c] /\ signing[c] \in Accounts
        /\ readNonce[c] = nextNonce[signing[c]]
    BY <1>7, <1>a, AccountAssumption DEF Submit, SigningSound, NonceSafe
  <2>2. /\ nextNonce' = [nextNonce EXCEPT ![signing[c]] = nextNonce[signing[c]] + 1]
        /\ UNCHANGED pc /\ UNCHANGED ticket
    BY <1>7, <2>1 DEF Submit, gateVars
  <2>3. Serial!Submit(c, signing[c])
    BY <2>1, <2>2 DEF Serial!Submit, Arrived
  <2> QED
    BY <2>1, <2>3 DEF Serial!Next
<1>8. ASSUME NEW c \in Apps, PhaseDone(c) PROVE Serial!Next \/ UNCHANGED Serial!vars
  <2>1. PICK s \in {"dotns", "publish", "released"} : pc' = [pc EXCEPT ![c] = s]
    BY <1>8, FlagAssumption DEF PhaseDone
  <2>2. pc[c] \in Phases /\ UNCHANGED ticket /\ UNCHANGED nextNonce
    BY <1>8 DEF PhaseDone, gateVars, txVars
  <2>3. CASE s = "released"
    BY <1>r, <2>1, <2>2, <2>3
  <2>4. CASE s # "released"
    BY <1>b, <1>s, <2>1, <2>2, <2>4 DEF Holding, Finished, Arrived
  <2> QED
    BY <2>3, <2>4
<1>9. ASSUME NEW c \in Apps, FailInGate(c) PROVE Serial!Next
  BY <1>9, <1>r DEF FailInGate, gateVars
<1>10. CASE Summarise \/ Preflight \/ UNCHANGED vars
  BY <1>10, <1>s DEF Summarise, Preflight, vars, txVars, gateVars, Holding, Finished, Arrived
<1> QED
  BY <1>1, <1>2, <1>3, <1>4, <1>5, <1>6, <1>7, <1>8, <1>9, <1>10
     DEF Next, AppStep, WorkerStep, Terminated

\* The gated batch of parallel.ts, with its two-step extrinsics, implements the
\* contract of signingGate.ts: serial, atomic submission per account.
THEOREM BatchIsSerial == Spec => ImplementsSerialSubmission
<1>1. Init => Serial!Init
  BY DEF Init, Serial!Init, Gated, Phases, Over, Arrived
<1> QED
  BY <1>1, SerialStep, Invariance, PTL DEF Spec, Serial!Spec, ImplementsSerialSubmission
=============================================================================
