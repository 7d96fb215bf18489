--------------------------- MODULE SessionProofs ----------------------------
(***************************************************************************)
(* The safety properties of Session, for every set of accounts, any number *)
(* of commands and identities, and any amounts of a drip.                  *)
(***************************************************************************)
EXTENDS Session, TLAPS, FiniteSetTheorems, SequenceTheorems

-----------------------------------------------------------------------------
(* drip.                                                                   *)

\* Only the steps named touch balances or reach the transfer.
LEMMA DripFrame ==
    ASSUME [Next]_vars
    PROVE  \/ UNCHANGED <<bal, late>> /\ (pc' # "transfer" \/ UNCHANGED <<pc, addrs>>)
           \/ \E a \in Accounts : Spend(a) \/ LandsLate(a)
           \/ DripRead \/ DripTransfer
  <1>1. CASE World
    BY <1>1 DEF World, PhoneSwitch, PhoneDisconnect, ReplayDisconnected, world, purse, local
  <1>2. CASE Start
    BY <1>2 DEF Start, StartLogin, StartLogout, StartDrip, StartSign, StartCommand, world, purse
  <1>3. CASE Step
    BY <1>3 DEF Step, ConnectProbe, QrPublished, ReadBack, DepsComplete, ScreenDone, SetupSigner,
                SetupSignerThrows, SetupCheck, SetupGrace, SetupAsk, SetupMapping, LogoutFind,
                WaitForLogout, DripFind, DripDerive, DripEnds, ResolveSigner,
                EnsureSmartContractAllowance, ProcessGone, Forget, FindSession, Unmount, world, purse,
                Skipped, RotateAndPair, None
  <1>4. CASE PhonePairs \/ ScanFails \/ Interrupt
    BY <1>4 DEF PhonePairs, ScanFails, Interrupt, Outlives, Forget, world, purse, None
  <1>5. CASE UNCHANGED vars
    BY <1>5 DEF vars, world, purse, local
  <1> QED BY <1>1, <1>2, <1>3, <1>4, <1>5 DEF Next

\* What an account can hold when n of its drips were not seen in time.
Ceiling(n) == DripCap + DripAmount * n

\* One more drip raises the ceiling by one drip.
LEMMA CeilingFacts ==
    /\ Ceiling(0) = DripCap
    /\ \A n \in Nat : Ceiling(n) \in Nat /\ Ceiling(1 + n) = Ceiling(n) + DripAmount
  BY SessionAssumption DEF Ceiling

\* A drip transfers only to an account it has read below the cap; fees only
\* lower what it read, and what landed since then is counted.
DripInv ==
    /\ bal \in [Accounts -> Nat] /\ late \in [Accounts -> Nat]
    /\ \A a \in Accounts : bal[a] < Ceiling(1 + late[a])
    /\ pc = "transfer" => \A a \in Accounts : a = addrs => bal[a] < Ceiling(late[a])

\* No account is lifted to the cap plus one drip by the drips that were waited for,
\* and each transfer that lands after its command had ended adds one drip at most:
\* whatever is spent between the read and the transfer and however often a drip is
\* interrupted (drip.ts says "up to 10 PAS and no further").
THEOREM DripsAreBounded == Spec => []DripBounded
  <1> USE SessionAssumption
  <1>1. Init => DripInv
    <2> SUFFICES ASSUME Init PROVE DripInv
      OBVIOUS
    <2>1. bal = [a \in Accounts |-> 0] /\ late = [a \in Accounts |-> 0] /\ pc = None
      BY DEF Init
    <2>2. Ceiling(1 + 0) \in Nat \ {0}
      <3>1. Ceiling(0) = DripCap /\ Ceiling(1 + 0) = Ceiling(0) + DripAmount
        BY CeilingFacts
      <3> QED BY <3>1
    <2> QED BY <2>1, <2>2 DEF DripInv, None
  <1>2. DripInv /\ [Next]_vars => DripInv'
    <2> SUFFICES ASSUME DripInv, [Next]_vars PROVE DripInv'
      OBVIOUS
    <2>0. /\ bal \in [Accounts -> Nat] /\ late \in [Accounts -> Nat]
          /\ \A a \in Accounts : bal[a] < Ceiling(1 + late[a])
          /\ \A a \in Accounts : Ceiling(late[a]) \in Nat
                /\ Ceiling(1 + late[a]) = Ceiling(late[a]) + DripAmount
          /\ \A a \in Accounts : Ceiling(1 + (late[a] + 1)) = Ceiling(1 + late[a]) + DripAmount
                /\ Ceiling(late[a] + 1) = Ceiling(late[a]) + DripAmount
      <3>1. ASSUME NEW a \in Accounts
            PROVE  late[a] \in Nat /\ late[a] + 1 \in Nat /\ 1 + late[a] = late[a] + 1
        BY DEF DripInv
      <3> QED BY <3>1, CeilingFacts DEF DripInv
    <2>1. ASSUME NEW b \in Accounts, Spend(b) PROVE DripInv'
      <3>1. /\ bal' = [bal EXCEPT ![b] = @ - 1] /\ bal[b] > 0
            /\ UNCHANGED <<late, pc, addrs>>
        BY <2>1 DEF Spend, local
      <3>2. bal' \in [Accounts -> Nat] /\ \A a \in Accounts : bal'[a] <= bal[a]
        BY <2>0, <3>1
      <3>3. ASSUME NEW a \in Accounts PROVE bal'[a] < Ceiling(1 + late[a])
        BY <2>0, <3>2, <3>3
      <3>4. ASSUME pc = "transfer", NEW a \in Accounts, a = addrs PROVE bal'[a] < Ceiling(late[a])
        <4>1. bal[a] < Ceiling(late[a])
          BY <3>4 DEF DripInv
        <4> QED BY <2>0, <3>2, <4>1
      <3> QED BY <2>0, <3>1, <3>2, <3>3, <3>4 DEF DripInv
    <2>2. ASSUME NEW b \in Accounts, LandsLate(b) PROVE DripInv'
      <3>1. /\ bal' = [bal EXCEPT ![b] = @ + DripAmount]
            /\ late' = [late EXCEPT ![b] = @ + 1]
            /\ UNCHANGED <<pc, addrs>>
        BY <2>2 DEF LandsLate, local
      <3>2. bal' \in [Accounts -> Nat] /\ late' \in [Accounts -> Nat]
        BY <2>0, <3>1
      <3>3. ASSUME NEW a \in Accounts
            PROVE  \/ bal'[a] = bal[a] /\ late'[a] = late[a]
                   \/ bal'[a] = bal[a] + DripAmount /\ late'[a] = late[a] + 1
        BY <2>0, <3>1
      <3>4. ASSUME NEW a \in Accounts PROVE bal'[a] < Ceiling(1 + late'[a])
        BY <2>0, <3>3
      <3>5. ASSUME pc = "transfer", NEW a \in Accounts, a = addrs PROVE bal'[a] < Ceiling(late'[a])
        <4>1. bal[a] < Ceiling(late[a])
          BY <3>5 DEF DripInv
        <4> QED BY <2>0, <3>3, <4>1
      <3> QED BY <3>1, <3>2, <3>4, <3>5 DEF DripInv
    <2>3. CASE DripRead
      <3>1. bal' = bal /\ addrs' = addrs
        BY <2>3 DEF DripRead
      <3>2. CASE pc' = "ended" /\ late' = late
        BY <2>0, <3>1, <3>2 DEF DripInv
      <3>3. CASE ~AtCap(bal[addrs]) /\ late' = [late EXCEPT ![addrs] = 0]
        <4>1. late' \in [Accounts -> Nat]
          BY <2>0, <3>3
        <4>2. ASSUME NEW a \in Accounts
              PROVE  (a = addrs /\ late'[a] = 0 /\ bal[a] < DripCap) \/ (a # addrs /\ late'[a] = late[a])
          BY <2>0, <3>3 DEF AtCap
        <4>3. Ceiling(0) = DripCap /\ Ceiling(1 + 0) = DripCap + DripAmount
          BY CeilingFacts
        <4>4. ASSUME NEW a \in Accounts
              PROVE  bal[a] < Ceiling(1 + late'[a]) /\ (a = addrs => bal[a] < Ceiling(late'[a]))
          <5>1. CASE a = addrs /\ late'[a] = 0 /\ bal[a] < DripCap
            BY <2>0, <4>3, <5>1
          <5>2. CASE a # addrs /\ late'[a] = late[a]
            BY <2>0, <5>2
          <5> QED BY <4>2, <5>1, <5>2
        <4> QED BY <2>0, <3>1, <4>1, <4>4 DEF DripInv
      <3> QED BY <2>3, <3>2, <3>3 DEF DripRead, DripEnds
    <2>4. CASE DripTransfer
      <3>1. /\ pc' = "ended" /\ pc = "transfer" /\ late' = late
            /\ bal' = bal \/ bal' = [bal EXCEPT ![addrs] = @ + DripAmount]
        BY <2>4 DEF DripTransfer, DripEnds, Lands, Outlives, purse
      <3>2. CASE bal' = bal
        BY <2>0, <3>1, <3>2 DEF DripInv
      <3>3. CASE bal' = [bal EXCEPT ![addrs] = @ + DripAmount]
        <4>0. ASSUME NEW a \in Accounts PROVE bal'[a] = bal[a] + DripAmount \/ bal'[a] = bal[a]
          BY <2>0, <3>3
        <4>01. ASSUME NEW a \in Accounts PROVE bal'[a] \in Nat
          BY <2>0, <4>0
        <4>1. bal' \in [Accounts -> Nat]
          BY <2>0, <3>3, <4>01
        <4>2. ASSUME NEW a \in Accounts PROVE bal'[a] < Ceiling(1 + late[a])
          <5>1. CASE a = addrs
            <6>1. bal'[a] = bal[a] + DripAmount /\ bal[a] < Ceiling(late[a])
              BY <2>0, <3>1, <3>3, <5>1 DEF DripInv
            <6> QED BY <2>0, <6>1
          <5>2. CASE a # addrs
            BY <2>0, <3>3, <5>2
          <5> QED BY <5>1, <5>2
        <4> QED BY <2>0, <3>1, <4>1, <4>2 DEF DripInv
      <3> QED BY <3>1, <3>2, <3>3
    <2>5. CASE UNCHANGED <<bal, late>> /\ (pc' # "transfer" \/ UNCHANGED <<pc, addrs>>)
      BY <2>5 DEF DripInv
    <2> QED BY <2>1, <2>2, <2>3, <2>4, <2>5, DripFrame
  <1>3. DripInv => DripBounded
    BY DEF DripInv, DripBounded, Ceiling
  <1> QED BY <1>1, <1>2, <1>3, PTL DEF Spec

-----------------------------------------------------------------------------
(* The stored sessions and the device identities.                          *)

\* The sessions paired on one of the first n identities.
Known(n) == [acct : Accounts, ident : 1 .. n, sound : BOOLEAN]

\* A filtered list holds sessions of the list, and its last one is the last of
\* the list if that one is kept.
LEMMA FilteredFacts ==
    ASSUME NEW n \in Nat, NEW l \in Seq(Known(n)), NEW kept \in SUBSET (1 .. Len(l)),
           NEW m \in Filtered(l, kept)
    PROVE  /\ m \in Seq(Known(n))
           /\ Len(l) \in kept => m # <<>> /\ m[Len(m)] = l[Len(l)]
  <1>1. Len(l) \in Nat /\ \A i \in 1 .. Len(l) : l[i] \in Known(n)
    OBVIOUS
  <1>2. Cardinality(kept) \in Nat
    <2>1. IsFiniteSet(1 .. Len(l))
      BY <1>1, FS_Interval
    <2>2. IsFiniteSet(kept)
      BY <2>1, FS_Subset
    <2> QED BY <2>2, FS_CardinalityType
  <1>3. PICK f \in InOrder(kept) : m = [i \in DOMAIN f |-> l[f[i]]]
    BY DEF Filtered
  <1> DEFINE c == Cardinality(kept)
  <1>4. /\ f \in [1 .. c -> kept]
        /\ \A k \in kept : \E i \in 1 .. c : f[i] = k
        /\ \A i, j \in 1 .. c : i < j => f[i] < f[j]
    BY <1>3 DEF InOrder
  <1> HIDE DEF c
  <1>5. m = [i \in 1 .. c |-> l[f[i]]] /\ c \in Nat
    BY <1>2, <1>3, <1>4 DEF c
  <1>6. \A i \in 1 .. c : l[f[i]] \in Known(n)
    BY <1>1, <1>4
  <1>7. m \in [1 .. c -> Known(n)]
    BY <1>5, <1>6
  <1>8. m \in Seq(Known(n)) /\ Len(m) = c
    BY <1>5, <1>7, SeqDef, LenProperties
  <1>9. ASSUME Len(l) \in kept PROVE m # <<>> /\ m[Len(m)] = l[Len(l)]
    <2>1. PICK i \in 1 .. c : f[i] = Len(l)
      BY <1>4, <1>9
    <2>2. i = c
      <3> SUFFICES ASSUME i < c PROVE FALSE
        BY <1>5, <2>1
      <3>1. c \in 1 .. c /\ f[i] < f[c] /\ f[c] \in 1 .. Len(l)
        <4>1. c \in 1 .. c
          BY <1>5, <2>1
        <4> QED BY <1>4, <4>1
      <3> QED BY <1>1, <2>1, <3>1
    <2> QED BY <1>5, <1>8, <2>1, <2>2
  <1> QED BY <1>8, <1>9

\* Identities are numbered as they are created, and every session in the list or
\* in a command's hands was paired on one of them.
IdentInv ==
    /\ ident \in Nat /\ idents \in Nat /\ ident <= idents
    /\ phone \in Accounts
    /\ list \in Seq(Known(idents))
    /\ sess \in Known(idents) \cup {NoSession}
    /\ pc \in {"qr", "scan"} => ident # 0

\* What a command finds in the list.
LEMMA NewestFacts ==
    ASSUME IdentInv, NEW found \in Loaded, found # <<>>
    PROVE  found = list /\ NewestSession(found) = list[Len(list)]
           /\ NewestSession(found) \in Known(idents) /\ NewestSession(found) # NoSession
  <1>1. found = list /\ list \in Seq(Known(idents))
    BY DEF Loaded, IdentInv
  <1>2. Len(list) \in 1 .. Len(list)
    BY <1>1
  <1>3. list[Len(list)] \in Known(idents)
    BY <1>1, <1>2
  <1>4. NoSession \notin Known(idents)
    BY DEF NoSession, Known, IdentInv
  <1> QED BY <1>1, <1>3, <1>4 DEF NewestSession

\* Only the steps named change the files, the phone, the session in hand or
\* reach the QR code.
LEMMA IdentFrame ==
    ASSUME [Next]_vars
    PROVE  \/ /\ UNCHANGED <<ident, list, idents, phone>> /\ sess' \in {sess, NoSession}
              /\ pc' = pc \/ pc' \notin {"qr", "scan"}
           \/ \E a \in Accounts : PhoneSwitch(a)
           \/ ReplayDisconnected \/ ConnectProbe \/ QrPublished \/ PhonePairs \/ ReadBack
           \/ SetupSigner \/ LogoutFind \/ WaitForLogout \/ DripFind \/ ResolveSigner \/ Interrupt
  <1>1. CASE World
    BY <1>1 DEF World, PhoneDisconnect, Spend, LandsLate, store, world, local
  <1>2. CASE Start
    BY <1>2 DEF Start, StartLogin, StartLogout, StartDrip, StartSign, StartCommand, store, world, local
  <1>3. CASE Step
    BY <1>3 DEF Step, DepsComplete, ScreenDone,
                SetupSignerThrows, SetupCheck, SetupGrace, SetupAsk, SetupMapping,
                DripDerive, DripRead, DripTransfer, DripEnds, EnsureSmartContractAllowance, ProcessGone,
                Forget, Unmount, store, world, None
  <1>4. CASE PhonePairs \/ ScanFails \/ Interrupt
    BY <1>4 DEF ScanFails, store, world, local
  <1>5. CASE UNCHANGED vars
    BY <1>5 DEF vars, store, world, local
  <1> QED BY <1>1, <1>2, <1>3, <1>4, <1>5 DEF Next

\* What a rotation leaves: the identity file that could not be removed, or a
\* new identity; and the list, or none.
LEMMA RotateFacts ==
    ASSUME IdentInv, NEW removed \in SUBSET RotateKeys, RotateAndPair(removed)
    PROVE  /\ ident' \in Nat /\ idents' \in Nat /\ ident' <= idents' /\ ident' # 0
           /\ idents' >= idents
           /\ list' \in Seq(Known(idents')) /\ Known(idents) \subseteq Known(idents')
           /\ unrotated \subseteq unrotated'
           /\ \/ \A a \in Accounts : <<a, ident'>> \in unrotated'
              \/ ident' > idents
  <1>1. \/ ident' = idents + 1 /\ idents' = idents + 1
        \/ ident' = ident /\ idents' = idents /\ ident # 0 /\ "DeviceIdentity" \notin removed
    BY DEF RotateAndPair
  <1>2. unrotated \subseteq unrotated'
    BY DEF RotateAndPair
  <1>3. ident # 0 /\ "DeviceIdentity" \notin removed =>
          \A a \in Accounts : <<a, ident>> \in unrotated'
    BY DEF RotateAndPair, RotateKeys
  <1>4. idents \in Nat /\ ident \in Nat /\ ident <= idents
    BY DEF IdentInv
  <1>5. Known(idents) \subseteq Known(idents')
    BY <1>1, <1>4 DEF Known
  <1>6. list' \in Seq(Known(idents'))
    <2>1. list' \in {<<>>, list}
      BY DEF RotateAndPair
    <2>2. list \in Seq(Known(idents))
      BY DEF IdentInv
    <2>3. <<>> \in Seq(Known(idents'))
      OBVIOUS
    <2>4. list \in Seq(Known(idents'))
      BY <1>5, <2>2
    <2> QED BY <2>1, <2>3, <2>4, Zenon
  <1> QED BY <1>1, <1>2, <1>3, <1>4, <1>5, <1>6

\* Every step keeps the identities.
LEMMA IdentPreserved ==
    ASSUME IdentInv, [Next]_vars
    PROVE  IdentInv'
  <1>1. CASE UNCHANGED <<ident, list, idents, phone>> /\ sess' \in {sess, NoSession}
             /\ (pc' = pc \/ pc' \notin {"qr", "scan"})
    BY <1>1 DEF IdentInv
  <1>2. ASSUME NEW a \in Accounts, PhoneSwitch(a) PROVE IdentInv'
    BY <1>2 DEF PhoneSwitch, IdentInv, store, local
  <1>3. CASE ReplayDisconnected
    <2>1. list' \in Seq(Known(idents))
      <3>1. list' \in Filtered(list, {i \in DOMAIN list : Topic(list[i]) \notin stale})
        BY <1>3 DEF ReplayDisconnected
      <3>2. list \in Seq(Known(idents)) /\ idents \in Nat
        BY DEF IdentInv
      <3>3. {i \in DOMAIN list : Topic(list[i]) \notin stale} \in SUBSET (1 .. Len(list))
        BY <3>2
      <3> QED BY <3>1, <3>2, <3>3, FilteredFacts
    <2> QED BY <1>3, <2>1 DEF ReplayDisconnected, IdentInv, world, local
  <1>4. CASE ConnectProbe
    <2>1. phone' = phone
      BY <1>4 DEF ConnectProbe, world
    <2>2. CASE pc' = "screen" /\ UNCHANGED <<store, idents>> /\ sess' = sess
      BY <2>1, <2>2 DEF IdentInv, store
    <2>3. ASSUME NEW found \in Loaded, found # <<>>, sess' = NewestSession(found), pc' = "screen",
                 UNCHANGED <<store, idents>>
          PROVE  IdentInv'
      <3>1. sess' \in Known(idents)
        BY <2>3, NewestFacts
      <3> QED BY <2>1, <2>3, <3>1 DEF IdentInv, store
    <2>4. ASSUME NEW removed \in SUBSET RotateKeys, RotateAndPair(removed) PROVE IdentInv'
      <3>1. sess' = sess
        BY <2>4 DEF RotateAndPair
      <3> QED BY <2>1, <2>4, <3>1, RotateFacts DEF IdentInv
    <2> QED BY <1>4, <2>2, <2>3, <2>4 DEF ConnectProbe, Skipped
  <1>5. CASE QrPublished
    BY <1>5 DEF QrPublished, Skipped, IdentInv, store, world
  <1>6. CASE PhonePairs
    <2> DEFINE new == [acct |-> phone, ident |-> ident, sound |-> TRUE]
    <2>1. list' = Append(list, new)
      BY <1>6 DEF PhonePairs
    <2>2. new \in Known(idents)
      BY <1>6 DEF PhonePairs, Known, IdentInv
    <2> HIDE DEF new
    <2>3. list' \in Seq(Known(idents))
      BY <2>1, <2>2 DEF IdentInv
    <2>4. UNCHANGED <<ident, idents, phone, sess>> /\ pc' = "paired"
      BY <1>6 DEF PhonePairs
    <2> QED BY <2>3, <2>4 DEF IdentInv
  <1>7. ASSUME \E found \in Loaded : found # <<>> /\ sess' = NewestSession(found),
               UNCHANGED <<store, idents, phone>>, pc' = pc \/ pc' \notin {"qr", "scan"}
        PROVE  IdentInv'
    <2>1. sess' \in Known(idents)
      BY <1>7, NewestFacts
    <2> QED BY <1>7, <2>1 DEF IdentInv, store
  <1>8. ASSUME sess' = sess, UNCHANGED <<store, idents, phone>>, pc' = pc \/ pc' \notin {"qr", "scan"}
        PROVE  IdentInv'
    BY <1>8 DEF IdentInv, store
  <1>9. CASE ReadBack
    BY <1>7, <1>8, <1>9 DEF ReadBack, world
  <1>10. CASE SetupSigner
    BY <1>7, <1>8, <1>10 DEF SetupSigner, world
  <1>11. CASE LogoutFind \/ DripFind
    BY <1>7, <1>8, <1>11 DEF LogoutFind, DripFind, FindSession, world
  <1>12. ASSUME NEW told \in BOOLEAN, NEW removed \in SUBSET AppFiles, SignOut(told, removed),
                UNCHANGED <<idents, phone>>, sess' \in {sess, NoSession}, pc' \notin {"qr", "scan"}
         PROVE  IdentInv'
    <2>1. list' \in Seq(Known(idents)) /\ ident' \in {0, ident}
      <3> DEFINE kept == {i \in DOMAIN list : told => list[i] # sess}
      <3>2. ident' \in {0, ident} /\ (list' = <<>> \/ list' \in Filtered(list, kept))
        BY <1>12 DEF SignOut, ClearLocalAppStorage
      <3>3. list \in Seq(Known(idents)) /\ idents \in Nat
        BY DEF IdentInv
      <3>4. kept \in SUBSET (1 .. Len(list))
        BY <3>3
      <3> HIDE DEF kept
      <3>5. list' \in Filtered(list, kept) => list' \in Seq(Known(idents))
        BY <3>3, <3>4, FilteredFacts
      <3>6. <<>> \in Seq(Known(idents))
        OBVIOUS
      <3> QED BY <3>2, <3>5, <3>6, Zenon
    <2> QED BY <1>12, <2>1 DEF IdentInv
  <1>13. CASE ResolveSigner
    BY <1>7, <1>8, <1>13 DEF ResolveSigner, world
  <1>14. CASE WaitForLogout
    BY <1>12, <1>14 DEF WaitForLogout
  <1>15. CASE Interrupt
    <2>1. PICK told \in BOOLEAN, removed \in SUBSET Removing : SignOut(told, removed)
      BY <1>15 DEF Interrupt
    <2>2. removed \in SUBSET AppFiles
      BY DEF Removing
    <2>3. UNCHANGED <<idents, phone>> /\ sess' = NoSession /\ pc' = None
      BY <1>15 DEF Interrupt, Forget
    <2> QED BY <1>12, <2>1, <2>2, <2>3 DEF None
  <1> QED BY <1>1, <1>2, <1>3, <1>4, <1>5, <1>6, <1>9, <1>10, <1>11, <1>13, <1>14, <1>15,
            IdentFrame

\* The identities hold in every reachable state.
LEMMA IdentInvariant == Spec => []IdentInv
  <1>1. Init => IdentInv
    <2> SUFFICES ASSUME Init PROVE IdentInv
      OBVIOUS
    <2>1. ident \in Nat /\ idents = ident /\ phone \in Accounts /\ sess = NoSession /\ pc = None
      BY DEF Init
    <2>2. list \in Seq(Known(idents))
      <3>1. CASE list = <<>>
        BY <3>1
      <3>2. ASSUME NEW a \in Accounts, NEW s \in BOOLEAN,
                   list = <<[acct |-> a, ident |-> 1, sound |-> s]>>
            PROVE  list \in Seq(Known(idents))
        <4>1. list # <<>>
          BY <3>2
        <4>2. idents = 1
          BY <4>1 DEF Init
        <4>3. [acct |-> a, ident |-> 1, sound |-> s] \in Known(idents)
          BY <4>2 DEF Known
        <4> QED BY <3>2, <4>3
      <3> QED BY <3>1, <3>2 DEF Init
    <2> QED BY <2>1, <2>2 DEF IdentInv, None
  <1>2. IdentInv /\ [Next]_vars => IdentInv'
    BY IdentPreserved
  <1> QED BY <1>1, <1>2, PTL DEF Spec

-----------------------------------------------------------------------------
(* Topics.                                                                 *)

\* No topic is on an identity that is still to be created; the identity a login
\* is about to pair on has no topic at all, unless it could not be removed.
TopicInv ==
    /\ \A t \in served \cup stale : t[2] \in Nat /\ t[2] <= idents
    /\ pc \in {"qr", "scan"} =>
         \/ \A a \in Accounts : <<a, ident>> \in unrotated
         \/ \A t \in served \cup stale : t[2] # ident
    /\ NoPoisonedPairing

\* Only the steps named touch the topics or reach the QR code.
LEMMA TopicFrame ==
    ASSUME [Next]_vars
    PROVE  \/ /\ UNCHANGED <<idents, served, stale, unrotated>>
              /\ pc' \notin {"qr", "scan"} \/ (pc' = pc /\ ident' = ident)
           \/ \E t \in served : PhoneDisconnect(t)
           \/ ConnectProbe \/ QrPublished \/ PhonePairs \/ WaitForLogout \/ Interrupt
  <1>1. CASE World
    BY <1>1 DEF World, PhoneSwitch, ReplayDisconnected, Spend, LandsLate, store, world
  <1>2. CASE Start
    BY <1>2 DEF Start, StartLogin, StartLogout, StartDrip, StartSign, StartCommand, world
  <1>3. CASE Step
    BY <1>3 DEF Step, DepsComplete, ScreenDone, ReadBack, SetupSigner,
                SetupSignerThrows, SetupCheck, SetupGrace, SetupAsk, SetupMapping,
                LogoutFind, DripFind, FindSession, ResolveSigner,
                DripDerive, DripRead, DripTransfer, DripEnds, EnsureSmartContractAllowance, ProcessGone,
                Forget, Unmount, store, world, None
  <1>4. CASE PhonePairs \/ ScanFails \/ Interrupt
    BY <1>4 DEF ScanFails, store, world
  <1>5. CASE UNCHANGED vars
    BY <1>5 DEF vars, store, world
  <1> QED BY <1>1, <1>2, <1>3, <1>4, <1>5 DEF Next

\* Every step keeps the topics.
LEMMA TopicPreserved ==
    ASSUME IdentInv, TopicInv, [Next]_vars
    PROVE  TopicInv'
  <1>0. idents \in Nat /\ ident \in Nat /\ ident <= idents
    BY DEF IdentInv
  <1>1. CASE /\ UNCHANGED <<idents, served, stale, unrotated>>
             /\ pc' \notin {"qr", "scan"} \/ (pc' = pc /\ ident' = ident)
    BY <1>1 DEF TopicInv, NoPoisonedPairing
  <1>2. ASSUME NEW t \in served, PhoneDisconnect(t) PROVE TopicInv'
    <2>1. /\ served' = served \ {t} /\ stale' = stale \cup {t}
          /\ UNCHANGED <<idents, ident, unrotated, pc>>
      BY <1>2 DEF PhoneDisconnect, store
    <2> QED BY <2>1 DEF TopicInv, NoPoisonedPairing
  <1>3. CASE ConnectProbe
    <2>1. UNCHANGED <<served, stale>>
      BY <1>3 DEF ConnectProbe, world
    <2>2. CASE pc' = "screen" /\ UNCHANGED <<store, idents, unrotated>>
      BY <2>1, <2>2 DEF TopicInv, NoPoisonedPairing, store
    <2>3. ASSUME NEW removed \in SUBSET RotateKeys, RotateAndPair(removed) PROVE TopicInv'
      <3>1. /\ ident' \in Nat /\ idents' \in Nat /\ idents' >= idents
            /\ unrotated \subseteq unrotated'
            /\ (\A a \in Accounts : <<a, ident'>> \in unrotated') \/ ident' > idents
        BY <2>3, RotateFacts
      <3>2. \A t \in served' \cup stale' : t[2] \in Nat /\ t[2] <= idents' /\ t[2] <= idents
        BY <1>0, <2>1, <3>1 DEF TopicInv
      <3>3. \/ \A a \in Accounts : <<a, ident'>> \in unrotated'
            \/ \A t \in served' \cup stale' : t[2] # ident'
        BY <1>0, <3>1, <3>2
      <3>4. NoPoisonedPairing'
        BY <2>1, <3>1 DEF TopicInv, NoPoisonedPairing
      <3> QED BY <3>2, <3>3, <3>4 DEF TopicInv
    <2> QED BY <1>3, <2>2, <2>3 DEF ConnectProbe, Skipped
  <1>4. CASE QrPublished
    BY <1>4 DEF QrPublished, Skipped, TopicInv, NoPoisonedPairing, store, world
  <1>5. CASE PhonePairs
    <2> DEFINE superseded == {t \in served : t[1] = phone}
               new == <<phone, ident>>
    <2>1. /\ stale' = stale \cup superseded
          /\ served' = (served \ superseded) \cup {new}
          /\ UNCHANGED <<idents, unrotated>> /\ pc = "scan" /\ pc' = "paired"
      BY <1>5 DEF PhonePairs, Topic
    <2>2. new[2] = ident /\ phone \in Accounts
      BY DEF IdentInv
    <2>3. \A t \in served' \cup stale' : t[2] \in Nat /\ t[2] <= idents'
      BY <1>0, <2>1, <2>2 DEF TopicInv
    <2>4. new \in unrotated \/ new \notin served \cup stale
      BY <2>1, <2>2 DEF TopicInv
    <2>5. NoPoisonedPairing'
      BY <2>1, <2>4 DEF TopicInv, NoPoisonedPairing
    <2> QED BY <2>1, <2>3, <2>5 DEF TopicInv
  <1>6. CASE WaitForLogout \/ Interrupt
    <2>1. /\ UNCHANGED <<idents, unrotated>> /\ pc' \in {"ended", None}
          /\ \/ served' = served /\ stale' = stale
             \/ served' = served \ {Topic(sess)} /\ stale' = stale \cup {Topic(sess)}
      BY <1>6 DEF WaitForLogout, Interrupt, Disconnects, Forget
    <2>2. Topic(sess)[2] \in Nat /\ Topic(sess)[2] <= idents
      BY <1>0 DEF Topic, IdentInv, Known, NoSession
    <2> QED BY <2>1, <2>2 DEF TopicInv, NoPoisonedPairing, None
  <1> QED BY <1>1, <1>2, <1>3, <1>4, <1>5, <1>6, TopicFrame

\* No pairing the phone serves is on a topic with a Disconnected statement,
\* except on an identity file that could not be removed: for every sequence of
\* logins, logouts, account switches and disconnects.
THEOREM PairingsAreNotPoisoned == Spec => []NoPoisonedPairing
  <1>1. Init => TopicInv
    <2> SUFFICES ASSUME Init PROVE TopicInv
      OBVIOUS
    <2>1. stale = {} /\ served = {Topic(list[i]) : i \in DOMAIN list} /\ pc = None
      BY DEF Init
    <2>2. ASSUME NEW t \in served PROVE t[2] \in Nat /\ t[2] <= idents
      <3>1. PICK i \in DOMAIN list : t = Topic(list[i])
        BY <2>1
      <3>2. list # <<>>
        BY <3>1
      <3>3. PICK a \in Accounts, s \in BOOLEAN : list = <<[acct |-> a, ident |-> 1, sound |-> s]>>
        BY <3>2 DEF Init
      <3>4. t = <<a, 1>>
        BY <3>1, <3>3 DEF Topic
      <3>5. idents = 1
        BY <3>2 DEF Init
      <3> QED BY <3>4, <3>5
    <2> QED BY <2>1, <2>2 DEF TopicInv, NoPoisonedPairing, None
  <1>2. IdentInv /\ TopicInv /\ [Next]_vars => TopicInv'
    BY TopicPreserved
  <1>3. TopicInv => NoPoisonedPairing
    BY DEF TopicInv
  <1> QED BY <1>1, <1>2, <1>3, IdentInvariant, PTL DEF Spec

-----------------------------------------------------------------------------
(* The memory of the process.                                              *)

\* Between commands nothing is remembered; only a login sets an account up.
MemoryInv ==
    /\ cmd \in {None, "login", "logout", "drip", "sign"}
    /\ cmd # "login" => setup = "off" /\ paired = NoSession /\ fresh = FALSE /\ rows = NoRows
    /\ cmd = None => /\ outcome = None /\ sess = NoSession /\ addrs = None
                     /\ client = FALSE

\* Every step keeps it.
LEMMA MemoryPreserved ==
    ASSUME MemoryInv, [Next]_vars
    PROVE  MemoryInv'
  <1>1. CASE World
    BY <1>1 DEF World, PhoneSwitch, PhoneDisconnect, ReplayDisconnected, Spend, LandsLate, local, MemoryInv
  <1>2. CASE Start
    BY <1>2 DEF Start, StartLogin, StartLogout, StartDrip, StartSign, StartCommand, local, MemoryInv, None
  <1>3. CASE SetupSignerThrows \/ ProcessGone \/ Interrupt
    BY <1>3 DEF SetupSignerThrows, ProcessGone, Interrupt, Forget, MemoryInv
  <1>4. CASE \/ SetupSigner \/ SetupCheck \/ SetupGrace \/ SetupAsk \/ SetupMapping
             \/ ConnectProbe \/ QrPublished \/ ReadBack \/ DepsComplete \/ ScreenDone
             \/ PhonePairs \/ ScanFails
    <2>1. cmd = "login"
      BY <1>4 DEF MemoryInv, SetupSigner, SetupCheck, SetupGrace, SetupAsk, SetupMapping,
                  ConnectProbe, QrPublished, ReadBack, DepsComplete, ScreenDone,
                  PhonePairs, ScanFails
    <2>2. cmd' = cmd
      BY <1>4 DEF SetupSigner, SetupCheck, SetupGrace, SetupAsk, SetupMapping,
                  ConnectProbe, QrPublished, ReadBack, DepsComplete, ScreenDone,
                  PhonePairs, ScanFails
    <2> QED BY <2>1, <2>2 DEF MemoryInv, None
  <1>5. CASE \/ LogoutFind \/ WaitForLogout
             \/ DripFind \/ DripDerive \/ DripRead \/ DripTransfer
             \/ ResolveSigner \/ EnsureSmartContractAllowance
    <2>1. cmd' = cmd /\ cmd \in {"logout", "drip", "sign"} /\ UNCHANGED <<setup, paired, fresh, rows>>
      BY <1>5 DEF LogoutFind, WaitForLogout, DripFind, FindSession, DripDerive, DripRead,
                  DripTransfer, ResolveSigner, EnsureSmartContractAllowance
    <2> QED BY <2>1 DEF MemoryInv, None
  <1>6. CASE UNCHANGED vars
    BY <1>6 DEF vars, local, MemoryInv
  <1> QED BY <1>1, <1>2, <1>3, <1>4, <1>5, <1>6 DEF Next, Step

\* It holds in every reachable state.
LEMMA MemoryInvariant == Spec => []MemoryInv
  <1>1. Init => MemoryInv
    BY DEF Init, MemoryInv
  <1>2. MemoryInv /\ [Next]_vars => MemoryInv'
    BY MemoryPreserved
  <1> QED BY <1>1, <1>2, PTL DEF Spec

-----------------------------------------------------------------------------
(* logout.                                                                 *)

\* A logout reports at its end only.
LogoutInv ==
    /\ cmd = "logout" /\ pc # "ended" => outcome = None
    /\ SignedOutIsGone

\* The steps of a logout and of the world around it.
LEMMA LogoutFrame ==
    ASSUME MemoryInv, [Next]_vars, cmd' = "logout"
    PROVE  \/ UNCHANGED <<cmd, pc, outcome, list, served, stuck, sess>>
           \/ \E t \in served : PhoneDisconnect(t)
           \/ ReplayDisconnected \/ StartLogout \/ LogoutFind \/ WaitForLogout
  <1>1. CASE World
    BY <1>1 DEF World, PhoneSwitch, Spend, LandsLate, local, store
  <1>2. CASE Start
    BY <1>2 DEF Start, StartLogin, StartDrip, StartSign, StartCommand
  <1>3. CASE SetupSignerThrows \/ ProcessGone \/ Interrupt
    BY <1>3 DEF SetupSignerThrows, ProcessGone, Interrupt, Forget, None
  <1>4. CASE \/ SetupSigner \/ SetupCheck \/ SetupGrace \/ SetupAsk \/ SetupMapping
             \/ ConnectProbe \/ QrPublished \/ ReadBack \/ DepsComplete \/ ScreenDone
             \/ PhonePairs \/ ScanFails
    BY <1>4 DEF MemoryInv, SetupSigner, SetupCheck, SetupGrace, SetupAsk, SetupMapping,
                ConnectProbe, QrPublished, ReadBack, DepsComplete, ScreenDone,
                PhonePairs, ScanFails
  <1>5. CASE DripFind \/ DripDerive \/ DripRead \/ DripTransfer
             \/ ResolveSigner \/ EnsureSmartContractAllowance
    BY <1>5 DEF DripFind, FindSession, DripDerive, DripRead,
                DripTransfer, ResolveSigner, EnsureSmartContractAllowance
  <1>6. CASE UNCHANGED vars
    BY <1>6 DEF vars, local, store, world
  <1> QED BY <1>1, <1>2, <1>3, <1>4, <1>5, <1>6 DEF Next, Step

\* Every step keeps what a logout has reported true.
LEMMA LogoutPreserved ==
    ASSUME MemoryInv, LogoutInv, [Next]_vars
    PROVE  LogoutInv'
  <1>0. SUFFICES ASSUME cmd' = "logout" PROVE LogoutInv'
    BY DEF LogoutInv, SignedOutIsGone
  <1>1. CASE UNCHANGED <<cmd, pc, outcome, list, served, stuck, sess>>
    BY <1>1 DEF LogoutInv, SignedOutIsGone
  <1>2. ASSUME NEW t \in served, PhoneDisconnect(t) PROVE LogoutInv'
    BY <1>2 DEF PhoneDisconnect, LogoutInv, SignedOutIsGone, store, local
  <1>3. CASE ReplayDisconnected
    <2>1. UNCHANGED <<cmd, pc, outcome, served, stuck, sess>> /\ list # <<>>
      BY <1>3 DEF ReplayDisconnected, local, world
    <2> QED BY <2>1 DEF LogoutInv, SignedOutIsGone
  <1>4. CASE StartLogout
    BY <1>4 DEF StartLogout, StartCommand, MemoryInv, LogoutInv, SignedOutIsGone, local
  <1>5. CASE LogoutFind
    <2>1. cmd = "logout" /\ pc = "find" /\ cmd' = cmd
          /\ ((pc' = "ended" /\ outcome' \in {"error", "empty"}) \/ (pc' = "disconnect" /\ outcome' = outcome))
      BY <1>5 DEF LogoutFind, FindSession
    <2> QED BY <2>1 DEF LogoutInv, SignedOutIsGone
  <1>6. CASE WaitForLogout
    <2>1. cmd = "logout" /\ outcome = None /\ pc' = "ended" /\ sess' = sess
      BY <1>6 DEF WaitForLogout, LogoutInv
    <2>2. PICK told \in BOOLEAN, sent \in BOOLEAN, removed \in SUBSET AppFiles :
            /\ told => sent
            /\ SignOut(told, removed)
            /\ served' = IF sent THEN served \ {Topic(sess)} ELSE served
            /\ outcome' = IF told THEN "success" ELSE "partial"
            /\ stuck' = AppFiles \ removed
      BY <1>6 DEF WaitForLogout, Disconnects
    <2>3. list' = <<>> \/ "SsoSessionsV3" \in stuck'
      BY <2>2 DEF SignOut, ClearLocalAppStorage, AppFiles
    <2>4. outcome' = "success" => Topic(sess) \notin served'
      BY <2>1, <2>2 DEF None
    <2> QED BY <2>1, <2>3, <2>4 DEF LogoutInv, SignedOutIsGone, Topic
  <1> QED BY <1>0, <1>1, <1>2, <1>3, <1>4, <1>5, <1>6, LogoutFrame

\* A logout that reports "signed out" has left no session on disk, and full
\* success means the phone has dropped the pairing: whatever disconnect() and
\* unlink did and whatever the phone and replayed statements do in between.
THEOREM LogoutReportsAreTrue == Spec => []SignedOutIsGone
  <1>1. Init => LogoutInv
    BY DEF Init, LogoutInv, SignedOutIsGone, None
  <1>2. MemoryInv /\ LogoutInv /\ [Next]_vars => LogoutInv'
    BY LogoutPreserved
  <1>3. LogoutInv => SignedOutIsGone
    BY DEF LogoutInv
  <1> QED BY <1>1, <1>2, <1>3, MemoryInvariant, PTL DEF Spec

-----------------------------------------------------------------------------
(* login: where the screen and AccountSetup's effect are.                  *)

Setups == {"off", "deps", "signer", "check", "grace", "ask", "mapping", "done"}
\* The effect holds a signer, or waits for one.
Busy == {"signer", "check", "grace", "ask", "mapping"}

\* The effect runs on the screen and for an account, and the screen waits for it.
PlaceInv ==
    /\ setup \in Setups
    /\ setup \in Busy => addrs # None
    /\ cmd = "login" =>
         /\ pc \in {"probe", "qr", "scan", "paired", "screen", "ended"}
         /\ pc \in {"probe", "qr", "scan", "paired"} =>
              setup = "off" /\ addrs = None /\ client = FALSE
         /\ pc = "ended" => setup = "done"
         /\ setup = "deps" => addrs = None

\* Steps that leave a login's place alone.
LEMMA PlaceFrame ==
    ASSUME MemoryInv, [Next]_vars
    PROVE  \/ UNCHANGED <<cmd, pc, setup, addrs, client>>
           \/ cmd' # "login" /\ setup' = "off"
           \/ StartLogin \/ ConnectProbe \/ QrPublished \/ PhonePairs \/ ScanFails \/ ReadBack
           \/ DepsComplete \/ ScreenDone
           \/ SetupSigner \/ SetupCheck \/ SetupGrace \/ SetupAsk \/ SetupMapping
  <1>1. CASE World
    BY <1>1 DEF World, PhoneSwitch, PhoneDisconnect, ReplayDisconnected, Spend, LandsLate, local
  <1>2. CASE StartLogout \/ StartDrip \/ StartSign
    BY <1>2 DEF StartLogout, StartDrip, StartSign, StartCommand, local, MemoryInv, None
  <1>3. CASE SetupSignerThrows \/ ProcessGone \/ Interrupt
    BY <1>3 DEF SetupSignerThrows, ProcessGone, Interrupt, Forget, None
  <1>4. CASE \/ LogoutFind \/ WaitForLogout
             \/ DripFind \/ DripDerive \/ DripRead \/ DripTransfer
             \/ ResolveSigner \/ EnsureSmartContractAllowance
    <2>1. cmd' = cmd /\ cmd \in {"logout", "drip", "sign"} /\ setup' = setup
      BY <1>4 DEF LogoutFind, WaitForLogout, DripFind, FindSession, DripDerive, DripRead,
                  DripTransfer, ResolveSigner, EnsureSmartContractAllowance
    <2> QED BY <2>1 DEF MemoryInv
  <1>5. CASE UNCHANGED vars
    BY <1>5 DEF vars, local
  <1> QED BY <1>1, <1>2, <1>3, <1>4, <1>5 DEF Next, Step, Start

\* Every step keeps the places.
LEMMA PlacePreserved ==
    ASSUME MemoryInv, PlaceInv, [Next]_vars
    PROVE  PlaceInv'
  <1>1. CASE UNCHANGED <<cmd, pc, setup, addrs, client>>
    BY <1>1 DEF PlaceInv
  <1>2. CASE cmd' # "login" /\ setup' = "off"
    BY <1>2 DEF PlaceInv, Setups, Busy
  <1>3. CASE StartLogin
    <2>1. /\ cmd = None /\ pc' \in {"probe", "screen"}
          /\ UNCHANGED <<setup, addrs, client>>
      BY <1>3 DEF StartLogin, StartCommand, local
    <2>2. setup = "off" /\ addrs = None /\ client = FALSE
      BY <2>1 DEF MemoryInv, None
    <2> QED BY <2>1, <2>2 DEF PlaceInv, Setups, Busy
  <1>4. CASE ConnectProbe
    <2>1. cmd = "login" /\ pc = "probe" /\ UNCHANGED <<cmd, setup, client>>
      BY <1>4 DEF ConnectProbe
    <2>2. pc' = "screen" \/ (pc' = "qr" /\ addrs' = addrs)
      BY <1>4 DEF ConnectProbe, Skipped, RotateAndPair
    <2> QED BY <2>1, <2>2 DEF PlaceInv, Setups, Busy
  <1>5. CASE QrPublished \/ PhonePairs \/ ScanFails \/ ReadBack
    <2>1. /\ cmd = "login" /\ pc \in {"qr", "scan", "paired"}
          /\ UNCHANGED <<cmd, setup, client>>
          /\ pc' = "screen" \/ (pc' \in {"scan", "paired"} /\ addrs' = addrs)
      BY <1>5 DEF QrPublished, PhonePairs, ScanFails, ReadBack, Skipped, local
    <2> QED BY <2>1 DEF PlaceInv, Setups, Busy
  <1>6. CASE DepsComplete
    <2>1. /\ cmd = "login" /\ pc = "screen" /\ UNCHANGED <<cmd, pc, addrs>>
          /\ (addrs # None /\ setup' \in {"signer", "done"}) \/ (addrs = None /\ setup' = "deps")
      BY <1>6 DEF DepsComplete
    <2> QED BY <2>1 DEF PlaceInv, Setups, Busy
  <1>7. CASE ScreenDone
    <2>1. cmd' = "login" /\ pc' = "ended" /\ setup' = "done" /\ addrs' = addrs
      BY <1>7 DEF ScreenDone, Unmount
    <2> QED BY <2>1 DEF PlaceInv, Setups, Busy
  <1>8. CASE SetupSigner \/ SetupCheck \/ SetupGrace \/ SetupAsk \/ SetupMapping
    <2>1. setup \in Busy /\ UNCHANGED <<cmd, pc, addrs, client>>
      BY <1>8 DEF SetupSigner, SetupCheck, SetupGrace, SetupAsk, SetupMapping, Busy
    <2>2. setup' \in Busy \cup {"done"}
      BY <1>8 DEF SetupSigner, SetupCheck, SetupGrace, SetupAsk, SetupMapping, Busy
    <2>3. cmd = "login" => pc = "screen"
      BY <2>1 DEF PlaceInv, Busy
    <2> QED BY <2>1, <2>2, <2>3 DEF PlaceInv, Setups, Busy
  <1> QED BY <1>1, <1>2, <1>3, <1>4, <1>5, <1>6, <1>7, <1>8, PlaceFrame

\* The places hold in every reachable state.
LEMMA PlaceInvariant == Spec => []PlaceInv
  <1>1. Init => PlaceInv
    BY DEF Init, PlaceInv, Setups, Busy, None
  <1>2. MemoryInv /\ PlaceInv /\ [Next]_vars => PlaceInv'
    BY PlacePreserved
  <1> QED BY <1>1, <1>2, MemoryInvariant, PTL DEF Spec

\* The steps of a login; the world around it changes none of its memory.
LEMMA LoginFrame ==
    ASSUME [Next]_vars, cmd' = "login"
    PROVE  \/ /\ UNCHANGED <<cmd, pc, open, client, sess, addrs, setup>>
              /\ UNCHANGED <<todo, rows, fresh, paired, pgas, cache>> /\ credited \subseteq credited'
              /\ ReplayDisconnected \/ (list' = list /\ stale \subseteq stale')
           \/ StartLogin \/ ConnectProbe \/ QrPublished \/ PhonePairs \/ ScanFails \/ ReadBack
           \/ DepsComplete \/ ScreenDone
           \/ SetupSigner \/ SetupCheck \/ SetupGrace \/ SetupAsk \/ SetupMapping
  <1>1. CASE World
    <2>1. CASE ReplayDisconnected
      BY <2>1 DEF ReplayDisconnected, local, world, purse
    <2>2. ASSUME NEW t \in served, PhoneDisconnect(t)
          PROVE  /\ UNCHANGED <<cmd, pc, open, client, sess, addrs, setup>>
                 /\ UNCHANGED <<todo, rows, fresh, paired, pgas, cache>> /\ credited \subseteq credited'
                 /\ list' = list /\ stale \subseteq stale'
      BY <2>2 DEF PhoneDisconnect, local, store, purse
    <2>3. CASE \E a \in Accounts : PhoneSwitch(a) \/ Spend(a) \/ LandsLate(a)
      BY <2>3 DEF Spend, LandsLate, PhoneSwitch, local, store, purse
    <2> QED BY <1>1, <2>1, <2>2, <2>3 DEF World
  <1>2. CASE StartLogout \/ StartDrip \/ StartSign
    BY <1>2 DEF StartLogout, StartDrip, StartSign, StartCommand
  <1>3. CASE SetupSignerThrows \/ ProcessGone \/ Interrupt
    BY <1>3 DEF SetupSignerThrows, ProcessGone, Interrupt, Forget, None
  <1>4. CASE \/ LogoutFind \/ WaitForLogout
             \/ DripFind \/ DripDerive \/ DripRead \/ DripTransfer
             \/ ResolveSigner \/ EnsureSmartContractAllowance
    BY <1>4 DEF LogoutFind, WaitForLogout, DripFind, FindSession, DripDerive,
                DripRead, DripTransfer, ResolveSigner, EnsureSmartContractAllowance
  <1>5. CASE UNCHANGED vars
    BY <1>5 DEF vars, local, store, world, purse
  <1> QED BY <1>1, <1>2, <1>3, <1>4, <1>5 DEF Next, Step, Start

-----------------------------------------------------------------------------
(* login: the adapters.                                                    *)

\* Who holds each adapter: connect() the probe, the login handle the pairing's,
\* the effect the signer's.
AdapterInv ==
    cmd = "login" =>
        /\ open \subseteq {"probe", "pair", "signer"}
        /\ pc = "probe" => open = {"probe"}
        /\ pc \in {"qr", "scan", "paired"} => open = {"pair"}
        /\ pc \in {"screen", "ended"} /\ "probe" \in open => sess # NoSession /\ addrs = None
        /\ "signer" \in open => setup \notin {"off", "deps"} /\ addrs # None
        /\ client = TRUE => pc = "screen"
        /\ client \in BOOLEAN
        /\ pc = "ended" => "pair" \notin open /\ client = FALSE

\* Every step keeps the holders.
LEMMA AdapterPreserved ==
    ASSUME IdentInv, MemoryInv, PlaceInv, AdapterInv, [Next]_vars
    PROVE  AdapterInv'
  <1>0. SUFFICES ASSUME cmd' = "login" PROVE AdapterInv'
    BY DEF AdapterInv
  <1>1. CASE UNCHANGED <<cmd, pc, open, client, sess, addrs, setup>>
    BY <1>1 DEF AdapterInv
  <1>2. CASE StartLogin
    <2>1. /\ cmd = None /\ client' = client
          /\ (pc' = "probe" /\ open' = {"probe"}) \/ (pc' = "screen" /\ open' = {})
      BY <1>2 DEF StartLogin, StartCommand
    <2>2. client = FALSE
      BY <2>1 DEF MemoryInv
    <2>3. CASE pc' = "probe" /\ open' = {"probe"}
      BY <2>1, <2>2, <2>3 DEF AdapterInv
    <2>4. CASE pc' = "screen" /\ open' = {}
      BY <2>1, <2>2, <2>4 DEF AdapterInv
    <2> QED BY <2>1, <2>3, <2>4
  <1>3. CASE ConnectProbe
    <2>1. /\ cmd = "login" /\ pc = "probe" /\ setup' = setup /\ client' = client
      BY <1>3 DEF ConnectProbe
    <2>2. client = FALSE /\ open = {"probe"} /\ addrs = None
      BY <2>1 DEF PlaceInv, AdapterInv
    <2>3. \/ pc' = "screen" /\ open' = {}
          \/ pc' = "qr" /\ open' = {"pair"}
          \/ pc' = "screen" /\ open' = open /\ sess' # NoSession /\ addrs' = None
      <3>1. ASSUME NEW found \in Loaded, found # <<>>, sess' = NewestSession(found) PROVE sess' # NoSession
        BY <3>1, NewestFacts
      <3> QED BY <1>3, <3>1 DEF ConnectProbe, Skipped, RotateAndPair
    <2> QED BY <2>1, <2>2, <2>3 DEF AdapterInv
  <1>4. CASE QrPublished \/ PhonePairs \/ ScanFails \/ ReadBack
    <2>1. /\ cmd = "login" /\ pc \in {"qr", "scan", "paired"} /\ setup' = setup /\ client' = client
          /\ \/ pc' \in {"scan", "paired", "screen"} /\ open' = open
             \/ pc' = "screen" /\ open' = {}
      BY <1>4 DEF QrPublished, PhonePairs, ScanFails, ReadBack, Skipped, local
    <2>2. client = FALSE /\ open = {"pair"}
      BY <2>1 DEF PlaceInv, AdapterInv
    <2> QED BY <2>1, <2>2 DEF AdapterInv
  <1>5. CASE DepsComplete
    <2>1. /\ cmd = "login" /\ pc = "screen" /\ setup = "off" /\ UNCHANGED <<pc, sess, addrs>>
          /\ \/ addrs # None /\ setup' = "signer" /\ client' = TRUE /\ open' = open \cup {"signer"}
             \/ setup' \in {"done", "deps"} /\ client' = client /\ open' = open
      BY <1>5 DEF DepsComplete
    <2>2. CASE addrs # None /\ setup' = "signer" /\ client' = TRUE /\ open' = open \cup {"signer"}
      BY <2>1, <2>2 DEF AdapterInv
    <2>3. CASE setup' \in {"done", "deps"} /\ client' = client /\ open' = open
      BY <2>1, <2>3 DEF AdapterInv
    <2> QED BY <2>1, <2>2, <2>3
  <1>6. CASE ScreenDone
    <2>1. /\ cmd = "login" /\ pc = "screen" /\ pc' = "ended" /\ client' = FALSE /\ setup' = "done"
          /\ \/ open' = open \ {"pair", "signer"}
             \/ addrs # None /\ open' = (open \ {"pair", "signer"}) \cup {"signer"}
          /\ UNCHANGED <<sess, addrs>>
      BY <1>6 DEF ScreenDone, Unmount
    <2>2. CASE open' = open \ {"pair", "signer"}
      BY <2>1, <2>2 DEF AdapterInv
    <2>3. CASE addrs # None /\ open' = (open \ {"pair", "signer"}) \cup {"signer"}
      BY <2>1, <2>3 DEF AdapterInv
    <2> QED BY <2>1, <2>2, <2>3
  <1>7. CASE SetupSigner
    <2>1. setup = "signer" /\ addrs # None /\ UNCHANGED <<cmd, pc, client, addrs>>
      BY <1>7 DEF SetupSigner, PlaceInv, Busy
    <2>2. \/ open' = open \ {"signer"} /\ setup' = "done" /\ sess' = sess
          \/ open' = open /\ setup' = "check"
      BY <1>7 DEF SetupSigner
    <2> QED BY <2>1, <2>2 DEF AdapterInv
  <1>8. CASE SetupCheck \/ SetupGrace \/ SetupAsk \/ SetupMapping
    <2>1. /\ setup \in Busy \ {"signer"} /\ UNCHANGED <<cmd, pc, open, client, sess, addrs>>
          /\ setup' \in Busy \cup {"done"}
      BY <1>8 DEF SetupCheck, SetupGrace, SetupAsk, SetupMapping, Busy
    <2> QED BY <2>1 DEF AdapterInv, Busy
  <1> QED BY <1>0, <1>1, <1>2, <1>3, <1>4, <1>5, <1>6, <1>7, <1>8, LoginFrame

\* What login/index.ts leaves open at its end are the two adapters nobody holds and
\* no other, in every order of timers and answers.
THEOREM LoginLeavesOnlyOrphans == Spec => []OnlyOrphansStayOpen
  <1>1. Init => AdapterInv
    BY DEF Init, AdapterInv, None
  <1>2. IdentInv /\ MemoryInv /\ PlaceInv /\ AdapterInv /\ [Next]_vars => AdapterInv'
    BY AdapterPreserved
  <1>3. PlaceInv /\ AdapterInv => OnlyOrphansStayOpen
    BY DEF PlaceInv, AdapterInv, OnlyOrphansStayOpen
  <1> QED BY <1>1, <1>2, <1>3, IdentInvariant, MemoryInvariant, PlaceInvariant, PTL DEF Spec

-----------------------------------------------------------------------------
(* login: the grants.                                                      *)

RowStates == {"pending", "active", "ok", "failed"}

\* The account holds the grant, or it is mapped by PAS and the cache has an entry.
Held == addrs \in pgas \/ ("SmartContract" \in cache /\ addrs \in credited)

\* While the effect is on its way to ask, the smart-contract grant is asked for
\* or held; the row is not "ok" before the effect has looked.
GrantInv ==
    /\ rows \in [allowances : RowStates, mapping : RowStates]
    /\ setup \in {"off", "deps", "signer", "check"} => rows.allowances # "ok"
    /\ setup \in {"grace", "ask"} => "SmartContract" \in todo \/ Held
    /\ GrantsAreForThisAccount

\* Every step keeps the grants.
LEMMA GrantPreserved ==
    ASSUME MemoryInv, MemoryInv', PlaceInv, GrantInv, [Next]_vars
    PROVE  GrantInv'
  <1>1. CASE cmd' # "login"
    <2>1. rows' = NoRows /\ setup' = "off"
      BY <1>1 DEF MemoryInv
    <2> QED BY <2>1 DEF GrantInv, GrantsAreForThisAccount, NoRows, RowStates
  <1>2. CASE /\ UNCHANGED <<cmd, pc, open, client, sess, addrs, setup>>
             /\ UNCHANGED <<todo, rows, pgas, cache>> /\ credited \subseteq credited'
    BY <1>2 DEF GrantInv, GrantsAreForThisAccount, Held
  <1>3. ASSUME setup \in {"off", "deps", "signer"}, setup' \in {"off", "deps", "signer", "check"},
               rows' = rows
        PROVE  GrantInv'
    BY <1>3 DEF GrantInv, GrantsAreForThisAccount
  <1>4. ASSUME rows' = [allowances |-> "failed", mapping |-> "failed"], setup' = "done"
        PROVE  GrantInv'
    BY <1>4 DEF GrantInv, GrantsAreForThisAccount, RowStates
  <1>5. CASE StartLogin
    <2>1. cmd = None /\ setup' = setup /\ rows' = rows
      BY <1>5 DEF StartLogin, StartCommand, local
    <2>2. setup = "off"
      BY <2>1 DEF MemoryInv, None
    <2> QED BY <1>3, <2>1, <2>2
  <1>6. CASE ConnectProbe \/ QrPublished \/ PhonePairs \/ ScanFails \/ ReadBack
    <2>1. /\ cmd = "login" /\ pc \in {"probe", "qr", "scan", "paired"}
          /\ setup' = setup /\ rows' = rows
      BY <1>6 DEF ConnectProbe, QrPublished, PhonePairs, ScanFails, ReadBack, local
    <2>2. setup = "off"
      BY <2>1 DEF PlaceInv
    <2> QED BY <1>3, <2>1, <2>2
  <1>7. CASE DepsComplete
    BY <1>3, <1>4, <1>7 DEF DepsComplete
  <1>8. CASE ScreenDone
    <2>1. UNCHANGED <<sess, addrs, todo, rows, pgas, cache, credited>> /\ setup' = "done"
      BY <1>8 DEF ScreenDone, world, purse
    <2> QED BY <2>1 DEF GrantInv, GrantsAreForThisAccount
  <1>9. CASE SetupSigner
    <2>1. setup = "signer"
      BY <1>9 DEF SetupSigner
    <2>2. \/ rows' = [allowances |-> "failed", mapping |-> "failed"] /\ setup' = "done"
          \/ rows' = rows /\ setup' = "check"
      BY <1>9 DEF SetupSigner
    <2> QED BY <1>3, <1>4, <2>1, <2>2
  <1>10. CASE SetupCheck
    <2>1. UNCHANGED <<sess, addrs, pgas, cache, credited>>
      BY <1>10 DEF SetupCheck, world, purse
    <2>2. CASE rows' = [rows EXCEPT !.allowances = "failed"] /\ setup' = "mapping"
      BY <2>2 DEF GrantInv, GrantsAreForThisAccount, RowStates
    <2>3. ASSUME NEW mapped \in Mapped, NEW usable \in BOOLEAN,
                 todo' = ResourcesToRequest(cache, usable, mapped),
                 setup' = IF todo' = {} THEN "mapping" ELSE IF fresh THEN "grace" ELSE "ask",
                 rows' = [rows EXCEPT !.allowances = IF todo' = {} THEN "ok" ELSE "active"]
          PROVE  GrantInv'
      <3>1. "SmartContract" \in todo' \/ Held
        <4>1. mapped = TRUE \/ mapped = FALSE
          BY DEF Mapped
        <4>2. CASE mapped = TRUE
          <5>1. addrs \in pgas \cup credited
            BY <4>2 DEF Mapped
          <5>2. "SmartContract" \notin cache => "SmartContract" \in todo'
            BY <2>3 DEF ResourcesToRequest, Resources
          <5> QED BY <5>1, <5>2 DEF Held
        <4>3. CASE mapped = FALSE
          BY <2>3, <4>3 DEF ResourcesToRequest
        <4> QED BY <4>1, <4>2, <4>3
      <3>2. rows' \in [allowances : RowStates, mapping : RowStates]
        BY <2>3 DEF GrantInv, RowStates
      <3>3. setup' \notin {"off", "deps", "signer", "check"}
        BY <2>3
      <3> QED BY <2>1, <3>1, <3>2, <3>3 DEF GrantInv, GrantsAreForThisAccount, Held
    <2> QED BY <1>10, <2>2, <2>3 DEF SetupCheck
  <1>11. CASE SetupGrace
    BY <1>11 DEF SetupGrace, GrantInv, GrantsAreForThisAccount, Held, world, purse
  <1>12. CASE SetupAsk
    <2>1. setup = "ask" /\ setup' = "mapping" /\ UNCHANGED <<sess, addrs, credited>>
      BY <1>12 DEF SetupAsk, purse
    <2>2. ASSUME NEW answer \in [todo -> Answers], Allocate(answer, sess.acct),
                 rows' = [rows EXCEPT !.allowances = IF AllocationFailed(answer) THEN "failed" ELSE "ok"],
                 todo' = {r \in todo : answer[r] = "Missing"}
          PROVE  GrantInv'
      <3>1. rows' \in [allowances : RowStates, mapping : RowStates]
        BY <2>2 DEF GrantInv, RowStates
      <3>2. ASSUME rows'.allowances = "ok", sess.acct = addrs
            PROVE  Held' \/ "SmartContract" \in todo'
        <4>1. ~AllocationFailed(answer)
          BY <2>2, <3>2 DEF GrantInv
        <4>2. pgas \subseteq pgas' /\ cache \subseteq cache'
          BY <2>2 DEF Allocate
        <4>3. CASE "SmartContract" \in todo
          <5>1. answer["SmartContract"] \in {"Allocated", "Missing"}
            BY <2>2, <4>1, <4>3 DEF AllocationFailed, Answers
          <5>2. answer["SmartContract"] = "Allocated" => sess.acct \in pgas'
            BY <2>2, <4>3 DEF Allocate
          <5> QED BY <2>1, <2>2, <3>2, <4>3, <5>1, <5>2 DEF Held
        <4> QED BY <2>1, <4>2, <4>3 DEF GrantInv, Held
      <3> QED BY <2>1, <3>1, <3>2 DEF GrantInv, GrantsAreForThisAccount, Held
    <2>3. CASE rows' = [rows EXCEPT !.allowances = "failed"]
      BY <2>1, <2>3 DEF GrantInv, GrantsAreForThisAccount, RowStates
    <2> QED BY <1>12, <2>2, <2>3 DEF SetupAsk
  <1>13. CASE SetupMapping
    <2>1. UNCHANGED <<sess, addrs, pgas, todo, cache, credited>> /\ setup' = "done"
      BY <1>13 DEF SetupMapping, world, purse
    <2>2. \E x \in {"ok", "failed"} : rows' = [rows EXCEPT !.mapping = x]
      BY <1>13 DEF SetupMapping
    <2>3. rows' \in [allowances : RowStates, mapping : RowStates] /\ rows'.allowances = rows.allowances
      BY <2>2 DEF GrantInv, RowStates
    <2> QED BY <2>1, <2>3 DEF GrantInv, GrantsAreForThisAccount
  <1> QED BY <1>1, <1>2, <1>5, <1>6, <1>7, <1>8, <1>9, <1>10, <1>11, <1>12, <1>13, LoginFrame

\* When login shows the allowances as granted, the account it set up holds the
\* smart-contract grant, whatever the cache kept from another account: except where
\* the phone left the outcome out, or PAS has mapped the account and the cache has
\* an entry, which resourcesToRequest cannot tell from a grant.
THEOREM GrantsAreTheAccountsOwn == Spec => []GrantsAreForThisAccount
  <1>1. Init => GrantInv
    BY DEF Init, GrantInv, GrantsAreForThisAccount, NoRows, RowStates
  <1>2. MemoryInv /\ MemoryInv' /\ PlaceInv /\ GrantInv /\ [Next]_vars => GrantInv'
    BY GrantPreserved
  <1>3. GrantInv => GrantsAreForThisAccount
    BY DEF GrantInv
  <1> QED BY <1>1, <1>2, <1>3, MemoryInvariant, PlaceInvariant, PTL DEF Spec

-----------------------------------------------------------------------------
(* login: the new pairing.                                                 *)

\* The session this login paired is the newest of the list until its topic has
\* a Disconnected statement.
PairedIsNewest ==
    Topic(paired) \in stale \/ (list # <<>> /\ list[Len(list)] = paired)

\* A login that paired reads that session, then and when it sets the account up.
PairInv ==
    /\ paired # NoSession => PairedIsNewest
    /\ fresh => paired # NoSession
    /\ cmd = "login" /\ pc = "paired" => paired # NoSession
    /\ cmd = "login" /\ pc \in {"probe", "qr", "scan"} => paired = NoSession
    /\ fresh /\ setup \in {"check", "grace", "ask"} => sess = paired \/ Topic(paired) \in stale

\* Every step keeps the pairing.
LEMMA PairPreserved ==
    ASSUME IdentInv, MemoryInv, MemoryInv', PlaceInv, PairInv, [Next]_vars
    PROVE  PairInv'
  <1>1. CASE cmd' # "login"
    <2>1. paired' = NoSession /\ fresh' = FALSE
      BY <1>1 DEF MemoryInv
    <2> QED BY <1>1, <2>1 DEF PairInv
  <1>2. CASE UNCHANGED <<cmd, pc, sess, setup, fresh, paired>> /\ list' = list /\ stale \subseteq stale'
    <2>1. Topic(paired)' = Topic(paired)
      BY <1>2 DEF Topic
    <2> QED BY <1>2, <2>1 DEF PairInv, PairedIsNewest
  <1>3. CASE ReplayDisconnected
    <2> DEFINE kept == {k \in DOMAIN list : Topic(list[k]) \notin stale}
    <2>1. UNCHANGED <<cmd, pc, sess, setup, fresh, paired, stale>> /\ list' \in Filtered(list, kept)
      BY <1>3 DEF ReplayDisconnected, local, world
    <2>2. list \in Seq(Known(idents)) /\ idents \in Nat
      BY DEF IdentInv
    <2>3. kept \in SUBSET (1 .. Len(list))
      BY <2>2
    <2>4. list # <<>> /\ Topic(list[Len(list)]) \notin stale => Len(list) \in kept
      BY <2>2
    <2> HIDE DEF kept
    <2>5. Len(list) \in kept => list' # <<>> /\ list'[Len(list')] = list[Len(list)]
      BY <2>1, <2>2, <2>3, FilteredFacts
    <2>6. PairedIsNewest => PairedIsNewest'
      BY <2>1, <2>4, <2>5 DEF PairedIsNewest, Topic
    <2> QED BY <2>1, <2>6 DEF PairInv, Topic
  <1>4. CASE StartLogin
    <2>1. cmd = None /\ UNCHANGED <<fresh, paired>> /\ pc' \in {"probe", "screen"}
      BY <1>4 DEF StartLogin, StartCommand, local
    <2>2. paired = NoSession /\ fresh = FALSE
      BY <2>1 DEF MemoryInv, None
    <2> QED BY <2>1, <2>2 DEF PairInv
  <1>5. CASE ConnectProbe \/ QrPublished \/ ScanFails
    <2>1. /\ cmd = "login" /\ pc \in {"probe", "qr", "scan"} /\ UNCHANGED <<fresh, paired>>
          /\ pc' \in {"qr", "scan", "screen"}
      BY <1>5 DEF ConnectProbe, QrPublished, ScanFails, RotateAndPair, Skipped, local
    <2>2. paired = NoSession
      BY <2>1 DEF PairInv
    <2> QED BY <2>1, <2>2 DEF PairInv
  <1>6. CASE PhonePairs
    <2> DEFINE new == [acct |-> phone, ident |-> ident, sound |-> TRUE]
    <2>1. /\ cmd = "login" /\ pc = "scan" /\ pc' = "paired" /\ UNCHANGED <<fresh, setup>>
          /\ list' = Append(list, new) /\ paired' = new
      BY <1>6 DEF PhonePairs
    <2>2. new # NoSession
      <3>1. new.sound = TRUE /\ NoSession.sound = FALSE
        BY DEF NoSession
      <3> QED BY <3>1
    <2> HIDE DEF new
    <2>3. list \in Seq(Known(idents))
      BY DEF IdentInv
    <2>4. list' # <<>> /\ list'[Len(list')] = new
      BY <2>1, <2>3
    <2>5. ~fresh /\ setup = "off"
      BY <2>1 DEF PairInv, PlaceInv
    <2> QED BY <2>1, <2>2, <2>4, <2>5 DEF PairInv, PairedIsNewest
  <1>7. CASE ReadBack
    <2>1. /\ cmd = "login" /\ pc = "paired" /\ pc' = "screen"
          /\ UNCHANGED <<list, stale, paired, setup>>
      BY <1>7 DEF ReadBack, store, world
    <2>2. setup = "off" /\ paired # NoSession
      BY <2>1 DEF PlaceInv, PairInv
    <2> QED BY <2>1, <2>2 DEF PairInv, PairedIsNewest
  <1>8. CASE DepsComplete \/ ScreenDone \/ SetupCheck \/ SetupGrace \/ SetupAsk \/ SetupMapping
    <2>1. UNCHANGED <<cmd, list, stale, paired, fresh, sess>> /\ (pc' = pc \/ pc' = "ended")
      BY <1>8 DEF DepsComplete, ScreenDone, Unmount, SetupCheck, SetupGrace, SetupAsk,
                  SetupMapping, store, world
    <2>2. setup' \in {"check", "grace", "ask"} => setup \in {"check", "grace", "ask"}
      BY <1>8 DEF DepsComplete, ScreenDone, SetupCheck, SetupGrace, SetupAsk, SetupMapping
    <2> QED BY <2>1, <2>2 DEF PairInv, PairedIsNewest
  <1>9. CASE SetupSigner
    <2>1. UNCHANGED <<cmd, pc, list, stale, paired, fresh>>
      BY <1>9 DEF SetupSigner, store, world
    <2>2. setup' \in {"check", "grace", "ask"} => sess' = list[Len(list)]
      <3> SUFFICES ASSUME setup' \in {"check", "grace", "ask"} PROVE sess' = list[Len(list)]
        OBVIOUS
      <3>1. PICK found \in Loaded : found # <<>> /\ sess' = NewestSession(found)
        BY <1>9 DEF SetupSigner
      <3> QED BY <3>1, NewestFacts
    <2> QED BY <2>1, <2>2 DEF PairInv, PairedIsNewest
  <1> QED BY <1>1, <1>2, <1>3, <1>4, <1>5, <1>6, <1>7, <1>8, <1>9, LoginFrame

\* Right after a pairing the account setup talks on the topic just paired, or
\* that pairing has ended.
THEOREM SetupTalksOnNewPairing == Spec => []SetupUsesNewPairing
  <1>1. Init => PairInv
    BY DEF Init, PairInv, None
  <1>2. IdentInv /\ MemoryInv /\ MemoryInv' /\ PlaceInv /\ PairInv /\ [Next]_vars => PairInv'
    BY PairPreserved
  <1>3. PairInv => SetupUsesNewPairing
    BY DEF PairInv, SetupUsesNewPairing
  <1> QED BY <1>1, <1>2, <1>3, IdentInvariant, MemoryInvariant, PlaceInvariant, PTL DEF Spec

-----------------------------------------------------------------------------
(* login: its end.                                                         *)

\* A screen still has dependencies to install, waits for its effect, or is ready
\* to call onDone.
ScreenGoesOn ==
    cmd = "login" /\ pc = "screen" =>
        \/ setup \in {"off"} \cup Busy
        \/ AllDone(addrs, setup # "off", setup = "done")

\* How far AccountSetup's effect is from its end.
SetupRank ==
    CASE setup = "off" -> 7 [] setup = "signer" -> 6 [] setup = "check" -> 5 [] setup = "grace" -> 4
      [] setup = "ask" -> 3 [] setup = "mapping" -> 2 [] setup = "deps" -> 1 [] OTHER -> 0

\* How many steps a login can still take once its screen is up.
LoginRank ==
    IF cmd # "login" THEN 0 ELSE SetupRank + (IF pc = "screen" THEN 2 ELSE 1)

\* Once the screen is up, every step of the login brings its end nearer and the
\* phone and the chain cannot move it away.
LoginWindsDown ==
    [][cmd = "login" /\ pc \in {"screen", "ended"} =>
          IF World THEN LoginRank' = LoginRank ELSE LoginRank' < LoginRank]_vars

\* A step of a login whose screen is up or gone is the world's, or a step of the
\* screen or the effect, or the end of the process.
LEMMA ScreenFrame ==
    ASSUME MemoryInv, Next, cmd = "login", pc \in {"screen", "ended"}
    PROVE  \/ World
           \/ cmd' = None
           \/ DepsComplete \/ ScreenDone
           \/ SetupSigner \/ SetupCheck \/ SetupGrace \/ SetupAsk \/ SetupMapping
  <1>1. ~Start
    BY DEF Start, StartLogin, StartLogout, StartDrip, StartSign, StartCommand, None
  <1>2. CASE SetupSignerThrows \/ ProcessGone \/ Interrupt
    BY <1>2 DEF SetupSignerThrows, ProcessGone, Interrupt, Forget
  <1>3. ~(ConnectProbe \/ QrPublished \/ PhonePairs \/ ScanFails \/ ReadBack)
    BY DEF ConnectProbe, QrPublished, PhonePairs, ScanFails, ReadBack
  <1>4. ~(LogoutFind \/ WaitForLogout \/ DripFind \/ DripDerive \/ DripRead
          \/ DripTransfer \/ ResolveSigner \/ EnsureSmartContractAllowance)
    BY DEF LogoutFind, WaitForLogout, DripFind, DripDerive, DripRead,
           DripTransfer, ResolveSigner, EnsureSmartContractAllowance
  <1> QED BY <1>1, <1>2, <1>3, <1>4 DEF Next, Step

\* A step of the effect moves it nearer its end.
LEMMA EffectWindsDown ==
    ASSUME SetupSigner \/ SetupCheck \/ SetupGrace \/ SetupAsk \/ SetupMapping
    PROVE  SetupRank' < SetupRank /\ UNCHANGED <<cmd, pc>>
  <1>1. CASE SetupSigner
    <2>1. setup = "signer" /\ setup' \in {"done", "check"} /\ UNCHANGED <<cmd, pc>>
      BY <1>1 DEF SetupSigner
    <2> QED BY <2>1 DEF SetupRank
  <1>2. CASE SetupCheck
    <2>1. setup = "check" /\ setup' \in {"mapping", "grace", "ask"} /\ UNCHANGED <<cmd, pc>>
      BY <1>2 DEF SetupCheck
    <2> QED BY <2>1 DEF SetupRank
  <1>3. CASE SetupGrace
    <2>1. setup = "grace" /\ setup' = "ask" /\ UNCHANGED <<cmd, pc>>
      BY <1>3 DEF SetupGrace
    <2> QED BY <2>1 DEF SetupRank
  <1>4. CASE SetupAsk
    <2>1. setup = "ask" /\ setup' = "mapping" /\ UNCHANGED <<cmd, pc>>
      BY <1>4 DEF SetupAsk
    <2> QED BY <2>1 DEF SetupRank
  <1>5. CASE SetupMapping
    <2>1. setup = "mapping" /\ setup' = "done" /\ UNCHANGED <<cmd, pc>>
      BY <1>5 DEF SetupMapping
    <2> QED BY <2>1 DEF SetupRank
  <1> QED BY <1>1, <1>2, <1>3, <1>4, <1>5

\* The effect is at most seven steps from its end.
LEMMA SetupRankCounts == SetupRank \in 0 .. 7
  BY DEF SetupRank

\* Once its screen is up a login takes at most nine more steps, however the phone
\* and the chain act in between (LoginWindsDown), and before its end the screen
\* always has something left that goes on (ScreenGoesOn): the safety half of
\* LoginReturns, for the screen of commands/login and AccountSetup's effect.
THEOREM LoginScreenWindsDown == Spec => []ScreenGoesOn /\ LoginWindsDown
  <1>1. PlaceInv => ScreenGoesOn
    BY DEF PlaceInv, ScreenGoesOn, Setups, Busy, AllDone
  <1>2. MemoryInv /\ PlaceInv /\ [Next]_vars =>
          [cmd = "login" /\ pc \in {"screen", "ended"} =>
              IF World THEN LoginRank' = LoginRank ELSE LoginRank' < LoginRank]_vars
    <2> SUFFICES ASSUME MemoryInv, PlaceInv, Next, cmd = "login", pc \in {"screen", "ended"}
                 PROVE  IF World THEN LoginRank' = LoginRank ELSE LoginRank' < LoginRank
      OBVIOUS
    <2>1. CASE World
      <3>1. UNCHANGED <<cmd, pc, setup>>
        BY <2>1 DEF World, PhoneSwitch, PhoneDisconnect, ReplayDisconnected, Spend, LandsLate, local
      <3> QED BY <2>1, <3>1 DEF LoginRank, SetupRank
    <2>2. CASE ~World
      <3>1. LoginRank = SetupRank + (IF pc = "screen" THEN 2 ELSE 1)
        BY DEF LoginRank
      <3>2. CASE cmd' = None
        <4>1. LoginRank' = 0
          BY <3>2 DEF LoginRank, None
        <4> QED BY <2>2, <3>1, <4>1, SetupRankCounts
      <3>3. CASE DepsComplete
        <4>1. /\ pc = "screen" /\ UNCHANGED <<cmd, pc>>
              /\ setup = "off" /\ setup' \in {"signer", "done", "deps"}
          BY <3>3 DEF DepsComplete
        <4>2. SetupRank = 7 /\ SetupRank' \in 0 .. 6
          BY <4>1 DEF SetupRank
        <4>3. LoginRank = 9
          BY <3>1, <4>2, <4>1
        <4>4. LoginRank' = SetupRank' + 2
          BY <4>1 DEF LoginRank
        <4>5. LoginRank' < LoginRank
          <5>1. ASSUME NEW m \in 0 .. 6 PROVE m + 2 < 9
            OBVIOUS
          <5>2. SetupRank' + 2 < 9
            BY <5>1, <4>2, Zenon
          <5> QED BY <4>3, <4>4, <5>2, Zenon
        <4> QED BY <2>2, <4>5
      <3>4. CASE ScreenDone
        <4>1. pc = "screen" /\ cmd' = cmd /\ pc' = "ended" /\ setup' = "done"
          BY <3>4 DEF ScreenDone, Unmount
        <4>2. SetupRank' = 0
          BY <4>1 DEF SetupRank
        <4>3. LoginRank' = 1
          BY <4>1, <4>2 DEF LoginRank
        <4> QED BY <2>2, <3>1, <4>1, <4>3, SetupRankCounts
      <3>5. CASE SetupSigner \/ SetupCheck \/ SetupGrace \/ SetupAsk \/ SetupMapping
        <4>1. SetupRank' < SetupRank /\ UNCHANGED <<cmd, pc>>
          BY <3>5, EffectWindsDown
        <4>2. SetupRank' \in 0 .. 7
          BY DEF SetupRank
        <4>3. PICK k \in {1, 2} : LoginRank = SetupRank + k /\ LoginRank' = SetupRank' + k
          BY <3>1, <4>1 DEF LoginRank
        <4>4. ASSUME NEW m \in 0 .. 7, NEW n \in 0 .. 7, m < n PROVE m + k < n + k
          BY <4>4
        <4>5. SetupRank' + k < SetupRank + k
          BY <4>1, <4>2, <4>4, SetupRankCounts, Zenon
        <4>6. LoginRank' < LoginRank
          BY <4>3, <4>5, Zenon
        <4> QED BY <2>2, <4>6
      <3> QED BY <2>2, <3>2, <3>3, <3>4, <3>5, ScreenFrame
    <2> QED BY <2>1, <2>2
  <1> QED BY <1>1, <1>2, MemoryInvariant, PlaceInvariant, PTL DEF Spec, LoginWindsDown
=============================================================================
