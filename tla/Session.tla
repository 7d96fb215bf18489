------------------------------ MODULE Session -------------------------------
(***************************************************************************)
(* The paired phone session over a sequence of commands: `login`,          *)
(* `logout`, `drip` and the commands that sign with the session            *)
(* (utils/auth.ts, utils/sessionReset.ts, commands/login, commands/logout, *)
(* commands/drip).  One command runs at a time; the phone, the statement   *)
(* store and the chain act in between.                                     *)
(*                                                                         *)
(* A pairing lives on the statement-store topic made of the phone's        *)
(* account and the host's device identity.  A Disconnected statement stays *)
(* on its topic for days, and every adapter that opens a session on that   *)
(* topic replays it and drops the session from the stored list.            *)
(***************************************************************************)
EXTENDS Naturals, Sequences, FiniteSets, Selection

CONSTANTS Accounts,     \* the accounts the phone can be switched to
          MaxIdent,     \* bound: device identities ever created
          MaxCommands,  \* bound: commands run
          DripAmount, DripCap  \* drip.ts, in half PAS

ASSUME SessionAssumption ==
    /\ {MaxIdent, MaxCommands} \subseteq Nat
    /\ {DripAmount, DripCap} \subseteq Nat \ {0}

None == "none"
NoSession == [acct |-> None, ident |-> 0, sound |-> FALSE]

\* A stored session.  One that is not sound has no usable root account, so
\* deriving its addresses throws.
Sessions == [acct : Accounts, ident : 1 .. MaxIdent, sound : BOOLEAN]
Topic(s) == <<s.acct, s.ident>>

\* resources.ts, PLAYGROUND_RESOURCES.
Resources == {"Bulletin", "SmartContract"}

VARIABLES
    ident, list,        \* dot-cli_ files: DeviceIdentity (0: none), SsoSessionsV3
    cache,              \* playground.dot_AllowanceKeys: resources with an entry
    idents,             \* device identities created so far
    phone,              \* the account the phone uses
    served, stale,      \* topics the phone serves; topics with a Disconnected statement
    pgas, credited,     \* accounts the phone claimed PGAS for; accounts that received PAS
    bal,                \* PAS of each account
    inFlight,           \* drips to an account that were sent by a command that has ended
    late,               \* history: of those, the ones that landed since a drip last sent
    runs,               \* commands started
    cmd, pc,            \* the running command and where it is
    open,               \* adapters that hold a WebSocket open
    client,             \* the shared chain client is open
    sess, addrs,        \* session picked, account whose addresses were derived
    fresh, setup,       \* login: freshlyPaired; where AccountSetup's effect is
    todo, rows,         \* resources requested; the two rows of AccountSetup
    paired, stuck,      \* history: the session this login paired; files a logout could not remove
    unrotated,          \* history: topics paired on an identity that could not be removed
    outcome             \* what the command reported

store == <<ident, list>>
purse == <<credited, bal, inFlight, late>>
world == <<phone, served, stale, pgas, purse>>
local == <<sess, addrs, fresh, setup, todo, rows, paired, stuck, outcome>>
vars == <<store, cache, idents, world, runs, cmd, pc, open, client, local, unrotated>>

NoRows == [allowances |-> "pending", mapping |-> "pending"]

Init ==
    /\ ident \in {0, 1}
    /\ list \in {<<>>} \cup {<<[acct |-> a, ident |-> 1, sound |-> s]>> : a \in Accounts, s \in BOOLEAN}
    /\ list # <<>> => ident = 1
    /\ cache \in {{}, Resources}
    /\ idents = ident
    /\ phone \in Accounts
    /\ served = {Topic(list[i]) : i \in DOMAIN list}
    /\ stale = {}
    /\ pgas \in IF cache = {} THEN {{}} ELSE {{a} : a \in Accounts}
    /\ bal = [a \in Accounts |-> 0] /\ credited = {}
    /\ inFlight = [a \in Accounts |-> 0] /\ late = [a \in Accounts |-> 0]
    /\ runs = 0
    /\ cmd = None /\ pc = None
    /\ open = {} /\ client = FALSE
    /\ sess = NoSession /\ addrs = None /\ fresh = FALSE /\ setup = "off" /\ todo = {}
    /\ rows = NoRows /\ paired = NoSession /\ stuck = {} /\ outcome = None
    /\ unrotated = {}

-----------------------------------------------------------------------------
(* The SDK, as the code uses it.                                           *)

\* waitForSessions: the stored list, or nothing when it answers too late;
\* the call may also throw, which each caller handles as its own alternative.
Loaded == {<<>>, list}

\* Faulty variant: every flow takes the first session of the list.
OldestSession(s) == Head(s)

\* newestSession: pairings are appended, so the last one is the newest.
NewestSession(s) == s[Len(s)]

\* deriveSessionAddresses, for a sound session: the product account.
ProductAccount(s) == s.acct

\* createSession.init replays a Disconnected statement on the topic of a
\* stored session to any adapter that is open, and the session manager drops
\* that session from the list; the other files stay.
ReplayDisconnected ==
    /\ open # {}
    /\ \E i \in DOMAIN list : Topic(list[i]) \in stale
    /\ list' \in Filtered(list, {i \in DOMAIN list : Topic(list[i]) \notin stale})
    /\ UNCHANGED <<ident, cache, idents, world, runs, cmd, pc, open, client, local, unrotated>>

-----------------------------------------------------------------------------
(* The phone and the chain.                                                *)

\* The user switches account on the phone, which shows at the next pairing.
PhoneSwitch(a) ==
    /\ cmd = None \/ pc = "scan"
    /\ a # phone
    /\ phone' = a
    /\ UNCHANGED <<store, cache, idents, served, stale, pgas, purse, runs, cmd, pc,
                   open, client, local, unrotated>>

\* The user removes the connection on the phone, which posts the statement.
PhoneDisconnect(t) ==
    /\ t \in served
    /\ served' = served \ {t}
    /\ stale' = stale \cup {t}
    /\ UNCHANGED <<store, cache, idents, phone, pgas, purse, runs, cmd, pc, open,
                   client, local, unrotated>>

\* An account pays fees: half a PAS at a time, so balances are fractional.  Only
\* a drip looks at the balance.
Spend(a) ==
    /\ cmd = "drip" /\ bal[a] > 0
    /\ bal' = [bal EXCEPT ![a] = @ - 1]
    /\ UNCHANGED <<store, cache, idents, phone, served, stale, pgas, credited, inFlight, late, runs, cmd,
                   pc, open, client, local, unrotated>>

\* A drip that outlived its command is included in a block.
LandsLate(a) ==
    /\ inFlight[a] > 0
    /\ inFlight' = [inFlight EXCEPT ![a] = @ - 1]
    /\ bal' = [bal EXCEPT ![a] = @ + DripAmount]
    /\ late' = [late EXCEPT ![a] = @ + 1]
    /\ credited' = credited \cup {a}
    /\ UNCHANGED <<store, cache, idents, phone, served, stale, pgas, runs, cmd, pc, open, client, local,
                   unrotated>>

-----------------------------------------------------------------------------
(* Commands start and end.                                                 *)

StartCommand(c, first, adapter) ==
    /\ cmd = None /\ runs < MaxCommands
    /\ cmd' = c /\ pc' = first /\ runs' = runs + 1
    /\ open' = adapter
    /\ UNCHANGED <<store, cache, idents, world, client, local, unrotated>>

\* The process is gone, and its memory with it.
Forget ==
    /\ cmd' = None /\ pc' = None /\ open' = {} /\ client' = FALSE
    /\ sess' = NoSession /\ addrs' = None /\ fresh' = FALSE /\ setup' = "off" /\ todo' = {}
    /\ rows' = NoRows /\ paired' = NoSession /\ stuck' = {} /\ outcome' = None

\* The command has returned: index.ts calls process.exit, whatever is still open.
ProcessGone ==
    /\ pc = "ended"
    /\ Forget
    /\ UNCHANGED <<store, cache, idents, world, runs, unrotated>>

-----------------------------------------------------------------------------
(* login: connect() and the QR scan.                                       *)

\* `login` opens the probe adapter of connect(); `login --yes` goes straight
\* to the screen.
StartLogin ==
    \/ StartCommand("login", "probe", {"probe"})
    \/ StartCommand("login", "screen", {})

\* connect() rejects, or returned without a login: "Login skipped".
Skipped(left) ==
    /\ pc' = "screen" /\ open' = left
    /\ UNCHANGED <<store, cache, idents, sess, addrs, unrotated>>

\* Faulty variant: only the session list is rotated.
RotateListOnly == {"SsoSessionsV3"}

\* sessionReset.ts, ROTATE_KEYS.
RotateKeys == {"DeviceIdentity", "SsoSessionsV3"}

\* resetDeviceIdentityForFreshPairing removes what unlink lets it remove, and
\* the new adapter loads the identity that is left or creates one.
RotateAndPair(removed) ==
    /\ idents < MaxIdent \/ (ident # 0 /\ "DeviceIdentity" \notin removed)
    /\ IF ident = 0 \/ "DeviceIdentity" \in removed
       THEN ident' = idents + 1 /\ idents' = idents + 1
       ELSE UNCHANGED <<ident, idents>>
    /\ unrotated' = IF ident # 0 /\ "DeviceIdentity" \in RotateKeys \ removed
                    THEN unrotated \cup {<<a, ident>> : a \in Accounts} ELSE unrotated
    /\ list' = IF "SsoSessionsV3" \in removed THEN <<>> ELSE list
    /\ open' = {"pair"}
    /\ pc' = "qr"
    /\ UNCHANGED <<cache, sess, addrs>>

\* connect() up to the call of authenticate().
ConnectProbe ==
    /\ cmd = "login" /\ pc = "probe"
    /\ \/ Skipped({})
       \/ \E found \in Loaded :
            \/ /\ found # <<>>
               /\ sess' = NewestSession(found)
               /\ addrs' = IF sess'.sound THEN ProductAccount(sess') ELSE None
               /\ open' = IF sess'.sound THEN {} ELSE open
               /\ pc' = "screen"
               /\ UNCHANGED <<store, cache, idents, unrotated>>
            \/ /\ found = <<>>
               /\ \E removed \in SUBSET RotateKeys : RotateAndPair(removed)
    /\ UNCHANGED <<world, runs, cmd, client, fresh, setup, todo, rows, paired, stuck, outcome>>

\* The pairing QR is published, or QR_TIMEOUT_MS passes first.
QrPublished ==
    /\ cmd = "login" /\ pc = "qr"
    /\ \/ pc' = "scan" /\ UNCHANGED <<store, cache, idents, open, sess, addrs, unrotated>>
       \/ Skipped({})
    /\ UNCHANGED <<world, runs, cmd, client, fresh, setup, todo, rows, paired, stuck, outcome>>

\* The phone accepts: it supersedes the pairings of its present account, with
\* a Disconnected statement on each, and the SDK appends the new session.
PhonePairs ==
    LET new == [acct |-> phone, ident |-> ident, sound |-> TRUE]
        superseded == {t \in served : t[1] = phone}
    IN /\ cmd = "login" /\ pc = "scan"
       /\ list' = Append(list, new)
       /\ stale' = stale \cup superseded
       /\ served' = (served \ superseded) \cup {Topic(new)}
       /\ paired' = new
       /\ pc' = "paired"
       /\ UNCHANGED <<ident, cache, idents, phone, pgas, purse, runs, cmd, open,
                      client, sess, addrs, fresh, setup, todo, rows, stuck, outcome, unrotated>>

\* waitForLogin without a session: declined, failed or rejected.  The command
\* keeps the login handle and goes on without addresses.
ScanFails ==
    /\ cmd = "login" /\ pc = "scan"
    /\ pc' = "screen"
    /\ UNCHANGED <<store, cache, idents, world, runs, cmd, open, client, local, unrotated>>

\* waitForLogin reads the session back: no session, or one that cannot be
\* read, is an error.
ReadBack ==
    /\ cmd = "login" /\ pc = "paired"
    /\ pc' = "screen"
    /\ \/ UNCHANGED <<sess, addrs, fresh>>
       \/ \E found \in Loaded \ {<<>>} :
            /\ NewestSession(found).sound
            /\ sess' = NewestSession(found)
            /\ addrs' = ProductAccount(sess')
            /\ fresh' = TRUE
    /\ UNCHANGED <<store, cache, idents, world, runs, cmd, open, client, setup, todo, rows,
                   paired, stuck, outcome, unrotated>>

-----------------------------------------------------------------------------
(* login: LoginScreen, the dependency list and AccountSetup.               *)

\* Faulty variant: the command does not release the login handle's adapter.
UnmountKeepsPair ==
    /\ pc' = "ended"
    /\ client' = FALSE
    /\ \E again \in IF addrs = None THEN {{}} ELSE {{}, {"signer"}} :
          open' = (open \ {"signer"}) \cup again

\* The finally block of the command and the cleanup of AccountSetup's effect.
\* LoginScreen hands the effect a new onDone at every render, so the render that
\* shows "setup complete" tears the effect down and starts it again; that run may
\* open one more signer adapter before it sees that the screen is gone.
Unmount ==
    /\ pc' = "ended"
    /\ client' = FALSE
    /\ \E again \in IF addrs = None THEN {{}} ELSE {{}, {"signer"}} :
          open' = (open \ {"pair", "signer"}) \cup again

\* Faulty variant: the screen waits for the account setup in every case.
AllDoneAlways(account, depsDone, accountDone) == depsDone /\ accountDone

\* computeAllDone: what the screen waits for before it calls onDone.
AllDone(account, depsDone, accountDone) ==
    depsDone /\ (account # None => accountDone)

\* DependencyList has run (module Toolchain has its steps).  AccountSetup then
\* connects and opens an adapter for the session signer, unless connecting
\* fails, which fails both rows.
DepsComplete ==
    /\ cmd = "login" /\ pc = "screen" /\ setup = "off"
    /\ \/ /\ addrs # None
          /\ setup' = "signer" /\ client' = TRUE /\ open' = open \cup {"signer"}
          /\ UNCHANGED <<rows, outcome>>
       \/ /\ addrs # None
          /\ setup' = "done" /\ outcome' = "failed"
          /\ rows' = [allowances |-> "failed", mapping |-> "failed"]
          /\ UNCHANGED <<client, open>>
       \/ /\ addrs = None
          /\ setup' = "deps"
          /\ UNCHANGED <<rows, outcome, client, open>>
    /\ UNCHANGED <<store, cache, idents, world, runs, cmd, pc, sess, addrs, fresh, todo,
                   paired, stuck, unrotated>>

\* onDone: everything is there, the screen unmounts.
ScreenDone ==
    /\ cmd = "login" /\ pc = "screen"
    /\ AllDone(addrs, setup # "off", setup = "done")
    /\ Unmount
    /\ setup' = "done"
    /\ UNCHANGED <<store, cache, idents, world, runs, cmd, sess, addrs, fresh, todo, rows, paired, stuck,
                   outcome, unrotated>>

\* getSessionSigner in AccountSetup throws: nobody handles the rejection, and
\* the process guard exits with 1.
SetupSignerThrows ==
    /\ setup = "signer"
    /\ Forget
    /\ UNCHANGED <<store, cache, idents, world, runs, unrotated>>

\* getSessionSigner returns.
SetupSigner ==
    /\ setup = "signer"
    /\ \E found \in Loaded :
         \/ /\ found = <<>>
            /\ open' = open \ {"signer"}
            /\ setup' = "done"
            /\ outcome' = "failed"
            /\ rows' = [allowances |-> "failed", mapping |-> "failed"]
            /\ sess' = sess
         \/ /\ found # <<>> /\ NewestSession(found).sound
            /\ sess' = NewestSession(found)
            /\ setup' = "check"
            /\ UNCHANGED <<open, rows, outcome>>
    /\ UNCHANGED <<store, cache, idents, world, runs, cmd, pc, client, addrs, fresh, todo,
                   paired, stuck, unrotated>>

\* Faulty variant: a cache entry is taken for a grant.
CacheIsGrant(cached, usable, mapped) == Resources \ cached

\* resourcesToRequest: what is not cached, and what is cached but not there.
ResourcesToRequest(cached, usable, mapped) ==
    (Resources \ cached)
    \cup (IF usable THEN {} ELSE {"Bulletin"})
    \cup (IF mapped THEN {} ELSE {"SmartContract"})

\* checkMapping.  The chain maps an account when it first receives PAS or PGAS; a
\* node that lags behind, or cannot be asked in any attempt, answers no.
Mapped == {FALSE} \cup {a \in {TRUE} : addrs \in pgas \cup credited}

\* The allowance step up to the request.  An SDK error fails the row.
SetupCheck ==
    /\ setup = "check"
    /\ \/ /\ rows' = [rows EXCEPT !.allowances = "failed"]
          /\ setup' = "mapping" /\ outcome' = "failed" /\ todo' = todo
       \/ \E mapped \in Mapped, usable \in BOOLEAN :
            /\ todo' = ResourcesToRequest(cache, usable, mapped)
            /\ setup' = IF todo' = {} THEN "mapping"
                        ELSE IF fresh THEN "grace" ELSE "ask"
            /\ rows' = [rows EXCEPT !.allowances = IF todo' = {} THEN "ok" ELSE "active"]
            /\ outcome' = outcome
    /\ UNCHANGED <<store, cache, idents, world, runs, cmd, pc, open, client, sess, addrs, fresh,
                   paired, stuck, unrotated>>

\* PHONE_PAIRING_MODAL_GRACE_MS after a fresh pairing.
SetupGrace ==
    /\ setup = "grace"
    /\ setup' = "ask"
    /\ UNCHANGED <<store, cache, idents, world, runs, cmd, pc, open, client, sess, addrs, fresh, todo,
                   rows, paired, stuck, outcome, unrotated>>

\* The phone's answer for one resource; Missing is an outcome it left out.
Answers == {"Allocated", "Rejected", "NotAvailable", "Missing"}

\* summarizeOutcomes, describeAllocationFailure: an outcome that is there and
\* is not Allocated is a failure; one that is missing is not looked at.
AllocationFailed(answer) == \E r \in DOMAIN answer : answer[r] \in {"Rejected", "NotAvailable"}

\* What an answer changes: the SDK caches each grant under the product id, the
\* phone claims PGAS for the session's account.
Allocate(answer, acct) ==
    LET granted == {r \in DOMAIN answer : answer[r] = "Allocated"}
    IN /\ cache' = cache \cup granted
       /\ pgas' = IF "SmartContract" \in granted THEN pgas \cup {acct} ELSE pgas

\* The phone's answer is lost: it may have claimed PGAS all the same.
AnswerLost(asked) ==
    pgas' \in {pgas} \cup {pgas \cup {sess.acct} : t \in served \cap {Topic(sess)},
                                              r \in asked \cap {"SmartContract"}}

\* requestResourceAllocation.  Only a phone that serves the topic answers;
\* otherwise the call times out and throws.
SetupAsk ==
    /\ setup = "ask"
    /\ \/ /\ Topic(sess) \in served
          /\ \E answer \in [todo -> Answers] :
               /\ Allocate(answer, sess.acct)
               /\ rows' = [rows EXCEPT !.allowances =
                               IF AllocationFailed(answer) THEN "failed" ELSE "ok"]
               /\ outcome' = IF AllocationFailed(answer) THEN "failed" ELSE outcome
               /\ todo' = {r \in todo : answer[r] = "Missing"}
       \/ /\ rows' = [rows EXCEPT !.allowances = "failed"]
          /\ outcome' = "failed" /\ todo' = todo
          /\ AnswerLost(todo) /\ cache' = cache
    /\ setup' = "mapping"
    /\ UNCHANGED <<store, idents, phone, served, stale, purse, runs, cmd, pc, open, client, sess,
                   addrs, fresh, paired, stuck, unrotated>>

\* The mapping step, then finish().
SetupMapping ==
    /\ setup = "mapping"
    /\ setup' = "done"
    /\ \E mapped \in Mapped :
         rows' = [rows EXCEPT !.mapping = IF mapped THEN "ok" ELSE "failed"]
    /\ UNCHANGED <<store, cache, idents, world, runs, cmd, pc, open, client, sess, addrs, fresh, todo,
                   paired, stuck, outcome, unrotated>>

-----------------------------------------------------------------------------
(* logout.                                                                 *)

StartLogout == StartCommand("logout", "find", {"find"})

\* findSession for logout and drip: it may throw (the adapter stays open),
\* find nothing, or return the newest session with its adapter.
FindSession(missing, found) ==
    /\ pc = "find"
    /\ \/ pc' = "ended" /\ outcome' = "error" /\ UNCHANGED <<open, sess>>
       \/ \E all \in Loaded :
            IF all = <<>> THEN pc' = "ended" /\ outcome' = missing /\ open' = {} /\ sess' = sess
            ELSE pc' = found /\ sess' = NewestSession(all) /\ UNCHANGED <<outcome, open>>
    /\ UNCHANGED <<store, cache, idents, world, runs, cmd, client, addrs, fresh, setup, todo, rows,
                   paired, stuck, unrotated>>

LogoutFind == cmd = "logout" /\ FindSession("empty", "disconnect")

\* clearLocalAppStorage: every dot-cli_ file that unlink lets it remove.
AppFiles == {"DeviceIdentity", "SsoSessionsV3"}
ClearLocalAppStorage(kept, removed) ==
    /\ ident' = IF "DeviceIdentity" \in removed THEN 0 ELSE ident
    /\ list' \in IF "SsoSessionsV3" \in removed THEN {<<>>} ELSE Filtered(list, kept)

\* Faulty variant: local files are cleared only when the phone was told.
SignOutIfTold(told, removed) ==
    ClearLocalAppStorage(DOMAIN list, IF told THEN removed ELSE {})

\* waitForLogout after disconnect() answered: told or not, the files go.  A
\* disconnect that succeeds has already written the list without the session.
SignOut(told, removed) ==
    ClearLocalAppStorage({i \in DOMAIN list : told => list[i] # sess}, removed)

\* The Disconnected statement of disconnect() is on the topic, or was not sent.
Disconnects(sent) ==
    /\ served' = IF sent THEN served \ {Topic(sess)} ELSE served
    /\ stale' = IF sent THEN stale \cup {Topic(sess)} ELSE stale

\* disconnect() succeeds, or fails after or before its statement was sent.
WaitForLogout ==
    /\ cmd = "logout" /\ pc = "disconnect"
    /\ \E told \in BOOLEAN, sent \in BOOLEAN, removed \in SUBSET AppFiles :
         /\ told => sent
         /\ SignOut(told, removed)
         /\ Disconnects(sent)
         /\ outcome' = IF told THEN "success" ELSE "partial"
         /\ stuck' = AppFiles \ removed
    /\ open' = open \ {"find"}
    /\ pc' = "ended"
    /\ UNCHANGED <<cache, idents, phone, pgas, purse, runs, cmd, client, sess, addrs,
                   fresh, setup, todo, rows, paired, unrotated>>

-----------------------------------------------------------------------------
(* drip.                                                                   *)

StartDrip == StartCommand("drip", "find", {"find"})

DripFind == cmd = "drip" /\ FindSession("needLogin", "derive")

\* The end of the screen: onDone unmounts it, which destroys the connection.
DripEnds(o) == pc' = "ended" /\ outcome' = o /\ client' = FALSE

\* The product account of the session; the adapter is no longer needed.
DripDerive ==
    /\ cmd = "drip" /\ pc = "derive"
    /\ open' = {}
    /\ \/ ~sess.sound /\ DripEnds("corruptSession") /\ addrs' = addrs
       \/ sess.sound /\ DripEnds("error") /\ addrs' = addrs
       \/ sess.sound /\ addrs' = ProductAccount(sess) /\ client' = TRUE /\ pc' = "read"
          /\ outcome' = outcome
    /\ UNCHANGED <<store, cache, idents, world, runs, cmd, sess, fresh, setup, todo, rows, paired, stuck,
                   unrotated>>

\* Faulty variant: an account that holds exactly the cap is topped up again.
AtCapLate(balance) == balance > DripCap

\* dripToProductAccount: the account is at the ceiling.
AtCap(balance) == balance >= DripCap

\* The two reads of dripToProductAccount.  The dev funder pays for everybody, so
\* it may be found without funds at any time.
DripRead ==
    /\ cmd = "drip" /\ pc = "read"
    /\ \/ DripEnds("error") /\ late' = late
       \/ AtCap(bal[addrs]) /\ DripEnds("skipped") /\ late' = late
       \/ ~AtCap(bal[addrs]) /\ DripEnds("exhausted") /\ late' = late
       \/ /\ ~AtCap(bal[addrs])
          /\ pc' = "transfer" /\ UNCHANGED <<client, outcome>>
          /\ late' = [late EXCEPT ![addrs] = 0]
    /\ UNCHANGED <<store, cache, idents, phone, served, stale, pgas, credited, bal, inFlight, runs, cmd,
                   open, sess, addrs, fresh, setup, todo, rows, paired, stuck, unrotated>>

\* The transfer is in a block.
Lands ==
    /\ bal' = [bal EXCEPT ![addrs] = @ + DripAmount]
    /\ credited' = credited \cup {addrs}
    /\ UNCHANGED <<inFlight, late>>

\* The transfer was sent, and nobody waits for it any more.
Outlives ==
    /\ inFlight' = [inFlight EXCEPT ![addrs] = @ + 1]
    /\ UNCHANGED <<credited, bal, late>>

\* The transfer, waited for until it is finalized.  When submitAndWatch throws,
\* it was never sent, has landed all the same, or may still land.
DripTransfer ==
    /\ cmd = "drip" /\ pc = "transfer"
    /\ \/ Lands /\ DripEnds("done")
       \/ (Lands \/ Outlives \/ UNCHANGED purse) /\ DripEnds("error")
    /\ UNCHANGED <<store, cache, idents, phone, served, stale, pgas, runs, cmd, open, sess,
                   addrs, fresh, setup, todo, rows, paired, stuck, unrotated>>

-----------------------------------------------------------------------------
(* A command that signs with the session and needs contract gas.           *)

StartSign == StartCommand("sign", "resolve", {"signer"})

\* resolveSigner without --suri: getSessionSigner, or "No signer available".
ResolveSigner ==
    /\ cmd = "sign" /\ pc = "resolve"
    /\ \/ pc' = "ended" /\ outcome' = "error" /\ UNCHANGED <<sess, addrs>>
       \/ \E found \in Loaded \ {<<>>} :
            /\ NewestSession(found).sound
            /\ sess' = NewestSession(found)
            /\ addrs' = ProductAccount(sess')
            /\ pc' = "gas" /\ outcome' = outcome
    /\ UNCHANGED <<store, cache, idents, world, runs, cmd, open, client, fresh, setup, todo, rows,
                   paired, stuck, unrotated>>

\* ensureSmartContractAllowance: a cache entry is enough; otherwise ask.
EnsureSmartContractAllowance ==
    /\ cmd = "sign" /\ pc = "gas"
    /\ pc' = "ended"
    /\ \/ /\ "SmartContract" \in cache
          /\ outcome' = "gas"
          /\ UNCHANGED <<cache, pgas>>
       \/ /\ "SmartContract" \notin cache
          /\ Topic(sess) \in served
          /\ \E answer \in [{"SmartContract"} -> Answers] :
               /\ Allocate(answer, sess.acct)
               /\ outcome' = IF answer["SmartContract"] = "Allocated" THEN "gas" ELSE "error"
       \/ /\ "SmartContract" \notin cache
          /\ outcome' = "error"
          /\ AnswerLost({"SmartContract"}) /\ cache' = cache
    /\ UNCHANGED <<store, idents, phone, served, stale, purse, runs, cmd, open, client, sess,
                   addrs, fresh, setup, todo, rows, paired, stuck, unrotated>>

-----------------------------------------------------------------------------
(* Ctrl+C.  No screen of these commands reads keys, so it is a SIGINT: the *)
(* process guard exits with 130, wherever the command is.                  *)

\* Files of which some may be gone while pc is where it is.
Removing == IF pc \in {"probe", "disconnect"} THEN AppFiles ELSE {}

\* What was on its way stays so: files half removed, a Disconnected statement or
\* a transfer already sent, an approval the phone still acts on.
Interrupt ==
    /\ cmd # None
    /\ \E sent \in BOOLEAN, told \in BOOLEAN, removed \in SUBSET Removing :
         /\ (sent => pc = "disconnect") /\ (told => sent)
         /\ SignOut(told, removed)
         /\ Disconnects(sent)
    /\ AnswerLost(IF setup = "ask" THEN todo ELSE IF pc = "gas" THEN {"SmartContract"} ELSE {})
    /\ UNCHANGED purse \/ (pc = "transfer" /\ Outlives)
    /\ Forget
    /\ UNCHANGED <<cache, idents, phone, runs, unrotated>>

-----------------------------------------------------------------------------
World ==
    \/ \E a \in Accounts : PhoneSwitch(a) \/ Spend(a) \/ LandsLate(a)
    \/ \E t \in served : PhoneDisconnect(t)
    \/ ReplayDisconnected

Start == StartLogin \/ StartLogout \/ StartDrip \/ StartSign

\* Steps of the command that happen without the user.
Step ==
    \/ ConnectProbe \/ QrPublished \/ ReadBack \/ DepsComplete \/ ScreenDone
    \/ SetupSigner \/ SetupSignerThrows \/ SetupCheck \/ SetupGrace \/ SetupAsk \/ SetupMapping
    \/ LogoutFind \/ WaitForLogout
    \/ DripFind \/ DripDerive \/ DripRead \/ DripTransfer
    \/ ResolveSigner \/ EnsureSmartContractAllowance
    \/ ProcessGone

Next == World \/ Start \/ Step \/ PhonePairs \/ ScanFails \/ Interrupt

Spec == Init /\ [][Next]_vars

\* Every call of the code settles: the SDK and the chain client time out, and
\* the steps of the command itself are the event loop's.  Nothing makes the
\* user scan the QR code or start a command.
FairSpec == Spec /\ WF_vars(Step)

-----------------------------------------------------------------------------

\* A pairing the phone still serves is never on a topic with a Disconnected
\* statement, which would tear the session out again: fresh pairings rotate
\* the identity.  Exempt is only an identity file unlink could not remove.
NoPoisonedPairing == served \cap stale \subseteq unrotated

\* When login shows the allowances as granted, the account it set up holds the
\* smart-contract grant, also after the phone was switched to another account
\* while the cache kept its entries.  Exempt are an outcome the phone left out, a
\* setup whose session is no longer the one the addresses came from, and the one
\* case the check of the mapping cannot see: the cache has another account's
\* entry, and PAS sent to this one (a drip, too) has mapped it.
GrantsAreForThisAccount ==
    rows.allowances = "ok" /\ sess.acct = addrs =>
        \/ addrs \in pgas
        \/ "SmartContract" \in todo
        \/ "SmartContract" \in cache /\ addrs \in credited

\* What login/index.ts and AccountSetup release at their end: the shared client,
\* the adapter of the pairing and the effect's own signer.  Only the probe can be
\* left, when the stored session cannot be derived, and the adapter of the
\* effect's second start, which nobody holds.
OnlyOrphansStayOpen ==
    cmd = "login" /\ pc = "ended" =>
        /\ ~client
        /\ "probe" \in open => sess # NoSession /\ addrs = None
        /\ "signer" \in open => addrs # None /\ setup = "done"
        /\ open \subseteq {"probe", "signer"}

\* A logout that reports "signed out", also only locally, leaves no session on
\* disk to sign with, unless the file itself could not be removed; and if it
\* reports full success the phone has dropped the pairing.
SignedOutIsGone ==
    cmd = "logout" /\ pc = "ended" =>
        /\ outcome \in {"success", "partial"} => list = <<>> \/ "SsoSessionsV3" \in stuck
        /\ outcome = "success" => Topic(sess) \notin served

\* Right after a pairing the account setup talks to the phone on the topic that
\* was just paired, not on an older one still in the list, unless the phone or
\* a replayed statement has ended that pairing.
SetupUsesNewPairing ==
    (fresh /\ setup = "ask") => (sess = paired \/ Topic(paired) \in stale)

\* A drip is sent to an account below the cap and no other, so an account that is
\* topped up by drips alone stays below the cap plus one drip, and one more for
\* each earlier transfer that lands after its command has ended (a wait that
\* failed, Ctrl+C, or a second drip that runs at the same time).
DripBounded ==
    \A a \in Accounts : bal[a] < DripCap + DripAmount * (1 + late[a])

\* Once its screen is up, login ends.
LoginReturns == (cmd = "login" /\ pc = "screen") ~> (cmd # "login")
=============================================================================
