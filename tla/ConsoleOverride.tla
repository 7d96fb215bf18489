-------------------------- MODULE ConsoleOverride ---------------------------
(***************************************************************************)
(* Who owns `console` while apps deploy.                                   *)
(*                                                                         *)
(* Three pieces of code swap methods of the global console and put back    *)
(* what they found:                                                        *)
(*   silenceConsole        (utils/deploy/availability.ts): log, info, warn *)
(*                         while a domain check connects;                  *)
(*   interceptConsoleLog   (utils/deploy/storage.ts): log, warn, error     *)
(*                         while bulletin-deploy runs, inside the gate;    *)
(*   wrapSignerWithSssFastFail (utils/sessionSigner.ts): error while one   *)
(*                         phone signature is pending.                     *)
(* Each saves "the originals" in a closure, so the swaps must nest like    *)
(* brackets.  The model keeps, per stream, the function installed now.     *)
(***************************************************************************)
EXTENDS Naturals, Sequences

CONSTANTS Apps,        \* the apps deployed by one process
          MaxSignatures     \* signing calls one app may make (bounds them)

Calls == 1..MaxSignatures

Streams == {"log", "info", "warn", "error"}
Orig == <<"original">>
NoOp == <<"noop">>
Shim(a) == <<"shim", a>>
Guard(a, c) == <<"guard", a, c>>

VARIABLES console,      \* the function behind each stream
          pc,           \* where each app is
          saved,        \* what silenceConsole / interceptConsoleLog of each app
                        \* captured on entry
          call,         \* state of each signing call
          previousError,\* what each signing call captured on entry
          sessionQueue, \* the calls host-papp has yet to answer, oldest first
          overlapped    \* history: a signature was asked for, or a phase was left,
                        \* while an earlier signature was still pending

consoleVars == <<console, pc, saved, call, previousError, sessionQueue, overlapped>>

ConsoleInit ==
    /\ console = [s \in Streams |-> Orig]
    /\ pc = [a \in Apps |-> "start"]
    /\ saved = [a \in Apps |-> console]
    /\ call = [a \in Apps |-> [c \in Calls |-> "unused"]]
    /\ previousError = [a \in Apps |-> [c \in Calls |-> Orig]]
    /\ sessionQueue = <<>>
    /\ overlapped = FALSE

\* Replace the functions of some streams.
Install(streams, f) == [s \in Streams |-> IF s \in streams THEN f ELSE console[s]]
\* Put back, for some streams, what was captured.
PutBack(streams, old) == [s \in Streams |-> IF s \in streams THEN old[s] ELSE console[s]]

Pending(a) == {c \in Calls : call[a][c] = "pending"}

-----------------------------------------------------------------------------
\* silenceConsole: the streams a domain check mutes.
Silenced == {"log", "info", "warn"}

\* checkDomainAvailability: silenceConsole() and the connect are issued.
StartCheck(a) ==
    /\ pc[a] = "start"
    /\ saved' = [saved EXCEPT ![a] = console]
    /\ console' = Install(Silenced, NoOp)
    /\ pc' = [pc EXCEPT ![a] = "checking"]
    /\ UNCHANGED <<call, previousError, sessionQueue, overlapped>>

\* The connect resolves, fails or times out: restore() runs in the finally.
\* A domain that is not available ends the app here.
EndCheck(a) ==
    /\ pc[a] = "checking"
    /\ console' = PutBack(Silenced, saved[a])
    /\ \E next \in {"checked", "done"} : pc' = [pc EXCEPT ![a] = next]
    /\ UNCHANGED <<saved, call, previousError, sessionQueue, overlapped>>

Intercepted == {"log", "warn", "error"}

\* runStorageDeploy inside the signing gate, which at most one app holds.
StartStorage(a) ==
    /\ pc[a] = "checked"
    /\ \A b \in Apps : pc[b] \notin {"storing", "publishing"}
    /\ saved' = [saved EXCEPT ![a] = console]
    /\ console' = Install(Intercepted, Shim(a))
    /\ pc' = [pc EXCEPT ![a] = "storing"]
    /\ UNCHANGED <<call, previousError, sessionQueue, overlapped>>

\* bulletin-deploy resolves or rejects; restore() runs in the finally.  It may
\* reject while it has given up on a signature that is still pending.
EndStorage(a) ==
    /\ pc[a] = "storing"
    /\ console' = PutBack(Intercepted, saved[a])
    /\ \E next \in {"publishing", "done"} : pc' = [pc EXCEPT ![a] = next]
    /\ overlapped' = (overlapped \/ Pending(a) # {})
    /\ UNCHANGED <<saved, call, previousError, sessionQueue>>

\* The registry publish ends, or fails, and with it the gated section.
EndPublish(a) ==
    /\ pc[a] = "publishing"
    /\ pc' = [pc EXCEPT ![a] = "done"]
    /\ overlapped' = (overlapped \/ Pending(a) # {})
    /\ UNCHANGED <<console, saved, call, previousError, sessionQueue>>

\* A phone signature is requested: capture console.error, install the guard, and
\* join host-papp's queue.  bulletin-deploy, and the publish's retry loop, ask again
\* while an unanswered call is still pending (signingProxy.ts:57-60).
Sign(a, c) ==
    /\ pc[a] \in {"storing", "publishing"}
    /\ call[a][c] = "unused"
    /\ \A d \in Calls : d < c => call[a][d] # "unused"
    /\ previousError' = [previousError EXCEPT ![a][c] = console["error"]]
    /\ console' = Install({"error"}, Guard(a, c))
    /\ call' = [call EXCEPT ![a][c] = "pending"]
    /\ sessionQueue' = Append(sessionQueue, <<a, c>>)
    /\ overlapped' = (overlapped \/ Pending(a) # {})
    /\ UNCHANGED <<pc, saved>>

\* The `finally` of a signing call: console.error is what the call had found.
RestoreError(a, c) ==
    /\ call[a][c] = "pending"
    /\ console' = Install({"error"}, previousError[a][c])
    /\ call' = [call EXCEPT ![a][c] = "settled"]
    /\ sessionQueue' = SelectSeq(sessionQueue, LAMBDA q : q # <<a, c>>)
    /\ UNCHANGED <<pc, saved, previousError, overlapped>>

\* The phone answers, or host-papp rejects: its poolSize-1 queue (external) serves
\* the oldest call only.
Signed(a, c) == sessionQueue # <<>> /\ Head(sessionQueue) = <<a, c>> /\ RestoreError(a, c)

\* The NoAllowanceError line is printed while the guard of this call is installed:
\* the call is given up within 200 ms.
FastFail(a, c) == console["error"] = Guard(a, c) /\ RestoreError(a, c)

Quiet == \A a \in Apps : pc[a] = "done" /\ Pending(a) = {}

\* Every deploy of the process is over.
Finished == Quiet /\ UNCHANGED consoleVars

ConsoleNext ==
    \/ \E a \in Apps :
          \/ StartCheck(a) \/ EndCheck(a)
          \/ StartStorage(a) \/ EndStorage(a) \/ EndPublish(a)
          \/ \E c \in Calls : Sign(a, c) \/ Signed(a, c) \/ FastFail(a, c)
    \/ Finished

ConsoleSpec == ConsoleInit /\ [][ConsoleNext]_consoleVars

-----------------------------------------------------------------------------

\* "we capture whatever console.error is at call time and restore exactly that in
\* finally, so the interceptions nest.  Overlapping signing calls cannot interleave
\* restores in practice" (sessionSigner.ts:174-178): while an app stores, console.error
\* is its parser or the guard of a call it still waits for, and once nothing is under
\* way it is the original again.  Violated: the queue serialises the operations, but
\* console.error is captured before a call joins it.
RestoresNest ==
    /\ \A a \in Apps : pc[a] = "storing" =>
          console["error"] \in {Shim(a)} \cup {Guard(a, c) : c \in Pending(a)}
    /\ Quiet => console["error"] = Orig

=============================================================================
