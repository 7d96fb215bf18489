---------------------------- MODULE ProcessExit -----------------------------
(***************************************************************************)
(* How a `playground` process comes to an end (utils/process-guard.ts,     *)
(* cli-runtime.ts, the tail of index.ts, and the deploy command's cleanup).*)
(*                                                                         *)
(* Five things race to call process.exit: the tail of index.ts, the        *)
(* hard-exit timer, each signal's cleanup loop, each loop's 3 s fallback,  *)
(* and the memory watchdog's SIGKILL.  Cleanup hooks are asynchronous, so  *)
(* the command keeps running while a signal is being handled.              *)
(***************************************************************************)
EXTENDS Naturals, Sequences

CONSTANT Signals   \* the signals and unhandled errors that may arrive (bound)

\* Hooks in registration order; the last two come with the command.
Hooks == <<"telemetry", "title", "watchdog", "cleanup">>
NotExited == [code |-> "none", by |-> "nobody"]
Idle == [state |-> "idle", code |-> "none", at |-> 0]

VARIABLES registered, \* how many hooks are registered
          body,       \* "starting", "running", "flushing", "tail", "banner"
          threw,      \* the command's action threw
          exitCode,   \* process.exitCode: "unset", "0", "1"
          printed,    \* how often the user was told why the command failed
          hardExit,   \* code the hard-exit timer was armed with, or "none"
          watchdog,   \* the memory sampler is running
          handler,    \* per signal: its run of runAllCleanupAndExit
          destroyed,  \* how often the command's resources were destroyed
          ran,        \* cleanupOnce's flag
          exited      \* how the process ended

vars == <<registered, body, threw, exitCode, printed, hardExit, watchdog, handler,
          destroyed, ran, exited>>

Init ==
    /\ registered = 2
    /\ body = "starting"
    /\ threw = FALSE
    /\ exitCode = "unset"
    /\ printed = 0
    /\ hardExit = "none"
    /\ watchdog = FALSE
    /\ handler = [s \in Signals |-> Idle]
    /\ destroyed = 0
    /\ ran = FALSE
    /\ exited = NotExited

Alive == exited = NotExited
Exit(c, who) == exited' = [code |-> c, by |-> who]

\* cleanupOnce
Cleanup ==
    /\ destroyed' = IF ran THEN destroyed ELSE destroyed + 1
    /\ ran' = TRUE

-----------------------------------------------------------------------------
\* runCliCommand starts the watchdog; the action registers its cleanup.
Start ==
    /\ Alive /\ body = "starting"
    /\ body' = "running"
    /\ watchdog' = TRUE
    /\ registered' = 4
    /\ UNCHANGED <<threw, exitCode, printed, hardExit, handler, destroyed, ran, exited>>

\* The action returns: done, or a soft outcome, or a failure it reported itself.
Return(code) ==
    /\ Alive /\ body = "running"
    /\ Cleanup
    /\ body' = "flushing"
    /\ exitCode' = code
    /\ printed' = IF code = "1" THEN printed + 1 ELSE printed
    /\ UNCHANGED <<registered, threw, hardExit, watchdog, handler, exited>>

\* The action throws, having printed the error and set the code, or neither.
Throw(told) ==
    /\ Alive /\ body = "running"
    /\ Cleanup
    /\ body' = "flushing"
    /\ threw' = TRUE
    /\ exitCode' = IF told THEN "1" ELSE exitCode
    /\ printed' = IF told THEN printed + 1 ELSE printed
    /\ UNCHANGED <<registered, hardExit, watchdog, handler, exited>>

\* Faulty variant: the timer is armed whatever happened.
ArmAlways == IF exitCode = "1" THEN "1" ELSE "0"

\* runCliCommand's finally: a thrown error without a code arms nothing.
Arm == IF exitCode = "1" THEN "1" ELSE IF threw THEN "none" ELSE "0"

\* scheduleHardExit also sets process.exitCode.
CodeAfterArm == IF Arm = "none" THEN exitCode ELSE Arm

\* The root span is flushed; runCliCommand's finally, then index.ts's catch.
EndCommand ==
    /\ Alive /\ body = "flushing"
    /\ watchdog' = FALSE
    /\ hardExit' = Arm
    /\ printed' = IF threw /\ CodeAfterArm \in {"unset", "0"} THEN printed + 1 ELSE printed
    /\ exitCode' = IF threw THEN "1" ELSE CodeAfterArm
    /\ body' = "tail"
    /\ UNCHANGED <<registered, threw, handler, destroyed, ran, exited>>

\* flushTelemetry in index.ts's finally.
Flushed ==
    /\ Alive /\ body = "tail"
    /\ body' = "banner"
    /\ UNCHANGED <<registered, threw, exitCode, printed, hardExit, watchdog, handler,
                   destroyed, ran, exited>>

\* The update banner, then process.exit.
IndexExit ==
    /\ Alive /\ body = "banner"
    /\ Exit(IF exitCode = "unset" THEN "0" ELSE exitCode, "tail")
    /\ UNCHANGED <<registered, body, threw, exitCode, printed, hardExit, watchdog,
                   handler, destroyed, ran>>

\* The hard-exit timer fires while the tail is still flushing.
HardExit ==
    /\ Alive /\ hardExit # "none"
    /\ Exit(hardExit, "timer")
    /\ UNCHANGED <<registered, body, threw, exitCode, printed, hardExit, watchdog,
                   handler, destroyed, ran>>

-----------------------------------------------------------------------------
\* A signal, or an error nobody handled that is not a benign teardown artifact.
Receive(s, code) ==
    /\ Alive /\ handler[s].state = "idle"
    /\ handler' = [handler EXCEPT ![s] = [state |-> "cleaning", code |-> code, at |-> 1]]
    /\ UNCHANGED <<registered, body, threw, exitCode, printed, hardExit, watchdog,
                   destroyed, ran, exited>>

Cleaning(s) == Alive /\ handler[s].state = "cleaning"

\* Faulty variant: a hook that throws ends the loop.
RunHookUnguarded(s) ==
    /\ Cleaning(s) /\ handler[s].at <= registered
    /\ LET hook == Hooks[handler[s].at] IN
       /\ IF hook = "cleanup" THEN Cleanup ELSE UNCHANGED <<destroyed, ran>>
       /\ watchdog' = (watchdog /\ hook # "watchdog")
    /\ \E next \in {handler[s].at + 1, Len(Hooks) + 1} :
          handler' = [handler EXCEPT ![s].at = next]
    /\ UNCHANGED <<registered, body, threw, exitCode, printed, hardExit, exited>>

\* One hook of the loop, which sees hooks registered meanwhile; one that throws
\* is logged and skipped.
RunHook(s) ==
    /\ Cleaning(s) /\ handler[s].at <= registered
    /\ LET hook == Hooks[handler[s].at] IN
       /\ IF hook = "cleanup" THEN Cleanup ELSE UNCHANGED <<destroyed, ran>>
       /\ watchdog' = (watchdog /\ hook # "watchdog")
    /\ handler' = [handler EXCEPT ![s].at = @ + 1]
    /\ UNCHANGED <<registered, body, threw, exitCode, printed, hardExit, exited>>

\* The loop is through: process.exit.
HandlerExit(s) ==
    /\ Cleaning(s) /\ handler[s].at > registered
    /\ Exit(handler[s].code, "handler")
    /\ UNCHANGED <<registered, body, threw, exitCode, printed, hardExit, watchdog,
                   handler, destroyed, ran>>

\* Faulty variant: the fallback never fires while a hook hangs.
FallbackAfterHooks(s) ==
    /\ Cleaning(s) /\ handler[s].at > 1
    /\ Exit(handler[s].code, "fallback")
    /\ UNCHANGED <<registered, body, threw, exitCode, printed, hardExit, watchdog,
                   handler, destroyed, ran>>

\* The 3 s fallback, armed before the first hook runs.
Fallback(s) ==
    /\ Cleaning(s)
    /\ Exit(handler[s].code, "fallback")
    /\ UNCHANGED <<registered, body, threw, exitCode, printed, hardExit, watchdog,
                   handler, destroyed, ran>>

\* The worker thread finds the process over its memory limit.
WatchdogKill ==
    /\ Alive /\ watchdog
    /\ Exit("137", "watchdog")
    /\ UNCHANGED <<registered, body, threw, exitCode, printed, hardExit, watchdog,
                   handler, destroyed, ran>>

Gone == ~Alive /\ UNCHANGED vars

Next ==
    \/ Start
    \/ \E code \in {"unset", "0", "1"} : Return(code)
    \/ \E told \in BOOLEAN : Throw(told)
    \/ EndCommand \/ Flushed \/ IndexExit \/ HardExit
    \/ \E s \in Signals :
          \/ \E code \in {"1", "130", "143"} : Receive(s, code)
          \/ RunHook(s) \/ HandlerExit(s) \/ Fallback(s)
    \/ WatchdogKill
    \/ Gone

Spec == Init /\ [][Next]_vars

\* Sentry.flush, the version fetch and the timers are all bounded, so they
\* happen; nothing promises that a command or a hook ever finishes.
Fairness ==
    /\ WF_vars(EndCommand) /\ WF_vars(Flushed) /\ WF_vars(IndexExit)
    /\ \A s \in Signals : WF_vars(Fallback(s))

FairSpec == Spec /\ Fairness

-----------------------------------------------------------------------------
\* A command that failed never exits 0, whichever of the racing exits wins, and
\* the user is told why exactly once: index.ts prints what the command did not,
\* and the hard-exit timer does not cut the message off.
FailureReported ==
    /\ ~Alive /\ (threw \/ exitCode = "1") => exited.code # "0"
    /\ printed <= 1
    /\ ~Alive /\ exited.by \in {"tail", "timer"} /\ exited.code = "1" => printed = 1

\* An orderly exit (the tail, or a cleanup loop that ran through) leaves the
\* signer and the connection destroyed, and nothing is ever destroyed twice,
\* although the command's finally and every signal's loop call the cleanup.
OrderlyExitCleansUp ==
    /\ destroyed <= 1
    /\ ~Alive /\ exited.by \in {"tail", "handler"} /\ registered = 4 => destroyed = 1

\* Every way to end reaches process.exit: after a signal, also when a cleanup
\* hook never returns ("forces cleanup + hard exit within 3 s, regardless",
\* process-guard.ts:31-33), and after the command, although sockets are open.
ProcessEnds ==
    (body = "flushing" \/ \E s \in Signals : handler[s].state = "cleaning") ~> ~Alive

=============================================================================
