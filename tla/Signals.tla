------------------------------ MODULE Signals ------------------------------
(***************************************************************************)
(* ADTimer: how a service learns that it has to stop, and its heartbeat.   *)
(* The main thread installs a handler, works unmasked while the service    *)
(* starts, and then blocks every signal and takes them one by one with     *)
(* sigwaitinfo().  A signal the kernel gives to another thread is forwarded*)
(* to the main thread by the handler.  A task of the service can ask for   *)
(* the stop as well (forced_exit()).                                       *)
(***************************************************************************)
EXTENDS Naturals

CONSTANT StopSigs   \* SIGINT, SIGTERM, SIGQUIT
ASSUME StopSigsAssumption == "SIGALRM" \notin StopSigs

VARIABLES
    mpc,         \* where the main thread is
    flag,        \* received_user_stop_sig
    pend,        \* the signals pending on the main thread
    fwd,         \* the signal another thread is forwarding
    armed,       \* the interval timer runs
    stoptimer,
    tick,        \* timer_tick_pending: the timer thread was woken
    fpc,         \* the task in forced_exit(): "idle" or "wake"
    asked,       \* history: a stop was asked for
    late         \* history: a stop signal came after the drain, or was being
                 \* forwarded during it

signalVars == <<flag, pend, fwd, asked, late>>
timerVars == <<armed, stoptimer, tick>>

None == "none"

Ended == {"killed", "crashed", "exited", "ended"}
Alive == mpc \notin Ended

\* pthread_sigmask(SIG_BLOCK) in wait_for_exit_signal(), until
\* allow_forced_termination() unblocks the stop signals.
InWait == {"sigwait", "drain", "default"}
Blocked == mpc \in InWait
BeforeDrain == {"boot", "ctor", "starting", "xmpp", "ready", "sigwait",
                "drain", "failed"}
dfl == mpc \notin BeforeDrain \union {"default"}

\* The default action of a stop signal ends the process.
Kill == mpc' = "killed" /\ UNCHANGED <<flag, pend>>

\* forward_signal_handler() on the main thread, or a signal that is blocked
\* there and stays pending.  (SIGALRM stays blocked to the end, but nobody
\* takes it once the wait is over.)
OnMain(sig) ==
    IF sig \in StopSigs /\ dfl /\ ~Blocked THEN Kill
    ELSE /\ UNCHANGED mpc
         /\ pend' = IF Blocked THEN pend \union {sig} ELSE pend
         /\ flag' = (flag \/ (~Blocked /\ sig \in StopSigs))

\* The constructor: waiter_tid is set, then the handlers are installed ...
InstallForwarders ==
    /\ mpc = "boot"
    /\ mpc' = "ctor"
    /\ UNCHANGED <<signalVars, timerVars, fpc>>

\* ... and after them the flags are cleared, with a stop that came between.
ClearFlags ==
    /\ mpc = "ctor"
    /\ mpc' = "starting"
    /\ flag' = FALSE /\ stoptimer' = FALSE
    /\ UNCHANGED <<pend, fwd, asked, late, armed, tick, fpc>>

\* A stop signal for the process: the kernel gives it to the main thread, or
\* to another one once there is one.  Bound: one after the drain.
Arrive(sig) ==
    /\ mpc # "boot" /\ ~late
    /\ asked' = (asked \/ mpc # "ctor")
    /\ late' = (late \/ mpc \notin BeforeDrain)
    /\ \/ ~Blocked /\ OnMain(sig) /\ UNCHANGED fwd
       \/ /\ mpc # "ctor" /\ fwd = None
          /\ IF dfl THEN Kill /\ UNCHANGED fwd
             ELSE fwd' = sig /\ UNCHANGED <<mpc, flag, pend>>
    /\ UNCHANGED <<timerVars, fpc>>

\* The interval timer: SIGALRM, forwarded at once if another thread gets it.
\* Bound: not while the timer thread has the previous one to serve, when it
\* would do nothing (timer_tick_pending).
Tick ==
    /\ armed /\ ~tick
    /\ OnMain("SIGALRM")
    /\ UNCHANGED <<fwd, asked, late, timerVars, fpc>>

\* The handler on another thread: SYS_rt_tgsigqueueinfo to the main thread.
Bug_Forward ==
    /\ fwd # None
    /\ fwd' = None
    /\ IF Blocked THEN OnMain(fwd) ELSE UNCHANGED <<mpc, flag, pend>>
    /\ UNCHANGED <<asked, late, timerVars, fpc>>
Forward ==
    /\ fwd # None
    /\ fwd' = None
    /\ OnMain(fwd)
    /\ UNCHANGED <<asked, late, timerVars, fpc>>

\* wait_for_exit_signal(): block, publish the thread, start the timer, and
\* wait unless the flag is set already.
Waiting == mpc' = IF flag' THEN "drain" ELSE "sigwait"
EnterWait ==
    /\ mpc = "ready"
    /\ armed' = TRUE
    /\ UNCHANGED <<signalVars, stoptimer, tick, fpc>>
    /\ Waiting

\* sigwaitinfo(): a tick wakes the timer thread unless one is pending.
SigWait(sig) ==
    /\ mpc = "sigwait" /\ sig \in pend
    /\ pend' = pend \ {sig}
    /\ flag' = (flag \/ sig \in StopSigs)
    /\ tick' = (tick \/ (sig = "SIGALRM" /\ ~stoptimer))
    /\ UNCHANGED <<fwd, asked, late, armed, stoptimer, fpc>>
    /\ Waiting

\* allow_forced_termination(): pending copies of the stop signals are taken,
\* the default action comes back, the signals are unblocked.
Bug_Drain ==
    /\ mpc = "drain"
    /\ mpc' = "default"
    /\ late' = (fwd \in StopSigs)
    /\ UNCHANGED <<flag, pend, fwd, asked, timerVars, fpc>>
Drain ==
    /\ mpc = "drain"
    /\ mpc' = "default"
    /\ pend' = pend \ StopSigs
    /\ late' = (fwd \in StopSigs)
    /\ UNCHANGED <<flag, fwd, asked, timerVars, fpc>>
Unblock ==
    /\ mpc = "default"
    /\ mpc' = IF pend \intersect StopSigs # {} THEN "killed" ELSE "left"
    /\ pend' = {}
    /\ UNCHANGED <<flag, fwd, asked, late, timerVars, fpc>>

\* forced_exit(): the flag first, then a SIGALRM for the main thread.  Bound:
\* not when the flag is set already, nor once the wait is over, when nobody
\* looks at it any more.
ForcedFlag ==
    /\ fpc = "idle" /\ ~flag /\ mpc \in BeforeDrain
    /\ fpc' = "wake"
    /\ flag' = TRUE /\ asked' = TRUE
    /\ UNCHANGED <<mpc, pend, fwd, late, timerVars>>
ForcedWake ==
    /\ fpc = "wake"
    /\ fpc' = "idle"
    /\ OnMain("SIGALRM")
    /\ UNCHANGED <<fwd, asked, late, timerVars>>

\* monoshot_callback_function() of the timer thread: the tick is no longer
\* pending when the subscribers are notified.
TimerThread ==
    /\ tick
    /\ tick' = FALSE
    /\ UNCHANGED <<mpc, signalVars, armed, stoptimer, fpc>>

\* stop(): no further tick, the interval timer off, the timer thread joined;
\* a wakeup it has not served is dropped.
TimerStop ==
    /\ mpc = "timerstop"
    /\ mpc' = "force"
    /\ stoptimer' = TRUE /\ armed' = FALSE /\ tick' = FALSE
    /\ UNCHANGED <<signalVars, fpc>>

SignalInit ==
    /\ mpc = "boot" /\ flag = FALSE /\ pend = {} /\ fwd = None
    /\ armed = FALSE /\ stoptimer = FALSE /\ tick = FALSE
    /\ fpc = "idle"
    /\ asked = FALSE /\ late = FALSE
=============================================================================
