------------------------------ MODULE XmppLife ------------------------------
(***************************************************************************)
(* The life of the XMPP proxy service (main.cpp) and of its connection     *)
(* (ADXmppProxy, the client thread of XmppMgr).                            *)
(*                                                                         *)
(*   main    starts the RPC server and the XMPP thread, waits for a stop   *)
(*           request (Signals), and stops everything in order;             *)
(*   client  the XMPP thread: connects, receives, reconnects;              *)
(*   rpc     the handler of set_online_status and the shutdown task;       *)
(*   timer   the heartbeat, which has the server pinged;                   *)
(*   ping    the thread that pings and gives up on a silent server;        *)
(*   command the thread that answers messages (XmppBot says how).          *)
(*                                                                         *)
(* Only the client thread connects, receives and deletes the gloox client; *)
(* the others ask for a disconnection and wait a little (disconnect()).    *)
(***************************************************************************)
EXTENDS Signals

CONSTANT MaxMissed   \* pings without an answer before the connection is given
                     \* up (3 in the code)
ASSUME MissedAssumption == MaxMissed \in Nat

VARIABLES
    world,       \* the server is "lively", it is "silent" for ever, or recv()
                 \* of gloox is "blocked" for ever (BOSH)
    cpc,         \* where the client thread is
    j,           \* the gloox client exists
    connected, request, forced, ondemand,   \* flags of ADXmppProxy
    since,       \* history: clients made since the last offline request (<= 2)
    rpc,         \* the RPC handler: "off", "idle", or where it is in
                 \* disconnect(): "check", "store"
    ppc,         \* the ping thread: "idle" (PingPipe is empty), "woken", about
                 \* to "ping" a client it has seen, which may have become
                 \* "stale", in disconnect() ("check", "store"), or at its
                 \* end ("pop")
    kpc,         \* the command thread, of which main() knows nothing until it
                 \* returns: then it is "busy" with a message or "idle"
    HeartBeat    \* pings not answered

linkVars == <<cpc, j, connected, request, since>>
wishVars == <<forced, ondemand>>
baseVars == <<mpc, signalVars, timerVars, fpc>>
restVars == <<world, kpc>>
lifeVars == <<restVars, linkVars, wishVars, rpc, ppc, HeartBeat>>
vars == <<baseVars, lifeVars>>

AtMost(n, bound) == IF n > bound THEN bound ELSE n
-----------------------------------------------------------------------------
(* The client thread                                                       *)

Client(from, to) ==
    /\ cpc = from /\ cpc' = to
    /\ UNCHANGED <<baseVars, restVars, wishVars, rpc>>

\* thread_callback_function(): does the user want to be online?
Bug_TestOnDemand ==
    /\ Client("loop", "connect")
    /\ UNCHANGED <<j, connected, request, since, ppc, HeartBeat>>
TestOnDemand ==
    /\ Client("loop", IF ondemand THEN "retest" ELSE "connect")
    /\ UNCHANGED <<j, connected, request, since, ppc, HeartBeat>>

\* connect(): a request that came before this client is forgotten; from here
\* on, while it is still connecting, connected is true.
NewClient ==
    /\ Client("connect", "client")
    /\ j' = TRUE /\ request' = FALSE /\ connected' = TRUE
    /\ since' = IF ondemand THEN AtMost(since + 1, 2) ELSE since
    /\ UNCHANGED <<ppc, HeartBeat>>

\* The end of connect(): the client is deleted and connected is false.
Deleted ==
    /\ j' = FALSE /\ connected' = FALSE
    /\ ppc' = IF ppc = "ping" THEN "stale" ELSE ppc
    /\ UNCHANGED <<request, since>>

\* HeartBeat = 0 races with ++HeartBeat of the ping thread and may be lost.
\* Then j->connect(false): gloox connects or it does not.
Dial ==
    /\ HeartBeat' \in {0} \union (IF ppc \in {"ping", "stale"} THEN {HeartBeat} ELSE {})
    /\ \/ /\ Client("client", "recv")
          /\ UNCHANGED <<j, connected, request, since, ppc>>
       \/ Client("client", "retest") /\ Deleted

\* j->recv() returned: nothing, an answer to a ping (handleEvent) or an error.
\* The requests are looked at after each.  --HeartBeat may be lost.
RecvThen(stop) ==
    /\ world # "blocked"
    /\ \/ HeartBeat' = HeartBeat
       \/ world = "lively" /\ HeartBeat > 0 /\ HeartBeat' = HeartBeat - 1
    /\ \/ /\ ~stop /\ Client("recv", "recv")
          /\ UNCHANGED <<j, connected, request, since, ppc>>
       \/ /\ stop \/ world = "lively"
          /\ Client("recv", "retest") /\ Deleted
Bug_Recv == RecvThen(forced)
Recv == RecvThen(request \/ forced)

\* The five waits of 800 ms, each followed by the same test.
TestForced ==
    /\ Client("retest", IF forced THEN "exit" ELSE "loop")
    /\ UNCHANGED <<j, connected, request, since, ppc, HeartBeat>>

ClientThread == TestOnDemand \/ NewClient \/ Dial \/ Recv \/ TestForced
-----------------------------------------------------------------------------
(* disconnect(): only if connected.  Afterwards the caller waits until that *)
(* is no longer so, for 5 s (2 s with BOSH) at most: its next step comes    *)
(* some time later.                                                        *)

DiscCheck(pc, done) == pc' = IF connected THEN "store" ELSE done
DiscStore(pc, done) == pc' = done /\ request' = TRUE

Disconnect(pc, done) ==
    \/ pc = "check" /\ DiscCheck(pc, done) /\ UNCHANGED request
    \/ pc = "store" /\ DiscStore(pc, done)
-----------------------------------------------------------------------------
(* The RPCs                                                                *)

Receiving == rpc = "idle" /\ mpc # "rpcjoin"

\* set_online_status(true): the client thread sees it in its next round.
GoOnline ==
    /\ Receiving
    /\ ondemand' = FALSE /\ since' = 0
    /\ UNCHANGED <<baseVars, restVars, cpc, j, connected, request, forced, rpc,
                   ppc, HeartBeat>>

\* set_online_status(false): the wish first, then disconnect().
GoOffline ==
    /\ Receiving
    /\ rpc' = "check"
    /\ ondemand' = TRUE
    /\ since' = IF ondemand THEN since ELSE 0
    /\ UNCHANGED <<baseVars, restVars, cpc, j, connected, request, forced, ppc,
                   HeartBeat>>
OfflineDisconnect ==
    /\ Disconnect(rpc, "idle")
    /\ UNCHANGED <<baseVars, restVars, cpc, j, connected, since, wishVars, ppc,
                   HeartBeat>>

\* The task of trigger_shutdown.
ShutdownTask == Receiving /\ ForcedFlag /\ UNCHANGED lifeVars
-----------------------------------------------------------------------------
(* The heartbeat                                                           *)

\* timer_notification(): at every 600th tick send_client_alive_ping(); the
\* others change nothing.  A ping still in hand is not repeated.
NotifyPing ==
    /\ TimerThread
    /\ ppc' = IF ppc = "idle" THEN "woken" ELSE ppc
    /\ UNCHANGED <<restVars, linkVars, wishVars, rpc, HeartBeat>>

\* monoshot_callback_function(): is there a client? ...
PingCheck ==
    /\ ppc = "woken"
    /\ ppc' = IF j THEN "ping" ELSE "pop"
    /\ UNCHANGED <<baseVars, restVars, linkVars, wishVars, rpc, HeartBeat>>

\* ... it is used without a lock; a client deleted meanwhile may end the
\* process.
PingClient ==
    /\ ppc \in {"ping", "stale"}
    /\ HeartBeat' = AtMost(HeartBeat + 1, MaxMissed + 1)
    /\ ppc' = IF HeartBeat + 1 > MaxMissed THEN "check" ELSE "pop"
    /\ \/ mpc' = mpc
       \/ ppc = "stale" /\ mpc' = "crashed"
    /\ UNCHANGED <<signalVars, timerVars, fpc, restVars, linkVars, wishVars,
                   rpc>>
PingDisconnect ==
    /\ Disconnect(ppc, "pop")
    /\ UNCHANGED <<baseVars, restVars, cpc, j, connected, since, wishVars, rpc,
                   HeartBeat>>
PingPop ==
    /\ ppc = "pop"
    /\ ppc' = "idle"
    /\ UNCHANGED <<baseVars, restVars, linkVars, wishVars, rpc, HeartBeat>>

PingThread == PingCheck \/ PingClient \/ PingDisconnect \/ PingPop
-----------------------------------------------------------------------------
(* main()                                                                  *)

Main(from, to) ==
    /\ mpc = from /\ mpc' = to
    /\ UNCHANGED <<signalVars, timerVars, fpc>>

\* RpcMgr.Start(): when the port is busy, main() returns.
StartRpc ==
    \/ /\ Main("starting", "xmpp")
       /\ rpc' = "idle"
       /\ UNCHANGED <<restVars, linkVars, wishVars, ppc, HeartBeat>>
    \/ Main("starting", "failed") /\ UNCHANGED lifeVars

\* XmpManager.Start(): without an account there is no thread; nobody looks.
StartXmpp ==
    /\ Main("xmpp", "ready")
    /\ cpc' \in {"none", "loop"}
    /\ UNCHANGED <<restVars, j, connected, request, since, wishVars, rpc, ppc,
                   HeartBeat>>

\* RpcMgr.Stop(): no new requests, then the handlers and the tasks finish.
StopReceiving == Main("left", "rpcjoin") /\ UNCHANGED lifeVars
JoinRpc ==
    /\ Main("rpcjoin", "timerstop")
    /\ rpc = "idle" /\ fpc = "idle"
    /\ rpc' = "off"
    /\ UNCHANGED <<restVars, linkVars, wishVars, ppc, HeartBeat>>

\* XmpManager.Stop(): the forced mark, which alone decides from then on, and
\* disconnect().
SetForced ==
    /\ Main("force", "join")
    /\ forced' = TRUE
    /\ request' = (request \/ connected)
    /\ UNCHANGED <<restVars, cpc, j, connected, since, ondemand, rpc, ppc,
                   HeartBeat>>

\* stop_thread(3000): joined, or given up: then main() ends the process.  The
\* last message of the client thread may still be in work.
ClientDone == cpc \in {"none", "exit"}
Bug_JoinUnheeded ==
    /\ Main("join", "return")
    /\ UNCHANGED lifeVars
JoinClient ==
    /\ \/ /\ ClientDone /\ Main("join", "return")
          /\ kpc' \in {"idle"} \union (IF cpc = "exit" THEN {"busy"} ELSE {})
       \/ /\ ~ClientDone /\ Main("join", "exited")
          /\ UNCHANGED kpc
    /\ UNCHANGED <<world, linkVars, wishVars, rpc, ppc, HeartBeat>>

\* The command ends; without a client the process may end with it
\* (XmppBot!UseLink).
CommandDone ==
    /\ kpc = "busy"
    /\ kpc' = "idle"
    /\ mpc' \in {mpc, "crashed"}
    /\ UNCHANGED <<signalVars, timerVars, fpc, world, linkVars, wishVars, rpc,
                   ppc, HeartBeat>>

\* main() returned: the destructors join the command thread, however long it
\* takes, and the ping thread; a ping it has not begun is dropped.
Destroy ==
    /\ Main("return", "ended") \/ Main("failed", "ended")
    /\ kpc = "idle" /\ ppc \in {"idle", "woken"}
    /\ ppc' = "idle"
    /\ UNCHANGED <<restVars, linkVars, wishVars, rpc, HeartBeat>>

MainThread ==
    \/ StartRpc \/ StartXmpp \/ StopReceiving \/ JoinRpc \/ SetForced
    \/ JoinClient \/ Destroy
    \/ /\ \/ InstallForwarders \/ ClearFlags \/ EnterWait
          \/ (\E sig \in pend : SigWait(sig))
          \/ Drain \/ Unblock \/ TimerStop
       /\ UNCHANGED lifeVars
-----------------------------------------------------------------------------
\* The server stops answering, or recv() returning, for ever.
Degrade ==
    /\ world = "lively" /\ cpc = "recv"
    /\ world' \in {"silent", "blocked"}
    /\ UNCHANGED <<baseVars, kpc, linkVars, wishVars, rpc, ppc, HeartBeat>>

Init ==
    /\ SignalInit
    /\ world = "lively"
    /\ cpc = "none" /\ j = FALSE /\ connected = FALSE /\ request = FALSE
    /\ forced = FALSE /\ ondemand = FALSE /\ since = 0
    /\ rpc = "off" /\ ppc = "idle" /\ kpc = "idle" /\ HeartBeat = 0

Next ==
    /\ Alive
    /\ \/ MainThread
       \/ ClientThread
       \/ GoOnline \/ GoOffline \/ OfflineDisconnect \/ ShutdownTask
       \/ (\E sig \in StopSigs : Arrive(sig)) /\ UNCHANGED lifeVars
       \/ (Tick \/ Forward \/ ForcedWake) /\ UNCHANGED lifeVars
       \/ NotifyPing \/ PingThread \/ CommandDone
       \/ Degrade

\* Every thread goes on, and recv() returns (every 500 ms, TCP) unless the
\* world says it blocks.  The timer ticks; between two ticks the main thread
\* takes what else is pending.  A command ends: it waits for services with
\* time-outs, or for as long as its sender has said ("sleep").
TakeStop == (\E sig \in StopSigs : SigWait(sig)) /\ UNCHANGED lifeVars
Fairness ==
    /\ WF_vars(Alive /\ MainThread)
    /\ SF_vars(Alive /\ TakeStop)
    /\ WF_vars(Alive /\ ClientThread)
    /\ WF_vars(Alive /\ OfflineDisconnect)
    /\ WF_vars(Alive /\ Tick /\ UNCHANGED lifeVars)
    /\ WF_vars(Alive /\ (Forward \/ ForcedWake) /\ UNCHANGED lifeVars)
    /\ WF_vars(Alive /\ NotifyPing)
    /\ WF_vars(Alive /\ PingThread)
    /\ WF_vars(Alive /\ CommandDone)

Spec == Init /\ [][Next]_vars /\ Fairness
-----------------------------------------------------------------------------
\* A stop request ends the process, whichever thread the signal reached,
\* whatever the XMPP server does and however long gloox blocks: "xmproxysrv
\* must exit within 5 s of SIGTERM".  (How soon is not said: a command in work
\* is waited for.)
StopEnds == asked ~> ~Alive

\* A stop signal kills a service that is shutting down only if it was sent
\* after the shutdown had begun; copies from before are taken first.  (One that
\* a thread was still forwarding at that moment is the exception.)
KilledByLaterSignal == mpc = "killed" => late

\* main() returns, and destroys what the threads use, only when the client
\* thread, the timer thread and the RPC handlers have ended and nobody makes a
\* client any more; at the end no ping and no command is in work.
ReturnedIsQuiet ==
    mpc \in {"return", "ended"} =>
        /\ cpc \in {"none", "exit"} /\ ~j
        /\ ~tick /\ rpc = "off" /\ fpc = "idle"
        /\ mpc = "ended" => ppc = "idle" /\ kpc = "idle"

\* A server that has gone silent is noticed by the pings, and the connection
\* is given up (a TCP connection; a BOSH recv() may block).
SilentNoticed == (world = "silent" /\ cpc = "recv") ~> (cpc # "recv" \/ ~Alive)

\* Once the user has asked to be offline, the client thread makes at most one
\* more connection (the test may have been passed already).
OfflineHolds == since <= 1
-----------------------------------------------------------------------------
(* The inductive invariant, proved in XmppProofs                           *)

FlagsOK ==
    /\ flag \in BOOLEAN /\ asked \in BOOLEAN /\ late \in BOOLEAN
    /\ armed \in BOOLEAN /\ stoptimer \in BOOLEAN /\ tick \in BOOLEAN
    /\ j \in BOOLEAN /\ connected \in BOOLEAN /\ request \in BOOLEAN
    /\ forced \in BOOLEAN /\ ondemand \in BOOLEAN

PlacesOK ==
    /\ mpc \in BeforeDrain \union Ended \union
               {"default", "left", "rpcjoin", "timerstop", "force", "join",
                "return"}
    /\ cpc \in {"none", "loop", "connect", "client", "recv", "retest", "exit"}
    /\ rpc \in {"off", "idle", "check", "store"}
    /\ ppc \in {"idle", "woken", "ping", "stale", "check", "store", "pop"}
    /\ kpc \in {"idle", "busy"} /\ fpc \in {"idle", "wake"}
    /\ world \in {"lively", "silent", "blocked"}
    /\ pend \subseteq StopSigs \union {"SIGALRM"}
    /\ fwd \in StopSigs \union {None}
    /\ HeartBeat \in 0..(MaxMissed + 1) /\ since \in 0..2

TypeOK == FlagsOK /\ PlacesOK

\* A stop signal that can still reach the main thread after the drain is known
\* to be late.
LateInv ==
    /\ fwd # None /\ fwd \in StopSigs /\ mpc \notin BeforeDrain \union Ended
          => late
    /\ mpc = "default" /\ pend \intersect StopSigs # {} => late
    /\ mpc = "killed" => late

\* Which threads can be at work in which phase of main().
Unstarted == {"boot", "ctor", "starting", "failed"}
Finishing == {"force", "join", "return"}
PhaseInv ==
    /\ j => cpc \in {"client", "recv"}
    /\ mpc \in Unstarted \union {"xmpp"} => cpc = "none"
    /\ mpc \in Unstarted \union {"timerstop"} \union Finishing => rpc = "off"
    /\ rpc = "off" => fpc = "idle"
    /\ mpc \in Unstarted \union {"xmpp", "ready"} \union Finishing => ~tick
    /\ mpc = "return" => cpc \in {"none", "exit"}

\* A client that passed the test for the wish to be offline is the only one.
OfflineInv ==
    /\ ~ondemand => since = 0
    /\ cpc = "connect" => since = 0
    /\ OfflineHolds

IInv == TypeOK /\ LateInv /\ PhaseInv /\ OfflineInv /\ ReturnedIsQuiet
=============================================================================
