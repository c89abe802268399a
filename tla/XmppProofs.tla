----------------------------- MODULE XmppProofs -----------------------------
(***************************************************************************)
(* The XMPP proxy.                                                         *)
(*                                                                         *)
(* Its life (XmppLife), for any stop signals and number of missed pings:   *)
(* main() returns only when everything is quiet, only a late signal kills  *)
(* the service, and a user who is offline stays offline.                   *)
(*                                                                         *)
(* Its chat side (XmppBot), for any number of messages and faults: a       *)
(* queued command is not forgotten, who is told that a task is done asked  *)
(* for it, and the list and the file of subscriptions are what was wanted  *)
(* (with the exceptions that module states).                               *)
(***************************************************************************)
EXTENDS XmppLife, XmppBot, ChainLemmas

-----------------------------------------------------------------------------
(* The life of the process: XmppLife                                       *)

USE DEF baseVars, lifeVars, restVars, linkVars, wishVars, signalVars, timerVars,
        BeforeDrain, Ended, None

\* A part of the invariant whose variables a step leaves alone still holds.
LEMMA Frame ==
  ASSUME IInv
  PROVE  /\ UNCHANGED <<flag, asked, late, armed, stoptimer, tick, j,
                        connected, request, forced, ondemand>>
              => FlagsOK'
         /\ UNCHANGED <<mpc, cpc, rpc, ppc, kpc, fpc, world, pend, fwd,
                        HeartBeat, since>>
              => PlacesOK'
         /\ UNCHANGED <<fwd, mpc, pend, late>>
              => LateInv'
         /\ UNCHANGED <<j, cpc, mpc, rpc, fpc, tick>>
              => PhaseInv'
         /\ UNCHANGED <<ondemand, since, cpc>>
              => OfflineInv'
         /\ UNCHANGED <<mpc, cpc, j, tick, rpc, fpc, ppc, kpc>>
              => ReturnedIsQuiet'
<1> USE DEF IInv
<1>1. UNCHANGED <<flag, asked, late, armed, stoptimer, tick, j, connected,
                 request, forced, ondemand>>
        => FlagsOK'
  BY DEF TypeOK, FlagsOK
<1>2. UNCHANGED <<mpc, cpc, rpc, ppc, kpc, fpc, world, pend, fwd, HeartBeat,
                 since>>
        => PlacesOK'
  BY DEF TypeOK, PlacesOK
<1>3. UNCHANGED <<fwd, mpc, pend, late>>
        => LateInv'
  BY DEF LateInv
<1>4. UNCHANGED <<j, cpc, mpc, rpc, fpc, tick>>
        => PhaseInv'
  BY DEF PhaseInv, Unstarted, Finishing
<1>5. UNCHANGED <<ondemand, since, cpc>>
        => OfflineInv'
  BY DEF OfflineInv, OfflineHolds
<1>6. UNCHANGED <<mpc, cpc, j, tick, rpc, fpc, ppc, kpc>>
        => ReturnedIsQuiet'
  BY DEF ReturnedIsQuiet
<1> QED  BY <1>1, <1>2, <1>3, <1>4, <1>5, <1>6

\* The constructor installs the handlers: the invariant is kept.
LEMMA InstallForwardersStep ==
  ASSUME IInv, Alive, InstallForwarders, UNCHANGED lifeVars PROVE IInv'
<1> USE DEF IInv, TypeOK, Alive, InstallForwarders
<1>1. PlacesOK'
  BY MissedAssumption DEF PlacesOK
<1>2. LateInv'
  BY StopSigsAssumption DEF LateInv
<1>3. PhaseInv'
  BY DEF PhaseInv, Unstarted, Finishing
<1>4. ReturnedIsQuiet'
  BY DEF PhaseInv, ReturnedIsQuiet, Unstarted, Finishing
<1> QED  BY <1>1, <1>2, <1>3, <1>4, Frame

\* The constructor clears the flags: the invariant is kept.
LEMMA ClearFlagsStep ==
  ASSUME IInv, Alive, ClearFlags, UNCHANGED lifeVars PROVE IInv'
<1> USE DEF IInv, TypeOK, Alive, ClearFlags
<1>1. FlagsOK'
  BY DEF FlagsOK
<1>2. PlacesOK'
  BY MissedAssumption DEF PlacesOK
<1>3. LateInv'
  BY StopSigsAssumption DEF LateInv
<1>4. PhaseInv'
  BY DEF PhaseInv, Unstarted, Finishing
<1>5. ReturnedIsQuiet'
  BY DEF PhaseInv, ReturnedIsQuiet, Unstarted, Finishing
<1> QED  BY <1>1, <1>2, <1>3, <1>4, <1>5, Frame

\* wait_for_exit_signal() begins: the invariant is kept.
LEMMA EnterWaitStep ==
  ASSUME IInv, Alive, EnterWait, UNCHANGED lifeVars PROVE IInv'
<1> USE DEF IInv, TypeOK, Alive, EnterWait, Waiting
<1>1. FlagsOK'
  BY DEF FlagsOK
<1>2. PlacesOK'
  BY MissedAssumption DEF PlacesOK
<1>3. LateInv'
  BY StopSigsAssumption DEF LateInv
<1>4. PhaseInv'
  BY DEF PhaseInv, Unstarted, Finishing
<1>5. ReturnedIsQuiet'
  BY DEF PhaseInv, ReturnedIsQuiet, Unstarted, Finishing
<1> QED  BY <1>1, <1>2, <1>3, <1>4, <1>5, Frame

\* allow_forced_termination() takes what is pending: the invariant is kept.
LEMMA DrainStep ==
  ASSUME IInv, Alive, Drain, UNCHANGED lifeVars PROVE IInv'
<1> USE DEF IInv, TypeOK, Alive, Drain
<1>1. FlagsOK'
  BY DEF FlagsOK
<1>2. PlacesOK'
  BY MissedAssumption DEF PlacesOK
<1>3. LateInv'
  BY StopSigsAssumption DEF LateInv
<1>4. PhaseInv'
  BY DEF PhaseInv, Unstarted, Finishing
<1>5. ReturnedIsQuiet'
  BY DEF PhaseInv, ReturnedIsQuiet, Unstarted, Finishing
<1> QED  BY <1>1, <1>2, <1>3, <1>4, <1>5, Frame

\* allow_forced_termination() unblocks the signals: the invariant is kept.
LEMMA UnblockStep ==
  ASSUME IInv, Alive, Unblock, UNCHANGED lifeVars PROVE IInv'
<1> USE DEF IInv, TypeOK, Alive, Unblock
<1>1. PlacesOK'
  BY MissedAssumption DEF PlacesOK
<1>2. LateInv'
  BY StopSigsAssumption DEF LateInv
<1>3. PhaseInv'
  BY DEF PhaseInv, Unstarted, Finishing
<1>4. ReturnedIsQuiet'
  BY DEF PhaseInv, ReturnedIsQuiet, Unstarted, Finishing
<1> QED  BY <1>1, <1>2, <1>3, <1>4, Frame

\* The timer is stopped: the invariant is kept.
LEMMA TimerStopStep ==
  ASSUME IInv, Alive, TimerStop, UNCHANGED lifeVars PROVE IInv'
<1> USE DEF IInv, TypeOK, Alive, TimerStop
<1>1. FlagsOK'
  BY DEF FlagsOK
<1>2. PlacesOK'
  BY MissedAssumption DEF PlacesOK
<1>3. LateInv'
  BY StopSigsAssumption DEF LateInv
<1>4. PhaseInv'
  BY DEF PhaseInv, Unstarted, Finishing
<1>5. ReturnedIsQuiet'
  BY DEF PhaseInv, ReturnedIsQuiet, Unstarted, Finishing
<1> QED  BY <1>1, <1>2, <1>3, <1>4, <1>5, Frame

\* The RPC server starts, or its port is busy: the invariant is kept.
LEMMA StartRpcStep ==
  ASSUME IInv, Alive, StartRpc PROVE IInv'
<1> USE DEF IInv, TypeOK, Alive, StartRpc, Main
<1>1. PlacesOK'
  BY MissedAssumption DEF PlacesOK
<1>2. LateInv'
  BY StopSigsAssumption DEF LateInv
<1>3. PhaseInv'
  BY DEF PhaseInv, Unstarted, Finishing
<1>4. ReturnedIsQuiet'
  BY DEF PhaseInv, ReturnedIsQuiet, Unstarted, Finishing
<1> QED  BY <1>1, <1>2, <1>3, <1>4, Frame

\* The XMPP thread starts, or there is no account: the invariant is kept.
LEMMA StartXmppStep ==
  ASSUME IInv, Alive, StartXmpp PROVE IInv'
<1> USE DEF IInv, TypeOK, Alive, StartXmpp, Main
<1>1. PlacesOK'
  BY MissedAssumption DEF PlacesOK
<1>2. LateInv'
  BY StopSigsAssumption DEF LateInv
<1>3. PhaseInv'
  BY DEF PhaseInv, Unstarted, Finishing
<1>4. OfflineInv'
  BY DEF PlacesOK, OfflineInv, OfflineHolds
<1>5. ReturnedIsQuiet'
  BY DEF PhaseInv, ReturnedIsQuiet, Unstarted, Finishing
<1> QED  BY <1>1, <1>2, <1>3, <1>4, <1>5, Frame

\* The RPC server takes no more requests: the invariant is kept.
LEMMA StopReceivingStep ==
  ASSUME IInv, Alive, StopReceiving PROVE IInv'
<1> USE DEF IInv, TypeOK, Alive, StopReceiving, Main
<1>1. PlacesOK'
  BY MissedAssumption DEF PlacesOK
<1>2. LateInv'
  BY StopSigsAssumption DEF LateInv
<1>3. PhaseInv'
  BY DEF PhaseInv, Unstarted, Finishing
<1>4. ReturnedIsQuiet'
  BY DEF PhaseInv, ReturnedIsQuiet, Unstarted, Finishing
<1> QED  BY <1>1, <1>2, <1>3, <1>4, Frame

\* The handlers and tasks are joined: the invariant is kept.
LEMMA JoinRpcStep ==
  ASSUME IInv, Alive, JoinRpc PROVE IInv'
<1> USE DEF IInv, TypeOK, Alive, JoinRpc, Main
<1>1. PlacesOK'
  BY MissedAssumption DEF PlacesOK
<1>2. LateInv'
  BY StopSigsAssumption DEF LateInv
<1>3. PhaseInv'
  BY DEF PhaseInv, Unstarted, Finishing
<1>4. ReturnedIsQuiet'
  BY DEF PhaseInv, ReturnedIsQuiet, Unstarted, Finishing
<1> QED  BY <1>1, <1>2, <1>3, <1>4, Frame

\* XmpManager.Stop() sets the forced mark: the invariant is kept.
LEMMA SetForcedStep ==
  ASSUME IInv, Alive, SetForced PROVE IInv'
<1> USE DEF IInv, TypeOK, Alive, SetForced, Main
<1>1. FlagsOK'
  BY DEF FlagsOK
<1>2. PlacesOK'
  BY MissedAssumption DEF PlacesOK
<1>3. LateInv'
  BY StopSigsAssumption DEF LateInv
<1>4. PhaseInv'
  BY DEF PhaseInv, Unstarted, Finishing
<1>5. ReturnedIsQuiet'
  BY DEF PhaseInv, ReturnedIsQuiet, Unstarted, Finishing
<1> QED  BY <1>1, <1>2, <1>3, <1>4, <1>5, Frame

\* The XMPP thread is joined or given up: the invariant is kept.
LEMMA JoinClientStep ==
  ASSUME IInv, Alive, JoinClient PROVE IInv'
<1> USE DEF IInv, TypeOK, Alive, JoinClient, Main, ClientDone
<1>1. PlacesOK'
  BY MissedAssumption DEF PlacesOK
<1>2. LateInv'
  BY StopSigsAssumption DEF LateInv
<1>3. PhaseInv'
  BY DEF PhaseInv, Unstarted, Finishing
<1>4. ReturnedIsQuiet'
  BY DEF PhaseInv, ReturnedIsQuiet, Unstarted, Finishing
<1> QED  BY <1>1, <1>2, <1>3, <1>4, Frame

\* A command ends while main() waits for it: the invariant is kept.
LEMMA CommandDoneStep ==
  ASSUME IInv, Alive, CommandDone PROVE IInv'
<1> USE DEF IInv, TypeOK, Alive, CommandDone
<1>1. PlacesOK'
  BY MissedAssumption DEF PlacesOK
<1>2. LateInv'
  BY StopSigsAssumption DEF LateInv
<1>3. PhaseInv'
  BY DEF PhaseInv, Unstarted, Finishing
<1>4. ReturnedIsQuiet'
  BY DEF PhaseInv, ReturnedIsQuiet, Unstarted, Finishing
<1> QED  BY <1>1, <1>2, <1>3, <1>4, Frame

\* The destructors join the command and the ping thread: the invariant is kept.
LEMMA DestroyStep ==
  ASSUME IInv, Alive, Destroy PROVE IInv'
<1> USE DEF IInv, TypeOK, Alive, Destroy, Main
<1>1. PlacesOK'
  BY MissedAssumption DEF PlacesOK
<1>2. LateInv'
  BY StopSigsAssumption DEF LateInv
<1>3. PhaseInv'
  BY DEF PhaseInv, Unstarted, Finishing
<1>4. ReturnedIsQuiet'
  BY DEF PhaseInv, ReturnedIsQuiet, Unstarted, Finishing
<1> QED  BY <1>1, <1>2, <1>3, <1>4, Frame

\* The client thread looks at the user's wish: the invariant is kept.
LEMMA TestOnDemandStep ==
  ASSUME IInv, Alive, TestOnDemand PROVE IInv'
<1> USE DEF IInv, TypeOK, Alive, TestOnDemand, Client
<1>1. PlacesOK'
  BY MissedAssumption DEF PlacesOK
<1>2. PhaseInv'
  BY DEF PhaseInv, Unstarted, Finishing
<1>3. OfflineInv'
  BY DEF PlacesOK, OfflineInv, OfflineHolds
<1>4. ReturnedIsQuiet'
  BY DEF PhaseInv, ReturnedIsQuiet, Unstarted, Finishing
<1> QED  BY <1>1, <1>2, <1>3, <1>4, Frame

\* connect() makes a client: the invariant is kept.
LEMMA NewClientStep ==
  ASSUME IInv, Alive, NewClient PROVE IInv'
<1> USE DEF IInv, TypeOK, Alive, NewClient, Client, AtMost
<1>1. FlagsOK'
  BY DEF FlagsOK
<1>2. PlacesOK'
  BY MissedAssumption DEF PlacesOK
<1>3. PhaseInv'
  BY DEF PhaseInv, Unstarted, Finishing
<1>4. OfflineInv'
  BY DEF PlacesOK, OfflineInv, OfflineHolds
<1>5. ReturnedIsQuiet'
  BY DEF PhaseInv, ReturnedIsQuiet, Unstarted, Finishing
<1> QED  BY <1>1, <1>2, <1>3, <1>4, <1>5, Frame

\* gloox connects or it does not: the invariant is kept.
LEMMA DialStep ==
  ASSUME IInv, Alive, Dial PROVE IInv'
<1> USE DEF IInv, TypeOK, Alive, Dial, Client, Deleted
<1>1. FlagsOK'
  BY DEF FlagsOK
<1>2. PlacesOK'
  BY MissedAssumption DEF PlacesOK
<1>3. PhaseInv'
  BY DEF PhaseInv, Unstarted, Finishing
<1>4. OfflineInv'
  BY DEF PlacesOK, OfflineInv, OfflineHolds
<1>5. ReturnedIsQuiet'
  BY DEF PhaseInv, ReturnedIsQuiet, Unstarted, Finishing
<1> QED  BY <1>1, <1>2, <1>3, <1>4, <1>5, Frame

\* recv() returned: the invariant is kept.
LEMMA RecvStep ==
  ASSUME IInv, Alive, Recv PROVE IInv'
<1> USE DEF IInv, TypeOK, Alive, Recv, RecvThen, Client, Deleted
<1>1. FlagsOK'
  BY DEF FlagsOK
<1>2. PlacesOK'
  BY MissedAssumption DEF PlacesOK
<1>3. PhaseInv'
  BY DEF PhaseInv, Unstarted, Finishing
<1>4. OfflineInv'
  BY DEF PlacesOK, OfflineInv, OfflineHolds
<1>5. ReturnedIsQuiet'
  BY DEF PhaseInv, ReturnedIsQuiet, Unstarted, Finishing
<1> QED  BY <1>1, <1>2, <1>3, <1>4, <1>5, Frame

\* The client thread looks at the forced mark: the invariant is kept.
LEMMA TestForcedStep ==
  ASSUME IInv, Alive, TestForced PROVE IInv'
<1> USE DEF IInv, TypeOK, Alive, TestForced, Client
<1>1. PlacesOK'
  BY MissedAssumption DEF PlacesOK
<1>2. PhaseInv'
  BY DEF PhaseInv, Unstarted, Finishing
<1>3. OfflineInv'
  BY DEF PlacesOK, OfflineInv, OfflineHolds
<1>4. ReturnedIsQuiet'
  BY DEF PhaseInv, ReturnedIsQuiet, Unstarted, Finishing
<1> QED  BY <1>1, <1>2, <1>3, <1>4, Frame

\* The user asks to be online: the invariant is kept.
LEMMA GoOnlineStep ==
  ASSUME IInv, Alive, GoOnline PROVE IInv'
<1> USE DEF IInv, TypeOK, Alive, GoOnline, Receiving
<1>1. FlagsOK'
  BY DEF FlagsOK
<1>2. PlacesOK'
  BY MissedAssumption DEF PlacesOK
<1>3. OfflineInv'
  BY DEF PlacesOK, OfflineInv, OfflineHolds
<1> QED  BY <1>1, <1>2, <1>3, Frame

\* The user asks to be offline: the invariant is kept.
LEMMA GoOfflineStep ==
  ASSUME IInv, Alive, GoOffline PROVE IInv'
<1> USE DEF IInv, TypeOK, Alive, GoOffline, Receiving
<1>1. FlagsOK'
  BY DEF FlagsOK
<1>2. PlacesOK'
  BY MissedAssumption DEF PlacesOK
<1>3. PhaseInv'
  BY DEF PhaseInv, Unstarted, Finishing
<1>4. OfflineInv'
  BY DEF PlacesOK, OfflineInv, OfflineHolds
<1>5. ReturnedIsQuiet'
  BY DEF PhaseInv, ReturnedIsQuiet, Unstarted, Finishing
<1> QED  BY <1>1, <1>2, <1>3, <1>4, <1>5, Frame

\* The handler disconnects: the invariant is kept.
LEMMA OfflineDisconnectStep ==
  ASSUME IInv, Alive, OfflineDisconnect PROVE IInv'
<1> USE DEF IInv, TypeOK, Alive, OfflineDisconnect, Disconnect, DiscCheck,
            DiscStore
<1>1. FlagsOK'
  BY DEF FlagsOK
<1>2. PlacesOK'
  BY MissedAssumption DEF PlacesOK
<1>3. PhaseInv'
  BY DEF PhaseInv, Unstarted, Finishing
<1>4. ReturnedIsQuiet'
  BY DEF PhaseInv, ReturnedIsQuiet, Unstarted, Finishing
<1> QED  BY <1>1, <1>2, <1>3, <1>4, Frame

\* The task of trigger_shutdown sets the flag: the invariant is kept.
LEMMA ShutdownTaskStep ==
  ASSUME IInv, Alive, ShutdownTask PROVE IInv'
<1> USE DEF IInv, TypeOK, Alive, ShutdownTask, Receiving, ForcedFlag
<1>1. FlagsOK'
  BY DEF FlagsOK
<1>2. PlacesOK'
  BY MissedAssumption DEF PlacesOK
<1>3. PhaseInv'
  BY DEF PhaseInv, Unstarted, Finishing
<1>4. ReturnedIsQuiet'
  BY DEF PhaseInv, ReturnedIsQuiet, Unstarted, Finishing
<1> QED  BY <1>1, <1>2, <1>3, <1>4, Frame

\* A tick has the server pinged: the invariant is kept.
LEMMA NotifyPingStep ==
  ASSUME IInv, Alive, NotifyPing PROVE IInv'
<1> USE DEF IInv, TypeOK, Alive, NotifyPing, TimerThread
<1>1. FlagsOK'
  BY DEF FlagsOK
<1>2. PlacesOK'
  BY MissedAssumption DEF PlacesOK
<1>3. PhaseInv'
  BY DEF PhaseInv, Unstarted, Finishing
<1>4. ReturnedIsQuiet'
  BY DEF PhaseInv, ReturnedIsQuiet, Unstarted, Finishing
<1> QED  BY <1>1, <1>2, <1>3, <1>4, Frame

\* The ping thread looks for a client: the invariant is kept.
LEMMA PingCheckStep ==
  ASSUME IInv, Alive, PingCheck PROVE IInv'
<1> USE DEF IInv, TypeOK, Alive, PingCheck
<1>1. PlacesOK'
  BY MissedAssumption DEF PlacesOK
<1>2. ReturnedIsQuiet'
  BY DEF PhaseInv, ReturnedIsQuiet, Unstarted, Finishing
<1> QED  BY <1>1, <1>2, Frame

\* The ping thread pings: the invariant is kept.
LEMMA PingClientStep ==
  ASSUME IInv, Alive, PingClient PROVE IInv'
<1> USE DEF IInv, TypeOK, Alive, PingClient, AtMost
<1>1. PlacesOK'
  BY MissedAssumption DEF PlacesOK
<1>2. LateInv'
  BY StopSigsAssumption DEF LateInv
<1>3. PhaseInv'
  BY DEF PhaseInv, Unstarted, Finishing
<1>4. ReturnedIsQuiet'
  BY DEF PhaseInv, ReturnedIsQuiet, Unstarted, Finishing
<1> QED  BY <1>1, <1>2, <1>3, <1>4, Frame

\* The ping thread gives up on the connection: the invariant is kept.
LEMMA PingDisconnectStep ==
  ASSUME IInv, Alive, PingDisconnect PROVE IInv'
<1> USE DEF IInv, TypeOK, Alive, PingDisconnect, Disconnect, DiscCheck,
            DiscStore
<1>1. FlagsOK'
  BY DEF FlagsOK
<1>2. PlacesOK'
  BY MissedAssumption DEF PlacesOK
<1>3. ReturnedIsQuiet'
  BY DEF PhaseInv, ReturnedIsQuiet, Unstarted, Finishing
<1> QED  BY <1>1, <1>2, <1>3, Frame

\* The ping thread is done: the invariant is kept.
LEMMA PingPopStep ==
  ASSUME IInv, Alive, PingPop PROVE IInv'
<1> USE DEF IInv, TypeOK, Alive, PingPop
<1>1. PlacesOK'
  BY MissedAssumption DEF PlacesOK
<1>2. ReturnedIsQuiet'
  BY DEF PhaseInv, ReturnedIsQuiet, Unstarted, Finishing
<1> QED  BY <1>1, <1>2, Frame

\* The server goes silent or blocks: the invariant is kept.
LEMMA DegradeStep ==
  ASSUME IInv, Alive, Degrade PROVE IInv'
<1> USE DEF IInv, TypeOK, Alive, Degrade
<1>1. PlacesOK'
  BY MissedAssumption DEF PlacesOK
<1> QED  BY <1>1, Frame

\* A signal that reaches the main thread is handled or stays pending, or, after
\* allow_forced_termination(), ends the process.
LEMMA OnMainEffect ==
  ASSUME IInv, Alive, NEW sig, OnMain(sig)
  PROVE  \/ /\ mpc' = "killed" /\ UNCHANGED <<flag, pend>>
            /\ sig \in StopSigs /\ mpc \notin BeforeDrain \union {"default"}
         \/ /\ UNCHANGED mpc
            /\ pend' \subseteq pend \union {sig} /\ pend \subseteq pend'
            /\ flag' \in BOOLEAN
            /\ (pend' # pend => mpc \in InWait)
BY DEF OnMain, Kill, dfl, Blocked, InWait, IInv, TypeOK, FlagsOK

\* The interval timer expires: the invariant is kept.
LEMMA TickStep ==
  ASSUME IInv, Alive, Tick, UNCHANGED lifeVars PROVE IInv'
<1> USE DEF IInv, TypeOK, Alive, Tick
<1>0. \/ /\ mpc' = "killed" /\ UNCHANGED <<flag, pend>>
         /\ "SIGALRM" \in StopSigs /\ mpc \notin BeforeDrain \union {"default"}
      \/ /\ UNCHANGED mpc /\ flag' \in BOOLEAN
         /\ pend' \subseteq pend \union {"SIGALRM"} /\ pend \subseteq pend'
  BY OnMainEffect
<1>1. FlagsOK'
  BY <1>0 DEF FlagsOK
<1>2. PlacesOK'
  BY <1>0, MissedAssumption DEF PlacesOK
<1>3. LateInv'
  BY <1>0, StopSigsAssumption DEF LateInv
<1>4. PhaseInv'
  BY <1>0 DEF PhaseInv, Unstarted, Finishing
<1>5. ReturnedIsQuiet'
  BY <1>0 DEF PhaseInv, ReturnedIsQuiet, Unstarted, Finishing
<1> QED  BY <1>1, <1>2, <1>3, <1>4, <1>5, Frame

\* forced_exit() wakes the main thread: the invariant is kept.
LEMMA ForcedWakeStep ==
  ASSUME IInv, Alive, ForcedWake, UNCHANGED lifeVars PROVE IInv'
<1> USE DEF IInv, TypeOK, Alive, ForcedWake
<1>0. \/ /\ mpc' = "killed" /\ UNCHANGED <<flag, pend>>
         /\ "SIGALRM" \in StopSigs /\ mpc \notin BeforeDrain \union {"default"}
      \/ /\ UNCHANGED mpc /\ flag' \in BOOLEAN
         /\ pend' \subseteq pend \union {"SIGALRM"} /\ pend \subseteq pend'
  BY OnMainEffect
<1>1. FlagsOK'
  BY <1>0 DEF FlagsOK
<1>2. PlacesOK'
  BY <1>0, MissedAssumption DEF PlacesOK
<1>3. LateInv'
  BY <1>0, StopSigsAssumption DEF LateInv
<1>4. PhaseInv'
  BY <1>0 DEF PhaseInv, Unstarted, Finishing
<1>5. ReturnedIsQuiet'
  BY <1>0 DEF PhaseInv, ReturnedIsQuiet, Unstarted, Finishing
<1> QED  BY <1>1, <1>2, <1>3, <1>4, <1>5, Frame

\* A signal is forwarded to the main thread: the invariant is kept.
LEMMA ForwardStep ==
  ASSUME IInv, Alive, Forward, UNCHANGED lifeVars PROVE IInv'
<1> USE DEF IInv, TypeOK, Alive, Forward
<1>0. \/ /\ mpc' = "killed" /\ UNCHANGED <<flag, pend>>
         /\ fwd \in StopSigs /\ mpc \notin BeforeDrain \union {"default"}
      \/ /\ UNCHANGED mpc /\ flag' \in BOOLEAN
         /\ pend' \subseteq pend \union {fwd} /\ pend \subseteq pend'
  BY OnMainEffect
<1>1. FlagsOK'
  BY <1>0 DEF FlagsOK
<1>2. PlacesOK'
  BY <1>0, MissedAssumption DEF PlacesOK
<1>3. LateInv'
  BY <1>0, StopSigsAssumption DEF LateInv
<1>4. PhaseInv'
  BY <1>0 DEF PhaseInv, Unstarted, Finishing
<1>5. ReturnedIsQuiet'
  BY <1>0 DEF PhaseInv, ReturnedIsQuiet, Unstarted, Finishing
<1> QED  BY <1>1, <1>2, <1>3, <1>4, <1>5, Frame

\* A stop signal arrives: the invariant is kept.
LEMMA ArriveStep ==
  ASSUME IInv, Alive, NEW sig \in StopSigs, Arrive(sig),
         UNCHANGED lifeVars
  PROVE  IInv'
<1> USE DEF IInv, TypeOK, Alive, Arrive, OnMain, Kill, dfl, Blocked, InWait
<1>1. FlagsOK'
  BY DEF FlagsOK
<1>2. PlacesOK'
  BY MissedAssumption DEF PlacesOK
<1>3. LateInv'
  BY StopSigsAssumption DEF LateInv
<1>4. PhaseInv'
  BY DEF PhaseInv, Unstarted, Finishing
<1>5. ReturnedIsQuiet'
  BY DEF PhaseInv, ReturnedIsQuiet, Unstarted, Finishing
<1> QED  BY <1>1, <1>2, <1>3, <1>4, <1>5, Frame

\* sigwaitinfo() takes a signal: the invariant is kept.
LEMMA SigWaitStep ==
  ASSUME IInv, Alive, NEW sig \in pend, SigWait(sig),
         UNCHANGED lifeVars
  PROVE  IInv'
<1> USE DEF IInv, TypeOK, Alive, SigWait, Waiting
<1>1. FlagsOK'
  BY DEF FlagsOK
<1>2. PlacesOK'
  BY MissedAssumption DEF PlacesOK
<1>3. LateInv'
  BY StopSigsAssumption DEF LateInv
<1>4. PhaseInv'
  BY DEF PhaseInv, Unstarted, Finishing
<1>5. ReturnedIsQuiet'
  BY DEF PhaseInv, ReturnedIsQuiet, Unstarted, Finishing
<1> QED  BY <1>1, <1>2, <1>3, <1>4, <1>5, Frame
-----------------------------------------------------------------------------
\* The service starts with nothing running.
LEMMA InitEstablishes ==
  ASSUME Init PROVE IInv
<1> USE DEF Init, SignalInit
<1>1. FlagsOK
  BY DEF FlagsOK
<1>2. PlacesOK
  BY MissedAssumption DEF PlacesOK
<1>3. LateInv /\ PhaseInv
  BY DEF LateInv, PhaseInv, Unstarted, Finishing
<1>4. OfflineInv /\ ReturnedIsQuiet
  BY DEF OfflineInv, OfflineHolds, ReturnedIsQuiet
<1> QED  BY <1>1, <1>2, <1>3, <1>4 DEF IInv, TypeOK

\* main() keeps the invariant.
LEMMA MainThreadStep ==
  ASSUME IInv, Alive, MainThread PROVE IInv'
<1>1. CASE StartRpc \/ StartXmpp \/ StopReceiving
  BY <1>1, StartRpcStep, StartXmppStep, StopReceivingStep
<1>2. CASE JoinRpc \/ SetForced \/ JoinClient \/ Destroy
  BY <1>2, JoinRpcStep, SetForcedStep, JoinClientStep, DestroyStep
<1>3. CASE /\ InstallForwarders \/ ClearFlags \/ EnterWait
           /\ UNCHANGED lifeVars
  BY <1>3, InstallForwardersStep, ClearFlagsStep, EnterWaitStep
<1>4. CASE Drain /\ UNCHANGED lifeVars
  BY <1>4, DrainStep
<1>5. CASE Unblock /\ UNCHANGED lifeVars
  BY <1>5, UnblockStep
<1>6. CASE TimerStop /\ UNCHANGED lifeVars
  BY <1>6, TimerStopStep
<1>7. CASE (\E sig \in pend : SigWait(sig)) /\ UNCHANGED lifeVars
  BY <1>7, SigWaitStep
<1> QED
  BY <1>1, <1>2, <1>3, <1>4, <1>5, <1>6, <1>7 DEF MainThread

\* A step of any thread, of the timer, of a sender of signals or of the server
\* keeps the invariant.
LEMMA NextStep ==
  ASSUME IInv, [Next]_vars PROVE IInv'
<1>1. CASE Alive /\ MainThread
  BY <1>1, MainThreadStep
<1>2. CASE Alive /\ ClientThread
  BY <1>2, TestOnDemandStep, NewClientStep, DialStep, RecvStep,
     TestForcedStep DEF ClientThread
<1>3. CASE Alive /\ (GoOnline \/ GoOffline)
  BY <1>3, GoOnlineStep, GoOfflineStep
<1>4. CASE Alive /\ (OfflineDisconnect \/ ShutdownTask)
  BY <1>4, OfflineDisconnectStep, ShutdownTaskStep
<1>5. CASE Alive /\ (\E sig \in StopSigs : Arrive(sig)) /\ UNCHANGED lifeVars
  BY <1>5, ArriveStep
<1>6. CASE Alive /\ (Tick \/ Forward \/ ForcedWake) /\ UNCHANGED lifeVars
  BY <1>6, TickStep, ForwardStep, ForcedWakeStep
<1>7. CASE Alive /\ NotifyPing
  BY <1>7, NotifyPingStep
<1>8. CASE Alive /\ PingThread
  BY <1>8, PingCheckStep, PingClientStep, PingDisconnectStep,
     PingPopStep DEF PingThread
<1>9. CASE Alive /\ Degrade
  BY <1>9, DegradeStep
<1>10. CASE Alive /\ CommandDone
  BY <1>10, CommandDoneStep
<1>11. CASE UNCHANGED vars
  BY <1>11, Frame DEF vars, IInv, TypeOK
<1> QED
  BY <1>1, <1>2, <1>3, <1>4, <1>5, <1>6, <1>7, <1>8, <1>9, <1>10, <1>11 DEF Next

\* The inductive invariant holds in every reachable state: which threads can be
\* at work in which phase of main(), and which signals are still under way.
THEOREM Safety == Spec => []IInv
<1>1. Init => IInv
  BY InitEstablishes
<1>2. IInv /\ [Next]_vars => IInv'
  BY NextStep
<1> QED  BY <1>1, <1>2, PTL DEF Spec

\* A stop signal kills a service that is shutting down only if it was sent
\* after the shutdown had begun: allow_forced_termination() takes every copy
\* from before, however many stop signals there are and in whatever order they
\* are sent, forwarded and handled.
THEOREM OnlyLateSignalsKill == Spec => []KilledByLaterSignal
<1>1. IInv => KilledByLaterSignal
  BY DEF IInv, LateInv, KilledByLaterSignal
<1> QED  BY <1>1, Safety, PTL

\* main() returns and destroys the objects only when the client thread, the
\* timer thread and the RPC handlers are done, at whatever point of connecting,
\* receiving or pinging the stop request found them; the process ends when
\* neither a ping nor a command is in work.
THEOREM ReturnOnlyWhenQuiet == Spec => []ReturnedIsQuiet
<1>1. IInv => ReturnedIsQuiet
  BY DEF IInv
<1> QED  BY <1>1, Safety, PTL

\* Whatever the order of set_online_status requests and the client thread's
\* tests, at most one connection is made after the user asked to be offline.
THEOREM OfflineMeansOffline == Spec => []OfflineHolds
<1>1. IInv => OfflineHolds
  BY DEF IInv, OfflineInv
<1> QED  BY <1>1, Safety, PTL
-----------------------------------------------------------------------------
(* The chat side: XmppBot                                                  *)

USE DEF chatVars, friendVars, queueVars, cmdVars, aliasVars, eventVars,
        serviceVars, doneVars, histVars

\* remove_if() only takes away.  The function kept exists, by induction on the
\* part of the list it is defined for; then its values are sequences of
\* elements of the list, by induction again.
LEMMA RemainingFacts ==
  ASSUME NEW E, NEW list \in Seq(E), NEW e
  PROVE  /\ Remaining(list, e) \in Seq(E)
         /\ Range(Remaining(list, e)) \subseteq Range(list)
<1> DEFINE Body(f, n) == IF n = 0 THEN <<>>
                         ELSE IF Matches(list[n], e) THEN f[n - 1]
                         ELSE Append(f[n - 1], list[n])
           Graph(f, m) == f = [n \in 0..m |-> Body(f, n)]
           len == Len(list)
<1>0. len \in Nat /\ DOMAIN list = 1..len
  OBVIOUS
<1>1. \A m \in Nat : \E f : Graph(f, m)
  <2> DEFINE Bad == {m \in Nat : ~\E f : Graph(f, m)}
  <2> SUFFICES ASSUME Bad # {} PROVE FALSE
    OBVIOUS
  <2>1. PICK m \in Bad : \A n \in Bad : m <= n
    <3> HIDE DEF Bad
    <3>1. Bad \subseteq Nat
      BY DEF Bad
    <3> QED  BY <3>1, NatMinimum
  <2>2. CASE m = 0
    <3> DEFINE f == [n \in 0..0 |-> <<>>]
    <3>1. \A n \in 0..0 : Body(f, n) = <<>>
      OBVIOUS
    <3>2. [n \in 0..0 |-> Body(f, n)] = f
      BY <3>1
    <3>3. Graph(f, m)
      BY <2>2, <3>2
    <3> HIDE DEF f, Graph
    <3> QED  BY <2>1, <3>3
  <2>3. CASE m # 0
    <3>1. m - 1 \in Nat /\ m - 1 \notin Bad
      <4>1. m \in Nat
        BY <2>1
      <4> HIDE DEF Bad
      <4> QED  BY <2>1, <2>3, <4>1
    <3>2. PICK f : Graph(f, m - 1)
      BY <3>1
    <3> DEFINE g == [n \in 0..m |-> IF n = m THEN Body(f, m) ELSE f[n]]
    <3>3. \A n \in 0..(m - 1) : g[n] = f[n] /\ f[n] = Body(f, n)
      <4>1. \A n \in 0..(m - 1) : f[n] = Body(f, n)
        <5> HIDE DEF Body
        <5> QED  BY <3>2
      <4>2. \A n \in 0..(m - 1) : n \in 0..m /\ n # m
        BY <2>1
      <4>3. \A n \in 0..(m - 1) : g[n] = f[n]
        <5> HIDE DEF Body
        <5> QED  BY <4>2
      <4> QED  BY <4>1, <4>3
    <3>4. \A n \in 0..m : Body(g, n) = Body(f, n)
      <4> HIDE DEF g
      <4> SUFFICES ASSUME NEW n \in 0..m PROVE Body(g, n) = Body(f, n)
        OBVIOUS
      <4>1. CASE n = 0
        BY <4>1
      <4>2. CASE n # 0
        <5>1. n - 1 \in 0..(m - 1)
          BY <2>1, <4>2
        <5>2. g[n - 1] = f[n - 1]
          BY <3>3, <5>1
        <5> QED  BY <4>2, <5>2
      <4> QED  BY <4>1, <4>2
    <3>5. \A n \in 0..m : g[n] = Body(g, n)
      <4> SUFFICES ASSUME NEW n \in 0..m PROVE g[n] = Body(g, n)
        OBVIOUS
      <4>1. CASE n = m
        <5>1. g[n] = Body(f, n)
          <6> HIDE DEF Body
          <6> QED  BY <4>1
        <5> HIDE DEF g, Body
        <5> QED  BY <3>4, <5>1
      <4>2. CASE n # m
        <5>1. n \in 0..(m - 1)
          BY <2>1, <4>2
        <5> HIDE DEF g, Body
        <5> QED  BY <3>3, <3>4, <5>1
      <4> QED  BY <4>1, <4>2
    <3>6. Graph(g, m)
      <4> HIDE DEF Body
      <4>1. g = [n \in 0..m |-> g[n]]
        OBVIOUS
      <4> HIDE DEF g
      <4> QED  BY <3>5, <4>1
    <3> HIDE DEF g, Graph
    <3> QED  BY <2>1, <3>6
  <2> QED  BY <2>2, <2>3
<1> DEFINE kept == CHOOSE f : Graph(f, len)
<1>2. Remaining(list, e) = kept[len]
  BY DEF Remaining
<1>3. Graph(kept, len)
  <2> HIDE DEF Graph
  <2> QED  BY <1>0, <1>1
<1>4. \A n \in 0..len : kept[n] = Body(kept, n)
  <2> HIDE DEF kept, Body
  <2> QED  BY <1>3
<1> HIDE DEF kept, Graph
<1> DEFINE Fine(x) == x \in Seq(E) /\ Range(x) \subseteq Range(list)
           Bad == {n \in 0..len : ~Fine(kept[n])}
<1>5. Bad = {}
  <2> SUFFICES ASSUME Bad # {} PROVE FALSE
    OBVIOUS
  <2>1. PICK n \in Bad : \A k \in Bad : n <= k
    <3>1. Bad \subseteq Nat
      BY <1>0
    <3> HIDE DEF Bad
    <3> QED  BY <3>1, NatMinimum
  <2>2. n \in 0..len /\ ~Fine(kept[n])
    BY <2>1
  <2>3. CASE n = 0
    <3>1. kept[n] = <<>>
      BY <1>0, <1>4, <2>2, <2>3
    <3>2. Fine(<<>>)
      BY DEF Range
    <3> QED  BY <2>2, <3>1, <3>2
  <2>4. CASE n # 0
    <3>1. n - 1 \in 0..len /\ n \in 1..len
      BY <1>0, <2>2, <2>4
    <3>2. Fine(kept[n - 1])
      <4>1. n - 1 \notin Bad
        BY <2>1, <2>2
      <4> HIDE DEF Fine
      <4> QED  BY <3>1, <4>1
    <3>3. kept[n] = kept[n - 1] \/ kept[n] = Append(kept[n - 1], list[n])
      BY <1>4, <2>2, <2>4
    <3>4. list[n] \in E /\ list[n] \in Range(list)
      BY <1>0, <3>1 DEF Range
    <3>5. Fine(Append(kept[n - 1], list[n]))
      <4>1. /\ Append(kept[n - 1], list[n]) \in Seq(E)
            /\ Range(Append(kept[n - 1], list[n])) =
                  Range(kept[n - 1]) \cup {list[n]}
        BY <3>2, <3>4, PutRange
      <4> QED  BY <3>2, <3>4, <4>1
    <3> HIDE DEF Fine
    <3> QED  BY <2>2, <3>2, <3>3, <3>5
  <2> QED  BY <2>3, <2>4
<1>6. Fine(kept[len])
  <2>1. len \in 0..len /\ len \notin Bad
    BY <1>0, <1>5
  <2> HIDE DEF Fine
  <2> QED  BY <2>1
<1> QED  BY <1>2, <1>6

\* find_if(): a place of the list that matches, if there is one.
LEMMA FirstFacts ==
  ASSUME NEW E, NEW list \in Seq(E), NEW e, NEW first,
         first = FindAsyncEventEntry(list, e), first # 0
  PROVE  first \in DOMAIN list /\ Matches(list[first], e)
<1> DEFINE K == {i \in 1..Len(list) : Matches(list[i], e)}
<1>0. Len(list) \in Nat /\ DOMAIN list = 1..Len(list)
  OBVIOUS
<1>1. K # {} /\ first = Min(K)
  BY DEF FindAsyncEventEntry, SelectInSeq
<1>2. PICK k \in K : \A i \in K : k <= i
  <2>1. K \subseteq Nat
    BY <1>0
  <2> HIDE DEF K
  <2> QED  BY <1>1, <2>1, NatMinimum
<1>3. Min(K) \in K
  <2> HIDE DEF K
  <2> QED  BY <1>2 DEF Min
<1> QED  BY <1>0, <1>1, <1>3

\* The commands of this instance: an event command changes a subscription, and
\* what starts a task starts it in one of the two services.
LEMMA CommandFacts ==
  ASSUME parts \in Seq(Phrase), parts # <<>>
  PROVE  /\ Part \in Phrase
         /\ IsEvent(Part) => Does.do = "event"
         /\ Does.do = "start" => Does.port \in Services
<1>1. Part \in Phrase
  BY DEF Part
<1>2. IsEvent(Part) => Does.do = "event"
  BY DEF Does, proc_cmd_event_gpio, Command, Local
<1>3. ASSUME Does.do = "start" PROVE Does.port \in Services
  <2>1. ~IsEvent(Part)
    BY <1>2, <1>3
  <2>2. Does = ResolveCmdStr(Part.name, Part.words, is_admin_user(sender))
    BY <2>1 DEF Does
  <2>3. Part.name \in {"identify", "smsupdate", "reboot", "event_on",
           "event_off", "acceptbuddy", "rejectbuddy", "buddylist", "lamp",
           "alias_set", "alias_delete", "version"}
    <3>1. CASE Part \in Chat
      BY <3>1 DEF Chat, Word
    <3>2. ASSUME NEW k \in DOMAIN Expansion, Part = Expansion[k]
          PROVE  Part.name \in {"identify", "version"}
      BY <3>2 DEF Expansion, Word
    <3> QED  BY <1>1, <3>1, <3>2 DEF Phrase
  <2>4. PICK name, words : name = Part.name /\ words = Part.words
    OBVIOUS
  <2>5. /\ Commands.identify = proc_cmd_devident
        /\ Commands.smsupdate = proc_cmd_sms_list_update
        /\ Commands.reboot = proc_cmd_fmw_reboot
        /\ Commands.acceptbuddy = proc_cmd_buddy_add
        /\ Commands.rejectbuddy = proc_cmd_buddy_remove
        /\ Commands.buddylist = proc_cmd_buddy_list
        /\ Commands.version = proc_cmd_fmw_get_version
    BY DEF Commands
  <2>6. {"event_on", "event_off", "lamp", "alias_set", "alias_delete"}
           \intersect DOMAIN Commands = {}
    BY DEF Commands
  <2>7. \A r : Refuses(r).do # "start"
    BY DEF Refuses
  <2>8. name \in DOMAIN Commands /\ Does \in {Commands[name].few, Commands[name].many}
    BY <1>3, <2>2, <2>4, <2>7 DEF ResolveCmdStr
  <2> USE DEF Always, With, Command, AdminOnly, Asks, Local, LinkOp, Begins,
              StartsTask, Services
  <2>9. CASE name = "identify"
    BY <2>5, <2>8, <2>9 DEF proc_cmd_devident
  <2>10. CASE name = "smsupdate"
    BY <2>5, <2>8, <2>10 DEF proc_cmd_sms_list_update
  <2>11. CASE name = "reboot"
    BY <2>5, <2>8, <2>11 DEF proc_cmd_fmw_reboot
  <2>12. CASE name = "acceptbuddy"
    BY <1>3, <2>5, <2>8, <2>12 DEF proc_cmd_buddy_add
  <2>13. CASE name = "rejectbuddy"
    BY <1>3, <2>5, <2>8, <2>13 DEF proc_cmd_buddy_remove
  <2>14. CASE name = "buddylist"
    BY <1>3, <2>5, <2>8, <2>14 DEF proc_cmd_buddy_list
  <2>15. CASE name = "version"
    BY <1>3, <2>5, <2>8, <2>15 DEF proc_cmd_fmw_get_version
  <2> QED  BY <2>3, <2>4, <2>6, <2>8, <2>9, <2>10, <2>11, <2>12, <2>13, <2>14,
              <2>15
<1> QED  BY <1>1, <1>2, <1>3
-----------------------------------------------------------------------------
(* No command is stranded                                                  *)

\* Every step keeps it: a command is queued before the wakeup, and the command
\* thread goes idle only with an empty queue.
LEMMA StrandedStep == NothingStranded /\ [BotNext]_botVars => NothingStranded'
<1> SUFFICES ASSUME NothingStranded, [BotNext]_botVars PROVE NothingStranded'
  OBVIOUS
<1> USE DEF NothingStranded
<1>1. CASE UNCHANGED botVars
  BY <1>1 DEF botVars
<1>2. ASSUME NEW u \in Users, Keep(u) \/ Befriend(u) \/ Unfriend(u)
      PROVE  NothingStranded'
  BY <1>2 DEF Keep, Befriend, Unfriend
<1>3. ASSUME NEW u \in Users, NEW m \in Chat, Queue(u, m) PROVE NothingStranded'
  BY <1>3 DEF Queue
<1>4. CASE WakeUp \/ Connected \/ Disconnected
  BY <1>4 DEF WakeUp, Connected, Disconnected
<1>5. CASE CommandThread
  <2>1. CASE Start \/ Pop
    BY <2>1 DEF Start, Pop
  <2>2. CASE Alias \/ AliasSaved \/ Answer \/ InsertTask \/ FileFails
               \/ ExtendEventSubscrList \/ TruncateEventSubscrList
               \/ ChangeFriends
    BY <2>2 DEF Alias, AliasSaved, Answer, InsertTask, FileFails,
                ExtendEventSubscrList, TruncateEventSubscrList, ChangeFriends, Cmd
  <2>3. CASE StartTask
    BY <2>3 DEF StartTask, Cmd
  <2>4. CASE ChangeEvent
    BY <2>4 DEF ChangeEvent, Cmd
  <2>5. CASE RewriteEventSubscrList \/ Reply
    BY <2>5 DEF RewriteEventSubscrList, Reply
  <2>6. CASE UseLink
    BY <2>6 DEF UseLink, Restarts, Cmd
  <2> QED  BY <1>5, <2>1, <2>2, <2>3, <2>4, <2>5, <2>6 DEF CommandThread
<1>6. CASE ReplyCrashes \/ TellDoneCrashes \/ GpioEvent \/ Crash
  BY <1>6 DEF ReplyCrashes, TellDoneCrashes, GpioEvent, Crash, Restarts
<1>7. ASSUME NEW t \in running, TaskDone(t) PROVE NothingStranded'
  BY <1>7 DEF TaskDone
<1>8. ASSUME NEW s \in Services, ServiceRestarts(s) \/ ResetTaskIdAndChain(s)
      PROVE  NothingStranded'
  BY <1>8 DEF ServiceRestarts, ResetTaskIdAndChain, CountsAnew
<1>9. ASSUME NEW e \in flying, ReceiveDone(e) PROVE NothingStranded'
  BY <1>9 DEF ReceiveDone
<1>10. CASE TellDone \/ EmptyInbox \/ RpcAccept
  BY <1>10 DEF TellDone, EmptyInbox, RpcAccept
<1> QED  BY <1>1, <1>2, <1>3, <1>4, <1>5, <1>6, <1>7, <1>8, <1>9, <1>10
         DEF BotNext

\* A queued command is never forgotten by the command thread: it is at work,
\* has a wakeup, or the XMPP thread is about to give it one.
THEOREM NoCommandIsStranded == BotSpec => []NothingStranded
<1>1. BotInit => NothingStranded
  BY DEF BotInit, NothingStranded
<1> QED  BY <1>1, StrandedStep, PTL DEF BotSpec
-----------------------------------------------------------------------------
(* What a step leaves alone                                                *)

Subscribed == EventTypeOK /\ FileInv /\ SenderInv /\ SubscriptionsKept
Owned == TaskTypeOK /\ ClaimsInv

\* The command thread's own state.
LEMMA CmdFrame ==
  CmdInv /\ UNCHANGED <<processCmd, pc, parts, sender>> => CmdInv'
BY DEF CmdInv, Part

\* The list and the file of subscriptions.
LEMMA SameList ==
  ASSUME UNCHANGED myEventList
  PROVE  \A u : /\ Entry(u)' = Entry(u)
                /\ InList(u)' <=> InList(u)
                /\ Once(u)' <=> Once(u)
BY DEF Entry, InList, Once

LEMMA SameFile ==
  ASSUME UNCHANGED eventFile PROVE \A u : InFile(u)' <=> InFile(u)
BY DEF InFile

\* What both say of the users.
LEMMA SameSubscriptions ==
  ASSUME SubscriptionsKept, UNCHANGED <<myEventList, eventFile, wish, saved>>
  PROVE  SubscriptionsKept'
BY SameList, SameFile DEF SubscriptionsKept

\* What has been done for the sender of the command.
LEMMA SameSender ==
  ASSUME SenderInv, UNCHANGED <<myEventList, parts, sender>>,
         \/ pc' = pc
         \/ /\ pc \in {"truncate", "rewrite", "extend"}
            /\ pc' \in {"rewrite", "reply"}
  PROVE  SenderInv'
BY DEF SenderInv, InList, Entry, Once, Part, IsEvent

\* The subscriptions.
LEMMA EventFrame ==
  Subscribed /\ UNCHANGED <<eventVars, pc, parts, sender>> => Subscribed'
<1> SUFFICES ASSUME Subscribed, UNCHANGED <<eventVars, pc, parts, sender>>
             PROVE  Subscribed'
  OBVIOUS
<1>1. EventTypeOK'
  BY DEF Subscribed, EventTypeOK
<1>2. FileInv'
  BY DEF Subscribed, FileInv, InFile, Entry
<1>3. SenderInv' /\ SubscriptionsKept'
  BY SameSender, SameSubscriptions DEF Subscribed
<1> QED  BY <1>1, <1>2, <1>3 DEF Subscribed

\* The tasks.
LEMMA TaskFrame ==
  Owned /\ UNCHANGED <<AsyncTaskList, serviceVars, pc, task, sender>> => Owned'
<1> SUFFICES ASSUME Owned,
                    UNCHANGED <<AsyncTaskList, serviceVars, pc, task, sender>>
             PROVE  Owned'
  OBVIOUS
<1>1. TaskTypeOK'
  BY DEF Owned, TaskTypeOK
<1>2. Claims' = Claims
  BY DEF Claims
<1>3. ClaimsInv'
  BY <1>2 DEF Owned, ClaimsInv
<1> QED  BY <1>1, <1>3 DEF Owned

\* Steps of the command thread that have nothing to do with subscriptions.
LEMMA EventsQuiet ==
  ASSUME Subscribed, UNCHANGED eventVars,
         pc' \notin {"truncate", "rewrite", "extend"},
         pc' = "reply" => ~IsEvent(Part)'
  PROVE  Subscribed'
<1>1. EventTypeOK'
  BY DEF Subscribed, EventTypeOK
<1>2. FileInv' /\ SenderInv'
  BY DEF FileInv, SenderInv
<1>3. SubscriptionsKept'
  BY SameSubscriptions DEF Subscribed
<1> QED  BY <1>1, <1>2, <1>3 DEF Subscribed

\* What says that a number is a task of somebody.
Claimed(c) ==
    \/ c \in running \/ c \in flying
    \/ \E k \in DOMAIN AsyncTaskList :
         c = Claim(AsyncTaskList[k].port, AsyncTaskList[k].tid,
                   AsyncTaskList[k].gen, AsyncTaskList[k].to)
    \/ pc = "insert" /\ c = Claim(task.port, task.tid, task.gen, sender)

\* The same as membership of Claims, before and after a step.
LEMMA ClaimCases ==
  /\ \A c : c \in Claims <=> Claimed(c)
  /\ \A c : c \in Claims' <=> Claimed(c)'
<1>1. ASSUME NEW c PROVE c \in Claims <=> Claimed(c)
  BY DEF Claims, Claimed
<1>2. ASSUME NEW c PROVE c \in Claims' <=> Claimed(c)'
  BY DEF Claims, Claimed
<1> QED  BY <1>1, <1>2

\* Fewer claims still agree.
LEMMA ClaimsShrink ==
  ASSUME ClaimsInv, Claims' \subseteq Claims, UNCHANGED <<next, epoch>>
  PROVE  ClaimsInv'
BY DEF ClaimsInv

\* Steps of the command thread that have nothing to do with tasks.
LEMMA TasksQuiet ==
  ASSUME Owned, UNCHANGED <<AsyncTaskList, serviceVars>>, pc' # "insert"
  PROVE  Owned'
<1>1. TaskTypeOK'
  BY DEF Owned, TaskTypeOK
<1>2. Claims' \subseteq Claims
  <2> SUFFICES ASSUME NEW c \in Claims' PROVE c \in Claims
    OBVIOUS
  <2>1. Claimed(c)'
    BY ClaimCases
  <2>2. Claimed(c)
    BY <2>1 DEF Claimed
  <2> QED  BY <2>2, ClaimCases
<1>3. ClaimsInv'
  BY <1>2, ClaimsShrink DEF Owned
<1> QED  BY <1>1, <1>3 DEF Owned
-----------------------------------------------------------------------------
(* The XMPP thread, the RPC thread and a restart                           *)

\* The four parts of the invariant.
LEMMA BotParts ==
  /\ BotInv <=> CmdInv /\ Subscribed /\ Owned /\ CompletionIsOwn
  /\ BotInv' <=> CmdInv' /\ Subscribed' /\ Owned' /\ CompletionIsOwn'
BY DEF BotInv, Subscribed, Owned

\* Steps that leave all four alone.
LEMMA BotFrame ==
  ASSUME BotInv, UNCHANGED <<processCmd, cmdVars, eventVars, serviceVars,
                             doneVars>>
  PROVE  BotInv'
<1>1. CompletionIsOwn'
  BY BotParts DEF CompletionIsOwn
<1> QED  BY <1>1, BotParts, CmdFrame, EventFrame, TaskFrame

\* onXmppMessage() queues a command of the table by a known user.
LEMMA QueueKeeps ==
  ASSUME BotInv, NEW u \in Users, NEW m \in Chat, Queue(u, m) PROVE BotInv'
<1> USE DEF Queue
<1>1. CmdInv'
  <2>1. [msg |-> m, from |-> u] \in [msg : Chat, from : Users]
    OBVIOUS
  <2>2. processCmd' \in Seq([msg : Chat, from : Users])
    <3> DEFINE T == [msg : Chat, from : Users]
               x == [msg |-> m, from |-> u]
    <3>1. processCmd \in Seq(T) /\ x \in T /\ processCmd' = Append(processCmd, x)
      BY <2>1, BotParts DEF CmdInv
    <3>2. processCmd' \in Seq(T)
      <4> HIDE DEF T, x, Queue
      <4> QED  BY <3>1
    <3> QED  BY <3>2
  <2> QED  BY <2>2, BotParts DEF CmdInv, Part
<1>2. CompletionIsOwn'
  BY BotParts DEF CompletionIsOwn
<1> QED  BY <1>1, <1>2, BotParts, EventFrame, TaskFrame

\* The other steps of the XMPP thread, and the RPCs.
LEMMA OthersKeep ==
  ASSUME BotInv,
         \/ \E u \in Users : Keep(u) \/ Befriend(u) \/ Unfriend(u)
         \/ WakeUp \/ Connected \/ Disconnected \/ EmptyInbox \/ RpcAccept
  PROVE  BotInv'
<1>1. UNCHANGED <<processCmd, cmdVars, eventVars, serviceVars, doneVars>>
  BY DEF Keep, Befriend, Unfriend, WakeUp, Connected, Disconnected, EmptyInbox,
         RpcAccept
<1> QED  BY <1>1, BotFrame

\* Telling a user ends a completion.
LEMMA TellDoneKeeps ==
  ASSUME BotInv, TellDone PROVE BotInv'
<1> USE DEF TellDone
<1>1. CompletionIsOwn'
  BY DEF CompletionIsOwn
<1> QED  BY <1>1, BotParts, CmdFrame, EventFrame, TaskFrame

\* The subscriptions are those of the file, if it was read: for the users for
\* whom it was kept, those they wanted.  Tasks are forgotten, so fewer claim
\* one.
LEMMA RestartsKeeps ==
  ASSUME BotInv, Restarts PROVE BotInv'
<1> USE DEF Restarts
<1>1. CmdInv'
  BY DEF CmdInv, CmdPlaces, Part
<1>2. EventTypeOK /\ SubscriptionsKept
  BY BotParts DEF Subscribed
<1>3. PICK loaded \in BOOLEAN :
        /\ myEventList' = LoadEventSubscrList(loaded)
        /\ wish' = [u \in Users |-> IF Survives(u, loaded) THEN wish[u]
                                                          ELSE "unknown"]
        /\ saved' = {u \in Users : loaded \/ Survives(u, FALSE)}
  BY <1>2 DEF EventTypeOK
<1>4. EventTypeOK'
  <2>1. eventFile \in Seq(Users)
    BY <1>2 DEF EventTypeOK
  <2>2. myEventList' \in Seq([user : Users, status : BOOLEAN])
    <3> DEFINE T == [user : Users, status : BOOLEAN]
               n == Len(eventFile)
    <3>1. n \in Nat /\ DOMAIN eventFile = 1..n
      BY <2>1
    <3>2. CASE ~loaded
      BY <1>3, <3>2 DEF LoadEventSubscrList
    <3>3. CASE loaded
      <4> HIDE DEF n, Restarts
      <4>1. \A k \in 1..n : eventFile[k] \in Users
        BY <2>1, <3>1
      <4>2. myEventList' = [k \in 1..n |-> [user |-> eventFile[k], status |-> TRUE]]
        BY <1>3, <3>1, <3>3 DEF LoadEventSubscrList
      <4>3. \A k \in 1..n : myEventList'[k] \in T
        BY <4>1, <4>2
      <4>4. myEventList' = [k \in 1..n |-> myEventList'[k]]
        BY <4>2
      <4>5. myEventList' \in Seq(T)
        <5> HIDE DEF T
        <5> QED  BY ONLY <3>1, <4>3, <4>4
      <4> QED  BY <4>5
    <3> QED  BY <3>2, <3>3
  <2>3. wish' \in [Users -> {"event_on", "event_off", "busy", "unknown"}]
    BY <1>2, <1>3 DEF EventTypeOK
  <2> QED  BY <1>2, <1>3, <2>2, <2>3 DEF EventTypeOK
<1>5. ASSUME NEW u \in Users
      PROVE  /\ InFile(u)' <=> InFile(u)
             /\ InList(u)' <=> loaded /\ InFile(u)
  <2>1. CASE loaded
    <3>1. /\ DOMAIN myEventList' = DOMAIN eventFile
          /\ \A k \in DOMAIN eventFile : /\ myEventList'[k].user = eventFile[k]
                                         /\ myEventList'[k].status
      BY <1>3, <2>1 DEF LoadEventSubscrList
    <3> QED  BY <2>1, <3>1 DEF InFile, InList, Entry
  <2>2. CASE ~loaded
    <3>1. DOMAIN myEventList' = {}
      BY <1>3, <2>2 DEF LoadEventSubscrList
    <3> QED  BY <2>2, <3>1 DEF InFile, InList, Entry
  <2> QED  BY <2>1, <2>2
<1>6. SubscriptionsKept'
  <2> SUFFICES ASSUME NEW u \in Users
               PROVE  /\ wish'[u] = "event_on" => InList(u)'
                      /\ wish'[u] = "event_off" => ~InList(u)'
                      /\ u \in saved' => (InFile(u)' <=> InList(u)')
    BY DEF SubscriptionsKept
  <2>1. wish'[u] = IF Survives(u, loaded) THEN wish[u] ELSE "unknown"
    BY <1>3
  <2>2. /\ wish[u] = "event_on" /\ u \in saved => InFile(u)
        /\ wish[u] = "event_off" /\ Once(u) /\ u \in saved => ~InFile(u)
    BY <1>2 DEF SubscriptionsKept
  <2>3. u \in saved' => loaded \/ Survives(u, FALSE)
    BY <1>3
  <2> HIDE DEF Restarts
  <2> QED  BY <1>5, <2>1, <2>2, <2>3 DEF Survives
<1>7. FileInv' /\ SenderInv'
  BY DEF FileInv, SenderInv
<1>8. TaskTypeOK'
  BY BotParts DEF Owned, TaskTypeOK
<1>9. Claims' \subseteq Claims
  <2> SUFFICES ASSUME NEW c \in Claims' PROVE c \in Claims
    OBVIOUS
  <2>1. Claimed(c)'
    BY ClaimCases
  <2>2. Claimed(c)
    BY <2>1 DEF Claimed
  <2> QED  BY <2>2, ClaimCases
<1>10. ClaimsInv'
  BY <1>9, ClaimsShrink, BotParts DEF Owned
<1>11. CompletionIsOwn'
  BY DEF CompletionIsOwn
<1> QED  BY <1>1, <1>4, <1>6, <1>7, <1>8, <1>10, <1>11, BotParts
         DEF Subscribed, Owned
-----------------------------------------------------------------------------
(* The command thread                                                      *)

\* The steps that leave subscriptions and tasks alone.
LEMMA CommandKeeps ==
  ASSUME BotInv, CmdInv', UNCHANGED <<eventVars, serviceVars, doneVars>>,
         pc' \notin {"truncate", "rewrite", "extend", "insert"},
         pc' = "reply" => ~IsEvent(Part)'
  PROVE  BotInv'
<1>1. Subscribed'
  BY EventsQuiet, BotParts
<1>2. Owned'
  BY TasksQuiet, BotParts
<1>3. CompletionIsOwn'
  BY BotParts DEF CompletionIsOwn
<1> QED  BY <1>1, <1>2, <1>3, BotParts

\* A command goes on with the same sender and the same parts.
LEMMA CmdStep ==
  ASSUME CmdInv, NEW from \in CmdPlaces, NEW to \in CmdPlaces, Cmd(from, to),
         from \notin {"idle", "pop"}, to \notin {"alias", "aliasfile", "insert"}
  PROVE  CmdInv' /\ UNCHANGED Part
BY DEF Cmd, CmdInv, Part

\* pop_cmd() takes a command, which an alias may expand.
LEMMA PopKeeps ==
  ASSUME BotInv, Start \/ Pop PROVE BotInv'
<1>1. CASE Start
  <2>1. CmdInv'
    BY <1>1, BotParts DEF Start, CmdInv, CmdPlaces, Part
  <2> QED  BY <1>1, <2>1, CommandKeeps DEF Start
<1>2. CASE Pop
  <2> USE <1>2 DEF Pop
  <2>1. CASE processCmd = <<>>
    <3>1. CmdInv'
      BY <2>1, BotParts DEF CmdInv, CmdPlaces, Part
    <3> QED  BY <2>1, <3>1, CommandKeeps
  <2>2. CASE processCmd # <<>>
    <3> DEFINE h == Head(processCmd)
               m == h.msg
    <3>1. /\ h \in [msg : Chat, from : Users]
          /\ Tail(processCmd) \in Seq([msg : Chat, from : Users])
      <4> DEFINE T == [msg : Chat, from : Users]
      <4>1. processCmd \in Seq(T)
        BY BotParts DEF CmdInv
      <4>2. h \in T /\ Tail(processCmd) \in Seq(T)
        <5> HIDE DEF T, Pop
        <5> QED  BY <2>2, <4>1
      <4> QED  BY <4>2
    <3>2. m \in Chat /\ h.from \in Users
      BY <3>1
    <3> HIDE DEF h
    <3>3. /\ processCmd' = Tail(processCmd) /\ sender' = h.from
          /\ parts' = IF m.name = "lamp" /\ AliasList THEN Expansion ELSE <<m>>
          /\ pc' = IF IsAlias(m) THEN "alias" ELSE "run"
      BY <2>2 DEF h
    <3> HIDE DEF m, Pop
    <3>4. parts' \in Seq(Phrase) /\ parts' # <<>>
      <4>1. Expansion \in Seq(Phrase) /\ Expansion # <<>>
        <5>1. /\ Expansion[1] \in Phrase /\ Expansion[2] \in Phrase
              /\ DOMAIN Expansion = 1..2
          BY DEF Phrase, Expansion
        <5>2. Expansion = <<Expansion[1], Expansion[2]>>
          BY DEF Expansion
        <5>3. \A a, b \in Phrase : <<a, b>> \in Seq(Phrase) /\ <<a, b>> # <<>>
          OBVIOUS
        <5> QED  BY <5>1, <5>2, <5>3
      <4>2. <<m>> \in Seq(Phrase) /\ <<m>> # <<>>
        BY <3>2 DEF Phrase
      <4> QED  BY <3>3, <4>1, <4>2
    <3>5. IsAlias(m) => Part' = m
      BY <3>3 DEF IsAlias, Part
    <3>6. CmdInv'
      <4>1. pc' \in {"alias", "run"} /\ (pc' = "alias" => IsAlias(m))
        BY <3>3
      <4>2. IsAlias(Part)' <=> IsAlias(Part')
        BY DEF IsAlias
      <4> HIDE DEF m
      <4> QED  BY <3>1, <3>2, <3>3, <3>4, <3>5, <4>1, <4>2 DEF CmdInv, CmdPlaces
    <3> QED  BY <3>3, <3>6, CommandKeeps DEF Pop
  <2> QED  BY <2>1, <2>2
<1> QED  BY <1>1, <1>2

\* proc_cmd_alias() is no event command.
LEMMA AliasKeeps ==
  ASSUME BotInv, Alias \/ AliasSaved PROVE BotInv'
<1>1. CASE Alias
  <2>1. CmdInv'
    BY <1>1, BotParts DEF Alias, Cmd, CmdInv, CmdPlaces, Part
  <2> QED  BY <1>1, <2>1, CommandKeeps DEF Alias, Cmd
<1>2. CASE AliasSaved
  <2>1. CmdInv' /\ UNCHANGED Part
    BY <1>2, BotParts, CmdStep DEF AliasSaved, CmdPlaces
  <2>2. IsAlias(Part)
    BY <1>2, BotParts DEF AliasSaved, Cmd, CmdInv
  <2>3. ~IsEvent(Part)'
    BY <2>1, <2>2 DEF IsAlias, IsEvent
  <2> QED  BY <1>2, <2>1, <2>3, CommandKeeps DEF AliasSaved, Cmd
<1> QED  BY <1>1, <1>2

\* What is not an event command has nothing to do with subscriptions.
LEMMA AnswerKeeps ==
  ASSUME BotInv, Cmd("run", "reply"), Does.do # "event",
         UNCHANGED <<eventVars, serviceVars, doneVars>>
  PROVE  BotInv'
<1>1. CmdInv' /\ UNCHANGED Part
  BY BotParts, CmdStep DEF CmdPlaces
<1>2. ~IsEvent(Part)
  BY BotParts, CommandFacts DEF CmdInv, Cmd
<1>3. ~IsEvent(Part)'
  BY <1>1, <1>2 DEF IsEvent
<1> QED  BY <1>1, <1>3, CommandKeeps DEF Cmd

\* Commands that answer, change the buddies or use the gloox client.
LEMMA AnswersKeep ==
  ASSUME BotInv, Answer \/ ChangeFriends \/ UseLink PROVE BotInv'
<1>1. CASE Answer
  BY <1>1, AnswerKeeps DEF Answer
<1>2. CASE ChangeFriends
  BY <1>2, AnswerKeeps DEF ChangeFriends
<1>3. CASE UseLink
  BY <1>3, AnswerKeeps, RestartsKeeps DEF UseLink
<1> QED  BY <1>1, <1>2, <1>3
-----------------------------------------------------------------------------
(* The subscriptions                                                       *)

\* A step on the subscriptions leaves the rest of the invariant to the frames.
LEMMA EventStep ==
  ASSUME BotInv, NEW from \in CmdPlaces, NEW to \in CmdPlaces, Cmd(from, to),
         from \notin {"idle", "pop"}, to \notin {"alias", "aliasfile", "insert"},
         UNCHANGED <<task, serviceVars, doneVars>>, Subscribed'
  PROVE  BotInv'
<1>1. CmdInv'
  BY BotParts, CmdStep
<1>2. Owned'
  BY BotParts, TasksQuiet DEF Cmd
<1>3. CompletionIsOwn'
  BY BotParts DEF CompletionIsOwn
<1> QED  BY <1>1, <1>2, <1>3, BotParts

\* A line appended to the file adds its user.
LEMMA FileGrows ==
  ASSUME EventTypeOK, NEW v \in Users, eventFile' = Append(eventFile, v)
  PROVE  /\ eventFile' \in Seq(Users)
         /\ \A u : InFile(u)' <=> InFile(u) \/ u = v
<1>1. /\ eventFile' \in Seq(Users)
      /\ Range(eventFile') = Range(eventFile) \cup {v}
  BY PutRange DEF EventTypeOK
<1>2. \A u : /\ InFile(u) <=> u \in Range(eventFile)
             /\ InFile(u)' <=> u \in Range(eventFile')
  BY DEF InFile, Range
<1> QED  BY <1>1, <1>2

\* The places of the list and what stands there.
LEMMA ListFacts ==
  ASSUME EventTypeOK
  PROVE  /\ Len(myEventList) \in Nat
         /\ DOMAIN myEventList = 1..Len(myEventList)
         /\ \A k \in DOMAIN myEventList :
               /\ myEventList[k] \in [user : Users, status : BOOLEAN]
               /\ myEventList[k].user \in Users
               /\ myEventList[k].status \in BOOLEAN
<1> DEFINE T == [user : Users, status : BOOLEAN]
<1>1. myEventList \in Seq(T)
  BY DEF EventTypeOK
<1>2. /\ Len(myEventList) \in Nat /\ DOMAIN myEventList = 1..Len(myEventList)
      /\ \A k \in DOMAIN myEventList : myEventList[k] \in T
  <2> HIDE DEF T
  <2> QED  BY <1>1
<1> QED  BY <1>2

\* The first entry of the sender is changed; the file is still as it was.
LEMMA ChangeFirst ==
  ASSUME Subscribed, sender \in Users, UNCHANGED <<sender, parts>>,
         NEW first \in Entry(sender), pc' = "truncate",
         myEventList' = [myEventList EXCEPT ![first].status =
                           (Part.name = "event_on")],
         saved' = saved \ {sender}, wish' = [wish EXCEPT ![sender] = "busy"],
         UNCHANGED <<named, eventFile, written>>
  PROVE  Subscribed'
<1> DEFINE T == [user : Users, status : BOOLEAN]
<1>1. EventTypeOK /\ SubscriptionsKept
  BY DEF Subscribed
<1>2. first \in DOMAIN myEventList /\ myEventList[first].user = sender
  BY DEF Entry
<1>3. PICK st \in BOOLEAN : st = (Part.name = "event_on")
  OBVIOUS
<1>4. /\ DOMAIN myEventList' = DOMAIN myEventList
      /\ \A k \in DOMAIN myEventList :
           /\ myEventList'[k] \in T
           /\ myEventList'[k].user = myEventList[k].user
           /\ k # first => myEventList'[k] = myEventList[k]
      /\ myEventList'[first].status = st
  BY <1>1, <1>2, <1>3, ListFacts
<1>5. EventTypeOK'
  <2>1. myEventList' \in Seq(T)
    <3>1. myEventList' = [k \in 1..Len(myEventList) |-> myEventList'[k]]
      BY <1>1, ListFacts
    <3>2. Len(myEventList) \in Nat /\ DOMAIN myEventList = 1..Len(myEventList)
      BY <1>1, ListFacts
    <3>3. \A k \in 1..Len(myEventList) : myEventList'[k] \in T
      BY <1>4, <3>2
    <3> HIDE DEF T
    <3> QED  BY ONLY <3>1, <3>2, <3>3
  <2>2. wish' \in [Users -> {"event_on", "event_off", "busy", "unknown"}]
    BY <1>1 DEF EventTypeOK
  <2> QED  BY <1>1, <2>1, <2>2 DEF EventTypeOK
<1>6. \A u : Entry(u)' = Entry(u) /\ (Once(u)' <=> Once(u))
  BY <1>4 DEF Entry, Once
<1>7. ASSUME NEW u \in Users, u # sender PROVE InList(u)' <=> InList(u)
  <2>1. \A k \in Entry(u) : k # first /\ k \in DOMAIN myEventList
    BY <1>2, <1>7 DEF Entry
  <2> QED  BY <1>4, <1>6, <2>1 DEF InList
<1>8. SubscriptionsKept'
  <2> SUFFICES ASSUME NEW u \in Users
               PROVE  /\ wish'[u] = "event_on" => InList(u)'
                      /\ wish'[u] = "event_off" /\ Once(u)' => ~InList(u)'
                      /\ u \in saved' => (InFile(u)' <=> InList(u)')
    BY DEF SubscriptionsKept
  <2>1. CASE u = sender
    BY <1>1, <2>1 DEF EventTypeOK
  <2>2. CASE u # sender
    <3>1. wish'[u] = wish[u] /\ (u \in saved' => u \in saved)
      BY <1>1, <2>2 DEF EventTypeOK
    <3> QED  BY <1>1, <1>6, <1>7, <2>2, <3>1, SameFile DEF SubscriptionsKept
  <2> QED  BY <2>1, <2>2
<1>9. SenderInv'
  <2>1. Part' = Part /\ (IsEvent(Part)' <=> IsEvent(Part))
    BY DEF Part, IsEvent
  <2>2. \A k \in Entry(sender)' : Once(sender)' => k = first
    BY <1>6 DEF Once, Entry
  <2>3. IF st THEN InList(sender)' ELSE Once(sender)' => ~InList(sender)'
    <3>1. first \in Entry(sender)'
      BY <1>2, <1>4 DEF Entry
    <3> QED  BY <1>4, <2>2, <3>1 DEF InList
  <2> QED  BY <1>3, <2>1, <2>3 DEF SenderInv
<1>10. FileInv'
  BY DEF FileInv
<1> QED  BY <1>5, <1>8, <1>9, <1>10 DEF Subscribed

\* An entry is appended for a sender that has none.
LEMMA AddEntry ==
  ASSUME Subscribed, sender \in Users, UNCHANGED <<sender, parts>>,
         Part.name = "event_on", pc' = "extend",
         myEventList' = Append(myEventList, [user |-> sender, status |-> TRUE]),
         saved' = saved \ {sender}, wish' = [wish EXCEPT ![sender] = "busy"],
         UNCHANGED <<named, eventFile, written>>
  PROVE  Subscribed'
<1> DEFINE T == [user : Users, status : BOOLEAN]
           x == [user |-> sender, status |-> TRUE]
           n == Len(myEventList) + 1
<1>1. EventTypeOK /\ SubscriptionsKept
  BY DEF Subscribed
<1>2. x \in T /\ x.user = sender /\ x.status
  OBVIOUS
<1>3. /\ myEventList' \in Seq(T) /\ DOMAIN myEventList' = 1..n
      /\ \A k \in 1..Len(myEventList) : myEventList'[k] = myEventList[k]
      /\ myEventList'[n] = x
  <2>1. x \in T /\ myEventList' = Append(myEventList, x) /\ myEventList \in Seq(T)
    BY <1>1, <1>2 DEF EventTypeOK
  <2> HIDE DEF T, x
  <2> QED  BY <2>1
<1>4. EventTypeOK'
  <2>1. wish' \in [Users -> {"event_on", "event_off", "busy", "unknown"}]
    BY <1>1 DEF EventTypeOK
  <2> QED  BY <1>1, <1>3, <2>1 DEF EventTypeOK
<1> HIDE DEF x, n
<1>5. /\ n \in 1..n /\ n \notin DOMAIN myEventList
      /\ \A k \in 1..n : k \in DOMAIN myEventList \/ k = n
      /\ DOMAIN myEventList \subseteq 1..n
      /\ DOMAIN myEventList = 1..Len(myEventList)
  BY <1>1, ListFacts DEF n
<1>6. ASSUME NEW u \in Users, u # sender
      PROVE  /\ Entry(u)' = Entry(u)
             /\ InList(u)' <=> InList(u)
             /\ Once(u)' <=> Once(u)
  <2>1. ASSUME NEW k PROVE k \in Entry(u)' <=> k \in Entry(u)
    BY <1>2, <1>3, <1>5, <1>6 DEF Entry
  <2>2. \A k \in Entry(u) : myEventList'[k] = myEventList[k]
    BY <1>3, <1>5 DEF Entry
  <2>3. Entry(u)' = Entry(u)
    BY <2>1
  <2> QED  BY <2>2, <2>3 DEF InList, Once
<1>7. InList(sender)'
  <2>1. n \in Entry(sender)' /\ myEventList'[n].status
    BY <1>2, <1>3, <1>5 DEF Entry
  <2> QED  BY <2>1 DEF InList
<1>8. SubscriptionsKept'
  <2> SUFFICES ASSUME NEW u \in Users
               PROVE  /\ wish'[u] = "event_on" => InList(u)'
                      /\ wish'[u] = "event_off" /\ Once(u)' => ~InList(u)'
                      /\ u \in saved' => (InFile(u)' <=> InList(u)')
    BY DEF SubscriptionsKept
  <2>1. CASE u = sender
    BY <1>1, <2>1 DEF EventTypeOK
  <2>2. CASE u # sender
    <3>1. wish'[u] = wish[u] /\ (u \in saved' => u \in saved)
      BY <1>1, <2>2 DEF EventTypeOK
    <3> QED  BY <1>1, <1>6, <2>2, <3>1, SameFile DEF SubscriptionsKept
  <2> QED  BY <2>1, <2>2
<1>9. SenderInv'
  <2>1. Part' = Part
    BY DEF Part
  <2> QED  BY <1>7, <2>1 DEF SenderInv
<1>10. FileInv'
  BY DEF FileInv
<1> QED  BY <1>4, <1>8, <1>9, <1>10 DEF Subscribed

\* There is nothing to end.
LEMMA NothingToEnd ==
  ASSUME Subscribed, sender \in Users, UNCHANGED <<sender, parts>>,
         Part.name # "event_on", pc' = "reply", Entry(sender) = {},
         wish' = [wish EXCEPT ![sender] = "busy"],
         UNCHANGED <<named, myEventList, eventFile, written, saved>>
  PROVE  Subscribed'
<1>1. EventTypeOK /\ SubscriptionsKept
  BY DEF Subscribed
<1>2. EventTypeOK'
  <2>1. wish' \in [Users -> {"event_on", "event_off", "busy", "unknown"}]
    BY <1>1 DEF EventTypeOK
  <2> QED  BY <1>1, <2>1 DEF EventTypeOK
<1>3. SubscriptionsKept'
  <2>1. \A u \in Users : wish'[u] = wish[u] \/ wish'[u] = "busy"
    BY <1>1 DEF EventTypeOK
  <2> QED  BY <1>1, <2>1, SameList, SameFile DEF SubscriptionsKept
<1>4. SenderInv'
  <2>1. Part' = Part /\ Entry(sender)' = {}
    BY DEF Part, Entry
  <2> QED  BY <2>1 DEF SenderInv, InList
<1>5. FileInv'
  BY DEF FileInv
<1> QED  BY <1>2, <1>3, <1>4, <1>5 DEF Subscribed

\* An event command changes the first entry of its sender, adds one, or finds
\* that there is none to end.
LEMMA ChangeEventKeeps ==
  ASSUME BotInv, ChangeEvent PROVE BotInv'
<1>1. /\ Subscribed /\ sender \in Users
      /\ wish' = [wish EXCEPT ![sender] = "busy"]
      /\ UNCHANGED <<named, eventFile, written, task, serviceVars, doneVars>>
  BY BotParts DEF CmdInv, ChangeEvent
<1>2. ASSUME NEW first \in Entry(sender), Cmd("run", "truncate"),
             myEventList' = [myEventList EXCEPT ![first].status =
                               (Part.name = "event_on")],
             saved' = saved \ {sender}
      PROVE  BotInv'
  <2>1. Subscribed'
    BY <1>1, <1>2, ChangeFirst DEF Cmd
  <2> QED  BY <1>1, <1>2, <2>1, EventStep DEF CmdPlaces
<1>3. CASE /\ Part.name = "event_on"
           /\ Cmd("run", "extend")
           /\ myEventList' = Append(myEventList, [user |-> sender, status |-> TRUE])
           /\ saved' = saved \ {sender}
  <2>1. Subscribed'
    BY <1>1, <1>3, AddEntry DEF Cmd
  <2> QED  BY <1>1, <1>3, <2>1, EventStep DEF CmdPlaces
<1>4. CASE /\ Entry(sender) = {} /\ Part.name # "event_on"
           /\ Cmd("run", "reply")
           /\ UNCHANGED <<myEventList, saved>>
  <2>1. Subscribed'
    BY <1>1, <1>4, NothingToEnd DEF Cmd
  <2> QED  BY <1>1, <1>4, <2>1, EventStep DEF CmdPlaces
<1> QED  BY <1>2, <1>3, <1>4 DEF ChangeEvent

\* The command goes on without its file.
LEMMA FileFailsKeeps ==
  ASSUME BotInv, FileFails PROVE BotInv'
<1>1. /\ pc \in {"extend", "truncate", "rewrite"} /\ pc' = "reply"
      /\ UNCHANGED <<parts, sender>> /\ Cmd(pc, "reply")
      /\ UNCHANGED <<eventVars, task, serviceVars, doneVars>>
  BY DEF FileFails, Cmd
<1>2. Subscribed'
  <2>1. EventTypeOK'
    BY <1>1, BotParts DEF Subscribed, EventTypeOK
  <2>2. FileInv'
    BY <1>1 DEF FileInv
  <2>3. SenderInv' /\ SubscriptionsKept'
    BY <1>1, BotParts, SameSender, SameSubscriptions DEF Subscribed
  <2> QED  BY <2>1, <2>2, <2>3 DEF Subscribed
<1> QED  BY <1>1, <1>2, EventStep DEF CmdPlaces

\* The new entry of the list gets its line of the file.
LEMMA ExtendKeeps ==
  ASSUME BotInv, ExtendEventSubscrList PROVE BotInv'
<1>1. /\ EventTypeOK /\ SenderInv /\ SubscriptionsKept /\ sender \in Users
      /\ pc = "extend" /\ pc' = "reply" /\ Cmd("extend", "reply")
      /\ eventFile' = Append(eventFile, sender)
      /\ saved' = saved \union {sender}
      /\ UNCHANGED <<parts, sender, named, myEventList, written, wish>>
      /\ UNCHANGED <<task, serviceVars, doneVars>>
  BY BotParts DEF Subscribed, CmdInv, Cmd, ExtendEventSubscrList
<1>2. InList(sender)
  BY <1>1 DEF SenderInv
<1>3. /\ eventFile' \in Seq(Users)
      /\ \A u : InFile(u)' <=> InFile(u) \/ u = sender
  BY <1>1, FileGrows
<1>4. EventTypeOK'
  BY <1>1, <1>3 DEF EventTypeOK
<1>5. SubscriptionsKept'
  <2> SUFFICES ASSUME NEW u \in Users
               PROVE  /\ wish'[u] = "event_on" => InList(u)'
                      /\ wish'[u] = "event_off" /\ Once(u)' => ~InList(u)'
                      /\ u \in saved' => (InFile(u)' <=> InList(u)')
    BY DEF SubscriptionsKept
  <2>1. /\ wish[u] = "event_on" => InList(u)
        /\ wish[u] = "event_off" /\ Once(u) => ~InList(u)
        /\ u \in saved => (InFile(u) <=> InList(u))
    BY <1>1 DEF SubscriptionsKept
  <2>2. (InList(u)' <=> InList(u)) /\ (Once(u)' <=> Once(u))
    BY <1>1, SameList
  <2> QED  BY <1>1, <1>2, <1>3, <2>1, <2>2
<1>6. SenderInv'
  BY <1>1, SameSender
<1>7. FileInv'
  BY <1>1 DEF FileInv
<1> QED  BY <1>1, <1>4, <1>5, <1>6, <1>7, EventStep DEF Subscribed, CmdPlaces

\* The truncated file has nobody; it is right for those who are not in the
\* list.
LEMMA TruncateKeeps ==
  ASSUME BotInv, TruncateEventSubscrList PROVE BotInv'
<1>1. /\ EventTypeOK /\ SenderInv /\ SubscriptionsKept
      /\ pc = "truncate" /\ pc' = "rewrite" /\ Cmd("truncate", "rewrite")
      /\ eventFile' = <<>> /\ written' = 0
      /\ saved' = {u \in Users : wish[u] = "event_off" /\ Once(u)}
      /\ UNCHANGED <<parts, sender, named, myEventList, wish>>
      /\ UNCHANGED <<task, serviceVars, doneVars>>
  BY BotParts DEF Subscribed, Cmd, TruncateEventSubscrList
<1>2. EventTypeOK'
  BY <1>1 DEF EventTypeOK
<1>3. \A u : ~InFile(u)'
  BY <1>1 DEF InFile
<1>4. SubscriptionsKept'
  BY <1>1, <1>3, SameList DEF SubscriptionsKept
<1>5. SenderInv'
  BY <1>1, SameSender
<1>6. FileInv'
  <2>1. \A u \in Users : \A k \in Entry(u)' : ~(k <= 0)
    BY <1>1, ListFacts, SameList DEF Entry
  <2>2. 0 <= Len(myEventList')
    BY <1>1, ListFacts
  <2> QED  BY <1>1, <1>3, <2>1, <2>2 DEF FileInv
<1> QED  BY <1>1, <1>2, <1>4, <1>5, <1>6, EventStep DEF Subscribed, CmdPlaces

\* The file has the entries of the list the walk has passed, so at its end it
\* has those that are true.
LEMMA RewriteKeeps ==
  ASSUME BotInv, RewriteEventSubscrList PROVE BotInv'
<1>1. /\ EventTypeOK /\ FileInv /\ SenderInv /\ SubscriptionsKept
      /\ CmdInv /\ Owned /\ CompletionIsOwn
      /\ pc = "rewrite"
      /\ UNCHANGED <<processCmd, parts, sender, named, myEventList, wish>>
      /\ UNCHANGED <<task, serviceVars, doneVars>>
  BY BotParts DEF Subscribed, RewriteEventSubscrList
<1>2. /\ Len(myEventList) \in Nat /\ DOMAIN myEventList = 1..Len(myEventList)
      /\ \A k \in DOMAIN myEventList : /\ myEventList[k].user \in Users
                                       /\ myEventList[k].status \in BOOLEAN
  BY <1>1, ListFacts
<1>3. written \in Nat /\ written <= Len(myEventList)
  BY <1>1 DEF EventTypeOK, FileInv
<1>4. \A u : /\ Entry(u)' = Entry(u)
             /\ InList(u)' <=> InList(u)
             /\ Once(u)' <=> Once(u)
  BY <1>1, SameList
<1>5. CompletionIsOwn'
  BY <1>1 DEF CompletionIsOwn
<1>6. CASE written < Len(myEventList)
  <2> DEFINE entry == myEventList[written + 1]
  <2>1. /\ written + 1 \in DOMAIN myEventList
        /\ entry.user \in Users /\ entry.status \in BOOLEAN
        /\ written + 1 \in Nat /\ written + 1 <= Len(myEventList)
    BY <1>2, <1>3, <1>6
  <2>2. /\ written' = written + 1 /\ UNCHANGED <<pc, saved>>
        /\ eventFile' = IF entry.status THEN Append(eventFile, entry.user)
                                        ELSE eventFile
    BY <1>6 DEF RewriteEventSubscrList, Writes
  <2>3. /\ eventFile' \in Seq(Users)
        /\ \A u : InFile(u)' <=> InFile(u) \/ (entry.status /\ u = entry.user)
    <3> HIDE DEF entry
    <3>1. CASE entry.status
      BY <1>1, <2>1, <2>2, <3>1, FileGrows
    <3>2. CASE ~entry.status
      BY <1>1, <2>2, <3>2, SameFile DEF EventTypeOK
    <3> QED  BY <3>1, <3>2
  <2>4. EventTypeOK'
    BY <1>1, <2>1, <2>2, <2>3 DEF EventTypeOK
  <2>5. ASSUME NEW u \in Users
        PROVE  InFile(u)' <=> \E k \in Entry(u) : /\ k <= written + 1
                                                  /\ myEventList[k].status
    <3>1. InFile(u) <=> \E k \in Entry(u) : k <= written /\ myEventList[k].status
      BY <1>1 DEF FileInv
    <3>2. \A k \in DOMAIN myEventList : k <= written + 1 <=>
                                          k <= written \/ k = written + 1
      BY <1>2, <1>3
    <3>3. written + 1 \in Entry(u) <=> u = entry.user
      BY <2>1 DEF Entry
    <3>4. Entry(u) \subseteq DOMAIN myEventList
      BY DEF Entry
    <3>5. myEventList[written + 1] = entry
      OBVIOUS
    <3> HIDE DEF entry
    <3>6. CASE InFile(u)'
      BY <2>3, <3>1, <3>2, <3>3, <3>4, <3>5, <3>6
    <3>7. ASSUME NEW k \in Entry(u), k <= written + 1, myEventList[k].status
          PROVE  InFile(u)'
      BY <2>3, <3>1, <3>2, <3>3, <3>4, <3>5, <3>7
    <3> QED  BY <3>6, <3>7
  <2>6. FileInv'
    <3>1. \A u \in Users : InFile(u)' <=>
             \E k \in Entry(u)' : k <= written' /\ myEventList'[k].status
      BY <1>1, <1>4, <2>2, <2>5
    <3>2. written' <= Len(myEventList')
      BY <1>1, <2>1, <2>2
    <3> QED  BY <3>1, <3>2 DEF FileInv
  <2>7. SubscriptionsKept'
    <3>1. \A u \in Users : InFile(u)' => InList(u)
      BY <2>5 DEF InList
    <3>2. \A u \in Users : InFile(u) => InFile(u)'
      BY <2>3
    <3> HIDE DEF entry
    <3> QED  BY <1>1, <1>4, <2>2, <3>1, <3>2 DEF SubscriptionsKept
  <2>8. SenderInv'
    BY <1>1, <2>2, SameSender
  <2>9. CmdInv'
    BY <1>1, <2>2, CmdFrame
  <2>10. Owned'
    BY <1>1, <2>2, TaskFrame
  <2> QED  BY <1>5, <2>4, <2>6, <2>7, <2>8, <2>9, <2>10, BotParts DEF Subscribed
<1>7. CASE ~(written < Len(myEventList))
  <2>1. pc' = "reply" /\ saved' = Users /\ UNCHANGED <<eventFile, written>>
    BY <1>7 DEF RewriteEventSubscrList
  <2>2. EventTypeOK'
    BY <1>1, <2>1 DEF EventTypeOK
  <2>3. \A u \in Users : InFile(u) <=> InList(u)
    <3>1. \A k \in DOMAIN myEventList : k <= written
      BY <1>2, <1>3, <1>7
    <3> QED  BY <1>1, <3>1 DEF FileInv, InList, Entry
  <2>4. SubscriptionsKept'
    <3>1. \A u : InFile(u)' <=> InFile(u)
      BY <2>1, SameFile
    <3> QED  BY <1>1, <1>4, <2>3, <3>1 DEF SubscriptionsKept
  <2>5. FileInv'
    BY <2>1 DEF FileInv
  <2>6. SenderInv'
    BY <1>1, <2>1, SameSender
  <2>7. CmdInv'
    BY <1>1, <2>1 DEF CmdInv, CmdPlaces, Part
  <2>8. Owned'
    BY <1>1, <2>1, TasksQuiet
  <2> QED  BY <1>5, <2>2, <2>4, <2>5, <2>6, <2>7, <2>8, BotParts DEF Subscribed
<1> QED  BY <1>6, <1>7

\* The answer to an event command makes its wish the last that was answered.
LEMMA ReplyKeeps ==
  ASSUME BotInv, Reply PROVE BotInv'
<1> USE DEF Reply
<1>1. /\ EventTypeOK /\ SenderInv /\ SubscriptionsKept /\ sender \in Users
      /\ pc = "reply" /\ parts \in Seq(Phrase) /\ parts # <<>>
  BY BotParts DEF Subscribed, CmdInv
<1>2. pc' \in {"run", "pop"} /\ (Len(parts) > 1 \/ pc' = "pop")
  OBVIOUS
<1>3. CmdInv'
  <2>1. Tail(parts) \in Seq(Phrase) /\ (Len(parts) > 1 => Tail(parts) # <<>>)
    <3> HIDE DEF Reply
    <3>1. /\ Tail(parts) \in Seq(Phrase) /\ Len(Tail(parts)) = Len(parts) - 1
          /\ Len(parts) \in Nat
      BY <1>1
    <3>2. Len(parts) > 1 => Len(Tail(parts)) # 0
      BY <3>1
    <3> QED  BY <3>1, <3>2
  <2>2. pc' = "run" => parts' # <<>>
    BY <1>2, <2>1
  <2> QED  BY <1>1, <1>2, <2>1, <2>2, BotParts DEF CmdInv, CmdPlaces
<1>4. /\ wish' \in [Users -> {"event_on", "event_off", "busy", "unknown"}]
      /\ \A u \in Users : \/ wish'[u] = wish[u]
                          \/ u = sender /\ IsEvent(Part) /\ wish'[u] = Part.name
  BY <1>1 DEF EventTypeOK, IsEvent
<1>5. EventTypeOK'
  BY <1>1, <1>4 DEF EventTypeOK
<1>6. ASSUME NEW u \in Users
      PROVE  /\ wish'[u] = "event_on" => InList(u)
             /\ wish'[u] = "event_off" /\ Once(u) => ~InList(u)
  <2>1. CASE wish'[u] = wish[u]
    BY <1>1, <2>1 DEF SubscriptionsKept
  <2>2. CASE u = sender /\ IsEvent(Part) /\ wish'[u] = Part.name
    BY <1>1, <2>2 DEF SenderInv
  <2> QED  BY <1>4, <2>1, <2>2
<1>7. SubscriptionsKept'
  <2>1. UNCHANGED <<myEventList, eventFile, saved>>
    OBVIOUS
  <2> HIDE DEF Reply
  <2> QED  BY <1>1, <1>6, <2>1, SameList, SameFile DEF SubscriptionsKept
<1>8. FileInv' /\ SenderInv'
  BY <1>2 DEF FileInv, SenderInv
<1>9. Owned'
  BY <1>2, BotParts, TasksQuiet
<1>10. CompletionIsOwn'
  BY BotParts DEF CompletionIsOwn
<1> QED  BY <1>3, <1>5, <1>7, <1>8, <1>9, <1>10, BotParts DEF Subscribed
-----------------------------------------------------------------------------
(* The tasks                                                               *)

\* The fields of a claim.
LEMMA ClaimFields ==
  \A p, n, g, w : /\ Claim(p, n, g, w).port = p
                  /\ Claim(p, n, g, w).tid = n
                  /\ Claim(p, n, g, w).gen = g
                  /\ Claim(p, n, g, w).owner = w
BY DEF Claim

\* A claim is about a number of one of the services.
LEMMA ClaimTypes ==
  ASSUME TaskTypeOK, NEW c \in Claims
  PROVE  c.port \in Services /\ c.tid \in Nat /\ c.gen \in Nat
<1>1. Claimed(c)
  BY ClaimCases
<1>2. CASE c \in running \/ c \in flying
  BY <1>2 DEF TaskTypeOK
<1>3. ASSUME NEW k \in DOMAIN AsyncTaskList,
             c = Claim(AsyncTaskList[k].port, AsyncTaskList[k].tid,
                       AsyncTaskList[k].gen, AsyncTaskList[k].to)
      PROVE  c.port \in Services /\ c.tid \in Nat /\ c.gen \in Nat
  <2> DEFINE T == [port : Services, tid : Nat, gen : Nat, to : Users]
  <2>1. AsyncTaskList \in Seq(T)
    BY DEF TaskTypeOK
  <2>2. AsyncTaskList[k] \in T
    <3> HIDE DEF T
    <3> QED  BY <2>1
  <2> QED  BY <1>3, <2>2, ClaimFields
<1>4. CASE pc = "insert" /\ c = Claim(task.port, task.tid, task.gen, sender)
  BY <1>4, ClaimFields DEF TaskTypeOK
<1> QED  BY <1>1, <1>2, <1>3, <1>4 DEF Claimed

\* The service gives the number next[port], which nobody claims in its epoch.
LEMMA StartTaskKeeps ==
  ASSUME BotInv, StartTask PROVE BotInv'
<1>1. CASE Cmd("run", "reply") /\ UNCHANGED <<task, next, running>>
  BY <1>1, AnswerKeeps DEF StartTask
<1>2. CASE /\ Cmd("run", "insert")
           /\ task' = [port |-> Does.port, tid |-> next[Does.port],
                       gen |-> epoch[Does.port]]
           /\ next' = [next EXCEPT ![Does.port] = @ + 1]
           /\ running' = running \union
                {Claim(Does.port, next[Does.port], epoch[Does.port], sender)}
  <2>0. /\ TaskTypeOK /\ ClaimsInv /\ CmdInv /\ sender \in Users /\ pc = "run"
        /\ pc' = "insert" /\ sender' = sender /\ parts' = parts
        /\ UNCHANGED <<eventVars, epoch, hears, flying, AsyncTaskList, epc>>
    BY <1>2, BotParts DEF Owned, CmdInv, Cmd, StartTask
  <2>1. PICK p : p = Does.port
    OBVIOUS
  <2>2. p \in Services /\ ~IsEvent(Part)
    BY <2>0, <2>1, CommandFacts DEF StartTask, CmdInv
  <2>3. PICK n \in Nat, g \in Nat : n = next[p] /\ g = epoch[p]
    BY <2>0, <2>2 DEF TaskTypeOK
  <2>4. /\ task' = [port |-> p, tid |-> n, gen |-> g]
        /\ next' = [next EXCEPT ![p] = n + 1]
        /\ running' = running \union {Claim(p, n, g, sender)}
    BY <1>2, <2>1, <2>3
  <2>5. CmdInv'
    BY <1>2, <2>0, <2>2 DEF CmdInv, CmdPlaces, Cmd, IsEvent, Part
  <2>6. Subscribed'
    BY <2>0, EventsQuiet, BotParts
  <2>7. TaskTypeOK'
    <3>1. next' \in [Services -> Nat]
      BY <2>0, <2>2, <2>4 DEF TaskTypeOK
    <3>2. running' \subseteq [port : Services, tid : Nat, gen : Nat, owner : Users]
      BY <2>0, <2>2, <2>4 DEF TaskTypeOK, Claim
    <3>3. task' \in [port : Services, tid : Nat, gen : Nat]
      BY <2>2, <2>4
    <3> QED  BY <2>0, <3>1, <3>2, <3>3 DEF TaskTypeOK
  <2>8. \A c \in Claims' : c \in Claims \/ c = Claim(p, n, g, sender)
    <3> SUFFICES ASSUME NEW c \in Claims', c # Claim(p, n, g, sender)
                 PROVE  c \in Claims
      OBVIOUS
    <3>1. Claimed(c)'
      BY ClaimCases
    <3>2. task'.port = p /\ task'.tid = n /\ task'.gen = g
      BY <2>4
    <3>3. Claimed(c)
      BY <2>0, <2>4, <3>1, <3>2 DEF Claimed
    <3> QED  BY <3>3, ClaimCases
  <2>9. \A c \in Claims :
           /\ c.port \in Services /\ c.tid \in Nat /\ c.gen \in Nat
           /\ c.gen <= epoch[c.port]
           /\ c.gen = epoch[c.port] => c.tid < next[c.port]
    BY <2>0, ClaimTypes DEF ClaimsInv
  <2>10. /\ \A s \in Services : /\ next[s] \in Nat /\ next'[s] \in Nat
                                /\ next[s] <= next'[s]
                                /\ epoch[s] \in Nat /\ epoch'[s] = epoch[s]
         /\ next'[p] = n + 1
    BY <2>0, <2>2, <2>3, <2>4 DEF TaskTypeOK
  <2>11. PICK x : /\ x = Claim(p, n, g, sender)
                  /\ x.port = p /\ x.tid = n /\ x.gen = g
    BY ClaimFields
  <2>12. \A c \in Claims' : /\ c.gen <= epoch'[c.port]
                            /\ c.gen = epoch'[c.port] => c.tid < next'[c.port]
    <3>1. \A c \in Claims : /\ c.gen <= epoch'[c.port]
                            /\ c.gen = epoch'[c.port] => c.tid < next'[c.port]
      BY ONLY <2>9, <2>10
    <3>2. x.gen <= epoch'[x.port] /\ x.tid < next'[x.port]
      BY <2>2, <2>3, <2>10, <2>11
    <3> QED  BY <2>8, <2>11, <3>1, <3>2
  <2>13. \A c \in Claims : ~(c.port = p /\ c.gen = g /\ c.tid = n)
    BY <2>3, <2>9
  <2>14. \A c, d \in Claims' :
            c.port = d.port /\ c.gen = d.gen /\ c.tid = d.tid => c.owner = d.owner
    <3> SUFFICES ASSUME NEW c \in Claims', NEW d \in Claims',
                        c.port = d.port, c.gen = d.gen, c.tid = d.tid
                 PROVE  c.owner = d.owner
      OBVIOUS
    <3>1. CASE c \in Claims /\ d \in Claims
      BY <2>0, <3>1 DEF ClaimsInv
    <3>2. CASE c = x \/ d = x
      BY <2>8, <2>11, <2>13, <3>2
    <3> QED  BY <2>8, <2>11, <3>1, <3>2
  <2>15. ClaimsInv'
    BY <2>12, <2>14 DEF ClaimsInv
  <2>16. CompletionIsOwn'
    BY <2>0, BotParts DEF CompletionIsOwn
  <2> QED  BY <2>5, <2>6, <2>7, <2>15, <2>16, BotParts DEF Owned
<1> QED  BY <1>1, <1>2 DEF StartTask

\* The claim of the command becomes one of the list.
LEMMA InsertTaskKeeps ==
  ASSUME BotInv, InsertTask PROVE BotInv'
<1> USE DEF InsertTask
<1> DEFINE T == [port : Services, tid : Nat, gen : Nat, to : Users]
           x == [port |-> task.port, tid |-> task.tid, gen |-> task.gen,
                 to |-> sender]
<1>1. /\ TaskTypeOK /\ ClaimsInv /\ CmdInv /\ sender \in Users /\ pc = "insert"
      /\ pc' = "reply" /\ sender' = sender /\ Part' = Part
  BY BotParts DEF Owned, CmdInv, Cmd, Part
<1>2. /\ x \in T /\ x.port = task.port /\ x.tid = task.tid /\ x.gen = task.gen
      /\ x.to = sender
  BY <1>1 DEF TaskTypeOK
<1>3. /\ AsyncTaskList' \in Seq(T)
      /\ Range(AsyncTaskList') = Range(AsyncTaskList) \cup {x}
  <2>1. AsyncTaskList \in Seq(T) /\ AsyncTaskList' = Append(AsyncTaskList, x)
    BY <1>1 DEF TaskTypeOK
  <2> HIDE DEF T, x, InsertTask
  <2> QED  BY <1>2, <2>1, PutRange
<1> HIDE DEF x
<1>4. CmdInv'
  BY BotParts, CmdStep DEF CmdPlaces
<1>5. TaskTypeOK'
  BY <1>1, <1>3 DEF TaskTypeOK
<1>6. Claims' \subseteq Claims
  <2> SUFFICES ASSUME NEW c \in Claims', ~Claimed(c) PROVE FALSE
    BY ClaimCases
  <2>1. Claimed(c)'
    BY ClaimCases
  <2>2. PICK k \in DOMAIN AsyncTaskList' :
          c = Claim(AsyncTaskList'[k].port, AsyncTaskList'[k].tid,
                    AsyncTaskList'[k].gen, AsyncTaskList'[k].to)
    BY <1>1, <2>1 DEF Claimed
  <2>3. AsyncTaskList'[k] \in Range(AsyncTaskList')
    BY DEF Range
  <2>4. CASE AsyncTaskList'[k] \in Range(AsyncTaskList)
    <3>1. PICK i \in DOMAIN AsyncTaskList : AsyncTaskList[i] = AsyncTaskList'[k]
      BY <2>4 DEF Range
    <3> QED  BY <2>2, <3>1 DEF Claimed
  <2>5. CASE AsyncTaskList'[k] = x
    BY <1>1, <1>2, <2>2, <2>5 DEF Claimed
  <2> QED  BY <1>3, <2>3, <2>4, <2>5
<1>7. ClaimsInv'
  BY <1>1, <1>6, ClaimsShrink
<1>8. Subscribed'
  <2>1. ~IsEvent(Part)
    BY <1>1 DEF CmdInv
  <2>2. ~IsEvent(Part)'
    BY <1>1, <2>1 DEF IsEvent
  <2> QED  BY <1>1, <2>2, BotParts, EventsQuiet
<1>9. CompletionIsOwn'
  BY BotParts DEF CompletionIsOwn
<1> QED  BY <1>4, <1>5, <1>7, <1>8, <1>9, BotParts DEF Owned

\* Steps of the services and of the RPC thread.
LEMMA ServiceStep ==
  ASSUME BotInv, UNCHANGED <<processCmd, cmdVars, eventVars>>, TaskTypeOK',
         ClaimsInv', CompletionIsOwn'
  PROVE  BotInv'
BY BotParts, CmdFrame, EventFrame DEF Owned

\* The event says what the task said.
LEMMA TaskDoneKeeps ==
  ASSUME BotInv, NEW t \in running, TaskDone(t) PROVE BotInv'
<1> USE DEF TaskDone
<1>1. TaskTypeOK /\ ClaimsInv /\ flying' \subseteq flying \union {t}
  BY BotParts DEF Owned
<1>2. TaskTypeOK'
  BY <1>1 DEF TaskTypeOK
<1>3. Claims' \subseteq Claims
  <2> SUFFICES ASSUME NEW c \in Claims' PROVE Claimed(c)
    BY ClaimCases
  <2>1. Claimed(c)'
    BY ClaimCases
  <2> QED  BY <1>1, <2>1 DEF Claimed
<1>4. ClaimsInv'
  BY <1>1, <1>3, ClaimsShrink
<1>5. CompletionIsOwn'
  BY BotParts DEF CompletionIsOwn
<1> QED  BY <1>2, <1>4, <1>5, ServiceStep

\* A service that counts anew: all claims to its tasks are of an earlier epoch.
LEMMA CountsAnewKeeps ==
  ASSUME BotInv, NEW s \in Services, CountsAnew(s), running' \subseteq running,
         hears' \subseteq Services
  PROVE  BotInv'
<1> USE DEF CountsAnew
<1>1. TaskTypeOK /\ ClaimsInv
  BY BotParts DEF Owned
<1>2. TaskTypeOK'
  <2>1. next' \in [Services -> Nat] /\ epoch' \in [Services -> Nat]
    BY <1>1 DEF TaskTypeOK
  <2> QED  BY <1>1, <2>1 DEF TaskTypeOK
<1>3. Claims' \subseteq Claims
  <2> SUFFICES ASSUME NEW c \in Claims' PROVE Claimed(c)
    BY ClaimCases
  <2>1. Claimed(c)'
    BY ClaimCases
  <2> QED  BY <2>1 DEF Claimed
<1>4. ASSUME NEW c \in Claims
      PROVE  /\ c.gen <= epoch'[c.port]
             /\ c.gen = epoch'[c.port] => c.tid < next'[c.port]
  <2>1. /\ c.port \in Services /\ c.gen \in Nat /\ epoch[c.port] \in Nat
        /\ c.gen <= epoch[c.port]
        /\ c.gen = epoch[c.port] => c.tid < next[c.port]
    BY <1>1, ClaimTypes DEF ClaimsInv, TaskTypeOK
  <2>2. CASE c.port = s
    <3>1. epoch'[c.port] = epoch[c.port] + 1
      BY <1>1, <2>2 DEF TaskTypeOK
    <3> QED  BY ONLY <2>1, <3>1
  <2>3. CASE c.port # s
    <3>1. epoch'[c.port] = epoch[c.port] /\ next'[c.port] = next[c.port]
      BY <1>1, <2>1, <2>3 DEF TaskTypeOK
    <3> QED  BY <2>1, <3>1
  <2> QED  BY <2>2, <2>3
<1>5. ClaimsInv'
  <2> HIDE DEF CountsAnew
  <2> QED  BY <1>1, <1>3, <1>4 DEF ClaimsInv
<1>6. CompletionIsOwn'
  BY BotParts DEF CompletionIsOwn
<1> QED  BY <1>2, <1>5, <1>6, ServiceStep

\* It does so when it starts again, or when it is told to.
LEMMA ServicesKeep ==
  ASSUME BotInv, NEW s \in Services, ServiceRestarts(s) \/ ResetTaskIdAndChain(s)
  PROVE  BotInv'
<1>1. CountsAnew(s) /\ running' \subseteq running /\ hears' \subseteq hears
  BY DEF ServiceRestarts, ResetTaskIdAndChain
<1>2. hears' \subseteq Services
  BY <1>1, BotParts DEF Owned, TaskTypeOK
<1> QED  BY <1>1, <1>2, CountsAnewKeeps

\* The entry an event matches is one more claim to the same number, and of the
\* same epoch it is one to the same task.
LEMMA ReceiveDoneKeeps ==
  ASSUME BotInv, NEW e \in flying, ReceiveDone(e) PROVE BotInv'
<1> DEFINE T == [port : Services, tid : Nat, gen : Nat, to : Users]
<1>1. /\ TaskTypeOK /\ ClaimsInv /\ AsyncTaskList \in Seq(T)
      /\ flying' = flying \ {e} /\ AsyncTaskList' = Remaining(AsyncTaskList, e)
      /\ UNCHANGED <<processCmd, cmdVars, eventVars, next, epoch, running, hears>>
  BY BotParts DEF Owned, TaskTypeOK, ReceiveDone
<1>2. PICK first :
        /\ first = FindAsyncEventEntry(AsyncTaskList, e)
        /\ epc' = IF first = 0 THEN Nothing
                  ELSE [port |-> e.port, owner |-> e.owner, gen |-> e.gen,
                        to |-> AsyncTaskList[first].to,
                        entry |-> AsyncTaskList[first].gen]
  BY DEF ReceiveDone
<1>3. /\ AsyncTaskList' \in Seq(T)
      /\ Range(AsyncTaskList') \subseteq Range(AsyncTaskList)
  <2> HIDE DEF T
  <2> QED  BY <1>1, RemainingFacts
<1>4. TaskTypeOK'
  BY <1>1, <1>3 DEF TaskTypeOK
<1>5. Claims' \subseteq Claims
  <2> SUFFICES ASSUME NEW c \in Claims' PROVE Claimed(c)
    BY ClaimCases
  <2>1. Claimed(c)'
    BY ClaimCases
  <2>2. ASSUME NEW k \in DOMAIN AsyncTaskList',
               c = Claim(AsyncTaskList'[k].port, AsyncTaskList'[k].tid,
                         AsyncTaskList'[k].gen, AsyncTaskList'[k].to)
        PROVE  Claimed(c)
    <3>1. AsyncTaskList'[k] \in Range(AsyncTaskList)
      BY <1>3 DEF Range
    <3>2. PICK i \in DOMAIN AsyncTaskList : AsyncTaskList[i] = AsyncTaskList'[k]
      BY <3>1 DEF Range
    <3> QED  BY <2>2, <3>2 DEF Claimed
  <2> QED  BY <1>1, <2>1, <2>2 DEF Claimed
<1>6. ClaimsInv'
  BY <1>1, <1>5, ClaimsShrink
<1>7. CompletionIsOwn'
  <2>1. CASE first = 0
    BY <1>2, <2>1 DEF CompletionIsOwn
  <2>2. CASE first # 0
    <3> DEFINE entry == AsyncTaskList[first]
               c == Claim(entry.port, entry.tid, entry.gen, entry.to)
    <3>1. first \in DOMAIN AsyncTaskList /\ Matches(entry, e)
      <4> HIDE DEF T
      <4> QED  BY <1>1, <1>2, <2>2, FirstFacts
    <3>2. entry.port = e.port /\ entry.tid = e.tid
      BY <3>1 DEF Matches
    <3>3. Claimed(c) /\ Claimed(e)
      BY <3>1 DEF Claimed
    <3>4. /\ c.port = entry.port /\ c.tid = entry.tid /\ c.gen = entry.gen
          /\ c.owner = entry.to
      BY ClaimFields
    <3>5. c \in Claims /\ e \in Claims
      BY <3>3, ClaimCases
    <3>6. entry.gen = e.gen => entry.to = e.owner
      <4> HIDE DEF c, entry
      <4> QED  BY <1>1, <3>2, <3>4, <3>5 DEF ClaimsInv
    <3>7. /\ epc'.gen = e.gen /\ epc'.owner = e.owner
          /\ epc'.to = entry.to /\ epc'.entry = entry.gen
      BY <1>2, <2>2
    <3> HIDE DEF entry
    <3> QED  BY <3>6, <3>7 DEF CompletionIsOwn
  <2> QED  BY <2>1, <2>2
<1> QED  BY <1>1, <1>4, <1>6, <1>7, ServiceStep
-----------------------------------------------------------------------------
(* The invariant of the chat side                                          *)

\* The process starts with what the file says, if it is read.
LEMMA BotInitInv == BotInit => BotInv
<1> SUFFICES ASSUME BotInit PROVE BotInv
  OBVIOUS
<1> USE DEF BotInit
<1>1. CmdInv
  BY DEF CmdInv, CmdPlaces
<1>2. eventFile \in Seq(Users)
  <2>1. \A a \in Users : <<a>> \in Seq(Users)
    OBVIOUS
  <2>2. "admin" \in Users
    BY DEF Users
  <2>3. eventFile = <<>> \/ eventFile = <<"admin">>
    OBVIOUS
  <2>4. <<>> \in Seq(Users)
    OBVIOUS
  <2> HIDE DEF BotInit
  <2> QED  BY <2>1, <2>2, <2>3, <2>4
<1>3. PICK loaded \in BOOLEAN :
        /\ myEventList = LoadEventSubscrList(loaded)
        /\ wish = [u \in Users |-> IF ~InFile(u) THEN "event_off"
                      ELSE IF loaded THEN "event_on" ELSE "unknown"]
        /\ saved = {u \in Users : loaded \/ ~InFile(u)}
  <2>1. /\ named \in BOOLEAN
        /\ \E loaded \in {named, FALSE} :
              /\ myEventList = LoadEventSubscrList(loaded)
              /\ wish = [u \in Users |-> IF ~InFile(u) THEN "event_off"
                            ELSE IF loaded THEN "event_on" ELSE "unknown"]
              /\ saved = {u \in Users : loaded \/ ~InFile(u)}
    BY Zenon DEF BotInit
  <2> HIDE DEF BotInit
  <2>2. \A b \in {named, FALSE} : b \in BOOLEAN
    BY <2>1
  <2> QED  BY <2>1, <2>2, Zenon
<1>4. EventTypeOK
  <2> DEFINE T == [user : Users, status : BOOLEAN]
             n == Len(eventFile)
  <2>1. n \in Nat /\ DOMAIN eventFile = 1..n /\ \A k \in 1..n : eventFile[k] \in Users
    <3> HIDE DEF BotInit
    <3> QED  BY <1>2
  <2>2. myEventList \in Seq(T)
    <3> HIDE DEF BotInit
    <3>1. CASE loaded
      <4>1. /\ myEventList = [k \in 1..n |-> myEventList[k]]
            /\ \A k \in 1..n : myEventList[k] \in T
        BY <1>3, <2>1, <3>1 DEF LoadEventSubscrList
      <4> HIDE DEF T, n
      <4> QED  BY <2>1, <4>1
    <3>2. CASE ~loaded
      BY <1>3, <3>2 DEF LoadEventSubscrList
    <3> QED  BY <3>1, <3>2
  <2>3. wish \in [Users -> {"event_on", "event_off", "busy", "unknown"}]
    <3> HIDE DEF BotInit
    <3> QED  BY <1>3
  <2> QED  BY <1>2, <1>3, <2>2, <2>3 DEF EventTypeOK
<1>5. \A u \in Users : InList(u) <=> loaded /\ InFile(u)
  <2> HIDE DEF BotInit
  <2>1. CASE loaded
    <3>1. /\ DOMAIN myEventList = DOMAIN eventFile
          /\ \A k \in DOMAIN eventFile : /\ myEventList[k].user = eventFile[k]
                                         /\ myEventList[k].status
      BY <1>3, <2>1 DEF LoadEventSubscrList
    <3> QED  BY <2>1, <3>1 DEF InFile, InList, Entry
  <2>2. CASE ~loaded
    <3>1. DOMAIN myEventList = {}
      BY <1>3, <2>2 DEF LoadEventSubscrList
    <3> QED  BY <2>2, <3>1 DEF InList, Entry
  <2> QED  BY <2>1, <2>2
<1>6. SubscriptionsKept
  <2> HIDE DEF BotInit
  <2>1. \A u \in Users : wish[u] = IF ~InFile(u) THEN "event_off"
                           ELSE IF loaded THEN "event_on" ELSE "unknown"
    BY <1>3
  <2> QED  BY <1>3, <1>5, <2>1 DEF SubscriptionsKept
<1>7. FileInv /\ SenderInv
  BY DEF FileInv, SenderInv
<1>8. TaskTypeOK
  BY DEF TaskTypeOK
<1>9. ClaimsInv
  <2>1. \A c : ~Claimed(c)
    BY DEF Claimed
  <2>2. Claims = {}
    BY <2>1, ClaimCases
  <2> QED  BY <2>2 DEF ClaimsInv
<1>10. CompletionIsOwn
  BY DEF CompletionIsOwn
<1> QED  BY <1>1, <1>4, <1>6, <1>7, <1>8, <1>9, <1>10 DEF BotInv

\* One lemma for each action.
LEMMA BotStep == BotInv /\ [BotNext]_botVars => BotInv'
<1> SUFFICES ASSUME BotInv, [BotNext]_botVars PROVE BotInv'
  OBVIOUS
<1>1. CASE UNCHANGED botVars
  BY <1>1, BotFrame DEF botVars
<1>2. CASE CommandThread
  BY <1>2, PopKeeps, AliasKeeps, AnswersKeep, StartTaskKeeps, InsertTaskKeeps,
     ChangeEventKeeps, FileFailsKeeps, ExtendKeeps, TruncateKeeps, RewriteKeeps,
     ReplyKeeps DEF CommandThread
<1>3. CASE ReplyCrashes \/ TellDoneCrashes \/ GpioEvent \/ Crash
  BY <1>3, RestartsKeeps DEF ReplyCrashes, TellDoneCrashes, GpioEvent, Crash
<1> QED  BY <1>1, <1>2, <1>3, OthersKeep, QueueKeeps, TaskDoneKeeps,
            ServicesKeep, ReceiveDoneKeeps, TellDoneKeeps DEF BotNext

\* The chat side keeps its invariant, through messages, answers, events,
\* crashes of this process, files that cannot be read or written, and services
\* that start again or begin to count anew.
THEOREM BotSafety == BotSpec => []BotInv
<1> QED  BY BotInitInv, BotStep, PTL DEF BotSpec

\* ReceiveEvent() finds by number and service whom to tell that a task is
\* done: it is who asked for that task, unless the service has begun to count
\* anew between the event and the entry it finds.
THEOREM CompletionsAreOwn == BotSpec => []CompletionIsOwn
<1>1. BotInv => CompletionIsOwn
  BY DEF BotInv
<1> QED  BY <1>1, BotSafety, PTL

\* What the list of subscriptions says is what each user's last answered event
\* command asked for, and so does the file for every user for whom it could be
\* written.
THEOREM SubscriptionsAreKept == BotSpec => []SubscriptionsKept
<1>1. BotInv => SubscriptionsKept
  BY DEF BotInv
<1> QED  BY <1>1, BotSafety, PTL
=============================================================================
