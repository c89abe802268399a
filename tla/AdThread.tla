------------------------------ MODULE AdThread ------------------------------
(***************************************************************************)
(* ADThread: the start/stop/wakeup protocol under every thread of the      *)
(* services.  Callers run start_thread(), stop_thread() and                *)
(* wakeup_thread(); the pthreads it creates run my_thread_func().          *)
(* thread_state and finished are atomics read without a lock; started and  *)
(* the pthread handle belong to the holder of ctrl_lock.                   *)
(*                                                                         *)
(* A call that finds nothing to do (start of a running thread, stop of a   *)
(* stopped one) returns -1 and changes nothing: it has no action.          *)
(***************************************************************************)
EXTENDS Naturals, FiniteSets

CONSTANTS Callers,    \* threads that start, stop and wake this one
          MaxRuns,    \* pthreads created during a behaviour (bound)
          MaxPosts    \* posts of the semaphore during a behaviour (bound)

Runs == 1..MaxRuns
NoOne == "noone"

ASSUME ThreadAssumption ==
    /\ MaxRuns \in Nat
    /\ MaxPosts \in Nat
    /\ NoOne \notin Callers

VARIABLES
    thType,       \* th_type
    active,       \* thread_state = THREAD_STATE_ACTIVE
    started,      \* a pthread exists that has not been joined
    finished,     \* the thread function has returned
    sem,          \* one_shot_sema
    thread,       \* the pthread handle: the last run created
    ctrlLock,     \* holder of ctrl_lock
    bounded,      \* the holder's stop has a max_wait_ms
    cpc,          \* where each caller is
    tpc,          \* where each pthread is
    joined,       \* pthreads that were joined
    nposts,       \* posts so far
    wakes, calls  \* wakeups and callbacks since the last drain

caller == <<started, thread, ctrlLock, bounded, cpc, joined>>
vars == <<thType, active, started, finished, sem, thread, ctrlLock, bounded,
          cpc, tpc, joined, nposts, wakes, calls>>

Monoshot == thType = "monoshot"
Running(i) == tpc[i] \notin {"absent", "gone"}
-----------------------------------------------------------------------------
(* Callers                                                                 *)

Enter(c) == cpc[c] = "idle" /\ ctrlLock = NoOne
Goto(c, pc) == cpc' = [cpc EXCEPT ![c] = pc]
Return(c) == Goto(c, "idle") /\ ctrlLock' = NoOne

\* start_thread(): a NOBLOCK callback that returned, and a thread a bounded
\* stop left behind, are joined first.
Bug_FirstOfStart == "drain"
FirstOfStart == IF started THEN "startjoin" ELSE "drain"

Start(c) ==
    /\ Enter(c)
    /\ ~(started /\ active)
    /\ thread < MaxRuns
    /\ ctrlLock' = c
    /\ Goto(c, FirstOfStart)
    /\ UNCHANGED <<thType, active, started, finished, sem, thread, bounded,
                   tpc, joined, nposts, wakes, calls>>

StartJoin(c) ==
    /\ cpc[c] = "startjoin"
    /\ finished
    /\ started' = FALSE
    /\ joined' = joined \cup {thread}
    /\ Goto(c, "drain")
    /\ UNCHANGED <<thType, active, finished, sem, thread, ctrlLock, bounded,
                   tpc, nposts, wakes, calls>>

\* Wakeups left over from a previous run are dropped.
Drained == 0

Drain(c) ==
    /\ cpc[c] = "drain"
    /\ sem' = Drained
    /\ wakes' = 0 /\ calls' = 0
    /\ Goto(c, "create")
    /\ UNCHANGED <<thType, active, started, finished, thread, ctrlLock,
                   bounded, tpc, joined, nposts>>

\* thread_state and finished are set, then pthread_create(): it may fail, and
\* the new thread may run before started is set.
Create(c) ==
    /\ cpc[c] = "create"
    /\ \/ /\ active' = TRUE
          /\ finished' = FALSE
          /\ thread' = thread + 1
          /\ tpc' = [tpc EXCEPT ![thread + 1] = "top"]
          /\ Goto(c, "created")
          /\ ctrlLock' = ctrlLock
       \/ /\ active' = FALSE
          /\ finished' = TRUE
          /\ Return(c)
          /\ UNCHANGED <<thread, tpc>>
    /\ UNCHANGED <<thType, started, sem, bounded, joined, nposts, wakes, calls>>

Created(c) ==
    /\ cpc[c] = "created"
    /\ started' = TRUE
    /\ Return(c)
    /\ UNCHANGED <<thType, active, finished, sem, thread, bounded, tpc, joined,
                   nposts, wakes, calls>>

\* stop_thread(): the request first, then the post that ends a sem_wait().
Bug_AfterRequest == "join"
AfterRequest == IF Monoshot THEN "post" ELSE "join"

Stop(c) ==
    /\ Enter(c)
    /\ started
    /\ nposts < MaxPosts
    /\ active' = FALSE
    /\ ctrlLock' = c
    /\ bounded' \in BOOLEAN
    /\ Goto(c, AfterRequest)
    /\ UNCHANGED <<thType, started, finished, sem, thread, tpc, joined, nposts,
                   wakes, calls>>

StopPost(c) ==
    /\ cpc[c] = "post"
    /\ sem' = sem + 1
    /\ nposts' = nposts + 1
    /\ Goto(c, "join")
    /\ UNCHANGED <<thType, active, started, finished, thread, ctrlLock,
                   bounded, tpc, joined, wakes, calls>>

\* join_thread() polls finished, then joins.
StopJoin(c) ==
    /\ cpc[c] = "join"
    /\ finished
    /\ started' = FALSE
    /\ joined' = joined \cup {thread}
    /\ Return(c)
    /\ UNCHANGED <<thType, active, finished, sem, thread, bounded, tpc, nposts,
                   wakes, calls>>

\* max_wait_ms is over: the thread keeps running and stays started.
Bug_StartedAfterTimeout == FALSE
StartedAfterTimeout == started

StopTimeout(c) ==
    /\ cpc[c] = "join"
    /\ bounded
    /\ ~finished
    /\ started' = StartedAfterTimeout
    /\ Return(c)
    /\ UNCHANGED <<thType, active, finished, sem, thread, bounded, tpc, joined,
                   nposts, wakes, calls>>

\* wakeup_thread(), from any thread, without the lock.
Wakeup ==
    /\ Monoshot
    /\ nposts < MaxPosts
    /\ sem' = sem + 1
    /\ nposts' = nposts + 1
    /\ wakes' = wakes + 1
    /\ UNCHANGED <<thType, active, finished, tpc, calls, caller>>
-----------------------------------------------------------------------------
(* my_thread_func()                                                        *)

\* The loop condition.
Top(i) ==
    /\ tpc[i] = "top"
    /\ tpc' = [tpc EXCEPT ![i] =
                 IF ~active THEN "last"
                 ELSE IF Monoshot THEN "wait" ELSE "callback"]
    /\ UNCHANGED <<thType, active, finished, sem, nposts, wakes, calls, caller>>

\* sem_wait() takes one post.
Bug_Taken == 0
Taken == sem - 1

SemTake(i) ==
    /\ tpc[i] = "wait"
    /\ sem > 0
    /\ sem' = Taken
    /\ tpc' = [tpc EXCEPT ![i] = "check"]
    /\ UNCHANGED <<thType, active, finished, nposts, wakes, calls, caller>>

\* A signal interrupts a sem_wait() that blocks: round the loop again.
SemEintr(i) ==
    /\ tpc[i] = "wait"
    /\ sem = 0
    /\ tpc' = [tpc EXCEPT ![i] = "top"]
    /\ UNCHANGED <<thType, active, finished, sem, nposts, wakes, calls, caller>>

\* A post that only announced the stop runs no callback.
AfterWait == IF active THEN "callback" ELSE "last"

Check(i) ==
    /\ tpc[i] = "check"
    /\ tpc' = [tpc EXCEPT ![i] = AfterWait]
    /\ calls' = IF AfterWait = "callback" THEN calls + 1 ELSE calls
    /\ UNCHANGED <<thType, active, finished, sem, nposts, wakes, caller>>

\* The callback returns: a MONOSHOT thread loops, a NOBLOCK one is over and
\* may be started again.
CallbackEnd(i) ==
    /\ tpc[i] = "callback"
    /\ tpc' = [tpc EXCEPT ![i] = IF Monoshot THEN "top" ELSE "last"]
    /\ active' = (Monoshot /\ active)
    /\ UNCHANGED <<thType, finished, sem, nposts, wakes, calls, caller>>

\* stop_thread() from inside the callback: it waits for ctrl_lock ...
CallbackStops(i) ==
    /\ tpc[i] = "callback"
    /\ tpc' = [tpc EXCEPT ![i] = "selfstop"]
    /\ UNCHANGED <<thType, active, finished, sem, nposts, wakes, calls, caller>>

\* ... and marks the thread inactive, as it cannot join itself.
SelfStopped(i) ==
    /\ tpc[i] = "selfstop"
    /\ ctrlLock = NoOne
    /\ active' = (active /\ ~started)
    /\ tpc' = [tpc EXCEPT ![i] = "callback"]
    /\ UNCHANGED <<thType, finished, sem, nposts, wakes, calls, caller>>

\* finished is the thread's last access to the object.
LastInstruction(i) ==
    /\ tpc[i] = "last"
    /\ finished' = TRUE
    /\ tpc' = [tpc EXCEPT ![i] = "gone"]
    /\ UNCHANGED <<thType, active, sem, nposts, wakes, calls, caller>>
-----------------------------------------------------------------------------
Init ==
    /\ thType \in {"monoshot", "noblock"}
    /\ active = FALSE /\ started = FALSE /\ finished = TRUE
    /\ sem = 0 /\ thread = 0
    /\ ctrlLock = NoOne /\ bounded = FALSE
    /\ cpc = [c \in Callers |-> "idle"]
    /\ tpc = [i \in Runs |-> "absent"]
    /\ joined = {}
    /\ nposts = 0 /\ wakes = 0 /\ calls = 0

InStart(c) == StartJoin(c) \/ Drain(c) \/ Create(c) \/ Created(c)
InStop(c) == StopPost(c) \/ StopJoin(c) \/ StopTimeout(c)
ThreadStep(i) ==
    \/ Top(i) \/ SemTake(i) \/ Check(i) \/ CallbackEnd(i) \/ SelfStopped(i)
    \/ LastInstruction(i)

Next ==
    \/ \E c \in Callers : Start(c) \/ Stop(c) \/ InStart(c) \/ InStop(c)
    \/ \E i \in Runs : ThreadStep(i) \/ SemEintr(i) \/ CallbackStops(i)
    \/ Wakeup

Spec == Init /\ [][Next]_vars

\* A call that has begun goes on and the thread runs; a thread that waits for
\* ctrl_lock gets it when it is free again and again; nobody has to start,
\* stop, wake or interrupt the thread.
Fairness ==
    /\ \A c \in Callers : WF_vars(InStart(c)) /\ WF_vars(InStop(c))
    /\ \A i \in Runs : WF_vars(ThreadStep(i)) /\ SF_vars(SelfStopped(i))

FairSpec == Spec /\ Fairness
-----------------------------------------------------------------------------
(* Properties                                                              *)

\* Types of the variables.
TypeOK ==
    /\ thType \in {"monoshot", "noblock"}
    /\ active \in BOOLEAN /\ started \in BOOLEAN /\ finished \in BOOLEAN
    /\ bounded \in BOOLEAN
    /\ sem \in Nat /\ nposts \in Nat /\ wakes \in Nat /\ calls \in Nat
    /\ thread \in 0..MaxRuns
    /\ ctrlLock \in Callers \cup {NoOne}
    /\ cpc \in [Callers -> {"idle", "startjoin", "drain", "create", "created",
                            "post", "join"}]
    /\ tpc \in [Runs -> {"absent", "top", "wait", "check", "callback",
                         "selfstop", "last", "gone"}]
    /\ joined \subseteq Runs

\* However starts, bounded stops and returning callbacks interleave, no two
\* pthreads ever run my_thread_func() on one object, and no handle is
\* overwritten before its thread was joined.
OneThread ==
    /\ \A i, j \in Runs : Running(i) /\ Running(j) => i = j
    /\ \A i \in Runs : tpc[i] # "absent" /\ i # thread => i \in joined

\* Once a stop_thread() has returned 0 nothing of the thread runs any more, so
\* that its consumer may be destroyed.
StoppedIsQuiet ==
    ctrlLock = NoOne /\ ~started => \A i \in Runs : ~Running(i)

\* One MONOSHOT callback for each wakeup of its own run: none is lost unless a
\* stop comes, and neither a stop's post nor a wakeup of an earlier run calls it.
WakeupsServed ==
    /\ (Monoshot /\ active /\ calls < wakes) ~> (calls = wakes \/ ~active)
    /\ [](Monoshot => calls <= wakes)

\* A callback that stops its own thread gets back from that call and can
\* finish (comment on cooperative stopping in ADThread.hpp).
SelfStopReturns ==
    \A i \in Runs : (tpc[i] = "selfstop") ~> (tpc[i] = "callback")

\* Every start or stop that has begun returns, as long as callbacks that stop
\* their own thread get back: nobody sleeps through a stop request.
CallsReturn ==
    SelfStopReturns
      => \A c \in Callers : (cpc[c] # "idle") ~> (cpc[c] = "idle")
-----------------------------------------------------------------------------
(* The inductive invariant behind OneThread and StoppedIsQuiet             *)

\* Whoever is inside a call holds ctrl_lock.
LockInv ==
    /\ \A c \in Callers : (cpc[c] # "idle") <=> (ctrlLock = c)

\* Only the run the handle names runs, exactly until finished says so.
HandleInv ==
    /\ \A i \in Runs : Running(i) => i = thread
    /\ \A i \in Runs : i > thread => tpc[i] = "absent"
    /\ thread > 0 => (finished <=> ~Running(thread))
    /\ thread = 0 => finished
    /\ \A i \in Runs : tpc[i] # "absent" /\ i # thread => i \in joined

\* Where started and the thread disagree, a caller is between the two.
CallerInv ==
    /\ ~started => finished \/ \E c \in Callers : cpc[c] = "created"
    /\ \A c \in Callers :
         /\ cpc[c] \in {"drain", "create"} => ~started /\ finished
         /\ cpc[c] \in {"drain", "create"} => thread < MaxRuns
         /\ cpc[c] = "startjoin" => thread < MaxRuns
         /\ cpc[c] \in {"startjoin", "post", "join"} => started
         /\ cpc[c] = "created" => thread > 0
         /\ cpc[c] \in {"drain", "create"} /\ thread > 0 => thread \in joined
    /\ ~started /\ thread > 0 => thread \in joined
                                  \/ \E c \in Callers : cpc[c] = "created"
    /\ started => thread > 0

IInv == TypeOK /\ LockInv /\ HandleInv /\ CallerInv
=============================================================================
