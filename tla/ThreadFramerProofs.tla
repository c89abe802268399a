------------------------- MODULE ThreadFramerProofs -------------------------
(***************************************************************************)
(* The two parts every connection of the server is built from.  ADThread,  *)
(* for any set of callers and any number of runs: its inductive invariant, *)
(* and what follows from it for the consumers of a thread.                 *)
(* ADJsonStreamFramer, for any max_msg, any stream and any way recv() cuts *)
(* it: the trail of the scanner is compared with the recursive reference,  *)
(* which makes every message exact and every verdict right.                *)
(***************************************************************************)
EXTENDS AdThread, StreamFramer, ChainLemmas

\* start_thread() takes ctrl_lock: the invariant is kept.
LEMMA StartStep == ASSUME IInv, NEW c \in Callers, Start(c) PROVE IInv'
<1> USE ThreadAssumption DEF IInv, NoOne, Runs, Monoshot, Running
<1>1. TypeOK'
  BY DEF TypeOK, HandleInv, CallerInv, LockInv, Start, FirstOfStart, Enter, Goto
<1>2. LockInv'
  BY DEF TypeOK, LockInv, Start, FirstOfStart, Enter, Goto
<1>3. HandleInv'
  BY DEF TypeOK, LockInv, HandleInv, CallerInv, Start, FirstOfStart, Enter, Goto
<1>4. CallerInv'
  BY DEF TypeOK, LockInv, HandleInv, CallerInv, Start, FirstOfStart, Enter, Goto
<1> QED  BY <1>1, <1>2, <1>3, <1>4

\* start_thread() joins the thread that ended: the invariant is kept.
LEMMA StartJoinStep == ASSUME IInv, NEW c \in Callers, StartJoin(c) PROVE IInv'
<1> USE ThreadAssumption DEF IInv, NoOne, Runs, Monoshot, Running
<1>1. TypeOK'
  <2>1. thread \in Runs
    BY DEF TypeOK, CallerInv, StartJoin
  <2>2. joined' \subseteq Runs
    BY <2>1, Zenon DEF TypeOK, StartJoin
  <2> QED
    BY <2>2 DEF TypeOK, StartJoin, Goto
<1>2. LockInv'
  BY DEF TypeOK, LockInv, StartJoin, Goto
<1>3. HandleInv'
  BY DEF TypeOK, LockInv, HandleInv, CallerInv, StartJoin, Goto
<1>4. CallerInv'
  BY DEF TypeOK, LockInv, HandleInv, CallerInv, StartJoin, Goto
<1> QED  BY <1>1, <1>2, <1>3, <1>4

\* start_thread() drains the semaphore: the invariant is kept.
LEMMA DrainStep == ASSUME IInv, NEW c \in Callers, Drain(c) PROVE IInv'
<1> USE ThreadAssumption DEF IInv, NoOne, Runs, Monoshot, Running
<1>1. TypeOK'
  BY DEF TypeOK, HandleInv, CallerInv, LockInv, Drain, Drained, Goto
<1>2. LockInv'
  BY DEF TypeOK, LockInv, Drain, Drained, Goto
<1>3. HandleInv'
  BY DEF TypeOK, LockInv, HandleInv, CallerInv, Drain, Drained, Goto
<1>4. CallerInv'
  BY DEF TypeOK, LockInv, HandleInv, CallerInv, Drain, Drained, Goto
<1> QED  BY <1>1, <1>2, <1>3, <1>4

\* pthread_create(), successful or not: the invariant is kept.
LEMMA CreateStep == ASSUME IInv, NEW c \in Callers, Create(c) PROVE IInv'
<1> USE ThreadAssumption DEF IInv, NoOne, Runs, Monoshot, Running
<1>1. TypeOK'
  <2>1. thread < MaxRuns
    BY DEF CallerInv, Create
  <2>2. thread' \in 0..MaxRuns
    BY <2>1 DEF TypeOK, Create
  <2>3. tpc' \in [Runs -> {"absent", "top", "wait", "check", "callback",
                           "selfstop", "last", "gone"}]
    BY <2>1 DEF TypeOK, Create
  <2>4. cpc' \in [Callers -> {"idle", "startjoin", "drain", "create",
                              "created", "post", "join"}]
    BY DEF TypeOK, Create, Goto, Return
  <2>5. active' \in BOOLEAN /\ finished' \in BOOLEAN
    BY DEF Create
  <2> QED
    BY <2>2, <2>3, <2>4, <2>5 DEF TypeOK, Create, Return
<1>2. LockInv'
  BY DEF TypeOK, LockInv, Create, Goto, Return
<1>3. HandleInv'
  BY DEF TypeOK, LockInv, HandleInv, CallerInv, Create, Goto, Return
<1>4. CallerInv'
  BY DEF TypeOK, LockInv, HandleInv, CallerInv, Create, Goto, Return
<1> QED  BY <1>1, <1>2, <1>3, <1>4

\* start_thread() sets started and returns: the invariant is kept.
LEMMA CreatedStep == ASSUME IInv, NEW c \in Callers, Created(c) PROVE IInv'
<1> USE ThreadAssumption DEF IInv, NoOne, Runs, Monoshot, Running
<1>1. TypeOK'
  BY DEF TypeOK, HandleInv, CallerInv, LockInv, Created, Goto, Return
<1>2. LockInv'
  BY DEF TypeOK, LockInv, Created, Goto, Return
<1>3. HandleInv'
  BY DEF TypeOK, LockInv, HandleInv, CallerInv, Created, Goto, Return
<1>4. CallerInv'
  BY DEF TypeOK, LockInv, HandleInv, CallerInv, Created, Goto, Return
<1> QED  BY <1>1, <1>2, <1>3, <1>4

\* stop_thread() requests the stop: the invariant is kept.
LEMMA StopStep == ASSUME IInv, NEW c \in Callers, Stop(c) PROVE IInv'
<1> USE ThreadAssumption DEF IInv, NoOne, Runs, Monoshot, Running
<1>1. TypeOK'
  BY DEF TypeOK, HandleInv, CallerInv, LockInv, Stop, AfterRequest, Enter, Goto
<1>2. LockInv'
  BY DEF TypeOK, LockInv, Stop, AfterRequest, Enter, Goto
<1>3. HandleInv'
  BY DEF TypeOK, LockInv, HandleInv, CallerInv, Stop, AfterRequest, Enter, Goto
<1>4. CallerInv'
  BY DEF TypeOK, LockInv, HandleInv, CallerInv, Stop, AfterRequest, Enter, Goto
<1> QED  BY <1>1, <1>2, <1>3, <1>4

\* stop_thread() posts the semaphore: the invariant is kept.
LEMMA StopPostStep == ASSUME IInv, NEW c \in Callers, StopPost(c) PROVE IInv'
<1> USE ThreadAssumption DEF IInv, NoOne, Runs, Monoshot, Running
<1>1. TypeOK'
  BY DEF TypeOK, HandleInv, CallerInv, LockInv, StopPost, Goto
<1>2. LockInv'
  BY DEF TypeOK, LockInv, StopPost, Goto
<1>3. HandleInv'
  BY DEF TypeOK, LockInv, HandleInv, CallerInv, StopPost, Goto
<1>4. CallerInv'
  BY DEF TypeOK, LockInv, HandleInv, CallerInv, StopPost, Goto
<1> QED  BY <1>1, <1>2, <1>3, <1>4

\* stop_thread() joins: the invariant is kept.
LEMMA StopJoinStep == ASSUME IInv, NEW c \in Callers, StopJoin(c) PROVE IInv'
<1> USE ThreadAssumption DEF IInv, NoOne, Runs, Monoshot, Running
<1>1. TypeOK'
  <2>1. thread \in Runs
    BY DEF TypeOK, CallerInv, StopJoin
  <2>2. joined' \subseteq Runs
    BY <2>1, Zenon DEF TypeOK, StopJoin
  <2> QED
    BY <2>2 DEF TypeOK, StopJoin, Goto, Return
<1>2. LockInv'
  BY DEF TypeOK, LockInv, StopJoin, Goto, Return
<1>3. HandleInv'
  BY DEF TypeOK, LockInv, HandleInv, CallerInv, StopJoin, Goto, Return
<1>4. CallerInv'
  BY DEF TypeOK, LockInv, HandleInv, CallerInv, StopJoin, Goto, Return
<1> QED  BY <1>1, <1>2, <1>3, <1>4

\* a bounded stop gives up: the invariant is kept.
LEMMA StopTimeoutStep ==
  ASSUME IInv, NEW c \in Callers, StopTimeout(c) PROVE IInv'
<1> USE ThreadAssumption DEF IInv, NoOne, Runs, Monoshot, Running
<1>1. TypeOK'
  BY DEF TypeOK, HandleInv, CallerInv, LockInv, StopTimeout,
     StartedAfterTimeout, Goto, Return
<1>2. LockInv'
  BY DEF TypeOK, LockInv, StopTimeout, StartedAfterTimeout, Goto, Return
<1>3. HandleInv'
  BY DEF TypeOK, LockInv, HandleInv, CallerInv, StopTimeout,
     StartedAfterTimeout, Goto, Return
<1>4. CallerInv'
  BY DEF TypeOK, LockInv, HandleInv, CallerInv, StopTimeout,
     StartedAfterTimeout, Goto, Return
<1> QED  BY <1>1, <1>2, <1>3, <1>4

\* the loop condition: the invariant is kept.
LEMMA TopStep == ASSUME IInv, NEW i \in Runs, Top(i) PROVE IInv'
<1> USE ThreadAssumption DEF IInv, NoOne, Runs, Monoshot, Running
<1>1. TypeOK'
  BY DEF TypeOK, HandleInv, CallerInv, LockInv, Top, caller
<1>2. LockInv'
  BY DEF TypeOK, LockInv, Top, caller
<1>3. HandleInv'
  BY DEF TypeOK, LockInv, HandleInv, CallerInv, Top, caller
<1>4. CallerInv'
  BY DEF TypeOK, LockInv, HandleInv, CallerInv, Top, caller
<1> QED  BY <1>1, <1>2, <1>3, <1>4

\* sem_wait() takes a post: the invariant is kept.
LEMMA SemTakeStep == ASSUME IInv, NEW i \in Runs, SemTake(i) PROVE IInv'
<1> USE ThreadAssumption DEF IInv, NoOne, Runs, Monoshot, Running
<1>1. TypeOK'
  BY DEF TypeOK, HandleInv, CallerInv, LockInv, SemTake, Taken, caller
<1>2. LockInv'
  BY DEF TypeOK, LockInv, SemTake, Taken, caller
<1>3. HandleInv'
  BY DEF TypeOK, LockInv, HandleInv, CallerInv, SemTake, Taken, caller
<1>4. CallerInv'
  BY DEF TypeOK, LockInv, HandleInv, CallerInv, SemTake, Taken, caller
<1> QED  BY <1>1, <1>2, <1>3, <1>4

\* sem_wait() is interrupted: the invariant is kept.
LEMMA SemEintrStep == ASSUME IInv, NEW i \in Runs, SemEintr(i) PROVE IInv'
<1> USE ThreadAssumption DEF IInv, NoOne, Runs, Monoshot, Running
<1>1. TypeOK'
  BY DEF TypeOK, HandleInv, CallerInv, LockInv, SemEintr, caller
<1>2. LockInv'
  BY DEF TypeOK, LockInv, SemEintr, caller
<1>3. HandleInv'
  BY DEF TypeOK, LockInv, HandleInv, CallerInv, SemEintr, caller
<1>4. CallerInv'
  BY DEF TypeOK, LockInv, HandleInv, CallerInv, SemEintr, caller
<1> QED  BY <1>1, <1>2, <1>3, <1>4

\* the state is read again after sem_wait(): the invariant is kept.
LEMMA CheckStep == ASSUME IInv, NEW i \in Runs, Check(i) PROVE IInv'
<1> USE ThreadAssumption DEF IInv, NoOne, Runs, Monoshot, Running
<1>1. TypeOK'
  BY DEF TypeOK, HandleInv, CallerInv, LockInv, Check, AfterWait, caller
<1>2. LockInv'
  BY DEF TypeOK, LockInv, Check, AfterWait, caller
<1>3. HandleInv'
  BY DEF TypeOK, LockInv, HandleInv, CallerInv, Check, AfterWait, caller
<1>4. CallerInv'
  BY DEF TypeOK, LockInv, HandleInv, CallerInv, Check, AfterWait, caller
<1> QED  BY <1>1, <1>2, <1>3, <1>4

\* the callback returns: the invariant is kept.
LEMMA CallbackEndStep == ASSUME IInv, NEW i \in Runs, CallbackEnd(i) PROVE IInv'
<1> USE ThreadAssumption DEF IInv, NoOne, Runs, Monoshot, Running
<1>1. TypeOK'
  BY DEF TypeOK, HandleInv, CallerInv, LockInv, CallbackEnd, caller
<1>2. LockInv'
  BY DEF TypeOK, LockInv, CallbackEnd, caller
<1>3. HandleInv'
  BY DEF TypeOK, LockInv, HandleInv, CallerInv, CallbackEnd, caller
<1>4. CallerInv'
  BY DEF TypeOK, LockInv, HandleInv, CallerInv, CallbackEnd, caller
<1> QED  BY <1>1, <1>2, <1>3, <1>4

\* the callback calls stop_thread(): the invariant is kept.
LEMMA CallbackStopsStep ==
  ASSUME IInv, NEW i \in Runs, CallbackStops(i) PROVE IInv'
<1> USE ThreadAssumption DEF IInv, NoOne, Runs, Monoshot, Running
<1>1. TypeOK'
  BY DEF TypeOK, HandleInv, CallerInv, LockInv, CallbackStops, caller
<1>2. LockInv'
  BY DEF TypeOK, LockInv, CallbackStops, caller
<1>3. HandleInv'
  BY DEF TypeOK, LockInv, HandleInv, CallerInv, CallbackStops, caller
<1>4. CallerInv'
  BY DEF TypeOK, LockInv, HandleInv, CallerInv, CallbackStops, caller
<1> QED  BY <1>1, <1>2, <1>3, <1>4

\* stop_thread() from inside the callback: the invariant is kept.
LEMMA SelfStoppedStep == ASSUME IInv, NEW i \in Runs, SelfStopped(i) PROVE IInv'
<1> USE ThreadAssumption DEF IInv, NoOne, Runs, Monoshot, Running
<1>1. TypeOK'
  BY DEF TypeOK, HandleInv, CallerInv, LockInv, SelfStopped, caller
<1>2. LockInv'
  BY DEF TypeOK, LockInv, SelfStopped, caller
<1>3. HandleInv'
  BY DEF TypeOK, LockInv, HandleInv, CallerInv, SelfStopped, caller
<1>4. CallerInv'
  BY DEF TypeOK, LockInv, HandleInv, CallerInv, SelfStopped, caller
<1> QED  BY <1>1, <1>2, <1>3, <1>4

\* the thread sets finished: the invariant is kept.
LEMMA LastStep == ASSUME IInv, NEW i \in Runs, LastInstruction(i) PROVE IInv'
<1> USE ThreadAssumption DEF IInv, NoOne, Runs, Monoshot, Running
<1>1. TypeOK'
  BY DEF TypeOK, HandleInv, CallerInv, LockInv, LastInstruction, caller
<1>2. LockInv'
  BY DEF TypeOK, LockInv, LastInstruction, caller
<1>3. HandleInv'
  BY DEF TypeOK, LockInv, HandleInv, CallerInv, LastInstruction, caller
<1>4. CallerInv'
  BY DEF TypeOK, LockInv, HandleInv, CallerInv, LastInstruction, caller
<1> QED  BY <1>1, <1>2, <1>3, <1>4

\* wakeup_thread(): the invariant is kept.
LEMMA WakeupStep == ASSUME IInv, Wakeup PROVE IInv'
<1> USE ThreadAssumption DEF IInv, NoOne, Runs, Monoshot, Running
<1>1. TypeOK'
  BY DEF TypeOK, HandleInv, CallerInv, LockInv, Wakeup, caller
<1>2. LockInv'
  BY DEF TypeOK, LockInv, Wakeup, caller
<1>3. HandleInv'
  BY DEF TypeOK, LockInv, HandleInv, CallerInv, Wakeup, caller
<1>4. CallerInv'
  BY DEF TypeOK, LockInv, HandleInv, CallerInv, Wakeup, caller
<1> QED  BY <1>1, <1>2, <1>3, <1>4

\* The invariant holds when the object is constructed.
LEMMA InitIInv == ASSUME Init PROVE IInv
<1> USE ThreadAssumption DEF Init, NoOne, Runs, Running
<1>1. TypeOK
  <2>1. cpc \in [Callers -> {"idle", "startjoin", "drain", "create",
                             "created", "post", "join"}]
    BY Zenon
  <2>2. tpc \in [1..MaxRuns -> {"absent", "top", "wait", "check", "callback",
                                "selfstop", "last", "gone"}]
    BY Zenon
  <2>3. thread \in 0..MaxRuns
    OBVIOUS
  <2> QED
    BY <2>1, <2>2, <2>3 DEF TypeOK
<1>2. LockInv
  BY DEF LockInv
<1>3. HandleInv
  BY DEF HandleInv
<1>4. CallerInv
  BY DEF CallerInv
<1> QED  BY <1>1, <1>2, <1>3, <1>4 DEF IInv

\* A step that changes nothing keeps the invariant.
LEMMA StutterStep == ASSUME IInv, UNCHANGED vars PROVE IInv'
  BY DEF IInv, TypeOK, LockInv, HandleInv, CallerInv, Running, vars

\* The lock, the handle, started and finished stay consistent whatever
\* start_thread(), stop_thread() and the callbacks do.
THEOREM Safety == Spec => []IInv
<1>1. Init => IInv
  BY InitIInv
<1>2. IInv /\ [Next]_vars => IInv'
  <2> SUFFICES ASSUME IInv, [Next]_vars PROVE IInv'
    OBVIOUS
  <2>1. ASSUME NEW c \in Callers, Start(c) PROVE IInv'
    BY <2>1, StartStep
  <2>2. ASSUME NEW c \in Callers, StartJoin(c) PROVE IInv'
    BY <2>2, StartJoinStep
  <2>3. ASSUME NEW c \in Callers, Drain(c) PROVE IInv'
    BY <2>3, DrainStep
  <2>4. ASSUME NEW c \in Callers, Create(c) PROVE IInv'
    BY <2>4, CreateStep
  <2>5. ASSUME NEW c \in Callers, Created(c) PROVE IInv'
    BY <2>5, CreatedStep
  <2>6. ASSUME NEW c \in Callers, Stop(c) PROVE IInv'
    BY <2>6, StopStep
  <2>7. ASSUME NEW c \in Callers, StopPost(c) PROVE IInv'
    BY <2>7, StopPostStep
  <2>8. ASSUME NEW c \in Callers, StopJoin(c) PROVE IInv'
    BY <2>8, StopJoinStep
  <2>9. ASSUME NEW c \in Callers, StopTimeout(c) PROVE IInv'
    BY <2>9, StopTimeoutStep
  <2>10. ASSUME NEW i \in Runs, Top(i) PROVE IInv'
    BY <2>10, TopStep
  <2>11. ASSUME NEW i \in Runs, SemTake(i) PROVE IInv'
    BY <2>11, SemTakeStep
  <2>12. ASSUME NEW i \in Runs, SemEintr(i) PROVE IInv'
    BY <2>12, SemEintrStep
  <2>13. ASSUME NEW i \in Runs, Check(i) PROVE IInv'
    BY <2>13, CheckStep
  <2>14. ASSUME NEW i \in Runs, CallbackEnd(i) PROVE IInv'
    BY <2>14, CallbackEndStep
  <2>15. ASSUME NEW i \in Runs, CallbackStops(i) PROVE IInv'
    BY <2>15, CallbackStopsStep
  <2>16. ASSUME NEW i \in Runs, SelfStopped(i) PROVE IInv'
    BY <2>16, SelfStoppedStep
  <2>17. ASSUME NEW i \in Runs, LastInstruction(i) PROVE IInv'
    BY <2>17, LastStep
  <2>18. CASE Wakeup
    BY <2>18, WakeupStep
  <2>19. CASE UNCHANGED vars
    BY <2>19, StutterStep
  <2> QED
    BY <2>1, <2>2, <2>3, <2>4, <2>5, <2>6, <2>7, <2>8, <2>9, <2>10, <2>11,
       <2>12, <2>13, <2>14, <2>15, <2>16, <2>17, <2>18, <2>19
       DEF Next, InStart, InStop, ThreadStep
<1> QED
  BY <1>1, <1>2, PTL DEF Spec

\* No two pthreads ever run on one ADThread object and no handle is lost.
THEOREM NeverTwoThreads == Spec => []OneThread
<1>1. IInv => OneThread
  BY DEF IInv, HandleInv, OneThread
<1> QED
  BY <1>1, Safety, PTL

\* After a stop_thread() that returned 0 nothing of the thread runs.
THEOREM QuietAfterStop == Spec => []StoppedIsQuiet
<1>1. IInv => StoppedIsQuiet
  <2> SUFFICES ASSUME IInv, ctrlLock = NoOne, ~started, NEW i \in Runs
               PROVE  ~Running(i)
    BY DEF StoppedIsQuiet
  <2>1. \A c \in Callers : cpc[c] = "idle"
    BY ThreadAssumption DEF IInv, LockInv, TypeOK, NoOne
  <2>2. finished
    BY <2>1 DEF IInv, CallerInv
  <2> QED
    BY <2>2 DEF IInv, HandleInv, TypeOK, Runs
<1> QED
  BY <1>1, Safety, PTL
-----------------------------------------------------------------------------
(* The framer's reference, unfolded                                        *)

\* One unfolding of the two recursive definitions.
StringStep(f, n) ==
    IF n = 0 THEN {<<>>}
    ELSE Followed(f[n - 1], Bytes \ {"quote", "backslash"})
         \cup IF n = 1 THEN {}
              ELSE Followed(Followed(f[n - 2], {"backslash"}), Bytes)
Pairs(f, n, k) ==
    Enclosing(f[n - k], "quote", StringBody[k - 2], "quote")
    \cup Enclosing(f[n - k], "open", f[k - 2], "close")
ObjectStep(f, n) ==
    IF n = 0 THEN {<<>>}
    ELSE Followed(f[n - 1], {"sep", "other", "backslash"})
         \cup UNION {Pairs(f, n, k) : k \in 2..n}

\* A string's inside depends on shorter ones only.
LEMMA StringStepAgrees ==
  ASSUME NEW f, NEW g, NEW m \in Nat, \A i \in 0..(m - 1) : g[i] = f[i]
  PROVE  \A n \in 0..m : StringStep(g, n) = StringStep(f, n)
<1> SUFFICES ASSUME NEW n \in 0..m PROVE StringStep(g, n) = StringStep(f, n)
  OBVIOUS
<1>1. n # 0 => n - 1 \in 0..(m - 1)
  OBVIOUS
<1>2. n # 0 /\ n # 1 => n - 2 \in 0..(m - 1)
  OBVIOUS
<1> QED  BY <1>1, <1>2 DEF StringStep

\* An object's inside depends on shorter ones only.
LEMMA ObjectStepAgrees ==
  ASSUME NEW f, NEW g, NEW m \in Nat, \A i \in 0..(m - 1) : g[i] = f[i]
  PROVE  \A n \in 0..m : ObjectStep(g, n) = ObjectStep(f, n)
<1> SUFFICES ASSUME NEW n \in 0..m PROVE ObjectStep(g, n) = ObjectStep(f, n)
  OBVIOUS
<1>1. n # 0 => n - 1 \in 0..(m - 1)
  OBVIOUS
<1>2. \A k \in 2..n : n - k \in 0..(m - 1) /\ k - 2 \in 0..(m - 1)
  OBVIOUS
<1>3. \A k \in 2..n : Pairs(g, n, k) = Pairs(f, n, k)
  BY <1>2 DEF Pairs
<1>4. UNION {Pairs(g, n, k) : k \in 2..n} = UNION {Pairs(f, n, k) : k \in 2..n}
  BY <1>3
<1> QED  BY <1>1, <1>4 DEF ObjectStep

\* The insides of strings are what their definition says.
LEMMA StringBodyUnfolds ==
  StringBody = [n \in 0..MaxMsg |-> StringStep(StringBody, n)]
<1> DEFINE Graph(f, m) == f = [n \in 0..m |-> StringStep(f, n)]
<1>1. \A m \in Nat : \E f : Graph(f, m)
  <2> DEFINE Bad == {m \in Nat : ~\E f : Graph(f, m)}
  <2> SUFFICES ASSUME Bad # {} PROVE FALSE
    OBVIOUS
  <2>1. PICK m \in Bad : \A n \in Bad : m <= n
    <3> HIDE DEF Bad
    <3>1. Bad \subseteq Nat
      BY DEF Bad
    <3> QED  BY <3>1, NatMinimum
  <2>2. CASE m = 0
    <3> DEFINE f == [n \in 0..0 |-> {<<>>}]
    <3>1. \A n \in 0..0 : StringStep(f, n) = {<<>>}
      BY DEF StringStep
    <3>2. [n \in 0..0 |-> StringStep(f, n)] = f
      BY <3>1
    <3>3. Graph(f, m)
      BY <2>2, <3>2
    <3> HIDE DEF f, Graph
    <3> QED  BY <2>1, <3>3
  <2>3. CASE m # 0
    <3>1. m \in Nat /\ m - 1 \in Nat /\ m - 1 \notin Bad
      <4>1. m \in Nat
        BY <2>1
      <4> HIDE DEF Bad
      <4> QED  BY <2>1, <2>3, <4>1
    <3>2. PICK f : Graph(f, m - 1)
      BY <3>1
    <3> DEFINE g == [n \in 0..m |-> IF n = m THEN StringStep(f, m) ELSE f[n]]
    <3>3. \A n \in 0..(m - 1) : g[n] = f[n] /\ f[n] = StringStep(f, n)
      <4>1. \A n \in 0..(m - 1) : f[n] = StringStep(f, n)
        BY <3>2
      <4>2. \A n \in 0..(m - 1) : n \in 0..m /\ n # m
        BY <3>1
      <4> QED  BY <4>1, <4>2
    <3>4. \A n \in 0..m : StringStep(g, n) = StringStep(f, n)
      <4> HIDE DEF g
      <4> QED  BY <3>1, <3>3, StringStepAgrees
    <3>5. \A n \in 0..m : g[n] = StringStep(g, n)
      <4> SUFFICES ASSUME NEW n \in 0..m PROVE g[n] = StringStep(g, n)
        OBVIOUS
      <4>1. CASE n = m
        <5>1. g[n] = StringStep(f, n)
          BY <4>1
        <5> HIDE DEF g
        <5> QED  BY <3>4, <5>1
      <4>2. CASE n # m
        <5>1. n \in 0..(m - 1)
          BY <3>1, <4>2
        <5> HIDE DEF g
        <5> QED  BY <3>3, <3>4, <5>1
      <4> QED  BY <4>1, <4>2
    <3>6. Graph(g, m)
      <4>1. g = [n \in 0..m |-> g[n]]
        OBVIOUS
      <4> HIDE DEF g
      <4> QED  BY <3>5, <4>1
    <3> HIDE DEF g, Graph
    <3> QED  BY <2>1, <3>6
  <2> QED  BY <2>2, <2>3
<1>2. StringBody = CHOOSE f : Graph(f, MaxMsg)
  BY DEF StringBody, StringStep
<1>3. \E f : Graph(f, MaxMsg)
  BY <1>1, FramerAssumption
<1> HIDE DEF Graph
<1>4. Graph(StringBody, MaxMsg)
  BY <1>2, <1>3
<1> QED  BY <1>4 DEF Graph

\* The insides of objects are what their definition says.
LEMMA ObjectBodyUnfolds ==
  ObjectBody = [n \in 0..MaxMsg |-> ObjectStep(ObjectBody, n)]
<1> DEFINE Graph(f, m) == f = [n \in 0..m |-> ObjectStep(f, n)]
<1>1. \A m \in Nat : \E f : Graph(f, m)
  <2> DEFINE Bad == {m \in Nat : ~\E f : Graph(f, m)}
  <2> SUFFICES ASSUME Bad # {} PROVE FALSE
    OBVIOUS
  <2>1. PICK m \in Bad : \A n \in Bad : m <= n
    <3> HIDE DEF Bad
    <3>1. Bad \subseteq Nat
      BY DEF Bad
    <3> QED  BY <3>1, NatMinimum
  <2>2. CASE m = 0
    <3> DEFINE f == [n \in 0..0 |-> {<<>>}]
    <3>1. \A n \in 0..0 : ObjectStep(f, n) = {<<>>}
      BY DEF ObjectStep
    <3>2. [n \in 0..0 |-> ObjectStep(f, n)] = f
      BY <3>1
    <3>3. Graph(f, m)
      BY <2>2, <3>2
    <3> HIDE DEF f, Graph
    <3> QED  BY <2>1, <3>3
  <2>3. CASE m # 0
    <3>1. m \in Nat /\ m - 1 \in Nat /\ m - 1 \notin Bad
      <4>1. m \in Nat
        BY <2>1
      <4> HIDE DEF Bad
      <4> QED  BY <2>1, <2>3, <4>1
    <3>2. PICK f : Graph(f, m - 1)
      BY <3>1
    <3> DEFINE g == [n \in 0..m |-> IF n = m THEN ObjectStep(f, m) ELSE f[n]]
    <3>3. \A n \in 0..(m - 1) : g[n] = f[n] /\ f[n] = ObjectStep(f, n)
      <4>1. \A n \in 0..(m - 1) : f[n] = ObjectStep(f, n)
        BY <3>2
      <4>2. \A n \in 0..(m - 1) : n \in 0..m /\ n # m
        BY <3>1
      <4> QED  BY <4>1, <4>2
    <3>4. \A n \in 0..m : ObjectStep(g, n) = ObjectStep(f, n)
      <4> HIDE DEF g
      <4> QED  BY <3>1, <3>3, ObjectStepAgrees
    <3>5. \A n \in 0..m : g[n] = ObjectStep(g, n)
      <4> SUFFICES ASSUME NEW n \in 0..m PROVE g[n] = ObjectStep(g, n)
        OBVIOUS
      <4>1. CASE n = m
        <5>1. g[n] = ObjectStep(f, n)
          BY <4>1
        <5> HIDE DEF g
        <5> QED  BY <3>4, <5>1
      <4>2. CASE n # m
        <5>1. n \in 0..(m - 1)
          BY <3>1, <4>2
        <5> HIDE DEF g
        <5> QED  BY <3>3, <3>4, <5>1
      <4> QED  BY <4>1, <4>2
    <3>6. Graph(g, m)
      <4>1. g = [n \in 0..m |-> g[n]]
        OBVIOUS
      <4> HIDE DEF g
      <4> QED  BY <3>5, <4>1
    <3> HIDE DEF g, Graph
    <3> QED  BY <2>1, <3>6
  <2> QED  BY <2>2, <2>3
<1>2. ObjectBody = CHOOSE f : Graph(f, MaxMsg)
  BY DEF ObjectBody, ObjectStep, Pairs
<1>3. \E f : Graph(f, MaxMsg)
  BY <1>1, FramerAssumption
<1> HIDE DEF Graph
<1>4. Graph(ObjectBody, MaxMsg)
  BY <1>2, <1>3
<1> QED  BY <1>4 DEF Graph

-----------------------------------------------------------------------------
(* Words of the stream                                                     *)

Words(n) == {w \in Seq(Bytes) : Len(w) = n}
\* What lies behind place p, up to place q.
Word(s, p, q) == SubSeq(s, p + 1, q)

\* A word of the stream is made of its bytes.
LEMMA WordFacts ==
  ASSUME NEW S, NEW s \in Seq(S), NEW p \in Nat, NEW q \in p..Len(s)
  PROVE  /\ Word(s, p, q) \in Seq(S)
         /\ Len(Word(s, p, q)) = q - p
         /\ \A i \in 1..(q - p) : Word(s, p, q)[i] = s[p + i]
<1>1. p + 1 \in Int /\ q \in Int /\ Len(s) \in Nat
  OBVIOUS
<1>2. \A i \in (p + 1)..q : s[i] \in S
  BY <1>1, ElementOfSeq
<1>3. /\ SubSeq(s, p + 1, q) \in Seq(S)
      /\ Len(SubSeq(s, p + 1, q)) = IF p + 1 <= q THEN q - (p + 1) + 1 ELSE 0
      /\ \A i \in 1..(q - (p + 1) + 1) : SubSeq(s, p + 1, q)[i] = s[p + 1 + i - 1]
  BY <1>1, <1>2, SubSeqProperties
<1>4. q - (p + 1) + 1 = q - p /\ \A i \in 1..(q - p) : p + 1 + i - 1 = p + i
  OBVIOUS
<1> QED  BY <1>3, <1>4 DEF Word

\* The last byte of a word.
LEMMA WordLast ==
  ASSUME NEW S, NEW s \in Seq(S), NEW p \in Nat, NEW q \in (p + 1)..Len(s)
  PROVE  Word(s, p, q) = Append(Word(s, p, q - 1), s[q])
<1>1. q \in p..Len(s) /\ q - 1 \in p..Len(s) /\ q \in 1..Len(s)
  OBVIOUS
<1> DEFINE u == Word(s, p, q)
           v == Word(s, p, q - 1)
<1>2. u \in Seq(S) /\ Len(u) = q - p /\ \A i \in 1..(q - p) : u[i] = s[p + i]
  BY <1>1, WordFacts
<1>3. v \in Seq(S) /\ Len(v) = q - 1 - p /\ \A i \in 1..(q - 1 - p) : v[i] = s[p + i]
  BY <1>1, WordFacts, ZenonT(60)
<1>4. s[q] \in S
  BY <1>1, ElementOfSeq
<1> HIDE DEF u, v
<1>5. /\ Append(v, s[q]) \in Seq(S) /\ Len(Append(v, s[q])) = q - p
      /\ \A i \in 1..(q - p) : Append(v, s[q])[i] = s[p + i]
  BY <1>1, <1>3, <1>4
<1>6. u = Append(v, s[q])
  BY <1>2, <1>5, SeqEqual
<1> QED  BY <1>6 DEF u, v

\* Two words side by side are one.
LEMMA WordJoin ==
  ASSUME NEW S, NEW s \in Seq(S), NEW p \in Nat, NEW q \in p..Len(s),
         NEW m \in p..q
  PROVE  Word(s, p, q) = Word(s, p, m) \o Word(s, m, q)
<1>1. m \in Nat /\ m \in p..Len(s) /\ q \in m..Len(s)
  OBVIOUS
<1> DEFINE u == Word(s, p, q)
           v == Word(s, p, m)
           w == Word(s, m, q)
<1>2. u \in Seq(S) /\ Len(u) = q - p /\ \A i \in 1..(q - p) : u[i] = s[p + i]
  BY <1>1, WordFacts
<1>3. v \in Seq(S) /\ Len(v) = m - p /\ \A i \in 1..(m - p) : v[i] = s[p + i]
  BY <1>1, WordFacts
<1>4. w \in Seq(S) /\ Len(w) = q - m /\ \A i \in 1..(q - m) : w[i] = s[m + i]
  BY <1>1, WordFacts
<1> HIDE DEF u, v, w
<1>5. /\ v \o w \in Seq(S) /\ Len(v \o w) = q - p
      /\ \A i \in 1..(q - p) : (v \o w)[i] = s[p + i]
  <2>1. /\ v \o w \in Seq(S) /\ Len(v \o w) = Len(v) + Len(w)
        /\ \A i \in 1..(Len(v) + Len(w)) :
              (v \o w)[i] = IF i <= Len(v) THEN v[i] ELSE w[i - Len(v)]
    BY <1>3, <1>4, ConcatProperties
  <2>2. Len(v) + Len(w) = q - p
    BY <1>1, <1>3, <1>4
  <2>3. ASSUME NEW i \in 1..(q - p) PROVE (v \o w)[i] = s[p + i]
    <3>1. CASE i <= m - p
      BY <2>1, <2>2, <3>1, <1>3, <1>1
    <3>2. CASE ~(i <= m - p)
      <4>1. i - (m - p) \in 1..(q - m) /\ m + (i - (m - p)) = p + i
        BY <3>2, <1>1
      <4> QED  BY <2>1, <2>2, <3>2, <4>1, <1>3, <1>4
    <3> QED  BY <3>1, <3>2
  <2> QED  BY <2>1, <2>2, <2>3
<1>6. u = v \o w
  BY <1>2, <1>5, SeqEqual
<1> QED  BY <1>6 DEF u, v, w

\* A word around a pair: what is before it, the left one, what is inside, the
\* right one.
LEMMA WordPair ==
  ASSUME NEW S, NEW s \in Seq(S), NEW p \in Nat, NEW q \in p..Len(s),
         NEW m \in (p + 1)..(q - 1)
  PROVE  Word(s, p, q) =
            Pair(Word(s, p, m - 1), s[m], Word(s, m, q - 1), s[q])
<1>1. /\ m \in (p + 1)..Len(s) /\ m - 1 \in p..Len(s) /\ m \in Nat
      /\ q - 1 \in p..Len(s) /\ q - 1 \in m..Len(s) /\ m \in p..(q - 1)
      /\ q \in (p + 1)..Len(s) /\ m \in 1..Len(s) /\ q \in 1..Len(s)
  OBVIOUS
<1>2. s[m] \in S /\ s[q] \in S
  BY <1>1, ElementOfSeq
<1>3. Word(s, p, m) = Append(Word(s, p, m - 1), s[m])
  BY <1>1, WordLast
<1>4. Word(s, p, q - 1) = Word(s, p, m) \o Word(s, m, q - 1)
  BY <1>1, WordJoin
<1>5. Word(s, p, q) = Append(Word(s, p, q - 1), s[q])
  BY <1>1, WordLast
<1>6. /\ Append(Word(s, p, m - 1), s[m]) = Word(s, p, m - 1) \o <<s[m]>>
      /\ Append(Word(s, p, q - 1), s[q]) = Word(s, p, q - 1) \o <<s[q]>>
  BY <1>1, <1>2, WordFacts, AppendIsConcat, ZenonT(60)
<1> QED  BY <1>3, <1>4, <1>5, <1>6 DEF Pair

\* The parts of a word with a pair are determined by their lengths.
LEMMA PairUnique ==
  ASSUME NEW S, NEW u \in Seq(S), NEW v \in Seq(S), NEW x \in Seq(S),
         NEW y \in Seq(S), NEW a \in S, NEW b \in S, NEW c \in S, NEW d \in S,
         Len(u) = Len(x),
         Pair(u, a, v, b) = Pair(x, c, y, d)
  PROVE  u = x /\ a = c /\ v = y /\ b = d
<1>1. /\ u \o <<a>> = Append(u, a) /\ x \o <<c>> = Append(x, c)
      /\ Append(u, a) \in Seq(S) /\ Append(x, c) \in Seq(S)
  BY AppendIsConcat, AppendProperties
<1> DEFINE f == Append(u, a)
           g == Append(x, c)
<1>2. f \in Seq(S) /\ g \in Seq(S) /\ Len(f) = Len(g) /\ Len(f) \in Nat
  BY <1>1
<1>3. (u = x /\ a = c) <=> f = g
  BY AppendInjective
<1>4. (f \o v) \o <<b>> = (g \o y) \o <<d>>
  BY <1>1 DEF Pair
<1> HIDE DEF f, g
<1>5. f \o v \in Seq(S) /\ g \o y \in Seq(S)
  BY <1>2, ConcatProperties
<1>6. Append(f \o v, b) = Append(g \o y, d)
  BY <1>4, <1>5, AppendIsConcat
<1>7. f \o v = g \o y /\ b = d
  <2> DEFINE h == f \o v
             k == g \o y
  <2>1. h \in Seq(S) /\ k \in Seq(S) /\ Append(h, b) = Append(k, d)
    BY <1>5, <1>6
  <2> HIDE DEF h, k
  <2>2. h = k /\ b = d
    BY <2>1, AppendInjective
  <2> QED  BY <2>2 DEF h, k
<1>8. f = g
  <2>1. \A i \in 1..Len(f) : (f \o v)[i] = f[i] /\ (g \o y)[i] = g[i]
    BY <1>2
  <2> QED  BY <1>2, <1>7, <2>1, SeqEqual
<1>9. v = y
  BY <1>2, <1>7, <1>8, ConcatSimplifications
<1> QED  BY <1>3, <1>7, <1>8, <1>9

\* The same, for words of bytes.
LEMMA PairUniqueBytes ==
  \A u, v, x, y \in Seq(Bytes), a, b, c, d \in Bytes :
     Len(u) = Len(x) /\ Pair(u, a, v, b) = Pair(x, c, y, d)
        => u = x /\ a = c /\ v = y /\ b = d
<1> TAKE u, v, x, y \in Seq(Bytes), a, b, c, d \in Bytes
<1> HAVE Len(u) = Len(x) /\ Pair(u, a, v, b) = Pair(x, c, y, d)
<1> QED  BY PairUnique

\* One more byte makes words one longer.
LEMMA FollowedWords ==
  ASSUME NEW n \in Nat, NEW W, W \subseteq Words(n), NEW B, B \subseteq Bytes
  PROVE  Followed(W, B) \subseteq Words(n + 1)
<1> SUFFICES ASSUME NEW x \in Followed(W, B) PROVE x \in Words(n + 1)
  OBVIOUS
<1>1. PICK w \in W, b \in B : x = Append(w, b)
  BY DEF Followed
<1>2. w \in Seq(Bytes) /\ Len(w) = n /\ b \in Bytes
  BY <1>1 DEF Words
<1> QED  BY <1>1, <1>2, AppendProperties DEF Words

\* A pair makes words longer by two and by what it encloses.
LEMMA EnclosingWords ==
  ASSUME NEW i \in Nat, NEW j \in Nat, NEW W, W \subseteq Words(i),
         NEW In, In \subseteq Words(j), NEW l \in Bytes, NEW r \in Bytes
  PROVE  Enclosing(W, l, In, r) \subseteq Words(i + j + 2)
<1> SUFFICES ASSUME NEW x \in Enclosing(W, l, In, r) PROVE x \in Words(i + j + 2)
  OBVIOUS
<1>1. PICK w \in W, o \in In : x = Pair(w, l, o, r)
  BY DEF Enclosing
<1>2. w \in Seq(Bytes) /\ Len(w) = i /\ o \in Seq(Bytes) /\ Len(o) = j
  BY <1>1 DEF Words
<1> DEFINE f == w \o <<l>>
           g == f \o o
<1>3. f \in Seq(Bytes) /\ Len(f) = i + 1
  BY <1>2
<1>4. g \in Seq(Bytes) /\ Len(g) = i + 1 + j
  <2> HIDE DEF f
  <2> QED  BY <1>2, <1>3, ConcatProperties, ZenonT(60)
<1>5. x = g \o <<r>>
  BY <1>1 DEF Pair
<1>6. g \o <<r>> \in Seq(Bytes) /\ Len(g \o <<r>>) = i + 1 + j + 1
  <2> HIDE DEF g
  <2> QED  BY <1>4
<1>7. i + 1 + j + 1 = i + j + 2
  OBVIOUS
<1> HIDE DEF g
<1> QED  BY <1>5, <1>6, <1>7 DEF Words

\* A word of the stream is one of W with a byte of B behind it, when its
\* beginning and its last byte are.
LEMMA FollowedSpan ==
  ASSUME NEW s \in Seq(Bytes), NEW p \in Nat, NEW q \in (p + 1)..Len(s),
         NEW W, W \subseteq Seq(Bytes), NEW B, B \subseteq Bytes
  PROVE  Word(s, p, q) \in Followed(W, B) <=> Word(s, p, q - 1) \in W /\ s[q] \in B
<1>1. Word(s, p, q) = Append(Word(s, p, q - 1), s[q])
  BY WordLast
<1>2. Word(s, p, q - 1) \in Seq(Bytes) /\ s[q] \in Bytes
  <2>1. q - 1 \in p..Len(s) /\ q \in 1..Len(s)
    OBVIOUS
  <2> QED  BY <2>1, WordFacts, ElementOfSeq
<1>3. ASSUME NEW w \in W, NEW b \in B, Word(s, p, q) = Append(w, b)
      PROVE  w = Word(s, p, q - 1) /\ b = s[q]
  <2>1. w \in Seq(Bytes) /\ b \in Bytes
    OBVIOUS
  <2>2. Append(w, b) = Append(Word(s, p, q - 1), s[q])
    BY <1>1, <1>3
  <2> QED  BY <1>2, <2>1, <2>2, AppendInjective
<1> QED  BY <1>1, <1>3 DEF Followed

\* A word with a pair is one of those, when its parts are as they should be.
LEMMA EnclosingParts ==
  \A n \in Nat : \A W, In : \A l, r, a, b \in Bytes : \A u, v \in Seq(Bytes) :
     W \subseteq Words(n) /\ In \subseteq Seq(Bytes) /\ Len(u) = n
     => (Pair(u, a, v, b) \in Enclosing(W, l, In, r)
            <=> u \in W /\ a = l /\ v \in In /\ b = r)
<1> SUFFICES ASSUME NEW n \in Nat, NEW W, NEW In, NEW l \in Bytes, NEW r \in Bytes,
                    NEW a \in Bytes, NEW b \in Bytes, NEW u \in Seq(Bytes),
                    NEW v \in Seq(Bytes), W \subseteq Words(n),
                    In \subseteq Seq(Bytes), Len(u) = n
             PROVE  Pair(u, a, v, b) \in Enclosing(W, l, In, r)
                       <=> u \in W /\ a = l /\ v \in In /\ b = r
  OBVIOUS
<1>1. ASSUME Pair(u, a, v, b) \in Enclosing(W, l, In, r)
      PROVE  u \in W /\ a = l /\ v \in In /\ b = r
  <2>1. PICK w \in W, o \in In : Pair(u, a, v, b) = Pair(w, l, o, r)
    BY <1>1 DEF Enclosing
  <2>2. w \in Seq(Bytes) /\ Len(w) = Len(u) /\ o \in Seq(Bytes)
    BY DEF Words
  <2>3. u = w /\ a = l /\ v = o /\ b = r
    BY <2>1, <2>2, PairUniqueBytes
  <2> QED  BY <2>3
<1>2. ASSUME u \in W, a = l, v \in In, b = r
      PROVE  Pair(u, a, v, b) \in Enclosing(W, l, In, r)
  BY <1>2 DEF Enclosing
<1> QED  BY <1>1, <1>2

\* A word of the stream has a pair at places m and q, when what is before the
\* pair, what is inside, and the two bytes are as they should be.
LEMMA EnclosingSpan ==
  ASSUME NEW s \in Seq(Bytes), NEW p \in Nat, NEW q \in p..Len(s),
         NEW m \in (p + 1)..(q - 1), NEW l \in Bytes, NEW r \in Bytes,
         NEW W, W \subseteq Words(m - 1 - p), NEW In, In \subseteq Seq(Bytes)
  PROVE  Word(s, p, q) \in Enclosing(W, l, In, r)
            <=> /\ Word(s, p, m - 1) \in W /\ s[m] = l
                /\ Word(s, m, q - 1) \in In /\ s[q] = r
<1> DEFINE head == Word(s, p, m - 1)
           body == Word(s, m, q - 1)
<1>1. Word(s, p, q) = Pair(head, s[m], body, s[q])
  BY WordPair
<1>2. /\ head \in Seq(Bytes) /\ Len(head) = m - 1 - p /\ body \in Seq(Bytes)
      /\ s[m] \in Bytes /\ s[q] \in Bytes /\ m - 1 - p \in Nat
  <2>1. /\ m - 1 \in p..Len(s) /\ m \in Nat /\ q - 1 \in m..Len(s)
        /\ q \in 1..Len(s) /\ m \in 1..Len(s) /\ m - 1 - p \in Nat
    OBVIOUS
  <2> QED  BY <2>1, WordFacts, ElementOfSeq, ZenonT(60)
<1> HIDE DEF head, body
<1>3. \A a, b \in Bytes : Pair(head, a, body, b) \in Enclosing(W, l, In, r)
                             <=> head \in W /\ a = l /\ body \in In /\ b = r
  <2> DEFINE n == m - 1 - p
  <2>1. n \in Nat /\ W \subseteq Words(n) /\ Len(head) = n
    BY <1>2
  <2> HIDE DEF n
  <2> QED  BY <1>2, <2>1, EnclosingParts
<1>4. Pair(head, s[m], body, s[q]) \in Enclosing(W, l, In, r)
         <=> head \in W /\ s[m] = l /\ body \in In /\ s[q] = r
  BY <1>2, <1>3, Zenon
<1> QED  BY <1>1, <1>4, Zenon DEF head, body

\* The inside of a string has the bytes its definition counts.
LEMMA StringBodyWords == \A n \in 0..MaxMsg : StringBody[n] \subseteq Words(n)
<1> DEFINE Bad == {n \in 0..MaxMsg : ~(StringBody[n] \subseteq Words(n))}
<1> SUFFICES ASSUME Bad # {} PROVE FALSE
  OBVIOUS
<1>1. PICK n \in Bad : \A k \in Bad : n <= k
  <2> HIDE DEF Bad
  <2>1. Bad \subseteq Nat
    BY DEF Bad
  <2> QED  BY <2>1, NatMinimum
<1>2. n \in 0..MaxMsg /\ n \in Nat /\ MaxMsg \in Nat
  BY <1>1, FramerAssumption
<1>3. \A k \in 0..(n - 1) : StringBody[k] \subseteq Words(k)
  <2> SUFFICES ASSUME NEW k \in 0..(n - 1), k \notin Bad
               PROVE  StringBody[k] \subseteq Words(k)
    <3>1. \A k \in 0..(n - 1) : k \notin Bad
      <4> HIDE DEF Bad
      <4> QED  BY <1>1, <1>2
    <3> QED  BY <3>1
  <2>1. k \in 0..MaxMsg
    BY <1>2
  <2> QED  BY <2>1
<1>4. StringBody[n] = StringStep(StringBody, n)
  BY <1>2, StringBodyUnfolds
<1>5. StringBody[n] \subseteq Words(n)
  <2>1. CASE n = 0
    <3>1. <<>> \in Words(0)
      BY DEF Words
    <3> QED  BY <1>4, <2>1, <3>1 DEF StringStep
  <2>2. CASE n # 0
    <3>1. n - 1 \in 0..(n - 1) /\ n - 1 + 1 = n /\ n - 1 \in Nat
      BY <1>2, <2>2
    <3>2. Followed(StringBody[n - 1], Bytes \ {"quote", "backslash"}) \subseteq Words(n)
      <4>1. Bytes \ {"quote", "backslash"} \subseteq Bytes
        OBVIOUS
      <4>2. StringBody[n - 1] \subseteq Words(n - 1)
        BY <1>3, <3>1
      <4> QED  BY <3>1, <4>1, <4>2, FollowedWords
    <3>3. n # 1 => Followed(Followed(StringBody[n - 2], {"backslash"}), Bytes) \subseteq Words(n)
      <4> SUFFICES ASSUME n # 1
                   PROVE  Followed(Followed(StringBody[n - 2], {"backslash"}), Bytes)
                             \subseteq Words(n)
        OBVIOUS
      <4>1. n - 2 \in 0..(n - 1) /\ n - 2 + 1 = n - 1 /\ n - 2 \in Nat
        BY <1>2, <2>2
      <4>2. {"backslash"} \subseteq Bytes
        BY DEF Bytes
      <4>3. StringBody[n - 2] \subseteq Words(n - 2)
        BY <1>3, <4>1
      <4>4. Followed(StringBody[n - 2], {"backslash"}) \subseteq Words(n - 1)
        BY <4>1, <4>2, <4>3, FollowedWords
      <4> QED  BY <3>1, <4>4, FollowedWords
    <3> QED  BY <1>4, <2>2, <3>2, <3>3 DEF StringStep
  <2> QED  BY <2>1, <2>2
<1> QED  BY <1>1, <1>5

\* The inside of an object has the bytes its definition counts.
LEMMA ObjectBodyWords == \A n \in 0..MaxMsg : ObjectBody[n] \subseteq Words(n)
<1> DEFINE Bad == {n \in 0..MaxMsg : ~(ObjectBody[n] \subseteq Words(n))}
<1> SUFFICES ASSUME Bad # {} PROVE FALSE
  OBVIOUS
<1>1. PICK n \in Bad : \A k \in Bad : n <= k
  <2> HIDE DEF Bad
  <2>1. Bad \subseteq Nat
    BY DEF Bad
  <2> QED  BY <2>1, NatMinimum
<1>2. n \in 0..MaxMsg /\ n \in Nat /\ MaxMsg \in Nat
  BY <1>1, FramerAssumption
<1>3. \A k \in 0..(n - 1) : ObjectBody[k] \subseteq Words(k)
  <2> SUFFICES ASSUME NEW k \in 0..(n - 1), k \notin Bad
               PROVE  ObjectBody[k] \subseteq Words(k)
    <3>1. \A k \in 0..(n - 1) : k \notin Bad
      <4> HIDE DEF Bad
      <4> QED  BY <1>1, <1>2
    <3> QED  BY <3>1
  <2>1. k \in 0..MaxMsg
    BY <1>2
  <2> QED  BY <2>1
<1>4. ObjectBody[n] = ObjectStep(ObjectBody, n)
  BY <1>2, ObjectBodyUnfolds
<1>5. ObjectBody[n] \subseteq Words(n)
  <2>1. CASE n = 0
    <3>1. <<>> \in Words(0)
      BY DEF Words
    <3> QED  BY <1>4, <2>1, <3>1 DEF ObjectStep
  <2>2. CASE n # 0
    <3>1. n - 1 \in 0..(n - 1) /\ n - 1 + 1 = n /\ n - 1 \in Nat
      BY <1>2, <2>2
    <3>2. Followed(ObjectBody[n - 1], {"sep", "other", "backslash"}) \subseteq Words(n)
      <4>1. {"sep", "other", "backslash"} \subseteq Bytes
        BY DEF Bytes
      <4>2. ObjectBody[n - 1] \subseteq Words(n - 1)
        BY <1>3, <3>1
      <4> QED  BY <3>1, <4>1, <4>2, FollowedWords
    <3>3. ASSUME NEW k \in 2..n PROVE Pairs(ObjectBody, n, k) \subseteq Words(n)
      <4>1. /\ n - k \in 0..(n - 1) /\ k - 2 \in 0..(n - 1) /\ k - 2 \in 0..MaxMsg
            /\ n - k \in Nat /\ k - 2 \in Nat /\ (n - k) + (k - 2) + 2 = n
        BY <1>2
      <4>2. /\ ObjectBody[n - k] \subseteq Words(n - k)
            /\ ObjectBody[k - 2] \subseteq Words(k - 2)
            /\ StringBody[k - 2] \subseteq Words(k - 2)
        BY <1>3, <4>1, StringBodyWords
      <4>3. "open" \in Bytes /\ "close" \in Bytes /\ "quote" \in Bytes
        BY DEF Bytes
      <4>4. Enclosing(ObjectBody[n - k], "quote", StringBody[k - 2], "quote")
               \subseteq Words((n - k) + (k - 2) + 2)
        BY <4>1, <4>2, <4>3, EnclosingWords
      <4>5. Enclosing(ObjectBody[n - k], "open", ObjectBody[k - 2], "close")
               \subseteq Words((n - k) + (k - 2) + 2)
        BY <4>1, <4>2, <4>3, EnclosingWords
      <4> QED  BY <4>1, <4>4, <4>5 DEF Pairs
    <3> QED  BY <1>4, <2>2, <3>2, <3>3 DEF ObjectStep
  <2> QED  BY <2>1, <2>2
<1> QED  BY <1>1, <1>5
-----------------------------------------------------------------------------
(* The reference, read off the stream                                      *)

Str(s, p, q) == Word(s, p, q) \in StringBody[q - p]
Obj(s, p, q) == Word(s, p, q) \in ObjectBody[q - p]
PlainBytes == {"sep", "other", "backslash"}

\* An empty word has nothing in it.
LEMMA EmptyWord ==
  ASSUME NEW s \in Seq(Bytes), NEW p \in Nat PROVE Word(s, p, p) = <<>>
BY SubSeqEmpty DEF Word

\* A word is the inside of a string by its last byte, or its last two.
LEMMA StrSpan ==
  ASSUME NEW s \in Seq(Bytes), NEW p \in Nat, NEW q \in p..Len(s),
         q - p <= MaxMsg
  PROVE  Str(s, p, q) <=>
            \/ q = p
            \/ q > p /\ Str(s, p, q - 1) /\ s[q] \notin {"quote", "backslash"}
            \/ q > p + 1 /\ Str(s, p, q - 2) /\ s[q - 1] = "backslash"
<1>0. q - p \in 0..MaxMsg /\ MaxMsg \in Nat /\ Len(s) \in Nat
  BY FramerAssumption
<1>1. StringBody[q - p] = StringStep(StringBody, q - p)
  BY <1>0, StringBodyUnfolds
<1>2. CASE q = p
  <2>1. StringStep(StringBody, q - p) = {<<>>}
    BY <1>2 DEF StringStep
  <2> QED  BY <1>1, <1>2, <2>1, EmptyWord DEF Str
<1>3. CASE q > p
  <2>1. /\ q - p # 0 /\ q \in (p + 1)..Len(s) /\ q \in 1..Len(s)
        /\ (q - p) - 1 = (q - 1) - p /\ (q - p) - 2 = (q - 2) - p
        /\ (q - 1) - p \in 0..MaxMsg
    BY <1>0, <1>3
  <2>2. s[q] \in Bytes
    BY <2>1, ElementOfSeq
  <2>3. StringBody[(q - p) - 1] \subseteq Seq(Bytes)
    BY <2>1, StringBodyWords DEF Words
  <2>4. Word(s, p, q) \in Followed(StringBody[(q - p) - 1], Bytes \ {"quote", "backslash"})
           <=> Str(s, p, q - 1) /\ s[q] \notin {"quote", "backslash"}
    <3>1. Bytes \ {"quote", "backslash"} \subseteq Bytes
      OBVIOUS
    <3>2. Word(s, p, q) \in Followed(StringBody[(q - p) - 1], Bytes \ {"quote", "backslash"})
             <=> /\ Word(s, p, q - 1) \in StringBody[(q - p) - 1]
                 /\ s[q] \in Bytes \ {"quote", "backslash"}
      BY <2>1, <2>3, <3>1, FollowedSpan, SMTT(30)
    <3> QED  BY <2>1, <2>2, <3>2 DEF Str
  <2>5. CASE q - p = 1
    <3>1. StringStep(StringBody, q - p) =
             Followed(StringBody[(q - p) - 1], Bytes \ {"quote", "backslash"})
      BY <2>5 DEF StringStep
    <3>2. ~(q > p + 1)
      BY <2>5
    <3> QED  BY <1>1, <1>3, <2>4, <3>1, <3>2 DEF Str
  <2>6. CASE q - p # 1
    <3>1. /\ q > p + 1 /\ (q - 2) - p \in 0..MaxMsg
          /\ q - 1 \in (p + 1)..Len(s) /\ (q - 1) - 1 = q - 2
      BY <1>0, <1>3, <2>6
    <3>2. StringBody[(q - p) - 2] \subseteq Words((q - p) - 2) /\ (q - p) - 2 \in Nat
      BY <2>1, <3>1, StringBodyWords
    <3>3. {"backslash"} \subseteq Bytes
      BY DEF Bytes
    <3> DEFINE W == Followed(StringBody[(q - p) - 2], {"backslash"})
    <3>4. W \subseteq Seq(Bytes)
      BY <3>2, <3>3, FollowedWords DEF Words
    <3>5. Word(s, p, q - 1) \in W
             <=> Word(s, p, (q - 1) - 1) \in StringBody[(q - p) - 2]
                 /\ s[q - 1] \in {"backslash"}
      <4> DEFINE B == StringBody[(q - p) - 2]
                 z == q - 1
      <4>1. B \subseteq Seq(Bytes) /\ z \in (p + 1)..Len(s)
        BY <3>1, <3>2 DEF Words
      <4> HIDE DEF B, z
      <4>2. Word(s, p, z) \in Followed(B, {"backslash"})
               <=> Word(s, p, z - 1) \in B /\ s[z] \in {"backslash"}
        BY <3>3, <4>1, FollowedSpan
      <4> QED  BY <4>2 DEF B, z
    <3> HIDE DEF W
    <3>6. Word(s, p, q) \in Followed(W, Bytes)
             <=> Word(s, p, q - 1) \in W /\ s[q] \in Bytes
      BY <2>1, <3>4, FollowedSpan
    <3>7. Word(s, p, q) \in Followed(W, Bytes)
             <=> Str(s, p, q - 2) /\ s[q - 1] = "backslash"
      BY <2>1, <2>2, <3>1, <3>5, <3>6 DEF Str
    <3>8. StringStep(StringBody, q - p) =
             Followed(StringBody[(q - p) - 1], Bytes \ {"quote", "backslash"})
             \cup Followed(W, Bytes)
      BY <2>1, <2>6 DEF StringStep, W
    <3>9. Str(s, p, q) <=>
             \/ Word(s, p, q) \in Followed(StringBody[(q - p) - 1],
                                          Bytes \ {"quote", "backslash"})
             \/ Word(s, p, q) \in Followed(W, Bytes)
      BY <1>1, <3>8 DEF Str
    <3>10. q # p
      BY <1>3
    <3> QED  BY <1>3, <2>4, <3>1, <3>7, <3>9, <3>10
  <2> QED  BY <2>5, <2>6
<1> QED  BY <1>0, <1>2, <1>3

\* A word is the inside of an object by its last byte, or by the pair that
\* its last byte closes.
LEMMA ObjSpan ==
  ASSUME NEW s \in Seq(Bytes), NEW p \in Nat, NEW q \in p..Len(s),
         q - p <= MaxMsg
  PROVE  Obj(s, p, q) <=>
            \/ q = p
            \/ q > p /\ Obj(s, p, q - 1) /\ s[q] \in PlainBytes
            \/ \E m \in (p + 1)..(q - 1) :
                  /\ Obj(s, p, m - 1)
                  /\ \/ s[m] = "quote" /\ s[q] = "quote" /\ Str(s, m, q - 1)
                     \/ s[m] = "open" /\ s[q] = "close" /\ Obj(s, m, q - 1)
<1>0. q - p \in 0..MaxMsg /\ MaxMsg \in Nat /\ Len(s) \in Nat
  BY FramerAssumption
<1> DEFINE At2(m) == /\ Obj(s, p, m - 1)
                     /\ \/ s[m] = "quote" /\ s[q] = "quote" /\ Str(s, m, q - 1)
                        \/ s[m] = "open" /\ s[q] = "close" /\ Obj(s, m, q - 1)
<1>1. ObjectBody[q - p] = ObjectStep(ObjectBody, q - p)
  BY <1>0, ObjectBodyUnfolds
<1>2. CASE q = p
  <2>1. ObjectStep(ObjectBody, q - p) = {<<>>}
    BY <1>2 DEF ObjectStep
  <2> QED  BY <1>1, <1>2, <2>1, EmptyWord DEF Obj
<1>3. CASE q > p
  <2>1. /\ q - p # 0 /\ q \in (p + 1)..Len(s)
        /\ (q - p) - 1 = (q - 1) - p /\ (q - 1) - p \in 0..MaxMsg
    BY <1>0, <1>3
  <2>2. Word(s, p, q) \in Followed(ObjectBody[(q - p) - 1], PlainBytes)
           <=> Obj(s, p, q - 1) /\ s[q] \in PlainBytes
    <3>1. PlainBytes \subseteq Bytes
      BY DEF PlainBytes, Bytes
    <3>2. ObjectBody[(q - p) - 1] \subseteq Seq(Bytes)
      BY <2>1, ObjectBodyWords DEF Words
    <3>3. Word(s, p, q) \in Followed(ObjectBody[(q - p) - 1], PlainBytes)
             <=> /\ Word(s, p, q - 1) \in ObjectBody[(q - p) - 1]
                 /\ s[q] \in PlainBytes
      BY <2>1, <3>1, <3>2, FollowedSpan
    <3> QED  BY <2>1, <3>3 DEF Obj
  <2>3. ASSUME NEW k \in 2..(q - p), NEW m \in Nat, m = q - k + 1
        PROVE  m \in (p + 1)..(q - 1)
               /\ (Word(s, p, q) \in Pairs(ObjectBody, q - p, k) <=> At2(m))
    <3>1. /\ m \in (p + 1)..(q - 1) /\ (q - p) - k = m - 1 - p
          /\ k - 2 = (q - 1) - m /\ m - 1 - p \in 0..MaxMsg
          /\ (q - 1) - m \in 0..MaxMsg /\ (m - 1) - p = m - 1 - p
      BY <1>0, <2>3
    <3>2. ObjectBody[m - 1 - p] \subseteq Words(m - 1 - p)
      BY <3>1, ObjectBodyWords
    <3>3. /\ ObjectBody[(q - 1) - m] \subseteq Seq(Bytes)
          /\ StringBody[(q - 1) - m] \subseteq Seq(Bytes)
      BY <3>1, ObjectBodyWords, StringBodyWords DEF Words
    <3>4. "open" \in Bytes /\ "close" \in Bytes /\ "quote" \in Bytes
      BY DEF Bytes
    <3> DEFINE W == ObjectBody[m - 1 - p]
               O == ObjectBody[(q - 1) - m]
               S == StringBody[(q - 1) - m]
    <3> HIDE DEF W, O, S
    <3>5. Word(s, p, q) \in Enclosing(W, "quote", S, "quote")
             <=> /\ Word(s, p, m - 1) \in W /\ s[m] = "quote"
                 /\ Word(s, m, q - 1) \in S /\ s[q] = "quote"
      <4>1. W \subseteq Words(m - 1 - p) /\ S \subseteq Seq(Bytes)
        BY <3>2, <3>3 DEF W, S
      <4> QED  BY <3>1, <3>4, <4>1, EnclosingSpan
    <3>6. Word(s, p, q) \in Enclosing(W, "open", O, "close")
             <=> /\ Word(s, p, m - 1) \in W /\ s[m] = "open"
                 /\ Word(s, m, q - 1) \in O /\ s[q] = "close"
      <4>1. W \subseteq Words(m - 1 - p) /\ O \subseteq Seq(Bytes)
        BY <3>2, <3>3 DEF W, O
      <4> QED  BY <3>1, <3>4, <4>1, EnclosingSpan, ZenonT(60)
    <3>7. Pairs(ObjectBody, q - p, k) =
             Enclosing(W, "quote", S, "quote") \cup Enclosing(W, "open", O, "close")
      BY <3>1 DEF Pairs, W, S, O
    <3>8. /\ Obj(s, p, m - 1) <=> Word(s, p, m - 1) \in W
          /\ Obj(s, m, q - 1) <=> Word(s, m, q - 1) \in O
          /\ Str(s, m, q - 1) <=> Word(s, m, q - 1) \in S
      BY <3>1 DEF Obj, Str, W, S, O
    <3> QED  BY <3>1, <3>5, <3>6, <3>7, <3>8
  <2>4. (\E k \in 2..(q - p) : Word(s, p, q) \in Pairs(ObjectBody, q - p, k))
           <=> \E m \in (p + 1)..(q - 1) : At2(m)
    <3>1. \A k \in 2..(q - p) : q - k + 1 \in Nat
      BY <1>0
    <3>2. \A m \in (p + 1)..(q - 1) : q - m + 1 \in 2..(q - p)
                                      /\ m = q - (q - m + 1) + 1 /\ m \in Nat
      BY <1>0
    <3> HIDE DEF At2
    <3>3. \A k \in 2..(q - p) :
             /\ q - k + 1 \in (p + 1)..(q - 1)
             /\ Word(s, p, q) \in Pairs(ObjectBody, q - p, k) <=> At2(q - k + 1)
      BY <2>3, <3>1
    <3>4. \A m \in (p + 1)..(q - 1) :
             Word(s, p, q) \in Pairs(ObjectBody, q - p, q - m + 1) <=> At2(m)
      BY <2>3, <3>2
    <3> QED  BY <3>2, <3>3, <3>4
  <2>5. Word(s, p, q) \in ObjectStep(ObjectBody, q - p)
           <=> \/ Word(s, p, q) \in Followed(ObjectBody[(q - p) - 1], PlainBytes)
               \/ \E k \in 2..(q - p) : Word(s, p, q) \in Pairs(ObjectBody, q - p, k)
    BY <2>1 DEF ObjectStep, PlainBytes
  <2> QED  BY <1>1, <1>3, <2>2, <2>4, <2>5 DEF Obj
<1> QED  BY <1>0, <1>2, <1>3

\* A word is a message by its first and last byte and what they enclose.
LEMMA MessageSpan ==
  ASSUME NEW s \in Seq(Bytes), NEW p \in Nat, NEW q \in p..Len(s)
  PROVE  Word(s, p, q) \in Messages <=>
            /\ q - p <= MaxMsg /\ p + 1 < q
            /\ s[p + 1] = "open" /\ s[q] = "close" /\ Obj(s, p + 1, q - 1)
<1>0. MaxMsg \in Nat /\ Len(s) \in Nat /\ "open" \in Bytes /\ "close" \in Bytes
  BY FramerAssumption DEF Bytes
<1>1. {<<>>} \subseteq Words(0)
  BY DEF Words
<1>2. ASSUME NEW n \in Nat, n + 2 <= MaxMsg, q - p = n + 2,
             NEW m \in (p + 1)..(q - 1), m = p + 1
      PROVE  Word(s, p, q) \in Enclosing({<<>>}, "open", ObjectBody[n], "close")
                <=> s[m] = "open" /\ s[q] = "close" /\ Obj(s, m, q - 1)
  <2>1. /\ m \in (p + 1)..(q - 1) /\ m - 1 - p = 0 /\ (q - 1) - m = n
        /\ n \in 0..MaxMsg /\ m - 1 = p
    BY <1>0, <1>2
  <2>2. ObjectBody[n] \subseteq Seq(Bytes)
    BY <2>1, ObjectBodyWords DEF Words
  <2>3. Word(s, p, m - 1) = <<>>
    BY <2>1, EmptyWord
  <2>4. {<<>>} \subseteq Words(m - 1 - p)
    BY <1>1, <2>1
  <2> DEFINE W == {<<>>}
             O == ObjectBody[n]
  <2> HIDE DEF W, O
  <2>5. Word(s, p, q) \in Enclosing(W, "open", O, "close")
           <=> /\ Word(s, p, m - 1) \in W /\ s[m] = "open"
               /\ Word(s, m, q - 1) \in O /\ s[q] = "close"
    <3>1. W \subseteq Words(m - 1 - p) /\ O \subseteq Seq(Bytes)
      BY <2>2, <2>4 DEF W, O
    <3>2. "open" \in Bytes /\ "close" \in Bytes
      BY <1>0
    <3>3. /\ m \in (p + 1)..(q - 1) /\ (q - p) - (n + 2) = m - 1 - p
          /\ n = (q - 1) - m /\ m - 1 - p \in 0..MaxMsg
          /\ (q - 1) - m \in 0..MaxMsg /\ (m - 1) - p = m - 1 - p
      BY <1>0, <1>2, <2>1
    <3> QED  BY <3>1, <3>2, <3>3, EnclosingSpan, ZenonT(60)
  <2> QED  BY <2>1, <2>3, <2>5 DEF Obj, W, O
<1>3. ASSUME Word(s, p, q) \in Messages
      PROVE  /\ q - p <= MaxMsg /\ p + 1 < q
             /\ s[p + 1] = "open" /\ s[q] = "close" /\ Obj(s, p + 1, q - 1)
  <2>1. PICK n \in {k \in 0..MaxMsg : k + 2 <= MaxMsg} :
           Word(s, p, q) \in Enclosing({<<>>}, "open", ObjectBody[n], "close")
    BY <1>3 DEF Messages
  <2>2. n \in 0..MaxMsg /\ n \in Nat /\ n + 2 <= MaxMsg /\ 0 + n + 2 = n + 2
    BY <1>0
  <2>3. ObjectBody[n] \subseteq Words(n) /\ 0 \in Nat
    BY <2>2, ObjectBodyWords
  <2>4. Word(s, p, q) \in Words(0 + n + 2)
    BY <1>0, <1>1, <2>1, <2>2, <2>3, EnclosingWords
  <2>5. q - p = n + 2
    BY <2>2, <2>4, WordFacts DEF Words
  <2>6. p + 1 \in (p + 1)..(q - 1) /\ q - p <= MaxMsg /\ p + 1 < q
    BY <1>0, <2>2, <2>5
  <2> QED  BY <1>2, <2>1, <2>2, <2>5, <2>6
<1>4. ASSUME q - p <= MaxMsg, p + 1 < q,
             s[p + 1] = "open", s[q] = "close", Obj(s, p + 1, q - 1)
      PROVE  Word(s, p, q) \in Messages
  <2> DEFINE n == q - p - 2
  <2>1. n \in Nat /\ n + 2 <= MaxMsg /\ q - p = n + 2 /\ n \in 0..MaxMsg
    BY <1>0, <1>4
  <2> HIDE DEF n
  <2>2. Word(s, p, q) \in Enclosing({<<>>}, "open", ObjectBody[n], "close")
    <3>1. p + 1 \in (p + 1)..(q - 1)
      BY <1>0, <1>4
    <3> QED  BY <1>2, <1>4, <2>1, <3>1
  <2> QED  BY <2>1, <2>2 DEF Messages
<1> QED  BY <1>3, <1>4
-----------------------------------------------------------------------------
(* The scanner's way and the reference                                     *)

\* From place p to place q every byte was taken as one inside a message.
Path(s, t, p, q) == \A i \in p..(q - 1) : Moves(t[i], s[i + 1], t[i + 1])

\* A set of numbers below a bound has a greatest one.
LEMMA NatMaximum ==
  ASSUME NEW k \in Nat, NEW T, T \subseteq 0..k, T # {}
  PROVE  \E m \in T : \A n \in T : n <= m
<1> DEFINE U == {k - n : n \in T}
<1>1. U \subseteq Nat /\ U # {}
  <2>1. \A n \in T : n \in 0..k /\ k - n \in Nat
    OBVIOUS
  <2>2. U \subseteq Nat
    BY <2>1
  <2>3. PICK n : n \in T
    OBVIOUS
  <2>4. k - n \in U
    BY <2>3
  <2> QED  BY <2>2, <2>4
<1>2. PICK u \in U : \A v \in U : u <= v
  <2> HIDE DEF U
  <2> QED  BY <1>1, NatMinimum
<1>3. PICK m \in T : u = k - m
  BY <1>2
<1>4. ASSUME NEW n \in T PROVE n <= m
  <2>1. k - n \in U
    OBVIOUS
  <2>2. k - m <= k - n
    BY <1>2, <1>3, <2>1
  <2>3. n \in 0..k /\ m \in 0..k
    BY <1>3
  <2> QED  BY <2>2, <2>3
<1> QED  BY <1>4

\* Where one byte leads to, case by case.
Leads(x, b, y) ==
    /\ x.deep \in Nat /\ y.deep \in Nat /\ b \in Bytes
    /\ x.mode \in {"object", "string", "escape"}
    /\ y.mode \in {"object", "string", "escape"}
    /\ x.mode # "object" => y.deep = x.deep
    /\ x.mode = "escape" => y.mode = "string"
    /\ x.mode = "string" =>
         /\ b = "quote" => y.mode = "object"
         /\ b = "backslash" => y.mode = "escape"
         /\ b \notin {"quote", "backslash"} => y.mode = "string"
    /\ x.mode = "object" =>
         /\ b = "quote" => y.mode = "string" /\ y.deep = x.deep
         /\ b # "quote" => y.mode = "object"
         /\ b = "open" => y.deep = x.deep + 1
         /\ b = "close" => y.deep = x.deep - 1
         /\ b \in PlainBytes => y.deep = x.deep

\* A move leads where the table says.
LEMMA MoveLeads ==
  ASSUME NEW x \in Marks, NEW y \in Marks, NEW b \in Bytes, Moves(x, b, y)
  PROVE  Leads(x, b, y)
<1> USE DEF Marks, Modes, Bytes, Moves, PlainBytes, Leads
<1>0. x.deep \in Nat /\ y.deep \in Nat /\ x.mode \in Modes /\ y.mode \in Modes
  OBVIOUS
<1>1. CASE x.mode = "object"
  BY <1>0, <1>1
<1>2. CASE x.mode = "string"
  BY <1>0, <1>2
<1>3. CASE x.mode = "escape"
  BY <1>0, <1>3
<1> QED  BY <1>0, <1>1, <1>2, <1>3

\* A part of a path is a path.
LEMMA PathPart ==
  ASSUME NEW s, NEW t, NEW p \in Nat, NEW q \in Nat, Path(s, t, p, q),
         NEW i \in p..q, NEW j \in i..q
  PROVE  Path(s, t, i, j)
BY DEF Path

\* Each step of a path is a move.
LEMMA PathStep ==
  ASSUME NEW s \in Seq(Bytes), NEW t \in Seq(Marks), Len(t) <= Len(s),
         NEW p \in 1..Len(t), NEW q \in p..Len(t), Path(s, t, p, q),
         NEW i \in p..(q - 1)
  PROVE  Leads(t[i], s[i + 1], t[i + 1])
<1>1. i \in 1..Len(t) /\ i + 1 \in 1..Len(t) /\ i + 1 \in 1..Len(s)
  OBVIOUS
<1>2. t[i] \in Marks /\ t[i + 1] \in Marks /\ s[i + 1] \in Bytes
  BY <1>1, ElementOfSeq
<1>3. Moves(t[i], s[i + 1], t[i + 1])
  BY DEF Path
<1> QED  BY <1>2, <1>3, MoveLeads

\* A way through a string, never out of it, is the inside of a string.
LEMMA TrailIsString ==
  ASSUME NEW s \in Seq(Bytes), NEW t \in Seq(Marks), Len(t) <= Len(s),
         NEW p \in 1..Len(t), t[p].mode = "string"
  PROVE  \A q \in p..Len(t) :
            /\ q - p <= MaxMsg /\ Path(s, t, p, q)
            /\ \A i \in p..q : t[i].mode # "object"
            /\ t[q].mode = "string"
            => Str(s, p, q)
<1> DEFINE Ends(q) == /\ q - p <= MaxMsg /\ Path(s, t, p, q)
                      /\ \A i \in p..q : t[i].mode # "object"
                      /\ t[q].mode = "string"
           Bad == {q \in p..Len(t) : Ends(q) /\ ~Str(s, p, q)}
<1> SUFFICES ASSUME Bad # {} PROVE FALSE
  OBVIOUS
<1>1. PICK q \in Bad : \A k \in Bad : q <= k
  <2> HIDE DEF Bad
  <2>1. Bad \subseteq Nat
    BY DEF Bad
  <2> QED  BY <2>1, NatMinimum
<1>2. q \in p..Len(t) /\ Ends(q) /\ ~Str(s, p, q)
  BY <1>1
<1>3. Len(t) \in Nat /\ Len(s) \in Nat /\ MaxMsg \in Nat /\ p \in Nat
      /\ q \in p..Len(s) /\ q \in Nat
  BY <1>2, FramerAssumption
<1>4. \A k \in p..(q - 1) : Ends(k) => Str(s, p, k)
  <2>1. \A k \in p..(q - 1) : k \notin Bad /\ k \in p..Len(t)
    <3>1. \A k \in p..(q - 1) : k \in p..Len(t) /\ ~(q <= k)
      BY <1>2, <1>3
    <3> HIDE DEF Bad
    <3> QED  BY <1>1, <3>1
  <2> HIDE DEF Ends
  <2> QED  BY <2>1
<1>5. Str(s, p, q) <=>
         \/ q = p
         \/ q > p /\ Str(s, p, q - 1) /\ s[q] \notin {"quote", "backslash"}
         \/ q > p + 1 /\ Str(s, p, q - 2) /\ s[q - 1] = "backslash"
  BY <1>2, <1>3, StrSpan
<1>6. q > p
  BY <1>2, <1>3, <1>5
<1>7. Leads(t[q - 1], s[q], t[q])
  <2>1. q - 1 \in p..(q - 1) /\ (q - 1) + 1 = q
    BY <1>3, <1>6
  <2> QED  BY <1>2, <2>1, PathStep
<1>8. \A k \in p..(q - 1) : t[k].mode = "string" => Ends(k)
  <2> SUFFICES ASSUME NEW k \in p..(q - 1), t[k].mode = "string" PROVE Ends(k)
    OBVIOUS
  <2>1. k \in p..q /\ p \in p..q /\ k - p <= MaxMsg
    BY <1>2, <1>3
  <2>2. Path(s, t, p, k)
    BY <1>2, <1>3, <2>1, PathPart
  <2>3. \A i \in p..k : t[i].mode # "object"
    BY <1>2, <1>3
  <2> QED  BY <2>1, <2>2, <2>3
<1> HIDE DEF Ends
<1>9. CASE t[q - 1].mode = "string"
  <2>1. s[q] \notin {"quote", "backslash"}
    <3>1. t[q].mode = "string"
      BY <1>2 DEF Ends
    <3> QED  BY <1>7, <1>9, <3>1 DEF Leads
  <2>2. q - 1 \in p..(q - 1)
    BY <1>3, <1>6
  <2> QED  BY <1>2, <1>4, <1>5, <1>6, <1>8, <1>9, <2>1, <2>2
<1>10. CASE t[q - 1].mode = "escape"
  <2>1. q > p + 1
    <3>1. q # p + 1
      BY <1>10, <1>3
    <3> QED  BY <1>3, <1>6, <3>1
  <2>2. q - 2 \in p..(q - 1) /\ (q - 2) + 1 = q - 1 /\ q - 2 \in p..q
    BY <1>3, <2>1
  <2>3. Leads(t[q - 2], s[q - 1], t[q - 1])
    BY <1>2, <2>2, PathStep DEF Ends
  <2>4. t[q - 2].mode # "object"
    BY <1>2, <2>2 DEF Ends
  <2>5. t[q - 2].mode = "string" /\ s[q - 1] = "backslash"
    BY <1>10, <2>3, <2>4 DEF Leads
  <2> QED  BY <1>2, <1>4, <1>5, <1>8, <2>1, <2>2, <2>5
<1>11. t[q - 1].mode \in {"string", "escape"}
  <2>1. q - 1 \in p..q
    BY <1>3, <1>6
  <2> QED  BY <1>2, <1>7, <2>1 DEF Ends, Leads
<1> QED  BY <1>9, <1>10, <1>11

\* Through the inside of a string the scanner is back in the string, as deep
\* as before.
LEMMA StringIsTrail ==
  ASSUME NEW s \in Seq(Bytes), NEW t \in Seq(Marks), Len(t) <= Len(s),
         NEW p \in 1..Len(t), t[p].mode = "string"
  PROVE  \A q \in p..Len(t) :
            q - p <= MaxMsg /\ Path(s, t, p, q) /\ Str(s, p, q)
            => t[q].mode = "string" /\ t[q].deep = t[p].deep
<1> DEFINE Back(q) == t[q].mode = "string" /\ t[q].deep = t[p].deep
           Bad == {q \in p..Len(t) : /\ q - p <= MaxMsg /\ Path(s, t, p, q)
                                     /\ Str(s, p, q) /\ ~Back(q)}
<1> SUFFICES ASSUME Bad # {} PROVE FALSE
  OBVIOUS
<1>1. PICK q \in Bad : \A k \in Bad : q <= k
  <2> HIDE DEF Bad
  <2>1. Bad \subseteq Nat
    BY DEF Bad
  <2> QED  BY <2>1, NatMinimum
<1>2. /\ q \in p..Len(t) /\ q - p <= MaxMsg /\ Path(s, t, p, q)
      /\ Str(s, p, q) /\ ~Back(q)
  BY <1>1
<1>3. Len(t) \in Nat /\ Len(s) \in Nat /\ MaxMsg \in Nat /\ p \in Nat
      /\ q \in p..Len(s) /\ q \in Nat
  BY <1>2, FramerAssumption
<1>4. \A k \in p..(q - 1) : Str(s, p, k) => Back(k)
  <2> SUFFICES ASSUME NEW k \in p..(q - 1), Str(s, p, k) PROVE Back(k)
    OBVIOUS
  <2>1. k \in p..Len(t) /\ k - p <= MaxMsg /\ k \in p..q /\ p \in p..q /\ ~(q <= k)
    BY <1>2, <1>3
  <2>2. Path(s, t, p, k)
    BY <1>2, <1>3, <2>1, PathPart
  <2>3. k \notin Bad
    <3> HIDE DEF Bad
    <3> QED  BY <1>1, <2>1
  <2> HIDE DEF Back
  <2> QED  BY <2>1, <2>2, <2>3
<1>5. \/ q = p
      \/ q > p /\ Str(s, p, q - 1) /\ s[q] \notin {"quote", "backslash"}
      \/ q > p + 1 /\ Str(s, p, q - 2) /\ s[q - 1] = "backslash"
  BY <1>2, <1>3, StrSpan
<1>6. CASE q = p
  BY <1>2, <1>6
<1>7. CASE q > p /\ Str(s, p, q - 1) /\ s[q] \notin {"quote", "backslash"}
  <2>1. q - 1 \in p..(q - 1) /\ (q - 1) + 1 = q
    BY <1>3, <1>7
  <2>2. Leads(t[q - 1], s[q], t[q])
    BY <1>2, <2>1, PathStep
  <2>3. t[q - 1].mode = "string" /\ t[q - 1].deep = t[p].deep
    BY <1>4, <1>7, <2>1
  <2> QED  BY <1>2, <1>7, <2>2, <2>3 DEF Leads
<1>8. CASE q > p + 1 /\ Str(s, p, q - 2) /\ s[q - 1] = "backslash"
  <2>1. /\ q - 2 \in p..(q - 1) /\ (q - 2) + 1 = q - 1
        /\ q - 1 \in p..(q - 1) /\ (q - 1) + 1 = q
    <3>1. q > p + 1 /\ p \in Nat /\ q \in Nat
      BY <1>3, <1>8
    <3>2. q - 2 \in p..(q - 1) /\ q - 1 \in p..(q - 1)
      BY <3>1
    <3> QED  BY <3>1, <3>2, SMTT(30)
  <2>2. Leads(t[q - 1], s[q], t[q]) /\ Leads(t[q - 2], s[q - 1], t[q - 1])
    BY <1>2, <2>1, PathStep
  <2>3. t[q - 2].mode = "string" /\ t[q - 2].deep = t[p].deep
    BY <1>4, <1>8, <2>1
  <2>4. t[q - 1].mode = "escape" /\ t[q - 1].deep = t[p].deep
    BY <1>8, <2>2, <2>3 DEF Leads
  <2> QED  BY <1>2, <2>2, <2>4 DEF Leads
<1> QED  BY <1>5, <1>6, <1>7, <1>8

\* From p to q the scanner is in an object, and never above it.
Level(s, t, p, q) ==
    /\ Path(s, t, p, q)
    /\ t[p].mode = "object" /\ t[q].mode = "object" /\ t[q].deep = t[p].deep
    /\ \A i \in p..q : t[i].deep >= t[p].deep

\* A level that the last byte leaves for a deeper one: the byte that opened
\* the deeper one is an opening bracket, and both sides are levels.
LEMMA LevelClose ==
  ASSUME NEW s \in Seq(Bytes), NEW t \in Seq(Marks), Len(t) <= Len(s),
         NEW p \in 1..Len(t), NEW q \in (p + 1)..Len(t), Level(s, t, p, q),
         t[q - 1].mode = "object", s[q] = "close"
  PROVE  \E m \in (p + 1)..(q - 1) :
            s[m] = "open" /\ Level(s, t, p, m - 1) /\ Level(s, t, m, q - 1)
<1>0. /\ Len(t) \in Nat /\ p \in Nat /\ q \in Nat /\ q \in p..Len(t)
      /\ q - 1 \in p..(q - 1) /\ (q - 1) + 1 = q /\ q - 1 \in Nat
  OBVIOUS
<1> DEFINE d == t[p].deep
<1>1. d \in Nat /\ \A i \in p..q : t[i].deep \in Nat /\ t[i].deep >= d
  <2>1. \A i \in p..q : i \in 1..Len(t)
    BY <1>0
  <2>2. \A i \in p..q : t[i] \in Marks
    BY <2>1, ElementOfSeq
  <2>3. p \in p..q
    BY <1>0
  <2> QED  BY <2>2, <2>3 DEF Level, Marks
<1> HIDE DEF d
<1>2. t[q - 1].deep = d + 1
  <2>1. Leads(t[q - 1], s[q], t[q])
    BY <1>0, PathStep DEF Level
  <2>2. t[q].deep = d
    BY DEF Level, d
  <2> QED  BY <1>1, <2>1, <2>2 DEF Leads
<1> DEFINE T == {i \in p..(q - 1) : t[i].deep = d}
<1>3. PICK r \in T : \A i \in T : i <= r
  <2>1. p \in T
    BY <1>0 DEF d
  <2>2. T \subseteq 0..(q - 1)
    BY <1>0
  <2> HIDE DEF T
  <2> QED  BY <1>0, <2>1, <2>2, NatMaximum
<1>4. r \in p..(q - 1) /\ t[r].deep = d /\ r \in Nat
  BY <1>3
<1>5. r \in p..(q - 2) /\ r + 1 \in (p + 1)..(q - 1)
  <2>1. r # q - 1
    BY <1>1, <1>2, <1>4
  <2> QED  BY <1>0, <1>4, <2>1
<1>6. \A i \in (r + 1)..(q - 1) : t[i].deep >= d + 1
  <2> SUFFICES ASSUME NEW i \in (r + 1)..(q - 1) PROVE t[i].deep >= d + 1
    OBVIOUS
  <2>1. i \in p..(q - 1) /\ i \in p..q /\ ~(i <= r)
    BY <1>0, <1>4
  <2>2. t[i].deep # d
    BY <1>3, <2>1
  <2> QED  BY <1>1, <2>1, <2>2
<1>7. Leads(t[r], s[r + 1], t[r + 1])
  BY <1>0, <1>4, PathStep DEF Level
<1>8. t[r + 1].deep >= d + 1
  BY <1>5, <1>6
<1>9. /\ t[r].mode = "object" /\ s[r + 1] = "open"
      /\ t[r + 1].mode = "object" /\ t[r + 1].deep = d + 1
  BY <1>1, <1>4, <1>7, <1>8 DEF Leads, Bytes, PlainBytes
<1>10. Level(s, t, p, r)
  <2>1. Path(s, t, p, r)
    <3>1. p \in p..q /\ r \in p..q
      BY <1>0, <1>4
    <3> QED  BY <1>0, <3>1, PathPart DEF Level
  <2>2. \A i \in p..r : i \in p..q
    BY <1>0, <1>4
  <2> QED  BY <1>1, <1>4, <1>9, <2>1, <2>2 DEF Level, d
<1>11. Level(s, t, r + 1, q - 1)
  <2>1. Path(s, t, r + 1, q - 1)
    <3>1. r + 1 \in p..q /\ q - 1 \in (r + 1)..q
      BY <1>0, <1>5
    <3> QED  BY <1>0, <3>1, PathPart DEF Level
  <2> QED  BY <1>2, <1>6, <1>9, <2>1 DEF Level
<1>12. (r + 1) - 1 = r
  BY <1>4
<1> QED  BY <1>5, <1>9, <1>10, <1>11, <1>12

\* Between m and q - 1 the scanner is in a string that a quote at m opened
\* on the level of p.
Quoted(s, t, p, m, q) ==
    /\ s[m] = "quote" /\ Level(s, t, p, m - 1)
    /\ t[m].mode = "string" /\ Path(s, t, m, q - 1)
    /\ \A i \in m..(q - 1) : t[i].mode # "object"

\* A level that the last byte enters from a string: the byte that opened the
\* string is a quote, what is before it is a level, and between the two the
\* scanner was in the string.
LEMMA LevelQuote ==
  ASSUME NEW s \in Seq(Bytes), NEW t \in Seq(Marks), Len(t) <= Len(s),
         NEW p \in 1..Len(t), NEW q \in (p + 1)..Len(t), Level(s, t, p, q),
         t[q - 1].mode = "string"
  PROVE  s[q] = "quote" /\ \E m \in (p + 1)..(q - 1) : Quoted(s, t, p, m, q)
<1>0. /\ Len(t) \in Nat /\ p \in Nat /\ q \in Nat /\ q \in p..Len(t)
      /\ q - 1 \in p..(q - 1) /\ (q - 1) + 1 = q /\ q - 1 \in Nat
  OBVIOUS
<1> DEFINE d == t[p].deep
<1>1. d \in Nat /\ \A i \in p..q : t[i].deep \in Nat /\ t[i].deep >= d
  <2>1. \A i \in p..q : i \in 1..Len(t)
    BY <1>0
  <2>2. \A i \in p..q : t[i] \in Marks
    BY <2>1, ElementOfSeq
  <2>3. p \in p..q
    BY <1>0
  <2> QED  BY <2>2, <2>3 DEF Level, Marks
<1> HIDE DEF d
<1>2. s[q] = "quote" /\ t[q - 1].deep = d
  <2>1. Leads(t[q - 1], s[q], t[q])
    BY <1>0, PathStep DEF Level
  <2>2. t[q].deep = d /\ t[q].mode = "object"
    BY DEF Level, d
  <2> QED  BY <1>1, <2>1, <2>2 DEF Leads
<1> DEFINE T == {i \in p..(q - 1) : t[i].mode = "object"}
<1>3. PICK r \in T : \A i \in T : i <= r
  <2>1. p \in T
    BY <1>0 DEF Level
  <2>2. T \subseteq 0..(q - 1)
    BY <1>0
  <2> HIDE DEF T
  <2> QED  BY <1>0, <2>1, <2>2, NatMaximum
<1>4. r \in p..(q - 1) /\ t[r].mode = "object" /\ r \in Nat
  BY <1>3
<1>5. r \in p..(q - 2) /\ r + 1 \in (p + 1)..(q - 1)
  <2>1. r # q - 1
    BY <1>4
  <2> QED  BY <1>0, <1>4, <2>1
<1>6. \A i \in (r + 1)..(q - 1) : t[i].mode # "object"
  <2> SUFFICES ASSUME NEW i \in (r + 1)..(q - 1) PROVE t[i].mode # "object"
    OBVIOUS
  <2>1. i \in p..(q - 1) /\ ~(i <= r)
    BY <1>0, <1>4
  <2> QED  BY <1>3, <2>1
<1>7. Leads(t[r], s[r + 1], t[r + 1])
  BY <1>0, <1>4, PathStep DEF Level
<1>8. r + 1 \in (r + 1)..(q - 1)
  BY <1>0, <1>5
<1>9. s[r + 1] = "quote" /\ t[r + 1].mode = "string" /\ t[r + 1].deep = t[r].deep
  <2>1. t[r + 1].mode # "object"
    BY <1>6, <1>8
  <2> QED  BY <1>4, <1>7, <2>1 DEF Leads
<1>10. t[r].deep = d
  <2> DEFINE Z == {i \in r..(q - 1) : t[i].deep # d}
  <2> SUFFICES ASSUME Z # {} PROVE FALSE
    BY <1>0, <1>4
  <2>1. PICK z \in Z : \A i \in Z : i <= z
    <3>1. Z \subseteq 0..(q - 1)
      BY <1>0, <1>4
    <3> HIDE DEF Z
    <3> QED  BY <1>0, <3>1, NatMaximum
  <2>2. z \in r..(q - 1) /\ z \in Nat /\ t[z].deep # d /\ z # q - 1
    BY <1>2, <1>4, <2>1
  <2>3. z + 1 \in r..(q - 1) /\ ~(z + 1 <= z) /\ z \in p..(q - 1)
    BY <1>0, <1>4, <2>2
  <2>4. t[z + 1].deep = d
    BY <2>1, <2>3
  <2>5. Leads(t[z], s[z + 1], t[z + 1])
    BY <1>0, <2>3, PathStep DEF Level
  <2>6. CASE z = r
    BY <1>9, <2>2, <2>4, <2>6
  <2>7. CASE z # r
    <3>1. z \in (r + 1)..(q - 1)
      BY <1>4, <2>2, <2>7
    <3>2. t[z].mode # "object"
      BY <1>6, <3>1
    <3> QED  BY <2>2, <2>4, <2>5, <3>2 DEF Leads
  <2> QED  BY <2>6, <2>7
<1>11. Level(s, t, p, r)
  <2>1. Path(s, t, p, r)
    <3>1. p \in p..q /\ r \in p..q
      BY <1>0, <1>4
    <3> QED  BY <1>0, <3>1, PathPart DEF Level
  <2>2. \A i \in p..r : i \in p..q
    BY <1>0, <1>4
  <2>3. t[p].mode = "object"
    BY DEF Level
  <2> QED  BY <1>1, <1>4, <1>10, <2>1, <2>2, <2>3 DEF Level, d
<1>12. Path(s, t, r + 1, q - 1)
  <2>1. r + 1 \in p..q /\ q - 1 \in (r + 1)..q
    BY <1>0, <1>5
  <2> QED  BY <1>0, <2>1, PathPart DEF Level
<1>13. (r + 1) - 1 = r
  BY <1>4
<1>14. Quoted(s, t, p, r + 1, q)
  BY <1>6, <1>9, <1>11, <1>12, <1>13 DEF Quoted
<1> QED  BY <1>2, <1>5, <1>14

\* What the scanner crosses without leaving its level is the inside of an
\* object.
LEMMA TrailIsObject ==
  ASSUME NEW s \in Seq(Bytes), NEW t \in Seq(Marks), Len(t) <= Len(s)
  PROVE  \A p \in 1..Len(t) : \A q \in p..Len(t) :
            q - p <= MaxMsg /\ Level(s, t, p, q) => Obj(s, p, q)
<1> DEFINE Fails(p, q) == Level(s, t, p, q) /\ ~Obj(s, p, q)
           Bad == {n \in 0..MaxMsg : \E p \in 1..Len(t) : \E q \in p..Len(t) :
                                        q - p = n /\ Fails(p, q)}
<1>0. Len(t) \in Nat /\ Len(s) \in Nat /\ MaxMsg \in Nat
  BY FramerAssumption
<1> SUFFICES ASSUME Bad # {} PROVE FALSE
  <2>1. \A p \in 1..Len(t) : \A q \in p..Len(t) :
           q - p <= MaxMsg => q - p \in 0..MaxMsg
    BY <1>0
  <2> HIDE DEF Fails
  <2>2. \A p \in 1..Len(t) : \A q \in p..Len(t) : q - p <= MaxMsg => ~Fails(p, q)
    BY <2>1
  <2> QED  BY <2>2 DEF Fails
<1>1. PICK n \in Bad : \A k \in Bad : n <= k
  <2> HIDE DEF Bad
  <2>1. Bad \subseteq Nat
    BY DEF Bad
  <2> QED  BY <2>1, NatMinimum
<1>2. n \in 0..MaxMsg
  BY <1>1
<1>3. PICK p \in 1..Len(t) : \E q \in p..Len(t) : q - p = n /\ Fails(p, q)
  <2> HIDE DEF Fails
  <2> QED  BY <1>1
<1>4. PICK q \in p..Len(t) : q - p = n /\ Fails(p, q)
  BY <1>3
<1>5. \A i \in 1..Len(t) : \A j \in i..Len(t) :
         j - i < q - p /\ Level(s, t, i, j) => Obj(s, i, j)
  <2> HIDE DEF Fails
  <2> SUFFICES ASSUME NEW i \in 1..Len(t), NEW j \in i..Len(t), j - i < q - p
               PROVE  ~Fails(i, j)
    BY DEF Fails
  <2>1. j - i \in 0..MaxMsg /\ ~(n <= j - i)
    BY <1>0, <1>2, <1>4
  <2>2. j - i \notin Bad
    <3> HIDE DEF Bad
    <3> QED  BY <1>1, <2>1
  <2> QED  BY <2>1, <2>2
<1>6. Level(s, t, p, q) /\ ~Obj(s, p, q)
  BY <1>4
<1> HIDE DEF Fails, Bad
<1>7. /\ p \in Nat /\ q \in Nat /\ q \in p..Len(s) /\ q - p <= MaxMsg
  BY <1>0, <1>2, <1>4
<1>8. ~(\/ q = p
        \/ q > p /\ Obj(s, p, q - 1) /\ s[q] \in PlainBytes
        \/ \E m \in (p + 1)..(q - 1) :
              /\ Obj(s, p, m - 1)
              /\ \/ s[m] = "quote" /\ s[q] = "quote" /\ Str(s, m, q - 1)
                 \/ s[m] = "open" /\ s[q] = "close" /\ Obj(s, m, q - 1))
  BY <1>6, <1>7, ObjSpan
<1>9. q > p /\ q \in (p + 1)..Len(t)
  BY <1>0, <1>7, <1>8
<1>10. Leads(t[q - 1], s[q], t[q])
  <2>1. q - 1 \in p..(q - 1) /\ (q - 1) + 1 = q
    BY <1>7, <1>9
  <2> QED  BY <1>6, <2>1, PathStep DEF Level
<1>11. \A m \in (p + 1)..(q - 1) :
          /\ m - 1 \in p..Len(t) /\ (m - 1) - p < q - p
          /\ m \in 1..Len(t) /\ q - 1 \in m..Len(t) /\ (q - 1) - m < q - p
          /\ (q - 1) - m <= MaxMsg
  BY <1>0, <1>7, <1>9
<1>12. CASE t[q - 1].mode = "string"
  <2>1. s[q] = "quote" /\ \E m \in (p + 1)..(q - 1) : Quoted(s, t, p, m, q)
    BY <1>6, <1>9, <1>12, LevelQuote
  <2>2. PICK m \in (p + 1)..(q - 1) : Quoted(s, t, p, m, q)
    BY <2>1
  <2>3. Obj(s, p, m - 1)
    BY <1>5, <1>11, <2>2 DEF Quoted
  <2>4. Str(s, m, q - 1)
    BY <1>11, <1>12, <2>2, TrailIsString DEF Quoted
  <2> QED  BY <1>8, <2>1, <2>2, <2>3, <2>4 DEF Quoted
<1>13. CASE t[q - 1].mode = "object"
  <2>1. t[q].mode = "object" /\ t[q].deep = t[p].deep /\ t[q - 1].deep >= t[p].deep
    <3>1. q - 1 \in p..q
      BY <1>7, <1>9
    <3> QED  BY <1>6, <3>1 DEF Level
  <2>2. s[q] # "quote" /\ s[q] # "open"
    <3>1. t[p].deep \in Nat
      BY <1>10, <2>1 DEF Leads
    <3> QED  BY <1>10, <1>13, <2>1, <3>1 DEF Leads
  <2>3. CASE s[q] = "close"
    <3>1. PICK m \in (p + 1)..(q - 1) :
             s[m] = "open" /\ Level(s, t, p, m - 1) /\ Level(s, t, m, q - 1)
      BY <1>6, <1>9, <1>13, <2>3, LevelClose
    <3>2. Obj(s, p, m - 1)
      BY <1>5, <1>11, <3>1
    <3>3. Obj(s, m, q - 1)
      BY <1>5, <1>11, <3>1
    <3> QED  BY <1>8, <2>3, <3>1, <3>2, <3>3
  <2>4. CASE s[q] \in PlainBytes
    <3>1. t[q - 1].deep = t[p].deep
      BY <1>10, <1>13, <2>1, <2>4 DEF Leads
    <3>2. p \in p..q /\ q - 1 \in p..q /\ q - 1 \in p..Len(t) /\ (q - 1) - p < q - p
          /\ \A i \in p..(q - 1) : i \in p..q
      BY <1>0, <1>7, <1>9
    <3>3. Path(s, t, p, q - 1)
      BY <1>6, <1>7, <3>2, PathPart DEF Level
    <3>4. Level(s, t, p, q - 1)
      BY <1>6, <1>13, <3>1, <3>2, <3>3 DEF Level
    <3>5. Obj(s, p, q - 1)
      BY <1>5, <3>2, <3>4
    <3> QED  BY <1>8, <1>9, <2>4, <3>5
  <2>5. s[q] \in PlainBytes \cup {"open", "close", "quote"}
    BY <1>10 DEF Leads, Bytes, PlainBytes
  <2> QED  BY <2>2, <2>3, <2>4, <2>5
<1>14. t[q - 1].mode \in {"string", "object"}
  BY <1>6, <1>10 DEF Leads, Level
<1> QED  BY <1>12, <1>13, <1>14

\* Through the inside of an object the scanner is back where it was.
LEMMA ObjectIsTrail ==
  ASSUME NEW s \in Seq(Bytes), NEW t \in Seq(Marks), Len(t) <= Len(s)
  PROVE  \A p \in 1..Len(t) : \A q \in p..Len(t) :
            /\ q - p <= MaxMsg /\ Path(s, t, p, q)
            /\ t[p].mode = "object" /\ Obj(s, p, q)
            => t[q].mode = "object" /\ t[q].deep = t[p].deep
<1> DEFINE Fails(p, q) == /\ Path(s, t, p, q) /\ t[p].mode = "object" /\ Obj(s, p, q)
                          /\ ~(t[q].mode = "object" /\ t[q].deep = t[p].deep)
           Bad == {n \in 0..MaxMsg : \E p \in 1..Len(t) : \E q \in p..Len(t) :
                                        q - p = n /\ Fails(p, q)}
<1>0. Len(t) \in Nat /\ Len(s) \in Nat /\ MaxMsg \in Nat
  BY FramerAssumption
<1> SUFFICES ASSUME Bad # {} PROVE FALSE
  <2>1. \A p \in 1..Len(t) : \A q \in p..Len(t) :
           q - p <= MaxMsg => q - p \in 0..MaxMsg
    BY <1>0
  <2> HIDE DEF Fails
  <2>2. \A p \in 1..Len(t) : \A q \in p..Len(t) : q - p <= MaxMsg => ~Fails(p, q)
    BY <2>1
  <2> QED  BY <2>2 DEF Fails
<1>1. PICK n \in Bad : \A k \in Bad : n <= k
  <2> HIDE DEF Bad
  <2>1. Bad \subseteq Nat
    BY DEF Bad
  <2> QED  BY <2>1, NatMinimum
<1>2. n \in 0..MaxMsg
  BY <1>1
<1>3. PICK p \in 1..Len(t) : \E q \in p..Len(t) : q - p = n /\ Fails(p, q)
  <2> HIDE DEF Fails
  <2> QED  BY <1>1
<1>4. PICK q \in p..Len(t) : q - p = n /\ Fails(p, q)
  BY <1>3
<1>5. \A i \in 1..Len(t) : \A j \in i..Len(t) :
         /\ j - i < q - p /\ Path(s, t, i, j) /\ t[i].mode = "object" /\ Obj(s, i, j)
         => t[j].mode = "object" /\ t[j].deep = t[i].deep
  <2> HIDE DEF Fails
  <2> SUFFICES ASSUME NEW i \in 1..Len(t), NEW j \in i..Len(t), j - i < q - p
               PROVE  ~Fails(i, j)
    BY DEF Fails
  <2>1. j - i \in 0..MaxMsg /\ ~(n <= j - i)
    BY <1>0, <1>2, <1>4
  <2>2. j - i \notin Bad
    <3> HIDE DEF Bad
    <3> QED  BY <1>1, <2>1
  <2> QED  BY <2>1, <2>2
<1>6. /\ Path(s, t, p, q) /\ t[p].mode = "object" /\ Obj(s, p, q)
      /\ ~(t[q].mode = "object" /\ t[q].deep = t[p].deep)
  BY <1>4
<1> HIDE DEF Fails, Bad
<1>7. /\ p \in Nat /\ q \in Nat /\ q \in p..Len(s) /\ q - p <= MaxMsg
  BY <1>0, <1>2, <1>4
<1>8. \/ q = p
      \/ q > p /\ Obj(s, p, q - 1) /\ s[q] \in PlainBytes
      \/ \E m \in (p + 1)..(q - 1) :
            /\ Obj(s, p, m - 1)
            /\ \/ s[m] = "quote" /\ s[q] = "quote" /\ Str(s, m, q - 1)
               \/ s[m] = "open" /\ s[q] = "close" /\ Obj(s, m, q - 1)
  BY <1>6, <1>7, ObjSpan
<1>9. q > p
  BY <1>6, <1>7
<1>10. Leads(t[q - 1], s[q], t[q])
  <2>1. q - 1 \in p..(q - 1) /\ (q - 1) + 1 = q
    BY <1>7, <1>9
  <2> QED  BY <1>6, <2>1, PathStep
<1>11. CASE Obj(s, p, q - 1) /\ s[q] \in PlainBytes
  <2>1. p \in p..q /\ q - 1 \in p..q /\ q - 1 \in p..Len(t) /\ (q - 1) - p < q - p
    BY <1>0, <1>7, <1>9
  <2>2. Path(s, t, p, q - 1)
    BY <1>6, <1>7, <2>1, PathPart
  <2>3. t[q - 1].mode = "object" /\ t[q - 1].deep = t[p].deep
    BY <1>5, <1>6, <1>11, <2>1, <2>2
  <2>4. s[q] # "quote"
    BY <1>11 DEF PlainBytes
  <2> QED  BY <1>6, <1>10, <1>11, <2>3, <2>4 DEF Leads
<1>12. ASSUME NEW m \in (p + 1)..(q - 1), Obj(s, p, m - 1),
              \/ s[m] = "quote" /\ s[q] = "quote" /\ Str(s, m, q - 1)
              \/ s[m] = "open" /\ s[q] = "close" /\ Obj(s, m, q - 1)
       PROVE  FALSE
  <2>1. /\ m - 1 \in p..Len(t) /\ (m - 1) - p < q - p /\ p \in p..q
        /\ m - 1 \in p..q /\ m \in 1..Len(t) /\ q - 1 \in m..Len(t)
        /\ (q - 1) - m < q - p /\ (q - 1) - m <= MaxMsg /\ m \in p..q
        /\ q - 1 \in m..q /\ m - 1 \in p..(q - 1) /\ (m - 1) + 1 = m
    BY <1>0, <1>7, <1>9
  <2>2. Path(s, t, p, m - 1) /\ Path(s, t, m, q - 1)
    BY <1>6, <1>7, <2>1, PathPart
  <2>3. t[m - 1].mode = "object" /\ t[m - 1].deep = t[p].deep
    BY <1>5, <1>6, <1>12, <2>1, <2>2
  <2>4. Leads(t[m - 1], s[m], t[m])
    BY <1>6, <2>1, PathStep
  <2>5. CASE s[m] = "quote" /\ s[q] = "quote" /\ Str(s, m, q - 1)
    <3>1. t[m].mode = "string" /\ t[m].deep = t[p].deep
      BY <2>3, <2>4, <2>5 DEF Leads
    <3>2. t[q - 1].mode = "string" /\ t[q - 1].deep = t[m].deep
      BY <2>1, <2>2, <2>5, <3>1, StringIsTrail
    <3> QED  BY <1>6, <1>10, <2>5, <3>1, <3>2 DEF Leads
  <2>6. CASE s[m] = "open" /\ s[q] = "close" /\ Obj(s, m, q - 1)
    <3>1. t[m].mode = "object" /\ t[m].deep = t[p].deep + 1 /\ t[p].deep \in Nat
      BY <2>3, <2>4, <2>6 DEF Leads
    <3>2. t[q - 1].mode = "object" /\ t[q - 1].deep = t[m].deep
      BY <1>5, <2>1, <2>2, <2>6, <3>1
    <3> QED  BY <1>6, <1>10, <2>6, <3>1, <3>2 DEF Leads
  <2> QED  BY <1>12, <2>5, <2>6
<1> QED  BY <1>8, <1>9, <1>7, <1>11, <1>12
-----------------------------------------------------------------------------
(* The framer's invariant                                                  *)

\* A part of the stream is the same in whatever has it at its beginning.
LEMMA SamePart ==
  ASSUME NEW S, NEW s \in Seq(S), NEW r \in Seq(S), NEW p \in Nat,
         NEW q \in p..Len(s), Len(s) <= Len(r),
         \A i \in 1..Len(s) : r[i] = s[i]
  PROVE  Word(r, p, q) = Word(s, p, q)
<1>1. q \in p..Len(r)
  OBVIOUS
<1> DEFINE u == Word(s, p, q)
           v == Word(r, p, q)
<1>2. u \in Seq(S) /\ Len(u) = q - p /\ \A i \in 1..(q - p) : u[i] = s[p + i]
  BY WordFacts
<1>3. v \in Seq(S) /\ Len(v) = q - p /\ \A i \in 1..(q - p) : v[i] = r[p + i]
  BY <1>1, WordFacts
<1>4. \A i \in 1..(q - p) : r[p + i] = s[p + i]
  <2>1. \A i \in 1..(q - p) : p + i \in 1..Len(s)
    OBVIOUS
  <2> QED  BY <2>1
<1> HIDE DEF u, v
<1>5. u = v
  BY <1>2, <1>3, <1>4, SeqEqual
<1> QED  BY <1>5 DEF u, v

\* While a byte is scanned there is no error, and the byte is the stream's.
LEMMA Reading ==
  ASSUME FramerInv, Scanning
  PROVE  /\ ~error /\ BufferInv /\ TrailInv
         /\ At \in Nat /\ At + 1 \in 1..Len(stream)
         /\ Byte = stream[At + 1] /\ Byte \in Bytes
<1>1. ~error
  BY DEF FramerInv, ErrorInv, Scanning
<1>2. BufferInv /\ TrailInv
  BY <1>1 DEF FramerInv
<1>3. /\ buf = Word(stream, base, Len(stream)) /\ base \in Nat /\ scan \in Nat
      /\ stream \in Seq(Bytes) /\ Len(stream) \in Nat /\ Len(stream) \in base..Len(stream)
  BY <1>2 DEF BufferInv, FramerInv, FramerTypeOK, Word
<1>4. Len(buf) = Len(stream) - base
      /\ \A i \in 1..(Len(stream) - base) : buf[i] = stream[base + i]
  BY <1>3, WordFacts
<1>5. scan + 1 \in 1..(Len(stream) - base)
  BY <1>3, <1>4 DEF Scanning
<1>6. base + (scan + 1) = At + 1 /\ At \in Nat /\ At + 1 \in 1..Len(stream)
  BY <1>3, <1>5 DEF At
<1>7. Byte = stream[At + 1]
  BY <1>4, <1>5, <1>6 DEF Byte
<1>8. stream[At + 1] \in Bytes
  BY <1>3, <1>6, ElementOfSeq
<1> QED  BY <1>1, <1>2, <1>6, <1>7, <1>8

\* A message found has two places.
LEMMA CutTypes ==
  ASSUME FramerTypeOK
  PROVE  /\ Len(cuts) \in Nat /\ DOMAIN cuts = 1..Len(cuts)
         /\ \A i \in DOMAIN cuts : cuts[i].from \in Nat /\ cuts[i].to \in Nat
<1>1. cuts \in Seq(Spans)
  BY DEF FramerTypeOK
<1>2. Len(cuts) \in Nat /\ DOMAIN cuts = 1..Len(cuts)
  BY <1>1, LenProperties
<1>3. \A i \in DOMAIN cuts : cuts[i] \in Spans
  BY <1>1, <1>2, ElementOfSeq
<1> QED  BY <1>2, <1>3 DEF Spans

\* The end of the last message is a place in the stream.
LEMMA LastCutIn ==
  ASSUME FramerTypeOK, CutsInv PROVE LastCut \in 0..Len(stream)
<1>1. cuts # <<>> => Len(cuts) \in DOMAIN cuts /\ cuts[Len(cuts)].to \in Nat
  <2>1. cuts \in Seq(Spans)
    BY DEF FramerTypeOK
  <2>2. cuts # <<>> => Len(cuts) \in Nat \ {0}
    BY <2>1, EmptySeq
  <2>3. cuts # <<>> => Len(cuts) \in DOMAIN cuts
    BY <2>2, CutTypes
  <2> QED  BY <2>3, CutTypes
<1>2. stream \in Seq(Bytes) /\ Len(stream) \in Nat
  BY DEF FramerTypeOK
<1> QED  BY <1>1, <1>2 DEF LastCut, CutsInv

\* The messages found stay exact when the stream grows, and when next() takes
\* one of them.
LEMMA ExactKept ==
  ASSUME FramerInv, stream' \in Seq(Bytes), Len(stream) <= Len(stream'),
         \A i \in 1..Len(stream) : stream'[i] = stream[i],
         cuts' = cuts, taken' \o ready' = taken \o ready
  PROVE  /\ MessagesAreExact'
         /\ LastCut' = LastCut
         /\ \A i \in DOMAIN cuts' : /\ cuts'[i].from \in 1..cuts'[i].to
                                    /\ cuts'[i].to <= Len(stream')
<1>0. /\ stream \in Seq(Bytes) /\ Len(stream) \in Nat /\ Len(stream') \in Nat
      /\ \A i \in DOMAIN cuts : cuts[i].from \in Nat /\ cuts[i].to \in Nat
      /\ Len(cuts) \in Nat /\ DOMAIN cuts = 1..Len(cuts)
  BY CutTypes DEF FramerInv, FramerTypeOK
<1>1. \A i \in DOMAIN cuts : /\ cuts[i].from \in 1..cuts[i].to
                             /\ cuts[i].to <= Len(stream)
  BY DEF FramerInv, CutsInv
<1>2. LastCut' = LastCut
  BY DEF LastCut
<1>3. \A i \in DOMAIN cuts' : /\ cuts'[i].from \in 1..cuts'[i].to
                              /\ cuts'[i].to <= Len(stream')
  BY <1>0, <1>1
<1> DEFINE all == taken \o ready
           Gap(i) == (IF i = 1 THEN 0 ELSE cuts[i - 1].to) + 1
<1>4. /\ Len(all) = Len(cuts)
      /\ \A i \in DOMAIN cuts :
           /\ all[i] = SubSeq(stream, cuts[i].from, cuts[i].to)
           /\ all[i] \in Messages
           /\ OnlySeps(Gap(i), cuts[i].from - 1)
  BY DEF FramerInv, MessagesAreExact
<1> HIDE DEF all
<1>5. ASSUME NEW i \in DOMAIN cuts
      PROVE  /\ all[i] = SubSeq(stream', cuts[i].from, cuts[i].to)
             /\ all[i] \in Messages
             /\ \A j \in Gap(i)..(cuts[i].from - 1) : stream'[j] = "sep"
  <2> DEFINE p == cuts[i].from - 1
             q == cuts[i].to
  <2>1. p \in Nat /\ q \in p..Len(stream) /\ p + 1 = cuts[i].from
    BY <1>0, <1>1
  <2>2. Word(stream', p, q) = Word(stream, p, q)
    <3> HIDE DEF p, q
    <3> QED  BY <1>0, <2>1, SamePart
  <2>3. SubSeq(stream', cuts[i].from, cuts[i].to) =
           SubSeq(stream, cuts[i].from, cuts[i].to)
    BY <2>1, <2>2 DEF Word
  <2>4. Gap(i) \in Nat \ {0}
    BY <1>0
  <2>5. \A j \in Gap(i)..(cuts[i].from - 1) : j \in 1..Len(stream)
    <3> HIDE DEF Gap
    <3> QED  BY <1>0, <1>1, <2>4
  <2>6. \A j \in Gap(i)..(cuts[i].from - 1) : stream[j] = "sep"
    BY <1>4 DEF OnlySeps
  <2> HIDE DEF Gap
  <2> QED  BY <1>4, <2>3, <2>5, <2>6
<1>6. MessagesAreExact'
  <2>1. (taken \o ready)' = all /\ cuts' = cuts
    BY DEF all
  <2>2. \A i \in DOMAIN cuts :
           OnlySeps(Gap(i), cuts[i].from - 1)' 
           <=> \A j \in Gap(i)'..(cuts[i].from - 1)' : stream'[j] = "sep"
    BY DEF OnlySeps
  <2>3. \A i \in DOMAIN cuts : Gap(i)' = Gap(i)
    OBVIOUS
  <2> QED  BY <1>4, <1>5, <2>1, <2>2, <2>3 DEF MessagesAreExact, OnlySeps
<1> QED  BY <1>2, <1>3, <1>6

\* The message in work lies in the part of the stream that is scanned.
LEMMA InWork ==
  ASSUME FramerTypeOK, BufferInv, TrailInv, Inside
  PROVE  /\ From \in Nat /\ At \in Nat /\ From \in 1..At /\ At <= Len(stream)
         /\ Len(stream) \in Nat /\ stream \in Seq(Bytes) /\ trail \in Seq(Marks)
         /\ Len(trail) = At /\ From \in 1..Len(stream)
<1>1. /\ base \in Nat /\ start \in Nat /\ scan \in Nat /\ stream \in Seq(Bytes)
      /\ trail \in Seq(Marks)
  BY DEF FramerTypeOK
<1>2. start < scan /\ base + scan <= Len(stream) /\ Len(trail) = At
  BY DEF BufferInv, TrailInv, At
<1>3. Len(stream) \in Nat
  BY <1>1
<1> QED  BY <1>1, <1>2, <1>3 DEF From, At

\* No word from the beginning of the message in work, as far as it is
\* scanned, is a message.
LEMMA NoMessageYet ==
  ASSUME FramerTypeOK, BufferInv, TrailInv, Inside
  PROVE  \A to \in From..Len(stream) :
            SubSeq(stream, From, to) \in Messages =>
               to > At /\ to - From + 1 <= MaxMsg
<1>0. /\ From \in Nat /\ From \in 1..At /\ At \in Nat /\ At <= Len(stream)
      /\ Len(stream) \in Nat /\ stream \in Seq(Bytes) /\ trail \in Seq(Marks)
      /\ Len(trail) = At /\ MaxMsg \in Nat
  BY FramerAssumption, InWork
<1> SUFFICES ASSUME NEW to \in From..Len(stream),
                    SubSeq(stream, From, to) \in Messages
             PROVE  to > At /\ to - From + 1 <= MaxMsg
  OBVIOUS
<1> DEFINE p == From - 1
<1>1. p \in Nat /\ p + 1 = From /\ to \in p..Len(stream) /\ to \in Nat
  BY <1>0
<1>2. Word(stream, p, to) \in Messages
  BY <1>1 DEF Word
<1> HIDE DEF p
<1>3. /\ to - p <= MaxMsg /\ p + 1 < to
      /\ stream[to] = "close" /\ Obj(stream, p + 1, to - 1)
  BY <1>0, <1>1, <1>2, MessageSpan
<1>4. to - From + 1 <= MaxMsg /\ From < to
  BY <1>0, <1>1, <1>3
<1>5. ASSUME to <= At PROVE FALSE
  <2>1. /\ From \in 1..Len(trail) /\ to - 1 \in From..Len(trail)
        /\ (to - 1) - From <= MaxMsg /\ to \in From..Len(trail)
        /\ to - 1 \in From..(to - 1) /\ (to - 1) + 1 = to /\ to \in From..At
    BY <1>0, <1>1, <1>4, <1>5
  <2>2. Path(stream, trail, From, to) /\ Path(stream, trail, From, to - 1)
    BY <1>0, <1>1, <2>1 DEF Path, TrailInv
  <2>3. Obj(stream, From, to - 1)
    BY <1>1, <1>3
  <2>4. trail[From].deep = 1 /\ trail[From].mode = "object" /\ trail[to].deep > 0
    BY <2>1 DEF TrailInv
  <2>5. trail[to - 1].mode = "object" /\ trail[to - 1].deep = 1
    BY <1>0, <2>1, <2>2, <2>3, <2>4, ObjectIsTrail
  <2>6. Leads(trail[to - 1], stream[to], trail[to])
    BY <1>0, <2>1, <2>2, PathStep
  <2> QED  BY <1>3, <2>4, <2>5, <2>6 DEF Leads
<1> QED  BY <1>0, <1>1, <1>4, <1>5

\* What follows the last message begins with the message in work.
LEMMA RestIsFrom ==
  ASSUME FramerTypeOK, BufferInv, TrailInv, CutsInv, ~error, Inside
  PROVE  From \in RestFrom /\ \A from \in RestFrom : from = From
<1>0. /\ From \in Nat /\ From \in 1..Len(stream) /\ Len(stream) \in Nat
      /\ LastCut \in Nat /\ LastCut < From
      /\ OnlySeps(LastCut + 1, From - 1) /\ stream[From] = "open"
  <2>1. LastCut \in Nat
    BY LastCutIn
  <2>2. LastCut < From /\ OnlySeps(LastCut + 1, From - 1) /\ stream[From] = "open"
    BY DEF CutsInv, TrailInv
  <2> QED  BY <2>1, <2>2, InWork
<1>1. From \in RestFrom
  BY <1>0 DEF RestFrom
<1>2. ASSUME NEW from \in RestFrom PROVE from = From
  <2>1. /\ from \in (LastCut + 1)..Len(stream) /\ stream[from] # "sep"
        /\ OnlySeps(LastCut + 1, from - 1)
    BY DEF RestFrom
  <2>2. ~(from < From)
    <3>1. from < From => from \in (LastCut + 1)..(From - 1)
      BY <1>0, <2>1
    <3> QED  BY <1>0, <2>1, <3>1 DEF OnlySeps
  <2>3. ~(From < from)
    <3>1. From < from => From \in (LastCut + 1)..(from - 1)
      BY <1>0, <2>1
    <3> QED  BY <1>0, <2>1, <3>1 DEF OnlySeps
  <2> QED  BY <1>0, <2>1, <2>2, <2>3
<1> QED  BY <1>1, <1>2

\* The trail grows by the mark of the byte just scanned.
LEMMA TrailGrows ==
  ASSUME FramerInv, Scanning, Scanned, scan' = scan + 1, base' = base,
         depth' \in Nat, inString' \in BOOLEAN, escape' \in BOOLEAN
  PROVE  /\ trail' \in Seq(Marks) /\ Len(trail') = At + 1 /\ At' = At + 1
         /\ trail' # <<>> /\ \A i \in 1..At : trail'[i] = trail[i]
         /\ trail'[At + 1].deep = depth' /\ trail'[At + 1].mode = Mode'
<1> DEFINE y == [deep |-> depth', mode |-> Mode']
<1>1. trail \in Seq(Marks) /\ Len(trail) = At /\ At \in Nat
  BY Reading DEF FramerInv, FramerTypeOK, TrailInv
<1>2. y \in Marks /\ y.deep = depth' /\ y.mode = Mode'
  BY DEF Marks, Modes, Mode
<1>3. trail' = Append(trail, y)
  BY DEF Scanned
<1> HIDE DEF y
<1>4. /\ trail' \in Seq(Marks) /\ Len(trail') = At + 1 /\ trail' # <<>>
      /\ \A i \in 1..At : trail'[i] = trail[i]
      /\ trail'[At + 1] = y
  BY <1>1, <1>2, <1>3, AppendProperties
<1>5. At' = At + 1
  <2>1. base \in Nat /\ scan \in Nat
    BY DEF FramerInv, FramerTypeOK
  <2> QED  BY <2>1 DEF At
<1> QED  BY <1>2, <1>4, <1>5

\* What the invariant says where a byte is scanned.
LEMMA ScanFacts ==
  ASSUME FramerInv, Scanning
  PROVE  /\ base \in Nat /\ scan \in Nat /\ start \in Nat /\ depth \in Nat
         /\ consumed \in Nat /\ inString \in BOOLEAN /\ escape \in BOOLEAN
         /\ stream \in Seq(Bytes) /\ Len(stream) \in Nat /\ LastCut \in Nat
         /\ LastCut <= At /\ At = base + scan /\ MaxMsg \in Nat \ {0}
         /\ pc = "scan"
<1>1. /\ base \in Nat /\ scan \in Nat /\ start \in Nat /\ depth \in Nat
      /\ consumed \in Nat /\ inString \in BOOLEAN /\ escape \in BOOLEAN
      /\ stream \in Seq(Bytes)
  BY DEF FramerInv, FramerTypeOK
<1>2. LastCut \in Nat /\ LastCut <= At
  BY Reading, LastCutIn DEF FramerInv, CutsInv
<1>3. Len(stream) \in Nat
  BY <1>1
<1> QED  BY <1>1, <1>2, <1>3, FramerAssumption DEF At, Scanning

\* A separator between messages: the invariant is kept.
LEMMA SkipStep == ASSUME FramerInv, Skip PROVE FramerInv'
<1>0. Scanning /\ ~Inside /\ Byte = "sep"
  BY DEF Skip
<1>1. /\ scan' = scan + 1 /\ consumed' = scan + 1 /\ buf' = buf /\ ready' = ready
      /\ start' = start /\ depth' = depth /\ inString' = inString
      /\ escape' = escape /\ error' = error /\ pc' = pc /\ stream' = stream
      /\ base' = base /\ cuts' = cuts /\ taken' = taken /\ Scanned
  BY DEF Skip, scanner, ghosts
<1>2. /\ ~error /\ BufferInv /\ TrailInv /\ At + 1 \in 1..Len(stream)
      /\ stream[At + 1] = "sep" /\ At \in Nat
  BY <1>0, Reading
<1>3. /\ base \in Nat /\ scan \in Nat /\ start \in Nat /\ depth \in Nat
      /\ inString \in BOOLEAN /\ escape \in BOOLEAN
      /\ stream \in Seq(Bytes) /\ Len(stream) \in Nat /\ LastCut \in Nat
      /\ LastCut <= At /\ At = base + scan /\ pc = "scan"
  BY <1>0, ScanFacts
<1>4. /\ trail' \in Seq(Marks) /\ Len(trail') = At + 1 /\ At' = At + 1
      /\ trail'[At + 1].deep = depth' /\ trail'[At + 1].mode = Mode'
  BY <1>0, <1>1, <1>3, TrailGrows
<1>5. /\ MessagesAreExact' /\ LastCut' = LastCut
      /\ \A i \in DOMAIN cuts' : /\ cuts'[i].from \in 1..cuts'[i].to
                                 /\ cuts'[i].to <= Len(stream')
  BY <1>1, <1>3, ExactKept
<1>6. FramerTypeOK'
  BY <1>1, <1>3, <1>4 DEF FramerInv, FramerTypeOK
<1>7. BufferInv'
  BY <1>0, <1>1, <1>2, <1>3, <1>4 DEF BufferInv, Inside
<1>8. TrailInv'
  BY <1>0, <1>1, <1>2, <1>4 DEF TrailInv, Inside
<1>9. CutsInv'
  <2>1. OnlySeps(LastCut + 1, At)
    BY <1>0, <1>2 DEF FramerInv, CutsInv
  <2>2. \A i \in (LastCut + 1)..(At + 1) : i \in (LastCut + 1)..At \/ i = At + 1
    BY <1>2, <1>3
  <2>3. \A i \in (LastCut + 1)..(At + 1) : stream'[i] = "sep"
    BY <1>1, <1>2, <2>1, <2>2 DEF OnlySeps
  <2> QED  BY <1>0, <1>1, <1>3, <1>4, <1>5, <2>3 DEF CutsInv, OnlySeps, Inside
<1>10. ErrorInv'
  BY <1>1, <1>2 DEF ErrorInv
<1> QED  BY <1>5, <1>6, <1>7, <1>8, <1>9, <1>10 DEF FramerInv

\* The first byte of a message: the invariant is kept.
LEMMA BeginStep == ASSUME FramerInv, Begin PROVE FramerInv'
<1>0. Scanning /\ ~Inside /\ Byte = "open"
  BY DEF Begin
<1>1. /\ scan' = scan + 1 /\ consumed' = consumed /\ buf' = buf /\ ready' = ready
      /\ start' = scan /\ depth' = 1 /\ inString' = FALSE
      /\ escape' = FALSE /\ error' = error /\ pc' = pc /\ stream' = stream
      /\ base' = base /\ cuts' = cuts /\ taken' = taken /\ Scanned
  BY DEF Begin, ghosts
<1>2. /\ ~error /\ BufferInv /\ TrailInv /\ At + 1 \in 1..Len(stream)
      /\ stream[At + 1] = "open" /\ At \in Nat
  BY <1>0, Reading
<1>3. /\ base \in Nat /\ scan \in Nat /\ consumed \in Nat
      /\ stream \in Seq(Bytes) /\ Len(stream) \in Nat /\ LastCut \in Nat
      /\ LastCut <= At /\ At = base + scan /\ pc = "scan" /\ MaxMsg \in Nat \ {0}
  BY <1>0, ScanFacts
<1>4. /\ trail' \in Seq(Marks) /\ Len(trail') = At + 1 /\ At' = At + 1
      /\ trail'[At + 1].deep = 1 /\ trail'[At + 1].mode = Mode' /\ Mode' = "object"
  BY <1>0, <1>1, <1>3, TrailGrows DEF Mode
<1>5. /\ MessagesAreExact' /\ LastCut' = LastCut
      /\ \A i \in DOMAIN cuts' : /\ cuts'[i].from \in 1..cuts'[i].to
                                 /\ cuts'[i].to <= Len(stream')
  BY <1>1, <1>3, ExactKept
<1>6. From' = At + 1 /\ Inside'
  BY <1>1, <1>3 DEF From, Inside
<1>7. FramerTypeOK'
  <2>1. inString' \in BOOLEAN /\ escape' \in BOOLEAN
    BY <1>1, Zenon
  <2>2. depth' \in Nat /\ scan' \in Nat /\ start' \in Nat
    BY <1>1, <1>3
  <2> QED  BY <1>1, <1>3, <1>4, <2>1, <2>2 DEF FramerInv, FramerTypeOK
<1>8. BufferInv'
  BY <1>0, <1>1, <1>2, <1>3, <1>4 DEF BufferInv, Inside
<1>9. TrailInv'
  <2>1. \A i \in (At + 1)..(At + 1) : i = At + 1
    BY <1>2
  <2>2. \A i \in (At + 1)..((At + 1) - 1) : FALSE
    BY <1>2
  <2> QED  BY <1>1, <1>2, <1>4, <1>6, <2>1, <2>2 DEF TrailInv
<1>10. CutsInv'
  <2>1. OnlySeps(LastCut + 1, At)
    BY <1>0, <1>2 DEF FramerInv, CutsInv
  <2>2. (At + 1) - 1 = At
    BY <1>2
  <2>3. \A i \in (LastCut + 1)..At : stream'[i] = "sep"
    BY <1>1, <2>1 DEF OnlySeps
  <2> QED  BY <1>2, <1>3, <1>4, <1>5, <1>6, <2>2, <2>3 DEF CutsInv, OnlySeps
<1>11. ErrorInv'
  BY <1>1, <1>2 DEF ErrorInv
<1> QED  BY <1>5, <1>7, <1>8, <1>9, <1>10, <1>11 DEF FramerInv

\* A byte inside a message that does not end it: the invariant is kept.
LEMMA InsideStep ==
  ASSUME FramerInv, Scanning, Inside, ~TooLong, Scanned, scan' = scan + 1,
         UNCHANGED <<buf, ready, start, error, consumed, pc, ghosts>>,
         depth' \in Nat, depth' > 0, inString' \in BOOLEAN, escape' \in BOOLEAN,
         escape' => inString',
         Moves([deep |-> depth, mode |-> Mode], Byte,
               [deep |-> depth', mode |-> Mode'])
  PROVE  FramerInv'
<1>1. /\ consumed' = consumed /\ buf' = buf /\ ready' = ready
      /\ start' = start /\ error' = error /\ pc' = pc /\ stream' = stream
      /\ base' = base /\ cuts' = cuts /\ taken' = taken
  BY DEF ghosts
<1>2. /\ ~error /\ BufferInv /\ TrailInv /\ At + 1 \in 1..Len(stream)
      /\ Byte = stream[At + 1] /\ At \in Nat
  BY Reading
<1>3. /\ base \in Nat /\ scan \in Nat /\ start \in Nat /\ depth \in Nat
      /\ stream \in Seq(Bytes) /\ Len(stream) \in Nat /\ LastCut \in Nat
      /\ LastCut <= At /\ At = base + scan /\ pc = "scan" /\ MaxMsg \in Nat \ {0}
  BY ScanFacts
<1>4. /\ trail' \in Seq(Marks) /\ Len(trail') = At + 1 /\ At' = At + 1
      /\ \A i \in 1..At : trail'[i] = trail[i]
      /\ trail'[At + 1].deep = depth' /\ trail'[At + 1].mode = Mode'
  BY <1>1, TrailGrows
<1>5. /\ MessagesAreExact' /\ LastCut' = LastCut
      /\ \A i \in DOMAIN cuts' : /\ cuts'[i].from \in 1..cuts'[i].to
                                 /\ cuts'[i].to <= Len(stream')
  BY <1>1, <1>3, ExactKept
<1>6. From' = From /\ Inside' /\ From \in 1..At
  <2>1. From \in 1..At
    BY <1>2, InWork DEF FramerInv
  <2> QED  BY <1>1, <2>1 DEF From, Inside
<1>7. FramerTypeOK'
  BY <1>1, <1>3, <1>4, SMTT(30) DEF FramerInv, FramerTypeOK
<1>8. BufferInv'
  BY <1>1, <1>2, <1>3, <1>4 DEF BufferInv, Inside, TooLong
<1>9. TrailInv'
  <2>1. /\ stream[From] = "open" /\ trail[From].deep = 1 /\ trail[From].mode = "object"
        /\ \A i \in From..At : trail[i].deep > 0
        /\ \A i \in From..(At - 1) : Moves(trail[i], stream[i + 1], trail[i + 1])
    BY <1>2 DEF TrailInv
  <2>2. trail[At].deep = depth /\ trail[At].mode = Mode
    <3>1. trail # <<>>
      BY <1>2, <1>6 DEF TrailInv
    <3> QED  BY <1>2, <3>1 DEF TrailInv
  <2>3. Moves(trail'[At], stream[At + 1], trail'[At + 1])
    <3>1. At \in 1..At
      BY <1>2, <1>6
    <3> DEFINE x == trail'[At]
               y == trail'[At + 1]
    <3>2. x.deep = depth /\ x.mode = Mode /\ y.deep = depth' /\ y.mode = Mode'
      BY <1>4, <2>2, <3>1
    <3> HIDE DEF x, y
    <3>3. Moves(x, Byte, y)
      BY <3>2 DEF Moves
    <3> QED  BY <1>2, <3>3 DEF x, y
  <2>4. \A i \in From..(At + 1) : trail'[i].deep > 0
    <3>1. \A i \in From..(At + 1) : (i \in From..At /\ i \in 1..At) \/ i = At + 1
      BY <1>2, <1>6
    <3> QED  BY <1>4, <2>1, <3>1
  <2>5. \A i \in From..((At + 1) - 1) : Moves(trail'[i], stream'[i + 1], trail'[i + 1])
    <3>1. \A i \in From..((At + 1) - 1) :
             i = At \/ (i \in From..(At - 1) /\ i \in 1..At /\ i + 1 \in 1..At)
      BY <1>2, <1>6
    <3> QED  BY <1>1, <1>4, <2>1, <2>3, <3>1
  <2>6. trail'[From].deep = 1 /\ trail'[From].mode = "object"
    BY <1>4, <1>6, <2>1
  <2> QED  BY <1>1, <1>4, <1>6, <2>1, <2>4, <2>5, <2>6 DEF TrailInv
<1>10. CutsInv'
  <2>1. LastCut < From /\ \A i \in (LastCut + 1)..(From - 1) : stream'[i] = "sep"
    BY <1>1, <1>2 DEF FramerInv, CutsInv, OnlySeps
  <2> QED  BY <1>3, <1>4, <1>5, <1>6, <2>1 DEF CutsInv, OnlySeps
<1>11. ErrorInv'
  BY <1>1, <1>2 DEF ErrorInv
<1> QED  BY <1>5, <1>7, <1>8, <1>9, <1>10, <1>11 DEF FramerInv

\* A byte of a string: the invariant is kept.
LEMMA StringByteStep == ASSUME FramerInv, StringByte PROVE FramerInv'
<1>0. Scanning /\ Inside /\ ~TooLong /\ inString
  BY DEF StringByte
<1>1. /\ scan' = scan + 1 /\ depth' = depth /\ Scanned
      /\ UNCHANGED <<buf, ready, start, error, consumed, pc, ghosts>>
  BY DEF StringByte
<1>2. depth' \in Nat /\ depth' > 0 /\ Byte \in Bytes /\ escape \in BOOLEAN
  BY <1>0, <1>1, Reading, ScanFacts DEF Inside
<1>3. inString' \in BOOLEAN /\ escape' \in BOOLEAN
  BY Zenon DEF StringByte, EscapeAfter
<1>4. inString' <=> (escape \/ Byte # "quote")
  BY Zenon DEF StringByte
<1>5. escape' <=> (~escape /\ Byte = "backslash")
  BY Zenon DEF StringByte, EscapeAfter
<1>6. escape' => inString'
  BY <1>4, <1>5
<1>7. Moves([deep |-> depth, mode |-> Mode], Byte, [deep |-> depth', mode |-> Mode'])
  <2>1. Mode = IF escape THEN "escape" ELSE "string"
    BY <1>0 DEF Mode
  <2>2. Mode' = IF ~inString' THEN "object" ELSE IF escape' THEN "escape" ELSE "string"
    BY DEF Mode
  <2>3. Mode' = IF escape THEN "string"
                ELSE CASE Byte = "quote" -> "object" [] Byte = "backslash" -> "escape"
                       [] OTHER -> "string"
    BY <1>4, <1>5, <2>2
  <2> QED  BY <1>1, <2>1, <2>3 DEF Moves
<1> QED  BY <1>0, <1>1, <1>2, <1>3, <1>6, <1>7, InsideStep

\* A byte outside strings that does not end the message: the invariant is
\* kept.
LEMMA ObjectByteStep == ASSUME FramerInv, ObjectByte PROVE FramerInv'
<1>0. Scanning /\ Inside /\ ~TooLong /\ ~inString
  BY DEF ObjectByte
<1>1. /\ scan' = scan + 1 /\ escape' = escape /\ Scanned
      /\ UNCHANGED <<buf, ready, start, error, consumed, pc, ghosts>>
      /\ depth' = CASE Byte = "open" -> depth + 1
                    [] Byte = "close" -> depth - 1
                    [] OTHER -> depth
      /\ ~(Byte = "close" /\ depth = 1)
  BY DEF ObjectByte
<1>2. Byte \in Bytes /\ depth \in Nat /\ depth > 0 /\ escape \in BOOLEAN
  BY <1>0, Reading, ScanFacts DEF Inside
<1>3. ~escape
  BY <1>0, Reading DEF TrailInv
<1>4. depth' \in Nat /\ depth' > 0
  BY <1>1, <1>2
<1>5. inString' \in BOOLEAN
  BY Zenon DEF ObjectByte
<1>6. inString' <=> Byte = "quote"
  BY Zenon DEF ObjectByte
<1>7. escape' \in BOOLEAN /\ ~escape'
  BY <1>1, <1>2, <1>3
<1>8. Moves([deep |-> depth, mode |-> Mode], Byte, [deep |-> depth', mode |-> Mode'])
  <2>1. Mode = "object"
    BY <1>0 DEF Mode
  <2>2. Mode' = IF ~inString' THEN "object" ELSE IF escape' THEN "escape" ELSE "string"
    BY DEF Mode
  <2>3. Mode' = IF Byte = "quote" THEN "string" ELSE "object"
    BY <1>6, <1>7, <2>2
  <2> QED  BY <1>1, <2>1, <2>3 DEF Moves
<1> QED  BY <1>0, <1>1, <1>4, <1>5, <1>7, <1>8, InsideStep

\* What is cut out at the closing bracket of the outermost level is a
\* message of the stream.
LEMMA CompleteIsMessage ==
  ASSUME FramerInv, Complete
  PROVE  /\ SubSeq(buf, start + 1, scan + 1) = SubSeq(stream, From, At + 1)
         /\ SubSeq(stream, From, At + 1) \in Messages
<1>0. /\ Scanning /\ Inside /\ ~TooLong /\ ~inString /\ Byte = "close" /\ depth = 1
  BY DEF Complete
<1>1. /\ ~error /\ BufferInv /\ TrailInv /\ At + 1 \in 1..Len(stream)
      /\ stream[At + 1] = "close" /\ At \in Nat
  BY <1>0, Reading
<1>2. /\ base \in Nat /\ scan \in Nat /\ start \in Nat
      /\ stream \in Seq(Bytes) /\ Len(stream) \in Nat
      /\ At = base + scan /\ MaxMsg \in Nat \ {0}
  BY <1>0, ScanFacts
<1>3. /\ From \in Nat /\ From \in 1..At /\ trail \in Seq(Marks) /\ Len(trail) = At
  BY <1>0, <1>1, InWork DEF FramerInv
<1>4. Level(stream, trail, From, At)
  <2>1. trail[At].deep = 1 /\ trail[At].mode = "object"
    <3>1. trail # <<>>
      BY <1>1, <1>3
    <3> QED  BY <1>0, <1>1, <3>1 DEF TrailInv, Mode
  <2>2. /\ trail[From].deep = 1 /\ trail[From].mode = "object"
        /\ \A i \in From..At : trail[i].deep > 0
        /\ \A i \in From..(At - 1) : Moves(trail[i], stream[i + 1], trail[i + 1])
    BY <1>0, <1>1 DEF TrailInv
  <2>3. \A i \in From..At : trail[i].deep \in Nat
    <3>1. \A i \in From..At : i \in 1..Len(trail)
      BY <1>1, <1>3
    <3>2. \A i \in From..At : trail[i] \in Marks
      BY <1>3, <3>1, ElementOfSeq
    <3> QED  BY <3>2 DEF Marks
  <2>4. \A i \in From..At : trail[i].deep >= 1
    BY <2>2, <2>3
  <2> QED  BY <2>1, <2>2, <2>4 DEF Level, Path
<1>5. (At + 1) - (From - 1) <= MaxMsg
  BY <1>0, <1>2 DEF TooLong, From
<1>6. Obj(stream, From, At)
  <2>1. From \in 1..Len(trail) /\ At \in From..Len(trail) /\ At - From <= MaxMsg
    BY <1>1, <1>2, <1>3, <1>5
  <2>2. Len(trail) <= Len(stream)
    BY <1>1, <1>2, <1>3
  <2> QED  BY <1>2, <1>3, <1>4, <2>1, <2>2, TrailIsObject
<1> DEFINE p == From - 1
           q == At + 1
<1>7. /\ p \in Nat /\ q \in p..Len(stream) /\ p + 1 = From /\ q - 1 = At
      /\ p + 1 < q /\ q - p <= MaxMsg
  BY <1>1, <1>2, <1>3, <1>5
<1>8. stream[p + 1] = "open" /\ stream[q] = "close" /\ Obj(stream, p + 1, q - 1)
  <2>1. stream[From] = "open"
    BY <1>0, <1>1 DEF TrailInv
  <2> QED  BY <1>1, <1>6, <1>7, <2>1
<1> HIDE DEF p, q
<1>9. Word(stream, p, q) \in Messages
  BY <1>2, <1>7, <1>8, MessageSpan
<1>10. SubSeq(stream, From, At + 1) \in Messages
  BY <1>7, <1>9 DEF Word, q
<1>11. SubSeq(buf, start + 1, scan + 1) = SubSeq(stream, From, At + 1)
  <2> DEFINE u == Word(stream, p, q)
             w == Word(buf, start, scan + 1)
             n == Len(stream) - base
  <2>1. buf \in Seq(Bytes) /\ buf = Word(stream, base, Len(stream))
    BY <1>1 DEF BufferInv, Word, FramerInv, FramerTypeOK
  <2>2. Len(stream) \in base..Len(stream)
    BY <1>1, <1>2 DEF BufferInv
  <2>3. Len(buf) = n /\ \A i \in 1..n : buf[i] = stream[base + i]
    BY <1>2, <2>1, <2>2, WordFacts, ZenonT(60)
  <2>4. scan + 1 \in start..Len(buf) /\ start \in Nat
    BY <1>0, <1>1, <1>2, <2>3 DEF BufferInv
  <2>5. /\ w \in Seq(Bytes) /\ Len(w) = (scan + 1) - start
        /\ \A i \in 1..((scan + 1) - start) : w[i] = buf[start + i]
    BY <2>1, <2>4, WordFacts, ZenonT(60)
  <2>6. /\ u \in Seq(Bytes) /\ Len(u) = q - p
        /\ \A i \in 1..(q - p) : u[i] = stream[p + i]
    <3>1. p \in Nat /\ q \in p..Len(stream)
      BY <1>7
    <3> QED  BY <1>2, <3>1, WordFacts, ZenonT(60)
  <2>7. q - p = (scan + 1) - start /\ p = base + start
    BY <1>2 DEF p, q, From
  <2>8. ASSUME NEW i \in 1..((scan + 1) - start) PROVE w[i] = u[i]
    <3>1. start + i \in 1..n /\ base + (start + i) = p + i
      BY <1>2, <2>3, <2>4, <2>7
    <3> QED  BY <2>3, <2>5, <2>6, <2>7, <3>1
  <2> HIDE DEF u, w
  <2>9. w = u
    BY <2>5, <2>6, <2>7, <2>8, SeqEqual
  <2> QED  BY <1>7, <2>9 DEF u, w, Word, q
<1> QED  BY <1>10, <1>11

\* The last byte of a message: the invariant is kept.
LEMMA CompleteStep == ASSUME FramerInv, Complete PROVE FramerInv'
<1> DEFINE msg == SubSeq(stream, From, At + 1)
           cut == [from |-> From, to |-> At + 1]
<1>0. /\ Scanning /\ Inside /\ ~TooLong /\ ~inString /\ Byte = "close" /\ depth = 1
  BY DEF Complete
<1>1. /\ ~error /\ BufferInv /\ TrailInv /\ At + 1 \in 1..Len(stream) /\ At \in Nat
  BY <1>0, Reading
<1>2. /\ base \in Nat /\ scan \in Nat /\ start \in Nat /\ inString \in BOOLEAN
      /\ escape \in BOOLEAN
      /\ stream \in Seq(Bytes) /\ Len(stream) \in Nat /\ LastCut \in Nat
      /\ LastCut <= At /\ At = base + scan /\ MaxMsg \in Nat \ {0} /\ pc = "scan"
  BY <1>0, ScanFacts
<1>3. /\ From \in Nat /\ From \in 1..At
  BY <1>0, <1>1, InWork DEF FramerInv
<1>4. msg \in Messages /\ SubSeq(buf, start + 1, scan + 1) = msg
  BY CompleteIsMessage
<1>5. /\ scan' = scan + 1 /\ consumed' = scan + 1 /\ buf' = buf
      /\ ready' = Append(ready, msg) /\ cuts' = Append(cuts, cut)
      /\ start' = start /\ depth' = 0 /\ inString' = inString
      /\ escape' = escape /\ error' = error /\ pc' = pc /\ stream' = stream
      /\ base' = base /\ taken' = taken /\ Scanned
  <2>1. base + start + 1 = From /\ base + scan + 1 = At + 1
    BY <1>2 DEF From
  <2> QED  BY <1>4, <2>1 DEF Complete
<1>6. /\ trail' \in Seq(Marks) /\ Len(trail') = At + 1 /\ At' = At + 1
      /\ trail'[At + 1].deep = depth' /\ trail'[At + 1].mode = Mode'
  BY <1>0, <1>2, <1>5, TrailGrows
<1>7. msg \in Seq(Bytes)
  <2>1. \A i \in From..(At + 1) : stream[i] \in Bytes
    <3>1. \A i \in From..(At + 1) : i \in 1..Len(stream)
      BY <1>1, <1>2, <1>3
    <3> QED  BY <1>2, <3>1, ElementOfSeq
  <2>2. From \in Int /\ At + 1 \in Int
    BY <1>1, <1>3
  <2> QED  BY <2>1, <2>2, SubSeqProperties
<1>8. cut \in Spans /\ cut.from = From /\ cut.to = At + 1
  BY <1>1, <1>3 DEF Spans
<1>9. ready \in Seq(Seq(Bytes)) /\ taken \in Seq(Seq(Bytes)) /\ cuts \in Seq(Spans)
  BY DEF FramerInv, FramerTypeOK
<1> HIDE DEF msg, cut
<1>10. /\ cuts' \in Seq(Spans) /\ Len(cuts') = Len(cuts) + 1
       /\ \A i \in 1..Len(cuts) : cuts'[i] = cuts[i]
       /\ cuts'[Len(cuts) + 1] = cut
       /\ Len(cuts) \in Nat /\ DOMAIN cuts = 1..Len(cuts)
       /\ DOMAIN cuts' = 1..(Len(cuts) + 1) /\ cuts' # <<>>
  <2>1. Len(cuts) \in Nat /\ DOMAIN cuts = 1..Len(cuts)
    BY <1>9, LenProperties
  <2>2. /\ cuts' \in Seq(Spans) /\ Len(cuts') = Len(cuts) + 1 /\ cuts' # <<>>
        /\ \A i \in 1..Len(cuts) : cuts'[i] = cuts[i]
        /\ cuts'[Len(cuts) + 1] = cut
    BY <1>5, <1>8, <1>9, AppendProperties, SMTT(30)
  <2>3. DOMAIN cuts' = 1..(Len(cuts) + 1)
    BY <2>2, LenProperties
  <2> QED  BY <2>1, <2>2, <2>3
<1>11. LastCut' = At + 1
  BY <1>8, <1>10 DEF LastCut
<1>12. FramerTypeOK'
  <2>1. ready' \in Seq(Seq(Bytes))
    BY <1>5, <1>7, <1>9
  <2> QED  BY <1>2, <1>5, <1>6, <1>10, <2>1 DEF FramerInv, FramerTypeOK
<1>13. ~Inside'
  BY <1>5 DEF Inside
<1>14. BufferInv'
  BY <1>1, <1>2, <1>5, <1>6, <1>13 DEF BufferInv
<1>15. TrailInv'
  BY <1>0, <1>1, <1>5, <1>6, <1>13 DEF TrailInv
<1>16. CutsInv'
  <2>1. \A i \in 1..Len(cuts) : cuts[i].from \in 1..cuts[i].to /\ cuts[i].to <= Len(stream)
    BY <1>10 DEF FramerInv, CutsInv
  <2>2. cut.from \in 1..cut.to /\ cut.to <= Len(stream)
    BY <1>1, <1>2, <1>3, <1>8
  <2>3. \A i \in 1..(Len(cuts) + 1) : i \in 1..Len(cuts) \/ i = Len(cuts) + 1
    BY <1>10
  <2>4. \A i \in DOMAIN cuts' : /\ cuts'[i].from \in 1..cuts'[i].to
                                /\ cuts'[i].to <= Len(stream')
    BY <1>5, <1>10, <2>1, <2>2, <2>3
  <2>5. \A i \in ((At + 1) + 1)..(At + 1) : FALSE
    BY <1>1
  <2> QED  BY <1>1, <1>6, <1>11, <1>13, <2>4, <2>5 DEF CutsInv, OnlySeps
<1>17. ErrorInv'
  BY <1>1, <1>5 DEF ErrorInv
<1>18. MessagesAreExact'
  <2> DEFINE all == taken \o ready
             Gap(i) == (IF i = 1 THEN 0 ELSE cuts[i - 1].to) + 1
  <2>1. taken' \o ready' = Append(all, msg)
    BY <1>5, <1>7, <1>9, LineAppend
  <2>2. /\ Len(all) = Len(cuts)
        /\ \A i \in 1..Len(cuts) :
             /\ all[i] = SubSeq(stream, cuts[i].from, cuts[i].to)
             /\ all[i] \in Messages
             /\ \A j \in Gap(i)..(cuts[i].from - 1) : stream[j] = "sep"
    BY <1>10 DEF FramerInv, MessagesAreExact, OnlySeps
  <2>3. all \in Seq(Seq(Bytes))
    BY <1>9, ConcatProperties
  <2> HIDE DEF all
  <2> DEFINE new == taken' \o ready'
  <2>4. /\ Len(new) = Len(cuts) + 1
        /\ \A i \in 1..Len(cuts) : new[i] = all[i]
        /\ new[Len(cuts) + 1] = msg
    BY <1>7, <2>1, <2>2, <2>3, AppendProperties
  <2> HIDE DEF new
  <2> DEFINE Gap2(i) == (IF i = 1 THEN 0 ELSE cuts'[i - 1].to) + 1
  <2>5. ASSUME NEW i \in 1..(Len(cuts) + 1)
        PROVE  /\ new[i] = SubSeq(stream', cuts'[i].from, cuts'[i].to)
               /\ new[i] \in Messages
               /\ \A j \in Gap2(i)..(cuts'[i].from - 1) : stream'[j] = "sep"
    <3>1. CASE i \in 1..Len(cuts)
      <4>1. cuts'[i] = cuts[i] /\ new[i] = all[i]
        BY <1>10, <2>4, <3>1
      <4>2. Gap2(i) = Gap(i)
        <5>1. i # 1 => i - 1 \in 1..Len(cuts)
          BY <1>10, <3>1
        <5> QED  BY <1>10, <5>1
      <4> HIDE DEF Gap, Gap2
      <4> QED  BY <1>5, <2>2, <3>1, <4>1, <4>2
    <3>2. CASE i = Len(cuts) + 1
      <4>1. cuts'[i] = cut /\ new[i] = msg
        BY <1>10, <2>4, <3>2
      <4>2. new[i] = SubSeq(stream', cuts'[i].from, cuts'[i].to)
        BY <1>5, <1>8, <4>1 DEF msg
      <4>3. Gap2(i) = LastCut + 1
        <5>1. CASE cuts = <<>>
          <6>1. Len(cuts) = 0
            BY <5>1
          <6> QED  BY <3>2, <5>1, <6>1 DEF LastCut
        <5>2. CASE cuts # <<>>
          <6>1. Len(cuts) \in Nat \ {0}
            BY <1>9, <5>2, EmptySeq
          <6>2. i # 1 /\ i - 1 = Len(cuts) /\ Len(cuts) \in 1..Len(cuts)
            BY <3>2, <6>1
          <6> QED  BY <1>10, <5>2, <6>2 DEF LastCut
        <5> QED  BY <5>1, <5>2
      <4>4. \A j \in (LastCut + 1)..(From - 1) : stream[j] = "sep"
        BY <1>0, <1>1 DEF FramerInv, CutsInv, OnlySeps
      <4> HIDE DEF Gap2
      <4> QED  BY <1>4, <1>5, <1>8, <4>1, <4>2, <4>3, <4>4
    <3>3. i \in 1..Len(cuts) \/ i = Len(cuts) + 1
      BY <1>10
    <3> QED  BY <3>1, <3>2, <3>3
  <2> QED  BY <1>10, <2>4, <2>5 DEF MessagesAreExact, OnlySeps, new
<1> QED  BY <1>12, <1>14, <1>15, <1>16, <1>17, <1>18 DEF FramerInv

\* Garbage between messages, or a message that grows too long, is an error of
\* the stream: the invariant is kept.
LEMMA FailStep == ASSUME FramerInv, Fail PROVE FramerInv'
<1>0. /\ Scanning
      /\ \/ ~Inside /\ Byte \notin {"sep", "open"}
         \/ Inside /\ TooLong
  BY DEF Fail
<1>1. /\ error' = TRUE /\ buf' = <<>> /\ scan' = 0 /\ start' = 0 /\ depth' = 0
      /\ pc' = "idle" /\ ready' = ready /\ inString' = inString
      /\ escape' = escape /\ consumed' = consumed /\ stream' = stream
      /\ base' = base /\ cuts' = cuts /\ taken' = taken /\ trail' = trail
  BY DEF Fail, ghosts
<1>2. /\ ~error /\ BufferInv /\ TrailInv /\ At + 1 \in 1..Len(stream)
      /\ Byte = stream[At + 1] /\ At \in Nat
  BY <1>0, Reading
<1>3. /\ base \in Nat /\ scan \in Nat /\ start \in Nat
      /\ stream \in Seq(Bytes) /\ Len(stream) \in Nat /\ LastCut \in Nat
      /\ LastCut <= At /\ At = base + scan /\ MaxMsg \in Nat \ {0}
  BY <1>0, ScanFacts
<1>4. FramerTypeOK'
  <2>1. error' \in BOOLEAN
    BY <1>1, Zenon
  <2> QED  BY <1>1, <2>1 DEF FramerInv, FramerTypeOK
<1>5. /\ MessagesAreExact'
      /\ \A i \in DOMAIN cuts' : /\ cuts'[i].from \in 1..cuts'[i].to
                                 /\ cuts'[i].to <= Len(stream')
  BY <1>1, <1>3, ExactKept
<1>6. CutsInv'
  BY <1>1, <1>5 DEF CutsInv
<1>7. \E from \in RestFrom :
         \/ stream[from] # "open"
         \/ Len(stream) - from + 1 > MaxMsg /\ ~HasMessage(from)
  <2>1. CASE ~Inside /\ Byte \notin {"sep", "open"}
    <3>1. OnlySeps(LastCut + 1, (At + 1) - 1)
      <4>1. (At + 1) - 1 = At
        BY <1>2
      <4> QED  BY <1>2, <2>1, <4>1 DEF FramerInv, CutsInv
    <3>2. At + 1 \in (LastCut + 1)..Len(stream)
      BY <1>2, <1>3
    <3>3. At + 1 \in RestFrom
      BY <1>2, <2>1, <3>1, <3>2 DEF RestFrom
    <3> QED  BY <1>2, <2>1, <3>3
  <2>2. CASE Inside /\ TooLong
    <3>1. From \in RestFrom
      BY <1>2, <2>2, RestIsFrom DEF FramerInv
    <3>2. (At + 1) - From + 1 > MaxMsg /\ From \in Nat
      BY <1>3, <2>2 DEF TooLong, From
    <3>3. Len(stream) - From + 1 > MaxMsg
      BY <1>2, <1>3, <3>2
    <3>4. ~HasMessage(From)
      <4>1. \A to \in From..Len(stream) :
               SubSeq(stream, From, to) \in Messages =>
                  to > At /\ to - From + 1 <= MaxMsg
        BY <1>2, <2>2, NoMessageYet DEF FramerInv
      <4>2. \A to \in From..Len(stream) : ~(to > At /\ to - From + 1 <= MaxMsg)
        BY <1>2, <1>3, <3>2
      <4> QED  BY <4>1, <4>2 DEF HasMessage
    <3> QED  BY <3>1, <3>3, <3>4
  <2> QED  BY <1>0, <2>1, <2>2
<1>8. ErrorInv'
  <2>1. RestFrom' = RestFrom
    BY <1>1 DEF RestFrom, LastCut, OnlySeps
  <2>2. \A from \in RestFrom : HasMessage(from)' <=> HasMessage(from)
    BY <1>1 DEF HasMessage
  <2> QED  BY <1>1, <1>7, <2>1, <2>2 DEF ErrorInv, HasMessage
<1> QED  BY <1>1, <1>4, <1>5, <1>6, <1>8 DEF FramerInv

\* The end of feed(): the buffer loses what is done with, and the places in
\* the stream stay.
LEMMA FeedEndStep == ASSUME FramerInv, FeedEnd PROVE FramerInv'
<1>0. pc = "scan" /\ scan = Len(buf)
  BY DEF FeedEnd
<1>1. /\ buf' = SubSeq(buf, Erased + 1, Len(buf)) /\ scan' = scan - Erased
      /\ start' = StartAfter /\ base' = base + Erased
      /\ pc' = "idle" /\ ready' = ready /\ inString' = inString /\ depth' = depth
      /\ escape' = escape /\ consumed' = consumed /\ stream' = stream
      /\ error' = error /\ cuts' = cuts /\ taken' = taken /\ trail' = trail
  BY DEF FeedEnd
<1>2. ~error /\ BufferInv /\ TrailInv
  BY <1>0 DEF FramerInv, ErrorInv
<1>3. /\ base \in Nat /\ scan \in Nat /\ start \in Nat /\ consumed \in Nat
      /\ depth \in Nat /\ stream \in Seq(Bytes) /\ buf \in Seq(Bytes)
  BY DEF FramerInv, FramerTypeOK
<1>4. Len(stream) \in Nat /\ Len(stream) \in base..Len(stream)
  BY <1>2, <1>3 DEF BufferInv
<1>5. Erased = IF Inside THEN start ELSE scan
  BY <1>0, <1>2, <1>3 DEF BufferInv, Erased
<1>6. Erased \in 0..scan
  BY <1>2, <1>3, <1>5 DEF BufferInv
<1>7. /\ Len(buf) = Len(stream) - base
      /\ \A i \in 1..(Len(stream) - base) : buf[i] = stream[base + i]
  <2>1. buf = Word(stream, base, Len(stream))
    BY <1>2 DEF BufferInv, Word
  <2> QED  BY <1>3, <1>4, <2>1, WordFacts, ZenonT(60)
<1>8. At' = At /\ At = Len(stream) /\ (Inside' <=> Inside)
  BY <1>0, <1>1, <1>3, <1>4, <1>6, <1>7 DEF At, Inside
<1>9. Inside => start' = 0 /\ From' = From
  BY <1>1, <1>3, <1>5 DEF From, StartAfter
<1>10. ~Inside => start' = start /\ scan' = 0
  BY <1>1, <1>3, <1>5 DEF StartAfter
<1>11. scan' \in Nat /\ base' \in Nat /\ start' \in Nat /\ base' <= Len(stream)
  BY <1>0, <1>1, <1>3, <1>4, <1>6, <1>7, <1>9, <1>10
<1>12. buf' \in Seq(Bytes) /\ buf' = SubSeq(stream, base' + 1, Len(stream))
  <2> DEFINE e == Erased
             k == base'
             n == Len(stream)
             u == Word(buf, e, Len(buf))
             w == Word(stream, k, n)
  <2>1. /\ e \in Nat /\ Len(buf) \in e..Len(buf) /\ k \in Nat /\ n \in k..Len(stream)
        /\ Len(buf) - e = n - k /\ k = base + e
    BY <1>0, <1>1, <1>3, <1>4, <1>6, <1>7, <1>11
  <2> HIDE DEF e, k, n
  <2>2. /\ u \in Seq(Bytes) /\ Len(u) = Len(buf) - e
        /\ \A i \in 1..(Len(buf) - e) : u[i] = buf[e + i]
    <3>1. buf \in Seq(Bytes) /\ e \in Nat /\ Len(buf) \in e..Len(buf)
      BY <1>3, <2>1
    <3> QED  BY <3>1, WordFacts
  <2>3. /\ w \in Seq(Bytes) /\ Len(w) = n - k
        /\ \A i \in 1..(n - k) : w[i] = stream[k + i]
    <3>1. k \in Nat /\ n \in k..Len(stream)
      BY <2>1
    <3> QED  BY <1>3, <3>1, WordFacts
  <2>4. ASSUME NEW i \in 1..(n - k) PROVE u[i] = w[i]
    <3>1. e + i \in 1..(Len(stream) - base) /\ base + (e + i) = k + i
      BY <1>3, <1>4, <1>7, <2>1 DEF n
    <3> QED  BY <1>7, <2>1, <2>2, <2>3, <3>1, ZenonT(60)
  <2> HIDE DEF u, w
  <2>5. u = w
    BY <2>1, <2>2, <2>3, <2>4, SeqEqual
  <2> QED  BY <1>1, <2>2, <2>5 DEF u, w, Word, e, k, n
<1>13. FramerTypeOK'
  BY <1>1, <1>11, <1>12 DEF FramerInv, FramerTypeOK
<1>14. BufferInv'
  <2>1. Inside => start' < scan' /\ scan' <= start' + MaxMsg
    BY <1>1, <1>2, <1>3, <1>5, <1>9, FramerAssumption DEF BufferInv
  <2>2. /\ base' <= Len(stream') /\ buf' = SubSeq(stream', base' + 1, Len(stream'))
        /\ pc' = "idle" /\ At' = Len(stream') /\ At' <= Len(stream')
    <3>1. stream' = stream /\ pc' = "idle"
      BY <1>1
    <3>2. At' = Len(stream') /\ At' <= Len(stream') /\ base' <= Len(stream')
      BY <1>4, <1>8, <1>11, <3>1
    <3>3. buf' = SubSeq(stream', base' + 1, Len(stream'))
      BY <1>12, <3>1, Zenon
    <3> QED  BY <3>1, <3>2, <3>3
  <2>3. IF Inside THEN start' = 0 ELSE scan' = 0
    BY <1>9, <1>10
  <2> QED  BY <1>8, <2>1, <2>2, <2>3 DEF BufferInv
<1>15. TrailInv'
  BY <1>1, <1>2, <1>8, <1>9 DEF TrailInv, Mode
<1>16. /\ MessagesAreExact' /\ LastCut' = LastCut
      /\ \A i \in DOMAIN cuts' : /\ cuts'[i].from \in 1..cuts'[i].to
                                 /\ cuts'[i].to <= Len(stream')
  BY <1>1, <1>3, <1>4, ExactKept
<1>17. CutsInv'
  <2>1. /\ LastCut <= At /\ (Inside => LastCut < From)
        /\ \A i \in (LastCut + 1)..(IF Inside THEN From - 1 ELSE At) : stream[i] = "sep"
    BY <1>2 DEF FramerInv, CutsInv, OnlySeps
  <2>2. CASE Inside
    <3>1. Inside'
      BY <1>8, <2>2
    <3> QED  BY <1>1, <1>8, <1>9, <1>16, <2>1, <2>2, <3>1 DEF CutsInv, OnlySeps, Inside
  <2>3. CASE ~Inside
    <3>1. ~Inside'
      BY <1>8, <2>3
    <3> QED  BY <1>1, <1>8, <1>16, <2>1, <2>3, <3>1 DEF CutsInv, OnlySeps, Inside
  <2> QED  BY <2>2, <2>3
<1>18. ErrorInv'
  BY <1>1, <1>2 DEF ErrorInv
<1> QED  BY <1>13, <1>14, <1>15, <1>16, <1>17, <1>18 DEF FramerInv

\* feed() appends what recv() returned: the stream grows at its end, and the
\* invariant is kept.
LEMMA FeedStep == ASSUME FramerInv, NEW chunk \in Chunks, Feed(chunk) PROVE FramerInv'
<1>0. pc = "idle" /\ ~error /\ BufferInv /\ TrailInv
  BY DEF Feed, FramerInv
<1>1. /\ buf' = buf \o chunk /\ stream' = stream \o chunk /\ consumed' = 0
      /\ pc' = "scan" /\ ready' = ready /\ scan' = scan /\ start' = start
      /\ depth' = depth /\ inString' = inString /\ escape' = escape
      /\ error' = error /\ base' = base /\ cuts' = cuts /\ taken' = taken
      /\ trail' = trail
  BY DEF Feed, scanner
<1>2. /\ base \in Nat /\ scan \in Nat /\ start \in Nat
      /\ depth \in Nat /\ stream \in Seq(Bytes) /\ buf \in Seq(Bytes)
  BY DEF FramerInv, FramerTypeOK
<1>3. chunk \in Seq(Bytes)
  <2>1. PICK n \in 1..MaxChunk : chunk \in [1..n -> Bytes]
    BY DEF Chunks
  <2>2. n \in Nat
    BY <2>1, FramerAssumption
  <2> QED  BY <2>1, <2>2, SeqDef
<1>4. /\ Len(stream) \in Nat /\ Len(chunk) \in Nat
      /\ stream' \in Seq(Bytes) /\ Len(stream') = Len(stream) + Len(chunk)
      /\ buf' \in Seq(Bytes) /\ Len(buf') = Len(buf) + Len(chunk)
  <2>1. Len(stream) \in Nat /\ Len(chunk) \in Nat
    BY <1>2, <1>3, LenProperties
  <2> QED  BY <1>1, <1>2, <1>3, <2>1, ConcatProperties
<1>5. \A i \in 1..Len(stream') :
         stream'[i] = IF i <= Len(stream) THEN stream[i] ELSE chunk[i - Len(stream)]
  BY <1>1, <1>2, <1>3, <1>4, ConcatProperties
<1>6. \A i \in 1..Len(stream) : stream'[i] = stream[i]
  <2>1. \A i \in 1..Len(stream) : i \in 1..Len(stream') /\ i <= Len(stream)
    BY <1>4
  <2> QED  BY <1>5, <2>1
<1>7. Len(stream) <= Len(stream')
  BY <1>4
<1>8. /\ MessagesAreExact' /\ LastCut' = LastCut
      /\ \A i \in DOMAIN cuts' : /\ cuts'[i].from \in 1..cuts'[i].to
                                 /\ cuts'[i].to <= Len(stream')
  BY <1>1, <1>4, <1>6, <1>7, ExactKept
<1>9. At' = At /\ From' = From /\ (Inside' <=> Inside) /\ Mode' = Mode
  BY <1>1 DEF At, From, Inside, Mode
<1>10. At \in Nat /\ At = Len(stream) /\ base <= Len(stream)
  BY <1>0, <1>2 DEF BufferInv, At
<1>11. FramerTypeOK'
  BY <1>1, <1>4 DEF FramerInv, FramerTypeOK
<1>12. buf' = SubSeq(stream', base' + 1, Len(stream'))
  <2>1. SubSeq(stream', base + 1, Len(stream')) =
           SubSeq(stream', base + 1, Len(stream))
           \o SubSeq(stream', Len(stream) + 1, Len(stream'))
    <3> DEFINE m == Len(stream)
               q == Len(stream')
    <3>1. q \in base..Len(stream') /\ m \in base..q
      BY <1>2, <1>4, <1>10
    <3> HIDE DEF m, q
    <3>2. Word(stream', base, q) = Word(stream', base, m) \o Word(stream', m, q)
      BY <1>2, <1>4, <3>1, WordJoin
    <3> QED  BY <3>2 DEF Word, m, q
  <2>2. SubSeq(stream', base + 1, Len(stream)) = buf
    <3> DEFINE m == Len(stream)
    <3>1. m \in base..Len(stream) /\ buf = Word(stream, base, m)
      BY <1>0, <1>4, <1>10 DEF BufferInv, Word
    <3> HIDE DEF m
    <3>2. Word(stream', base, m) = Word(stream, base, m)
      BY <1>2, <1>4, <1>6, <1>7, <3>1, SamePart
    <3> QED  BY <3>1, <3>2 DEF Word, m
  <2>3. SubSeq(stream', Len(stream) + 1, Len(stream')) = chunk
    <3> DEFINE m == Len(stream)
               q == Len(stream')
               w == Word(stream', m, q)
    <3>1. m \in Nat /\ q \in m..Len(stream') /\ q - m = Len(chunk)
      BY <1>4
    <3>2. /\ w \in Seq(Bytes) /\ Len(w) = q - m
          /\ \A i \in 1..(q - m) : w[i] = stream'[m + i]
      <4> HIDE DEF m, q
      <4> QED  BY <1>4, <3>1, WordFacts
    <3>3. ASSUME NEW i \in 1..Len(chunk) PROVE stream'[m + i] = chunk[i]
      <4>1. /\ m + i \in 1..Len(stream') /\ ~(m + i <= Len(stream))
            /\ (m + i) - Len(stream) = i
        BY <1>4
      <4> QED  BY <1>5, <4>1
    <3> HIDE DEF w, m, q
    <3>4. w = chunk
      BY <1>3, <3>1, <3>2, <3>3, SeqEqual
    <3> QED  BY <3>4 DEF w, Word, m, q
  <2> QED  BY <1>1, <2>1, <2>2, <2>3
<1>13. BufferInv'
  <2>1. /\ Inside => start < scan /\ scan <= start + MaxMsg
        /\ IF Inside THEN start = 0 ELSE scan = 0
    BY <1>0 DEF BufferInv
  <2> QED  BY <1>1, <1>2, <1>4, <1>9, <1>10, <1>12, <2>1 DEF BufferInv
<1>14. Inside => From \in 1..Len(stream) /\ From \in Nat /\ From \in 1..At
  BY <1>0, InWork DEF FramerInv
<1>15. TrailInv'
  <2>1. Inside =>
          /\ stream'[From] = "open"
          /\ trail[From].deep = 1 /\ trail[From].mode = "object"
          /\ \A i \in From..At : trail[i].deep > 0
          /\ \A i \in From..(At - 1) : Moves(trail[i], stream'[i + 1], trail[i + 1])
    <3> SUFFICES ASSUME Inside
                 PROVE  /\ stream'[From] = "open"
                        /\ trail[From].deep = 1 /\ trail[From].mode = "object"
                        /\ \A i \in From..At : trail[i].deep > 0
                        /\ \A i \in From..(At - 1) :
                              Moves(trail[i], stream'[i + 1], trail[i + 1])
      OBVIOUS
    <3>1. /\ stream[From] = "open"
          /\ trail[From].deep = 1 /\ trail[From].mode = "object"
          /\ \A i \in From..At : trail[i].deep > 0
          /\ \A i \in From..(At - 1) : Moves(trail[i], stream[i + 1], trail[i + 1])
      BY <1>0 DEF TrailInv
    <3>2. \A i \in From..(At - 1) : i + 1 \in 1..Len(stream)
      BY <1>10, <1>14
    <3> QED  BY <1>6, <1>14, <3>1, <3>2
  <2>2. /\ Len(trail) = At /\ (~Inside => ~inString)
        /\ escape => inString
        /\ trail # <<>> => trail[At].deep = depth /\ trail[At].mode = Mode
    BY <1>0 DEF TrailInv
  <2>3. CASE Inside
    <3>1. Inside'
      BY <1>9, <2>3
    <3> QED  BY <1>1, <1>9, <2>1, <2>2, <2>3, <3>1 DEF TrailInv, Inside
  <2>4. CASE ~Inside
    <3>1. ~Inside'
      BY <1>9, <2>4
    <3> QED  BY <1>1, <1>9, <2>2, <2>4, <3>1 DEF TrailInv, Inside
  <2> QED  BY <2>3, <2>4
<1>16. CutsInv'
  <2>1. /\ LastCut <= At /\ (Inside => LastCut < From)
        /\ \A i \in (LastCut + 1)..(IF Inside THEN From - 1 ELSE At) : stream[i] = "sep"
    BY <1>0 DEF FramerInv, CutsInv, OnlySeps
  <2>2. LastCut \in Nat
    BY LastCutIn DEF FramerInv
  <2>3. \A i \in (LastCut + 1)..(IF Inside THEN From - 1 ELSE At) : i \in 1..Len(stream)
    BY <1>10, <1>14, <2>2
  <2>4. CASE Inside
    <3>1. Inside'
      BY <1>9, <2>4
    <3> QED  BY <1>6, <1>8, <1>9, <2>1, <2>3, <2>4, <3>1 DEF CutsInv, OnlySeps, Inside
  <2>5. CASE ~Inside
    <3>1. ~Inside'
      BY <1>9, <2>5
    <3> QED  BY <1>6, <1>8, <1>9, <2>1, <2>3, <2>5, <3>1 DEF CutsInv, OnlySeps, Inside
  <2> QED  BY <2>4, <2>5
<1>17. ErrorInv'
  BY <1>0, <1>1 DEF ErrorInv
<1> QED  BY <1>8, <1>11, <1>13, <1>15, <1>16, <1>17 DEF FramerInv

\* next() moves the oldest message from the queue to its caller: the
\* invariant is kept.
LEMMA NextMessageStep == ASSUME FramerInv, NextMessage PROVE FramerInv'
<1>0. ready # <<>>
  BY DEF NextMessage
<1>1. /\ taken' = Append(taken, Head(ready)) /\ ready' = Tail(ready)
      /\ buf' = buf /\ stream' = stream /\ consumed' = consumed
      /\ pc' = pc /\ scan' = scan /\ start' = start
      /\ depth' = depth /\ inString' = inString /\ escape' = escape
      /\ error' = error /\ base' = base /\ cuts' = cuts /\ trail' = trail
  BY DEF NextMessage, scanner
<1>2. ready \in Seq(Seq(Bytes)) /\ taken \in Seq(Seq(Bytes)) /\ stream \in Seq(Bytes)
  BY DEF FramerInv, FramerTypeOK
<1> DEFINE B == Seq(Bytes)
<1>3. Head(ready) \in B /\ ready' \in Seq(B) /\ taken' \in Seq(B)
  <2> HIDE DEF B
  <2>1. ready \in Seq(B) /\ taken \in Seq(B)
    BY <1>2 DEF B
  <2>2. Head(ready) \in B /\ Tail(ready) \in Seq(B)
    BY <1>0, <2>1, HeadTailProperties
  <2> QED  BY <1>1, <2>1, <2>2, AppendProperties
<1>4. taken' \o ready' = taken \o ready
  <2> HIDE DEF B
  <2>1. ready \in Seq(B) /\ taken \in Seq(B)
    BY <1>2 DEF B
  <2>2. (taken \o <<>>) \o ready = (taken \o <<Head(ready)>>) \o Tail(ready)
    BY <1>0, <2>1, LineTake
  <2>3. taken \o <<>> = taken /\ Append(taken, Head(ready)) = taken \o <<Head(ready)>>
    BY <1>3, <2>1, ConcatEmptySeq, AppendIsConcat
  <2> QED  BY <1>1, <2>2, <2>3
<1>5. /\ MessagesAreExact' /\ LastCut' = LastCut
      /\ \A i \in DOMAIN cuts' : /\ cuts'[i].from \in 1..cuts'[i].to
                                 /\ cuts'[i].to <= Len(stream')
  <2>1. Len(stream) <= Len(stream')
    BY <1>1, <1>2
  <2> QED  BY <1>1, <1>2, <1>4, <2>1, ExactKept
<1>6. FramerTypeOK'
  BY <1>1, <1>3 DEF FramerInv, FramerTypeOK
<1>7. ~error => BufferInv' /\ TrailInv'
  BY <1>1 DEF FramerInv, BufferInv, TrailInv, At, From, Inside, Mode
<1>8. CutsInv'
  BY <1>1, <1>5 DEF FramerInv, CutsInv, OnlySeps, At, From, Inside
<1>9. ErrorInv'
  <2>1. RestFrom' = RestFrom
    BY <1>1, <1>5 DEF RestFrom, OnlySeps
  <2> QED  BY <1>1, <2>1 DEF FramerInv, ErrorInv, HasMessage
<1> QED  BY <1>1, <1>5, <1>6, <1>7, <1>8, <1>9 DEF FramerInv

\* A framer between two calls that has not seen a byte.
Fresh ==
    /\ buf = <<>> /\ ready = <<>> /\ scan = 0 /\ start = 0 /\ depth = 0
    /\ inString = FALSE /\ escape = FALSE /\ error = FALSE
    /\ consumed \in Nat /\ pc = "idle" /\ stream = <<>> /\ base = 0
    /\ cuts = <<>> /\ taken = <<>> /\ trail = <<>>

\* A fresh framer satisfies the invariant.
LEMMA FreshInv == Fresh => FramerInv
<1> SUFFICES ASSUME Fresh PROVE FramerInv
  OBVIOUS
<1> USE DEF Fresh
<1>1. FramerTypeOK
  <2>1. inString \in BOOLEAN /\ escape \in BOOLEAN /\ error \in BOOLEAN
    BY Zenon
  <2>2. /\ buf \in Seq(Bytes) /\ stream \in Seq(Bytes) /\ ready \in Seq(Seq(Bytes))
        /\ taken \in Seq(Seq(Bytes)) /\ cuts \in Seq(Spans) /\ trail \in Seq(Marks)
    BY EmptySeq
  <2> QED  BY <2>1, <2>2 DEF FramerTypeOK
<1>2. Len(stream) = 0 /\ Len(trail) = 0 /\ Len(cuts) = 0 /\ At = 0 /\ ~Inside
      /\ LastCut = 0
  BY DEF At, Inside, LastCut
<1>3. BufferInv
  <2>1. SubSeq(stream, base + 1, Len(stream)) = <<>>
    BY <1>2, SubSeqEmpty
  <2> QED  BY <1>2, <2>1 DEF BufferInv
<1>4. TrailInv
  BY <1>2 DEF TrailInv
<1>5. DOMAIN cuts = {}
  OBVIOUS
<1>6. CutsInv
  BY <1>2, <1>5 DEF CutsInv, OnlySeps
<1>7. ErrorInv
  BY DEF ErrorInv
<1>8. MessagesAreExact
  <2>1. taken \o ready = <<>>
    <3>1. taken \in Seq(Seq(Bytes))
      BY <1>1 DEF FramerTypeOK
    <3> QED  BY <3>1, ConcatEmptySeq
  <2> QED  BY <1>2, <1>5, <2>1 DEF MessagesAreExact
<1> QED  BY <1>1, <1>3, <1>4, <1>6, <1>7, <1>8 DEF FramerInv

\* reset() leaves a fresh framer: the invariant is kept.
LEMMA ResetStep == ASSUME FramerInv, Reset PROVE FramerInv'
<1>1. consumed' \in Nat /\ pc' = "idle"
  BY DEF Reset, FramerInv, FramerTypeOK
<1>2. Fresh'
  BY <1>1 DEF Reset, Fresh
<1> QED  BY <1>2, FreshInv, PTL

\* Between two calls the framer's verdict on the stream is right.
LEMMA VerdictFollows == FramerInv => VerdictIsRight
<1> SUFFICES ASSUME FramerInv PROVE VerdictIsRight
  OBVIOUS
<1>1. ASSUME pc = "idle", ~error
      PROVE  /\ buf = SubSeq(stream, base + 1, Len(stream))
             /\ Len(buf) <= MaxMsg
             /\ \A from \in RestFrom : stream[from] = "open" /\ ~HasMessage(from)
  <2>1. BufferInv /\ TrailInv /\ CutsInv /\ FramerTypeOK
    BY <1>1 DEF FramerInv
  <2>2. /\ base \in Nat /\ scan \in Nat /\ start \in Nat /\ stream \in Seq(Bytes)
        /\ MaxMsg \in Nat \ {0}
    BY <2>1, FramerAssumption DEF FramerTypeOK
  <2>3. Len(stream) \in Nat /\ Len(stream) \in base..Len(stream) /\ At = Len(stream)
    BY <1>1, <2>1, <2>2 DEF BufferInv
  <2>4. buf = Word(stream, base, Len(stream))
    BY <2>1 DEF BufferInv, Word
  <2>5. Len(buf) = Len(stream) - base
    BY <2>2, <2>3, <2>4, WordFacts
  <2>6. Len(buf) <= MaxMsg
    BY <1>1, <2>1, <2>2, <2>3, <2>5 DEF BufferInv, At
  <2>7. CASE Inside
    <3>1. \A from \in RestFrom : from = From
      BY <1>1, <2>1, <2>7, RestIsFrom
    <3>2. stream[From] = "open"
      BY <2>1, <2>7 DEF TrailInv
    <3>3. ~HasMessage(From)
      <4>1. \A to \in From..Len(stream) :
               SubSeq(stream, From, to) \in Messages => to > At
        BY <2>1, <2>7, NoMessageYet
      <4>2. \A to \in From..Len(stream) : ~(to > At)
        <5>1. From \in Nat
          BY <2>1, <2>7, InWork
        <5> QED  BY <2>3, <5>1
      <4> QED  BY <4>1, <4>2 DEF HasMessage
    <3> QED  BY <2>1, <2>6, <3>1, <3>2, <3>3 DEF BufferInv
  <2>8. CASE ~Inside
    <3>1. \A i \in (LastCut + 1)..Len(stream) : stream[i] = "sep"
      BY <1>1, <2>1, <2>3, <2>8 DEF CutsInv, OnlySeps
    <3>2. RestFrom = {}
      BY <3>1 DEF RestFrom
    <3> QED  BY <2>1, <2>6, <3>2 DEF BufferInv
  <2> QED  BY <2>7, <2>8
<1>2. error => \E from \in RestFrom :
                 \/ stream[from] # "open"
                 \/ Len(stream) - from + 1 > MaxMsg /\ ~HasMessage(from)
  BY DEF FramerInv, ErrorInv
<1> QED  BY <1>1, <1>2 DEF VerdictIsRight

\* For every max_msg, every stream and every way recv() cuts it: the
\* framer's inductive invariant.
THEOREM FramerSafety == FramerSpec => []FramerInv
<1>1. FramerInit => FramerInv
  <2>1. FramerInit => Fresh
    BY DEF FramerInit, Fresh
  <2> QED  BY <2>1, FreshInv
<1>2. FramerInv /\ [FramerNext]_framerVars => FramerInv'
  <2> SUFFICES ASSUME FramerInv, [FramerNext]_framerVars PROVE FramerInv'
    OBVIOUS
  <2>1. CASE \E chunk \in Chunks : Feed(chunk)
    BY <2>1, FeedStep
  <2>2. CASE Skip
    BY <2>2, SkipStep
  <2>3. CASE Begin
    BY <2>3, BeginStep
  <2>4. CASE Fail
    BY <2>4, FailStep
  <2>5. CASE StringByte
    BY <2>5, StringByteStep
  <2>6. CASE ObjectByte
    BY <2>6, ObjectByteStep
  <2>7. CASE Complete
    BY <2>7, CompleteStep
  <2>8. CASE FeedEnd
    BY <2>8, FeedEndStep
  <2>9. CASE NextMessage
    BY <2>9, NextMessageStep
  <2>10. CASE Reset
    BY <2>10, ResetStep
  <2>11. CASE UNCHANGED framerVars
    BY <2>11 DEF framerVars, scanner, ghosts, FramerInv, FramerTypeOK, BufferInv,
       TrailInv, CutsInv, ErrorInv, MessagesAreExact, At, From, Inside, Mode,
       LastCut, OnlySeps, RestFrom, HasMessage
  <2> QED  BY <2>1, <2>2, <2>3, <2>4, <2>5, <2>6, <2>7, <2>8, <2>9, <2>10, <2>11
           DEF FramerNext
<1> QED  BY <1>1, <1>2, PTL DEF FramerSpec

\* The messages handed out are the JSON values of the stream, whole, in order
\* and with separators only between them.
THEOREM FramingIsExact == FramerSpec => []MessagesAreExact
<1>1. FramerInv => MessagesAreExact
  BY DEF FramerInv
<1> QED  BY <1>1, FramerSafety, PTL

\* A connection is given up for what is wrong with its stream, and never
\* keeps a whole message waiting.
THEOREM VerdictsAreRight == FramerSpec => []VerdictIsRight
BY FramerSafety, VerdictFollows, PTL
=============================================================================
