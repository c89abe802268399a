----------------------------- MODULE TaskWorker -----------------------------
(***************************************************************************)
(* ADTaskWorker: asynchronous tasks of an RPC service.  The single RPC     *)
(* thread pushes tasks, polls their status and resets the task ids; the    *)
(* worker thread runs them one at a time and sends the done event.  The    *)
(* two meet in work_chain and work_inprog_chain: one action is one locked  *)
(* access to one of the chains.                                            *)
(*                                                                         *)
(* Task ids restart at 1 after a reset, so a task also has a number of its *)
(* own (uid, a ghost no guard reads) and its result is that number; the    *)
(* status InProg is 0.                                                     *)
(***************************************************************************)
EXTENDS Naturals, SequencesExt

CONSTANTS MaxTasks,   \* tasks pushed during a behaviour (bound)
          MaxInprog   \* ADTASK_WORKER_MAX_INPROG_TASKS

InProg == 0
Tasks == 1..MaxTasks

ASSUME TaskAssumption == MaxTasks \in Nat /\ MaxInprog \in Nat \ {0}

VARIABLES
    workChain,   \* work_chain: tasks to run, [id, uid, del]
    inprog,      \* work_inprog_chain: status records, [id, uid, sts]
    ident,       \* ident_generator of work_inprog_chain
    sem,         \* wakeups of work_thread not taken yet
    pc,          \* where the RPC thread is
    new,         \* the task push_task() is about
    victim,      \* the id it is about to remove
    wpc,         \* where the worker is
    cur,         \* the task it works on
    stopping,    \* stop() was called
    ntasks       \* tasks pushed so far

rpcVars == <<ident, pc, new, victim, ntasks>>
workerVars == <<wpc, cur>>
vars == <<workChain, inprog, ident, sem, pc, new, victim, wpc, cur, stopping,
          ntasks>>

NoWork == [id |-> 0, uid |-> 0, del |-> FALSE]

\* chain_remove_by_ident() takes the first match; chain_get_by_ident() would
\* find the first one too, which is the only one: no id occurs twice in a
\* chain (IdInv).
Without(chain, id) == RemoveFirstMatch(chain, LAMBDA e : e.id = id)
WithId(id) == {i \in DOMAIN inprog : inprog[i].id = id}
Finished(i) == inprog[i].sts # InProg
-----------------------------------------------------------------------------
(* RPC thread: push_task()                                                 *)

\* A handler pushes a task whose record is kept (PRESERVE) or not (DELETE).
PushTask ==
    /\ pc = "idle"
    /\ ~stopping
    /\ ntasks < MaxTasks
    /\ ntasks' = ntasks + 1
    /\ \E del \in BOOLEAN :
          new' = [id |-> 0, uid |-> ntasks + 1, del |-> del]
    /\ pc' = "evict"
    /\ UNCHANGED <<workChain, inprog, ident, sem, victim, workerVars, stopping>>

\* evict_completed_tasks(): the size, ...
EvictSize ==
    /\ pc = "evict"
    /\ pc' = IF Len(inprog) >= MaxInprog THEN "pick" ELSE "putwork"
    /\ UNCHANGED <<workChain, inprog, ident, sem, new, victim, workerVars,
                   stopping, ntasks>>

\* ... then the oldest finished task; tasks in progress are never evicted.
Bug_Evictable(i) == TRUE
Evictable(i) == Finished(i)

EvictPick ==
    /\ pc = "pick"
    /\ \/ /\ \A i \in DOMAIN inprog : ~Evictable(i)
          /\ pc' = "putwork"
          /\ victim' = victim
       \/ \E i \in DOMAIN inprog :
             /\ Evictable(i)
             /\ \A j \in 1..(i - 1) : ~Evictable(j)
             /\ victim' = inprog[i].id
             /\ pc' = "remove"
    /\ UNCHANGED <<workChain, inprog, ident, sem, new, workerVars, stopping,
                   ntasks>>

EvictRemove ==
    /\ pc = "remove"
    /\ inprog' = Without(inprog, victim)
    /\ pc' = "evict"
    /\ UNCHANGED <<workChain, ident, sem, new, victim, workerVars, stopping,
                   ntasks>>

\* chain_generate_ident() and chain_put(), which fails without memory.
PutWork ==
    /\ pc = "putwork"
    /\ ident' = ident + 1
    /\ new' = [new EXCEPT !.id = ident + 1]
    /\ \/ workChain' = Append(workChain, new') /\ pc' = "putrecord"
       \/ workChain' = workChain /\ pc' = "idle"
    /\ UNCHANGED <<inprog, sem, victim, workerVars, stopping, ntasks>>

\* The status record; when it cannot be queued the task is taken back.
TakenBack == Without(workChain, new.id)

PutRecord ==
    /\ pc = "putrecord"
    /\ \/ /\ inprog' = Append(inprog, [id |-> new.id, uid |-> new.uid,
                                       sts |-> InProg])
          /\ pc' = "wake"
          /\ workChain' = workChain
       \/ /\ workChain' = TakenBack
          /\ pc' = "idle"
          /\ inprog' = inprog
    /\ UNCHANGED <<ident, sem, new, victim, workerVars, stopping, ntasks>>

\* wakeup_thread(): one post per task, as the worker takes one per wakeup.
Bug_PostAsFlag == 1
Post == sem + 1

Wake ==
    /\ pc = "wake"
    /\ sem' = Post
    /\ pc' = "idle"
    /\ UNCHANGED <<workChain, inprog, ident, new, victim, workerVars, stopping,
                   ntasks>>
-----------------------------------------------------------------------------
(* RPC thread: get_task_status() and reset_task_id_and_chain()             *)

\* The status of a finished task is reported, then its record is dropped.  An
\* unknown id, or a task in progress, changes nothing.
Poll ==
    /\ pc = "idle"
    /\ ~stopping
    /\ \E i \in DOMAIN inprog : Finished(i) /\ victim' = inprog[i].id
    /\ pc' = "drop"
    /\ UNCHANGED <<workChain, inprog, ident, sem, new, workerVars, stopping,
                   ntasks>>

PollDrop ==
    /\ pc = "drop"
    /\ inprog' = Without(inprog, victim)
    /\ pc' = "idle"
    /\ UNCHANGED <<workChain, ident, sem, new, victim, workerVars, stopping,
                   ntasks>>

Reset ==
    /\ pc = "idle"
    /\ ~stopping
    /\ pc' = "resetwork"
    /\ UNCHANGED <<workChain, inprog, ident, sem, new, victim, workerVars,
                   stopping, ntasks>>

\* tasks_pending(): queued tasks, then records in progress.  Busy: the loop
\* sleeps and looks again (no step here, or back to the first look), or its
\* time is over and the reset is refused.
ResetWork ==
    /\ pc = "resetwork"
    /\ \/ workChain = <<>> /\ pc' = "resetinprog"
       \/ workChain # <<>> /\ pc' = "idle"
    /\ UNCHANGED <<workChain, inprog, ident, sem, new, victim, workerVars,
                   stopping, ntasks>>

StillRunning == \E i \in DOMAIN inprog : ~Finished(i)

ResetInprog ==
    /\ pc = "resetinprog"
    /\ pc' \in (IF StillRunning THEN {"resetwork", "idle"} ELSE {"empty"})
    /\ UNCHANGED <<workChain, inprog, ident, sem, new, victim, workerVars,
                   stopping, ntasks>>

\* chain_empty() also restarts the ids.
ResetEmpty ==
    /\ pc = "empty"
    /\ inprog' = <<>>
    /\ ident' = 0
    /\ pc' = "idle"
    /\ UNCHANGED <<workChain, sem, new, victim, workerVars, stopping, ntasks>>
-----------------------------------------------------------------------------
(* Worker thread                                                           *)

WorkerWakes ==
    /\ wpc = "idle"
    /\ ~stopping
    /\ sem > 0
    /\ sem' = sem - 1
    /\ wpc' = "woken"
    /\ UNCHANGED <<workChain, inprog, cur, rpcVars, stopping>>

\* One task per wakeup.
WorkerTakes ==
    /\ wpc = "woken"
    /\ IF workChain = <<>>
         THEN wpc' = "idle" /\ UNCHANGED <<workChain, cur>>
         ELSE /\ cur' = Head(workChain)
              /\ workChain' = Tail(workChain)
              /\ wpc' = "run"
    /\ UNCHANGED <<inprog, sem, rpcVars, stopping>>

\* run_work() returns: the result goes into the record of a PRESERVE task, the
\* record of a DELETE task goes away.
WorkerRecords ==
    /\ wpc = "run"
    /\ IF cur.del
         THEN /\ inprog' = Without(inprog, cur.id)
              /\ wpc' = "idle"
              /\ cur' = NoWork
         ELSE /\ inprog' = [i \in DOMAIN inprog |->
                              IF i \in WithId(cur.id)
                                THEN [inprog[i] EXCEPT !.sts = cur.uid]
                                ELSE inprog[i]]
              /\ wpc' = "notify"
              /\ cur' = cur
    /\ UNCHANGED <<workChain, sem, rpcVars, stopping>>

\* task_worker_event(ADLIB_EVENT_NUM_INPROG_DONE, id, result)
WorkerNotifies ==
    /\ wpc = "notify"
    /\ wpc' = "idle"
    /\ cur' = NoWork
    /\ UNCHANGED <<workChain, inprog, sem, rpcVars, stopping>>

\* stop(), after the RPC thread was joined (ADJsonRpcMgr::Stop()): a running
\* task is finished, queued ones are not started.
Stop ==
    /\ pc = "idle"
    /\ ~stopping
    /\ stopping' = TRUE
    /\ UNCHANGED <<workChain, inprog, sem, rpcVars, workerVars>>

WorkerExits ==
    /\ stopping
    /\ wpc \in {"idle", "woken"}
    /\ wpc' = "off"
    /\ UNCHANGED <<workChain, inprog, sem, cur, rpcVars, stopping>>
-----------------------------------------------------------------------------
Init ==
    /\ workChain = <<>> /\ inprog = <<>>
    /\ ident = 0 /\ sem = 0
    /\ pc = "idle" /\ new = NoWork /\ victim = 0
    /\ wpc = "idle" /\ cur = NoWork
    /\ stopping = FALSE
    /\ ntasks = 0

RpcStep ==
    \/ EvictSize \/ EvictPick \/ EvictRemove \/ PutWork \/ PutRecord \/ Wake
    \/ PollDrop \/ ResetWork \/ ResetInprog \/ ResetEmpty

Worker ==
    WorkerWakes \/ WorkerTakes \/ WorkerRecords \/ WorkerNotifies \/ WorkerExits

Next == PushTask \/ Poll \/ Reset \/ RpcStep \/ Worker \/ Stop

Spec == Init /\ [][Next]_vars

\* Both threads run and every task ends; no client has to send anything and
\* nobody has to stop the service.
FairSpec == Spec /\ WF_vars(RpcStep) /\ WF_vars(Worker)
-----------------------------------------------------------------------------
(* Properties                                                              *)

Queued == Range(workChain)
Records == Range(inprog)
Running == IF wpc = "run" THEN {cur} ELSE {}

\* An id means one task, whatever polls, evictions and resets happen, although
\* a reset restarts the ids while the worker is busy: a queued or running task
\* has its record, in progress, so that the worker finds the record it must
\* complete (only the task being pushed may still be without one), and nothing
\* else has its id.
PendingIsRecorded ==
    /\ \A t \in Queued \cup Running :
         \/ \E r \in Records : r.id = t.id /\ r.uid = t.uid /\ r.sts = InProg
         \/ pc = "putrecord" /\ t = new
    /\ \A s, t \in Queued \cup Running \cup Records :
         s.id = t.id => s.uid = t.uid

\* Every task gets its turn and its result, unless the service is stopped.
TasksFinish ==
    \A u \in Tasks :
       (\E t \in Queued \cup Running : t.uid = u)
         ~> (stopping \/ \A t \in Queued \cup Running : t.uid # u)
-----------------------------------------------------------------------------
(* The inductive invariant, proved in TaskProofs                           *)

Task == [id : Nat, uid : Nat, del : BOOLEAN]
Record == [id : Nat, uid : Nat, sts : Nat]

TypeOK ==
    /\ workChain \in Seq(Task) /\ inprog \in Seq(Record)
    /\ ident \in Nat /\ sem \in Nat /\ victim \in Nat /\ ntasks \in Nat
    /\ pc \in {"idle", "evict", "pick", "remove", "putwork", "putrecord",
               "wake", "drop", "resetwork", "resetinprog", "empty"}
    /\ new \in Task /\ cur \in Task
    /\ wpc \in {"idle", "woken", "run", "notify", "off"}
    /\ stopping \in BOOLEAN

\* One wakeup per queued task: the worker never comes for a task that was not
\* announced, so the one being pushed stays last in work_chain until its
\* record is made.
WakeInv ==
    /\ stopping => pc = "idle"
    /\ wpc = "off" => stopping
    /\ wpc # "off" =>
          Len(workChain) = sem + (IF wpc = "woken" THEN 1 ELSE 0)
                               + (IF pc \in {"putrecord", "wake"} THEN 1 ELSE 0)
    /\ pc = "putrecord" =>
          workChain # <<>> /\ workChain[Len(workChain)] = new

DistinctIds(chain) ==
    \A i, j \in DOMAIN chain : chain[i].id = chain[j].id => i = j

\* No id is in a chain twice, the running task is not queued, and the next id
\* is larger than any that is still in use.
IdInv ==
    /\ DistinctIds(workChain) /\ DistinctIds(inprog)
    /\ \A t \in Queued : t.id <= ident
    /\ \A r \in Records : r.id <= ident
    /\ wpc = "run" => cur.id <= ident /\ \A t \in Queued : t.id # cur.id
    /\ pc = "putrecord" =>
          /\ new.id = ident
          /\ wpc = "run" => cur.id # new.id
          /\ \A r \in Records : r.id # new.id

\* What the RPC thread found out at an earlier look still holds when it acts
\* on it: the record to be removed is a finished one, a reset finds no task.
LookedInv ==
    /\ pc \in {"remove", "drop"} =>
          \A r \in Records : r.id = victim => r.sts # InProg
    /\ pc \in {"resetinprog", "empty"} => workChain = <<>>
    /\ pc = "empty" => \A r \in Records : r.sts # InProg

IInv == TypeOK /\ WakeInv /\ IdInv /\ LookedInv /\ PendingIsRecorded
=============================================================================
