------------------------------- MODULE SysMgr -------------------------------
(***************************************************************************)
(* The system manager service: the RPC thread of ADJsonRpcMgr calls the    *)
(* handlers of SysRpc, NetRpc and DispCtrlRpc, the task worker runs what   *)
(* they pushed, and the main thread attaches its event receiver, declares  *)
(* the service ready and stops it.  The queue of the worker is the one of  *)
(* TaskWorker; here it carries the command number and the work data.       *)
(*                                                                         *)
(* A command number of a service's RPC is its position in the list of      *)
(* attached RPCs; the number of a task is its RPC's position in the        *)
(* enumeration.  The two orders differ, so the object that runs a task is  *)
(* in general not the object that accepted the request.                    *)
(***************************************************************************)
EXTENDS RpcTable, FiniteSets, Functions

CONSTANTS MaxRequests,   \* requests during a behaviour (bound)
          MaxLines,      \* lines of the log file (bound)
          Calls          \* the command numbers clients call

VARIABLES
    phase,      \* main(): "started", "attached", "ready", "stopped", "ended"
    monitor,    \* EventMonitor: "none", "configured" or, once known, "custom"
    ready,      \* ServiceReadyFlag
    rpc,        \* RPC thread: "idle", "work" or "reply"
    req,        \* its request: [cmd, arg, index, result, value, number]
    chain,      \* work_chain: [cmd, arg, data]
    worker,     \* worker: "idle", "run"; while it updates the log, "clear", "log"
    job,        \* the task it runs
    live,       \* work data allocated and not deleted
    asyncCmd,   \* AsyncCmdInProgress
    devop,      \* DevOp.operation
    fresh,      \* the objects, with the module, whose fmwver_updated flag is set
    cache,      \* crnt_fmwver, bkup_fmwver
    flash,      \* the versions the update tool would report
    logFile,    \* lines of the log file
    logChain,   \* logmsg_chain: line numbers
    total, seen,  \* the update reads lines seen + 1 .. total
    nreq        \* requests so far

mainVars == <<phase, monitor, ready>>
requestVars == <<rpc, req>>
taskVars == <<chain, worker, job, live, asyncCmd>>
dataVars == <<devop, fresh, cache, flash>>
logVars == <<logFile, logChain, total, seen>>
sysVars == <<mainVars, requestVars, taskVars, dataVars, logVars, nreq>>

NoReq == [cmd |-> 0, arg |-> "", index |-> 0, result |-> "NOT_STARTED",
          value |-> "none", number |-> 0]
Idle == [cmd |-> 0, arg |-> "", data |-> 0]
NotRunning == "NONE"

\* Two commands of the manager whose handlers read its state.
ShutdownService == 4   \* EJSON_RPCGMGR_SHUTDOWN_SERVICE
GetReadySts == 6       \* EJSON_RPCGMGR_GET_READY_STS
-----------------------------------------------------------------------------
(* main(): the attached RPCs                                               *)

RpcList ==
    <<"GET_MAC_ADDR", "SET_MAC_ADDR", "GET_ETH_COUNT", "GET_ETH_NAME",
      "GET_IP_ADDR", "SET_IP_ADDR", "GET_NETMASK", "SET_NETMASK",
      "GET_LOADINFO", "GET_MEMINFO", "GET_CPUINFO", "GET_DEV_OP", "SET_DEV_OP",
      "GET_FMWVER", "GET_BOOT_SYSTEM", "SET_FMWUPDATE", "SET_DOWNLOADTFTP",
      "SET_DOWNLOADFTP", "GET_ASYNCTASK", "GET_DEVTYPE", "GET_HOSTNAME",
      "SET_HOSTNAME", "GET_MY_PUBLIC_IP", "SET_DEFAULT_HOSTNAME",
      "SET_UPDATE_LOG", "GET_LOG_COUNT", "GET_LOG_LINE", "RUN_SHELLCMD",
      "DEVIDENT", "EVNT_SUBSCRIBE", "RUN_SHELLCMDTRIG", "DISP_CLEAR",
      "DISP_PRINT", "DISP_GET_BKLT", "DISP_SET_BKLT", "cmnrpc">>

Objects == DOMAIN RpcList

\* getRpcHandler(index): the object a command number selects, and its RPC.
Object(cmd) == cmd - CmdEnd + 1
Type(cmd) == IF cmd >= CmdEnd THEN RpcList[Object(cmd)] ELSE "builtin"
Method(cmd) ==
    LET t == Type(cmd)
    IN  CASE t = "builtin" -> Builtin[cmd + 1]
          [] t \in DOMAIN SysRpcs -> SysRpcs[t]
          [] t \in DOMAIN NetRpcs -> NetRpcs[t]
          [] t \in DOMAIN DispRpcs -> DispRpcs[t]

\* Registered methods; "cmnrpc" converts no request and is left out.
Commands == 0..(CmdEnd + Len(RpcList) - 2)

ASSUME SysMgrAssumption ==
    /\ MaxRequests \in Nat /\ MaxLines \in Nat
    /\ Calls \subseteq Commands

\* PushAsyncTask(): the number of a service's task is its place in the
\* enumeration, offset by the built-in commands; the manager's own tasks keep
\* the number of their command.
TaskNumber(cmd) ==
    LET task == Method(cmd).task
    IN  IF cmd < CmdEnd
          THEN cmd
          ELSE CmdEnd + (CHOOSE i \in DOMAIN RpcTypes : RpcTypes[i] = task) - 1

\* ProcessWorkAsync(): what the object at a task's position makes of it.
\* NetRpc and DispCtrlRpc know no task at all.
AsyncRpcs == {"SET_DEV_OP", "SET_FMWUPDATE", "SET_DOWNLOADFTP",
              "SET_DOWNLOADTFTP", "SET_UPDATE_LOG", "RUN_SHELLCMD", "DEVIDENT"}
TaskName(n) == IF n < CmdEnd THEN "builtin" ELSE RpcTypes[n - CmdEnd + 1]
KnownBySysRpc(n) ==
    Object(n) \in Objects /\ RpcList[Object(n)] \in DOMAIN SysRpcs
CodeFor(n) ==
    IF n < CmdEnd THEN Builtin[n + 1].task # NoTask
                  ELSE KnownBySysRpc(n) /\ TaskName(n) \in AsyncRpcs
-----------------------------------------------------------------------------
(* RPC thread: process_json_to_binary(), process_work(),                   *)
(* process_binary_to_json() of one request                                 *)

\* Arguments that matter to a handler: a text, and the index of a log line.
Args(cmd) ==
    CASE Type(cmd) = "SET_DEV_OP" -> {"on", "reboot"}
      [] Type(cmd) = "GET_FMWVER" -> {"current", "backup", "kernel"}
      [] Type(cmd) = "SET_FMWUPDATE" -> {"project", "kernel"}
      [] OTHER -> {"any"}
Indices(cmd) == IF Type(cmd) = "GET_LOG_LINE" THEN 0..MaxLines ELSE {0}

\* The parameters are taken in order; at the first missing or invalid one the
\* packet is deleted and the request answered with an error.
Refuse ==
    /\ rpc = "idle" /\ phase \notin {"stopped", "ended"}
    /\ nreq < MaxRequests
    /\ nreq' = nreq + 1
    /\ \E cmd \in Calls : Method(cmd).need # <<>>
    /\ UNCHANGED <<mainVars, requestVars, taskVars, dataVars, logVars>>

Accept ==
    /\ rpc = "idle" /\ phase \notin {"stopped", "ended"}
    /\ nreq < MaxRequests
    /\ nreq' = nreq + 1
    /\ \E cmd \in Calls : \E arg \in Args(cmd), index \in Indices(cmd) :
          req' = [NoReq EXCEPT !.cmd = cmd, !.arg = arg, !.index = index]
    /\ rpc' = "work"
    /\ UNCHANGED <<mainVars, taskVars, dataVars, logVars>>

\* The process_X() of the request ends with this result and these values.
EndsWith(result, value, number) ==
    /\ rpc = "work"
    /\ req' = [req EXCEPT !.result = result, !.value = value, !.number = number]
    /\ rpc' = "reply"
    /\ UNCHANGED <<mainVars, nreq>>
Ends(result, value) == EndsWith(result, value, 0)

Serves(type) == rpc = "work" /\ Type(req.cmd) = type
ServesBuiltin(n) == rpc = "work" /\ req.cmd = n

\* Handlers that neither read nor change anything modelled here.
Stateful ==
    {"GET_DEV_OP", "GET_FMWVER", "GET_ASYNCTASK", "GET_LOG_COUNT",
     "GET_LOG_LINE", "EVNT_SUBSCRIBE"}
Plain(cmd) ==
    /\ Type(cmd) \notin Stateful
    /\ Method(cmd).task = NoTask
    /\ cmd # GetReadySts
ProcessPlain ==
    /\ rpc = "work"
    /\ Plain(req.cmd)
    /\ \E result \in Method(req.cmd).results : Ends(result, "any")
    /\ UNCHANGED <<taskVars, dataVars, logVars>>

\* DevOp is not initialised: before the first set_devop any value comes out.
ProcessDevOpGet ==
    /\ Serves("GET_DEV_OP")
    /\ Ends("SUCCESS", devop)
    /\ UNCHANGED <<taskVars, dataVars, logVars>>

\* The version is read once per object and then taken from the cache.  An
\* unknown module, and a tool or file that cannot be read, are reported.
ProcessFmwVer ==
    /\ Serves("GET_FMWVER")
    /\ \/ /\ req.arg \notin {"current", "backup"}
          /\ Ends("FEATURE_NOT_AVAILABLE", "none")
          /\ UNCHANGED <<fresh, cache>>
       \/ /\ req.arg \in {"current", "backup"}
          /\ <<Object(req.cmd), req.arg>> \in fresh
          /\ EndsWith("SUCCESS", "version", cache[req.arg])
          /\ UNCHANGED <<fresh, cache>>
       \/ /\ req.arg \in {"current", "backup"}
          /\ <<Object(req.cmd), req.arg>> \notin fresh
          /\ \/ /\ \E r \in {"FILE_OPEN_ERR", "FILE_READ_ERR"} : Ends(r, "none")
                /\ UNCHANGED <<fresh, cache>>
             \/ /\ EndsWith("SUCCESS", "version", flash[req.arg])
                /\ fresh' = fresh \union {<<Object(req.cmd), req.arg>>}
                /\ cache' = [cache EXCEPT ![req.arg] = flash[req.arg]]
    /\ UNCHANGED <<devop, flash, taskVars, logVars>>

\* get_async_task_in_progress()
ProcessAsyncTask ==
    /\ Serves("GET_ASYNCTASK")
    /\ Ends("SUCCESS", IF asyncCmd \in AsyncRpcs \union {"RUN_SHELLCMDTRIG"}
                         THEN asyncCmd ELSE "UNKNOWN")
    /\ UNCHANGED <<taskVars, dataVars, logVars>>

ProcessReadySts ==
    /\ ServesBuiltin(GetReadySts)
    /\ Ends("SUCCESS", IF ready THEN "ready" ELSE "notReady")
    /\ UNCHANGED <<taskVars, dataVars, logVars>>

ProcessLogCount ==
    /\ Serves("GET_LOG_COUNT")
    /\ EndsWith("SUCCESS", "count", Len(logChain))
    /\ UNCHANGED <<taskVars, dataVars, logVars>>

\* read_log_message_line(): zero-based index, one-based line number.
LineIdent(index) == index + 1

\* The list is locked here, but not where the worker empties it: a read that
\* meets the worker there can return anything.
ProcessLogLine ==
    /\ Serves("GET_LOG_LINE")
    /\ \/ /\ LineIdent(req.index) \in Range(logChain)
          /\ EndsWith("SUCCESS", "line", LineIdent(req.index))
       \/ /\ LineIdent(req.index) \notin Range(logChain) \/ worker = "clear"
          /\ Ends("ITEM_NOT_FOUND", "none")
       \/ worker = "clear" /\ Ends("SUCCESS", "undefined")
    /\ UNCHANGED <<taskVars, dataVars, logVars>>

\* Until main() has made the monitor known the feature is not available.
ProcessSubscribe ==
    /\ Serves("EVNT_SUBSCRIBE")
    /\ Ends(IF monitor = "custom" THEN "SUCCESS" ELSE "FEATURE_NOT_AVAILABLE",
            "none")
    /\ UNCHANGED <<taskVars, dataVars, logVars>>

\* process_X() of a task: work data is allocated, then the task is pushed.
NewData == nreq
ProcessStart ==
    /\ rpc = "work"
    /\ Method(req.cmd).task # NoTask
    /\ ~(Type(req.cmd) = "SET_FMWUPDATE" /\ req.arg # "project")
    /\ ~ServesBuiltin(ShutdownService)
    /\ Ends("IN_PROG", "task")
    /\ live' = live \union {NewData}
    /\ chain' = Append(chain, [cmd |-> TaskNumber(req.cmd), arg |-> req.arg,
                               data |-> NewData])
    /\ UNCHANGED <<worker, job, asyncCmd, dataVars, logVars>>

\* No memory, or push_task() refused it: the work data goes back at once.
\* Shutdown is not supported and the module must be "project".
Bug_StartFails ==
    /\ rpc = "work"
    /\ Method(req.cmd).task # NoTask
    /\ live' = live \union {NewData}
    /\ \E r \in Method(req.cmd).results \ {"IN_PROG"} : Ends(r, "none")
    /\ UNCHANGED <<chain, worker, job, asyncCmd, dataVars, logVars>>
StartFails ==
    /\ rpc = "work"
    /\ Method(req.cmd).task # NoTask
    /\ \/ /\ Type(req.cmd) = "SET_FMWUPDATE" /\ req.arg # "project"
          /\ Ends("ARG_ERROR", "none")
       \/ ServesBuiltin(ShutdownService) /\ Ends("FEATURE_UNSUPPORTED", "none")
       \/ /\ ~ServesBuiltin(ShutdownService)
          /\ \E r \in Method(req.cmd).results
                        \intersect {"FAIL", "MEM_ERROR"} : Ends(r, "none")
    /\ UNCHANGED <<taskVars, dataVars, logVars>>

\* bin_to_json_X(): the fields go out only with the results that carry them.
Reply ==
    /\ rpc = "reply"
    /\ req' = NoReq
    /\ rpc' = "idle"
    /\ UNCHANGED <<mainVars, taskVars, dataVars, logVars, nreq>>
-----------------------------------------------------------------------------
(* Task worker: run_work() and ProcessWorkAsync()                          *)

Take ==
    /\ worker = "idle" /\ chain # <<>> /\ phase \notin {"stopped", "ended"}
    /\ job' = Head(chain)
    /\ chain' = Tail(chain)
    /\ worker' = "run"
    /\ asyncCmd' = IF KnownBySysRpc(job'.cmd) THEN TaskName(job'.cmd)
                                              ELSE asyncCmd
    /\ UNCHANGED <<mainVars, requestVars, live, dataVars, logVars, nreq>>

\* The task is over: its work data is deleted by the code that knows it.
Finish ==
    /\ live' = IF CodeFor(job.cmd) THEN live \ {job.data} ELSE live
    /\ worker' = "idle"
    /\ job' = Idle
    /\ asyncCmd' = NotRunning
    /\ UNCHANGED <<mainVars, requestVars, chain, nreq>>

Runs(task) == worker = "run" /\ TaskName(job.cmd) = task

\* process_async_set_devop()
RunDevOp ==
    /\ Runs("SET_DEV_OP")
    /\ devop' = IF job.arg \in {"idle", "on"} THEN job.arg ELSE devop
    /\ Finish
    /\ UNCHANGED <<fresh, cache, flash, logVars>>

\* process_async_set_fmwupdate(): the tool writes the backup system or fails;
\* then the flag of the object that runs the task is cleared.
RunFmwUpdate ==
    /\ Runs("SET_FMWUPDATE")
    /\ flash' \in {flash, [flash EXCEPT !.backup = @ + 1]}
    /\ fresh' = fresh \ {<<Object(job.cmd), "backup">>}
    /\ Finish
    /\ UNCHANGED <<devop, cache, logVars>>

\* process_async_loglist_update(): the list is emptied without its lock, the
\* matching lines are counted, and then read one by one.
RunLogUpdate ==
    /\ Runs("SET_UPDATE_LOG")
    /\ worker' = "clear"
    /\ UNCHANGED <<mainVars, requestVars, chain, job, live, asyncCmd, dataVars,
                   logVars, nreq>>

Bug_LogCleared ==
    /\ worker = "clear"
    /\ total' = logFile /\ seen' = 0
    /\ worker' = "log"
    /\ UNCHANGED <<mainVars, requestVars, chain, job, live, asyncCmd, dataVars,
                   logFile, logChain, nreq>>
LogCleared ==
    /\ worker = "clear"
    /\ logChain' = <<>>
    /\ total' = logFile /\ seen' = 0
    /\ worker' = "log"
    /\ UNCHANGED <<mainVars, requestVars, chain, job, live, asyncCmd, dataVars,
                   logFile, nreq>>

\* Without a log file the list stays as it is.
RunNoLogFile ==
    /\ Runs("SET_UPDATE_LOG")
    /\ logFile = 0
    /\ Finish
    /\ UNCHANGED <<dataVars, logVars>>

\* A line whose shell cannot be started is left out.
PushLogLine ==
    /\ worker = "log"
    /\ seen < total
    /\ seen' = seen + 1
    /\ logChain' \in {logChain, Append(logChain, seen + 1)}
    /\ UNCHANGED <<mainVars, requestVars, chain, worker, job, live, asyncCmd,
                   dataVars, logFile, total, nreq>>

LogUpdated ==
    /\ worker = "log"
    /\ seen = total
    /\ Finish
    /\ UNCHANGED <<dataVars, logVars>>

\* Downloads, shell commands, identification; and the tasks of the manager,
\* which CmnRpc accepts without doing anything.
RunOther ==
    /\ worker = "run"
    /\ TaskName(job.cmd) \notin {"SET_DEV_OP", "SET_FMWUPDATE", "SET_UPDATE_LOG"}
    /\ Finish
    /\ UNCHANGED <<dataVars, logVars>>
-----------------------------------------------------------------------------
(* main() after Start(), and the environment                               *)

\* EventHandler or EventMonitor is created and attached, ...
AttachReceiver ==
    /\ phase = "started"
    /\ phase' = "attached"
    /\ monitor' = IF monitor = "configured" THEN "custom" ELSE monitor
    /\ UNCHANGED <<ready, requestVars, taskVars, dataVars, logVars, nreq>>

\* ... only then is the service declared ready.
SetReady ==
    /\ phase = "attached"
    /\ phase' = "ready"
    /\ ready' = TRUE
    /\ UNCHANGED <<monitor, requestVars, taskVars, dataVars, logVars, nreq>>

\* RpcMgr.Stop() joins the RPC thread, then the worker, which finishes its
\* task; the destructor frees the work data of the tasks still queued.
StopManager ==
    /\ phase = "ready" /\ rpc = "idle"
    /\ phase' = "stopped"
    /\ UNCHANGED <<monitor, ready, requestVars, taskVars, dataVars, logVars, nreq>>

Destroy ==
    /\ phase = "stopped" /\ worker = "idle"
    /\ phase' = "ended"
    /\ live' = live \ {chain[i].data : i \in DOMAIN chain}
    /\ chain' = <<>>
    /\ UNCHANGED <<monitor, ready, requestVars, worker, job, asyncCmd, dataVars,
                   logVars, nreq>>

\* Other programs write the log.
LogGrows ==
    /\ logFile < MaxLines
    /\ logFile' = logFile + 1
    /\ UNCHANGED <<mainVars, requestVars, taskVars, dataVars, logChain, total,
                   seen, nreq>>
-----------------------------------------------------------------------------
SysInit ==
    /\ phase = "started" /\ monitor \in {"none", "configured"} /\ ready = FALSE
    /\ rpc = "idle" /\ req = NoReq
    /\ chain = <<>> /\ worker = "idle" /\ job = Idle /\ live = {}
    /\ asyncCmd = NotRunning
    /\ devop = "undefined"
    /\ fresh = {}
    /\ cache = [current |-> 0, backup |-> 0]
    /\ flash = [current |-> 1, backup |-> 1]
    /\ logFile = 0 /\ logChain = <<>> /\ total = 0 /\ seen = 0
    /\ nreq = 0

Process ==
    \/ ProcessPlain \/ ProcessDevOpGet \/ ProcessFmwVer \/ ProcessAsyncTask
    \/ ProcessReadySts \/ ProcessLogCount \/ ProcessLogLine \/ ProcessSubscribe
    \/ ProcessStart \/ StartFails

RunTasks ==
    \/ Take \/ RunDevOp \/ RunFmwUpdate \/ RunLogUpdate \/ RunNoLogFile
    \/ LogCleared \/ PushLogLine \/ LogUpdated \/ RunOther

Main == AttachReceiver \/ SetReady \/ Destroy

SysNext ==
    \/ Refuse \/ Accept \/ Process \/ Reply \/ RunTasks \/ Main \/ StopManager
    \/ LogGrows

SysSpec == SysInit /\ [][SysNext]_sysVars

SysFairSpec ==
    /\ SysSpec
    /\ WF_sysVars(Process) /\ WF_sysVars(Reply)
    /\ WF_sysVars(RunTasks) /\ WF_sysVars(Main)
-----------------------------------------------------------------------------
QueuedData == {chain[i].data : i \in DOMAIN chain}
RunningData == IF worker = "idle" THEN {} ELSE {job.data}

\* Work data crosses threads as a bare pointer: process_X() allocates it on
\* the RPC thread, push_task() hands it over, process_async_X() deletes it on
\* the worker, a refused push deletes it at once and the destructor what is
\* still queued.  At every moment exactly the data in the queue and in the
\* running task is allocated and no data is in two places.  And whatever the
\* command, the object its task's number selects, which is not the one that
\* accepted the request, has the code that deletes the data.
WorkDataOwned ==
    /\ live = QueuedData \union RunningData
    /\ Cardinality(QueuedData) = Len(chain)
    /\ QueuedData \intersect RunningData = {}
    /\ \A cmd \in Commands :
          Method(cmd).task # NoTask => CodeFor(TaskNumber(cmd))

\* get_logcount and get_logline read the list while the worker rebuilds it.
\* Whatever the interleaving, and whatever lines could not be read, it holds
\* lines of the file, none twice and in their order, and a line a client is
\* given, unless it met the emptying, is the one at the index it asked for.
LogInOrder ==
    /\ \A i \in DOMAIN logChain : logChain[i] \in 1..logFile
    /\ \A i, j \in DOMAIN logChain : i < j => logChain[i] < logChain[j]
    /\ req.value = "line" => req.number \in 1..logFile /\ req.number = req.index + 1

\* Every task the service accepted ends and its work data is deleted, whether
\* the service goes on, or stops with the task running or queued.
WorkDataFreed ==
    live # {} ~> live = {}
-----------------------------------------------------------------------------
(* The inductive invariant                                                 *)

Texts == {"", "any", "on", "reboot", "current", "backup", "kernel", "project"}
Job == [cmd : Nat, arg : Texts, data : Nat]
Versions == [current : Nat, backup : Nat]

SysTypeOK ==
    /\ rpc \in {"idle", "work", "reply"} /\ DOMAIN req = DOMAIN NoReq
    /\ req.cmd \in Commands /\ req.arg \in Texts /\ req.index \in Nat
    /\ worker \in {"idle", "run", "clear", "log"} /\ job \in Job
    /\ chain \in Seq(Job) /\ nreq \in Nat
    /\ devop \in {"undefined", "idle", "on"}
    /\ cache \in Versions /\ flash \in Versions

\* Requests are numbered and make at most one task each: the numbers of the
\* tasks grow towards the end of the queue, and the request in work has none
\* yet.  Whoever runs one of them can delete its data.
Latest == IF rpc = "work" THEN nreq - 1 ELSE nreq
JobsInv ==
    /\ live = QueuedData \union RunningData
    /\ \A i \in DOMAIN chain : chain[i].data <= Latest /\ CodeFor(chain[i].cmd)
    /\ \A i, j \in DOMAIN chain : i < j => chain[i].data < chain[j].data
    /\ worker # "idle" =>
         /\ job.data <= Latest /\ CodeFor(job.cmd)
         /\ \A i \in DOMAIN chain : job.data < chain[i].data
    /\ rpc = "work" => nreq > 0

\* The update has pushed only lines up to the one it has seen.
LogInv ==
    /\ logFile \in Nat /\ total \in 0..logFile /\ seen \in 0..total
    /\ logChain \in Seq(1..logFile)
    /\ worker = "log" => \A i \in DOMAIN logChain : logChain[i] <= seen
    /\ LogInOrder

SysInv == SysTypeOK /\ JobsInv /\ LogInv
=============================================================================
