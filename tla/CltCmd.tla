------------------------------- MODULE CltCmd -------------------------------
(***************************************************************************)
(* A run of a command line client: ADCmdlineHelper parses the options into *)
(* a chain of commands, a worker (ADThreadedSockClient) gets a copy of the *)
(* chain and runs it over one connection, command by command, and the main *)
(* thread waits for the worker with a limit, prints what there is and      *)
(* deletes the worker.  The worker's calls are those of RpcClient: answers *)
(* come late, split, without an id, or never.                              *)
(*                                                                         *)
(* One worker is modelled: with a list of addresses every address has its  *)
(* own, and they share nothing but the chain they copy.  A command is named*)
(* by its place in the chain, which is also the number of the call that    *)
(* runs it.  The bound on commands is MaxCalls.                            *)
(***************************************************************************)
EXTENDS RpcClient, CltOptions

CONSTANTS
    FirstOptions,   \* names of the options the first argument may be (bound)
    OtherOptions    \* ... and the others (bound)

ASSUME OptionsAssumption ==
    FirstOptions \union OtherOptions \subseteq DOMAIN AllOptions

VARIABLES
    mpc,            \* the main thread
    cmds,           \* CmdChain: the commands in the order of the options
    wpc,            \* the worker
    left,           \* its chain: the numbers of the commands to be run
    taken,          \* the command it took out of the chain, or None
    running,        \* ADThreadedSockClient::running
    stopRunning,    \* stop_running, and the thread's stop request
    out,            \* output_msg_chain: lines [cmd, ok, of, id]
    shown,          \* the lines printed
    live,           \* history: commands of the worker not yet deleted
    gaveUp,         \* history: the wait ended although the worker ran
    noServer,       \* history: the connection failed
    stopAt          \* history: calls made when the worker was told to stop

worker == <<wpc, left, taken, running>>
lines == <<out, shown>>
history == <<gaveUp, noServer, stopAt>>
cltVars == <<mpc, cmds, worker, stopRunning, lines, live, history>>
allVars == <<vars, cltVars>>

Elements(seq) == {seq[k] : k \in DOMAIN seq}
-----------------------------------------------------------------------------
(* The main thread                                                         *)

\* parse_cmdline_arguments(): an option that is refused leaves no command.
ParseOption ==
    /\ mpc = "parse"
    /\ Len(cmds) < MaxCalls
    /\ \E name \in IF cmds = <<>> THEN FirstOptions ELSE OtherOptions :
         \E args \in Args : \E c \in Push(AllOptions[name], args) :
            cmds' = Append(cmds, c)
    /\ UNCHANGED <<mpc, worker, stopRunning, lines, live, history, vars>>

\* parse_cmdline_arguments() returns before run_commands(): help, an option
\* nobody knows or the tool refuses; or it runs an autotest instead.  The
\* commands read so far are dropped.
ParseReturns ==
    /\ mpc = "parse"
    /\ mpc' = "end"
    /\ cmds' = <<>>
    /\ UNCHANGED <<worker, stopRunning, lines, live, history, vars>>

\* run_commands(): the worker gets its copy of the chain and is started.
RunCommands ==
    /\ mpc = "parse"
    /\ IF cmds = <<>>
         THEN /\ mpc' = "end"
              /\ UNCHANGED <<worker, live>>
         ELSE /\ mpc' = "wait"
              /\ left' = [k \in DOMAIN cmds |-> k]
              /\ live' = DOMAIN cmds
              /\ running' = TRUE /\ wpc' = "connect"
              /\ taken' = taken
    /\ UNCHANGED <<cmds, stopRunning, lines, history, vars>>

\* wait_for_client_workers_to_finish(): MAX_SRV_RESPONSE_TIMEOUT looks at
\* running, then go on whatever it is.
Wait ==
    /\ mpc = "wait"
    /\ mpc' = "print"
    /\ gaveUp' = running
    /\ UNCHANGED <<cmds, worker, stopRunning, lines, live, noServer, stopAt,
                   vars>>

\* print_command_result(), line by line, until the chain is empty.
PrintLines ==
    /\ mpc = "print"
    /\ IF out = <<>>
         THEN mpc' = "stop" /\ UNCHANGED lines
         ELSE /\ shown' = Append(shown, Head(out))
              /\ out' = Tail(out)
              /\ mpc' = mpc
    /\ UNCHANGED <<cmds, worker, stopRunning, live, history, vars>>

\* stop_command_execution(), from the destructor: a worker that runs is told
\* to stop and joined, ...
Stop ==
    /\ mpc = "stop"
    /\ IF running THEN stopRunning' = TRUE /\ mpc' = "join" /\ stopAt' = cur
                  ELSE mpc' = "delete" /\ UNCHANGED <<stopRunning, stopAt>>
    /\ UNCHANGED <<cmds, worker, lines, live, gaveUp, noServer, vars>>

Join ==
    /\ mpc = "join"
    /\ wpc = "done"
    /\ mpc' = "delete"
    /\ UNCHANGED <<cmds, worker, stopRunning, lines, live, history, vars>>

\* ... then what is left in its chains goes.
Delete ==
    /\ mpc = "delete"
    /\ mpc' = "end"
    /\ live' = live \ Elements(left)
    /\ left' = <<>> /\ out' = <<>>
    /\ UNCHANGED <<cmds, wpc, taken, running, stopRunning, shown, history, vars>>
-----------------------------------------------------------------------------
(* The worker: thread_callback_function()                                  *)

Connect ==
    /\ wpc = "connect"
    /\ \/ wpc' = "next" /\ UNCHANGED <<running, noServer>>
       \/ wpc' = "done" /\ running' = FALSE /\ noServer' = TRUE
    /\ UNCHANGED <<mpc, cmds, left, taken, stopRunning, lines, live, gaveUp,
                   stopAt, vars>>

\* The last statements: the connection is closed and running is cleared.
Leave ==
    /\ wpc' = "done"
    /\ running' = FALSE

TakeCommand ==
    /\ wpc = "next"
    /\ IF left = <<>>
         THEN Leave /\ UNCHANGED <<left, taken>>
         ELSE /\ taken' = Head(left) /\ left' = Tail(left)
              /\ wpc' = "taken"
              /\ running' = running
    /\ UNCHANGED <<mpc, cmds, stopRunning, lines, live, history, vars>>

\* A stop request between two commands: the one in hand is deleted.
Bug_Stopped ==
    /\ stopRunning
    /\ Leave
    /\ taken' = None
    /\ UNCHANGED live
Stopped ==
    /\ stopRunning
    /\ Leave
    /\ taken' = None
    /\ live' = live \ {taken}

LookAtStop ==
    /\ wpc = "taken"
    /\ \/ Stopped
       \/ /\ ~stopRunning
          /\ wpc' = "call"
          /\ UNCHANGED <<running, taken, live>>
    /\ UNCHANGED <<mpc, cmds, left, stopRunning, lines, history, vars>>

\* The command is run: one call of the client, ...
StartCall ==
    /\ wpc = "call"
    /\ Call
    /\ wpc' = "running"
    /\ UNCHANGED <<mpc, cmds, left, taken, running, stopRunning, lines, live,
                   history>>

ClientStep ==
    /\ wpc = "running"
    /\ Drain \/ Send \/ TakeMessage \/ Receive \/ PeerGone \/ Timeout
    /\ UNCHANGED cltVars

\* ... whose outcome is a line.  run_get_info_command() leaves the line out
\* when its text is too long.
Bug_Report(line) == out' \in {out, Append(out, line)}
Report(line) ==
    out' \in {Append(out, line)}
             \union IF cmds[line.cmd].type = "info" THEN {out} ELSE {}

CallReturns ==
    /\ wpc = "running"
    /\ pc = "idle"
    /\ Report([cmd |-> taken, ok |-> result.ok, of |-> result.of,
               id |-> result.id])
    /\ live' = live \ {taken}
    /\ taken' = None
    /\ wpc' = "next"
    /\ UNCHANGED <<mpc, cmds, left, running, stopRunning, shown, history, vars>>

\* The connection is the worker's; nothing happens on it before or after.
Network ==
    /\ wpc \in {"next", "taken", "call", "running"}
    /\ Answer \/ Deliver \/ ServerCloses
    /\ UNCHANGED cltVars
-----------------------------------------------------------------------------
CltInit ==
    /\ Init
    /\ mpc = "parse" /\ cmds = <<>>
    /\ wpc = "none" /\ left = <<>> /\ taken = None
    /\ running = FALSE /\ stopRunning = FALSE
    /\ out = <<>> /\ shown = <<>>
    /\ live = {} /\ gaveUp = FALSE /\ noServer = FALSE /\ stopAt = MaxCalls

Main == ParseReturns \/ RunCommands \/ Wait \/ PrintLines \/ Stop \/ Join
        \/ Delete
Worker == Connect \/ TakeCommand \/ LookAtStop \/ StartCall \/ ClientStep
          \/ CallReturns

CltNext == ParseOption \/ Main \/ Worker \/ Network

CltSpec == CltInit /\ [][CltNext]_allVars
-----------------------------------------------------------------------------
(* Properties                                                              *)

\* The lines printed and to be printed.
told == shown \o out

\* A line shows the answer to its own command, whatever late answers are
\* under way or left in the socket (the ids of receive_response()), and a
\* command whose request was not sent shows none.  An answer without an id
\* can be another command's error reply.
AnswersAreOwn ==
    \A l \in Elements(told) :
        l.ok => (l.of = l.cmd \/ l.id = NoId) /\ l.cmd \in sent

\* The lines come in the order of the options, one for every command that was
\* to be run, unless the tool gave up waiting or had no connection.
InOrder == \A j, k \in DOMAIN told : j < k => told[j].cmd < told[k].cmd
HasLine(c) == cmds[c].type = "info" \/ \E l \in Elements(told) : l.cmd = c
Reported ==
    /\ InOrder
    /\ mpc = "end" /\ ~gaveUp /\ ~noServer =>
         out = <<>> /\ \A c \in DOMAIN cmds : HasLine(c)

\* "stop between commands": after the stop request at most the command that
\* was already looked at is run, however long the chain is.  And every command
\* is in the chain or in the worker's hand until it is deleted, once, also when
\* the stop comes between taking it out of the chain and running it.
StopIsClean ==
    /\ stopRunning => cur <= stopAt + 1
    /\ live = Elements(left) \union ({taken} \ {None})
    /\ mpc = "end" => live = {}

\* What the clients send is what the servers want, and what they fetch is what
\* the servers give: every option agrees with its handler.  The exceptions are
\* unsubscribe without an argument (a READ that sends no token) and names the
\* push functions leave unset.
InterfaceAgrees ==
    \A k \in DOMAIN cmds :
        LET run == Run(cmds[k])
        IN  /\ Complete(run) \/ (run.rpc = event_unsubscribe /\ ~Writes(cmds[k]))
            /\ \A a \in Answers(run) :
                 a.result \in run.rpc.carry =>
                    LET values == Outputs(CallNamed(run.call), a, run.fetches)
                    IN  \A j \in DOMAIN run.fetches :
                          run.fetches[j] = Unset \/ run.rpc = event_unsubscribe
                            \/ values[j] = run.fetches[j]
-----------------------------------------------------------------------------
(* The inductive invariant, proved in CltCmdProofs                         *)

Commands ==
    UNION {Push(AllOptions[name], args) :
             name \in DOMAIN AllOptions, args \in Args}
Ids == {NoId} \union Calls

\* What is under way is an answer to a call that was made, and carries its id
\* or none.
Halves == {h \in [call : Calls, id : Ids, err : BOOLEAN, half : {1, 2}] :
             h.id \in {NoId, h.call}}
Messages == {m \in [call : Calls, id : Ids, err : BOOLEAN] :
               m.id \in {NoId, m.call}}
NetOK ==
    /\ requests \in Seq(Calls)
    /\ flight \in Seq(Halves) /\ rx \in Seq(Halves) /\ ready \in Seq(Messages)

ClientOK ==
    /\ srvOpen \in BOOLEAN /\ connected \in BOOLEAN /\ ferr \in BOOLEAN
    /\ reconnectNeeded \in BOOLEAN /\ partial \in Ids
    /\ pc \in {"idle", "drain", "send", "receive"}
    /\ cur \in Nat /\ cur <= MaxCalls /\ sent \subseteq Nat
    /\ result \in [call : Nat, ok : BOOLEAN, of : Ids, id : Ids, err : BOOLEAN]

Lines == [cmd : Nat, ok : BOOLEAN, of : Ids, id : Ids]
ChainsOK ==
    /\ cmds \in Seq(Commands) /\ left \in Seq(Nat) /\ taken \in Nat
    /\ out \in Seq(Lines) /\ shown \in Seq(Lines)
ToolOK ==
    /\ mpc \in {"parse", "wait", "print", "stop", "join", "delete", "end"}
    /\ wpc \in {"none", "connect", "next", "taken", "call", "running", "done"}
    /\ running \in BOOLEAN /\ stopRunning \in BOOLEAN
    /\ gaveUp \in BOOLEAN /\ noServer \in BOOLEAN /\ stopAt \in Nat

\* The call in work: an answer is used only if the request was sent.
CallInv ==
    /\ wpc # "running" => pc = "idle"
    /\ pc = "receive" => cur \in sent \/ reconnectNeeded
    /\ wpc = "running" /\ pc = "idle" /\ result.ok =>
         cur \in sent /\ (result.of = cur \/ result.id = NoId)

\* Which thread can be where.
PhaseInv ==
    /\ running <=> wpc \notin {"none", "done"}
    /\ wpc = "none" <=> mpc = "parse" \/ cmds = <<>>
    /\ mpc = "parse" => cur = 0 /\ out = <<>> /\ shown = <<>>
    /\ wpc = "none" => left = <<>> /\ live = {} /\ mpc \in {"parse", "end"}
    /\ mpc \in {"delete", "end"} => ~running
    /\ mpc \in {"parse", "wait"} => ~gaveUp /\ ~stopRunning
    /\ stopRunning => gaveUp /\ mpc \in {"join", "delete", "end"}
    /\ mpc = "join" => stopRunning
    /\ mpc \notin {"parse", "wait"} /\ ~gaveUp => ~running
    /\ mpc \in {"stop", "delete"} /\ ~gaveUp => out = <<>>

\* The worker goes through the chain in order; the number of the call is that
\* of the command.
Begun == IF wpc \in {"taken", "call"} THEN cur + 1 ELSE cur
ChainInv ==
    /\ running => Begun <= Len(cmds)
    /\ running => left = [k \in 1..(Len(cmds) - Begun) |-> Begun + k]
    /\ taken = IF wpc \in {"taken", "call", "running"} THEN Begun ELSE None
    /\ wpc = "running" => cur # 0
    /\ wpc = "done" => noServer \/ stopRunning \/ cur = Len(cmds)

\* The lines are those of the calls that have returned.
Returned == IF wpc = "running" THEN cur - 1 ELSE cur
LinesInv ==
    /\ \A l \in Elements(told) : l.cmd <= Returned
    /\ mpc # "end" => \A c \in 1..Returned : HasLine(c)

StopInv == stopRunning /\ wpc = "call" => cur <= stopAt

TypeOK == NetOK /\ ClientOK /\ ChainsOK /\ ToolOK
IInv ==
    /\ TypeOK
    /\ CallInv /\ PhaseInv /\ ChainInv /\ LinesInv /\ StopInv
    /\ AnswersAreOwn /\ Reported /\ StopIsClean
=============================================================================
