----------------------------- MODULE CltOptions -----------------------------
(***************************************************************************)
(* The options of the command line clients (ADCmdlineHelper, which every   *)
(* client has, SysmgrCltCmdline and XmproxyCltCmdline) and what becomes of *)
(* them.  An option and its sub-arguments are pushed as a command; the     *)
(* worker runs a command as one call of ADJsonRpcClient.                   *)
(*                                                                         *)
(* An option names the methods it reads and writes with: the records of    *)
(* RpcTable, so that what the client sends and fetches can be compared     *)
(* with what the server wants and gives.                                   *)
(***************************************************************************)
EXTENDS RpcCalls, RpcTable

\* The sub-arguments of an option: words; where one of a list of words is
\* wanted, "word" is in the list and "bad" is not.
Args == {<<>>, <<"word">>, <<"bad">>, <<"word", "word">>,
         <<"word", "word", "word">>}

Option(push, get, set, names, only) ==
    [push |-> push, get |-> get, set |-> set, names |-> names, only |-> only]

Cmd(o, type, action, names) ==
    {[type |-> type, action |-> action, get |-> o.get, set |-> o.set,
      names |-> names]}
Refused == {}

\* READ without an argument, WRITE with one.
ByArgument(args) == IF args = <<>> THEN "READ" ELSE "WRITE"

\* string_to_enum(): a word outside the list turns the command into a READ.
ByWord(args) == IF args # <<>> /\ args[1] = "word" THEN "WRITE" ELSE "READ"

\* forced_act: READONLY and WRITEONLY options.
Forbidden(o, args) == o.only \notin {"both", ByArgument(args)}
-----------------------------------------------------------------------------
(* ADCmdlineHelper: the push functions                                     *)

push_action_type_noarg_command(o, args) ==
    Cmd(o, "ACTION_NO_ARG", "WRITE", o.names)

push_single_int_get_set_command(o, args) ==
    Cmd(o, "INT_GET_SET",
        IF o.only = "READ" THEN "READ" ELSE ByArgument(args), o.names)

\* The address is the first sub-argument: names = <<address, value>>.
push_int_get_set_with_dev_addr_arg_command(o, args) ==
    IF args = <<>> THEN Refused
    ELSE Cmd(o, "INT_GET_SET_WITH_DEV_ADDR", ByArgument(Tail(args)), o.names)

\* The same with an address the caller gives, a word of a list, a text.
push_int_get_set_at_addr(o, args) ==
    IF Forbidden(o, args) THEN Refused
    ELSE Cmd(o, "INT_GET_SET_WITH_DEV_ADDR", ByArgument(args), o.names)

push_enum_get_set_with_dev_addr_arg_command(o, args) ==
    IF Forbidden(o, args) THEN Refused
    ELSE Cmd(o, "ENUM_GET_SET_WITH_DEV_ADDR", ByWord(args), o.names)

push_string_get_set_with_dev_addr_arg_command(o, args) ==
    IF Forbidden(o, args) THEN Refused
    ELSE Cmd(o, "STRING_GET_SET_WITH_DEV_ADDR", ByArgument(args), o.names)

\* names = <<parameter, what to fetch after a WRITE>>
push_single_enum_get_set_command(o, args) ==
    Cmd(o, "ENUM_GET_SET", ByWord(args), o.names)

push_string_get_set_command(o, args) ==
    IF Forbidden(o, args) THEN Refused
    ELSE Cmd(o, "STRING_GET_SET", ByArgument(args), o.names)

\* names = <<list parameter, text>>; the word of the list must be there.
push_string_get_set_with_enum_arg(o, args) ==
    IF ByWord(args) = "READ" THEN Refused
    ELSE Cmd(o, "STRING_GET_SET_WITH_ENUM_PARA", ByArgument(Tail(args)),
             o.names)

push_get_task_progress_command(o, args) ==
    IF args = <<>> THEN Refused
    ELSE Cmd(o, "GET_TASK_STATUS", "READ", o.names)

push_get_task_progress_command_with_dev_addr(o, args) ==
    IF args = <<>> THEN Refused
    ELSE Cmd(o, "GET_TASK_STATUS_WITH_DEV_ADDR", "READ", o.names)

push_double_int_set_command(o, args) ==
    IF Len(args) < 2 THEN Refused
    ELSE Cmd(o, "DOUBLE_INT_SET", "WRITE", o.names)
-----------------------------------------------------------------------------
(* SysmgrCltCmdline and XmproxyCltCmdline: their own push functions.  The  *)
(* two have the same push_get_string_of_index().                           *)

push_get_string_of_index(o, args) ==
    IF args = <<>> THEN Refused ELSE Cmd(o, "string_of_index", "READ", o.names)

push_get_info_command(o, args) == Cmd(o, "info", "READ", o.names)

push_fmw_version_read_command(o, args) ==
    IF ByWord(args) = "READ" THEN Refused
    ELSE Cmd(o, "fmw_version", "READ", o.names)

push_fmw_update_command(o, args) ==
    IF ByWord(args) = "READ" \/ Len(args) < 2 THEN Refused
    ELSE Cmd(o, "fmw_update", "WRITE", o.names)

\* names = <<source, target, task>>, with the source file for tftp the third.
push_file_download(o, args) ==
    IF Len(args) < Len(o.names) - 1 THEN Refused
    ELSE Cmd(o, "file_download", "WRITE", o.names)

push_get_indexed_msg_command(o, args) ==
    IF args = <<>> THEN Refused ELSE Cmd(o, "indexed_msg", "READ", o.names)

push_shell_cmd(o, args) ==
    IF args = <<>> THEN Refused ELSE Cmd(o, "shell_cmd", "WRITE", o.names)

push_send_msg_command(o, args) ==
    IF Len(args) < 2 THEN Refused ELSE Cmd(o, "send_msg", "WRITE", o.names)

Push(o, args) ==
    CASE o.push = "action" -> push_action_type_noarg_command(o, args)
      [] o.push = "int" -> push_single_int_get_set_command(o, args)
      [] o.push = "int_addr" ->
            push_int_get_set_with_dev_addr_arg_command(o, args)
      [] o.push = "int_at" -> push_int_get_set_at_addr(o, args)
      [] o.push = "enum_at" ->
            push_enum_get_set_with_dev_addr_arg_command(o, args)
      [] o.push = "string_at" ->
            push_string_get_set_with_dev_addr_arg_command(o, args)
      [] o.push = "enum" -> push_single_enum_get_set_command(o, args)
      [] o.push = "string" -> push_string_get_set_command(o, args)
      [] o.push = "enum_string" -> push_string_get_set_with_enum_arg(o, args)
      [] o.push = "task" -> push_get_task_progress_command(o, args)
      [] o.push = "task_at" ->
            push_get_task_progress_command_with_dev_addr(o, args)
      [] o.push = "double_int" -> push_double_int_set_command(o, args)
      [] o.push = "string_of_index" -> push_get_string_of_index(o, args)
      [] o.push = "info" -> push_get_info_command(o, args)
      [] o.push = "fmw_version" -> push_fmw_version_read_command(o, args)
      [] o.push = "fmw_update" -> push_fmw_update_command(o, args)
      [] o.push = "file_download" -> push_file_download(o, args)
      [] o.push = "indexed_msg" -> push_get_indexed_msg_command(o, args)
      [] o.push = "shell_cmd" -> push_shell_cmd(o, args)
      [] o.push = "send_msg" -> push_send_msg_command(o, args)
-----------------------------------------------------------------------------
(* The worker runs a command: the method, the call, the names of what the  *)
(* call sends and of what it fetches.                                      *)

Runs(rpc, call, sends, fetches) ==
    [rpc |-> rpc, call |-> call, sends |-> sends, fetches |-> fetches]

\* An argument name a push function did not set: no answer has it.
Unset == ""
Name(c, k) == IF k <= Len(c.names) THEN c.names[k] ELSE Unset
First(c) == <<Name(c, 1)>>
Second(c) == <<Name(c, 2)>>
Third(c) == <<Name(c, 3)>>
Fourth(c) == <<Name(c, 4)>>
Both(c) == First(c) \o Second(c)
Writes(c) == c.action = "WRITE"

run_cmd_type_int_get_set(c) ==
    IF Writes(c) THEN Runs(c.set, "set_integer_type", First(c), <<>>)
                 ELSE Runs(c.get, "get_integer_type", <<>>, First(c))

run_cmd_type_int_get_set_with_dev_addr(c) ==
    IF Writes(c)
      THEN Runs(c.set, "set_integer_type_with_addr_para", Both(c), <<>>)
      ELSE Runs(c.get, "get_integer_type_with_addr_para", First(c), Second(c))

run_cmd_type_enum_get_set_with_dev_addr(c) ==
    IF Writes(c)
      THEN Runs(c.set, "set_enum_type_with_addr_para", Both(c), <<>>)
      ELSE Runs(c.get, "get_enum_type_with_addr_para", First(c), Second(c))

run_cmd_type_action_noarg(c) ==
    IF c.names = <<>>
      THEN Runs(c.set, "set_action_noarg_type", <<>>, <<>>)
      ELSE Runs(c.set, "set_action_noarg_get_single_string_type", <<>>, First(c))

\* Also for STRING_GET_SET.
run_cmd_type_enum_get_set(c) ==
    IF ~Writes(c) THEN Runs(c.get, "get_string_type", <<>>, First(c))
    ELSE IF Name(c, 1) = Unset
      THEN Runs(c.set, "set_single_string_type", First(c), <<>>)
      ELSE Runs(c.set, "set_single_string_get_single_string_type", First(c),
                Second(c))

run_get_task_progress_command(c) ==
    Runs(c.get, "get_string_type_with_string_para", First(c), Second(c))

run_get_task_progress_command_with_dev_addr(c) ==
    Runs(c.get, "get_string_type_with_string_para_with_addr_para", Both(c),
         Third(c))

run_cmd_type_string_get_set_with_enum_para(c) ==
    IF Writes(c)
      THEN Runs(c.set, "set_double_string_type", Both(c), <<>>)
      ELSE Runs(c.get, "get_string_type_with_string_para", First(c), Second(c))

run_cmd_type_double_int_set(c) ==
    Runs(c.set, "set_integer_type_with_addr_para", Both(c), <<>>)

run_get_string_of_index(c) ==
    Runs(c.get, "get_string_type_with_string_para", First(c), Second(c))

run_get_info_command(c) ==
    Runs(c.get, "get_three_string_type", <<>>, Both(c) \o Third(c))

run_fmw_version_command(c) ==
    Runs(c.get, "get_string_type_with_string_para", First(c), Second(c))

run_fmw_update_command(c) ==
    Runs(c.set, "set_double_string_get_single_string_type", Both(c), Third(c))

Bug_run_file_download(c) ==
    Runs(c.set, "set_double_string_get_single_string_type", Both(c), Third(c))
run_file_download(c) ==
    IF c.set = download_tftp
      THEN Runs(c.set, "set_tripple_string_get_single_string_type",
                Both(c) \o Third(c), Fourth(c))
      ELSE Runs(c.set, "set_double_string_get_single_string_type", Both(c),
                Third(c))

run_get_indexed_msg_command(c) ==
    Runs(c.get, "get_int_type_with_string_para", First(c), Second(c))

run_shell_cmd(c) ==
    Runs(c.set, "set_single_string_get_single_string_type", First(c), Second(c))

run_send_msg_command(c) ==
    Runs(c.get, "set_double_string_type", Both(c), <<>>)

\* The switch of the worker and those of run_my_commands().
Run(c) ==
    CASE c.type = "ACTION_NO_ARG" -> run_cmd_type_action_noarg(c)
      [] c.type \in {"ENUM_GET_SET", "STRING_GET_SET"} ->
            run_cmd_type_enum_get_set(c)
      [] c.type = "INT_GET_SET" -> run_cmd_type_int_get_set(c)
      [] c.type = "INT_GET_SET_WITH_DEV_ADDR" ->
            run_cmd_type_int_get_set_with_dev_addr(c)
      [] c.type \in {"STRING_GET_SET_WITH_DEV_ADDR",
                     "ENUM_GET_SET_WITH_DEV_ADDR"} ->
            run_cmd_type_enum_get_set_with_dev_addr(c)
      [] c.type = "STRING_GET_SET_WITH_ENUM_PARA" ->
            run_cmd_type_string_get_set_with_enum_para(c)
      [] c.type = "GET_TASK_STATUS" -> run_get_task_progress_command(c)
      [] c.type = "GET_TASK_STATUS_WITH_DEV_ADDR" ->
            run_get_task_progress_command_with_dev_addr(c)
      [] c.type = "DOUBLE_INT_SET" -> run_cmd_type_double_int_set(c)
      [] c.type = "string_of_index" -> run_get_string_of_index(c)
      [] c.type = "info" -> run_get_info_command(c)
      [] c.type = "fmw_version" -> run_fmw_version_command(c)
      [] c.type = "fmw_update" -> run_fmw_update_command(c)
      [] c.type = "file_download" -> run_file_download(c)
      [] c.type = "indexed_msg" -> run_get_indexed_msg_command(c)
      [] c.type = "shell_cmd" -> run_shell_cmd(c)
      [] c.type = "send_msg" -> run_send_msg_command(c)
-----------------------------------------------------------------------------
(* The options                                                             *)

Action(set, names) == Option("action", set, set, names, "WRITE")
ReadInt(get, name) == Option("int", get, get, <<name>>, "READ")
Enum(get, set, names) == Option("enum", get, set, names, "both")
Memory(get, set) == Option("int_addr", get, set, <<"addr", "data">>, "both")
Address(get, set) == Option("enum_string", get, set, <<"iface", "addr">>, "both")
Info(get, names) == Option("info", get, get, names, "READ")
Message(set) == Option("send_msg", set, set, <<"to", "msg">>, "WRITE")
Shell(set) == Option("shell_cmd", set, set, <<"command", "taskId">>, "WRITE")

HelperOptions ==
    [taskstatus |-> Option("task", get_task_sts, get_task_sts,
                           <<"taskId", "taskStatus">>, "READ"),
     debuglog |-> Enum(get_debug_logging, set_debug_logging, <<"status">>),
     shutdown |-> Action(shutdown_service, <<"taskId">>),
     version |-> ReadInt(get_rpc_srv_version, "version"),
     datasave |-> Action(trigger_datasave, <<"taskId">>),
     settingssts |-> Option("string", get_settings_sts, get_settings_sts,
                            <<"status">>, "READ"),
     resettask |-> Action(reset_task_sts, <<>>),
     readystatus |-> Option("string", get_ready_sts, get_ready_sts,
                            <<"status">>, "READ"),
     factstore |-> Action(trigger_factory_store, <<"taskId">>),
     factrestore |-> Action(trigger_factory_restore, <<"taskId">>),
     subscribe |-> Option("double_int", event_subscribe, event_subscribe,
                          <<"cltToken", "port">>, "WRITE"),
     unsubscribe |-> Option("int", event_unsubscribe, event_unsubscribe,
                            <<"srvToken">>, "both"),
     notify |-> Option("double_int", event_notify, event_notify,
                       <<"evntNum", "evntArg1">>, "WRITE"),
     devopstate |-> Enum(get_devop_state, set_devop_state, <<"status">>),
     byte |-> Memory(get_mw_byte, set_mw_byte),
     word |-> Memory(get_mw_word, set_mw_word),
     dword |-> Memory(get_mw_dword, set_mw_dword)]

SysmgrOptions ==
    [mac |-> Address(get_mac_addr, set_mac_addr),
     ipaddr |-> Address(get_ip_addr, set_ip_addr),
     netmask |-> Address(get_netmask, set_netmask),
     ethcount |-> ReadInt(get_eth_count, "count"),
     ethname |-> Option("string_of_index", get_eth_name, get_eth_name,
                        <<"index", "name">>, "READ"),
     loadinfo |-> Info(get_loadinfo, <<"current", "average", "uptime">>),
     meminfo |-> Info(get_meminfo, <<"memMB", "memfreeMB", "memusedMB">>),
     cpuinfo |-> Info(get_cpuinfo, <<"model", "cores", "frequency">>),
     devop |-> Enum(get_devop, set_devop, <<"operation", "taskId">>),
     fmwver |-> Option("fmw_version", get_fmwver, get_fmwver,
                       <<"module", "version">>, "READ"),
     bootsys |-> Enum(get_bootsys, get_bootsys, <<"system">>),
     fmwupdate |-> Option("fmw_update", set_fmwupdate, set_fmwupdate,
                          <<"module", "filepath", "taskId">>, "WRITE"),
     ftp |-> Option("file_download", download_ftp, download_ftp,
                    <<"srcaddr", "targetpath", "taskId">>, "WRITE"),
     tftp |-> Option("file_download", download_tftp, download_tftp,
                     <<"srcaddr", "targetpath", "srcfile", "taskId">>, "WRITE"),
     asynctask |-> Enum(get_async_task_in_progress, get_async_task_in_progress,
                        <<"task">>),
     devtype |-> Enum(get_devtype, get_devtype, <<"type">>),
     hostname |-> Option("string", get_hostname, set_hostname, <<"hostname">>,
                         "both"),
     myip |-> Option("string", get_myip, get_myip, <<"ip">>, "both"),
     defhostname |-> Action(set_def_hostname, <<>>),
     updatelog |-> Action(loglist_update, <<"taskId">>),
     logcount |-> ReadInt(get_logcount, "logcount"),
     logline |-> Option("indexed_msg", get_logline, get_logline,
                        <<"index", "logmsg">>, "READ"),
     shellcmd |-> Shell(run_shellcmd),
     shellcmdtrig |-> Shell(run_shellcmd),
     devident |-> Action(devident, <<"taskId">>),
     evntsubscribe |-> Action(subscribe_events, <<>>)]

XmproxyOptions ==
    [xmasynctask |-> Enum(get_async_task, get_async_task, <<"task">>),
     onlinestatus |-> Enum(get_online_status, set_online_status, <<"status">>),
     sendmessage |-> Message(send_message),
     buddysubscribe |-> Message(send_subscribe),
     acceptbuddy |-> Message(accept_buddy),
     inboxcount |-> ReadInt(get_inbox_count, "count"),
     inbox |-> Option("string_of_index", get_inbox_message, get_inbox_message,
                      <<"index", "message">>, "READ"),
     emptyinbox |-> Action(empty_inbox, <<>>)]

\* The library pushes these for clients of other services.
LibraryOptions ==
    [int_at |-> Option("int_at", get_mw_byte, set_mw_byte,
                       <<"addr", "data">>, "both"),
     enum_at |-> Option("enum_at", get_mw_byte, set_mw_byte,
                        <<"addr", "data">>, "both"),
     string_at |-> Option("string_at", get_mw_byte, set_mw_byte,
                          <<"addr", "data">>, "both"),
     task_at |-> Option("task_at", get_task_sts, get_task_sts,
                        <<"addr", "taskId", "taskStatus">>, "READ")]

AllOptions ==
    [name \in DOMAIN HelperOptions \union DOMAIN SysmgrOptions
              \union DOMAIN XmproxyOptions \union DOMAIN LibraryOptions |->
        CASE name \in DOMAIN HelperOptions -> HelperOptions[name]
          [] name \in DOMAIN SysmgrOptions -> SysmgrOptions[name]
          [] name \in DOMAIN XmproxyOptions -> XmproxyOptions[name]
          [] name \in DOMAIN LibraryOptions -> LibraryOptions[name]]

\* Every command is run with as many names as its call sends and fetches.
ASSUME RunnersFit ==
    \A name \in DOMAIN AllOptions : \A args \in Args :
        \A c \in Push(AllOptions[name], args) :
            LET run == Run(c)
                call == CallNamed(run.call)
            IN  /\ Len(run.sends) = Len(call.sends)
                /\ Len(run.fetches) = Len(call.fetches)
-----------------------------------------------------------------------------
(* What the server makes of a run: an answer without the error object says *)
(* a result, with the fields its handler puts there.  A handler that misses*)
(* a parameter it insists on gets no packet, and the answer is an error.   *)

InSeq(x, seq) == \E k \in DOMAIN seq : seq[k] = x
Complete(run) == \A k \in DOMAIN run.rpc.need : InSeq(run.rpc.need[k], run.sends)

Answers(run) ==
    {[result |-> r,
      values |-> [f \in {run.rpc.fields[k] :
                           k \in IF r \in run.rpc.carry
                                   THEN DOMAIN run.rpc.fields ELSE {}} |-> f]] :
        r \in run.rpc.results}
=============================================================================
