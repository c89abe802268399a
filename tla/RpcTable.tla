------------------------------ MODULE RpcTable ------------------------------
(***************************************************************************)
(* What an RPC is to the library and to its callers.  A handler is a       *)
(* triple of functions: json_to_bin_X takes the parameters out of the      *)
(* request into a packet, process_X fills the packet or pushes a task,     *)
(* bin_to_json_X writes the answer and deletes the packet.  The record of  *)
(* an RPC holds what that triple does: the parameters it insists on, in    *)
(* order, the fields of its answer and the results that carry them, the    *)
(* results process_X can give, and the task it pushes.                     *)
(*                                                                         *)
(* This module has the RPCs every service offers (ADJsonRpcMgr) and the    *)
(* ones of the system manager (SysRpc, NetRpc, DispCtrlRpc) and of the     *)
(* XMPP proxy (XmppRpc).                                                   *)
(***************************************************************************)
EXTENDS Naturals, Sequences

NoTask == "none"

\* PREPARE_JSON_RESP_STRING, _ENUM: the fields follow only a SUCCESS.
Reads(need, fields, results) ==
    [need |-> need, fields |-> fields, carry |-> {"SUCCESS"},
     results |-> results, task |-> NoTask]

\* PREPARE_JSON_RESP_INT: the number also follows IN_PROG.
Counts(need, field, results) ==
    [need |-> need, fields |-> <<field>>, carry |-> {"SUCCESS", "IN_PROG"},
     results |-> results, task |-> NoTask]

\* PREPARE_JSON_RESP: the result and nothing else.
Acts(need, results) ==
    [need |-> need, fields |-> <<>>, carry |-> {}, results |-> results,
     task |-> NoTask]

\* PREPARE_JSON_RESP_IN_PROG: the id of the task follows IN_PROG.
Starts(need, task) ==
    [need |-> need, fields |-> <<"taskId">>, carry |-> {"SUCCESS", "IN_PROG"},
     results |-> {"IN_PROG", "FAIL", "MEM_ERROR"}, task |-> task]

\* The manager's own tasks do not look whether their work data was allocated.
Triggers(need, task) ==
    [Starts(need, task) EXCEPT !.results = {"IN_PROG", "FAIL"}]

\* RPC_SRV_RESULT of run_shell_script(): the exit status of the script ...
ShellResults ==
    {"SUCCESS", "FILE_OPEN_ERR", "FILE_READ_ERR", "FILE_WRITE_ERR",
     "ARG_ERROR", "HOST_NOT_REACHABLE_ERR", "FILE_SAME", "FILE_DIFFERENT",
     "FILE_NOT_FOUND", "FAIL"}

\* ... or, when its output is wanted, whether it could be run at all.
PipeResults == {"SUCCESS", "FILE_OPEN_ERR"}
-----------------------------------------------------------------------------
(* ADJsonRpcMgr: the methods Start() registers before those of the service.*)
(* NOT_STARTED is the result a handler leaves alone: get_settings_sts, the *)
(* device state and the middleware calls end in CmnRpc::ProcessWork, which *)
(* sets none.                                                              *)

get_task_sts == Reads(<<"taskId">>, <<"taskStatus">>, {"SUCCESS"})
get_rpc_srv_version == Counts(<<>>, "version", {"SUCCESS"})
trigger_datasave == Triggers(<<>>, "TRIGGER_DATASAVE")
get_settings_sts == Reads(<<>>, <<"status">>, {"NOT_STARTED"})
shutdown_service ==
    [Triggers(<<>>, "SHUTDOWN_SERVICE") EXCEPT
        !.results = @ \union {"FEATURE_UNSUPPORTED"}]
reset_task_sts == Acts(<<>>, {"SUCCESS"})
get_ready_sts == Reads(<<>>, <<"status">>, {"SUCCESS"})
get_debug_logging == Reads(<<>>, <<"status">>, {"SUCCESS"})
set_debug_logging == Acts(<<"status">>, {"SUCCESS", "ARG_ERROR"})
trigger_factory_store == Triggers(<<>>, "TRIGGER_FACTORY_STORE")
trigger_factory_restore == Triggers(<<>>, "TRIGGER_FACTORY_RESTORE")
\* The port and the event number are optional (-1).
event_subscribe == Counts(<<"cltToken">>, "srvToken",
                          {"SUCCESS", "ITEM_DUPLICATE_FOUND", "FAIL"})
event_unsubscribe == Acts(<<"srvToken">>,
                          {"SUCCESS", "ITEM_NOT_FOUND", "FAIL"})
event_notify == Acts(<<"evntNum">>, {"SUCCESS", "FAIL"})
event_process == Acts(<<"cltToken", "evntNum">>, {"SUCCESS"})
trigger_run == Triggers(<<>>, "TRIGGER_RUN")
get_devop_state == Reads(<<>>, <<"status">>, {"NOT_STARTED"})
\* A task whose id the answer does not carry.
set_devop_state ==
    [Triggers(<<"status">>, "SET_DEVOP_STATE") EXCEPT !.fields = <<>>, !.carry = {}]
get_mw_byte == Counts(<<"addr">>, "data", {"NOT_STARTED"})
set_mw_byte == Acts(<<"addr", "data">>, {"NOT_STARTED"})
get_mw_word == Counts(<<"addr">>, "data", {"NOT_STARTED"})
set_mw_word == Acts(<<"addr", "data">>, {"NOT_STARTED"})
get_mw_dword == Counts(<<"addr">>, "data", {"NOT_STARTED"})
set_mw_dword == Acts(<<"addr", "data">>, {"NOT_STARTED"})

\* Start(): method i of this list gets command number i - 1.
Builtin ==
    <<get_task_sts, get_rpc_srv_version, trigger_datasave, get_settings_sts,
      shutdown_service, reset_task_sts, get_ready_sts, get_debug_logging,
      set_debug_logging, trigger_factory_store, trigger_factory_restore,
      event_subscribe, event_unsubscribe, event_notify, event_process,
      trigger_run, get_devop_state, set_devop_state, get_mw_byte, set_mw_byte,
      get_mw_word, set_mw_word, get_mw_dword, set_mw_dword>>

CmdEnd == Len(Builtin)   \* EJSON_RPCGMGR_CMD_END
-----------------------------------------------------------------------------
(* SysRpc                                                                  *)

get_loadinfo == Reads(<<>>, <<"current", "average", "uptime">>,
                      {"SUCCESS", "FAIL"})
get_meminfo == Reads(<<>>, <<"memMB", "memfreeMB", "memusedMB">>,
                     {"SUCCESS", "FAIL"})
get_cpuinfo == Reads(<<>>, <<"model", "cores", "frequency">>,
                     {"SUCCESS", "FAIL"})
get_devop == Reads(<<>>, <<"operation">>, {"SUCCESS"})
set_devop == Starts(<<"operation">>, "SET_DEV_OP")
get_fmwver == Reads(<<"module">>, <<"version">>,
                    {"SUCCESS", "FEATURE_NOT_AVAILABLE", "FILE_OPEN_ERR",
                     "FILE_READ_ERR"})
get_bootsys == Reads(<<>>, <<"system">>,
                     {"SUCCESS", "FILE_OPEN_ERR", "FAIL", "NOT_STARTED"})
set_fmwupdate ==
    [Starts(<<"module", "filepath">>, "SET_FMWUPDATE") EXCEPT
        !.results = @ \union {"ARG_ERROR"}]
download_ftp == Starts(<<"srcaddr", "targetpath">>, "SET_DOWNLOADFTP")
download_tftp == Starts(<<"srcaddr", "srcfile", "targetpath">>,
                        "SET_DOWNLOADTFTP")
get_async_task_in_progress == Reads(<<>>, <<"task">>, {"SUCCESS"})
get_devtype == Reads(<<>>, <<"type">>, {"SUCCESS"})
get_hostname == Reads(<<>>, <<"hostname">>, {"SUCCESS", "FILE_OPEN_ERR"})
set_hostname == Acts(<<"hostname">>, {"SUCCESS", "FILE_OPEN_ERR"})
get_myip == Reads(<<>>, <<"ip">>, PipeResults)
set_def_hostname == Acts(<<>>, ShellResults)
loglist_update == Starts(<<>>, "SET_UPDATE_LOG")
get_logcount == Counts(<<>>, "logcount", {"SUCCESS"})
get_logline == Reads(<<"index">>, <<"logmsg">>, {"SUCCESS", "ITEM_NOT_FOUND"})
\* run_shellcmd and run_shellcmdtrig push the same task; only the former
\* redirects its output.  A parameter has at most 254 characters, so the
\* command always fits the packet.
run_shellcmd == Starts(<<"command">>, "RUN_SHELLCMD")
devident == Starts(<<>>, "DEVIDENT")
subscribe_events == Acts(<<>>, {"SUCCESS", "FEATURE_NOT_AVAILABLE"})
-----------------------------------------------------------------------------
(* NetRpc and DispCtrlRpc                                                  *)

EthResults == {"SUCCESS", "FILE_OPEN_ERR"}
DispResults == {"SUCCESS", "FAIL"}

get_mac_addr == Reads(<<"iface">>, <<"addr">>, {"SUCCESS", "FAIL"})
set_mac_addr == Acts(<<"iface">>, {"FEATURE_UNSUPPORTED"})
get_eth_count == Counts(<<>>, "count", EthResults)
get_eth_name == Reads(<<"index">>, <<"name">>,
                      EthResults \union {"FAIL", "ARG_ERROR"})
get_ip_addr == Reads(<<"iface">>, <<"addr">>, {"SUCCESS", "FAIL"})
set_ip_addr == Acts(<<"iface">>, {"FEATURE_UNSUPPORTED"})
get_netmask == Reads(<<"iface">>, <<"addr">>, {"SUCCESS", "FAIL"})
set_netmask == Acts(<<"iface">>, {"FEATURE_UNSUPPORTED"})
disp_clear == Acts(<<>>, DispResults)
disp_print == Acts(<<"line", "msg">>, DispResults)
backlight_get == Reads(<<>>, <<"status">>, DispResults)
backlight_set == Acts(<<"status">>, DispResults)
-----------------------------------------------------------------------------
(* XmppRpc, the RPCs of the XMPP proxy                                     *)

get_async_task == Reads(<<>>, <<"task">>, {"SUCCESS"})
get_online_status == Reads(<<>>, <<"status">>, {"SUCCESS"})
set_online_status == Acts(<<"status">>, {"SUCCESS"})
send_message == Acts(<<"to", "msg">>, {"SUCCESS", "FAIL"})
send_subscribe == Acts(<<"to", "msg">>, {"SUCCESS", "FAIL"})
accept_buddy == Acts(<<"to", "msg">>, {"SUCCESS", "FAIL"})
get_inbox_count == Counts(<<>>, "count", {"SUCCESS"})
get_inbox_message == Reads(<<"index">>, <<"message">>,
                           {"SUCCESS", "VALUE_OUT_OF_RANGE"})
empty_inbox == Acts(<<>>, {"SUCCESS"})
-----------------------------------------------------------------------------
(* EJSON_SYSMGR_RPC_TYPES, in the order of the enumeration, and the class  *)
(* that handles it.                                                        *)

RpcTypes ==
    <<"GET_MAC_ADDR", "SET_MAC_ADDR", "GET_ETH_COUNT", "GET_ETH_NAME",
      "GET_LOADINFO", "GET_MEMINFO", "GET_CPUINFO", "GET_DEV_OP", "SET_DEV_OP",
      "GET_FMWVER", "GET_BOOT_SYSTEM", "SET_FMWUPDATE", "SET_DOWNLOADFTP",
      "SET_DOWNLOADTFTP", "GET_ASYNCTASK", "GET_DEVTYPE", "GET_HOSTNAME",
      "SET_HOSTNAME", "GET_MY_PUBLIC_IP", "SET_DEFAULT_HOSTNAME",
      "SET_UPDATE_LOG", "GET_LOG_COUNT", "GET_LOG_LINE", "GET_IP_ADDR",
      "SET_IP_ADDR", "GET_NETMASK", "SET_NETMASK", "RUN_SHELLCMD", "DEVIDENT",
      "EVNT_SUBSCRIBE", "DISP_CLEAR", "DISP_PRINT", "DISP_GET_BKLT",
      "DISP_SET_BKLT", "RUN_SHELLCMDTRIG">>

NetRpcs ==
    [GET_MAC_ADDR |-> get_mac_addr, SET_MAC_ADDR |-> set_mac_addr,
     GET_ETH_COUNT |-> get_eth_count, GET_ETH_NAME |-> get_eth_name,
     GET_IP_ADDR |-> get_ip_addr, SET_IP_ADDR |-> set_ip_addr,
     GET_NETMASK |-> get_netmask, SET_NETMASK |-> set_netmask]

SysRpcs ==
    [GET_LOADINFO |-> get_loadinfo, GET_MEMINFO |-> get_meminfo,
     GET_CPUINFO |-> get_cpuinfo, GET_DEV_OP |-> get_devop,
     SET_DEV_OP |-> set_devop, GET_FMWVER |-> get_fmwver,
     GET_BOOT_SYSTEM |-> get_bootsys, SET_FMWUPDATE |-> set_fmwupdate,
     SET_DOWNLOADFTP |-> download_ftp, SET_DOWNLOADTFTP |-> download_tftp,
     GET_ASYNCTASK |-> get_async_task_in_progress, GET_DEVTYPE |-> get_devtype,
     GET_HOSTNAME |-> get_hostname, SET_HOSTNAME |-> set_hostname,
     GET_MY_PUBLIC_IP |-> get_myip, SET_DEFAULT_HOSTNAME |-> set_def_hostname,
     SET_UPDATE_LOG |-> loglist_update, GET_LOG_COUNT |-> get_logcount,
     GET_LOG_LINE |-> get_logline, RUN_SHELLCMD |-> run_shellcmd,
     RUN_SHELLCMDTRIG |-> run_shellcmd, DEVIDENT |-> devident,
     EVNT_SUBSCRIBE |-> subscribe_events]

DispRpcs ==
    [DISP_CLEAR |-> disp_clear, DISP_PRINT |-> disp_print,
     DISP_GET_BKLT |-> backlight_get, DISP_SET_BKLT |-> backlight_set]
=============================================================================
