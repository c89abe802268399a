------------------------------ MODULE XmppCmds ------------------------------
(***************************************************************************)
(* The chat commands of the XMPP proxy (XmppMgr): the table of names and   *)
(* one proc_cmd_X() for each.  What such a function does depends on who    *)
(* sent the command and on how many words follow the name:                 *)
(*                                                                         *)
(*   admin   only the administrator may use it,                            *)
(*   need    the words it insists on,                                      *)
(*   few     what it does with just these,                                 *)
(*   many    what it does with more.                                       *)
(*                                                                         *)
(* Most of them call another service, through RpcCalls; the records of     *)
(* RpcTable say what that service wants and gives.                         *)
(***************************************************************************)
EXTENDS RpcCalls, RpcTable

CONSTANT Off   \* the groups of commands the command line switched off
ASSUME OffAssumption == Off \subseteq {"gsm", "openwrt", "docker"}

\* What a command does.  The steps of a call run one after the other; the
\* port "any" is the first word of the command.
Refuses(result) == [do |-> "refuse", result |-> result]
Asks(port, steps) == [do |-> "ask", port |-> port, steps |-> steps]
Begins(port, steps) == [do |-> "start", port |-> port, steps |-> steps]
Local(op) == [do |-> op]
LinkOp(op) == [do |-> "link", op |-> op]

Call(rpc, name, sends, fetches) ==
    [rpc |-> rpc, call |-> name, sends |-> sends, fetches |-> fetches]

Command(need, few, many) ==
    [admin |-> FALSE, need |-> need, few |-> few, many |-> many]
Always(does) == Command(0, does, does)
With(need, does) == Command(need, does, does)
AdminOnly(command) == [command EXCEPT !.admin = TRUE]

\* A command that starts a task fetches its id.
StartsTask(port, rpc, name, sends) ==
    Begins(port, <<Call(rpc, name, sends, <<"taskId">>)>>)
-----------------------------------------------------------------------------
(* The services outside this repository: what their RPCs want and give     *)

delete_all_sms == Starts(<<>>, "DELETE_ALL")
send_sms == Starts(<<"destination", "message">>, "SEND")
update_sms_list == Starts(<<>>, "UPDATE_LIST")
dial == Starts(<<"destination">>, "DIAL")
identify_dev == Starts(<<>>, "IDENTIFY")
get_sms == Reads(<<"index">>, <<"message">>, {"SUCCESS"})
get_total_sms == Counts(<<>>, "msgcount", {"SUCCESS"})
get_ussd == Reads(<<>>, <<"message">>, {"SUCCESS"})
gpio_get == Counts(<<"addr">>, "data", {"SUCCESS"})
gpio_set == Acts(<<"addr", "data">>, {"SUCCESS"})
-----------------------------------------------------------------------------
(* The SMS and telephone commands                                          *)

NoArgTask == "set_action_noarg_get_single_string_type"
OneArgTask == "set_single_string_get_single_string_type"
TwoArgTask == "set_double_string_get_single_string_type"

proc_cmd_sms_deleteall ==
    Always(StartsTask("BBOXSMS", delete_all_sms, NoArgTask, <<>>))
proc_cmd_sms_delete == Always(Refuses("FEATURE_NOT_AVAILABLE"))
proc_cmd_sms_get ==
    With(1, Asks("BBOXSMS", <<Call(get_sms, "get_int_type_with_string_para",
                                   <<"index">>, <<"message">>)>>))
proc_cmd_sms_send ==
    With(2, StartsTask("BBOXSMS", send_sms, TwoArgTask,
                       <<"destination", "message">>))
proc_cmd_sms_list_update ==
    Always(StartsTask("BBOXSMS", update_sms_list, NoArgTask, <<>>))
proc_cmd_sms_get_total ==
    Always(Asks("BBOXSMS", <<Call(get_total_sms, "get_integer_type", <<>>,
                                  <<"msgcount">>)>>))
proc_cmd_dial_voice ==
    With(1, StartsTask("BBOXSMS", dial, OneArgTask, <<"destination">>))
proc_cmd_get_ussd ==
    Always(Asks("BBOXSMS", <<Call(get_ussd, "get_string_type", <<>>,
                                  <<"message">>)>>))
proc_cmd_gsm_modem_identify ==
    Always(StartsTask("BBOXSMS", identify_dev, NoArgTask, <<>>))
proc_cmd_gpio ==
    Command(1, Asks("GPIOCTL", <<Call(gpio_get, "get_integer_type_with_addr_para",
                                      <<"addr">>, <<"data">>)>>),
               Asks("GPIOCTL", <<Call(gpio_set, "set_integer_type_with_addr_para",
                                      <<"addr", "data">>, <<>>)>>))
-----------------------------------------------------------------------------
(* The commands for the system manager                                     *)

OneText(rpc, field) ==
    Always(Asks("SYSMGR", <<Call(rpc, "get_string_type", <<>>, <<field>>)>>))

proc_cmd_fmw_get_version ==
    Always(Asks("SYSMGR", <<Call(get_fmwver, "get_string_type_with_string_para",
                                 <<"module">>, <<"version">>)>>))
\* Two tasks on one connection, the second only if the first was taken; only
\* the second is recorded.  (The device type must be known.)
proc_cmd_fmw_update ==
    Always(Begins("SYSMGR",
        <<Call(download_ftp, TwoArgTask, <<"srcaddr", "targetpath">>,
               <<"taskId">>),
          Call(set_fmwupdate, TwoArgTask, <<"module", "filepath">>,
               <<"taskId">>)>>))
proc_cmd_fmw_reboot ==
    Always(StartsTask("SYSMGR", set_devop, OneArgTask, <<"operation">>))
proc_cmd_fmw_poweroff ==
    Always(StartsTask("SYSMGR", set_devop, OneArgTask, <<"operation">>))
proc_cmd_fmw_update_sts == OneText(get_async_task_in_progress, "task")
proc_cmd_fmw_update_res ==
    Always(Asks("SYSMGR", <<Call(get_task_sts, "get_string_type_with_string_para",
                                 <<"taskId">>, <<"taskStatus">>)>>))
proc_cmd_fmw_uptime ==
    Always(Asks("SYSMGR", <<Call(get_loadinfo, "get_three_string_type", <<>>,
                                 <<"current", "average", "uptime">>)>>))
proc_cmd_fmw_get_hostname == OneText(get_hostname, "hostname")
proc_cmd_fmw_set_hostname ==
    With(1, Asks("SYSMGR", <<Call(set_hostname, "set_single_string_type",
                                  <<"hostname">>, <<>>)>>))
proc_cmd_fmw_hostname ==
    Command(0, proc_cmd_fmw_get_hostname.few, proc_cmd_fmw_set_hostname.few)
proc_cmd_fmw_get_myip == OneText(get_myip, "ip")
\* eth0, then eth1, then ppp0, until one has an address.
proc_cmd_fmw_get_localip ==
    LET Try == Call(get_ip_addr, "get_string_type_with_string_para",
                    <<"iface">>, <<"addr">>)
    IN  Always(Asks("SYSMGR", <<Try, Try, Try>>))
proc_cmd_fmw_set_default_hostname ==
    Always(Asks("SYSMGR", <<Call(set_def_hostname, "set_action_noarg_type",
                                 <<>>, <<>>)>>))
proc_cmd_logsts ==
    Command(1, Asks("any", <<Call(get_debug_logging, "get_string_type", <<>>,
                                  <<"status">>)>>),
               Asks("any", <<Call(set_debug_logging, "set_single_string_type",
                                  <<"status">>, <<>>)>>))
proc_cmd_log_list_update ==
    Always(StartsTask("SYSMGR", loglist_update, NoArgTask, <<>>))
proc_cmd_log_get_count ==
    Always(Asks("SYSMGR", <<Call(get_logcount, "get_integer_type", <<>>,
                                 <<"logcount">>)>>))
proc_cmd_log_get_line ==
    With(1, Asks("SYSMGR", <<Call(get_logline, "get_int_type_with_string_para",
                                  <<"index">>, <<"logmsg">>)>>))
proc_cmd_shellcmd ==
    With(1, StartsTask("SYSMGR", run_shellcmd, OneArgTask, <<"command">>))
proc_cmd_devident ==
    Always(StartsTask("SYSMGR", devident, NoArgTask, <<>>))
proc_cmd_disp_clear ==
    Always(Asks("SYSMGR", <<Call(disp_clear, "set_action_noarg_type", <<>>,
                                 <<>>)>>))
\* Reading is tried with the RPC that writes, without the text.
ReadsDisplay ==
    Asks("SYSMGR", <<Call(disp_print, "get_integer_type_with_addr_para",
                          <<"line">>, <<"msg">>)>>)
proc_cmd_disp_print ==
    Command(1, ReadsDisplay,
               Asks("SYSMGR", <<Call(disp_print, "set_double_string_type",
                                     <<"line", "msg">>, <<>>)>>))
proc_cmd_get_display_backlight == OneText(backlight_get, "status")
proc_cmd_set_display_backlight ==
    With(1, Asks("SYSMGR", <<Call(backlight_set, "set_single_string_type",
                                  <<"status">>, <<>>)>>))
proc_cmd_disp_backlight ==
    Command(0, proc_cmd_get_display_backlight.few,
               proc_cmd_set_display_backlight.few)
-----------------------------------------------------------------------------
(* The commands the proxy serves itself.  The shutdown goes through its    *)
(* own RPC server.                                                         *)

proc_cmd_xmpshutdown ==
    Always(StartsTask("XMPROXY", shutdown_service, NoArgTask, <<>>))
proc_cmd_event_gsm == Command(0, Local("read"), Local("event"))
proc_cmd_event_gpio == Command(1, Local("read"), Local("event"))
proc_cmd_sleep == With(1, Local("read"))
proc_cmd_account_name == Always(Local("read"))
proc_cmd_bot_name == Command(0, Local("read"), Local("botname"))
proc_cmd_shellcmdresp == Always(Local("read"))
proc_cmd_accept_buddy_list == Always(Local("read"))
\* HTTP to a switch, outside this repository.
proc_cmd_sonoff == With(1, Local("read"))
proc_cmd_buddy_add == AdminOnly(With(1, Local("accept")))
proc_cmd_buddy_remove == AdminOnly(With(1, Local("reject")))
\* These use the gloox client whether or not there is one ...
proc_cmd_buddy_list == Always(LinkOp("roster"))
proc_cmd_buddy_subscribe == AdminOnly(With(1, LinkOp("subscribe")))
proc_cmd_buddy_unsubscribe == AdminOnly(With(1, LinkOp("unsubscribe")))
\* ... and this one looks first (IsMyBuddy()).
proc_cmd_relay_message == AdminOnly(With(2, Local("read")))
-----------------------------------------------------------------------------
(* xmproxy_cmd_table and the switch of monoshot_callback_function()        *)

Commands ==
    [gsmcheck |-> proc_cmd_gsm_modem_identify,
     smsupdate |-> proc_cmd_sms_list_update,
     smstotal |-> proc_cmd_sms_get_total, smsget |-> proc_cmd_sms_get,
     smsdeleteall |-> proc_cmd_sms_deleteall, smssend |-> proc_cmd_sms_send,
     dialvoice |-> proc_cmd_dial_voice, dialussd |-> proc_cmd_dial_voice,
     readussd |-> proc_cmd_get_ussd, version |-> proc_cmd_fmw_get_version,
     sysupdate |-> proc_cmd_fmw_update, reboot |-> proc_cmd_fmw_reboot,
     poweroff |-> proc_cmd_fmw_poweroff, uptime |-> proc_cmd_fmw_uptime,
     hostname |-> proc_cmd_fmw_hostname,
     resethostname |-> proc_cmd_fmw_set_default_hostname,
     publicip |-> proc_cmd_fmw_get_myip, localip |-> proc_cmd_fmw_get_localip,
     logsts |-> proc_cmd_logsts, logupdate |-> proc_cmd_log_list_update,
     logcount |-> proc_cmd_log_get_count, logmsg |-> proc_cmd_log_get_line,
     gpio |-> proc_cmd_gpio, eventgsm |-> proc_cmd_event_gsm,
     eventgpio |-> proc_cmd_event_gpio, sleep |-> proc_cmd_sleep,
     account |-> proc_cmd_account_name, botname |-> proc_cmd_bot_name,
     buddylist |-> proc_cmd_buddy_list, shellcmd |-> proc_cmd_shellcmd,
     shellcmdresp |-> proc_cmd_shellcmdresp,
     shellcmdtrig |-> proc_cmd_shellcmd, identify |-> proc_cmd_devident,
     xmpshutdown |-> proc_cmd_xmpshutdown, sonoff |-> proc_cmd_sonoff,
     dispclear |-> proc_cmd_disp_clear, display |-> proc_cmd_disp_print,
     dispbklt |-> proc_cmd_disp_backlight, acceptbuddy |-> proc_cmd_buddy_add,
     rejectbuddy |-> proc_cmd_buddy_remove,
     subscribe |-> proc_cmd_buddy_subscribe,
     unsubscribe |-> proc_cmd_buddy_unsubscribe,
     acceptbuddylist |-> proc_cmd_accept_buddy_list,
     relaymsg |-> proc_cmd_relay_message]

\* Three more have a case in the switch but no name in the table.
Unnamed == {proc_cmd_sms_delete, proc_cmd_fmw_update_sts,
            proc_cmd_fmw_update_res}

\* SetUSBGsmSts(), SetOpenWrtCmdGroupSts(), SetDockerCmdGroupSts(), and the
\* commands the table itself disables.
UsbGsmGroup ==
    {"gsmcheck", "smsupdate", "smstotal", "smsget", "smsdeleteall", "smssend",
     "dialvoice", "dialussd", "readussd", "eventgsm"}
OpenWrtGroup ==
    {"gpio", "eventgpio", "hostname", "resethostname", "poweroff",
     "xmpshutdown"}
DockerGroup ==
    {"resethostname", "poweroff", "xmpshutdown", "sysupdate", "reboot"}
Disabled ==
    {"logsts", "logupdate", "logcount", "logmsg"}
    \union (IF "gsm" \in Off THEN UsbGsmGroup ELSE {})
    \union (IF "openwrt" \in Off THEN OpenWrtGroup ELSE {})
    \union (IF "docker" \in Off THEN DockerGroup ELSE {})

\* ResolveCmdStr() and the called function's own checks.
ResolveCmdStr(name, words, admin) ==
    IF name \notin DOMAIN Commands \ Disabled THEN Refuses("UNKNOWN_COMMAND")
    ELSE LET c == Commands[name] IN
         IF c.admin /\ ~admin THEN Refuses("ACTION_NOT_ALLOWED")
         ELSE IF words < c.need THEN Refuses("ARG_ERROR")
         ELSE IF words = c.need THEN c.few ELSE c.many

\* Every command sends all that the RPC it calls insists on, fetches only what
\* that RPC gives, and records a task only where there is one.  (Reading the
\* display back is the exception.)
Agrees(step) ==
    /\ Len(step.sends) = Len(CallNamed(step.call).sends)
    /\ Len(step.fetches) = Len(CallNamed(step.call).fetches)
    /\ \A k \in DOMAIN step.rpc.need : \E i \in DOMAIN step.sends :
            step.sends[i] = step.rpc.need[k]
    /\ \A k \in DOMAIN step.fetches : \E i \in DOMAIN step.rpc.fields :
            step.fetches[k] = step.rpc.fields[i]
ASSUME CommandsAgree ==
    \A c \in {Commands[name] : name \in DOMAIN Commands} \union Unnamed :
        \A does \in {c.few, c.many} \ {ReadsDisplay} :
            does.do \in {"ask", "start"} =>
                \A k \in DOMAIN does.steps :
                    /\ Agrees(does.steps[k])
                    /\ (does.do = "start") = (does.steps[k].rpc.task # NoTask)
=============================================================================
