------------------------------ MODULE XmppBot -------------------------------
(***************************************************************************)
(* The XMPP proxy as a chat partner (XmppMgr, EvntHandler and the message  *)
(* side of ADXmppProxy).                                                   *)
(*                                                                         *)
(*   the XMPP thread takes messages and queues commands;                   *)
(*   the command thread answers them, calling other services;              *)
(*   the RPC thread receives the services' events: a task that is done is  *)
(*   reported to whoever asked for it, an input that changed to whoever    *)
(*   subscribed to it.                                                     *)
(*                                                                         *)
(* Subscriptions and aliases are kept in files that are read when the      *)
(* process starts, if it was given their names.  Whether a file could be   *)
(* opened, read or written nobody asks.                                    *)
(***************************************************************************)
EXTENDS XmppCmds, SequencesExt

CONSTANTS
    MaxMessages,   \* bound: chat messages and requests of users
    MaxFaults      \* bound: crashes, restarts of a service or of its task
                   \* numbers, lost connections
ASSUME BoundsAssumption == MaxMessages \in Nat /\ MaxFaults \in Nat

VARIABLES
    link,        \* there is a gloox client
    session,     \* mySessions: "none", "live", or of an earlier client
    roster, AcceptBuddyList,
    processCmd,  \* the queue of commands
    xpc,         \* the XMPP thread has still to wake the command thread
    wake,        \* the command thread has a wakeup
    pc, parts, sender,   \* the command thread: where, what is left, for whom
    task,        \* the task it has started and not recorded
    AliasList, aliasFile,
    named,       \* the process was started with a name for eventFile
    myEventList, eventFile,
    written,     \* entries of the list a rewrite of the file has passed
    AsyncTaskList,
    next,        \* per service: the number of its next task
    epoch,       \* history: how often it began to count anew
    running,     \* tasks in the services, [port, tid, gen, owner], where gen
                 \* (history, like owner) is the epoch of the number
    hears,       \* the services that have this process as a subscriber
    flying,      \* events on their way
    epc,         \* the RPC thread: the completion it is about to tell, to
                 \* whom and (history) whose task it was, and the epochs of
                 \* the event and of the entry it was matched with
    Inbox,       \* messages of other bots, their number
    sent,        \* history: messages and requests so far
    faults,      \* history: faults so far
    wish,        \* history: what each user's last answered command wanted
    saved        \* history: users for whom the file operations that were
                 \* needed have all been done

chatVars == <<link, session>>
friendVars == <<roster, AcceptBuddyList>>
queueVars == <<processCmd, xpc, wake>>
cmdVars == <<pc, parts, sender, task>>
aliasVars == <<AliasList, aliasFile>>
eventVars == <<named, myEventList, eventFile, written, wish, saved>>
serviceVars == <<next, epoch, running, hears, flying>>
doneVars == <<AsyncTaskList, epc>>
histVars == <<sent, faults>>
botVars == <<chatVars, friendVars, queueVars, cmdVars, aliasVars, eventVars,
          serviceVars, doneVars, Inbox, histVars>>

Users == {"admin", "buddy"}
is_admin_user(u) == u = "admin"
Services == {"SYSMGR", "BBOXSMS"}
Nothing == [port |-> "none"]

\* The commands of this instance: at least one for everything a command can
\* do.  "lamp" is the name of an alias for two commands.
Word(name, words) == [name |-> name, words |-> words]
Expansion == <<Word("identify", 0), Word("version", 0)>>
Chat ==
    {Word("smsupdate", 0), Word("reboot", 0), Word("event_on", 2),
     Word("event_off", 2), Word("acceptbuddy", 1), Word("rejectbuddy", 1),
     Word("buddylist", 0), Word("lamp", 0), Word("alias_set", 0),
     Word("alias_delete", 0)}
IsAlias(m) == m.name \in {"alias_set", "alias_delete"}
IsEvent(m) == m.name \in {"event_on", "event_off"}

Entry(u) == {k \in DOMAIN myEventList : myEventList[k].user = u}
InFile(u) == \E k \in DOMAIN eventFile : eventFile[k] = u
InList(u) == \E k \in Entry(u) : myEventList[k].status
Once(u) == \A k, l \in Entry(u) : k = l
-----------------------------------------------------------------------------
(* A process that has ended starts again from its files                    *)

\* LoadEventSubscrList(): without a name, or when the file cannot be opened,
\* the list is empty.
LoadEventSubscrList(loaded) ==
    IF loaded THEN [k \in DOMAIN eventFile |->
                      [user |-> eventFile[k], status |-> TRUE]]
              ELSE <<>>

\* What the file kept is what the users still can expect.
Survives(u, loaded) ==
    /\ u \in saved
    /\ \/ wish[u] = "event_off" /\ Once(u)
       \/ wish[u] = "event_on" /\ loaded

\* With it LoadAliasList() and the constructor of EvntHandler; a service that
\* still has the subscription keeps it.
Restarts ==
    /\ link' = FALSE /\ session' = [u \in Users |-> "none"]
    /\ AcceptBuddyList' = {}
    /\ processCmd' = <<>> /\ xpc' = FALSE /\ wake' = FALSE
    /\ pc' = "idle" /\ parts' = <<>> /\ sender' = "none" /\ task' = Nothing
    /\ AliasList' \in {aliasFile, FALSE}
    /\ \E loaded \in {named, FALSE} :
          /\ myEventList' = LoadEventSubscrList(loaded)
          /\ wish' = [u \in Users |-> IF Survives(u, loaded) THEN wish[u]
                                                            ELSE "unknown"]
          /\ saved' = {u \in Users : loaded \/ Survives(u, FALSE)}
    /\ written' = 0
    /\ AsyncTaskList' = <<>> /\ epc' = Nothing
    /\ hears' = Services
    /\ Inbox' = 0
    /\ faults' = faults + 1
    /\ UNCHANGED <<roster, aliasFile, named, eventFile, next, epoch, running,
                   flying, sent>>
Crash == faults < MaxFaults /\ Restarts
-----------------------------------------------------------------------------
(* The XMPP thread                                                         *)

\* receive_request(): the administrator and the roster; others are ignored.
Heard(u) == sent < MaxMessages /\ link /\ (is_admin_user(u) \/ u \in roster)

\* handleMessageSession() before the first message of a client.
Session(u) == session' = [session EXCEPT ![u] = "live"]

\* onXmppMessage(): a command is queued ...
Queue(u, m) ==
    /\ Heard(u) /\ ~xpc
    /\ Session(u)
    /\ processCmd' = Append(processCmd, [msg |-> m, from |-> u])
    /\ xpc' = TRUE
    /\ sent' = sent + 1
    /\ UNCHANGED <<link, friendVars, wake, cmdVars, aliasVars, eventVars,
                   serviceVars, doneVars, Inbox, faults>>
\* ... and the command thread woken.
WakeUp ==
    /\ xpc
    /\ xpc' = FALSE /\ wake' = TRUE
    /\ UNCHANGED <<chatVars, friendVars, processCmd, cmdVars, aliasVars,
                   eventVars, serviceVars, doneVars, Inbox, histVars>>
\* "return=": the answer of another bot is kept and not answered.
Keep(u) ==
    /\ Heard(u) /\ ~xpc
    /\ Session(u)
    /\ Inbox' = Inbox + 1
    /\ sent' = sent + 1
    /\ UNCHANGED <<link, friendVars, queueVars, cmdVars, aliasVars, eventVars,
                   serviceVars, doneVars, faults>>

\* handleSubscriptionRequest(): the server puts an accepted buddy on the
\* roster.
Befriend(u) ==
    /\ link /\ sent < MaxMessages
    /\ is_admin_user(u) \/ u \in AcceptBuddyList
    /\ roster' = roster \union {u}
    /\ sent' = sent + 1
    /\ UNCHANGED <<chatVars, AcceptBuddyList, queueVars, cmdVars, aliasVars,
                   eventVars, serviceVars, doneVars, Inbox, faults>>
\* handleUnsubscriptionRequest()
Unfriend(u) ==
    /\ link /\ u \in roster /\ sent < MaxMessages
    /\ AcceptBuddyList' = AcceptBuddyList \ {u}
    /\ roster' = roster \ {u}
    /\ sent' = sent + 1
    /\ UNCHANGED <<chatVars, queueVars, cmdVars, aliasVars, eventVars,
                   serviceVars, doneVars, Inbox, faults>>

\* The connection comes and goes; mySessions is not cleared.
Connected ==
    /\ ~link
    /\ link' = TRUE
    /\ UNCHANGED <<session, friendVars, queueVars, cmdVars, aliasVars,
                   eventVars, serviceVars, doneVars, Inbox, histVars>>
Disconnected ==
    /\ link /\ ~xpc /\ faults < MaxFaults
    /\ link' = FALSE
    /\ session' = [u \in Users |-> IF session[u] = "live" THEN "stale"
                                                          ELSE session[u]]
    /\ faults' = faults + 1
    /\ UNCHANGED <<friendVars, queueVars, cmdVars, aliasVars, eventVars,
                   serviceVars, doneVars, Inbox, sent>>

\* send_reply(): dropped without a client or a session; with a session of an
\* earlier client the process may end.
ReplyFails(u) == link /\ session[u] = "stale"
-----------------------------------------------------------------------------
(* The command thread: monoshot_callback_function()                        *)

\* pop_cmd() until the queue is empty.
Start ==
    /\ pc = "idle" /\ wake
    /\ pc' = "pop" /\ wake' = FALSE
    /\ UNCHANGED <<chatVars, friendVars, processCmd, xpc, parts, sender, task,
                   aliasVars, eventVars, serviceVars, doneVars, Inbox, histVars>>
Pop ==
    /\ pc = "pop"
    /\ IF processCmd = <<>> THEN /\ pc' = "idle"
                                 /\ UNCHANGED <<processCmd, parts, sender>>
       ELSE LET m == Head(processCmd).msg IN
            /\ processCmd' = Tail(processCmd)
            /\ sender' = Head(processCmd).from
            /\ parts' = IF m.name = "lamp" /\ AliasList THEN Expansion ELSE <<m>>
            /\ pc' = IF IsAlias(m) THEN "alias" ELSE "run"
    /\ UNCHANGED <<chatVars, friendVars, xpc, wake, task, aliasVars, eventVars,
                   serviceVars, doneVars, Inbox, histVars>>

Cmd(from, to) ==
    /\ pc = from /\ pc' = to
    /\ UNCHANGED <<queueVars, parts, sender>>

\* proc_cmd_alias(): the list, then the file (rewritten or extended), which may
\* stay as it was or be cut off.
Alias ==
    /\ Cmd("alias", "aliasfile")
    /\ AliasList' = (Head(parts).name = "alias_set")
    /\ UNCHANGED <<chatVars, friendVars, task, aliasFile, eventVars,
                   serviceVars, doneVars, Inbox, histVars>>
AliasSaved ==
    /\ Cmd("aliasfile", "reply")
    /\ aliasFile' \in {AliasList, aliasFile, FALSE}
    /\ UNCHANGED <<chatVars, friendVars, task, AliasList, eventVars,
                   serviceVars, doneVars, Inbox, histVars>>

Part == Head(parts)
Does == IF IsEvent(Part) THEN proc_cmd_event_gpio.many
        ELSE ResolveCmdStr(Part.name, Part.words, is_admin_user(sender))

\* A command that only gives an answer, whatever the service says.
Answer ==
    /\ Cmd("run", "reply")
    /\ Does.do \in {"refuse", "ask", "read", "botname"}
    /\ UNCHANGED <<chatVars, friendVars, task, aliasVars, eventVars,
                   serviceVars, doneVars, Inbox, histVars>>

\* A command that starts a task, which may be refused.  AccessAsyncTaskList()
\* records it after the answer has come.
Claim(port, tid, gen, owner) ==
    [port |-> port, tid |-> tid, gen |-> gen, owner |-> owner]
StartTask ==
    /\ pc = "run" /\ Does.do = "start"
    /\ \/ Cmd("run", "reply") /\ UNCHANGED <<task, next, running>>
       \/ /\ Cmd("run", "insert")
          /\ task' = [port |-> Does.port, tid |-> next[Does.port],
                      gen |-> epoch[Does.port]]
          /\ next' = [next EXCEPT ![Does.port] = @ + 1]
          /\ running' = running \union
                {Claim(Does.port, next[Does.port], epoch[Does.port], sender)}
    /\ UNCHANGED <<chatVars, friendVars, aliasVars, eventVars, epoch, hears,
                   flying, doneVars, Inbox, histVars>>
InsertTask ==
    /\ Cmd("insert", "reply")
    /\ AsyncTaskList' = Append(AsyncTaskList,
            [port |-> task.port, tid |-> task.tid, gen |-> task.gen, to |-> sender])
    /\ task' = Nothing
    /\ UNCHANGED <<chatVars, friendVars, aliasVars, eventVars, serviceVars,
                   epc, Inbox, histVars>>

\* proc_cmd_event_gpio(): the first entry of the sender is changed, or one is
\* appended; then the file is rewritten or extended.
ChangeEvent ==
    /\ pc = "run" /\ Does.do = "event"
    /\ LET status == Part.name = "event_on" IN
       \/ \E first \in Entry(sender) :
             /\ \A k \in Entry(sender) : first <= k
             /\ Cmd("run", "truncate")
             /\ myEventList' = [myEventList EXCEPT ![first].status = status]
             /\ saved' = saved \ {sender}
       \/ /\ Entry(sender) = {} /\ status
          /\ Cmd("run", "extend")
          /\ myEventList' = Append(myEventList, [user |-> sender, status |-> TRUE])
          /\ saved' = saved \ {sender}
       \/ /\ Entry(sender) = {} /\ ~status
          /\ Cmd("run", "reply")
          /\ UNCHANGED <<myEventList, saved>>
    /\ wish' = [wish EXCEPT ![sender] = "busy"]
    /\ UNCHANGED <<chatVars, friendVars, task, aliasVars, named, eventFile,
                   written, serviceVars, doneVars, Inbox, histVars>>

\* No name is an early return; a file that cannot be opened or written is not
\* noticed.  The command succeeds all the same.
FileFails ==
    /\ pc \in {"extend", "truncate", "rewrite"} /\ Cmd(pc, "reply")
    /\ UNCHANGED <<chatVars, friendVars, task, aliasVars, eventVars,
                   serviceVars, doneVars, Inbox, histVars>>
ExtendEventSubscrList ==
    /\ named
    /\ Cmd("extend", "reply")
    /\ eventFile' = Append(eventFile, sender)
    /\ saved' = saved \union {sender}
    /\ UNCHANGED <<chatVars, friendVars, task, aliasVars, named, myEventList,
                   written, wish, serviceVars, doneVars, Inbox, histVars>>
\* RewriteEventSubscrList(): the file is truncated, ...
TruncateEventSubscrList ==
    /\ named
    /\ Cmd("truncate", "rewrite")
    /\ eventFile' = <<>> /\ written' = 0
    /\ saved' = {u \in Users : wish[u] = "event_off" /\ Once(u)}
    /\ UNCHANGED <<chatVars, friendVars, task, aliasVars, named, myEventList,
                   wish, serviceVars, doneVars, Inbox, histVars>>
\* ... then the list is walked and the entries that are true are written.
Bug_Writes(entry) == TRUE
Writes(entry) == entry.status
RewriteEventSubscrList ==
    /\ pc = "rewrite"
    /\ IF written < Len(myEventList)
         THEN LET entry == myEventList[written + 1] IN
              /\ eventFile' = IF Writes(entry) THEN Append(eventFile, entry.user)
                                               ELSE eventFile
              /\ written' = written + 1
              /\ UNCHANGED <<pc, saved>>
         ELSE /\ pc' = "reply" /\ saved' = Users
              /\ UNCHANGED <<eventFile, written>>
    /\ UNCHANGED <<chatVars, friendVars, queueVars, parts, sender, task,
                   aliasVars, named, myEventList, wish, serviceVars, doneVars,
                   Inbox, histVars>>

\* proc_cmd_buddy_add() and proc_cmd_buddy_remove(), of the buddy.
ChangeFriends ==
    /\ Cmd("run", "reply")
    /\ \/ /\ Does.do = "accept"
          /\ AcceptBuddyList' = AcceptBuddyList \union {"buddy"}
       \/ /\ Does.do = "reject"
          /\ AcceptBuddyList' = AcceptBuddyList \ {"buddy"}
    /\ UNCHANGED <<chatVars, roster, task, aliasVars, eventVars, serviceVars,
                   doneVars, Inbox, histVars>>

\* The gloox client is used without asking whether there is one.
UseLink ==
    /\ pc = "run" /\ Does.do = "link"
    /\ IF link THEN /\ Cmd("run", "reply")
                    /\ UNCHANGED <<chatVars, friendVars, task, aliasVars,
                                   eventVars, serviceVars, doneVars, Inbox,
                                   histVars>>
               ELSE Restarts

\* One answer for every part; more commands may be queued.
Bug_Reply ==
    /\ pc = "reply"
    /\ parts' = Tail(parts)
    /\ pc' = IF Len(parts) > 1 THEN "run"
             ELSE IF IsAlias(Part) THEN "idle" ELSE "pop"
    /\ wish' = IF IsEvent(Part) THEN [wish EXCEPT ![sender] = Part.name] ELSE wish
    /\ UNCHANGED <<chatVars, friendVars, queueVars, sender, task, aliasVars,
                   named, myEventList, eventFile, written, saved, serviceVars,
                   doneVars, Inbox, histVars>>
Reply ==
    /\ pc = "reply"
    /\ parts' = Tail(parts)
    /\ pc' = IF Len(parts) > 1 THEN "run" ELSE "pop"
    /\ wish' = IF IsEvent(Part) THEN [wish EXCEPT ![sender] = Part.name] ELSE wish
    /\ UNCHANGED <<chatVars, friendVars, queueVars, sender, task, aliasVars,
                   named, myEventList, eventFile, written, saved, serviceVars,
                   doneVars, Inbox, histVars>>
ReplyCrashes == pc = "reply" /\ ReplyFails(sender) /\ Restarts
-----------------------------------------------------------------------------
(* The services and their events                                           *)

\* A task ends; who has subscribed gets an event, which may be lost.
TaskDone(t) ==
    /\ running' = running \ {t}
    /\ flying' \in {flying} \union
            (IF t.port \in hears THEN {flying \union {t}} ELSE {})
    /\ UNCHANGED <<chatVars, friendVars, queueVars, cmdVars, aliasVars,
                   eventVars, next, epoch, hears, doneVars, Inbox, histVars>>

CountsAnew(s) ==
    /\ faults < MaxFaults
    /\ next' = [next EXCEPT ![s] = 1]
    /\ epoch' = [epoch EXCEPT ![s] = @ + 1]
    /\ faults' = faults + 1
    /\ UNCHANGED <<chatVars, friendVars, queueVars, cmdVars, aliasVars,
                   eventVars, flying, doneVars, Inbox, sent>>
\* A service that starts again counts from 1 and has no subscribers; the
\* events it has sent may still arrive.
ServiceRestarts(s) ==
    /\ CountsAnew(s)
    /\ running' = {t \in running : t.port # s}
    /\ hears' = hears \ {s}
\* reset_task_status: with no task queued or running the service forgets them
\* and counts from 1; subscribers stay.
ResetTaskIdAndChain(s) ==
    /\ \A t \in running : t.port # s
    /\ CountsAnew(s)
    /\ UNCHANGED <<running, hears>>

\* EvntHandler::ReceiveEvent() of a task: FindAsyncEventEntry() by task and
\* service; the first that matches is told, all that match are removed.
Bug_Matches(entry, e) == entry.tid = e.tid
Matches(entry, e) == entry.tid = e.tid /\ entry.port = e.port
FindAsyncEventEntry(list, e) ==
    SelectInSeq(list, LAMBDA entry : Matches(entry, e))
Remaining(list, e) ==
    LET kept[n \in 0..Len(list)] ==
          IF n = 0 THEN <<>>
          ELSE IF Matches(list[n], e) THEN kept[n - 1]
          ELSE Append(kept[n - 1], list[n])
    IN  kept[Len(list)]
ReceiveDone(e) ==
    /\ epc = Nothing
    /\ flying' = flying \ {e}
    /\ LET first == FindAsyncEventEntry(AsyncTaskList, e)
       IN  epc' = IF first = 0 THEN Nothing
                  ELSE [port |-> e.port, owner |-> e.owner, gen |-> e.gen,
                        to |-> AsyncTaskList[first].to,
                        entry |-> AsyncTaskList[first].gen]
    /\ AsyncTaskList' = Remaining(AsyncTaskList, e)
    /\ UNCHANGED <<chatVars, friendVars, queueVars, cmdVars, aliasVars,
                   eventVars, next, epoch, running, hears, Inbox, histVars>>

\* The service is asked for the result and the user told; if it cannot be
\* reached nobody is.
TellDone ==
    /\ epc # Nothing
    /\ epc' = Nothing
    /\ UNCHANGED <<chatVars, friendVars, queueVars, cmdVars, aliasVars,
                   eventVars, serviceVars, AsyncTaskList, Inbox, histVars>>
TellDoneCrashes ==
    epc # Nothing /\ ReplyFails(epc.to) /\ Restarts

\* GpioEventCallback(): the list is walked without a lock; when the command
\* thread appends to it meanwhile the process may end.
GpioEvent ==
    /\ epc = Nothing /\ pc = "extend"
    /\ Restarts

\* RPCs of the proxy: get_inbox_empty() and accept_buddy().
EmptyInbox ==
    /\ Inbox' = 0
    /\ UNCHANGED <<chatVars, friendVars, queueVars, cmdVars, aliasVars,
                   eventVars, serviceVars, doneVars, histVars>>
RpcAccept ==
    /\ sent < MaxMessages
    /\ AcceptBuddyList' = AcceptBuddyList \union {"buddy"}
    /\ sent' = sent + 1
    /\ UNCHANGED <<chatVars, roster, queueVars, cmdVars, aliasVars, eventVars,
                   serviceVars, doneVars, Inbox, faults>>
-----------------------------------------------------------------------------
BotInit ==
    /\ link = TRUE /\ session = [u \in Users |-> "none"]
    /\ roster = {"buddy"} /\ AcceptBuddyList = {}
    /\ processCmd = <<>> /\ xpc = FALSE /\ wake = FALSE
    /\ pc = "idle" /\ parts = <<>> /\ sender = "none" /\ task = Nothing
    /\ aliasFile = TRUE /\ AliasList = TRUE
    /\ named \in BOOLEAN
    /\ eventFile = IF named THEN <<"admin">> ELSE <<>>
    /\ \E loaded \in {named, FALSE} :
          /\ myEventList = LoadEventSubscrList(loaded)
          /\ wish = [u \in Users |-> IF ~InFile(u) THEN "event_off"
                        ELSE IF loaded THEN "event_on" ELSE "unknown"]
          /\ saved = {u \in Users : loaded \/ ~InFile(u)}
    /\ written = 0
    /\ AsyncTaskList = <<>> /\ epc = Nothing
    /\ next = [s \in Services |-> 1] /\ epoch = [s \in Services |-> 0]
    /\ running = {} /\ hears = Services /\ flying = {}
    /\ Inbox = 0 /\ sent = 0 /\ faults = 0

CommandThread ==
    \/ Start \/ Pop \/ Alias \/ AliasSaved \/ Answer \/ StartTask
    \/ InsertTask \/ ChangeEvent \/ FileFails \/ ExtendEventSubscrList
    \/ TruncateEventSubscrList \/ RewriteEventSubscrList \/ ChangeFriends
    \/ UseLink \/ Reply

BotNext ==
    \/ \E u \in Users : Keep(u) \/ Befriend(u) \/ Unfriend(u)
    \/ \E u \in Users, m \in Chat : Queue(u, m)
    \/ WakeUp \/ Connected \/ Disconnected
    \/ CommandThread \/ ReplyCrashes
    \/ (\E t \in running : TaskDone(t))
    \/ (\E s \in Services : ServiceRestarts(s) \/ ResetTaskIdAndChain(s))
    \/ (\E e \in flying : ReceiveDone(e))
    \/ TellDone \/ TellDoneCrashes \/ GpioEvent
    \/ EmptyInbox \/ RpcAccept
    \/ Crash

BotSpec == BotInit /\ [][BotNext]_botVars
-----------------------------------------------------------------------------
\* Who is told that a task is done had asked for that task: tasks of different
\* services may have the same number, a user's task may end before another's,
\* the proxy may start again.  (The exception is an event that finds the entry
\* of another epoch: the service has begun to count anew in between, by its
\* restart or by reset_task_status, and one of the two was left behind.)
CompletionIsOwn ==
    epc # Nothing /\ epc.gen = epc.entry => epc.to = epc.owner

\* A queued command is never forgotten: the command thread is at work, has a
\* wakeup, or is about to get one.
NothingStranded == processCmd # <<>> => pc # "idle" \/ wake \/ xpc

\* The list says what a user's last answered command asked for, and for whom
\* every file operation was done the file says the same: it survives a crash
\* and a restart.  (A user whom an unreadable start has entered twice
\* switches one entry off.)
SubscriptionsKept ==
    \A u \in Users :
        /\ wish[u] = "event_on" => InList(u)
        /\ wish[u] = "event_off" /\ Once(u) => ~InList(u)
        /\ u \in saved => (InFile(u) <=> InList(u))
-----------------------------------------------------------------------------
(* The inductive invariant                                                 *)

Phrase == Chat \union {Expansion[k] : k \in DOMAIN Expansion}
CmdPlaces == {"idle", "pop", "run", "alias", "aliasfile", "insert",
              "truncate", "rewrite", "extend", "reply"}

CmdInv ==
    /\ processCmd \in Seq([msg : Chat, from : Users])
    /\ pc \in CmdPlaces /\ parts \in Seq(Phrase)
    /\ pc \notin {"idle", "pop"} => parts # <<>> /\ sender \in Users
    /\ pc \in {"alias", "aliasfile"} => IsAlias(Part)
    /\ pc = "insert" => ~IsEvent(Part)

EventTypeOK ==
    /\ eventFile \in Seq(Users)
    /\ myEventList \in Seq([user : Users, status : BOOLEAN])
    /\ written \in Nat /\ saved \subseteq Users /\ named \in BOOLEAN
    /\ wish \in [Users -> {"event_on", "event_off", "busy", "unknown"}]

\* While the file is rewritten it has what was walked so far.
FileInv ==
    pc = "rewrite" =>
       /\ written <= Len(myEventList)
       /\ \A u \in Users : InFile(u) <=>
             \E k \in Entry(u) : k <= written /\ myEventList[k].status

\* What the command in work has done so far for its sender.
SenderInv ==
    /\ pc = "extend" => InList(sender)
    /\ pc \in {"truncate", "rewrite", "extend", "reply"} /\ IsEvent(Part) =>
         IF Part.name = "event_on" THEN InList(sender)
                                   ELSE Once(sender) => ~InList(sender)

TaskTypeOK ==
    /\ next \in [Services -> Nat] /\ epoch \in [Services -> Nat]
    /\ hears \subseteq Services
    /\ running \union flying
          \subseteq [port : Services, tid : Nat, gen : Nat, owner : Users]
    /\ AsyncTaskList \in Seq([port : Services, tid : Nat, gen : Nat, to : Users])
    /\ pc = "insert" => task \in [port : Services, tid : Nat, gen : Nat]

\* Everything that says whose task a number is: the service, an event, the
\* list, and the command that is about to extend it.
Claims ==
    running \union flying
    \union {Claim(AsyncTaskList[k].port, AsyncTaskList[k].tid,
                  AsyncTaskList[k].gen, AsyncTaskList[k].to) :
              k \in DOMAIN AsyncTaskList}
    \union {Claim(task.port, task.tid, task.gen, sender) :
              i \in {n \in {1} : pc = "insert"}}

\* They agree, and a number a service has yet to give in its epoch is
\* nobody's.
ClaimsInv ==
    /\ \A c \in Claims :
          /\ c.gen <= epoch[c.port]
          /\ c.gen = epoch[c.port] => c.tid < next[c.port]
    /\ \A c, d \in Claims :
          c.port = d.port /\ c.gen = d.gen /\ c.tid = d.tid => c.owner = d.owner

BotInv ==
    /\ CmdInv /\ EventTypeOK /\ FileInv /\ SenderInv /\ SubscriptionsKept
    /\ TaskTypeOK /\ ClaimsInv /\ CompletionIsOwn
=============================================================================
