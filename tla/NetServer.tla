----------------------------- MODULE NetServer -----------------------------
(***************************************************************************)
(* ADNetServer: the TCP front end of every service.                        *)
(*                                                                         *)
(* The listen thread owns select(), the framers, master_set and            *)
(* paused_fds; the response thread owns the send path; the two share the   *)
(* pending map (pending_lock), the client records (chain lock), the        *)
(* response chain and the wake pipe.  One action is one critical section   *)
(* or one system call of one thread; code between two of those touches     *)
(* only the thread's own data and belongs to the action before it.         *)
(*                                                                         *)
(* A connection is named by the ident clientInfo_chain generates for it    *)
(* (cltid), which is never used twice.  fd numbers are reused.             *)
(* A message is [orig, n]: the connection whose bytes it was read from (a  *)
(* ghost no guard reads) and its number; n = 0 is garbage.                 *)
(***************************************************************************)
EXTENDS Integers, FiniteSets, SequencesExt

CONSTANTS MaxConn,     \* connections opened during a behaviour (bound)
          MaxSend,     \* messages all clients send together (bound)
          Fds,         \* fd numbers below FD_SETSIZE left for clients
          MaxPending   \* AD_NET_SERVER_MAX_PENDING_PER_CONN

ListenSd == 0
WakeFd == 1
None == 0
Conns == 1..MaxConn

ASSUME NetAssumption ==
    /\ MaxConn \in Nat
    /\ MaxSend \in Nat
    /\ MaxPending \in Nat \ {0}
    /\ Fds \subseteq Nat \ {ListenSd, WakeFd}

VARIABLES
    \* the kernel and the clients
    peer,          \* state of the client end of each connection
    rx,            \* bytes the server has not read yet, as messages
    nsent,         \* messages the clients have sent
    sockConn,      \* connection behind each client fd, or None
    shut,          \* connections shutdown() by drop_connection()
    sent,          \* responses the kernel took for each connection
    \* listen thread
    lpc, lfd, lret, lerr, lpaused,
    working,       \* ready descriptors of this select() still to handle
    todo,          \* paused fds resume_paused_connections() has to visit
    master,        \* client fds in master_set
    pausedFds,     \* paused_fds
    clientInfo,    \* clientInfo_chain: cltid registered for each fd, or None
    framer,        \* complete requests waiting in each fd's framer
    requestChain,  \* request_chain
    \* pending map, by cltid
    entries, count, paused, dead,
    \* response thread
    responseChain, rsem, rpc, rcur, rdup, rwake,
    wakePipe,      \* the wake pipe holds at least one byte
    work,          \* the consumer: requests handed over and not answered
    \* what lack of memory cost (history, no guard reads it)
    lost,          \* replies of each connection that never got on the chain
    starved,       \* fds with requests left in the framer by a failed new
    \* start/stop
    endServer, rstop, cpc

kernel == <<peer, rx, nsent, sockConn, shut, sent>>
listen == <<lpc, lfd, lret, lerr, lpaused, working, todo>>
tables == <<master, pausedFds, clientInfo, framer, requestChain>>
pending == <<entries, count, paused, dead>>
responder == <<responseChain, rsem, rpc, rcur, rdup, rwake>>
control == <<endServer, rstop, cpc>>
handed == <<work, lost, starved>>
vars == <<kernel, listen, tables, pending, responder, wakePipe, handed, control>>

NoResponse == [fd |-> 0, cltid |-> None, orig |-> None, n |-> 0]

-----------------------------------------------------------------------------
(* The clients and the kernel                                              *)

\* A client connects: the next connection waits in the listen backlog.
Connect(c) ==
    /\ cpc = "up"
    /\ peer[c] = "absent"
    /\ \A b \in Conns : b < c => peer[b] # "absent"
    /\ peer' = [peer EXCEPT ![c] = "backlog"]
    /\ UNCHANGED <<rx, nsent, sockConn, shut, sent, listen, tables, pending,
                   responder, wakePipe, handed, control>>

\* A client sends one more request, or bytes that are no JSON object.
ClientSend(c) ==
    /\ peer[c] \in {"backlog", "open"}
    /\ nsent < MaxSend
    /\ nsent' = nsent + 1
    /\ \E n \in {0, nsent + 1} :
          rx' = [rx EXCEPT ![c] = Append(@, [orig |-> c, n |-> n])]
    /\ UNCHANGED <<peer, sockConn, shut, sent, listen, tables, pending,
                   responder, wakePipe, handed, control>>

\* A client closes its end (what it sent stays readable) or resets it.
ClientGone(c) ==
    /\ peer[c] = "open"
    /\ \/ peer' = [peer EXCEPT ![c] = "fin"] /\ rx' = rx
       \/ /\ peer' = [peer EXCEPT ![c] = "reset"]
          /\ rx' = [rx EXCEPT ![c] = <<>>]
    /\ UNCHANGED <<nsent, sockConn, shut, sent, listen, tables, pending,
                   responder, wakePipe, handed, control>>

Backlog == {c \in Conns : peer[c] = "backlog"}
FreeFds == {fd \in Fds : sockConn[fd] = None}
AtEof(c) == c \in shut \/ peer[c] \in {"fin", "reset"}
Readable(fd) == rx[sockConn[fd]] # <<>> \/ AtEof(sockConn[fd])
Ready == {fd \in master : Readable(fd)}
           \cup (IF wakePipe THEN {WakeFd} ELSE {})
           \cup (IF Backlog # {} THEN {ListenSd} ELSE {})

\* schedule_response(): one response on the chain, one wakeup.  The response
\* thread drains the chain on a wakeup, so its semaphore matters as a flag.
\* Without memory for the object, its buffer or the chain's node it returns
\* -1, which no caller looks at: the reply is lost and nobody will call
\* response_done() for the request.
LoseReply(req) == lost' = [lost EXCEPT ![req.cltid] = @ + 1]

ScheduleResponse(req) ==
    \/ /\ responseChain' = Append(responseChain, req)
       /\ rsem' = TRUE
       /\ lost' = lost
    \/ /\ LoseReply(req)
       /\ UNCHANGED <<responseChain, rsem>>

\* The consumer behind on_data_arrival() answers its oldest request.
Answer ==
    /\ work # <<>>
    /\ work' = Tail(work)
    /\ ScheduleResponse(Head(work))
    /\ UNCHANGED <<kernel, listen, tables, pending, rpc, rcur, rdup, rwake,
                   wakePipe, starved, control>>

\* Or it has no memory to pass the answer of one of them on to its response
\* thread (json_send_response(), whose result is ignored too).
Lose ==
    /\ \E i \in DOMAIN work :
          /\ work' = RemoveAt(work, i)
          /\ LoseReply(work[i])
    /\ UNCHANGED <<kernel, listen, tables, pending, responder, wakePipe,
                   starved, control>>
-----------------------------------------------------------------------------
(* Listen thread: select() and accept()                                    *)

SelectReady ==
    /\ lpc = "select"
    /\ ~endServer
    /\ Ready # {}
    /\ working' = Ready
    /\ lpc' = "scan"
    /\ UNCHANGED <<kernel, lfd, lret, lerr, lpaused, todo, tables, pending,
                   responder, wakePipe, handed, control>>

\* select() timed out: paused connections are looked at even if the byte that
\* should have said so never got into the pipe.
SelectTimeout ==
    /\ lpc = "select"
    /\ ~endServer
    /\ Ready = {}
    /\ pausedFds # {}
    /\ todo' = pausedFds
    /\ lpc' = "resume"
    /\ UNCHANGED <<kernel, lfd, lret, lerr, lpaused, working, tables, pending,
                   responder, wakePipe, handed, control>>

SelectStop ==
    /\ lpc = "select"
    /\ endServer
    /\ lpc' = "exit"
    /\ UNCHANGED <<kernel, lfd, lret, lerr, lpaused, working, todo, tables,
                   pending, responder, wakePipe, handed, control>>

\* Every descriptor of this select() is handled: the loop condition.
ScanEnd ==
    /\ \/ lpc = "scan" /\ working = {}
       \/ lpc = "resume" /\ todo = {}
    /\ lpc' = IF endServer THEN "exit" ELSE "select"
    /\ UNCHANGED <<kernel, lfd, lret, lerr, lpaused, working, todo, tables,
                   pending, responder, wakePipe, handed, control>>

\* The descriptor the scan handles next: the lowest one left.
Handling(fd) ==
    /\ lpc = "scan"
    /\ fd \in working
    /\ \A other \in working : fd <= other

\* The wake pipe ends the scan: master_set may have changed.
HandleWake ==
    /\ Handling(WakeFd)
    /\ wakePipe' = FALSE
    /\ working' = {}
    /\ IF endServer
         THEN UNCHANGED <<lpc, todo>>
         ELSE lpc' = "resume" /\ todo' = pausedFds
    /\ UNCHANGED <<kernel, lfd, lret, lerr, lpaused, tables, pending,
                   responder, handed, control>>

\* accept4() until the backlog is empty; a descriptor beyond FD_SETSIZE is
\* closed at once.  dup() and other threads also take numbers, so the new one
\* is any free number.
Accept ==
    /\ Handling(ListenSd)
    /\ \E c \in Backlog :
         /\ \A b \in Backlog : c <= b
         /\ \/ \E fd \in FreeFds :
                 /\ sockConn' = [sockConn EXCEPT ![fd] = c]
                 /\ peer' = [peer EXCEPT ![c] = "open"]
                 /\ clientInfo' = [clientInfo EXCEPT ![fd] = c]
                 /\ framer' = [framer EXCEPT ![fd] = <<>>]
                 /\ master' = master \cup {fd}
            \/ /\ FreeFds = {}
               /\ peer' = [peer EXCEPT ![c] = "reset"]
               /\ UNCHANGED <<sockConn, clientInfo, framer, master>>
    /\ UNCHANGED <<rx, nsent, shut, sent, listen, pausedFds, requestChain,
                   pending, responder, wakePipe, handed, control>>

\* EAGAIN, or a transient accept() failure that leaves the backlog as it is.
AcceptEnd ==
    /\ Handling(ListenSd)
    /\ working' = working \ {ListenSd}
    /\ UNCHANGED <<kernel, lpc, lfd, lret, lerr, lpaused, todo, tables,
                   pending, responder, wakePipe, handed, control>>
-----------------------------------------------------------------------------
(* Listen thread: recv(), framing and queueing of requests                 *)

\* recv() returns the first k messages' bytes; the framer completes the ones
\* before the first byte outside an object, and fails there.
Recv(fd) ==
    /\ Handling(fd)
    /\ fd \in Fds
    /\ LET c == sockConn[fd]
       IN  \E k \in 1..Len(rx[c]), good \in 0..Len(rx[c]) :
             /\ good <= k
             /\ \A i \in 1..good : rx[c][i].n # 0
             /\ good < k => rx[c][good + 1].n = 0
             /\ rx' = [rx EXCEPT ![c] = SubSeq(@, k + 1, Len(@))]
             /\ framer' = [framer EXCEPT ![fd] = @ \o SubSeq(rx[c], 1, good)]
             /\ lerr' = (good < k)
    /\ lfd' = fd
    /\ lret' = "recv"
    /\ lpaused' = FALSE
    /\ lpc' = "queue"
    /\ UNCHANGED <<peer, nsent, sockConn, shut, sent, working, todo, master,
                   pausedFds, clientInfo, requestChain, pending, responder,
                   wakePipe, handed, control>>

\* EAGAIN: nothing left to read on this connection.
RecvEmpty(fd) ==
    /\ Handling(fd)
    /\ fd \in Fds
    /\ ~Readable(fd)
    /\ working' = working \ {fd}
    /\ UNCHANGED <<kernel, lpc, lfd, lret, lerr, lpaused, todo, tables,
                   pending, responder, wakePipe, handed, control>>

\* End of file or a reset connection.
RecvEof(fd) ==
    /\ Handling(fd)
    /\ fd \in Fds
    /\ rx[sockConn[fd]] = <<>>
    /\ AtEof(sockConn[fd])
    /\ lfd' = fd
    /\ lpc' = "close"
    /\ UNCHANGED <<kernel, lret, lerr, lpaused, working, todo, tables, pending,
                   responder, wakePipe, handed, control>>

\* queue_framed_requests(): nothing to do, or a connection that is unknown
\* or was dropped, whose requests are thrown away.
QueueStart ==
    /\ lpc = "queue"
    /\ IF framer[lfd] # <<>> /\ clientInfo[lfd] # None
            /\ clientInfo[lfd] \notin dead
         THEN lpc' = "take" /\ framer' = framer
         ELSE lpc' = "notify" /\ framer' = [framer EXCEPT ![lfd] = <<>>]
    /\ starved' = starved \ {lfd}
    /\ UNCHANGED <<kernel, lfd, lret, lerr, lpaused, working, todo, master,
                   pausedFds, clientInfo, requestChain, pending, responder,
                   wakePipe, work, lost, control>>

AtLimit(c) == count[c] >= MaxPending

\* One turn of its loop: count the request and take it, or pause.
QueueTake ==
    /\ lpc = "take"
    /\ LET c == clientInfo[lfd]
           m == Head(framer[lfd])
       IN  /\ entries' = entries \cup {c}
           /\ IF AtLimit(c)
                THEN /\ paused' = paused \cup {c}
                     /\ lpaused' = TRUE
                     /\ lpc' = "notify"
                     /\ UNCHANGED <<count, framer, requestChain>>
                ELSE /\ count' = [count EXCEPT ![c] = @ + 1]
                     /\ framer' = [framer EXCEPT ![lfd] = Tail(@)]
                     /\ requestChain' = Append(requestChain,
                          [fd |-> lfd, cltid |-> c, orig |-> m.orig, n |-> m.n])
                     /\ lpc' = IF Tail(framer[lfd]) = <<>>
                                 THEN "notify" ELSE "take"
                     /\ UNCHANGED <<paused, lpaused>>
    /\ UNCHANGED <<kernel, lfd, lret, lerr, working, todo, master, pausedFds,
                   clientInfo, dead, responder, wakePipe, handed, control>>

\* No memory for the request object: the request taken from the framer is
\* gone, response_done() gives back its place at once (the fd is not paused
\* here, so it wakes nobody), and the loop ends with the rest in the framer.
QueueNoMemory ==
    /\ lpc = "take"
    /\ ~AtLimit(clientInfo[lfd])
    /\ entries' = entries \cup {clientInfo[lfd]}
    /\ framer' = [framer EXCEPT ![lfd] = Tail(@)]
    /\ starved' = starved \cup {lfd}
    /\ lpc' = "notify"
    /\ UNCHANGED <<kernel, lfd, lret, lerr, lpaused, working, todo, master,
                   pausedFds, clientInfo, requestChain, count, paused, dead,
                   responder, wakePipe, work, lost, control>>

\* notify_data_arrival(): the consumer drains request_chain on this thread.
\* A request it rejects is answered from here; others go to its own threads.
Notify ==
    /\ lpc = "notify"
    /\ requestChain # <<>>
    /\ requestChain' = Tail(requestChain)
    /\ \/ /\ work' = Append(work, Head(requestChain))
          /\ UNCHANGED <<responseChain, rsem, lost>>
       \/ /\ ScheduleResponse(Head(requestChain))
          /\ work' = work
    /\ UNCHANGED <<kernel, listen, master, pausedFds, clientInfo, framer,
                   pending, rpc, rcur, rdup, rwake, wakePipe, starved, control>>

\* Back in the recv() loop: a framing error ends the connection after one
\* error reply, a full backlog takes the fd out of select().
Bug_ReturnPaused ==
    /\ master' = master \ {lfd}
    /\ pausedFds' = pausedFds
ReturnPaused ==
    /\ master' = master \ {lfd}
    /\ pausedFds' = pausedFds \cup {lfd}

ReturnToRecv ==
    /\ lpc = "notify"
    /\ requestChain = <<>>
    /\ lret = "recv"
    /\ \/ /\ lerr
          /\ lpc' = "close"
          /\ sent' = [sent EXCEPT ![sockConn[lfd]] =
                        @ \cup {[orig |-> sockConn[lfd], n |-> 0]}]
          /\ UNCHANGED <<master, pausedFds, working>>
       \/ /\ ~lerr /\ lpaused
          /\ ReturnPaused
          /\ working' = working \ {lfd}
          /\ lpc' = "scan"
          /\ sent' = sent
       \/ /\ ~lerr /\ ~lpaused
          /\ lpc' = "scan"
          /\ UNCHANGED <<sent, master, pausedFds, working>>
    /\ UNCHANGED <<peer, rx, nsent, sockConn, shut, lfd, lret, lerr, lpaused,
                   todo, clientInfo, framer, requestChain, pending, responder,
                   wakePipe, handed, control>>
-----------------------------------------------------------------------------
(* Listen thread: resuming and closing connections                         *)

\* Requests that stayed in the framer are queued before select() sees the fd.
Bug_AfterResume == "notify"
AfterResume == "queue"

\* resume_paused_connections(): the next paused fd stays, or leaves the set
\* and what its framer kept is queued.
Resume ==
    /\ lpc = "resume"
    /\ \E fd \in todo :
         /\ \A other \in todo : fd <= other
         /\ IF clientInfo[fd] # None /\ clientInfo[fd] \in paused
              THEN /\ todo' = todo \ {fd}
                   /\ UNCHANGED <<lpc, lfd, lret, lerr, lpaused, pausedFds>>
              ELSE /\ pausedFds' = pausedFds \ {fd}
                   /\ lfd' = fd
                   /\ lret' = "resume"
                   /\ lerr' = FALSE /\ lpaused' = FALSE
                   /\ lpc' = AfterResume
                   /\ todo' = todo
    /\ UNCHANGED <<kernel, working, master, clientInfo, framer,
                   requestChain, pending, responder, wakePipe, handed, control>>

ReturnToResume ==
    /\ lpc = "notify"
    /\ requestChain = <<>>
    /\ lret = "resume"
    /\ IF lpaused
         THEN pausedFds' = pausedFds \cup {lfd} /\ master' = master
         ELSE pausedFds' = pausedFds /\ master' = master \cup {lfd}
    /\ todo' = todo \ {lfd}
    /\ lpc' = "resume"
    /\ UNCHANGED <<kernel, lfd, lret, lerr, lpaused, working, clientInfo,
                   framer, requestChain, pending, responder, wakePipe, handed,
                   control>>

\* close_connection() in its three exposed steps: the pending entry, ...
ErasePending ==
    /\ lpc = "close"
    /\ LET c == clientInfo[lfd]
       IN  /\ entries' = entries \ {c}
           /\ count' = [d \in Conns |-> IF d = c THEN 0 ELSE count[d]]
           /\ paused' = paused \ {c}
           /\ dead' = dead \ {c}
    /\ lpc' = "deregister"
    /\ UNCHANGED <<kernel, lfd, lret, lerr, lpaused, working, todo, tables,
                   responder, wakePipe, handed, control>>

\* ... the client record, ...
Deregister ==
    /\ lpc = "deregister"
    /\ clientInfo' = [clientInfo EXCEPT ![lfd] = None]
    /\ pausedFds' = pausedFds \ {lfd}
    /\ lpc' = "closefd"
    /\ UNCHANGED <<kernel, lfd, lret, lerr, lpaused, working, todo, master,
                   framer, requestChain, pending, responder, wakePipe, handed,
                   control>>

\* ... and the framer and the fd itself, whose number is free from here on.
CloseFd ==
    /\ lpc = "closefd"
    /\ framer' = [framer EXCEPT ![lfd] = <<>>]
    /\ sockConn' = [sockConn EXCEPT ![lfd] = None]
    /\ master' = master \ {lfd}
    /\ peer' = [peer EXCEPT ![sockConn[lfd]] =
                  IF @ = "reset" THEN @ ELSE "closed"]
    /\ rx' = [rx EXCEPT ![sockConn[lfd]] = <<>>]
    /\ working' = working \ {lfd}
    /\ lpc' = "scan"
    /\ UNCHANGED <<nsent, shut, sent, lfd, lret, lerr, lpaused, todo,
                   pausedFds, clientInfo, requestChain, pending, responder,
                   wakePipe, handed, control>>
-----------------------------------------------------------------------------
(* Response thread                                                         *)

ResponderWakes ==
    /\ rpc = "idle"
    /\ ~rstop
    /\ rsem
    /\ rsem' = FALSE
    /\ rpc' = "get"
    /\ UNCHANGED <<kernel, listen, tables, pending, responseChain, rcur, rdup,
                   rwake, wakePipe, handed, control>>

\* chain_get(), then the dead flag: a dropped connection gets nothing more.
GetResponse ==
    /\ rpc = "get"
    /\ IF responseChain = <<>>
         THEN rpc' = "idle" /\ UNCHANGED <<responseChain, rcur>>
         ELSE /\ responseChain' = Tail(responseChain)
              /\ rcur' = Head(responseChain)
              /\ rpc' = IF Head(responseChain).cltid \in dead
                          THEN "done" ELSE "dup"
    /\ UNCHANGED <<kernel, listen, tables, pending, rsem, rdup, rwake,
                   wakePipe, handed, control>>

\* Does the fd still belong to the connection the request came from?
Bug_SameClient(resp) == clientInfo[resp.fd] # None
SameClient(resp) == clientInfo[resp.fd] = resp.cltid

\* dup_if_same_client(): check and dup() under the client record lock.
DupIfSameClient ==
    /\ rpc = "dup"
    /\ IF SameClient(rcur)
         THEN rdup' = sockConn[rcur.fd] /\ rpc' = "send"
         ELSE rdup' = rdup /\ rpc' = "done"
    /\ UNCHANGED <<kernel, listen, tables, pending, responseChain, rsem, rcur,
                   rwake, wakePipe, handed, control>>

\* send_with_deadline() and over_send_wait_budget(): sent in time; sent, but
\* the connection has used up its waiting budget; or failed or timed out.
Send ==
    /\ rpc = "send"
    /\ \/ /\ rdup \notin shut /\ peer[rdup] # "reset"
          /\ sent' = [sent EXCEPT ![rdup] =
                        @ \cup {[orig |-> rcur.orig, n |-> rcur.n]}]
          /\ rpc' \in {"done", "drop"}
       \/ /\ sent' = sent
          /\ rpc' = "drop"
    /\ UNCHANGED <<peer, rx, nsent, sockConn, shut, listen, tables, pending,
                   responseChain, rsem, rcur, rdup, rwake, wakePipe, handed,
                   control>>

\* drop_connection(): mark dead under the lock (operator[] makes the entry if
\* there is none), then shutdown() and wake the listen thread.
DropMark ==
    /\ rpc = "drop"
    /\ entries' = entries \cup {rcur.cltid}
    /\ dead' = dead \cup {rcur.cltid}
    /\ paused' = paused \ {rcur.cltid}
    /\ rwake' = (rcur.cltid \in paused)
    /\ rpc' = "shutdown"
    /\ UNCHANGED <<kernel, listen, tables, count, responseChain, rsem, rcur,
                   rdup, wakePipe, handed, control>>

Bug_Shutdown == shut
Shutdown == shut \cup {rdup}

DropShutdown ==
    /\ rpc = "shutdown"
    /\ shut' = Shutdown
    /\ wakePipe' = (wakePipe \/ rwake)
    /\ rwake' = FALSE
    /\ rpc' = "done"
    /\ UNCHANGED <<peer, rx, nsent, sockConn, sent, listen, tables, pending,
                   responseChain, rsem, rcur, rdup, handed, control>>

\* response_done(): release the request's place; resume at half the limit.
Bug_Resumable(c, left) == FALSE
Resumable(c, left) == c \in paused /\ left <= MaxPending \div 2

Bug_Release(c) == IF rdup # None /\ count[c] > 0 THEN count[c] - 1 ELSE count[c]
Release(c) == IF count[c] > 0 THEN count[c] - 1 ELSE 0

\* The callback drains the chain: wakeups may be coalesced.
Bug_AfterResponse == "idle"
AfterResponse == "get"

ResponseDone ==
    /\ rpc = "done"
    /\ LET c == rcur.cltid
           left == Release(c)
           wake == c \in entries /\ Resumable(c, left)
       IN  /\ count' = [count EXCEPT ![c] = IF c \in entries THEN left ELSE @]
           /\ paused' = IF wake THEN paused \ {c} ELSE paused
           /\ rwake' = wake
           /\ rpc' = IF wake THEN "wake" ELSE AfterResponse
    /\ rdup' = None
    /\ rcur' = NoResponse
    /\ UNCHANGED <<kernel, listen, tables, entries, dead, responseChain, rsem,
                   wakePipe, handed, control>>

ResponderWrites ==
    /\ rpc = "wake"
    /\ wakePipe' = TRUE
    /\ rwake' = FALSE
    /\ rpc' = AfterResponse
    /\ UNCHANGED <<kernel, listen, tables, pending, responseChain, rsem, rcur,
                   rdup, handed, control>>

ResponderExits ==
    /\ rpc = "idle"
    /\ rstop
    /\ rpc' = "off"
    /\ UNCHANGED <<kernel, listen, tables, pending, responseChain, rsem, rcur,
                   rdup, rwake, wakePipe, handed, control>>
-----------------------------------------------------------------------------
(* start_listening(), stop_receiving() and stop_listening()                *)

StopReceiving ==
    /\ cpc = "up"
    /\ endServer' = TRUE
    /\ wakePipe' = TRUE
    /\ cpc' = "joinlisten"
    /\ UNCHANGED <<kernel, listen, tables, pending, responder, handed, rstop>>

StopResponder ==
    /\ cpc = "joinlisten"
    /\ lpc = "exit"
    /\ rstop' = TRUE
    /\ cpc' = "joinresponder"
    /\ UNCHANGED <<kernel, listen, tables, pending, responder, wakePipe, handed,
                   endServer>>

\* Both threads are joined: every connection is closed, the paused ones
\* (which master_set does not hold) too, and every table is emptied.
Bug_ClosedByStop == master
ClosedByStop == master \cup pausedFds

Cleanup ==
    /\ cpc = "joinresponder"
    /\ rpc = "off"
    /\ sockConn' = [fd \in Fds |->
                      IF fd \in ClosedByStop THEN None ELSE sockConn[fd]]
    /\ framer' = [fd \in Fds |->
                      IF fd \in ClosedByStop THEN <<>> ELSE framer[fd]]
    /\ clientInfo' = [fd \in Fds |-> None]
    /\ pausedFds' = pausedFds \ ClosedByStop
    /\ master' = {}
    /\ requestChain' = <<>>
    /\ responseChain' = <<>>
    /\ entries' = {} /\ paused' = {} /\ dead' = {}
    /\ count' = [c \in Conns |-> 0]
    /\ peer' = [c \in Conns |->
                  IF peer[c] = "absent" THEN peer[c] ELSE "closed"]
    /\ wakePipe' = FALSE
    /\ cpc' = "down"
    /\ rx' = [c \in Conns |-> <<>>]
    /\ UNCHANGED <<nsent, shut, sent, listen, rsem, rpc, rcur, rdup, rwake,
                   handed, endServer, rstop>>

\* start_thread() drains the semaphore; max_sd and master_set start afresh.
StartListening ==
    /\ cpc = "down"
    /\ endServer' = FALSE
    /\ rstop' = FALSE
    /\ lpc' = "select"
    /\ working' = {}
    /\ rpc' = "idle"
    /\ rsem' = FALSE
    /\ cpc' = "up"
    /\ UNCHANGED <<kernel, lfd, lret, lerr, lpaused, todo, tables, pending,
                   responseChain, rcur, rdup, rwake, wakePipe, handed>>
-----------------------------------------------------------------------------
Init ==
    /\ peer = [c \in Conns |-> "absent"]
    /\ rx = [c \in Conns |-> <<>>]
    /\ nsent = 0
    /\ sockConn = [fd \in Fds |-> None]
    /\ shut = {}
    /\ sent = [c \in Conns |-> {}]
    /\ lpc = "select" /\ lfd = ListenSd /\ lret = "recv"
    /\ lerr = FALSE /\ lpaused = FALSE
    /\ working = {} /\ todo = {}
    /\ master = {} /\ pausedFds = {}
    /\ clientInfo = [fd \in Fds |-> None]
    /\ framer = [fd \in Fds |-> <<>>]
    /\ requestChain = <<>> /\ responseChain = <<>> /\ work = <<>>
    /\ lost = [c \in Conns |-> 0] /\ starved = {}
    /\ entries = {} /\ paused = {} /\ dead = {}
    /\ count = [c \in Conns |-> 0]
    /\ rsem = FALSE /\ rpc = "idle" /\ rcur = NoResponse /\ rdup = None
    /\ rwake = FALSE /\ wakePipe = FALSE
    /\ endServer = FALSE /\ rstop = FALSE /\ cpc = "up"

Client == \E c \in Conns : Connect(c) \/ ClientSend(c) \/ ClientGone(c)

ListenThread ==
    \/ SelectReady \/ SelectTimeout \/ SelectStop \/ ScanEnd
    \/ HandleWake \/ Accept \/ AcceptEnd
    \/ \E fd \in Fds : Recv(fd) \/ RecvEmpty(fd) \/ RecvEof(fd)
    \/ QueueStart \/ QueueTake \/ QueueNoMemory \/ Notify
    \/ ReturnToRecv \/ Resume \/ ReturnToResume
    \/ ErasePending \/ Deregister \/ CloseFd

ResponseThread ==
    \/ ResponderWakes \/ GetResponse \/ DupIfSameClient \/ Send
    \/ DropMark \/ DropShutdown \/ ResponseDone \/ ResponderWrites
    \/ ResponderExits

StopListening == StopResponder \/ Cleanup

Next ==
    \/ Client \/ Answer \/ Lose \/ ListenThread \/ ResponseThread
    \/ StopReceiving \/ StopListening \/ StartListening

Spec == Init /\ [][Next]_vars

\* The threads run; a stop that has begun goes on; the RPC thread answers.
\* Clients may do nothing, and nobody has to stop or start the server.
Fairness ==
    /\ WF_vars(ListenThread)
    /\ WF_vars(ResponseThread)
    /\ WF_vars(Answer)
    /\ WF_vars(StopListening)

FairSpec == Spec /\ Fairness
-----------------------------------------------------------------------------
(* Properties                                                              *)

Message == [orig : Conns, n : 0..MaxSend]
Request == [fd : Fds, cltid : Conns, orig : Conns, n : 0..MaxSend]

FlagsOK ==
    /\ lerr \in BOOLEAN /\ lpaused \in BOOLEAN
    /\ rsem \in BOOLEAN /\ rwake \in BOOLEAN /\ wakePipe \in BOOLEAN
    /\ endServer \in BOOLEAN /\ rstop \in BOOLEAN

KernelOK ==
    /\ peer \in [Conns -> {"absent", "backlog", "open", "fin", "reset",
                           "closed"}]
    /\ rx \in [Conns -> Seq(Message)]
    /\ nsent \in 0..MaxSend
    /\ sockConn \in [Fds -> Conns \cup {None}]
    /\ shut \subseteq Conns
    /\ sent \in [Conns -> SUBSET Message]

ListenOK ==
    /\ lpc \in {"select", "scan", "queue", "take", "notify", "resume",
                "close", "deregister", "closefd", "exit"}
    /\ lfd \in Fds \cup {ListenSd}
    /\ lret \in {"recv", "resume"}
    /\ working \subseteq Fds \cup {ListenSd, WakeFd}
    /\ todo \subseteq Fds

TablesOK ==
    /\ master \subseteq Fds
    /\ pausedFds \subseteq Fds
    /\ clientInfo \in [Fds -> Conns \cup {None}]
    /\ framer \in [Fds -> Seq(Message)]

ChainsOK ==
    /\ requestChain \in Seq(Request)
    /\ work \in Seq(Request)
    /\ responseChain \in Seq(Request)
    /\ lost \in [Conns -> Nat]
    /\ starved \subseteq Fds

PendingOK ==
    /\ entries \subseteq Conns /\ paused \subseteq Conns /\ dead \subseteq Conns
    /\ count \in [Conns -> 0..MaxPending]

ResponderOK ==
    /\ rpc \in {"idle", "get", "dup", "send", "drop", "shutdown", "done",
                "wake", "off"}
    /\ rcur \in Request \cup {NoResponse}
    /\ rdup \in Conns \cup {None}

ControlOK == cpc \in {"up", "joinlisten", "joinresponder", "down"}

\* Types; count never exceeds the limit the flow control promises.
TypeOK ==
    /\ FlagsOK /\ KernelOK /\ ListenOK /\ TablesOK /\ ChainsOK
    /\ PendingOK /\ ResponderOK /\ ControlOK

\* Whatever was read from a connection is answered on that connection only,
\* however fd numbers were reused meanwhile (dup_if_same_client()).
RightClient == \A c \in Conns : \A m \in sent[c] : m.orig = c

Of(c, chain) == Cardinality({i \in DOMAIN chain : chain[i].cltid = c})
Unanswered(c) ==
    Of(c, requestChain) + Of(c, work) + Of(c, responseChain)
      + (IF rcur.cltid = c THEN 1 ELSE 0)
Closing(c) == lpc = "deregister" /\ clientInfo[lfd] = c
Serving(c) == (\E fd \in Fds : clientInfo[fd] = c) /\ ~Closing(c)

\* While the server serves a connection its pending counter is exactly the
\* number of its requests that are queued, in work or waiting to be sent, and
\* of those whose reply was lost for lack of memory, whose place nobody gives
\* back: no other path forgets to release one, and none releases one twice.
CountIsExact ==
    \A c \in Conns : Serving(c) => count[c] = Unanswered(c) + lost[c]

\* So many replies of the connection were lost that what is left of the limit
\* does not reach down to the half where response_done() resumes.
Stranded(fd) ==
    \E c \in Conns : sockConn[fd] = c /\ lost[c] > MaxPending \div 2

\* Every open connection stays under somebody's eyes: its fd is in master_set
\* or in paused_fds and not in both, unless the listen thread is moving it.
EveryFdWatched ==
    \A fd \in Fds : sockConn[fd] # None =>
       \/ (fd \in master) # (fd \in pausedFds)
       \/ /\ lfd = fd
          /\ lpc \in {"queue", "take", "notify"}
          /\ lret = "resume"

\* stop_listening() leaves no socket, no paused fd, no framed request and no
\* pending entry behind for the next start.
StopLeavesNothing ==
    cpc = "down" =>
       /\ \A fd \in Fds : sockConn[fd] = None /\ framer[fd] = <<>>
       /\ pausedFds = {}
       /\ entries = {}

\* A connection taken out of select() by back-pressure comes back, or is
\* closed: no interleaving of pausing and response_done() strands it, only
\* the loss of replies for more than half the limit does.
PausedResumes ==
    \A fd \in Fds :
       (fd \in pausedFds) ~> (fd \notin pausedFds \/ Stranded(fd))

\* No complete request stays in a framer: what back-pressure left there is
\* queued on resume, although select() has nothing more to report for it.  A
\* loop that ended for lack of memory goes on when the client sends again.
FramedRequestsLeave ==
    \A fd \in Fds :
       (framer[fd] # <<>>)
          ~> (framer[fd] = <<>> \/ Stranded(fd) \/ fd \in starved)

\* Every response of a served connection leaves the server, sent or
\* discarded, unless somebody stops it: no wakeup of the response thread is
\* lost.
ResponsesLeave ==
    \A c \in Conns : (Serving(c) /\ Unanswered(c) > 0)
                       ~> (Unanswered(c) = 0 \/ endServer)

\* A connection the response thread dropped is closed by the listen thread.
DroppedIsClosed ==
    \A c \in Conns : (c \in dead) ~> (\A fd \in Fds : sockConn[fd] # c)

-----------------------------------------------------------------------------
(* The inductive invariant behind RightClient                              *)

MessageOf(c) == [orig : {c}, n : 0..MaxSend]
Matched == {r \in Request : r.cltid = r.orig}
Open == {fd \in Fds : sockConn[fd] # None}

\* Bytes stay with the connection they came from: in the socket, in the
\* framer, in every chain and on the wire.
BytesInv ==
    /\ \A c \in Conns : rx[c] \in Seq(MessageOf(c))
    /\ \A fd \in Open : framer[fd] \in Seq(MessageOf(sockConn[fd]))
    /\ requestChain \in Seq(Matched)
    /\ work \in Seq(Matched)
    /\ responseChain \in Seq(Matched)
    /\ \A c \in Conns : sent[c] \subseteq MessageOf(c)

\* A client record names the connection behind its fd; it is gone before the
\* fd is closed.
RecordInv ==
    /\ \A fd \in Fds : clientInfo[fd] \in {None, sockConn[fd]}
    /\ lpc = "take" => clientInfo[lfd] # None
    /\ lpc = "closefd" => clientInfo[lfd] = None /\ lfd \notin pausedFds

\* The listen thread only touches fds that are open.
ListenInv ==
    /\ master \cup pausedFds \cup todo \cup (working \cap Fds) \subseteq Open
    /\ lpc \in {"queue", "take", "notify", "close", "deregister", "closefd"}
         => lfd \in Open
    /\ lpc = "take" => framer[lfd] # <<>>
    /\ lpc \in {"select", "exit"} => working = {} /\ todo = {}
    /\ lpc \in {"scan", "close", "deregister", "closefd"} => todo = {}
    /\ lpc \in {"queue", "take", "notify"} /\ lret = "recv" => todo = {}
    /\ lpc \in {"queue", "take", "notify"} /\ lret = "resume" => working = {}
    /\ lpc = "resume" => working = {}
    /\ cpc \in {"joinresponder", "down"} => lpc = "exit"

\* The response thread's private fd is the connection of its response.
ResponderInv ==
    /\ rpc \in {"dup", "send", "drop", "shutdown", "done"} => rcur \in Matched
    /\ rpc \in {"send", "drop", "shutdown"} => rdup = rcur.cltid

\* The conjunction is inductive: dup_if_same_client() sends to the connection
\* a request came from because the record, the fd and the bytes agree.
IInv == TypeOK /\ BytesInv /\ RecordInv /\ ListenInv /\ ResponderInv
-----------------------------------------------------------------------------
(* The invariants behind EveryFdWatched, StopLeavesNothing and             *)
(* CountIsExact: each is inductive together with IInv and those before it. *)

\* resume_paused_connections() has taken the fd out of paused_fds and not yet
\* decided where it goes.
Moving(fd) ==
    lfd = fd /\ lpc \in {"queue", "take", "notify"} /\ lret = "resume"

\* What the listen thread is going to move is where it takes it from.
WatchInv ==
    /\ \A fd \in Open : ~Moving(fd) => (fd \in master) # (fd \in pausedFds)
    /\ \A fd \in Fds : Moving(fd) => fd \notin master \cup pausedFds
    /\ working \cap Fds \subseteq master
    /\ lpc = "resume" => todo \subseteq pausedFds
    /\ lpc \in {"queue", "take", "notify"} =>
          IF lret = "recv" THEN lfd \in master
                           ELSE todo \ {lfd} \subseteq pausedFds
    /\ lpc \in {"close", "deregister", "closefd"} => lfd \in master

\* A free fd number has no framed request, and a stopped server nothing at
\* all.
FreeInv ==
    /\ \A fd \in Fds : sockConn[fd] = None => framer[fd] = <<>>
    /\ cpc = "down" => Open = {} /\ entries = {} /\ rpc = "off"

New == {c \in Conns : peer[c] \in {"absent", "backlog"}}
Queued == Range(requestChain) \cup Range(work) \cup Range(responseChain)

\* An ident stands for one connection: a new one has no fd, no request and no
\* count yet, and the response thread holds nothing between two responses.
IdentInv ==
    /\ \A fd, other \in Open : sockConn[fd] = sockConn[other] => fd = other
    /\ \A fd \in Open : sockConn[fd] \notin New
    /\ \A req \in Queued : req.cltid \notin New
    /\ rcur.cltid \notin New
    /\ \A c \in New : count[c] = 0 /\ lost[c] = 0
    /\ \A c \in Conns : count[c] > 0 => c \in entries
    /\ rpc \in {"idle", "get", "wake", "off"} => rcur = NoResponse

\* The conjunction the theorems rest on.
ServerInv == IInv /\ WatchInv /\ FreeInv /\ IdentInv /\ CountIsExact
=============================================================================
