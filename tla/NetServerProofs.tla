------------------------- MODULE NetServerProofs -------------------------
(***************************************************************************)
(* Machine-checked proofs about ADNetServer as NetServer models it.        *)
(*                                                                         *)
(* IInv is inductive: one lemma per action, with one step per part of IInv *)
(* that the action can disturb; Frame covers the parts it cannot.          *)
(*                                                                         *)
(* The account of time that the responder keeps for a slow client          *)
(* (SendBudget) is at the end.                                             *)
(***************************************************************************)
EXTENDS NetServer, SendBudget, ChainLemmas

USE DEF kernel, listen, tables, pending, responder, handed, control, Conns, None,
        ListenSd, WakeFd

\* A part of the invariant whose variables a step leaves alone still holds.
LEMMA Frame ==
  ASSUME IInv
  PROVE  /\ UNCHANGED <<lerr, lpaused, rsem, rwake, wakePipe, endServer, rstop>>
              => FlagsOK'
         /\ UNCHANGED kernel => KernelOK'
         /\ UNCHANGED <<lpc, lfd, lret, working, todo>> => ListenOK'
         /\ UNCHANGED <<master, pausedFds, clientInfo, framer>> => TablesOK'
         /\ UNCHANGED <<requestChain, handed, responseChain>> => ChainsOK'
         /\ UNCHANGED pending => PendingOK'
         /\ UNCHANGED <<rpc, rcur, rdup>> => ResponderOK' /\ ResponderInv'
         /\ UNCHANGED cpc => ControlOK'
         /\ UNCHANGED <<rx, sockConn, framer, requestChain, work,
                        responseChain, sent>> => BytesInv'
         /\ UNCHANGED <<clientInfo, sockConn, lpc, lfd, pausedFds>>
              => RecordInv'
         /\ UNCHANGED <<master, pausedFds, todo, working, sockConn, lpc, lfd,
                        framer, lret, cpc>> => ListenInv'
<1> USE DEF IInv, TypeOK
<1>1. UNCHANGED <<lerr, lpaused, rsem, rwake, wakePipe, endServer, rstop>>
        => FlagsOK'
  BY DEF FlagsOK
<1>2. UNCHANGED kernel => KernelOK'
  BY DEF KernelOK
<1>3. UNCHANGED <<lpc, lfd, lret, working, todo>> => ListenOK'
  BY DEF ListenOK
<1>4. UNCHANGED <<master, pausedFds, clientInfo, framer>> => TablesOK'
  BY DEF TablesOK
<1>5. UNCHANGED <<requestChain, handed, responseChain>> => ChainsOK'
  BY DEF ChainsOK
<1>6. UNCHANGED pending => PendingOK'
  BY DEF PendingOK
<1>7. UNCHANGED <<rpc, rcur, rdup>> => ResponderOK' /\ ResponderInv'
  BY DEF ResponderOK, ResponderInv
<1>8. UNCHANGED cpc => ControlOK'
  BY DEF ControlOK
<1>9. UNCHANGED <<rx, sockConn, framer, requestChain, work, responseChain,
                  sent>> => BytesInv'
  BY DEF BytesInv, Open
<1>10. UNCHANGED <<clientInfo, sockConn, lpc, lfd, pausedFds>> => RecordInv'
  BY DEF RecordInv
<1>11. UNCHANGED <<master, pausedFds, todo, working, sockConn, lpc, lfd,
                   framer, lret, cpc>> => ListenInv'
  BY DEF ListenInv, Open
<1>12. QED
  BY <1>1, <1>2, <1>3, <1>4, <1>5, <1>6, <1>7, <1>8, <1>9, <1>10, <1>11

\* Where the listen thread works on one fd, that fd is open and its framer holds
\* bytes of the connection behind it (recv loop, resume and close_connection()).
LEMMA ListenFacts ==
  ASSUME NetAssumption, IInv,
         lpc \in {"queue", "take", "notify", "close", "deregister", "closefd"}
  PROVE  /\ lfd \in Fds
         /\ sockConn[lfd] \in Conns
         /\ framer[lfd] \in Seq(MessageOf(sockConn[lfd]))
BY DEF NetAssumption, IInv, TypeOK, KernelOK, BytesInv, ListenInv, Open

\* While the response thread works on a response, that response names its own
\* connection (monoshot_callback_function()).
LEMMA ResponderFacts ==
  ASSUME IInv, rpc \in {"dup", "send", "drop", "shutdown", "done"}
  PROVE  /\ rcur \in Request
         /\ rcur.fd \in Fds
         /\ rcur.cltid \in Conns
         /\ rcur.orig = rcur.cltid
         /\ rcur.n \in 0..MaxSend
BY DEF IInv, ResponderInv, Matched, Request

\* A message read from a connection is a message of that connection.
LEMMA MessageOfConn ==
  ASSUME NEW c \in Conns, NEW n \in 0..MaxSend
  PROVE  /\ [orig |-> c, n |-> n] \in MessageOf(c)
         /\ MessageOf(c) \subseteq Message
BY DEF MessageOf, Message


\* A client connecting (listen backlog).
LEMMA ConnectStep ==
  ASSUME NetAssumption, IInv, NEW c \in Conns, Connect(c)
  PROVE  IInv'
<1> USE NetAssumption DEF NetAssumption, IInv, TypeOK, Connect
<1>1. KernelOK' BY DEF KernelOK
<1>2. QED BY <1>1, Frame

\* A client sending a request or garbage.
LEMMA ClientSendStep ==
  ASSUME NetAssumption, IInv, NEW c \in Conns, ClientSend(c)
  PROVE  IInv'
<1> USE NetAssumption DEF NetAssumption, IInv, TypeOK, ClientSend
<1>1. nsent + 1 \in 0..MaxSend /\ 0 \in 0..MaxSend BY DEF KernelOK
<1>2. PICK n \in 0..MaxSend :
        rx' = [rx EXCEPT ![c] = Append(@, [orig |-> c, n |-> n])]
  BY <1>1
<1>3. [orig |-> c, n |-> n] \in MessageOf(c) /\ MessageOf(c) \subseteq Message
  BY MessageOfConn
<1>4. KernelOK' BY <1>1, <1>2, <1>3 DEF KernelOK
<1>5. BytesInv' BY <1>2, <1>3 DEF BytesInv, KernelOK, Open
<1>6. QED BY <1>4, <1>5, Frame

\* A client closing or resetting its end.
LEMMA ClientGoneStep ==
  ASSUME NetAssumption, IInv, NEW c \in Conns, ClientGone(c)
  PROVE  IInv'
<1> USE NetAssumption DEF NetAssumption, IInv, TypeOK
<1>1. /\ UNCHANGED <<nsent, sockConn, shut, sent, listen, tables, pending,
                     responder, wakePipe, handed, control>>
      /\ peer' \in [Conns -> {"absent", "backlog", "open", "fin", "reset",
                              "closed"}]
      /\ rx' = rx \/ rx' = [rx EXCEPT ![c] = <<>>]
  BY DEF ClientGone, KernelOK
<1>2. <<>> \in Seq(Message) /\ <<>> \in Seq(MessageOf(c))
  BY EmptySeq
<1>3. rx' \in [Conns -> Seq(Message)]
  BY <1>1, <1>2 DEF KernelOK
<1>4. KernelOK' BY ONLY <1>1, <1>3, KernelOK DEF KernelOK, tables, listen
<1>5. BytesInv' BY <1>1, <1>2 DEF BytesInv, KernelOK, Open
<1>6. QED BY <1>1, <1>4, <1>5, Frame

\* One more reply lost.
LEMMA LoseReplyType ==
  ASSUME IInv, NEW req \in Request, LoseReply(req)
  PROVE  lost' \in [Conns -> Nat]
BY DEF IInv, TypeOK, ChainsOK, LoseReply, Request

\* The consumer answering: schedule_response(), with or without memory.
LEMMA AnswerStep ==
  ASSUME NetAssumption, IInv, Answer
  PROVE  IInv'
<1> USE NetAssumption DEF NetAssumption, IInv, TypeOK
<1> DEFINE req == Head(work)
<1>1. /\ UNCHANGED <<kernel, listen, tables, pending, rpc, rcur, rdup, rwake,
                     wakePipe, starved, control>>
      /\ work # <<>>
      /\ work' = Tail(work)
      /\ \/ responseChain' = Append(responseChain, req) /\ rsem' = TRUE
              /\ lost' = lost
         \/ LoseReply(req) /\ UNCHANGED <<responseChain, rsem>>
  BY DEF Answer, ScheduleResponse
<1>2. req \in Request /\ Tail(work) \in Seq(Request)
  BY <1>1, HeadTailProperties DEF ChainsOK
<1>3. req \in Matched /\ Tail(work) \in Seq(Matched)
  BY <1>1, HeadTailProperties DEF BytesInv
<1>4. /\ Append(responseChain, req) \in Seq(Request)
      /\ Append(responseChain, req) \in Seq(Matched)
  BY <1>2, <1>3, AppendProperties DEF ChainsOK, BytesInv
<1> HIDE DEF req
<1>5. FlagsOK' BY <1>1 DEF FlagsOK
<1>6. lost' \in [Conns -> Nat] BY <1>1, <1>2, LoseReplyType DEF ChainsOK
<1>7. ChainsOK' BY <1>1, <1>2, <1>4, <1>6 DEF ChainsOK
<1>8. BytesInv' BY <1>1, <1>3, <1>4 DEF BytesInv, Open
<1>9. QED BY <1>1, <1>5, <1>7, <1>8, Frame

\* The consumer losing a reply: json_send_response() without memory.
LEMMA LoseStep ==
  ASSUME NetAssumption, IInv, Lose
  PROVE  IInv'
<1> USE NetAssumption DEF NetAssumption, IInv, TypeOK
<1>1. PICK i \in DOMAIN work : work' = RemoveAt(work, i) /\ LoseReply(work[i])
  BY DEF Lose
<1>2. UNCHANGED <<kernel, listen, tables, pending, responder, wakePipe, starved,
                  control>>
  BY DEF Lose
<1>3. work \in Seq(Request) /\ work \in Seq(Matched) /\ work[i] \in Request
  BY DEF ChainsOK, BytesInv
<1>4. work' \in Seq(Request) /\ work' \in Seq(Matched)
  BY <1>1, <1>3, RemovedAt
<1>5. lost' \in [Conns -> Nat] BY <1>1, <1>3, LoseReplyType
<1>6. ChainsOK' BY <1>2, <1>4, <1>5 DEF ChainsOK
<1>7. BytesInv' BY <1>2, <1>4 DEF BytesInv, Open
<1>8. QED BY <1>2, <1>6, <1>7, Frame

\* select() returning ready descriptors.
LEMMA SelectReadyStep ==
  ASSUME NetAssumption, IInv, SelectReady
  PROVE  IInv'
<1> USE NetAssumption DEF NetAssumption, IInv, TypeOK, SelectReady, Ready,
   Readable, Backlog
<1>1. ListenOK' BY DEF ListenOK, KernelOK, TablesOK
<1>2. RecordInv' BY DEF KernelOK, TablesOK, ListenOK, RecordInv, ListenInv, Open
<1>3. ListenInv' BY DEF KernelOK, TablesOK, ListenOK, RecordInv, ListenInv, Open
<1>4. QED BY <1>1, <1>2, <1>3, Frame

\* select() timing out with paused connections.
LEMMA SelectTimeoutStep ==
  ASSUME NetAssumption, IInv, SelectTimeout
  PROVE  IInv'
<1> USE NetAssumption DEF NetAssumption, IInv, TypeOK, SelectTimeout
<1>1. ListenOK' BY DEF ListenOK, KernelOK, TablesOK
<1>2. RecordInv' BY DEF KernelOK, TablesOK, ListenOK, RecordInv, ListenInv, Open
<1>3. ListenInv' BY DEF KernelOK, TablesOK, ListenOK, RecordInv, ListenInv, Open
<1>4. QED BY <1>1, <1>2, <1>3, Frame

\* The listen thread leaving select() because end_server is set.
LEMMA SelectStopStep ==
  ASSUME NetAssumption, IInv, SelectStop
  PROVE  IInv'
<1> USE NetAssumption DEF NetAssumption, IInv, TypeOK, SelectStop
<1>1. ListenOK' BY DEF ListenOK, KernelOK, TablesOK
<1>2. RecordInv' BY DEF KernelOK, TablesOK, ListenOK, RecordInv, ListenInv, Open
<1>3. ListenInv' BY DEF KernelOK, TablesOK, ListenOK, RecordInv, ListenInv, Open
<1>4. QED BY <1>1, <1>2, <1>3, Frame

\* The end of one turn of the listen loop.
LEMMA ScanEndStep ==
  ASSUME NetAssumption, IInv, ScanEnd
  PROVE  IInv'
<1> USE NetAssumption DEF NetAssumption, IInv, TypeOK, ScanEnd
<1>1. ListenOK' BY DEF ListenOK, KernelOK, TablesOK
<1>2. RecordInv' BY DEF KernelOK, TablesOK, ListenOK, RecordInv, ListenInv, Open
<1>3. ListenInv' BY DEF KernelOK, TablesOK, ListenOK, RecordInv, ListenInv, Open
<1>4. QED BY <1>1, <1>2, <1>3, Frame

\* The wake pipe being read.
LEMMA HandleWakeStep ==
  ASSUME NetAssumption, IInv, HandleWake
  PROVE  IInv'
<1> USE NetAssumption DEF NetAssumption, IInv, TypeOK, HandleWake, Handling
<1>1. FlagsOK' BY DEF FlagsOK
<1>2. ListenOK' BY DEF ListenOK, KernelOK, TablesOK
<1>3. RecordInv' BY DEF KernelOK, TablesOK, ListenOK, RecordInv, ListenInv, Open
<1>4. ListenInv' BY DEF KernelOK, TablesOK, ListenOK, RecordInv, ListenInv, Open
<1>5. QED BY <1>1, <1>2, <1>3, <1>4, Frame

\* accept4(), register_client_info() and FD_SET(), or the FD_SETSIZE refusal.
\* The number was free, so no record, framer content or paused entry of an
\* earlier connection is left on it.
LEMMA AcceptStep ==
  ASSUME NetAssumption, IInv, Accept
  PROVE  IInv'
<1> USE NetAssumption DEF NetAssumption, IInv, TypeOK
<1>1. PICK c \in Conns :
        \/ \E fd \in FreeFds :
             /\ sockConn' = [sockConn EXCEPT ![fd] = c]
             /\ peer' = [peer EXCEPT ![c] = "open"]
             /\ clientInfo' = [clientInfo EXCEPT ![fd] = c]
             /\ framer' = [framer EXCEPT ![fd] = <<>>]
             /\ master' = master \cup {fd}
        \/ /\ peer' = [peer EXCEPT ![c] = "reset"]
           /\ UNCHANGED <<sockConn, clientInfo, framer, master>>
  BY DEF Accept, Backlog
<1>2. /\ UNCHANGED <<rx, nsent, shut, sent, listen, pausedFds, requestChain,
                     pending, responder, wakePipe, handed, control>>
      /\ lpc = "scan"
  BY DEF Accept, Handling
<1>3. CASE UNCHANGED <<sockConn, clientInfo, framer, master>>
  <2>1. KernelOK' BY <1>1, <1>2, <1>3 DEF KernelOK, FreeFds
  <2>2. QED BY <1>2, <1>3, <2>1, Frame
<1>4. ASSUME NEW fd \in FreeFds,
             sockConn' = [sockConn EXCEPT ![fd] = c],
             peer' = [peer EXCEPT ![c] = "open"],
             clientInfo' = [clientInfo EXCEPT ![fd] = c],
             framer' = [framer EXCEPT ![fd] = <<>>],
             master' = master \cup {fd}
      PROVE  IInv'
  <2>1. fd \in Fds /\ fd \notin Open BY DEF FreeFds, Open
  <2>2. Open' = Open \cup {fd}
    BY <1>4, <2>1 DEF Open, KernelOK
  <2>3. <<>> \in Seq(Message) /\ <<>> \in Seq(MessageOf(c))
    BY EmptySeq
  <2>4. KernelOK' BY <1>2, <1>4, <2>1 DEF KernelOK
  <2>5. TablesOK' BY <1>2, <1>4, <2>1, <2>3 DEF TablesOK
  <2>6. BytesInv'
    <3>1. \A g \in Open \cup {fd} :
            framer'[g] \in Seq(MessageOf(sockConn'[g]))
      <4>1. framer'[fd] = <<>> /\ sockConn'[fd] = c
        BY <1>4, <2>1 DEF KernelOK, TablesOK
      <4>2. \A g \in Open : framer'[g] = framer[g] /\ sockConn'[g] = sockConn[g]
        BY <1>4, <2>1 DEF KernelOK, TablesOK, Open
      <4>3. QED BY <2>3, <4>1, <4>2 DEF BytesInv
    <3>2. QED BY <1>2, <2>2, <3>1 DEF BytesInv
  <2>7. RecordInv'
    BY <1>2, <1>4, <2>1 DEF RecordInv, KernelOK, TablesOK
  <2>8. ListenInv'
    BY <1>2, <1>4, <2>1, <2>2 DEF ListenInv
  <2>9. QED BY <1>2, <2>4, <2>5, <2>6, <2>7, <2>8, Frame
<1>5. QED BY <1>1, <1>3, <1>4

\* The accept loop ending.
LEMMA AcceptEndStep ==
  ASSUME NetAssumption, IInv, AcceptEnd
  PROVE  IInv'
<1> USE NetAssumption DEF NetAssumption, IInv, TypeOK, AcceptEnd, Handling
<1>1. ListenOK' BY DEF ListenOK, KernelOK, TablesOK
<1>2. ListenInv' BY DEF KernelOK, TablesOK, ListenOK, RecordInv, ListenInv, Open
<1>3. QED BY <1>1, <1>2, Frame

\* recv() and feed(): what the framer completes came from this connection.
LEMMA RecvStep ==
  ASSUME NetAssumption, IInv, NEW fd \in Fds, Recv(fd)
  PROVE  IInv'
<1> USE NetAssumption DEF NetAssumption, IInv, TypeOK
<1> DEFINE c == sockConn[fd]
<1>1. PICK k \in 1..Len(rx[c]), good \in 0..Len(rx[c]) :
        /\ rx' = [rx EXCEPT ![c] = SubSeq(rx[c], k + 1, Len(rx[c]))]
        /\ framer' = [framer EXCEPT ![fd] =
                        framer[fd] \o SubSeq(rx[c], 1, good)]
        /\ lerr' = (good < k)
  BY DEF Recv
<1>2. /\ UNCHANGED <<peer, nsent, sockConn, shut, sent, working, todo, master,
                     pausedFds, clientInfo, requestChain, pending, responder,
                     wakePipe, handed, control>>
      /\ lfd' = fd /\ lret' = "recv" /\ lpaused' = FALSE /\ lpc' = "queue"
      /\ lpc = "scan" /\ fd \in working
  BY DEF Recv, Handling
<1>3. fd \in Open /\ c \in Conns
  BY <1>2 DEF ListenInv, Open, KernelOK
<1>4. /\ MessageOf(c) \subseteq Message
      /\ rx[c] \in Seq(MessageOf(c))
      /\ framer[fd] \in Seq(MessageOf(c))
  BY <1>3, MessageOfConn DEF BytesInv, MessageOf, Message
<1>5. SubSeq(rx[c], k + 1, Len(rx[c])) \in Seq(MessageOf(c))
  <2>1. \A i \in k + 1 .. Len(rx[c]) : rx[c][i] \in MessageOf(c)
    BY <1>4, LenProperties, ElementOfSeq
  <2>2. k + 1 \in Int /\ Len(rx[c]) \in Int
    BY <1>4, LenProperties
  <2>3. QED BY <2>1, <2>2, SubSeqProperties
<1>6. SubSeq(rx[c], 1, good) \in Seq(MessageOf(c))
  <2>1. \A i \in 1 .. good : rx[c][i] \in MessageOf(c)
    BY <1>4, LenProperties, ElementOfSeq
  <2>2. 1 \in Int /\ good \in Int
    BY <1>4, LenProperties
  <2>3. QED BY <2>1, <2>2, SubSeqProperties
<1>7. framer[fd] \o SubSeq(rx[c], 1, good) \in Seq(MessageOf(c))
  BY <1>4, <1>6, ConcatProperties
<1>8. /\ SubSeq(rx[c], k + 1, Len(rx[c])) \in Seq(Message)
      /\ framer[fd] \o SubSeq(rx[c], 1, good) \in Seq(Message)
  BY <1>4, <1>5, <1>7, SeqMonotonic
<1> HIDE DEF c
<1>9. FlagsOK'
  <2>1. lerr' \in BOOLEAN BY <1>1
  <2>2. QED BY <1>2, <2>1 DEF FlagsOK
<1>10. KernelOK' BY <1>1, <1>2, <1>3, <1>8 DEF KernelOK
<1>11. ListenOK' BY <1>2 DEF ListenOK
<1>12. TablesOK' BY <1>1, <1>2, <1>8 DEF TablesOK
<1>13. BytesInv'
  <2>1. Open' = Open BY <1>2 DEF Open
  <2>2. \A d \in Conns : rx'[d] \in Seq(MessageOf(d))
    BY <1>1, <1>3, <1>5 DEF BytesInv, KernelOK
  <2>3. \A g \in Open : framer'[g] \in Seq(MessageOf(sockConn[g]))
    BY <1>1, <1>7 DEF BytesInv, TablesOK, Open, c
  <2>4. QED BY <1>2, <2>1, <2>2, <2>3 DEF BytesInv
<1>14. RecordInv' BY <1>2 DEF RecordInv
<1>15. ListenInv'
  BY <1>2, <1>3 DEF ListenInv, Open
<1>16. QED
  BY <1>2, <1>9, <1>10, <1>11, <1>12, <1>13, <1>14, <1>15, Frame

\* recv() reporting EAGAIN.
LEMMA RecvEmptyStep ==
  ASSUME NetAssumption, IInv, NEW fd \in Fds, RecvEmpty(fd)
  PROVE  IInv'
<1> USE NetAssumption DEF NetAssumption, IInv, TypeOK, RecvEmpty, Handling,
   Readable
<1>1. ListenOK' BY DEF ListenOK, KernelOK, TablesOK
<1>2. ListenInv' BY DEF KernelOK, TablesOK, ListenOK, RecordInv, ListenInv, Open
<1>3. QED BY <1>1, <1>2, Frame

\* recv() reporting end of file.
LEMMA RecvEofStep ==
  ASSUME NetAssumption, IInv, NEW fd \in Fds, RecvEof(fd)
  PROVE  IInv'
<1> USE NetAssumption DEF NetAssumption, IInv, TypeOK, RecvEof, Handling, AtEof
<1>1. ListenOK' BY DEF ListenOK, KernelOK, TablesOK
<1>2. RecordInv' BY DEF KernelOK, TablesOK, ListenOK, RecordInv, ListenInv, Open
<1>3. ListenInv' BY DEF KernelOK, TablesOK, ListenOK, RecordInv, ListenInv, Open
<1>4. QED BY <1>1, <1>2, <1>3, Frame

\* queue_framed_requests() looking at the client record and the dead flag.
LEMMA QueueStartStep ==
  ASSUME NetAssumption, IInv, QueueStart
  PROVE  IInv'
<1> USE NetAssumption DEF NetAssumption, IInv, TypeOK, QueueStart
<1>1. lfd \in Fds /\ sockConn[lfd] \in Conns
  BY ListenFacts
<1>2. <<>> \in Seq(Message) /\ \A c \in Conns : <<>> \in Seq(MessageOf(c))
  BY EmptySeq
<1>3. framer' = framer \/ framer' = [framer EXCEPT ![lfd] = <<>>]
  OBVIOUS
<1>4. ListenOK' BY DEF ListenOK
<1>5. TablesOK' BY <1>1, <1>2, <1>3 DEF TablesOK
<1>6. BytesInv'
  <2>1. \A fd \in Fds : framer'[fd] \in {framer[fd], <<>>}
    BY <1>1, <1>3 DEF TablesOK
  <2>2. \A fd \in Open : sockConn[fd] \in Conns
    BY DEF Open, KernelOK
  <2>3. \A fd \in Open : framer'[fd] \in Seq(MessageOf(sockConn[fd]))
    BY <1>2, <2>1, <2>2 DEF BytesInv, Open
  <2>4. UNCHANGED <<rx, sockConn, requestChain, work, responseChain, sent>>
    OBVIOUS
  <2> QED  BY ONLY BytesInv, <2>3, <2>4 DEF BytesInv, Open
<1>7. RecordInv' BY <1>1 DEF RecordInv
<1>8. ListenInv' BY <1>1 DEF ListenInv, Open
<1>9. ChainsOK' BY DEF ChainsOK
<1>10. QED BY <1>4, <1>5, <1>6, <1>7, <1>8, <1>9, Frame

\* One turn of the loop of queue_framed_requests(): the request is labelled with
\* the connection its bytes came from, and the counter stays in its limit.
LEMMA QueueTakeStep ==
  ASSUME NetAssumption, IInv, QueueTake
  PROVE  IInv'
<1> USE NetAssumption DEF NetAssumption, IInv, TypeOK
<1> DEFINE c == clientInfo[lfd]
           m == Head(framer[lfd])
           req == [fd |-> lfd, cltid |-> c, orig |-> m.orig, n |-> m.n]
<1>1. /\ UNCHANGED <<kernel, lfd, lret, lerr, working, todo, master, pausedFds,
                     clientInfo, dead, responder, wakePipe, handed, control>>
      /\ lpc = "take"
      /\ entries' = entries \cup {c}
      /\ lpc' \in {"take", "notify"}
  BY DEF QueueTake
<1>2. /\ lfd \in Fds
      /\ sockConn[lfd] \in Conns
      /\ framer[lfd] \in Seq(MessageOf(sockConn[lfd]))
  BY <1>1, ListenFacts
<1>3. c \in Conns /\ c = sockConn[lfd]
  BY <1>1, <1>2 DEF RecordInv, TablesOK
<1>4. ListenOK' BY <1>1 DEF ListenOK
<1>5. RecordInv' BY <1>1 DEF RecordInv
<1>6. CASE AtLimit(c)
  <2>1. /\ paused' = paused \cup {c}
        /\ lpaused' = TRUE
        /\ lpc' = "notify"
        /\ UNCHANGED <<count, framer, requestChain>>
    BY <1>6 DEF QueueTake
  <2>2. FlagsOK' BY <1>1, <2>1 DEF FlagsOK
  <2>3. PendingOK' BY <1>1, <1>3, <2>1 DEF PendingOK
  <2>4. ListenInv' BY <1>1, <2>1 DEF ListenInv, Open
  <2>5. QED BY <1>1, <1>4, <1>5, <2>1, <2>2, <2>3, <2>4, Frame
<1>7. CASE ~AtLimit(c)
  <2>1. /\ count' = [count EXCEPT ![c] = @ + 1]
        /\ framer' = [framer EXCEPT ![lfd] = Tail(framer[lfd])]
        /\ requestChain' = Append(requestChain, req)
        /\ lpc' = IF Tail(framer[lfd]) = <<>> THEN "notify" ELSE "take"
        /\ UNCHANGED <<paused, lpaused>>
    BY <1>7 DEF QueueTake
  <2>2. framer[lfd] # <<>> BY <1>1 DEF ListenInv
  <2>3. m \in MessageOf(c) /\ Tail(framer[lfd]) \in Seq(MessageOf(c))
    BY <1>2, <1>3, <2>2, HeadTailProperties
  <2>4. Tail(framer[lfd]) \in Seq(Message)
    <3>1. MessageOf(c) \subseteq Message BY <1>3 DEF MessageOf, Message
    <3>2. QED BY <2>3, <3>1, SeqMonotonic
  <2>5. req \in Request /\ req \in Matched
    <3>1. m.orig = c /\ m.n \in 0..MaxSend
      BY <2>3 DEF MessageOf
    <3>2. QED BY <1>2, <1>3, <3>1 DEF Request, Matched
  <2>6. count[c] + 1 \in 0..MaxPending
    BY <1>3, <1>7 DEF AtLimit, PendingOK
  <2> HIDE DEF c, m, req
  <2>7. PendingOK' BY <1>1, <1>3, <2>1, <2>6 DEF PendingOK
  <2>8. TablesOK' BY <1>1, <1>2, <2>1, <2>4 DEF TablesOK
  <2>9. ChainsOK' BY <1>1, <2>1, <2>5 DEF ChainsOK
  <2>10. BytesInv'
    <3>1. \A fd \in Open : framer'[fd] \in Seq(MessageOf(sockConn[fd]))
      BY <1>2, <1>3, <2>1, <2>3 DEF BytesInv, TablesOK, Open
    <3>2. requestChain' \in Seq(Matched)
      BY <2>1, <2>5 DEF BytesInv
    <3>3. QED BY <1>1, <3>1, <3>2 DEF BytesInv, Open
  <2>11. ListenInv'
    <3>1. lpc' = "take" => framer'[lfd] # <<>>
      BY <1>2, <2>1 DEF TablesOK
    <3>2. QED BY <1>1, <3>1 DEF ListenInv, Open
  <2>12. QED
    BY <1>1, <1>4, <1>5, <2>1, <2>7, <2>8, <2>9, <2>10, <2>11, Frame
<1>8. QED BY <1>6, <1>7

\* ... and the turn that finds no memory for the request object.
LEMMA QueueNoMemoryStep ==
  ASSUME NetAssumption, IInv, QueueNoMemory
  PROVE  IInv'
<1> USE NetAssumption DEF NetAssumption, IInv, TypeOK
<1>1. /\ UNCHANGED <<kernel, lfd, lret, lerr, lpaused, working, todo, master,
                     pausedFds, clientInfo, requestChain, count, paused, dead,
                     responder, wakePipe, work, lost, control>>
      /\ lpc = "take" /\ lpc' = "notify"
      /\ entries' = entries \cup {clientInfo[lfd]}
      /\ framer' = [framer EXCEPT ![lfd] = Tail(framer[lfd])]
      /\ starved' = starved \cup {lfd}
  BY DEF QueueNoMemory
<1>2. /\ lfd \in Fds
      /\ sockConn[lfd] \in Conns
      /\ framer[lfd] \in Seq(MessageOf(sockConn[lfd]))
      /\ framer[lfd] # <<>>
  BY <1>1, ListenFacts DEF ListenInv
<1>3. clientInfo[lfd] \in Conns
  BY <1>1, <1>2 DEF RecordInv, TablesOK
<1>4. Tail(framer[lfd]) \in Seq(MessageOf(sockConn[lfd]))
  BY <1>2, HeadTailProperties
<1>5. Tail(framer[lfd]) \in Seq(Message)
  <2>1. MessageOf(sockConn[lfd]) \subseteq Message
    BY <1>2 DEF MessageOf, Message
  <2>2. QED BY <1>4, <2>1, SeqMonotonic
<1>6. ListenOK' BY <1>1 DEF ListenOK
<1>7. RecordInv' BY <1>1 DEF RecordInv
<1>8. PendingOK' BY <1>1, <1>3 DEF PendingOK
<1>9. TablesOK' BY <1>1, <1>2, <1>5 DEF TablesOK
<1>10. ChainsOK' BY <1>1, <1>2 DEF ChainsOK
<1>11. BytesInv'
  <2>1. \A fd \in Open : framer'[fd] \in Seq(MessageOf(sockConn[fd]))
    BY <1>1, <1>2, <1>4 DEF BytesInv, TablesOK, Open
  <2>2. QED BY <1>1, <2>1 DEF BytesInv, Open
<1>12. ListenInv' BY <1>1 DEF ListenInv, Open
<1>13. QED
  BY <1>1, <1>6, <1>7, <1>8, <1>9, <1>10, <1>11, <1>12, Frame

\* The consumer taking a request or rejecting it (on_data_arrival()).
LEMMA NotifyStep ==
  ASSUME NetAssumption, IInv, Notify
  PROVE  IInv'
<1> USE NetAssumption DEF NetAssumption, IInv, TypeOK
<1> DEFINE req == Head(requestChain)
<1>1. /\ UNCHANGED <<kernel, listen, master, pausedFds, clientInfo, framer,
                     pending, rpc, rcur, rdup, rwake, wakePipe, starved,
                     control>>
      /\ requestChain # <<>>
      /\ requestChain' = Tail(requestChain)
      /\ \/ /\ work' = Append(work, req)
            /\ UNCHANGED <<responseChain, rsem, lost>>
         \/ /\ responseChain' = Append(responseChain, req)
            /\ rsem' = TRUE
            /\ UNCHANGED <<work, lost>>
         \/ LoseReply(req) /\ UNCHANGED <<work, responseChain, rsem>>
  BY DEF Notify, ScheduleResponse
<1>2. req \in Request /\ Tail(requestChain) \in Seq(Request)
  BY <1>1, HeadTailProperties DEF ChainsOK
<1>3. req \in Matched /\ Tail(requestChain) \in Seq(Matched)
  BY <1>1, HeadTailProperties DEF BytesInv
<1>4. /\ Append(work, req) \in Seq(Request)
      /\ Append(responseChain, req) \in Seq(Request)
  BY <1>2, AppendProperties DEF ChainsOK
<1>5. /\ Append(work, req) \in Seq(Matched)
      /\ Append(responseChain, req) \in Seq(Matched)
  BY <1>3, AppendProperties DEF BytesInv
<1> HIDE DEF req
<1>6. FlagsOK' BY <1>1 DEF FlagsOK
<1>7. lost' \in [Conns -> Nat] BY <1>1, <1>2, LoseReplyType DEF ChainsOK
<1>8. ChainsOK' BY <1>1, <1>2, <1>4, <1>7 DEF ChainsOK
<1>9. BytesInv' BY <1>1, <1>3, <1>5 DEF BytesInv, Open
<1>10. QED BY <1>1, <1>6, <1>8, <1>9, Frame

\* The recv loop after queueing: protocol error, pause or next recv().
LEMMA ReturnToRecvStep ==
  ASSUME NetAssumption, IInv, ReturnToRecv
  PROVE  IInv'
<1> USE NetAssumption DEF NetAssumption, IInv, TypeOK
<1> DEFINE c == sockConn[lfd]
           error == [orig |-> c, n |-> 0]
<1>1. /\ UNCHANGED <<peer, rx, nsent, sockConn, shut, lfd, lret, lerr, lpaused,
                     todo, clientInfo, framer, requestChain, pending,
                     responder, wakePipe, handed, control>>
      /\ lpc = "notify" /\ lret = "recv"
      /\ lpc' \in {"close", "scan"}
      /\ sent' = sent \/ sent' = [sent EXCEPT ![c] = @ \cup {error}]
      /\ \/ UNCHANGED <<master, pausedFds, working>>
         \/ /\ master' = master \ {lfd}
            /\ pausedFds' = pausedFds \cup {lfd}
            /\ working' = working \ {lfd}
  BY DEF ReturnToRecv, ReturnPaused
<1>2. lfd \in Fds /\ c \in Conns /\ lfd \in Open
  BY <1>1, ListenFacts DEF ListenInv
<1>3. error \in MessageOf(c) /\ error \in Message
  BY <1>2, MessageOfConn
<1> HIDE DEF c, error
<1>4. sent[c] \cup {error} \in SUBSET Message
  BY <1>2, <1>3 DEF KernelOK
<1>5. KernelOK'
  <2>1. sent' \in [Conns -> SUBSET Message]
    BY <1>1, <1>2, <1>4 DEF KernelOK
  <2>2. QED BY <1>1, <2>1 DEF KernelOK
<1>6. ListenOK' BY <1>1 DEF ListenOK
<1>7. TablesOK' BY <1>1, <1>2 DEF TablesOK
<1>8. BytesInv'
  <2>1. \A d \in Conns : sent'[d] \subseteq MessageOf(d)
    BY <1>1, <1>2, <1>3 DEF BytesInv, KernelOK
  <2>2. QED BY <1>1, <2>1 DEF BytesInv, Open
<1>9. RecordInv' BY <1>1 DEF RecordInv
<1>10. ListenInv' BY <1>1, <1>2 DEF ListenInv, Open
<1>11. QED BY <1>1, <1>5, <1>6, <1>7, <1>8, <1>9, <1>10, Frame

\* resume_paused_connections() visiting a paused fd.
LEMMA ResumeStep ==
  ASSUME NetAssumption, IInv, Resume
  PROVE  IInv'
<1> USE NetAssumption DEF NetAssumption, IInv, TypeOK
<1>1. /\ UNCHANGED <<kernel, working, master, clientInfo, framer,
                     requestChain, pending, responder, wakePipe, handed, control>>
      /\ lpc = "resume"
  BY DEF Resume
<1>2. PICK fd \in todo :
        \/ /\ todo' = todo \ {fd}
           /\ UNCHANGED <<lpc, lfd, lret, lerr, lpaused, pausedFds>>
        \/ /\ pausedFds' = pausedFds \ {fd}
           /\ lfd' = fd /\ lret' = "resume" /\ lpc' = "queue"
           /\ lerr' = FALSE /\ lpaused' = FALSE
           /\ todo' = todo
  BY DEF Resume, AfterResume
<1>3. fd \in Fds /\ fd \in Open
  BY DEF ListenOK, ListenInv
<1>4. FlagsOK' BY <1>1, <1>2 DEF FlagsOK
<1>5. ListenOK' BY <1>1, <1>2, <1>3 DEF ListenOK
<1>6. TablesOK' BY <1>1, <1>2 DEF TablesOK
<1>7. RecordInv' BY <1>1, <1>2 DEF RecordInv
<1>8. ListenInv' BY <1>1, <1>2, <1>3 DEF ListenInv, Open
<1>9. QED BY <1>1, <1>4, <1>5, <1>6, <1>7, <1>8, Frame

\* A resumed fd going back to select() or to paused_fds.
LEMMA ReturnToResumeStep ==
  ASSUME NetAssumption, IInv, ReturnToResume
  PROVE  IInv'
<1> USE NetAssumption DEF NetAssumption, IInv, TypeOK
<1>1. /\ UNCHANGED <<kernel, lfd, lret, lerr, lpaused, working, clientInfo,
                     framer, requestChain, pending, responder, wakePipe, handed,
                     control>>
      /\ lpc = "notify" /\ lret = "resume" /\ lpc' = "resume"
      /\ todo' = todo \ {lfd}
      /\ pausedFds' \in {pausedFds, pausedFds \cup {lfd}}
      /\ master' \in {master, master \cup {lfd}}
  BY DEF ReturnToResume
<1>2. lfd \in Fds /\ lfd \in Open
  BY <1>1, ListenFacts DEF ListenInv
<1>3. ListenOK' BY <1>1 DEF ListenOK
<1>4. TablesOK' BY <1>1, <1>2 DEF TablesOK
<1>5. RecordInv' BY <1>1 DEF RecordInv
<1>6. ListenInv' BY <1>1, <1>2 DEF ListenInv, Open
<1>7. QED BY <1>1, <1>3, <1>4, <1>5, <1>6, Frame

\* close_connection() erasing the pending entry.
LEMMA ErasePendingStep ==
  ASSUME NetAssumption, IInv, ErasePending
  PROVE  IInv'
<1> USE NetAssumption DEF NetAssumption, IInv, TypeOK, ErasePending
<1>1. lfd \in Fds
  BY ListenFacts
<1>2. PendingOK'
  <2>1. 0 \in 0..MaxPending OBVIOUS
  <2>2. count' \in [Conns -> 0..MaxPending] BY <2>1 DEF PendingOK
  <2>3. QED BY <2>2 DEF PendingOK
<1>3. ListenOK' BY DEF ListenOK
<1>4. RecordInv' BY DEF RecordInv
<1>5. ListenInv' BY DEF ListenInv, Open
<1>6. QED BY <1>2, <1>3, <1>4, <1>5, Frame

\* close_connection() removing the client record before the fd is closed.
LEMMA DeregisterStep ==
  ASSUME NetAssumption, IInv, Deregister
  PROVE  IInv'
<1> USE NetAssumption DEF NetAssumption, IInv, TypeOK, Deregister
<1>1. lfd \in Fds /\ sockConn[lfd] \in Conns BY ListenFacts
<1>2. ListenOK' BY DEF ListenOK, KernelOK, TablesOK
<1>3. TablesOK' BY DEF KernelOK, TablesOK, ListenOK
<1>4. RecordInv' BY DEF KernelOK, TablesOK, ListenOK, RecordInv, ListenInv, Open
<1>5. ListenInv' BY DEF KernelOK, TablesOK, ListenOK, RecordInv, ListenInv, Open
<1>6. QED BY <1>2, <1>3, <1>4, <1>5, Frame

\* close_connection() closing the fd: no record names it any more.
LEMMA CloseFdStep ==
  ASSUME NetAssumption, IInv, CloseFd
  PROVE  IInv'
<1> USE NetAssumption DEF NetAssumption, IInv, TypeOK, CloseFd
<1>1. lfd \in Fds /\ sockConn[lfd] \in Conns BY ListenFacts
<1>2. KernelOK' BY <1>1 DEF KernelOK
<1>3. ListenOK' BY DEF ListenOK, KernelOK, TablesOK
<1>4. TablesOK' BY <1>1 DEF TablesOK
<1>5. BytesInv'
  BY DEF KernelOK, TablesOK, BytesInv, RecordInv, ListenInv, ResponderInv, Open
<1>6. RecordInv' BY DEF KernelOK, TablesOK, ListenOK, RecordInv, ListenInv, Open
<1>7. ListenInv' BY DEF KernelOK, TablesOK, ListenOK, RecordInv, ListenInv, Open
<1>8. QED BY <1>2, <1>3, <1>4, <1>5, <1>6, <1>7, Frame

\* The response thread waking up.
LEMMA ResponderWakesStep ==
  ASSUME NetAssumption, IInv, ResponderWakes
  PROVE  IInv'
<1> USE NetAssumption DEF NetAssumption, IInv, TypeOK, ResponderWakes
<1>1. FlagsOK' BY DEF FlagsOK
<1>2. ResponderOK' BY DEF ChainsOK, ResponderOK, TablesOK
<1>3. ResponderInv' BY DEF BytesInv, RecordInv, ResponderInv
<1>4. QED BY <1>1, <1>2, <1>3, Frame

\* The response thread taking the next response.
LEMMA GetResponseStep ==
  ASSUME NetAssumption, IInv, GetResponse
  PROVE  IInv'
<1> USE NetAssumption DEF NetAssumption, IInv, TypeOK
<1>1. UNCHANGED <<kernel, listen, tables, pending, rsem, rdup, rwake,
                  wakePipe, handed, control>>
  BY DEF GetResponse
<1>2. CASE responseChain = <<>>
  <2>1. rpc' = "idle" /\ UNCHANGED <<responseChain, rcur>>
    BY <1>2 DEF GetResponse
  <2>2. ResponderOK' BY <1>1, <2>1 DEF ResponderOK
  <2>3. ResponderInv' BY <2>1 DEF ResponderInv
  <2>4. QED BY <1>1, <2>1, <2>2, <2>3, Frame
<1>3. CASE responseChain # <<>>
  <2>1. /\ responseChain' = Tail(responseChain)
        /\ rcur' = Head(responseChain)
        /\ rpc' \in {"done", "dup"}
    BY <1>3 DEF GetResponse
  <2>2. /\ Head(responseChain) \in Request
        /\ Tail(responseChain) \in Seq(Request)
    BY <1>3, HeadTailProperties DEF ChainsOK
  <2>3. /\ Head(responseChain) \in Matched
        /\ Tail(responseChain) \in Seq(Matched)
    BY <1>3, HeadTailProperties DEF BytesInv
  <2>4. ChainsOK' BY <1>1, <2>1, <2>2 DEF ChainsOK
  <2>5. BytesInv' BY <1>1, <2>1, <2>3 DEF BytesInv, Open
  <2>6. ResponderOK' BY <1>1, <2>1, <2>2 DEF ResponderOK
  <2>7. ResponderInv' BY <2>1, <2>3 DEF ResponderInv
  <2>8. QED BY <1>1, <2>4, <2>5, <2>6, <2>7, Frame
<1>4. QED BY <1>2, <1>3

\* dup_if_same_client(): the duplicate is the connection of the response, even
\* if the fd number was reused, because a record never outlives its fd.
LEMMA DupIfSameClientStep ==
  ASSUME NetAssumption, IInv, DupIfSameClient
  PROVE  IInv'
<1> USE NetAssumption DEF NetAssumption, IInv, TypeOK, DupIfSameClient
<1>1. rcur.fd \in Fds /\ rcur.cltid \in Conns /\ rcur \in Matched
  BY ResponderFacts DEF ResponderInv
<1>2. SameClient(rcur) => sockConn[rcur.fd] = rcur.cltid
  <2>1. clientInfo[rcur.fd] \in {None, sockConn[rcur.fd]}
    BY <1>1 DEF RecordInv
  <2>2. rcur.cltid # None
    BY <1>1
  <2>3. QED BY <2>1, <2>2 DEF SameClient
<1>3. ResponderOK' BY <1>1, <1>2 DEF ResponderOK
<1>4. ResponderInv' BY <1>1, <1>2 DEF ResponderInv
<1>5. QED BY <1>3, <1>4, Frame

\* send_with_deadline(): the bytes go to the connection they answer.
LEMMA SendStep ==
  ASSUME NetAssumption, IInv, Send
  PROVE  IInv'
<1> USE NetAssumption DEF NetAssumption, IInv, TypeOK
<1> DEFINE m == [orig |-> rcur.orig, n |-> rcur.n]
<1>1. /\ UNCHANGED <<peer, rx, nsent, sockConn, shut, listen, tables, pending,
                     responseChain, rsem, rcur, rdup, rwake, wakePipe, handed,
                     control>>
      /\ rpc = "send" /\ rpc' \in {"done", "drop"}
      /\ sent' = sent \/ sent' = [sent EXCEPT ![rdup] = @ \cup {m}]
  BY DEF Send
<1>2. rdup \in Conns /\ rdup = rcur.orig /\ rcur.n \in 0..MaxSend
  BY <1>1, ResponderFacts DEF ResponderInv
<1>3. m \in MessageOf(rdup) /\ m \in Message
  BY <1>2, MessageOfConn
<1> HIDE DEF m
<1>4. sent[rdup] \cup {m} \in SUBSET Message
  BY <1>2, <1>3 DEF KernelOK
<1>5. KernelOK'
  <2>1. sent' \in [Conns -> SUBSET Message]
    BY <1>1, <1>2, <1>4 DEF KernelOK
  <2>2. QED BY <1>1, <2>1 DEF KernelOK
<1>6. BytesInv'
  <2>1. \A d \in Conns : sent'[d] \subseteq MessageOf(d)
    <3>1. \A d \in Conns : sent'[d] \in {sent[d], sent[d] \cup {m}}
                           /\ (d # rdup => sent'[d] = sent[d])
      BY <1>1 DEF KernelOK
    <3>2. QED BY <1>2, <1>3, <3>1 DEF BytesInv
  <2>2. QED BY <1>1, <2>1 DEF BytesInv, Open
<1>7. ResponderOK' BY <1>1 DEF ResponderOK
<1>8. ResponderInv' BY <1>1 DEF ResponderInv
<1>9. QED BY <1>1, <1>5, <1>6, <1>7, <1>8, Frame

\* drop_connection() marking the entry dead.
LEMMA DropMarkStep ==
  ASSUME NetAssumption, IInv, DropMark
  PROVE  IInv'
<1> USE NetAssumption DEF NetAssumption, IInv, TypeOK, DropMark
<1>1. rcur.cltid \in Conns BY ResponderFacts
<1>2. FlagsOK' BY DEF FlagsOK
<1>3. PendingOK' BY <1>1 DEF PendingOK
<1>4. ResponderOK' BY DEF ChainsOK, ResponderOK, TablesOK
<1>5. ResponderInv' BY DEF BytesInv, RecordInv, ResponderInv
<1>6. QED BY <1>2, <1>3, <1>4, <1>5, Frame

\* drop_connection() shutting the socket down.
LEMMA DropShutdownStep ==
  ASSUME NetAssumption, IInv, DropShutdown
  PROVE  IInv'
<1> USE NetAssumption DEF NetAssumption, IInv, TypeOK, DropShutdown, Shutdown
<1>1. rdup \in Conns BY ResponderFacts DEF ResponderInv
<1>2. FlagsOK' BY DEF FlagsOK
<1>3. KernelOK' BY <1>1 DEF KernelOK
<1>4. ResponderOK' BY DEF ChainsOK, ResponderOK, TablesOK
<1>5. ResponderInv' BY DEF BytesInv, RecordInv, ResponderInv
<1>6. QED BY <1>2, <1>3, <1>4, <1>5, Frame

\* response_done() releasing one place.
LEMMA ResponseDoneStep ==
  ASSUME NetAssumption, IInv, ResponseDone
  PROVE  IInv'
<1> USE NetAssumption DEF NetAssumption, IInv, TypeOK
<1> DEFINE c == rcur.cltid
<1>1. /\ UNCHANGED <<kernel, listen, tables, entries, dead, responseChain,
                     rsem, wakePipe, handed, control>>
      /\ rpc = "done" /\ rpc' \in {"wake", "get"}
      /\ rdup' = None /\ rcur' = NoResponse
      /\ rwake' \in BOOLEAN
      /\ paused' \subseteq paused
      /\ count' \in {count, [count EXCEPT ![c] = Release(c)]}
  BY DEF ResponseDone, AfterResponse, Resumable, PendingOK
<1>2. c \in Conns BY <1>1, ResponderFacts
<1>3. Release(c) \in 0..MaxPending BY <1>2 DEF Release, PendingOK
<1>4. PendingOK' BY <1>1, <1>2, <1>3 DEF PendingOK
<1>5. FlagsOK' BY <1>1 DEF FlagsOK
<1>6. ResponderOK' BY <1>1 DEF ResponderOK
<1>7. ResponderInv' BY <1>1 DEF ResponderInv
<1>8. QED BY <1>1, <1>4, <1>5, <1>6, <1>7, Frame

\* The response thread writing to the wake pipe.
LEMMA ResponderWritesStep ==
  ASSUME NetAssumption, IInv, ResponderWrites
  PROVE  IInv'
<1> USE NetAssumption DEF NetAssumption, IInv, TypeOK, ResponderWrites,
   AfterResponse
<1>1. FlagsOK' BY DEF FlagsOK
<1>2. ResponderOK' BY DEF ChainsOK, ResponderOK, TablesOK
<1>3. ResponderInv' BY DEF BytesInv, RecordInv, ResponderInv
<1>4. QED BY <1>1, <1>2, <1>3, Frame

\* The response thread ending after stop_thread().
LEMMA ResponderExitsStep ==
  ASSUME NetAssumption, IInv, ResponderExits
  PROVE  IInv'
<1> USE NetAssumption DEF NetAssumption, IInv, TypeOK, ResponderExits
<1>1. ResponderOK' BY DEF ChainsOK, ResponderOK, TablesOK
<1>2. ResponderInv' BY DEF BytesInv, RecordInv, ResponderInv
<1>3. QED BY <1>1, <1>2, Frame

\* stop_receiving() setting end_server.
LEMMA StopReceivingStep ==
  ASSUME NetAssumption, IInv, StopReceiving
  PROVE  IInv'
<1> USE NetAssumption DEF NetAssumption, IInv, TypeOK, StopReceiving
<1>1. FlagsOK' BY DEF FlagsOK
<1>2. ControlOK' BY DEF ControlOK
<1>3. ListenInv' BY DEF KernelOK, TablesOK, ListenOK, RecordInv, ListenInv, Open
<1>4. QED BY <1>1, <1>2, <1>3, Frame

\* stop_listening() stopping the response thread.
LEMMA StopResponderStep ==
  ASSUME NetAssumption, IInv, StopResponder
  PROVE  IInv'
<1> USE NetAssumption DEF NetAssumption, IInv, TypeOK, StopResponder
<1>1. FlagsOK' BY DEF FlagsOK
<1>2. ControlOK' BY DEF ControlOK
<1>3. ListenInv' BY DEF KernelOK, TablesOK, ListenOK, RecordInv, ListenInv, Open
<1>4. QED BY <1>1, <1>2, <1>3, Frame

\* stop_listening() closing everything once both threads are joined.
LEMMA CleanupStep ==
  ASSUME NetAssumption, IInv, Cleanup
  PROVE  IInv'
<1> USE NetAssumption DEF NetAssumption, IInv, TypeOK, Cleanup, ClosedByStop
<1>1. FlagsOK' BY DEF FlagsOK
<1>2. KernelOK' BY DEF KernelOK
<1>3. TablesOK' BY DEF KernelOK, TablesOK, ListenOK
<1>4. ChainsOK' BY DEF ChainsOK
<1>5. PendingOK' BY DEF PendingOK, TablesOK, ResponderOK
<1>6. ControlOK' BY DEF ControlOK
<1>7. BytesInv'
  BY DEF KernelOK, TablesOK, BytesInv, RecordInv, ListenInv, ResponderInv, Open
<1>8. RecordInv' BY DEF KernelOK, TablesOK, ListenOK, RecordInv, ListenInv, Open
<1>9. ListenInv' BY DEF KernelOK, TablesOK, ListenOK, RecordInv, ListenInv, Open
<1>10. QED BY <1>1, <1>2, <1>3, <1>4, <1>5, <1>6, <1>7, <1>8, <1>9, Frame

\* start_listening() starting both threads again.
LEMMA StartListeningStep ==
  ASSUME NetAssumption, IInv, StartListening
  PROVE  IInv'
<1> USE NetAssumption DEF NetAssumption, IInv, TypeOK, StartListening
<1>1. FlagsOK' BY DEF FlagsOK
<1>2. ListenOK' BY DEF ListenOK, KernelOK, TablesOK
<1>3. ResponderOK' BY DEF ChainsOK, ResponderOK, TablesOK
<1>4. ControlOK' BY DEF ControlOK
<1>5. RecordInv' BY DEF KernelOK, TablesOK, ListenOK, RecordInv, ListenInv, Open
<1>6. ListenInv' BY DEF KernelOK, TablesOK, ListenOK, RecordInv, ListenInv, Open
<1>7. ResponderInv' BY DEF BytesInv, RecordInv, ResponderInv
<1>8. QED BY <1>1, <1>2, <1>3, <1>4, <1>5, <1>6, <1>7, Frame

\* The invariant holds in every state of the server, for any number of
\* connections, fds and messages and any pending limit.
THEOREM Safety == Spec => []IInv
<1>1. Init => IInv
  <2> SUFFICES ASSUME Init PROVE IInv
    OBVIOUS
  <2> USE NetAssumption DEF NetAssumption, Init
  <2>1. FlagsOK BY DEF FlagsOK
  <2>2. KernelOK BY DEF KernelOK
  <2>3. ListenOK /\ TablesOK /\ ChainsOK
    BY DEF ListenOK, TablesOK, ChainsOK
  <2>4. PendingOK /\ ResponderOK /\ ControlOK
    BY DEF PendingOK, ResponderOK, ControlOK
  <2>5. BytesInv BY DEF BytesInv, Open
  <2>6. RecordInv BY DEF RecordInv
  <2>7. ListenInv BY DEF ListenInv
  <2>8. ResponderInv BY DEF ResponderInv
  <2>9. QED
    BY <2>1, <2>2, <2>3, <2>4, <2>5, <2>6, <2>7, <2>8 DEF IInv, TypeOK
<1>2. IInv /\ [Next]_vars => IInv'
  <2> SUFFICES ASSUME IInv, [Next]_vars PROVE IInv'
    OBVIOUS
  <2> USE NetAssumption
  <2>1. CASE UNCHANGED vars
    BY <2>1, Frame DEF vars, IInv, TypeOK
  <2>2. CASE Client
    BY <2>2, ConnectStep, ClientSendStep, ClientGoneStep DEF Client
  <2>3. CASE Answer \/ Lose
    BY <2>3, AnswerStep, LoseStep
  <2>4. CASE ListenThread
    BY <2>4, SelectReadyStep, SelectTimeoutStep, SelectStopStep, ScanEndStep,
       HandleWakeStep, AcceptStep, AcceptEndStep, RecvStep, RecvEmptyStep,
       RecvEofStep, QueueStartStep, QueueTakeStep, QueueNoMemoryStep,
       NotifyStep,
       ReturnToRecvStep, ResumeStep, ReturnToResumeStep, ErasePendingStep,
       DeregisterStep, CloseFdStep
    DEF ListenThread
  <2>5. CASE ResponseThread
    BY <2>5, ResponderWakesStep, GetResponseStep, DupIfSameClientStep,
       SendStep, DropMarkStep, DropShutdownStep, ResponseDoneStep,
       ResponderWritesStep, ResponderExitsStep
    DEF ResponseThread
  <2>6. CASE StopReceiving \/ StopListening \/ StartListening
    BY <2>6, StopReceivingStep, StopResponderStep, CleanupStep,
       StartListeningStep
    DEF StopListening
  <2>7. QED
    BY <2>1, <2>2, <2>3, <2>4, <2>5, <2>6 DEF Next
<1>3. QED
  BY <1>1, <1>2, PTL DEF Spec

\* Types hold, and the pending counter of a connection never exceeds
\* AD_NET_SERVER_MAX_PENDING_PER_CONN (queue_framed_requests()).
THEOREM TypeCorrect == Spec => []TypeOK
<1>1. IInv => TypeOK
  BY DEF IInv
<1>2. QED
  BY <1>1, Safety, PTL

\* Whatever is read from a connection is only ever answered on that connection,
\* however often its fd number is reused (dup_if_same_client(),
\* close_connection()).
THEOREM AnswersReachTheirClient == Spec => []RightClient
<1>1. IInv => RightClient
  BY DEF IInv, BytesInv, RightClient, MessageOf
<1>2. QED
  BY <1>1, Safety, PTL

HIDE DEF Conns
-----------------------------------------------------------------------------
(* EveryFdWatched                                                          *)

\* Who moves fds between the sets: only the listen thread.
watch == <<sockConn, master, pausedFds, lpc, lfd, lret, working, todo>>

\* Steps that leave the listen thread's sets alone.
LEMMA WatchFrame == ASSUME WatchInv, UNCHANGED watch PROVE WatchInv'
BY DEF watch, WatchInv, Moving, Open

\* The other threads and the clients do.
LEMMA OthersWatch ==
  ASSUME Client \/ Answer \/ Lose \/ ResponseThread \/ StopReceiving \/ StopResponder
           \/ Notify \/ UNCHANGED vars
  PROVE  UNCHANGED watch
<1> USE DEF watch
<1>1. Client => UNCHANGED watch
  BY DEF Client, Connect, ClientSend, ClientGone
<1>2. ResponseThread => UNCHANGED watch
  BY DEF ResponseThread, ResponderWakes, GetResponse, DupIfSameClient, Send,
     DropMark, DropShutdown, ResponseDone, ResponderWrites, ResponderExits
<1>3. Answer \/ Lose \/ Notify \/ StopReceiving \/ StopResponder => UNCHANGED watch
  BY DEF Answer, Lose, Notify, StopReceiving, StopResponder
<1>4. UNCHANGED vars => UNCHANGED watch
  BY DEF vars
<1> QED  BY <1>1, <1>2, <1>3, <1>4

\* Every step keeps what the listen thread moves where it expects it.
LEMMA WatchStep ==
  ASSUME IInv, WatchInv, [Next]_vars PROVE WatchInv'
<1>0. /\ master \subseteq Fds /\ pausedFds \subseteq Fds /\ todo \subseteq Fds
      /\ master \cup pausedFds \cup todo \subseteq Open
      /\ 0 \notin Fds /\ 1 \notin Fds
      /\ lret \in {"recv", "resume"}
  BY NetAssumption DEF IInv, TypeOK, TablesOK, ListenOK, ListenInv
<1>1. CASE SelectReady
  <2>1. Ready \cap Fds \subseteq master
    BY <1>0 DEF Ready
  <2> QED  BY <1>1, <2>1 DEF SelectReady, WatchInv, Moving, Open
<1>2. CASE SelectTimeout \/ SelectStop \/ ScanEnd \/ AcceptEnd \/ HandleWake
  <2> USE DEF WatchInv, Moving, Open
  <2>1. CASE SelectTimeout
    BY <2>1 DEF SelectTimeout
  <2>2. CASE SelectStop \/ ScanEnd
    BY <2>2 DEF SelectStop, ScanEnd
  <2>3. CASE AcceptEnd
    BY <2>3 DEF AcceptEnd
  <2>4. CASE HandleWake
    BY <2>4 DEF HandleWake, Handling
  <2> QED  BY <1>2, <2>1, <2>2, <2>3, <2>4
<1>3. CASE Accept
  <2>1. PICK c \in Backlog :
          \/ \E fd \in FreeFds :
               /\ sockConn' = [sockConn EXCEPT ![fd] = c]
               /\ master' = master \cup {fd}
          \/ UNCHANGED <<sockConn, master>>
    BY <1>3 DEF Accept
  <2>2. UNCHANGED <<pausedFds, lpc, lfd, lret, working, todo>> /\ lpc = "scan"
    BY <1>3 DEF Accept, Handling
  <2>3. CASE UNCHANGED <<sockConn, master>>
    BY <2>2, <2>3, WatchFrame DEF watch
  <2>4. ASSUME NEW fd \in FreeFds, sockConn' = [sockConn EXCEPT ![fd] = c],
               master' = master \cup {fd}
        PROVE  WatchInv'
    <3>1. fd \in Fds /\ fd \notin Open /\ fd \notin pausedFds
      BY <1>0 DEF FreeFds, Open
    <3>2. \A g \in Fds : g # fd => sockConn'[g] = sockConn[g]
      BY <2>4, <3>1 DEF IInv, TypeOK, KernelOK
    <3>3. \A g \in Open' : g = fd \/ g \in Open
      BY <3>2 DEF Open
    <3> QED  BY <2>2, <2>4, <3>1, <3>3 DEF WatchInv, Moving
  <2> QED  BY <2>1, <2>3, <2>4
<1>4. CASE \E fd \in Fds : Recv(fd) \/ RecvEmpty(fd) \/ RecvEof(fd)
  BY <1>4 DEF Recv, RecvEmpty, RecvEof, Handling, WatchInv, Moving, Open
<1>5. CASE QueueStart \/ QueueTake \/ QueueNoMemory
  <2>1. /\ UNCHANGED <<sockConn, master, pausedFds, lfd, lret, working, todo>>
        /\ lpc \in {"queue", "take"} /\ lpc' \in {"take", "notify"}
    BY <1>5 DEF QueueStart, QueueTake, QueueNoMemory
  <2> QED  BY <2>1 DEF WatchInv, Moving, Open
<1>6. CASE ReturnToRecv
  BY <1>0, <1>6 DEF ReturnToRecv, ReturnPaused, WatchInv, Moving, Open
<1>7. CASE Resume
  <2>1. \/ UNCHANGED <<lpc, lfd, lret, pausedFds>> /\ todo' \subseteq todo
        \/ \E fd \in todo : /\ pausedFds' = pausedFds \ {fd} /\ lfd' = fd
                            /\ lret' = "resume" /\ lpc' = "queue" /\ todo' = todo
    BY <1>7 DEF Resume, AfterResume
  <2>2. lpc = "resume" /\ UNCHANGED <<sockConn, working, master>>
    BY <1>7 DEF Resume
  <2> QED  BY <1>0, <2>1, <2>2 DEF WatchInv, Moving, Open
<1>8. CASE ReturnToResume
  <2>1. lfd \in Open /\ Moving(lfd)
    BY <1>8 DEF ReturnToResume, IInv, ListenInv, Moving
  <2> QED
    BY <1>0, <1>8, <2>1 DEF ReturnToResume, WatchInv, Moving, Open
<1>9. CASE ErasePending \/ Deregister
  BY <1>0, <1>9 DEF ErasePending, Deregister, WatchInv, Moving, Open
<1>10. CASE CloseFd
  <2>1. lfd \in Open /\ lfd \in Fds
    BY <1>10 DEF CloseFd, IInv, ListenInv, Open
  <2>2. /\ \A fd \in Fds : fd # lfd => sockConn'[fd] = sockConn[fd]
        /\ sockConn'[lfd] = None
    BY <1>10, <2>1 DEF CloseFd, IInv, TypeOK, KernelOK
  <2>3. Open' = Open \ {lfd}
    BY <2>1, <2>2 DEF Open
  <2> QED  BY <1>10, <2>3 DEF CloseFd, WatchInv, Moving
<1>11. CASE Cleanup
  <2>1. lpc = "exit" /\ working = {} /\ UNCHANGED <<lpc, lfd, lret, working, todo>>
    BY <1>11 DEF Cleanup, IInv, ListenInv
  <2>2. Open' = {}
    BY <1>11, <2>1 DEF Cleanup, ClosedByStop, WatchInv, Moving, Open
  <2> QED  BY <2>1, <2>2 DEF WatchInv, Moving
<1>12. CASE StartListening
  BY <1>12 DEF StartListening, IInv, ListenInv, WatchInv, Moving, Open
<1> QED
  BY <1>1, <1>2, <1>3, <1>4, <1>5, <1>6, <1>7, <1>8, <1>9, <1>10, <1>11, <1>12,
     OthersWatch, WatchFrame DEF Next, ListenThread, StopListening

-----------------------------------------------------------------------------
(* StopLeavesNothing                                                       *)

\* The steps that matter to a stopped server.
LEMMA FreeStep ==
  ASSUME IInv, WatchInv, FreeInv, [Next]_vars PROVE FreeInv'
<1> DEFINE free == <<sockConn, framer, cpc, entries, rpc>>
<1>0. UNCHANGED free => FreeInv'
  BY DEF FreeInv, Open
<1>1. /\ cpc = "down" => lpc = "exit" /\ rpc = "off" /\ Open = {}
      /\ cpc = "down" => entries = {}
      /\ \A fd \in Fds : sockConn[fd] = None => framer[fd] = <<>>
  BY DEF IInv, ListenInv, FreeInv
<1>2. /\ framer \in [Fds -> Seq(Message)]
      /\ sockConn \in [Fds -> Conns \cup {None}]
  BY DEF IInv, TypeOK, TablesOK, KernelOK
<1>3. CASE Client \/ Answer \/ Lose \/ UNCHANGED vars
  BY <1>0, <1>3 DEF vars, Client, Connect, ClientSend, ClientGone, Answer, Lose
<1>4. CASE ListenThread
  <2>1. cpc # "down" /\ cpc' = cpc
    BY <1>1, <1>4 DEF ListenThread, SelectReady, SelectTimeout, SelectStop,
       ScanEnd, HandleWake, Accept, AcceptEnd, Recv, RecvEmpty, RecvEof,
       QueueStart, QueueTake, QueueNoMemory, Notify, ReturnToRecv, Resume,
       ReturnToResume, ErasePending, Deregister, CloseFd, Handling
  <2>2. SUFFICES \A fd \in Fds : sockConn'[fd] = None => framer'[fd] = <<>>
    BY <2>1 DEF FreeInv
  <2>3. CASE UNCHANGED <<sockConn, framer>>
    BY <1>1, <2>3
  <2>4. CASE Accept
    BY <1>1, <1>2, <2>4 DEF Accept, FreeFds
  <2>5. ASSUME NEW fd \in Fds, Recv(fd)
        PROVE  \A g \in Fds : sockConn'[g] = None => framer'[g] = <<>>
    <3>1. sockConn[fd] # None /\ sockConn' = sockConn
      BY <2>5 DEF Recv, Handling, IInv, ListenInv, Open
    <3>2. \A g \in Fds : g # fd => framer'[g] = framer[g]
      BY <1>2, <2>5 DEF Recv
    <3> QED  BY <1>1, <3>1, <3>2
  <2>6. CASE QueueStart \/ QueueTake \/ QueueNoMemory
    <3>1. sockConn[lfd] # None /\ sockConn' = sockConn
      BY <2>6 DEF QueueStart, QueueTake, QueueNoMemory, IInv, ListenInv, Open
    <3>2. \A g \in Fds : g # lfd => framer'[g] = framer[g]
      BY <1>2, <2>6 DEF QueueStart, QueueTake, QueueNoMemory
    <3> QED  BY <1>1, <3>1, <3>2
  <2>7. CASE CloseFd
    BY <1>1, <1>2, <2>7 DEF CloseFd
  <2>8. UNCHANGED <<sockConn, framer>> \/ Accept \/ QueueStart \/ QueueTake
          \/ QueueNoMemory \/ CloseFd \/ \E fd \in Fds : Recv(fd)
    BY <1>4 DEF ListenThread, SelectReady, SelectTimeout, SelectStop, ScanEnd,
       HandleWake, AcceptEnd, RecvEmpty, RecvEof, Notify, ReturnToRecv, Resume,
       ReturnToResume, ErasePending, Deregister
  <2> QED  BY <2>3, <2>4, <2>5, <2>6, <2>7, <2>8
<1>5. CASE ResponseThread
  <2>1. rpc # "off" /\ UNCHANGED <<sockConn, framer, cpc>>
    BY <1>5 DEF ResponseThread, ResponderWakes, GetResponse, DupIfSameClient,
       Send, DropMark, DropShutdown, ResponseDone, ResponderWrites,
       ResponderExits
  <2> QED  BY <1>1, <2>1 DEF FreeInv
<1>6. CASE StopReceiving \/ StopResponder \/ StartListening
  BY <1>1, <1>6 DEF StopReceiving, StopResponder, StartListening, FreeInv
<1>7. CASE Cleanup
  <2>1. lpc = "exit" /\ rpc = "off" /\ rpc' = rpc
    BY <1>7 DEF Cleanup, IInv, ListenInv
  <2>2. \A fd \in Fds : fd \in Open => fd \in ClosedByStop
    BY <2>1 DEF ClosedByStop, WatchInv, Moving
  <2>3. \A fd \in Fds : sockConn'[fd] = None /\ framer'[fd] = <<>>
    BY <1>1, <1>7, <2>2 DEF Cleanup, Open
  <2>4. entries' = {}
    BY <1>7 DEF Cleanup
  <2> QED  BY <2>1, <2>3, <2>4 DEF FreeInv, Open
<1> QED
  BY <1>3, <1>4, <1>5, <1>6, <1>7 DEF Next, StopListening

-----------------------------------------------------------------------------
(* CountIsExact                                                            *)

\* The chains a request passes through on its way.
chains == <<requestChain, work, responseChain, rcur>>

\* A request moves on: handed to the consumer, answered, or taken by the
\* response thread.
LEMMA ChainTypes ==
  ASSUME IInv
  PROVE  /\ requestChain \in Seq(Request) /\ work \in Seq(Request)
         /\ responseChain \in Seq(Request)
         /\ \A req \in Request : req.cltid \in Conns
BY DEF IInv, TypeOK, ChainsOK, Request

\* notify_data_arrival() hands a request over, or answers it, or loses the
\* answer.
LEMMA NotifyMoves ==
  ASSUME IInv, Notify
  PROVE  LET req == Head(requestChain)
         IN  /\ requestChain # <<>> /\ req \in Request
             /\ requestChain' = Tail(requestChain) /\ rcur' = rcur
             /\ \/ /\ work' = Append(work, req)
                   /\ UNCHANGED <<responseChain, lost>>
                \/ /\ responseChain' = Append(responseChain, req)
                   /\ UNCHANGED <<work, lost>>
                \/ LoseReply(req) /\ UNCHANGED <<work, responseChain>>
<1>1. requestChain \in Seq(Request) /\ requestChain # <<>>
  BY ChainTypes DEF Notify
<1> QED  BY <1>1 DEF Notify, ScheduleResponse

\* The consumer answers a request, or its answer is lost.
LEMMA AnswerMoves ==
  ASSUME IInv, Answer
  PROVE  LET req == Head(work)
         IN  /\ work # <<>> /\ req \in Request /\ work' = Tail(work)
             /\ UNCHANGED <<requestChain, rcur>>
             /\ \/ responseChain' = Append(responseChain, req) /\ lost' = lost
                \/ LoseReply(req) /\ UNCHANGED responseChain
<1>1. work \in Seq(Request) /\ work # <<>>
  BY ChainTypes DEF Answer
<1> QED  BY <1>1 DEF Answer, ScheduleResponse

\* No step makes a connection new again or gives a new one a request, and only
\* a request that was queued can be lost.
LEMMA QueuedStep ==
  ASSUME IInv, IdentInv, Answer \/ Lose \/ Notify
  PROVE  /\ Queued' \subseteq Queued
         /\ lost' = lost \/ \E req \in Queued : LoseReply(req)
<1>1. CASE Answer
  <2>1. /\ work # <<>> /\ Head(work) \in Request /\ work' = Tail(work)
        /\ requestChain' = requestChain
        /\ \/ /\ responseChain' = Append(responseChain, Head(work))
              /\ lost' = lost
           \/ LoseReply(Head(work)) /\ responseChain' = responseChain
    BY <1>1, AnswerMoves
  <2>2. Range(work) = Range(Tail(work)) \cup {Head(work)}
    BY <2>1, ChainTypes, GetRange
  <2>3. Range(Append(responseChain, Head(work))) =
           Range(responseChain) \cup {Head(work)}
    BY <2>1, ChainTypes, PutRange
  <2> QED  BY <2>1, <2>2, <2>3 DEF Queued
<1>2. CASE Notify
  <2>1. /\ requestChain # <<>> /\ Head(requestChain) \in Request
        /\ requestChain' = Tail(requestChain)
        /\ \/ /\ work' = Append(work, Head(requestChain))
              /\ responseChain' = responseChain /\ lost' = lost
           \/ /\ work' = work /\ lost' = lost
              /\ responseChain' = Append(responseChain, Head(requestChain))
           \/ /\ work' = work /\ responseChain' = responseChain
              /\ LoseReply(Head(requestChain))
    BY <1>2, NotifyMoves
  <2>2. Range(requestChain) = Range(Tail(requestChain)) \cup {Head(requestChain)}
    BY <2>1, ChainTypes, GetRange
  <2>3. /\ Range(Append(responseChain, Head(requestChain))) =
              Range(responseChain) \cup {Head(requestChain)}
        /\ Range(Append(work, Head(requestChain))) =
              Range(work) \cup {Head(requestChain)}
    BY <2>1, ChainTypes, PutRange
  <2> QED  BY <2>1, <2>2, <2>3 DEF Queued
<1>3. CASE Lose
  <2>1. PICK i \in DOMAIN work : work' = RemoveAt(work, i) /\ LoseReply(work[i])
    BY <1>3 DEF Lose
  <2>2. UNCHANGED <<requestChain, responseChain>>
    BY <1>3 DEF Lose
  <2>3. Range(work) = Range(RemoveAt(work, i)) \cup {work[i]}
    BY ChainTypes, RemovedAt
  <2> QED  BY <2>1, <2>2, <2>3 DEF Queued
<1> QED  BY <1>1, <1>2, <1>3

\* An ident stays with its connection.
LEMMA IdentStep ==
  ASSUME IInv, FreeInv, IdentInv, [Next]_vars PROVE IdentInv'
<1> DEFINE rest == <<sockConn, requestChain, work, responseChain, rcur, count,
                     entries, lost>>
<1>0. /\ peer \in [Conns -> {"absent", "backlog", "open", "fin", "reset",
                             "closed"}]
      /\ sockConn \in [Fds -> Conns \cup {0}] /\ count \in [Conns -> 0..MaxPending]
      /\ MaxPending \in Nat /\ 0 \notin Conns
  BY NetAssumption DEF IInv, TypeOK, KernelOK, PendingOK, Conns
<1>1. ASSUME New' \subseteq New, UNCHANGED rest,
             UNCHANGED rpc \/ (rpc' \in {"idle", "get", "wake", "off"}
                                 => rcur = NoResponse)
      PROVE  IdentInv'
  BY <1>1 DEF IdentInv, Queued, Open
<1>2. CASE Client
  <2>1. New' \subseteq New
    BY <1>0, <1>2 DEF Client, Connect, ClientSend, ClientGone, New
  <2>2. UNCHANGED rest /\ UNCHANGED rpc
    BY <1>2 DEF Client, Connect, ClientSend, ClientGone
  <2> QED  BY <1>1, <2>1, <2>2
<1>3. CASE Answer \/ Lose \/ Notify
  <2>1. UNCHANGED <<peer, sockConn, rcur, count, entries, rpc>>
    BY <1>3 DEF Answer, Lose, Notify
  <2>2. /\ Queued' \subseteq Queued
        /\ lost' = lost \/ \E req \in Queued : LoseReply(req)
    BY <1>3, QueuedStep
  <2>3. \A c \in New : lost'[c] = lost[c]
    <3>1. lost \in [Conns -> Nat] /\ New \subseteq Conns
      BY DEF IInv, TypeOK, ChainsOK, New
    <3>2. ASSUME NEW req \in Queued, LoseReply(req)
          PROVE  \A c \in New : lost'[c] = lost[c]
      <4>1. req.cltid \notin New
        BY DEF IdentInv
      <4> QED  BY <3>1, <3>2, <4>1 DEF LoseReply
    <3> QED  BY <2>2, <3>2
  <2> QED  BY <2>1, <2>2, <2>3 DEF IdentInv, Open, New
<1>4. CASE Accept
  <2>1. PICK c \in Backlog :
          \/ \E fd \in FreeFds : /\ sockConn' = [sockConn EXCEPT ![fd] = c]
                                 /\ peer' = [peer EXCEPT ![c] = "open"]
          \/ peer' = [peer EXCEPT ![c] = "reset"] /\ sockConn' = sockConn
    BY <1>4 DEF Accept
  <2>2. UNCHANGED <<requestChain, work, lost, responseChain, rcur, count, entries,
                  rpc>>
    BY <1>4 DEF Accept
  <2>3. c \in New /\ c \in Conns
    BY DEF Backlog, New
  <2>4. New' = New \ {c}
    BY <1>0, <2>1, <2>3 DEF New
  <2>5. CASE sockConn' = sockConn
    BY <1>1, <2>2, <2>4, <2>5
  <2>6. ASSUME NEW fd \in FreeFds, sockConn' = [sockConn EXCEPT ![fd] = c]
        PROVE  IdentInv'
    <3>1. /\ fd \in Fds /\ fd \notin Open /\ sockConn'[fd] = c /\ c # 0
          /\ \A g \in Fds : g # fd => sockConn'[g] = sockConn[g]
      BY <1>0, <2>3, <2>6 DEF FreeFds, Open
    <3>2. \A g \in Open' : g = fd \/ (g \in Open /\ sockConn'[g] = sockConn[g])
      BY <3>1 DEF Open
    <3>3. \A g \in Open : sockConn[g] # c
      BY <2>3 DEF IdentInv
    <3>4. \A g, h \in Open' : sockConn'[g] = sockConn'[h] => g = h
      BY <3>1, <3>2, <3>3 DEF IdentInv
    <3>5. \A g \in Open' : sockConn'[g] \notin New'
      BY <2>4, <3>1, <3>2 DEF IdentInv
    <3> QED  BY <2>2, <2>4, <3>4, <3>5 DEF IdentInv, Queued
  <2> QED  BY <2>1, <2>5, <2>6
<1>5. CASE QueueTake
  <2> DEFINE c == clientInfo[lfd]
             req == [fd |-> lfd, cltid |-> c, orig |-> Head(framer[lfd]).orig,
                     n |-> Head(framer[lfd]).n]
  <2>1. /\ UNCHANGED <<peer, sockConn, work, lost, responseChain, rcur, rpc>>
        /\ entries' = entries \cup {c}
        /\ \/ UNCHANGED <<count, requestChain>>
           \/ /\ count' = [count EXCEPT ![c] = @ + 1]
              /\ requestChain' = Append(requestChain, req)
    BY <1>5 DEF QueueTake
  <2>2. c \in Conns /\ c \notin New
    <3>1. lpc = "take"
      BY <1>5 DEF QueueTake
    <3>2. lfd \in Open /\ lfd \in Fds /\ c = sockConn[lfd] /\ c # 0
      BY <3>1 DEF IInv, ListenInv, RecordInv, Open
    <3> QED  BY <1>0, <3>2 DEF IdentInv
  <2>3. \A r \in Queued' : r \in Queued \/ r.cltid = c
    <3>1. Range(Append(requestChain, req)) = Range(requestChain) \cup {req}
      <4>1. req \in {req} \cup Request /\ requestChain \in Seq({req} \cup Request)
        BY ChainTypes
      <4> HIDE DEF req
      <4> QED  BY <4>1, PutRange
    <3>2. req.cltid = c
      OBVIOUS
    <3> QED  BY <2>1, <3>1, <3>2 DEF Queued
  <2>4. \A d \in Conns : d # c => count'[d] = count[d]
    BY <1>0, <2>1
  <2> QED  BY <2>1, <2>2, <2>3, <2>4 DEF IdentInv, Open, New
<1>6. CASE ErasePending \/ QueueNoMemory
  <2>1. CASE ErasePending
    BY <1>0, <2>1 DEF ErasePending, IdentInv, Queued, Open, New
  <2>2. CASE QueueNoMemory
    BY <2>2 DEF QueueNoMemory, IdentInv, Queued, Open, New
  <2> QED  BY <1>6, <2>1, <2>2
<1>7. CASE CloseFd
  <2>1. lfd \in Fds /\ sockConn[lfd] \in Conns
    BY <1>0, <1>7 DEF CloseFd, IInv, ListenInv, Open
  <2>2. New' \subseteq New
    BY <1>0, <1>7, <2>1 DEF CloseFd, New
  <2>3. \A fd \in Open' : fd \in Open /\ sockConn'[fd] = sockConn[fd]
    BY <1>0, <1>7, <2>1 DEF CloseFd, Open
  <2>4. UNCHANGED <<requestChain, work, lost, responseChain, rcur, count, entries,
                  rpc>>
    BY <1>7 DEF CloseFd
  <2> QED  BY <2>2, <2>3, <2>4 DEF IdentInv, Queued
<1>8. CASE GetResponse
  <2>1. CASE responseChain = <<>>
    BY <1>1, <1>8, <2>1 DEF GetResponse, IdentInv, New
  <2>2. CASE responseChain # <<>>
    <3>1. /\ responseChain' = Tail(responseChain) /\ rcur' = Head(responseChain)
          /\ rpc' \in {"done", "dup"}
          /\ UNCHANGED <<peer, sockConn, requestChain, work, lost, count, entries>>
      BY <1>8, <2>2 DEF GetResponse
    <3>2. Range(responseChain) = Range(Tail(responseChain)) \cup {Head(responseChain)}
      BY <2>2, ChainTypes, GetRange
    <3>3. Queued' \cup {rcur'} \subseteq Queued
      BY <3>1, <3>2 DEF Queued
    <3> QED  BY <3>1, <3>3 DEF IdentInv, Open, New
  <2> QED  BY <2>1, <2>2
<1>9. CASE ResponseDone
  <2> DEFINE c == rcur.cltid
  <2>1. /\ UNCHANGED <<peer, sockConn, requestChain, work, lost, responseChain,
                       entries>>
        /\ rcur' = NoResponse
        /\ count' = [count EXCEPT ![c] = IF c \in entries THEN Release(c) ELSE @]
    BY <1>9 DEF ResponseDone
  <2>2. c \in Conns
    BY <1>9 DEF ResponseDone, IInv, ResponderInv, Matched, Request
  <2>3. \A d \in Conns : count'[d] <= count[d]
    BY <1>0, <2>1, <2>2 DEF Release
  <2>4. count' \in [Conns -> Nat]
    BY <1>0, <2>1, <2>2 DEF Release
  <2>5. NoResponse.cltid \notin New'
    BY <1>0 DEF NoResponse, New
  <2>6. \A d \in Conns : (count[d] = 0 => count'[d] = 0)
                        /\ (count'[d] > 0 => count[d] > 0)
    BY <1>0, <2>3, <2>4
  <2> QED  BY <2>1, <2>5, <2>6 DEF IdentInv, Queued, Open, New
<1>10. CASE DropMark
  BY <1>10 DEF DropMark, IdentInv, Queued, Open, New
<1>11. CASE Cleanup
  <2>1. New' \subseteq New
    BY <1>0, <1>11 DEF Cleanup, New
  <2>2. \A fd \in Open' : fd \in Open /\ sockConn'[fd] = sockConn[fd]
    BY <1>11 DEF Cleanup, Open
  <2>3. Queued' \subseteq Queued
    BY <1>11 DEF Cleanup, Queued, Range
  <2>4. \A c \in Conns : count'[c] = 0
    BY <1>11 DEF Cleanup
  <2>5. UNCHANGED <<rcur, rpc, lost>>
    BY <1>11 DEF Cleanup
  <2>6. /\ \A c \in New' : count'[c] = 0
        /\ \A c \in Conns : ~(count'[c] > 0)
    BY <2>4 DEF New
  <2> QED  BY <2>1, <2>2, <2>3, <2>5, <2>6 DEF IdentInv
<1>12. CASE StartListening
  BY <1>1, <1>12 DEF StartListening, New, FreeInv, IdentInv
<1>13. CASE ResponderWakes \/ DupIfSameClient \/ Send \/ DropShutdown
              \/ ResponderWrites \/ ResponderExits
  <2>1. UNCHANGED rest /\ UNCHANGED peer
    BY <1>13 DEF ResponderWakes, DupIfSameClient, Send, DropShutdown,
       ResponderWrites, ResponderExits
  <2>2. rpc' \in {"idle", "get", "wake", "off"} => rpc \in {"idle", "get", "wake", "off"}
    BY <1>13 DEF ResponderWakes, DupIfSameClient, Send, DropShutdown,
       ResponderWrites, ResponderExits
  <2> QED  BY <1>1, <2>1, <2>2 DEF IdentInv, New
<1>14. ASSUME UNCHANGED rest, UNCHANGED <<peer, rpc>> PROVE IdentInv'
  BY <1>1, <1>14 DEF New
<1>15. CASE UNCHANGED vars \/ StopReceiving \/ StopResponder
  BY <1>14, <1>15 DEF vars, StopReceiving, StopResponder
<1>16. CASE ListenThread /\ ~Accept /\ ~QueueTake /\ ~QueueNoMemory /\ ~Notify
               /\ ~ErasePending /\ ~CloseFd
  BY <1>14, <1>16 DEF ListenThread, SelectReady, SelectTimeout, SelectStop,
     ScanEnd, HandleWake, AcceptEnd, Recv, RecvEmpty, RecvEof, QueueStart,
     ReturnToRecv, Resume, ReturnToResume, Deregister
<1> QED
  BY <1>2, <1>3, <1>4, <1>5, <1>6, <1>7, <1>8, <1>9, <1>10, <1>11, <1>12, <1>13,
     <1>15, <1>16 DEF Next, ResponseThread, StopListening

\* What Of() counts, for a chain of elements of S.
LEMMA OfIsPlaces ==
  ASSUME NEW S, NEW s \in Seq(S), NEW c, NEW T, T = {x \in S : x.cltid = c}
  PROVE  Of(c, s) = Cardinality(Places(s, T)) /\ Of(c, s) \in Nat
<1>1. \A i \in DOMAIN s : s[i] \in S
  OBVIOUS
<1>2. {i \in DOMAIN s : s[i].cltid = c} = Places(s, T)
  BY <1>1 DEF Places
<1>3. Cardinality(Places(s, T)) \in Nat
  BY PlacesFinite
<1> QED  BY <1>2, <1>3 DEF Of

\* It is a number.
LEMMA OfType ==
  ASSUME NEW S, NEW s \in Seq(S), NEW c PROVE Of(c, s) \in Nat
<1>1. PICK T : T = {x \in S : x.cltid = c}
  OBVIOUS
<1> QED  BY <1>1, OfIsPlaces

\* A chain_put() adds the request to its connection's count.
LEMMA OfPut ==
  ASSUME NEW S, NEW s \in Seq(S), NEW e \in S, NEW c
  PROVE  Of(c, Append(s, e)) = IF e.cltid = c THEN Of(c, s) + 1 ELSE Of(c, s)
<1>1. PICK T : T = {x \in S : x.cltid = c}
  OBVIOUS
<1>0. Append(s, e) \in Seq(S)
  OBVIOUS
<1>2. PICK u \in Seq(S) : u = Append(s, e)
  BY <1>0
<1>3. Of(c, u) = Cardinality(Places(u, T)) /\ Of(c, s) = Cardinality(Places(s, T))
  BY <1>1, OfIsPlaces
<1>4. e \in T <=> e.cltid = c
  BY <1>1
<1> QED  BY <1>2, <1>3, <1>4, PutCount

\* A chain_get() takes it off.
LEMMA OfGet ==
  ASSUME NEW S, NEW s \in Seq(S), NEW c, s # <<>>
  PROVE  /\ Head(s) \in S /\ Tail(s) \in Seq(S)
         /\ Of(c, s) = IF Head(s).cltid = c THEN Of(c, Tail(s)) + 1
                                            ELSE Of(c, Tail(s))
<1>1. PICK T : T = {x \in S : x.cltid = c}
  OBVIOUS
<1>2. Head(s) \in S /\ Tail(s) \in Seq(S)
  OBVIOUS
<1>3. PICK u \in Seq(S) : u = Tail(s)
  BY <1>2
<1>4. Of(c, u) = Cardinality(Places(u, T)) /\ Of(c, s) = Cardinality(Places(s, T))
  BY <1>1, OfIsPlaces
<1>5. Head(s) \in T <=> Head(s).cltid = c
  BY <1>1, <1>2
<1> QED  BY <1>2, <1>3, <1>4, <1>5, GetCount

\* So does a removal from the middle.
LEMMA OfRemove ==
  ASSUME NEW s \in Seq(Request), NEW c, NEW k \in DOMAIN s
  PROVE  /\ s[k] \in Request /\ RemoveAt(s, k) \in Seq(Request)
         /\ Of(c, s) = IF s[k].cltid = c THEN Of(c, RemoveAt(s, k)) + 1
                                         ELSE Of(c, RemoveAt(s, k))
<1>1. PICK T : T = {x \in Request : x.cltid = c}
  OBVIOUS
<1>2. s[k] \in Request /\ RemoveAt(s, k) \in Seq(Request)
  BY RemovedAt
<1>3. PICK u \in Seq(Request) : u = RemoveAt(s, k)
  BY <1>2
<1>4. Of(c, u) = Cardinality(Places(u, T)) /\ Of(c, s) = Cardinality(Places(s, T))
  BY <1>1, OfIsPlaces
<1>5. s[k] \in T <=> s[k].cltid = c
  BY <1>1, <1>2
<1> QED  BY <1>2, <1>3, <1>4, <1>5, RemovedCount

\* A new connection has no request anywhere.
LEMMA NewHasNone ==
  ASSUME IInv, IdentInv, NEW c \in New PROVE Unanswered(c) = 0
<1>1. \A s \in {requestChain, work, responseChain} :
        \A i \in DOMAIN s : s[i].cltid # c
  BY DEF IdentInv, Queued, Range
<1>2. \A s \in {requestChain, work, responseChain} :
        {i \in DOMAIN s : s[i].cltid = c} = {}
  BY <1>1
<1>3. /\ Of(c, requestChain) = 0 /\ Of(c, work) = 0 /\ Of(c, responseChain) = 0
      /\ rcur.cltid # c
  BY <1>2, FS_EmptySet DEF Of, IdentInv
<1> QED  BY <1>3 DEF Unanswered

\* A request on its way stays counted, by its place or as a lost reply.
LEMMA MovesKeepCount ==
  ASSUME IInv, IdentInv, Answer \/ Lose \/ Notify \/ GetResponse,
         NEW c \in Conns
  PROVE  Unanswered(c)' + lost'[c] = Unanswered(c) + lost[c]
<1>0. /\ requestChain \in Seq(Request) /\ work \in Seq(Request)
      /\ responseChain \in Seq(Request)
      /\ lost \in [Conns -> Nat]
  BY ChainTypes DEF IInv, TypeOK, ChainsOK
<1>1. /\ Of(c, requestChain) \in Nat /\ Of(c, work) \in Nat
      /\ Of(c, responseChain) \in Nat
      /\ lost[c] \in Nat
  BY <1>0, OfType
<1>2. ASSUME NEW req \in Request, LoseReply(req)
      PROVE  lost'[c] = IF req.cltid = c THEN lost[c] + 1 ELSE lost[c]
  BY <1>0, <1>2 DEF LoseReply
<1>3. CASE Answer
  <2> DEFINE req == Head(work)
  <2>1. /\ work # <<>> /\ req \in Request /\ work' = Tail(work)
        /\ \/ responseChain' = Append(responseChain, req) /\ lost' = lost
           \/ LoseReply(req) /\ responseChain' = responseChain
        /\ requestChain' = requestChain /\ rcur' = rcur
    BY <1>3, AnswerMoves
  <2>2. /\ Tail(work) \in Seq(Request)
        /\ Of(c, work) = IF req.cltid = c THEN Of(c, Tail(work)) + 1
                                          ELSE Of(c, Tail(work))
    BY <1>0, <2>1, OfGet
  <2>3. Of(c, Append(responseChain, req)) =
          IF req.cltid = c THEN Of(c, responseChain) + 1
                           ELSE Of(c, responseChain)
    BY <1>0, <2>1, OfPut
  <2>4. Of(c, Tail(work)) \in Nat
    BY <2>2, OfType
  <2> HIDE DEF req
  <2>5. CASE responseChain' = Append(responseChain, req) /\ lost' = lost
    BY <1>1, <2>1, <2>2, <2>3, <2>4, <2>5 DEF Unanswered
  <2>6. CASE LoseReply(req) /\ responseChain' = responseChain
    <3>1. lost'[c] = IF req.cltid = c THEN lost[c] + 1 ELSE lost[c]
      BY <1>2, <2>1, <2>6
    <3>2. Unanswered(c)' = Of(c, requestChain) + Of(c, Tail(work))
            + Of(c, responseChain) + (IF rcur.cltid = c THEN 1 ELSE 0)
      BY <2>1, <2>6 DEF Unanswered
    <3>3. Unanswered(c) = Of(c, requestChain) + Of(c, work)
            + Of(c, responseChain) + (IF rcur.cltid = c THEN 1 ELSE 0)
      BY DEF Unanswered
    <3>4. PICK h \in Nat : h = IF rcur.cltid = c THEN 1 ELSE 0
      OBVIOUS
    <3>5. \/ Of(c, work) = Of(c, Tail(work)) + 1 /\ lost'[c] = lost[c] + 1
          \/ Of(c, work) = Of(c, Tail(work)) /\ lost'[c] = lost[c]
      BY <2>2, <3>1
    <3> QED  BY ONLY <1>1, <2>4, <3>2, <3>3, <3>4, <3>5, SMT
  <2> QED  BY <2>1, <2>5, <2>6
<1>4. CASE Notify
  <2> DEFINE req == Head(requestChain)
  <2>1. /\ requestChain # <<>> /\ req \in Request
        /\ requestChain' = Tail(requestChain) /\ rcur' = rcur
        /\ \/ work' = Append(work, req) /\ UNCHANGED <<responseChain, lost>>
           \/ responseChain' = Append(responseChain, req) /\ UNCHANGED <<work, lost>>
           \/ LoseReply(req) /\ UNCHANGED <<work, responseChain>>
    BY <1>4, NotifyMoves
  <2>2. /\ Tail(requestChain) \in Seq(Request)
        /\ Of(c, requestChain) = IF req.cltid = c THEN Of(c, Tail(requestChain)) + 1
                                                  ELSE Of(c, Tail(requestChain))
    BY <1>0, <2>1, OfGet
  <2>3. /\ Of(c, Append(responseChain, req)) =
             IF req.cltid = c THEN Of(c, responseChain) + 1 ELSE Of(c, responseChain)
        /\ Of(c, Append(work, req)) =
             IF req.cltid = c THEN Of(c, work) + 1 ELSE Of(c, work)
    BY <1>0, <2>1, OfPut
  <2>4. Of(c, Tail(requestChain)) \in Nat
    BY <2>2, OfType
  <2> HIDE DEF req
  <2>5. CASE work' = Append(work, req) /\ UNCHANGED <<responseChain, lost>>
    BY <1>1, <2>1, <2>2, <2>3, <2>4, <2>5 DEF Unanswered
  <2>6. CASE responseChain' = Append(responseChain, req) /\ UNCHANGED <<work, lost>>
    BY <1>1, <2>1, <2>2, <2>3, <2>4, <2>6 DEF Unanswered
  <2>7. CASE LoseReply(req) /\ UNCHANGED <<work, responseChain>>
    <3>1. lost'[c] = IF req.cltid = c THEN lost[c] + 1 ELSE lost[c]
      BY <1>2, <2>1, <2>7
    <3>2. Unanswered(c)' = Of(c, Tail(requestChain)) + Of(c, work)
            + Of(c, responseChain) + (IF rcur.cltid = c THEN 1 ELSE 0)
      BY <2>1, <2>7 DEF Unanswered
    <3>3. Unanswered(c) = Of(c, requestChain) + Of(c, work)
            + Of(c, responseChain) + (IF rcur.cltid = c THEN 1 ELSE 0)
      BY DEF Unanswered
    <3>4. PICK h \in Nat : h = IF rcur.cltid = c THEN 1 ELSE 0
      OBVIOUS
    <3>5. \/ Of(c, requestChain) = Of(c, Tail(requestChain)) + 1 /\ lost'[c] = lost[c] + 1
          \/ Of(c, requestChain) = Of(c, Tail(requestChain)) /\ lost'[c] = lost[c]
      BY <2>2, <3>1
    <3> QED  BY ONLY <1>1, <2>4, <3>2, <3>3, <3>4, <3>5, SMT
  <2> QED  BY <2>1, <2>5, <2>6, <2>7
<1>5. CASE Lose
  <2>1. PICK i \in DOMAIN work : work' = RemoveAt(work, i) /\ LoseReply(work[i])
    BY <1>5 DEF Lose
  <2>2. UNCHANGED <<requestChain, responseChain, rcur>>
    BY <1>5 DEF Lose
  <2> DEFINE left == RemoveAt(work, i)
  <2>3. /\ work[i] \in Request /\ left \in Seq(Request)
        /\ Of(c, work) = IF work[i].cltid = c THEN Of(c, left) + 1
                                              ELSE Of(c, left)
    BY <1>0, OfRemove
  <2>4. Of(c, left) \in Nat
    BY <2>3, OfType
  <2>5. lost'[c] = IF work[i].cltid = c THEN lost[c] + 1 ELSE lost[c]
    BY <1>2, <2>1, <2>3
  <2>6. work' = left
    BY <2>1
  <2> HIDE DEF left
  <2>7. Unanswered(c)' = Of(c, requestChain) + Of(c, left) + Of(c, responseChain)
                           + (IF rcur.cltid = c THEN 1 ELSE 0)
    BY <2>2, <2>6 DEF Unanswered
  <2>8. Unanswered(c) = Of(c, requestChain) + Of(c, work) + Of(c, responseChain)
                          + (IF rcur.cltid = c THEN 1 ELSE 0)
    BY DEF Unanswered
  <2>9. PICK h \in Nat : h = IF rcur.cltid = c THEN 1 ELSE 0
    OBVIOUS
  <2>10. \/ Of(c, work) = Of(c, left) + 1 /\ lost'[c] = lost[c] + 1
         \/ Of(c, work) = Of(c, left) /\ lost'[c] = lost[c]
    BY <2>3, <2>5
  <2> QED  BY ONLY <1>1, <2>4, <2>7, <2>8, <2>9, <2>10, SMT
<1>6. CASE GetResponse
  <2>1. CASE responseChain = <<>>
    BY <1>6, <2>1 DEF GetResponse, Unanswered
  <2>2. CASE responseChain # <<>>
    <3>1. /\ responseChain' = Tail(responseChain) /\ rcur' = Head(responseChain)
          /\ UNCHANGED <<requestChain, work, lost>>
      BY <1>6, <2>2 DEF GetResponse
    <3>2. /\ Head(responseChain) \in Request /\ Tail(responseChain) \in Seq(Request)
          /\ Of(c, responseChain) =
               IF Head(responseChain).cltid = c THEN Of(c, Tail(responseChain)) + 1
                                                ELSE Of(c, Tail(responseChain))
      BY <1>0, <2>2, OfGet
    <3>3. Of(c, Tail(responseChain)) \in Nat
      BY <3>2, OfType
    <3>4. rcur.cltid # c
      BY <1>6, NetAssumption DEF GetResponse, IdentInv, NoResponse, Conns
    <3> QED  BY <1>1, <3>1, <3>2, <3>3, <3>4 DEF Unanswered
  <2> QED  BY <2>1, <2>2
<1> QED  BY <1>3, <1>4, <1>5, <1>6

\* Steps that neither move a request nor count one, nor begin or end a
\* connection.
LEMMA CountFrame ==
  ASSUME CountIsExact, UNCHANGED <<clientInfo, count, lost, chains>>,
         \/ UNCHANGED <<lpc, lfd>>
         \/ lpc # "deregister" /\ lpc' # "deregister"
  PROVE  CountIsExact'
BY DEF CountIsExact, Serving, Closing, Unanswered, chains

\* The counter of every served connection stays exact.
LEMMA CountStep ==
  ASSUME IInv, IdentInv, CountIsExact, [Next]_vars PROVE CountIsExact'
<1>0. /\ count \in [Conns -> 0..MaxPending] /\ MaxPending \in Nat
      /\ clientInfo \in [Fds -> Conns \cup {0}] /\ 0 \notin Conns
      /\ lost \in [Conns -> Nat]
  BY NetAssumption DEF IInv, TypeOK, TablesOK, PendingOK, ChainsOK, Conns
<1>1. CASE Answer \/ Lose \/ Notify \/ GetResponse
  <2>1. UNCHANGED <<clientInfo, count, lpc, lfd>>
    BY <1>1 DEF Answer, Lose, Notify, GetResponse
  <2>2. \A c \in Conns : Unanswered(c)' + lost'[c] = Unanswered(c) + lost[c]
    BY <1>1, MovesKeepCount
  <2> QED  BY <2>1, <2>2 DEF CountIsExact, Serving, Closing
<1>2. CASE Accept
  <2>1. UNCHANGED <<count, lost, chains, lpc, lfd>> /\ lpc = "scan"
    BY <1>2 DEF Accept, Handling, chains
  <2>2. \/ UNCHANGED clientInfo
        \/ \E c \in New : \E fd \in Fds :
              clientInfo' = [clientInfo EXCEPT ![fd] = c]
    BY <1>2 DEF Accept, Backlog, New, FreeFds
  <2>3. CASE UNCHANGED clientInfo
    BY <2>1, <2>3, CountFrame
  <2>4. ASSUME NEW c \in New, NEW fd \in Fds,
               clientInfo' = [clientInfo EXCEPT ![fd] = c]
        PROVE  CountIsExact'
    <3>1. count[c] = 0 /\ lost[c] = 0 /\ Unanswered(c) = 0
      BY NewHasNone DEF IdentInv
    <3>2. ASSUME NEW d \in Conns, d # c, Serving(d)' PROVE Serving(d)
      BY <1>0, <2>1, <2>4, <3>2 DEF Serving, Closing
    <3>3. \A d \in Conns : Unanswered(d)' = Unanswered(d)
      BY <2>1 DEF Unanswered, chains
    <3> QED  BY <2>1, <3>1, <3>2, <3>3 DEF CountIsExact
  <2> QED  BY <2>2, <2>3, <2>4
<1>3. CASE QueueTake
  <2> DEFINE c == clientInfo[lfd]
             req == [fd |-> lfd, cltid |-> c, orig |-> Head(framer[lfd]).orig,
                     n |-> Head(framer[lfd]).n]
  <2>1. /\ UNCHANGED <<clientInfo, work, lost, responseChain, rcur, lfd>>
        /\ lpc = "take" /\ lpc' \in {"take", "notify"}
        /\ \/ UNCHANGED <<count, requestChain>>
           \/ /\ count' = [count EXCEPT ![c] = @ + 1]
              /\ requestChain' = Append(requestChain, req)
    BY <1>3 DEF QueueTake
  <2>2. CASE UNCHANGED <<count, requestChain>>
    BY <2>1, <2>2, CountFrame DEF chains
  <2>3. CASE /\ count' = [count EXCEPT ![c] = @ + 1]
             /\ requestChain' = Append(requestChain, req)
    <3>1. PICK S : requestChain \in Seq(S) /\ req \in S
      <4>1. requestChain \in Seq({req} \cup Request)
        BY ChainTypes
      <4> QED  BY <4>1
    <3>2. req.cltid = c
      OBVIOUS
    <3>3. c \in Conns
      BY <2>1 DEF IInv, ListenInv, RecordInv, Open, TypeOK, TablesOK
    <3> HIDE DEF req, c
    <3>4. ASSUME NEW d \in Conns
          PROVE  /\ Of(d, requestChain') = IF d = c THEN Of(d, requestChain) + 1
                                                    ELSE Of(d, requestChain)
                 /\ Of(d, requestChain) \in Nat
      BY <2>3, <3>1, <3>2, OfPut, OfType
    <3>5. ASSUME NEW d \in Conns
          PROVE  /\ Of(d, work) \in Nat /\ Of(d, responseChain) \in Nat
      BY ChainTypes, OfType
    <3>6. ASSUME NEW d \in Conns
          PROVE  Unanswered(d)' = IF d = c THEN Unanswered(d) + 1 ELSE Unanswered(d)
      BY <2>1, <3>4, <3>5 DEF Unanswered
    <3>7. ASSUME NEW d \in Conns
          PROVE  count'[d] = IF d = c THEN count[d] + 1 ELSE count[d]
      BY <1>0, <2>3, <3>3
    <3>8. ASSUME NEW d \in Conns, Serving(d)' PROVE Serving(d)
      BY <2>1, <3>8 DEF Serving, Closing
    <3>9. ASSUME NEW d \in Conns PROVE lost'[d] \in Nat /\ lost'[d] = lost[d]
      BY <1>0, <2>1
    <3>10. ASSUME NEW d \in Conns PROVE Unanswered(d) \in Nat
      BY <3>4, <3>5 DEF Unanswered
    <3> QED  BY <3>6, <3>7, <3>8, <3>9, <3>10 DEF CountIsExact
  <2> QED  BY <2>1, <2>2, <2>3
<1>4. CASE ErasePending
  <2>1. /\ UNCHANGED <<clientInfo, lost, chains, lfd>> /\ lpc' = "deregister"
        /\ \A d \in Conns : d # clientInfo[lfd] => count'[d] = count[d]
        /\ lpc = "close"
    BY <1>4 DEF ErasePending, chains
  <2>2. ASSUME NEW d \in Conns, Serving(d)' PROVE d # clientInfo[lfd] /\ Serving(d)
    BY <2>1, <2>2 DEF Serving, Closing
  <2> QED  BY <2>1, <2>2 DEF CountIsExact, Unanswered, chains
<1>5. CASE Deregister
  <2>1. /\ UNCHANGED <<count, lost, chains, lfd>> /\ lpc = "deregister"
        /\ clientInfo' = [clientInfo EXCEPT ![lfd] = 0]
    BY <1>5 DEF Deregister, chains
  <2>2. ASSUME NEW d \in Conns, Serving(d)' PROVE Serving(d)
    <3>1. PICK fd \in Fds : fd # lfd /\ clientInfo[fd] = d
      BY <1>0, <2>1, <2>2 DEF Serving
    <3>2. clientInfo[lfd] # d
      <4>1. SUFFICES ASSUME clientInfo[lfd] = d PROVE FALSE
        OBVIOUS
      <4>2. lfd \in Open /\ sockConn[lfd] = d
        BY <1>0, <2>1, <4>1 DEF IInv, ListenInv, RecordInv, Open
      <4>3. fd \in Open /\ sockConn[fd] = d
        BY <1>0, <3>1 DEF IInv, RecordInv, Open
      <4> QED  BY <3>1, <4>2, <4>3 DEF IdentInv
    <3> QED  BY <3>1, <3>2 DEF Serving, Closing
  <2> QED  BY <2>1, <2>2 DEF CountIsExact, Unanswered, chains
<1>6. CASE ResponseDone
  <2> DEFINE c == rcur.cltid
  <2>1. /\ UNCHANGED <<clientInfo, requestChain, work, lost, responseChain, lpc, lfd>>
        /\ rcur' = NoResponse
        /\ count' = [count EXCEPT ![c] = IF c \in entries THEN Release(c) ELSE @]
    BY <1>6 DEF ResponseDone
  <2>2. c \in Conns
    BY <1>6 DEF ResponseDone, IInv, ResponderInv, Matched, Request
  <2>3. ASSUME NEW d \in Conns PROVE Serving(d)' <=> Serving(d)
    BY <2>1 DEF Serving, Closing
  <2> DEFINE Chained(d) == Of(d, requestChain) + Of(d, work) + Of(d, responseChain)
  <2>4. ASSUME NEW d \in Conns
        PROVE  /\ Chained(d) \in Nat
               /\ Unanswered(d) = Chained(d) + (IF d = c THEN 1 ELSE 0)
               /\ Unanswered(d)' = Chained(d)
    <3>1. /\ Of(d, requestChain) \in Nat /\ Of(d, work) \in Nat
          /\ Of(d, responseChain) \in Nat
      BY ChainTypes, OfType
    <3>2. NoResponse.cltid # d
      BY <1>0 DEF NoResponse
    <3> QED  BY <2>1, <3>1, <3>2 DEF Unanswered
  <2> HIDE DEF Chained
  <2>5. ASSUME NEW d \in Conns, Serving(d) PROVE count'[d] = Chained(d) + lost[d]
    <3>1. count[d] = Unanswered(d) + lost[d] /\ lost[d] \in Nat
      BY <1>0, <2>5 DEF CountIsExact
    <3>2. CASE d = c
      <4>1. count[c] = Chained(c) + 1 + lost[c] /\ Chained(c) \in Nat
        BY <2>4, <3>1, <3>2
      <4>2. c \in entries
        <5>1. count[c] > 0
          BY <3>1, <3>2, <4>1
        <5> QED  BY <2>2, <5>1 DEF IdentInv
      <4> QED  BY <1>0, <2>1, <2>2, <3>2, <4>1, <4>2 DEF Release
    <3>3. CASE d # c
      BY <1>0, <2>1, <2>4, <3>1, <3>3
    <3> QED  BY <3>2, <3>3
  <2> QED  BY <2>1, <2>3, <2>4, <2>5 DEF CountIsExact
<1>7. CASE Cleanup
  BY <1>0, <1>7 DEF Cleanup, CountIsExact, Serving
<1>8. CASE UNCHANGED vars \/ StopReceiving \/ StopResponder \/ Client
  <2>1. UNCHANGED <<clientInfo, count, lost, chains, lpc, lfd>>
    BY <1>8 DEF vars, StopReceiving, StopResponder, Client, Connect, ClientSend,
       ClientGone, chains
  <2> QED  BY <2>1, CountFrame
<1>9. CASE StartListening
  <2>1. UNCHANGED <<clientInfo, count, lost, chains>> /\ lpc = "exit" /\ lpc' = "select"
    BY <1>9 DEF StartListening, IInv, ListenInv, chains
  <2> QED  BY <2>1, CountFrame
<1>10. CASE ResponseThread /\ ~GetResponse /\ ~ResponseDone
  <2>1. UNCHANGED <<clientInfo, count, lost, chains, lpc, lfd>>
    BY <1>10 DEF ResponseThread, ResponderWakes, DupIfSameClient, Send, DropMark,
       DropShutdown, ResponderWrites, ResponderExits, chains
  <2> QED  BY <2>1, CountFrame
<1>11. CASE ListenThread /\ ~Accept /\ ~QueueTake /\ ~Notify /\ ~ErasePending
               /\ ~Deregister
  <2>1. UNCHANGED <<clientInfo, count, lost, chains>>
    BY <1>11 DEF ListenThread, SelectReady, SelectTimeout, SelectStop, ScanEnd,
       HandleWake, AcceptEnd, Recv, RecvEmpty, RecvEof, QueueStart,
       QueueNoMemory, ReturnToRecv,
       Resume, ReturnToResume, CloseFd, chains
  <2>2. UNCHANGED <<lpc, lfd>> \/ (lpc # "deregister" /\ lpc' # "deregister")
    BY <1>11 DEF ListenThread, SelectReady, SelectTimeout, SelectStop, ScanEnd,
       HandleWake, AcceptEnd, Recv, RecvEmpty, RecvEof, QueueStart,
       QueueNoMemory, ReturnToRecv,
       Resume, ReturnToResume, CloseFd, Handling, AfterResume
  <2> QED  BY <2>1, <2>2, CountFrame
<1> QED
  BY <1>1, <1>2, <1>3, <1>4, <1>5, <1>6, <1>7, <1>8, <1>9, <1>10, <1>11
  DEF Next, StopListening

\* The fds, the idents and the counters agree in every state of the server.
THEOREM ServerSafety == Spec => []ServerInv
<1>1. Init => WatchInv /\ FreeInv /\ IdentInv /\ CountIsExact
  <2> SUFFICES ASSUME Init PROVE WatchInv /\ FreeInv /\ IdentInv /\ CountIsExact
    OBVIOUS
  <2> USE DEF Init
  <2>1. WatchInv
    BY DEF WatchInv, Moving, Open
  <2>2. FreeInv
    BY DEF FreeInv
  <2>3. Open = {} /\ Queued = {}
    BY DEF Open, Queued, Range
  <2>4. 0 \notin Conns /\ NoResponse.cltid = 0 /\ New \subseteq Conns
    BY NetAssumption DEF Conns, NoResponse, New
  <2>5. \A c \in Conns : count[c] = 0 /\ lost[c] = 0
    OBVIOUS
  <2>6. IdentInv
    BY <2>3, <2>4, <2>5 DEF IdentInv
  <2>7. CountIsExact
    BY <2>4 DEF CountIsExact, Serving
  <2> QED  BY <2>1, <2>2, <2>6, <2>7
<1>2. /\ IInv /\ WatchInv /\ FreeInv /\ IdentInv /\ CountIsExact
      /\ [Next]_vars
      => WatchInv' /\ FreeInv' /\ IdentInv' /\ CountIsExact'
  BY WatchStep, FreeStep, IdentStep, CountStep
<1>3. ServerInv <=> IInv /\ WatchInv /\ FreeInv /\ IdentInv /\ CountIsExact
  BY DEF ServerInv
<1> QED  BY <1>1, <1>2, <1>3, Safety, PTL DEF Spec

\* The pending counter of a served connection is the number of its unanswered
\* requests and of its lost replies, whatever the limit and however many
\* connections there are.
THEOREM PendingCountIsExact == Spec => []CountIsExact
<1>1. ServerInv => CountIsExact
  BY DEF ServerInv
<1> QED  BY <1>1, ServerSafety, PTL

\* No open fd drops out of master_set and paused_fds both, or is in both.
THEOREM NoFdIsForgotten == Spec => []EveryFdWatched
<1>1. ServerInv => EveryFdWatched
  BY DEF ServerInv, WatchInv, EveryFdWatched, Moving, Open
<1> QED  BY <1>1, ServerSafety, PTL

\* stop_listening() closes every connection, the paused ones too, and empties
\* every table.
THEOREM StopLeavesNoFd == Spec => []StopLeavesNothing
<1>1. ServerInv => StopLeavesNothing
  <2> SUFFICES ASSUME ServerInv, cpc = "down"
               PROVE  /\ \A fd \in Fds : sockConn[fd] = None /\ framer[fd] = <<>>
                      /\ pausedFds = {} /\ entries = {}
    BY DEF StopLeavesNothing
  <2>1. Open = {} /\ entries = {}
    BY DEF ServerInv, FreeInv
  <2>2. pausedFds = {}
    BY <2>1 DEF ServerInv, IInv, ListenInv
  <2> QED  BY <2>1, <2>2 DEF ServerInv, FreeInv, Open
<1> QED  BY <1>1, ServerSafety, PTL
-----------------------------------------------------------------------------
(* How much waiting a connection can cost: SendBudget                      *)

\* Moving the clock on, with or without dropping the connection, changes no
\* account.
LEMMA TimePasses ==
  ASSUME BudgetInv, NEW n \in Nat, clock' = clock + n, clock' <= MaxClock,
         UNCHANGED <<windowStart, waitMs, cost>>,
         dropped' \in BOOLEAN, dropped => dropped'
  PROVE  BudgetInv'
<1> USE BudgetAssumption DEF BudgetInv, BudgetTypeOK
<1>1. BudgetTypeOK'
  OBVIOUS
<1>2. cost[clock'] = cost[clock]
  BY DEF CostGrows
<1>3. CostGrows'
  BY <1>2 DEF CostGrows
<1>4. Before(windowStart)' = Before(windowStart)
  BY DEF Before
<1>5. \A t \in 0..windowStart : Before(t)' = Before(t)
  BY DEF Before
<1>6. WindowInv'
  BY <1>2, <1>4, <1>5 DEF WindowInv
<1> QED  BY <1>1, <1>3, <1>6

\* A response that had to wait, in the window or as the first of a new one.
LEMMA ResponseWaits ==
  ASSUME BudgetInv, NEW ms \in 1..Timeout, Respond(ms)
  PROVE  BudgetInv'
<1> USE BudgetAssumption DEF BudgetInv, BudgetTypeOK
<1> DEFINE now == clock + ms
<1>0. /\ now \in 0..MaxClock /\ now > clock /\ clock' = now
      /\ windowStart' = IF Expired(now) THEN now ELSE windowStart
      /\ waitMs' = (IF Expired(now) THEN 0 ELSE waitMs) + ms
      /\ dropped' = (waitMs' > Budget)
      /\ cost' = [t \in 0..MaxClock |-> cost[t] + IF t < now THEN 0 ELSE ms]
      /\ ~dropped
  BY DEF Respond
<1> HIDE DEF now
<1>1. \A t \in 0..MaxClock :
         cost'[t] = IF t < now THEN cost[t] ELSE cost[t] + ms
  BY <1>0
<1>2. \A t \in 0..MaxClock : clock <= t => cost[t] = cost[clock]
  BY DEF CostGrows
<1>3. BudgetTypeOK'
  <2>1. cost' \in [0..MaxClock -> Nat]
    BY <1>0
  <2>2. waitMs' \in Nat
    BY <1>0
  <2> QED  BY <1>0, <2>1, <2>2
<1>4. CostGrows'
  <2>1. \A s, t \in 0..MaxClock : s <= t => cost'[s] <= cost'[t]
    BY <1>0, <1>1 DEF CostGrows
  <2>2. \A t \in now..MaxClock : cost'[t] = cost'[now]
    BY <1>0, <1>1, <1>2
  <2> QED  BY <1>0, <2>1, <2>2 DEF CostGrows
<1>5. \A t \in 0..now : Before(t)' = Before(t) /\ Before(t) \in Nat
  BY <1>0, <1>1 DEF Before
<1>6. ~dropped' => waitMs' <= Budget
  <2>1. ~dropped' => ~(waitMs' > Budget)
    BY <1>0, Zenon
  <2>2. waitMs' \in Nat
    BY <1>3
  <2> QED  BY <2>1, <2>2
<1>7. cost'[now] = cost[clock] + ms
  BY <1>0, <1>1, <1>2
<1>8. CASE ~Expired(now)
  <2>1. windowStart' = windowStart /\ waitMs' = waitMs + ms
    BY <1>0, <1>8
  <2>2. Before(windowStart)' = Before(windowStart)
    BY <1>0, <1>5, <2>1
  <2>3. \A t \in 0..windowStart : Before(t)' = Before(t) /\ Before(t) \in Nat
    BY <1>0, <1>5
  <2>4. cost'[clock'] = Before(windowStart)' + waitMs'
    BY SMTT(30), <1>0, <1>5, <1>7, <2>1, <2>2 DEF WindowInv
  <2>5. \A t \in 0..windowStart' : windowStart' <= t + Window =>
           Before(windowStart)' - Before(t)' <= Budget
    BY <2>1, <2>2, <2>3 DEF WindowInv
  <2> QED  BY <1>3, <1>4, <1>6, <2>4, <2>5 DEF WindowInv
<1>9. CASE Expired(now)
  <2>1. windowStart' = now /\ waitMs' = ms
    BY <1>0, <1>9
  <2>2. now - windowStart > Window
    BY <1>9 DEF Expired
  <2>3. Before(now) = cost[clock]
    BY <1>0, <1>2 DEF Before
  <2>4. Before(windowStart)' = Before(now)
    BY <1>0, <1>5, <2>1
  <2>5. cost'[clock'] = Before(windowStart)' + waitMs'
    BY <1>0, <1>7, <2>1, <2>3, <2>4
  \* The stretch starts after the old window did.
  <2>6. ASSUME NEW t \in 0..now, now <= t + Window
        PROVE  Before(now) - Before(t)' <= Budget
    <3>1. t > windowStart /\ t > 0 /\ windowStart \in 0..MaxClock
      BY <1>0, <2>2, <2>6
    <3>2. Before(t)' = Before(t) /\ Before(t) = cost[t - 1]
      BY <1>5, <3>1 DEF Before
    <3>3. Before(windowStart) <= cost[t - 1]
      <4>1. CASE windowStart = 0
        BY <1>0, <3>1, <4>1 DEF Before
      <4>2. CASE windowStart # 0
        <5>1. windowStart - 1 <= t - 1 /\ windowStart - 1 \in 0..MaxClock
              /\ t - 1 \in 0..MaxClock
          BY <1>0, <3>1, <4>2
        <5>2. cost[windowStart - 1] <= cost[t - 1]
          BY <5>1 DEF CostGrows
        <5> QED  BY <4>2, <5>2 DEF Before
      <4> QED  BY <4>1, <4>2
    <3>4. cost[clock] = Before(windowStart) + waitMs /\ waitMs <= Budget
      BY <1>0 DEF WindowInv
    <3>5. Before(windowStart) \in Nat /\ cost[t - 1] \in Nat /\ cost[clock] \in Nat
      BY <1>0, <1>5, <3>1
    <3> QED  BY SMTT(30), <2>3, <3>2, <3>3, <3>4, <3>5
  <2>7. \A t \in 0..windowStart' : windowStart' <= t + Window =>
           Before(windowStart)' - Before(t)' <= Budget
    BY <2>1, <2>4, <2>6
  <2> QED  BY <1>3, <1>4, <1>6, <2>5, <2>7 DEF WindowInv
<1> QED  BY <1>8, <1>9

\* A stretch of Window ticks that ends now lies in the window and what came
\* before it.
LEMMA BudgetInvSuffices ==
  ASSUME BudgetInv
  PROVE  TwiceTheBudget
<1> USE BudgetAssumption DEF BudgetInv, BudgetTypeOK
<1> SUFFICES ASSUME ~dropped PROVE Recent <= 2 * Budget
  BY DEF TwiceTheBudget
<1> DEFINE from == IF clock <= Window THEN 0 ELSE clock - Window
<1>0. from \in 0..clock /\ Recent = cost[clock] - Before(from)
  BY DEF Recent
<1>1. clock <= from + Window
  OBVIOUS
<1> HIDE DEF from
<1>2. \A t \in 0..clock : Before(t) \in Nat
  BY DEF Before
<1>3. cost[clock] = Before(windowStart) + waitMs /\ waitMs <= Budget
  BY DEF WindowInv
<1>4. CASE from <= windowStart
  <2>1. Before(windowStart) - Before(from) <= Budget
    BY <1>0, <1>1, <1>4 DEF WindowInv
  <2> QED  BY SMTT(30), <1>0, <1>2, <1>3, <2>1
<1>5. CASE from > windowStart
  <2>1. Before(from) >= Before(windowStart)
    BY <1>0, <1>5 DEF Before, CostGrows
  <2> QED  BY SMTT(30), <1>0, <1>2, <1>3, <2>1
<1> QED  BY <1>0, <1>4, <1>5

\* send_with_deadline() and over_send_wait_budget(): whatever the three limits
\* are, a client that is still connected has kept the response thread waiting
\* for at most twice the budget in any stretch of one window.
THEOREM WaitingIsBounded == BudgetSpec => []TwiceTheBudget
<1>1. ASSUME BudgetInit PROVE BudgetInv
  <2> USE <1>1, BudgetAssumption DEF BudgetInit
  <2>1. BudgetTypeOK
    <3>1. cost \in [0..MaxClock -> Nat] /\ dropped \in BOOLEAN
      OBVIOUS
    <3> QED  BY <3>1 DEF BudgetTypeOK
  <2>2. CostGrows
    BY DEF CostGrows
  <2>3. WindowInv
    BY DEF WindowInv, Before
  <2> QED  BY <2>1, <2>2, <2>3 DEF BudgetInv
<1>2. BudgetInv /\ [BudgetNext]_budgetVars => BudgetInv'
  <2> SUFFICES ASSUME BudgetInv, [BudgetNext]_budgetVars PROVE BudgetInv'
    OBVIOUS
  <2>1. CASE Idle
    <3>1. /\ clock' = clock + 1 /\ clock' <= MaxClock
          /\ UNCHANGED <<windowStart, waitMs, cost, dropped>>
          /\ dropped \in BOOLEAN
      BY <2>1, BudgetAssumption DEF Idle, BudgetInv, BudgetTypeOK
    <3> QED  BY <3>1, TimePasses
  <2>2. CASE Stall
    <3>1. /\ clock' = clock + Timeout /\ clock' <= MaxClock /\ Timeout \in Nat
          /\ UNCHANGED <<windowStart, waitMs, cost>> /\ dropped' = TRUE
      BY <2>2, BudgetAssumption DEF Stall
    <3> QED  BY <3>1, TimePasses
  <2>3. ASSUME NEW ms \in 0..Timeout, Respond(ms) PROVE BudgetInv'
    <3>1. CASE ms = 0
      <4>1. clock' = clock + 0 /\ clock' <= MaxClock
            /\ UNCHANGED <<windowStart, waitMs, cost, dropped>>
            /\ dropped \in BOOLEAN
        BY <2>3, <3>1 DEF Respond, BudgetInv, BudgetTypeOK
      <4> QED  BY <4>1, TimePasses
    <3>2. CASE ms # 0
      BY <2>3, <3>2, ResponseWaits, BudgetAssumption
    <3> QED  BY <3>1, <3>2
  <2>4. CASE UNCHANGED budgetVars
    <3>1. /\ clock' = clock + 0 /\ clock' <= MaxClock
          /\ UNCHANGED <<windowStart, waitMs, cost, dropped>>
          /\ dropped \in BOOLEAN
      BY <2>4, BudgetAssumption DEF budgetVars, BudgetInv, BudgetTypeOK
    <3> QED  BY <3>1, TimePasses
  <2> QED  BY <2>1, <2>2, <2>3, <2>4 DEF BudgetNext
<1>3. BudgetInv => TwiceTheBudget
  BY BudgetInvSuffices
<1> QED  BY <1>1, <1>2, <1>3, PTL DEF BudgetSpec
==========================================================================
