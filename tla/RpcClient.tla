----------------------------- MODULE RpcClient -----------------------------
(***************************************************************************)
(* ADJsonRpcClient over ADNetClient: calls with a timeout on a connection  *)
(* that outlives them.  An answer that comes too late is still in the      *)
(* socket, or on its way, when the next request is sent; the client drains *)
(* what it can and skips the rest by its id.                               *)
(*                                                                         *)
(* A call is named by its number, which is the id it sends.  An answer     *)
(* travels as two halves [call, id, err, half], the places where TCP may   *)
(* split it; id is NoId in error replies to requests the server could not  *)
(* identify (err).  Only calls that send an id are modelled, not           *)
(* send_raw_data_and_receive_resp(), which takes any answer.               *)
(***************************************************************************)
EXTENDS Naturals, Sequences

CONSTANT MaxCalls   \* calls during a behaviour (bound)

NoId == 0
None == 0
Calls == 1..MaxCalls

ASSUME ClientAssumption == MaxCalls \in Nat

VARIABLES
    \* the server and the network
    srvOpen,      \* the server end of the connection is open
    requests,     \* requests it has not answered
    flight,       \* halves of answers under way
    rx,           \* halves in the client's socket
    \* the client
    connected,    \* ADNetClient::connected
    partial,      \* call whose first half the framer holds, or None
    ready,        \* complete messages in the framer, [call, id, err]
    ferr,         \* the framer's error state
    reconnectNeeded,
    pc,
    cur,          \* the call in work: tx_id
    result,       \* what the last call returned: [call, ok, of, id, err]
    sent          \* history: the calls whose request was sent completely

server == <<srvOpen, requests, flight>>
framer == <<partial, ready, ferr>>
vars == <<server, rx, connected, framer, reconnectNeeded, pc, cur, result,
          sent>>

NoResult ==
    [call |-> None, ok |-> FALSE, of |-> None, id |-> NoId, err |-> FALSE]
-----------------------------------------------------------------------------
(* The server and the network                                              *)

\* The server answers its oldest request, with a result or with an error
\* reply that has no id.
Answer ==
    /\ srvOpen
    /\ requests # <<>>
    /\ requests' = Tail(requests)
    /\ \E err \in BOOLEAN :
         LET half(h) == [call |-> Head(requests), err |-> err, half |-> h,
                         id |-> IF err THEN NoId ELSE Head(requests)]
         IN  flight' = flight \o <<half(1), half(2)>>
    /\ UNCHANGED <<srvOpen, rx, connected, framer, reconnectNeeded, pc, cur,
                   result, sent>>

\* Bytes reach the client, TCP may split an answer.
Deliver ==
    /\ connected
    /\ flight # <<>>
    /\ rx' = Append(rx, Head(flight))
    /\ flight' = Tail(flight)
    /\ UNCHANGED <<srvOpen, requests, connected, framer, reconnectNeeded, pc,
                   cur, result, sent>>

\* The server closes the connection; what it sent before still arrives.
ServerCloses ==
    /\ srvOpen
    /\ srvOpen' = FALSE
    /\ requests' = <<>>
    /\ UNCHANGED <<flight, rx, connected, framer, reconnectNeeded, pc, cur,
                   result, sent>>
-----------------------------------------------------------------------------
(* send_request()                                                          *)

\* sock_disconnect() and sock_connect(): a new connection knows nothing of
\* the old one; without one the need remains.
Reconnect ==
    /\ requests' = <<>> /\ flight' = <<>> /\ rx' = <<>>
    /\ partial' = None /\ ready' = <<>> /\ ferr' = FALSE
    /\ \E up \in BOOLEAN :
         srvOpen' = up /\ connected' = up /\ reconnectNeeded' = ~up

\* The new request gets the next id; a connection known to be gone is opened
\* again first.
Call ==
    /\ pc = "idle"
    /\ cur < MaxCalls
    /\ cur' = cur + 1
    /\ pc' = "drain"
    /\ \/ /\ ~reconnectNeeded
          /\ UNCHANGED <<server, rx, connected, framer, reconnectNeeded>>
       \/ /\ reconnectNeeded
          /\ Reconnect
    /\ UNCHANGED <<result, sent>>

\* send_data(): forget what a timed-out call left behind, ...
Forget ==
    /\ rx' = <<>>
    /\ partial' = None /\ ready' = <<>> /\ ferr' = FALSE

Drain ==
    /\ pc = "drain"
    /\ pc' = "send"
    /\ IF connected THEN Forget ELSE UNCHANGED <<rx, framer>>
    /\ UNCHANGED <<server, connected, reconnectNeeded, cur, result, sent>>

\* ... then send, which fails without a socket, on a closed connection or
\* when the send timeout expires.  The caller waits for an answer either way.
Send ==
    /\ pc = "send"
    /\ pc' = "receive"
    /\ \/ /\ connected
          /\ requests' = IF srvOpen THEN Append(requests, cur) ELSE requests
          /\ sent' = sent \cup {cur}
          /\ reconnectNeeded' = reconnectNeeded
       \/ /\ reconnectNeeded' = TRUE
          /\ UNCHANGED <<requests, sent>>
    /\ UNCHANGED <<srvOpen, flight, rx, connected, framer, cur, result>>
-----------------------------------------------------------------------------
(* receive_response() and receive_json_blocking()                          *)

Return(res) == result' = res /\ pc' = "idle"
Failed == [NoResult EXCEPT !.call = cur]

\* The framer has a message: another id is a late answer and is skipped; an
\* answer without an id is taken.
Bug_Match(m) == TRUE
Match(m) == m.id \in {NoId, cur}

\* An answer that came although the request could not be sent is not used.
Usable == ~reconnectNeeded

TakeMessage ==
    /\ pc = "receive"
    /\ connected
    /\ ready # <<>>
    /\ ready' = Tail(ready)
    /\ LET m == Head(ready)
       IN  IF ~Match(m)
             THEN UNCHANGED <<pc, result>>
             ELSE Return(IF ~Usable THEN Failed
                         ELSE [call |-> cur, ok |-> TRUE, of |-> m.call,
                               id |-> m.id, err |-> m.err])
    /\ UNCHANGED <<server, rx, connected, partial, ferr, reconnectNeeded, cur,
                   sent>>

\* recv() and feed(), half by half.  A second half whose first half was
\* forgotten is garbage to the framer; if the split was in front of a nested
\* object, that object is a message without an id, and the rest is garbage.
Receive ==
    /\ pc = "receive"
    /\ connected
    /\ ready = <<>> /\ ~ferr
    /\ rx # <<>>
    /\ rx' = Tail(rx)
    /\ LET h == Head(rx)
       IN  \/ /\ h.half = 1
              /\ partial' = h.call
              /\ UNCHANGED <<ready, ferr>>
           \/ /\ h.half = 2 /\ partial = h.call
              /\ partial' = None
              /\ ready' = <<[call |-> h.call, id |-> h.id, err |-> h.err]>>
              /\ ferr' = ferr
           \/ /\ h.half = 2 /\ partial # h.call
              /\ ferr' = TRUE
              /\ ready' \in {<<>>,
                             <<[call |-> h.call, id |-> NoId, err |-> h.err]>>}
              /\ partial' = None
    /\ UNCHANGED <<server, connected, reconnectNeeded, pc, cur, result, sent>>

\* The framer's error, or end of file: reconnect before the next request.
PeerGone ==
    /\ pc = "receive"
    /\ connected
    /\ ready = <<>>
    /\ ferr \/ (rx = <<>> /\ flight = <<>> /\ ~srvOpen)
    /\ reconnectNeeded' = TRUE
    /\ Return(Failed)
    /\ UNCHANGED <<server, rx, connected, framer, cur, sent>>

\* The deadline, at any moment the client has to wait; no socket at all is
\* the same to the caller.  (A deadline between two messages of one recv()
\* leaves in the framer what this model still has in the socket; the next
\* send_data() forgets both.)
Timeout ==
    /\ pc = "receive"
    /\ ready = <<>> /\ ~ferr
    /\ Return(Failed)
    /\ UNCHANGED <<server, rx, connected, framer, reconnectNeeded, cur, sent>>
-----------------------------------------------------------------------------
Init ==
    /\ srvOpen = TRUE /\ requests = <<>> /\ flight = <<>> /\ rx = <<>>
    /\ connected = TRUE
    /\ partial = None /\ ready = <<>> /\ ferr = FALSE
    /\ reconnectNeeded = FALSE
    /\ pc = "idle" /\ cur = 0 /\ result = NoResult
    /\ sent = {}
=============================================================================
