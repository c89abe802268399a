---------------------------- MODULE RpcPipeline ----------------------------
(***************************************************************************)
(* The way of a request through ADJsonRpcProxy and ADJsonRpcMapper: the    *)
(* listen thread parses it, makes a task object and queues it; the RPC     *)
(* thread runs the handler; the response thread of the proxy looks the     *)
(* object up again by its ident, sends the reply and deletes it.  Three    *)
(* chains hold pointers to the same object: ReqRespChain owns it, ReqChain *)
(* and RespChain only name it.  Both threads take one item per wakeup.     *)
(*                                                                         *)
(* A request is named by its number, which is also the ident of its task   *)
(* object; a wakeup is a count.                                            *)
(***************************************************************************)
EXTENDS Naturals, Sequences, FiniteSets, Functions

CONSTANT MaxReq            \* requests during a behaviour (bound)

Reqs == 1..MaxReq
None == 0

ASSUME PipelineAssumption == MaxReq \in Nat

VARIABLES
    narrived,              \* requests so far
    lpc, lcur,             \* listen thread, in json_process_request()
    reqRespChain,          \* idents of the task objects it owns
    reqChain, reqSem,      \* queue and wakeups of the RPC thread
    rpc, rcur,             \* RPC thread and the object it works on
    respChain, respSem,    \* queue and wakeups of RespThread
    spc, scur,             \* RespThread and the object it replies for
    made,                  \* task objects made (ghost)
    freed,                 \* how often each object was deleted
    replies,               \* replies given to each request
    lost,                  \* requests whose reply found no memory (ghost)
    stop                   \* how far ADJsonRpcMgr::Stop() has come

listenVars == <<narrived, lpc, lcur>>
rpcVars == <<rpc, rcur>>
respVars == <<spc, scur>>
vars == <<listenVars, reqRespChain, reqChain, reqSem, rpcVars, respChain,
          respSem, respVars, made, freed, replies, lost, stop>>

\* send_json_object() and schedule_response() under it queue the reply, or
\* find no memory for it; nobody looks at what they return.
Reply(r) ==
    \/ replies' = [replies EXCEPT ![r] = @ + 1] /\ lost' = lost
    \/ lost' = lost \cup {r} /\ replies' = replies

Free(r) == freed' = [freed EXCEPT ![r] = @ + 1]
-----------------------------------------------------------------------------
(* Listen thread: json_process_request()                                   *)

\* A request arrives.
Arrive ==
    /\ stop = "up"
    /\ lpc = "idle"
    /\ narrived < MaxReq
    /\ narrived' = narrived + 1
    /\ lcur' = narrived + 1
    /\ lpc' = "parse"
    /\ UNCHANGED <<reqRespChain, reqChain, reqSem, rpcVars, respChain, respSem,
                   respVars, freed, replies, stop, made, lost>>

\* No object, no JSON, no id, unknown method, no memory: the error is sent
\* from here and the request is over.
Bug_AfterReject == "put"
AfterReject == "idle"

Reject ==
    /\ lpc = "parse"
    /\ Reply(lcur)
    /\ lpc' = AfterReject
    /\ UNCHANGED <<narrived, lcur, reqRespChain, reqChain, reqSem, rpcVars,
                   respChain, respSem, respVars, freed, stop, made>>

Parsed ==
    /\ lpc = "parse"
    /\ lpc' = "put"
    /\ UNCHANGED <<narrived, lcur, reqRespChain, reqChain, reqSem, rpcVars,
                   respChain, respSem, respVars, freed, replies, stop, made, lost>>

\* ReqRespChain takes the task object, or there is no memory.
PutTask ==
    /\ lpc = "put"
    /\ made' = made \cup {lcur}
    /\ \/ /\ reqRespChain' = reqRespChain \cup {lcur}
          /\ lpc' = "call"
          /\ UNCHANGED <<freed, replies, lost>>
       \/ /\ Reply(lcur) /\ Free(lcur)
          /\ lpc' = "idle"
          /\ UNCHANGED reqRespChain
    /\ UNCHANGED <<narrived, lcur, reqChain, reqSem, rpcVars, respChain,
                   respSem, respVars, stop>>

\* rpc_call_notification(): hand the object to the RPC thread; if that fails
\* it is taken back and deleted here.
Bug_TakenBack == reqRespChain
TakenBack == reqRespChain \ {lcur}

CallRpc ==
    /\ lpc = "call"
    /\ \/ /\ reqChain' = Append(reqChain, lcur)
          /\ lpc' = "wake"
          /\ UNCHANGED <<reqRespChain, freed, replies, lost>>
       \/ /\ reqRespChain' = TakenBack
          /\ Reply(lcur) /\ Free(lcur)
          /\ lpc' = "idle"
          /\ UNCHANGED reqChain
    /\ UNCHANGED <<narrived, lcur, reqSem, rpcVars, respChain, respSem,
                   respVars, stop, made>>

\* The object may be gone already when the listen thread posts.
Bug_Posted(sem) == 1
Posted(sem) == sem + 1

WakeRpc ==
    /\ lpc = "wake"
    /\ reqSem' = Posted(reqSem)
    /\ lpc' = "idle"
    /\ UNCHANGED <<narrived, lcur, reqRespChain, reqChain, rpcVars, respChain,
                   respSem, respVars, freed, replies, stop, made, lost>>
-----------------------------------------------------------------------------
(* RPC thread: ADJsonRpcMapper::monoshot_callback_function()               *)

RpcWakes ==
    /\ rpc = "idle"
    /\ reqSem > 0
    /\ stop \in {"up", "listen"}
    /\ reqSem' = reqSem - 1
    /\ rpc' = "get"
    /\ UNCHANGED <<listenVars, reqRespChain, reqChain, rcur, respChain,
                   respSem, respVars, freed, replies, stop, made, lost>>

RpcGets ==
    /\ rpc = "get"
    /\ IF reqChain = <<>>
         THEN rpc' = "idle" /\ UNCHANGED <<reqChain, rcur>>
         ELSE /\ rcur' = Head(reqChain)
              /\ reqChain' = Tail(reqChain)
              /\ rpc' = "work"
    /\ UNCHANGED <<listenVars, reqRespChain, reqSem, respChain, respSem,
                   respVars, freed, replies, stop, made, lost>>

\* The handler runs and its result is stored in the object, ...
RpcWorks ==
    /\ rpc = "work"
    /\ rpc' = "send"
    /\ UNCHANGED <<listenVars, reqRespChain, reqChain, reqSem, rcur, respChain,
                   respSem, respVars, freed, replies, stop, made, lost>>

\* ... then json_send_response() queues its ident.  Nobody looks at what it
\* returns: without memory the reply is lost.
RpcSends ==
    /\ rpc = "send"
    /\ \/ /\ respChain' = Append(respChain, rcur)
          /\ rpc' = "wake"
          /\ UNCHANGED lost
       \/ /\ rpc' = "idle"
          /\ lost' = lost \cup {rcur}
          /\ UNCHANGED respChain
    /\ rcur' = None
    /\ UNCHANGED <<listenVars, reqRespChain, reqChain, reqSem, respSem,
                   respVars, freed, replies, stop, made>>

RpcPosts ==
    /\ rpc = "wake"
    /\ respSem' = respSem + 1
    /\ rpc' = "idle"
    /\ UNCHANGED <<listenVars, reqRespChain, reqChain, reqSem, rcur, respChain,
                   respVars, freed, replies, stop, made, lost>>

Bug_RpcExits ==
    /\ rpc = "idle"
    /\ stop = "rpc"
    /\ reqChain = <<>>
    /\ rpc' = "off"
    /\ UNCHANGED <<listenVars, reqRespChain, reqChain, reqSem, rcur, respChain,
                   respSem, respVars, freed, replies, stop, made, lost>>
RpcExits ==
    /\ rpc = "idle"
    /\ stop = "rpc"
    /\ rpc' = "off"
    /\ UNCHANGED <<listenVars, reqRespChain, reqChain, reqSem, rcur, respChain,
                   respSem, respVars, freed, replies, stop, made, lost>>
-----------------------------------------------------------------------------
(* RespThread: json_process_rsponse()                                      *)

RespWakes ==
    /\ spc = "idle"
    /\ respSem > 0
    /\ stop \in {"up", "listen", "rpc"}
    /\ respSem' = respSem - 1
    /\ spc' = "get"
    /\ UNCHANGED <<listenVars, reqRespChain, reqChain, reqSem, rpcVars,
                   respChain, scur, freed, replies, stop, made, lost>>

RespGets ==
    /\ spc = "get"
    /\ IF respChain = <<>>
         THEN spc' = "idle" /\ UNCHANGED <<respChain, scur>>
         ELSE /\ scur' = Head(respChain)
              /\ respChain' = Tail(respChain)
              /\ spc' = "lookup"
    /\ UNCHANGED <<listenVars, reqRespChain, reqChain, reqSem, rpcVars,
                   respSem, freed, replies, stop, made, lost>>

\* chain_remove_by_ident(): from here on the object is the thread's own.
RespLooksUp ==
    /\ spc = "lookup"
    /\ IF scur \in reqRespChain
         THEN spc' = "reply" /\ scur' = scur
         ELSE spc' = "idle" /\ scur' = None
    /\ reqRespChain' = reqRespChain \ {scur}
    /\ UNCHANGED <<listenVars, reqChain, reqSem, rpcVars, respChain, respSem,
                   freed, replies, stop, made, lost>>

RespReplies ==
    /\ spc = "reply"
    /\ Reply(scur) /\ Free(scur)
    /\ spc' = "idle"
    /\ scur' = None
    /\ UNCHANGED <<listenVars, reqRespChain, reqChain, reqSem, rpcVars,
                   respChain, respSem, stop, made>>

RespExits ==
    /\ spc = "idle"
    /\ stop = "resp"
    /\ spc' = "off"
    /\ UNCHANGED <<listenVars, reqRespChain, reqChain, reqSem, rpcVars,
                   respChain, respSem, scur, freed, replies, stop, made, lost>>
-----------------------------------------------------------------------------
(* Stop() joins the threads in this order; the destructors delete what     *)
(* ReqRespChain still owns.  ReqChain does not own its elements.           *)

StopNext ==
    /\ \/ stop = "up" /\ stop' = "listen"
       \/ stop = "listen" /\ lpc = "idle" /\ stop' = "rpc"
       \/ stop = "rpc" /\ rpc = "off" /\ stop' = "resp"
       \/ stop = "resp" /\ spc = "off" /\ stop' = "down"
    /\ UNCHANGED <<listenVars, reqRespChain, reqChain, reqSem, rpcVars,
                   respChain, respSem, respVars, freed, replies, made,
                   lost>>

Bug_DestroyedOf(r) ==
    (IF r \in reqRespChain THEN 1 ELSE 0)
      + Cardinality({i \in DOMAIN reqChain : reqChain[i] = r})
DestroyedOf(r) == IF r \in reqRespChain THEN 1 ELSE 0

Destroy ==
    /\ stop = "down"
    /\ freed' = [r \in Reqs |-> freed[r] + DestroyedOf(r)]
    /\ reqRespChain' = {}
    /\ stop' = "destroyed"
    /\ UNCHANGED <<listenVars, reqChain, reqSem, rpcVars, respChain, respSem,
                   respVars, replies, made, lost>>
-----------------------------------------------------------------------------
Init ==
    /\ narrived = 0 /\ lpc = "idle" /\ lcur = None
    /\ reqRespChain = {} /\ reqChain = <<>> /\ reqSem = 0
    /\ rpc = "idle" /\ rcur = None
    /\ respChain = <<>> /\ respSem = 0
    /\ spc = "idle" /\ scur = None
    /\ made = {} /\ lost = {}
    /\ freed = [r \in Reqs |-> 0]
    /\ replies = [r \in Reqs |-> 0]
    /\ stop = "up"

Listener == Reject \/ Parsed \/ PutTask \/ CallRpc \/ WakeRpc
RpcThread == RpcWakes \/ RpcGets \/ RpcWorks \/ RpcSends \/ RpcPosts \/ RpcExits
RespThread ==
    RespWakes \/ RespGets \/ RespLooksUp \/ RespReplies \/ RespExits
StopRest == StopNext /\ stop # "up"

Next ==
    \/ Arrive \/ Listener \/ RpcThread \/ RespThread
    \/ StopNext \/ Destroy

Spec == Init /\ [][Next]_vars

\* The three threads run, handlers return, a stop that has begun goes on.
FairSpec ==
    /\ Spec
    /\ WF_vars(Listener) /\ WF_vars(RpcThread) /\ WF_vars(RespThread)
    /\ WF_vars(StopRest)
-----------------------------------------------------------------------------
(* Properties                                                              *)

\* Objects some thread will touch through a pointer it holds.
InUse == {r \in Reqs :
            \/ lcur = r /\ lpc \in {"put", "call"}
            \/ \E i \in DOMAIN reqChain :
                  reqChain[i] = r /\ stop # "destroyed"
            \/ rcur = r /\ rpc \in {"work", "send"}
            \/ scur = r /\ spc = "reply"}

\* No thread works on an object that another one has deleted, and none is
\* deleted twice, by the reply, an error path or the destructors.
NoUseAfterFree ==
    /\ \A r \in InUse : freed[r] = 0
    /\ \A r \in Reqs : freed[r] <= 1

\* When the manager is gone every task object it made is gone.
NothingLeaks ==
    stop = "destroyed" => \A r \in made : freed[r] = 1

\* Every request the listen thread read is answered, by an error or by its
\* handler's result, unless the service is stopped or one of the threads found
\* no memory to queue the reply.
EveryRequestAnswered ==
    \A r \in Reqs :
       (narrived >= r) ~> (replies[r] > 0 \/ r \in lost \/ stop # "up")

\* Accepted requests on their way, the oldest first.
InOrder ==
    (IF spc \in {"lookup", "reply"} THEN <<scur>> ELSE <<>>)
      \o respChain
      \o (IF rpc \in {"work", "send"} THEN <<rcur>> ELSE <<>>)
      \o reqChain

Abstract == INSTANCE RpcQueue WITH
                work <- InOrder, answered <- {r \in Reqs : replies[r] > 0}

\* The pipeline answers accepted requests in order and none twice, whatever
\* allocations fail and whenever it is stopped.
ImplementsRpcQueue == Abstract!Spec

\* Stop() comes to an end whatever is on its way.
StopEnds == (stop # "up") ~> (stop \in {"down", "destroyed"})
-----------------------------------------------------------------------------
(* The inductive invariant, proved in RpcPipelineProofs                    *)

TypeOK ==
    /\ narrived \in Nat /\ narrived <= MaxReq
    /\ lpc \in {"idle", "parse", "put", "call", "wake"}
    /\ lcur \in Reqs \cup {None}
    /\ reqRespChain \subseteq Reqs
    /\ reqChain \in Seq(Reqs) /\ reqSem \in Nat
    /\ rpc \in {"idle", "get", "work", "send", "wake", "off"}
    /\ rcur \in Reqs \cup {None}
    /\ respChain \in Seq(Reqs) /\ respSem \in Nat
    /\ spc \in {"idle", "get", "lookup", "reply", "off"}
    /\ scur \in Reqs \cup {None}
    /\ made \subseteq Reqs /\ lost \subseteq Reqs
    /\ freed \in [Reqs -> Nat]
    /\ replies \in [Reqs -> Nat]
    /\ stop \in {"up", "listen", "rpc", "resp", "down", "destroyed"}

Handling == rpc \in {"work", "send"}
Replying == spc \in {"lookup", "reply"}
Reading == lpc \in {"parse", "put", "call"}

Increasing(s) == \A i, j \in DOMAIN s : i < j => s[i] < s[j]

\* What is on its way stands in the order of arrival, each request once: the
\* one being replied to, the queued replies, the one being handled, the queued
\* requests, and the one the listen thread has in hand, the newest of all.
OrderInv ==
    /\ lcur = narrived
    /\ Reading => lcur \in Reqs
    /\ Increasing(reqChain) /\ Increasing(respChain)
    /\ \A q \in Range(reqChain) :
          /\ q <= narrived
          /\ Reading => q < narrived
          /\ \A p \in Range(respChain) : p < q
          /\ Handling => rcur < q
          /\ Replying => scur < q
    /\ \A p \in Range(respChain) :
          /\ p <= narrived
          /\ Reading => p < narrived
          /\ Handling => p < rcur
          /\ Replying => scur < p
    /\ Handling =>
          /\ rcur \in Reqs /\ rcur <= narrived
          /\ Reading => rcur < narrived
          /\ Replying => scur < rcur
    /\ Replying =>
          /\ scur \in Reqs /\ scur <= narrived
          /\ Reading => scur < narrived

\* The requests accepted and not yet answered.
OnTheirWay ==
    Range(reqChain) \cup Range(respChain)
      \cup (IF Handling THEN {rcur} ELSE {}) \cup (IF Replying THEN {scur} ELSE {})

\* Every object has one owner until it is deleted: ReqRespChain, or the thread
\* that took it out to reply; whatever only names it finds it there.
OwnerInv ==
    /\ \A r \in Reqs : r > narrived => r \notin made /\ replies[r] = 0
    /\ lpc \in {"parse", "put"} => lcur \notin made /\ replies[lcur] = 0
    /\ lpc = "call" => lcur \in reqRespChain /\ replies[lcur] = 0
    /\ \A r \in OnTheirWay :
          /\ replies[r] = 0
          /\ stop # "destroyed" =>
                r \in reqRespChain \/ (spc = "reply" /\ scur = r)
    /\ spc = "reply" => scur \notin reqRespChain /\ scur \in made
    /\ reqRespChain \subseteq made
    /\ \A r \in Reqs :
          freed[r] = IF r \in made /\ r \notin reqRespChain
                          /\ ~(spc = "reply" /\ scur = r)
                       THEN 1 ELSE 0

\* Stop() joins one thread after the other.
StopInv ==
    /\ stop \in {"rpc", "resp", "down", "destroyed"} => lpc = "idle"
    /\ stop \in {"resp", "down", "destroyed"} => rpc = "off"
    /\ stop \in {"down", "destroyed"} => spc = "off"
    /\ stop = "destroyed" => reqRespChain = {}

IInv == TypeOK /\ OrderInv /\ OwnerInv /\ StopInv
=============================================================================
