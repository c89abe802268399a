-------------------------- MODULE RpcPipelineProofs --------------------------
(***************************************************************************)
(* For any number of requests: one owner per task object, no use after a   *)
(* delete, nothing left behind, and the pipeline implements RpcQueue.      *)
(***************************************************************************)
EXTENDS RpcPipeline, ChainLemmas

USE DEF vars, listenVars, rpcVars, respVars, None

\* Requests are numbers.
LEMMA ReqsAreNumbers ==
  /\ MaxReq \in Nat
  /\ Reqs \subseteq Nat \ {0} /\ Seq(Reqs) \subseteq Seq(Nat)
  /\ \A n \in Nat : n > 0 /\ n <= MaxReq => n \in Reqs
<1>1. /\ Reqs \subseteq Nat \ {0}
      /\ \A n \in Nat : n > 0 /\ n <= MaxReq => n \in Reqs
  BY PipelineAssumption DEF Reqs
<1>2. Seq(Reqs) \subseteq Seq(Nat)
  BY <1>1, SeqMonotonic
<1> QED  BY <1>1, <1>2, PipelineAssumption

\* A counter per request is a counter after one more.
LEMMA CountedUp ==
  ASSUME NEW f \in [Reqs -> Nat], NEW r \in Reqs
  PROVE  [f EXCEPT ![r] = @ + 1] \in [Reqs -> Nat]
OBVIOUS

\* A reply is one more reply or one more lost one.
LEMMA ReplyTypes ==
  ASSUME replies \in [Reqs -> Nat], lost \subseteq Reqs,
         NEW r \in Reqs, Reply(r)
  PROVE  /\ replies' \in [Reqs -> Nat] /\ lost' \subseteq Reqs
         /\ \A p \in Reqs : p # r => replies'[p] = replies[p]
<1>1. CASE replies' = [replies EXCEPT ![r] = @ + 1] /\ lost' = lost
  BY <1>1, CountedUp
<1>2. CASE lost' = lost \cup {r} /\ replies' = replies
  BY <1>2
<1> QED  BY <1>1, <1>2 DEF Reply

\* A request arrives: the invariant is kept.
LEMMA ArriveStep == ASSUME IInv, Arrive PROVE IInv'
<1> USE DEF IInv, Arrive
<1>0. narrived + 1 \in Reqs /\ narrived + 1 <= MaxReq
  BY ReqsAreNumbers DEF TypeOK
<1>1. TypeOK'
  BY <1>0 DEF TypeOK
<1>2. OrderInv'
  <2>1. Range(reqChain) \subseteq Nat /\ Range(respChain) \subseteq Nat
    BY ReqsAreNumbers, RangeOfSeq DEF TypeOK
  <2>2. narrived \in Nat /\ scur \in Nat /\ rcur \in Nat
    BY ReqsAreNumbers DEF TypeOK
  <2>3. UNCHANGED <<reqChain, respChain, Handling, Replying, rcur, scur>>
    BY DEF Handling, Replying
  <2> QED
    BY ReqsAreNumbers, <1>0, <2>1, <2>2, <2>3 DEF OrderInv
<1>3. OwnerInv'
  BY ReqsAreNumbers, <1>0
     DEF TypeOK, OrderInv, OwnerInv, StopInv, OnTheirWay, Handling,
     Replying
<1>4. StopInv'
  BY DEF TypeOK, StopInv
<1> QED  BY <1>1, <1>2, <1>3, <1>4

\* The listen thread sends an error: the invariant is kept.
LEMMA RejectStep == ASSUME IInv, Reject PROVE IInv'
<1> USE DEF IInv, Reject, AfterReject
<1>1. TypeOK'
  <2>1. lcur \in Reqs
    BY ReqsAreNumbers DEF OrderInv, Reading
  <2> QED
    BY <2>1, ReplyTypes DEF TypeOK
<1>2. OrderInv'
  BY ReqsAreNumbers DEF TypeOK, OrderInv, StopInv, Reading, Handling, Replying
<1>3. OwnerInv'
  <2>1. lcur \in Reqs /\ lcur \notin OnTheirWay /\ OnTheirWay \subseteq Reqs
    BY ReqsAreNumbers, RangeOfSeq
       DEF TypeOK, OrderInv, OnTheirWay, Reading, Handling, Replying
  <2>2. OnTheirWay' = OnTheirWay
    BY DEF OnTheirWay, Handling, Replying
  <2>3. \A p \in Reqs : p # lcur => replies'[p] = replies[p]
    BY <2>1, ReplyTypes DEF TypeOK
  <2> QED
    BY ReqsAreNumbers, <2>1, <2>2, <2>3 DEF TypeOK, OrderInv, OwnerInv
<1>4. StopInv'
  BY DEF TypeOK, StopInv
<1> QED  BY <1>1, <1>2, <1>3, <1>4

\* The request is well formed: the invariant is kept.
LEMMA ParsedStep == ASSUME IInv, Parsed PROVE IInv'
<1> USE DEF IInv, Parsed
<1>1. TypeOK'
  BY DEF TypeOK
<1>2. OrderInv'
  BY DEF TypeOK, OrderInv, StopInv, Reading, Handling, Replying
<1>3. OwnerInv'
  BY DEF TypeOK, OrderInv, OwnerInv, StopInv, OnTheirWay,
     Reading, Handling, Replying
<1>4. StopInv'
  BY DEF TypeOK, StopInv
<1> QED  BY <1>1, <1>2, <1>3, <1>4

\* ReqRespChain takes the object, or it is deleted: the invariant is kept.
LEMMA PutTaskStep == ASSUME IInv, PutTask PROVE IInv'
<1> USE DEF IInv, PutTask, Free
<1>0. lcur \in Reqs
  BY ReqsAreNumbers DEF OrderInv, Reading
<1>1. TypeOK'
  <2>1. made' \subseteq Reqs /\ reqRespChain' \subseteq Reqs
    BY <1>0, Zenon DEF TypeOK
  <2>2. freed' \in [Reqs -> Nat]
    <3>1. freed \in [Reqs -> Nat] /\ (freed' = freed \/ Free(lcur))
      BY DEF TypeOK
    <3> QED  BY <1>0, <3>1, CountedUp
  <2>3. replies' \in [Reqs -> Nat] /\ lost' \subseteq Reqs
    <3>1. (replies' = replies /\ lost' = lost) \/ Reply(lcur)
      OBVIOUS
    <3> QED  BY <1>0, <3>1, ReplyTypes DEF TypeOK
  <2>4. lpc' \in {"call", "idle"}
    OBVIOUS
  <2> QED
    BY <2>1, <2>2, <2>3, <2>4, SMTT(30) DEF TypeOK, PutTask
<1>2. OrderInv'
  BY ReqsAreNumbers DEF TypeOK, OrderInv, Reading, Handling, Replying
<1>3. OwnerInv'
  <2>1. Range(reqChain) \subseteq Reqs /\ Range(respChain) \subseteq Reqs
    BY ReqsAreNumbers, RangeOfSeq DEF TypeOK
  <2>2. lcur \notin OnTheirWay /\ OnTheirWay \subseteq Reqs
    BY ReqsAreNumbers, <2>1
       DEF TypeOK, OrderInv, OnTheirWay, Reading, Handling, Replying
  <2>3. OnTheirWay' = OnTheirWay
    BY DEF OnTheirWay, Handling, Replying
  <2>4. CASE reqRespChain' = reqRespChain \cup {lcur} /\ lpc' = "call"
                /\ UNCHANGED <<freed, replies>>
    BY ReqsAreNumbers, <1>0, <2>2, <2>3, <2>4
       DEF TypeOK, OrderInv, OwnerInv, Reading, Replying
  <2>5. CASE Reply(lcur) /\ Free(lcur) /\ lpc' = "idle"
                /\ UNCHANGED reqRespChain
    <3>1. \A p \in Reqs : p # lcur => replies'[p] = replies[p]
      BY <1>0, <2>5, ReplyTypes DEF TypeOK
    <3> QED
      BY ReqsAreNumbers, <1>0, <2>2, <2>3, <2>5, <3>1
         DEF TypeOK, OrderInv, OwnerInv, Reading, Replying
  <2> QED  BY <2>4, <2>5
<1>4. StopInv'
  BY DEF TypeOK, StopInv
<1> QED  BY <1>1, <1>2, <1>3, <1>4

\* ReqChain takes the object, or it is taken back: the invariant is kept.
LEMMA CallRpcStep == ASSUME IInv, CallRpc PROVE IInv'
<1> USE DEF IInv, CallRpc
<1>1. lcur \in Reqs /\ lcur \in reqRespChain
  BY ReqsAreNumbers DEF OrderInv, OwnerInv, Reading
<1>2. Range(reqChain) \subseteq Reqs /\ Range(respChain) \subseteq Reqs
  BY ReqsAreNumbers, RangeOfSeq DEF TypeOK
<1>3. lcur \notin OnTheirWay /\ OnTheirWay \subseteq Reqs
  BY ReqsAreNumbers, <1>1, <1>2
     DEF TypeOK, OrderInv, OnTheirWay, Reading, Handling, Replying
<1>4. CASE reqChain' = Append(reqChain, lcur) /\ lpc' = "wake"
              /\ UNCHANGED <<reqRespChain, freed, replies, lost>>
  <2>1. /\ reqChain' \in Seq(Reqs)
        /\ Range(reqChain') = Range(reqChain) \cup {lcur}
    BY <1>1, <1>4, PutRange DEF TypeOK
  <2>2. Increasing(reqChain')
    <3>1. \A x \in Range(reqChain) : x < lcur
      BY ReqsAreNumbers DEF OrderInv, Reading
    <3> QED
      BY ReqsAreNumbers, <1>1, <1>4, <3>1, PutIncreasing
         DEF TypeOK, OrderInv, Increasing
  <2>3. TypeOK'
    BY <1>4, <2>1 DEF TypeOK
  <2>4. OrderInv'
    BY ReqsAreNumbers, <1>1, <1>2, <1>4, <2>1, <2>2, SMTT(30)
       DEF TypeOK, OrderInv, Reading, Handling, Replying
  <2>5. OwnerInv'
    <3>1. OnTheirWay' = OnTheirWay \cup {lcur}
      BY <1>4, <2>1 DEF OnTheirWay, Handling, Replying
    <3> QED
      BY ReqsAreNumbers, <1>1, <1>3, <1>4, <3>1 DEF TypeOK, OwnerInv
  <2>6. StopInv'
    BY <1>4 DEF TypeOK, StopInv
  <2> QED  BY <2>3, <2>4, <2>5, <2>6
<1>5. CASE reqRespChain' = TakenBack /\ Reply(lcur) /\ Free(lcur)
              /\ lpc' = "idle" /\ UNCHANGED reqChain
  <2> USE <1>5 DEF TakenBack, Free
  <2>0. /\ replies' \in [Reqs -> Nat] /\ lost' \subseteq Reqs
        /\ \A p \in Reqs : p # lcur => replies'[p] = replies[p]
    BY <1>1, ReplyTypes DEF TypeOK
  <2>1. TypeOK'
    <3>1. freed' \in [Reqs -> Nat] /\ reqRespChain' \subseteq Reqs
      BY <1>1, CountedUp DEF TypeOK
    <3> QED  BY <2>0, <3>1 DEF TypeOK
  <2>2. OrderInv'
    BY ReqsAreNumbers DEF TypeOK, OrderInv, Reading, Handling, Replying
  <2>3. OwnerInv'
    <3>1. OnTheirWay' = OnTheirWay
      BY DEF OnTheirWay, Handling, Replying
    <3>2. lcur \in made /\ ~(spc = "reply" /\ scur = lcur)
      BY ReqsAreNumbers, <1>1 DEF OwnerInv
    <3> QED
      BY ReqsAreNumbers, <1>1, <1>3, <2>0, <3>1, <3>2, SMTT(30) DEF TypeOK, OrderInv, OwnerInv
  <2>4. StopInv'
    BY <1>1 DEF TypeOK, StopInv
  <2> QED  BY <2>1, <2>2, <2>3, <2>4
<1> QED  BY <1>4, <1>5

\* The listen thread posts: the invariant is kept.
LEMMA WakeRpcStep == ASSUME IInv, WakeRpc PROVE IInv'
<1> USE DEF IInv, WakeRpc, Posted
<1>1. TypeOK'
  BY DEF TypeOK
<1>2. OrderInv'
  BY DEF TypeOK, OrderInv, StopInv, Reading, Handling, Replying
<1>3. OwnerInv'
  BY DEF TypeOK, OrderInv, OwnerInv, StopInv, OnTheirWay,
     Reading, Handling, Replying
<1>4. StopInv'
  BY DEF TypeOK, StopInv
<1> QED  BY <1>1, <1>2, <1>3, <1>4

\* The RPC thread wakes up: the invariant is kept.
LEMMA RpcWakesStep == ASSUME IInv, RpcWakes PROVE IInv'
<1> USE DEF IInv, RpcWakes
<1>1. TypeOK'
  BY DEF TypeOK
<1>2. OrderInv'
  BY DEF TypeOK, OrderInv, StopInv, Reading, Handling, Replying
<1>3. OwnerInv'
  BY DEF TypeOK, OrderInv, OwnerInv, StopInv, OnTheirWay,
     Reading, Handling, Replying
<1>4. StopInv'
  BY DEF TypeOK, StopInv
<1> QED  BY <1>1, <1>2, <1>3, <1>4

\* The RPC thread takes a request: the invariant is kept.
LEMMA RpcGetsStep == ASSUME IInv, RpcGets PROVE IInv'
<1> USE DEF IInv, RpcGets
<1>0. Range(reqChain) \subseteq Reqs
  BY ReqsAreNumbers, RangeOfSeq DEF TypeOK
<1>a. reqChain # <<>> => 
      /\ Head(reqChain) \in Reqs /\ Tail(reqChain) \in Seq(Reqs)
      /\ Range(reqChain) = Range(Tail(reqChain)) \cup {Head(reqChain)}
  BY GetRange DEF TypeOK
<1>b. reqChain # <<>> =>
      /\ Increasing(Tail(reqChain))
      /\ \A x \in Range(Tail(reqChain)) : Head(reqChain) < x
  BY ReqsAreNumbers, GetIncreasing DEF TypeOK, OrderInv, Increasing
<1>1. TypeOK'
  <2>1. reqChain' \in Seq(Reqs) /\ rcur' \in Reqs \cup {None}
    BY <1>a DEF TypeOK
  <2> QED
    BY <2>1 DEF TypeOK
<1>2. OrderInv'
  BY ReqsAreNumbers, <1>0, <1>a, <1>b
     DEF TypeOK, OrderInv, StopInv, Reading, Handling, Replying
<1>3. OwnerInv'
  BY ReqsAreNumbers, <1>0, <1>a, <1>b
     DEF TypeOK, OrderInv, OwnerInv, StopInv, OnTheirWay,
     Reading, Handling, Replying
<1>4. StopInv'
  BY DEF TypeOK, StopInv
<1> QED  BY <1>1, <1>2, <1>3, <1>4

\* The handler has run: the invariant is kept.
LEMMA RpcWorksStep == ASSUME IInv, RpcWorks PROVE IInv'
<1> USE DEF IInv, RpcWorks
<1>1. TypeOK'
  BY DEF TypeOK
<1>2. OrderInv'
  BY DEF TypeOK, OrderInv, StopInv, Reading, Handling, Replying
<1>3. OwnerInv'
  BY DEF TypeOK, OrderInv, OwnerInv, StopInv, OnTheirWay,
     Reading, Handling, Replying
<1>4. StopInv'
  BY DEF TypeOK, StopInv
<1> QED  BY <1>1, <1>2, <1>3, <1>4

\* The reply is queued or lost: the invariant is kept.
LEMMA RpcSendsStep == ASSUME IInv, RpcSends PROVE IInv'
<1> USE DEF IInv, RpcSends
<1>0. rcur \in Reqs /\ Range(respChain) \subseteq Reqs
      /\ \A x \in Range(respChain) : x < rcur
  BY ReqsAreNumbers, RangeOfSeq DEF TypeOK, OrderInv, Handling
<1>a. /\ Append(respChain, rcur) \in Seq(Reqs)
      /\ Range(Append(respChain, rcur)) = Range(respChain) \cup {rcur}
  BY <1>0, PutRange DEF TypeOK
<1>b. Increasing(Append(respChain, rcur))
  BY ReqsAreNumbers, <1>0, PutIncreasing DEF TypeOK, OrderInv, Increasing
<1>1. TypeOK'
  <2>1. respChain' \in Seq(Reqs) /\ lost' \subseteq Reqs
    BY <1>0, <1>a DEF TypeOK
  <2> QED
    BY <2>1 DEF TypeOK
<1>2. OrderInv'
  <2>1. Range(reqChain) \subseteq Reqs
    BY ReqsAreNumbers, RangeOfSeq DEF TypeOK
  <2>2. narrived \in Nat /\ scur \in Nat /\ rcur \in Nat
    BY ReqsAreNumbers DEF TypeOK
  <2>3. /\ UNCHANGED <<reqChain, Replying, Reading, scur, narrived, lcur>>
        /\ Handling /\ ~Handling'
    BY DEF Handling, Replying, Reading
  <2> QED
    BY ReqsAreNumbers, <1>0, <1>a, <1>b, <2>1, <2>2, <2>3 DEF OrderInv
<1>3. OwnerInv'
  BY ReqsAreNumbers, <1>0, <1>a, <1>b
     DEF TypeOK, OrderInv, OwnerInv, StopInv, OnTheirWay,
     Reading, Handling, Replying
<1>4. StopInv'
  BY DEF TypeOK, StopInv
<1> QED  BY <1>1, <1>2, <1>3, <1>4

\* The RPC thread posts: the invariant is kept.
LEMMA RpcPostsStep == ASSUME IInv, RpcPosts PROVE IInv'
<1> USE DEF IInv, RpcPosts
<1>1. TypeOK'
  BY DEF TypeOK
<1>2. OrderInv'
  BY DEF TypeOK, OrderInv, StopInv, Reading, Handling, Replying
<1>3. OwnerInv'
  BY DEF TypeOK, OrderInv, OwnerInv, StopInv, OnTheirWay,
     Reading, Handling, Replying
<1>4. StopInv'
  BY DEF TypeOK, StopInv
<1> QED  BY <1>1, <1>2, <1>3, <1>4

\* The RPC thread ends: the invariant is kept.
LEMMA RpcExitsStep == ASSUME IInv, RpcExits PROVE IInv'
<1> USE DEF IInv, RpcExits
<1>1. TypeOK'
  BY DEF TypeOK
<1>2. OrderInv'
  BY DEF TypeOK, OrderInv, StopInv, Reading, Handling, Replying
<1>3. OwnerInv'
  BY DEF TypeOK, OrderInv, OwnerInv, StopInv, OnTheirWay,
     Reading, Handling, Replying
<1>4. StopInv'
  BY DEF TypeOK, StopInv
<1> QED  BY <1>1, <1>2, <1>3, <1>4

\* The response thread wakes up: the invariant is kept.
LEMMA RespWakesStep == ASSUME IInv, RespWakes PROVE IInv'
<1> USE DEF IInv, RespWakes
<1>1. TypeOK'
  BY DEF TypeOK
<1>2. OrderInv'
  BY DEF TypeOK, OrderInv, StopInv, Reading, Handling, Replying
<1>3. OwnerInv'
  BY DEF TypeOK, OrderInv, OwnerInv, StopInv, OnTheirWay,
     Reading, Handling, Replying
<1>4. StopInv'
  BY DEF TypeOK, StopInv
<1> QED  BY <1>1, <1>2, <1>3, <1>4

\* The response thread takes an ident: the invariant is kept.
LEMMA RespGetsStep == ASSUME IInv, RespGets PROVE IInv'
<1> USE DEF IInv, RespGets
<1>0. Range(respChain) \subseteq Reqs
  BY ReqsAreNumbers, RangeOfSeq DEF TypeOK
<1>a. respChain # <<>> => 
      /\ Head(respChain) \in Reqs /\ Tail(respChain) \in Seq(Reqs)
      /\ Range(respChain) = Range(Tail(respChain)) \cup {Head(respChain)}
  BY GetRange DEF TypeOK
<1>b. respChain # <<>> =>
      /\ Increasing(Tail(respChain))
      /\ \A x \in Range(Tail(respChain)) : Head(respChain) < x
  BY ReqsAreNumbers, GetIncreasing DEF TypeOK, OrderInv, Increasing
<1>1. TypeOK'
  <2>1. respChain' \in Seq(Reqs) /\ scur' \in Reqs \cup {None}
    BY <1>a DEF TypeOK
  <2> QED
    BY <2>1 DEF TypeOK
<1>2. OrderInv'
  BY ReqsAreNumbers, <1>0, <1>a, <1>b
     DEF TypeOK, OrderInv, StopInv, Reading, Handling, Replying
<1>3. OwnerInv'
  BY ReqsAreNumbers, <1>0, <1>a, <1>b
     DEF TypeOK, OrderInv, OwnerInv, StopInv, OnTheirWay,
     Reading, Handling, Replying
<1>4. StopInv'
  BY DEF TypeOK, StopInv
<1> QED  BY <1>1, <1>2, <1>3, <1>4

\* The response thread takes the object: the invariant is kept.
LEMMA RespLooksUpStep == ASSUME IInv, RespLooksUp PROVE IInv'
<1> USE DEF IInv, RespLooksUp
<1>1. TypeOK'
  BY DEF TypeOK
<1>2. OrderInv'
  BY DEF TypeOK, OrderInv, StopInv, Reading, Handling, Replying
<1>3. OwnerInv'
  BY DEF TypeOK, OrderInv, OwnerInv, StopInv, OnTheirWay,
     Reading, Handling, Replying
<1>4. StopInv'
  BY DEF TypeOK, StopInv
<1> QED  BY <1>1, <1>2, <1>3, <1>4

\* The response thread replies and deletes: the invariant is kept.
LEMMA RespRepliesStep == ASSUME IInv, RespReplies PROVE IInv'
<1> USE DEF IInv, RespReplies, Free
<1>1. TypeOK'
  <2>1. scur \in Reqs
    BY ReqsAreNumbers DEF OrderInv, Replying
  <2> QED
    BY <2>1, CountedUp, ReplyTypes DEF TypeOK
<1>2. OrderInv'
  BY ReqsAreNumbers DEF TypeOK, OrderInv, StopInv, Reading, Handling, Replying
<1>3. OwnerInv'
  <2>0. narrived \in Nat /\ lcur \in Nat /\ rcur \in Nat /\ scur \in Nat
    BY ReqsAreNumbers DEF TypeOK
  <2>1. Range(reqChain) \subseteq Reqs /\ Range(respChain) \subseteq Reqs
    BY RangeOfSeq DEF TypeOK
  <2>2. /\ scur \in OnTheirWay /\ OnTheirWay \subseteq Reqs
        /\ OnTheirWay' = OnTheirWay \ {scur}
    BY <2>0, <2>1, ReqsAreNumbers
       DEF OrderInv, OnTheirWay, Handling, Replying
  <2>3. scur \in Reqs /\ scur \in made /\ scur \notin reqRespChain
    BY DEF OrderInv, OwnerInv, Replying
  <2>4. ~(lpc \in {"parse", "put", "call"} /\ lcur = scur) /\ scur <= narrived
    BY <2>0, ReqsAreNumbers DEF OrderInv, Reading, Replying
  <2>5. \A p \in Reqs : p # scur => replies'[p] = replies[p]
    BY <2>3, ReplyTypes DEF TypeOK
  <2> QED
    BY <2>2, <2>3, <2>4, <2>5, ReqsAreNumbers
       DEF TypeOK, OrderInv, OwnerInv, Replying
<1>4. StopInv'
  BY DEF TypeOK, StopInv
<1> QED  BY <1>1, <1>2, <1>3, <1>4

\* The response thread ends: the invariant is kept.
LEMMA RespExitsStep == ASSUME IInv, RespExits PROVE IInv'
<1> USE DEF IInv, RespExits
<1>1. TypeOK'
  BY DEF TypeOK
<1>2. OrderInv'
  BY DEF TypeOK, OrderInv, StopInv, Reading, Handling, Replying
<1>3. OwnerInv'
  BY DEF TypeOK, OrderInv, OwnerInv, StopInv, OnTheirWay,
     Reading, Handling, Replying
<1>4. StopInv'
  BY DEF TypeOK, StopInv
<1> QED  BY <1>1, <1>2, <1>3, <1>4

\* Stop() goes on: the invariant is kept.
LEMMA StopNextStep == ASSUME IInv, StopNext PROVE IInv'
<1> USE DEF IInv, StopNext
<1>1. TypeOK'
  BY DEF TypeOK
<1>2. OrderInv'
  BY DEF TypeOK, OrderInv, StopInv, Reading, Handling, Replying
<1>3. OwnerInv'
  BY DEF TypeOK, OrderInv, OwnerInv, StopInv, OnTheirWay,
     Reading, Handling, Replying
<1>4. StopInv'
  BY DEF TypeOK, StopInv
<1> QED  BY <1>1, <1>2, <1>3, <1>4

\* The destructors run: the invariant is kept.
LEMMA DestroyStep == ASSUME IInv, Destroy PROVE IInv'
<1> USE DEF IInv, Destroy, DestroyedOf
<1>1. TypeOK'
  <2>1. \A r \in Reqs : freed[r] + DestroyedOf(r) \in Nat
    BY DEF TypeOK
  <2>2. freed' \in [Reqs -> Nat]
    BY <2>1
  <2> QED
    BY <2>2 DEF TypeOK
<1>2. OrderInv'
  BY DEF TypeOK, OrderInv, StopInv, Reading, Handling, Replying
<1>3. OwnerInv'
  BY DEF TypeOK, OrderInv, OwnerInv, StopInv, OnTheirWay,
     Reading, Handling, Replying
<1>4. StopInv'
  BY DEF TypeOK, StopInv
<1> QED  BY <1>1, <1>2, <1>3, <1>4

\* In every reachable state the invariant holds: one owner per object, the
\* order of arrival kept, the threads joined one after the other.
THEOREM Safety == Spec => []IInv
<1>1. Init => IInv
  <2> SUFFICES ASSUME Init PROVE IInv
    OBVIOUS
  <2> USE DEF Init
  <2>1. Range(<<>>) = {}
    BY DEF Range
  <2>2. TypeOK
    BY ReqsAreNumbers DEF TypeOK
  <2>3. OrderInv
    BY <2>1 DEF OrderInv, Increasing, Reading, Handling, Replying
  <2>4. OwnerInv
    BY <2>1 DEF OwnerInv, OnTheirWay, Handling, Replying
  <2>5. StopInv
    BY DEF StopInv
  <2> QED  BY <2>2, <2>3, <2>4, <2>5 DEF IInv
<1>2. IInv /\ [Next]_vars => IInv'
  <2> SUFFICES ASSUME IInv, [Next]_vars PROVE IInv'
    OBVIOUS
  <2>1. CASE Arrive
    BY <2>1, ArriveStep
  <2>2. CASE Listener
    BY <2>2, RejectStep, ParsedStep, PutTaskStep, CallRpcStep, WakeRpcStep
       DEF Listener
  <2>3. CASE RpcThread
    BY <2>3, RpcWakesStep, RpcGetsStep, RpcWorksStep, RpcSendsStep,
       RpcPostsStep, RpcExitsStep DEF RpcThread
  <2>4. CASE RespThread
    BY <2>4, RespWakesStep, RespGetsStep, RespLooksUpStep, RespRepliesStep,
       RespExitsStep DEF RespThread
  <2>5. CASE StopNext
    BY <2>5, StopNextStep
  <2>6. CASE Destroy
    BY <2>6, DestroyStep
  <2>7. CASE UNCHANGED vars
    <3>1. TypeOK'
      BY <2>7 DEF IInv, TypeOK
    <3>2. OrderInv'
      BY <2>7 DEF IInv, OrderInv, Reading, Handling, Replying
    <3>3. OwnerInv'
      BY <2>7 DEF IInv, OwnerInv, OnTheirWay, Handling, Replying
    <3>4. StopInv'
      BY <2>7 DEF IInv, StopInv
    <3> QED  BY <3>1, <3>2, <3>3, <3>4 DEF IInv
  <2> QED
    BY <2>1, <2>2, <2>3, <2>4, <2>5, <2>6, <2>7 DEF Next
<1> QED
  BY <1>1, <1>2, PTL DEF Spec

\* Whatever allocations fail and whenever Stop() is called, no thread of the
\* proxy or the mapper touches a task object that was deleted, and none is
\* deleted twice.
THEOREM NoObjectUsedAfterDelete == Spec => []NoUseAfterFree
<1>1. IInv => NoUseAfterFree
  <2> SUFFICES ASSUME IInv PROVE NoUseAfterFree
    OBVIOUS
  <2>1. ASSUME NEW r \in Reqs PROVE freed[r] <= 1
    BY DEF IInv, OwnerInv
  <2>2. ASSUME NEW r \in InUse PROVE freed[r] = 0
    <3>1. CASE lcur = r /\ lpc \in {"put", "call"}
      BY <3>1 DEF IInv, OwnerInv, InUse
    <3>2. CASE scur = r /\ spc = "reply"
      BY <3>2 DEF IInv, OwnerInv, InUse
    <3>3. CASE rcur = r /\ rpc \in {"work", "send"}
      <4>1. r \in OnTheirWay /\ stop # "destroyed"
        BY <3>3 DEF IInv, OnTheirWay, Handling, StopInv
      <4> QED  BY <4>1 DEF IInv, OwnerInv, InUse
    <3>4. CASE \E i \in DOMAIN reqChain :
                  reqChain[i] = r /\ stop # "destroyed"
      <4>1. r \in OnTheirWay /\ stop # "destroyed"
        BY <3>4 DEF OnTheirWay, Range
      <4> QED  BY <4>1 DEF IInv, OwnerInv, InUse
    <3> QED  BY <3>1, <3>2, <3>3, <3>4 DEF InUse
  <2> QED  BY <2>1, <2>2 DEF NoUseAfterFree
<1> QED
  BY <1>1, Safety, PTL

\* Once the destructors have run, every task object ever made was deleted.
THEOREM EveryObjectDeleted == Spec => []NothingLeaks
<1>1. IInv => NothingLeaks
  BY DEF IInv, TypeOK, OwnerInv, StopInv, NothingLeaks
<1> QED
  BY <1>1, Safety, PTL
-----------------------------------------------------------------------------
(* The pipeline implements RpcQueue                                        *)

Answered == {r \in Reqs : replies[r] > 0}
Oldest == IF spc \in {"lookup", "reply"} THEN <<scur>> ELSE <<>>
Middle == IF rpc \in {"work", "send"} THEN <<rcur>> ELSE <<>>

\* InOrder is a line of four sequences of requests, and nothing on it was
\* answered; what the listen thread has in hand is not on it.
LEMMA TheLine ==
  ASSUME IInv
  PROVE  /\ InOrder = ((Oldest \o respChain) \o Middle) \o reqChain
         /\ Oldest \in Seq(Reqs) /\ respChain \in Seq(Reqs)
         /\ Middle \in Seq(Reqs) /\ reqChain \in Seq(Reqs)
         /\ Range(InOrder) = OnTheirWay
         /\ Reading => lcur \in Reqs /\ lcur \notin OnTheirWay
                       /\ lcur \notin Answered
<1>1. InOrder = ((Oldest \o respChain) \o Middle) \o reqChain
  BY DEF InOrder, Oldest, Middle
<1>2. /\ Oldest \in Seq(Reqs) /\ Middle \in Seq(Reqs)
      /\ respChain \in Seq(Reqs) /\ reqChain \in Seq(Reqs)
  BY DEF IInv, TypeOK, OrderInv, Handling, Replying, Oldest, Middle
<1>3. Range(InOrder) = OnTheirWay
  <2>1. Oldest \o respChain \in Seq(Reqs)
        /\ (Oldest \o respChain) \o Middle \in Seq(Reqs)
    BY <1>2, ConcatProperties
  <2>2. Range(InOrder)
          = Range(Oldest) \cup Range(respChain) \cup Range(Middle)
              \cup Range(reqChain)
    <3> DEFINE g == Oldest \o respChain  h == g \o Middle
    <3>1. Range(g) = Range(Oldest) \cup Range(respChain)
      BY <1>2, RangeConcatenation
    <3>2. g \in Seq(Reqs) /\ h \in Seq(Reqs) /\ InOrder = h \o reqChain
      BY <1>1, <2>1
    <3> HIDE DEF g
    <3>3. Range(h) = Range(g) \cup Range(Middle)
      BY <1>2, <3>2, RangeConcatenation
    <3> HIDE DEF h
    <3>4. Range(h \o reqChain) = Range(h) \cup Range(reqChain)
      BY <1>2, <3>2, RangeConcatenation
    <3> QED  BY <3>1, <3>2, <3>3, <3>4
  <2>3. Range(Oldest) = IF Replying THEN {scur} ELSE {}
    BY DEF Oldest, Replying, Range
  <2>4. Range(Middle) = IF Handling THEN {rcur} ELSE {}
    BY DEF Middle, Handling, Range
  <2> QED  BY <2>2, <2>3, <2>4 DEF OnTheirWay
<1>4. ASSUME Reading
      PROVE  lcur \in Reqs /\ lcur \notin OnTheirWay /\ lcur \notin Answered
  <2>1. Range(reqChain) \subseteq Reqs /\ Range(respChain) \subseteq Reqs
    BY <1>2, RangeOfSeq
  <2>0. narrived \in Nat /\ lcur \in Nat /\ rcur \in Nat /\ scur \in Nat
    BY ReqsAreNumbers DEF IInv, TypeOK
  <2>2. lcur \in Reqs /\ lcur \notin OnTheirWay
    BY <1>4, <2>0, <2>1, ReqsAreNumbers
       DEF IInv, OrderInv, OnTheirWay
  <2>3. replies[lcur] = 0
    BY <1>4 DEF Reading, IInv, OwnerInv
  <2> QED  BY <2>2, <2>3 DEF Answered
<1> QED  BY <1>1, <1>2, <1>3, <1>4

\* One more reply to a request is one more answered request, if it is not
\* lost.
LEMMA AnsweredAfterReply ==
  ASSUME IInv, NEW r \in Reqs, Reply(r)
  PROVE  Answered' = Answered \cup {r} \/ replies' = replies
<1>1. CASE replies' = [replies EXCEPT ![r] = @ + 1]
  <2>1. \A p \in Reqs : replies[p] \in Nat
                        /\ replies'[p] = replies[p] + (IF p = r THEN 1 ELSE 0)
    BY <1>1 DEF IInv, TypeOK
  <2> QED  BY <2>1 DEF Answered
<1> QED  BY <1>1 DEF Reply

\* The first of the line gone is the rest of the line.
LEMMA LoseFirst ==
  ASSUME NEW S, NEW s \in Seq(S), s # <<>>
  PROVE  1 \in DOMAIN s /\ RemoveAt(s, 1) = Tail(s)
<1>1. 1 \in DOMAIN s /\ Len(s) \in Nat \ {0}
  OBVIOUS
<1>2. PICK u \in Seq(S) :
        /\ u = RemoveAt(s, 1) /\ Len(u) = Len(s) - 1
        /\ \A i \in 1..(Len(s) - 1) : u[i] = s[i + 1]
  BY <1>1, RemovedAt
<1> QED  BY <1>1, <1>2

\* Steps that leave the line and the answers alone do nothing to RpcQueue.
LEMMA SameLine ==
  ASSUME InOrder' = InOrder, replies' = replies
  PROVE  UNCHANGED <<InOrder, {r \in Reqs : replies[r] > 0}>>
OBVIOUS

\* An error reply of the listen thread is a rejected request, one that is lost
\* leaves no trace.
LEMMA ErrorIsReject ==
  ASSUME IInv, Reading, Reply(lcur),
         UNCHANGED <<reqChain, rpcVars, respChain, respVars>>
  PROVE  [Abstract!Next]_<<InOrder, {r \in Reqs : replies[r] > 0}>>
<1>1. lcur \in Reqs /\ lcur \notin Range(InOrder) /\ lcur \notin Answered
  BY TheLine
<1>2. InOrder' = InOrder
  BY DEF InOrder
<1>3. CASE Answered' = Answered \cup {lcur}
  <2>1. \E r \in 1..MaxReq : Abstract!Reject(r)
    BY <1>1, <1>2, <1>3 DEF Abstract!Reject, Answered, Range, Reqs
  <2> QED  BY <2>1 DEF Abstract!Next
<1>4. CASE replies' = replies
  BY <1>2, <1>4, SameLine
<1> QED  BY <1>1, <1>3, <1>4, AnsweredAfterReply

\* The listen thread's steps are steps of RpcQueue or stutters.
LEMMA ListenerRefines ==
  ASSUME IInv, Arrive \/ Listener
  PROVE  [Abstract!Next]_<<InOrder, {r \in Reqs : replies[r] > 0}>>
<1>1. CASE Arrive \/ Parsed \/ WakeRpc
  <2>1. InOrder' = InOrder /\ replies' = replies
    BY <1>1 DEF Arrive, Parsed, WakeRpc, InOrder
  <2> QED  BY <2>1, SameLine
<1>2. CASE Reject
  BY <1>2, ErrorIsReject DEF Reject, Reading
<1>3. CASE PutTask
  <2>1. CASE UNCHANGED <<freed, replies, lost>>
    <3>1. InOrder' = InOrder
      BY <1>3 DEF PutTask, InOrder
    <3> QED  BY <2>1, <3>1, SameLine
  <2>2. CASE Reply(lcur)
    BY <1>3, <2>2, ErrorIsReject DEF PutTask, Reading
  <2> QED  BY <1>3, <2>1, <2>2 DEF PutTask
<1>4. CASE CallRpc
  <2>1. CASE reqChain' = Append(reqChain, lcur)
                /\ UNCHANGED <<reqRespChain, freed, replies, lost>>
    <3> DEFINE a == (Oldest \o respChain) \o Middle
    <3>1. /\ InOrder = a \o reqChain
          /\ lcur \in Reqs /\ lcur \notin Range(InOrder)
          /\ lcur \notin Answered
      BY <1>4, TheLine DEF CallRpc, Reading
    <3>2. a \in Seq(Reqs) /\ reqChain \in Seq(Reqs)
      BY TheLine, ConcatProperties
    <3>3. InOrder' = a \o Append(reqChain, lcur)
      BY <1>4, <2>1 DEF CallRpc, InOrder, Oldest, Middle
    <3>4. InOrder' = Append(InOrder, lcur)
      <4> HIDE DEF a
      <4>1. a \o Append(reqChain, lcur) = Append(a \o reqChain, lcur)
        BY <3>1, <3>2, LineAppend
      <4> QED  BY <3>1, <3>3, <4>1
    <3>5. \E r \in 1..MaxReq : Abstract!Accept(r)
      BY <2>1, <3>1, <3>4 DEF Abstract!Accept, Answered, Range, Reqs
    <3> QED  BY <3>5 DEF Abstract!Next
  <2>2. CASE Reply(lcur) /\ UNCHANGED reqChain
    BY <1>4, <2>2, ErrorIsReject DEF CallRpc, Reading
  <2> QED  BY <1>4, <2>1, <2>2 DEF CallRpc
<1> QED  BY <1>1, <1>2, <1>3, <1>4 DEF Listener

\* So are the RPC thread's: only a lost reply takes a request off the line.
LEMMA RpcThreadRefines ==
  ASSUME IInv, RpcThread
  PROVE  [Abstract!Next]_<<InOrder, {r \in Reqs : replies[r] > 0}>>
<1> DEFINE a == Oldest \o respChain
<1>0. /\ InOrder = (a \o Middle) \o reqChain
      /\ Oldest \in Seq(Reqs) /\ respChain \in Seq(Reqs)
      /\ a \in Seq(Reqs) /\ Middle \in Seq(Reqs) /\ reqChain \in Seq(Reqs)
  BY TheLine, ConcatProperties
<1>1. CASE RpcWakes \/ RpcWorks \/ RpcPosts \/ RpcExits
  <2>1. InOrder' = InOrder /\ replies' = replies
    BY <1>1 DEF RpcWakes, RpcWorks, RpcPosts, RpcExits, InOrder
  <2> QED  BY <2>1, SameLine
<1>2. CASE RpcGets
  <2>1. CASE reqChain = <<>>
    <3>1. InOrder' = InOrder /\ replies' = replies
      BY <1>2, <2>1 DEF RpcGets, InOrder
    <3> QED  BY <3>1, SameLine
  <2>2. CASE reqChain # <<>>
    <3>1. Middle = <<>>
      BY <1>2 DEF RpcGets, Middle
    <3>2. InOrder' = (a \o <<Head(reqChain)>>) \o Tail(reqChain)
      BY <1>2, <2>2 DEF RpcGets, InOrder, Oldest
    <3>3. InOrder' = InOrder
      BY <1>0, <2>2, <3>1, <3>2, LineTake
    <3> QED  BY <1>2, <3>3, SameLine DEF RpcGets
  <2> QED  BY <2>1, <2>2
<1>3. CASE RpcSends
  <2>1. Middle = <<rcur>> /\ rcur \in Reqs
    BY <1>3 DEF RpcSends, Middle, IInv, OrderInv, Handling
  <2>2. CASE respChain' = Append(respChain, rcur) /\ rpc' = "wake"
    <3>1. InOrder' = ((Oldest \o Append(respChain, rcur)) \o <<>>) \o reqChain
      BY <1>3, <2>2 DEF RpcSends, InOrder, Oldest
    <3>2. a \o <<rcur>> = (Oldest \o Append(respChain, rcur)) \o <<>>
      BY <1>0, <2>1, LinePut
    <3>3. InOrder' = InOrder
      BY <1>0, <2>1, <3>1, <3>2
    <3> QED  BY <1>3, <3>3, SameLine DEF RpcSends
  <2>3. CASE respChain' = respChain /\ rpc' = "idle"
    <3>1. InOrder' = (a \o <<>>) \o reqChain
      BY <1>3, <2>3 DEF RpcSends, InOrder, Oldest
    <3>2. InOrder = (a \o <<rcur>>) \o reqChain
      BY <1>0, <2>1
    <3>3. /\ Len(a) + 1 \in DOMAIN InOrder
          /\ InOrder' = RemoveAt(InOrder, Len(a) + 1)
      <4> HIDE DEF a
      <4>1. /\ Len(a) + 1 \in DOMAIN ((a \o <<rcur>>) \o reqChain)
            /\ RemoveAt((a \o <<rcur>>) \o reqChain, Len(a) + 1)
                 = (a \o <<>>) \o reqChain
        <5>1. a \in Seq(Reqs) /\ reqChain \in Seq(Reqs) /\ rcur \in Reqs
          BY <1>0, <2>1
        <5> QED  BY <5>1, LineLose
      <4> QED  BY <3>1, <3>2, <4>1
    <3>4. Abstract!Lose
      BY <1>3, <3>3 DEF RpcSends, Abstract!Lose, Abstract!RemoveAt, RemoveAt
    <3> QED  BY <3>4 DEF Abstract!Next
  <2> QED  BY <1>3, <2>2, <2>3 DEF RpcSends
<1> QED  BY <1>1, <1>2, <1>3 DEF RpcThread

\* And the response thread's: it answers or loses the head of the line.
LEMMA RespThreadRefines ==
  ASSUME IInv, RespThread
  PROVE  [Abstract!Next]_<<InOrder, {r \in Reqs : replies[r] > 0}>>
<1>0. /\ InOrder = ((Oldest \o respChain) \o Middle) \o reqChain
      /\ Range(InOrder) = OnTheirWay
      /\ respChain \in Seq(Reqs)
      /\ Middle \in Seq(Reqs) /\ reqChain \in Seq(Reqs)
  BY TheLine
<1>1. CASE RespWakes \/ RespExits
  <2>1. InOrder' = InOrder /\ replies' = replies
    BY <1>1 DEF RespWakes, RespExits, InOrder
  <2> QED  BY <2>1, SameLine
<1>2. CASE RespGets
  <2>1. CASE respChain = <<>>
    <3>1. InOrder' = InOrder /\ replies' = replies
      BY <1>2, <2>1 DEF RespGets, InOrder
    <3> QED  BY <3>1, SameLine
  <2>2. CASE respChain # <<>>
    <3>1. Oldest = <<>>
      BY <1>2 DEF RespGets, Oldest
    <3>2. InOrder'
            = ((<<Head(respChain)>> \o Tail(respChain)) \o Middle) \o reqChain
      BY <1>2, <2>2 DEF RespGets, InOrder, Middle
    <3>3. <<>> \o respChain = <<Head(respChain)>> \o Tail(respChain)
      BY <1>0, <2>2, HeadTailProperties, ConcatEmptySeq
    <3>4. InOrder' = InOrder
      BY <1>0, <3>1, <3>2, <3>3
    <3> QED  BY <1>2, <3>4, SameLine DEF RespGets
  <2> QED  BY <2>1, <2>2
<1>3. CASE RespLooksUp
  <2>1. scur \in reqRespChain
    BY <1>3 DEF RespLooksUp, IInv, StopInv, OwnerInv, OnTheirWay, Replying
  <2>2. InOrder' = InOrder /\ replies' = replies
    BY <1>3, <2>1 DEF RespLooksUp, InOrder
  <2> QED  BY <2>2, SameLine
<1>4. CASE RespReplies
  <2>1. Oldest = <<scur>> /\ scur \in Reqs
    BY <1>4 DEF RespReplies, Oldest, IInv, OrderInv, Replying
  <2>2. InOrder # <<>> /\ Head(InOrder) = scur
        /\ Tail(InOrder) = ((<<>> \o respChain) \o Middle) \o reqChain
    <3> DEFINE f == <<scur>>  g == f \o respChain  h == g \o Middle
    <3>1. /\ f \in Seq(Reqs) /\ f # <<>> /\ Head(f) = scur /\ Tail(f) = <<>>
      BY <2>1
    <3> HIDE DEF f
    <3>2. /\ g \in Seq(Reqs) /\ g # <<>> /\ Head(g) = scur
          /\ Tail(g) = <<>> \o respChain
      BY <1>0, <3>1, LineHead, ConcatProperties
    <3> HIDE DEF g
    <3>3. /\ h \in Seq(Reqs) /\ h # <<>> /\ Head(h) = scur
          /\ Tail(h) = Tail(g) \o Middle
      <4>1. g \in Seq(Reqs) /\ g # <<>> /\ Head(g) = scur
            /\ Middle \in Seq(Reqs)
        BY <1>0, <3>2
      <4> QED  BY <4>1, LineHead, ConcatProperties
    <3> HIDE DEF h
    <3>4. /\ h \o reqChain # <<>> /\ Head(h \o reqChain) = scur
          /\ Tail(h \o reqChain) = Tail(h) \o reqChain
      <4>1. h \in Seq(Reqs) /\ h # <<>> /\ Head(h) = scur
            /\ reqChain \in Seq(Reqs)
        BY <1>0, <3>3
      <4> QED  BY <4>1, LineHead
    <3>5. InOrder = h \o reqChain
      BY <1>0, <2>1 DEF f, g, h
    <3> QED  BY <3>2, <3>3, <3>4, <3>5
  <2>3. InOrder' = ((<<>> \o respChain) \o Middle) \o reqChain
    BY <1>4 DEF RespReplies, InOrder, Middle
  <2>4. scur \notin Answered
    BY <1>4 DEF RespReplies, IInv, OwnerInv, OnTheirWay, Replying, Answered
  <2>5. CASE Answered' = Answered \cup {scur}
    <3>1. Abstract!Answer
      BY <2>2, <2>3, <2>4, <2>5 DEF Abstract!Answer, Answered
    <3> QED  BY <3>1 DEF Abstract!Next
  <2>6. CASE replies' = replies
    <3>1. InOrder \in Seq(Reqs)
      <4>1. Oldest \o respChain \in Seq(Reqs)
        BY TheLine, ConcatProperties
      <4>2. (Oldest \o respChain) \o Middle \in Seq(Reqs)
        BY <1>0, <4>1, ConcatProperties
      <4> QED  BY <1>0, <4>2, ConcatProperties
    <3>2. 1 \in DOMAIN InOrder /\ InOrder' = RemoveAt(InOrder, 1)
      BY <2>2, <2>3, <3>1, LoseFirst
    <3>3. Abstract!Lose
      BY <2>6, <3>2 DEF Abstract!Lose, Abstract!RemoveAt, RemoveAt
    <3> QED  BY <3>3 DEF Abstract!Next
  <2>7. Answered' = Answered \cup {scur} \/ replies' = replies
    BY <1>4, <2>1, AnsweredAfterReply DEF RespReplies
  <2> QED  BY <2>5, <2>6, <2>7
<1> QED  BY <1>1, <1>2, <1>3, <1>4 DEF RespThread

\* The threads and chains of the proxy and the mapper keep the promise of
\* RpcQueue: requests are answered in the order in which they were accepted,
\* each at most once, and one is lost only when its reply cannot be queued.
THEOREM PipelineImplementsRpcQueue == Spec => ImplementsRpcQueue
<1>1. Init => Abstract!Init
  BY DEF Init, Abstract!Init, InOrder, Reqs
<1>2. IInv /\ [Next]_vars
        => [Abstract!Next]_<<InOrder, {r \in Reqs : replies[r] > 0}>>
  <2> SUFFICES ASSUME IInv, [Next]_vars
               PROVE  [Abstract!Next]_<<InOrder, {r \in Reqs : replies[r] > 0}>>
    OBVIOUS
  <2>1. CASE Arrive \/ Listener
    BY <2>1, ListenerRefines
  <2>2. CASE RpcThread
    BY <2>2, RpcThreadRefines
  <2>3. CASE RespThread
    BY <2>3, RespThreadRefines
  <2>4. CASE StopNext \/ Destroy \/ UNCHANGED vars
    <3>1. InOrder' = InOrder /\ replies' = replies
      BY <2>4 DEF StopNext, Destroy, InOrder
    <3> QED  BY <3>1, SameLine
  <2> QED  BY <2>1, <2>2, <2>3, <2>4 DEF Next
<1> QED
  BY <1>1, <1>2, Safety, PTL DEF Spec, ImplementsRpcQueue, Abstract!Spec
==============================================================================
