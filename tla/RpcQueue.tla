------------------------------ MODULE RpcQueue ------------------------------
(***************************************************************************)
(* What the RPC layer promises the network server: a request is rejected   *)
(* at once or accepted, accepted requests are answered in the order in     *)
(* which they were accepted, and no request is answered twice; a reply is  *)
(* lost only when there is no memory to queue it.  NetServer models its    *)
(* consumer this way; RpcPipeline shows that the threads and chains behind *)
(* it keep the promise.                                                    *)
(***************************************************************************)
EXTENDS Naturals, SequencesExt

CONSTANT MaxReq      \* requests during a behaviour (bound)

VARIABLES work,      \* accepted requests without an answer
          answered   \* requests that have one

Accept(r) ==
    /\ r \notin answered
    /\ \A i \in DOMAIN work : work[i] # r
    /\ work' = Append(work, r)
    /\ UNCHANGED answered

Reject(r) ==
    /\ r \notin answered
    /\ \A i \in DOMAIN work : work[i] # r
    /\ answered' = answered \cup {r}
    /\ UNCHANGED work

Answer ==
    /\ work # <<>>
    /\ Head(work) \notin answered
    /\ answered' = answered \cup {Head(work)}
    /\ work' = Tail(work)

Lose ==
    \E i \in DOMAIN work :
       /\ work' = RemoveAt(work, i)
       /\ UNCHANGED answered

Init == work = <<>> /\ answered = {}

Next == Answer \/ Lose \/ \E r \in 1..MaxReq : Accept(r) \/ Reject(r)

Spec == Init /\ [][Next]_<<work, answered>>
=============================================================================
