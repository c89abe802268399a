----------------------------- MODULE TaskProofs -----------------------------
(***************************************************************************)
(* The life of an asynchronous task, for any number of tasks.              *)
(*                                                                         *)
(* TaskWorker, for any size of the chain of records: every pending task    *)
(* has its record and its id to itself.                                    *)
(*                                                                         *)
(* SysMgr, for any set of commands called and any length of the log: the   *)
(* work data of a task has one owner at every moment, and the log list a   *)
(* task rebuilds is in order whenever it is read.                          *)
(***************************************************************************)
EXTENDS TaskWorker, SysMgr, ChainLemmas

USE DEF vars, rpcVars, workerVars

\* chain_remove_by_ident(): one element less, if the id was there; the others
\* stay, in a chain without duplicates nothing with that id is left.
LEMMA WithoutFacts ==
  ASSUME NEW S, NEW s \in Seq(S), NEW id
  PROVE  /\ Without(s, id) \in Seq(S)
         /\ Range(Without(s, id)) \subseteq Range(s)
         /\ \A e \in Range(s) : e.id # id => e \in Range(Without(s, id))
         /\ DistinctIds(s) =>
               /\ DistinctIds(Without(s, id))
               /\ \A e \in Range(Without(s, id)) : e.id # id
<1> DEFINE I == {i \in 1..Len(s) : s[i].id = id}
<1>0. Len(s) \in Nat /\ DOMAIN s = 1..Len(s)
  OBVIOUS
<1>1. CASE I = {}
  <2>1. Without(s, id) = s
    BY <1>1 DEF Without, RemoveFirstMatch
  <2>2. \A e \in Range(s) : e.id # id
    BY <1>0, <1>1 DEF Range
  <2> QED  BY <2>1, <2>2
<1>2. CASE I # {}
  <2>0. I \subseteq Nat
    BY <1>0
  <2>1. PICK k \in I : \A i \in I : k <= i
    <3> HIDE DEF I
    <3> QED  BY <1>2, <2>0, NatMinimum
  <2>2. Without(s, id) = RemoveAt(s, Min(I))
    BY <1>2 DEF Without, RemoveFirstMatch, SelectInSeq
  <2>3. Min(I) = k
    <3>1. \A i \in I : (\A j \in I : i <= j) => i = k
      BY <1>0, <2>1
    <3> HIDE DEF I
    <3> QED  BY <2>1, <3>1 DEF Min
  <2>4. k \in DOMAIN s /\ s[k].id = id /\ Without(s, id) = RemoveAt(s, k)
    BY <1>0, <2>2, <2>3
  <2> DEFINE r == Without(s, id)
  <2>5. /\ r \in Seq(S) /\ DOMAIN r = 1..(Len(s) - 1)
        /\ \A i \in 1..(Len(s) - 1) : r[i] = IF i < k THEN s[i] ELSE s[i + 1]
        /\ Range(r) \subseteq Range(s)
        /\ Range(s) = Range(r) \cup {s[k]}
    BY <1>0, <2>4, RemovedAt
  <2> HIDE DEF r
  <2>6. ASSUME DistinctIds(s)
        PROVE  DistinctIds(r) /\ \A e \in Range(r) : e.id # id
    <3> DEFINE at(i) == IF i < k THEN i ELSE i + 1
    <3>1. \A i \in DOMAIN r :
             at(i) \in DOMAIN s /\ at(i) # k /\ r[i] = s[at(i)]
      BY <1>0, <2>4, <2>5
    <3>2. \A i, j \in DOMAIN r : at(i) = at(j) => i = j
      BY <1>0, <2>4, <2>5
    <3> HIDE DEF at
    <3>3. DistinctIds(r)
      BY <2>6, <3>1, <3>2 DEF DistinctIds
    <3>4. ASSUME NEW i \in DOMAIN r PROVE r[i].id # id
      BY <2>4, <2>6, <3>1 DEF DistinctIds
    <3> QED  BY <3>3, <3>4 DEF Range
  <2> QED  BY <2>4, <2>5, <2>6 DEF r
<1> QED  BY <1>1, <1>2

\* A chain that has the id is one element shorter without it.
LEMMA WithoutLength ==
  ASSUME NEW S, NEW s \in Seq(S), NEW e \in Range(s)
  PROVE  Len(Without(s, e.id)) = Len(s) - 1
<1> DEFINE I == {i \in 1..Len(s) : s[i].id = e.id}
<1>1. I # {} /\ I \subseteq DOMAIN s /\ I \subseteq Nat
  BY DEF Range
<1>2. Without(s, e.id) = RemoveAt(s, Min(I))
  BY <1>1 DEF Without, RemoveFirstMatch, SelectInSeq
<1>3. Min(I) \in DOMAIN s
  <2> HIDE DEF I
  <2>1. \E m \in I : \A n \in I : m <= n
    BY <1>1, NatMinimum
  <2> QED  BY <1>1, <2>1 DEF Min
<1> QED  BY <1>2, <1>3, RemovedAt

\* The ids of the records are numbers.
LEMMA RecordIds ==
  ASSUME TypeOK PROVE \A i \in DOMAIN inprog : inprog[i].id \in Nat
<1>1. \A i \in DOMAIN inprog : inprog[i] \in Record
  BY DEF TypeOK
<1> QED  BY <1>1 DEF Record

\* Nothing in the chains changes and the worker stays where it is.
LEMMA SamePending ==
  ASSUME UNCHANGED <<workChain, inprog>>
  PROVE  Queued' = Queued /\ Records' = Records
BY DEF Queued, Records

\* A task is pushed: the invariant is kept.
LEMMA PushTaskStep == ASSUME IInv, PushTask PROVE IInv'
<1> USE DEF IInv, PushTask
<1>1. Queued' = Queued /\ Records' = Records /\ Running' = Running
  BY SamePending DEF Running
<1>2. TypeOK'
  BY DEF TypeOK, NoWork, Task, Record
<1>3. WakeInv'
  BY DEF TypeOK, WakeInv
<1>4. IdInv'
  BY <1>1 DEF TypeOK, IdInv
<1>5. LookedInv'
  BY <1>1 DEF TypeOK, LookedInv, InProg
<1>6. PendingIsRecorded'
  BY <1>1 DEF PendingIsRecorded
<1> QED  BY <1>2, <1>3, <1>4, <1>5, <1>6

\* The size is looked at: the invariant is kept.
LEMMA EvictSizeStep == ASSUME IInv, EvictSize PROVE IInv'
<1> USE DEF IInv, EvictSize
<1>1. Queued' = Queued /\ Records' = Records /\ Running' = Running
  BY SamePending DEF Running
<1>2. TypeOK'
  BY DEF TypeOK, NoWork, Task, Record
<1>3. WakeInv'
  BY DEF TypeOK, WakeInv
<1>4. IdInv'
  BY <1>1 DEF TypeOK, IdInv
<1>5. LookedInv'
  BY <1>1 DEF TypeOK, LookedInv, InProg
<1>6. PendingIsRecorded'
  BY <1>1 DEF PendingIsRecorded
<1> QED  BY <1>2, <1>3, <1>4, <1>5, <1>6

\* The oldest finished record is found: the invariant is kept.
LEMMA EvictPickStep == ASSUME IInv, EvictPick PROVE IInv'
<1> USE DEF IInv, EvictPick
<1>1. Queued' = Queued /\ Records' = Records /\ Running' = Running
  BY SamePending DEF Running
<1>2. TypeOK'
  BY RecordIds DEF TypeOK
<1>3. WakeInv'
  BY DEF TypeOK, WakeInv
<1>4. IdInv'
  BY <1>1 DEF TypeOK, IdInv
<1>5. LookedInv'
  BY <1>1 DEF TypeOK, LookedInv, IdInv, DistinctIds,
     Evictable, Finished, Records, Range
<1>6. PendingIsRecorded'
  BY <1>1 DEF PendingIsRecorded
<1> QED  BY <1>2, <1>3, <1>4, <1>5, <1>6

\* The worker is posted: the invariant is kept.
LEMMA WakeStep == ASSUME IInv, Wake PROVE IInv'
<1> USE DEF IInv, Wake, Post
<1>1. Queued' = Queued /\ Records' = Records /\ Running' = Running
  BY SamePending DEF Running
<1>2. TypeOK'
  BY DEF TypeOK, NoWork, Task, Record
<1>3. WakeInv'
  BY DEF TypeOK, WakeInv
<1>4. IdInv'
  BY <1>1 DEF TypeOK, IdInv
<1>5. LookedInv'
  BY <1>1 DEF TypeOK, LookedInv, InProg
<1>6. PendingIsRecorded'
  BY <1>1 DEF PendingIsRecorded
<1> QED  BY <1>2, <1>3, <1>4, <1>5, <1>6

\* A finished record is polled: the invariant is kept.
LEMMA PollStep == ASSUME IInv, Poll PROVE IInv'
<1> USE DEF IInv, Poll
<1>1. Queued' = Queued /\ Records' = Records /\ Running' = Running
  BY SamePending DEF Running
<1>2. TypeOK'
  BY RecordIds DEF TypeOK
<1>3. WakeInv'
  BY DEF TypeOK, WakeInv
<1>4. IdInv'
  BY <1>1 DEF TypeOK, IdInv
<1>5. LookedInv'
  BY <1>1 DEF TypeOK, LookedInv, IdInv, DistinctIds,
     Finished, Records, Range
<1>6. PendingIsRecorded'
  BY <1>1 DEF PendingIsRecorded
<1> QED  BY <1>2, <1>3, <1>4, <1>5, <1>6

\* A reset begins: the invariant is kept.
LEMMA ResetStep == ASSUME IInv, Reset PROVE IInv'
<1> USE DEF IInv, Reset
<1>1. Queued' = Queued /\ Records' = Records /\ Running' = Running
  BY SamePending DEF Running
<1>2. TypeOK'
  BY DEF TypeOK, NoWork, Task, Record
<1>3. WakeInv'
  BY DEF TypeOK, WakeInv
<1>4. IdInv'
  BY <1>1 DEF TypeOK, IdInv
<1>5. LookedInv'
  BY <1>1 DEF TypeOK, LookedInv, InProg
<1>6. PendingIsRecorded'
  BY <1>1 DEF PendingIsRecorded
<1> QED  BY <1>2, <1>3, <1>4, <1>5, <1>6

\* A reset looks at the queue: the invariant is kept.
LEMMA ResetWorkStep == ASSUME IInv, ResetWork PROVE IInv'
<1> USE DEF IInv, ResetWork
<1>1. Queued' = Queued /\ Records' = Records /\ Running' = Running
  BY SamePending DEF Running
<1>2. TypeOK'
  BY DEF TypeOK, NoWork, Task, Record
<1>3. WakeInv'
  BY DEF TypeOK, WakeInv
<1>4. IdInv'
  BY <1>1 DEF TypeOK, IdInv
<1>5. LookedInv'
  BY <1>1 DEF TypeOK, LookedInv, InProg
<1>6. PendingIsRecorded'
  BY <1>1 DEF PendingIsRecorded
<1> QED  BY <1>2, <1>3, <1>4, <1>5, <1>6

\* A reset looks at the records: the invariant is kept.
LEMMA ResetInprogStep == ASSUME IInv, ResetInprog PROVE IInv'
<1> USE DEF IInv, ResetInprog
<1>1. Queued' = Queued /\ Records' = Records /\ Running' = Running
  BY SamePending DEF Running
<1>2. TypeOK'
  BY DEF TypeOK, NoWork, Task, Record
<1>3. WakeInv'
  BY DEF TypeOK, WakeInv
<1>4. IdInv'
  BY <1>1 DEF TypeOK, IdInv
<1>5. LookedInv'
  BY <1>1 DEF TypeOK, LookedInv, IdInv, DistinctIds,
     StillRunning, Finished, Records, Range
<1>6. PendingIsRecorded'
  BY <1>1 DEF PendingIsRecorded
<1> QED  BY <1>2, <1>3, <1>4, <1>5, <1>6

\* The worker wakes up: the invariant is kept.
LEMMA WorkerWakesStep == ASSUME IInv, WorkerWakes PROVE IInv'
<1> USE DEF IInv, WorkerWakes
<1>1. Queued' = Queued /\ Records' = Records /\ Running' = Running
  BY SamePending DEF Running
<1>2. TypeOK'
  BY DEF TypeOK, NoWork, Task, Record
<1>3. WakeInv'
  BY DEF TypeOK, WakeInv
<1>4. IdInv'
  BY <1>1 DEF TypeOK, IdInv
<1>5. LookedInv'
  BY <1>1 DEF TypeOK, LookedInv, InProg
<1>6. PendingIsRecorded'
  BY <1>1 DEF PendingIsRecorded
<1> QED  BY <1>2, <1>3, <1>4, <1>5, <1>6

\* The worker sends the done event: the invariant is kept.
LEMMA WorkerNotifiesStep == ASSUME IInv, WorkerNotifies PROVE IInv'
<1> USE DEF IInv, WorkerNotifies
<1>1. Queued' = Queued /\ Records' = Records /\ Running' = Running
  BY SamePending DEF Running
<1>2. TypeOK'
  BY DEF TypeOK, NoWork, Task, Record
<1>3. WakeInv'
  BY DEF TypeOK, WakeInv
<1>4. IdInv'
  BY <1>1 DEF TypeOK, IdInv
<1>5. LookedInv'
  BY <1>1 DEF TypeOK, LookedInv, InProg
<1>6. PendingIsRecorded'
  BY <1>1 DEF PendingIsRecorded
<1> QED  BY <1>2, <1>3, <1>4, <1>5, <1>6

\* The service stops: the invariant is kept.
LEMMA StopStep == ASSUME IInv, Stop PROVE IInv'
<1> USE DEF IInv, Stop
<1>1. Queued' = Queued /\ Records' = Records /\ Running' = Running
  BY SamePending DEF Running
<1>2. TypeOK'
  BY DEF TypeOK, NoWork, Task, Record
<1>3. WakeInv'
  BY DEF TypeOK, WakeInv
<1>4. IdInv'
  BY <1>1 DEF TypeOK, IdInv
<1>5. LookedInv'
  BY <1>1 DEF TypeOK, LookedInv, InProg
<1>6. PendingIsRecorded'
  BY <1>1 DEF PendingIsRecorded
<1> QED  BY <1>2, <1>3, <1>4, <1>5, <1>6

\* The worker ends: the invariant is kept.
LEMMA WorkerExitsStep == ASSUME IInv, WorkerExits PROVE IInv'
<1> USE DEF IInv, WorkerExits
<1>1. Queued' = Queued /\ Records' = Records /\ Running' = Running
  BY SamePending DEF Running
<1>2. TypeOK'
  BY DEF TypeOK, NoWork, Task, Record
<1>3. WakeInv'
  BY DEF TypeOK, WakeInv
<1>4. IdInv'
  BY <1>1 DEF TypeOK, IdInv
<1>5. LookedInv'
  BY <1>1 DEF TypeOK, LookedInv, InProg
<1>6. PendingIsRecorded'
  BY <1>1 DEF PendingIsRecorded
<1> QED  BY <1>2, <1>3, <1>4, <1>5, <1>6

\* The record found is removed: the invariant is kept.
LEMMA EvictRemoveStep == ASSUME IInv, EvictRemove PROVE IInv'
<1> USE DEF IInv, EvictRemove
<1>1. Queued' = Queued /\ Running' = Running
  BY DEF Queued, Running
<1>2. /\ inprog' \in Seq(Record) /\ DistinctIds(inprog')
      /\ Records' \subseteq Records
      /\ \A r \in Records : r.id # victim => r \in Records'
  BY WithoutFacts DEF TypeOK, IdInv, Records
<1>3. TypeOK'
  BY <1>2 DEF TypeOK
<1>4. WakeInv'
  BY DEF TypeOK, WakeInv
<1>5. IdInv'
  BY <1>1, <1>2 DEF TypeOK, IdInv
<1>6. LookedInv'
  BY <1>1, <1>2 DEF TypeOK, LookedInv
<1>7. PendingIsRecorded'
  BY <1>1, <1>2 DEF PendingIsRecorded, LookedInv
<1> QED  BY <1>3, <1>4, <1>5, <1>6, <1>7

\* The polled record is dropped: the invariant is kept.
LEMMA PollDropStep == ASSUME IInv, PollDrop PROVE IInv'
<1> USE DEF IInv, PollDrop
<1>1. Queued' = Queued /\ Running' = Running
  BY DEF Queued, Running
<1>2. /\ inprog' \in Seq(Record) /\ DistinctIds(inprog')
      /\ Records' \subseteq Records
      /\ \A r \in Records : r.id # victim => r \in Records'
  BY WithoutFacts DEF TypeOK, IdInv, Records
<1>3. TypeOK'
  BY <1>2 DEF TypeOK
<1>4. WakeInv'
  BY DEF TypeOK, WakeInv
<1>5. IdInv'
  BY <1>1, <1>2 DEF TypeOK, IdInv
<1>6. LookedInv'
  BY <1>1, <1>2 DEF TypeOK, LookedInv
<1>7. PendingIsRecorded'
  BY <1>1, <1>2 DEF PendingIsRecorded, LookedInv
<1> QED  BY <1>3, <1>4, <1>5, <1>6, <1>7

\* The task gets its id and is queued, or not: the invariant is kept.
LEMMA PutWorkStep == ASSUME IInv, PutWork PROVE IInv'
<1> USE DEF IInv
<1>1. /\ new' \in Task /\ new'.id = ident + 1 /\ new'.uid = new.uid
      /\ ident' = ident + 1 /\ ident \in Nat
  <2>1. new \in Task /\ ident \in Nat
    BY DEF TypeOK
  <2>2. ident' = ident + 1 /\ new' = [new EXCEPT !.id = ident + 1]
    BY DEF PutWork
  <2> QED  BY <2>1, <2>2 DEF Task
<1>2. Records' = Records /\ Running' = Running
  BY DEF PutWork, Records, Running
<1>3. /\ \A t \in Queued : t.id \in Nat /\ t.id < new'.id
      /\ \A r \in Records : r.id \in Nat /\ r.id < new'.id
      /\ wpc = "run" => cur.id \in Nat /\ cur.id < new'.id
  <2>1. Queued \subseteq Task /\ Records \subseteq Record
    BY RangeOfSeq DEF TypeOK, Queued, Records
  <2>2. \A t \in Task \cup Record : t.id \in Nat
    BY DEF Task, Record
  <2> QED  BY <1>1, <2>1, <2>2 DEF TypeOK, IdInv
<1>4. CASE workChain' = Append(workChain, new') /\ pc' = "putrecord"
  <2>1. /\ workChain' \in Seq(Task) /\ workChain' # <<>>
        /\ Queued' = Queued \cup {new'}
        /\ workChain'[Len(workChain')] = new'
        /\ Len(workChain') = Len(workChain) + 1
    BY <1>1, <1>4, PutRange DEF TypeOK, Queued
  <2>2. DistinctIds(workChain')
    <3>1. \A i \in DOMAIN workChain : workChain[i].id # new'.id
      BY <1>1, <1>3 DEF Queued, Range
    <3>2. /\ DOMAIN workChain' = 1..(Len(workChain) + 1)
          /\ DOMAIN workChain = 1..Len(workChain) /\ Len(workChain) \in Nat
          /\ \A i \in DOMAIN workChain : workChain'[i] = workChain[i]
          /\ workChain'[Len(workChain) + 1] = new'
      BY <1>1, <1>4 DEF TypeOK
    <3> QED  BY <3>1, <3>2 DEF IdInv, DistinctIds
  <2>3. TypeOK'
    BY <1>1, <1>4, <2>1 DEF PutWork, TypeOK
  <2>4. WakeInv'
    <3>1. wpc # "off" =>
             Len(workChain) = sem + (IF wpc = "woken" THEN 1 ELSE 0)
      BY DEF PutWork, WakeInv, TypeOK
    <3>2. pc = "putwork" /\ UNCHANGED <<sem, wpc, stopping>> /\ sem \in Nat
      BY DEF PutWork, TypeOK
    <3> QED  BY <1>4, <2>1, <3>1, <3>2 DEF WakeInv
  <2>5. IdInv'
    <3>1. /\ DistinctIds(inprog') /\ UNCHANGED <<wpc, cur>>
          /\ wpc = "run" => \A t \in Queued : t.id # cur.id
      BY DEF PutWork, IdInv
    <3>2. /\ \A t \in Queued' : t.id <= ident'
          /\ \A r \in Records' : r.id <= ident' /\ r.id # new'.id
          /\ wpc = "run" => /\ cur.id <= ident' /\ cur.id # new'.id
                            /\ \A t \in Queued' : t.id # cur.id
      BY <1>1, <1>2, <1>3, <2>1, <3>1
    <3> QED  BY <1>1, <2>2, <3>1, <3>2 DEF IdInv
  <2>6. LookedInv'
    BY <1>4 DEF PutWork, LookedInv
  <2>7. PendingIsRecorded'
    <3>1. \A s, t \in (Queued \cup Running \cup Records) \cup {new'} :
             s.id = t.id => s.uid = t.uid
      <4>1. \A t \in Queued \cup Running \cup Records : t.id # new'.id
        BY <1>1, <1>3 DEF Running
      <4> QED  BY <4>1 DEF PendingIsRecorded
    <3>2. \A t \in Queued \cup Running :
             \E r \in Records : r.id = t.id /\ r.uid = t.uid /\ r.sts = InProg
      BY DEF PutWork, PendingIsRecorded
    <3> QED  BY <1>2, <1>4, <2>1, <3>1, <3>2 DEF PendingIsRecorded
  <2> QED  BY <2>3, <2>4, <2>5, <2>6, <2>7
<1>5. CASE workChain' = workChain /\ pc' = "idle"
  <2>1. Queued' = Queued
    BY <1>5 DEF Queued
  <2>2. TypeOK'
    BY <1>1, <1>5 DEF PutWork, TypeOK
  <2>3. WakeInv'
    BY <1>5 DEF PutWork, TypeOK, WakeInv
  <2>4. IdInv'
    BY <1>1, <1>2, <1>3, <1>5, <2>1 DEF PutWork, IdInv
  <2>5. LookedInv'
    BY <1>5 DEF PutWork, LookedInv
  <2>6. PendingIsRecorded'
    BY <1>2, <1>5, <2>1 DEF PutWork, PendingIsRecorded
  <2> QED  BY <2>2, <2>3, <2>4, <2>5, <2>6
<1> QED  BY <1>4, <1>5 DEF PutWork

\* The record is made, or the task is taken back: the invariant is kept.
LEMMA PutRecordStep == ASSUME IInv, PutRecord PROVE IInv'
<1> USE DEF IInv
<1> DEFINE rec == [id |-> new.id, uid |-> new.uid, sts |-> InProg]
<1>1. /\ rec \in Record /\ rec.id = new.id /\ rec.uid = new.uid
      /\ rec.sts = InProg
  BY DEF TypeOK, Task, Record, InProg
<1> HIDE DEF rec
<1>2. new \in Queued
  BY DEF PutRecord, TypeOK, WakeInv, Queued, Range
<1>3. CASE inprog' = Append(inprog, rec) /\ pc' = "wake"
              /\ workChain' = workChain
  <2>1. inprog' \in Seq(Record) /\ Records' = Records \cup {rec}
    BY <1>1, <1>3, PutRange DEF TypeOK, Records
  <2>2. DistinctIds(inprog')
    <3>1. \A i \in DOMAIN inprog : inprog[i].id # rec.id
      BY <1>1 DEF PutRecord, IdInv, Records, Range
    <3>2. /\ DOMAIN inprog' = 1..(Len(inprog) + 1)
          /\ DOMAIN inprog = 1..Len(inprog) /\ Len(inprog) \in Nat
          /\ \A i \in DOMAIN inprog : inprog'[i] = inprog[i]
          /\ inprog'[Len(inprog) + 1] = rec
      BY <1>1, <1>3 DEF TypeOK
    <3> QED  BY <3>1, <3>2 DEF IdInv, DistinctIds
  <2>3. Queued' = Queued /\ Running' = Running
    BY <1>3 DEF PutRecord, Queued, Running
  <2>4. TypeOK'
    BY <1>3, <2>1 DEF PutRecord, TypeOK
  <2>5. WakeInv'
    BY <1>3 DEF PutRecord, TypeOK, WakeInv
  <2>6. IdInv'
    BY <1>1, <1>2, <1>3, <2>1, <2>2, <2>3 DEF PutRecord, IdInv
  <2>7. LookedInv'
    BY <1>3 DEF PutRecord, LookedInv
  <2>8. PendingIsRecorded'
    <3>1. \A t \in Queued \cup Running \cup Records :
             t.id = rec.id => t.uid = rec.uid
      BY <1>1, <1>2 DEF PendingIsRecorded
    <3>2. \A s, t \in (Queued \cup Running \cup Records) \cup {rec} :
             s.id = t.id => s.uid = t.uid
      BY <3>1 DEF PendingIsRecorded
    <3>3. \A t \in Queued \cup Running :
             \E r \in Records' : r.id = t.id /\ r.uid = t.uid /\ r.sts = InProg
      BY <1>1, <2>1 DEF PendingIsRecorded
    <3> QED  BY <2>1, <2>3, <3>2, <3>3 DEF PendingIsRecorded
  <2> QED  BY <2>4, <2>5, <2>6, <2>7, <2>8
<1>4. CASE workChain' = TakenBack /\ pc' = "idle" /\ inprog' = inprog
  <2>1. /\ workChain' \in Seq(Task) /\ DistinctIds(workChain')
        /\ Queued' \subseteq Queued /\ \A t \in Queued' : t.id # new.id
    BY <1>4, WithoutFacts DEF TakenBack, TypeOK, IdInv, Queued
  <2>2. wpc # "off" => Len(workChain') = Len(workChain) - 1
    BY <1>2, <1>4, WithoutLength DEF TakenBack, TypeOK, Queued
  <2>3. Records' = Records /\ Running' = Running
    BY <1>4 DEF PutRecord, Records, Running
  <2>4. TypeOK'
    BY <1>4, <2>1 DEF PutRecord, TypeOK
  <2>5. WakeInv'
    BY <1>4, <2>2 DEF PutRecord, TypeOK, WakeInv
  <2>6. IdInv'
    BY <1>4, <2>1, <2>3 DEF PutRecord, IdInv
  <2>7. LookedInv'
    BY <1>4 DEF PutRecord, LookedInv
  <2>8. PendingIsRecorded'
    <3>1. \A t \in Queued' \cup Running : t # new
      BY <2>1 DEF Running, PutRecord, IdInv
    <3> QED  BY <2>1, <2>3, <3>1 DEF PendingIsRecorded
  <2> QED  BY <2>4, <2>5, <2>6, <2>7, <2>8
<1> QED  BY <1>3, <1>4 DEF PutRecord, rec

\* A reset empties the chain of records: the invariant is kept.
LEMMA ResetEmptyStep == ASSUME IInv, ResetEmpty PROVE IInv'
<1> USE DEF IInv, ResetEmpty
<1>1. Records' = {} /\ Queued = {} /\ Queued' = {}
  BY DEF Records, Queued, Range, LookedInv
<1>2. Running = {} /\ Running' = {} /\ wpc # "run"
  BY DEF Running, PendingIsRecorded, LookedInv
<1>3. TypeOK'
  BY DEF TypeOK
<1>4. WakeInv'
  BY DEF TypeOK, WakeInv
<1>5. IdInv'
  BY <1>1, <1>2 DEF IdInv, DistinctIds
<1>6. LookedInv'
  BY DEF LookedInv
<1>7. PendingIsRecorded'
  BY <1>1, <1>2 DEF PendingIsRecorded
<1> QED  BY <1>3, <1>4, <1>5, <1>6, <1>7

\* The worker takes a task: the invariant is kept.
LEMMA WorkerTakesStep == ASSUME IInv, WorkerTakes PROVE IInv'
<1> USE DEF IInv, WorkerTakes
<1>1. workChain # <<>>
  BY DEF TypeOK, WakeInv
<1>2. /\ cur' \in Task /\ workChain' \in Seq(Task)
      /\ Queued = Queued' \cup {cur'}
  BY <1>1, GetRange DEF TypeOK, Queued
<1>3. /\ Len(workChain') = Len(workChain) - 1 /\ Len(workChain) \in Nat
      /\ DOMAIN workChain = 1..Len(workChain)
      /\ DOMAIN workChain' = 1..(Len(workChain) - 1)
      /\ \A i \in 1..(Len(workChain) - 1) : workChain'[i] = workChain[i + 1]
      /\ cur' = workChain[1]
  BY <1>1 DEF TypeOK
<1>4. DistinctIds(workChain') /\ \A t \in Queued' : t.id # cur'.id
  <2>1. DistinctIds(workChain')
    BY <1>3 DEF IdInv, DistinctIds
  <2>2. ASSUME NEW i \in DOMAIN workChain' PROVE workChain'[i].id # cur'.id
    BY <1>3 DEF IdInv, DistinctIds
  <2> QED  BY <2>1, <2>2 DEF Queued, Range
<1>5. /\ Records' = Records /\ Running = {} /\ Running' = {cur'}
  BY <1>1 DEF Records, Running
<1>6. pc = "putrecord" => Len(workChain) >= 2
  BY DEF TypeOK, WakeInv
<1>7. TypeOK'
  BY <1>1, <1>2 DEF TypeOK
<1>8. WakeInv'
  BY <1>1, <1>2, <1>3, <1>6 DEF TypeOK, WakeInv
<1>9. IdInv'
  <2>1. pc = "putrecord" => cur'.id # new.id
    BY <1>3, <1>6 DEF WakeInv, IdInv, DistinctIds
  <2> QED  BY <1>1, <1>2, <1>4, <1>5, <2>1 DEF IdInv
<1>10. LookedInv'
  BY <1>1, <1>5 DEF LookedInv
<1>11. PendingIsRecorded'
  BY <1>2, <1>5 DEF PendingIsRecorded
<1> QED  BY <1>7, <1>8, <1>9, <1>10, <1>11

\* The worker has run the task and deals with its record: the invariant is
\* kept.
LEMMA WorkerRecordsStep == ASSUME IInv, WorkerRecords PROVE IInv'
<1> USE DEF IInv
<1>1. Queued' = Queued /\ Running = {cur} /\ Running' = {}
      /\ UNCHANGED <<workChain, rpcVars, sem, stopping>>
      /\ wpc = "run" /\ wpc' \in {"idle", "notify"} /\ cur' \in {cur, NoWork}
  BY DEF WorkerRecords, Queued, Running
<1>2. /\ inprog' \in Seq(Record) /\ DistinctIds(inprog')
      /\ \A r \in Records : r.id # cur.id => r \in Records'
      /\ \A r \in Records' : r \in Records \/
            (\E q \in Records : r.id = cur.id /\ r.id = q.id /\ r.uid = q.uid)
  <2>1. CASE cur.del
    BY <2>1, WithoutFacts DEF WorkerRecords, TypeOK, IdInv, Records
  <2>2. CASE ~cur.del
    <3>1. /\ DOMAIN inprog' = DOMAIN inprog /\ inprog' \in Seq(Record)
          /\ \A i \in DOMAIN inprog :
                /\ inprog'[i].id = inprog[i].id
                /\ inprog'[i].uid = inprog[i].uid
                /\ inprog[i].id # cur.id => inprog'[i] = inprog[i]
      <4>1. ASSUME NEW i \in DOMAIN inprog
            PROVE  /\ inprog'[i] \in Record
                   /\ inprog'[i].id = inprog[i].id
                   /\ inprog'[i].uid = inprog[i].uid
                   /\ inprog[i].id # cur.id => inprog'[i] = inprog[i]
        <5>1. inprog[i] \in Record /\ cur.uid \in Nat
          BY DEF TypeOK, Task
        <5> QED
          BY <2>2, <5>1 DEF WorkerRecords, WithId, Record
      <4>2. DOMAIN inprog' = DOMAIN inprog /\ DOMAIN inprog = 1..Len(inprog)
            /\ Len(inprog) \in Nat
            /\ inprog' = [i \in DOMAIN inprog |-> inprog'[i]]
        BY <2>2 DEF WorkerRecords, TypeOK
      <4>3. inprog' \in Seq(Record)
        BY <4>1, <4>2, IsASeq
      <4> QED  BY <4>1, <4>2, <4>3
    <3>2. DistinctIds(inprog')
      BY <3>1 DEF IdInv, DistinctIds
    <3>3. \A r \in Records : r.id # cur.id => r \in Records'
      BY <3>1 DEF Records, Range
    <3>4. \A r \in Records' : r \in Records \/
             (\E q \in Records : r.id = cur.id /\ r.id = q.id /\ r.uid = q.uid)
      BY <3>1 DEF Records, Range
    <3> QED  BY <3>1, <3>2, <3>3, <3>4
  <2> QED  BY <2>1, <2>2
<1>3. TypeOK'
  <2>1. NoWork \in Task
    BY DEF NoWork, Task
  <2> QED  BY <1>1, <1>2, <2>1 DEF TypeOK
<1>4. WakeInv'
  BY <1>1 DEF TypeOK, WakeInv
<1>5. IdInv'
  BY <1>1, <1>2 DEF IdInv
<1>6. \A t \in Queued : t.id # cur.id
  BY <1>1 DEF IdInv
<1>7. \E r \in Records : r.id = cur.id /\ r.sts = InProg
  <2>1. ~(pc = "putrecord" /\ cur = new)
    BY <1>1 DEF IdInv
  <2> QED  BY <1>1, <2>1 DEF PendingIsRecorded
<1>8. LookedInv'
  BY <1>1, <1>2, <1>7 DEF LookedInv
<1>9. PendingIsRecorded'
  <2>1. \A t \in Queued :
          \/ \E r \in Records' : r.id = t.id /\ r.uid = t.uid /\ r.sts = InProg
          \/ pc = "putrecord" /\ t = new
    BY <1>2, <1>6 DEF PendingIsRecorded
  <2>2. \A s, t \in Queued \cup Records' : s.id = t.id => s.uid = t.uid
    BY <1>2 DEF PendingIsRecorded
  <2> QED  BY <1>1, <2>1, <2>2 DEF PendingIsRecorded
<1> QED  BY <1>3, <1>4, <1>5, <1>8, <1>9

\* In every reachable state the invariant holds.
THEOREM Safety == Spec => []IInv
<1>1. Init => IInv
  <2> SUFFICES ASSUME Init PROVE IInv
    OBVIOUS
  <2> USE DEF Init
  <2>1. Queued = {} /\ Records = {} /\ Running = {}
    BY DEF Queued, Records, Running, Range
  <2>2. TypeOK
    <3>1. NoWork \in Task
      BY DEF NoWork, Task
    <3>2. workChain \in Seq(Task) /\ inprog \in Seq(Record)
      BY EmptySeq
    <3>3. stopping \in BOOLEAN
      OBVIOUS
    <3>4. new \in Task /\ cur \in Task
      BY <3>1
    <3> QED  BY <3>2, <3>3, <3>4, 0 \in Nat DEF TypeOK
  <2>3. WakeInv
    BY DEF WakeInv
  <2>4. IdInv
    BY <2>1 DEF IdInv, DistinctIds
  <2>5. LookedInv
    BY DEF LookedInv
  <2>6. PendingIsRecorded
    BY <2>1 DEF PendingIsRecorded
  <2> QED  BY <2>2, <2>3, <2>4, <2>5, <2>6 DEF IInv
<1>2. IInv /\ [Next]_vars => IInv'
  <2> SUFFICES ASSUME IInv, [Next]_vars PROVE IInv'
    OBVIOUS
  <2>1. CASE PushTask \/ Poll \/ Reset \/ Stop
    BY <2>1, PushTaskStep, PollStep, ResetStep, StopStep
  <2>2. CASE RpcStep
    BY <2>2, EvictSizeStep, EvictPickStep, EvictRemoveStep, PutWorkStep,
       PutRecordStep, WakeStep, PollDropStep, ResetWorkStep, ResetInprogStep,
       ResetEmptyStep DEF RpcStep
  <2>3. CASE Worker
    BY <2>3, WorkerWakesStep, WorkerTakesStep, WorkerRecordsStep,
       WorkerNotifiesStep, WorkerExitsStep DEF Worker
  <2>4. CASE UNCHANGED vars
    <3>1. Queued' = Queued /\ Records' = Records /\ Running' = Running
      BY <2>4, SamePending DEF Running
    <3>2. TypeOK' /\ WakeInv' /\ LookedInv'
      BY <2>4, <3>1 DEF IInv, TypeOK, WakeInv, LookedInv
    <3>3. IdInv' /\ PendingIsRecorded'
      BY <2>4, <3>1 DEF IInv, IdInv, PendingIsRecorded
    <3> QED  BY <3>2, <3>3 DEF IInv
  <2> QED  BY <2>1, <2>2, <2>3, <2>4 DEF Next
<1> QED
  BY <1>1, <1>2, PTL DEF Spec

\* However polls, evictions and resets fall between the worker's steps, a
\* queued or running task has its record, in progress, and its id belongs to
\* no other task.
THEOREM PendingTasksAreRecorded == Spec => []PendingIsRecorded
<1>1. IInv => PendingIsRecorded
  BY DEF IInv
<1> QED
  BY <1>1, Safety, PTL
-----------------------------------------------------------------------------
(* The tables: which object runs which task                                *)

\* The numbers of built-in commands and of RPCs of the service.
LEMMA Sizes ==
  CmdEnd = 24 /\ Len(RpcList) = 36 /\ DOMAIN RpcList = 1..36
<1>1. CmdEnd = 24
  BY DEF CmdEnd, Builtin
<1>2. Len(RpcList) = 36 /\ DOMAIN RpcList = 1..36
  BY DEF RpcList
<1> QED  BY <1>1, <1>2

\* The places of the tasks in the enumeration.
LEMMA TaskPlaces ==
  /\ \A i \in DOMAIN RpcTypes : RpcTypes[i] = "SET_DEV_OP" => i = 9
  /\ \A i \in DOMAIN RpcTypes : RpcTypes[i] = "SET_FMWUPDATE" => i = 12
  /\ \A i \in DOMAIN RpcTypes : RpcTypes[i] = "SET_DOWNLOADFTP" => i = 13
  /\ \A i \in DOMAIN RpcTypes : RpcTypes[i] = "SET_DOWNLOADTFTP" => i = 14
  /\ \A i \in DOMAIN RpcTypes : RpcTypes[i] = "SET_UPDATE_LOG" => i = 21
  /\ \A i \in DOMAIN RpcTypes : RpcTypes[i] = "RUN_SHELLCMD" => i = 28
  /\ \A i \in DOMAIN RpcTypes : RpcTypes[i] = "DEVIDENT" => i = 29
  /\ DOMAIN RpcTypes = 1..35
  /\ RpcTypes[9] = "SET_DEV_OP" /\ RpcTypes[12] = "SET_FMWUPDATE"
  /\ RpcTypes[13] = "SET_DOWNLOADFTP" /\ RpcTypes[14] = "SET_DOWNLOADTFTP"
  /\ RpcTypes[21] = "SET_UPDATE_LOG" /\ RpcTypes[28] = "RUN_SHELLCMD"
  /\ RpcTypes[29] = "DEVIDENT"
BY DEF RpcTypes

\* The objects at these places are objects of SysRpc.
LEMMA TaskObjects ==
  \A i \in {9, 12, 13, 14, 21, 28, 29} : RpcList[i] \in DOMAIN SysRpcs
<1>1. /\ RpcList[9] = "GET_LOADINFO" /\ RpcList[12] = "GET_DEV_OP"
      /\ RpcList[13] = "SET_DEV_OP" /\ RpcList[14] = "GET_FMWVER"
      /\ RpcList[21] = "GET_HOSTNAME" /\ RpcList[28] = "RUN_SHELLCMD"
      /\ RpcList[29] = "DEVIDENT"
  BY DEF RpcList
<1>2. {"GET_LOADINFO", "GET_DEV_OP", "SET_DEV_OP", "GET_FMWVER",
       "GET_HOSTNAME", "RUN_SHELLCMD", "DEVIDENT"} \subseteq DOMAIN SysRpcs
  BY DEF SysRpcs
<1> QED  BY <1>1, <1>2

\* The tasks of SysRpc; NetRpc and DispCtrlRpc have none.
LEMMA TasksOfServices ==
  /\ \A t \in DOMAIN SysRpcs : SysRpcs[t].task # NoTask => SysRpcs[t].task \in AsyncRpcs
  /\ \A t \in DOMAIN NetRpcs : NetRpcs[t].task = NoTask
  /\ \A t \in DOMAIN DispRpcs : DispRpcs[t].task = NoTask
<1>1. \A need, fields, results : Reads(need, fields, results).task = NoTask
  BY DEF Reads
<1>2. \A need, field, results : Counts(need, field, results).task = NoTask
  BY DEF Counts
<1>3. \A need, results : Acts(need, results).task = NoTask
  BY DEF Acts
<1>4. \A need, task : Starts(need, task).task = task
  BY DEF Starts
<1>5. set_fmwupdate.task = "SET_FMWUPDATE"
  BY DEF set_fmwupdate, Starts
<1>6. \A t \in DOMAIN DispRpcs : DispRpcs[t].task = NoTask
  BY <1>1, <1>3 DEF DispRpcs, disp_clear, disp_print, backlight_get, backlight_set
<1>7. \A t \in DOMAIN NetRpcs : NetRpcs[t].task = NoTask
  BY <1>1, <1>2, <1>3
     DEF NetRpcs, get_mac_addr, set_mac_addr, get_eth_count, get_eth_name,
         get_ip_addr, set_ip_addr, get_netmask, set_netmask
<1>8. ASSUME NEW t \in DOMAIN SysRpcs, SysRpcs[t].task # NoTask
      PROVE  SysRpcs[t].task \in AsyncRpcs
  BY <1>8, <1>1, <1>2, <1>3, <1>4, <1>5
     DEF SysRpcs, AsyncRpcs, get_loadinfo, get_meminfo, get_cpuinfo, get_devop,
         set_devop, get_fmwver, get_bootsys, download_ftp, download_tftp,
         get_async_task_in_progress, get_devtype, get_hostname, set_hostname,
         get_myip, set_def_hostname, loglist_update, get_logcount, get_logline,
         run_shellcmd, devident, subscribe_events
<1> QED  BY <1>6, <1>7, <1>8

\* PushAsyncTask() and ProcessWorkAsync(): the number a handler pushes selects
\* an object that knows the task.
LEMMA TaskIsKnown ==
  ASSUME NEW cmd \in Commands, Method(cmd).task # NoTask
  PROVE  TaskNumber(cmd) \in Nat /\ CodeFor(TaskNumber(cmd))
<1>0. cmd \in 0..58 /\ CmdEnd = 24
  BY Sizes DEF Commands
<1>1. CASE cmd < CmdEnd
  <2>1. Type(cmd) = "builtin" /\ TaskNumber(cmd) = cmd
    BY <1>0, <1>1 DEF Type, TaskNumber
  <2>2. Method(cmd) = Builtin[cmd + 1]
    <3>1. /\ "builtin" \notin DOMAIN SysRpcs /\ "builtin" \notin DOMAIN NetRpcs
          /\ "builtin" \notin DOMAIN DispRpcs
      BY DEF SysRpcs, NetRpcs, DispRpcs
    <3> QED  BY <2>1, <3>1 DEF Method
  <2> QED  BY <1>0, <1>1, <2>1, <2>2 DEF CodeFor
<1>2. CASE ~(cmd < CmdEnd)
  <2> DEFINE type == RpcList[cmd - 23]
             task == Method(cmd).task
  <2>1. cmd - 23 \in 1..35 /\ Type(cmd) = type
    BY <1>0, <1>2 DEF Type, Object
  <2>2. type # "builtin"
    BY <2>1 DEF RpcList
  <2>3. type \in DOMAIN SysRpcs \/ type \in DOMAIN NetRpcs \/ type \in DOMAIN DispRpcs
    BY <2>1 DEF RpcList, SysRpcs, NetRpcs, DispRpcs
  <2>4. \/ type \in DOMAIN SysRpcs /\ Method(cmd) = SysRpcs[type]
        \/ type \in DOMAIN NetRpcs /\ Method(cmd) = NetRpcs[type]
        \/ type \in DOMAIN DispRpcs /\ Method(cmd) = DispRpcs[type]
    BY <2>1, <2>2, <2>3 DEF Method
  <2>5. task \in AsyncRpcs
    BY <2>4, TasksOfServices
  <2> HIDE DEF task
  <2> DEFINE place == CHOOSE i \in DOMAIN RpcTypes : RpcTypes[i] = task
  <2>6. place \in {9, 12, 13, 14, 21, 28, 29} /\ RpcTypes[place] = task
    BY <2>5, TaskPlaces DEF AsyncRpcs
  <2>7. TaskNumber(cmd) = 23 + place
    <3>1. TaskNumber(cmd) = CmdEnd + place - 1
      BY <1>2 DEF TaskNumber, task
    <3> HIDE DEF place
    <3> QED  BY <1>0, <2>6, <3>1
  <2> HIDE DEF place
  <2>8. TaskName(23 + place) = task
    BY <1>0, <2>6 DEF TaskName
  <2>9. KnownBySysRpc(23 + place)
    BY <1>0, <2>6, TaskObjects, Sizes DEF KnownBySysRpc, Object, Objects
  <2> QED  BY <1>0, <2>5, <2>6, <2>7, <2>8, <2>9 DEF CodeFor
<1> QED  BY <1>1, <1>2
-----------------------------------------------------------------------------
(* The system manager: SysInv is inductive                                 *)

USE DEF mainVars, requestVars, taskVars, dataVars, logVars

\* Parts of the invariant a step leaves alone.
LEMMA SysFrame ==
  ASSUME SysInv
  PROVE  /\ UNCHANGED <<rpc, nreq, chain, live, worker, job>> => JobsInv'
         /\ UNCHANGED <<req, worker, logFile, logChain, total, seen>> => LogInv'
<1>1. UNCHANGED <<rpc, nreq, chain, live, worker, job>> => JobsInv'
  BY DEF SysInv, JobsInv, QueuedData, RunningData, Latest
<1>2. UNCHANGED <<req, worker, logFile, logChain, total, seen>> => LogInv'
  BY DEF SysInv, LogInv, LogInOrder
<1> QED  BY <1>1, <1>2

\* The elements of the task chain.
LEMMA JobData ==
  ASSUME NEW s \in Seq(Job)
  PROVE  \A i \in DOMAIN s : s[i] \in Job /\ s[i].data \in Nat
<1>1. \A i \in DOMAIN s : s[i] \in Job
  OBVIOUS
<1>2. \A j \in Job : j.data \in Nat
  BY DEF Job
<1> QED  BY <1>1, <1>2

\* The data of different tasks differ, so the queue has as many as tasks.
LEMMA QueuedCount ==
  ASSUME NEW s \in Seq(Job),
         \A i, j \in DOMAIN s : i < j => s[i].data < s[j].data
  PROVE  Cardinality({s[i].data : i \in DOMAIN s}) = Len(s)
<1> DEFINE D == {s[i].data : i \in DOMAIN s}
           f == [i \in 1..Len(s) |-> s[i].data]
<1>0. Len(s) \in Nat /\ DOMAIN s = 1..Len(s)
  OBVIOUS
<1>1. \A i \in DOMAIN s : s[i].data \in Nat
  BY JobData
<1>2. \A i, j \in 1..Len(s) : i # j => s[i].data # s[j].data
  BY <1>0, <1>1
<1>3. f \in Bijection(1..Len(s), D)
  BY <1>0, <1>2 DEF Bijection, Injection, Surjection, IsInjective
<1>4. ExistsBijection(1..Len(s), D)
  BY <1>3 DEF ExistsBijection
<1>5. IsFiniteSet(1..Len(s)) /\ Cardinality(1..Len(s)) = Len(s)
  BY <1>0, FS_Interval
<1> HIDE DEF D
<1>6. Cardinality(D) = Cardinality(1..Len(s))
  BY <1>4, <1>5, FS_Bijection
<1> QED  BY <1>5, <1>6 DEF D

\* JobsInv says that work data has one owner.
LEMMA JobsInvSuffices ==
  ASSUME SysInv
  PROVE  WorkDataOwned
<1> USE DEF SysInv, SysTypeOK, JobsInv
<1>1. live = QueuedData \union RunningData
  OBVIOUS
<1>2. Cardinality(QueuedData) = Len(chain)
  BY QueuedCount DEF QueuedData
<1>3. QueuedData \intersect RunningData = {}
  <2>1. \A i \in DOMAIN chain : chain[i].data \in Nat
    BY JobData
  <2>2. job.data \in Nat
    BY DEF Job
  <2> QED  BY <2>1, <2>2 DEF QueuedData, RunningData
<1>4. \A cmd \in Commands : Method(cmd).task # NoTask => CodeFor(TaskNumber(cmd))
  BY TaskIsKnown
<1> QED  BY <1>1, <1>2, <1>3, <1>4 DEF WorkDataOwned
-----------------------------------------------------------------------------
(* Requests                                                                *)

\* The constructor of the service establishes the invariant.
LEMMA SysStarts ==
  ASSUME SysInit
  PROVE  SysInv
<1> USE DEF SysInit
<1>1. SysTypeOK
  <2>1. Idle \in Job /\ cache \in Versions /\ flash \in Versions
    BY DEF Idle, Job, Texts, Versions
  <2>2. 0 \in Commands
    BY Sizes DEF Commands
  <2>3. /\ DOMAIN req = DOMAIN NoReq /\ req.cmd = 0 /\ req.arg \in Texts
        /\ req.index = 0
    BY DEF NoReq, Texts
  <2>4. <<>> \in Seq(Job)
    OBVIOUS
  <2>5. /\ rpc \in {"idle", "work", "reply"}
        /\ worker \in {"idle", "run", "clear", "log"}
        /\ devop \in {"undefined", "idle", "on"} /\ nreq \in Nat
    OBVIOUS
  <2>6. req.cmd \in Commands /\ req.arg \in Texts /\ req.index \in Nat
    BY <2>2, <2>3, <2>4
  <2>7. chain \in Seq(Job) /\ job \in Job
    BY <2>1, <2>4
  <2> HIDE DEF SysInit
  <2> QED  BY <2>1, <2>3, <2>5, <2>6, <2>7 DEF SysTypeOK
<1>2. JobsInv
  BY DEF JobsInv, QueuedData, RunningData, Latest
<1>3. LogInv
  <2>1. req.value = "none"
    BY DEF NoReq
  <2>2. DOMAIN <<>> = {} /\ <<>> \in Seq(1..0)
    OBVIOUS
  <2> QED  BY <2>1, <2>2 DEF LogInv, LogInOrder
<1> QED  BY <1>1, <1>2, <1>3 DEF SysInv

\* A request that was refused leaves only its number.
LEMMA RefuseKeeps ==
  ASSUME SysInv, Refuse
  PROVE  SysInv'
<1> USE DEF Refuse
<1>1. SysTypeOK'
  BY DEF SysInv, SysTypeOK
<1>2. JobsInv'
  <2>1. Latest = nreq /\ Latest' = nreq + 1 /\ nreq \in Nat
    BY DEF SysInv, SysTypeOK, Latest
  <2>2. \A i \in DOMAIN chain : chain[i].data \in Nat
    BY JobData DEF SysInv, SysTypeOK
  <2>3. job.data \in Nat
    BY DEF SysInv, SysTypeOK, Job
  <2> QED  BY <2>1, <2>2, <2>3 DEF SysInv, JobsInv, QueuedData, RunningData
<1>3. LogInv'
  BY SysFrame
<1> QED  BY <1>1, <1>2, <1>3 DEF SysInv

\* What a client may send.
LEMMA ArgsAreTexts ==
  ASSUME NEW cmd
  PROVE  Args(cmd) \subseteq Texts /\ Indices(cmd) \subseteq Nat
<1>1. Args(cmd) \subseteq Texts
  BY DEF Args, Texts
<1>2. Indices(cmd) \subseteq Nat
  BY SysMgrAssumption DEF Indices
<1> QED  BY <1>1, <1>2

\* The proxy takes a request.
LEMMA AcceptKeeps ==
  ASSUME SysInv, Accept
  PROVE  SysInv'
<1> USE DEF Accept
<1>1. PICK cmd \in Calls : \E arg \in Args(cmd), index \in Indices(cmd) :
         req' = [NoReq EXCEPT !.cmd = cmd, !.arg = arg, !.index = index]
  OBVIOUS
<1>2. PICK arg \in Args(cmd), index \in Indices(cmd) :
         req' = [NoReq EXCEPT !.cmd = cmd, !.arg = arg, !.index = index]
  BY <1>1
<1>3. cmd \in Commands /\ arg \in Texts /\ index \in Nat
  BY SysMgrAssumption, ArgsAreTexts
<1>4. /\ DOMAIN req' = DOMAIN NoReq /\ req'.cmd = cmd /\ req'.arg = arg
      /\ req'.index = index /\ req'.value = "none"
  BY <1>2 DEF NoReq
<1>5. SysTypeOK'
  BY <1>3, <1>4 DEF SysInv, SysTypeOK
<1>6. JobsInv'
  <2>1. Latest' = Latest /\ nreq' > 0
    BY DEF SysInv, SysTypeOK, Latest
  <2> QED  BY <2>1 DEF SysInv, JobsInv, QueuedData, RunningData
<1>7. LogInv'
  BY <1>4 DEF SysInv, LogInv, LogInOrder
<1> QED  BY <1>5, <1>6, <1>7 DEF SysInv

\* process_X() that pushes no task: only the answer is new.
LEMMA Answered ==
  ASSUME SysInv, NEW result, NEW value, NEW number,
         EndsWith(result, value, number), UNCHANGED <<taskVars, logVars, devop, flash>>,
         cache' \in Versions,
         value = "line" => number \in 1..logFile /\ number = req.index + 1
  PROVE  SysInv'
<1> USE DEF EndsWith
<1>1. /\ DOMAIN req' = DOMAIN req /\ req'.cmd = req.cmd /\ req'.arg = req.arg
      /\ req'.index = req.index /\ req'.value = value /\ req'.number = number
  BY DEF SysInv, SysTypeOK, NoReq
<1>2. SysTypeOK'
  BY <1>1 DEF SysInv, SysTypeOK
<1>3. JobsInv'
  <2>1. Latest = nreq - 1 /\ Latest' = nreq /\ nreq \in Nat
    BY DEF SysInv, SysTypeOK, Latest
  <2>2. \A i \in DOMAIN chain : chain[i].data \in Nat
    BY JobData DEF SysInv, SysTypeOK
  <2>3. job.data \in Nat
    BY DEF SysInv, SysTypeOK, Job
  <2> QED  BY <2>1, <2>2, <2>3 DEF SysInv, JobsInv, QueuedData, RunningData
<1>4. LogInv'
  BY <1>1 DEF SysInv, LogInv, LogInOrder
<1> QED  BY <1>2, <1>3, <1>4 DEF SysInv

\* process_X() of a task: the new data is the newest, so it is nowhere yet.
LEMMA StartKeeps ==
  ASSUME SysInv, ProcessStart
  PROVE  SysInv'
<1> USE DEF SysInv
<1> DEFINE pushed == [cmd |-> TaskNumber(req.cmd), arg |-> req.arg, data |-> nreq]
<1>0. /\ rpc = "work" /\ rpc' = "reply" /\ chain' = Append(chain, pushed)
      /\ live' = live \union {nreq} /\ Method(req.cmd).task # NoTask
      /\ req' = [req EXCEPT !.result = "IN_PROG", !.value = "task", !.number = 0]
      /\ UNCHANGED <<worker, job, nreq, devop, cache, flash, logVars>>
  BY DEF ProcessStart, Ends, EndsWith, NewData
<1>1. /\ DOMAIN req' = DOMAIN req /\ req'.cmd = req.cmd /\ req'.arg = req.arg
      /\ req'.index = req.index /\ req'.value = "task"
  BY <1>0 DEF SysTypeOK, NoReq
<1>2. TaskNumber(req.cmd) \in Nat /\ CodeFor(TaskNumber(req.cmd))
  BY <1>0, TaskIsKnown DEF SysTypeOK
<1>3. /\ pushed \in Job /\ pushed.data = nreq /\ CodeFor(pushed.cmd) /\ nreq \in Nat
      /\ chain \in Seq(Job) /\ job \in Job
  BY <1>2 DEF SysTypeOK, Job
<1> HIDE DEF pushed
<1>4. /\ chain' \in Seq(Job) /\ Len(chain) \in Nat
      /\ DOMAIN chain = 1..Len(chain) /\ DOMAIN chain' = 1..(Len(chain) + 1)
      /\ \A i \in 1..Len(chain) : chain'[i] = chain[i]
      /\ chain'[Len(chain) + 1] = pushed
  BY <1>0, <1>3
<1>5. SysTypeOK'
  BY <1>0, <1>1, <1>4 DEF SysTypeOK
<1>6. Latest = nreq - 1 /\ Latest' = nreq
  BY <1>0 DEF Latest
<1>7. \A i \in DOMAIN chain : chain[i].data \in Nat
  BY <1>3, JobData
<1>8. \A i \in DOMAIN chain : chain[i].data < nreq
  BY <1>3, <1>6, <1>7 DEF JobsInv
<1>9. JobsInv'
  <2>1. QueuedData' = QueuedData \union {nreq}
    <3>1. \A i \in DOMAIN chain : chain'[i].data = chain[i].data
      BY <1>4
    <3>2. QueuedData' = {chain'[i].data : i \in 1..Len(chain)}
                          \union {chain'[Len(chain) + 1].data}
      BY <1>4 DEF QueuedData
    <3> QED  BY <1>3, <1>4, <3>1, <3>2 DEF QueuedData
  <2>2. live' = QueuedData' \union RunningData'
    BY <1>0, <2>1 DEF JobsInv, RunningData
  <2>3. \A i \in DOMAIN chain' :
           chain'[i].data <= nreq /\ CodeFor(chain'[i].cmd)
    BY <1>3, <1>4, <1>7, <1>8 DEF JobsInv
  <2>4. \A i, j \in DOMAIN chain' : i < j => chain'[i].data < chain'[j].data
    BY <1>3, <1>4, <1>8 DEF JobsInv
  <2>5. ASSUME worker # "idle"
        PROVE  /\ job.data <= nreq /\ CodeFor(job.cmd)
               /\ \A i \in DOMAIN chain' : job.data < chain'[i].data
    <3>1. job.data \in Nat
      BY <1>3 DEF Job
    <3>2. job.data < nreq /\ CodeFor(job.cmd)
      BY <1>3, <1>6, <2>5, <3>1 DEF JobsInv
    <3> QED  BY <1>3, <1>4, <2>5, <3>1, <3>2 DEF JobsInv
  <2> QED  BY <1>0, <1>6, <2>2, <2>3, <2>4, <2>5 DEF JobsInv
<1>10. LogInv'
  BY <1>0, <1>1 DEF LogInv, LogInOrder
<1> QED  BY <1>5, <1>9, <1>10

\* The response goes back.
LEMMA ReplyKeeps ==
  ASSUME SysInv, Reply
  PROVE  SysInv'
<1> USE DEF Reply
<1>1. SysTypeOK'
  <2>1. 0 \in Commands
    BY Sizes DEF Commands
  <2>2. NoReq.cmd = 0 /\ NoReq.arg \in Texts /\ NoReq.index = 0
    BY DEF NoReq, Texts
  <2> QED  BY <2>1, <2>2 DEF SysInv, SysTypeOK
<1>2. JobsInv'
  <2>1. Latest = nreq /\ Latest' = nreq
    BY DEF Latest
  <2> QED  BY <2>1 DEF SysInv, JobsInv, QueuedData, RunningData
<1>3. LogInv'
  <2>1. NoReq.value = "none"
    BY DEF NoReq
  <2> QED  BY <2>1 DEF SysInv, LogInv, LogInOrder
<1> QED  BY <1>1, <1>2, <1>3 DEF SysInv

\* The process_X() functions: only those that start a task make work data.
LEMMA ProcessKeeps ==
  ASSUME SysInv, Process
  PROVE  SysInv'
<1> USE DEF Ends
<1>0. cache \in Versions /\ flash \in Versions
  BY DEF SysInv, SysTypeOK
<1>1. CASE ProcessPlain
  <2>1. PICK result : EndsWith(result, "any", 0)
    BY <1>1 DEF ProcessPlain
  <2> QED  BY <1>0, <1>1, <2>1, Answered DEF ProcessPlain
<1>2. CASE ProcessDevOpGet
  <2>1. devop # "line"
    BY DEF SysInv, SysTypeOK
  <2> QED  BY <1>0, <1>2, <2>1, Answered DEF ProcessDevOpGet
<1>3. CASE ProcessFmwVer
  <2>1. /\ cache' \in Versions /\ UNCHANGED <<taskVars, logVars, devop, flash>>
        /\ \E result, number, value :
              EndsWith(result, value, number) /\ value \in {"none", "version"}
    <3>1. req.arg \in {"current", "backup"} =>
             [cache EXCEPT ![req.arg] = flash[req.arg]] \in Versions
      BY <1>0 DEF Versions
    <3> QED  BY <1>0, <1>3, <3>1 DEF ProcessFmwVer
  <2>2. PICK result, number, value :
           EndsWith(result, value, number) /\ value \in {"none", "version"}
    BY <2>1
  <2> QED  BY <2>1, <2>2, Answered
<1>4. CASE ProcessAsyncTask
  <2> DEFINE shown == IF asyncCmd \in AsyncRpcs \union {"RUN_SHELLCMDTRIG"}
                        THEN asyncCmd ELSE "UNKNOWN"
  <2>1. shown # "line"
    BY DEF AsyncRpcs
  <2>2. EndsWith("SUCCESS", shown, 0)
    BY <1>4 DEF ProcessAsyncTask
  <2> HIDE DEF shown
  <2> QED  BY <1>0, <1>4, <2>1, <2>2, Answered DEF ProcessAsyncTask
<1>5. CASE ProcessReadySts
  <2>1. \E value \in {"ready", "notReady"} : EndsWith("SUCCESS", value, 0)
    BY <1>5 DEF ProcessReadySts
  <2> QED  BY <1>0, <1>5, <2>1, Answered DEF ProcessReadySts
<1>6. CASE ProcessLogCount
  BY <1>0, <1>6, Answered DEF ProcessLogCount
<1>7. CASE ProcessLogLine
  <2>1. UNCHANGED <<taskVars, logVars, devop, flash, cache>>
    BY <1>7 DEF ProcessLogLine
  <2>2. CASE /\ LineIdent(req.index) \in Range(logChain)
             /\ EndsWith("SUCCESS", "line", LineIdent(req.index))
    <3>1. \A i \in DOMAIN logChain : logChain[i] \in 1..logFile
      BY DEF SysInv, LogInv
    <3>2. LineIdent(req.index) \in 1..logFile
      BY <2>2, <3>1 DEF Range
    <3> QED  BY <1>0, <2>1, <2>2, <3>2, Answered DEF LineIdent
  <2>3. CASE EndsWith("ITEM_NOT_FOUND", "none", 0)
    BY <1>0, <2>1, <2>3, Answered
  <2>4. CASE EndsWith("SUCCESS", "undefined", 0)
    BY <1>0, <2>1, <2>4, Answered
  <2> QED  BY <1>7, <2>2, <2>3, <2>4 DEF ProcessLogLine
<1>8. CASE ProcessSubscribe
  <2>1. \E result : EndsWith(result, "none", 0)
    BY <1>8 DEF ProcessSubscribe
  <2> QED  BY <1>0, <1>8, <2>1, Answered DEF ProcessSubscribe
<1>9. CASE StartFails
  <2>1. \E result : EndsWith(result, "none", 0)
    BY <1>9 DEF StartFails
  <2> QED  BY <1>0, <1>9, <2>1, Answered DEF StartFails
<1>10. CASE ProcessStart
  BY <1>10, StartKeeps
<1> QED  BY <1>1, <1>2, <1>3, <1>4, <1>5, <1>6, <1>7, <1>8, <1>9, <1>10
         DEF Process
-----------------------------------------------------------------------------
(* The task worker and main()                                              *)

\* The worker takes the first task of the chain.
LEMMA TakeKeeps ==
  ASSUME SysInv, Take
  PROVE  SysInv'
<1> USE DEF SysInv
<1>0. /\ worker = "idle" /\ worker' = "run" /\ chain # <<>>
      /\ job' = Head(chain) /\ chain' = Tail(chain)
      /\ UNCHANGED <<requestVars, live, dataVars, logVars, nreq>>
  BY DEF Take
<1>1. chain \in Seq(Job) /\ nreq \in Nat
  BY DEF SysTypeOK
<1>2. /\ Len(chain) \in Nat \ {0} /\ DOMAIN chain = 1..Len(chain)
      /\ chain' \in Seq(Job) /\ DOMAIN chain' = 1..(Len(chain) - 1)
      /\ \A i \in DOMAIN chain' : chain'[i] = chain[i + 1]
      /\ job' = chain[1] /\ job' \in Job
  BY <1>0, <1>1
<1>3. SysTypeOK'
  BY <1>0, <1>2 DEF SysTypeOK
<1>4. JobsInv'
  <2>1. QueuedData = QueuedData' \union {job'.data}
    <3>1. \A i \in DOMAIN chain :
             \/ i = 1
             \/ i - 1 \in DOMAIN chain' /\ chain[i] = chain'[i - 1]
      <4> SUFFICES ASSUME NEW i \in DOMAIN chain, i # 1
                   PROVE  i - 1 \in DOMAIN chain' /\ chain[i] = chain'[i - 1]
        OBVIOUS
      <4>1. i - 1 \in DOMAIN chain' /\ (i - 1) + 1 = i
        BY <1>2
      <4> QED  BY <1>2, <4>1
    <3>2. \A i \in DOMAIN chain' : i + 1 \in DOMAIN chain
      BY <1>2
    <3>3. 1 \in DOMAIN chain
      BY <1>2
    <3>4. QueuedData \subseteq QueuedData' \union {job'.data}
      BY <1>2, <3>1 DEF QueuedData
    <3>5. QueuedData' \union {job'.data} \subseteq QueuedData
      BY <1>2, <3>2, <3>3 DEF QueuedData
    <3> QED  BY <3>4, <3>5
  <2>2. live' = QueuedData' \union RunningData'
    BY <1>0, <2>1 DEF JobsInv, RunningData
  <2>3. Latest' = Latest
    BY <1>0 DEF Latest
  <2>4. \A i \in DOMAIN chain' : i + 1 \in DOMAIN chain /\ 1 < i + 1
    BY <1>2
  <2>5. \A i \in DOMAIN chain' :
           /\ chain'[i].data <= Latest /\ CodeFor(chain'[i].cmd)
           /\ job'.data < chain'[i].data
    BY <1>2, <2>4 DEF JobsInv
  <2>6. ASSUME NEW i \in DOMAIN chain', NEW j \in DOMAIN chain', i < j
        PROVE  chain'[i].data < chain'[j].data
    <3>1. chain'[i] = chain[i + 1] /\ chain'[j] = chain[j + 1] /\ i + 1 < j + 1
      BY <1>2, <2>6
    <3> QED  BY <2>4, <3>1 DEF JobsInv
  <2>7. job'.data <= Latest /\ CodeFor(job'.cmd)
    BY <1>2 DEF JobsInv
  <2> QED  BY <1>0, <2>2, <2>3, <2>5, <2>6, <2>7 DEF JobsInv
<1>5. LogInv'
  BY <1>0 DEF LogInv, LogInOrder
<1> QED  BY <1>3, <1>4, <1>5

\* However a task ends, its data was its own.
LEMMA FinishKeeps ==
  ASSUME SysInv, worker # "idle", Finish, UNCHANGED logVars,
         devop' \in {devop, "idle", "on"}, cache' \in Versions, flash' \in Versions
  PROVE  SysInv'
<1> USE DEF SysInv
<1>0. /\ worker' = "idle" /\ job' = Idle
      /\ live' = live \ {job.data}
      /\ UNCHANGED <<requestVars, chain, nreq>>
  BY DEF Finish, JobsInv
<1>1. Idle \in Job /\ chain \in Seq(Job) /\ job \in Job
  BY DEF Idle, Job, Texts, SysTypeOK
<1>2. SysTypeOK'
  BY <1>0, <1>1 DEF SysTypeOK
<1>3. JobsInv'
  <2>1. job.data \in Nat /\ \A i \in DOMAIN chain : chain[i].data \in Nat
    BY <1>1, JobData DEF Job
  <2>2. job.data \notin QueuedData
    BY <2>1 DEF JobsInv, QueuedData
  <2>3. live' = QueuedData
    BY <1>0, <2>2 DEF JobsInv, RunningData
  <2> QED  BY <1>0, <2>3 DEF JobsInv, QueuedData, RunningData, Latest
<1>4. LogInv'
  BY <1>0 DEF LogInv, LogInOrder
<1> QED  BY <1>2, <1>3, <1>4

\* Two steps of the log update that change only the list and the worker.
LEMMA LogStepKeeps ==
  ASSUME SysInv, worker # "idle", worker' \in {"clear", "log"},
         UNCHANGED <<mainVars, requestVars, chain, job, live, dataVars, nreq>>
  PROVE  SysTypeOK' /\ JobsInv'
<1>1. SysTypeOK'
  BY DEF SysInv, SysTypeOK
<1>2. JobsInv'
  <2>1. RunningData' = RunningData /\ QueuedData' = QueuedData /\ Latest' = Latest
    BY DEF RunningData, QueuedData, Latest
  <2> QED  BY <2>1 DEF SysInv, JobsInv
<1> QED  BY <1>1, <1>2

\* One more line of the log file is put in the chain of lines.
LEMMA PushLineKeeps ==
  ASSUME SysInv, PushLogLine
  PROVE  LogInv'
<1> USE DEF SysInv
<1>0. /\ worker = "log" /\ worker' = "log" /\ seen < total /\ seen' = seen + 1
      /\ logChain' = logChain \/ logChain' = Append(logChain, seen + 1)
      /\ UNCHANGED <<requestVars, logFile, total>>
  BY DEF PushLogLine
<1>1. /\ logFile \in Nat /\ total \in 0..logFile /\ seen \in 0..total
      /\ logChain \in Seq(1..logFile)
      /\ \A i \in DOMAIN logChain : logChain[i] <= seen
      /\ \A i \in DOMAIN logChain : logChain[i] \in 1..logFile
      /\ \A i, j \in DOMAIN logChain : i < j => logChain[i] < logChain[j]
  BY <1>0 DEF LogInv, LogInOrder
<1>2. seen + 1 \in 1..logFile /\ seen' \in 0..total
  BY <1>0, <1>1
<1>3. CASE logChain' = logChain
  <2>1. \A i \in DOMAIN logChain : logChain[i] <= seen + 1
    BY <1>1
  <2> QED  BY <1>0, <1>1, <1>2, <1>3, <2>1 DEF LogInv, LogInOrder
<1>4. CASE logChain' = Append(logChain, seen + 1)
  <2>1. /\ logChain' \in Seq(1..logFile) /\ Len(logChain) \in Nat
        /\ DOMAIN logChain = 1..Len(logChain)
        /\ DOMAIN logChain' = 1..(Len(logChain) + 1)
        /\ \A i \in 1..Len(logChain) : logChain'[i] = logChain[i]
        /\ logChain'[Len(logChain) + 1] = seen + 1
    BY <1>1, <1>2, <1>4
  <2>2. \A i \in DOMAIN logChain' : logChain'[i] <= seen + 1
    BY <1>1, <2>1, SMTT(30)
  <2>3. ASSUME NEW i \in DOMAIN logChain', NEW j \in DOMAIN logChain', i < j
        PROVE  logChain'[i] < logChain'[j]
    <3>1. i \in DOMAIN logChain /\ logChain'[i] = logChain[i]
      BY <2>1, <2>3
    <3>2. logChain[i] \in Nat /\ logChain[i] <= seen /\ seen \in Nat
      BY <1>1, <3>1
    <3>3. CASE j = Len(logChain) + 1
      BY <2>1, <3>1, <3>2, <3>3
    <3>4. CASE j # Len(logChain) + 1
      <4>1. j \in DOMAIN logChain /\ logChain'[j] = logChain[j]
        BY <2>1, <3>4
      <4> QED  BY <1>1, <2>3, <3>1, <4>1
    <3> QED  BY <3>3, <3>4
  <2>4. \A i \in DOMAIN logChain' : logChain'[i] \in 1..logFile
    BY <1>1, <1>2, <2>1
  <2> QED  BY <1>0, <1>1, <1>2, <2>1, <2>2, <2>3, <2>4 DEF LogInv, LogInOrder
<1> QED  BY <1>0, <1>3, <1>4

\* The process_async_X() functions end with the work data freed.
LEMMA RunTasksKeeps ==
  ASSUME SysInv, RunTasks
  PROVE  SysInv'
<1>0. /\ devop \in {"undefined", "idle", "on"} /\ cache \in Versions
      /\ flash \in Versions
  BY DEF SysInv, SysTypeOK
<1>1. CASE Take
  BY <1>1, TakeKeeps
<1>2. CASE RunDevOp
  <2>1. worker # "idle" /\ Finish /\ UNCHANGED <<cache, flash, logVars>>
        /\ devop' \in {devop, "idle", "on"}
    BY <1>2 DEF RunDevOp, Runs
  <2> QED  BY <1>0, <2>1, FinishKeeps
<1>3. CASE RunFmwUpdate
  <2>1. worker # "idle" /\ Finish /\ UNCHANGED <<devop, cache, logVars>>
    BY <1>3 DEF RunFmwUpdate, Runs
  <2>2. flash' \in Versions
    BY <1>0, <1>3 DEF RunFmwUpdate, Versions
  <2> QED  BY <1>0, <2>1, <2>2, FinishKeeps
<1>4. CASE RunLogUpdate
  <2>1. /\ worker = "run" /\ worker' = "clear"
        /\ UNCHANGED <<mainVars, requestVars, chain, job, live, dataVars, nreq,
                       logVars>>
    BY <1>4 DEF RunLogUpdate, Runs
  <2>2. SysTypeOK' /\ JobsInv'
    BY <2>1, LogStepKeeps
  <2>3. LogInv'
    BY <2>1 DEF SysInv, LogInv, LogInOrder
  <2> QED  BY <2>2, <2>3 DEF SysInv
<1>5. CASE RunNoLogFile
  <2>1. worker # "idle" /\ Finish /\ UNCHANGED <<dataVars, logVars>>
    BY <1>5 DEF RunNoLogFile, Runs
  <2> QED  BY <1>0, <2>1, FinishKeeps
<1>6. CASE LogCleared
  <2>1. /\ worker = "clear" /\ worker' = "log" /\ logChain' = <<>>
        /\ total' = logFile /\ seen' = 0
        /\ UNCHANGED <<mainVars, requestVars, chain, job, live, dataVars, nreq,
                       logFile>>
    BY <1>6 DEF LogCleared
  <2>2. SysTypeOK' /\ JobsInv'
    BY <2>1, LogStepKeeps
  <2>3. DOMAIN <<>> = {} /\ <<>> \in Seq(1..logFile)
    OBVIOUS
  <2>4. LogInv'
    BY <2>1, <2>3 DEF SysInv, LogInv, LogInOrder
  <2> QED  BY <2>2, <2>4 DEF SysInv
<1>7. CASE PushLogLine
  <2>1. worker # "idle" /\ worker' = "log"
        /\ UNCHANGED <<mainVars, requestVars, chain, job, live, dataVars, nreq>>
    BY <1>7 DEF PushLogLine
  <2>2. SysTypeOK' /\ JobsInv'
    BY <2>1, LogStepKeeps
  <2> QED  BY <1>7, <2>2, PushLineKeeps DEF SysInv
<1>8. CASE LogUpdated
  <2>1. worker # "idle" /\ Finish /\ UNCHANGED <<dataVars, logVars>>
    BY <1>8 DEF LogUpdated
  <2> QED  BY <1>0, <2>1, FinishKeeps
<1>9. CASE RunOther
  <2>1. worker # "idle" /\ Finish /\ UNCHANGED <<dataVars, logVars>>
    BY <1>9 DEF RunOther
  <2> QED  BY <1>0, <2>1, FinishKeeps
<1> QED  BY <1>1, <1>2, <1>3, <1>4, <1>5, <1>6, <1>7, <1>8, <1>9 DEF RunTasks

\* The destructor frees what was never taken.
LEMMA DestroyKeeps ==
  ASSUME SysInv, Destroy
  PROVE  SysInv'
<1>0. /\ worker = "idle" /\ live' = live \ QueuedData /\ chain' = <<>>
      /\ UNCHANGED <<requestVars, worker, job, dataVars, logVars, nreq>>
  BY DEF Destroy, QueuedData
<1>1. <<>> \in Seq(Job) /\ DOMAIN <<>> = {}
  OBVIOUS
<1>2. SysTypeOK'
  BY <1>0, <1>1 DEF SysInv, SysTypeOK
<1>3. JobsInv'
  <2>1. live' = {}
    BY <1>0 DEF SysInv, JobsInv, RunningData
  <2>2. QueuedData' = {} /\ RunningData' = {}
    BY <1>0, <1>1 DEF QueuedData, RunningData
  <2> QED  BY <1>0, <1>1, <2>1, <2>2 DEF SysInv, JobsInv
<1>4. LogInv'
  BY <1>0, SysFrame
<1> QED  BY <1>2, <1>3, <1>4 DEF SysInv

\* The system appends to the log file.
LEMMA LogGrowsKeeps ==
  ASSUME SysInv, LogGrows
  PROVE  SysInv'
<1> USE DEF LogGrows
<1>1. SysTypeOK'
  BY DEF SysInv, SysTypeOK
<1>2. JobsInv'
  BY SysFrame
<1>3. LogInv'
  <2>1. /\ logFile \in Nat /\ logChain \in Seq(1..logFile)
        /\ \A i \in DOMAIN logChain : logChain[i] \in 1..logFile
    BY DEF SysInv, LogInv
  <2>2. 1..logFile \subseteq 1..(logFile + 1)
    BY <2>1
  <2>3. logChain \in Seq(1..(logFile + 1))
    BY <2>1, <2>2, SeqMonotonic
  <2>4. \A i \in DOMAIN logChain : logChain[i] \in 1..(logFile + 1)
    BY <2>1, <2>2
  <2>5. req.value = "line" => req.number \in 1..(logFile + 1)
    BY <2>2 DEF SysInv, LogInv, LogInOrder
  <2> QED  BY <2>1, <2>3, <2>4, <2>5 DEF SysInv, LogInv, LogInOrder
<1> QED  BY <1>1, <1>2, <1>3 DEF SysInv

\* One lemma for each action.
LEMMA SysStep ==
  ASSUME SysInv, [SysNext]_sysVars
  PROVE  SysInv'
<1>1. ASSUME UNCHANGED <<requestVars, taskVars, dataVars, logVars, nreq>>
      PROVE  SysInv'
  <2>1. SysTypeOK'
    BY <1>1 DEF SysInv, SysTypeOK
  <2> QED  BY <1>1, <2>1, SysFrame DEF SysInv
<1>2. CASE Refuse
  BY <1>2, RefuseKeeps
<1>3. CASE Accept
  BY <1>3, AcceptKeeps
<1>4. CASE Process
  BY <1>4, ProcessKeeps
<1>5. CASE Reply
  BY <1>5, ReplyKeeps
<1>6. CASE RunTasks
  BY <1>6, RunTasksKeeps
<1>7. CASE Main
  <2>1. CASE AttachReceiver
    BY <1>1, <2>1 DEF AttachReceiver
  <2>2. CASE SetReady
    BY <1>1, <2>2 DEF SetReady
  <2>3. CASE Destroy
    BY <2>3, DestroyKeeps
  <2> QED  BY <1>7, <2>1, <2>2, <2>3 DEF Main
<1>8. CASE StopManager
  BY <1>1, <1>8 DEF StopManager
<1>9. CASE LogGrows
  BY <1>9, LogGrowsKeeps
<1>10. CASE UNCHANGED sysVars
  BY <1>1, <1>10 DEF sysVars
<1> QED  BY <1>2, <1>3, <1>4, <1>5, <1>6, <1>7, <1>8, <1>9, <1>10 DEF SysNext

\* The service keeps its invariant, whatever requests and tasks interleave.
THEOREM SysSafety == SysSpec => []SysInv
<1>1. SysInit => SysInv
  BY SysStarts
<1>2. SysInv /\ [SysNext]_sysVars => SysInv'
  BY SysStep
<1> QED  BY <1>1, <1>2, PTL DEF SysSpec

\* Work data has one owner, from process_X() to process_async_X() or the
\* destructor, for any number of requests and any set of commands called; and
\* the object a task's number selects always knows the task.
THEOREM WorkDataHasOneOwner == SysSpec => []WorkDataOwned
<1>1. SysInv => WorkDataOwned
  BY JobsInvSuffices
<1> QED  BY <1>1, SysSafety, PTL

\* The log list is in order while it is rebuilt, and a line is the one asked
\* for, whatever the length of the log.
THEOREM LogIsInOrder == SysSpec => []LogInOrder
<1>1. SysInv => LogInOrder
  BY DEF SysInv, LogInv
<1> QED  BY <1>1, SysSafety, PTL
=============================================================================
