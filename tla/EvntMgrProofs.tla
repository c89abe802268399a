---------------------------- MODULE EvntMgrProofs ----------------------------
(***************************************************************************)
(* For any subscribers, events, queue bound, failure bound and window: no  *)
(* event is missed, and only dead subscribers lose their subscription.     *)
(***************************************************************************)
EXTENDS EvntMgr, ChainLemmas

USE DEF vars, notifier, process, ghosts

\* What the invariant is about.
core == <<eventList, ackToken, clock, notifyEvent, notifier, stop, history,
          dropped, ghosts>>

\* Steps of the process thread, and others that leave all that alone.
LEMMA Frame == ASSUME IInv, UNCHANGED core PROVE IInv'
<1> USE DEF IInv, core
<1>1. TypeOK'
  BY DEF TypeOK
<1>2. TokenInv'
  BY DEF TokenInv
<1>3. CountInv'
  BY DEF CountInv, Counting, Stopping, Has
<1>4. QueueInv' /\ SendInv'
  BY DEF QueueInv, SendInv, Stopping, Has, Wants
<1>5. NothingMissed'
  BY DEF NothingMissed, Stopping, Waiting, Wants
<1> QED  BY <1>1, <1>2, <1>3, <1>4, <1>5

\* Time passes: the invariant is kept.
LEMMA TickStep == ASSUME IInv, Tick PROVE IInv'
<1> USE DEF IInv, Tick
<1>1. TypeOK'
  BY DEF TypeOK
<1>2. TokenInv'
  BY DEF TokenInv
<1>3. CountInv'
  BY DEF TypeOK, CountInv, Counting, Stopping, Has
<1>4. QueueInv' /\ SendInv'
  BY DEF QueueInv, SendInv, Stopping, Has, Wants
<1>5. NothingMissed'
  BY DEF NothingMissed, Stopping, Waiting, Wants
<1> QED  BY <1>1, <1>2, <1>3, <1>4, <1>5

\* stop() goes on: the invariant is kept.
LEMMA StopStep == ASSUME IInv, Stop PROVE IInv'
<1> USE DEF IInv, Stop
<1>1. TypeOK'
  BY DEF TypeOK
<1>2. TokenInv'
  BY DEF TokenInv
<1>3. CountInv'
  BY DEF CountInv, Counting, Stopping, Has
<1>4. QueueInv' /\ SendInv'
  BY DEF QueueInv, SendInv, Stopping, Has, Wants
<1>5. NothingMissed'
  BY DEF NothingMissed, Stopping, Waiting, Wants
<1> QED  BY <1>1, <1>2, <1>3, <1>4, <1>5

\* A subscription is made: the invariant is kept.
LEMMA RegisterStep ==
  ASSUME IInv, NEW sub \in Subs, Register(sub) PROVE IInv'
<1> USE DEF IInv, Register
<1> DEFINE new == [tok |-> ackToken + 1, sub |-> sub, fails |-> 0, first |-> 0,
                   born |-> Len(history)]
<1>1. /\ new \in Entry /\ new.tok = ackToken + 1 /\ new.fails = 0
      /\ new.born = Len(history) /\ eventList' = eventList \cup {new}
      /\ ackToken \in Nat /\ ackToken + 1 \in Tokens /\ Len(history) \in Nat
  BY EvntAssumption DEF TypeOK, Entry, Tokens
<1> HIDE DEF new
<1>2. \A e \in eventList \cup targets \cup failed \cup delivered :
         e.tok \in Nat /\ e.tok # new.tok /\ e.tok <= ackToken
  BY <1>1 DEF TypeOK, TokenInv, Entry, Tokens
<1>3. TypeOK'
  BY <1>1 DEF TypeOK
<1>4. TokenInv'
  BY <1>1, <1>2 DEF TokenInv
<1>5. CountInv'
  <2>1. ~Has(delivered, new) /\ ~Has(failed, new) /\ streak[new.tok] = 0
    BY <1>1, <1>2 DEF Has, CountInv
  <2>2. \A t \in Tokens : t > ackToken' => streak[t] = 0
    BY <1>1 DEF CountInv, Tokens
  <2> QED
    BY <1>1, <2>1, <2>2 DEF CountInv, Counting, Stopping, Has
<1>6. QueueInv'
  BY DEF QueueInv, Stopping
<1>7. SendInv'
  <2>1. npc = "send" => ~(new.born < Head(batch).n)
    <3> SUFFICES ASSUME npc = "send" PROVE ~(new.born < Head(batch).n)
      OBVIOUS
    <3>1. Head(batch) \in Range(batch)
      BY GetRange DEF TypeOK, QueueInv
    <3>2. Head(batch).n \in 1..Len(history)
      BY <3>1 DEF QueueInv, TypeOK
    <3> QED  BY <1>1, <3>2
  <2> QED
    BY <1>1, <2>1 DEF SendInv, Has, Wants
<1>8. NothingMissed'
  <2>1. \A n \in DOMAIN history : ~(new.born < n)
    BY <1>1 DEF TypeOK
  <2> QED
    BY <1>1, <2>1 DEF NothingMissed, Stopping, Waiting, Wants
<1> QED  BY <1>3, <1>4, <1>5, <1>6, <1>7, <1>8

\* A subscription is given back: the invariant is kept.
LEMMA UnregisterStep ==
  ASSUME IInv, NEW tok \in Tokens, Unregister(tok) PROVE IInv'
<1> USE DEF IInv, Unregister
<1>1. eventList' \subseteq eventList
  OBVIOUS
<1>2. TypeOK'
  BY <1>1 DEF TypeOK
<1>3. TokenInv'
  BY <1>1 DEF TokenInv
<1>4. CountInv'
  BY <1>1 DEF CountInv, Counting, Stopping, Has
<1>5. QueueInv' /\ SendInv'
  BY <1>1 DEF QueueInv, SendInv, Stopping, Has, Wants
<1>6. NothingMissed'
  BY <1>1 DEF NothingMissed, Stopping, Waiting, Wants
<1> QED  BY <1>2, <1>3, <1>4, <1>5, <1>6

\* An event is queued, or takes the place of the oldest one: the invariant is
\* kept.
LEMMA NotifyEventStep ==
  ASSUME IInv, NEW num \in Events, NotifyEvent(num) PROVE IInv'
<1> USE DEF IInv, NotifyEvent
<1> DEFINE ev == [num |-> num, n |-> Len(history) + 1]
           rest == IF Full(notifyEvent) THEN Tail(notifyEvent) ELSE notifyEvent
<1>0. /\ history \in Seq(Events) /\ notifyEvent \in Seq(Event)
      /\ batch \in Seq(Event) /\ Len(history) \in Nat
  BY DEF TypeOK
<1>1. ev \in Event /\ ev.num = num /\ ev.n = Len(history) + 1
  BY <1>0 DEF Event
<1>2. Full(notifyEvent) => notifyEvent # <<>>
  BY <1>0, EvntAssumption DEF Full
<1>3. /\ rest \in Seq(Event) /\ Range(rest) \subseteq Range(notifyEvent)
      /\ \A x \in Range(notifyEvent) : x \in Range(rest) \/ x.n \in dropped'
      /\ dropped \subseteq dropped'
  <2>1. CASE Full(notifyEvent)
    <3>1. /\ Tail(notifyEvent) \in Seq(Event)
          /\ Range(notifyEvent) = Range(Tail(notifyEvent)) \cup {Head(notifyEvent)}
      BY <1>0, <1>2, <2>1, GetRange
    <3>2. dropped' = dropped \cup {Head(notifyEvent).n}
      BY <2>1
    <3> QED  BY <2>1, <3>1, <3>2
  <2>2. CASE ~Full(notifyEvent)
    BY <1>0, <2>2
  <2> QED  BY <2>1, <2>2
<1>4. notifyEvent' = Append(rest, ev)
  BY DEF Queued
<1> HIDE DEF ev, rest
<1>5. notifyEvent' \in Seq(Event) /\ Range(notifyEvent') = Range(rest) \cup {ev}
  <2>1. rest \in Seq(Event) /\ ev \in Event
    BY <1>1, <1>3
  <2>2. /\ Append(rest, ev) \in Seq(Event)
        /\ Range(Append(rest, ev)) = Range(rest) \cup {ev}
    BY ONLY <2>1, PutRange
  <2> QED  BY ONLY <1>4, <2>2
<1>6. /\ history' \in Seq(Events)
      /\ DOMAIN history' = 1..(Len(history) + 1)
      /\ DOMAIN history = 1..Len(history)
      /\ \A n \in DOMAIN history : history'[n] = history[n]
      /\ history'[Len(history) + 1] = num
  BY <1>0
<1>7. TypeOK'
  BY <1>5, <1>6 DEF TypeOK
<1>8. TokenInv' /\ SendInv'
  BY DEF TokenInv, SendInv, Has, Wants
<1>9. CountInv'
  BY DEF CountInv, Counting, Stopping, Has
<1>10. QueueInv'
  <2>1. ASSUME NEW x \in Range(notifyEvent') \cup Range(batch)
        PROVE  x.n \in DOMAIN history' /\ history'[x.n] = x.num
    <3>1. CASE x = ev
      BY <1>0, <1>1, <1>6, <3>1
    <3>2. CASE x \in Range(notifyEvent) \cup Range(batch)
      BY <1>0, <1>6, <3>2 DEF QueueInv
    <3> QED  BY <1>3, <1>5, <3>1, <3>2
  <2> QED  BY <2>1 DEF QueueInv, Stopping
<1>11. NothingMissed'
  <2> SUFFICES ASSUME ~Stopping', NEW n \in DOMAIN history',
                      NEW e \in eventList, n \notin Waiting' \cup dropped',
                      Wants(e, history'[n]), e.born < n
               PROVE  <<e.tok, n>> \in tried
    BY DEF NothingMissed, Wants
  <2>1. n # ev.n
    BY <1>5 DEF Waiting
  <2>2. n \in DOMAIN history /\ history'[n] = history[n]
    BY <1>0, <1>1, <1>6, <2>1
  <2>3. n \notin Waiting
    BY <1>3, <1>5 DEF Waiting
  <2> QED
    BY <1>3, <2>2, <2>3 DEF NothingMissed, Stopping
<1> QED  BY <1>7, <1>8, <1>9, <1>10, <1>11

\* The notify thread wakes up: the invariant is kept.
LEMMA NotifierWakesStep == ASSUME IInv, NotifierWakes PROVE IInv'
<1> USE DEF IInv, NotifierWakes
<1>1. TypeOK'
  BY DEF TypeOK
<1>2. TokenInv' /\ SendInv'
  BY DEF TokenInv, SendInv
<1>3. CountInv'
  BY DEF CountInv, Counting, Stopping, Has
<1>4. QueueInv'
  BY DEF QueueInv, Stopping
<1>5. NothingMissed'
  BY DEF NothingMissed, Stopping, Waiting, Wants
<1> QED  BY <1>1, <1>2, <1>3, <1>4, <1>5

\* The notify thread ends: the invariant is kept.
LEMMA NotifierExitsStep == ASSUME IInv, NotifierExits PROVE IInv'
<1> USE DEF IInv, NotifierExits
<1>1. TypeOK'
  BY DEF TypeOK
<1>2. TokenInv' /\ SendInv'
  BY DEF TokenInv, SendInv
<1>3. CountInv'
  BY DEF CountInv, Counting, Stopping, Has
<1>4. QueueInv'
  BY DEF QueueInv, Stopping
<1>5. NothingMissed'
  BY DEF NothingMissed, Stopping
<1> QED  BY <1>1, <1>2, <1>3, <1>4, <1>5

\* The notify thread swaps the queue out: the invariant is kept.
LEMMA NotifierSwapsStep == ASSUME IInv, NotifierSwaps PROVE IInv'
<1> USE DEF IInv, NotifierSwaps
<1>1. Range(batch) = {} /\ Range(notifyEvent') = {}
      /\ Range(batch') = Range(notifyEvent)
  BY DEF QueueInv, Range
<1>2. TypeOK'
  BY EmptySeq DEF TypeOK
<1>3. TokenInv' /\ SendInv'
  BY DEF TokenInv, SendInv
<1>4. CountInv'
  BY DEF CountInv, Counting, Stopping, Has
<1>5. QueueInv'
  BY <1>1 DEF QueueInv, Stopping
<1>6. NothingMissed'
  BY <1>1 DEF NothingMissed, Stopping, Waiting, Wants
<1> QED  BY <1>2, <1>3, <1>4, <1>5, <1>6

\* The notify thread copies the subscribers of the next event, or is done with
\* the batch: the invariant is kept.
LEMMA NotifierNextStep == ASSUME IInv, NotifierNext PROVE IInv'
<1> USE DEF IInv, NotifierNext, QueueAfterBatch
<1>1. /\ UNCHANGED <<notifyEvent, batch, failed, delivered>>
      /\ failed = {} /\ delivered = {} /\ targets' \subseteq eventList \cup targets
  BY DEF TokenInv
<1>2. TypeOK'
  BY <1>1 DEF TypeOK
<1>3. TokenInv'
  BY <1>1 DEF TokenInv
<1>4. CountInv'
  BY DEF CountInv, Counting, Stopping, Has
<1>5. QueueInv'
  BY <1>1 DEF QueueInv, Stopping
<1>6. SendInv'
  BY DEF SendInv, Has, Wants
<1>7. NothingMissed'
  BY <1>1 DEF NothingMissed, Stopping, Waiting, Wants
<1> QED  BY <1>2, <1>3, <1>4, <1>5, <1>6, <1>7

\* A stop cuts the batch short: the invariant is kept.
LEMMA NotifierGivesUpStep == ASSUME IInv, NotifierGivesUp PROVE IInv'
<1> USE DEF IInv, NotifierGivesUp
<1>1. TypeOK'
  BY EmptySeq DEF TypeOK
<1>2. TokenInv' /\ SendInv'
  BY DEF TokenInv, SendInv
<1>3. CountInv'
  BY DEF CountInv, Counting, Stopping, Has
<1>4. QueueInv'
  <2>1. Range(batch') = {}
    BY DEF Range
  <2> QED  BY <2>1 DEF QueueInv, Stopping
<1>5. NothingMissed'
  BY DEF NothingMissed, Stopping
<1> QED  BY <1>1, <1>2, <1>3, <1>4, <1>5

\* One delivery of the event in work: the invariant is kept.
LEMMA NotifierSendsStep == ASSUME IInv, NotifierSends PROVE IInv'
<1> USE DEF IInv
<1>1. PICK t \in First(targets), ok \in BOOLEAN :
        /\ delivered' = IF ok THEN delivered \cup {t} ELSE delivered
        /\ failed' = IF ok THEN failed ELSE failed \cup {t}
        /\ targets' = targets \ {t}
        /\ tried' = tried \cup {<<t.tok, Head(batch).n>>}
        /\ streak' = [streak EXCEPT ![t.tok] = IF ok THEN 0 ELSE @ + 1]
        /\ since' = [since EXCEPT ![t.tok] =
                       IF ~ok /\ streak[t.tok] = 0 THEN clock ELSE @]
  BY DEF NotifierSends
<1>2. /\ npc = "send" /\ ~Stopping
      /\ UNCHANGED <<eventList, ackToken, clock, notifyEvent, npc, batch, stop,
                     history, dropped>>
  BY DEF NotifierSends
<1>3. t \in targets /\ t \in Entry /\ t.tok \in Tokens /\ streak[t.tok] \in Nat
  BY <1>1 DEF First, TypeOK, Entry
<1>4. /\ delivered' \subseteq delivered \cup {t}
      /\ failed' \subseteq failed \cup {t} /\ targets' \subseteq targets
      /\ \A u \in targets : u = t \/ u \in targets'
  BY <1>1
<1>5. /\ \A u \in Tokens : u # t.tok => streak'[u] = streak[u] /\ since'[u] = since[u]
      /\ streak'[t.tok] = IF ok THEN 0 ELSE streak[t.tok] + 1
      /\ since'[t.tok] = IF ~ok /\ streak[t.tok] = 0 THEN clock ELSE since[t.tok]
  BY <1>1, <1>3 DEF TypeOK
<1>6. TypeOK'
  <2>1. streak' \in [Tokens -> Nat] /\ since' \in [Tokens -> Nat]
    BY <1>1, <1>3 DEF TypeOK
  <2> QED  BY <1>2, <1>3, <1>4, <2>1 DEF TypeOK
<1>7. TokenInv'
  <2>1. \A e \in (eventList \cup targets \cup failed \cup delivered)' :
           e.tok <= ackToken'
    BY <1>2, <1>3, <1>4 DEF TokenInv
  <2>2. \A u \in targets' : u.tok # t.tok
    BY <1>1, <1>3 DEF TokenInv
  <2>3. \A u \in targets' : \A v \in (failed \cup delivered)' : u.tok # v.tok
    BY <1>4, <2>2 DEF TokenInv
  <2>4. \A u \in failed' : \A v \in delivered' : u.tok # v.tok
    BY <1>1, <1>3 DEF TokenInv
  <2> QED  BY <1>2, <1>4, <2>1, <2>3, <2>4 DEF TokenInv
<1>8. CountInv'
  <2>1. \A u \in Tokens : u > ackToken' => streak'[u] = 0
    BY <1>2, <1>3, <1>5 DEF CountInv, TokenInv, TypeOK, Tokens
  <2>2. \A u \in Tokens : since'[u] <= clock'
    BY <1>2, <1>3, <1>5, SMTT(30) DEF CountInv, TypeOK
  <2>3. ASSUME NEW e \in eventList
        PROVE  /\ Has(delivered, e)' => streak'[e.tok] = 0
               /\ Has(failed, e)' => streak'[e.tok] = e.fails + 1
               /\ ~Has(delivered, e)' /\ ~Has(failed, e)'
                    => streak'[e.tok] = e.fails
               /\ ~Has(delivered, e)' /\ e.fails > 0 => since'[e.tok] <= e.first
    <3>1. /\ Has(delivered, e) => streak[e.tok] = 0
          /\ Has(failed, e) => streak[e.tok] = e.fails + 1
          /\ ~Has(delivered, e) /\ ~Has(failed, e) => streak[e.tok] = e.fails
          /\ ~Has(delivered, e) /\ e.fails > 0 => since[e.tok] <= e.first
      BY <1>2 DEF CountInv, Counting
    <3>2. e.tok \in Tokens /\ e.fails \in Nat
      BY DEF TypeOK, Entry
    <3>3. CASE e.tok # t.tok
      <4>1. /\ Has(delivered, e)' <=> Has(delivered, e)
            /\ Has(failed, e)' <=> Has(failed, e)
        BY <1>1, <3>3 DEF Has
      <4> QED  BY <1>5, <3>1, <3>2, <3>3, <4>1
    <3>4. CASE e.tok = t.tok /\ ok
      <4>1. Has(delivered, e)' /\ ~Has(failed, e)'
        BY <1>1, <1>3, <3>4 DEF Has, TokenInv
      <4> QED  BY <1>5, <3>4, <4>1
    <3>5. CASE e.tok = t.tok /\ ~ok
      <4>1. ~Has(delivered, e)' /\ Has(failed, e)'
        BY <1>1, <1>3, <3>5 DEF Has, TokenInv
      <4>2. ~Has(delivered, e) /\ ~Has(failed, e)
        BY <1>3, <3>5 DEF Has, TokenInv
      <4> QED  BY <1>5, <3>1, <3>2, <3>5, <4>1, <4>2
    <3> QED  BY <3>3, <3>4, <3>5
  <2> QED  BY <1>2, <2>1, <2>2, <2>3 DEF CountInv, Counting, Has
<1>9. QueueInv'
  BY <1>2 DEF QueueInv, Stopping
<1>10. SendInv'
  BY <1>1, <1>2, <1>4 DEF SendInv, Has, Wants
<1>11. NothingMissed'
  BY <1>1, <1>2 DEF NothingMissed, Stopping, Waiting, Wants
<1> QED  BY <1>6, <1>7, <1>8, <1>9, <1>10, <1>11

\* What update_failure_counts() makes of a subscription.
LEMMA UpdatedEntry ==
  ASSUME IInv, NEW e \in eventList
  PROVE  /\ Updated(e) \in Entry /\ Updated(e).tok = e.tok
         /\ Updated(e).sub = e.sub /\ Updated(e).born = e.born
         /\ Has(delivered, e) => Updated(e).fails = 0
         /\ ~Has(delivered, e) /\ Has(failed, e) =>
               /\ Updated(e).fails = e.fails + 1
               /\ Updated(e).first = IF e.fails = 0 THEN clock ELSE e.first
         /\ ~Has(delivered, e) /\ ~Has(failed, e) => Updated(e) = e
<1>1. e \in Entry /\ clock \in Nat
  BY DEF IInv, TypeOK
<1>2. (\E t \in delivered : Same(e, t)) <=> Has(delivered, e)
  BY DEF Same, Has
<1>3. (\E t \in failed : Same(e, t)) <=> Has(failed, e)
  BY DEF Same, Has
<1>4. CASE Has(delivered, e)
  <2>1. Updated(e) = [e EXCEPT !.fails = 0]
    BY <1>2, <1>4 DEF Updated, FailsAfterDelivery
  <2> QED  BY <1>1, <1>4, <2>1 DEF Entry
<1>5. CASE ~Has(delivered, e) /\ Has(failed, e)
  <2>1. Updated(e) = [e EXCEPT !.fails = @ + 1,
                               !.first = IF e.fails = 0 THEN clock ELSE @]
    BY <1>2, <1>3, <1>5 DEF Updated
  <2>2. PICK a, b : /\ a = e.fails + 1 /\ a \in Nat
                    /\ b = (IF e.fails = 0 THEN clock ELSE e.first) /\ b \in Nat
    BY <1>1 DEF Entry
  <2>3. Updated(e) = [e EXCEPT !.fails = a, !.first = b]
    BY <1>1, <2>1, <2>2 DEF Entry
  <2>4. [e EXCEPT !.fails = a, !.first = b] \in Entry
    BY <1>1, <2>2 DEF Entry
  <2> QED  BY <1>1, <1>5, <2>2, <2>3, <2>4 DEF Entry
<1>6. CASE ~Has(delivered, e) /\ ~Has(failed, e)
  BY <1>1, <1>2, <1>3, <1>6 DEF Updated
<1> QED  BY <1>4, <1>5, <1>6

\* The event in work is done with and its failures are counted: the invariant
\* is kept.
LEMMA NotifierUpdatesStep == ASSUME IInv, NotifierUpdates PROVE IInv'
<1> USE DEF IInv
<1>1. /\ npc = "send" /\ npc' = "next" /\ targets = {} /\ targets' = {}
      /\ failed' = {} /\ delivered' = {} /\ batch' = Tail(batch)
      /\ UNCHANGED <<ackToken, clock, notifyEvent, stop, history, dropped, ghosts>>
      /\ eventList' = {Updated(e) : e \in {e \in eventList : ~Failing(e)}}
  BY DEF NotifierUpdates
<1>2. \A f \in eventList' : \E e \in eventList : f = Updated(e)
  BY <1>1
<1>3. /\ batch' \in Seq(Event) /\ Range(batch) = Range(batch') \cup {Head(batch)}
      /\ Head(batch) \in Event
  <2>1. batch \in Seq(Event) /\ batch # <<>>
    BY <1>1 DEF TypeOK, QueueInv
  <2>2. /\ Tail(batch) \in Seq(Event) /\ Head(batch) \in Event
        /\ Range(batch) = Range(Tail(batch)) \cup {Head(batch)}
    BY ONLY <2>1, GetRange
  <2> QED  BY <1>1, <2>2
<1>4. TypeOK'
  <2>1. eventList' \subseteq Entry
    BY <1>2, UpdatedEntry
  <2> QED  BY <1>1, <1>3, <2>1 DEF TypeOK
<1>5. TokenInv'
  <2>1. \A f \in eventList' : f.tok <= ackToken
    BY <1>2, UpdatedEntry DEF TokenInv
  <2>2. \A f, g \in eventList' : f.tok = g.tok => f = g
    BY <1>2, UpdatedEntry DEF TokenInv
  <2> QED  BY <1>1, <2>1, <2>2 DEF TokenInv
<1>6. CountInv'
  <2>1. \A f \in eventList' : ~Has(delivered', f) /\ ~Has(failed', f)
    BY <1>1 DEF Has
  <2>2. ASSUME NEW f \in eventList'
        PROVE  streak[f.tok] = f.fails /\ (f.fails > 0 => since[f.tok] <= f.first)
    <3>1. PICK e \in eventList : f = Updated(e)
      BY <1>2
    <3>2. e.tok \in Tokens /\ e.fails \in Nat /\ since[e.tok] <= clock
      BY DEF TypeOK, Entry, CountInv
    <3>3. /\ Has(delivered, e) => streak[e.tok] = 0
          /\ Has(failed, e) => streak[e.tok] = e.fails + 1
          /\ ~Has(delivered, e) /\ ~Has(failed, e) => streak[e.tok] = e.fails
          /\ ~Has(delivered, e) /\ e.fails > 0 => since[e.tok] <= e.first
      BY <1>1 DEF CountInv, Counting
    <3>4. CASE Has(delivered, e)
      BY <3>1, <3>3, <3>4, UpdatedEntry
    <3>5. CASE ~Has(delivered, e) /\ Has(failed, e)
      BY <3>1, <3>2, <3>3, <3>5, UpdatedEntry
    <3>6. CASE ~Has(delivered, e) /\ ~Has(failed, e)
      BY <3>1, <3>3, <3>6, UpdatedEntry
    <3> QED  BY <3>4, <3>5, <3>6
  <2> QED
    BY <1>1, <2>1, <2>2 DEF CountInv, Counting, Has
<1>7. QueueInv'
  BY <1>1, <1>3 DEF QueueInv, Stopping
<1>8. SendInv'
  BY <1>1 DEF SendInv
<1>9. NothingMissed'
  <2> SUFFICES ASSUME ~Stopping, NEW n \in DOMAIN history,
                      NEW f \in eventList', n \notin Waiting' \cup dropped,
                      Wants(f, history[n]), f.born < n
               PROVE  <<f.tok, n>> \in tried
    BY <1>1 DEF NothingMissed, Stopping, Wants
  <2>1. PICK e \in eventList : f = Updated(e)
    BY <1>2
  <2>2. f.tok = e.tok /\ f.sub = e.sub /\ f.born = e.born
    BY <2>1, UpdatedEntry
  <2>3. CASE n = Head(batch).n
    <3>1. history[n] = Head(batch).num
      BY <1>3, <2>3 DEF QueueInv
    <3> QED  BY <1>1, <2>2, <2>3, <3>1 DEF SendInv, Has, Wants
  <2>4. CASE n # Head(batch).n
    <3>1. n \notin Waiting
      BY <1>1, <1>3, <2>4 DEF Waiting
    <3> QED  BY <2>2, <3>1 DEF NothingMissed, Wants
  <2> QED  BY <2>3, <2>4
<1> QED  BY <1>4, <1>5, <1>6, <1>7, <1>8, <1>9

\* Nobody has subscribed, and no event has happened yet.
LEMMA InitEstablishes == ASSUME Init PROVE IInv
<1>1. TypeOK
  BY EmptySeq DEF Init, TypeOK
<1>2. TokenInv /\ SendInv
  BY DEF Init, TokenInv, SendInv
<1>3. CountInv
  BY DEF Init, CountInv
<1>4. QueueInv
  BY DEF Init, QueueInv, Range
<1>5. NothingMissed
  BY DEF Init, NothingMissed
<1> QED  BY <1>1, <1>2, <1>3, <1>4, <1>5 DEF IInv

\* Every step of the service keeps the invariant.
LEMMA NextStep == ASSUME IInv, [Next]_vars PROVE IInv'
<1>1. CASE Notifier
  BY <1>1, NotifierWakesStep, NotifierSwapsStep, NotifierNextStep,
     NotifierSendsStep, NotifierGivesUpStep, NotifierUpdatesStep,
     NotifierExitsStep DEF Notifier
<1>2. CASE ProcessEvent \/ Processor \/ UNCHANGED vars
  <2>1. UNCHANGED core
    BY <1>2 DEF core, ProcessEvent, Processor, ProcessorWakes, ProcessorSwaps,
       ProcessorDelivers, ProcessorExits
  <2> QED  BY <2>1, Frame
<1> QED
  BY <1>1, <1>2, RegisterStep, UnregisterStep, NotifyEventStep, TickStep,
     StopStep DEF Next

\* The threads of the event manager keep the inductive invariant.
THEOREM Safety == Spec => []IInv
<1>1. Init => IInv
  BY InitEstablishes
<1>2. IInv /\ [Next]_vars => IInv'
  BY NextStep
<1> QED  BY <1>1, <1>2, PTL DEF Spec

\* No event that left the queue of notify_event() misses one of its
\* subscribers, for any number of subscribers, events and queue places.
THEOREM NoEventIsMissed == Spec => []NothingMissed
<1>1. IInv => NothingMissed
  BY DEF IInv
<1> QED  BY <1>1, Safety, PTL

\* What one step may remove: the action property for a single step.
LEMMA RemovalStep ==
  ASSUME IInv, [Next]_vars, NEW e \in eventList,
         \A f \in eventList' : f.tok # e.tok, e.tok \notin unregistered'
  PROVE  streak[e.tok] >= MaxFailures /\ clock - since[e.tok] >= FailWindow
<1>1. CASE NotifierUpdates
  <2>1. Failing(e)
    <3>1. Updated(e).tok = e.tok
      BY UpdatedEntry
    <3> QED  BY <1>1, <3>1 DEF NotifierUpdates
  <2>2. Has(failed, e) /\ ~Has(delivered, e)
    BY <2>1 DEF Failing, Same, Has
  <2>3. /\ e.fails + 1 >= MaxFailures
        /\ clock - (IF e.fails = 0 THEN clock ELSE e.first) >= FailWindow
    BY <2>1, <2>2, UpdatedEntry DEF Failing
  <2>4. /\ e.tok \in Tokens /\ e.fails \in Nat /\ e.first \in Nat /\ clock \in Nat
        /\ since[e.tok] \in Nat /\ FailWindow \in Nat /\ since[e.tok] <= clock
    BY EvntAssumption DEF IInv, TypeOK, Entry, CountInv
  <2>5. /\ streak[e.tok] = e.fails + 1
        /\ e.fails > 0 => since[e.tok] <= e.first
    BY <1>1, <2>2 DEF IInv, CountInv, Counting, NotifierUpdates
  <2> QED  BY <2>3, <2>4, <2>5
<1>2. CASE \E tok \in Tokens : Unregister(tok)
  BY <1>2 DEF Unregister
<1>3. CASE eventList \subseteq eventList'
  BY <1>3
<1>4. (\E sub \in Subs : Register(sub)) => eventList \subseteq eventList'
  BY DEF Register
<1>5. (\E num \in Events : NotifyEvent(num)) => eventList' = eventList
  BY DEF NotifyEvent
<1>6. Notifier => NotifierUpdates \/ eventList' = eventList
  BY DEF Notifier, NotifierWakes, NotifierSwaps, NotifierNext, NotifierSends,
     NotifierGivesUp, NotifierExits
<1>7. ProcessEvent \/ Tick \/ Stop \/ Processor => eventList' = eventList
  BY DEF ProcessEvent, Tick, Stop, Processor, ProcessorWakes, ProcessorSwaps,
     ProcessorDelivers, ProcessorExits
<1>8. UNCHANGED vars => eventList' = eventList
  OBVIOUS
<1> QED
  BY <1>1, <1>2, <1>3, <1>4, <1>5, <1>6, <1>7, <1>8 DEF Next

\* update_failure_counts() removes a subscription only for failed deliveries of
\* its own, whoever subscribes and unsubscribes meanwhile: the token tells a
\* new subscription from the one the delivery was made for.
THEOREM OnlyTheDeadAreRemoved == Spec => OnlyDeadAreRemoved
<1> DEFINE Removal ==
      \A e \in eventList :
         (\A f \in eventList' : f.tok # e.tok) /\ e.tok \notin unregistered'
           => streak[e.tok] >= MaxFailures /\ clock - since[e.tok] >= FailWindow
<1>1. IInv /\ [Next]_vars => Removal
  BY RemovalStep
<1>2. [][Removal]_vars => OnlyDeadAreRemoved
  BY DEF OnlyDeadAreRemoved
<1> HIDE DEF Removal
<1> QED  BY <1>1, <1>2, Safety, PTL DEF Spec
==============================================================================
