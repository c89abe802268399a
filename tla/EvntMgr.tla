------------------------------ MODULE EvntMgr ------------------------------
(***************************************************************************)
(* ADEvntMgr: subscriptions and the delivery of events.  The RPC thread    *)
(* (and the task worker) register, unregister and queue events; the notify *)
(* thread sends them to the subscribers over TCP without holding the lock; *)
(* the process thread hands incoming events to the receivers in this       *)
(* process.  One action is one critical section, one delivery, or a tick   *)
(* of the monotonic clock.                                                 *)
(*                                                                         *)
(* An event is [num, n]: its number and its place in the order of          *)
(* notify_event() calls (a ghost).  The vector of subscriptions is a set   *)
(* here: push_back() with the next token and removals keep it in the order *)
(* of the tokens.                                                          *)
(***************************************************************************)
EXTENDS Naturals, Sequences, Functions

CONSTANTS Ports,        \* callback ports subscribers register
          Events,       \* event numbers
          MaxFailures,  \* ADEVNT_MGR_MAX_FAILURES
          FailWindow,   \* ADEVNT_MGR_FAIL_WINDOW_MS, in ticks
          MaxQueued,    \* ADEVNT_MGR_MAX_QUEUED
          MaxTokens,    \* subscriptions made during a behaviour (bound)
          MaxNotify,    \* events to notify (bound)
          MaxProcess,   \* events to process (bound)
          MaxClock      \* ticks of the clock (bound)

AnyEvent == 0
Subs == [port : Ports, num : Events \cup {AnyEvent}]
Tokens == 1..MaxTokens

ASSUME EvntAssumption ==
    /\ Events \subseteq Nat \ {AnyEvent}
    /\ MaxFailures \in Nat \ {0} /\ FailWindow \in Nat
    /\ MaxQueued \in Nat \ {0}
    /\ MaxTokens \in Nat /\ MaxClock \in Nat
    /\ MaxNotify \in Nat /\ MaxProcess \in Nat

VARIABLES
    eventList,     \* subscriptions, [tok, sub, fails, first, born]
    ackToken,      \* AckToken
    clock,         \* CLOCK_MONOTONIC
    \* notify thread
    notifyEvent, nsem, npc, batch, targets, failed, delivered,
    \* process thread
    processEvent, psem, ppc, pbatch,
    stop,          \* how far stop() has come
    \* ghosts
    history,       \* numbers of all events notified so far
    nprocess,      \* events to process so far
    dropped,       \* events the full queue lost
    tried,         \* deliveries attempted, <<token, n>>
    streak, since, \* failed deliveries of a token since its last success
    unregistered   \* tokens their owners gave back

notifier == <<npc, batch, targets, failed, delivered>>
process == <<processEvent, psem, ppc, pbatch, nprocess>>
ghosts == <<tried, streak, since>>
vars == <<eventList, ackToken, clock, notifyEvent, nsem, notifier, process,
          stop, history, dropped, ghosts, unregistered>>

Wants(e, num) == e.sub.num \in {AnyEvent, num}
Full(queue) == Len(queue) >= MaxQueued

\* A full queue loses its oldest event.
Queued(queue, e) ==
    Append(IF Full(queue) THEN Tail(queue) ELSE queue, e)
-----------------------------------------------------------------------------
(* RPC thread                                                              *)

\* register_event_subscription(); a duplicate is refused and changes nothing.
Register(sub) ==
    /\ stop = "up"
    /\ ackToken < MaxTokens
    /\ \A e \in eventList : e.sub # sub
    /\ ackToken' = ackToken + 1
    /\ eventList' = eventList \cup
          {[tok |-> ackToken + 1, sub |-> sub, fails |-> 0, first |-> 0,
            born |-> Len(history)]}
    /\ UNCHANGED <<clock, notifyEvent, nsem, notifier, process, stop, history,
                   dropped, ghosts, unregistered>>

Unregister(tok) ==
    /\ stop = "up"
    /\ \E e \in eventList : e.tok = tok
    /\ eventList' = {e \in eventList : e.tok # tok}
    /\ unregistered' = unregistered \cup {tok}
    /\ UNCHANGED <<ackToken, clock, notifyEvent, nsem, notifier, process, stop,
                   history, dropped, ghosts>>

\* notify_event(): queue the event under the lock, then wake the thread.
\* The thread empties the queue on a wakeup, so its semaphore is a flag.
Bug_NotifyWakes == nsem \/ npc = "idle"
NotifyWakes == TRUE

NotifyEvent(num) ==
    /\ stop = "up"
    /\ Len(history) < MaxNotify
    /\ history' = Append(history, num)
    /\ notifyEvent' = Queued(notifyEvent, [num |-> num, n |-> Len(history) + 1])
    /\ dropped' = IF Full(notifyEvent) THEN dropped \cup {Head(notifyEvent).n}
                                       ELSE dropped
    /\ nsem' = NotifyWakes
    /\ UNCHANGED <<eventList, ackToken, clock, notifier, process, stop, ghosts,
                   unregistered>>

\* process_event(): the same for an event another service sent us.
ProcessEvent ==
    /\ stop = "up"
    /\ nprocess < MaxProcess
    /\ nprocess' = nprocess + 1
    /\ processEvent' = Queued(processEvent, nprocess + 1)
    /\ psem' = TRUE
    /\ UNCHANGED <<eventList, ackToken, clock, notifyEvent, nsem, notifier,
                   ppc, pbatch, stop, history, dropped, ghosts,
                   unregistered>>

Tick ==
    /\ clock < MaxClock
    /\ clock' = clock + 1
    /\ UNCHANGED <<eventList, ackToken, notifyEvent, nsem, notifier, process,
                   stop, history, dropped, ghosts, unregistered>>
-----------------------------------------------------------------------------
(* Notify thread                                                           *)

Stopping == stop \in {"notify", "down"}

NotifierWakes ==
    /\ npc = "idle"
    /\ nsem /\ ~Stopping
    /\ nsem' = FALSE
    /\ npc' = "swap"
    /\ UNCHANGED <<eventList, ackToken, clock, notifyEvent, batch, targets,
                   failed, delivered, process, stop, history, dropped, ghosts,
                   unregistered>>

NotifierSwaps ==
    /\ npc = "swap"
    /\ batch' = notifyEvent
    /\ notifyEvent' = <<>>
    /\ npc' = "next"
    /\ UNCHANGED <<eventList, ackToken, clock, nsem, targets, failed,
                   delivered, process, stop, history, dropped, ghosts,
                   unregistered>>

\* The subscribers of the next event are copied under the lock; at the end of
\* the batch the callback returns.
Bug_QueueAfterBatch == <<>>
QueueAfterBatch == notifyEvent

NotifierNext ==
    /\ npc = "next"
    /\ IF batch = <<>>
         THEN /\ npc' = "idle"
              /\ notifyEvent' = QueueAfterBatch
              /\ targets' = targets
         ELSE /\ targets' = {e \in eventList : Wants(e, Head(batch).num)}
              /\ npc' = "send"
              /\ notifyEvent' = notifyEvent
    /\ UNCHANGED <<eventList, ackToken, clock, nsem, batch, failed, delivered,
                   process, stop, history, dropped, ghosts, unregistered>>

\* The list is in the order of the tokens.
First(entries) == {t \in entries : \A u \in entries : t.tok <= u.tok}

\* send_event() to the next subscriber, delivered or not (connect or answer
\* timed out, or an error reply).
NotifierSends ==
    /\ npc = "send"
    /\ ~Stopping
    /\ \E t \in First(targets), ok \in BOOLEAN :
          /\ delivered' = IF ok THEN delivered \cup {t} ELSE delivered
          /\ failed' = IF ok THEN failed ELSE failed \cup {t}
          /\ targets' = targets \ {t}
          /\ tried' = tried \cup {<<t.tok, Head(batch).n>>}
          /\ streak' = [streak EXCEPT ![t.tok] = IF ok THEN 0 ELSE @ + 1]
          /\ since' = [since EXCEPT ![t.tok] =
                         IF ~ok /\ streak[t.tok] = 0 THEN clock ELSE @]
    /\ UNCHANGED <<eventList, ackToken, clock, notifyEvent, nsem, npc, batch,
                   process, stop, history, dropped, unregistered>>

\* A stop is noticed before the next delivery: the rest of the batch is lost.
NotifierGivesUp ==
    /\ npc = "send"
    /\ targets # {}
    /\ Stopping
    /\ npc' = "idle"
    /\ batch' = <<>> /\ targets' = {} /\ failed' = {} /\ delivered' = {}
    /\ UNCHANGED <<eventList, ackToken, clock, notifyEvent, nsem, process,
                   stop, history, dropped, ghosts, unregistered>>

\* update_failure_counts(), for the subscriptions that are still there.
Bug_Same(e, t) == e.sub = t.sub
Same(e, t) == e.tok = t.tok
FailsAfterDelivery(e) == 0
Updated(e) ==
    IF \E t \in delivered : Same(e, t)
      THEN [e EXCEPT !.fails = FailsAfterDelivery(e)]
      ELSE IF \E t \in failed : Same(e, t)
             THEN [e EXCEPT !.fails = @ + 1,
                            !.first = IF e.fails = 0 THEN clock ELSE @]
             ELSE e
Failing(e) ==
    /\ \E t \in failed : Same(e, t)
    /\ \A t \in delivered : ~Same(e, t)
    /\ Updated(e).fails >= MaxFailures
    /\ clock - Updated(e).first >= FailWindow

NotifierUpdates ==
    /\ npc = "send"
    /\ targets = {}
    /\ eventList' = {Updated(e) : e \in {e \in eventList : ~Failing(e)}}
    /\ batch' = Tail(batch)
    /\ failed' = {} /\ delivered' = {}
    /\ npc' = "next"
    /\ UNCHANGED <<ackToken, clock, notifyEvent, nsem, targets, process, stop,
                   history, dropped, ghosts, unregistered>>

NotifierExits ==
    /\ npc = "idle"
    /\ Stopping
    /\ npc' = "off"
    /\ UNCHANGED <<eventList, ackToken, clock, notifyEvent, nsem, batch,
                   targets, failed, delivered, process, stop, history, dropped,
                   ghosts, unregistered>>
-----------------------------------------------------------------------------
(* Process thread                                                          *)

ProcessorWakes ==
    /\ ppc = "idle"
    /\ psem /\ stop = "up"
    /\ psem' = FALSE
    /\ ppc' = "swap"
    /\ UNCHANGED <<eventList, ackToken, clock, notifyEvent, nsem, notifier,
                   processEvent, pbatch, nprocess, stop, history,
                   dropped, ghosts, unregistered>>

ProcessorSwaps ==
    /\ ppc = "swap"
    /\ pbatch' = processEvent
    /\ processEvent' = <<>>
    /\ ppc' = "deliver"
    /\ UNCHANGED <<eventList, ackToken, clock, notifyEvent, nsem, notifier,
                   psem, nprocess, stop, history, dropped, ghosts,
                   unregistered>>

\* notify_subscribers(): every receiver of this process, event by event.
ProcessorDelivers ==
    /\ ppc = "deliver"
    /\ IF pbatch = <<>>
         THEN ppc' = "idle" /\ pbatch' = pbatch
         ELSE ppc' = ppc /\ pbatch' = Tail(pbatch)
    /\ UNCHANGED <<eventList, ackToken, clock, notifyEvent, nsem, notifier,
                   processEvent, psem, nprocess, stop, history, dropped,
                   ghosts, unregistered>>

ProcessorExits ==
    /\ ppc = "idle"
    /\ stop # "up"
    /\ ppc' = "off"
    /\ UNCHANGED <<eventList, ackToken, clock, notifyEvent, nsem, notifier,
                   processEvent, psem, pbatch, nprocess, stop,
                   history, dropped, ghosts, unregistered>>

\* stop(): first the process thread, then the notify thread.
Stop ==
    /\ \/ stop = "up" /\ stop' = "process"
       \/ stop = "process" /\ ppc = "off" /\ stop' = "notify"
       \/ stop = "notify" /\ npc = "off" /\ stop' = "down"
    /\ UNCHANGED <<eventList, ackToken, clock, notifyEvent, nsem, notifier,
                   process, history, dropped, ghosts, unregistered>>
-----------------------------------------------------------------------------
Init ==
    /\ eventList = {} /\ ackToken = 0 /\ clock = 0
    /\ notifyEvent = <<>> /\ nsem = FALSE /\ npc = "idle" /\ batch = <<>>
    /\ targets = {} /\ failed = {} /\ delivered = {}
    /\ processEvent = <<>> /\ psem = FALSE /\ ppc = "idle" /\ pbatch = <<>>
    /\ stop = "up"
    /\ history = <<>> /\ nprocess = 0 /\ dropped = {} /\ tried = {}
    /\ streak = [t \in Tokens |-> 0] /\ since = [t \in Tokens |-> 0]
    /\ unregistered = {}

Notifier ==
    \/ NotifierWakes \/ NotifierSwaps \/ NotifierNext \/ NotifierSends
    \/ NotifierGivesUp \/ NotifierUpdates \/ NotifierExits

Processor ==
    ProcessorWakes \/ ProcessorSwaps \/ ProcessorDelivers \/ ProcessorExits

Next ==
    \/ \E sub \in Subs : Register(sub)
    \/ \E tok \in Tokens : Unregister(tok)
    \/ \E num \in Events : NotifyEvent(num)
    \/ ProcessEvent \/ Tick
    \/ Notifier \/ Processor \/ Stop

Spec == Init /\ [][Next]_vars

\* Both threads run: a delivery is bounded by its two timeouts.  Nobody has to
\* subscribe, send an event or stop the service.
FairSpec == Spec /\ WF_vars(Notifier) /\ WF_vars(Processor)
-----------------------------------------------------------------------------
(* Properties                                                              *)

Waiting == {ev.n : ev \in Range(notifyEvent) \cup Range(batch)}

\* An event that left the queue and was not lost to a full one was sent to
\* every subscriber of it that had subscribed before the event happened and
\* still is subscribed: a batch in work loses none of the events queued
\* meanwhile.
NothingMissed ==
    ~Stopping =>
      \A n \in DOMAIN history : \A e \in eventList :
         n \notin Waiting \cup dropped /\ Wants(e, history[n]) /\ e.born < n
           => <<e.tok, n>> \in tried

\* A subscription its owner did not give back is only removed after at least
\* MaxFailures failed deliveries of its own, without a success between them,
\* over at least the failure window, whatever was unregistered and registered
\* again while a delivery was on its way.
OnlyDeadAreRemoved ==
    [][\A e \in eventList :
         (\A f \in eventList' : f.tok # e.tok) /\ e.tok \notin unregistered'
           => streak[e.tok] >= MaxFailures /\ clock - since[e.tok] >= FailWindow
      ]_vars

\* Every queued event is taken out by its thread unless the service stops: no
\* wakeup is lost between the end of a batch and the next event.
EventsLeave ==
    /\ (notifyEvent # <<>>) ~> (notifyEvent = <<>> \/ stop # "up")
    /\ (processEvent # <<>>) ~> (processEvent = <<>> \/ stop # "up")
-----------------------------------------------------------------------------
(* The inductive invariant, proved in EvntMgrProofs                        *)

Entry == [tok : Tokens, sub : Subs, fails : Nat, first : Nat, born : Nat]
Event == [num : Events, n : Nat]

TypeOK ==
    /\ eventList \subseteq Entry /\ targets \subseteq Entry
    /\ failed \subseteq Entry /\ delivered \subseteq Entry
    /\ ackToken \in Nat /\ clock \in Nat
    /\ notifyEvent \in Seq(Event) /\ batch \in Seq(Event)
    /\ history \in Seq(Events)
    /\ npc \in {"idle", "swap", "next", "send", "off"}
    /\ stop \in {"up", "process", "notify", "down"}
    /\ streak \in [Tokens -> Nat] /\ since \in [Tokens -> Nat]

\* A token stands for one subscription, and one delivery of the event in work
\* is still to come, succeeded or failed for it.
TokenInv ==
    /\ \A e \in eventList \cup targets \cup failed \cup delivered :
          e.tok <= ackToken
    /\ \A e, f \in eventList : e.tok = f.tok => e = f
    /\ \A t \in targets : \A u \in failed \cup delivered : t.tok # u.tok
    /\ \A t, u \in targets : t.tok = u.tok => t = u
    /\ \A t \in failed : \A u \in delivered : t.tok # u.tok
    /\ npc # "send" => failed = {} /\ delivered = {}

\* Nothing is counted any more once a stop has cut a batch short.
Counting == ~Stopping \/ npc \notin {"idle", "off"}

Has(entries, e) == \E t \in entries : t.tok = e.tok

\* What update_failure_counts() keeps in a subscription agrees with the
\* deliveries made to it, those of the event in work not counted yet.
CountInv ==
    /\ \A t \in Tokens : t > ackToken => streak[t] = 0
    /\ \A t \in Tokens : since[t] <= clock
    /\ Counting => \A e \in eventList :
          /\ Has(delivered, e) => streak[e.tok] = 0
          /\ Has(failed, e) => streak[e.tok] = e.fails + 1
          /\ ~Has(delivered, e) /\ ~Has(failed, e) => streak[e.tok] = e.fails
          /\ ~Has(delivered, e) /\ e.fails > 0 => since[e.tok] <= e.first

\* The events in the queues are events of the history, and the queue that was
\* swapped out is empty when the next one is.
QueueInv ==
    /\ \A ev \in Range(notifyEvent) \cup Range(batch) :
          ev.n \in DOMAIN history /\ history[ev.n] = ev.num
    /\ npc \in {"idle", "swap", "off"} => batch = <<>>
    /\ npc = "send" => batch # <<>>
    /\ npc = "off" => Stopping

\* The subscribers of the event in work were tried or are still to come.
SendInv ==
    npc = "send" =>
      \A e \in eventList :
         Wants(e, Head(batch).num) /\ e.born < Head(batch).n
           => Has(targets, e) \/ <<e.tok, Head(batch).n>> \in tried

IInv == TypeOK /\ TokenInv /\ CountInv /\ QueueInv /\ SendInv /\ NothingMissed
=============================================================================
