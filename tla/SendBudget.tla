----------------------------- MODULE SendBudget -----------------------------
(***************************************************************************)
(* How long one connection may keep the response thread of ADNetServer     *)
(* waiting: send_with_deadline() bounds one response, over_send_wait_      *)
(* budget() bounds their sum.  NetServer leaves both outcomes open; here   *)
(* is the arithmetic.  Time is in ticks of the monotonic clock.            *)
(***************************************************************************)
EXTENDS Integers

CONSTANTS Timeout,   \* AD_NET_SERVER_SEND_TIMEOUT_MS
          Budget,    \* AD_NET_SERVER_SEND_WAIT_BUDGET_MS
          Window,    \* AD_NET_SERVER_SEND_WAIT_WINDOW_MS
          MaxClock   \* end of time (bound)

ASSUME BudgetAssumption ==
    /\ Timeout \in Nat \ {0} /\ Budget \in Nat /\ Window \in Nat
    /\ MaxClock \in Nat

VARIABLES clock,        \* now
          windowStart,  \* conn_pending.window_start_ms
          waitMs,       \* conn_pending.wait_ms
          dropped,      \* the connection was dropped
          cost          \* ghost: the wait accounted up to each moment

budgetVars == <<clock, windowStart, waitMs, dropped, cost>>

\* The window is over: the next one starts with this response.
Bug_Expired(now) == now - windowStart > Window \div 2
Expired(now) == now - windowStart > Window

\* A response the client took after ms ticks; no wait is no business of the
\* budget.
Respond(ms) ==
    LET now == clock + ms
        sum == (IF Expired(now) THEN 0 ELSE waitMs) + ms
    IN  /\ ~dropped
        /\ now <= MaxClock
        /\ clock' = now
        /\ IF ms = 0
             THEN UNCHANGED <<windowStart, waitMs, dropped, cost>>
             ELSE /\ windowStart' = IF Expired(now) THEN now ELSE windowStart
                  /\ waitMs' = sum
                  /\ dropped' = (sum > Budget)
                  /\ cost' = [t \in 0..MaxClock |->
                                 cost[t] + IF t < now THEN 0 ELSE ms]

\* The client takes nothing for the whole deadline: it is dropped.
Stall ==
    /\ ~dropped
    /\ clock + Timeout <= MaxClock
    /\ clock' = clock + Timeout
    /\ dropped' = TRUE
    /\ UNCHANGED <<windowStart, waitMs, cost>>

\* The response thread has nothing to send to this client.
Idle ==
    /\ ~dropped
    /\ clock < MaxClock
    /\ clock' = clock + 1
    /\ UNCHANGED <<windowStart, waitMs, dropped, cost>>

BudgetInit ==
    /\ clock = 0 /\ windowStart = 0 /\ waitMs = 0
    /\ dropped = FALSE
    /\ cost = [t \in 0..MaxClock |-> 0]

BudgetNext == Idle \/ Stall \/ \E ms \in 0..Timeout : Respond(ms)

BudgetSpec == BudgetInit /\ [][BudgetNext]_budgetVars
-----------------------------------------------------------------------------
\* What was accounted before a moment, and what the response thread waited
\* for this client in the last Window ticks.
Before(t) == IF t = 0 THEN 0 ELSE cost[t - 1]
Recent == cost[clock] - Before(IF clock <= Window THEN 0 ELSE clock - Window)

\* A client that is still connected never cost more than twice the budget in
\* any stretch as long as the window: a stretch meets two windows at most.
TwiceTheBudget == ~dropped => Recent <= 2 * Budget
-----------------------------------------------------------------------------
(* The inductive invariant behind it                                       *)

BudgetTypeOK ==
    /\ clock \in 0..MaxClock /\ windowStart \in 0..clock
    /\ waitMs \in Nat
    /\ dropped \in BOOLEAN
    /\ cost \in [0..MaxClock -> Nat]

\* The account so far only grows, and nothing is accounted ahead of time.
CostGrows ==
    /\ \A s, t \in 0..MaxClock : s <= t => cost[s] <= cost[t]
    /\ \A t \in clock..MaxClock : cost[t] = cost[clock]

\* wait_ms is what the window has cost so far, and what it replaced ended
\* within the budget however late one starts to count.
WindowInv ==
    /\ cost[clock] = Before(windowStart) + waitMs
    /\ ~dropped => waitMs <= Budget
    /\ \A t \in 0..windowStart :
          windowStart <= t + Window => Before(windowStart) - Before(t) <= Budget

BudgetInv == BudgetTypeOK /\ CostGrows /\ WindowInv
=============================================================================
