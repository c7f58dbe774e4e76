------------------------------ MODULE CourierApp ------------------------------
(***************************************************************************)
(* The delivery app of each courier.  A call that fails for want of a      *)
(* connection is appended to a list in localStorage; a flush takes a copy  *)
(* of the list, sends it in order, one call after the other, and in the    *)
(* end stores what was not accepted in place of the list.  Flushes start   *)
(* on sign-in and with a button, and several may run at once.  Each call   *)
(* is one step on the server: the races between the handlers themselves    *)
(* are in OrderLifecycle, whose rules (OrderPolicy) are used here too.     *)
(***************************************************************************)
EXTENDS OrderPolicy, Naturals, FiniteSets, SequencesExt

CONSTANTS Orders,    \* delivery orders, ready when we start
          Flushes,   \* flushes of one device that may run at once
          Unpaid,    \* the orders whose money is taken at the door
          MaxQueued, \* bound: actions that are ever put on a list
          MaxFaults  \* bound: calls or answers lost, page loads

ASSUME AppAssumption == Unpaid \subseteq Orders /\ MaxQueued \in Nat /\ MaxFaults \in Nat

VARIABLES
  order,    \* the rows
  money,    \* per order, the collections booked as payment events
  transit,  \* per courier, the orders the screen lists as under way
  call,     \* per courier and order, the calls that fail for want of a connection
  pending,  \* per courier, delivery-pending-actions-v1
  flush,    \* per courier and flush, what it has still to send and what it keeps
  queued,   \* the actions put on a list so far
  accepted, \* history: those of them the server accepted
  raced,    \* history: the couriers whose list grew during a flush
  faults    \* faults so far

vars == <<order, money, transit, call, pending, flush, queued, accepted, raced, faults>>

Kinds == {"assign", "delivered", "collect_cash", "collect_card", "delivery_attempt", "handover"}

\* An action on a list is named by its place among all that were put on one.
Actions == [id : 1..MaxQueued, kind : Kinds, order : Orders]

AtRest == [running |-> FALSE, todo |-> <<>>, left |-> <<>>]

TypeOK ==
  /\ order \in [Orders -> Row]
  /\ money \in [Orders -> 0..1 + MaxQueued]
  /\ transit \in [Couriers -> SUBSET Orders]
  /\ call \in [Couriers -> [Orders -> SUBSET Kinds]]
  /\ \A c \in Couriers : \A f \in Flushes :
       /\ pending[c] \in Seq(Actions)
       /\ flush[c][f].running \in BOOLEAN
       /\ flush[c][f].todo \in Seq(Actions) /\ flush[c][f].left \in Seq(Actions)
  /\ queued \subseteq 1..MaxQueued /\ accepted \subseteq queued
  /\ raced \subseteq Couriers
  /\ faults \in 0..MaxFaults

Ready(o) ==
  [status |-> "ready", pay |-> IF o \in Unpaid THEN "pending" ELSE "completed",
   method |-> IF o \in Unpaid THEN "cash" ELSE "payhere", txn |-> "OTHER",
   ftype |-> "delivery", source |-> "client", courier |-> NoCourier, gated |-> FALSE]

Init ==
  /\ order = [o \in Orders |-> Ready(o)]
  /\ money = [o \in Orders |-> 0]
  /\ transit = [c \in Couriers |-> {}]
  /\ call = [c \in Couriers |-> [o \in Orders |-> {}]]
  /\ pending = [c \in Couriers |-> <<>>]
  /\ flush = [c \in Couriers |-> [f \in Flushes |-> AtRest]]
  /\ queued = {} /\ accepted = {} /\ raced = {} /\ faults = 0

Fault == faults < MaxFaults /\ faults' = faults + 1

----------------------------------------------------------------------------
(* The calls, as the server answers them.                                  *)

Collects(kind) == kind \in {"collect_cash", "collect_card"}

\* assignCourier, updateOrderStatus, markPaymentReceived, recordDeliveryAttempt
\* and handoverDelivery, for a courier.
Accepts(r, kind, c) ==
  CASE kind = "assign"    -> r.status = "ready" /\ canTransition(r, "in_transit", "COURIER")
    [] kind = "delivered" -> StatusChangeAccepted(r, "delivered", c)
    [] Collects(kind)     -> /\ r.courier \in {NoCourier, c}
                             /\ \/ r.pay = "completed" \/ r.status = "paid"
                                \/ r.status \in {"placed", "ready", "in_transit", "delivered"}
    [] OTHER              -> r.status = "in_transit" /\ r.courier = c

RowAfter(r, kind, c) ==
  CASE kind = "assign"    -> [r EXCEPT !.status = "in_transit", !.courier = c]
    [] kind = "delivered" -> [r EXCEPT !.status = "delivered"]
    [] Collects(kind) /\ r.pay # "completed" ->
         [r EXCEPT !.pay = "completed", !.method = IF kind = "collect_cash" THEN "cash" ELSE "card"]
    [] kind = "handover"  -> [r EXCEPT !.status = "ready", !.courier = NoCourier]
    [] OTHER              -> r

\* Bug: a collection that comes a second time is booked a second time.
Books_Again(r, kind) == Collects(kind)

\* A collection of a completed payment is accepted and books nothing.
Books(r, kind) == Collects(kind) /\ r.pay # "completed"

Serve(c, o, kind) ==
  /\ order' = [order EXCEPT ![o] = RowAfter(@, kind, c)]
  /\ money' = [money EXCEPT ![o] = IF Books(order[o], kind) THEN @ + 1 ELSE @]

Unserved == UNCHANGED <<order, money>>

----------------------------------------------------------------------------
(* The screen.                                                             *)

\* fetchMyTransitOrders.  The list of ready orders is left out: an order was on
\* it once, and a list may be as old as you like.
Fetch(c) ==
  /\ transit' = [transit EXCEPT ![c] =
       {o \in Orders : order[o].status = "in_transit" /\ order[o].courier = c}]
  /\ transit' # transit
  /\ UNCHANGED <<order, money, call, pending, flush, queued, accepted, raced, faults>>

\* pendingActionByOrder: these hold each other off, the other two hold nothing.
Holding == {"assign", "delivered", "collect_cash", "collect_card"}

Offered(c, o, kind) ==
  /\ kind = "assign" \/ o \in transit[c]
  /\ kind \in Holding => call[c][o] \cap Holding = {}

\* A button is pressed and the server answers; an order delivered leaves the list.
Press(c, o, kind) ==
  /\ Offered(c, o, kind)
  /\ \/ /\ Accepts(order[o], kind, c)
        /\ Serve(c, o, kind)
        /\ transit' = IF kind = "delivered" THEN [transit EXCEPT ![c] = @ \ {o}] ELSE transit
     \/ ~Accepts(order[o], kind, c) /\ Unserved /\ UNCHANGED transit
  /\ UNCHANGED <<call, pending, flush, queued, accepted, raced, faults>>

\* The call does not get through, or its answer does not.
PressOffline(c, o, kind) ==
  /\ Fault /\ Offered(c, o, kind) /\ kind \notin call[c][o]
  /\ Unserved \/ (Accepts(order[o], kind, c) /\ Serve(c, o, kind))
  /\ call' = [call EXCEPT ![c][o] = @ \cup {kind}]
  /\ UNCHANGED <<transit, pending, flush, queued, accepted, raced>>

NextId == Cardinality(queued) + 1
Flushing(c) == \E f \in Flushes : flush[c][f].running

\* The catch blocks.  That of collectCash uses a constant of the try block, so
\* it fails itself and nothing is queued.
Queues(kind) == kind # "collect_cash"

NoticeOffline(c, o, kind) ==
  /\ kind \in call[c][o]
  /\ IF Queues(kind)
       THEN /\ NextId <= MaxQueued
            /\ pending' = [pending EXCEPT ![c] =
                 Append(@, [id |-> NextId, kind |-> kind, order |-> o])]
            /\ queued' = queued \cup {NextId}
            /\ raced' = IF Flushing(c) THEN raced \cup {c} ELSE raced
       ELSE UNCHANGED <<pending, queued, raced>>
  /\ call' = [call EXCEPT ![c][o] = @ \ {kind}]
  /\ UNCHANGED <<order, money, transit, flush, accepted, faults>>

----------------------------------------------------------------------------
(* flushPendingActions.                                                    *)

StartFlush(c, f) ==
  /\ ~flush[c][f].running /\ pending[c] # <<>>
  /\ flush' = [flush EXCEPT ![c][f] = [running |-> TRUE, todo |-> pending[c], left |-> <<>>]]
  /\ UNCHANGED <<order, money, transit, call, pending, queued, accepted, raced, faults>>

\* Bug: an action the server refuses is not kept for the next flush.
KeptAfter_Offline(result) == result = "offline"

\* Whatever the error was, the action is kept.
KeptAfter(result) == result # "ok"

SendNext(c, f) ==
  LET s == flush[c][f]
      a == Head(s.todo)
  IN
  /\ s.todo # <<>>
  /\ \E result \in {"ok", "refused", "offline"} :
       /\ flush' = [flush EXCEPT ![c][f] =
            [running |-> s.running, todo |-> Tail(s.todo),
             left |-> IF KeptAfter(result) THEN Append(s.left, a) ELSE s.left]]
       /\ \/ /\ result = "ok" /\ Accepts(order[a.order], a.kind, c)
             /\ Serve(c, a.order, a.kind) /\ accepted' = accepted \cup {a.id}
             /\ UNCHANGED faults
          \/ /\ result = "refused" /\ ~Accepts(order[a.order], a.kind, c)
             /\ Unserved /\ UNCHANGED <<accepted, faults>>
          \/ /\ result = "offline" /\ Fault
             /\ Unserved /\ UNCHANGED accepted
          \/ /\ result = "offline" /\ Fault /\ Accepts(order[a.order], a.kind, c)
             /\ Serve(c, a.order, a.kind) /\ accepted' = accepted \cup {a.id}
  /\ UNCHANGED <<transit, call, pending, queued, raced>>

\* What was queued meanwhile is not in "left".
EndFlush(c, f) ==
  /\ flush[c][f].running /\ flush[c][f].todo = <<>>
  /\ pending' = [pending EXCEPT ![c] = flush[c][f].left]
  /\ flush' = [flush EXCEPT ![c][f] = AtRest]
  /\ UNCHANGED <<order, money, transit, call, queued, accepted, raced, faults>>

\* The page is loaded again: the list survives, calls and flushes do not.
Reload(c) ==
  /\ Fault
  /\ Flushing(c) \/ \E o \in Orders : call[c][o] # {}
  /\ flush' = [flush EXCEPT ![c] = [f \in Flushes |-> AtRest]]
  /\ call' = [call EXCEPT ![c] = [o \in Orders |-> {}]]
  /\ transit' = [transit EXCEPT ![c] = {}]
  /\ UNCHANGED <<order, money, pending, queued, accepted, raced>>

----------------------------------------------------------------------------
(* The office cancels a delivery or gives it to another courier.           *)

Office(o) ==
  /\ \/ /\ StatusChangeAccepted(order[o], "cancelled", "ADMIN")
        /\ order' = [order EXCEPT ![o].status = "cancelled"]
     \/ \E c \in Couriers :
        /\ order[o].status = "in_transit" /\ order[o].courier # c
        /\ order' = [order EXCEPT ![o].courier = c]
  /\ UNCHANGED <<money, transit, call, pending, flush, queued, accepted, raced, faults>>

----------------------------------------------------------------------------
App(c) ==
  \/ Fetch(c) \/ Reload(c)
  \/ \E o \in Orders, kind \in Kinds :
       Press(c, o, kind) \/ PressOffline(c, o, kind) \/ NoticeOffline(c, o, kind)
  \/ \E f \in Flushes : StartFlush(c, f) \/ SendNext(c, f) \/ EndFlush(c, f)

Next == (\E c \in Couriers : App(c)) \/ \E o \in Orders : Office(o)

Spec == Init /\ [][Next]_vars

----------------------------------------------------------------------------
(* Properties.                                                             *)

\* The money of an order is booked once, however often a collection is sent
\* again after a lost answer, by two flushes or in another order than it was
\* made, and to whichever courier the order has gone meanwhile.
BookedOnce == \A o \in Orders : money[o] <= 1

IdsOf(c) == {a.id : a \in ToSet(pending[c])}

Kept == UNION {IdsOf(c) : c \in Couriers}

\* What was queued stays on a list until the server accepts it, through page
\* loads and overlapping flushes, on devices where nothing was queued while a
\* flush was under way.
QueuedIsKept == raced = {} => queued \subseteq accepted \cup Kept
===============================================================================
