--------------------------- MODULE OrderLifecycle ---------------------------
(***************************************************************************)
(* The order rows of the database under every handler of the API and the   *)
(* worker that moves them.  A handler reads the row, checks its guards on  *)
(* what it read, awaits, and then writes unconditionally in a transaction  *)
(* that also appends the outbox rows.  So each one is a Begin action, that *)
(* leaves a request holding the decision taken from the row as it was, and *)
(* a Commit action on the row as it is by then.  Slots are the requests    *)
(* and jobs that can be under way at once; with one slot the handlers run  *)
(* one after another.                                                      *)
(***************************************************************************)
EXTENDS OrderPolicy, Naturals

CONSTANTS Orders,      \* order ids
          Slots,       \* requests and jobs in flight at once
          Placements,  \* the rows the orders of a run start as
          MaxEdits     \* bound: line replacements per order

ASSUME PlacementAssumption == Placements \subseteq Placement
ASSUME EditAssumption == MaxEdits \in Nat

VARIABLES
  order,     \* the Order table
  outbox,    \* per order, the idempotency keys present in the OutboxEvent table
  events,    \* per order, the PaymentEvent rows that record money moving
  lines,     \* per order, how often its line items were replaced
  jobs,      \* orders with a paid job (payment.webhook.paid) on its queue
  requests   \* per slot, what the handler there has decided to write

vars == <<order, outbox, events, lines, jobs, requests>>

\* An idempotency key: its event type, and what follows the order id in it.
Key == {<<"order.status_changed", to>> : to \in OrderStatus}
  \cup {<<"order.created", "">>,
        <<"order.payment_collected", "cash">>, <<"order.payment_collected", "card">>,
        <<"notification.order_paid", "">>, <<"notification.order_ready", "">>,
        <<"notification.order_in_transit", "">>,
        <<"print.cashier_receipt", "">>, <<"print.kitchen_ticket", "">>,
        <<"print.order_ready_note", "">>,
        <<"inventory.order_in_kitchen", "in_kitchen">>,
        <<"inventory.order_reversal", "voided">>, <<"inventory.order_reversal", "refunded">>}

\* The PaymentEvent rows that prove money was taken; "paid_at_placement" is
\* payment_intent_created with paymentStatus completed in its metadata.
Evidence == {"paid_at_placement", "cash_collected", "card_collected", "online_webhook_paid"}
PaymentEvent == Evidence \cup {"order_refunded", "online_checkout_aborted"}

Op == {"status", "collect", "assign", "announce", "handover", "edit", "support",
       "abort", "fail", "job_read", "job_status"}

\* What a handler is about to write: the status ("keep" leaves it out of the
\* update), the collection method, the courier, an ADMIN's line override.
Request ==
  { q \in [op : Op, order : Orders, to : OrderStatus \cup {"keep"},
           method : {"none", "cash", "card"}, courier : Couriers \cup {NoCourier},
           override : BOOLEAN] :
      /\ q.op \in {"status", "job_status"} => q.to # "keep"
      /\ q.op = "collect" => q.method # "none" /\ q.to \in {"keep", "paid", "delivered"} }
Idle == [op |-> "idle"]

TypeOK ==
  /\ order \in [Orders -> Row]
  /\ outbox \in [Orders -> SUBSET Key]
  /\ events \in [Orders -> SUBSET PaymentEvent]
  /\ lines \in [Orders -> 0..MaxEdits]
  /\ jobs \subseteq Orders
  /\ requests \in [Slots -> Request \cup {Idle}]

----------------------------------------------------------------------------
(* createOrder commits the row, its first payment events and the           *)
(* order.created outbox row in one transaction: the orders start there.    *)

PlacementEvents(r) ==
  IF r.pay # "completed" THEN {}
  ELSE {"paid_at_placement"} \cup (IF r.method = "cash" THEN {"cash_collected"} ELSE {})

Init ==
  /\ order \in [Orders -> Placements]
  /\ outbox = [o \in Orders |-> {<<"order.created", "">>}]
  /\ events = [o \in Orders |-> PlacementEvents(order[o])]
  /\ lines = [o \in Orders |-> 0]
  /\ jobs = {}
  /\ requests = [s \in Slots |-> Idle]

Ask(op, o) == [op |-> op, order |-> o, to |-> "keep", method |-> "none",
               courier |-> NoCourier, override |-> FALSE]

\* A handler has passed its guards and goes on to write q.
Begin(s, q) ==
  /\ requests[s] = Idle
  /\ requests' = [requests EXCEPT ![s] = q]
  /\ UNCHANGED <<order, outbox, events, lines>>

\* Bug: the outbox row is upserted, so a repeated key no longer fails.
Commit_Upsert(s, r, keys, evs) ==
  LET o == requests[s].order IN
  /\ order'  = [order  EXCEPT ![o] = r]
  /\ outbox' = [outbox EXCEPT ![o] = @ \cup keys]
  /\ events' = [events EXCEPT ![o] = @ \cup evs]

\* The handler in slot s writes row r and appends keys; the unique index on
\* the idempotency key lets the transaction commit only if all are new.
Commit(s, r, keys, evs) ==
  LET o == requests[s].order IN
  /\ keys \cap outbox[o] = {}
  /\ order'  = [order  EXCEPT ![o] = r]
  /\ outbox' = [outbox EXCEPT ![o] = @ \cup keys]
  /\ events' = [events EXCEPT ![o] = @ \cup evs]

\* A key is there already: the transaction rolls back, the caller gets an error.
RollBack(s, keys) ==
  /\ keys \cap outbox[requests[s].order] # {}
  /\ UNCHANGED <<order, outbox, events>>

Finish(s) == requests' = [requests EXCEPT ![s] = Idle]

----------------------------------------------------------------------------
(* updateOrderStatus: PATCH /orders/:id/status, and the worker's job.      *)

StatusKeys(to) ==
  {<<"order.status_changed", to>>}
  \cup (CASE to = "paid"       -> {<<"notification.order_paid", "">>, <<"print.cashier_receipt", "">>}
          [] to = "ready"      -> {<<"notification.order_ready", "">>, <<"print.order_ready_note", "">>}
          [] to = "in_transit" -> {<<"notification.order_in_transit", "">>}
          [] to = "in_kitchen" -> {<<"print.kitchen_ticket", "">>,
                                   <<"inventory.order_in_kitchen", "in_kitchen">>}
          [] to \in {"voided", "refunded"} -> {<<"inventory.order_reversal", to>>}
          [] OTHER -> {})

StatusBegin(s, o, a, to, c) ==
  /\ StatusChangeAccepted(order[o], to, a)
  /\ Begin(s, [Ask("status", o) EXCEPT !.to = to, !.courier = c])
  /\ UNCHANGED jobs

WithStatus(r, to, c) ==
  [r EXCEPT !.status  = to,
            !.pay     = IF to = "refunded" THEN "refunded" ELSE @,
            !.courier = IF c = NoCourier THEN @ ELSE c]

StatusCommit(s) ==
  LET q == requests[s] IN
  /\ q.op \in {"status", "job_status"}
  /\ \/ Commit(s, WithStatus(order[q.order], q.to, q.courier), StatusKeys(q.to),
               IF q.to = "refunded" THEN {"order_refunded"} ELSE {})
     \/ RollBack(s, StatusKeys(q.to))
  /\ jobs' = IF q.op = "job_status" THEN jobs \ {q.order} ELSE jobs
  /\ Finish(s)
  /\ UNCHANGED lines

----------------------------------------------------------------------------
(* markPaymentReceived: cash or card taken by hand.                        *)

\* Bug: a completed payment can be collected again.
CollectionAccepted_Again(r, a) ==
  a # "KITCHEN" /\ r.status \in {"placed", "ready", "in_transit", "delivered"}

CollectionAccepted(r, a) ==
  /\ a # "KITCHEN"
  /\ a \in Couriers => r.ftype = "delivery" /\ r.courier \in {NoCourier, a}
  /\ r.pay # "completed"
  /\ r.status \in {"placed", "ready", "in_transit", "delivered"}

\* Bug: every counter order closes when it is paid, cooked or not.
CollectionStatus_CloseAll(r) ==
  IF r.ftype # "delivery" THEN "delivered" ELSE IF r.status = "placed" THEN "paid" ELSE "keep"

\* The status the collection writes, decided on the row that was read.
CollectionStatus(r) ==
  CASE r.status = "ready" /\ r.ftype # "delivery" -> "delivered"
    [] r.status = "placed" -> "paid"
    [] OTHER -> "keep"

CollectBegin(s, o, a, m) ==
  /\ CollectionAccepted(order[o], a)
  /\ Begin(s, [Ask("collect", o) EXCEPT !.to = CollectionStatus(order[o]), !.method = m])
  /\ UNCHANGED jobs

\* Bug: the status column is always part of the update.
WithPayment_Keep(r, to, m) ==
  [r EXCEPT !.method = m, !.pay = "completed", !.status = to]

WithPayment(r, to, m) ==
  [r EXCEPT !.method = m, !.pay = "completed",
            !.status = IF to = "keep" THEN @ ELSE to]

CollectKeys(r, m) ==
  {<<"order.payment_collected", m>>}
  \cup (IF r.status = "paid"
        THEN {<<"notification.order_paid", "">>, <<"print.cashier_receipt", "">>} ELSE {})

CollectCommit(s) ==
  LET q == requests[s]
      saved == WithPayment(order[q.order], q.to, q.method) IN
  /\ q.op = "collect"
  /\ \/ Commit(s, saved, CollectKeys(saved, q.method),
               {IF q.method = "cash" THEN "cash_collected" ELSE "card_collected"})
     \/ RollBack(s, CollectKeys(saved, q.method))
  /\ Finish(s)
  /\ UNCHANGED <<lines, jobs>>

----------------------------------------------------------------------------
(* assignCourier: the row is updated on its own, the outbox row after it.  *)

\* Bug: a courier may be sent for an order still in the kitchen.
AssignBegin_Early(s, o, a, c) ==
  /\ a # "KITCHEN"
  /\ order[o].status \in {"in_kitchen", "ready"} /\ order[o].ftype = "delivery"
  /\ Begin(s, [Ask("assign", o) EXCEPT !.courier = c])
  /\ UNCHANGED jobs

AssignBegin(s, o, a, c) ==
  /\ a # "KITCHEN"
  /\ order[o].status = "ready" /\ order[o].ftype = "delivery"
  /\ Begin(s, [Ask("assign", o) EXCEPT !.courier = c])
  /\ UNCHANGED jobs

AssignWrite(s) ==
  LET q == requests[s] IN
  /\ q.op = "assign"
  /\ order' = [order EXCEPT ![q.order] = WithStatus(@, "in_transit", q.courier)]
  /\ requests' = [requests EXCEPT ![s].op = "announce"]
  /\ UNCHANGED <<outbox, events, lines, jobs>>

\* A duplicate key fails the request although the order has moved.
AssignAnnounce(s) ==
  LET q == requests[s]
      keys == {<<"notification.order_in_transit", "">>} IN
  /\ q.op = "announce"
  /\ Commit(s, order[q.order], keys, {}) \/ RollBack(s, keys)
  /\ Finish(s)
  /\ UNCHANGED <<lines, jobs>>

(* handoverDelivery: reassign to next, or with no next release to "ready". *)

HandoverBegin(s, o, a, next) ==
  LET r == order[o] IN
  /\ r.ftype = "delivery" /\ r.status = "in_transit"
  /\ a \in {"ADMIN", "CASHIER"} \/ (a \in Couriers /\ r.courier = a /\ next = NoCourier)
  /\ Begin(s, [Ask("handover", o) EXCEPT !.courier = next])
  /\ UNCHANGED jobs

HandoverRow(r, next) ==
  IF next = NoCourier THEN [r EXCEPT !.status = "ready", !.courier = NoCourier]
                      ELSE [r EXCEPT !.courier = next]

HandoverCommit(s) ==
  LET q == requests[s] IN
  /\ q.op = "handover"
  /\ Commit(s, HandoverRow(order[q.order], q.courier), {}, {})
  /\ Finish(s)
  /\ UNCHANGED <<lines, jobs>>

----------------------------------------------------------------------------
(* replaceOrderLineItems and updateOrderSupportDetails.                    *)

EditBegin(s, o, a, hasReason) ==
  /\ a \in {"ADMIN", "CASHIER"} /\ lines[o] < MaxEdits
  /\ validateLineItemsReplacementSave(order[o], a, hasReason) = "allowed"
  /\ Begin(s, [Ask("edit", o) EXCEPT !.override = (a = "ADMIN" /\ hasReason)])
  /\ UNCHANGED jobs

EditCommit(s) ==
  LET q == requests[s] IN
  /\ q.op = "edit"
  /\ lines[q.order] < MaxEdits
  /\ lines' = [lines EXCEPT ![q.order] = @ + 1]
  /\ Finish(s)
  /\ UNCHANGED <<order, outbox, events, jobs>>

SupportBegin(s, o, a) ==
  /\ a \in {"ADMIN", "CASHIER"}
  /\ evaluateSupportDetailsEditPolicy(order[o], a) = "allowed"
  /\ Begin(s, Ask("support", o))
  /\ UNCHANGED jobs

\* g: whether the new ready time is still more than the lead away.
SupportCommit(s, g) ==
  LET q == requests[s] IN
  /\ q.op = "support"
  /\ Commit(s, [order[q.order] EXCEPT !.gated = g], {}, {})
  /\ Finish(s)
  /\ UNCHANGED <<lines, jobs>>

----------------------------------------------------------------------------
(* The online checkout: abortCheckout, PayHere's webhooks, the paid job.   *)

AbortBegin(s, o) ==
  /\ order[o].method = "payhere" /\ order[o].pay # "completed" /\ order[o].status = "placed"
  /\ Begin(s, Ask("abort", o))
  /\ UNCHANGED jobs

\* Bug: the void is written whatever became of the order.
AbortApplies_Always(r) == TRUE

\* The one conditional write: updateMany WHERE placed AND not completed.
AbortApplies(r) == r.status = "placed" /\ r.pay # "completed"

AbortCommit(s) ==
  LET q == requests[s]
      r == order[q.order] IN
  /\ q.op = "abort"
  /\ \/ /\ AbortApplies(r)
        /\ Commit(s, [r EXCEPT !.status = "voided", !.pay = "failed"], {},
                  {"online_checkout_aborted"})
     \/ ~AbortApplies(r) /\ UNCHANGED <<order, outbox, events>>
  /\ Finish(s)
  /\ UNCHANGED <<lines, jobs>>

\* A success webhook records the payment and queues the job, unless the
\* process dies in between; it never touches the row, so its read and its
\* writes are one step here.  Bound: one job of an order on the queue at a time.
WebhookPaid(o) ==
  /\ order[o].method = "payhere" /\ o \notin jobs
  /\ events' = [events EXCEPT ![o] = @ \cup {"online_webhook_paid"}]
  /\ jobs' = jobs \cup {o} \/ jobs' = jobs
  /\ UNCHANGED <<order, outbox, lines, requests>>

\* Any other status code, of this payment or of an earlier attempt.
WebhookFailedBegin(s, o) ==
  /\ order[o].method = "payhere"
  /\ Begin(s, Ask("fail", o))
  /\ UNCHANGED jobs

WebhookFailedCommit(s) ==
  LET q == requests[s] IN
  /\ q.op = "fail"
  /\ Commit(s, [order[q.order] EXCEPT !.pay = "failed"], {}, {})
  /\ Finish(s)
  /\ UNCHANGED <<lines, jobs>>

\* handleOrderPaid completes the payment first, on whatever row there is ...
JobBegin(s, o) ==
  /\ o \in jobs /\ requests[s] = Idle
  /\ \A t \in Slots : requests[t] # Idle =>
       ~(requests[t].op \in {"job_read", "job_status"} /\ requests[t].order = o)
  /\ order' = [order EXCEPT ![o] = [@ EXCEPT !.pay = "completed", !.txn = "OTHER"]]
  /\ requests' = [requests EXCEPT ![s] = Ask("job_read", o)]
  /\ UNCHANGED <<outbox, events, lines, jobs>>

\* ... then calls updateOrderStatus(paid) as ADMIN; a refusal is swallowed.
JobRead(s) ==
  LET q == requests[s]
      accepted == StatusChangeAccepted(order[q.order], "paid", "ADMIN") IN
  /\ q.op = "job_read"
  /\ requests' = [requests EXCEPT ![s] =
                    IF accepted THEN [Ask("job_status", q.order) EXCEPT !.to = "paid"] ELSE Idle]
  /\ jobs' = IF accepted THEN jobs ELSE jobs \ {q.order}
  /\ UNCHANGED <<order, outbox, events, lines>>

\* Any other error in the job is logged and swallowed: the queue sees a success.
JobFails(s) ==
  /\ requests[s].op \in {"job_read", "job_status"}
  /\ jobs' = jobs \ {requests[s].order}
  /\ Finish(s)
  /\ UNCHANGED <<order, outbox, events, lines>>

----------------------------------------------------------------------------
(* The surroundings.                                                       *)

\* The kitchen release time of a scheduled order comes.
ReleaseTimeComes(o) ==
  /\ order[o].gated
  /\ order' = [order EXCEPT ![o] = [@ EXCEPT !.gated = FALSE]]
  /\ UNCHANGED <<outbox, events, lines, jobs, requests>>

\* The process dies, or the connection is lost, before the next write; the
\* job of a worker stays on its queue and is run again.
Crash(s) ==
  /\ requests[s] # Idle
  /\ Finish(s)
  /\ UNCHANGED <<order, outbox, events, lines, jobs>>

HandlerBegins(s, o) ==
  \/ \E a \in Actors, to \in OrderStatus, c \in Couriers \cup {NoCourier} :
       StatusBegin(s, o, a, to, c)
  \/ \E a \in Actors, m \in {"cash", "card"} : CollectBegin(s, o, a, m)
  \/ \E a \in Actors, c \in Couriers : AssignBegin(s, o, a, c)
  \/ \E a \in Actors, c \in Couriers \cup {NoCourier} : HandoverBegin(s, o, a, c)
  \/ \E a \in Actors, hasReason \in BOOLEAN : EditBegin(s, o, a, hasReason)
  \/ \E a \in Actors : SupportBegin(s, o, a)
  \/ AbortBegin(s, o)
  \/ WebhookFailedBegin(s, o)
  \/ JobBegin(s, o)

HandlerWrites(s) ==
  \/ StatusCommit(s) \/ CollectCommit(s) \/ AssignWrite(s) \/ AssignAnnounce(s)
  \/ HandoverCommit(s) \/ EditCommit(s) \/ (\E g \in BOOLEAN : SupportCommit(s, g))
  \/ AbortCommit(s) \/ WebhookFailedCommit(s) \/ JobRead(s) \/ JobFails(s)

Next ==
  \/ \E s \in Slots, o \in Orders : HandlerBegins(s, o)
  \/ \E s \in Slots : HandlerWrites(s) \/ Crash(s)
  \/ \E o \in Orders : WebhookPaid(o) \/ ReleaseTimeComes(o)

Spec == Init /\ [][Next]_vars

----------------------------------------------------------------------------
(* What holds whatever the handlers interleave.                            *)

KitchenKeys == {<<"order.status_changed", "in_kitchen">>, <<"print.kitchen_ticket", "">>,
                <<"inventory.order_in_kitchen", "in_kitchen">>}
Prepared == {"in_kitchen", "ready", "in_transit", "delivered"}

Ticketed(o)   == KitchenKeys \subseteq outbox[o]
MoneyTaken(o) == events[o] \cap Evidence # {}

\* An order that is in the kitchen or beyond went there through the one
\* transaction that also queues its ticket and its stock deduction: no race,
\* handover or counter collection reaches "ready" or "delivered" around it.
PreparedImpliesTicketed ==
  \A o \in Orders : order[o].status \in Prepared => Ticketed(o)

\* An order shown as paid or delivered, or whose payment reads completed, has
\* a payment event that says when the money was taken
\* (docs/ops/actor-flow-status.md:153).
SettledHasEvidence ==
  \A o \in Orders :
    order[o].status \in {"paid", "delivered"} \/ order[o].pay = "completed"
      => MoneyTaken(o)

\* A move past the kitchen rests on a ticket that was issued, one to paid or
\* delivered on money that was taken.
Justified(q) ==
  /\ q.op \in {"assign", "handover"} \/ q.to \in Prepared \ {"in_kitchen"} => Ticketed(q.order)
  /\ q.op \in {"status", "job_status"} /\ q.to \in {"paid", "delivered"} => MoneyTaken(q.order)

\* What a handler decided on the row it read stays justified until it writes,
\* whatever the others did meanwhile, and a queued paid job rests on the
\* webhook it came from.
RequestsJustified ==
  /\ \A s \in Slots : requests[s] # Idle => Justified(requests[s])
  /\ \A o \in jobs : "online_webhook_paid" \in events[o]

\* No order enters the kitchen a second time, not even after a lost update
\* took it back to an earlier status: its ticket and its stock deduction are
\* never issued twice.
KitchenEntryOnce ==
  [][\A o \in Orders :
       order[o].status # "in_kitchen" /\ order'[o].status = "in_kitchen"
         => KitchenKeys \cap outbox[o] = {}]_vars

\* Aborting the online checkout takes effect on an unpaid, untouched order
\* only, however long the request waited after its own check.
AbortSparesPaid ==
  [][\A o \in Orders :
       "online_checkout_aborted" \in events'[o] \ events[o]
         => order[o].status = "placed" /\ order[o].pay # "completed"]_vars

----------------------------------------------------------------------------
(* What holds while requests are served one at a time, and what the docs   *)
(* and comments of the repository promise without that condition.          *)

\* "Terminal states should not transition onward" (actor-flow-status.md:155).
TerminalIsFinal ==
  [][\A o \in Orders : order[o].status \in Terminal => order'[o].status = order[o].status]_vars

\* "Delivery completion must only happen after payment is settled"
\* (order.service.ts:969), read at the moment the order becomes delivered.
DeliveredOnlyWhenPaid ==
  [][\A o \in Orders :
       order[o].status # "delivered" /\ order'[o].status = "delivered"
         => order'[o].pay = "completed"]_vars

\* "Do not regress progressed orders back to paid" (order.service.ts:1690).
NeverPaidAfterKitchen ==
  \A o \in Orders :
    order[o].status = "paid" => <<"order.status_changed", "in_kitchen">> \notin outbox[o]

\* "cash_collected or card_collected event recorded once"
\* (payment-order-runbook.md:34): the same order is not collected both ways.
CollectedOnce ==
  \A o \in Orders : ~({"cash_collected", "card_collected"} \subseteq events[o])

\* "Payment is recorded -- cashier cannot amend lines here"
\* (order-amendment.policy.ts:102): the lines of a completed order change only
\* under an ADMIN's override.
PaidLinesNeedOverride ==
  [][\A o \in Orders :
       lines'[o] # lines[o] /\ order[o].pay = "completed"
         => \E s \in Slots : /\ requests[s] # Idle
                             /\ requests[s].order = o
                             /\ requests[s].override]_vars

----------------------------------------------------------------------------
(* What the screens say beside an order, against what the server accepts.  *)

\* The queue gives no blocked reason for exactly the moves updateOrderStatus
\* would accept from the same person on the same row, and the waiting orders
\* whose time has come that the kitchen lane lists are those it can start; the
\* amend-lines hint is shown exactly when some save would be accepted.
QueueHintMatchesServer ==
  \A o \in Orders :
    /\ \A a \in Actors, to \in OrderStatus :
         order[o].status # to =>
           (blockedReasonForTransition(order[o], to, a) = "none"
              <=> StatusChangeAccepted(order[o], to, a))
    /\ order[o].status \in {"placed", "paid"} /\ ~order[o].gated =>
         (isKitchenEligibleByPolicyOnly(order[o])
            <=> StatusChangeAccepted(order[o], "in_kitchen", "KITCHEN"))
    /\ \A role \in {"ADMIN", "CASHIER"} :
         (evaluateLineItemReplacementPolicy(order[o], role) = "allowed")
           <=> \E hasReason \in BOOLEAN :
                 validateLineItemsReplacementSave(order[o], role, hasReason) = "allowed"

----------------------------------------------------------------------------
(* The board this machine shows.                                           *)

boardTicketed == {o \in Orders : <<"print.kitchen_ticket", "">> \in outbox[o]}
boardSettled  == {o \in Orders : MoneyTaken(o)}

Board == INSTANCE OrderBoard
           WITH status   <- [o \in Orders |-> order[o].status],
                ticketed <- boardTicketed,
                settled  <- boardSettled

\* One request at a time, the handlers implement the board.
BoardRefinement == Board!BoardSpec
============================================================================
