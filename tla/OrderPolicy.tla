---------------------------- MODULE OrderPolicy ----------------------------
(***************************************************************************)
(* The rules an order is moved by, as pure operators over one order row:   *)
(* the transition graph and role table of OrderService, the kitchen        *)
(* release policy, the schedule gate, the reasons the queue gives for a    *)
(* blocked move, the amendment policies of libs/contracts, and the rows a  *)
(* new order can be created as.                                            *)
(*                                                                         *)
(* A row keeps the columns the rules read.  "online" behaves as "payhere"  *)
(* everywhere and stands under it; both client sources are "client" and    *)
(* both cashier sources "cashier"; of the transaction id only the prefix   *)
(* ON_PICKUP_ is ever tested by a rule; gated says that the kitchen        *)
(* release time (estimatedReadyTime minus the lead) is still ahead.        *)
(***************************************************************************)
CONSTANTS Couriers,   \* the ids of the courier users
          NoCourier   \* an order whose courierId is null

ASSUME CourierAssumption ==
  NoCourier \notin Couriers /\ Couriers \cap {"ADMIN", "CASHIER", "KITCHEN"} = {}

OrderStatus == {"placed", "paid", "in_kitchen", "ready", "in_transit",
                "delivered", "cancelled", "voided", "refunded"}
PaymentStatus == {"pending", "completed", "failed", "refunded"}
PaymentMethod == {"cash", "card", "payhere"}
FulfillmentType == {"takeaway", "dine_in", "delivery"}

Terminal == {"delivered", "cancelled", "voided", "refunded"}

\* The columns of an order the rules and the handlers look at.
Row == [status  : OrderStatus,
        pay     : PaymentStatus,
        method  : PaymentMethod,
        txn     : {"ON_PICKUP", "OTHER"},
        ftype   : FulfillmentType,
        source  : {"client", "cashier"},
        courier : Couriers \cup {NoCourier},
        gated   : BOOLEAN]

\* Staff who call the API: one of each office role, and every courier.
Actors == {"ADMIN", "CASHIER", "KITCHEN"} \cup Couriers

RoleOf(a) == IF a \in Couriers THEN "COURIER" ELSE a

----------------------------------------------------------------------------
(* Moving an order.                                                        *)

\* Bug: a delivered order may still be refunded.
transitionGraph_RefundDelivered ==
  { <<"placed", "paid">>, <<"placed", "in_kitchen">>, <<"placed", "cancelled">>,
    <<"placed", "voided">>,
    <<"paid", "in_kitchen">>, <<"paid", "cancelled">>, <<"paid", "refunded">>,
    <<"in_kitchen", "ready">>, <<"in_kitchen", "cancelled">>, <<"in_kitchen", "voided">>,
    <<"ready", "in_transit">>, <<"ready", "delivered">>, <<"ready", "cancelled">>,
    <<"in_transit", "delivered">>, <<"in_transit", "cancelled">>,
    <<"delivered", "refunded">> }

transitionGraph ==
  { <<"placed", "paid">>, <<"placed", "in_kitchen">>, <<"placed", "cancelled">>,
    <<"placed", "voided">>,
    <<"paid", "in_kitchen">>, <<"paid", "cancelled">>, <<"paid", "refunded">>,
    <<"in_kitchen", "ready">>, <<"in_kitchen", "cancelled">>, <<"in_kitchen", "voided">>,
    <<"ready", "in_transit">>, <<"ready", "delivered">>, <<"ready", "cancelled">>,
    <<"in_transit", "delivered">>, <<"in_transit", "cancelled">> }

\* Why an order that is still "placed" may be cooked: PREPAID, one of the
\* pay-later arrangements, or "none".
PlacedReleaseReason(r) ==
  CASE r.pay = "completed" -> "PREPAID"
    [] r.pay # "completed" /\ r.method = "cash" /\ r.ftype = "takeaway" ->
         IF r.txn = "ON_PICKUP" THEN "TAKEAWAY_PAY_LATER" ELSE "none"
    [] r.pay # "completed" /\ r.method = "cash" /\ r.ftype = "dine_in"  -> "DINE_IN_POSTPAY"
    [] r.pay # "completed" /\ r.method = "cash" /\ r.ftype = "delivery" -> "DELIVERY_PAY_LATER"
    [] r.pay # "completed" /\ r.method # "cash" ->
         IF r.source = "cashier" THEN "STAFF_PAY_LATER" ELSE "none"

isScheduleGateBlockingKitchenRelease(r) ==
  r.status \in {"placed", "paid"} /\ r.gated

\* Bug: delivery no longer waits for the payment.
RoleMayEnter_Unpaid(r, to, role) ==
  CASE to \in {"voided", "refunded"} -> role = "ADMIN"
    [] to \in {"paid", "cancelled"}  -> role \in {"ADMIN", "CASHIER"}
    [] to = "in_kitchen" -> role \in {"KITCHEN", "ADMIN", "CASHIER"}
    [] to = "ready"      -> role \in {"KITCHEN", "ADMIN"}
    [] to = "in_transit" -> r.ftype = "delivery" /\ role \in {"COURIER", "ADMIN"}
    [] OTHER -> role \in {"ADMIN", IF r.ftype = "delivery" THEN "COURIER" ELSE "CASHIER"}

\* Which roles a target is open to, and what it asks of the row.
RoleMayEnter(r, to, role) ==
  CASE to \in {"voided", "refunded"} -> role = "ADMIN"
    [] to \in {"paid", "cancelled"}  -> role \in {"ADMIN", "CASHIER"}
    [] to = "in_kitchen" -> role \in {"KITCHEN", "ADMIN", "CASHIER"}
    [] to = "ready"      -> role \in {"KITCHEN", "ADMIN"}
    [] to = "in_transit" -> r.ftype = "delivery" /\ role \in {"COURIER", "ADMIN"}
    [] to = "delivered"  ->
         /\ r.pay = "completed"
         /\ role \in {"ADMIN", IF r.ftype = "delivery" THEN "COURIER" ELSE "CASHIER"}
    [] OTHER -> FALSE

canTransition(r, to, role) ==
  /\ <<r.status, to>> \in transitionGraph
  /\ RoleMayEnter(r, to, role)
  /\ to = "in_kitchen" =>
       /\ ~isScheduleGateBlockingKitchenRelease(r)
       /\ r.status = "placed" => PlacedReleaseReason(r) # "none"

\* Bug: "paid" may be set by hand before the payment completed.
StatusChangeAccepted_PaidByHand(r, to, a) ==
  r.status # to /\ canTransition(r, to, RoleOf(a))

\* Everything updateOrderStatus checks before it writes.
StatusChangeAccepted(r, to, a) ==
  /\ r.status # to
  /\ to = "paid" => r.pay = "completed"
  /\ a \in Couriers =>
       /\ r.ftype = "delivery"
       /\ to = "delivered" => r.courier \in {NoCourier, a}
  /\ canTransition(r, to, RoleOf(a))

\* What the staff queue shows beside a move it greys out.
blockedReasonForTransition(r, to, a) ==
  CASE r.status = to -> "none"
    [] r.status # to /\ r.status \in Terminal -> "TERMINAL_STATE"
    [] r.status # to /\ r.status \notin Terminal ->
  CASE <<r.status, to>> \notin transitionGraph -> "INVALID_TRANSITION"
    [] <<r.status, to>> \in transitionGraph ->
  CASE to \in {"paid", "delivered"} /\ r.pay # "completed" -> "PAYMENT_NOT_COMPLETED"
    [] to = "in_transit" /\ r.ftype # "delivery" -> "NOT_DELIVERY_ORDER"
    [] to = "delivered" /\ r.pay = "completed" /\ a \in Couriers
         /\ r.courier \notin {NoCourier, a} -> "COURIER_NOT_ASSIGNED"
    [] to = "in_kitchen" /\ isScheduleGateBlockingKitchenRelease(r) -> "SCHEDULE_GATE"
    [] to = "in_kitchen" /\ ~isScheduleGateBlockingKitchenRelease(r)
         /\ r.status = "placed" /\ PlacedReleaseReason(r) = "none" -> "KITCHEN_POLICY_BLOCK"
    [] OTHER -> IF canTransition(r, to, RoleOf(a)) THEN "none" ELSE "ROLE_FORBIDDEN"

\* Bug: a paid order is listed only while its payment still reads completed.
isKitchenEligibleByPolicyOnly_Completed(r) ==
  \/ r.status = "in_kitchen"
  \/ r.status \notin Terminal /\ r.pay = "completed"
  \/ r.status = "placed" /\ PlacedReleaseReason(r) # "none"

\* Whether the kitchen lane lists the order at all.
isKitchenEligibleByPolicyOnly(r) ==
  \/ r.status \in {"in_kitchen", "paid"}
  \/ r.status \notin Terminal /\ r.pay = "completed"
  \/ r.status = "placed" /\ PlacedReleaseReason(r) # "none"

----------------------------------------------------------------------------
(* Amending an order after it was placed.                                  *)

\* Bug: lines stay open to the cashier until the kitchen starts.
evaluateCashierLineReplacement_PreKitchen(r) ==
  IF r.pay # "completed" \/ r.status \in {"placed", "paid"} THEN "allowed" ELSE "PAYMENT_COMPLETED"

evaluateCashierLineReplacement(r) ==
  CASE r.pay # "completed" -> "allowed"
    [] r.pay = "completed" /\ r.ftype = "delivery" /\ r.status = "ready" -> "DELIVERY_READY_PAID"
    [] OTHER -> "PAYMENT_COMPLETED"

\* The hint the screens show.
evaluateLineItemReplacementPolicy(r, role) ==
  CASE r.status \in Terminal -> "TERMINAL_STATE"
    [] r.status \notin Terminal /\ role = "ADMIN" -> "allowed"
    [] OTHER -> evaluateCashierLineReplacement(r)

\* The check made when the new lines are saved; hasReason says that an
\* override reason of three characters or more came with them.
validateLineItemsReplacementSave(r, role, hasReason) ==
  CASE r.status \in Terminal -> "TERMINAL_STATE"
    [] r.status \notin Terminal /\ role = "ADMIN"
         /\ evaluateCashierLineReplacement(r) # "allowed" ->
           IF hasReason THEN "allowed" ELSE "OVERRIDE_REASON_REQUIRED"
    [] OTHER -> evaluateCashierLineReplacement(r)

evaluateSupportDetailsEditPolicy(r, role) ==
  CASE r.status \in Terminal -> "TERMINAL_STATE"
    [] r.status \notin Terminal /\ role # "ADMIN" /\ r.ftype = "delivery"
         /\ r.status = "ready" /\ r.pay = "completed" -> "DELIVERY_READY_PAID"
    [] OTHER -> "allowed"

----------------------------------------------------------------------------
(* The rows createOrder stores for the two front ends.                     *)

\* A web or mobile checkout: always unpaid, cash takeaway is marked for
\* payment on pickup, and only these orders can ask for a later time.
ClientPlacements ==
  { [status |-> "placed", pay |-> "pending", method |-> m,
     txn |-> IF m = "cash" /\ f = "takeaway" THEN "ON_PICKUP" ELSE "OTHER",
     ftype |-> f, source |-> "client", courier |-> NoCourier, gated |-> g] :
       m \in PaymentMethod, f \in FulfillmentType, g \in BOOLEAN }

PosCollections == {"immediate", "on_delivery", "on_pickup", "at_collection"}

\* The point of sale: money taken at once makes the order "paid" from birth.
CashierPlacement(m, f, coll) ==
  [status |-> IF coll = "immediate" THEN "paid" ELSE "placed",
   pay    |-> IF coll = "immediate" THEN "completed" ELSE "pending",
   method |-> m,
   txn    |-> IF coll = "on_pickup" \/ (coll = "at_collection" /\ f = "takeaway")
              THEN "ON_PICKUP" ELSE "OTHER",
   ftype |-> f, source |-> "cashier", courier |-> NoCourier, gated |-> FALSE]

CashierPlacements ==
  { CashierPlacement(m, f, coll) :
      m \in {"cash", "card"}, f \in FulfillmentType, coll \in PosCollections }

Placement == ClientPlacements \cup CashierPlacements
============================================================================
