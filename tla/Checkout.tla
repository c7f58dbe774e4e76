------------------------------- MODULE Checkout -------------------------------
(***************************************************************************)
(* A guest at the checkout of the storefront or of the mobile app.  Every  *)
(* press of the button asks the server for an order of its own, for the    *)
(* request carries no idempotency key.  On the web an online order then    *)
(* needs a signed hash and a PayHere window; when that cannot be had the   *)
(* page gives the order up, in a call that may be slow or lost.  The cart  *)
(* stays until the page believes the order to be placed.                   *)
(***************************************************************************)
EXTENDS Naturals, FiniteSets

CONSTANTS Attempts,  \* 1..n: presses, and the orders they may become
          MaxCarts,  \* bound: carts filled one after the other
          MaxFaults  \* bound: calls lost, pages left, payments that end late

ASSUME CheckoutAssumption ==
  /\ Attempts \subseteq Nat \ {0}
  /\ MaxCarts \in Nat /\ MaxFaults \in Nat

VARIABLES
  app,     \* where the guest is
  filled,  \* carts filled so far; the last one is in the store while it is kept
  kept,    \* whether the store still has it
  page,    \* what the page is doing
  call,    \* per attempt, the creation of its order
  order,   \* per attempt, the row
  aborts,  \* orders that a page has asked to be given up
  paying,  \* orders whose PayHere window was opened and has not ended
  charged, \* orders PayHere took the money of
  faults   \* faults so far

vars == <<app, filled, kept, page, call, order, aborts, paying, charged, faults>>

Methods == {"cash", "payhere"}
NoOrder == [status |-> "none"]
Row == {NoOrder} \cup
  [status : {"placed", "paid", "voided"}, pay : {"pending", "failed", "completed"},
   method : Methods, cart : 1..MaxCarts]

Form == [at |-> "form"]
Page == {Form} \cup [at : {"create", "hash", "window", "abort"}, attempt : Attempts]

NoCall == [at |-> "none"]
Call == {NoCall} \cup [at : {"sent", "done", "refused"}, cart : 1..MaxCarts, method : Methods]

TypeOK ==
  /\ app \in {"web", "mobile"}
  /\ filled \in 0..MaxCarts /\ kept \in BOOLEAN
  /\ page \in Page
  /\ call \in [Attempts -> Call]
  /\ order \in [Attempts -> Row]
  /\ aborts \subseteq Attempts /\ paying \subseteq Attempts /\ charged \subseteq Attempts
  /\ faults \in 0..MaxFaults

Init ==
  /\ app \in {"web", "mobile"}
  /\ filled = 0 /\ kept = FALSE
  /\ page = Form
  /\ call = [a \in Attempts |-> NoCall]
  /\ order = [a \in Attempts |-> NoOrder]
  /\ aborts = {} /\ paying = {} /\ charged = {}
  /\ faults = 0

Fault == faults < MaxFaults /\ faults' = faults + 1

----------------------------------------------------------------------------
(* handleCheckout and placeOrder.                                          *)

FillCart ==
  /\ page = Form /\ ~kept /\ filled < MaxCarts
  /\ filled' = filled + 1 /\ kept' = TRUE
  /\ UNCHANGED <<app, page, call, order, aborts, paying, charged, faults>>

Fresh == {a \in Attempts : call[a] = NoCall}
First == CHOOSE a \in Fresh : \A b \in Fresh : a <= b

Press(method) ==
  LET a == First IN
  /\ page = Form /\ kept /\ Fresh # {}
  /\ call' = [call EXCEPT ![a] = [at |-> "sent", cart |-> filled, method |-> method]]
  /\ page' = [at |-> "create", attempt |-> a]
  /\ UNCHANGED <<app, filled, kept, order, aborts, paying, charged, faults>>

\* Mobile never opens a payment: an online order is left to be paid somehow.
PaysNow(a) == app = "web" /\ call[a].method = "payhere"

\* clearCart: when nothing is left to be paid here.
Placed(a) == kept' = (call[a].at = "refused" \/ PaysNow(a))

\* The answer to the creation; an order that was refused has no id to give up.
Created ==
  LET a == page.attempt IN
  /\ page.at = "create" /\ call[a].at # "sent"
  /\ Placed(a)
  /\ page' = IF call[a].at = "done" /\ PaysNow(a) THEN [page EXCEPT !.at = "hash"] ELSE Form
  /\ UNCHANGED <<app, filled, call, order, aborts, paying, charged, faults>>

\* getPaymentHash and startPayment.
OpenWindow ==
  /\ page.at = "hash"
  /\ page' = [page EXCEPT !.at = "window"]
  /\ paying' = paying \cup {page.attempt}
  /\ UNCHANGED <<app, filled, kept, call, order, aborts, charged, faults>>

\* No hash, no merchant, no field, no script, or an exception: the page gives
\* the order up, and in most cases waits for the answer.
GiveUp(waits) ==
  /\ aborts' = aborts \cup {page.attempt}
  /\ page' = IF waits THEN [page EXCEPT !.at = "abort"] ELSE Form

CannotPay ==
  /\ page.at = "hash"
  /\ \E waits \in BOOLEAN : GiveUp(waits)
  /\ UNCHANGED <<app, filled, kept, call, order, paying, charged, faults>>

\* abortPendingOnlineOrder swallows its errors.
GivenUp ==
  /\ page.at = "abort" /\ page.attempt \notin aborts
  /\ page' = Form
  /\ UNCHANGED <<app, filled, kept, call, order, aborts, paying, charged, faults>>

----------------------------------------------------------------------------
(* The PayHere window.                                                     *)

Pay(a) ==
  /\ a \in paying
  /\ IF page = [at |-> "window", attempt |-> a] THEN UNCHANGED faults ELSE Fault
  /\ charged' = charged \cup {a} /\ paying' = paying \ {a}
  /\ UNCHANGED <<app, filled, kept, page, call, order, aborts>>

\* Bug: the order may be paid by now, so the cart is left for the guest to see.
onCompleted_Keeps == UNCHANGED kept

onCompleted == kept' = FALSE

Completed ==
  /\ page.at = "window" /\ page.attempt \in charged
  /\ onCompleted
  /\ page' = Form
  /\ UNCHANGED <<app, filled, call, order, aborts, paying, charged, faults>>

\* Bug: an order whose window was closed is given up.
onDismissed_Aborts == aborts' = aborts \cup {page.attempt}

\* The order stays as it is, to be paid or not.
onDismissed == UNCHANGED aborts

\* The guest closes the window, or the payment is declined.  PayHere may be at
\* the payment still: Pay in another page is a fault.
Dismissed ==
  /\ page.at = "window" /\ page.attempt \notin charged
  /\ onDismissed
  /\ page' = Form
  /\ UNCHANGED <<app, filled, kept, call, order, paying, charged, faults>>

\* The window reports that the payment could not be set up.
InitError ==
  /\ page.at = "window" /\ page.attempt \in paying
  /\ paying' = paying \ {page.attempt}
  /\ GiveUp(FALSE)
  /\ UNCHANGED <<app, filled, kept, call, order, charged, faults>>

----------------------------------------------------------------------------
(* The server: createOrder, abortCheckout, the paid job.                   *)

Create(a) ==
  /\ call[a].at = "sent"
  /\ \/ /\ order' = [order EXCEPT ![a] = [status |-> "placed", pay |-> "pending",
                                          method |-> call[a].method, cart |-> call[a].cart]]
        /\ call' = [call EXCEPT ![a].at = "done"]
     \/ call' = [call EXCEPT ![a].at = "refused"] /\ UNCHANGED order
  /\ UNCHANGED <<app, filled, kept, page, aborts, paying, charged, faults>>

Abortable(r) == r.method = "payhere" /\ r.status = "placed" /\ r.pay # "completed"

Abort(a) ==
  /\ a \in aborts
  /\ aborts' = aborts \ {a}
  /\ order' = IF Abortable(order[a])
                THEN [order EXCEPT ![a].status = "voided", ![a].pay = "failed"] ELSE order
  /\ UNCHANGED <<app, filled, kept, page, call, paying, charged, faults>>

\* Bug: the status of the payment is written into the status of the order.
Paid_Completed(r) == [r EXCEPT !.status = "completed", !.pay = "completed"]

\* handleOrderPaid: the status follows only from placed.
Paid(r) == [r EXCEPT !.pay = "completed", !.status = IF @ = "placed" THEN "paid" ELSE @]

Land(a) ==
  /\ a \in charged /\ order[a].pay # "completed"
  /\ order' = [order EXCEPT ![a] = Paid(@)]
  /\ UNCHANGED <<app, filled, kept, page, call, aborts, paying, charged, faults>>

----------------------------------------------------------------------------
(* Faults.                                                                 *)

\* Eight seconds are over, or the connection is gone; the server goes on.
LoseAnswer ==
  /\ Fault
  /\ \/ page.at = "create" /\ page' = Form /\ UNCHANGED aborts
     \/ page.at = "abort" /\ page' = Form /\ aborts' \in {aborts, aborts \ {page.attempt}}
  /\ UNCHANGED <<app, filled, kept, call, order, paying, charged>>

\* The page is loaded again: the cart survives.
Reload ==
  /\ Fault /\ page # Form
  /\ page' = Form
  /\ UNCHANGED <<app, filled, kept, call, order, aborts, paying, charged>>

----------------------------------------------------------------------------
Guest ==
  \/ FillCart \/ Created \/ OpenWindow \/ CannotPay \/ GivenUp
  \/ \E method \in Methods : Press(method)
  \/ Completed \/ Dismissed \/ InitError

Next ==
  \/ Guest
  \/ \E a \in Attempts : Pay(a) \/ Create(a) \/ Abort(a) \/ Land(a)
  \/ LoseAnswer \/ Reload

Spec == Init /\ [][Next]_vars

----------------------------------------------------------------------------
(* Properties.                                                             *)

\* What a guest owes or has paid for a cart: cash orders that will be cooked,
\* and what PayHere took.
Owed(c) ==
  {a \in Attempts : /\ order[a] # NoOrder /\ order[a].cart = c
                    /\ a \in charged \/ (order[a].method = "cash" /\ order[a].status # "voided")}

Gone(c) == c < filled \/ (c = filled /\ ~kept)

\* As long as no answer was lost and no page left: a cart is owed or paid once
\* at most, whatever was given up, declined or pressed again before; and on the
\* web exactly once when it has left the store.
CartOrderedOnce ==
  faults = 0 => \A c \in 1..filled :
    /\ Cardinality(Owed(c)) <= 1
    /\ app = "web" /\ Gone(c) => Owed(c) # {}

\* However slow the call that gives an order up and whatever else is lost: it
\* never hits an order that PayHere took, or is going to take, the money of.
VoidedNeverCharged == \A a \in Attempts : order[a].status = "voided" => a \notin charged \cup paying
===============================================================================
