---------------------------- MODULE PaymentGateway ----------------------------
(***************************************************************************)
(* One online order and the payments its customer makes for it at PayHere: *)
(* the gateway, which repeats every notification until it is answered with *)
(* success, the webhook handler of PaymentService, whose database calls    *)
(* are separate steps, the payment.webhook.paid job behind the outbox, and *)
(* a till that takes cash for the same order meanwhile.                    *)
(***************************************************************************)
EXTENDS Naturals

CONSTANTS Payments,    \* payment ids of the attempts to pay this order
          NoPayment,   \* no transaction id yet
          Slots,       \* webhook requests served at once
          Codes,       \* the status codes the gateway may report
          Tills,       \* tills that may take cash for the order
          MaxFaults    \* bound: handlers and jobs that die half-way

ASSUME GatewayAssumption ==
  /\ NoPayment \notin Payments
  /\ Codes \subseteq {"success", "pending", "failed", "chargedback"}
  /\ MaxFaults \in Nat

VARIABLES
  charged,   \* payments PayHere took the money of
  sent,      \* notifications sent, each delivered any number of times
  acked,     \* notifications answered with success: true
  claims,    \* the webhook keys claimed in PaymentEvent
  recorded,  \* per payment, its online_webhook_paid events
  outbox,    \* payments with a payment.webhook.paid row
  landed,    \* payments whose job has completed the order
  pay, txn, method,  \* columns of the order
  handler,   \* per slot, the webhook under way
  faults

order == <<pay, txn, method>>
vars == <<charged, sent, acked, claims, recorded, outbox, landed, pay, txn, method,
          handler, faults>>

Note == Payments \X Codes
Idle == <<"idle">>

TypeOK ==
  /\ charged \subseteq Payments /\ outbox \subseteq Payments /\ landed \subseteq Payments
  /\ sent \subseteq Note /\ acked \subseteq Note /\ claims \subseteq Payments
  /\ recorded \in [Payments -> Nat]
  /\ pay \in {"pending", "completed", "failed"}
  /\ txn \in Payments \cup {NoPayment}
  /\ method \in {"payhere", "cash"}
  /\ handler \in [Slots -> {Idle} \cup ({"claim", "record", "append", "fail", "close"} \X Note)]
  /\ faults \in 0..MaxFaults

Init ==
  /\ charged = {} /\ sent = {} /\ acked = {} /\ claims = {} /\ outbox = {} /\ landed = {}
  /\ recorded = [p \in Payments |-> 0]
  /\ pay = "pending" /\ txn = NoPayment /\ method = "payhere"
  /\ handler = [s \in Slots |-> Idle]
  /\ faults = 0

----------------------------------------------------------------------------
(* PayHere.  A payment ends in success or failure, may be reported pending *)
(* before, and a successful one may be charged back.                       *)

Ended(p) == \E c \in {"success", "failed"} : <<p, c>> \in sent

Report(p, c) ==
  /\ c \in Codes /\ <<p, c>> \notin sent
  /\ IF c = "chargedback" THEN p \in charged ELSE ~Ended(p)
  /\ sent' = sent \cup {<<p, c>>}
  /\ charged' = IF c = "success" THEN charged \cup {p} ELSE charged
  /\ UNCHANGED <<acked, claims, recorded, outbox, landed, order, handler, faults>>

----------------------------------------------------------------------------
(* processWebhook.                                                         *)

Goto(s, step) == handler' = [handler EXCEPT ![s] = <<step, @[2]>>]
Reply(s, n) == acked' = acked \cup {n} /\ handler' = [handler EXCEPT ![s] = Idle]
At(s, step) == handler[s] # Idle /\ handler[s][1] = step

\* Bug: one key for all payments of the order.
webhookKey_PerOrder(n) == CHOOSE p \in Payments : TRUE

\* order_id and payment_id; the status code is part of it only when PayHere
\* sends no payment id.
webhookKey(n) == n[1]

\* The order is read: a success that is already on it is answered at once, and
\* an order paid by other means refuses the notification (the gateway repeats it).
WebhookRead(s, n) ==
  /\ n \in sent /\ handler[s] = Idle
  /\ \/ /\ n[2] = "success" /\ pay = "completed" /\ txn = n[1]
        /\ acked' = acked \cup {n}
        /\ UNCHANGED handler
     \/ /\ ~(n[2] = "success" /\ pay = "completed" /\ txn = n[1])
        /\ method = "payhere"
        /\ handler' = [handler EXCEPT ![s] = <<"claim", n>>]
        /\ UNCHANGED acked
  /\ UNCHANGED <<charged, sent, claims, recorded, outbox, landed, order, faults>>

\* Bug: a pending payment is taken for a paid one.
PaidCode_Pending(c) == c \in {"success", "pending"}

PaidCode(c) == c = "success"

\* Bug: the key is looked up and written in two calls, so both may win.
ClaimWins_Racy(key) == TRUE

\* claimWebhookProcessing: the insert under the key's id succeeds once.
ClaimWins(key) == key \notin claims

Claim(s) ==
  LET n == handler[s][2] IN
  /\ At(s, "claim")
  /\ \/ /\ ClaimWins(webhookKey(n))
        /\ claims' = claims \cup {webhookKey(n)}
        /\ Goto(s, IF PaidCode(n[2]) THEN "record" ELSE "fail")
        /\ UNCHANGED acked
     \/ ~ClaimWins(webhookKey(n)) /\ Reply(s, n) /\ UNCHANGED claims
  /\ UNCHANGED <<charged, sent, recorded, outbox, landed, order, faults>>

RecordPaid(s) ==
  /\ At(s, "record")
  /\ recorded' = [recorded EXCEPT ![handler[s][2][1]] = @ + 1]
  /\ Goto(s, "append")
  /\ UNCHANGED <<charged, sent, acked, claims, outbox, landed, order, faults>>

AppendPaid(s) ==
  LET n == handler[s][2] IN
  /\ At(s, "append")
  /\ outbox' = outbox \cup {n[1]}
  /\ Reply(s, n)
  /\ UNCHANGED <<charged, sent, claims, recorded, landed, order, faults>>

\* Any other code writes "failed", whatever the order has become.
FailOrder(s) ==
  /\ At(s, "fail")
  /\ pay' = "failed"
  /\ Goto(s, "close")
  /\ UNCHANGED <<charged, sent, acked, claims, recorded, outbox, landed, txn, method, faults>>

\* The failure event and outbox row, which nothing but a log line reads.
CloseFailed(s) ==
  /\ At(s, "close")
  /\ Reply(s, handler[s][2])
  /\ UNCHANGED <<charged, sent, claims, recorded, outbox, landed, order, faults>>

----------------------------------------------------------------------------
(* The rest of the system, as far as it writes these columns.              *)

\* Bug: the first transaction id is kept.
JobPaid_FirstTxn(p) ==
  /\ p \in outbox
  /\ pay' = "completed" /\ txn' = IF txn = NoPayment THEN p ELSE txn
  /\ landed' = landed \cup {p}
  /\ UNCHANGED <<charged, sent, acked, claims, recorded, outbox, method, handler, faults>>

\* handleOrderPaid: its job may run again.
JobPaid(p) ==
  /\ p \in outbox
  /\ pay' = "completed" /\ txn' = p
  /\ landed' = landed \cup {p}
  /\ UNCHANGED <<charged, sent, acked, claims, recorded, outbox, method, handler, faults>>

\* markPaymentReceived.
Collect(t) ==
  /\ pay # "completed"
  /\ pay' = "completed" /\ method' = "cash"
  /\ UNCHANGED <<charged, sent, acked, claims, recorded, outbox, landed, txn, handler, faults>>

Crash(s) ==
  /\ faults < MaxFaults /\ faults' = faults + 1
  /\ handler[s] # Idle
  /\ handler' = [handler EXCEPT ![s] = Idle]
  /\ UNCHANGED <<charged, sent, acked, claims, recorded, outbox, landed, order>>

Serve(s) ==
  Claim(s) \/ RecordPaid(s) \/ AppendPaid(s) \/ FailOrder(s) \/ CloseFailed(s)

Deliver(n) == n \notin acked /\ \E s \in Slots : WebhookRead(s, n)

Next ==
  \/ \E p \in Payments, c \in Codes : Report(p, c)
  \/ \E s \in Slots : \/ \E n \in Note : WebhookRead(s, n)
                      \/ Serve(s) \/ Crash(s)
  \/ \E p \in Payments : JobPaid(p)
  \/ \E t \in Tills : Collect(t)

Spec == Init /\ [][Next]_vars

\* The gateway repeats a notification until it is answered (only that of a
\* success matters), requests are served, and relay and worker run the job.
FairSpec ==
  /\ Spec
  /\ \A p \in Payments : SF_vars(Deliver(<<p, "success">>))
  /\ \A s \in Slots : WF_vars(Serve(s))
  /\ \A p \in Payments : WF_vars(p \notin landed /\ JobPaid(p))

----------------------------------------------------------------------------
(* Properties.                                                             *)

\* "duplicate deliveries are safe across multiple API instances"
\* (docs/MVP_LAUNCH_CHECKLIST.md:26): no payment is recorded twice, and no job
\* is queued for one that was not recorded.
RecordedOnce ==
  \A p \in Payments : recorded[p] <= 1 /\ (p \in outbox => recorded[p] = 1)

\* An order whose payment reads completed was paid: by the payment its
\* transaction id names, whose money PayHere took, or at a till.
CompletedWasPaid ==
  pay = "completed" => method = "cash" \/ (txn \in charged /\ recorded[txn] = 1)

\* The money's way, as the business sees it.
Trail == INSTANCE PaymentTrail WITH taken <- charged, entries <- recorded,
                                    queued <- outbox, heard <- landed

\* Webhook, job and till take money along that way: one entry and one job for a
\* payment taken, and an order that names the payment that completed it last,
\* whichever notifications repeat, overtake each other or lose their handler.
FollowsTrail == Trail!TrailSpec

\* The claim of p was spent by a handler that died or by another code.
ClaimSpent(p) ==
  /\ p \in claims /\ p \notin outbox
  /\ \A s \in Slots : (At(s, "record") \/ At(s, "append")) => handler[s][2][1] # p

\* Money PayHere took reaches the order, unless the claim of its payment was
\* spent or the order was paid in cash, which makes the webhook refuse it.
ChargeLands ==
  \A p \in Payments : p \in charged ~> p \in landed \/ ClaimSpent(p) \/ method = "cash"

\* "deduplicates via idempotency key, and emits order.paid"
\* (docs/api-reference.md:199): money PayHere took reaches the order.
EveryChargeLands == \A p \in Payments : p \in charged ~> p \in landed
==============================================================================
