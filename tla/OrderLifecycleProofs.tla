------------------------ MODULE OrderLifecycleProofs ------------------------
(***************************************************************************)
(* Proofs that the order handlers keep their types and their promises for  *)
(* any number of orders, couriers and requests in flight.                  *)
(***************************************************************************)
EXTENDS OrderLifecycle, TLAPS

----------------------------------------------------------------------------
(* The rows and keys the handlers write are well formed.                   *)

LEMMA StatusKeysType ==
  ASSUME NEW to \in OrderStatus
  PROVE  StatusKeys(to) \subseteq Key
<1>1. CASE to = "paid"        BY <1>1 DEF StatusKeys, Key, OrderStatus
<1>2. CASE to = "ready"       BY <1>2 DEF StatusKeys, Key, OrderStatus
<1>3. CASE to = "in_transit"  BY <1>3 DEF StatusKeys, Key, OrderStatus
<1>4. CASE to = "in_kitchen"  BY <1>4 DEF StatusKeys, Key, OrderStatus
<1>5. CASE to = "voided"      BY <1>5 DEF StatusKeys, Key, OrderStatus
<1>6. CASE to = "refunded"    BY <1>6 DEF StatusKeys, Key, OrderStatus
<1>7. CASE to \in {"placed", "delivered", "cancelled"}
  BY <1>7 DEF StatusKeys, Key, OrderStatus
<1> QED  BY <1>1, <1>2, <1>3, <1>4, <1>5, <1>6, <1>7 DEF OrderStatus

LEMMA CollectKeysType ==
  ASSUME NEW r \in Row, NEW m \in {"cash", "card"}
  PROVE  CollectKeys(r, m) \subseteq Key
BY DEF CollectKeys, Key

LEMMA WithStatusType ==
  ASSUME NEW r \in Row, NEW to \in OrderStatus, NEW c \in Couriers \cup {NoCourier}
  PROVE  WithStatus(r, to, c) \in Row
BY DEF WithStatus, Row, PaymentStatus

LEMMA WithPaymentType ==
  ASSUME NEW r \in Row, NEW to \in OrderStatus \cup {"keep"}, NEW m \in {"cash", "card"}
  PROVE  WithPayment(r, to, m) \in Row
BY DEF WithPayment, Row, PaymentStatus, PaymentMethod

LEMMA PlacementType == Placement \subseteq Row
<1>1. ClientPlacements \subseteq Row
  <2> SUFFICES ASSUME NEW m \in PaymentMethod, NEW f \in FulfillmentType, NEW g \in BOOLEAN
               PROVE  [status |-> "placed", pay |-> "pending", method |-> m,
                       txn |-> IF m = "cash" /\ f = "takeaway" THEN "ON_PICKUP" ELSE "OTHER",
                       ftype |-> f, source |-> "client", courier |-> NoCourier,
                       gated |-> g] \in Row
    BY DEF ClientPlacements
  <2> QED  BY DEF Row, OrderStatus, PaymentStatus
<1>2. CashierPlacements \subseteq Row
  <2> SUFFICES ASSUME NEW m \in {"cash", "card"}, NEW f \in FulfillmentType,
                      NEW coll \in PosCollections
               PROVE  CashierPlacement(m, f, coll) \in Row
    BY DEF CashierPlacements
  <2> QED  BY DEF CashierPlacement, Row, OrderStatus, PaymentStatus, PaymentMethod
<1> QED  BY <1>1, <1>2 DEF Placement

LEMMA HandoverRowType ==
  ASSUME NEW r \in Row, NEW next \in Couriers \cup {NoCourier}
  PROVE  HandoverRow(r, next) \in Row
BY DEF HandoverRow, Row, OrderStatus

----------------------------------------------------------------------------
(* What the shared steps of the handlers do to the types.                  *)

LEMMA AskType ==
  ASSUME NEW op \in Op \ {"status", "job_status", "collect"}, NEW o \in Orders
  PROVE  Ask(op, o) \in Request
BY DEF Ask, Request

LEMMA RequestOfOp ==
  ASSUME TypeOK, NEW s \in Slots, requests[s].op \in Op
  PROVE  requests[s] \in Request
BY DEF TypeOK, Idle, Op

\* A Begin keeps the tables and adds a well-formed request.
LEMMA BeginType ==
  ASSUME TypeOK, NEW s \in Slots, NEW q \in Request, Begin(s, q), UNCHANGED jobs
  PROVE  TypeOK'
BY DEF TypeOK, Begin

\* A Commit of a well-formed row, keys and events keeps the tables typed.
LEMMA CommitType ==
  ASSUME TypeOK, NEW s \in Slots, requests[s] \in Request,
         NEW r \in Row, NEW keys \in SUBSET Key, NEW evs \in SUBSET PaymentEvent,
         Commit(s, r, keys, evs)
  PROVE  /\ order' \in [Orders -> Row]
         /\ outbox' \in [Orders -> SUBSET Key]
         /\ events' \in [Orders -> SUBSET PaymentEvent]
<1>1. requests[s].order \in Orders
  BY DEF Request
<1> QED  BY <1>1 DEF TypeOK, Commit

LEMMA FinishType ==
  ASSUME TypeOK, NEW s \in Slots, Finish(s)
  PROVE  requests' \in [Slots -> Request \cup {Idle}]
BY DEF TypeOK, Finish

----------------------------------------------------------------------------
(* Type correctness.                                                       *)

LEMMA HandlerBeginsType ==
  ASSUME TypeOK, NEW s \in Slots, NEW o \in Orders, HandlerBegins(s, o)
  PROVE  TypeOK'
<1>1. ASSUME NEW a \in Actors, NEW to \in OrderStatus, NEW c \in Couriers \cup {NoCourier},
             StatusBegin(s, o, a, to, c)
      PROVE  TypeOK'
  <2>1. [Ask("status", o) EXCEPT !.to = to, !.courier = c] \in Request
    BY DEF Ask, Request, Op, OrderStatus
  <2> QED  BY <1>1, <2>1, BeginType DEF StatusBegin
<1>2. ASSUME NEW a \in Actors, NEW m \in {"cash", "card"}, CollectBegin(s, o, a, m)
      PROVE  TypeOK'
  <2>1. CollectionStatus(order[o]) \in OrderStatus \cup {"keep"}
    BY DEF CollectionStatus, OrderStatus
  <2>2. CollectionStatus(order[o]) \in {"keep", "paid", "delivered"}
    BY DEF CollectionStatus
  <2>3. [Ask("collect", o) EXCEPT !.to = CollectionStatus(order[o]), !.method = m] \in Request
    BY <2>1, <2>2 DEF Ask, Request, Op
  <2> QED  BY <1>2, <2>3, BeginType DEF CollectBegin
<1>3. ASSUME NEW a \in Actors, NEW c \in Couriers, AssignBegin(s, o, a, c)
      PROVE  TypeOK'
  <2>1. [Ask("assign", o) EXCEPT !.courier = c] \in Request
    BY DEF Ask, Request, Op
  <2> QED  BY <1>3, <2>1, BeginType DEF AssignBegin
<1>4. ASSUME NEW a \in Actors, NEW c \in Couriers \cup {NoCourier}, HandoverBegin(s, o, a, c)
      PROVE  TypeOK'
  <2>1. [Ask("handover", o) EXCEPT !.courier = c] \in Request
    BY DEF Ask, Request, Op
  <2> QED  BY <1>4, <2>1, BeginType DEF HandoverBegin
<1>5. ASSUME NEW a \in Actors, NEW hasReason \in BOOLEAN, EditBegin(s, o, a, hasReason)
      PROVE  TypeOK'
  <2>1. [Ask("edit", o) EXCEPT !.override = (a = "ADMIN" /\ hasReason)] \in Request
    BY DEF Ask, Request, Op
  <2> QED  BY <1>5, <2>1, BeginType DEF EditBegin
<1>6. ASSUME NEW a \in Actors, SupportBegin(s, o, a)
      PROVE  TypeOK'
  <2>1. Ask("support", o) \in Request
    BY AskType DEF Op
  <2> QED  BY <1>6, <2>1, BeginType DEF SupportBegin
<1>7. ASSUME AbortBegin(s, o)
      PROVE  TypeOK'
  <2>1. Ask("abort", o) \in Request
    BY AskType DEF Op
  <2> QED  BY <1>7, <2>1, BeginType DEF AbortBegin
<1>8. ASSUME WebhookFailedBegin(s, o)
      PROVE  TypeOK'
  <2>1. Ask("fail", o) \in Request
    BY AskType DEF Op
  <2> QED  BY <1>8, <2>1, BeginType DEF WebhookFailedBegin
<1>9. ASSUME JobBegin(s, o)
      PROVE  TypeOK'
  <2>1. Ask("job_read", o) \in Request
    BY AskType DEF Op
  <2>2. requests' \in [Slots -> Request \cup {Idle}]
    BY <1>9, <2>1 DEF JobBegin, TypeOK
  <2>3. [order[o] EXCEPT !.pay = "completed", !.txn = "OTHER"] \in Row
    BY DEF TypeOK, Row, PaymentStatus
  <2>4. order' \in [Orders -> Row]
    BY <1>9, <2>3 DEF JobBegin, TypeOK
  <2> QED  BY <1>9, <2>2, <2>4 DEF JobBegin, TypeOK
<1> QED  BY <1>1, <1>2, <1>3, <1>4, <1>5, <1>6, <1>7, <1>8, <1>9 DEF HandlerBegins

LEMMA HandlerWritesType ==
  ASSUME TypeOK, NEW s \in Slots, HandlerWrites(s)
  PROVE  TypeOK'
<1> DEFINE q == requests[s]
           r == order[q.order]
<1>0. ASSUME q.op \in Op
      PROVE  /\ q \in Request /\ q.order \in Orders /\ r \in Row
             /\ q.courier \in Couriers \cup {NoCourier}
             /\ q.to \in OrderStatus \cup {"keep"} /\ q.method \in {"none", "cash", "card"}
  BY <1>0, RequestOfOp DEF Request, TypeOK
<1>1. CASE StatusCommit(s)
  <2>1. q \in Request /\ r \in Row /\ q.to \in OrderStatus /\ q.courier \in Couriers \cup {NoCourier}
    BY <1>0, <1>1 DEF StatusCommit, Op, Request
  <2>2. WithStatus(r, q.to, q.courier) \in Row /\ StatusKeys(q.to) \in SUBSET Key
    BY <2>1, WithStatusType, StatusKeysType
  <2>3. requests' \in [Slots -> Request \cup {Idle}]
    BY <1>1, FinishType DEF StatusCommit
  <2>4. CASE Commit(s, WithStatus(r, q.to, q.courier), StatusKeys(q.to),
                    IF q.to = "refunded" THEN {"order_refunded"} ELSE {})
    <3>1. (IF q.to = "refunded" THEN {"order_refunded"} ELSE {}) \in SUBSET PaymentEvent
      BY DEF PaymentEvent
    <3> QED  BY <1>1, <2>1, <2>2, <2>3, <2>4, <3>1, CommitType DEF StatusCommit, TypeOK
  <2>5. CASE RollBack(s, StatusKeys(q.to))
    BY <1>1, <2>3, <2>5 DEF StatusCommit, RollBack, TypeOK
  <2> QED  BY <1>1, <2>4, <2>5 DEF StatusCommit
<1>2. CASE CollectCommit(s)
  <2> DEFINE saved == WithPayment(r, q.to, q.method)
             ev    == IF q.method = "cash" THEN "cash_collected" ELSE "card_collected"
  <2>1. q \in Request /\ r \in Row /\ q.to \in OrderStatus \cup {"keep"} /\ q.method \in {"cash", "card"}
    BY <1>0, <1>2 DEF CollectCommit, Op, Request
  <2>2. saved \in Row
    BY <2>1, WithPaymentType
  <2>3. CollectKeys(saved, q.method) \in SUBSET Key
    BY <2>1, <2>2, CollectKeysType
  <2>4. requests' \in [Slots -> Request \cup {Idle}]
    BY <1>2, FinishType DEF CollectCommit
  <2>5. CASE Commit(s, saved, CollectKeys(saved, q.method), {ev})
    <3>1. {ev} \in SUBSET PaymentEvent
      BY DEF PaymentEvent, Evidence
    <3>2. /\ order' \in [Orders -> Row]
          /\ outbox' \in [Orders -> SUBSET Key]
          /\ events' \in [Orders -> SUBSET PaymentEvent]
      <4> HIDE DEF q, saved, ev
      <4> QED  BY <2>1, <2>2, <2>3, <2>5, <3>1, CommitType DEF q
    <3> QED  BY <1>2, <2>4, <3>2 DEF CollectCommit, TypeOK
  <2>6. CASE RollBack(s, CollectKeys(saved, q.method))
    BY <1>2, <2>4, <2>6 DEF CollectCommit, RollBack, TypeOK
  <2> QED  BY <1>2, <2>5, <2>6 DEF CollectCommit
<1>3. CASE AssignWrite(s)
  <2>1. q \in Request /\ r \in Row /\ q.courier \in Couriers \cup {NoCourier} /\ q.order \in Orders
    BY <1>0, <1>3 DEF AssignWrite, Op
  <2>2. WithStatus(r, "in_transit", q.courier) \in Row
    BY <2>1, WithStatusType DEF OrderStatus
  <2>3. [q EXCEPT !.op = "announce"] \in Request
    BY <2>1 DEF Request, Op
  <2>4. requests' \in [Slots -> Request \cup {Idle}]
    BY <1>3, <2>3 DEF AssignWrite, TypeOK
  <2>5. order' \in [Orders -> Row]
    BY <1>3, <2>1, <2>2 DEF AssignWrite, TypeOK
  <2> QED  BY <1>3, <2>4, <2>5 DEF AssignWrite, TypeOK
<1>4. CASE AssignAnnounce(s)
  <2> DEFINE keys == {<<"notification.order_in_transit", "">>}
  <2>1. q \in Request /\ r \in Row
    BY <1>0, <1>4 DEF AssignAnnounce, Op
  <2>2. keys \in SUBSET Key /\ {} \in SUBSET PaymentEvent
    BY DEF Key
  <2>3. requests' \in [Slots -> Request \cup {Idle}]
    BY <1>4, FinishType DEF AssignAnnounce
  <2>4. CASE Commit(s, r, keys, {})
    BY <1>4, <2>1, <2>2, <2>3, <2>4, CommitType DEF AssignAnnounce, TypeOK
  <2>5. CASE RollBack(s, keys)
    BY <1>4, <2>3, <2>5 DEF AssignAnnounce, RollBack, TypeOK
  <2> QED  BY <1>4, <2>4, <2>5 DEF AssignAnnounce
<1>5. CASE HandoverCommit(s)
  <2>1. q \in Request /\ r \in Row /\ q.courier \in Couriers \cup {NoCourier}
    BY <1>0, <1>5 DEF HandoverCommit, Op
  <2>2. HandoverRow(r, q.courier) \in Row /\ {} \in SUBSET Key /\ {} \in SUBSET PaymentEvent
    BY <2>1, HandoverRowType
  <2>3. requests' \in [Slots -> Request \cup {Idle}]
    BY <1>5, FinishType DEF HandoverCommit
  <2> QED  BY <1>5, <2>1, <2>2, <2>3, CommitType DEF HandoverCommit, TypeOK
<1>6. CASE EditCommit(s)
  <2>1. lines' \in [Orders -> 0..MaxEdits]
    BY <1>0, <1>6, EditAssumption DEF EditCommit, TypeOK, Op
  <2>2. requests' \in [Slots -> Request \cup {Idle}]
    BY <1>6, FinishType DEF EditCommit
  <2> QED  BY <1>6, <2>1, <2>2 DEF EditCommit, TypeOK
<1>7. ASSUME NEW g \in BOOLEAN, SupportCommit(s, g) PROVE TypeOK'
  <2>1. q \in Request /\ r \in Row
    BY <1>0, <1>7 DEF SupportCommit, Op
  <2>2. [r EXCEPT !.gated = g] \in Row /\ {} \in SUBSET Key /\ {} \in SUBSET PaymentEvent
    BY <2>1 DEF Row
  <2>3. requests' \in [Slots -> Request \cup {Idle}]
    BY <1>7, FinishType DEF SupportCommit
  <2> QED  BY <1>7, <2>1, <2>2, <2>3, CommitType DEF SupportCommit, TypeOK
<1>8. CASE AbortCommit(s)
  <2>1. q \in Request /\ r \in Row
    BY <1>0, <1>8 DEF AbortCommit, Op
  <2>2. /\ [r EXCEPT !.status = "voided", !.pay = "failed"] \in Row
        /\ {} \in SUBSET Key /\ {"online_checkout_aborted"} \in SUBSET PaymentEvent
    BY <2>1 DEF Row, OrderStatus, PaymentStatus, PaymentEvent
  <2>3. requests' \in [Slots -> Request \cup {Idle}]
    BY <1>8, FinishType DEF AbortCommit
  <2>4. CASE Commit(s, [r EXCEPT !.status = "voided", !.pay = "failed"], {},
                    {"online_checkout_aborted"})
    BY <1>8, <2>1, <2>2, <2>3, <2>4, CommitType DEF AbortCommit, TypeOK
  <2>5. CASE UNCHANGED <<order, outbox, events>>
    BY <1>8, <2>3, <2>5 DEF AbortCommit, TypeOK
  <2> QED  BY <1>8, <2>4, <2>5 DEF AbortCommit
<1>9. CASE WebhookFailedCommit(s)
  <2>1. q \in Request /\ r \in Row
    BY <1>0, <1>9 DEF WebhookFailedCommit, Op
  <2>2. [r EXCEPT !.pay = "failed"] \in Row /\ {} \in SUBSET Key /\ {} \in SUBSET PaymentEvent
    BY <2>1 DEF Row, PaymentStatus
  <2>3. requests' \in [Slots -> Request \cup {Idle}]
    BY <1>9, FinishType DEF WebhookFailedCommit
  <2> QED  BY <1>9, <2>1, <2>2, <2>3, CommitType DEF WebhookFailedCommit, TypeOK
<1>10. CASE JobRead(s)
  <2>1. q.order \in Orders
    BY <1>0, <1>10 DEF JobRead, Op
  <2>2. [Ask("job_status", q.order) EXCEPT !.to = "paid"] \in Request
    BY <2>1 DEF Ask, Request, Op, OrderStatus
  <2>3. requests' \in [Slots -> Request \cup {Idle}]
    BY <1>10, <2>2 DEF JobRead, TypeOK
  <2> QED  BY <1>10, <2>3 DEF JobRead, TypeOK
<1>11. CASE JobFails(s)
  BY <1>11, FinishType DEF JobFails, TypeOK
<1> QED  BY <1>1, <1>2, <1>3, <1>4, <1>5, <1>6, <1>7, <1>8, <1>9, <1>10, <1>11
         DEF HandlerWrites

LEMMA InitType == Init => TypeOK
<1> SUFFICES ASSUME Init PROVE TypeOK
  OBVIOUS
<1>1. order \in [Orders -> Row]
  BY PlacementAssumption, PlacementType DEF Init
<1>2. \A o \in Orders : PlacementEvents(order[o]) \in SUBSET PaymentEvent
  BY DEF PlacementEvents, PaymentEvent, Evidence
<1>3. events \in [Orders -> SUBSET PaymentEvent]
  BY <1>2 DEF Init
<1>4. outbox \in [Orders -> SUBSET Key]
  BY DEF Init, Key
<1>5. lines \in [Orders -> 0..MaxEdits]
  <2>1. 0 \in 0..MaxEdits
    BY EditAssumption
  <2> QED  BY <2>1 DEF Init
<1>6. jobs \subseteq Orders /\ requests \in [Slots -> Request \cup {Idle}]
  BY DEF Init
<1> QED  BY <1>1, <1>3, <1>4, <1>5, <1>6 DEF TypeOK

LEMMA StepType == TypeOK /\ [Next]_vars => TypeOK'
<1> SUFFICES ASSUME TypeOK, [Next]_vars PROVE TypeOK'
  OBVIOUS
<1>1. ASSUME NEW s \in Slots, NEW o \in Orders, HandlerBegins(s, o) PROVE TypeOK'
  BY <1>1, HandlerBeginsType
<1>2. ASSUME NEW s \in Slots, HandlerWrites(s) PROVE TypeOK'
  BY <1>2, HandlerWritesType
<1>3. ASSUME NEW s \in Slots, Crash(s) PROVE TypeOK'
  BY <1>3, FinishType DEF Crash, TypeOK
<1>4. ASSUME NEW o \in Orders, WebhookPaid(o) PROVE TypeOK'
  BY <1>4 DEF WebhookPaid, TypeOK, PaymentEvent, Evidence
<1>5. ASSUME NEW o \in Orders, ReleaseTimeComes(o) PROVE TypeOK'
  <2>1. [order[o] EXCEPT !.gated = FALSE] \in Row
    BY DEF TypeOK, Row
  <2> QED  BY <1>5, <2>1 DEF ReleaseTimeComes, TypeOK
<1>6. CASE UNCHANGED vars
  BY <1>6 DEF vars, TypeOK
<1> QED  BY <1>1, <1>2, <1>3, <1>4, <1>5, <1>6 DEF Next

\* The tables and requests keep their types: every order stays a well-formed
\* row, every outbox key and payment event one the code knows how to write.
THEOREM TypeCorrect == Spec => []TypeOK
BY InitType, StepType, PTL DEF Spec

----------------------------------------------------------------------------
(* The inductive invariant behind the safety properties: besides the       *)
(* tables it constrains what the requests in flight have decided.          *)

IInv == TypeOK /\ PreparedImpliesTicketed /\ SettledHasEvidence /\ RequestsJustified

\* The two promises about a single order.
OrderOK(o) ==
  /\ order[o].status \in Prepared => Ticketed(o)
  /\ order[o].status \in {"paid", "delivered"} \/ order[o].pay = "completed" => MoneyTaken(o)

LEMMA OrdersOK ==
  PreparedImpliesTicketed /\ SettledHasEvidence <=> \A o \in Orders : OrderOK(o)
BY DEF PreparedImpliesTicketed, SettledHasEvidence, OrderOK

\* Outbox rows and payment events are only ever added.
Grows == \A o \in Orders : outbox[o] \subseteq outbox'[o] /\ events[o] \subseteq events'[o]

LEMMA GrowsKeeps ==
  ASSUME Grows, NEW o \in Orders
  PROVE  (Ticketed(o) => Ticketed(o)') /\ (MoneyTaken(o) => MoneyTaken(o)')
BY DEF Grows, Ticketed, MoneyTaken

LEMMA CommitGrows ==
  ASSUME TypeOK, NEW s \in Slots, NEW r, NEW keys, NEW evs, Commit(s, r, keys, evs)
  PROVE  Grows
BY DEF TypeOK, Commit, Grows

LEMMA UnchangedGrows ==
  ASSUME UNCHANGED <<outbox, events>>
  PROVE  Grows
BY DEF Grows

\* A transaction keeps the promises when the row it writes is covered by what
\* is in the tables already or is appended with it.
LEMMA CommitKeepsOrders ==
  ASSUME IInv, NEW s \in Slots, requests[s].order \in Orders,
         NEW r, NEW keys, NEW evs, Commit(s, r, keys, evs),
         r.status \in Prepared => KitchenKeys \subseteq outbox[requests[s].order] \cup keys,
         r.status \in {"paid", "delivered"} \/ r.pay = "completed"
           => (events[requests[s].order] \cup evs) \cap Evidence # {}
  PROVE  \A o \in Orders : OrderOK(o)'
<1> SUFFICES ASSUME NEW o \in Orders PROVE OrderOK(o)'
  OBVIOUS
<1>1. CASE o = requests[s].order
  BY <1>1 DEF IInv, TypeOK, Commit, OrderOK, Ticketed, MoneyTaken
<1>2. CASE o # requests[s].order
  BY <1>2, OrdersOK DEF IInv, TypeOK, Commit, OrderOK, Ticketed, MoneyTaken
<1> QED  BY <1>1, <1>2

LEMMA UnchangedKeepsOrders ==
  ASSUME IInv, UNCHANGED <<order, outbox, events>>
  PROVE  \A o \in Orders : OrderOK(o)'
BY OrdersOK DEF IInv, OrderOK, Ticketed, MoneyTaken

\* Requests stay justified when one of them ends ...
LEMMA FinishKeepsJustified ==
  ASSUME IInv, Grows, NEW s \in Slots, Finish(s), jobs' \subseteq jobs
  PROVE  RequestsJustified'
<1>1. ASSUME NEW t \in Slots, (requests[t] # Idle)'
      PROVE  Justified(requests[t])'
  <2>1. t # s /\ requests'[t] = requests[t]
    BY <1>1 DEF IInv, TypeOK, Finish
  <2>2. requests[t] \in Request /\ requests[t].order \in Orders /\ Justified(requests[t])
    BY <1>1, <2>1 DEF IInv, TypeOK, RequestsJustified, Request
  <2>3. /\ Ticketed(requests[t].order) => (KitchenKeys \subseteq outbox'[requests[t].order])
        /\ MoneyTaken(requests[t].order) => (events'[requests[t].order] \cap Evidence # {})
    BY <2>2 DEF Grows, Ticketed, MoneyTaken
  <2> QED  BY <2>1, <2>2, <2>3 DEF Justified, Ticketed, MoneyTaken
<1>2. ASSUME NEW o \in jobs'
      PROVE  "online_webhook_paid" \in events'[o]
  BY <1>2 DEF IInv, TypeOK, RequestsJustified, Grows
<1> QED  BY <1>1, <1>2 DEF RequestsJustified

\* ... and when a justified one begins.
LEMMA BeginKeeps ==
  ASSUME IInv, NEW s \in Slots, NEW q \in Request, Justified(q), Begin(s, q), UNCHANGED jobs
  PROVE  IInv'
<1>1. TypeOK'
  BY BeginType DEF IInv
<1>2. \A o \in Orders : OrderOK(o)'
  BY UnchangedKeepsOrders DEF Begin
<1>3. PreparedImpliesTicketed' /\ SettledHasEvidence'
  BY <1>2 DEF PreparedImpliesTicketed, SettledHasEvidence, OrderOK
<1>4. ASSUME NEW t \in Slots, (requests[t] # Idle)'
      PROVE  Justified(requests[t])'
  <2>1. CASE t = s
    BY <2>1 DEF Begin, IInv, TypeOK, Justified, Ticketed, MoneyTaken
  <2>2. CASE t # s
    <3>1. requests'[t] = requests[t] /\ Justified(requests[t])
      BY <1>4, <2>2 DEF Begin, IInv, TypeOK, RequestsJustified
    <3> QED  BY <3>1 DEF Begin, Justified, Ticketed, MoneyTaken
  <2> QED  BY <2>1, <2>2
<1>5. RequestsJustified'
  BY <1>4 DEF RequestsJustified, Begin, IInv
<1> QED  BY <1>1, <1>3, <1>5 DEF IInv

\* What a row that was read proves about the move decided on it.
LEMMA AcceptedMove ==
  ASSUME NEW o \in Orders, OrderOK(o), NEW to \in OrderStatus, NEW a,
         StatusChangeAccepted(order[o], to, a)
  PROVE  /\ to \in Prepared \ {"in_kitchen"} => Ticketed(o)
         /\ to \in {"paid", "delivered"} => MoneyTaken(o)
<1>1. <<order[o].status, to>> \in transitionGraph /\ RoleMayEnter(order[o], to, RoleOf(a))
  BY DEF StatusChangeAccepted, canTransition
<1>2. to \in Prepared \ {"in_kitchen"} => order[o].status \in Prepared
  BY <1>1 DEF transitionGraph, Prepared
<1>3. to \in {"paid", "delivered"} => order[o].pay = "completed"
  BY <1>1 DEF StatusChangeAccepted, RoleMayEnter
<1> QED  BY <1>2, <1>3 DEF OrderOK

LEMMA HandlerBeginsKeeps ==
  ASSUME IInv, NEW s \in Slots, NEW o \in Orders, HandlerBegins(s, o)
  PROVE  IInv'
<1>0. OrderOK(o)
  BY OrdersOK DEF IInv
<1>1. ASSUME NEW a \in Actors, NEW to \in OrderStatus, NEW c \in Couriers \cup {NoCourier},
             StatusBegin(s, o, a, to, c)
      PROVE  IInv'
  <2> DEFINE q == [Ask("status", o) EXCEPT !.to = to, !.courier = c]
  <2>1. q \in Request
    BY DEF Ask, Request, Op, OrderStatus
  <2>2. Justified(q)
    BY <1>0, <1>1, AcceptedMove DEF StatusBegin, Justified, Ask
  <2> QED  BY <1>1, <2>1, <2>2, BeginKeeps DEF StatusBegin
<1>2. ASSUME NEW a \in Actors, NEW m \in {"cash", "card"}, CollectBegin(s, o, a, m)
      PROVE  IInv'
  <2> DEFINE q == [Ask("collect", o) EXCEPT !.to = CollectionStatus(order[o]), !.method = m]
  <2>1. CollectionStatus(order[o]) \in {"keep", "paid", "delivered"}
    BY DEF CollectionStatus
  <2>2. q \in Request
    BY <2>1 DEF Ask, Request, Op, OrderStatus
  <2>3. CollectionStatus(order[o]) = "delivered" => Ticketed(o)
    BY <1>0 DEF CollectionStatus, OrderOK, Prepared
  <2>4. Justified(q)
    BY <2>1, <2>3 DEF Justified, Ask, Prepared
  <2> QED  BY <1>2, <2>2, <2>4, BeginKeeps DEF CollectBegin
<1>3. ASSUME NEW a \in Actors, NEW c \in Couriers, AssignBegin(s, o, a, c)
      PROVE  IInv'
  <2> DEFINE q == [Ask("assign", o) EXCEPT !.courier = c]
  <2>1. q \in Request
    BY DEF Ask, Request, Op
  <2>2. Justified(q)
    BY <1>0, <1>3 DEF AssignBegin, OrderOK, Justified, Ask, Prepared
  <2> QED  BY <1>3, <2>1, <2>2, BeginKeeps DEF AssignBegin
<1>4. ASSUME NEW a \in Actors, NEW c \in Couriers \cup {NoCourier}, HandoverBegin(s, o, a, c)
      PROVE  IInv'
  <2> DEFINE q == [Ask("handover", o) EXCEPT !.courier = c]
  <2>1. q \in Request
    BY DEF Ask, Request, Op
  <2>2. Justified(q)
    BY <1>0, <1>4 DEF HandoverBegin, OrderOK, Justified, Ask, Prepared
  <2> QED  BY <1>4, <2>1, <2>2, BeginKeeps DEF HandoverBegin
<1>5. ASSUME NEW a \in Actors, NEW hasReason \in BOOLEAN, EditBegin(s, o, a, hasReason)
      PROVE  IInv'
  <2> DEFINE q == [Ask("edit", o) EXCEPT !.override = (a = "ADMIN" /\ hasReason)]
  <2>1. q \in Request /\ Justified(q)
    BY DEF Ask, Request, Op, Justified, Prepared
  <2> QED  BY <1>5, <2>1, BeginKeeps DEF EditBegin
<1>6. ASSUME NEW a \in Actors, SupportBegin(s, o, a)
      PROVE  IInv'
  <2>1. Ask("support", o) \in Request /\ Justified(Ask("support", o))
    BY AskType DEF Op, Justified, Ask, Prepared
  <2> QED  BY <1>6, <2>1, BeginKeeps DEF SupportBegin
<1>7. ASSUME AbortBegin(s, o)
      PROVE  IInv'
  <2>1. Ask("abort", o) \in Request /\ Justified(Ask("abort", o))
    BY AskType DEF Op, Justified, Ask, Prepared
  <2> QED  BY <1>7, <2>1, BeginKeeps DEF AbortBegin
<1>8. ASSUME WebhookFailedBegin(s, o)
      PROVE  IInv'
  <2>1. Ask("fail", o) \in Request /\ Justified(Ask("fail", o))
    BY AskType DEF Op, Justified, Ask, Prepared
  <2> QED  BY <1>8, <2>1, BeginKeeps DEF WebhookFailedBegin
<1>9. ASSUME JobBegin(s, o)
      PROVE  IInv'
  <2>1. TypeOK'
    BY <1>9, HandlerBeginsType DEF IInv, HandlerBegins
  <2>2. MoneyTaken(o)
    BY <1>9 DEF JobBegin, IInv, RequestsJustified, MoneyTaken, Evidence
  <2>3. \A p \in Orders : OrderOK(p)'
    <3> SUFFICES ASSUME NEW p \in Orders PROVE OrderOK(p)'
      OBVIOUS
    <3>1. CASE p = o
      BY <1>0, <1>9, <2>2, <3>1 DEF JobBegin, OrderOK, IInv, TypeOK, Row, Ticketed, MoneyTaken
    <3>2. CASE p # o
      <4>1. OrderOK(p)
        BY OrdersOK DEF IInv
      <4> QED  BY <1>9, <3>2, <4>1 DEF JobBegin, OrderOK, IInv, TypeOK, Ticketed, MoneyTaken
    <3> QED  BY <3>1, <3>2
  <2>4. PreparedImpliesTicketed' /\ SettledHasEvidence'
    BY <2>3 DEF PreparedImpliesTicketed, SettledHasEvidence, OrderOK
  <2>5. ASSUME NEW t \in Slots, (requests[t] # Idle)'
        PROVE  Justified(requests[t])'
    <3>1. CASE t = s
      BY <1>9, <3>1 DEF JobBegin, IInv, TypeOK, Justified, Ask, Prepared
    <3>2. CASE t # s
      <4>1. requests'[t] = requests[t] /\ Justified(requests[t])
        BY <1>9, <2>5, <3>2 DEF JobBegin, IInv, TypeOK, RequestsJustified
      <4> QED  BY <1>9, <4>1 DEF JobBegin, Justified, Ticketed, MoneyTaken
    <3> QED  BY <3>1, <3>2
  <2>6. RequestsJustified'
    BY <1>9, <2>5 DEF RequestsJustified, JobBegin, IInv
  <2> QED  BY <2>1, <2>4, <2>6 DEF IInv
<1> QED  BY <1>1, <1>2, <1>3, <1>4, <1>5, <1>6, <1>7, <1>8, <1>9 DEF HandlerBegins

\* A write keeps the invariant when it keeps the orders, adds rows only and
\* ends its request.
LEMMA WriteKeeps ==
  ASSUME IInv, TypeOK', NEW s \in Slots, Finish(s), jobs' \subseteq jobs, Grows,
         \A o \in Orders : OrderOK(o)'
  PROVE  IInv'
<1>1. PreparedImpliesTicketed' /\ SettledHasEvidence'
  BY DEF PreparedImpliesTicketed, SettledHasEvidence, OrderOK
<1> QED  BY <1>1, FinishKeepsJustified DEF IInv

LEMMA HandlerWritesKeeps ==
  ASSUME IInv, NEW s \in Slots, HandlerWrites(s)
  PROVE  IInv'
<1> DEFINE q == requests[s]
           r == order[q.order]
<1>0. TypeOK'
  BY HandlerWritesType DEF IInv
<1>a. ASSUME q.op \in Op
      PROVE  q \in Request /\ q.order \in Orders /\ r \in Row /\ Justified(q) /\ OrderOK(q.order)
  <2>1. q \in Request /\ q # Idle
    BY <1>a, RequestOfOp DEF IInv, Idle, Op
  <2>2. q.order \in Orders
    BY <2>1 DEF Request
  <2> QED  BY <2>1, <2>2, OrdersOK DEF IInv, TypeOK, RequestsJustified
<1>1. CASE StatusCommit(s)
  <2> DEFINE saved == WithStatus(r, q.to, q.courier)
             evs   == IF q.to = "refunded" THEN {"order_refunded"} ELSE {}
  <2>1. /\ q \in Request /\ q.order \in Orders /\ r \in Row /\ q.to \in OrderStatus
        /\ Justified(q) /\ OrderOK(q.order) /\ q.op \in {"status", "job_status"}
    BY <1>a, <1>1 DEF StatusCommit, Op, Request
  <2>2. jobs' \subseteq jobs /\ Finish(s)
    BY <1>1 DEF StatusCommit
  <2>3. CASE Commit(s, saved, StatusKeys(q.to), evs)
    <3>1. saved.status = q.to /\ saved.pay \in {r.pay, "refunded"}
      BY <2>1 DEF WithStatus, Row
    <3>2. q.to \in Prepared => KitchenKeys \subseteq outbox[q.order] \cup StatusKeys(q.to)
      <4>1. CASE q.to = "in_kitchen"
        BY <4>1 DEF StatusKeys, KitchenKeys
      <4>2. CASE q.to # "in_kitchen"
        BY <2>1, <4>2 DEF Justified, Ticketed
      <4> QED  BY <4>1, <4>2
    <3>3. saved.status \in {"paid", "delivered"} \/ saved.pay = "completed" => MoneyTaken(q.order)
      BY <2>1, <3>1 DEF Justified, OrderOK
    <3>4. \A o \in Orders : OrderOK(o)'
      <4> HIDE DEF saved, evs, q, r
      <4> QED  BY <2>1, <2>3, <3>1, <3>2, <3>3, CommitKeepsOrders DEF q, MoneyTaken
    <3>5. Grows
      BY <2>3, CommitGrows DEF IInv
    <3> QED  BY <1>0, <2>2, <3>4, <3>5, WriteKeeps
  <2>4. CASE RollBack(s, StatusKeys(q.to))
    <3>1. (\A o \in Orders : OrderOK(o)') /\ Grows
      BY <2>4, UnchangedKeepsOrders, UnchangedGrows DEF RollBack
    <3> QED  BY <1>0, <2>2, <3>1, WriteKeeps
  <2> QED  BY <1>1, <2>3, <2>4 DEF StatusCommit
<1>2. CASE CollectCommit(s)
  <2> DEFINE saved == WithPayment(r, q.to, q.method)
             ev    == IF q.method = "cash" THEN "cash_collected" ELSE "card_collected"
             keys  == CollectKeys(saved, q.method)
  <2>1. /\ q \in Request /\ q.order \in Orders /\ r \in Row /\ Justified(q) /\ OrderOK(q.order)
        /\ q.to \in {"keep", "paid", "delivered"}
    BY <1>a, <1>2 DEF CollectCommit, Op, Request
  <2>2. jobs' \subseteq jobs /\ Finish(s)
    BY <1>2 DEF CollectCommit
  <2>3. CASE Commit(s, saved, keys, {ev})
    <3>1. saved.status = (IF q.to = "keep" THEN r.status ELSE q.to)
      BY <2>1 DEF WithPayment, Row
    <3>2. saved.status \in Prepared => Ticketed(q.order)
      BY <2>1, <3>1 DEF Justified, OrderOK, Prepared
    <3>3. (events[q.order] \cup {ev}) \cap Evidence # {}
      BY DEF Evidence
    <3>4. \A o \in Orders : OrderOK(o)'
      <4> HIDE DEF saved, ev, keys, q, r
      <4> QED  BY <2>1, <2>3, <3>2, <3>3, CommitKeepsOrders DEF q, Ticketed
    <3>5. Grows
      BY <2>3, CommitGrows DEF IInv
    <3> QED  BY <1>0, <2>2, <3>4, <3>5, WriteKeeps
  <2>4. CASE RollBack(s, keys)
    <3>1. (\A o \in Orders : OrderOK(o)') /\ Grows
      BY <2>4, UnchangedKeepsOrders, UnchangedGrows DEF RollBack
    <3> QED  BY <1>0, <2>2, <3>1, WriteKeeps
  <2> QED  BY <1>2, <2>3, <2>4 DEF CollectCommit
<1>3. CASE AssignWrite(s)
  <2>1. /\ q \in Request /\ q.order \in Orders /\ r \in Row /\ Justified(q) /\ OrderOK(q.order)
        /\ q.op = "assign"
    BY <1>a, <1>3 DEF AssignWrite, Op
  <2>2. Ticketed(q.order)
    BY <2>1 DEF Justified
  <2>3. ASSUME NEW o \in Orders
        PROVE  OrderOK(o)'
    <3>1. CASE o = q.order
      BY <1>3, <2>1, <2>2, <3>1 DEF AssignWrite, IInv, TypeOK, WithStatus, Row, OrderOK,
                                    Ticketed, MoneyTaken
    <3>2. CASE o # q.order
      <4>1. OrderOK(o)
        BY OrdersOK DEF IInv
      <4> QED  BY <1>3, <3>2, <4>1 DEF AssignWrite, IInv, TypeOK, OrderOK, Ticketed, MoneyTaken
    <3> QED  BY <3>1, <3>2
  <2>4. PreparedImpliesTicketed' /\ SettledHasEvidence'
    BY <2>3 DEF PreparedImpliesTicketed, SettledHasEvidence, OrderOK
  <2>5. ASSUME NEW t \in Slots, (requests[t] # Idle)'
        PROVE  Justified(requests[t])'
    <3>1. CASE t = s
      BY <1>3, <2>1, <3>1 DEF AssignWrite, IInv, TypeOK, Request, Justified, Ticketed, MoneyTaken
    <3>2. CASE t # s
      <4>1. requests'[t] = requests[t] /\ Justified(requests[t])
        BY <1>3, <2>5, <3>2 DEF AssignWrite, IInv, TypeOK, RequestsJustified
      <4> QED  BY <1>3, <4>1 DEF AssignWrite, Justified, Ticketed, MoneyTaken
    <3> QED  BY <3>1, <3>2
  <2>6. RequestsJustified'
    BY <1>3, <2>5 DEF RequestsJustified, AssignWrite, IInv
  <2> QED  BY <1>0, <2>4, <2>6 DEF IInv
<1>4. CASE AssignAnnounce(s)
  <2> DEFINE keys == {<<"notification.order_in_transit", "">>}
  <2>1. q.order \in Orders /\ OrderOK(q.order)
    BY <1>a, <1>4 DEF AssignAnnounce, Op
  <2>2. jobs' \subseteq jobs /\ Finish(s)
    BY <1>4 DEF AssignAnnounce
  <2>3. CASE Commit(s, r, keys, {})
    <3>1. \A o \in Orders : OrderOK(o)'
      BY <2>1, <2>3, CommitKeepsOrders DEF OrderOK, Ticketed, MoneyTaken
    <3>2. Grows
      BY <2>3, CommitGrows DEF IInv
    <3> QED  BY <1>0, <2>2, <3>1, <3>2, WriteKeeps
  <2>4. CASE RollBack(s, keys)
    <3>1. (\A o \in Orders : OrderOK(o)') /\ Grows
      BY <2>4, UnchangedKeepsOrders, UnchangedGrows DEF RollBack
    <3> QED  BY <1>0, <2>2, <3>1, WriteKeeps
  <2> QED  BY <1>4, <2>3, <2>4 DEF AssignAnnounce
<1>5. CASE HandoverCommit(s)
  <2>1. q.order \in Orders /\ r \in Row /\ OrderOK(q.order) /\ Ticketed(q.order)
    BY <1>a, <1>5 DEF HandoverCommit, Op, Justified
  <2>2. HandoverRow(r, q.courier).status \in {"ready", r.status} /\ HandoverRow(r, q.courier).pay = r.pay
    BY <2>1 DEF HandoverRow, Row
  <2>3. \A o \in Orders : OrderOK(o)'
    BY <1>5, <2>1, <2>2, CommitKeepsOrders DEF HandoverCommit, OrderOK, Ticketed, MoneyTaken
  <2>4. Grows
    BY <1>5, CommitGrows DEF HandoverCommit, IInv
  <2> QED  BY <1>0, <1>5, <2>3, <2>4, WriteKeeps DEF HandoverCommit
<1>6. CASE EditCommit(s)
  <2>1. (\A o \in Orders : OrderOK(o)') /\ Grows
    BY <1>6, UnchangedKeepsOrders, UnchangedGrows DEF EditCommit
  <2> QED  BY <1>0, <1>6, <2>1, WriteKeeps DEF EditCommit
<1>7. ASSUME NEW g \in BOOLEAN, SupportCommit(s, g) PROVE IInv'
  <2>1. q.order \in Orders /\ r \in Row /\ OrderOK(q.order)
    BY <1>a, <1>7 DEF SupportCommit, Op
  <2>2. [r EXCEPT !.gated = g].status = r.status /\ [r EXCEPT !.gated = g].pay = r.pay
    BY <2>1 DEF Row
  <2>3. \A o \in Orders : OrderOK(o)'
    BY <1>7, <2>1, <2>2, CommitKeepsOrders DEF SupportCommit, OrderOK, Ticketed, MoneyTaken
  <2>4. Grows
    BY <1>7, CommitGrows DEF SupportCommit, IInv
  <2> QED  BY <1>0, <1>7, <2>3, <2>4, WriteKeeps DEF SupportCommit
<1>8. CASE AbortCommit(s)
  <2> DEFINE saved == [r EXCEPT !.status = "voided", !.pay = "failed"]
  <2>1. q.order \in Orders /\ r \in Row
    BY <1>a, <1>8 DEF AbortCommit, Op
  <2>2. CASE Commit(s, saved, {}, {"online_checkout_aborted"})
    <3>1. saved.status = "voided" /\ saved.pay = "failed"
      BY <2>1 DEF Row
    <3>2. \A o \in Orders : OrderOK(o)'
      BY <2>1, <2>2, <3>1, CommitKeepsOrders DEF Prepared
    <3>3. Grows
      BY <2>2, CommitGrows DEF IInv
    <3> QED  BY <1>0, <1>8, <3>2, <3>3, WriteKeeps DEF AbortCommit
  <2>3. CASE UNCHANGED <<order, outbox, events>>
    <3>1. (\A o \in Orders : OrderOK(o)') /\ Grows
      BY <2>3, UnchangedKeepsOrders, UnchangedGrows
    <3> QED  BY <1>0, <1>8, <3>1, WriteKeeps DEF AbortCommit
  <2> QED  BY <1>8, <2>2, <2>3 DEF AbortCommit
<1>9. CASE WebhookFailedCommit(s)
  <2> DEFINE saved == [r EXCEPT !.pay = "failed"]
  <2>1. q.order \in Orders /\ r \in Row /\ OrderOK(q.order)
    BY <1>a, <1>9 DEF WebhookFailedCommit, Op
  <2>2. saved.status = r.status /\ saved.pay = "failed"
    BY <2>1 DEF Row
  <2>3. \A o \in Orders : OrderOK(o)'
    BY <1>9, <2>1, <2>2, CommitKeepsOrders DEF WebhookFailedCommit, OrderOK, Ticketed, MoneyTaken
  <2>4. Grows
    BY <1>9, CommitGrows DEF WebhookFailedCommit, IInv
  <2> QED  BY <1>0, <1>9, <2>3, <2>4, WriteKeeps DEF WebhookFailedCommit
<1>10. CASE JobRead(s)
  <2> DEFINE accepted == StatusChangeAccepted(order[q.order], "paid", "ADMIN")
             decided  == [Ask("job_status", q.order) EXCEPT !.to = "paid"]
  <2>1. q.order \in Orders /\ OrderOK(q.order)
    BY <1>a, <1>10 DEF JobRead, Op
  <2>2. (\A o \in Orders : OrderOK(o)') /\ Grows
    BY <1>10, UnchangedKeepsOrders, UnchangedGrows DEF JobRead
  <2>3. CASE ~accepted
    BY <1>0, <1>10, <2>2, <2>3, WriteKeeps DEF JobRead, Finish
  <2>4. CASE accepted
    <3>1. Justified(decided)
      BY <2>1, <2>4, AcceptedMove DEF Justified, Ask, OrderStatus, Prepared
    <3>2. requests' = [requests EXCEPT ![s] = decided] /\ UNCHANGED <<outbox, events, jobs>>
      BY <1>10, <2>4 DEF JobRead
    <3>3. ASSUME NEW t \in Slots, (requests[t] # Idle)'
          PROVE  Justified(requests[t])'
      <4>1. CASE t = s
        BY <3>1, <3>2, <4>1 DEF IInv, TypeOK, Justified, Ticketed, MoneyTaken
      <4>2. CASE t # s
        <5>1. requests'[t] = requests[t] /\ Justified(requests[t])
          BY <3>2, <3>3, <4>2 DEF IInv, TypeOK, RequestsJustified
        <5> QED  BY <3>2, <5>1 DEF Justified, Ticketed, MoneyTaken
      <4> QED  BY <4>1, <4>2
    <3>4. RequestsJustified'
      BY <3>2, <3>3 DEF RequestsJustified, IInv
    <3>5. PreparedImpliesTicketed' /\ SettledHasEvidence'
      BY <2>2 DEF PreparedImpliesTicketed, SettledHasEvidence, OrderOK
    <3> QED  BY <1>0, <3>4, <3>5 DEF IInv
  <2> QED  BY <2>3, <2>4
<1>11. CASE JobFails(s)
  <2>1. (\A o \in Orders : OrderOK(o)') /\ Grows
    BY <1>11, UnchangedKeepsOrders, UnchangedGrows DEF JobFails
  <2>2. jobs' \subseteq jobs
    BY <1>11 DEF JobFails
  <2> QED  BY <1>0, <1>11, <2>1, <2>2, WriteKeeps DEF JobFails
<1> QED  BY <1>1, <1>2, <1>3, <1>4, <1>5, <1>6, <1>7, <1>8, <1>9, <1>10, <1>11
         DEF HandlerWrites

----------------------------------------------------------------------------
(* The theorems.                                                           *)

LEMMA InitEstablishes == Init => IInv
<1> SUFFICES ASSUME Init PROVE IInv
  OBVIOUS
<1>1. TypeOK
  BY InitType
<1>2. \A o \in Orders : order[o] \in Placement
  BY PlacementAssumption DEF Init
<1>3. \A r \in Placement : r.status \notin Prepared /\ (r.status = "paid" => r.pay = "completed")
  BY DEF Placement, ClientPlacements, CashierPlacements, CashierPlacement, Prepared
<1>4. \A r \in Placement : r.pay = "completed" => PlacementEvents(r) \cap Evidence # {}
  BY DEF PlacementEvents, Evidence
<1>5. PreparedImpliesTicketed
  BY <1>2, <1>3 DEF PreparedImpliesTicketed
<1>6. SettledHasEvidence
  BY <1>2, <1>3, <1>4 DEF SettledHasEvidence, MoneyTaken, Init, Prepared
<1>7. RequestsJustified
  BY DEF RequestsJustified, Init
<1> QED  BY <1>1, <1>5, <1>6, <1>7 DEF IInv

LEMMA StepKeeps == IInv /\ [Next]_vars => IInv'
<1> SUFFICES ASSUME IInv, [Next]_vars PROVE IInv'
  OBVIOUS
<1>1. ASSUME NEW s \in Slots, NEW o \in Orders, HandlerBegins(s, o) PROVE IInv'
  BY <1>1, HandlerBeginsKeeps
<1>2. ASSUME NEW s \in Slots, HandlerWrites(s) PROVE IInv'
  BY <1>2, HandlerWritesKeeps
<1>3. ASSUME NEW s \in Slots, Crash(s) PROVE IInv'
  <2>1. TypeOK'
    BY <1>3, StepType DEF IInv, Next
  <2>2. (\A o \in Orders : OrderOK(o)') /\ Grows
    BY <1>3, UnchangedKeepsOrders, UnchangedGrows DEF Crash
  <2> QED  BY <1>3, <2>1, <2>2, WriteKeeps DEF Crash
<1>4. ASSUME NEW o \in Orders, WebhookPaid(o) PROVE IInv'
  <2>1. TypeOK'
    BY <1>4, StepType DEF IInv, Next
  <2>2. Grows
    BY <1>4 DEF WebhookPaid, IInv, TypeOK, Grows
  <2>3. ASSUME NEW p \in Orders PROVE OrderOK(p)'
    <3>1. OrderOK(p)
      BY OrdersOK DEF IInv
    <3> QED  BY <1>4, <2>2, <3>1, GrowsKeeps DEF OrderOK, WebhookPaid
  <2>4. PreparedImpliesTicketed' /\ SettledHasEvidence'
    BY <2>3 DEF PreparedImpliesTicketed, SettledHasEvidence, OrderOK
  <2>5. ASSUME NEW t \in Slots, (requests[t] # Idle)'
        PROVE  Justified(requests[t])'
    <3>1. requests[t] \in Request /\ Justified(requests[t]) /\ requests'[t] = requests[t]
      BY <1>4, <2>5 DEF WebhookPaid, IInv, TypeOK, RequestsJustified
    <3>2. requests[t].order \in Orders
      BY <3>1 DEF Request
    <3> QED  BY <2>2, <3>1, <3>2, GrowsKeeps DEF Justified, Grows, Ticketed, MoneyTaken
  <2>6. \A p \in jobs' : "online_webhook_paid" \in events'[p]
    BY <1>4 DEF WebhookPaid, IInv, TypeOK, RequestsJustified
  <2> QED  BY <2>1, <2>4, <2>5, <2>6 DEF IInv, RequestsJustified
<1>5. ASSUME NEW o \in Orders, ReleaseTimeComes(o) PROVE IInv'
  <2>1. TypeOK'
    BY <1>5, StepType DEF IInv, Next
  <2>2. ASSUME NEW p \in Orders PROVE OrderOK(p)'
    <3>1. OrderOK(p)
      BY OrdersOK DEF IInv
    <3>2. order'[p].status = order[p].status /\ order'[p].pay = order[p].pay
      BY <1>5 DEF ReleaseTimeComes, IInv, TypeOK, Row
    <3> QED  BY <1>5, <3>1, <3>2 DEF ReleaseTimeComes, OrderOK, Ticketed, MoneyTaken
  <2>3. PreparedImpliesTicketed' /\ SettledHasEvidence'
    BY <2>2 DEF PreparedImpliesTicketed, SettledHasEvidence, OrderOK
  <2>4. RequestsJustified'
    BY <1>5 DEF ReleaseTimeComes, IInv, RequestsJustified, Justified, Ticketed, MoneyTaken
  <2> QED  BY <2>1, <2>3, <2>4 DEF IInv
<1>6. CASE UNCHANGED vars
  BY <1>6 DEF vars, IInv, TypeOK, PreparedImpliesTicketed, SettledHasEvidence,
              RequestsJustified, Justified, Ticketed, MoneyTaken
<1> QED  BY <1>1, <1>2, <1>3, <1>4, <1>5, <1>6 DEF Next

\* The inductive invariant: types, tickets, evidence and the decisions that
\* wait in the slots hold together in every reachable state.
THEOREM Invariance == Spec => []IInv
BY InitEstablishes, StepKeeps, PTL DEF Spec

\* No order is in the kitchen or beyond without its ticket and its stock
\* deduction queued, whatever the number of handlers racing on it.
THEOREM PreparedOrdersAreTicketed == Spec => []PreparedImpliesTicketed
<1>1. IInv => PreparedImpliesTicketed
  BY DEF IInv
<1> QED  BY <1>1, Invariance, PTL

\* No order is shown as paid or delivered without a record of the money.
THEOREM SettledOrdersHaveEvidence == Spec => []SettledHasEvidence
<1>1. IInv => SettledHasEvidence
  BY DEF IInv
<1> QED  BY <1>1, Invariance, PTL

\* What a handler decided stays justified until it writes.
THEOREM DecisionsStayJustified == Spec => []RequestsJustified
<1>1. IInv => RequestsJustified
  BY DEF IInv
<1> QED  BY <1>1, Invariance, PTL
----------------------------------------------------------------------------
(* The two promises about a single step.                                   *)

\* A write that commits to a row already there: what can change its status.
LEMMA KitchenEntryStep ==
  ASSUME TypeOK, Next, NEW o \in Orders,
         order[o].status # "in_kitchen", order'[o].status = "in_kitchen"
  PROVE  KitchenKeys \cap outbox[o] = {}
<1>1. ASSUME NEW s \in Slots, NEW p \in Orders, HandlerBegins(s, p) PROVE FALSE
  <2>1. CASE JobBegin(s, p)
    <3>1. order'[o].status = order[o].status
      BY <2>1 DEF JobBegin, TypeOK, Row
    <3> QED  BY <3>1
  <2>2. CASE UNCHANGED order
    BY <2>2
  <2> QED  BY <1>1, <2>1, <2>2 DEF HandlerBegins, StatusBegin, CollectBegin, AssignBegin,
                HandoverBegin, EditBegin, SupportBegin, AbortBegin, WebhookFailedBegin, Begin
<1>2. ASSUME NEW s \in Slots, StatusCommit(s) PROVE KitchenKeys \cap outbox[o] = {}
  <2> DEFINE q == requests[s]
  <2>1. q \in Request /\ q.order \in Orders /\ q.to \in OrderStatus
    BY <1>2, RequestOfOp DEF StatusCommit, Op, Request
  <2>2. Commit(s, WithStatus(order[q.order], q.to, q.courier), StatusKeys(q.to),
               IF q.to = "refunded" THEN {"order_refunded"} ELSE {})
    BY <1>2 DEF StatusCommit, RollBack
  <2>3. q.order = o /\ q.to = "in_kitchen"
    BY <2>1, <2>2 DEF Commit, WithStatus, TypeOK, Row
  <2>4. StatusKeys("in_kitchen") = KitchenKeys
    BY DEF StatusKeys, KitchenKeys
  <2> QED  BY <2>2, <2>3, <2>4 DEF Commit
<1>3. ASSUME NEW s \in Slots, CollectCommit(s) PROVE FALSE
  <2> DEFINE q == requests[s]
  <2>1. q \in Request /\ q.order \in Orders /\ q.to \in {"keep", "paid", "delivered"}
    BY <1>3, RequestOfOp DEF CollectCommit, Op, Request
  <2>2. PICK keys, evs : Commit(s, WithPayment(order[q.order], q.to, q.method), keys, evs)
    BY <1>3 DEF CollectCommit, RollBack
  <2>3. order'[o].status \in {order[o].status, "paid", "delivered"}
    BY <2>1, <2>2 DEF Commit, WithPayment, TypeOK, Row
  <2> QED  BY <2>3
<1>4. ASSUME NEW s \in Slots, AssignWrite(s) PROVE FALSE
  <2>1. order'[o].status \in {order[o].status, "in_transit"}
    BY <1>4 DEF AssignWrite, WithStatus, TypeOK, Row
  <2> QED  BY <2>1
<1>5. ASSUME NEW s \in Slots, AssignAnnounce(s) PROVE FALSE
  <2>1. order'[o] = order[o]
    BY <1>5 DEF AssignAnnounce, Commit, RollBack, TypeOK
  <2> QED  BY <2>1
<1>6. ASSUME NEW s \in Slots, HandoverCommit(s) PROVE FALSE
  <2>1. order'[o].status \in {order[o].status, "ready"}
    BY <1>6 DEF HandoverCommit, HandoverRow, Commit, TypeOK, Row
  <2> QED  BY <2>1
<1>7. ASSUME NEW s \in Slots, NEW g \in BOOLEAN, SupportCommit(s, g) PROVE FALSE
  <2>1. order'[o].status = order[o].status
    BY <1>7 DEF SupportCommit, Commit, TypeOK, Row
  <2> QED  BY <2>1
<1>8. ASSUME NEW s \in Slots, AbortCommit(s) PROVE FALSE
  <2> DEFINE p == requests[s].order
  <2>1. CASE order' = [order EXCEPT ![p] = [order[p] EXCEPT !.status = "voided", !.pay = "failed"]]
    <3>1. order'[o].status \in {order[o].status, "voided"}
      BY <2>1 DEF TypeOK, Row
    <3> QED  BY <3>1
  <2>2. CASE UNCHANGED order
    BY <2>2
  <2> QED  BY <1>8, <2>1, <2>2 DEF AbortCommit, Commit
<1>9. ASSUME NEW s \in Slots, WebhookFailedCommit(s) PROVE FALSE
  <2>1. order'[o].status = order[o].status
    BY <1>9 DEF WebhookFailedCommit, Commit, TypeOK, Row
  <2> QED  BY <2>1
<1>10. ASSUME NEW p \in Orders, ReleaseTimeComes(p) PROVE FALSE
  <2>1. order'[o].status = order[o].status
    BY <1>10 DEF ReleaseTimeComes, TypeOK, Row
  <2> QED  BY <2>1
<1>11. ASSUME UNCHANGED order PROVE FALSE
  BY <1>11
<1> QED  BY <1>1, <1>2, <1>3, <1>4, <1>5, <1>6, <1>7, <1>8, <1>9, <1>10, <1>11
         DEF Next, HandlerWrites, EditCommit, JobRead, JobFails, Crash, WebhookPaid

\* The ticket and the stock deduction of an order are issued at most once: a
\* second entry to the kitchen cannot commit.
THEOREM KitchenEnteredOnce == Spec => KitchenEntryOnce
<1>1. TypeOK /\ [Next]_vars =>
        [\A o \in Orders : order[o].status # "in_kitchen" /\ order'[o].status = "in_kitchen"
            => KitchenKeys \cap outbox[o] = {}]_vars
  BY KitchenEntryStep
<1> QED  BY <1>1, TypeCorrect, PTL DEF Spec, KitchenEntryOnce

\* An abort takes effect on an unpaid and untouched order only.
THEOREM AbortOnlyTheUnpaid == Spec => AbortSparesPaid
<1> DEFINE Aborted(o) == "online_checkout_aborted" \in events'[o] \ events[o]
           Open(o)    == order[o].status = "placed" /\ order[o].pay # "completed"
<1>1. ASSUME TypeOK, Next, NEW o \in Orders, Aborted(o)
      PROVE  Open(o)
  <2>1. ASSUME NEW s \in Slots, AbortCommit(s) PROVE Open(o)
    <3>1. requests[s].order = o
      BY <1>1, <2>1 DEF AbortCommit, Commit, TypeOK
    <3>2. AbortApplies(order[requests[s].order])
      BY <1>1, <2>1 DEF AbortCommit
    <3> QED  BY <3>1, <3>2 DEF AbortApplies
  <2>2. ASSUME NEW s \in Slots, NEW r, NEW keys, NEW evs, Commit(s, r, keys, evs),
               "online_checkout_aborted" \notin evs
        PROVE  FALSE
    <3>1. requests[s].order = o
      BY <1>1, <2>2 DEF Commit, TypeOK
    <3> QED  BY <1>1, <2>2, <3>1 DEF Commit, TypeOK
  <2>3. ASSUME NEW s \in Slots, StatusCommit(s) PROVE FALSE
    <3>1. PICK r, keys, evs : Commit(s, r, keys, evs) /\ evs \subseteq {"order_refunded"}
      BY <1>1, <2>3 DEF StatusCommit, RollBack
    <3> QED  BY <2>2, <3>1
  <2>4. ASSUME NEW s \in Slots, CollectCommit(s) PROVE FALSE
    <3>1. PICK r, keys, evs : Commit(s, r, keys, evs)
                              /\ evs \subseteq {"cash_collected", "card_collected"}
      BY <1>1, <2>4 DEF CollectCommit, RollBack
    <3> QED  BY <2>2, <3>1
  <2>5. ASSUME NEW s \in Slots,
               \/ AssignAnnounce(s) \/ HandoverCommit(s) \/ WebhookFailedCommit(s)
               \/ \E g \in BOOLEAN : SupportCommit(s, g)
        PROVE  FALSE
    <3>1. PICK r, keys : Commit(s, r, keys, {})
      BY <1>1, <2>5 DEF AssignAnnounce, HandoverCommit, WebhookFailedCommit, SupportCommit, RollBack
    <3> QED  BY <2>2, <3>1
  <2>6. ASSUME NEW p \in Orders, WebhookPaid(p) PROVE FALSE
    BY <1>1, <2>6 DEF WebhookPaid, TypeOK
  <2>7. ASSUME UNCHANGED events PROVE FALSE
    BY <1>1, <2>7
  <2>8. ASSUME NEW s \in Slots, NEW p \in Orders, HandlerBegins(s, p) PROVE FALSE
    BY <2>7, <2>8 DEF HandlerBegins, StatusBegin, CollectBegin, AssignBegin, HandoverBegin,
                      EditBegin, SupportBegin, AbortBegin, WebhookFailedBegin, JobBegin, Begin
  <2> QED  BY <1>1, <2>1, <2>3, <2>4, <2>5, <2>6, <2>7, <2>8
           DEF Next, HandlerWrites, AssignWrite, EditCommit, JobRead, JobFails, Crash,
               ReleaseTimeComes
<1>2. TypeOK /\ [Next]_vars => [\A o \in Orders : Aborted(o) => Open(o)]_vars
  BY <1>1
<1> QED  BY <1>2, TypeCorrect, PTL DEF Spec, AbortSparesPaid
----------------------------------------------------------------------------
(* One request at a time.                                                  *)

\* One slot: no request begins before the last one has ended.
OneAtATime == \A s, t \in Slots : s = t

\* What a handler decided still fits the row, as nobody has written since.
StillFits(q) ==
  LET r == order[q.order] IN
  /\ q.op \in {"status", "job_status"} =>
       /\ <<r.status, q.to>> \in transitionGraph
       /\ q.to = "delivered" => r.pay = "completed"
  /\ q.op = "collect" =>
       /\ r.pay # "completed" /\ r.status \in {"placed", "ready", "in_transit", "delivered"}
       /\ q.to = "paid" => r.status = "placed"
       /\ q.to = "delivered" => r.status = "ready"
  /\ q.op = "assign" => r.status = "ready"
  /\ q.op = "handover" => r.status = "in_transit"
  /\ q.op = "fail" => r.method = "payhere"
  /\ q.op = "edit" /\ r.pay = "completed" => q.override

\* Money taken by hand stays on the row until it is refunded.
Collections == {"cash_collected", "card_collected"}
CollectedStays(o) ==
  events[o] \cap Collections # {} =>
    /\ order[o].method # "payhere"
    /\ order[o].pay = "completed" \/ order[o].status = "refunded"
    /\ ~(Collections \subseteq events[o])

\* What one request at a time adds to the invariant of any interleaving.
Serial ==
  /\ \A s \in Slots : requests[s] # Idle => StillFits(requests[s])
  /\ \A o \in Orders : CollectedStays(o)

SInv == IInv /\ Serial

\* What a transaction leaves behind, row by row.
LEMMA CommitRows ==
  ASSUME TypeOK, NEW s \in Slots, requests[s].order \in Orders,
         NEW r, NEW keys, NEW evs, Commit(s, r, keys, evs)
  PROVE  /\ order'[requests[s].order] = r
         /\ outbox'[requests[s].order] = outbox[requests[s].order] \cup keys
         /\ events'[requests[s].order] = events[requests[s].order] \cup evs
         /\ \A o \in Orders \ {requests[s].order} :
              order'[o] = order[o] /\ outbox'[o] = outbox[o] /\ events'[o] = events[o]
BY DEF TypeOK, Commit

\* With one slot a request that ends leaves nothing under way.
LEMMA FinishedIsIdle ==
  ASSUME TypeOK, OneAtATime, NEW s \in Slots, Finish(s)
  PROVE  \A t \in Slots : requests'[t] = Idle
BY DEF TypeOK, OneAtATime, Finish

LEMMA InitSerial == Init => Serial
<1> SUFFICES ASSUME Init PROVE Serial
  OBVIOUS
<1>1. ASSUME NEW o \in Orders PROVE CollectedStays(o)
  <2>1. order[o] \in Placement
    BY PlacementAssumption DEF Init
  <2>2. order[o].pay = "completed" => order[o].method # "payhere"
    BY <2>1 DEF Placement, ClientPlacements, CashierPlacements, CashierPlacement
  <2> QED  BY <2>2 DEF Init, PlacementEvents, CollectedStays, Collections
<1> QED  BY <1>1 DEF Init, Serial

LEMMA BeginSerial ==
  ASSUME SInv, OneAtATime, NEW s \in Slots, NEW q \in Request, StillFits(q), Begin(s, q)
  PROVE  Serial'
<1>1. ASSUME NEW t \in Slots PROVE StillFits(requests[t])'
  BY <1>1 DEF SInv, IInv, TypeOK, OneAtATime, Begin, StillFits
<1>2. ASSUME NEW o \in Orders PROVE CollectedStays(o)'
  BY DEF SInv, Serial, Begin, CollectedStays
<1> QED  BY <1>1, <1>2 DEF Serial

LEMMA HandlerBeginsSerial ==
  ASSUME SInv, OneAtATime, NEW s \in Slots, NEW o \in Orders, HandlerBegins(s, o)
  PROVE  Serial'
<1>0. order[o] \in Row
  BY DEF SInv, IInv, TypeOK
<1>1. ASSUME NEW a \in Actors, NEW to \in OrderStatus, NEW c \in Couriers \cup {NoCourier},
             StatusBegin(s, o, a, to, c)
      PROVE  Serial'
  <2> DEFINE q == [Ask("status", o) EXCEPT !.to = to, !.courier = c]
  <2>1. q \in Request /\ q.op = "status" /\ q.order = o /\ q.to = to
    BY DEF Ask, Request, Op, OrderStatus
  <2>2. <<order[o].status, to>> \in transitionGraph /\ RoleMayEnter(order[o], to, RoleOf(a))
    BY <1>1 DEF StatusBegin, StatusChangeAccepted, canTransition
  <2>3. to = "delivered" => order[o].pay = "completed"
    BY <2>2 DEF RoleMayEnter
  <2>4. StillFits(q)
    <3> HIDE DEF q
    <3> QED  BY <2>1, <2>2, <2>3 DEF StillFits
  <2>5. Begin(s, q)
    BY <1>1 DEF StatusBegin
  <2> QED  BY <2>1, <2>4, <2>5, BeginSerial
<1>2. ASSUME NEW a \in Actors, NEW m \in {"cash", "card"}, CollectBegin(s, o, a, m)
      PROVE  Serial'
  <2> DEFINE to == CollectionStatus(order[o])
             q  == [Ask("collect", o) EXCEPT !.to = to, !.method = m]
  <2>1. /\ to = "paid" => order[o].status = "placed"
        /\ to = "delivered" => order[o].status = "ready"
        /\ to \in {"keep", "paid", "delivered"}
    BY DEF CollectionStatus
  <2>2. q \in Request /\ q.op = "collect" /\ q.order = o /\ q.to = to
    BY <2>1 DEF Ask, Request, Op, OrderStatus
  <2>3. StillFits(q)
    <3> HIDE DEF q, to
    <3> QED  BY <1>2, <2>1, <2>2 DEF StillFits, CollectBegin, CollectionAccepted
  <2>4. Begin(s, q)
    BY <1>2 DEF CollectBegin
  <2> QED  BY <2>2, <2>3, <2>4, BeginSerial
<1>3. ASSUME NEW a \in Actors, NEW c \in Couriers, AssignBegin(s, o, a, c)
      PROVE  Serial'
  <2> DEFINE q == [Ask("assign", o) EXCEPT !.courier = c]
  <2>1. q \in Request /\ q.op = "assign" /\ q.order = o
    BY DEF Ask, Request, Op
  <2>2. StillFits(q) /\ Begin(s, q)
    BY <1>3, <2>1 DEF StillFits, AssignBegin
  <2> QED  BY <2>1, <2>2, BeginSerial
<1>4. ASSUME NEW a \in Actors, NEW c \in Couriers \cup {NoCourier}, HandoverBegin(s, o, a, c)
      PROVE  Serial'
  <2> DEFINE q == [Ask("handover", o) EXCEPT !.courier = c]
  <2>1. q \in Request /\ q.op = "handover" /\ q.order = o
    BY DEF Ask, Request, Op
  <2>2. StillFits(q) /\ Begin(s, q)
    BY <1>4, <2>1 DEF StillFits, HandoverBegin
  <2> QED  BY <2>1, <2>2, BeginSerial
<1>5. ASSUME NEW a \in Actors, NEW hasReason \in BOOLEAN, EditBegin(s, o, a, hasReason)
      PROVE  Serial'
  <2> DEFINE q == [Ask("edit", o) EXCEPT !.override = (a = "ADMIN" /\ hasReason)]
  <2>1. q \in Request /\ q.op = "edit" /\ q.order = o /\ q.override = (a = "ADMIN" /\ hasReason)
    BY DEF Ask, Request, Op
  <2>2. order[o].pay = "completed" => a = "ADMIN" /\ hasReason
    BY <1>5 DEF EditBegin, validateLineItemsReplacementSave, evaluateCashierLineReplacement
  <2>3. StillFits(q)
    <3> HIDE DEF q
    <3> QED  BY <2>1, <2>2 DEF StillFits
  <2>4. Begin(s, q)
    BY <1>5 DEF EditBegin
  <2> QED  BY <2>1, <2>3, <2>4, BeginSerial
<1>6. ASSUME NEW a \in Actors, SupportBegin(s, o, a) PROVE Serial'
  <2>1. Ask("support", o) \in Request /\ Ask("support", o).op = "support"
    BY DEF Ask, Request, Op
  <2>2. StillFits(Ask("support", o)) /\ Begin(s, Ask("support", o))
    BY <1>6, <2>1 DEF StillFits, SupportBegin
  <2> QED  BY <2>1, <2>2, BeginSerial
<1>7. CASE AbortBegin(s, o)
  <2>1. Ask("abort", o) \in Request /\ Ask("abort", o).op = "abort"
    BY DEF Ask, Request, Op
  <2>2. StillFits(Ask("abort", o)) /\ Begin(s, Ask("abort", o))
    BY <1>7, <2>1 DEF StillFits, AbortBegin
  <2> QED  BY <2>1, <2>2, BeginSerial
<1>8. CASE WebhookFailedBegin(s, o)
  <2>1. Ask("fail", o) \in Request /\ Ask("fail", o).op = "fail" /\ Ask("fail", o).order = o
    BY DEF Ask, Request, Op
  <2>2. StillFits(Ask("fail", o)) /\ Begin(s, Ask("fail", o))
    BY <1>8, <2>1 DEF StillFits, WebhookFailedBegin
  <2> QED  BY <2>1, <2>2, BeginSerial
<1>9. CASE JobBegin(s, o)
  <2>1. ASSUME NEW t \in Slots PROVE StillFits(requests[t])'
    BY <1>9, <2>1 DEF SInv, IInv, TypeOK, OneAtATime, JobBegin, StillFits, Ask
  <2>2. ASSUME NEW p \in Orders PROVE CollectedStays(p)'
    BY <1>9 DEF SInv, IInv, TypeOK, Row, Serial, JobBegin, CollectedStays
  <2> QED  BY <2>1, <2>2 DEF Serial
<1> QED  BY <1>1, <1>2, <1>3, <1>4, <1>5, <1>6, <1>7, <1>8, <1>9 DEF HandlerBegins

LEMMA RequestFits ==
  ASSUME SInv, NEW s \in Slots, requests[s].op \in Op
  PROVE  /\ requests[s] \in Request /\ requests[s].order \in Orders
         /\ order[requests[s].order] \in Row
         /\ StillFits(requests[s]) /\ Justified(requests[s])
         /\ CollectedStays(requests[s].order)
<1>1. requests[s] \in Request /\ requests[s] # Idle
  BY RequestOfOp DEF SInv, IInv, Idle, Op
<1>2. requests[s].order \in Orders
  BY <1>1 DEF Request
<1> QED  BY <1>1, <1>2 DEF SInv, IInv, TypeOK, Serial, RequestsJustified

LEMMA CommitSerial ==
  ASSUME SInv, OneAtATime, NEW s \in Slots, requests[s].order \in Orders, Finish(s),
         NEW r, NEW keys, NEW evs, Commit(s, r, keys, evs),
         (events[requests[s].order] \cup evs) \cap Collections # {} =>
           /\ r.method # "payhere"
           /\ r.pay = "completed" \/ r.status = "refunded"
           /\ ~(Collections \subseteq events[requests[s].order] \cup evs)
  PROVE  Serial'
<1>1. \A t \in Slots : requests'[t] = Idle
  BY FinishedIsIdle DEF SInv, IInv
<1>2. ASSUME NEW o \in Orders PROVE CollectedStays(o)'
  <2>1. CASE o = requests[s].order
    BY <2>1, CommitRows DEF SInv, IInv, CollectedStays
  <2>2. CASE o # requests[s].order
    <3>1. order'[o] = order[o] /\ events'[o] = events[o]
      BY <2>2, CommitRows DEF SInv, IInv
    <3> QED  BY <3>1 DEF SInv, Serial, CollectedStays
  <2> QED  BY <2>1, <2>2
<1> QED  BY <1>1, <1>2 DEF Serial

LEMMA NothingSerial ==
  ASSUME SInv, OneAtATime, NEW s \in Slots, Finish(s), UNCHANGED <<order, events>>
  PROVE  Serial'
<1>1. \A t \in Slots : requests'[t] = Idle
  BY FinishedIsIdle DEF SInv, IInv
<1> QED  BY <1>1 DEF SInv, Serial, CollectedStays

LEMMA HandlerWritesSerial ==
  ASSUME SInv, OneAtATime, NEW s \in Slots, HandlerWrites(s)
  PROVE  Serial'
<1> DEFINE q == requests[s]
           r == order[q.order]
<1>a. ASSUME q.op \in Op
      PROVE  /\ q \in Request /\ q.order \in Orders /\ r \in Row
             /\ StillFits(q) /\ CollectedStays(q.order)
  BY <1>a, RequestFits
<1>1. CASE StatusCommit(s)
  <2> DEFINE saved == WithStatus(r, q.to, q.courier)
             evs   == IF q.to = "refunded" THEN {"order_refunded"} ELSE {}
  <2>1. /\ q \in Request /\ q.order \in Orders /\ r \in Row /\ CollectedStays(q.order)
        /\ q.op \in {"status", "job_status"} /\ StillFits(q)
    BY <1>a, <1>1 DEF StatusCommit, Op
  <2>2. CASE Commit(s, saved, StatusKeys(q.to), evs)
    <3>1. /\ saved.status = q.to /\ saved.method = r.method
          /\ saved.pay = IF q.to = "refunded" THEN "refunded" ELSE r.pay
      BY <2>1 DEF WithStatus, Row
    <3>2. r.status # "refunded"
      BY <2>1 DEF StillFits, transitionGraph
    <3>3. evs \cap Collections = {}
      BY DEF Collections
    <3>4. (events[q.order] \cup evs) \cap Collections # {} =>
            /\ saved.method # "payhere"
            /\ saved.pay = "completed" \/ saved.status = "refunded"
            /\ ~(Collections \subseteq events[q.order] \cup evs)
      <4> HIDE DEF saved, evs
      <4> QED  BY <2>1, <3>1, <3>2, <3>3 DEF CollectedStays
    <3>5. Finish(s)
      BY <1>1 DEF StatusCommit
    <3> QED
      <4> HIDE DEF saved, evs
      <4> QED  BY <2>1, <2>2, <3>4, <3>5, CommitSerial
  <2>3. CASE RollBack(s, StatusKeys(q.to))
    BY <1>1, <2>3, NothingSerial DEF StatusCommit, RollBack
  <2> QED  BY <1>1, <2>2, <2>3 DEF StatusCommit
<1>2. CASE CollectCommit(s)
  <2> DEFINE saved == WithPayment(r, q.to, q.method)
             ev    == IF q.method = "cash" THEN "cash_collected" ELSE "card_collected"
             keys  == CollectKeys(saved, q.method)
  <2>1. /\ q \in Request /\ q.order \in Orders /\ r \in Row /\ CollectedStays(q.order)
        /\ q.op = "collect" /\ StillFits(q)
    BY <1>a, <1>2 DEF CollectCommit, Op
  <2>2. CASE Commit(s, saved, keys, {ev})
    <3>1. saved.method = q.method /\ saved.pay = "completed"
      BY <2>1 DEF WithPayment, Row
    <3>2. q.method \in {"cash", "card"}
      BY <2>1 DEF Request
    <3>3. events[q.order] \cap Collections = {}
      BY <2>1 DEF CollectedStays, StillFits
    <3>4. ~(Collections \subseteq events[q.order] \cup {ev})
      BY <3>3 DEF Collections
    <3>5. Finish(s)
      BY <1>2 DEF CollectCommit
    <3> QED
      <4> HIDE DEF saved, ev, keys
      <4> QED  BY <2>1, <2>2, <3>1, <3>2, <3>4, <3>5, CommitSerial
  <2>3. CASE RollBack(s, keys)
    BY <1>2, <2>3, NothingSerial DEF CollectCommit, RollBack
  <2> QED  BY <1>2, <2>2, <2>3 DEF CollectCommit
<1>3. CASE AssignWrite(s)
  <2>1. q \in Request /\ q.order \in Orders /\ r \in Row /\ q.op = "assign" /\ StillFits(q)
    BY <1>a, <1>3 DEF AssignWrite, Op
  <2>2. ASSUME NEW t \in Slots PROVE StillFits(requests[t])'
    <3>1. t = s /\ requests'[s].op = "announce"
      BY <1>3, <2>1 DEF OneAtATime, AssignWrite, SInv, IInv, TypeOK, Request
    <3> QED  BY <3>1 DEF StillFits
  <2>3. ASSUME NEW o \in Orders PROVE CollectedStays(o)'
    <3>1. /\ order'[o].method = order[o].method /\ order'[o].pay = order[o].pay
          /\ order'[o].status # order[o].status => order[o].status = "ready"
      BY <1>3, <2>1 DEF AssignWrite, WithStatus, SInv, IInv, TypeOK, Row, StillFits
    <3>2. CollectedStays(o) /\ events' = events
      BY <1>3 DEF SInv, Serial, AssignWrite
    <3> QED  BY <3>1, <3>2 DEF CollectedStays
  <2> QED  BY <2>2, <2>3 DEF Serial
<1>4. CASE AssignAnnounce(s)
  <2> DEFINE keys == {<<"notification.order_in_transit", "">>}
  <2>1. q.order \in Orders /\ CollectedStays(q.order) /\ Finish(s)
    BY <1>a, <1>4 DEF AssignAnnounce, Op
  <2>2. CASE Commit(s, r, keys, {})
    <3> HIDE DEF keys
    <3> QED  BY <2>1, <2>2, CommitSerial DEF CollectedStays
  <2>3. CASE RollBack(s, keys)
    BY <2>1, <2>3, NothingSerial DEF RollBack
  <2> QED  BY <1>4, <2>2, <2>3 DEF AssignAnnounce
<1>5. CASE HandoverCommit(s)
  <2> DEFINE saved == HandoverRow(r, q.courier)
  <2>1. /\ q.order \in Orders /\ CollectedStays(q.order) /\ Finish(s) /\ r \in Row
        /\ q.op = "handover" /\ StillFits(q) /\ Commit(s, saved, {}, {})
    BY <1>a, <1>5 DEF HandoverCommit, Op
  <2>2. saved.method = r.method /\ saved.pay = r.pay /\ r.status = "in_transit"
    BY <2>1 DEF HandoverRow, Row, StillFits
  <2> HIDE DEF saved
  <2> QED  BY <2>1, <2>2, CommitSerial DEF CollectedStays
<1>6. CASE EditCommit(s)
  BY <1>6, NothingSerial DEF EditCommit
<1>7. ASSUME NEW g \in BOOLEAN, SupportCommit(s, g) PROVE Serial'
  <2> DEFINE saved == [r EXCEPT !.gated = g]
  <2>1. /\ q.order \in Orders /\ CollectedStays(q.order) /\ Finish(s) /\ r \in Row
        /\ Commit(s, saved, {}, {})
    BY <1>a, <1>7 DEF SupportCommit, Op
  <2>2. saved.method = r.method /\ saved.pay = r.pay /\ saved.status = r.status
    BY <2>1 DEF Row
  <2> HIDE DEF saved
  <2> QED  BY <2>1, <2>2, CommitSerial DEF CollectedStays
<1>8. CASE AbortCommit(s)
  <2> DEFINE saved == [r EXCEPT !.status = "voided", !.pay = "failed"]
  <2>1. q.order \in Orders /\ CollectedStays(q.order) /\ Finish(s) /\ r \in Row
    BY <1>a, <1>8 DEF AbortCommit, Op
  <2>2. CASE AbortApplies(r) /\ Commit(s, saved, {}, {"online_checkout_aborted"})
    <3>1. (events[q.order] \cup {"online_checkout_aborted"}) \cap Collections = {}
      BY <2>1, <2>2 DEF AbortApplies, CollectedStays, Collections
    <3> HIDE DEF saved
    <3> QED  BY <2>1, <2>2, <3>1, CommitSerial
  <2>3. CASE UNCHANGED <<order, outbox, events>>
    BY <2>1, <2>3, NothingSerial
  <2> QED  BY <1>8, <2>2, <2>3 DEF AbortCommit
<1>9. CASE WebhookFailedCommit(s)
  <2> DEFINE saved == [r EXCEPT !.pay = "failed"]
  <2>1. /\ q.order \in Orders /\ CollectedStays(q.order) /\ Finish(s) /\ StillFits(q)
        /\ q.op = "fail" /\ Commit(s, saved, {}, {})
    BY <1>a, <1>9 DEF WebhookFailedCommit, Op
  <2>2. events[q.order] \cap Collections = {}
    BY <2>1 DEF CollectedStays, StillFits
  <2> HIDE DEF saved
  <2> QED  BY <2>1, <2>2, CommitSerial
<1>10. CASE JobRead(s)
  <2>1. q.order \in Orders /\ q.op = "job_read"
    BY <1>a, <1>10 DEF JobRead, Op
  <2>2. ASSUME NEW t \in Slots, (requests[t] # Idle)' PROVE StillFits(requests[t])'
    <3>1. /\ StatusChangeAccepted(order[q.order], "paid", "ADMIN")
          /\ requests'[t] = [Ask("job_status", q.order) EXCEPT !.to = "paid"]
      BY <1>10, <2>2 DEF JobRead, OneAtATime, SInv, IInv, TypeOK
    <3>2. requests'[t].op = "job_status" /\ requests'[t].to = "paid" /\ requests'[t].order = q.order
      BY <3>1 DEF Ask
    <3>3. <<order[q.order].status, "paid">> \in transitionGraph /\ order' = order
      BY <1>10, <3>1 DEF StatusChangeAccepted, canTransition, JobRead
    <3> QED  BY <3>2, <3>3 DEF StillFits
  <2> QED  BY <1>10, <2>2 DEF JobRead, SInv, Serial, CollectedStays
<1>11. CASE JobFails(s)
  BY <1>11, NothingSerial DEF JobFails
<1> QED  BY <1>1, <1>2, <1>3, <1>4, <1>5, <1>6, <1>7, <1>8, <1>9, <1>10, <1>11
         DEF HandlerWrites

LEMMA StepSerial == ASSUME OneAtATime PROVE SInv /\ [Next]_vars => SInv'
<1> SUFFICES ASSUME SInv, [Next]_vars PROVE Serial'
  BY StepKeeps DEF SInv
<1>1. ASSUME NEW s \in Slots, NEW o \in Orders, HandlerBegins(s, o) PROVE Serial'
  BY <1>1, HandlerBeginsSerial
<1>2. ASSUME NEW s \in Slots, HandlerWrites(s) PROVE Serial'
  BY <1>2, HandlerWritesSerial
<1>3. ASSUME NEW s \in Slots, Crash(s) PROVE Serial'
  BY <1>3, NothingSerial DEF Crash
<1>4. ASSUME NEW o \in Orders, WebhookPaid(o) PROVE Serial'
  <2>1. ASSUME NEW p \in Orders PROVE CollectedStays(p)'
    <3>1. events'[p] \cap Collections = events[p] \cap Collections
      BY <1>4 DEF WebhookPaid, Collections, SInv, IInv, TypeOK
    <3> QED  BY <1>4, <3>1 DEF WebhookPaid, CollectedStays, SInv, Serial
  <2> QED  BY <1>4, <2>1 DEF WebhookPaid, SInv, Serial, StillFits
<1>5. ASSUME NEW o \in Orders, ReleaseTimeComes(o) PROVE Serial'
  <2>1. ASSUME NEW p \in Orders
        PROVE  /\ order'[p].status = order[p].status /\ order'[p].pay = order[p].pay
               /\ order'[p].method = order[p].method
    BY <1>5 DEF ReleaseTimeComes, SInv, IInv, TypeOK, Row
  <2>2. ASSUME NEW t \in Slots, requests[t] # Idle PROVE StillFits(requests[t])'
    <3>1. requests[t].order \in Orders /\ StillFits(requests[t]) /\ requests' = requests
      BY <1>5, <2>2 DEF ReleaseTimeComes, SInv, IInv, TypeOK, Serial, Request
    <3> QED  BY <2>1, <3>1 DEF StillFits
  <2> QED  BY <1>5, <2>1, <2>2 DEF ReleaseTimeComes, SInv, Serial, CollectedStays
<1>6. CASE UNCHANGED vars
  BY <1>6 DEF vars, SInv, Serial, StillFits, CollectedStays
<1> QED  BY <1>1, <1>2, <1>3, <1>4, <1>5, <1>6 DEF Next

LEMMA SerialInvariance == ASSUME OneAtATime PROVE Spec => []SInv
<1>1. Init => SInv
  BY InitEstablishes, InitSerial DEF SInv
<1>2. SInv /\ [Next]_vars => SInv'
  BY StepSerial
<1> QED  BY <1>1, <1>2, PTL DEF Spec

----------------------------------------------------------------------------
(* What one step does to the board.                                        *)

\* The step leaves order o where the board shows it.
SameOnBoard(o) ==
  /\ order'[o].status = order[o].status
  /\ o \in boardTicketed' <=> o \in boardTicketed
  /\ o \in boardSettled' <=> o \in boardSettled

\* The step changes order o by a documented move, its ticket only with its entry to the
\* kitchen, and takes no money back.
MovesOnBoard(o) ==
  /\ order'[o].status # order[o].status =>
       /\ order'[o].status \in Board!Flow[order[o].status]
       /\ order'[o].status = "delivered" => order'[o].pay = "completed"
  /\ o \in boardTicketed' <=>
       o \in boardTicketed \/ (order[o].status # "in_kitchen" /\ order'[o].status = "in_kitchen")
  /\ o \in boardSettled => o \in boardSettled'

\* A step touches one order of the board at most.
OneRowMoves ==
  \/ \A o \in Orders : SameOnBoard(o)
  \/ \E o \in Orders : MovesOnBoard(o) /\ \A p \in Orders \ {o} : SameOnBoard(p)

\* The moves the server's graph allows are moves of the documented flow.
LEMMA GraphInFlow ==
  ASSUME NEW from, NEW to, <<from, to>> \in transitionGraph
  PROVE  to \in Board!Flow[from]
BY DEF transitionGraph, Board!Flow

LEMMA SameRows ==
  ASSUME \A o \in Orders : order'[o].status = order[o].status,
         UNCHANGED <<outbox, events>>
  PROVE  OneRowMoves
BY DEF OneRowMoves, SameOnBoard, boardTicketed, boardSettled, MoneyTaken

LEMMA CommitMoves ==
  ASSUME TypeOK, NEW s \in Slots, requests[s].order \in Orders,
         NEW r, NEW keys, NEW evs, Commit(s, r, keys, evs),
         r.status # order[requests[s].order].status =>
           /\ r.status \in Board!Flow[order[requests[s].order].status]
           /\ r.status = "delivered" => r.pay = "completed",
         <<"print.kitchen_ticket", "">> \in keys <=>
           order[requests[s].order].status # "in_kitchen" /\ r.status = "in_kitchen"
  PROVE  OneRowMoves
<1> DEFINE o == requests[s].order
<1>1. /\ order'[o] = r /\ outbox'[o] = outbox[o] \cup keys /\ events'[o] = events[o] \cup evs
      /\ \A p \in Orders \ {o} :
           order'[p] = order[p] /\ outbox'[p] = outbox[p] /\ events'[p] = events[p]
  BY CommitRows
<1>2. MovesOnBoard(o)
  <2>1. o \in boardTicketed' <=> o \in boardTicketed \/ <<"print.kitchen_ticket", "">> \in keys
    BY <1>1 DEF boardTicketed
  <2>2. o \in boardSettled => o \in boardSettled'
    BY <1>1 DEF boardSettled, MoneyTaken
  <2> QED  BY <1>1, <2>1, <2>2 DEF MovesOnBoard
<1>3. \A p \in Orders \ {o} : SameOnBoard(p)
  BY <1>1 DEF SameOnBoard, boardTicketed, boardSettled, MoneyTaken
<1> QED  BY <1>2, <1>3 DEF OneRowMoves

LEMMA HandlerWritesMoves ==
  ASSUME SInv, OneAtATime, NEW s \in Slots, HandlerWrites(s)
  PROVE  OneRowMoves
<1> DEFINE q == requests[s]
           r == order[q.order]
<1>a. ASSUME q.op \in Op
      PROVE  q \in Request /\ q.order \in Orders /\ r \in Row /\ StillFits(q)
  BY <1>a, RequestFits
<1>b. TypeOK
  BY DEF SInv, IInv
<1>1. CASE StatusCommit(s)
  <2> DEFINE saved == WithStatus(r, q.to, q.courier)
             evs   == IF q.to = "refunded" THEN {"order_refunded"} ELSE {}
  <2>1. /\ q \in Request /\ q.order \in Orders /\ r \in Row
        /\ q.op \in {"status", "job_status"} /\ StillFits(q)
    BY <1>a, <1>1 DEF StatusCommit, Op
  <2>2. CASE Commit(s, saved, StatusKeys(q.to), evs)
    <3>1. saved.status = q.to /\ (q.to # "refunded" => saved.pay = r.pay)
      BY <2>1 DEF WithStatus, Row
    <3>2. <<r.status, q.to>> \in transitionGraph /\ (q.to = "delivered" => r.pay = "completed")
      BY <2>1 DEF StillFits
    <3>3. q.to \in Board!Flow[r.status]
      BY <3>2, GraphInFlow
    <3>4. q.to = "in_kitchen" => r.status # "in_kitchen"
      BY <3>2 DEF transitionGraph
    <3>5. <<"print.kitchen_ticket", "">> \in StatusKeys(q.to) <=> q.to = "in_kitchen"
      BY DEF StatusKeys
    <3> HIDE DEF saved, evs
    <3> QED  BY <1>b, <2>1, <2>2, <3>1, <3>2, <3>3, <3>4, <3>5, CommitMoves
  <2>3. CASE RollBack(s, StatusKeys(q.to))
    BY <2>3, SameRows DEF RollBack
  <2> QED  BY <1>1, <2>2, <2>3 DEF StatusCommit
<1>2. CASE CollectCommit(s)
  <2> DEFINE saved == WithPayment(r, q.to, q.method)
             keys  == CollectKeys(saved, q.method)
             evs   == {IF q.method = "cash" THEN "cash_collected" ELSE "card_collected"}
  <2>1. /\ q \in Request /\ q.order \in Orders /\ r \in Row /\ q.op = "collect" /\ StillFits(q)
    BY <1>a, <1>2 DEF CollectCommit, Op
  <2>2. CASE Commit(s, saved, keys, evs)
    <3>1. /\ saved.pay = "completed"
          /\ saved.status = IF q.to = "keep" THEN r.status ELSE q.to
      BY <2>1 DEF WithPayment, Row
    <3>2. /\ q.to \in {"keep", "paid", "delivered"}
          /\ q.to = "paid" => r.status = "placed"
          /\ q.to = "delivered" => r.status = "ready"
      BY <2>1 DEF StillFits, Request
    <3>3. q.to # "keep" => <<r.status, q.to>> \in transitionGraph
      BY <3>2 DEF transitionGraph
    <3>4. saved.status # r.status => saved.status \in Board!Flow[r.status]
      <4> HIDE DEF saved
      <4> QED  BY <3>1, <3>3, GraphInFlow
    <3>5. <<"print.kitchen_ticket", "">> \notin keys
      BY DEF CollectKeys
    <3>6. ~(r.status # "in_kitchen" /\ saved.status = "in_kitchen")
      <4> HIDE DEF saved
      <4> QED  BY <3>1, <3>2
    <3> HIDE DEF saved, keys, evs
    <3> QED  BY <1>b, <2>1, <2>2, <3>1, <3>4, <3>5, <3>6, CommitMoves
  <2>3. CASE RollBack(s, keys)
    BY <2>3, SameRows DEF RollBack
  <2> QED  BY <1>2, <2>2, <2>3 DEF CollectCommit
<1>3. CASE AssignWrite(s)
  <2>1. q.order \in Orders /\ r \in Row /\ q.op = "assign" /\ r.status = "ready"
    BY <1>a, <1>3 DEF AssignWrite, Op, StillFits
  <2>2. /\ order'[q.order].status = "in_transit"
        /\ \A p \in Orders \ {q.order} : order'[p] = order[p]
        /\ outbox' = outbox /\ events' = events
    BY <1>b, <1>3, <2>1 DEF AssignWrite, WithStatus, Row, TypeOK
  <2>3. "in_transit" \in Board!Flow["ready"]
    BY GraphInFlow DEF transitionGraph
  <2>4. MovesOnBoard(q.order)
    BY <2>1, <2>2, <2>3 DEF MovesOnBoard, boardTicketed, boardSettled, MoneyTaken
  <2>5. \A p \in Orders \ {q.order} : SameOnBoard(p)
    BY <2>2 DEF SameOnBoard, boardTicketed, boardSettled, MoneyTaken
  <2> QED  BY <2>1, <2>4, <2>5 DEF OneRowMoves
<1>4. CASE AssignAnnounce(s)
  <2> DEFINE keys == {<<"notification.order_in_transit", "">>}
  <2>1. q.order \in Orders /\ <<"print.kitchen_ticket", "">> \notin keys
    BY <1>a, <1>4 DEF AssignAnnounce, Op
  <2>2. CASE Commit(s, r, keys, {})
    <3> HIDE DEF keys
    <3> QED  BY <1>b, <2>1, <2>2, CommitMoves
  <2>3. CASE RollBack(s, keys)
    BY <2>3, SameRows DEF RollBack
  <2> QED  BY <1>4, <2>2, <2>3 DEF AssignAnnounce
<1>5. CASE HandoverCommit(s)
  <2> DEFINE saved == HandoverRow(r, q.courier)
  <2>1. /\ q.order \in Orders /\ r \in Row /\ r.status = "in_transit"
        /\ Commit(s, saved, {}, {})
    BY <1>a, <1>5 DEF HandoverCommit, Op, StillFits
  <2>2. saved.status \in {"in_transit", "ready"}
    BY <2>1 DEF HandoverRow, Row
  <2>3. "ready" \in Board!Flow["in_transit"]
    BY DEF Board!Flow
  <2> HIDE DEF saved
  <2> QED  BY <1>b, <2>1, <2>2, <2>3, CommitMoves
<1>6. CASE EditCommit(s)
  BY <1>6, SameRows DEF EditCommit
<1>7. ASSUME NEW g \in BOOLEAN, SupportCommit(s, g) PROVE OneRowMoves
  <2> DEFINE saved == [r EXCEPT !.gated = g]
  <2>1. q.order \in Orders /\ r \in Row /\ Commit(s, saved, {}, {})
    BY <1>a, <1>7 DEF SupportCommit, Op
  <2>2. saved.status = r.status
    BY <2>1 DEF Row
  <2> HIDE DEF saved
  <2> QED  BY <1>b, <2>1, <2>2, CommitMoves
<1>8. CASE AbortCommit(s)
  <2> DEFINE saved == [r EXCEPT !.status = "voided", !.pay = "failed"]
  <2>1. q.order \in Orders /\ r \in Row
    BY <1>a, <1>8 DEF AbortCommit, Op
  <2>2. CASE AbortApplies(r) /\ Commit(s, saved, {}, {"online_checkout_aborted"})
    <3>1. saved.status = "voided" /\ r.status = "placed"
      BY <2>1, <2>2 DEF AbortApplies, Row
    <3>2. "voided" \in Board!Flow["placed"]
      BY GraphInFlow DEF transitionGraph
    <3> HIDE DEF saved
    <3> QED  BY <1>b, <2>1, <2>2, <3>1, <3>2, CommitMoves
  <2>3. CASE UNCHANGED <<order, outbox, events>>
    BY <2>3, SameRows
  <2> QED  BY <1>8, <2>2, <2>3 DEF AbortCommit
<1>9. CASE WebhookFailedCommit(s)
  <2> DEFINE saved == [r EXCEPT !.pay = "failed"]
  <2>1. q.order \in Orders /\ r \in Row /\ Commit(s, saved, {}, {})
    BY <1>a, <1>9 DEF WebhookFailedCommit, Op
  <2>2. saved.status = r.status
    BY <2>1 DEF Row
  <2> HIDE DEF saved
  <2> QED  BY <1>b, <2>1, <2>2, CommitMoves
<1>10. CASE JobRead(s)
  BY <1>10, SameRows DEF JobRead
<1>11. CASE JobFails(s)
  BY <1>11, SameRows DEF JobFails
<1> QED  BY <1>1, <1>2, <1>3, <1>4, <1>5, <1>6, <1>7, <1>8, <1>9, <1>10, <1>11
         DEF HandlerWrites

LEMMA StepMoves == ASSUME SInv, OneAtATime, [Next]_vars PROVE OneRowMoves
<1>b. TypeOK
  BY DEF SInv, IInv
<1>1. ASSUME NEW s \in Slots, NEW o \in Orders, HandlerBegins(s, o) PROVE OneRowMoves
  <2>1. CASE JobBegin(s, o)
    <3>1. \A p \in Orders : order'[p].status = order[p].status
      BY <1>b, <2>1 DEF JobBegin, TypeOK, Row
    <3> QED  BY <2>1, <3>1, SameRows DEF JobBegin
  <2>2. CASE ~JobBegin(s, o)
    <3>1. UNCHANGED <<order, outbox, events>>
      BY <1>1, <2>2 DEF HandlerBegins, StatusBegin, CollectBegin, AssignBegin, HandoverBegin,
           EditBegin, SupportBegin, AbortBegin, WebhookFailedBegin, Begin
    <3> QED  BY <3>1, SameRows
  <2> QED  BY <2>1, <2>2
<1>2. ASSUME NEW s \in Slots, HandlerWrites(s) PROVE OneRowMoves
  BY <1>2, HandlerWritesMoves
<1>3. ASSUME NEW s \in Slots, Crash(s) PROVE OneRowMoves
  BY <1>3, SameRows DEF Crash
<1>4. ASSUME NEW o \in Orders, WebhookPaid(o) PROVE OneRowMoves
  <2>1. /\ order' = order /\ outbox' = outbox
        /\ events[o] \subseteq events'[o]
        /\ \A p \in Orders \ {o} : events'[p] = events[p]
    BY <1>b, <1>4 DEF WebhookPaid, TypeOK
  <2>2. MovesOnBoard(o)
    BY <2>1 DEF MovesOnBoard, boardTicketed, boardSettled, MoneyTaken
  <2>3. \A p \in Orders \ {o} : SameOnBoard(p)
    BY <2>1 DEF SameOnBoard, boardTicketed, boardSettled, MoneyTaken
  <2> QED  BY <2>2, <2>3 DEF OneRowMoves
<1>5. ASSUME NEW o \in Orders, ReleaseTimeComes(o) PROVE OneRowMoves
  <2>1. \A p \in Orders : order'[p].status = order[p].status
    BY <1>b, <1>5 DEF ReleaseTimeComes, TypeOK, Row
  <2> QED  BY <1>5, <2>1, SameRows DEF ReleaseTimeComes
<1>6. CASE UNCHANGED vars
  BY <1>6, SameRows DEF vars
<1> QED  BY <1>1, <1>2, <1>3, <1>4, <1>5, <1>6 DEF Next

\* The same order is never collected both in cash and by card (payment-order-runbook.md:34),
\* as long as one request is served at a time.
THEOREM CollectedOneWay == ASSUME OneAtATime PROVE Spec => []CollectedOnce
<1>1. SInv => CollectedOnce
  BY DEF SInv, Serial, CollectedStays, Collections, CollectedOnce
<1> QED  BY <1>1, SerialInvariance, PTL

\* A closed order is never moved again, as long as one request is served at a time.
THEOREM ClosedStaysClosed == ASSUME OneAtATime PROVE Spec => TerminalIsFinal
<1>1. SInv /\ [Next]_vars =>
        [\A o \in Orders : order[o].status \in Terminal => order'[o].status = order[o].status]_vars
  <2> SUFFICES ASSUME SInv, [Next]_vars, NEW o \in Orders, order[o].status \in Terminal
               PROVE  order'[o].status = order[o].status
    OBVIOUS
  <2>1. OneRowMoves
    BY StepMoves
  <2>2. Board!Flow[order[o].status] = {}
    BY DEF Board!Flow, Terminal
  <2> QED  BY <2>1, <2>2 DEF OneRowMoves, SameOnBoard, MovesOnBoard
<1> QED  BY <1>1, SerialInvariance, PTL DEF Spec, TerminalIsFinal

\* An order becomes delivered only with its payment completed (order.service.ts:969), as long
\* as one request is served at a time.
THEOREM PaidBeforeDelivered == ASSUME OneAtATime PROVE Spec => DeliveredOnlyWhenPaid
<1>1. SInv /\ [Next]_vars =>
        [\A o \in Orders : order[o].status # "delivered" /\ order'[o].status = "delivered"
                             => order'[o].pay = "completed"]_vars
  BY StepMoves DEF OneRowMoves, SameOnBoard, MovesOnBoard
<1> QED  BY <1>1, SerialInvariance, PTL DEF Spec, DeliveredOnlyWhenPaid

\* The lines of a paid order change only under an ADMIN's override
\* (order-amendment.policy.ts:102), as long as one request is served at a time.
THEOREM PaidLinesOverridden == ASSUME OneAtATime PROVE Spec => PaidLinesNeedOverride
<1> DEFINE Overridden(o) == \E s \in Slots : /\ requests[s] # Idle
                                             /\ requests[s].order = o
                                             /\ requests[s].override
<1>1. ASSUME SInv, Next, NEW o \in Orders, lines'[o] # lines[o], order[o].pay = "completed"
      PROVE  Overridden(o)
  <2>1. ASSUME NEW s \in Slots, EditCommit(s) PROVE Overridden(o)
    <3>1. requests[s].op \in Op /\ requests[s].op = "edit"
      BY <2>1 DEF EditCommit, Op
    <3>2. requests[s] \in Request /\ requests[s] # Idle /\ StillFits(requests[s])
      BY <3>1, RequestFits, <1>1 DEF Idle
    <3>3. requests[s].order = o
      BY <1>1, <2>1 DEF EditCommit, SInv, IInv, TypeOK
    <3>4. requests[s].override
      BY <1>1, <3>1, <3>2, <3>3 DEF StillFits
    <3> QED  BY <3>2, <3>3, <3>4
  <2>2. ASSUME NEW s \in Slots, NEW p \in Orders, HandlerBegins(s, p) PROVE FALSE
    BY <1>1, <2>2 DEF HandlerBegins, StatusBegin, CollectBegin, AssignBegin, HandoverBegin,
         EditBegin, SupportBegin, AbortBegin, WebhookFailedBegin, JobBegin, Begin
  <2>3. ASSUME NEW s \in Slots, HandlerWrites(s) \/ Crash(s), ~EditCommit(s) PROVE FALSE
    BY <1>1, <2>3 DEF HandlerWrites, StatusCommit, CollectCommit, AssignWrite, AssignAnnounce,
         HandoverCommit, SupportCommit, AbortCommit, WebhookFailedCommit, JobRead, JobFails, Crash
  <2>4. ASSUME NEW p \in Orders, WebhookPaid(p) \/ ReleaseTimeComes(p) PROVE FALSE
    BY <1>1, <2>4 DEF WebhookPaid, ReleaseTimeComes
  <2> QED  BY <1>1, <2>1, <2>2, <2>3, <2>4 DEF Next
<1>2. SInv /\ [Next]_vars =>
        [\A o \in Orders : lines'[o] # lines[o] /\ order[o].pay = "completed"
                             => Overridden(o)]_vars
  BY <1>1 DEF vars
<1> QED  BY <1>2, SerialInvariance, PTL DEF Spec, PaidLinesNeedOverride

\* The reasons, the lanes and the hints the screens show agree with what the server accepts,
\* on every row a handler can leave behind.
THEOREM HintsMatchServer == Spec => []QueueHintMatchesServer
<1>1. ASSUME NEW r \in Row, NEW a \in Actors, NEW to \in OrderStatus, r.status # to
      PROVE  blockedReasonForTransition(r, to, a) = "none" <=> StatusChangeAccepted(r, to, a)
  <2>1. r.status \in Terminal => <<r.status, to>> \notin transitionGraph
    BY DEF Terminal, transitionGraph
  <2>2. CASE r.status \in Terminal
    BY <1>1, <2>1, <2>2 DEF blockedReasonForTransition, StatusChangeAccepted, canTransition
  <2>3. CASE r.status \notin Terminal /\ <<r.status, to>> \notin transitionGraph
    BY <1>1, <2>3 DEF blockedReasonForTransition, StatusChangeAccepted, canTransition
  <2>4. CASE r.status \notin Terminal /\ <<r.status, to>> \in transitionGraph
    <3>1. to \in OrderStatus \ {"placed"}
      BY <2>4 DEF transitionGraph, OrderStatus
    <3>2. a \in Couriers <=> RoleOf(a) = "COURIER"
      BY CourierAssumption DEF RoleOf, Actors
    <3>3. a \notin Couriers => RoleOf(a) = a /\ a \in {"ADMIN", "CASHIER", "KITCHEN"}
      BY DEF RoleOf, Actors
    <3>4. CASE to = "in_kitchen"
      BY <1>1, <2>4, <3>2, <3>3, <3>4 DEF blockedReasonForTransition, StatusChangeAccepted,
           canTransition, RoleMayEnter
    <3>5. CASE to = "in_transit"
      BY <1>1, <2>4, <3>2, <3>3, <3>5 DEF blockedReasonForTransition, StatusChangeAccepted,
           canTransition, RoleMayEnter
    <3>6. CASE to = "delivered"
      BY <1>1, <2>4, <3>2, <3>3, <3>6 DEF blockedReasonForTransition, StatusChangeAccepted,
           canTransition, RoleMayEnter
    <3>7. CASE to \in {"paid", "ready", "cancelled", "voided", "refunded"}
      BY <1>1, <2>4, <3>2, <3>3, <3>7 DEF blockedReasonForTransition, StatusChangeAccepted,
           canTransition, RoleMayEnter
    <3> QED  BY <3>1, <3>4, <3>5, <3>6, <3>7 DEF OrderStatus
  <2> QED  BY <2>2, <2>3, <2>4
<1>2. ASSUME NEW r \in Row, r.status \in {"placed", "paid"}, ~r.gated
      PROVE  isKitchenEligibleByPolicyOnly(r) <=> StatusChangeAccepted(r, "in_kitchen", "KITCHEN")
  <2>1. "KITCHEN" \notin Couriers /\ RoleOf("KITCHEN") = "KITCHEN"
    BY CourierAssumption DEF RoleOf
  <2>2. <<r.status, "in_kitchen">> \in transitionGraph
    BY <1>2 DEF transitionGraph
  <2>3. r.pay = "completed" => PlacedReleaseReason(r) # "none"
    BY DEF PlacedReleaseReason
  <2> QED  BY <1>2, <2>1, <2>2, <2>3 DEF isKitchenEligibleByPolicyOnly, StatusChangeAccepted,
                canTransition, RoleMayEnter, isScheduleGateBlockingKitchenRelease, Terminal
<1>3. ASSUME NEW r \in Row, NEW role \in {"ADMIN", "CASHIER"}
      PROVE  evaluateLineItemReplacementPolicy(r, role) = "allowed"
               <=> \E hasReason \in BOOLEAN :
                     validateLineItemsReplacementSave(r, role, hasReason) = "allowed"
  BY DEF evaluateLineItemReplacementPolicy, validateLineItemsReplacementSave,
       evaluateCashierLineReplacement
<1>4. TypeOK => QueueHintMatchesServer
  BY <1>1, <1>2, <1>3 DEF TypeOK, QueueHintMatchesServer
<1> QED  BY <1>4, TypeCorrect, PTL

LEMMA InitOnBoard == Init => Board!BoardInit
<1> SUFFICES ASSUME Init PROVE Board!BoardInit
  OBVIOUS
<1>1. ASSUME NEW o \in Orders
      PROVE  order[o].status \in {"placed", "paid"} /\ (order[o].status = "paid" => MoneyTaken(o))
  <2>1. order[o] \in Placement
    BY PlacementAssumption DEF Init
  <2>2. /\ order[o].status \in {"placed", "paid"}
        /\ order[o].status = "paid" => order[o].pay = "completed"
    BY <2>1 DEF Placement, ClientPlacements, CashierPlacements, CashierPlacement
  <2>3. events[o] = PlacementEvents(order[o])
    BY DEF Init
  <2> QED  BY <2>2, <2>3 DEF PlacementEvents, MoneyTaken, Evidence
<1>2. boardTicketed = {}
  BY DEF Init, boardTicketed
<1>3. boardSettled \in SUBSET Orders
  BY DEF boardSettled
<1>4. \A o \in Orders : order[o].status = "paid" => o \in boardSettled
  BY <1>1 DEF boardSettled
<1> QED  BY <1>1, <1>2, <1>3, <1>4 DEF Board!BoardInit

LEMMA StepOnBoard ==
  ASSUME SInv, OneAtATime, [Next]_vars
  PROVE  [Board!BoardNext]_(Board!boardVars)
<1> DEFINE shown == [o \in Orders |-> order[o].status]
<1>0. /\ boardTicketed \subseteq Orders /\ boardTicketed' \subseteq Orders
      /\ boardSettled \subseteq Orders /\ boardSettled' \subseteq Orders
  BY DEF boardTicketed, boardSettled
<1>1. CASE \A o \in Orders : SameOnBoard(o)
  <2>1. shown' = shown /\ boardTicketed' = boardTicketed /\ boardSettled' = boardSettled
    BY <1>0, <1>1 DEF SameOnBoard
  <2> QED  BY <2>1 DEF Board!boardVars
<1>2. ASSUME NEW o \in Orders, MovesOnBoard(o), \A p \in Orders \ {o} : SameOnBoard(p)
      PROVE  [Board!BoardNext]_(Board!boardVars)
  <2> DEFINE from == order[o].status
             to   == order'[o].status
  <2>1. shown' = [shown EXCEPT ![o] = to] /\ shown[o] = from
    BY <1>2 DEF SameOnBoard
  <2>a. \A p \in Orders :
          p \in boardTicketed' <=>
            p \in boardTicketed \/ (p = o /\ from # "in_kitchen" /\ to = "in_kitchen")
    BY <1>2 DEF SameOnBoard, MovesOnBoard
  <2>b. /\ \A p \in Orders \ {o} : p \in boardSettled' <=> p \in boardSettled
        /\ o \in boardSettled => o \in boardSettled'
    BY <1>2 DEF SameOnBoard, MovesOnBoard
  <2>2. boardSettled' = boardSettled \/ boardSettled' = boardSettled \cup {o}
    <3>1. CASE o \in boardSettled'
      <4>1. boardSettled' = boardSettled \cup {o}
        BY <1>0, <2>b, <3>1
      <4> QED  BY <4>1
    <3>2. CASE o \notin boardSettled'
      <4>1. boardSettled' = boardSettled
        BY <1>0, <2>b, <3>2
      <4> QED  BY <4>1
    <3> QED  BY <3>1, <3>2
  <2>3. CASE from = to
    <3>1. boardTicketed' = boardTicketed
      BY <1>0, <2>a, <2>3
    <3>2. shown' = shown
      BY <2>1, <2>3
    <3>3. CASE boardSettled' = boardSettled
      BY <3>1, <3>2, <3>3 DEF Board!boardVars
    <3>4. CASE o \notin boardSettled /\ boardSettled' = boardSettled \cup {o}
      BY <3>1, <3>2, <3>4 DEF Board!BoardNext, Board!TakeMoney
    <3> QED  BY <2>2, <3>3, <3>4
  <2>4. CASE from # to
    <3>1. to \in Board!Flow[shown[o]]
      BY <1>2, <2>1, <2>4 DEF MovesOnBoard
    <3>2. to \in {"paid", "delivered"} => o \in boardSettled'
      BY StepKeeps DEF SInv, IInv, SettledHasEvidence, boardSettled
    <3>3. IF to = "in_kitchen" THEN o \notin boardTicketed /\ boardTicketed' = boardTicketed \cup {o}
                               ELSE boardTicketed' = boardTicketed
      <4>1. CASE to = "in_kitchen"
        <5>1. KitchenKeys \cap outbox[o] = {}
          BY <2>4, <4>1, KitchenEntryStep DEF SInv, IInv, vars
        <5>2. o \notin boardTicketed
          BY <5>1 DEF KitchenKeys, boardTicketed
        <5> QED  BY <1>0, <2>a, <2>4, <4>1, <5>2
      <4>2. CASE to # "in_kitchen"
        BY <1>0, <2>a, <4>2
      <4> QED  BY <4>1, <4>2
    <3>4. PICK t : t = to
      OBVIOUS
    <3>5. t \in Board!Flow[shown[o]] /\ Board!Move(o, t)
      BY <2>1, <2>2, <3>1, <3>2, <3>3, <3>4 DEF Board!Move
    <3>6. Board!BoardNext
      BY <3>5 DEF Board!BoardNext
    <3> QED  BY <3>6
  <2> QED  BY <2>3, <2>4
<1> QED  BY <1>1, <1>2, StepMoves DEF OneRowMoves

\* As long as one request is served at a time, the handlers implement the board: documented
\* moves only, one ticket per order, nothing paid or delivered without money.
THEOREM HandlersImplementBoard == ASSUME OneAtATime PROVE Spec => BoardRefinement
<1>1. Init => Board!BoardInit
  BY InitOnBoard
<1>2. SInv /\ [Next]_vars => [Board!BoardNext]_(Board!boardVars)
  BY StepOnBoard
<1> QED  BY <1>1, <1>2, SerialInvariance, PTL DEF Spec, BoardRefinement, Board!BoardSpec

----------------------------------------------------------------------------
(* No way back to paid.                                                    *)

\* The kitchen's status event is appended with its ticket.
EnteredWithTicket ==
  \A o \in Orders : <<"order.status_changed", "in_kitchen">> \in outbox[o] => o \in boardTicketed

\* A ticketed order has left placed and paid for good.
TicketedHasLeft == \A o \in boardTicketed : order[o].status \notin {"placed", "paid"}

LEMMA CommitKeepsTogether ==
  ASSUME TypeOK, EnteredWithTicket, NEW s \in Slots, requests[s].order \in Orders,
         NEW r, NEW keys, NEW evs, Commit(s, r, keys, evs),
         <<"order.status_changed", "in_kitchen">> \in keys =>
           <<"print.kitchen_ticket", "">> \in keys
  PROVE  EnteredWithTicket'
<1>0. /\ outbox'[requests[s].order] = outbox[requests[s].order] \cup keys
      /\ \A p \in Orders \ {requests[s].order} : outbox'[p] = outbox[p]
  BY DEF TypeOK, Commit
<1>1. SUFFICES ASSUME NEW o \in Orders, <<"order.status_changed", "in_kitchen">> \in outbox'[o]
               PROVE  <<"print.kitchen_ticket", "">> \in outbox'[o]
  BY DEF EnteredWithTicket, boardTicketed
<1>2. CASE o = requests[s].order
  BY <1>0, <1>1, <1>2 DEF EnteredWithTicket, boardTicketed
<1>3. CASE o # requests[s].order
  BY <1>0, <1>1, <1>3 DEF EnteredWithTicket, boardTicketed
<1> QED  BY <1>2, <1>3

LEMMA HandlerWritesTogether ==
  ASSUME SInv, EnteredWithTicket, NEW s \in Slots, HandlerWrites(s)
  PROVE  EnteredWithTicket'
<1> DEFINE q == requests[s]
<1>a. ASSUME q.op \in Op PROVE q.order \in Orders
  BY <1>a, RequestFits
<1>b. TypeOK
  BY DEF SInv, IInv
<1>c. ASSUME UNCHANGED outbox PROVE EnteredWithTicket'
  BY <1>c DEF EnteredWithTicket, boardTicketed
<1>1. CASE StatusCommit(s)
  <2>1. q.order \in Orders
    BY <1>a, <1>1 DEF StatusCommit, Op
  <2>2. ASSUME NEW r, NEW evs, Commit(s, r, StatusKeys(q.to), evs) PROVE EnteredWithTicket'
    <3>1. <<"order.status_changed", "in_kitchen">> \in StatusKeys(q.to) =>
            <<"print.kitchen_ticket", "">> \in StatusKeys(q.to)
      BY DEF StatusKeys
    <3> QED  BY <1>b, <2>1, <2>2, <3>1, CommitKeepsTogether
  <2>3. CASE RollBack(s, StatusKeys(q.to))
    BY <1>c, <2>3 DEF RollBack
  <2> QED  BY <1>1, <2>2, <2>3 DEF StatusCommit
<1>2. CASE CollectCommit(s)
  <2>1. q.order \in Orders
    BY <1>a, <1>2 DEF CollectCommit, Op
  <2>2. ASSUME NEW r, NEW t, NEW evs, Commit(s, r, CollectKeys(t, q.method), evs)
        PROVE  EnteredWithTicket'
    <3>1. <<"order.status_changed", "in_kitchen">> \notin CollectKeys(t, q.method)
      BY DEF CollectKeys
    <3> QED  BY <1>b, <2>1, <2>2, <3>1, CommitKeepsTogether
  <2>3. ASSUME NEW keys, RollBack(s, keys) PROVE EnteredWithTicket'
    BY <1>c, <2>3 DEF RollBack
  <2> QED  BY <1>2, <2>2, <2>3 DEF CollectCommit
<1>3. CASE AssignAnnounce(s)
  <2>1. q.order \in Orders
    BY <1>a, <1>3 DEF AssignAnnounce, Op
  <2>2. CASE Commit(s, order[q.order], {<<"notification.order_in_transit", "">>}, {})
    BY <1>b, <2>1, <2>2, CommitKeepsTogether
  <2>3. CASE UNCHANGED outbox
    BY <1>c, <2>3
  <2> QED  BY <1>3, <2>2, <2>3 DEF AssignAnnounce, RollBack
<1>4. ASSUME NEW r, NEW evs, q.order \in Orders, Commit(s, r, {}, evs) PROVE EnteredWithTicket'
  BY <1>b, <1>4, CommitKeepsTogether
<1>5. CASE HandoverCommit(s)
  BY <1>a, <1>4, <1>5 DEF HandoverCommit, Op
<1>6. ASSUME NEW g \in BOOLEAN, SupportCommit(s, g) PROVE EnteredWithTicket'
  BY <1>a, <1>4, <1>6 DEF SupportCommit, Op
<1>7. CASE AbortCommit(s)
  <2>1. CASE UNCHANGED outbox
    BY <1>c, <2>1
  <2>2. CASE ~UNCHANGED outbox
    BY <1>a, <1>4, <1>7, <2>2 DEF AbortCommit, Op
  <2> QED  BY <2>1, <2>2
<1>8. CASE WebhookFailedCommit(s)
  BY <1>a, <1>4, <1>8 DEF WebhookFailedCommit, Op
<1>9. CASE AssignWrite(s) \/ EditCommit(s) \/ JobRead(s) \/ JobFails(s)
  BY <1>c, <1>9 DEF AssignWrite, EditCommit, JobRead, JobFails
<1> QED  BY <1>1, <1>2, <1>3, <1>5, <1>6, <1>7, <1>8, <1>9 DEF HandlerWrites

LEMMA StepTogether == SInv /\ EnteredWithTicket /\ [Next]_vars => EnteredWithTicket'
<1> SUFFICES ASSUME SInv, EnteredWithTicket, [Next]_vars PROVE EnteredWithTicket'
  OBVIOUS
<1>1. CASE UNCHANGED outbox
  BY <1>1 DEF EnteredWithTicket, boardTicketed
<1>2. ASSUME NEW s \in Slots, NEW o \in Orders, HandlerBegins(s, o) PROVE UNCHANGED outbox
  BY <1>2 DEF HandlerBegins, StatusBegin, CollectBegin, AssignBegin, HandoverBegin,
       EditBegin, SupportBegin, AbortBegin, WebhookFailedBegin, JobBegin, Begin
<1>3. ASSUME NEW s \in Slots, HandlerWrites(s) PROVE EnteredWithTicket'
  BY <1>3, HandlerWritesTogether
<1> QED  BY <1>1, <1>2, <1>3 DEF Next, Crash, WebhookPaid, ReleaseTimeComes, vars

LEMMA StepLeaves ==
  ASSUME OneAtATime PROVE SInv /\ TicketedHasLeft /\ [Next]_vars => TicketedHasLeft'
<1> SUFFICES ASSUME SInv, TicketedHasLeft, [Next]_vars, NEW o \in boardTicketed'
             PROVE  order'[o].status \notin {"placed", "paid"}
  BY DEF TicketedHasLeft
<1>1. o \in Orders /\ OneRowMoves
  BY StepMoves DEF boardTicketed
<1>2. CASE SameOnBoard(o)
  BY <1>2 DEF SameOnBoard, TicketedHasLeft
<1>3. CASE MovesOnBoard(o)
  <2>1. CASE o \notin boardTicketed
    BY <1>3, <2>1 DEF MovesOnBoard
  <2>2. CASE o \in boardTicketed /\ order'[o].status # order[o].status
    <3>1. order[o] \in Row /\ order[o].status \in OrderStatus \ {"placed", "paid"}
      BY <1>1, <2>2 DEF SInv, IInv, TypeOK, Row, TicketedHasLeft
    <3>2. "placed" \notin Board!Flow[order[o].status] /\ "paid" \notin Board!Flow[order[o].status]
      BY <3>1 DEF Board!Flow, OrderStatus
    <3> QED  BY <1>3, <2>2, <3>2 DEF MovesOnBoard
  <2>3. CASE o \in boardTicketed /\ order'[o].status = order[o].status
    BY <2>3 DEF TicketedHasLeft
  <2> QED  BY <2>1, <2>2, <2>3
<1> QED  BY <1>1, <1>2, <1>3 DEF OneRowMoves

\* "Do not regress progressed orders back to paid" (order.service.ts:1690) holds as long as
\* one request is served at a time: the collection that breaks it must overtake a handler.
THEOREM NotBackToPaid == ASSUME OneAtATime PROVE Spec => []NeverPaidAfterKitchen
<1>1. Init => EnteredWithTicket /\ TicketedHasLeft
  <2> SUFFICES ASSUME Init PROVE EnteredWithTicket /\ TicketedHasLeft
    OBVIOUS
  <2>2. boardTicketed = {}
    BY DEF Init, boardTicketed
  <2>3. \A o \in Orders : <<"order.status_changed", "in_kitchen">> \notin outbox[o]
    BY DEF Init
  <2> QED  BY <2>2, <2>3 DEF EnteredWithTicket, TicketedHasLeft
<1>2. SInv /\ EnteredWithTicket /\ TicketedHasLeft /\ [Next]_vars
        => EnteredWithTicket' /\ TicketedHasLeft'
  BY StepTogether, StepLeaves
<1>3. EnteredWithTicket /\ TicketedHasLeft => NeverPaidAfterKitchen
  BY DEF EnteredWithTicket, TicketedHasLeft, NeverPaidAfterKitchen
<1> QED  BY <1>1, <1>2, <1>3, SerialInvariance, PTL DEF Spec
============================================================================
