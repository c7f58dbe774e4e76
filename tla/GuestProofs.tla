----------------------------- MODULE GuestProofs -----------------------------
(***************************************************************************)
(* Proofs about what a guest does in the storefront, for any number of     *)
(* guests, orders, carts, requests and faults.  Checkout: a cart becomes   *)
(* one order, and none that is paid or about to be is given up.  Reviews:  *)
(* the dish shows what is published, and a mark counts its toggles.        *)
(***************************************************************************)
EXTENDS Checkout, DishReviews, WellFoundedInduction, FiniteSetTheorems, TLAPS

----------------------------------------------------------------------------
(* Checkout.                                                               *)

\* Nobody has asked for the money of the order, nor to give it up.
Untouched(a) == a \notin aborts \cup paying \cup charged /\ order[a].status # "voided"

\* A payment is only opened, and taken, for an order that was placed.
PaidIsPlaced ==
  /\ \A a \in Attempts :
       call[a].at = "done" \/ a \in paying \cup charged => order[a] # NoOrder
  /\ page.at \in {"hash", "window"} => order[page.attempt] # NoOrder

\* An attempt is untouched until its page has the hash.
UntouchedSoFar ==
  /\ \A a \in Attempts : call[a] = NoCall => Untouched(a)
  /\ page.at \in {"create", "hash", "window"} => call[page.attempt] # NoCall
  /\ page.at \in {"create", "hash"} => Untouched(page.attempt)

\* Then it is given up or paid: one of them.
GivenUpOrPaid ==
  /\ paying \cap charged = {}
  /\ \A a \in Attempts : a \in aborts \/ order[a].status = "voided" => a \notin paying \cup charged

\* The button is pressed with a cart.
CartIsFilled == kept \/ page.at # "form" => filled >= 1

IInv == TypeOK /\ PaidIsPlaced /\ UntouchedSoFar /\ GivenUpOrPaid /\ CartIsFilled

----------------------------------------------------------------------------
(* What pages, calls and rows are made of.                                 *)

LEMMA PageShape ==
  ASSUME TypeOK
  PROVE  /\ page.at \in {"form", "create", "hash", "window", "abort"}
         /\ page.at # "form" => /\ page.attempt \in Attempts
                                /\ page = [at |-> page.at, attempt |-> page.attempt]
         /\ page.at = "form" <=> page = Form
BY DEF TypeOK, Page, Form

LEMMA CallShape ==
  ASSUME TypeOK, NEW a \in Attempts
  PROVE  /\ call[a].at \in {"none", "sent", "done", "refused"}
         /\ call[a].at = "none" <=> call[a] = NoCall
         /\ call[a].at # "none" =>
              call[a] \in [at : {"sent", "done", "refused"}, cart : 1..MaxCarts, method : Methods]
BY DEF TypeOK, Call, NoCall

LEMMA RowShape ==
  ASSUME TypeOK, NEW a \in Attempts
  PROVE  /\ order[a].status = "none" <=> order[a] = NoOrder
         /\ order[a] # NoOrder =>
              order[a] \in [status : {"placed", "paid", "voided"},
                            pay : {"pending", "failed", "completed"},
                            method : Methods, cart : 1..MaxCarts]
BY DEF TypeOK, Row, NoOrder

LEMMA FirstIsFresh ==
  ASSUME Fresh # {}
  PROVE  First \in Fresh
<1>1. Fresh \subseteq Nat
  BY CheckoutAssumption DEF Fresh
<1>2. \E a \in Fresh : \A b \in Fresh : ~(<<b, a>> \in OpToRel(<, Nat))
  BY <1>1, NatLessThanWellFounded, WFMin
<1>3. \E a \in Fresh : \A b \in Fresh : ~(b < a)
  BY <1>1, <1>2 DEF OpToRel
<1>4. \E a \in Fresh : \A b \in Fresh : a <= b
  BY <1>1, <1>3
<1> QED  BY <1>4 DEF First

----------------------------------------------------------------------------
(* The page.                                                               *)

LEMMA FillCartKeeps ==
  ASSUME IInv, FillCart
  PROVE  IInv'
<1>1. UNCHANGED <<app, page, call, order, aborts, paying, charged, faults>>
  BY DEF FillCart
<1>2. filled' \in 1..MaxCarts /\ kept' \in BOOLEAN
  BY CheckoutAssumption DEF FillCart, IInv, TypeOK
<1>3. TypeOK'
  BY <1>1, <1>2, CheckoutAssumption DEF IInv, TypeOK
<1> QED  BY <1>1, <1>2, <1>3
         DEF IInv, PaidIsPlaced, UntouchedSoFar, GivenUpOrPaid, Untouched, CartIsFilled

LEMMA PressKeeps ==
  ASSUME IInv, NEW method \in Methods, Press(method)
  PROVE  IInv'
<1>1. UNCHANGED <<app, filled, kept, order, aborts, paying, charged, faults>>
  BY DEF Press
<1>2. PICK a \in Attempts :
        /\ call[a] = NoCall
        /\ call' = [call EXCEPT ![a] = [at |-> "sent", cart |-> filled, method |-> method]]
        /\ page' = [at |-> "create", attempt |-> a]
  BY FirstIsFresh DEF Press, Fresh
<1>3. filled \in 1..MaxCarts
  BY CheckoutAssumption DEF Press, IInv, TypeOK, CartIsFilled
<1>4. [at |-> "sent", cart |-> filled, method |-> method] \in Call
  BY <1>3 DEF Call
<1>5. /\ call' \in [Attempts -> Call] /\ call'[a].at = "sent" /\ call'[a] # NoCall
      /\ \A b \in Attempts : b # a => call'[b] = call[b]
  BY <1>2, <1>4 DEF IInv, TypeOK, NoCall
<1>6. TypeOK'
  BY <1>1, <1>2, <1>5 DEF IInv, TypeOK, Page
<1>7. PaidIsPlaced'
  BY <1>1, <1>2, <1>5 DEF IInv, PaidIsPlaced
<1>8. UntouchedSoFar'
  BY <1>1, <1>2, <1>5 DEF IInv, UntouchedSoFar, Untouched
<1>9. GivenUpOrPaid' /\ CartIsFilled'
  BY <1>1, <1>3 DEF IInv, GivenUpOrPaid, CartIsFilled
<1> QED  BY <1>6, <1>7, <1>8, <1>9 DEF IInv

LEMMA CreatedKeeps ==
  ASSUME IInv, Created
  PROVE  IInv'
<1>1. UNCHANGED <<app, filled, call, order, aborts, paying, charged, faults>>
  BY DEF Created
<1>2. PICK a \in Attempts : page = [at |-> "create", attempt |-> a]
  BY PageShape DEF Created, IInv
<1>3. \/ page' = Form
      \/ page' = [at |-> "hash", attempt |-> a] /\ call[a].at = "done"
  BY <1>2 DEF Created
<1>4. page' \in Page /\ kept' \in BOOLEAN
  BY <1>2, <1>3 DEF Created, Placed, Page, PaysNow
<1>5. TypeOK'
  BY <1>1, <1>4 DEF IInv, TypeOK
<1>6. PaidIsPlaced'
  BY <1>1, <1>3 DEF IInv, PaidIsPlaced, Form
<1>7. Untouched(a)
  BY <1>2 DEF IInv, UntouchedSoFar
<1>8. UntouchedSoFar'
  BY <1>1, <1>2, <1>3, <1>7 DEF IInv, UntouchedSoFar, Untouched, Form
<1>9. GivenUpOrPaid' /\ CartIsFilled'
  BY <1>1, <1>2 DEF IInv, GivenUpOrPaid, CartIsFilled
<1> QED  BY <1>5, <1>6, <1>8, <1>9 DEF IInv

LEMMA OpenWindowKeeps ==
  ASSUME IInv, OpenWindow
  PROVE  IInv'
<1>1. UNCHANGED <<app, filled, kept, call, order, aborts, charged, faults>>
  BY DEF OpenWindow
<1>2. PICK a \in Attempts : page = [at |-> "hash", attempt |-> a]
  BY PageShape DEF OpenWindow, IInv
<1>3. page' = [at |-> "window", attempt |-> a] /\ paying' = paying \cup {a}
  BY <1>2 DEF OpenWindow
<1>4. Untouched(a) /\ order[a] # NoOrder
  BY <1>2 DEF IInv, UntouchedSoFar, PaidIsPlaced
<1>5. TypeOK'
  BY <1>1, <1>3 DEF IInv, TypeOK, Page
<1>6. PaidIsPlaced'
  BY <1>1, <1>3, <1>4 DEF IInv, PaidIsPlaced
<1>7. call[a] # NoCall
  BY <1>2 DEF IInv, UntouchedSoFar
<1>8. UntouchedSoFar'
  BY <1>1, <1>3, <1>7 DEF IInv, UntouchedSoFar, Untouched
<1>9. GivenUpOrPaid' /\ CartIsFilled'
  BY <1>1, <1>2, <1>3, <1>4 DEF IInv, GivenUpOrPaid, CartIsFilled, Untouched
<1> QED  BY <1>5, <1>6, <1>8, <1>9 DEF IInv

\* The page is left or stays; nothing is given up that was not before.
LEMMA LeavesKeep ==
  ASSUME IInv, TypeOK', UNCHANGED <<filled, call, order, paying, charged>>,
         page' \in {page, Form}, aborts' \subseteq aborts,
         kept' => kept \/ page.at # "form"
  PROVE  IInv'
<1>1. PaidIsPlaced'
  BY DEF IInv, PaidIsPlaced, Form
<1>2. UntouchedSoFar'
  BY DEF IInv, UntouchedSoFar, Untouched, Form
<1>3. GivenUpOrPaid' /\ CartIsFilled'
  BY DEF IInv, GivenUpOrPaid, CartIsFilled, Form
<1> QED  BY <1>1, <1>2, <1>3 DEF IInv

\* The page gives up an order whose payment it knows never to happen.
LEMMA GiveUpKeeps ==
  ASSUME IInv, NEW waits \in BOOLEAN, GiveUp(waits), page.at \in {"hash", "window"},
         page.attempt \notin paying' \cup charged, paying' \subseteq paying,
         UNCHANGED <<app, filled, kept, call, order, charged, faults>>
  PROVE  IInv'
<1>1. PICK a \in Attempts : page.attempt = a /\ page = [at |-> page.at, attempt |-> a]
  BY PageShape DEF IInv
<1>2. aborts' = aborts \cup {a} /\ page' \in {[at |-> "abort", attempt |-> a], Form}
  BY <1>1 DEF GiveUp
<1>3. TypeOK'
  BY <1>1, <1>2 DEF IInv, TypeOK, Page
<1>4. PaidIsPlaced'
  BY <1>2 DEF IInv, PaidIsPlaced, Form
<1>5. call[a] # NoCall
  BY <1>1 DEF IInv, UntouchedSoFar
<1>6. UntouchedSoFar'
  BY <1>2, <1>5 DEF IInv, UntouchedSoFar, Untouched, Form
<1>7. GivenUpOrPaid'
  BY <1>1, <1>2 DEF IInv, GivenUpOrPaid
<1>8. CartIsFilled'
  BY DEF IInv, CartIsFilled
<1> QED  BY <1>3, <1>4, <1>6, <1>7, <1>8 DEF IInv

LEMMA GuestKeeps ==
  ASSUME IInv, Guest
  PROVE  IInv'
<1>1. CASE CannotPay
  <2>1. PICK waits \in BOOLEAN : GiveUp(waits)
    BY <1>1 DEF CannotPay
  <2>2. page.attempt \notin paying \cup charged
    BY <1>1 DEF CannotPay, IInv, UntouchedSoFar, Untouched
  <2> QED  BY <1>1, <2>1, <2>2, GiveUpKeeps DEF CannotPay
<1>2. CASE InitError
  BY <1>2, GiveUpKeeps DEF InitError, IInv, GivenUpOrPaid
<1>3. CASE GivenUp \/ Dismissed
  <2>1. UNCHANGED <<app, filled, kept, call, order, paying, charged, faults, aborts>> /\ page' = Form
    BY <1>3 DEF GivenUp, Dismissed, onDismissed
  <2>2. TypeOK'
    BY <2>1 DEF IInv, TypeOK, Page
  <2> QED  BY <2>1, <2>2, LeavesKeep
<1>4. CASE Completed
  <2>1. UNCHANGED <<app, filled, call, order, paying, charged, faults, aborts>>
        /\ page' = Form /\ kept' = FALSE
    BY <1>4 DEF Completed, onCompleted
  <2>2. TypeOK'
    BY <2>1 DEF IInv, TypeOK, Page
  <2> QED  BY <2>1, <2>2, LeavesKeep
<1> QED  BY <1>1, <1>2, <1>3, <1>4, FillCartKeeps, PressKeeps, CreatedKeeps, OpenWindowKeeps
         DEF Guest

----------------------------------------------------------------------------
(* PayHere, the server and the faults.                                     *)

LEMMA PayKeeps ==
  ASSUME IInv, NEW a \in Attempts, Pay(a)
  PROVE  IInv'
<1>1. /\ UNCHANGED <<app, filled, kept, page, call, order, aborts>>
      /\ a \in paying /\ charged' = charged \cup {a} /\ paying' = paying \ {a}
  BY DEF Pay
<1>2. faults' \in 0..MaxFaults
  BY CheckoutAssumption DEF Pay, Fault, IInv, TypeOK
<1>3. TypeOK'
  BY <1>1, <1>2 DEF IInv, TypeOK
<1>4. PaidIsPlaced'
  BY <1>1 DEF IInv, PaidIsPlaced
<1>5. UntouchedSoFar'
  BY <1>1 DEF IInv, UntouchedSoFar, Untouched
<1>6. GivenUpOrPaid' /\ CartIsFilled'
  BY <1>1 DEF IInv, GivenUpOrPaid, CartIsFilled
<1> QED  BY <1>3, <1>4, <1>5, <1>6 DEF IInv

\* A row changes, and is not voided unless the order was being given up.
LEMMA RowKeeps ==
  ASSUME IInv, NEW a \in Attempts, TypeOK', order'[a] # NoOrder \/ order'[a] = order[a],
         \A b \in Attempts : b # a => order'[b] = order[b] /\ call'[b] = call[b],
         call'[a] = call[a] \/ (call[a].at = "sent" /\ call'[a].at \in {"done", "refused"}),
         call'[a].at = "done" => order'[a] # NoOrder,
         order'[a].status = "voided" => order[a].status = "voided" \/ a \in aborts,
         aborts' \subseteq aborts, UNCHANGED <<filled, kept, page, paying, charged>>
  PROVE  IInv'
<1>1. PaidIsPlaced'
  <2>1. ASSUME NEW b \in Attempts, order[b] # NoOrder PROVE order'[b] # NoOrder
    BY <2>1
  <2>2. page.at \in {"hash", "window"} => order'[page.attempt] # NoOrder
    BY <2>1, PageShape DEF IInv, PaidIsPlaced
  <2>3. \A b \in Attempts :
          call'[b].at = "done" \/ b \in paying \cup charged => order'[b] # NoOrder
    BY <2>1 DEF IInv, PaidIsPlaced
  <2> QED  BY <2>2, <2>3 DEF PaidIsPlaced
<1>2. call'[a] = NoCall => call[a] = NoCall
  BY DEF NoCall
<1>3. ASSUME NEW b \in Attempts, Untouched(b) PROVE Untouched(b)'
  BY <1>3 DEF Untouched
<1>4. page.at # "form" => page.attempt \in Attempts
  BY PageShape DEF IInv
<1>5. call[a] # NoCall => call'[a] # NoCall
  BY <1>2
<1>6. UntouchedSoFar'
  <2>1. \A b \in Attempts : call'[b] = NoCall => call[b] = NoCall
    BY <1>2
  <2>2. \A b \in Attempts : (call[b] = NoCall => Untouched(b))
    BY DEF IInv, UntouchedSoFar
  <2>3. \A b \in Attempts : call'[b] = NoCall => Untouched(b)'
    BY <1>3, <2>1, <2>2
  <2>4. page.at \in {"create", "hash", "window"} => call'[page.attempt] # NoCall
    BY <1>4, <2>1 DEF IInv, UntouchedSoFar
  <2>5. page.at \in {"create", "hash"} =>
          /\ page.attempt \notin aborts \cup paying \cup charged
          /\ order'[page.attempt].status # "voided"
    BY <1>4 DEF IInv, UntouchedSoFar, Untouched
  <2> QED  BY <2>3, <2>4, <2>5 DEF UntouchedSoFar, Untouched
<1>7. GivenUpOrPaid' /\ CartIsFilled'
  BY DEF IInv, GivenUpOrPaid, CartIsFilled
<1> QED  BY <1>1, <1>6, <1>7 DEF IInv

LEMMA ServerKeeps ==
  ASSUME IInv, NEW a \in Attempts, Create(a) \/ Abort(a) \/ Land(a)
  PROVE  IInv'
<1>1. UNCHANGED <<app, filled, kept, page, paying, charged, faults>>
  BY DEF Create, Abort, Land
<1>2. CASE Create(a)
  <2>1. call[a] \in [at : {"sent", "done", "refused"}, cart : 1..MaxCarts, method : Methods]
        /\ call[a].at = "sent"
    BY <1>2, CallShape DEF Create, IInv
  <2>2. PICK x \in {"done", "refused"} :
          /\ call' = [call EXCEPT ![a] = [call[a] EXCEPT !.at = x]]
          /\ IF x = "done"
               THEN order' = [order EXCEPT ![a] = [status |-> "placed", pay |-> "pending",
                                method |-> call[a].method, cart |-> call[a].cart]]
               ELSE order' = order
    BY <1>2 DEF Create
  <2>3. [call[a] EXCEPT !.at = x] \in Call /\ [call[a] EXCEPT !.at = x].at = x
    BY <2>1 DEF Call
  <2>4. /\ call' \in [Attempts -> Call] /\ call'[a].at = x
        /\ \A b \in Attempts : b # a => call'[b] = call[b]
    BY <2>2, <2>3 DEF IInv, TypeOK
  <2> DEFINE row == [status |-> "placed", pay |-> "pending",
                     method |-> call[a].method, cart |-> call[a].cart]
  <2>5. row \in Row /\ row # NoOrder /\ row.status = "placed"
    BY <2>1 DEF Row, NoOrder
  <2>6. /\ order' \in [Attempts -> Row]
        /\ \A b \in Attempts : b # a => order'[b] = order[b]
        /\ IF x = "done" THEN order'[a] = row ELSE order'[a] = order[a]
    BY <2>2, <2>5 DEF IInv, TypeOK
  <2>7. aborts' = aborts
    BY <1>2 DEF Create
  <2>8. TypeOK'
    BY <1>1, <2>4, <2>6, <2>7 DEF IInv, TypeOK
  <2> HIDE DEF row
  <2> QED  BY <1>1, <2>1, <2>4, <2>5, <2>6, <2>7, <2>8, RowKeeps
<1>3. CASE Abort(a)
  <2>1. a \in aborts /\ aborts' = aborts \ {a} /\ call' = call
    BY <1>3 DEF Abort
  <2>2. CASE Abortable(order[a])
    <3>1. order[a] \in [status : {"placed", "paid", "voided"}, pay : {"pending", "failed", "completed"},
                        method : Methods, cart : 1..MaxCarts]
      BY <2>2, RowShape DEF Abortable, IInv, NoOrder
    <3> DEFINE row == [order[a] EXCEPT !.status = "voided", !.pay = "failed"]
    <3>2. order' = [order EXCEPT ![a] = row]
      BY <1>3, <2>2 DEF Abort
    <3>3. row \in Row /\ row # NoOrder
      BY <3>1 DEF Row, NoOrder
    <3>4. /\ order' \in [Attempts -> Row] /\ order'[a] = row
          /\ \A b \in Attempts : b # a => order'[b] = order[b]
      BY <3>2, <3>3 DEF IInv, TypeOK
    <3>5. TypeOK'
      BY <1>1, <2>1, <3>4 DEF IInv, TypeOK
    <3> HIDE DEF row
    <3> QED  BY <1>1, <2>1, <3>3, <3>4, <3>5, RowKeeps
  <2>3. CASE ~Abortable(order[a])
    <3>1. order' = order
      BY <1>3, <2>3 DEF Abort
    <3>2. TypeOK'
      BY <1>1, <2>1, <3>1 DEF IInv, TypeOK
    <3>3. call[a].at = "done" => order[a] # NoOrder
      BY DEF IInv, PaidIsPlaced
    <3> QED  BY <1>1, <2>1, <3>1, <3>2, <3>3, RowKeeps
  <2> QED  BY <2>2, <2>3
<1>4. CASE Land(a)
  <2>1. a \in charged /\ order' = [order EXCEPT ![a] = Paid(order[a])] /\ UNCHANGED <<call, aborts>>
    BY <1>4 DEF Land
  <2>2. order[a] \in [status : {"placed", "paid", "voided"}, pay : {"pending", "failed", "completed"},
                      method : Methods, cart : 1..MaxCarts]
    BY <2>1, RowShape DEF IInv, PaidIsPlaced
  <2>3. Paid(order[a]) \in Row /\ Paid(order[a]) # NoOrder
        /\ (Paid(order[a]).status = "voided" => order[a].status = "voided")
    BY <2>2 DEF Paid, Row, NoOrder
  <2>4. /\ order' \in [Attempts -> Row] /\ order'[a] = Paid(order[a])
        /\ \A b \in Attempts : b # a => order'[b] = order[b]
    BY <2>1, <2>3 DEF IInv, TypeOK
  <2>5. TypeOK'
    BY <1>1, <2>1, <2>4 DEF IInv, TypeOK
  <2> QED  BY <1>1, <2>1, <2>3, <2>4, <2>5, RowKeeps
<1> QED  BY <1>2, <1>3, <1>4

LEMMA FaultKeeps ==
  ASSUME IInv, LoseAnswer \/ Reload
  PROVE  IInv'
<1>1. UNCHANGED <<app, filled, kept, call, order, paying, charged>>
      /\ page' = Form /\ aborts' \subseteq aborts
  BY DEF LoseAnswer, Reload
<1>2. faults' \in 0..MaxFaults
  BY CheckoutAssumption DEF LoseAnswer, Reload, Fault, IInv, TypeOK
<1>3. TypeOK'
  BY <1>1, <1>2 DEF IInv, TypeOK, Page
<1> QED  BY <1>1, <1>3, LeavesKeep

----------------------------------------------------------------------------
(* Nothing that is paid is given up.                                       *)

LEMMA InitIInv == Init => IInv
<1> SUFFICES ASSUME Init PROVE IInv
  OBVIOUS
<1>1. TypeOK
  <2>1. 0 \in 0..MaxCarts /\ 0 \in 0..MaxFaults
    BY CheckoutAssumption
  <2>2. Form \in Page /\ NoCall \in Call /\ NoOrder \in Row
    BY DEF Page, Call, Row
  <2> QED  BY <2>1, <2>2 DEF Init, TypeOK
<1>2. PaidIsPlaced /\ UntouchedSoFar
  BY DEF Init, PaidIsPlaced, UntouchedSoFar, Untouched, Form, NoCall, NoOrder
<1>3. GivenUpOrPaid /\ CartIsFilled
  BY DEF Init, GivenUpOrPaid, CartIsFilled, Form
<1> QED  BY <1>1, <1>2, <1>3 DEF IInv

THEOREM Invariant == Spec => []IInv
<1>1. IInv /\ [Next]_vars => IInv'
  <2> SUFFICES ASSUME IInv, [Next]_vars PROVE IInv'
    OBVIOUS
  <2>1. CASE Next
    BY <2>1, GuestKeeps, PayKeeps, ServerKeeps, FaultKeeps DEF Next
  <2>2. CASE UNCHANGED vars
    <3>1. UNCHANGED <<app, filled, kept, page, call, order, aborts, paying, charged, faults>>
      BY <2>2 DEF vars
    <3>2. TypeOK'
      BY <3>1 DEF IInv, TypeOK
    <3> QED  BY <3>1, <3>2, LeavesKeep
  <2> QED  BY <2>1, <2>2
<1> QED  BY <1>1, InitIInv, PTL DEF Spec

\* Pages, calls, orders and payments stay in the states the model gives them.
THEOREM CheckoutTyped == Spec => []TypeOK
<1>1. IInv => TypeOK
  BY DEF IInv
<1> QED  BY <1>1, Invariant, PTL

\* abortCheckout never voids an order whose money PayHere has, or may still
\* take: the page asks for it only where no window was opened or none will pay.
THEOREM PaidIsNeverVoided == Spec => []VoidedNeverCharged
<1>1. IInv => VoidedNeverCharged
  BY DEF IInv, GivenUpOrPaid, VoidedNeverCharged
<1> QED  BY <1>1, Invariant, PTL

----------------------------------------------------------------------------
(* What is owed for a cart.  A row has the cart its call was sent with, and *)
(* a page that is at something has the last cart in the store.              *)

CartOfCall ==
  /\ \A a \in Attempts : call[a] # NoCall => call[a].cart \in 1..filled
  /\ \A a \in Attempts : order[a] # NoOrder =>
       /\ call[a].at = "done"
       /\ order[a].cart = call[a].cart /\ order[a].method = call[a].method
       /\ order[a].method = "cash" => order[a].status # "voided"
  /\ page.at # "form" =>
       /\ kept /\ call[page.attempt] # NoCall /\ call[page.attempt].cart = filled
       /\ page.at # "create" => call[page.attempt].at = "done" /\ PaysNow(page.attempt)

\* While nothing is lost: only the page at work has a call on the way or an
\* order owed for the cart in the store, and no cart is owed twice.
Once ==
  /\ \A a \in Attempts : call[a].at = "sent" => page = [at |-> "create", attempt |-> a]
  /\ kept => \A a \in Owed(filled) : page.at \in {"create", "window"} /\ page.attempt = a
  /\ \A c \in 1..filled : \A a, b \in Owed(c) : a = b
  /\ app = "web" => \A c \in 1..filled : Gone(c) => Owed(c) # {}

OneEach == CartOfCall /\ (faults = 0 => Once)

LEMMA OwedWasFilled ==
  ASSUME IInv, CartOfCall, NEW c, NEW a \in Owed(c)
  PROVE  /\ a \in Attempts /\ order[a] # NoOrder /\ order[a].cart = c
         /\ call[a].at = "done" /\ call[a].cart = c /\ c \in 1..filled
<1>1. a \in Attempts /\ order[a] # NoOrder /\ order[a].cart = c
  BY DEF Owed
<1>2. call[a].at = "done" /\ call[a].cart = c
  BY <1>1 DEF CartOfCall
<1>3. call[a] # NoCall
  BY <1>2 DEF NoCall
<1> QED  BY <1>1, <1>2, <1>3 DEF CartOfCall

LEMMA SameOwed ==
  ASSUME UNCHANGED <<order, charged>>
  PROVE  \A c : Owed(c)' = Owed(c)
BY DEF Owed

LEMMA FillCartCounts ==
  ASSUME IInv, OneEach, FillCart
  PROVE  OneEach'
<1>1. /\ UNCHANGED <<app, page, call, order, aborts, paying, charged, faults>>
      /\ page = Form /\ ~kept /\ filled' = filled + 1 /\ kept' /\ filled \in Nat
  BY CheckoutAssumption DEF FillCart, IInv, TypeOK
<1>2. \A c \in 1..filled : c \in 1..filled'
  BY <1>1
<1>3. CartOfCall'
  BY <1>1, <1>2 DEF OneEach, CartOfCall, Form
<1>4. \A c : Owed(c)' = Owed(c)
  BY <1>1, SameOwed
<1>5. Owed(filled') = {}
  BY <1>1, OwedWasFilled DEF OneEach
<1>6. ASSUME faults' = 0 PROVE Once'
  <2>1. Once
    BY <1>1, <1>6 DEF OneEach
  <2>2. \A c \in 1..filled' : c \in 1..filled \/ c = filled'
    BY <1>1
  <2>3. \A c \in 1..filled : Gone(c)
    BY <1>1 DEF Gone
  <2>4. \A c \in 1..filled' : Gone(c)' => c \in 1..filled
    BY <1>1 DEF Gone
  <2> QED  BY <1>1, <1>4, <1>5, <2>1, <2>2, <2>3, <2>4 DEF Once
<1> QED  BY <1>3, <1>6 DEF OneEach

LEMMA PressCounts ==
  ASSUME IInv, OneEach, NEW method \in Methods, Press(method)
  PROVE  OneEach'
<1>1. UNCHANGED <<app, filled, kept, order, aborts, paying, charged, faults>> /\ page = Form /\ kept
  BY DEF Press
<1>2. PICK a \in Attempts :
        /\ call[a] = NoCall
        /\ call' = [call EXCEPT ![a] = [at |-> "sent", cart |-> filled, method |-> method]]
        /\ page' = [at |-> "create", attempt |-> a]
  BY FirstIsFresh DEF Press, Fresh
<1>3. filled \in 1..filled
  BY <1>1, CheckoutAssumption DEF IInv, TypeOK, CartIsFilled
<1>4. /\ call'[a].at = "sent" /\ call'[a].cart = filled /\ call'[a] # NoCall
      /\ \A b \in Attempts : b # a => call'[b] = call[b]
  BY <1>2 DEF IInv, TypeOK, NoCall
<1>5. order[a] = NoOrder
  BY <1>2 DEF OneEach, CartOfCall, NoCall
<1>6. CartOfCall'
  BY <1>1, <1>2, <1>3, <1>4, <1>5 DEF OneEach, CartOfCall
<1>7. \A c : Owed(c)' = Owed(c)
  BY <1>1, SameOwed
<1>8. ASSUME faults' = 0 PROVE Once'
  <2>1. Once
    BY <1>1, <1>8 DEF OneEach
  <2>2. Owed(filled) = {}
    BY <1>1, <2>1 DEF Once, Form
  <2>3. \A b \in Attempts : b # a => call'[b].at # "sent"
    BY <1>1, <1>4, <2>1 DEF Once, Form
  <2> QED  BY <1>1, <1>2, <1>4, <1>7, <2>1, <2>2, <2>3 DEF Once, Gone
<1> QED  BY <1>6, <1>8 DEF OneEach

\* The page is left or goes on while nothing is owed for the cart it has.
LEMMA LeavesCount ==
  ASSUME IInv, OneEach, UNCHANGED <<app, filled, kept, call, order, charged>>,
         page' = Form \/ (page'.at \in {"hash", "window", "abort"} /\ page'.attempt = page.attempt
                          /\ page.at # "form" /\ PaysNow(page.attempt)
                          /\ call[page.attempt].at = "done"),
         faults' = 0 => /\ faults = 0
                        /\ \A a \in Attempts : call[a].at # "sent"
                        /\ Owed(filled) = {}
  PROVE  OneEach'
<1>1. CartOfCall'
  BY DEF OneEach, CartOfCall, PaysNow, Form
<1>2. \A c : Owed(c)' = Owed(c)
  BY SameOwed
<1>3. ASSUME faults' = 0 PROVE Once'
  BY <1>2, <1>3 DEF OneEach, Once, Gone
<1> QED  BY <1>1, <1>3 DEF OneEach

LEMMA CreatedCounts ==
  ASSUME IInv, OneEach, Created
  PROVE  OneEach'
<1>1. /\ UNCHANGED <<app, filled, call, order, aborts, paying, charged, faults>>
      /\ page.at = "create"
  BY DEF Created
<1>2. PICK a \in Attempts : page = [at |-> "create", attempt |-> a]
  BY PageShape DEF Created, IInv
<1>3. call[a] # NoCall /\ call[a].cart = filled /\ call[a].at \in {"done", "refused"} /\ kept
  BY <1>2, CallShape DEF Created, IInv, OneEach, CartOfCall
<1>4. \A c : Owed(c)' = Owed(c)
  BY <1>1, SameOwed
<1>5. call[a].at = "done" => order[a] # NoOrder /\ order[a].cart = filled
  BY <1>3 DEF IInv, PaidIsPlaced, OneEach, CartOfCall
<1>6. ASSUME faults = 0 PROVE Once /\ \A b \in Attempts : call[b].at # "sent"
  BY <1>2, <1>3, <1>6 DEF OneEach, Once
<1>7. CASE kept'
  <2>1. call[a].at = "refused" \/ PaysNow(a)
    BY <1>2, <1>7 DEF Created, Placed
  <2>2. a \notin charged
    BY <1>2 DEF IInv, UntouchedSoFar, Untouched
  <2>3. a \notin Owed(filled)
    BY <1>5, <2>1, <2>2 DEF Owed, PaysNow, OneEach, CartOfCall
  <2>4. faults = 0 => Owed(filled) = {}
    BY <1>2, <1>3, <1>6, <2>3 DEF Once
  <2>5. page' = Form \/ (page' = [at |-> "hash", attempt |-> a] /\ call[a].at = "done" /\ PaysNow(a))
    BY <1>2 DEF Created
  <2> QED  BY <1>1, <1>2, <1>3, <1>6, <1>7, <2>4, <2>5, LeavesCount
<1>8. CASE ~kept'
  <2>1. call[a].at = "done" /\ ~PaysNow(a) /\ page' = Form
    BY <1>2, <1>3, <1>8 DEF Created, Placed
  <2>2. CartOfCall'
    BY <1>1, <2>1 DEF OneEach, CartOfCall, Form
  <2>3. app = "web" => a \in Owed(filled)
    BY <1>5, <2>1, CallShape DEF Owed, PaysNow, OneEach, CartOfCall, Methods, IInv, NoCall
  <2>4. \A c \in 1..filled : Gone(c)' => Gone(c) \/ c = filled
    BY <1>1 DEF Gone
  <2>5. ASSUME faults' = 0 PROVE Once'
    BY <1>1, <1>4, <1>6, <1>8, <2>3, <2>4, <2>5 DEF Once
  <2> QED  BY <2>2, <2>5 DEF OneEach
<1> QED  BY <1>7, <1>8

\* Of the page's own order only PayHere's money is owed.
LEMMA OnlyCharged ==
  ASSUME IInv, OneEach, faults = 0, page.at \in {"hash", "window", "abort"},
         page.attempt \notin charged \/ page.at # "window"
  PROVE  Owed(filled) = {} /\ \A a \in Attempts : call[a].at # "sent"
<1>1. PICK a \in Attempts : page = [at |-> page.at, attempt |-> a]
  BY PageShape DEF IInv
<1>2. Once /\ kept /\ call[a].at = "done" /\ PaysNow(a)
  BY <1>1 DEF OneEach, CartOfCall
<1>3. \A b \in Owed(filled) : page.at = "window" /\ b = a
  BY <1>1, <1>2 DEF Once
<1>4. order[a] # NoOrder
  BY <1>2 DEF IInv, PaidIsPlaced
<1>5. order[a].method = "payhere"
  BY <1>2, <1>4 DEF PaysNow, OneEach, CartOfCall
<1>6. a \in Owed(filled) => a \in charged
  BY <1>5 DEF Owed
<1>7. Owed(filled) = {}
  BY <1>1, <1>3, <1>6
<1>8. \A b \in Attempts : call[b].at # "sent"
  BY <1>1, <1>2 DEF Once
<1> QED  BY <1>7, <1>8

LEMMA GuestCounts ==
  ASSUME IInv, OneEach, Guest
  PROVE  OneEach'
<1>1. CASE OpenWindow \/ CannotPay \/ GivenUp \/ Dismissed \/ InitError
  <2>1. /\ UNCHANGED <<app, filled, kept, call, order, charged, faults>>
        /\ page.at \in {"hash", "window", "abort"}
        /\ page.attempt \notin charged \/ page.at # "window"
    BY <1>1 DEF OpenWindow, CannotPay, GivenUp, Dismissed, InitError, IInv, GivenUpOrPaid
  <2>2. PICK a \in Attempts : page = [at |-> page.at, attempt |-> a]
    BY <2>1, PageShape DEF IInv
  <2>3. page' \in {Form, [at |-> "window", attempt |-> a], [at |-> "abort", attempt |-> a]}
    BY <1>1, <2>2 DEF OpenWindow, CannotPay, GivenUp, GiveUp, Dismissed, InitError
  <2>4. PaysNow(a) /\ call[a].at = "done"
    BY <2>1, <2>2 DEF OneEach, CartOfCall
  <2> QED  BY <2>1, <2>2, <2>3, <2>4, OnlyCharged, LeavesCount
<1>2. CASE Completed
  <2>1. /\ UNCHANGED <<app, filled, call, order, aborts, paying, charged, faults>>
        /\ page' = Form /\ ~kept' /\ page.at = "window" /\ page.attempt \in charged
    BY <1>2 DEF Completed, onCompleted
  <2>2. PICK a \in Attempts : page = [at |-> "window", attempt |-> a]
    BY <2>1, PageShape DEF IInv
  <2>3. CartOfCall'
    BY <2>1 DEF OneEach, CartOfCall, Form
  <2>4. a \in Owed(filled)
    BY <2>1, <2>2 DEF Owed, IInv, PaidIsPlaced, OneEach, CartOfCall
  <2>5. \A c : Owed(c)' = Owed(c)
    BY <2>1, SameOwed
  <2>6. \A c \in 1..filled : Gone(c)' => Gone(c) \/ c = filled
    BY <2>1 DEF Gone
  <2>7. ASSUME faults' = 0 PROVE Once'
    <3>1. Once
      BY <2>1, <2>7 DEF OneEach
    <3>2. \A b \in Attempts : call[b].at # "sent"
      BY <2>2, <3>1 DEF Once
    <3> QED  BY <2>1, <2>4, <2>5, <2>6, <3>1, <3>2 DEF Once
  <2> QED  BY <2>3, <2>7 DEF OneEach
<1> QED  BY <1>1, <1>2, FillCartCounts, PressCounts, CreatedCounts DEF Guest

\* What the server does to the rows leaves what is owed for a cart as it is, but
\* for one order of the page at work.
LEMMA RowsCount ==
  ASSUME IInv, OneEach, CartOfCall', UNCHANGED <<app, filled, kept, page>>,
         NEW a \in Attempts, faults' = 0 => faults = 0,
         \A b \in Attempts : call'[b].at = "sent" => call[b].at = "sent",
         \A c : Owed(c)' \subseteq Owed(c) \cup {a} /\ Owed(c) \subseteq Owed(c)',
         faults' = 0 => \/ \A c : Owed(c)' = Owed(c)
                        \/ /\ page.at \in {"create", "window"} /\ page.attempt = a
                           /\ call'[a].cart = filled /\ kept
  PROVE  OneEach'
<1>1. SUFFICES ASSUME faults' = 0 PROVE Once'
  BY DEF OneEach
<1>2. Once
  BY <1>1 DEF OneEach
<1>3. \A b \in Attempts : call'[b].at = "sent" => page' = [at |-> "create", attempt |-> b]
  BY <1>2 DEF Once
<1>4. CASE \A c : Owed(c)' = Owed(c)
  BY <1>2, <1>3, <1>4 DEF Once, Gone
<1>5. CASE /\ page.at \in {"create", "window"} /\ page.attempt = a
           /\ call'[a].cart = filled /\ kept
  <2>1. ASSUME NEW c, a \in Owed(c)' PROVE c = filled
    BY <1>5, <2>1 DEF Owed, CartOfCall
  <2>2. \A b \in Owed(filled)' : b = a
    BY <1>2, <1>5 DEF Once
  <2>3. \A c \in 1..filled' : \A x, y \in Owed(c)' : x = y
    BY <1>2, <2>1, <2>2 DEF Once
  <2>4. \A c \in 1..filled : Gone(c)' <=> Gone(c)
    BY DEF Gone
  <2>5. kept' => \A b \in Owed(filled)' : page'.at \in {"create", "window"} /\ page'.attempt = b
    BY <1>5, <2>2
  <2>6. app' = "web" => \A c \in 1..filled' : Gone(c)' => Owed(c)' # {}
    BY <1>2, <2>4 DEF Once
  <2> QED  BY <1>3, <2>3, <2>5, <2>6 DEF Once
<1> QED  BY <1>1, <1>4, <1>5

LEMMA PayCounts ==
  ASSUME IInv, OneEach, NEW a \in Attempts, Pay(a)
  PROVE  OneEach'
<1>1. /\ UNCHANGED <<app, filled, kept, page, call, order, aborts>>
      /\ a \in paying /\ charged' = charged \cup {a} /\ paying' = paying \ {a}
  BY DEF Pay
<1>2. CartOfCall'
  BY <1>1 DEF OneEach, CartOfCall, PaysNow
<1>3. \A c : Owed(c)' \subseteq Owed(c) \cup {a} /\ Owed(c) \subseteq Owed(c)'
  BY <1>1 DEF Owed
<1>4. faults' = 0 => faults = 0 /\ page = [at |-> "window", attempt |-> a]
  BY CheckoutAssumption DEF Pay, Fault, IInv, TypeOK
<1>5. faults' = 0 => page.at = "window" /\ page.attempt = a /\ call'[a].cart = filled /\ kept
  BY <1>1, <1>4 DEF OneEach, CartOfCall
<1> QED  BY <1>1, <1>2, <1>3, <1>4, <1>5, RowsCount

LEMMA CreateCounts ==
  ASSUME IInv, OneEach, NEW a \in Attempts, Create(a)
  PROVE  OneEach'
<1>1. UNCHANGED <<app, filled, kept, page, aborts, paying, charged, faults>> /\ call[a].at = "sent"
  BY DEF Create
<1>2. call[a] \in [at : {"sent", "done", "refused"}, cart : 1..MaxCarts, method : Methods]
  BY <1>1, CallShape DEF IInv
<1>3. PICK x \in {"done", "refused"} :
        /\ call' = [call EXCEPT ![a] = [call[a] EXCEPT !.at = x]]
        /\ IF x = "done"
             THEN order' = [order EXCEPT ![a] = [status |-> "placed", pay |-> "pending",
                              method |-> call[a].method, cart |-> call[a].cart]]
             ELSE order' = order
  BY DEF Create
<1>4. /\ call'[a].at = x /\ call'[a].cart = call[a].cart /\ call'[a].method = call[a].method
      /\ call'[a] # NoCall /\ call[a] # NoCall
      /\ \A b \in Attempts : b # a => call'[b] = call[b]
  BY <1>2, <1>3 DEF IInv, TypeOK, NoCall
<1>5. /\ order[a] = NoOrder /\ \A b \in Attempts : b # a => order'[b] = order[b]
      /\ x # "done" => order'[a] = NoOrder
      /\ x = "done" => order'[a] = [status |-> "placed", pay |-> "pending",
                                    method |-> call[a].method, cart |-> call[a].cart]
  BY <1>1, <1>3 DEF IInv, TypeOK, OneEach, CartOfCall
<1>6. page.at # "form" => page.attempt \in Attempts
  BY PageShape DEF IInv
<1>7. page.at # "form" /\ page.at # "create" => page.attempt # a
  BY <1>1, <1>6 DEF OneEach, CartOfCall
<1>8. CartOfCall'
  BY <1>1, <1>4, <1>5, <1>6, <1>7 DEF OneEach, CartOfCall, PaysNow
<1>9. \A c : Owed(c)' \subseteq Owed(c) \cup {a} /\ Owed(c) \subseteq Owed(c)'
  BY <1>1, <1>5 DEF Owed
<1>10. faults' = 0 => page.at = "create" /\ page.attempt = a /\ call'[a].cart = filled /\ kept
  BY <1>1, <1>4 DEF OneEach, CartOfCall, Once
<1>11. \A b \in Attempts : call'[b].at = "sent" => call[b].at = "sent"
  BY <1>1, <1>4
<1> QED  BY <1>1, <1>8, <1>9, <1>10, <1>11, RowsCount

\* Giving an order up, and the paid job, leave what is owed as it is.
LEMMA SettlesCount ==
  ASSUME IInv, OneEach, NEW a \in Attempts, Abort(a) \/ Land(a)
  PROVE  OneEach'
<1>1. UNCHANGED <<app, filled, kept, page, call, paying, charged, faults>>
  BY DEF Abort, Land
<1>2. CASE order' = order
  <2>1. CartOfCall'
    BY <1>1, <1>2 DEF OneEach, CartOfCall, PaysNow
  <2>2. \A c : Owed(c)' = Owed(c)
    BY <1>1, <1>2, SameOwed
  <2> QED  BY <1>1, <2>1, <2>2, RowsCount
<1>3. CASE order' # order
  <2>1. order[a] # NoOrder
    BY <1>3 DEF Abort, Abortable, Land, NoOrder, IInv, PaidIsPlaced
  <2>2. order[a] \in [status : {"placed", "paid", "voided"}, pay : {"pending", "failed", "completed"},
                      method : Methods, cart : 1..MaxCarts]
    BY <2>1, RowShape DEF IInv
  <2>3. /\ \A b \in Attempts : b # a => order'[b] = order[b]
        /\ order'[a].cart = order[a].cart /\ order'[a].method = order[a].method
        /\ order'[a] # NoOrder
        /\ order'[a].status = "voided" => order[a].status = "voided" \/ order[a].method = "payhere"
    <3>1. CASE Abort(a)
      <4>1. /\ order[a].method = "payhere"
            /\ order' = [order EXCEPT ![a] = [order[a] EXCEPT !.status = "voided", !.pay = "failed"]]
        BY <1>3, <3>1 DEF Abort, Abortable
      <4> QED  BY <2>2, <4>1 DEF NoOrder, IInv, TypeOK
    <3>2. CASE Land(a)
      <4>1. order' = [order EXCEPT ![a] = Paid(order[a])]
        BY <3>2 DEF Land
      <4>2. /\ Paid(order[a]).cart = order[a].cart /\ Paid(order[a]).method = order[a].method
            /\ Paid(order[a]) # NoOrder
            /\ Paid(order[a]).status = "voided" => order[a].status = "voided"
        BY <2>2 DEF Paid, NoOrder
      <4> QED  BY <4>1, <4>2 DEF IInv, TypeOK
    <3> QED  BY <3>1, <3>2
  <2>4. order'[a].method = "cash" => order'[a].status # "voided" /\ order[a].status # "voided"
    BY <2>1, <2>3 DEF OneEach, CartOfCall
  <2>5. CartOfCall'
    BY <1>1, <2>1, <2>3, <2>4 DEF OneEach, CartOfCall, PaysNow
  <2>6. \A c : \A b \in Attempts : b \in Owed(c)' <=> b \in Owed(c)
    BY <1>1, <2>1, <2>3, <2>4 DEF Owed
  <2>7. \A c : Owed(c)' = Owed(c)
    BY <2>6 DEF Owed
  <2> QED  BY <1>1, <2>5, <2>7, RowsCount
<1> QED  BY <1>2, <1>3

LEMMA FaultCounts ==
  ASSUME IInv, OneEach, LoseAnswer \/ Reload
  PROVE  OneEach'
<1>1. UNCHANGED <<app, filled, kept, call, order, charged>> /\ page' = Form
  BY DEF LoseAnswer, Reload
<1>2. faults' # 0
  BY CheckoutAssumption DEF LoseAnswer, Reload, Fault, IInv, TypeOK
<1> QED  BY <1>1, <1>2, LeavesCount

LEMMA OneEachInvariance == Spec => []OneEach
<1>1. Init => OneEach
  BY DEF Init, OneEach, CartOfCall, Once, Owed, Gone, Form, NoCall, NoOrder
<1>2. IInv /\ OneEach /\ [Next]_vars => OneEach'
  <2> SUFFICES ASSUME IInv, OneEach, [Next]_vars PROVE OneEach'
    OBVIOUS
  <2>1. CASE Next
    BY <2>1, GuestCounts, PayCounts, CreateCounts, SettlesCount, FaultCounts DEF Next
  <2>2. CASE UNCHANGED vars
    <3>1. UNCHANGED <<app, filled, kept, page, call, order, aborts, paying, charged, faults>>
      BY <2>2 DEF vars
    <3>2. \A c : Owed(c)' = Owed(c)
      BY <3>1, SameOwed
    <3> QED  BY <3>1, <3>2 DEF OneEach, CartOfCall, Once, Gone, PaysNow
  <2> QED  BY <2>1, <2>2
<1> QED  BY <1>1, <1>2, Invariant, PTL DEF Spec

\* handleCheckout, createOrder, abortCheckout: while nothing is lost a cart
\* becomes one order that is owed or paid at most, and on the web exactly one
\* once the store has let the cart go.
THEOREM CartsOrderedOnce == Spec => []CartOrderedOnce
<1>1. OneEach => CartOrderedOnce
  <2> SUFFICES ASSUME OneEach, faults = 0, NEW c \in 1..filled
               PROVE  /\ Cardinality(Owed(c)) <= 1
                      /\ app = "web" /\ Gone(c) => Owed(c) # {}
    BY DEF CartOrderedOnce
  <2>1. Once
    BY DEF OneEach
  <2>2. CASE Owed(c) = {}
    BY <2>1, <2>2, FS_EmptySet DEF Once
  <2>3. CASE Owed(c) # {}
    <3>1. PICK a \in Owed(c) : TRUE
      BY <2>3
    <3>2. Owed(c) = {a}
      BY <2>1, <3>1 DEF Once
    <3>3. Cardinality({a}) = 1
      BY FS_Singleton
    <3> QED  BY <2>3, <3>2, <3>3
  <2> QED  BY <2>2, <2>3
<1> QED  BY <1>1, OneEachInvariance, PTL

----------------------------------------------------------------------------
(* Reviews.                                                                *)

\* A review has a rating.
Rated == \A o \in Orders : review[o] # "none" => rating[o] \in Ratings

Public == {o \in Orders : review[o] = "public"}

\* One moderation at a time: what it has aggregated is what is published still,
\* and what the dish has when none is in hand.
StatsFollow ==
  ~raced =>
    /\ \A s, t \in Slots : Moderating(s) /\ Moderating(t) => s = t
    /\ \A s \in Slots : hand[s].at = "write" => hand[s].stats = StatsOf(RatingsOf(Public))
    /\ (\A s \in Slots : ~Moderating(s)) => stats = StatsOf(RatingsOf(Public))

RInv == ReviewsTypeOK /\ Rated /\ StatsFollow /\ HelpfulParity

LEMMA RequestShape ==
  ASSUME NEW r \in Request
  PROVE  /\ r.at \in {"idle", "insert", "aggregate", "write", "find", "toggle"}
         /\ r.at = "idle" <=> r = Idle
         /\ r.at = "insert" => r.order \in Orders /\ r.rating \in Ratings
         /\ r.at = "aggregate" => r.order \in Orders
         /\ r.at = "write" => r.order \in Orders /\ r.stats \in Counts
         /\ r.at = "find" => r.mark \in Marks /\ r.id \in 1..MaxEvents
         /\ r.at = "toggle" => /\ r.mark \in Marks /\ r.id \in 1..MaxEvents
                               /\ r.row \in 0..MaxEvents
BY DEF Request, Idle

\* Numbers and averages are those of some reviews.
LEMMA StatsAreCounts ==
  ASSUME Rated
  PROVE  StatsOf(RatingsOf(Public)) \in Counts
<1>1. RatingsOf(Public) \in [Public -> Ratings]
  BY DEF Rated, RatingsOf, Public
<1>2. Public \in SUBSET Orders
  BY DEF Public
<1> QED  BY <1>1, <1>2 DEF Counts

\* A step that publishes and hides nothing leaves what is published.
LEMMA SamePublished ==
  ASSUME Public' = Public, \A o \in Public : rating'[o] = rating[o]
  PROVE  StatsOf(RatingsOf(Public))' = StatsOf(RatingsOf(Public))
<1>1. RatingsOf(Public)' = RatingsOf(Public)
  BY DEF RatingsOf
<1> QED  BY <1>1

\* A request that starts, goes on or ends without touching a moderation.
LEMMA HandMoves ==
  ASSUME RInv, NEW s \in Slots, NEW x \in Request, hand' = [hand EXCEPT ![s] = x],
         x.at \notin {"aggregate", "write"}, ~raced' => ~raced /\ ~Moderating(s),
         Public' = Public, \A o \in Public : rating'[o] = rating[o], stats' = stats
  PROVE  hand' \in [Slots -> Request] /\ StatsFollow'
<1>1. /\ hand' \in [Slots -> Request] /\ hand'[s] = x
      /\ \A t \in Slots : t # s => hand'[t] = hand[t]
  BY DEF RInv, ReviewsTypeOK
<1>2. StatsOf(RatingsOf(Public))' = StatsOf(RatingsOf(Public))
  BY SamePublished
<1>3. ASSUME ~raced' PROVE ~raced /\ \A t \in Slots : Moderating(t)' <=> Moderating(t)
  BY <1>1, <1>3 DEF Moderating
<1> QED  BY <1>1, <1>2, <1>3 DEF RInv, StatsFollow

\* createReview: a review waits for moderation, so what is published stays.
LEMMA ReviewingKeeps ==
  ASSUME RInv, ReviewAssumption,
         \/ \E o \in Orders : OrderMoves(o)
         \/ DishMoves
         \/ \E s \in Slots, o \in Orders, n \in Ratings : CreateReview(s, o, n)
         \/ \E s \in Slots : InsertReview(s)
  PROVE  RInv'
<1>1. CASE (\E o \in Orders : OrderMoves(o)) \/ DishMoves
  <2>1. UNCHANGED <<review, rating, stats, reaction, hand, toggled, raced, events>>
    BY <1>1 DEF OrderMoves, DishMoves
  <2>2. reviewable' \subseteq Orders /\ active' \in BOOLEAN
    BY <1>1 DEF OrderMoves, DishMoves, RInv, ReviewsTypeOK
  <2>3. StatsOf(RatingsOf(Public))' = StatsOf(RatingsOf(Public))
    BY <2>1, SamePublished DEF Public
  <2> QED  BY <2>1, <2>2, <2>3
           DEF RInv, ReviewsTypeOK, Rated, StatsFollow, Moderating, HelpfulParity
<1>2. ASSUME NEW s \in Slots, NEW o \in Orders, NEW n \in Ratings, CreateReview(s, o, n)
      PROVE  RInv'
  <2> DEFINE x == [at |-> "insert", order |-> o, rating |-> n]
  <2>1. /\ UNCHANGED <<reviewable, active, review, rating, stats, reaction, toggled, raced, events>>
        /\ hand[s] = Idle /\ hand' = [hand EXCEPT ![s] = x]
    BY <1>2 DEF CreateReview, Take
  <2>2. x \in Request /\ x.at \notin {"aggregate", "write"} /\ ~Moderating(s)
    BY <2>1 DEF Request, Moderating, Idle
  <2> HIDE DEF x
  <2>3. hand' \in [Slots -> Request] /\ StatsFollow'
    BY <2>1, <2>2, HandMoves DEF Public
  <2> QED  BY <2>1, <2>3 DEF RInv, ReviewsTypeOK, Rated, HelpfulParity
<1>3. ASSUME NEW s \in Slots, InsertReview(s)
      PROVE  RInv'
  <2>1. /\ UNCHANGED <<reviewable, active, stats, reaction, toggled, raced, events>>
        /\ hand[s].at = "insert" /\ hand' = [hand EXCEPT ![s] = Idle]
    BY <1>3 DEF InsertReview, Answer
  <2>2. PICK o : o = hand[s].order
    OBVIOUS
  <2>3. o \in Orders /\ hand[s].rating \in Ratings
    BY <2>1, <2>2, RequestShape DEF RInv, ReviewsTypeOK
  <2>4. \/ UNCHANGED <<review, rating>>
        \/ /\ review[o] = "none"
           /\ review' = [review EXCEPT ![o] = "pending"]
           /\ rating' = [rating EXCEPT ![o] = hand[s].rating]
    BY <1>3, <2>2 DEF InsertReview
  <2>5. /\ review' \in [Orders -> Visibility \cup {"none"}]
        /\ rating' \in [Orders -> Ratings \cup {0}] /\ Rated'
    BY <2>3, <2>4 DEF RInv, ReviewsTypeOK, Rated, Visibility
  <2>6. Public' = Public /\ \A p \in Public : rating'[p] = rating[p]
    BY <2>3, <2>4 DEF RInv, ReviewsTypeOK, Public
  <2>7. Idle \in Request /\ Idle.at \notin {"aggregate", "write"} /\ ~Moderating(s)
    BY <2>1 DEF Request, Moderating, Idle
  <2>8. hand' \in [Slots -> Request] /\ StatsFollow'
    BY <2>1, <2>6, <2>7, HandMoves
  <2> QED  BY <2>1, <2>5, <2>8 DEF RInv, ReviewsTypeOK, HelpfulParity
<1> QED  BY <1>1, <1>2, <1>3

\* patchAdminReview: the second moderation under way, or one that dies, ends the
\* promise.
LEMMA ModeratingKeeps ==
  ASSUME RInv, ReviewAssumption, NEW s \in Slots,
         \/ \E o \in Orders, v \in Visibility : Moderate(s, o, v)
         \/ Aggregate(s)
         \/ WriteStats(s)
  PROVE  RInv'
<1>1. ASSUME NEW o \in Orders, NEW v \in Visibility, Moderate(s, o, v)
      PROVE  RInv'
  <2> DEFINE x == [at |-> "aggregate", order |-> o]
  <2>1. /\ UNCHANGED <<reviewable, active, rating, stats, reaction, toggled>>
        /\ review[o] # "none" /\ review' = [review EXCEPT ![o] = v]
        /\ hand' = [hand EXCEPT ![s] = x]
        /\ raced' = (raced \/ \E t \in Slots : Moderating(t))
    BY <1>1 DEF Moderate, Take
  <2>2. events' \in 0..MaxEvents
    BY <1>1 DEF Moderate, Event, RInv, ReviewsTypeOK, ReviewAssumption
  <2>3. x \in Request /\ x.at = "aggregate"
    BY DEF Request
  <2> HIDE DEF x
  <2>4. /\ hand' \in [Slots -> Request] /\ hand'[s] = x
        /\ \A t \in Slots : t # s => hand'[t] = hand[t]
    BY <2>1, <2>3 DEF RInv, ReviewsTypeOK
  <2>5. review' \in [Orders -> Visibility \cup {"none"}] /\ Rated' /\ raced' \in BOOLEAN
    BY <2>1 DEF RInv, ReviewsTypeOK, Rated, Visibility
  <2>6. ASSUME ~raced' PROVE \A t \in Slots : Moderating(t)' <=> t = s
    BY <2>1, <2>3, <2>4, <2>6 DEF Moderating
  <2>7. StatsFollow'
    BY <2>3, <2>4, <2>6 DEF StatsFollow, Moderating
  <2> QED  BY <2>1, <2>2, <2>4, <2>5, <2>7 DEF RInv, ReviewsTypeOK, HelpfulParity
<1>2. CASE Aggregate(s)
  <2>1. PICK x : x = [at |-> "write", order |-> hand[s].order,
                      stats |-> StatsOf(RatingsOf(Public))]
    OBVIOUS
  <2>2. /\ UNCHANGED <<reviewable, active, review, rating, stats, reaction, toggled, raced, events>>
        /\ hand[s].at = "aggregate"
        /\ hand' = [hand EXCEPT ![s] = x]
    BY <1>2, <2>1 DEF Aggregate, Counted, Public
  <2>3. x \in Request /\ x.at = "write" /\ x.stats = StatsOf(RatingsOf(Public))
    BY <2>1, <2>2, RequestShape, StatsAreCounts DEF Request, RInv, ReviewsTypeOK
  <2>4. /\ hand' \in [Slots -> Request] /\ hand'[s] = x
        /\ \A t \in Slots : t # s => hand'[t] = hand[t]
    BY <2>2, <2>3 DEF RInv, ReviewsTypeOK
  <2>5. StatsOf(RatingsOf(Public))' = StatsOf(RatingsOf(Public))
    BY <2>2, SamePublished DEF Public
  <2>6. \A t \in Slots : Moderating(t)' <=> Moderating(t)
    BY <2>2, <2>3, <2>4 DEF Moderating
  <2>7. Moderating(s)
    BY <2>2 DEF Moderating
  <2>8. StatsFollow'
    BY <2>2, <2>3, <2>4, <2>5, <2>6, <2>7 DEF RInv, StatsFollow
  <2> QED  BY <2>2, <2>4, <2>8 DEF RInv, ReviewsTypeOK, Rated, HelpfulParity
<1>3. CASE WriteStats(s)
  <2>1. /\ UNCHANGED <<reviewable, active, review, rating, reaction, toggled, raced, events>>
        /\ hand[s].at = "write" /\ stats' = hand[s].stats
        /\ hand' = [hand EXCEPT ![s] = Idle]
    BY <1>3 DEF WriteStats, NewStats, Answer
  <2>2. stats' \in Counts
    BY <2>1, RequestShape DEF RInv, ReviewsTypeOK
  <2>3. /\ hand' \in [Slots -> Request] /\ hand'[s] = Idle
        /\ \A t \in Slots : t # s => hand'[t] = hand[t]
    BY <2>1 DEF RInv, ReviewsTypeOK, Request
  <2>4. StatsOf(RatingsOf(Public))' = StatsOf(RatingsOf(Public))
    BY <2>1, SamePublished DEF Public
  <2>5. Moderating(s)
    BY <2>1 DEF Moderating
  <2>6. ASSUME ~raced' PROVE \A t \in Slots : ~Moderating(t)'
    BY <2>1, <2>3, <2>5, <2>6 DEF RInv, StatsFollow, Moderating, Idle
  <2>7. StatsFollow'
    BY <2>1, <2>4, <2>6 DEF RInv, StatsFollow, Moderating
  <2> QED  BY <2>1, <2>2, <2>3, <2>7 DEF RInv, ReviewsTypeOK, Rated, HelpfulParity
<1> QED  BY <1>1, <1>2, <1>3

\* toggleReviewHelpful: of two that found the same row one changes it.
LEMMA MarkingKeeps ==
  ASSUME RInv, ReviewAssumption, NEW s \in Slots,
         \/ \E m \in Marks : MarkHelpful(s, m)
         \/ FindReaction(s)
         \/ ToggleReaction(s)
  PROVE  RInv'
<1>1. UNCHANGED <<reviewable, active, review, rating, stats, raced>> /\ ~Moderating(s)
  BY DEF MarkHelpful, FindReaction, ToggleReaction, Take, Moderating, Idle
<1>2. Public' = Public /\ \A o \in Public : rating'[o] = rating[o]
  BY <1>1 DEF Public
<1>3. ASSUME NEW m \in Marks, MarkHelpful(s, m)
      PROVE  RInv'
  <2> DEFINE x == [at |-> "find", mark |-> m, id |-> events']
  <2>1. hand' = [hand EXCEPT ![s] = x] /\ UNCHANGED <<reaction, toggled>>
    BY <1>3 DEF MarkHelpful, Take
  <2>2. events' \in 1..MaxEvents
    BY <1>3 DEF MarkHelpful, Event, RInv, ReviewsTypeOK, ReviewAssumption
  <2>3. x \in Request /\ x.at \notin {"aggregate", "write"}
    BY <2>2 DEF Request
  <2> HIDE DEF x
  <2>4. hand' \in [Slots -> Request] /\ StatsFollow'
    BY <1>1, <1>2, <2>1, <2>3, HandMoves
  <2>5. events' \in 0..MaxEvents
    BY <2>2 DEF ReviewAssumption
  <2> QED  BY <1>1, <2>1, <2>4, <2>5 DEF RInv, ReviewsTypeOK, Rated, HelpfulParity
<1>4. CASE FindReaction(s)
  <2> DEFINE x == [at |-> "toggle", mark |-> hand[s].mark, id |-> hand[s].id,
                   row |-> reaction[hand[s].mark]]
  <2>1. /\ hand[s].at = "find" /\ hand' = [hand EXCEPT ![s] = x]
        /\ UNCHANGED <<reaction, toggled, events>>
    BY <1>4 DEF FindReaction
  <2>2. hand[s].mark \in Marks /\ hand[s].id \in 1..MaxEvents
    BY <2>1, RequestShape DEF RInv, ReviewsTypeOK
  <2>3. x \in Request /\ x.at \notin {"aggregate", "write"}
    BY <2>2 DEF Request, RInv, ReviewsTypeOK
  <2> HIDE DEF x
  <2>4. hand' \in [Slots -> Request] /\ StatsFollow'
    BY <1>1, <1>2, <2>1, <2>3, HandMoves
  <2> QED  BY <1>1, <2>1, <2>4 DEF RInv, ReviewsTypeOK, Rated, HelpfulParity
<1>5. CASE ToggleReaction(s)
  <2>1. hand[s].at = "toggle" /\ hand' = [hand EXCEPT ![s] = Idle] /\ UNCHANGED events
    BY <1>5 DEF ToggleReaction, Answer
  <2>2. PICK m, id, row : m = hand[s].mark /\ id = hand[s].id /\ row = hand[s].row
    OBVIOUS
  <2>3. m \in Marks /\ id \in 1..MaxEvents /\ row \in 0..MaxEvents
    BY <2>1, <2>2, RequestShape DEF RInv, ReviewsTypeOK
  <2>4. \/ UNCHANGED <<reaction, toggled>>
        \/ /\ reaction[m] = row
           /\ reaction' = [reaction EXCEPT ![m] = IF row = 0 THEN id ELSE 0]
           /\ toggled' = (toggled \ {m}) \cup ({m} \ toggled)
    BY <1>5, <2>2 DEF ToggleReaction, Toggles
  <2>5. /\ reaction' \in [Marks -> 0..MaxEvents] /\ toggled' \subseteq Marks /\ HelpfulParity'
    BY <2>3, <2>4 DEF RInv, ReviewsTypeOK, HelpfulParity, ReviewAssumption
  <2>6. Idle \in Request /\ Idle.at \notin {"aggregate", "write"}
    BY DEF Request, Idle
  <2>7. hand' \in [Slots -> Request] /\ StatsFollow'
    BY <1>1, <1>2, <2>1, <2>6, HandMoves
  <2> QED  BY <1>1, <2>1, <2>5, <2>7 DEF RInv, ReviewsTypeOK, Rated
<1> QED  BY <1>3, <1>4, <1>5

LEMMA DieKeeps ==
  ASSUME RInv, NEW s \in Slots, Die(s)
  PROVE  RInv'
<1>1. /\ UNCHANGED <<reviewable, active, review, rating, stats, reaction, toggled, events>>
      /\ hand' = [hand EXCEPT ![s] = Idle] /\ raced' = (raced \/ Moderating(s))
  BY DEF Die, Answer
<1>2. Idle \in Request /\ Idle.at \notin {"aggregate", "write"}
  BY DEF Request, Idle
<1>3. hand' \in [Slots -> Request] /\ StatsFollow'
  BY <1>1, <1>2, HandMoves DEF Public
<1>4. raced' \in BOOLEAN
  BY <1>1 DEF RInv, ReviewsTypeOK
<1> QED  BY <1>1, <1>3, <1>4 DEF RInv, ReviewsTypeOK, Rated, HelpfulParity

LEMMA ReviewsInitially == ReviewAssumption /\ ReviewsInit => RInv
<1> SUFFICES ASSUME ReviewAssumption, ReviewsInit PROVE RInv
  OBVIOUS
<1>1. Public = {}
  BY DEF ReviewsInit, Public
<1>2. stats = StatsOf(RatingsOf(Public))
  BY <1>1 DEF ReviewsInit
<1>3. Rated /\ HelpfulParity
  BY DEF ReviewsInit, Rated, HelpfulParity
<1>4. stats \in Counts
  BY <1>2, <1>3, StatsAreCounts
<1>5. Idle \in Request /\ 0 \in 0..MaxEvents
  BY DEF Request, ReviewAssumption
<1>6. ReviewsTypeOK
  BY <1>4, <1>5 DEF ReviewsInit, ReviewsTypeOK
<1>7. StatsFollow
  BY <1>2 DEF ReviewsInit, StatsFollow, Moderating, Idle
<1> QED  BY <1>3, <1>6, <1>7 DEF RInv

LEMMA ReviewsInvariance == ReviewsSpec => []RInv
<1>1. RInv /\ [ReviewsNext]_reviewVars => RInv'
  <2> SUFFICES ASSUME RInv, [ReviewsNext]_reviewVars PROVE RInv'
    OBVIOUS
  <2>1. CASE ReviewsNext
    BY <2>1, ReviewingKeeps, ModeratingKeeps, MarkingKeeps, DieKeeps, ReviewAssumption
       DEF ReviewsNext, RequestStep
  <2>2. CASE UNCHANGED reviewVars
    <3>1. UNCHANGED <<reviewable, active, review, rating, stats, reaction, hand, toggled, raced,
                      events>>
      BY <2>2 DEF reviewVars
    <3>2. StatsOf(RatingsOf(Public))' = StatsOf(RatingsOf(Public))
      BY <3>1, SamePublished DEF Public
    <3> QED  BY <3>1, <3>2
             DEF RInv, ReviewsTypeOK, Rated, StatsFollow, Moderating, HelpfulParity
  <2> QED  BY <2>1, <2>2
<1> QED  BY <1>1, ReviewsInitially, ReviewAssumption, PTL DEF ReviewsSpec

\* The dish, its reviews and the requests in hand stay in the states the model
\* gives them: the dish always shows the count and the average of some reviews.
THEOREM ReviewsTyped == ReviewsSpec => []ReviewsTypeOK
<1>1. RInv => ReviewsTypeOK
  BY DEF RInv
<1> QED  BY <1>1, ReviewsInvariance, PTL

\* refreshPublicStatsForMenuItem: moderations one after the other, each carried
\* out, leave the dish with the numbers of what is published, whatever is
\* reviewed and marked meanwhile.
THEOREM StatsAreThePublished == ReviewsSpec => []StatsMatchPublic
<1>1. RInv => StatsMatchPublic
  BY DEF RInv, StatsFollow, StatsMatchPublic, Public
<1> QED  BY <1>1, ReviewsInvariance, PTL

\* toggleReviewHelpful: a mark is there after an odd number of toggles that were
\* answered, however they overlap.
THEOREM MarksCountToggles == ReviewsSpec => []HelpfulParity
<1>1. RInv => HelpfulParity
  BY DEF RInv
<1> QED  BY <1>1, ReviewsInvariance, PTL
===============================================================================
