----------------------------- MODULE CashierSync -----------------------------
(***************************************************************************)
(* The till: tabs of the cashier app that share one IndexedDB store of     *)
(* orders to be sent, composed with the server's order creation.  Placing  *)
(* an order writes a row; a sync posts the rows it found, oldest first,    *)
(* and deletes a row on a final answer.  The events of a sync drive the    *)
(* screen, where the cart stays until its order is known to be accepted.   *)
(* A key stands for `cashier-sync-<local id>`; local ids grow with time.   *)
(***************************************************************************)
EXTENDS OrderCreation

CONSTANTS Tills,     \* the tabs at which orders are taken; the others only sync
          MaxEvents  \* bound: what goes wrong, and what the world outside changes

ASSUME SyncAssumption == Tills \subseteq Tabs /\ MaxEvents \in Nat

VARIABLES
  queue,   \* the rows of order-sync-queue
  online,  \* navigator.onLine
  tab,     \* per tab, the screen and the sync under way
  told,    \* per key, what the cashier was told when its row was deleted
  entered, \* the carts rung up so far
  events   \* of what MaxEvents bounds, so far

device == <<queue, online, tab, told, entered, events>>
vars == <<server, device>>

\* cart, busy, held: the cart on the screen, submittingOrder, the elevation in
\* the store; mine: pendingPlacementQueueIds; todo: rows this sync has still to post.
Tab == [cart : Carts \cup {None}, busy : BOOLEAN, held : Tokens \cup {None},
        mine : SUBSET Keys, todo : SUBSET Keys]
Blank == [cart |-> None, busy |-> FALSE, held |-> None, mine |-> {}, todo |-> {}]

DeviceTypeOK ==
  /\ queue \subseteq Keys
  /\ online \in BOOLEAN
  /\ tab \in [Tabs -> Tab]
  /\ told \in [Keys -> SUBSET {"synced", "duplicate", "dropped", "cleared"}]
  /\ entered \subseteq Carts
  /\ events \in 0..MaxEvents

TypeOK == ServerTypeOK /\ DeviceTypeOK

Init ==
  /\ ServerInit
  /\ queue = {} /\ online = TRUE
  /\ tab = [t \in Tabs |-> Blank]
  /\ told = [k \in Keys |-> {}]
  /\ entered = {} /\ events = 0

Event == events < MaxEvents /\ events' = events + 1

----------------------------------------------------------------------------
(* The screen.                                                             *)

RingUp(t, c) ==
  /\ tab[t].cart = None /\ c \notin entered
  /\ tab' = [tab EXCEPT ![t].cart = c]
  /\ entered' = entered \cup {c}
  /\ UNCHANGED <<server, queue, online, told, events>>

\* An emptied cart takes the elevation with it (page.tsx:1349).
Emptied(screen) == [screen EXCEPT !.cart = None, !.held = None]

EmptyCart(t) ==
  /\ Event /\ tab[t].cart # None
  /\ tab' = [tab EXCEPT ![t] = Emptied(@)]
  /\ UNCHANGED <<server, queue, online, told, entered>>

Unlock(t, tok) ==
  /\ online /\ tab[t].cart # None /\ Issue(tok)
  /\ tab' = [tab EXCEPT ![t].held = tok]
  /\ UNCHANGED <<payload, orders, recent, closed, offMenu, req, overlap,
                 queue, online, told, entered, events>>

\* The elevation is read when the order is placed; one that has expired is
\* dropped, and the discount with it, but the app cannot see that one is consumed.
TokenToSend(t) ==
  IF tab[t].held # None /\ elevation[tab[t].held] # "expired" THEN tab[t].held ELSE None

\* Bug: local ids start again when the store is empty.
Unplaced_Reused == IF queue = {} THEN Keys ELSE {k \in Keys : payload[k].cart = None}

Unplaced == {k \in Keys : payload[k].cart = None}
First(S) == CHOOSE k \in S : \A j \in S : k <= j

\* runPlaceOrderPayment, pay and queueOrder.  Off line the cart is cleared at
\* once; on line it stays and the sync starts, or runs once more when it is done.
Place(t) ==
  LET k == First(Unplaced)
      placed == [tab[t] EXCEPT !.busy = TRUE, !.mine = @ \cup {k},
                               !.todo = IF @ = {} THEN queue \cup {k} ELSE @]
  IN
  /\ tab[t].cart # None /\ ~tab[t].busy /\ Unplaced # {}
  /\ payload' = [payload EXCEPT ![k] = [cart |-> tab[t].cart, token |-> TokenToSend(t)]]
  /\ queue' = queue \cup {k}
  /\ tab' = [tab EXCEPT ![t] = IF online THEN placed ELSE Emptied(@)]
  /\ UNCHANGED <<orders, recent, elevation, closed, offMenu, req, overlap,
                 online, told, entered, events>>

----------------------------------------------------------------------------
(* syncOrders and runSyncOnce.                                             *)

Waiting(t) == \E r \in Slots : req[r] # Idle /\ req[r].tab = t

\* The online event, the ten second poll, the retry button, a rerun.
StartSync(t) ==
  /\ online /\ tab[t].todo = {} /\ queue # {}
  /\ tab' = [tab EXCEPT ![t].todo = queue]
  /\ UNCHANGED <<server, queue, online, told, entered, events>>

Send(t, r) ==
  /\ online /\ tab[t].todo # {} /\ ~Waiting(t)
  /\ Arrive(r, First(tab[t].todo), t)
  /\ UNCHANGED <<payload, orders, recent, elevation, closed, offMenu, device>>

\* cashier-order-sync-failed: the sync stops, the order button is free again.
SyncFailed(t, k) ==
  tab' = [tab EXCEPT ![t].todo = {}, ![t].busy = FALSE, ![t].mine = @ \ {k}]

SendOffline(t) ==
  /\ ~online /\ tab[t].todo # {} /\ ~Waiting(t)
  /\ SyncFailed(t, First(tab[t].todo))
  /\ UNCHANGED <<server, queue, online, told, entered, events>>

\* The order of the checkout on the screen was accepted: finalizePlacement.
Accepted(screen, k) ==
  IF k \in screen.mine
    THEN [Emptied(screen) EXCEPT !.busy = FALSE, !.mine = @ \ {k}, !.todo = @ \ {k}]
    ELSE [screen EXCEPT !.todo = @ \ {k}]

\* cashier-order-duplicate and -sync-dropped leave the cart where it is.
TurnedDown(screen, k) ==
  [screen EXCEPT !.busy = FALSE, !.mine = @ \ {k}, !.todo = @ \ {k}]

Outcome == [ok |-> "synced", duplicate |-> "duplicate", final |-> "dropped"]

\* Bug: the row is deleted whatever the answer was.
Deleted_Always(k, a) == queue' = queue \ {k}

\* Bug: the row of an order that was turned down is tried again.
Deleted_OkOnly(k, a) == queue' = IF a = "ok" THEN queue \ {k} ELSE queue

Deleted(k, a) == queue' = IF a = "error" THEN queue ELSE queue \ {k}

Hear(t, r) ==
  LET k == req[r].key
      a == req[r].answer
  IN
  /\ req[r].at = "answered" /\ req[r].tab = t
  /\ Deleted(k, a)
  /\ \/ a = "error" /\ SyncFailed(t, k) /\ UNCHANGED told
     \/ /\ a # "error"
        /\ tab' = [tab EXCEPT ![t] = IF a = "ok" THEN Accepted(@, k) ELSE TurnedDown(@, k)]
        /\ told' = [told EXCEPT ![k] = @ \cup {Outcome[a]}]
  /\ req' = [req EXCEPT ![r] = Idle]
  /\ UNCHANGED <<payload, orders, recent, elevation, closed, offMenu, overlap,
                 online, entered, events>>

----------------------------------------------------------------------------
(* Faults, and what the cashier does about them.                           *)

\* Nobody waits for the tab's request any more; the server still works on it.
Orphaned(t) ==
  req' = [r \in Slots |->
    IF req[r] = Idle \/ req[r].tab # t THEN req[r]
    ELSE IF req[r].at = "answered" THEN Idle ELSE [req[r] EXCEPT !.tab = None]]

LoseAnswer(t) ==
  /\ Event /\ Waiting(t)
  /\ Orphaned(t)
  /\ SyncFailed(t, First(tab[t].todo))
  /\ UNCHANGED <<payload, orders, recent, elevation, closed, offMenu, overlap,
                 queue, online, told, entered>>

\* The cart and the queue survive in the browser; the rest of the tab is new.
Reload(t) ==
  /\ Event /\ tab[t] # Blank
  /\ Orphaned(t)
  /\ tab' = [tab EXCEPT ![t] = [Blank EXCEPT !.cart = tab[t].cart]]
  /\ UNCHANGED <<payload, orders, recent, elevation, closed, offMenu, overlap,
                 queue, online, told, entered>>

ClearQueue(t) ==
  /\ Event /\ queue # {}
  /\ queue' = {}
  /\ told' = [k \in Keys |-> IF k \in queue THEN told[k] \cup {"cleared"} ELSE told[k]]
  /\ UNCHANGED <<server, online, tab, entered>>

Connection ==
  /\ online' = ~online
  /\ IF online THEN Event ELSE UNCHANGED events
  /\ UNCHANGED <<server, queue, tab, told, entered>>

----------------------------------------------------------------------------
TabStep(t) ==
  StartSync(t) \/ SendOffline(t) \/ (\E r \in Slots : Send(t, r)) \/ \E r \in Slots : Hear(t, r)

Cashier(t) ==
  \/ \E c \in Carts : RingUp(t, c)
  \/ \E tok \in Tokens : Unlock(t, tok)
  \/ EmptyCart(t) \/ Place(t) \/ ClearQueue(t)

\* Tokens expire and the hours reopen without counting as an event.
Surroundings ==
  \/ Connection
  \/ /\ (\E tok \in Tokens : Expire(tok)) \/ (ChangeHours /\ closed' = {})
     /\ UNCHANGED device
  \/ /\ \/ \E k \in Keys : LeaveWindow(k)
        \/ \E c \in Carts : RemoveDish(c)
        \/ \E r \in Slots : RequestFails(r)
        \/ ChangeHours /\ closed' # {}
     /\ Event /\ UNCHANGED <<queue, online, tab, told, entered>>

Next ==
  \/ \E t \in Tabs : TabStep(t) \/ Reload(t) \/ LoseAnswer(t)
  \/ \E t \in Tills : Cashier(t)
  \/ \E r \in Slots : RequestStep(r) /\ UNCHANGED device
  \/ Surroundings

Spec == Init /\ [][Next]_vars

\* Tabs poll every ten seconds and go on with the sync they are at; the server
\* works on the requests it has.
FairSpec ==
  /\ Spec
  /\ \A t \in Tabs : WF_vars(TabStep(t))
  /\ \A r \in Slots : WF_vars(RequestStep(r) /\ UNCHANGED device)

----------------------------------------------------------------------------
(* Properties.                                                             *)

\* An elevation covers one order, though it is checked outside the transaction
\* that consumes it and the till may send it with several
\* (docs/security/supervisor-step-up.md:12).
ElevationUsedOnce ==
  \A j, k \in orders :
    payload[j].token # None /\ payload[j].token = payload[k].token => j = k

\* An order that was placed is in the store until the cashier was told how it
\* ended, whichever tab sent it and whatever was lost.
NoSilentLoss ==
  \A k \in Keys : payload[k].cart # None => k \in queue \/ told[k] # {}

\* What the cashier acts on when a row left the store: told synced, the order
\* exists; told duplicate, another order has the same cart; and as long as no
\* two requests were open at once, what was dropped as unplaceable, for the
\* cashier to enter again, is no order.
ToldTheTruth ==
  \A k \in Keys :
    /\ "synced" \in told[k] => k \in orders
    /\ "duplicate" \in told[k] => \E o \in orders : payload[o].cart = payload[k].cart
    /\ "dropped" \in told[k] /\ ~overlap => k \notin orders

\* As long as no two requests were open at once: however often a failed sync,
\* a reload or another tab has the same cart placed again, a guest with a
\* phone number has it once within the duplicate window.
PhonedCartOnce ==
  ~overlap => \A j, k \in recent :
    payload[j].cart \in Phoned /\ payload[j].cart = payload[k].cart => j = k

\* Once the connection is back for good and the hours refuse nothing, every
\* row leaves the store.
QueueDrains ==
  <>[](online /\ closed = {}) => \A k \in Keys : <>[](k \notin queue)

----------------------------------------------------------------------------
(* The book these tabs and this server keep.                               *)

OneBook == INSTANCE CounterBook
             WITH slip <- payload, fresh <- recent, crowded <- overlap

\* Whatever the tabs, the connection and the requests do, orders are taken and
\* the cashier is answered as from one book.
KeepsOneBook == OneBook!BookSpec
==============================================================================
