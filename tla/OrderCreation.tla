---------------------------- MODULE OrderCreation ----------------------------
(***************************************************************************)
(* POST /orders as the cashier app uses it: createOrder with an            *)
(* idempotency key, the search for a recent twin, and the supervisor       *)
(* elevation that a manual discount needs, which is checked before the     *)
(* order's transaction and consumed inside it.  Each database call a race  *)
(* can fall between is a step; several requests may be open at once.       *)
(* Everything that is not in the shared tables is in the request.          *)
(***************************************************************************)
EXTENDS Naturals, FiniteSets

CONSTANTS Keys,       \* idempotency keys: one order each, as its id is their hash
          Carts,      \* what guests order and their phone, told apart as the twin search does
          Phoned,     \* the carts with a phone number
          Delivered,  \* the carts to be delivered
          Tokens,     \* elevation tokens
          Tabs,       \* the browser tabs requests come from
          Slots,      \* requests the API has in hand at once
          None        \* no cart, no token, no tab

ASSUME CreationAssumption ==
  /\ Keys \subseteq Nat
  /\ Phoned \subseteq Carts /\ Delivered \subseteq Carts
  /\ None \notin Carts \cup Tokens \cup Tabs

VARIABLES
  payload,    \* per key, the body that is posted under it: never changed
  orders,     \* the keys that have an order
  recent,     \* those placed less than cashierDuplicateWindowMinutes ago
  elevation,  \* per token, its row in SupervisorElevationSession
  closed,     \* the carts that the operating hours refuse now
  offMenu,    \* the carts with a line whose dish is gone for good
  req,        \* per slot, the request in hand
  overlap     \* history: two requests have been open at once

server == <<payload, orders, recent, elevation, closed, offMenu, req, overlap>>

Payload == [cart : Carts \cup {None}, token : Tokens \cup {None}]
Session == {"unissued", "live", "consumed", "expired"}

\* What the caller can tell apart: the order; a 409; a refusal whose text the
\* cashier app takes for final; any other error.
Answers == {"ok", "duplicate", "final", "error"}

Idle == [at |-> "idle"]
Request == {Idle} \cup
  [at : {"lookup", "policy", "search", "commit"}, key : Keys, tab : Tabs \cup {None}] \cup
  [at : {"answered"}, key : Keys, tab : Tabs, answer : Answers]

ServerTypeOK ==
  /\ payload \in [Keys -> Payload]
  /\ orders \subseteq Keys /\ recent \subseteq orders
  /\ elevation \in [Tokens -> Session]
  /\ closed \subseteq Carts /\ offMenu \subseteq Carts
  /\ req \in [Slots -> Request]
  /\ overlap \in BOOLEAN

ServerInit ==
  /\ payload = [k \in Keys |-> [cart |-> None, token |-> None]]
  /\ orders = {} /\ recent = {}
  /\ elevation = [t \in Tokens |-> "unissued"]
  /\ closed = {} /\ offMenu = {}
  /\ req = [r \in Slots |-> Idle]
  /\ overlap = FALSE

----------------------------------------------------------------------------
(* The request.                                                            *)

Open == {r \in Slots : req[r] # Idle /\ req[r].at # "answered"}

Arrive(r, k, t) ==
  /\ req[r] = Idle
  /\ req' = [req EXCEPT ![r] = [at |-> "lookup", key |-> k, tab |-> t]]
  /\ overlap' = (overlap \/ Open # {})

\* The answer of a request nobody waits for any more is dropped.
Reply(r, a) ==
  req' = [req EXCEPT ![r] = IF @.tab = None THEN Idle
          ELSE [at |-> "answered", key |-> @.key, tab |-> @.tab, answer |-> a]]

Proceed(r, step) == req' = [req EXCEPT ![r].at = step]

Body(r) == payload[req[r].key]

\* Bug: the order of an earlier attempt is not looked for.
Lookup_Skipped(r) ==
  /\ req[r].at = "lookup" /\ Proceed(r, "policy")
  /\ UNCHANGED <<payload, orders, recent, elevation, closed, offMenu, overlap>>

Lookup(r) ==
  /\ req[r].at = "lookup"
  /\ IF req[r].key \in orders THEN Reply(r, "ok") ELSE Proceed(r, "policy")
  /\ UNCHANGED <<payload, orders, recent, elevation, closed, offMenu, overlap>>

\* validateElevationSession, for the cashier and scope the token was issued to.
ElevationValid(tok) == elevation[tok] = "live"

\* Timing first, then the elevation of a manual discount.  The refusal of the
\* hours is a 400 the app retries, that of the elevation a 403 it takes as final.
Policy(r) ==
  /\ req[r].at = "policy"
  /\ \/ Body(r).cart \in closed /\ Reply(r, "error")
     \/ /\ Body(r).cart \notin closed
        /\ Body(r).token # None /\ ~ElevationValid(Body(r).token)
        /\ Reply(r, "final")
     \/ /\ Body(r).cart \notin closed
        /\ Body(r).token # None => ElevationValid(Body(r).token)
        /\ Proceed(r, IF Body(r).cart \in Phoned THEN "search" ELSE "commit")
  /\ UNCHANGED <<payload, orders, recent, elevation, closed, offMenu, overlap>>

\* Bug: the window is on the wrong side of its limit.
Twins_OldOnes(k) == {o \in orders \ recent : payload[o].cart \in Phoned /\ payload[o].cart = payload[k].cart}

\* findRecentCashierOrderDuplicate: same phone number, lines and total.
Twins(k) == {o \in recent : payload[o].cart \in Phoned /\ payload[o].cart = payload[k].cart}

Search(r) ==
  /\ req[r].at = "search"
  /\ IF Twins(req[r].key) # {} THEN Reply(r, "duplicate") ELSE Proceed(r, "commit")
  /\ UNCHANGED <<payload, orders, recent, elevation, closed, offMenu, overlap>>

\* Bug: the session is marked consumed by its token alone.
Consumable_Unconditional(k) == TRUE

\* The conditional update that consumes the session finds its row.
Consumable(k) == payload[k].token # None => elevation[payload[k].token] = "live"

Insert(k) ==
  /\ orders' = orders \cup {k}
  /\ recent' = recent \cup {k}
  /\ elevation' = [t \in Tokens |-> IF t = payload[k].token THEN "consumed" ELSE elevation[t]]

\* The transaction.  A key that is taken meanwhile is a P2002 and the order is
\* returned; a missing dish a P2003; a session that is gone rolls back.
Commit(r) ==
  LET k == req[r].key IN
  /\ req[r].at = "commit"
  /\ \/ /\ k \in orders
        /\ Reply(r, "ok")
        /\ UNCHANGED <<orders, recent, elevation>>
     \/ /\ k \notin orders
        /\ payload[k].cart \in offMenu \/ ~Consumable(k)
        /\ Reply(r, "final")
        /\ UNCHANGED <<orders, recent, elevation>>
     \/ /\ k \notin orders
        /\ payload[k].cart \notin offMenu /\ Consumable(k)
        /\ Insert(k)
        /\ Reply(r, "ok")
  /\ UNCHANGED <<payload, closed, offMenu, overlap>>

RequestStep(r) == Lookup(r) \/ Policy(r) \/ Search(r) \/ Commit(r)

\* A database error or a death of the process: a 500, or no answer at all.
RequestFails(r) ==
  /\ r \in Open
  /\ Reply(r, "error")
  /\ UNCHANGED <<payload, orders, recent, elevation, closed, offMenu, overlap>>

----------------------------------------------------------------------------
(* What else moves on the server.                                          *)

\* challenge, after the supervisor's PIN was verified.
Issue(t) == elevation[t] = "unissued" /\ elevation' = [elevation EXCEPT ![t] = "live"]

Expire(t) ==
  /\ elevation[t] = "live"
  /\ elevation' = [elevation EXCEPT ![t] = "expired"]
  /\ UNCHANGED <<payload, orders, recent, closed, offMenu, req, overlap>>

LeaveWindow(k) ==
  /\ k \in recent
  /\ recent' = recent \ {k}
  /\ UNCHANGED <<payload, orders, elevation, closed, offMenu, req, overlap>>

\* validateCustomerOrderTiming: at the counter only an emergency closure
\* refuses; a delivery is also bound to the hours of the day.
ChangeHours ==
  /\ closed' \in {{}, Delivered, Carts} \ {closed}
  /\ UNCHANGED <<payload, orders, recent, elevation, offMenu, req, overlap>>

RemoveDish(c) ==
  /\ c \notin offMenu
  /\ offMenu' = offMenu \cup {c}
  /\ UNCHANGED <<payload, orders, recent, elevation, closed, req, overlap>>
==============================================================================
