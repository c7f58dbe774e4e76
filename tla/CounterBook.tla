----------------------------- MODULE CounterBook -----------------------------
(***************************************************************************)
(* What the till and the server promise the cashier, with no tab, row,     *)
(* request or connection in sight: the book of orders at the counter.  A   *)
(* slip is written once and never altered; it is entered as an order at    *)
(* most once, with an elevation no other order has, and stays one.  What   *)
(* the cashier is told of a slip is true when it is said.  Until two       *)
(* requests are open at once, a slip said to be dropped is never entered,  *)
(* and a guest with a phone number has a cart once among the fresh orders. *)
(***************************************************************************)
CONSTANTS Keys, Carts, Phoned, Tokens, None

VARIABLES slip,     \* per key, its cart and elevation; no cart: not yet written
          orders,   \* the keys that are orders
          fresh,    \* those of the last minutes
          told,     \* per key, what the cashier was told
          crowded   \* two requests have been open at once

bookVars == <<slip, orders, fresh, told, crowded>>

BookInit ==
  /\ slip = [k \in Keys |-> [cart |-> None, token |-> None]]
  /\ orders = {} /\ fresh = {}
  /\ told = [k \in Keys |-> {}]
  /\ crowded = FALSE

Write(k) ==
  /\ slip[k].cart = None
  /\ \E c \in Carts, e \in Tokens \cup {None} :
       slip' = [slip EXCEPT ![k] = [cart |-> c, token |-> e]]
  /\ UNCHANGED <<orders, fresh, told, crowded>>

SameCart(j, k) == slip[j].cart = slip[k].cart

Enter(k) ==
  /\ slip[k].cart # None /\ k \notin orders
  /\ slip[k].token # None => \A o \in orders : slip[o].token # slip[k].token
  /\ ~crowded => /\ "dropped" \notin told[k]
                 /\ slip[k].cart \in Phoned => \A o \in fresh : ~SameCart(o, k)
  /\ orders' = orders \cup {k} /\ fresh' = fresh \cup {k}
  /\ UNCHANGED <<slip, told, crowded>>

Age(k) == fresh' = fresh \ {k} /\ UNCHANGED <<slip, orders, told, crowded>>

Say(k, word) ==
  /\ slip[k].cart # None
  /\ word = "synced" => k \in orders
  /\ word = "duplicate" => \E o \in orders : SameCart(o, k)
  /\ word = "dropped" /\ ~crowded => k \notin orders
  /\ told' = [told EXCEPT ![k] = @ \cup {word}]
  /\ UNCHANGED <<slip, orders, fresh, crowded>>

\* The cashier throws slips away.
Discard ==
  /\ \E S \in SUBSET {k \in Keys : slip[k].cart # None} :
       told' = [k \in Keys |-> IF k \in S THEN told[k] \cup {"cleared"} ELSE told[k]]
  /\ UNCHANGED <<slip, orders, fresh, crowded>>

Crowd == crowded' /\ UNCHANGED <<slip, orders, fresh, told>>

BookNext ==
  \/ \E k \in Keys : \/ Write(k) \/ Enter(k) \/ Age(k)
                     \/ \E word \in {"synced", "duplicate", "dropped"} : Say(k, word)
  \/ Discard \/ Crowd

BookSpec == BookInit /\ [][BookNext]_bookVars
==============================================================================
