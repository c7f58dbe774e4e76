----------------------------- MODULE OrderBoard -----------------------------
(***************************************************************************)
(* What the order machine promises its users, with no handler, table or    *)
(* key in sight: the board in the kitchen and on the counter.  An order    *)
(* moves along the documented flow, is sent to the kitchen at most once,   *)
(* counts as paid or delivered only when money was taken, and never moves  *)
(* again once it is closed.  OrderLifecycle implements this board as long  *)
(* as one request is served at a time.                                     *)
(***************************************************************************)
CONSTANTS Orders

VARIABLES status,     \* where each order is shown
          ticketed,   \* the orders whose kitchen ticket was issued
          settled     \* the orders money was taken for

boardVars == <<status, ticketed, settled>>

Flow == [placed     |-> {"paid", "in_kitchen", "cancelled", "voided"},
         paid       |-> {"in_kitchen", "cancelled", "refunded"},
         in_kitchen |-> {"ready", "cancelled", "voided"},
         ready      |-> {"in_transit", "delivered", "cancelled"},
         in_transit |-> {"ready", "delivered", "cancelled"},  \* ready: handed back
         delivered  |-> {}, cancelled |-> {}, voided |-> {}, refunded |-> {}]

BoardInit ==
  /\ status \in [Orders -> {"placed", "paid"}]
  /\ ticketed = {}
  /\ settled \in SUBSET Orders
  /\ \A o \in Orders : status[o] = "paid" => o \in settled

TakeMoney(o) ==
  /\ o \notin settled
  /\ settled' = settled \cup {o}
  /\ UNCHANGED <<status, ticketed>>

\* A move; the money may be taken in the same step.
Move(o, to) ==
  /\ to \in Flow[status[o]]
  /\ status' = [status EXCEPT ![o] = to]
  /\ \/ settled' = settled
     \/ settled' = settled \cup {o}
  /\ to \in {"paid", "delivered"} => o \in settled'
  /\ IF to = "in_kitchen" THEN o \notin ticketed /\ ticketed' = ticketed \cup {o}
                          ELSE ticketed' = ticketed

BoardNext ==
  \E o \in Orders : TakeMoney(o) \/ \E to \in Flow[status[o]] : Move(o, to)

BoardSpec == BoardInit /\ [][BoardNext]_boardVars
============================================================================
