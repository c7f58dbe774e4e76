---------------------------- MODULE EventDelivery ----------------------------
(***************************************************************************)
(* What the outbox promises the handlers that append to it, with no relay, *)
(* batch or claim in sight: each event is taken at most Threshold times,   *)
(* one taker at a time, becomes one message however often it is taken,     *)
(* counts as delivered only once it is a message, and is given up only     *)
(* when it was taken Threshold times.                                      *)
(***************************************************************************)
EXTENDS Naturals

CONSTANTS Events, Threshold

VARIABLES stage,     \* how far each event is
          tries,     \* how often it was taken
          messages   \* how many messages were made of it

deliveryVars == <<stage, tries, messages>>

DeliveryInit ==
  /\ stage = [e \in Events |-> "none"]
  /\ tries = [e \in Events |-> 0] /\ messages = [e \in Events |-> 0]

Moves(e, from, to) == stage[e] \in from /\ stage' = [stage EXCEPT ![e] = to]

Record(e) == Moves(e, {"none"}, "waiting") /\ UNCHANGED <<tries, messages>>

Take(e) ==
  /\ Moves(e, {"waiting"}, "taken")
  /\ tries[e] < Threshold
  /\ tries' = [tries EXCEPT ![e] = @ + 1]
  /\ UNCHANGED messages

Send(e) ==
  /\ stage[e] = "taken" /\ messages[e] = 0
  /\ messages' = [messages EXCEPT ![e] = 1]
  /\ UNCHANGED <<stage, tries>>

Deliver(e) ==
  /\ Moves(e, {"taken"}, "delivered") /\ messages[e] = 1
  /\ UNCHANGED <<tries, messages>>

\* After an error, which may hide that the event was delivered.
HandBack(e) ==
  /\ Moves(e, {"taken", "delivered"},
           IF tries[e] = Threshold THEN "given_up" ELSE "waiting")
  /\ UNCHANGED <<tries, messages>>

DeliveryNext ==
  \E e \in Events : Record(e) \/ Take(e) \/ Send(e) \/ Deliver(e) \/ HandBack(e)

DeliverySpec == DeliveryInit /\ [][DeliveryNext]_deliveryVars
==============================================================================
