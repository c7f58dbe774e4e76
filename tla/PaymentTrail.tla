---------------------------- MODULE PaymentTrail ----------------------------
(***************************************************************************)
(* What the webhook promises about an order and its payments, with no      *)
(* notification, claim, request or process in sight: money moves from the  *)
(* customer to one entry in the books, from there to a job, and from the   *)
(* job to the order.  No step is skipped, made twice or undone; the order  *)
(* names the payment that completed it last, and is completed by nothing   *)
(* else but cash.                                                          *)
(***************************************************************************)
EXTENDS Naturals

CONSTANTS Payments, NoPayment

VARIABLES taken,    \* payments the customer's money was taken for
          entries,  \* per payment, its entries in the books
          queued,   \* payments the order is yet to hear of, or has
          heard,    \* payments that have completed the order
          pay, txn, method  \* the order

trailVars == <<taken, entries, queued, heard, pay, txn, method>>

TrailInit ==
  /\ taken = {} /\ queued = {} /\ heard = {}
  /\ entries = [p \in Payments |-> 0]
  /\ pay = "pending" /\ txn = NoPayment /\ method = "payhere"

Take(p) ==
  /\ p \notin taken /\ taken' = taken \cup {p}
  /\ UNCHANGED <<entries, queued, heard, pay, txn, method>>

Enter(p) ==
  /\ p \in taken /\ entries[p] = 0
  /\ entries' = [entries EXCEPT ![p] = 1]
  /\ UNCHANGED <<taken, queued, heard, pay, txn, method>>

Enqueue(p) ==
  /\ entries[p] = 1 /\ p \notin queued
  /\ queued' = queued \cup {p}
  /\ UNCHANGED <<taken, entries, heard, pay, txn, method>>

\* The order may hear of a payment again, as its job may run again.
Land(p) ==
  /\ p \in queued
  /\ heard' = heard \cup {p}
  /\ pay' = "completed" /\ txn' = p
  /\ UNCHANGED <<taken, entries, queued, method>>

PayCash ==
  /\ pay # "completed"
  /\ pay' = "completed" /\ method' = "cash"
  /\ UNCHANGED <<taken, entries, queued, heard, txn>>

\* News of an attempt that failed, which may come after one that did not.
Refuse ==
  /\ pay' = "failed"
  /\ UNCHANGED <<taken, entries, queued, heard, txn, method>>

TrailNext ==
  \/ \E p \in Payments : Take(p) \/ Enter(p) \/ Enqueue(p) \/ Land(p)
  \/ PayCash \/ Refuse

TrailSpec == TrailInit /\ [][TrailNext]_trailVars
==============================================================================
