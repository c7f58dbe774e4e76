------------------------------ MODULE StockBook ------------------------------
(***************************************************************************)
(* What the stock ledger promises its users, with no transaction, job or   *)
(* row lock in sight: one book in which every movement is a single entry.  *)
(* An order takes stock once and gives it back once, after it took some,   *)
(* and gives back what it took while its lines are left alone; the back    *)
(* office corrects.  Each entry moves the level by the amount entered, and *)
(* no level is ever below zero.  Ingredients and orders that two movements *)
(* were at together are spoiled, and nothing is promised about these.      *)
(***************************************************************************)
EXTENDS Integers

CONSTANTS Ingredients, Orders, Opening

VARIABLES level,     \* what there is of each ingredient
          used,      \* what each order took
          returned,  \* what it gave back
          entered,   \* what the back office entered, in all
          spoiled, amended

bookVars == <<level, used, returned, entered, spoiled, amended>>

None == [i \in Ingredients |-> 0]

BookInit ==
  /\ level = [i \in Ingredients |-> Opening]
  /\ used = [o \in Orders |-> None] /\ returned = [o \in Orders |-> None]
  /\ entered = None
  /\ spoiled = {} /\ ~amended

Difference(now, before) == [i \in Ingredients |-> now[i] - before[i]]

Level(amount) ==
  /\ level' \in [Ingredients -> Nat]
  /\ \A i \in Ingredients \ spoiled : level'[i] = level[i] + amount[i]

Take(o) ==
  /\ o \notin spoiled => used[o] = None
  /\ used' = [used EXCEPT ![o] = used'[o]]
  /\ Level(Difference(used[o], used'[o]))
  /\ UNCHANGED <<returned, entered, spoiled, amended>>

GiveBack(o) ==
  /\ o \notin spoiled =>
       /\ used[o] # None /\ returned[o] = None
       /\ ~amended => returned'[o] = used[o]
  /\ returned' = [returned EXCEPT ![o] = returned'[o]]
  /\ Level(Difference(returned'[o], returned[o]))
  /\ UNCHANGED <<used, entered, spoiled, amended>>

Enter ==
  /\ Level(Difference(entered', entered))
  /\ UNCHANGED <<used, returned, spoiled, amended>>

Spoil ==
  /\ spoiled \subseteq spoiled' /\ spoiled' \subseteq Ingredients \cup Orders
  /\ UNCHANGED <<level, used, returned, entered, amended>>

\* The lines of some order are edited.
Amend ==
  /\ amended'
  /\ UNCHANGED <<level, used, returned, entered, spoiled>>

BookNext ==
  \/ \E o \in Orders : Take(o) \/ GiveBack(o)
  \/ Enter \/ Spoil \/ Amend

BookSpec == BookInit /\ [][BookNext]_bookVars
==============================================================================
