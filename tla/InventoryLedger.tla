---------------------------- MODULE InventoryLedger ----------------------------
(***************************************************************************)
(* Stock under the orders of the kitchen and the movements of the back     *)
(* office.  Every movement is a transaction that reads an ingredient and   *)
(* writes its new stock as an absolute value; PostgreSQL runs these at     *)
(* READ COMMITTED: a read sees what is committed, a write waits for the    *)
(* row lock of another transaction but keeps the value it has computed.    *)
(* An order's consume and reversal jobs come from its status changes by    *)
(* way of the outbox, in no fixed order, and may be run again.  Recipes,   *)
(* lines and units are abstracted to what an order needs per ingredient.   *)
(***************************************************************************)
EXTENDS Integers, FiniteSetsExt

CONSTANTS Ingredients, NoIngredient,
          Orders, NoOrder,
          Slots,        \* transactions open at once
          Needs,        \* what the lines of an order may use, per ingredient
          Opening,      \* stock of each ingredient at the start
          MaxEdits,     \* bound: line replacements in all
          MaxMoves,     \* bound: back-office movements in all
          Stalls        \* whether BullMQ may start a job that is still being run

ASSUME LedgerAssumption ==
  /\ NoIngredient \notin Ingredients /\ NoOrder \notin Orders
  /\ Needs \subseteq [Ingredients -> Nat]
  /\ Opening \in Nat /\ MaxEdits \in Nat /\ MaxMoves \in Nat /\ Stalls \in BOOLEAN

VARIABLES
  phase,    \* per order: "placed", "in_kitchen" or "voided"
  need,     \* per order, what its lines use now
  stock,    \* Ingredient.currentStock
  moved,    \* per ingredient, the sum of its InventoryMovement rows
  office,   \* the part of moved the back office entered
  used,     \* per order, its OrderCogsLine rows above zero, summed
  returned, \* per order, those below zero, summed and negated
  jobs,     \* jobs on the inventory queue
  tx,       \* per slot, the transaction open there
  raced,    \* ingredients and orders two open transactions have both been at
  edits, moves

vars == <<phase, need, stock, moved, office, used, returned, jobs, tx, raced, edits, moves>>
tables == <<stock, moved, office, used, returned>>

Quantities == [Ingredients -> Nat]
Nothing == [i \in Ingredients |-> 0]
Job == {"consume", "reverse"} \X Orders

\* delta: what is to be moved, the ingredients in todo still; at, seen: the one
\* just read and its stock; wrote: what is written and not committed (-1: not).
Tx == [kind : {"consume", "reverse", "office"}, order : Orders \cup {NoOrder},
       delta : [Ingredients -> Int], todo : SUBSET Ingredients,
       at : Ingredients \cup {NoIngredient}, seen : Nat,
       wrote : [Ingredients -> Nat \cup {-1}]]
Closed == [kind |-> "none"]

TypeOK ==
  /\ phase \in [Orders -> {"placed", "in_kitchen", "voided"}]
  /\ need \in [Orders -> Needs]
  /\ stock \in Quantities
  /\ moved \in [Ingredients -> Int] /\ office \in [Ingredients -> Int]
  /\ used \in [Orders -> Quantities] /\ returned \in [Orders -> Quantities]
  /\ jobs \subseteq Job
  /\ tx \in [Slots -> Tx \cup {Closed}]
  /\ raced \subseteq Ingredients \cup Orders
  /\ edits \in 0..MaxEdits /\ moves \in 0..MaxMoves

Init ==
  /\ phase = [o \in Orders |-> "placed"]
  /\ need \in [Orders -> Needs]
  /\ stock = [i \in Ingredients |-> Opening]
  /\ moved = Nothing /\ office = Nothing
  /\ used = [o \in Orders |-> Nothing] /\ returned = [o \in Orders |-> Nothing]
  /\ jobs = {}
  /\ tx = [s \in Slots |-> Closed]
  /\ raced = {}
  /\ edits = 0 /\ moves = 0

----------------------------------------------------------------------------
(* The order machine, as far as stock is concerned.                        *)

EnterKitchen(o) ==
  /\ phase[o] = "placed"
  /\ phase' = [phase EXCEPT ![o] = "in_kitchen"]
  /\ jobs' = jobs \cup {<<"consume", o>>}
  /\ UNCHANGED <<need, tables, tx, raced, edits, moves>>

\* An order that was never cooked queues its reversal all the same.
VoidOrder(o) ==
  /\ phase[o] # "voided"
  /\ phase' = [phase EXCEPT ![o] = "voided"]
  /\ jobs' = jobs \cup {<<"reverse", o>>}
  /\ UNCHANGED <<need, tables, tx, raced, edits, moves>>

\* replaceOrderLineItems writes the new lines and nothing about stock.
EditLines(o, n) ==
  /\ phase[o] # "voided" /\ n # need[o]
  /\ edits < MaxEdits /\ edits' = edits + 1
  /\ need' = [need EXCEPT ![o] = n]
  /\ UNCHANGED <<phase, tables, jobs, tx, raced, moves>>

----------------------------------------------------------------------------
(* Transactions.                                                           *)

hasConsumedCogsForOrder(o) == used[o] # Nothing
hasReversedCogsForOrder(o) == returned[o] # Nothing

Running(j) == \E s \in Slots : tx[s] # Closed /\ <<tx[s].kind, tx[s].order>> = j

Moves(delta) == {i \in Ingredients : delta[i] # 0}

Open(s, kind, o, delta) ==
  /\ tx' = [tx EXCEPT ![s] = [kind |-> kind, order |-> o, delta |-> delta,
                              todo |-> Moves(delta), at |-> NoIngredient, seen |-> 0,
                              wrote |-> [i \in Ingredients |-> -1]]]
  /\ raced' = raced \cup UNION {(Moves(tx[t].delta) \cap Moves(delta))
                                  \cup ({tx[t].order} \cap {o} \cap Orders) :
                                t \in {u \in Slots \ {s} : tx[u] # Closed}}

\* Bug: the job applies whatever was applied before.
Applies_Always(kind, o) == TRUE

\* Bug: stock is given back for an order that took none.
Applies_Unused(kind, o) ==
  IF kind = "consume" THEN ~hasConsumedCogsForOrder(o) ELSE ~hasReversedCogsForOrder(o)

\* The checks at the head of handleOrderInKitchen and handleOrderReversal.
Applies(kind, o) ==
  IF kind = "consume" THEN ~hasConsumedCogsForOrder(o)
                      ELSE ~hasReversedCogsForOrder(o) /\ hasConsumedCogsForOrder(o)

\* Both directions move what the lines of the order need as they are now.
BeginJob(s, kind, o) ==
  /\ tx[s] = Closed /\ <<kind, o>> \in jobs
  /\ Stalls \/ ~Running(<<kind, o>>)
  /\ \/ /\ Applies(kind, o)
        /\ Open(s, kind, o, [i \in Ingredients |->
                               IF kind = "consume" THEN -need[o][i] ELSE need[o][i]])
        /\ UNCHANGED jobs
     \/ /\ ~Applies(kind, o)
        /\ jobs' = jobs \ {<<kind, o>>}
        /\ UNCHANGED <<tx, raced>>
  /\ UNCHANGED <<phase, need, tables, edits, moves>>

\* restockIngredient, recordWaste and adjustStock, of one unit.
BeginOffice(s, i, d) ==
  /\ tx[s] = Closed
  /\ moves < MaxMoves /\ moves' = moves + 1
  /\ Open(s, "office", NoOrder, [Nothing EXCEPT ![i] = d])
  /\ UNCHANGED <<phase, need, tables, jobs, edits>>

(* appendMovement, once per ingredient. *)

\* Bug: the value written is lost on the way to the commit.
Visible_Committed(s, i) == stock[i]

Visible(s, i) == IF tx[s].wrote[i] >= 0 THEN tx[s].wrote[i] ELSE stock[i]

ReadStock(s, i) ==
  /\ tx[s] # Closed /\ tx[s].at = NoIngredient /\ i \in tx[s].todo
  /\ tx' = [tx EXCEPT ![s].at = i, ![s].seen = Visible(s, i)]
  /\ UNCHANGED <<phase, need, tables, jobs, raced, edits, moves>>

Enough(seen, d) == seen + d >= 0

\* The write waits while another open transaction has written the row.
WriteStock(s) ==
  LET i == tx[s].at IN
  /\ tx[s] # Closed /\ i # NoIngredient
  /\ Enough(tx[s].seen, tx[s].delta[i])
  /\ \A t \in Slots \ {s} : tx[t] # Closed => tx[t].wrote[i] = -1
  /\ tx' = [tx EXCEPT ![s].at = NoIngredient, ![s].todo = @ \ {i},
                      ![s].wrote[i] = tx[s].seen + tx[s].delta[i]]
  /\ UNCHANGED <<phase, need, tables, jobs, raced, edits, moves>>

EndJob(s) == jobs' = jobs \ {<<tx[s].kind, tx[s].order>>}
Close(s)  == tx' = [tx EXCEPT ![s] = Closed]

\* Bug: what was written before the error stays.
Fail_NoRollback(s) ==
  /\ tx[s] # Closed
  /\ stock' = [i \in Ingredients |-> Visible(s, i)]
  /\ EndJob(s) /\ Close(s)
  /\ UNCHANGED <<phase, need, moved, office, used, returned, raced, edits, moves>>

\* Insufficient stock, a deadlock the database breaks, a timeout: everything
\* rolls back, and the job handlers swallow the error, so the job is over too.
Fail(s) ==
  /\ tx[s] # Closed
  /\ EndJob(s) /\ Close(s)
  /\ UNCHANGED <<phase, need, tables, raced, edits, moves>>

\* The worker dies: everything rolls back, and BullMQ runs the job again.
Die(s) ==
  /\ tx[s] # Closed
  /\ Close(s)
  /\ UNCHANGED <<phase, need, tables, jobs, raced, edits, moves>>

Add(q, d, sign) == [i \in Ingredients |-> q[i] + sign * d[i]]

\* The OrderCogsLine rows of the transaction, and what the office entered.
Book(t) ==
  /\ used' = IF t.kind = "consume" THEN [used EXCEPT ![t.order] = Add(@, t.delta, -1)] ELSE used
  /\ returned' = IF t.kind = "reverse"
                 THEN [returned EXCEPT ![t.order] = Add(@, t.delta, 1)] ELSE returned
  /\ office' = IF t.kind = "office" THEN Add(office, t.delta, 1) ELSE office

\* The worker may die before it tells BullMQ that the job is done.
Commit(s) ==
  /\ tx[s] # Closed /\ tx[s].todo = {}
  /\ stock' = [i \in Ingredients |-> Visible(s, i)]
  /\ moved' = Add(moved, tx[s].delta, 1)
  /\ Book(tx[s])
  /\ EndJob(s) \/ jobs' = jobs
  /\ Close(s)
  /\ UNCHANGED <<phase, need, raced, edits, moves>>

Next ==
  \/ \E o \in Orders : EnterKitchen(o) \/ VoidOrder(o) \/ \E n \in Needs : EditLines(o, n)
  \/ \E s \in Slots :
       \/ \E o \in Orders, kind \in {"consume", "reverse"} : BeginJob(s, kind, o)
       \/ \E i \in Ingredients : (\E d \in {-1, 1} : BeginOffice(s, i, d)) \/ ReadStock(s, i)
       \/ WriteStock(s) \/ Commit(s) \/ Fail(s) \/ Die(s)

Spec == Init /\ [][Next]_vars

----------------------------------------------------------------------------
(* Properties.  What two transactions open at once have both been at is     *)
(* excepted: there the code keeps none of the three promises.               *)

\* "Direct currentStock updates are blocked" (docs/api-reference.md:266): the
\* stock is the opening stock and the movements since.
StockMatchesMovements ==
  \A i \in Ingredients \ raced : stock[i] = Opening + moved[i]

\* "Strict idempotency guards" (concurrency-improved-bullmq-kafka-ready.md:116):
\* an order's stock is taken once and given back once, however often its jobs
\* are queued, killed and run again.
MovedOnce ==
  [][\A o \in Orders \ raced' :
       /\ used'[o] # used[o] => ~hasConsumedCogsForOrder(o)
       /\ returned'[o] # returned[o] => ~hasReversedCogsForOrder(o)]_vars

\* While its lines stay as they were, an order gives back what it used, and
\* nothing if it used nothing.
ReturnsWhatWasUsed ==
  \A o \in Orders \ raced :
    edits = 0 /\ hasReversedCogsForOrder(o) => returned[o] = used[o]

----------------------------------------------------------------------------
(* The book these transactions keep.                                       *)

Entries == INSTANCE StockBook WITH level   <- stock,
                                   entered <- office,
                                   spoiled <- raced,
                                   amended <- edits > 0

\* A movement shows in stock, cost lines and office totals as one entry, whatever
\* other transactions read and wrote between its reads and its commit.
EntriesAreAtomic == Entries!BookSpec
==============================================================================
