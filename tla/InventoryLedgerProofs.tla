------------------------ MODULE InventoryLedgerProofs ------------------------
(***************************************************************************)
(* Proofs about the stock ledger, for any number of ingredients, orders,   *)
(* open transactions, edits and movements: what no two open transactions   *)
(* have both been at is kept right, whatever fails, dies or is run again.  *)
(***************************************************************************)
EXTENDS InventoryLedger, TLAPS

----------------------------------------------------------------------------
(* The inductive invariant.                                                *)

\* How far a transaction is and what it moves go together.
Fits(t) ==
  /\ t.order \in Orders <=> t.kind # "office"
  /\ \A i \in Ingredients :
       /\ t.kind = "consume" => t.delta[i] <= 0
       /\ t.kind = "reverse" => t.delta[i] >= 0
  /\ t.todo \subseteq Moves(t.delta) /\ t.at \in t.todo \cup {NoIngredient}
  /\ \A i \in Ingredients : (i \in t.todo \/ i \notin Moves(t.delta)) <=> t.wrote[i] = -1

\* What it has read and written is right for the stock as it is committed.
Current(t) ==
  \A i \in Ingredients \ raced :
    /\ t.at = i => t.seen = stock[i]
    /\ i \in Moves(t.delta) \ t.todo => t.wrote[i] = stock[i] + t.delta[i]

\* Its order still needs it, and needs what it moves.
StillDue(t) ==
  t.order \in Orders \ raced =>
    /\ t.kind = "consume" => used[t.order] = Nothing
    /\ t.kind = "reverse" => returned[t.order] = Nothing /\ used[t.order] # Nothing
    /\ edits = 0 =>
         \A i \in Ingredients :
           t.delta[i] = IF t.kind = "consume" THEN -need[t.order][i] ELSE need[t.order][i]

OpenAreRight ==
  \A s \in Slots : tx[s] # Closed => Fits(tx[s]) /\ Current(tx[s]) /\ StillDue(tx[s])

\* What two open transactions share is raced.
Shared(t, u) == (Moves(t.delta) \cap Moves(u.delta)) \cup ({t.order} \cap {u.order} \cap Orders)

SharedIsRaced ==
  \A s, z \in Slots :
    s # z /\ tx[s] # Closed /\ tx[z] # Closed => Shared(tx[s], tx[z]) \subseteq raced

BooksAreRight ==
  edits = 0 => \A o \in Orders \ raced :
    used[o] \in {Nothing, need[o]} /\ returned[o] \in {Nothing, used[o]}

IInv == TypeOK /\ OpenAreRight /\ SharedIsRaced /\ BooksAreRight /\ StockMatchesMovements

----------------------------------------------------------------------------
(* Shapes.                                                                 *)

LEMMA OpenIsTx ==
  ASSUME TypeOK, NEW s \in Slots, tx[s] # Closed
  PROVE  /\ tx[s] \in Tx
         /\ tx[s].kind \in {"consume", "reverse", "office"}
         /\ tx[s].order \in Orders \cup {NoOrder}
         /\ tx[s].delta \in [Ingredients -> Int] /\ tx[s].todo \subseteq Ingredients
         /\ tx[s].at \in Ingredients \cup {NoIngredient} /\ tx[s].seen \in Nat
         /\ tx[s].wrote \in [Ingredients -> Nat \cup {-1}]
BY DEF TypeOK, Tx

LEMMA NothingIsQuantity == Nothing \in Quantities
BY DEF Nothing, Quantities

----------------------------------------------------------------------------
(* Steps of one transaction that write nothing that is committed.          *)

LEMMA SlotKeeps ==
  ASSUME IInv, TypeOK', NEW s \in Slots, NEW t, tx'[s] = t,
         \A z \in Slots \ {s} : tx'[z] = tx[z],
         UNCHANGED <<tables, need, edits>>, raced \subseteq raced',
         t # Closed => Fits(t) /\ Current(t)' /\ StillDue(t)',
         t # Closed => \A z \in Slots \ {s} : tx[z] # Closed => Shared(t, tx[z]) \subseteq raced'
  PROVE  IInv'
<1>1. UNCHANGED <<stock, moved, office, used, returned>>
  BY DEF tables
<1>2. OpenAreRight'
  <2> SUFFICES ASSUME NEW z \in Slots, tx'[z] # Closed
               PROVE  Fits(tx'[z]) /\ Current(tx[z])' /\ StillDue(tx[z])'
    BY DEF OpenAreRight, Fits
  <2>1. CASE z = s
    BY <2>1 DEF Fits, Current, StillDue
  <2>2. CASE z # s
    <3>1. tx'[z] = tx[z] /\ Fits(tx[z]) /\ Current(tx[z]) /\ StillDue(tx[z])
      BY <2>2 DEF IInv, OpenAreRight
    <3>2. Fits(tx'[z])
      BY <3>1
    <3>3. Current(tx[z])'
      BY <1>1, <3>1 DEF Current
    <3>4. StillDue(tx[z])'
      BY <1>1, <3>1 DEF StillDue
    <3> QED  BY <3>2, <3>3, <3>4
  <2> QED  BY <2>1, <2>2
<1>3. SharedIsRaced'
  <2> SUFFICES ASSUME NEW y \in Slots, NEW z \in Slots, y # z, tx'[y] # Closed, tx'[z] # Closed
               PROVE  Shared(tx'[y], tx'[z]) \subseteq raced'
    BY DEF SharedIsRaced, Shared
  <2>1. Shared(tx'[y], tx'[z]) = Shared(tx'[z], tx'[y])
    BY DEF Shared
  <2>2. CASE y = s
    BY <2>2
  <2>3. CASE z = s
    BY <2>1, <2>3
  <2>4. CASE y # s /\ z # s
    <3>1. tx'[y] = tx[y] /\ tx'[z] = tx[z]
      BY <2>4
    <3>2. Shared(tx[y], tx[z]) \subseteq raced
      BY <3>1 DEF IInv, SharedIsRaced
    <3> QED  BY <3>1, <3>2
  <2> QED  BY <2>2, <2>3, <2>4
<1>4. BooksAreRight' /\ StockMatchesMovements'
  BY <1>1 DEF IInv, BooksAreRight, StockMatchesMovements
<1> QED  BY <1>2, <1>3, <1>4 DEF IInv

\* Fail and Die, and a job that has nothing to do.
LEMMA CloseKeeps ==
  ASSUME IInv, NEW s \in Slots, Fail(s) \/ Die(s)
  PROVE  IInv'
<1>1. UNCHANGED <<phase, need, tables, raced, edits, moves>> /\ jobs' \subseteq jobs
  BY DEF Fail, Die, EndJob
<1>2. tx' \in [Slots -> Tx \cup {Closed}] /\ tx'[s] = Closed /\ \A z \in Slots \ {s} : tx'[z] = tx[z]
  BY DEF Fail, Die, Close, IInv, TypeOK
<1>3. TypeOK'
  BY <1>1, <1>2 DEF IInv, TypeOK, tables
<1> QED  BY <1>1, <1>2, <1>3, SlotKeeps

LEMMA ReadStockKeeps ==
  ASSUME IInv, NEW s \in Slots, NEW i \in Ingredients, ReadStock(s, i)
  PROVE  IInv'
<1>1. /\ UNCHANGED <<phase, need, tables, jobs, raced, edits, moves>>
      /\ tx[s] # Closed /\ i \in tx[s].todo
  BY DEF ReadStock
<1>2. PICK o : o = tx[s]
  OBVIOUS
<1>3. /\ o \in Tx /\ o.seen \in Nat /\ o.wrote \in [Ingredients -> Nat \cup {-1}]
      /\ Fits(o) /\ Current(o) /\ StillDue(o)
  BY <1>1, <1>2, OpenIsTx DEF IInv, OpenAreRight
<1>4. Visible(s, i) = stock[i] /\ stock[i] \in Nat
  BY <1>1, <1>2, <1>3 DEF Visible, Fits, IInv, TypeOK, Quantities
<1>5. PICK t : t = [o EXCEPT !.at = i, !.seen = stock[i]]
  OBVIOUS
<1>6. /\ t \in Tx /\ t.at = i /\ t.seen = stock[i]
      /\ t.kind = o.kind /\ t.order = o.order /\ t.delta = o.delta /\ t.todo = o.todo
      /\ t.wrote = o.wrote
  BY <1>3, <1>4, <1>5 DEF Tx
<1>7. tx' = [tx EXCEPT ![s] = t]
  BY <1>2, <1>4, <1>5 DEF ReadStock, IInv, TypeOK
<1>8. tx' \in [Slots -> Tx \cup {Closed}] /\ tx'[s] = t /\ \A z \in Slots \ {s} : tx'[z] = tx[z]
  BY <1>6, <1>7 DEF IInv, TypeOK
<1>9. TypeOK'
  BY <1>1, <1>8 DEF IInv, TypeOK, tables
<1>10. Fits(t) /\ Current(t)' /\ StillDue(t)'
  BY <1>1, <1>2, <1>3, <1>6 DEF Fits, Current, StillDue, tables
<1>11. \A z \in Slots \ {s} : tx[z] # Closed => Shared(t, tx[z]) \subseteq raced'
  BY <1>1, <1>2, <1>6 DEF IInv, SharedIsRaced, Shared
<1> QED  BY <1>1, <1>8, <1>9, <1>10, <1>11, SlotKeeps

LEMMA WriteStockKeeps ==
  ASSUME IInv, NEW s \in Slots, WriteStock(s)
  PROVE  IInv'
<1>1. UNCHANGED <<phase, need, tables, jobs, raced, edits, moves>> /\ tx[s] # Closed
  BY DEF WriteStock
<1>2. PICK o : o = tx[s]
  OBVIOUS
<1>3. /\ o \in Tx /\ o.seen \in Nat /\ o.wrote \in [Ingredients -> Nat \cup {-1}]
      /\ o.delta \in [Ingredients -> Int] /\ o.todo \subseteq Ingredients
      /\ o.at \in Ingredients \cup {NoIngredient}
      /\ Fits(o) /\ Current(o) /\ StillDue(o)
  BY <1>1, <1>2, OpenIsTx DEF IInv, OpenAreRight
<1>4. PICK i \in Ingredients : o.at = i /\ i \in o.todo
  BY <1>2, <1>3 DEF WriteStock, Fits
<1>5. PICK n : n = o.seen + o.delta[i]
  OBVIOUS
<1>6. n \in Nat
  BY <1>2, <1>3, <1>4, <1>5 DEF WriteStock, Enough
<1>7. PICK w : w = [o.wrote EXCEPT ![i] = n]
  OBVIOUS
<1>8. /\ w \in [Ingredients -> Nat \cup {-1}] /\ w[i] = n
      /\ \A j \in Ingredients : j # i => w[j] = o.wrote[j]
  BY <1>3, <1>6, <1>7
<1>9. PICK t : t = [o EXCEPT !.at = NoIngredient, !.todo = o.todo \ {i}, !.wrote = w]
  OBVIOUS
<1>10. /\ t \in Tx /\ t.at = NoIngredient /\ t.todo = o.todo \ {i} /\ t.wrote = w
       /\ t.kind = o.kind /\ t.order = o.order /\ t.delta = o.delta /\ t.seen = o.seen
  BY <1>3, <1>8, <1>9 DEF Tx
<1>11. tx' = [tx EXCEPT ![s] = t]
  BY <1>2, <1>4, <1>5, <1>7, <1>9 DEF WriteStock, IInv, TypeOK
<1>12. tx' \in [Slots -> Tx \cup {Closed}] /\ tx'[s] = t /\ \A z \in Slots \ {s} : tx'[z] = tx[z]
  BY <1>10, <1>11 DEF IInv, TypeOK
<1>13. TypeOK'
  BY <1>1, <1>12 DEF IInv, TypeOK, tables
<1>14. Fits(t)
  <2>1. i \in Moves(o.delta) /\ n # -1
    BY <1>3, <1>4, <1>6 DEF Fits
  <2>2. \A j \in Ingredients : (j \in t.todo \/ j \notin Moves(t.delta)) <=> t.wrote[j] = -1
    BY <1>3, <1>4, <1>8, <1>10, <2>1 DEF Fits
  <2> QED  BY <1>3, <1>10, <2>2 DEF Fits
<1>15. Current(t)'
  BY <1>1, <1>3, <1>4, <1>5, <1>8, <1>10, LedgerAssumption DEF Current, tables
<1>16. StillDue(t)'
  BY <1>1, <1>3, <1>10 DEF StillDue, tables
<1>17. \A z \in Slots \ {s} : tx[z] # Closed => Shared(t, tx[z]) \subseteq raced'
  BY <1>1, <1>2, <1>10 DEF IInv, SharedIsRaced, Shared
<1> QED  BY <1>1, <1>12, <1>13, <1>14, <1>15, <1>16, <1>17, SlotKeeps

----------------------------------------------------------------------------
(* Transactions begin.                                                     *)

LEMMA OpenKeeps ==
  ASSUME IInv, NEW s \in Slots, tx[s] = Closed,
         NEW kind \in {"consume", "reverse", "office"}, NEW o \in Orders \cup {NoOrder},
         NEW delta \in [Ingredients -> Int], Open(s, kind, o, delta),
         UNCHANGED <<phase, need, tables, edits>>, jobs' = jobs, moves' \in 0..MaxMoves,
         o \in Orders <=> kind # "office",
         \A i \in Ingredients :
           (kind = "consume" => delta[i] <= 0) /\ (kind = "reverse" => delta[i] >= 0),
         o \in Orders =>
           /\ kind = "consume" => used[o] = Nothing
           /\ kind = "reverse" => returned[o] = Nothing /\ used[o] # Nothing
           /\ \A i \in Ingredients :
                delta[i] = IF kind = "consume" THEN -need[o][i] ELSE need[o][i]
  PROVE  IInv'
<1>1. PICK t : t = [kind |-> kind, order |-> o, delta |-> delta, todo |-> Moves(delta),
                    at |-> NoIngredient, seen |-> 0, wrote |-> [i \in Ingredients |-> -1]]
  OBVIOUS
<1>2. /\ t.kind = kind /\ t.order = o /\ t.delta = delta /\ t.todo = Moves(delta)
      /\ t.at = NoIngredient /\ \A i \in Ingredients : t.wrote[i] = -1
  BY <1>1
<1>3. t \in Tx
  BY <1>1 DEF Tx, Moves
<1>4. tx' = [tx EXCEPT ![s] = t]
  BY <1>1 DEF Open
<1>5. tx' \in [Slots -> Tx \cup {Closed}] /\ tx'[s] = t /\ \A z \in Slots \ {s} : tx'[z] = tx[z]
  BY <1>3, <1>4 DEF IInv, TypeOK
<1>6. raced' = raced \cup UNION {(Moves(tx[z].delta) \cap Moves(delta))
                                   \cup ({tx[z].order} \cap {o} \cap Orders) :
                                 z \in {u \in Slots \ {s} : tx[u] # Closed}}
  BY DEF Open
<1>7. raced \subseteq raced' /\ raced' \subseteq Ingredients \cup Orders
  BY <1>6 DEF IInv, TypeOK, Moves
<1>8. TypeOK'
  BY <1>5, <1>7 DEF IInv, TypeOK, tables
<1>9. ASSUME NEW z \in Slots \ {s}, tx[z] # Closed PROVE Shared(t, tx[z]) \subseteq raced'
  <2>1. (Moves(tx[z].delta) \cap Moves(delta)) \cup ({tx[z].order} \cap {o} \cap Orders) \subseteq raced'
    BY <1>6, <1>9
  <2> QED  BY <1>2, <2>1 DEF Shared
<1>10. Fits(t)
  BY <1>2, LedgerAssumption DEF Fits
<1>11. Current(t)'
  BY <1>2, LedgerAssumption DEF Current
<1>12. StillDue(t)'
  BY <1>2 DEF StillDue, tables
<1> QED  BY <1>5, <1>7, <1>8, <1>9, <1>10, <1>11, <1>12, SlotKeeps

LEMMA BeginJobKeeps ==
  ASSUME IInv, NEW s \in Slots, NEW o \in Orders, NEW kind \in {"consume", "reverse"},
         BeginJob(s, kind, o)
  PROVE  IInv'
<1>1. UNCHANGED <<phase, need, tables, edits, moves>> /\ tx[s] = Closed
  BY DEF BeginJob
<1>2. CASE /\ Applies(kind, o)
           /\ Open(s, kind, o, [i \in Ingredients |->
                                  IF kind = "consume" THEN -need[o][i] ELSE need[o][i]])
           /\ UNCHANGED jobs
  <2>1. PICK delta : delta = [i \in Ingredients |-> IF kind = "consume" THEN -need[o][i] ELSE need[o][i]]
    OBVIOUS
  <2>2. \A i \in Ingredients : need[o][i] \in Nat
    BY LedgerAssumption DEF IInv, TypeOK
  <2>3. /\ delta \in [Ingredients -> Int]
        /\ \A i \in Ingredients :
             /\ delta[i] = IF kind = "consume" THEN -need[o][i] ELSE need[o][i]
             /\ kind = "consume" => delta[i] <= 0
             /\ kind = "reverse" => delta[i] >= 0
    BY <2>1, <2>2
  <2>4. /\ kind = "consume" => used[o] = Nothing
        /\ kind = "reverse" => returned[o] = Nothing /\ used[o] # Nothing
    BY <1>2 DEF Applies, hasConsumedCogsForOrder, hasReversedCogsForOrder
  <2>5. Open(s, kind, o, delta) /\ jobs' = jobs
    BY <1>2, <2>1
  <2>6. moves' \in 0..MaxMoves
    BY <1>1 DEF IInv, TypeOK
  <2> QED  BY <1>1, <2>3, <2>4, <2>5, <2>6, OpenKeeps
<1>3. CASE UNCHANGED <<tx, raced>> /\ jobs' = jobs \ {<<kind, o>>}
  <2>1. TypeOK'
    BY <1>1, <1>3 DEF IInv, TypeOK, tables
  <2> QED  BY <1>1, <1>3, <2>1, SlotKeeps
<1> QED  BY <1>2, <1>3 DEF BeginJob

LEMMA BeginOfficeKeeps ==
  ASSUME IInv, NEW s \in Slots, NEW i \in Ingredients, NEW d \in {-1, 1}, BeginOffice(s, i, d)
  PROVE  IInv'
<1>1. UNCHANGED <<phase, need, tables, edits>> /\ jobs' = jobs /\ tx[s] = Closed
  BY DEF BeginOffice
<1>2. PICK delta \in [Ingredients -> Int] : delta = [Nothing EXCEPT ![i] = d]
  <2>1. Nothing \in [Ingredients -> Int] /\ d \in Int
    BY DEF Nothing
  <2> QED  BY <2>1
<1>3. Open(s, "office", NoOrder, delta)
  BY <1>2 DEF BeginOffice
<1>4. moves' \in 0..MaxMoves
  BY LedgerAssumption DEF BeginOffice, IInv, TypeOK
<1> QED  BY <1>1, <1>3, <1>4, LedgerAssumption, OpenKeeps

----------------------------------------------------------------------------
(* The order machine.                                                      *)

LEMMA OrderKeeps ==
  ASSUME IInv, NEW o \in Orders, EnterKitchen(o) \/ VoidOrder(o)
  PROVE  IInv'
<1>1. UNCHANGED <<need, stock, moved, office, used, returned, tx, raced, edits, moves>>
  BY DEF EnterKitchen, VoidOrder, tables
<1>2. phase' \in [Orders -> {"placed", "in_kitchen", "voided"}] /\ jobs' \subseteq Job
  BY DEF EnterKitchen, VoidOrder, Job, IInv, TypeOK
<1>3. TypeOK'
  BY <1>1, <1>2 DEF IInv, TypeOK
<1>4. OpenAreRight'
  <2> SUFFICES ASSUME NEW s \in Slots, tx[s] # Closed
               PROVE  Fits(tx[s]) /\ Current(tx[s])' /\ StillDue(tx[s])'
    BY <1>1 DEF OpenAreRight, Fits
  <2>1. Fits(tx[s]) /\ Current(tx[s]) /\ StillDue(tx[s])
    BY DEF IInv, OpenAreRight
  <2>2. Current(tx[s])' /\ StillDue(tx[s])'
    BY <1>1, <2>1 DEF Current, StillDue
  <2> QED  BY <2>1, <2>2
<1>5. SharedIsRaced' /\ BooksAreRight' /\ StockMatchesMovements'
  BY <1>1 DEF IInv, SharedIsRaced, BooksAreRight, StockMatchesMovements
<1> QED  BY <1>3, <1>4, <1>5 DEF IInv

LEMMA EditLinesKeeps ==
  ASSUME IInv, NEW o \in Orders, NEW n \in Needs, EditLines(o, n)
  PROVE  IInv'
<1>1. UNCHANGED <<phase, stock, moved, office, used, returned, jobs, tx, raced, moves>>
  BY DEF EditLines, tables
<1>2. edits' \in 0..MaxEdits /\ edits' # 0 /\ need' \in [Orders -> Needs]
  BY LedgerAssumption DEF EditLines, IInv, TypeOK
<1>3. TypeOK'
  BY <1>1, <1>2 DEF IInv, TypeOK
<1>4. OpenAreRight'
  <2> SUFFICES ASSUME NEW s \in Slots, tx[s] # Closed
               PROVE  Fits(tx[s]) /\ Current(tx[s])' /\ StillDue(tx[s])'
    BY <1>1 DEF OpenAreRight, Fits
  <2>1. Fits(tx[s]) /\ Current(tx[s]) /\ StillDue(tx[s])
    BY DEF IInv, OpenAreRight
  <2>2. Current(tx[s])'
    BY <1>1, <2>1 DEF Current
  <2>3. StillDue(tx[s])'
    BY <1>1, <1>2, <2>1 DEF StillDue
  <2> QED  BY <2>1, <2>2, <2>3
<1>5. SharedIsRaced' /\ BooksAreRight' /\ StockMatchesMovements'
  BY <1>1, <1>2 DEF IInv, SharedIsRaced, BooksAreRight, StockMatchesMovements
<1> QED  BY <1>3, <1>4, <1>5 DEF IInv

----------------------------------------------------------------------------
(* Commit.                                                                 *)

\* What a commit does to the tables.
LEMMA CommitBooks ==
  ASSUME IInv, NEW s \in Slots, NEW t, t = tx[s], Commit(s)
  PROVE  /\ UNCHANGED <<phase, need, raced, edits, moves>> /\ jobs' \subseteq jobs
         /\ t \in Tx /\ Fits(t) /\ Current(t) /\ StillDue(t) /\ t # Closed
         /\ \A i \in Ingredients : i \notin raced => stock'[i] = stock[i] + t.delta[i]
         /\ moved' = [i \in Ingredients |-> moved[i] + t.delta[i]]
         /\ stock' \in Quantities /\ office' \in [Ingredients -> Int]
         /\ used' = IF t.kind = "consume"
                      THEN [used EXCEPT ![t.order] = [i \in Ingredients |-> @[i] - t.delta[i]]]
                      ELSE used
         /\ returned' = IF t.kind = "reverse"
                          THEN [returned EXCEPT ![t.order] = [i \in Ingredients |-> @[i] + t.delta[i]]]
                          ELSE returned
<1>1. UNCHANGED <<phase, need, raced, edits, moves>> /\ jobs' \subseteq jobs
      /\ tx[s] # Closed /\ t.todo = {}
  BY DEF Commit, EndJob
<1>2. /\ t \in Tx /\ Fits(t) /\ Current(t) /\ StillDue(t) /\ t # Closed
      /\ t.delta \in [Ingredients -> Int] /\ t.wrote \in [Ingredients -> Nat \cup {-1}]
      /\ t.kind \in {"consume", "reverse", "office"}
  BY <1>1, OpenIsTx DEF IInv, OpenAreRight
<1>3. stock' = [i \in Ingredients |-> IF t.wrote[i] >= 0 THEN t.wrote[i] ELSE stock[i]]
  BY DEF Commit, Visible
<1>4. stock' \in Quantities
  BY <1>2, <1>3 DEF IInv, TypeOK, Quantities
<1>5. ASSUME NEW i \in Ingredients, i \notin raced PROVE stock'[i] = stock[i] + t.delta[i]
  <2>1. stock[i] \in Nat /\ t.delta[i] \in Int /\ t.wrote[i] \in Nat \cup {-1}
    BY <1>2 DEF IInv, TypeOK, Quantities
  <2>2. CASE i \in Moves(t.delta)
    <3>1. t.wrote[i] = stock[i] + t.delta[i]
      BY <1>1, <1>2, <1>5, <2>2 DEF Current
    <3>2. t.wrote[i] >= 0
      BY <1>1, <1>2, <2>1, <2>2 DEF Fits
    <3> QED  BY <1>3, <2>1, <3>1, <3>2
  <2>3. CASE i \notin Moves(t.delta)
    <3>1. t.wrote[i] = -1 /\ t.delta[i] = 0
      BY <1>2, <2>3 DEF Fits, Moves
    <3> QED  BY <1>3, <2>1, <3>1
  <2> QED  BY <2>2, <2>3
<1>6. moved' = [i \in Ingredients |-> moved[i] + t.delta[i]]
  BY <1>2 DEF Commit, Add, IInv, TypeOK
<1>7. /\ used' = IF t.kind = "consume" THEN [used EXCEPT ![t.order] = Add(@, t.delta, -1)] ELSE used
      /\ returned' = IF t.kind = "reverse"
                       THEN [returned EXCEPT ![t.order] = Add(@, t.delta, 1)] ELSE returned
      /\ office' = IF t.kind = "office" THEN Add(office, t.delta, 1) ELSE office
  BY DEF Commit, Book
<1>8. office' \in [Ingredients -> Int]
  BY <1>2, <1>7 DEF Add, IInv, TypeOK
<1>9. ASSUME t.kind = "consume"
      PROVE  Add(used[t.order], t.delta, -1) = [i \in Ingredients |-> used[t.order][i] - t.delta[i]]
  <2>1. used[t.order] \in [Ingredients -> Nat]
    BY <1>2, <1>9 DEF Fits, IInv, TypeOK, Quantities
  <2> QED  BY <1>2, <2>1 DEF Add
<1>10. ASSUME t.kind = "reverse"
       PROVE  Add(returned[t.order], t.delta, 1)
                = [i \in Ingredients |-> returned[t.order][i] + t.delta[i]]
  <2>1. returned[t.order] \in [Ingredients -> Nat]
    BY <1>2, <1>10 DEF Fits, IInv, TypeOK, Quantities
  <2> QED  BY <1>2, <2>1 DEF Add
<1>11. used' = IF t.kind = "consume"
                 THEN [used EXCEPT ![t.order] = [i \in Ingredients |-> @[i] - t.delta[i]]]
                 ELSE used
  BY <1>7, <1>9
<1>12. returned' = IF t.kind = "reverse"
                     THEN [returned EXCEPT ![t.order] = [i \in Ingredients |-> @[i] + t.delta[i]]]
                     ELSE returned
  BY <1>7, <1>10
<1> QED  BY <1>1, <1>2, <1>4, <1>5, <1>6, <1>8, <1>11, <1>12

LEMMA CommitTypes ==
  ASSUME IInv, NEW s \in Slots, Commit(s)
  PROVE  TypeOK' /\ tx'[s] = Closed /\ \A z \in Slots \ {s} : tx'[z] = tx[z]
<1>1. PICK t : t = tx[s]
  OBVIOUS
<1>2. /\ UNCHANGED <<phase, need, raced, edits, moves>> /\ jobs' \subseteq jobs
      /\ t \in Tx /\ Fits(t)
      /\ moved' = [i \in Ingredients |-> moved[i] + t.delta[i]]
      /\ stock' \in Quantities /\ office' \in [Ingredients -> Int]
      /\ used' = IF t.kind = "consume"
                   THEN [used EXCEPT ![t.order] = [i \in Ingredients |-> @[i] - t.delta[i]]]
                   ELSE used
      /\ returned' = IF t.kind = "reverse"
                       THEN [returned EXCEPT ![t.order] = [i \in Ingredients |-> @[i] + t.delta[i]]]
                       ELSE returned
  BY <1>1, CommitBooks
<1>3. t.delta \in [Ingredients -> Int] /\ t.kind \in {"consume", "reverse", "office"}
  BY <1>2 DEF Tx
<1>4. moved' \in [Ingredients -> Int]
  BY <1>2, <1>3 DEF IInv, TypeOK
<1>5. used' \in [Orders -> Quantities]
  <2>1. CASE t.kind = "consume"
    <3>1. t.order \in Orders /\ \A i \in Ingredients : t.delta[i] <= 0
      BY <1>2, <2>1 DEF Fits
    <3>2. used[t.order] \in [Ingredients -> Nat]
      BY <3>1 DEF IInv, TypeOK, Quantities
    <3>3. [i \in Ingredients |-> used[t.order][i] - t.delta[i]] \in Quantities
      BY <1>3, <3>1, <3>2 DEF Quantities
    <3> QED  BY <1>2, <2>1, <3>3 DEF IInv, TypeOK
  <2>2. CASE t.kind # "consume"
    BY <1>2, <2>2 DEF IInv, TypeOK
  <2> QED  BY <2>1, <2>2
<1>6. returned' \in [Orders -> Quantities]
  <2>1. CASE t.kind = "reverse"
    <3>1. t.order \in Orders /\ \A i \in Ingredients : t.delta[i] >= 0
      BY <1>2, <2>1 DEF Fits
    <3>2. returned[t.order] \in [Ingredients -> Nat]
      BY <3>1 DEF IInv, TypeOK, Quantities
    <3>3. [i \in Ingredients |-> returned[t.order][i] + t.delta[i]] \in Quantities
      BY <1>3, <3>1, <3>2 DEF Quantities
    <3> QED  BY <1>2, <2>1, <3>3 DEF IInv, TypeOK
  <2>2. CASE t.kind # "reverse"
    BY <1>2, <2>2 DEF IInv, TypeOK
  <2> QED  BY <2>1, <2>2
<1>7. tx' \in [Slots -> Tx \cup {Closed}] /\ tx'[s] = Closed /\ \A z \in Slots \ {s} : tx'[z] = tx[z]
  BY DEF Commit, Close, IInv, TypeOK
<1> QED  BY <1>2, <1>4, <1>5, <1>6, <1>7 DEF IInv, TypeOK

\* A commit changes the books of its own order only.
LEMMA CommitOrders ==
  ASSUME IInv, NEW s \in Slots, NEW t, t = tx[s], Commit(s), NEW o \in Orders
  PROVE  /\ o # t.order => used'[o] = used[o] /\ returned'[o] = returned[o]
         /\ t.kind # "consume" => used'[o] = used[o]
         /\ t.kind # "reverse" => returned'[o] = returned[o]
         /\ o = t.order /\ t.kind = "consume" =>
              \A i \in Ingredients : used'[o][i] = used[o][i] - t.delta[i]
         /\ o = t.order /\ t.kind = "reverse" =>
              \A i \in Ingredients : returned'[o][i] = returned[o][i] + t.delta[i]
<1>1. /\ used' = IF t.kind = "consume"
                   THEN [used EXCEPT ![t.order] = [i \in Ingredients |-> @[i] - t.delta[i]]]
                   ELSE used
      /\ returned' = IF t.kind = "reverse"
                       THEN [returned EXCEPT ![t.order] = [i \in Ingredients |-> @[i] + t.delta[i]]]
                       ELSE returned
  BY CommitBooks
<1>2. used \in [Orders -> Quantities] /\ returned \in [Orders -> Quantities]
  BY DEF IInv, TypeOK
<1> QED  BY <1>1, <1>2

LEMMA CommitKeeps ==
  ASSUME IInv, NEW s \in Slots, Commit(s)
  PROVE  IInv'
<1>1. PICK t : t = tx[s]
  OBVIOUS
<1>2. /\ UNCHANGED <<need, raced, edits>>
      /\ t \in Tx /\ Fits(t) /\ StillDue(t) /\ t # Closed
      /\ \A i \in Ingredients : i \notin raced => stock'[i] = stock[i] + t.delta[i]
      /\ moved' = [i \in Ingredients |-> moved[i] + t.delta[i]]
  BY <1>1, CommitBooks
<1>3. TypeOK' /\ tx'[s] = Closed /\ \A z \in Slots \ {s} : tx'[z] = tx[z]
  BY CommitTypes
<1>4. t.delta \in [Ingredients -> Int] /\ t.kind \in {"consume", "reverse", "office"}
  BY <1>2 DEF Tx
<1>5. ASSUME NEW z \in Slots, tx'[z] # Closed
      PROVE  Fits(tx'[z]) /\ Current(tx[z])' /\ StillDue(tx[z])'
  <2>1. z # s /\ tx'[z] = tx[z]
    BY <1>3, <1>5
  <2>2. PICK u : u = tx[z]
    OBVIOUS
  <2>3. u \in Tx /\ Fits(u) /\ Current(u) /\ StillDue(u) /\ Shared(u, t) \subseteq raced
    BY <1>1, <1>2, <1>5, <2>1, <2>2, OpenIsTx DEF IInv, OpenAreRight, SharedIsRaced
  <2>4. ASSUME NEW i \in Ingredients \ raced, i \in Moves(u.delta) \/ u.at = i
        PROVE  stock'[i] = stock[i]
    <3>1. i \in Moves(u.delta)
      BY <2>3, <2>4, LedgerAssumption DEF Fits
    <3>2. t.delta[i] = 0
      BY <2>3, <3>1 DEF Shared, Moves
    <3> QED  BY <1>2, <3>2 DEF IInv, TypeOK, Quantities
  <2>5. Current(u)'
    BY <1>2, <2>3, <2>4 DEF Current
  <2>6. ASSUME u.order \in Orders \ raced
        PROVE  used'[u.order] = used[u.order] /\ returned'[u.order] = returned[u.order]
    <3>1. u.order # t.order
      BY <2>3, <2>6 DEF Shared
    <3> QED  BY <1>1, <2>6, <3>1, CommitOrders
  <2>7. StillDue(u)'
    BY <1>2, <2>3, <2>6 DEF StillDue
  <2> QED  BY <2>1, <2>2, <2>3, <2>5, <2>7 DEF Current, StillDue
<1>6. OpenAreRight'
  BY <1>5 DEF OpenAreRight, Fits
<1>7. SharedIsRaced'
  BY <1>2, <1>3 DEF IInv, SharedIsRaced, Shared
<1>8. StockMatchesMovements'
  <2> SUFFICES ASSUME NEW i \in Ingredients \ raced PROVE stock'[i] = Opening + moved'[i]
    BY <1>2 DEF StockMatchesMovements
  <2>1. stock[i] = Opening + moved[i]
    BY DEF IInv, StockMatchesMovements
  <2>2. moved[i] \in Int /\ t.delta[i] \in Int /\ Opening \in Int
    BY <1>4, LedgerAssumption DEF IInv, TypeOK
  <2> QED  BY <1>2, <2>1, <2>2
<1>9. BooksAreRight'
  <2> SUFFICES ASSUME edits = 0, NEW o \in Orders \ raced
               PROVE  used'[o] \in {Nothing, need[o]} /\ returned'[o] \in {Nothing, used'[o]}
    BY <1>2 DEF BooksAreRight
  <2>1. used[o] \in {Nothing, need[o]} /\ returned[o] \in {Nothing, used[o]}
    BY DEF IInv, BooksAreRight
  <2>2. need[o] \in [Ingredients -> Nat]
    BY LedgerAssumption DEF IInv, TypeOK
  <2>3. CASE o = t.order /\ t.kind = "consume"
    <3>1. used[o] = Nothing /\ \A i \in Ingredients : t.delta[i] = -need[o][i]
      BY <1>2, <2>3 DEF StillDue
    <3>2. /\ \A i \in Ingredients : used'[o][i] = used[o][i] - t.delta[i]
          /\ returned'[o] = returned[o]
      BY <1>1, <2>3, CommitOrders
    <3>3. used'[o] \in [Ingredients -> Nat]
      BY <1>3 DEF TypeOK, Quantities
    <3>4. \A i \in Ingredients : used'[o][i] = need[o][i]
      BY <2>2, <3>1, <3>2 DEF Nothing
    <3>5. used'[o] = need[o]
      BY <2>2, <3>3, <3>4
    <3> QED  BY <2>1, <3>1, <3>2, <3>5
  <2>4. CASE o = t.order /\ t.kind = "reverse"
    <3>1. returned[o] = Nothing /\ used[o] # Nothing /\ \A i \in Ingredients : t.delta[i] = need[o][i]
      BY <1>2, <2>4 DEF StillDue
    <3>2. /\ \A i \in Ingredients : returned'[o][i] = returned[o][i] + t.delta[i]
          /\ used'[o] = used[o]
      BY <1>1, <2>4, CommitOrders
    <3>3. returned'[o] \in [Ingredients -> Nat]
      BY <1>3 DEF TypeOK, Quantities
    <3>4. \A i \in Ingredients : returned'[o][i] = need[o][i]
      BY <2>2, <3>1, <3>2 DEF Nothing
    <3>5. returned'[o] = need[o]
      BY <2>2, <3>3, <3>4
    <3> QED  BY <2>1, <3>1, <3>2, <3>5
  <2>5. CASE o # t.order \/ t.kind = "office"
    BY <1>1, <2>1, <2>5, CommitOrders
  <2> QED  BY <1>4, <2>3, <2>4, <2>5
<1> QED  BY <1>3, <1>6, <1>7, <1>8, <1>9 DEF IInv

----------------------------------------------------------------------------
(* The theorems.                                                           *)

LEMMA InitIInv == Init => IInv
<1> SUFFICES ASSUME Init PROVE IInv
  OBVIOUS
<1>1. TypeOK
  <2>1. Nothing \in Quantities /\ Nothing \in [Ingredients -> Int]
    BY DEF Nothing, Quantities
  <2>2. [i \in Ingredients |-> Opening] \in Quantities
    BY LedgerAssumption DEF Quantities
  <2>3. 0 \in 0..MaxEdits /\ 0 \in 0..MaxMoves
    BY LedgerAssumption
  <2> QED  BY <2>1, <2>2, <2>3 DEF Init, TypeOK
<1>2. OpenAreRight /\ SharedIsRaced /\ BooksAreRight
  BY DEF Init, OpenAreRight, SharedIsRaced, BooksAreRight
<1>3. StockMatchesMovements
  BY LedgerAssumption DEF Init, Nothing, StockMatchesMovements
<1> QED  BY <1>1, <1>2, <1>3 DEF IInv

LEMMA StepKeeps == IInv /\ [Next]_vars => IInv'
<1> SUFFICES ASSUME IInv, [Next]_vars PROVE IInv'
  OBVIOUS
<1>1. CASE Next
  BY <1>1, OrderKeeps, EditLinesKeeps, BeginJobKeeps, BeginOfficeKeeps, ReadStockKeeps,
     WriteStockKeeps, CommitKeeps, CloseKeeps DEF Next
<1>2. CASE UNCHANGED vars
  <2>1. UNCHANGED <<phase, need, stock, moved, office, used, returned, jobs, tx, raced, edits, moves>>
    BY <1>2 DEF vars
  <2>2. TypeOK'
    BY <2>1 DEF IInv, TypeOK
  <2>3. OpenAreRight'
    BY <2>1 DEF IInv, OpenAreRight, Fits, Current, StillDue
  <2>4. SharedIsRaced' /\ BooksAreRight' /\ StockMatchesMovements'
    BY <2>1 DEF IInv, SharedIsRaced, BooksAreRight, StockMatchesMovements
  <2> QED  BY <2>2, <2>3, <2>4 DEF IInv
<1> QED  BY <1>1, <1>2

THEOREM Invariant == Spec => []IInv
<1> QED  BY InitIInv, StepKeeps, PTL DEF Spec

\* Stock, movements and cost lines stay what the model says: stock is never
\* below zero, and an order uses and gives back no negative amounts.
THEOREM LedgerTyped == Spec => []TypeOK
<1>1. IInv => TypeOK
  BY DEF IInv
<1> QED  BY <1>1, Invariant, PTL

\* The stock of an ingredient that no two open transactions have both been at
\* is the opening stock and its movements.
THEOREM StockIsItsMovements == Spec => []StockMatchesMovements
<1>1. IInv => StockMatchesMovements
  BY DEF IInv
<1> QED  BY <1>1, Invariant, PTL

\* An order gives back what it used, or nothing.
THEOREM UsedComesBack == Spec => []ReturnsWhatWasUsed
<1>1. IInv => ReturnsWhatWasUsed
  BY DEF IInv, BooksAreRight, ReturnsWhatWasUsed, hasReversedCogsForOrder
<1> QED  BY <1>1, Invariant, PTL

\* The checks at the head of the two jobs hold until they commit, so a job that
\* is run again, after a crash or beside others, moves nothing a second time.
THEOREM JobsMoveOnce == Spec => MovedOnce
<1> DEFINE A == \A o \in Orders \ raced' :
                  /\ used'[o] # used[o] => ~hasConsumedCogsForOrder(o)
                  /\ returned'[o] # returned[o] => ~hasReversedCogsForOrder(o)
<1>1. IInv /\ [Next]_vars => [A]_vars
  <2> SUFFICES ASSUME IInv, Next PROVE A
    OBVIOUS
  <2>1. CASE UNCHANGED <<used, returned>>
    BY <2>1
  <2>2. CASE \E s \in Slots : Commit(s)
    <3>1. PICK s \in Slots : Commit(s)
      BY <2>2
    <3>2. PICK t : t = tx[s]
      OBVIOUS
    <3>3. StillDue(t) /\ UNCHANGED raced
      BY <3>1, <3>2, CommitBooks
    <3> SUFFICES ASSUME NEW o \in Orders \ raced
                 PROVE  /\ used'[o] # used[o] => used[o] = Nothing
                        /\ returned'[o] # returned[o] => returned[o] = Nothing
      BY <3>3 DEF hasConsumedCogsForOrder, hasReversedCogsForOrder
    <3> QED  BY <3>1, <3>2, <3>3, CommitOrders DEF StillDue
  <2>3. Next => UNCHANGED <<used, returned>> \/ \E s \in Slots : Commit(s)
    BY DEF Next, EnterKitchen, VoidOrder, EditLines, BeginJob, BeginOffice, ReadStock, WriteStock,
           Fail, Die, tables
  <2> QED  BY <2>1, <2>2, <2>3
<1>2. MovedOnce <=> [][A]_vars
  BY DEF MovedOnce
<1> QED  BY <1>1, <1>2, Invariant, PTL DEF Spec

----------------------------------------------------------------------------
(* Refinement: every commit is one entry of the book.                      *)

\* What a commit leaves alone, and what the office enters with it.
LEMMA CommitEnters ==
  ASSUME IInv, NEW s \in Slots, NEW t, t = tx[s], Commit(s)
  PROVE  /\ t.kind # "consume" => used' = used
         /\ t.kind # "reverse" => returned' = returned
         /\ t.kind # "office" => office' = office
         /\ t.kind = "office" =>
              \A i \in Ingredients : office'[i] - office[i] = t.delta[i]
<1>1. /\ used' = IF t.kind = "consume" THEN [used EXCEPT ![t.order] = Add(@, t.delta, -1)] ELSE used
      /\ returned' = IF t.kind = "reverse"
                       THEN [returned EXCEPT ![t.order] = Add(@, t.delta, 1)] ELSE returned
      /\ office' = IF t.kind = "office" THEN Add(office, t.delta, 1) ELSE office
  BY DEF Commit, Book
<1>2. t.delta \in [Ingredients -> Int] /\ office \in [Ingredients -> Int]
  BY OpenIsTx DEF Commit, IInv, TypeOK
<1>3. ASSUME t.kind = "office", NEW i \in Ingredients
      PROVE  office'[i] - office[i] = t.delta[i]
  <2>1. office'[i] = office[i] + 1 * t.delta[i]
    BY <1>1, <1>3 DEF Add
  <2>2. office[i] \in Int /\ t.delta[i] \in Int
    BY <1>2
  <2> QED  BY <2>1, <2>2
<1> QED  BY <1>1, <1>3

LEMMA CommitInBook ==
  ASSUME IInv, NEW s \in Slots, Commit(s)
  PROVE  Entries!BookNext
<1>1. PICK t : t = tx[s]
  OBVIOUS
<1>2. /\ UNCHANGED <<need, raced, edits>>
      /\ t \in Tx /\ Fits(t) /\ StillDue(t)
      /\ \A i \in Ingredients : i \notin raced => stock'[i] = stock[i] + t.delta[i]
      /\ stock' \in [Ingredients -> Nat]
  BY <1>1, CommitBooks DEF Quantities
<1>3. t.delta \in [Ingredients -> Int] /\ t.kind \in {"consume", "reverse", "office"}
  BY <1>2 DEF Tx
<1>4. /\ used \in [Orders -> Quantities] /\ returned \in [Orders -> Quantities]
      /\ used' \in [Orders -> Quantities] /\ returned' \in [Orders -> Quantities]
  BY CommitTypes DEF IInv, TypeOK
<1>5. Entries!None = Nothing
  BY DEF Entries!None, Nothing
<1>6. ASSUME NEW amount, \A i \in Ingredients : amount[i] = t.delta[i]
      PROVE  Entries!Level(amount)
  BY <1>2, <1>6 DEF Entries!Level
<1>7. CASE t.kind = "consume"
  <2>1. PICK o \in Orders : o = t.order
    BY <1>2, <1>7 DEF Fits
  <2>2. /\ returned' = returned /\ office' = office
        /\ \A p \in Orders : p # o => used'[p] = used[p]
        /\ \A i \in Ingredients : used'[o][i] = used[o][i] - t.delta[i]
    BY <1>1, <1>7, <2>1, CommitEnters, CommitOrders
  <2>3. \A i \in Ingredients : Entries!Difference(used[o], used'[o])[i] = t.delta[i]
    <3> SUFFICES ASSUME NEW i \in Ingredients PROVE used[o][i] - used'[o][i] = t.delta[i]
      BY DEF Entries!Difference
    <3>1. used[o][i] \in Int /\ t.delta[i] \in Int
      BY <1>3, <1>4 DEF Quantities
    <3> QED  BY <2>2, <3>1
  <2>4. Entries!Level(Entries!Difference(used[o], used'[o]))
    BY <1>6, <2>3
  <2>5. o \notin raced => used[o] = Nothing
    BY <1>2, <1>7, <2>1 DEF StillDue
  <2>6. used' = [used EXCEPT ![o] = used'[o]]
    BY <1>4, <2>2
  <2>7. Entries!Take(o)
    BY <1>2, <1>5, <2>2, <2>4, <2>5, <2>6 DEF Entries!Take
  <2> QED  BY <2>7 DEF Entries!BookNext
<1>8. CASE t.kind = "reverse"
  <2>1. PICK o \in Orders : o = t.order
    BY <1>2, <1>8 DEF Fits
  <2>2. /\ used' = used /\ office' = office
        /\ \A p \in Orders : p # o => returned'[p] = returned[p]
        /\ \A i \in Ingredients : returned'[o][i] = returned[o][i] + t.delta[i]
    BY <1>1, <1>8, <2>1, CommitEnters, CommitOrders
  <2>3. \A i \in Ingredients : Entries!Difference(returned'[o], returned[o])[i] = t.delta[i]
    <3> SUFFICES ASSUME NEW i \in Ingredients PROVE returned'[o][i] - returned[o][i] = t.delta[i]
      BY DEF Entries!Difference
    <3>1. returned[o][i] \in Int /\ t.delta[i] \in Int
      BY <1>3, <1>4 DEF Quantities
    <3> QED  BY <2>2, <3>1
  <2>4. Entries!Level(Entries!Difference(returned'[o], returned[o]))
    BY <1>6, <2>3
  <2>5. ASSUME o \notin raced
        PROVE  used[o] # Nothing /\ returned[o] = Nothing /\ (~(edits > 0) => returned'[o] = used[o])
    <3>1. used[o] # Nothing /\ returned[o] = Nothing
      BY <1>2, <1>8, <2>1, <2>5 DEF StillDue
    <3>2. ASSUME edits = 0 PROVE returned'[o] = used[o]
      <4>1. used[o] = need[o]
        BY <2>5, <3>1, <3>2 DEF IInv, BooksAreRight
      <4>2. \A i \in Ingredients : t.delta[i] = need[o][i] /\ need[o][i] \in Nat
        BY <1>2, <1>8, <2>1, <2>5, <3>2, LedgerAssumption DEF StillDue, IInv, TypeOK
      <4>3. \A i \in Ingredients : returned'[o][i] = used[o][i]
        BY <2>2, <3>1, <4>1, <4>2 DEF Nothing
      <4>4. returned'[o] \in [Ingredients -> Nat] /\ used[o] \in [Ingredients -> Nat]
        BY <1>4 DEF Quantities
      <4> QED  BY <4>3, <4>4
    <3>3. edits \in Nat
      BY LedgerAssumption DEF IInv, TypeOK
    <3> QED  BY <3>1, <3>2, <3>3
  <2>6. returned' = [returned EXCEPT ![o] = returned'[o]]
    BY <1>4, <2>2
  <2>7. Entries!GiveBack(o)
    BY <1>2, <1>5, <2>2, <2>4, <2>5, <2>6 DEF Entries!GiveBack
  <2> QED  BY <2>7 DEF Entries!BookNext
<1>9. CASE t.kind = "office"
  <2>1. /\ used' = used /\ returned' = returned
        /\ \A i \in Ingredients : office'[i] - office[i] = t.delta[i]
    BY <1>1, <1>9, CommitEnters
  <2>2. Entries!Level(Entries!Difference(office', office))
    BY <1>6, <2>1 DEF Entries!Difference
  <2> QED  BY <1>2, <2>1, <2>2 DEF Entries!Enter, Entries!BookNext
<1> QED  BY <1>3, <1>7, <1>8, <1>9

LEMMA StepInBook ==
  ASSUME IInv, [Next]_vars
  PROVE  [Entries!BookNext]_(Entries!bookVars)
<1>1. raced' \subseteq Ingredients \cup Orders
  BY StepKeeps DEF IInv, TypeOK
<1>2. CASE UNCHANGED <<stock, used, returned, office, raced, edits>>
  BY <1>2 DEF Entries!bookVars
<1>3. CASE \E s \in Slots : Commit(s)
  BY <1>3, CommitInBook
<1>4. CASE \E o \in Orders, n \in Needs : EditLines(o, n)
  <2>1. UNCHANGED <<stock, used, returned, office, raced>> /\ edits' = edits + 1 /\ edits \in Nat
    BY <1>4, LedgerAssumption DEF EditLines, tables, IInv, TypeOK
  <2>2. (edits > 0)' = TRUE
    BY <2>1
  <2> QED  BY <2>1, <2>2 DEF Entries!Amend, Entries!BookNext
<1>5. ASSUME NEW s \in Slots, NEW kind, NEW o, NEW delta, Open(s, kind, o, delta),
             UNCHANGED <<tables, edits>>
      PROVE  [Entries!BookNext]_(Entries!bookVars)
  <2>1. raced \subseteq raced'
    BY <1>5 DEF Open
  <2>2. UNCHANGED <<stock, used, returned, office, edits>>
    BY <1>5 DEF tables
  <2> QED  BY <1>1, <2>1, <2>2 DEF Entries!Spoil, Entries!BookNext
<1>6. CASE \E s \in Slots, o \in Orders, kind \in {"consume", "reverse"} : BeginJob(s, kind, o)
  <2>1. PICK s \in Slots, o \in Orders, kind \in {"consume", "reverse"} : BeginJob(s, kind, o)
    BY <1>6
  <2>2. UNCHANGED <<tables, edits>>
    BY <2>1 DEF BeginJob
  <2>3. CASE \E delta : Open(s, kind, o, delta)
    BY <1>5, <2>2, <2>3
  <2>4. CASE UNCHANGED raced
    BY <1>2, <2>2, <2>4 DEF tables
  <2> QED  BY <2>1, <2>3, <2>4 DEF BeginJob
<1>7. CASE \E s \in Slots, i \in Ingredients, d \in {-1, 1} : BeginOffice(s, i, d)
  <2>1. PICK s \in Slots, i \in Ingredients, d \in {-1, 1} : BeginOffice(s, i, d)
    BY <1>7
  <2>2. Open(s, "office", NoOrder, [Nothing EXCEPT ![i] = d]) /\ UNCHANGED <<tables, edits>>
    BY <2>1 DEF BeginOffice
  <2> QED  BY <1>5, <2>2
<1>8. CASE \/ \E o \in Orders : EnterKitchen(o) \/ VoidOrder(o)
           \/ \E s \in Slots : \/ \E i \in Ingredients : ReadStock(s, i)
                               \/ WriteStock(s) \/ Fail(s) \/ Die(s)
  <2>1. UNCHANGED <<stock, used, returned, office, raced, edits>>
    BY <1>8 DEF EnterKitchen, VoidOrder, ReadStock, WriteStock, Fail, Die, tables
  <2> QED  BY <1>2, <2>1
<1>9. CASE UNCHANGED vars
  BY <1>2, <1>9 DEF vars
<1> QED  BY <1>3, <1>4, <1>6, <1>7, <1>8, <1>9 DEF Next

\* Serializability at READ COMMITTED: with any number of transactions open, and
\* jobs that fail, die and are run again, the tables change as those of a book
\* in which every movement is a single entry.
THEOREM TransactionsAreEntries == Spec => EntriesAreAtomic
<1>1. Init => Entries!BookInit
  BY LedgerAssumption DEF Init, Nothing, Entries!BookInit, Entries!None
<1>2. IInv /\ [Next]_vars => [Entries!BookNext]_(Entries!bookVars)
  BY StepInBook
<1> QED  BY <1>1, <1>2, Invariant, PTL DEF Spec, EntriesAreAtomic, Entries!BookSpec
===============================================================================
