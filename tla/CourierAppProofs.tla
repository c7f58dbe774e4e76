--------------------------- MODULE CourierAppProofs ---------------------------
(***************************************************************************)
(* Proofs about the couriers' lists of actions and the money at the door,  *)
(* for any number of couriers, orders, flushes, actions and faults.        *)
(***************************************************************************)
EXTENDS CourierApp, SequenceTheorems, FiniteSetTheorems, TLAPS

----------------------------------------------------------------------------
(* The inductive invariants.                                               *)

FlushStates == [running : BOOLEAN, todo : Seq(Actions), left : Seq(Actions)]

Typed ==
  /\ order \in [Orders -> Row]
  /\ money \in [Orders -> Nat]
  /\ call \in [Couriers -> [Orders -> SUBSET Kinds]]
  /\ pending \in [Couriers -> Seq(Actions)]
  /\ flush \in [Couriers -> [Flushes -> FlushStates]]
  /\ queued \subseteq 1..MaxQueued

\* Money was booked once for a completed payment at most, and else not at all.
BookedIsCompleted ==
  \A o \in Orders : money[o] <= 1 /\ (order[o].pay # "completed" => money[o] = 0)

Ids(s) == {a.id : a \in ToSet(s)}

\* The action is on a list, and no flush of that list will leave it out.
Held(id) ==
  \E c \in Couriers :
    /\ id \in Ids(pending[c])
    /\ \A f \in Flushes :
         flush[c][f].running => id \in Ids(flush[c][f].todo) \cup Ids(flush[c][f].left)

OpenIsHeld == raced = {} => \A id \in queued \ accepted : Held(id)

IInv == Typed /\ BookedIsCompleted /\ OpenIsHeld

----------------------------------------------------------------------------
(* Lists of actions.                                                       *)

LEMMA IdsEmpty == Ids(<<>>) = {}
BY DEF Ids, ToSet

LEMMA IdsAppend ==
  ASSUME NEW s \in Seq(Actions), NEW a \in Actions
  PROVE  Append(s, a) \in Seq(Actions) /\ Ids(Append(s, a)) = Ids(s) \cup {a.id}
<1>1. /\ Append(s, a) \in Seq(Actions) /\ Len(Append(s, a)) = Len(s) + 1
      /\ \A i \in 1..Len(s) : Append(s, a)[i] = s[i]
      /\ Append(s, a)[Len(s) + 1] = a
  BY AppendProperties
<1>2. Len(s) \in Nat /\ DOMAIN s = 1..Len(s) /\ DOMAIN Append(s, a) = 1..Len(s) + 1
  BY <1>1, LenProperties
<1>3. ToSet(Append(s, a)) = ToSet(s) \cup {a}
  BY <1>1, <1>2 DEF ToSet
<1> QED  BY <1>1, <1>3 DEF Ids

LEMMA IdsTail ==
  ASSUME NEW s \in Seq(Actions), s # <<>>
  PROVE  /\ Head(s) \in Actions /\ Tail(s) \in Seq(Actions)
         /\ Ids(s) \subseteq Ids(Tail(s)) \cup {Head(s).id}
<1>1. /\ Head(s) \in Actions /\ Tail(s) \in Seq(Actions) /\ Head(s) = s[1]
      /\ Len(Tail(s)) = Len(s) - 1 /\ \A i \in 1..Len(Tail(s)) : Tail(s)[i] = s[i + 1]
  BY HeadTailProperties
<1>2. Len(s) \in Nat /\ DOMAIN s = 1..Len(s) /\ DOMAIN Tail(s) = 1..Len(s) - 1
  BY <1>1, LenProperties
<1>3. \A i \in 1..Len(s) : i = 1 \/ (i - 1 \in 1..Len(s) - 1 /\ Tail(s)[i - 1] = s[i])
  BY <1>1, <1>2
<1>4. ToSet(s) \subseteq ToSet(Tail(s)) \cup {Head(s)}
  <2> SUFFICES ASSUME NEW i \in 1..Len(s)
               PROVE  s[i] = Head(s) \/ \E j \in 1..Len(s) - 1 : Tail(s)[j] = s[i]
    BY <1>2 DEF ToSet
  <2> QED  BY <1>1, <1>3
<1> QED  BY <1>1, <1>4 DEF Ids

----------------------------------------------------------------------------
(* The rows and the money.                                                 *)

LEMMA RowAfterKeeps ==
  ASSUME NEW r \in Row, NEW kind \in Kinds, NEW c \in Couriers
  PROVE  /\ RowAfter(r, kind, c) \in Row
         /\ RowAfter(r, kind, c).pay # "completed" => r.pay # "completed" /\ ~Books(r, kind)
<1>1. CASE kind = "assign"
  BY <1>1 DEF RowAfter, Row, OrderStatus, Books, Collects
<1>2. CASE kind = "delivered"
  BY <1>2 DEF RowAfter, Row, OrderStatus, Books, Collects
<1>3. CASE kind = "handover"
  BY <1>3 DEF RowAfter, Row, OrderStatus, Books, Collects
<1>4. CASE kind = "delivery_attempt"
  BY <1>4 DEF RowAfter, Row, Books, Collects
<1>5. CASE Collects(kind)
  BY <1>5 DEF RowAfter, Row, PaymentStatus, PaymentMethod, Books, Collects
<1> QED  BY <1>1, <1>2, <1>3, <1>4, <1>5 DEF Kinds, Collects

LEMMA ServeKeeps ==
  ASSUME Typed, BookedIsCompleted,
         NEW c \in Couriers, NEW o \in Orders, NEW kind \in Kinds,
         Serve(c, o, kind) \/ Unserved
  PROVE  order' \in [Orders -> Row] /\ money' \in [Orders -> Nat] /\ BookedIsCompleted'
<1>1. CASE Serve(c, o, kind)
  <2>1. order[o] \in Row
    BY DEF Typed
  <2>2. /\ order' \in [Orders -> Row] /\ order'[o] = RowAfter(order[o], kind, c)
        /\ \A p \in Orders : p # o => order'[p] = order[p]
    BY <1>1, <2>1, RowAfterKeeps DEF Serve, Typed
  <2>3. /\ money' \in [Orders -> Nat]
        /\ money'[o] = IF Books(order[o], kind) THEN money[o] + 1 ELSE money[o]
        /\ \A p \in Orders : p # o => money'[p] = money[p]
    BY <1>1 DEF Serve, Typed
  <2>4. Books(order[o], kind) => order[o].pay # "completed"
    BY DEF Books
  <2>5. money[o] \in Nat /\ money[o] <= 1 /\ (order[o].pay # "completed" => money[o] = 0)
    BY DEF Typed, BookedIsCompleted
  <2>6. order'[o].pay # "completed" => order[o].pay # "completed" /\ ~Books(order[o], kind)
    BY <2>1, <2>2, RowAfterKeeps
  <2>7. money'[o] <= 1 /\ (order'[o].pay # "completed" => money'[o] = 0)
    BY <2>3, <2>4, <2>5, <2>6
  <2> QED  BY <2>2, <2>3, <2>7 DEF BookedIsCompleted
<1>2. CASE Unserved
  BY <1>2 DEF Unserved, Typed, BookedIsCompleted
<1> QED  BY <1>1, <1>2

LEMMA OfficeKeeps ==
  ASSUME IInv, NEW o \in Orders, Office(o)
  PROVE  IInv'
<1>1. UNCHANGED <<money, transit, call, pending, flush, queued, accepted, raced, faults>>
  BY DEF Office
<1>2. PICK row \in Row : row.pay = order[o].pay /\ order' = [order EXCEPT ![o] = row]
  <2>1. order[o] \in Row
    BY DEF IInv, Typed
  <2>2. CASE order' = [order EXCEPT ![o].status = "cancelled"]
    <3>1. [order[o] EXCEPT !.status = "cancelled"] \in Row
      BY <2>1 DEF Row, OrderStatus
    <3> QED  BY <2>1, <2>2, <3>1 DEF Row
  <2>3. CASE \E c \in Couriers : order' = [order EXCEPT ![o].courier = c]
    <3>1. PICK c \in Couriers : order' = [order EXCEPT ![o].courier = c]
      BY <2>3
    <3>2. [order[o] EXCEPT !.courier = c] \in Row
      BY <2>1 DEF Row
    <3> QED  BY <2>1, <3>1, <3>2 DEF Row
  <2> QED  BY <2>2, <2>3 DEF Office
<1>3. Typed' /\ BookedIsCompleted'
  BY <1>1, <1>2 DEF IInv, Typed, BookedIsCompleted
<1>4. OpenIsHeld'
  BY <1>1 DEF IInv, OpenIsHeld, Held
<1> QED  BY <1>3, <1>4 DEF IInv

----------------------------------------------------------------------------
(* The screen.                                                             *)

LEMMA FetchKeeps ==
  ASSUME IInv, NEW c \in Couriers, Fetch(c)
  PROVE  IInv'
<1>1. UNCHANGED <<order, money, call, pending, flush, queued, accepted, raced>>
  BY DEF Fetch
<1> QED  BY <1>1 DEF IInv, Typed, BookedIsCompleted, OpenIsHeld, Held

LEMMA PressKeeps ==
  ASSUME IInv, NEW c \in Couriers, NEW o \in Orders, NEW kind \in Kinds,
         Press(c, o, kind) \/ PressOffline(c, o, kind)
  PROVE  IInv'
<1>1. UNCHANGED <<pending, flush, queued, accepted, raced>> /\ (Serve(c, o, kind) \/ Unserved)
  BY DEF Press, PressOffline
<1>2. order' \in [Orders -> Row] /\ money' \in [Orders -> Nat] /\ BookedIsCompleted'
  BY <1>1, ServeKeeps DEF IInv
<1>3. call' \in [Couriers -> [Orders -> SUBSET Kinds]]
  <2>1. call' = call \/ call' = [call EXCEPT ![c][o] = @ \cup {kind}]
    BY DEF Press, PressOffline
  <2>2. call \in [Couriers -> [Orders -> SUBSET Kinds]]
    BY DEF IInv, Typed
  <2>3. CASE call' = [call EXCEPT ![c][o] = @ \cup {kind}]
    BY <2>2, <2>3
  <2> QED  BY <2>1, <2>2, <2>3
<1>4. Typed'
  BY <1>1, <1>2, <1>3 DEF IInv, Typed
<1>5. OpenIsHeld'
  BY <1>1 DEF IInv, OpenIsHeld, Held
<1> QED  BY <1>2, <1>4, <1>5 DEF IInv

LEMMA NoticeOfflineKeeps ==
  ASSUME IInv, NEW c \in Couriers, NEW o \in Orders, NEW kind \in Kinds,
         NoticeOffline(c, o, kind)
  PROVE  IInv'
<1>1. UNCHANGED <<order, money, flush, accepted>>
  BY DEF NoticeOffline
<1>2. call' \in [Couriers -> [Orders -> SUBSET Kinds]]
  BY DEF NoticeOffline, IInv, Typed
<1>3. CASE UNCHANGED <<pending, queued, raced>>
  BY <1>1, <1>2, <1>3 DEF IInv, Typed, BookedIsCompleted, OpenIsHeld, Held
<1>4. CASE /\ NextId <= MaxQueued
           /\ pending' = [pending EXCEPT ![c] =
                Append(@, [id |-> NextId, kind |-> kind, order |-> o])]
           /\ queued' = queued \cup {NextId}
           /\ raced' = IF Flushing(c) THEN raced \cup {c} ELSE raced
  <2>1. NextId \in 1..MaxQueued
    <3>1. IsFiniteSet(queued)
      <4>1. MaxQueued \in Int
        BY AppAssumption
      <4>2. IsFiniteSet(1..MaxQueued)
        BY <4>1, FS_Interval
      <4>3. queued \subseteq 1..MaxQueued
        BY DEF IInv, Typed
      <4> QED  BY <4>2, <4>3, FS_Subset
    <3>2. Cardinality(queued) \in Nat
      BY <3>1, FS_CardinalityType
    <3> QED  BY <1>4, <3>2, AppAssumption DEF NextId
  <2>3. PICK a \in Actions : a.id = NextId /\ a = [id |-> NextId, kind |-> kind, order |-> o]
    BY <2>1 DEF Actions
  <2>4. pending[c] \in Seq(Actions)
    BY DEF IInv, Typed
  <2>5. Append(pending[c], a) \in Seq(Actions) /\ Ids(Append(pending[c], a)) = Ids(pending[c]) \cup {NextId}
    BY <2>3, <2>4, IdsAppend
  <2>6. /\ pending' \in [Couriers -> Seq(Actions)]
        /\ Ids(pending'[c]) = Ids(pending[c]) \cup {NextId}
        /\ \A d \in Couriers : d # c => pending'[d] = pending[d]
    BY <1>4, <2>3, <2>5 DEF IInv, Typed
  <2>7. Typed'
    BY <1>1, <1>2, <1>4, <2>1, <2>6 DEF IInv, Typed
  <2>8. BookedIsCompleted'
    BY <1>1 DEF IInv, BookedIsCompleted
  <2>9. OpenIsHeld'
    <3> SUFFICES ASSUME raced' = {}, NEW id \in queued' \ accepted PROVE Held(id)'
      BY <1>1 DEF OpenIsHeld
    <3>1. raced = {} /\ ~Flushing(c)
      BY <1>4
    <3>2. CASE id = NextId
      BY <1>1, <2>6, <3>1, <3>2 DEF Held, Flushing
    <3>3. CASE id # NextId
      <4>1. Held(id)
        BY <1>4, <3>1, <3>3 DEF IInv, OpenIsHeld
      <4> QED  BY <1>1, <2>6, <4>1 DEF Held
    <3> QED  BY <3>2, <3>3
  <2> QED  BY <2>7, <2>8, <2>9 DEF IInv
<1> QED  BY <1>3, <1>4 DEF NoticeOffline

----------------------------------------------------------------------------
(* Flushes.                                                                *)

LEMMA StartFlushKeeps ==
  ASSUME IInv, NEW c \in Couriers, NEW f \in Flushes, StartFlush(c, f)
  PROVE  IInv'
<1>1. UNCHANGED <<order, money, call, pending, queued, accepted, raced>>
  BY DEF StartFlush
<1> DEFINE x == [running |-> TRUE, todo |-> pending[c], left |-> <<>>]
<1>2. x \in FlushStates /\ x.todo = pending[c]
  BY EmptySeq DEF IInv, Typed, FlushStates
<1>3. /\ flush' \in [Couriers -> [Flushes -> FlushStates]] /\ flush'[c][f] = x
      /\ \A d \in Couriers, g \in Flushes : d # c \/ g # f => flush'[d][g] = flush[d][g]
  BY <1>2 DEF StartFlush, IInv, Typed
<1>4. Typed' /\ BookedIsCompleted'
  BY <1>1, <1>3 DEF IInv, Typed, BookedIsCompleted
<1>5. OpenIsHeld'
  BY <1>1, <1>2, <1>3 DEF IInv, OpenIsHeld, Held
<1> QED  BY <1>4, <1>5 DEF IInv

LEMMA SendNextKeeps ==
  ASSUME IInv, NEW c \in Couriers, NEW f \in Flushes, SendNext(c, f)
  PROVE  IInv'
<1> DEFINE s == flush[c][f]  a == Head(s.todo)
<1>1. UNCHANGED <<call, pending, queued, raced>> /\ s.todo # <<>>
  BY DEF SendNext
<1>2. s \in FlushStates /\ s.todo \in Seq(Actions) /\ s.left \in Seq(Actions)
  BY DEF IInv, Typed, FlushStates
<1>3. a \in Actions /\ Tail(s.todo) \in Seq(Actions) /\ Ids(s.todo) \subseteq Ids(Tail(s.todo)) \cup {a.id}
  BY <1>1, <1>2, IdsTail
<1>4. a.order \in Orders /\ a.kind \in Kinds
  BY <1>3 DEF Actions
<1>5. PICK result \in {"ok", "refused", "offline"} :
        /\ flush' = [flush EXCEPT ![c][f] =
             [running |-> s.running, todo |-> Tail(s.todo),
              left |-> IF KeptAfter(result) THEN Append(s.left, a) ELSE s.left]]
        /\ Serve(c, a.order, a.kind) \/ Unserved
        /\ accepted' \in {accepted, accepted \cup {a.id}}
        /\ result = "ok" => accepted' = accepted \cup {a.id}
  BY DEF SendNext
<1> DEFINE left == IF KeptAfter(result) THEN Append(s.left, a) ELSE s.left
           x == [running |-> s.running, todo |-> Tail(s.todo), left |-> left]
<1>6. left \in Seq(Actions) /\ Ids(s.left) \subseteq Ids(left) /\ (a.id \in Ids(left) \/ a.id \in accepted')
  <2>1. CASE result = "ok"
    BY <1>2, <1>5, <2>1 DEF KeptAfter
  <2>2. CASE result # "ok"
    BY <1>2, <1>3, <2>2, IdsAppend DEF KeptAfter
  <2> QED  BY <2>1, <2>2
<1>7. x \in FlushStates
  BY <1>2, <1>3, <1>6 DEF FlushStates
<1>8. flush' = [flush EXCEPT ![c][f] = x]
  BY <1>5
<1>9. /\ flush' \in [Couriers -> [Flushes -> FlushStates]] /\ flush'[c][f] = x
      /\ \A d \in Couriers, g \in Flushes : d # c \/ g # f => flush'[d][g] = flush[d][g]
  BY <1>7, <1>8 DEF IInv, Typed
<1>10. order' \in [Orders -> Row] /\ money' \in [Orders -> Nat] /\ BookedIsCompleted'
  BY <1>4, <1>5, ServeKeeps DEF IInv
<1>11. Typed'
  BY <1>1, <1>9, <1>10 DEF IInv, Typed
<1>12. OpenIsHeld'
  <2> SUFFICES ASSUME raced = {}, NEW id \in queued \ accepted' PROVE Held(id)'
    BY <1>1 DEF OpenIsHeld
  <2>1. id \in queued \ accepted
    BY <1>5
  <2>2. PICK d \in Couriers :
          /\ id \in Ids(pending[d])
          /\ \A g \in Flushes :
               flush[d][g].running => id \in Ids(flush[d][g].todo) \cup Ids(flush[d][g].left)
    BY <2>1 DEF IInv, OpenIsHeld, Held
  <2>3. id \in Ids(s.todo) \cup Ids(s.left) => id \in Ids(Tail(s.todo)) \cup Ids(left)
    BY <1>3, <1>6
  <2> HIDE DEF s, a, left
  <2>4. ASSUME NEW g \in Flushes, flush'[d][g].running
        PROVE  id \in Ids(flush'[d][g].todo) \cup Ids(flush'[d][g].left)
    <3>1. CASE d = c /\ g = f
      <4>1. flush'[d][g] = x /\ flush[d][g] = flush[c][f]
        BY <1>9, <3>1
      <4>2. flush[c][f].running
        BY <2>4, <4>1 DEF s
      <4>3. id \in Ids(flush[c][f].todo) \cup Ids(flush[c][f].left)
        BY <2>2, <3>1, <4>2
      <4> QED  BY <2>3, <4>1, <4>3 DEF s
    <3>2. CASE d # c \/ g # f
      BY <1>9, <2>2, <2>4, <3>2
    <3> QED  BY <3>1, <3>2
  <2> QED  BY <1>1, <2>2, <2>4 DEF Held
<1> QED  BY <1>10, <1>11, <1>12 DEF IInv

LEMMA EndFlushKeeps ==
  ASSUME IInv, NEW c \in Couriers, NEW f \in Flushes, EndFlush(c, f)
  PROVE  IInv'
<1>1. /\ UNCHANGED <<order, money, call, queued, accepted, raced>>
      /\ flush[c][f].running /\ flush[c][f].todo = <<>>
  BY DEF EndFlush
<1>2. AtRest \in FlushStates /\ ~AtRest.running
  BY EmptySeq DEF AtRest, FlushStates
<1>3. /\ flush' \in [Couriers -> [Flushes -> FlushStates]] /\ flush'[c][f] = AtRest
      /\ \A d \in Couriers, g \in Flushes : d # c \/ g # f => flush'[d][g] = flush[d][g]
  BY <1>2 DEF EndFlush, IInv, Typed
<1>4. /\ pending' \in [Couriers -> Seq(Actions)] /\ pending'[c] = flush[c][f].left
      /\ \A d \in Couriers : d # c => pending'[d] = pending[d]
  <2>1. flush[c][f] \in FlushStates
    BY DEF IInv, Typed
  <2>2. flush[c][f].left \in Seq(Actions)
    BY <2>1 DEF FlushStates
  <2> QED  BY <2>2 DEF EndFlush, IInv, Typed
<1>5. Typed' /\ BookedIsCompleted'
  BY <1>1, <1>3, <1>4 DEF IInv, Typed, BookedIsCompleted
<1>6. OpenIsHeld'
  <2> SUFFICES ASSUME raced = {}, NEW id \in queued \ accepted PROVE Held(id)'
    BY <1>1 DEF OpenIsHeld
  <2>1. PICK d \in Couriers :
          /\ id \in Ids(pending[d])
          /\ \A g \in Flushes :
               flush[d][g].running => id \in Ids(flush[d][g].todo) \cup Ids(flush[d][g].left)
    BY DEF IInv, OpenIsHeld, Held
  <2>2. id \in Ids(pending'[d])
    BY <1>1, <1>4, <2>1, IdsEmpty
  <2>3. ASSUME NEW g \in Flushes, flush'[d][g].running
        PROVE  id \in Ids(flush'[d][g].todo) \cup Ids(flush'[d][g].left)
    BY <1>2, <1>3, <2>1, <2>3
  <2> QED  BY <2>2, <2>3 DEF Held
<1> QED  BY <1>5, <1>6 DEF IInv

LEMMA ReloadKeeps ==
  ASSUME IInv, NEW c \in Couriers, Reload(c)
  PROVE  IInv'
<1>1. UNCHANGED <<order, money, pending, queued, accepted, raced>>
  BY DEF Reload
<1>2. AtRest \in FlushStates /\ ~AtRest.running
  BY EmptySeq DEF AtRest, FlushStates
<1>3. /\ flush' \in [Couriers -> [Flushes -> FlushStates]]
      /\ \A d \in Couriers, g \in Flushes : flush'[d][g] \in {flush[d][g], AtRest}
  BY <1>2 DEF Reload, IInv, Typed
<1>4. call' \in [Couriers -> [Orders -> SUBSET Kinds]]
  BY DEF Reload, IInv, Typed
<1>5. Typed' /\ BookedIsCompleted'
  BY <1>1, <1>3, <1>4 DEF IInv, Typed, BookedIsCompleted
<1>6. OpenIsHeld'
  <2> SUFFICES ASSUME raced = {}, NEW id \in queued \ accepted PROVE Held(id)'
    BY <1>1 DEF OpenIsHeld
  <2>1. PICK d \in Couriers :
          /\ id \in Ids(pending[d])
          /\ \A g \in Flushes :
               flush[d][g].running => id \in Ids(flush[d][g].todo) \cup Ids(flush[d][g].left)
    BY DEF IInv, OpenIsHeld, Held
  <2>2. ASSUME NEW g \in Flushes, flush'[d][g].running
        PROVE  id \in Ids(flush'[d][g].todo) \cup Ids(flush'[d][g].left)
    BY <1>2, <1>3, <2>1, <2>2
  <2> QED  BY <1>1, <2>1, <2>2 DEF Held
<1> QED  BY <1>5, <1>6 DEF IInv

----------------------------------------------------------------------------
(* The theorems.                                                           *)

LEMMA InitIInv == Init => IInv
<1> SUFFICES ASSUME Init PROVE IInv
  OBVIOUS
<1>1. Typed
  <2>1. \A o \in Orders : Ready(o) \in Row
    BY DEF Ready, Row, OrderStatus, PaymentStatus, PaymentMethod, FulfillmentType
  <2>2. AtRest \in FlushStates /\ <<>> \in Seq(Actions)
    BY EmptySeq DEF AtRest, FlushStates
  <2> QED  BY <2>1, <2>2 DEF Init, Typed
<1>2. BookedIsCompleted /\ OpenIsHeld
  BY DEF Init, BookedIsCompleted, OpenIsHeld
<1> QED  BY <1>1, <1>2 DEF IInv

THEOREM Invariant == Spec => []IInv
<1>1. IInv /\ [Next]_vars => IInv'
  <2> SUFFICES ASSUME IInv, [Next]_vars PROVE IInv'
    OBVIOUS
  <2>1. ASSUME NEW c \in Couriers, App(c) PROVE IInv'
    BY <2>1, FetchKeeps, ReloadKeeps, NoticeOfflineKeeps, PressKeeps, StartFlushKeeps,
       SendNextKeeps, EndFlushKeeps DEF App
  <2>2. ASSUME NEW o \in Orders, Office(o) PROVE IInv'
    BY <2>2, OfficeKeeps
  <2>3. CASE UNCHANGED vars
    BY <2>3 DEF vars, IInv, Typed, BookedIsCompleted, OpenIsHeld, Held
  <2> QED  BY <2>1, <2>2, <2>3 DEF Next
<1> QED  BY <1>1, InitIInv, PTL DEF Spec

\* However often markPaymentReceived is called for an order, by whom and in
\* what order, it books the money once.
THEOREM MoneyBookedOnce == Spec => []BookedOnce
<1>1. IInv => BookedOnce
  BY DEF IInv, BookedIsCompleted, BookedOnce
<1> QED  BY <1>1, Invariant, PTL

\* An action stays on its list through flushes and page loads until it is
\* accepted, unless one was queued during a flush.
THEOREM QueuedActionIsKept == Spec => []QueuedIsKept
<1>1. IInv => QueuedIsKept
  BY DEF IInv, OpenIsHeld, Held, QueuedIsKept, Kept, IdsOf, Ids
<1> QED  BY <1>1, Invariant, PTL
===============================================================================
