--------------------------- MODULE CashierSyncProofs ---------------------------
(***************************************************************************)
(* Proofs about the till and the creation of its orders, for any number of *)
(* keys, tabs, tills, requests and faults: an elevation covers one order,  *)
(* no order is lost without a word, the word is true, and a guest who gave *)
(* a phone number has a cart once.                                         *)
(***************************************************************************)
EXTENDS CashierSync, WellFoundedInduction, TLAPS

----------------------------------------------------------------------------
(* The inductive invariant.                                                *)

Placed(k) == payload[k].cart # None
Token(k) == payload[k].token

\* Every row, every key on its way and every order was placed at a till.
KeysWerePlaced ==
  /\ \A k \in queue \cup orders : Placed(k)
  /\ \A t \in Tabs : \A k \in tab[t].todo : Placed(k)
  /\ \A r \in Slots : req[r] # Idle => Placed(req[r].key)
  /\ \A k \in Keys : told[k] # {} => Placed(k)

\* A till holds, and sends, only what a supervisor issued; what an order was
\* placed with is consumed.
TokensWereIssued ==
  /\ \A t \in Tabs : tab[t].held # None => elevation[tab[t].held] # "unissued"
  /\ \A k \in Keys : Token(k) # None => elevation[Token(k)] # "unissued"
  /\ \A k \in orders : Token(k) # None => elevation[Token(k)] = "consumed"

\* An order under this key can never be written any more.
Dead(k) ==
  \/ payload[k].cart \in offMenu
  \/ Token(k) # None /\ elevation[Token(k)] \in {"expired", "consumed"}

\* What a word says of its key.
TrueOf(k, word) ==
  /\ word = "synced" => k \in orders
  /\ word = "duplicate" => \E o \in orders : payload[o].cart = payload[k].cart
  /\ word = "dropped" /\ ~overlap => k \notin orders /\ Dead(k)

Words == {"synced", "duplicate", "dropped"}

\* An answer that will be told with that word.
Means(a, word) ==
  \/ a = "ok" /\ word = "synced"
  \/ a = "duplicate" /\ word = "duplicate"
  \/ a = "final" /\ word = "dropped"

\* What an answer says of its key holds while it is on its way.
AnswersAreTrue ==
  \A r \in Slots : req[r].at = "answered" =>
    \A word \in Words : Means(req[r].answer, word) => TrueOf(req[r].key, word)

\* What is dropped stays dead: its row may still be posted by another tab.
DroppedIsDead ==
  ~overlap => \A k \in Keys : "dropped" \in told[k] => Dead(k)

\* One request at a time: past its lookup it has no order, past its search no twin.
AloneUntilCommit ==
  ~overlap =>
    /\ \A r, s \in Open : r = s
    /\ \A r \in Open :
         /\ req[r].at # "lookup" => req[r].key \notin orders
         /\ req[r].at = "commit" => Twins(req[r].key) = {}

IInv ==
  /\ TypeOK
  /\ KeysWerePlaced
  /\ TokensWereIssued
  /\ AnswersAreTrue
  /\ DroppedIsDead
  /\ AloneUntilCommit
  /\ ElevationUsedOnce
  /\ NoSilentLoss
  /\ ToldTheTruth
  /\ PhonedCartOnce

----------------------------------------------------------------------------
(* The first of a set of keys.                                             *)

LEMMA FirstIsLeast ==
  ASSUME NEW S \in SUBSET Keys, S # {}
  PROVE  First(S) \in S
<1>1. S \subseteq Nat
  BY CreationAssumption
<1>2. \E k \in S : \A j \in S : ~(<<j, k>> \in OpToRel(<, Nat))
  BY <1>1, NatLessThanWellFounded, WFMin
<1>3. \E k \in S : \A j \in S : ~(j < k)
  BY <1>1, <1>2 DEF OpToRel
<1>4. \E k \in S : \A j \in S : k <= j
  BY <1>1, <1>3
<1> QED  BY <1>4 DEF First

----------------------------------------------------------------------------
(* What a request in hand is made of.                                      *)

LEMMA RequestShape ==
  ASSUME ServerTypeOK, NEW r \in Slots, req[r] # Idle
  PROVE  /\ req[r].key \in Keys
         /\ req[r].tab \in Tabs \cup {None}
         /\ req[r].at \in {"lookup", "policy", "search", "commit", "answered"}
         /\ req[r].at = "answered" => req[r].tab \in Tabs /\ req[r].answer \in Answers
BY DEF ServerTypeOK, Request

LEMMA AtTellsIdle ==
  ASSUME ServerTypeOK, NEW r \in Slots
  PROVE  req[r] = Idle <=> req[r].at = "idle"
BY DEF ServerTypeOK, Request, Idle

\* The answer of slot r, and nothing else about the requests.
LEMMA ReplyMoves ==
  ASSUME ServerTypeOK, NEW r \in Slots, req[r] # Idle, NEW a \in Answers, Reply(r, a)
  PROVE  /\ req' \in [Slots -> Request]
         /\ \A s \in Slots : s # r => req'[s] = req[s]
         /\ \/ req'[r] = Idle /\ req'[r].at = "idle"
            \/ req'[r].at = "answered" /\ req'[r].key = req[r].key /\ req'[r].answer = a
<1>1. CASE req[r].tab = None
  BY <1>1 DEF Reply, ServerTypeOK, Request, Idle
<1>2. CASE req[r].tab # None
  <2>1. req[r].tab \in Tabs /\ req[r].key \in Keys
    BY <1>2, RequestShape
  <2>2. req' = [req EXCEPT ![r] = [at |-> "answered", key |-> req[r].key, tab |-> req[r].tab, answer |-> a]]
    BY <1>2 DEF Reply
  <2>3. [at |-> "answered", key |-> req[r].key, tab |-> req[r].tab, answer |-> a] \in Request
    BY <2>1 DEF Request
  <2> QED  BY <2>2, <2>3 DEF ServerTypeOK
<1> QED  BY <1>1, <1>2

\* The next step of slot r.
LEMMA ProceedMoves ==
  ASSUME ServerTypeOK, NEW r \in Slots, r \in Open, NEW step \in {"policy", "search", "commit"},
         Proceed(r, step)
  PROVE  /\ req' \in [Slots -> Request]
         /\ \A s \in Slots : s # r => req'[s] = req[s]
         /\ req'[r].at = step /\ req'[r].key = req[r].key
<1>1. req[r] \in [at : {"lookup", "policy", "search", "commit"}, key : Keys, tab : Tabs \cup {None}]
  BY DEF Open, ServerTypeOK, Request
<1>2. [req[r] EXCEPT !.at = step]
        \in [at : {"lookup", "policy", "search", "commit"}, key : Keys, tab : Tabs \cup {None}]
  BY <1>1
<1>3. req' = [req EXCEPT ![r] = [req[r] EXCEPT !.at = step]]
  BY DEF Proceed
<1> QED  BY <1>1, <1>2, <1>3 DEF ServerTypeOK, Request
----------------------------------------------------------------------------
(* Steps that leave the tables alone.                                      *)

tables == <<payload, orders, recent, elevation, offMenu, overlap>>

\* What the tabs do: requests may be forgotten, rows may go with a true word.
LEMMA DeviceMoves ==
  ASSUME IInv, TypeOK', UNCHANGED tables,
         \A r \in Slots : \/ req'[r] = Idle
                          \/ /\ req'[r] # Idle /\ req[r] # Idle
                             /\ req'[r].at = req[r].at /\ req'[r].key = req[r].key
                             /\ req[r].at = "answered" => req'[r].answer = req[r].answer,
         queue' \subseteq queue,
         \A t \in Tabs : /\ tab'[t].todo \subseteq tab[t].todo \cup queue
                         /\ tab'[t].held \in {tab[t].held, None},
         \A k \in Keys : /\ told[k] \subseteq told'[k] /\ (told'[k] # told[k] => Placed(k))
                         /\ k \in queue \ queue' => told'[k] # {}
                         /\ \A word \in told'[k] \ told[k] : word = "cleared" \/ TrueOf(k, word)
  PROVE  IInv'
<1>1. KeysWerePlaced'
  BY DEF IInv, KeysWerePlaced, Placed, tables
<1>2. TokensWereIssued'
  BY DEF IInv, TokensWereIssued, Token, tables
<1>3. \A k \in Keys : Dead(k)' <=> Dead(k)
  BY DEF Dead, Token, tables
<1>4. AnswersAreTrue'
  <2> SUFFICES ASSUME NEW r \in Slots, req'[r].at = "answered", NEW word \in Words,
                      Means(req[r].answer, word)'
               PROVE  TrueOf(req[r].key, word)'
    BY DEF AnswersAreTrue
  <2>1. req'[r] # Idle
    BY DEF Idle
  <2>2. req[r] # Idle /\ req[r].at = "answered" /\ req'[r].key = req[r].key /\ req'[r].answer = req[r].answer
    BY <2>1
  <2>3. TrueOf(req[r].key, word)
    BY <2>2 DEF IInv, AnswersAreTrue, Means
  <2> QED  BY <2>2, <2>3 DEF TrueOf, Dead, Token, tables
<1>5. DroppedIsDead'
  BY <1>3 DEF IInv, DroppedIsDead, TrueOf, tables
<1>6. AloneUntilCommit'
  <2>1. \A r \in Open' : r \in Open /\ req'[r].at = req[r].at /\ req'[r].key = req[r].key
    BY DEF Open, Idle
  <2> QED  BY <2>1 DEF IInv, AloneUntilCommit, Twins, tables
<1>7. ElevationUsedOnce' /\ PhonedCartOnce'
  BY DEF IInv, ElevationUsedOnce, PhonedCartOnce, tables
<1>8. NoSilentLoss'
  BY DEF IInv, NoSilentLoss, tables
<1>9. ToldTheTruth'
  BY DEF IInv, ToldTheTruth, TrueOf, tables
<1> QED  BY <1>1, <1>2, <1>4, <1>5, <1>6, <1>7, <1>8, <1>9 DEF IInv

\* What a request does short of writing an order.
LEMMA RequestMoves ==
  ASSUME IInv, NEW r \in Slots, r \in Open, req' \in [Slots -> Request],
         \A s \in Slots : s # r => req'[s] = req[s],
         UNCHANGED tables, UNCHANGED <<closed, queue, online, tab, told, entered>>,
         events' \in 0..MaxEvents,
         \/ req'[r] = Idle
         \/ /\ req'[r].at = "answered" /\ req'[r].key = req[r].key
            /\ \A word \in Words : Means(req'[r].answer, word) => TrueOf(req[r].key, word)
         \/ /\ req'[r].at \in {"policy", "search", "commit"} /\ req'[r].key = req[r].key
            /\ ~overlap => req[r].key \notin orders
            /\ ~overlap /\ req'[r].at = "commit" => Twins(req[r].key) = {}
  PROVE  IInv'
<1>1. TypeOK'
  BY DEF IInv, TypeOK, ServerTypeOK, DeviceTypeOK, tables, device
<1>2. req[r] # Idle /\ req[r].key \in Keys
  BY RequestShape DEF IInv, TypeOK, Open
<1>3. KeysWerePlaced'
  BY <1>2 DEF IInv, KeysWerePlaced, Placed, tables, device, Idle
<1>4. TokensWereIssued' /\ DroppedIsDead'
  BY DEF IInv, TokensWereIssued, DroppedIsDead, Dead, Token, tables, device
<1>6. AnswersAreTrue'
  <2> SUFFICES ASSUME NEW s \in Slots, req'[s].at = "answered", NEW word \in Words,
                      Means(req[s].answer, word)'
               PROVE  TrueOf(req[s].key, word)'
    BY DEF AnswersAreTrue
  <2>1. req'[s].key = req[s].key /\ TrueOf(req[s].key, word)
    <3>1. CASE s = r
      BY <1>2, <3>1 DEF Idle, Means
    <3>2. CASE s # r
      BY <3>2 DEF IInv, AnswersAreTrue, Means
    <3> QED  BY <3>1, <3>2
  <2> QED  BY <2>1 DEF TrueOf, Dead, Token, tables
<1>7. AloneUntilCommit'
  <2>1. \A s \in Open' : s \in Open /\ (s # r => req'[s] = req[s])
    BY DEF Open
  <2>2. r \in Open' => /\ req'[r].key = req[r].key /\ (~overlap => req[r].key \notin orders)
                       /\ ~overlap /\ req'[r].at = "commit" => Twins(req[r].key) = {}
    BY DEF Open
  <2> QED  BY <2>1, <2>2 DEF IInv, AloneUntilCommit, Twins, tables
<1>8. ElevationUsedOnce' /\ PhonedCartOnce' /\ NoSilentLoss' /\ ToldTheTruth'
  BY DEF IInv, ElevationUsedOnce, PhonedCartOnce, NoSilentLoss, ToldTheTruth, tables, device
<1> QED  BY <1>1, <1>3, <1>4, <1>6, <1>7, <1>8 DEF IInv
----------------------------------------------------------------------------
(* One lemma per action, or for a few that are alike.                      *)

LEMMA InitIInv == Init => IInv
<1> SUFFICES ASSUME Init PROVE IInv
  OBVIOUS
<1>1. ServerTypeOK
  BY DEF Init, ServerInit, ServerTypeOK, Payload, Session, Request
<1>2. DeviceTypeOK
  <2>1. Blank \in Tab
    BY DEF Blank, Tab
  <2> QED  BY <2>1, SyncAssumption DEF Init, DeviceTypeOK
<1>3. KeysWerePlaced
  BY DEF Init, ServerInit, KeysWerePlaced, Blank
<1>4. TokensWereIssued
  BY DEF Init, ServerInit, TokensWereIssued, Token, Blank
<1>5. AnswersAreTrue /\ DroppedIsDead /\ AloneUntilCommit
  BY DEF Init, ServerInit, AnswersAreTrue, DroppedIsDead, AloneUntilCommit, Open, Idle
<1>6. ElevationUsedOnce /\ NoSilentLoss /\ ToldTheTruth /\ PhonedCartOnce
  BY DEF Init, ServerInit, ElevationUsedOnce, NoSilentLoss, ToldTheTruth, PhonedCartOnce
<1> QED  BY <1>1, <1>2, <1>3, <1>4, <1>5, <1>6 DEF IInv, TypeOK

\* The tab's requests are forgotten or run on without it.
LEMMA OrphanedMoves ==
  ASSUME ServerTypeOK, NEW t \in Tabs, Orphaned(t)
  PROVE  /\ req' \in [Slots -> Request]
         /\ \A r \in Slots : \/ req'[r] = Idle
                             \/ /\ req'[r] # Idle /\ req[r] # Idle
                                /\ req'[r].at = req[r].at /\ req'[r].key = req[r].key
                                /\ req[r].at = "answered" => req'[r].answer = req[r].answer
<1> SUFFICES ASSUME NEW r \in Slots
             PROVE  /\ req'[r] \in Request
                    /\ \/ req'[r] = Idle
                       \/ /\ req'[r] # Idle /\ req[r] # Idle
                          /\ req'[r].at = req[r].at /\ req'[r].key = req[r].key
                          /\ req[r].at = "answered" => req'[r].answer = req[r].answer
  BY DEF Orphaned
<1>1. CASE req[r] = Idle \/ req[r].tab # t
  <2>1. req'[r] = req[r]
    BY <1>1 DEF Orphaned
  <2> QED  BY <2>1 DEF ServerTypeOK
<1>2. CASE req[r] # Idle /\ req[r].tab = t /\ req[r].at = "answered"
  BY <1>2 DEF Orphaned, Request
<1>3. CASE req[r] # Idle /\ req[r].tab = t /\ req[r].at # "answered"
  <2>1. req[r] \in [at : {"lookup", "policy", "search", "commit"}, key : Keys, tab : Tabs \cup {None}]
    BY <1>3 DEF ServerTypeOK, Request
  <2>2. req'[r] = [req[r] EXCEPT !.tab = None]
    BY <1>3 DEF Orphaned
  <2>3. /\ req'[r] \in [at : {"lookup", "policy", "search", "commit"}, key : Keys, tab : Tabs \cup {None}]
        /\ req'[r].at = req[r].at /\ req'[r].key = req[r].key
    BY <2>1, <2>2
  <2> QED  BY <1>3, <2>3 DEF Request, Idle
<1> QED  BY <1>1, <1>2, <1>3

\* A tab whose screen or sync moves.
LEMMA TabTyped ==
  ASSUME DeviceTypeOK, NEW t \in Tabs, NEW screen \in Tab, tab' = [tab EXCEPT ![t] = screen]
  PROVE  tab' \in [Tabs -> Tab] /\ tab'[t] = screen /\ \A u \in Tabs : u # t => tab'[u] = tab[u]
BY DEF DeviceTypeOK

LEMMA ScreenKeeps ==
  ASSUME IInv, NEW t \in Tabs,
         (\E c \in Carts : RingUp(t, c)) \/ EmptyCart(t) \/ StartSync(t)
  PROVE  IInv'
<1>1. UNCHANGED server /\ UNCHANGED told /\ UNCHANGED queue
  BY DEF RingUp, EmptyCart, StartSync
<1>2. PICK screen \in Tab : /\ tab' = [tab EXCEPT ![t] = screen]
                            /\ screen.todo \subseteq tab[t].todo \cup queue
                            /\ screen.held \in {tab[t].held, None}
  <2>1. tab[t] \in Tab /\ queue \subseteq Keys
    BY DEF IInv, TypeOK, DeviceTypeOK
  <2>2. CASE \E c \in Carts : RingUp(t, c)
    <3>1. PICK c \in Carts : RingUp(t, c)
      BY <2>2
    <3>2. [tab[t] EXCEPT !.cart = c] \in Tab
      BY <2>1 DEF Tab
    <3> QED  BY <2>1, <3>1, <3>2 DEF RingUp, Tab
  <2>3. CASE EmptyCart(t)
    <3>1. Emptied(tab[t]) \in Tab
      BY <2>1 DEF Tab, Emptied
    <3> QED  BY <2>1, <2>3, <3>1 DEF EmptyCart, Emptied, Tab
  <2>4. CASE StartSync(t)
    <3>1. [tab[t] EXCEPT !.todo = queue] \in Tab
      BY <2>1 DEF Tab
    <3> QED  BY <2>1, <2>4, <3>1 DEF StartSync, Tab
  <2> QED  BY <2>2, <2>3, <2>4
<1>3. online' \in BOOLEAN /\ entered' \subseteq Carts /\ events' \in 0..MaxEvents
  <2>1. events \in 0..MaxEvents /\ entered \subseteq Carts /\ online \in BOOLEAN
    BY DEF IInv, TypeOK, DeviceTypeOK
  <2>2. online' \in BOOLEAN
    BY <2>1 DEF RingUp, EmptyCart, StartSync
  <2>3. entered' \subseteq Carts
    BY <2>1 DEF RingUp, EmptyCart, StartSync
  <2>4. events' = events \/ Event
    BY DEF RingUp, EmptyCart, StartSync
  <2>5. events' \in 0..MaxEvents
    BY <2>1, <2>4, SyncAssumption DEF Event
  <2> QED  BY <2>2, <2>3, <2>5
<1>4. /\ tab' \in [Tabs -> Tab]
      /\ \A u \in Tabs : /\ tab'[u].todo \subseteq tab[u].todo \cup queue
                         /\ tab'[u].held \in {tab[u].held, None}
  BY <1>2, TabTyped DEF IInv, TypeOK
<1>5. TypeOK'
  BY <1>1, <1>3, <1>4 DEF IInv, TypeOK, ServerTypeOK, DeviceTypeOK, server
<1>6. UNCHANGED tables /\ req' = req
  BY <1>1 DEF server, tables
<1> QED  BY <1>1, <1>4, <1>5, <1>6, DeviceMoves

LEMMA ConnectionKeeps ==
  ASSUME IInv, Connection
  PROVE  IInv'
<1>1. UNCHANGED tables /\ UNCHANGED <<closed, req, queue, tab, told, entered>>
  BY DEF Connection, server, tables
<1>2. online' \in BOOLEAN /\ events' \in 0..MaxEvents
  <2>1. online' \in BOOLEAN
    BY DEF Connection
  <2>2. events' = events \/ Event
    BY DEF Connection
  <2> QED  BY <2>1, <2>2, SyncAssumption DEF Event, IInv, TypeOK, DeviceTypeOK
<1>3. TypeOK'
  BY <1>1, <1>2 DEF IInv, TypeOK, ServerTypeOK, DeviceTypeOK, tables
<1> QED  BY <1>1, <1>3, DeviceMoves

\* SyncFailed, and what goes with it.
LEMMA FailedKeeps ==
  ASSUME IInv, NEW t \in Tabs, SendOffline(t) \/ LoseAnswer(t) \/ Reload(t)
  PROVE  IInv'
<1>1. UNCHANGED tables /\ UNCHANGED <<closed, told, queue, online, entered>>
  BY DEF SendOffline, LoseAnswer, Reload, server, tables
<1>2. /\ req' \in [Slots -> Request]
      /\ \A r \in Slots : \/ req'[r] = Idle
                          \/ /\ req'[r] # Idle /\ req[r] # Idle
                             /\ req'[r].at = req[r].at /\ req'[r].key = req[r].key
                             /\ req[r].at = "answered" => req'[r].answer = req[r].answer
  BY OrphanedMoves
     DEF SendOffline, LoseAnswer, Reload, IInv, TypeOK, ServerTypeOK, server
<1>3. events' \in 0..MaxEvents
  BY SyncAssumption DEF SendOffline, LoseAnswer, Reload, Event, IInv, TypeOK, DeviceTypeOK
<1>4. PICK screen \in Tab : /\ tab' = [tab EXCEPT ![t] = screen]
                            /\ screen.todo = {} /\ screen.held \in {tab[t].held, None}
  <2>1. tab[t] \in Tab
    BY DEF IInv, TypeOK, DeviceTypeOK
  <2>2. CASE \E k : SyncFailed(t, k)
    <3>1. PICK k : SyncFailed(t, k)
      BY <2>2
    <3>2. tab' = [tab EXCEPT ![t] = [tab[t] EXCEPT !.todo = {}, !.busy = FALSE, !.mine = @ \ {k}]]
      BY <3>1 DEF SyncFailed, IInv, TypeOK, DeviceTypeOK
    <3>3. [tab[t] EXCEPT !.todo = {}, !.busy = FALSE, !.mine = @ \ {k}] \in Tab
      BY <2>1 DEF Tab
    <3> QED  BY <2>1, <3>2, <3>3 DEF Tab
  <2>3. CASE Reload(t)
    <3>1. [Blank EXCEPT !.cart = tab[t].cart] \in Tab
      BY <2>1 DEF Tab, Blank
    <3> QED  BY <2>1, <2>3, <3>1 DEF Reload, Blank
  <2> QED  BY <2>2, <2>3 DEF SendOffline, LoseAnswer
<1>5. /\ tab' \in [Tabs -> Tab]
      /\ \A u \in Tabs : /\ tab'[u].todo \subseteq tab[u].todo \cup queue
                         /\ tab'[u].held \in {tab[u].held, None}
  BY <1>4, TabTyped DEF IInv, TypeOK
<1>6. TypeOK'
  BY <1>1, <1>2, <1>3, <1>5 DEF IInv, TypeOK, ServerTypeOK, DeviceTypeOK, tables
<1> QED  BY <1>1, <1>2, <1>5, <1>6, DeviceMoves

LEMMA ClearKeeps ==
  ASSUME IInv, NEW t \in Tabs, ClearQueue(t)
  PROVE  IInv'
<1>1. UNCHANGED server /\ UNCHANGED <<online, tab, entered>> /\ queue' = {}
  BY DEF ClearQueue
<1>2. told' = [k \in Keys |-> IF k \in queue THEN told[k] \cup {"cleared"} ELSE told[k]]
  BY DEF ClearQueue
<1>3. told' \in [Keys -> SUBSET {"synced", "duplicate", "dropped", "cleared"}]
  BY <1>2 DEF IInv, TypeOK, DeviceTypeOK
<1>4. events' \in 0..MaxEvents
  BY SyncAssumption DEF ClearQueue, Event, IInv, TypeOK, DeviceTypeOK
<1>5. TypeOK'
  BY <1>1, <1>3, <1>4 DEF IInv, TypeOK, ServerTypeOK, DeviceTypeOK, server
<1>6. UNCHANGED tables /\ req' = req
  BY <1>1 DEF server, tables
<1>7. \A k \in Keys : /\ told[k] \subseteq told'[k] /\ (told'[k] # told[k] => Placed(k))
                      /\ k \in queue => told'[k] # {}
                      /\ \A word \in told'[k] \ told[k] : word = "cleared"
  BY <1>2 DEF IInv, KeysWerePlaced
<1> QED  BY <1>1, <1>5, <1>6, <1>7, DeviceMoves
\* The answer arrives: the word is true, and the row goes with it.
LEMMA HearKeeps ==
  ASSUME IInv, NEW t \in Tabs, NEW r \in Slots, Hear(t, r)
  PROVE  IInv'
<1> DEFINE k == req[r].key
           a == req[r].answer
<1>1. UNCHANGED tables /\ UNCHANGED <<closed, online, entered, events>>
  BY DEF Hear, tables
<1>2. req[r].at = "answered" /\ req[r] # Idle /\ k \in Keys /\ a \in Answers
  BY RequestShape DEF Hear, IInv, TypeOK, Idle
<1>3. req' \in [Slots -> Request] /\ req'[r] = Idle /\ \A s \in Slots : s # r => req'[s] = req[s]
  BY DEF Hear, IInv, TypeOK, ServerTypeOK, Request
<1>4. tab[t] \in Tab
  BY DEF IInv, TypeOK, DeviceTypeOK
<1>5. PICK screen \in Tab : /\ tab' = [tab EXCEPT ![t] = screen]
                            /\ screen.todo \subseteq tab[t].todo /\ screen.held \in {tab[t].held, None}
  <2>1. CASE SyncFailed(t, k)
    <3>1. tab' = [tab EXCEPT ![t] = [tab[t] EXCEPT !.todo = {}, !.busy = FALSE, !.mine = @ \ {k}]]
      BY <2>1 DEF SyncFailed, IInv, TypeOK, DeviceTypeOK
    <3>2. [tab[t] EXCEPT !.todo = {}, !.busy = FALSE, !.mine = @ \ {k}] \in Tab
      BY <1>4 DEF Tab
    <3> QED  BY <1>4, <3>1, <3>2 DEF Tab
  <2>2. CASE tab' = [tab EXCEPT ![t] = Accepted(tab[t], k)]
    <3>1. /\ Accepted(tab[t], k) \in Tab
          /\ Accepted(tab[t], k).todo \subseteq tab[t].todo
          /\ Accepted(tab[t], k).held \in {tab[t].held, None}
      BY <1>4 DEF Accepted, Emptied, Tab
    <3> QED  BY <2>2, <3>1
  <2>3. CASE tab' = [tab EXCEPT ![t] = TurnedDown(tab[t], k)]
    <3>1. /\ TurnedDown(tab[t], k) \in Tab
          /\ TurnedDown(tab[t], k).todo \subseteq tab[t].todo
          /\ TurnedDown(tab[t], k).held = tab[t].held
      BY <1>4 DEF TurnedDown, Tab
    <3> QED  BY <2>3, <3>1
  <2> QED  BY <2>1, <2>2, <2>3 DEF Hear
<1>6. /\ tab' \in [Tabs -> Tab]
      /\ \A u \in Tabs : /\ tab'[u].todo \subseteq tab[u].todo \cup queue
                         /\ tab'[u].held \in {tab[u].held, None}
  BY <1>5, TabTyped DEF IInv, TypeOK
<1>7. CASE a = "error" /\ UNCHANGED told
  <2>1. queue' = queue
    BY <1>7 DEF Hear, Deleted
  <2>2. TypeOK'
    BY <1>1, <1>3, <1>6, <1>7, <2>1 DEF IInv, TypeOK, ServerTypeOK, DeviceTypeOK, tables
  <2> QED  BY <1>1, <1>3, <1>6, <1>7, <2>1, <2>2, DeviceMoves
<1>8. CASE a # "error" /\ told' = [told EXCEPT ![k] = @ \cup {Outcome[a]}]
  <2>1. PICK word \in Words : Outcome[a] = word /\ Means(a, word)
    <3>1. Outcome["ok"] = "synced" /\ Outcome["duplicate"] = "duplicate" /\ Outcome["final"] = "dropped"
      BY DEF Outcome
    <3>2. a = "ok" \/ a = "duplicate" \/ a = "final"
      BY <1>2, <1>8 DEF Answers
    <3>3. CASE a = "ok"
      BY <3>1, <3>3 DEF Means, Words
    <3>4. CASE a = "duplicate"
      BY <3>1, <3>4 DEF Means, Words
    <3>5. CASE a = "final"
      BY <3>1, <3>5 DEF Means, Words
    <3> QED  BY <3>2, <3>3, <3>4, <3>5
  <2>2. queue' = queue \ {k}
    BY <1>8 DEF Hear, Deleted
  <2>3. told' \in [Keys -> SUBSET {"synced", "duplicate", "dropped", "cleared"}]
    BY <1>2, <1>8, <2>1 DEF IInv, TypeOK, DeviceTypeOK, Words
  <2>4. TypeOK'
    BY <1>1, <1>3, <1>6, <2>2, <2>3 DEF IInv, TypeOK, ServerTypeOK, DeviceTypeOK, tables
  <2>5. TrueOf(k, word)
    BY <1>2, <2>1 DEF IInv, AnswersAreTrue
  <2>6. told'[k] = told[k] \cup {word} /\ \A j \in Keys : j # k => told'[j] = told[j]
    BY <1>2, <1>8, <2>1 DEF IInv, TypeOK, DeviceTypeOK
  <2>7. \A j \in Keys : /\ told[j] \subseteq told'[j] /\ (told'[j] # told[j] => Placed(j))
                        /\ j \in queue \ queue' => told'[j] # {}
                        /\ \A w \in told'[j] \ told[j] : w = "cleared" \/ TrueOf(j, w)
    BY <1>2, <2>2, <2>5, <2>6 DEF IInv, KeysWerePlaced
  <2> QED  BY <1>1, <1>3, <1>6, <2>2, <2>4, <2>7, DeviceMoves
<1> QED  BY <1>7, <1>8 DEF Hear

\* A row is posted.
LEMMA SendKeeps ==
  ASSUME IInv, NEW t \in Tabs, NEW r \in Slots, Send(t, r)
  PROVE  IInv'
<1> DEFINE k == First(tab[t].todo)
<1>1. UNCHANGED <<payload, orders, recent, elevation, offMenu>> /\ UNCHANGED <<closed, device>>
  BY DEF Send
<1>2. k \in tab[t].todo /\ k \in Keys
  BY FirstIsLeast DEF Send, IInv, TypeOK, DeviceTypeOK, Tab
<1>3. req[r] = Idle /\ req' = [req EXCEPT ![r] = [at |-> "lookup", key |-> k, tab |-> t]]
      /\ overlap' = (overlap \/ Open # {})
  BY DEF Send, Arrive
<1>4. /\ req' \in [Slots -> Request]
      /\ req'[r] = [at |-> "lookup", key |-> k, tab |-> t]
      /\ \A s \in Slots : s # r => req'[s] = req[s]
  BY <1>2, <1>3 DEF IInv, TypeOK, ServerTypeOK, Request
<1>5. TypeOK'
  BY <1>1, <1>3, <1>4 DEF IInv, TypeOK, ServerTypeOK, DeviceTypeOK, device
<1>6. KeysWerePlaced' /\ TokensWereIssued' /\ ElevationUsedOnce' /\ NoSilentLoss'
  BY <1>1, <1>2, <1>3, <1>4
     DEF IInv, KeysWerePlaced, Placed, TokensWereIssued, Token, ElevationUsedOnce, NoSilentLoss, device
<1>7. ~overlap' => ~overlap /\ Open = {}
  BY <1>3 DEF IInv, TypeOK, ServerTypeOK
<1>8. AnswersAreTrue'
  <2> SUFFICES ASSUME NEW s \in Slots, req'[s].at = "answered", NEW word \in Words,
                      Means(req[s].answer, word)'
               PROVE  TrueOf(req[s].key, word)'
    BY DEF AnswersAreTrue
  <2>1. s # r /\ req'[s] = req[s]
    BY <1>4
  <2>2. TrueOf(req[s].key, word)
    BY <2>1 DEF IInv, AnswersAreTrue, Means
  <2> QED  BY <1>1, <1>7, <2>1, <2>2 DEF TrueOf, Dead, Token
<1>9. DroppedIsDead' /\ ToldTheTruth' /\ PhonedCartOnce'
  BY <1>1, <1>7 DEF IInv, DroppedIsDead, Dead, Token, ToldTheTruth, PhonedCartOnce, device
<1>10. AloneUntilCommit'
  <2>1. Open = {} => \A s \in Open' : s = r
    BY <1>4 DEF Open
  <2> QED  BY <1>4, <1>7, <2>1 DEF AloneUntilCommit
<1> QED  BY <1>5, <1>6, <1>8, <1>9, <1>10 DEF IInv
\* A request that is answered without writing, or that goes on.
LEMMA RepliesKeep ==
  ASSUME IInv, NEW r \in Slots, r \in Open, NEW a \in Answers, Reply(r, a),
         UNCHANGED tables, UNCHANGED <<closed, queue, online, tab, told, entered>>,
         events' \in 0..MaxEvents,
         \A word \in Words : Means(a, word) => TrueOf(req[r].key, word)
  PROVE  IInv'
<1>1. ServerTypeOK /\ req[r] # Idle
  BY DEF IInv, TypeOK, Open
<1>2. /\ req' \in [Slots -> Request]
      /\ \A s \in Slots : s # r => req'[s] = req[s]
      /\ \/ req'[r] = Idle
         \/ req'[r].at = "answered" /\ req'[r].key = req[r].key /\ req'[r].answer = a
  BY <1>1, ReplyMoves
<1> QED  BY <1>2, RequestMoves

LEMMA ProceedKeeps ==
  ASSUME IInv, NEW r \in Slots, r \in Open, NEW step \in {"policy", "search", "commit"},
         Proceed(r, step), UNCHANGED tables,
         UNCHANGED <<closed, queue, online, tab, told, entered>>, events' \in 0..MaxEvents,
         ~overlap => req[r].key \notin orders,
         ~overlap /\ step = "commit" => Twins(req[r].key) = {}
  PROVE  IInv'
<1>1. /\ req' \in [Slots -> Request]
      /\ \A s \in Slots : s # r => req'[s] = req[s]
      /\ req'[r].at = step /\ req'[r].key = req[r].key
  BY ProceedMoves DEF IInv, TypeOK
<1> QED  BY <1>1, RequestMoves

\* At a step of createOrder.
LEMMA AtStepIsOpen ==
  ASSUME IInv, NEW r \in Slots, req[r].at \in {"lookup", "policy", "search", "commit"}
  PROVE  r \in Open /\ req[r].key \in Keys
<1>1. req[r] # Idle
  BY DEF Idle
<1> QED  BY <1>1, RequestShape DEF Open, IInv, TypeOK

LEMMA LookupKeeps ==
  ASSUME IInv, NEW r \in Slots, Lookup(r), UNCHANGED device
  PROVE  IInv'
<1>1. r \in Open /\ UNCHANGED tables /\ UNCHANGED <<closed, queue, online, tab, told, entered>>
      /\ events' \in 0..MaxEvents
  BY AtStepIsOpen DEF IInv, TypeOK, DeviceTypeOK, device, Lookup, tables
<1>2. CASE req[r].key \in orders /\ Reply(r, "ok")
  BY <1>1, <1>2, RepliesKeep DEF Answers, Means, TrueOf
<1>3. CASE req[r].key \notin orders /\ Proceed(r, "policy")
  BY <1>1, <1>3, ProceedKeeps
<1> QED  BY <1>2, <1>3 DEF Lookup

LEMMA PolicyKeeps ==
  ASSUME IInv, NEW r \in Slots, Policy(r), UNCHANGED device
  PROVE  IInv'
<1> DEFINE k == req[r].key
<1>1. r \in Open /\ k \in Keys /\ UNCHANGED tables /\ UNCHANGED <<closed, queue, online, tab, told, entered>>
      /\ events' \in 0..MaxEvents
  BY AtStepIsOpen DEF IInv, TypeOK, DeviceTypeOK, device, Policy, tables
<1>2. ~overlap => k \notin orders
  BY <1>1 DEF Policy, IInv, AloneUntilCommit
<1>3. payload[k] \in Payload
  BY <1>1 DEF IInv, TypeOK, ServerTypeOK
<1>4. CASE Reply(r, "error")
  BY <1>1, <1>4, RepliesKeep DEF Answers, Means
<1>5. CASE Token(k) # None /\ ~ElevationValid(Token(k)) /\ Reply(r, "final")
  <2>1. Token(k) \in Tokens /\ elevation[Token(k)] \in Session
    BY <1>3, <1>5 DEF Token, Payload, IInv, TypeOK, ServerTypeOK
  <2>2. elevation[Token(k)] # "unissued"
    BY <1>1, <1>5 DEF IInv, TokensWereIssued
  <2>3. Dead(k)
    BY <1>5, <2>1, <2>2 DEF ElevationValid, Session, Dead
  <2> QED  BY <1>1, <1>2, <1>5, <2>3, RepliesKeep DEF Answers, Means, TrueOf
<1>6. CASE payload[k].cart \in Phoned /\ Proceed(r, "search")
  BY <1>1, <1>2, <1>6, ProceedKeeps
<1>7. CASE payload[k].cart \notin Phoned /\ Proceed(r, "commit")
  <2>1. Twins(k) = {}
    BY <1>7 DEF Twins
  <2> QED  BY <1>1, <1>2, <1>7, <2>1, ProceedKeeps
<1> QED  BY <1>4, <1>5, <1>6, <1>7 DEF Policy, Body, Token

LEMMA SearchKeeps ==
  ASSUME IInv, NEW r \in Slots, Search(r), UNCHANGED device
  PROVE  IInv'
<1> DEFINE k == req[r].key
<1>1. r \in Open /\ UNCHANGED tables /\ UNCHANGED <<closed, queue, online, tab, told, entered>>
      /\ events' \in 0..MaxEvents
  BY AtStepIsOpen DEF IInv, TypeOK, DeviceTypeOK, device, Search, tables
<1>2. CASE Twins(k) # {} /\ Reply(r, "duplicate")
  <2>1. \E o \in orders : payload[o].cart = payload[k].cart
    BY <1>2 DEF Twins, IInv, TypeOK, ServerTypeOK
  <2> QED  BY <1>1, <1>2, <2>1, RepliesKeep DEF Answers, Means, TrueOf
<1>3. CASE Twins(k) = {} /\ Proceed(r, "commit")
  <2>1. ~overlap => k \notin orders
    BY <1>1 DEF Search, IInv, AloneUntilCommit
  <2> QED  BY <1>1, <1>3, <2>1, ProceedKeeps
<1> QED  BY <1>2, <1>3 DEF Search

LEMMA RequestFailsKeeps ==
  ASSUME IInv, NEW r \in Slots, RequestFails(r), UNCHANGED <<queue, online, tab, told, entered>>, Event
  PROVE  IInv'
<1>1. r \in Open /\ UNCHANGED tables /\ UNCHANGED closed /\ Reply(r, "error")
  BY DEF RequestFails, tables
<1>2. events' \in 0..MaxEvents
  BY SyncAssumption DEF Event, IInv, TypeOK, DeviceTypeOK
<1> QED  BY <1>1, <1>2, RepliesKeep DEF Answers, Means
\* The order is written: nobody else has its token, and alone it has no twin.
LEMMA InsertKeeps ==
  ASSUME IInv, NEW r \in Slots, req[r].at = "commit", req[r].key \notin orders,
         payload[req[r].key].cart \notin offMenu, Consumable(req[r].key), Insert(req[r].key), Reply(r, "ok"),
         UNCHANGED <<payload, closed, offMenu, overlap>>, UNCHANGED device
  PROVE  IInv'
<1> DEFINE k == req[r].key
<1>1. r \in Open /\ k \in Keys /\ req[r] # Idle /\ Placed(k)
  BY AtStepIsOpen DEF Open, IInv, KeysWerePlaced
<1>2. orders' = orders \cup {k} /\ recent' = recent \cup {k}
  BY DEF Insert
<1>3. elevation' = [x \in Tokens |-> IF x = Token(k) THEN "consumed" ELSE elevation[x]]
  BY DEF Insert, Token
<1>4. Token(k) # None => elevation[Token(k)] = "live"
  BY DEF Consumable, Token
<1>5. /\ req' \in [Slots -> Request]
      /\ \A s \in Slots : s # r => req'[s] = req[s]
      /\ \/ req'[r] = Idle /\ req'[r].at = "idle"
         \/ req'[r].at = "answered" /\ req'[r].key = k /\ req'[r].answer = "ok"
  BY <1>1, ReplyMoves DEF Answers, IInv, TypeOK
<1>6. /\ recent \subseteq orders /\ orders \subseteq Keys
      /\ \A j \in Keys : Token(j) \in Tokens \cup {None}
      /\ elevation \in [Tokens -> Session]
  BY DEF IInv, TypeOK, ServerTypeOK, Payload, Token
<1>7. TypeOK'
  <2>1. elevation' \in [Tokens -> Session]
    BY <1>3, <1>6 DEF Session
  <2> QED  BY <1>1, <1>2, <1>5, <1>6, <2>1 DEF IInv, TypeOK, ServerTypeOK, DeviceTypeOK, device
<1>8. KeysWerePlaced'
  BY <1>1, <1>2, <1>5 DEF IInv, KeysWerePlaced, Placed, device, Idle
<1>9. TokensWereIssued'
  <2>1. \A x \in Tokens : elevation[x] # "unissued" => elevation'[x] # "unissued"
    BY <1>3
  <2>2. \A x \in Tokens : elevation[x] = "consumed" => elevation'[x] = "consumed"
    BY <1>3
  <2>3. Token(k) # None => elevation'[Token(k)] = "consumed"
    BY <1>1, <1>3, <1>6
  <2>4. \A t \in Tabs : tab[t].held \in Tokens \cup {None}
    BY DEF IInv, TypeOK, DeviceTypeOK, Tab
  <2> QED  BY <1>2, <1>6, <2>1, <2>2, <2>3, <2>4 DEF IInv, TokensWereIssued, Token, device
<1>10. ElevationUsedOnce'
  BY <1>2, <1>4 DEF IInv, ElevationUsedOnce, TokensWereIssued, Token
\* A key that was dead stays dead, and was another one.
<1>11. ~Dead(k) /\ \A j \in Keys : Dead(j) => Dead(j)'
  <2>1. ~Dead(k)
    BY <1>4 DEF Dead
  <2>2. \A j \in Keys : Dead(j) => Dead(j)'
    BY <1>3, <1>6 DEF Dead, Token
  <2> QED  BY <2>1, <2>2
<1>12. \A j \in Keys, word \in Words : TrueOf(j, word) => TrueOf(j, word)'
  BY <1>2, <1>11 DEF TrueOf
<1>13. AnswersAreTrue'
  <2> SUFFICES ASSUME NEW s \in Slots, req'[s].at = "answered", NEW word \in Words,
                      Means(req[s].answer, word)'
               PROVE  TrueOf(req[s].key, word)'
    BY DEF AnswersAreTrue
  <2>1. CASE s = r
    BY <1>2, <1>5, <2>1 DEF Idle, Means, TrueOf
  <2>2. CASE s # r
    <3>1. req'[s] = req[s] /\ req[s].key \in Keys
      BY <1>5, <2>2, RequestShape DEF Idle, IInv, TypeOK
    <3>2. TrueOf(req[s].key, word)
      BY <3>1 DEF IInv, AnswersAreTrue, Means
    <3>3. PICK j \in Keys : j = req[s].key
      BY <3>1
    <3>4. TrueOf(j, word)'
      BY <1>12, <3>2, <3>3
    <3> QED  BY <3>1, <3>3, <3>4 DEF TrueOf, Dead, Token
  <2> QED  BY <2>1, <2>2
<1>14. DroppedIsDead'
  BY <1>11 DEF IInv, DroppedIsDead, device
<1>15. AloneUntilCommit'
  <2>1. \A s \in Open' : s # r /\ s \in Open
    BY <1>5 DEF Open
  <2> QED  BY <1>1, <2>1 DEF IInv, AloneUntilCommit
<1>16. PhonedCartOnce'
  <2>1. ~overlap => Twins(k) = {}
    BY <1>1 DEF IInv, AloneUntilCommit
  <2> QED  BY <1>2, <2>1 DEF IInv, PhonedCartOnce, Twins
<1>17. NoSilentLoss'
  BY DEF IInv, NoSilentLoss, device
<1>18. ToldTheTruth'
  BY <1>2, <1>11 DEF IInv, ToldTheTruth, DroppedIsDead, device
<1> QED  BY <1>7, <1>8, <1>9, <1>10, <1>13, <1>14, <1>15, <1>16, <1>17, <1>18 DEF IInv

LEMMA CommitKeeps ==
  ASSUME IInv, NEW r \in Slots, Commit(r), UNCHANGED device
  PROVE  IInv'
<1> DEFINE k == req[r].key
<1>1. r \in Open /\ k \in Keys /\ req[r].at = "commit" /\ UNCHANGED <<payload, closed, offMenu, overlap>>
      /\ UNCHANGED <<queue, online, tab, told, entered>> /\ events' \in 0..MaxEvents
  BY AtStepIsOpen DEF Commit, IInv, TypeOK, DeviceTypeOK, device
<1>2. CASE k \in orders /\ Reply(r, "ok") /\ UNCHANGED <<orders, recent, elevation>>
  BY <1>1, <1>2, RepliesKeep DEF Answers, Means, TrueOf, tables
<1>3. CASE /\ k \notin orders /\ (payload[k].cart \in offMenu \/ ~Consumable(k))
           /\ Reply(r, "final") /\ UNCHANGED <<orders, recent, elevation>>
  <2>1. ~Consumable(k) => Token(k) \in Tokens /\ elevation[Token(k)] \in {"expired", "consumed"}
    <3>1. Token(k) \in Tokens \cup {None}
      BY <1>1 DEF IInv, TypeOK, ServerTypeOK, Payload, Token
    <3>2. Token(k) # None => elevation[Token(k)] \in Session \ {"unissued"}
      BY <1>1, <3>1 DEF IInv, TypeOK, ServerTypeOK, TokensWereIssued
    <3> QED  BY <3>1, <3>2 DEF Consumable, Token, Session
  <2>2. ~Consumable(k) => Token(k) # None
    BY DEF Consumable, Token
  <2>3. Dead(k)
    BY <1>3, <2>1, <2>2 DEF Dead
  <2> QED  BY <1>1, <1>3, <2>3, RepliesKeep DEF Answers, Means, TrueOf, tables
<1>4. CASE k \notin orders /\ payload[k].cart \notin offMenu /\ Consumable(k) /\ Insert(k) /\ Reply(r, "ok")
  BY <1>1, <1>4, InsertKeeps
<1> QED  BY <1>2, <1>3, <1>4 DEF Commit

\* Tokens, hours, the menu and the duplicate window move on their own.
LEMMA SurroundingsKeep ==
  ASSUME IInv, UNCHANGED <<payload, orders, req, overlap>>,
         UNCHANGED <<queue, online, tab, told, entered>>, events' \in 0..MaxEvents,
         recent' \subseteq recent, closed' \subseteq Carts,
         offMenu \subseteq offMenu', offMenu' \subseteq Carts,
         elevation' \in [Tokens -> Session],
         \A x \in Tokens : elevation'[x] = elevation[x] \/ (elevation[x] = "live" /\ elevation'[x] = "expired")
  PROVE  IInv'
<1>1. TypeOK'
  BY DEF IInv, TypeOK, ServerTypeOK, DeviceTypeOK
<1>2. /\ \A j \in Keys : Token(j) \in Tokens \cup {None}
      /\ \A t \in Tabs : tab[t].held \in Tokens \cup {None}
      /\ orders \subseteq Keys
  BY DEF IInv, TypeOK, ServerTypeOK, DeviceTypeOK, Payload, Token, Tab
<1>3. KeysWerePlaced'
  BY DEF IInv, KeysWerePlaced, Placed
<1>4. TokensWereIssued'
  BY <1>2 DEF IInv, TokensWereIssued, Token
<1>5. \A j \in Keys : Dead(j) => Dead(j)'
  BY <1>2 DEF Dead, Token
<1>6. \A j \in Keys, word \in Words : TrueOf(j, word) => TrueOf(j, word)'
  BY <1>5 DEF TrueOf
<1>7. AnswersAreTrue'
  <2> SUFFICES ASSUME NEW s \in Slots, req[s].at = "answered", NEW word \in Words,
                      Means(req[s].answer, word)
               PROVE  TrueOf(req[s].key, word)'
    BY DEF AnswersAreTrue, Means
  <2>1. req[s].key \in Keys /\ TrueOf(req[s].key, word)
    BY RequestShape DEF IInv, TypeOK, AnswersAreTrue, Idle
  <2>2. PICK j \in Keys : j = req[s].key
    BY <2>1
  <2>3. TrueOf(j, word)'
    BY <1>6, <2>1, <2>2
  <2> QED  BY <2>2, <2>3 DEF TrueOf, Dead, Token
<1>8. DroppedIsDead' /\ ToldTheTruth' /\ NoSilentLoss' /\ ElevationUsedOnce' /\ PhonedCartOnce'
  BY <1>5 DEF IInv, DroppedIsDead, ToldTheTruth, NoSilentLoss, ElevationUsedOnce, PhonedCartOnce
<1>9. AloneUntilCommit'
  BY DEF IInv, AloneUntilCommit, Open, Twins
<1> QED  BY <1>1, <1>3, <1>4, <1>7, <1>8, <1>9 DEF IInv
LEMMA WorldKeeps ==
  ASSUME IInv,
         \/ /\ (\E tok \in Tokens : Expire(tok)) \/ (ChangeHours /\ closed' = {})
            /\ UNCHANGED device
         \/ /\ (\E k \in Keys : LeaveWindow(k)) \/ (\E c \in Carts : RemoveDish(c)) \/ ChangeHours
            /\ Event /\ UNCHANGED <<queue, online, tab, told, entered>>
  PROVE  IInv'
<1>1. UNCHANGED <<payload, orders, req, overlap>> /\ UNCHANGED <<queue, online, tab, told, entered>>
  BY DEF Expire, ChangeHours, LeaveWindow, RemoveDish, device
<1>2. events' \in 0..MaxEvents
  BY SyncAssumption DEF Event, IInv, TypeOK, DeviceTypeOK, device
<1>3. recent' \subseteq recent
  BY DEF Expire, ChangeHours, LeaveWindow, RemoveDish
<1>4. closed' \subseteq Carts
  BY CreationAssumption
     DEF Expire, ChangeHours, LeaveWindow, RemoveDish, IInv, TypeOK, ServerTypeOK
<1>5. offMenu \subseteq offMenu' /\ offMenu' \subseteq Carts
  BY DEF Expire, ChangeHours, LeaveWindow, RemoveDish, IInv, TypeOK, ServerTypeOK
<1>6. /\ elevation' \in [Tokens -> Session]
      /\ \A x \in Tokens : elevation'[x] = elevation[x] \/ (elevation[x] = "live" /\ elevation'[x] = "expired")
  BY DEF Expire, ChangeHours, LeaveWindow, RemoveDish, Session, IInv, TypeOK, ServerTypeOK
<1> QED  BY <1>1, <1>2, <1>3, <1>4, <1>5, <1>6, SurroundingsKeep

LEMMA UnlockKeeps ==
  ASSUME IInv, NEW t \in Tabs, NEW tok \in Tokens, Unlock(t, tok)
  PROVE  IInv'
<1>1. UNCHANGED <<payload, orders, recent, closed, offMenu, req, overlap, queue, online, told, entered, events>>
  BY DEF Unlock
<1>2. elevation[tok] = "unissued" /\ elevation' = [elevation EXCEPT ![tok] = "live"]
      /\ tab' = [tab EXCEPT ![t].held = tok]
  BY DEF Unlock, Issue
<1>3. /\ elevation' \in [Tokens -> Session] /\ elevation'[tok] = "live"
      /\ \A x \in Tokens : x # tok => elevation'[x] = elevation[x]
  BY <1>2 DEF IInv, TypeOK, ServerTypeOK, Session
<1>4. /\ tab' \in [Tabs -> Tab] /\ tab'[t].held = tok
      /\ \A u \in Tabs : tab'[u].todo = tab[u].todo /\ (u # t => tab'[u] = tab[u])
  <2>1. tab' = [tab EXCEPT ![t] = [tab[t] EXCEPT !.held = tok]]
    BY <1>2
  <2>2. tab[t] \in Tab
    BY DEF IInv, TypeOK, DeviceTypeOK
  <2>3. [tab[t] EXCEPT !.held = tok] \in Tab /\ [tab[t] EXCEPT !.held = tok].todo = tab[t].todo
        /\ [tab[t] EXCEPT !.held = tok].held = tok
    BY <2>2 DEF Tab
  <2> QED  BY <2>1, <2>3, TabTyped DEF IInv, TypeOK
<1>5. TypeOK'
  BY <1>1, <1>3, <1>4 DEF IInv, TypeOK, ServerTypeOK, DeviceTypeOK
<1>6. KeysWerePlaced'
  BY <1>1, <1>4 DEF IInv, KeysWerePlaced, Placed
<1>7. \A j \in Keys : Token(j) \in Tokens \cup {None}
  BY DEF IInv, TypeOK, ServerTypeOK, Payload, Token
<1>8. TokensWereIssued'
  <2>1. \A j \in Keys : Token(j) # None => Token(j) # tok
    BY <1>2 DEF IInv, TokensWereIssued
  <2>2. \A u \in Tabs : u # t => tab[u].held \in Tokens \cup {None}
    BY DEF IInv, TypeOK, DeviceTypeOK, Tab
  <2>3. orders \subseteq Keys
    BY DEF IInv, TypeOK, ServerTypeOK
  <2> QED  BY <1>1, <1>3, <1>4, <1>7, <2>1, <2>2, <2>3 DEF IInv, TokensWereIssued, Token
<1>9. \A j \in Keys : Dead(j) => Dead(j)'
  BY <1>1, <1>2, <1>3, <1>7 DEF Dead, Token
<1>10. AnswersAreTrue'
  <2> SUFFICES ASSUME NEW s \in Slots, req[s].at = "answered", NEW word \in Words,
                      Means(req[s].answer, word)
               PROVE  TrueOf(req[s].key, word)'
    BY <1>1 DEF AnswersAreTrue, Means
  <2>1. req[s].key \in Keys /\ TrueOf(req[s].key, word)
    BY RequestShape DEF IInv, TypeOK, AnswersAreTrue, Idle
  <2>2. PICK j \in Keys : j = req[s].key
    BY <2>1
  <2>3. TrueOf(j, word)'
    BY <1>1, <1>9, <2>1, <2>2 DEF TrueOf
  <2> QED  BY <1>1, <2>2, <2>3 DEF TrueOf, Dead, Token
<1>11. DroppedIsDead' /\ ToldTheTruth' /\ NoSilentLoss' /\ ElevationUsedOnce' /\ PhonedCartOnce'
       /\ AloneUntilCommit'
  BY <1>1, <1>9 DEF IInv, DroppedIsDead, ToldTheTruth, NoSilentLoss, ElevationUsedOnce, PhonedCartOnce,
                    AloneUntilCommit, Open, Twins
<1> QED  BY <1>5, <1>6, <1>8, <1>10, <1>11 DEF IInv

\* The key of a new order was on no list, so what is known of the others stays.
LEMMA PlaceKeeps ==
  ASSUME IInv, NEW t \in Tabs, Place(t)
  PROVE  IInv'
<1>1. PICK k \in Keys : k = First(Unplaced) /\ ~Placed(k)
  <2>1. First(Unplaced) \in Unplaced
    BY FirstIsLeast DEF Place, Unplaced
  <2> QED  BY <2>1 DEF Unplaced, Placed
<1>2. UNCHANGED <<orders, recent, elevation, closed, offMenu, req, overlap, online, told, entered, events>>
      /\ queue' = queue \cup {k}
  BY <1>1 DEF Place
<1>3. TokenToSend(t) \in Tokens \cup {None} /\ (TokenToSend(t) # None => elevation[TokenToSend(t)] # "unissued")
  BY DEF TokenToSend, IInv, TypeOK, DeviceTypeOK, Tab, TokensWereIssued
<1>4. tab[t].cart \in Carts /\ tab[t] \in Tab
  BY DEF Place, IInv, TypeOK, DeviceTypeOK, Tab
<1>5. /\ payload' \in [Keys -> Payload] /\ Placed(k)'
      /\ payload'[k].token = TokenToSend(t)
      /\ \A j \in Keys : j # k => payload'[j] = payload[j]
  <2>1. payload' = [payload EXCEPT ![k] = [cart |-> tab[t].cart, token |-> TokenToSend(t)]]
    BY <1>1 DEF Place
  <2>2. tab[t].cart # None
    BY DEF Place
  <2>3. [cart |-> tab[t].cart, token |-> TokenToSend(t)] \in Payload
    BY <1>3, <1>4 DEF Payload
  <2> QED  BY <1>1, <2>1, <2>2, <2>3 DEF IInv, TypeOK, ServerTypeOK, Placed
<1>6. /\ tab' \in [Tabs -> Tab]
      /\ \A u \in Tabs : /\ tab'[u].todo \subseteq tab[u].todo \cup queue \cup {k}
                         /\ tab'[u].held \in {tab[u].held, None}
  <2>1. PICK screen \in Tab : /\ tab' = [tab EXCEPT ![t] = screen]
                              /\ screen.todo \subseteq tab[t].todo \cup queue \cup {k}
                              /\ screen.held \in {tab[t].held, None}
    <3> DEFINE on == [tab[t] EXCEPT !.busy = TRUE, !.mine = @ \cup {k},
                                    !.todo = IF @ = {} THEN queue \cup {k} ELSE @]
    <3>1. queue \subseteq Keys
      BY DEF IInv, TypeOK, DeviceTypeOK
    <3>2. on \in Tab /\ on.todo \subseteq tab[t].todo \cup queue \cup {k} /\ on.held = tab[t].held
      BY <1>1, <1>4, <3>1 DEF Tab
    <3>3. /\ Emptied(tab[t]) \in Tab /\ Emptied(tab[t]).todo = tab[t].todo
          /\ Emptied(tab[t]).held = None
      BY <1>4 DEF Emptied, Tab
    <3>4. tab' = [tab EXCEPT ![t] = on] \/ tab' = [tab EXCEPT ![t] = Emptied(tab[t])]
      BY <1>1 DEF Place
    <3> HIDE DEF on
    <3> QED  BY <3>2, <3>3, <3>4
  <2> QED  BY <2>1, TabTyped DEF IInv, TypeOK
<1>7. TypeOK'
  BY <1>1, <1>2, <1>5, <1>6 DEF IInv, TypeOK, ServerTypeOK, DeviceTypeOK
<1>8. KeysWerePlaced'
  <2>1. \A j \in Keys : Placed(j) => Placed(j)'
    BY <1>5 DEF Placed
  <2>2. /\ queue \subseteq Keys /\ orders \subseteq Keys
        /\ \A u \in Tabs : tab[u].todo \subseteq Keys
        /\ \A r \in Slots : req[r] # Idle => req[r].key \in Keys
    BY RequestShape DEF IInv, TypeOK, ServerTypeOK, DeviceTypeOK, Tab
  <2> QED  BY <1>2, <1>5, <1>6, <2>1, <2>2 DEF IInv, KeysWerePlaced, Placed
\* Everything that was said was said of another key.
<1>9. /\ k \notin orders /\ orders \subseteq Keys /\ recent \subseteq orders
      /\ told[k] = {}
      /\ \A r \in Slots : req[r] # Idle => req[r].key # k /\ req[r].key \in Keys
  BY <1>1, RequestShape DEF IInv, KeysWerePlaced, TypeOK, ServerTypeOK
<1>10. TokensWereIssued'
  BY <1>2, <1>3, <1>5, <1>6, <1>9 DEF IInv, TokensWereIssued, Token
<1>11. \A j \in Keys \ {k} : Dead(j)' <=> Dead(j)
  BY <1>2, <1>5 DEF Dead, Token
<1>12. \A j \in Keys \ {k}, word \in Words : TrueOf(j, word) => TrueOf(j, word)'
  BY <1>2, <1>5, <1>9, <1>11 DEF TrueOf
<1>13. AnswersAreTrue'
  <2> SUFFICES ASSUME NEW s \in Slots, req[s].at = "answered", NEW word \in Words,
                      Means(req[s].answer, word)
               PROVE  TrueOf(req[s].key, word)'
    BY <1>2 DEF AnswersAreTrue, Means
  <2>1. req[s].key \in Keys \ {k} /\ TrueOf(req[s].key, word)
    BY <1>9 DEF IInv, AnswersAreTrue, Idle
  <2>2. PICK j \in Keys \ {k} : j = req[s].key
    BY <2>1
  <2>3. TrueOf(j, word)'
    BY <1>12, <2>1, <2>2
  <2> QED  BY <1>2, <2>2, <2>3 DEF TrueOf, Dead, Token
<1>14. DroppedIsDead'
  BY <1>2, <1>9, <1>11 DEF IInv, DroppedIsDead
<1>15. AloneUntilCommit'
  <2>1. \A j \in Keys \ {k} : Twins(j)' = Twins(j)
    BY <1>2, <1>5, <1>9 DEF Twins
  <2> QED  BY <1>2, <1>9, <2>1 DEF IInv, AloneUntilCommit, Open
<1>16. ElevationUsedOnce' /\ PhonedCartOnce'
  BY <1>2, <1>5, <1>9 DEF IInv, ElevationUsedOnce, PhonedCartOnce
<1>17. NoSilentLoss' /\ ToldTheTruth'
  BY <1>2, <1>5, <1>9 DEF IInv, NoSilentLoss, ToldTheTruth
<1> QED  BY <1>7, <1>8, <1>10, <1>13, <1>14, <1>15, <1>16, <1>17 DEF IInv

LEMMA StepKeeps == IInv /\ [Next]_vars => IInv'
<1> SUFFICES ASSUME IInv, [Next]_vars PROVE IInv'
  OBVIOUS
<1>1. CASE \E t \in Tabs : TabStep(t) \/ Reload(t) \/ LoseAnswer(t)
  BY <1>1, ScreenKeeps, FailedKeeps, SendKeeps, HearKeeps DEF TabStep
<1>2. CASE \E t \in Tills : Cashier(t)
  BY <1>2, SyncAssumption, ScreenKeeps, UnlockKeeps, PlaceKeeps, ClearKeeps DEF Cashier
<1>3. CASE \E r \in Slots : RequestStep(r) /\ UNCHANGED device
  BY <1>3, LookupKeeps, PolicyKeeps, SearchKeeps, CommitKeeps DEF RequestStep
<1>4. CASE Connection
  BY <1>4, ConnectionKeeps
<1>5. CASE Surroundings /\ ~Connection
  BY <1>5, WorldKeeps, RequestFailsKeeps DEF Surroundings
<1>6. CASE UNCHANGED vars
  <2>1. /\ UNCHANGED tables /\ UNCHANGED <<closed, req>> /\ UNCHANGED device
    BY <1>6 DEF vars, server, tables
  <2>2. TypeOK'
    BY <2>1 DEF IInv, TypeOK, ServerTypeOK, DeviceTypeOK, tables, device
  <2> QED  BY <2>1, <2>2, DeviceMoves DEF device
<1> QED  BY <1>1, <1>2, <1>3, <1>4, <1>5, <1>6 DEF Next

LEMMA Invariant == Spec => []IInv
BY InitIInv, StepKeeps, PTL DEF Spec

----------------------------------------------------------------------------
(* The theorems.                                                           *)

\* The tables of the server, the store and the tabs keep their types.
THEOREM TillTyped == Spec => []TypeOK
<1>1. IInv => TypeOK
  BY DEF IInv
<1> QED  BY <1>1, Invariant, PTL

\* An elevation that was checked outside the transaction covers one order.
THEOREM ElevationCoversOne == Spec => []ElevationUsedOnce
<1>1. IInv => ElevationUsedOnce
  BY DEF IInv
<1> QED  BY <1>1, Invariant, PTL

\* No order leaves the store without a word, whatever fails.
THEOREM NothingLostSilently == Spec => []NoSilentLoss
<1>1. IInv => NoSilentLoss
  BY DEF IInv
<1> QED  BY <1>1, Invariant, PTL

\* What the cashier is told of a row that is gone is true.
THEOREM CashierToldTheTruth == Spec => []ToldTheTruth
<1>1. IInv => ToldTheTruth
  BY DEF IInv
<1> QED  BY <1>1, Invariant, PTL

\* One request at a time, the window gives a phoned cart once.
THEOREM PhonedOnceAtATime == Spec => []PhonedCartOnce
<1>1. IInv => PhonedCartOnce
  BY DEF IInv
<1> QED  BY <1>1, Invariant, PTL

----------------------------------------------------------------------------
(* Refinement: one book of orders.                                         *)

LEMMA PlaceInBook ==
  ASSUME IInv, NEW t \in Tabs, Place(t)
  PROVE  OneBook!BookNext
<1>1. PICK k \in Keys : k = First(Unplaced) /\ payload[k].cart = None
  <2>1. First(Unplaced) \in Unplaced
    BY FirstIsLeast DEF Place, Unplaced
  <2> QED  BY <2>1 DEF Unplaced
<1>2. PICK c \in Carts : c = tab[t].cart
  BY DEF Place, IInv, TypeOK, DeviceTypeOK, Tab
<1>3. PICK e \in Tokens \cup {None} : e = TokenToSend(t)
  BY DEF TokenToSend, IInv, TypeOK, DeviceTypeOK, Tab
<1>4. payload' = [payload EXCEPT ![k] = [cart |-> c, token |-> e]]
  BY <1>1, <1>2, <1>3 DEF Place
<1>5. UNCHANGED <<orders, recent, told, overlap>>
  BY DEF Place
<1>6. OneBook!Write(k)
  BY <1>1, <1>4, <1>5 DEF OneBook!Write
<1> QED  BY <1>6 DEF OneBook!BookNext

LEMMA HearInBook ==
  ASSUME IInv, NEW t \in Tabs, NEW r \in Slots, Hear(t, r)
  PROVE  [OneBook!BookNext]_(OneBook!bookVars)
<1>1. PICK k \in Keys, a \in Answers : k = req[r].key /\ a = req[r].answer /\ Placed(k)
  BY RequestShape DEF Hear, IInv, TypeOK, KeysWerePlaced, Idle
<1>2. UNCHANGED <<payload, orders, recent, overlap>> /\ req[r].at = "answered"
  BY DEF Hear
<1>3. CASE UNCHANGED told
  BY <1>2, <1>3 DEF OneBook!bookVars
<1>4. CASE a # "error" /\ told' = [told EXCEPT ![k] = @ \cup {Outcome[a]}]
  <2>1. PICK word \in Words : Outcome[a] = word /\ Means(a, word)
    <3>1. CASE a = "ok"
      BY <3>1 DEF Means, Words, Outcome
    <3>2. CASE a = "duplicate"
      BY <3>2 DEF Means, Words, Outcome
    <3>3. CASE a = "final"
      BY <3>3 DEF Means, Words, Outcome
    <3> QED  BY <1>4, <3>1, <3>2, <3>3 DEF Answers
  <2>2. TrueOf(k, word)
    BY <1>1, <1>2, <2>1 DEF IInv, AnswersAreTrue
  <2>3. told' = [told EXCEPT ![k] = @ \cup {word}]
    BY <1>4, <2>1
  <2>4. OneBook!Say(k, word)
    BY <1>1, <1>2, <2>2, <2>3 DEF OneBook!Say, OneBook!SameCart, TrueOf, Placed
  <2> QED  BY <2>4 DEF OneBook!BookNext, Words
<1> QED  BY <1>1, <1>3, <1>4 DEF Hear

LEMMA ClearInBook ==
  ASSUME IInv, NEW t \in Tabs, ClearQueue(t)
  PROVE  OneBook!BookNext
<1>1. UNCHANGED <<payload, orders, recent, overlap>>
  BY DEF ClearQueue, server
<1>2. PICK S : S = queue
  OBVIOUS
<1>3. S \in SUBSET {k \in Keys : payload[k].cart # None}
  BY <1>2 DEF IInv, TypeOK, DeviceTypeOK, KeysWerePlaced, Placed
<1>4. told' = [k \in Keys |-> IF k \in S THEN told[k] \cup {"cleared"} ELSE told[k]]
  BY <1>2 DEF ClearQueue
<1> QED  BY <1>1, <1>3, <1>4 DEF OneBook!Discard, OneBook!BookNext

\* The commit: its elevation is still live, so no order has it; alone, its
\* search still holds, and its key was not said to be dropped.
LEMMA InsertInBook ==
  ASSUME IInv, NEW r \in Slots, Commit(r), UNCHANGED device
  PROVE  [OneBook!BookNext]_(OneBook!bookVars)
<1>1. PICK k \in Keys : k = req[r].key /\ Placed(k) /\ r \in Open /\ req[r].at = "commit"
  BY AtStepIsOpen DEF Commit, Open, IInv, KeysWerePlaced
<1>2. UNCHANGED <<payload, told, overlap>>
  BY DEF Commit, device
<1>3. CASE UNCHANGED <<orders, recent>>
  BY <1>2, <1>3 DEF OneBook!bookVars
<1>4. CASE k \notin orders /\ payload[k].cart \notin offMenu /\ Consumable(k) /\ Insert(k)
  <2>1. orders' = orders \cup {k} /\ recent' = recent \cup {k}
    BY <1>4 DEF Insert
  <2>2. Token(k) # None => elevation[Token(k)] = "live"
    BY <1>4 DEF Consumable, Token
  <2>3. Token(k) # None => \A o \in orders : Token(o) # Token(k)
    BY <2>2 DEF IInv, TokensWereIssued
  <2>4. ~overlap => "dropped" \notin told[k]
    <3>1. ~Dead(k)
      BY <1>4, <2>2 DEF Dead
    <3> QED  BY <3>1 DEF IInv, DroppedIsDead
  <2>5. ~overlap /\ payload[k].cart \in Phoned => \A o \in recent : payload[o].cart # payload[k].cart
    <3>1. ~overlap => Twins(k) = {}
      BY <1>1 DEF IInv, AloneUntilCommit
    <3> QED  BY <3>1 DEF Twins
  <2>6. OneBook!Enter(k)
    BY <1>1, <1>2, <1>4, <2>1, <2>3, <2>4, <2>5 DEF OneBook!Enter, OneBook!SameCart, Placed, Token
  <2> QED  BY <2>6 DEF OneBook!BookNext
<1> QED  BY <1>1, <1>3, <1>4 DEF Commit

LEMMA AgeInBook ==
  ASSUME IInv, NEW k \in Keys, LeaveWindow(k), UNCHANGED told
  PROVE  OneBook!BookNext
<1>1. OneBook!Age(k)
  BY DEF LeaveWindow, OneBook!Age
<1> QED  BY <1>1 DEF OneBook!BookNext

LEMMA StepInBook ==
  ASSUME IInv, [Next]_vars
  PROVE  [OneBook!BookNext]_(OneBook!bookVars)
<1>1. CASE UNCHANGED <<payload, orders, recent, told, overlap>>
  BY <1>1 DEF OneBook!bookVars
<1>2. CASE \E t \in Tabs : TabStep(t) \/ Reload(t) \/ LoseAnswer(t)
  <2>1. PICK t \in Tabs : TabStep(t) \/ Reload(t) \/ LoseAnswer(t)
    BY <1>2
  <2>2. CASE \E r \in Slots : Hear(t, r)
    BY <2>2, HearInBook
  <2>3. CASE \E r \in Slots : Send(t, r)
    <3>1. PICK r \in Slots : Send(t, r)
      BY <2>3
    <3>2. UNCHANGED <<payload, orders, recent, told>>
      BY <3>1 DEF Send, device
    <3>3. overlap' = (overlap \/ Open # {}) /\ overlap \in BOOLEAN
      BY <3>1 DEF Send, Arrive, IInv, TypeOK, ServerTypeOK
    <3>4. CASE overlap'
      BY <3>2, <3>4 DEF OneBook!Crowd, OneBook!BookNext
    <3>5. CASE ~overlap'
      <4>1. overlap' = overlap
        BY <3>3, <3>5
      <4> QED  BY <1>1, <3>2, <4>1
    <3> QED  BY <3>4, <3>5
  <2>4. CASE StartSync(t) \/ SendOffline(t) \/ Reload(t) \/ LoseAnswer(t)
    BY <1>1, <2>4 DEF StartSync, SendOffline, Reload, LoseAnswer, server
  <2> QED  BY <2>1, <2>2, <2>3, <2>4 DEF TabStep
<1>3. CASE \E t \in Tills : Cashier(t)
  <2>1. PICK t \in Tabs : Cashier(t)
    BY <1>3, SyncAssumption
  <2>2. CASE (\E c \in Carts : RingUp(t, c)) \/ (\E tok \in Tokens : Unlock(t, tok)) \/ EmptyCart(t)
    BY <1>1, <2>2 DEF RingUp, Unlock, EmptyCart, server
  <2> QED  BY <2>1, <2>2, PlaceInBook, ClearInBook DEF Cashier
<1>4. ASSUME NEW r \in Slots, RequestStep(r), UNCHANGED device
      PROVE  [OneBook!BookNext]_(OneBook!bookVars)
  <2>1. CASE Commit(r)
    BY <1>4, <2>1, InsertInBook
  <2>2. CASE Lookup(r) \/ Policy(r) \/ Search(r)
    BY <1>1, <1>4, <2>2 DEF Lookup, Policy, Search, device
  <2> QED  BY <1>4, <2>1, <2>2 DEF RequestStep
<1>5. CASE Surroundings
  <2>1. CASE \E k \in Keys : LeaveWindow(k) /\ UNCHANGED told
    BY <2>1, AgeInBook
  <2>2. CASE Connection
    BY <1>1, <2>2 DEF Connection, server
  <2>3. CASE \/ (\E tok \in Tokens : Expire(tok)) /\ UNCHANGED device
             \/ ChangeHours /\ UNCHANGED told
             \/ (\E c \in Carts : RemoveDish(c)) /\ UNCHANGED told
             \/ (\E r \in Slots : RequestFails(r)) /\ UNCHANGED told
    BY <1>1, <2>3 DEF Expire, ChangeHours, RemoveDish, RequestFails, device
  <2> QED  BY <1>5, <2>1, <2>2, <2>3 DEF Surroundings, device
<1>6. CASE UNCHANGED vars
  BY <1>1, <1>6 DEF vars, server, device
<1> QED  BY <1>2, <1>3, <1>4, <1>5, <1>6 DEF Next

\* Any number of tabs, rows posted twice, answers that are lost and requests
\* that cross keep one book: slips are never altered, an order is entered once
\* and stays, and every word to the cashier is true when it is said.
THEOREM TillsKeepOneBook == Spec => KeepsOneBook
<1>1. Init => OneBook!BookInit
  BY DEF Init, ServerInit, OneBook!BookInit
<1>2. IInv /\ [Next]_vars => [OneBook!BookNext]_(OneBook!bookVars)
  BY StepInBook
<1> QED  BY <1>1, <1>2, Invariant, PTL DEF Spec, KeepsOneBook, OneBook!BookSpec
===============================================================================
