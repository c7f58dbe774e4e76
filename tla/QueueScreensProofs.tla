-------------------------- MODULE QueueScreensProofs --------------------------
(***************************************************************************)
(* Proof that no screen is served an old page while Redis is there for     *)
(* every process, and that screens, processes and caches implement the one *)
(* queue of StaffQueue: for any number of processes, screens, requests,    *)
(* changes and faults.                                                     *)
(***************************************************************************)
EXTENDS QueueScreens, FiniteSetTheorems, TLAPS

----------------------------------------------------------------------------
(* The inductive invariant.                                                *)

CountedChanges == {v \in Changes : bump[v].at \in {"publish", "done"}}

\* No revision is ahead of the changes that were counted.
RevsBounded ==
  /\ rev <= Cardinality(CountedChanges)
  /\ \A p \in Procs : memoryRev[p] <= Cardinality(CountedChanges)

\* A change is announced after it was committed.
AnnouncedWasCommitted ==
  /\ \A v \in Changes : bump[v].at # "none" => v <= primary
  /\ announced <= primary

\* What a revision promises grows with it, and the last promises what was
\* announced; so does a message that is out or on its way.
FloorsRise ==
  /\ floor[rev] = announced
  /\ \A q, r \in Revs : q <= r /\ r <= rev => floor[q] <= floor[r]
  /\ \A v \in Changes : bump[v].at = "publish" => v <= announced
  /\ \A c \in Screens : dirty[c] <= announced

\* A page that is kept under a revision contains what it promises.
PagesKeepFloor ==
  \A r \in Revs : shared[r] # None => r <= rev /\ shared[r] >= floor[r]

\* What a request will answer contains what was wanted.
AnswersReachWant ==
  \A s \in Slots :
    /\ fetch[s].at = "rev" => fetch[s].want <= announced
    /\ fetch[s].at \in {"lookup", "read", "store"} =>
         fetch[s].rev <= rev /\ fetch[s].want <= floor[fetch[s].rev]
    /\ fetch[s].at = "store" => fetch[s].page >= floor[fetch[s].rev]
    /\ fetch[s].at = "done" => fetch[s].page >= fetch[s].want

IInv ==
  /\ TypeOK
  /\ RevsBounded
  /\ AnnouncedWasCommitted
  /\ ~split => (\A p \in Procs : reach[p]) /\ FloorsRise /\ PagesKeepFloor /\ AnswersReachWant

----------------------------------------------------------------------------
(* Counting.                                                               *)

LEMMA ChangesFinite ==
  /\ IsFiniteSet(Changes) /\ Cardinality(Changes) = MaxChanges
BY CacheAssumption, FS_Interval DEF Changes

\* A step that counts no change again leaves room for one more revision each
\* time it counts one.
LEMMA CountGrows ==
  ASSUME TypeOK, TypeOK' \/ bump' \in [Changes -> Bump],
         \A v \in Changes : bump[v].at \in {"publish", "done"} => bump'[v].at \in {"publish", "done"}
  PROVE  /\ Cardinality(CountedChanges) <= Cardinality(CountedChanges')
         /\ Cardinality(CountedChanges') <= MaxChanges
         /\ Cardinality(CountedChanges) \in Nat /\ Cardinality(CountedChanges') \in Nat
<1>1. CountedChanges \subseteq CountedChanges' /\ CountedChanges' \subseteq Changes
  BY DEF CountedChanges
<1>2. IsFiniteSet(CountedChanges) /\ IsFiniteSet(CountedChanges')
  BY <1>1, ChangesFinite, FS_Subset
<1> QED  BY <1>1, <1>2, ChangesFinite, FS_Subset, FS_CardinalityType

LEMMA CountOneMore ==
  ASSUME TypeOK, NEW v \in Changes, bump[v].at = "incr",
         bump'[v].at \in {"publish", "done"}, \A w \in Changes : w # v => bump'[w] = bump[w]
  PROVE  /\ Cardinality(CountedChanges') = Cardinality(CountedChanges) + 1
         /\ Cardinality(CountedChanges') <= MaxChanges
         /\ Cardinality(CountedChanges) \in Nat
<1>1. CountedChanges' = CountedChanges \cup {v} /\ v \notin CountedChanges
  BY DEF CountedChanges
<1>2. IsFiniteSet(CountedChanges) /\ CountedChanges' \subseteq Changes
  BY ChangesFinite, FS_Subset DEF CountedChanges
<1> QED  BY <1>1, <1>2, ChangesFinite, FS_Subset, FS_AddElement, FS_CardinalityType

----------------------------------------------------------------------------
(* What a request in hand is made of.                                      *)

LEMMA FetchShape ==
  ASSUME CacheTypeOK, NEW s \in Slots
  PROVE  /\ fetch[s].at = "idle" <=> fetch[s] = Idle
         /\ fetch[s].at \in {"rev", "lookup", "read", "store", "done"} =>
              fetch[s].want \in Pages
         /\ fetch[s].at \in {"rev", "lookup", "read", "store"} => fetch[s].proc \in Procs
         /\ fetch[s].at \in {"lookup", "read", "store"} => fetch[s].rev \in Revs
         /\ fetch[s].at \in {"store", "done"} => fetch[s].page \in Pages
BY DEF CacheTypeOK, Fetch, Idle

LEMMA BumpShape ==
  ASSUME CacheTypeOK, NEW v \in Changes
  PROVE  /\ bump[v].at \in {"none", "done", "incr", "publish"}
         /\ bump[v].at \in {"incr", "publish"} => bump[v].proc \in Procs
                                                 /\ bump[v] \in [at : {"incr", "publish"}, proc : Procs]
BY DEF CacheTypeOK, Bump

LEMMA InitIInv == Init => IInv
<1> SUFFICES ASSUME Init PROVE IInv
  OBVIOUS
<1>1. 0 \in Pages /\ 0 \in Revs
  BY CacheAssumption DEF Pages, Revs
<1>2. CacheTypeOK
  BY <1>1 DEF Init, CacheInit, CacheTypeOK, Bump, Fetch
<1>3. TypeOK
  BY <1>1, <1>2, ScreenAssumption DEF Init, TypeOK
<1>4. RevsBounded
  <2>1. Cardinality(CountedChanges) \in Nat
    BY ChangesFinite, FS_Subset, FS_CardinalityType DEF CountedChanges
  <2> QED  BY <2>1 DEF Init, CacheInit, RevsBounded
<1>5. AnnouncedWasCommitted
  BY DEF Init, CacheInit, AnnouncedWasCommitted
<1>6. FloorsRise /\ PagesKeepFloor /\ AnswersReachWant /\ \A p \in Procs : reach[p]
  BY <1>1 DEF Init, CacheInit, FloorsRise, PagesKeepFloor, AnswersReachWant, Idle
<1> QED  BY <1>3, <1>4, <1>5, <1>6 DEF IInv
----------------------------------------------------------------------------
(* Changes and their announcement.                                         *)

LEMMA CountsStill ==
  ASSUME IInv, UNCHANGED <<primary, bump, rev, memoryRev, announced>>
  PROVE  RevsBounded' /\ AnnouncedWasCommitted'
BY DEF IInv, RevsBounded, AnnouncedWasCommitted, CountedChanges

LEMMA ChangeKeeps ==
  ASSUME IInv, NEW p \in Procs, Change(p), UNCHANGED screens
  PROVE  IInv'
<1>1. UNCHANGED <<rev, reach, memoryRev, shared, memory, fetch, announced, floor, split>>
  BY DEF Change
<1>2. UNCHANGED <<asks, stream, dirty, shown, events>>
  BY DEF screens
<1>3. PICK v \in Changes : v = primary + 1
  BY CacheAssumption DEF Change, Changes, IInv, TypeOK, CacheTypeOK, Pages
<1>4. primary' = v /\ primary \in Pages /\ bump' = [bump EXCEPT ![v] = [at |-> "incr", proc |-> p]]
  BY <1>3 DEF Change, IInv, TypeOK, CacheTypeOK
<1>5. /\ bump' \in [Changes -> Bump] /\ bump'[v].at = "incr"
      /\ \A w \in Changes : w # v => bump'[w] = bump[w]
  BY <1>4 DEF IInv, TypeOK, CacheTypeOK, Bump
<1>6. bump[v].at = "none"
  BY <1>3, BumpShape DEF IInv, TypeOK, AnnouncedWasCommitted, CacheTypeOK, Pages
<1>7. TypeOK'
  BY <1>1, <1>2, <1>4, <1>5 DEF IInv, TypeOK, CacheTypeOK, Changes, Pages
<1>8. CountedChanges' = CountedChanges
  BY <1>5, <1>6 DEF CountedChanges
<1>9. RevsBounded'
  BY <1>1, <1>8 DEF IInv, RevsBounded
<1>10. AnnouncedWasCommitted'
  BY <1>1, <1>3, <1>4, <1>5, CacheAssumption
     DEF IInv, AnnouncedWasCommitted, TypeOK, CacheTypeOK, Changes, Pages
<1>11. ~split => FloorsRise' /\ PagesKeepFloor' /\ AnswersReachWant' /\ \A q \in Procs : reach'[q]
  BY <1>1, <1>2, <1>5, <1>6 DEF IInv, FloorsRise, PagesKeepFloor, AnswersReachWant
<1> QED  BY <1>1, <1>7, <1>9, <1>10, <1>11 DEF IInv

LEMMA IncrKeeps ==
  ASSUME IInv, NEW v \in Changes, Incr(v), UNCHANGED screens
  PROVE  IInv'
<1>1. UNCHANGED <<primary, reach, memoryRev, shared, memory, fetch, split>>
      /\ UNCHANGED <<asks, stream, dirty, shown, events>>
  BY DEF Incr, screens
<1>2. /\ bump[v].at = "incr" /\ rev' = rev + 1
      /\ announced' = IF v > announced THEN v ELSE announced
      /\ floor' = IF split THEN floor ELSE [floor EXCEPT ![rev + 1] = announced']
  BY DEF Incr
<1>3. /\ bump' \in [Changes -> Bump] /\ bump'[v].at = "publish"
      /\ \A w \in Changes : w # v => bump'[w] = bump[w]
  <2>1. bump' = [bump EXCEPT ![v] = [bump[v] EXCEPT !.at = "publish"]]
    BY DEF Incr
  <2>2. bump[v] \in [at : {"incr", "publish"}, proc : Procs]
    BY <1>2, BumpShape DEF IInv, TypeOK
  <2>3. [bump[v] EXCEPT !.at = "publish"] \in Bump /\ [bump[v] EXCEPT !.at = "publish"].at = "publish"
    BY <2>2 DEF Bump
  <2> QED  BY <2>1, <2>3 DEF IInv, TypeOK, CacheTypeOK
<1>4. /\ Cardinality(CountedChanges') = Cardinality(CountedChanges) + 1
      /\ Cardinality(CountedChanges') <= MaxChanges
      /\ Cardinality(CountedChanges) \in Nat
  BY <1>2, <1>3, CountOneMore DEF IInv
<1>5. rev \in Nat /\ rev + 1 \in Revs /\ RevsBounded'
  BY <1>1, <1>2, <1>4, CacheAssumption DEF IInv, RevsBounded, TypeOK, CacheTypeOK, Revs
<1>6. announced' \in Pages /\ announced <= announced' /\ v <= announced'
      /\ announced' <= primary
  <2>1. v \in Pages /\ v \in Nat /\ announced \in Nat /\ primary \in Nat
    BY CacheAssumption DEF Changes, Pages, IInv, TypeOK, CacheTypeOK
  <2>2. v <= primary /\ announced <= primary
    BY <1>2 DEF IInv, AnnouncedWasCommitted
  <2> QED  BY <1>2, <2>1, <2>2 DEF IInv, TypeOK, CacheTypeOK
<1>7. TypeOK'
  BY <1>1, <1>2, <1>3, <1>5, <1>6 DEF IInv, TypeOK, CacheTypeOK
<1>8. AnnouncedWasCommitted'
  BY <1>1, <1>2, <1>3, <1>6 DEF IInv, AnnouncedWasCommitted
<1>9. ASSUME ~split PROVE FloorsRise' /\ PagesKeepFloor' /\ AnswersReachWant'
  <2>1. /\ floor' \in [Revs -> Pages] /\ floor'[rev + 1] = announced'
        /\ \A r \in Revs : r # rev + 1 => floor'[r] = floor[r]
    BY <1>2, <1>5, <1>6, <1>9 DEF IInv, TypeOK, CacheTypeOK
  <2>2. \A r \in Revs : r <= rev => r # rev + 1 /\ floor[r] <= announced
    BY <1>5, <1>9, CacheAssumption DEF IInv, FloorsRise, TypeOK, CacheTypeOK, Revs
  <2>3. /\ announced \in Nat /\ announced' \in Nat
        /\ \A r \in Revs : r \in Nat /\ floor[r] \in Nat
        /\ \A c \in Screens : dirty[c] \in Nat
        /\ Changes \subseteq Nat
    BY <1>6, CacheAssumption DEF IInv, TypeOK, CacheTypeOK, Revs, Pages, Changes
  <2>4. FloorsRise'
    <3>1. \A q, r \in Revs : q <= r /\ r <= rev' => floor'[q] <= floor'[r]
      <4> SUFFICES ASSUME NEW q \in Revs, NEW r \in Revs, q <= r, r <= rev + 1
                   PROVE  floor'[q] <= floor'[r]
        BY <1>2
      <4>1. CASE r = rev + 1 /\ q # rev + 1
        BY <1>5, <1>6, <2>1, <2>2, <2>3, <4>1
      <4>2. CASE r = rev + 1 /\ q = rev + 1
        BY <1>5, <2>1, <2>3, <4>2
      <4>3. CASE r # rev + 1
        <5>1. r <= rev /\ q <= rev
          BY <1>5, <2>3, <4>3
        <5> QED  BY <1>9, <2>1, <2>2, <4>3, <5>1 DEF IInv, FloorsRise
      <4> QED  BY <4>1, <4>2, <4>3
    <3>2. \A w \in Changes : bump'[w].at = "publish" => w <= announced'
      BY <1>3, <1>6, <1>9, <2>3 DEF IInv, FloorsRise
    <3>3. \A c \in Screens : dirty'[c] <= announced'
      BY <1>1, <1>6, <1>9, <2>3 DEF IInv, FloorsRise
    <3> QED  BY <1>2, <1>5, <2>1, <3>1, <3>2, <3>3 DEF FloorsRise
  <2>5. PagesKeepFloor'
    <3> SUFFICES ASSUME NEW r \in Revs, shared[r] # None
                 PROVE  r <= rev + 1 /\ shared[r] >= floor'[r]
      BY <1>1, <1>2 DEF PagesKeepFloor
    <3>1. r <= rev /\ shared[r] >= floor[r]
      BY <1>9 DEF IInv, PagesKeepFloor
    <3> QED  BY <1>5, <2>1, <2>2, <2>3, <3>1
  <2>6. AnswersReachWant'
    <3> SUFFICES ASSUME NEW s \in Slots
                 PROVE  /\ fetch[s].at = "rev" => fetch[s].want <= announced'
                        /\ fetch[s].at \in {"lookup", "read", "store"} =>
                             fetch[s].rev <= rev + 1 /\ fetch[s].want <= floor'[fetch[s].rev]
                        /\ fetch[s].at = "store" => fetch[s].page >= floor'[fetch[s].rev]
                        /\ fetch[s].at = "done" => fetch[s].page >= fetch[s].want
      BY <1>1, <1>2 DEF AnswersReachWant
    <3>1. fetch[s].at \in {"lookup", "read", "store"} =>
            fetch[s].rev \in Revs /\ fetch[s].rev <= rev /\ floor'[fetch[s].rev] = floor[fetch[s].rev]
      BY <1>9, <2>1, <2>2, FetchShape DEF IInv, AnswersReachWant, TypeOK
    <3>2. fetch[s].at = "rev" => fetch[s].want \in Nat /\ fetch[s].want <= announced
      BY <1>9, FetchShape, CacheAssumption DEF IInv, AnswersReachWant, TypeOK, Pages
    <3> QED  BY <1>5, <1>6, <1>9, <2>3, <3>1, <3>2 DEF IInv, AnswersReachWant
  <2> QED  BY <2>4, <2>5, <2>6
<1> QED  BY <1>1, <1>5, <1>7, <1>8, <1>9 DEF IInv

LEMMA CountInMemoryKeeps ==
  ASSUME IInv, NEW v \in Changes, CountInMemory(v), UNCHANGED screens
  PROVE  IInv'
<1>1. UNCHANGED <<primary, reach, shared, memory, fetch, announced, floor, split>>
      /\ UNCHANGED <<asks, stream, dirty, shown, events>>
  BY DEF CountInMemory, screens
<1>2. PICK p \in Procs : /\ bump[v].at = "incr" /\ ~reach[p] /\ rev' \in {rev, rev + 1}
                         /\ memoryRev' = [memoryRev EXCEPT ![p] = @ + 1]
  BY BumpShape DEF CountInMemory, IInv, TypeOK
<1>3. /\ bump' \in [Changes -> Bump] /\ bump'[v].at = "done"
      /\ \A w \in Changes : w # v => bump'[w] = bump[w]
  BY DEF CountInMemory, Counted, IInv, TypeOK, CacheTypeOK, Bump
<1>4. /\ Cardinality(CountedChanges') = Cardinality(CountedChanges) + 1
      /\ Cardinality(CountedChanges') <= MaxChanges
      /\ Cardinality(CountedChanges) \in Nat
  BY <1>2, <1>3, CountOneMore DEF IInv
<1>5. RevsBounded' /\ rev' \in Revs /\ memoryRev' \in [Procs -> Revs]
  <2>1. MaxChanges \in Nat /\ rev \in Nat /\ \A q \in Procs : memoryRev[q] \in Nat
    BY CacheAssumption DEF IInv, TypeOK, CacheTypeOK, Revs
  <2>2. rev' \in Nat /\ rev' <= Cardinality(CountedChanges')
    BY <1>2, <1>4, <2>1 DEF IInv, RevsBounded
  <2>3. \A q \in Procs : memoryRev'[q] \in Nat /\ memoryRev'[q] <= Cardinality(CountedChanges')
    BY <1>2, <1>4, <2>1 DEF IInv, RevsBounded, TypeOK, CacheTypeOK
  <2>4. rev' \in Revs /\ \A q \in Procs : memoryRev'[q] \in Revs
    BY <1>4, <2>1, <2>2, <2>3 DEF Revs
  <2> QED  BY <1>2, <2>2, <2>3, <2>4 DEF RevsBounded, IInv, TypeOK, CacheTypeOK
<1>6. TypeOK'
  BY <1>1, <1>3, <1>5 DEF IInv, TypeOK, CacheTypeOK
<1>7. AnnouncedWasCommitted'
  BY <1>1, <1>2, <1>3 DEF IInv, AnnouncedWasCommitted
<1> QED  BY <1>1, <1>2, <1>5, <1>6, <1>7 DEF IInv

LEMMA PublishKeeps ==
  ASSUME IInv, NEW v \in Changes, Publish(v) \/ PublishFails(v)
  PROVE  IInv'
<1>1. UNCHANGED <<primary, rev, reach, memoryRev, shared, memory, fetch, announced, floor, split>>
      /\ UNCHANGED <<asks, stream, shown, events>>
  BY DEF Publish, PublishFails, screens
<1>2. bump[v].at = "publish"
  BY DEF Publish, PublishFails, MayPublish
<1>3. /\ bump' \in [Changes -> Bump] /\ bump'[v].at = "done"
      /\ \A w \in Changes : w # v => bump'[w] = bump[w]
  <2>1. bump' = [bump EXCEPT ![v] = [at |-> "done"]]
    BY <1>2 DEF Publish, PublishFails, Published, IInv, TypeOK, CacheTypeOK
  <2>2. [at |-> "done"] \in Bump
    BY DEF Bump
  <2> QED  BY <2>1, <2>2 DEF IInv, TypeOK, CacheTypeOK
<1>4. dirty' \in [Screens -> Pages] /\ \A c \in Screens : dirty'[c] \in {dirty[c], v}
  <2>1. v \in Pages
    BY CacheAssumption DEF Changes, Pages
  <2>2. CASE Publish(v)
    BY <2>1, <2>2 DEF Publish, IInv, TypeOK
  <2>3. CASE PublishFails(v)
    BY <2>3 DEF PublishFails, screens, IInv, TypeOK
  <2> QED  BY <2>2, <2>3
<1>5. TypeOK'
  BY <1>1, <1>3, <1>4 DEF IInv, TypeOK, CacheTypeOK
<1>6. CountedChanges' = CountedChanges
  BY <1>2, <1>3 DEF CountedChanges
<1>7. RevsBounded' /\ AnnouncedWasCommitted'
  BY <1>1, <1>2, <1>3, <1>6 DEF IInv, RevsBounded, AnnouncedWasCommitted
<1>8. ~split => FloorsRise' /\ PagesKeepFloor' /\ AnswersReachWant'
  BY <1>1, <1>2, <1>3, <1>4 DEF IInv, FloorsRise, PagesKeepFloor, AnswersReachWant
<1> QED  BY <1>1, <1>5, <1>7, <1>8 DEF IInv
----------------------------------------------------------------------------
(* Requests.                                                               *)

world == <<primary, bump, rev, reach, memoryRev, announced, floor, split>>

\* One request moves and what it says stays right; a message may be forgotten.
LEMMA FetchMoves ==
  ASSUME IInv, TypeOK', NEW s \in Slots, UNCHANGED world,
         \A z \in Slots : z # s => fetch'[z] = fetch[z],
         \A c \in Screens : dirty'[c] \in {dirty[c], 0},
         ~split =>
           /\ \A r \in Revs : shared'[r] # None => r <= rev /\ shared'[r] >= floor[r]
           /\ fetch'[s].at = "rev" => fetch'[s].want <= announced
           /\ fetch'[s].at \in {"lookup", "read", "store"} =>
                fetch'[s].rev <= rev /\ fetch'[s].want <= floor[fetch'[s].rev]
           /\ fetch'[s].at = "store" => fetch'[s].page >= floor[fetch'[s].rev]
           /\ fetch'[s].at = "done" => fetch'[s].page >= fetch'[s].want
  PROVE  IInv'
<1>1. RevsBounded' /\ AnnouncedWasCommitted'
  BY CountsStill DEF world
<1>2. ASSUME ~split PROVE FloorsRise' /\ PagesKeepFloor' /\ AnswersReachWant'
  <2>1. announced \in Nat
    BY CacheAssumption DEF IInv, TypeOK, CacheTypeOK, Pages
  <2>2. FloorsRise'
    BY <1>2, <2>1 DEF IInv, FloorsRise, world
  <2>3. PagesKeepFloor'
    BY <1>2 DEF PagesKeepFloor, world
  <2>4. AnswersReachWant'
    BY <1>2 DEF IInv, AnswersReachWant, world
  <2> QED  BY <2>2, <2>3, <2>4
<1>3. ~split' => \A p \in Procs : reach'[p]
  BY DEF IInv, world
<1>4. split' = split
  BY DEF world
<1> QED  BY <1>1, <1>2, <1>3, <1>4 DEF IInv

LEMMA RefreshKeeps ==
  ASSUME IInv, NEW c \in Screens, NEW s \in Slots, NEW p \in Procs, Refresh(c, s, p)
  PROVE  IInv'
<1>1. UNCHANGED <<primary, bump, rev, reach, memoryRev, shared, memory, announced, floor, split,
                  stream, shown, events>>
  BY DEF Refresh
<1>2. Wanted(c) \in Pages /\ (~split => Wanted(c) <= announced)
  <2>1. announced \in Pages /\ dirty[c] \in Pages /\ 0 \in Pages /\ announced \in Nat
    BY CacheAssumption DEF IInv, TypeOK, CacheTypeOK, Pages
  <2>2. ~split => dirty[c] <= announced
    BY DEF IInv, FloorsRise
  <2> QED  BY <2>1, <2>2 DEF Wanted
<1>3. /\ fetch' \in [Slots -> Fetch]
      /\ fetch'[s] = [at |-> "rev", proc |-> p, want |-> Wanted(c)]
      /\ \A z \in Slots : z # s => fetch'[z] = fetch[z]
  <2>1. fetch' = [fetch EXCEPT ![s] = [at |-> "rev", proc |-> p, want |-> Wanted(c)]]
    BY DEF Refresh, Ask
  <2>2. [at |-> "rev", proc |-> p, want |-> Wanted(c)] \in Fetch
    BY <1>2 DEF Fetch
  <2> QED  BY <2>1, <2>2 DEF IInv, TypeOK, CacheTypeOK
<1>4. /\ asks' \in [Slots -> Screens \cup {None}]
      /\ dirty' \in [Screens -> Pages] /\ \A d \in Screens : dirty'[d] \in {dirty[d], 0}
  BY CacheAssumption DEF Refresh, IInv, TypeOK, Pages
<1>5. TypeOK'
  BY <1>1, <1>3, <1>4 DEF IInv, TypeOK, CacheTypeOK
<1>6. ~split => \A r \in Revs : shared'[r] # None => r <= rev /\ shared'[r] >= floor[r]
  BY <1>1 DEF IInv, PagesKeepFloor
<1> QED  BY <1>1, <1>2, <1>3, <1>4, <1>5, <1>6, FetchMoves DEF world

\* The steps of getQueue itself.
LEMMA FetchStepKeeps ==
  ASSUME IInv, NEW s \in Slots, FetchStep(s), UNCHANGED screens
  PROVE  IInv'
<1> DEFINE f == fetch[s]
<1>1. UNCHANGED world /\ UNCHANGED <<asks, stream, dirty, shown, events>>
  BY DEF FetchStep, ReadRev, Lookup, ReadOrders, Store, world, screens
<1>2. /\ rev \in Revs /\ primary \in Pages /\ announced \in Nat /\ primary \in Nat
      /\ \A r \in Revs : floor[r] \in Nat
      /\ None \notin Pages /\ Pages \subseteq Nat
  BY CacheAssumption DEF IInv, TypeOK, CacheTypeOK, Pages, Revs
<1>3. f.at \in {"rev", "lookup", "read", "store"}
  BY DEF FetchStep, ReadRev, Lookup, ReadOrders, Store
<1>4. f.want \in Pages /\ f.proc \in Procs
  BY <1>3, FetchShape DEF IInv, TypeOK
<1>5. ~split => \A r \in Revs : shared[r] # None => r <= rev /\ shared[r] >= floor[r]
  BY DEF IInv, PagesKeepFloor
<1>6. CASE ReadRev(s)
  <2>1. PICK r \in Revs : /\ fetch' = [fetch EXCEPT ![s] = [at |-> "lookup", proc |-> f.proc,
                                                             want |-> f.want, rev |-> r]]
                          /\ reach[f.proc] => r = rev
    BY <1>2, <1>4, <1>6 DEF ReadRev, IInv, TypeOK, CacheTypeOK
  <2>2. [at |-> "lookup", proc |-> f.proc, want |-> f.want, rev |-> r] \in Fetch
    BY <1>4 DEF Fetch
  <2>3. /\ fetch' \in [Slots -> Fetch] /\ \A z \in Slots : z # s => fetch'[z] = fetch[z]
        /\ fetch'[s] = [at |-> "lookup", proc |-> f.proc, want |-> f.want, rev |-> r]
    BY <2>1, <2>2 DEF IInv, TypeOK, CacheTypeOK
  <2>4. UNCHANGED <<shared, memory>>
    BY <1>6 DEF ReadRev
  <2>5. TypeOK'
    BY <1>1, <2>3, <2>4 DEF IInv, TypeOK, CacheTypeOK, world
  <2>6. ~split => r <= rev /\ f.want <= floor[r]
    <3>1. ~split => reach[f.proc] /\ f.want <= announced /\ floor[rev] = announced
      BY <1>4, <1>6 DEF ReadRev, IInv, AnswersReachWant, FloorsRise
    <3> QED  BY <1>2, <2>1, <3>1 DEF Revs
  <2> QED  BY <1>1, <1>5, <2>3, <2>4, <2>5, <2>6, FetchMoves
<1>7. CASE Lookup(s)
  <2>1. f.rev \in Revs /\ UNCHANGED <<shared, memory>>
    BY <1>7, FetchShape DEF Lookup, IInv, TypeOK
  <2>2. ~split => f.rev <= rev /\ f.want <= floor[f.rev]
    BY <1>7 DEF Lookup, IInv, AnswersReachWant
  <2>3. PICK page \in Found(f) :
          fetch' = [fetch EXCEPT ![s] =
            IF page = None THEN [at |-> "read", proc |-> f.proc, want |-> f.want, rev |-> f.rev]
            ELSE Answered(f, page)]
    BY <1>7 DEF Lookup
  <2>4. page \in Pages \cup {None}
    BY <1>4, <2>1 DEF Found, IInv, TypeOK, CacheTypeOK
  <2>5. CASE page = None
    <3>1. [at |-> "read", proc |-> f.proc, want |-> f.want, rev |-> f.rev] \in Fetch
      BY <1>4, <2>1 DEF Fetch
    <3>2. /\ fetch' \in [Slots -> Fetch] /\ \A z \in Slots : z # s => fetch'[z] = fetch[z]
          /\ fetch'[s] = [at |-> "read", proc |-> f.proc, want |-> f.want, rev |-> f.rev]
      BY <2>3, <2>5, <3>1 DEF IInv, TypeOK, CacheTypeOK
    <3>3. TypeOK'
      BY <1>1, <2>1, <3>2 DEF IInv, TypeOK, CacheTypeOK, world
    <3> QED  BY <1>1, <1>5, <2>1, <2>2, <3>2, <3>3, FetchMoves
  <2>6. CASE page # None
    <3>1. Answered(f, page) \in Fetch
      BY <1>4, <2>4, <2>6 DEF Fetch, Answered
    <3>2. /\ fetch' \in [Slots -> Fetch] /\ \A z \in Slots : z # s => fetch'[z] = fetch[z]
          /\ fetch'[s] = [at |-> "done", want |-> f.want, page |-> page]
      BY <2>3, <2>6, <3>1 DEF IInv, TypeOK, CacheTypeOK, Answered
    <3>3. TypeOK'
      BY <1>1, <2>1, <3>2 DEF IInv, TypeOK, CacheTypeOK, world
    <3>4. ~split => page >= floor[f.rev]
      BY <1>4, <1>5, <2>1, <2>3, <2>6 DEF Found, IInv
    <3>5. ~split => page >= f.want
      <4>1. page \in Nat /\ f.want \in Nat /\ floor[f.rev] \in Nat
        BY <1>2, <1>4, <2>1, <2>4, <2>6
      <4> HIDE DEF f
      <4> QED  BY <4>1, <2>2, <3>4
    <3> QED  BY <1>1, <1>5, <2>1, <3>2, <3>3, <3>5, FetchMoves
  <2> QED  BY <2>5, <2>6
<1>8. CASE ReadOrders(s)
  <2>1. f.rev \in Revs /\ UNCHANGED <<shared, memory>>
    BY <1>8, FetchShape DEF ReadOrders, IInv, TypeOK
  <2>2. ~split => f.rev <= rev /\ f.want <= floor[f.rev]
    BY <1>8 DEF ReadOrders, IInv, AnswersReachWant
  <2>3. [at |-> "store", proc |-> f.proc, want |-> f.want, rev |-> f.rev, page |-> primary] \in Fetch
    BY <1>2, <1>4, <2>1 DEF Fetch
  <2>4. /\ fetch' \in [Slots -> Fetch] /\ \A z \in Slots : z # s => fetch'[z] = fetch[z]
        /\ fetch'[s] = [at |-> "store", proc |-> f.proc, want |-> f.want, rev |-> f.rev, page |-> primary]
    BY <1>8, <2>3 DEF ReadOrders, IInv, TypeOK, CacheTypeOK
  <2>5. TypeOK'
    BY <1>1, <2>1, <2>4 DEF IInv, TypeOK, CacheTypeOK, world
  <2>6. ~split => primary >= floor[f.rev]
    <3>1. ~split => floor[f.rev] <= floor[rev] /\ floor[rev] = announced
      BY <1>2, <2>1, <2>2 DEF IInv, FloorsRise, Revs
    <3>2. announced <= primary
      BY DEF IInv, AnnouncedWasCommitted
    <3> QED  BY <1>2, <2>1, <3>1, <3>2
  <2> QED  BY <1>1, <1>5, <2>1, <2>2, <2>4, <2>5, <2>6, FetchMoves
<1>9. CASE Store(s)
  <2>1. f.rev \in Revs /\ f.page \in Pages
    BY <1>9, FetchShape DEF Store, IInv, TypeOK
  <2>2. ~split => f.rev <= rev /\ f.want <= floor[f.rev] /\ f.page >= floor[f.rev]
    BY <1>9 DEF Store, IInv, AnswersReachWant
  <2>3. Answered(f, f.page) \in Fetch
    BY <1>4, <2>1 DEF Fetch, Answered
  <2>4. /\ fetch' \in [Slots -> Fetch] /\ \A z \in Slots : z # s => fetch'[z] = fetch[z]
        /\ fetch'[s] = [at |-> "done", want |-> f.want, page |-> f.page]
    BY <1>9, <2>3 DEF Store, Answered, IInv, TypeOK, CacheTypeOK
  <2>5. \/ shared' = [shared EXCEPT ![f.rev] = f.page] /\ UNCHANGED memory
        \/ memory' = [memory EXCEPT ![f.proc][f.rev] = f.page] /\ UNCHANGED shared
    BY <1>9 DEF Store, StoreKey
  <2>6. shared' \in [Revs -> Pages \cup {None}] /\ memory' \in [Procs -> [Revs -> Pages \cup {None}]]
    <3>1. CASE shared' = [shared EXCEPT ![f.rev] = f.page] /\ UNCHANGED memory
      BY <2>1, <3>1 DEF IInv, TypeOK, CacheTypeOK
    <3>2. CASE memory' = [memory EXCEPT ![f.proc][f.rev] = f.page] /\ UNCHANGED shared
      BY <1>4, <2>1, <3>2 DEF IInv, TypeOK, CacheTypeOK
    <3> QED  BY <2>5, <3>1, <3>2
  <2>7. TypeOK'
    BY <1>1, <2>4, <2>6 DEF IInv, TypeOK, CacheTypeOK, world
  <2>8. ~split => \A r \in Revs : shared'[r] # None => r <= rev /\ shared'[r] >= floor[r]
    <3>1. \A r \in Revs : shared'[r] \in {shared[r]} \cup (IF r = f.rev THEN {f.page} ELSE {})
      BY <2>1, <2>5 DEF IInv, TypeOK, CacheTypeOK
    <3> QED  BY <1>5, <2>1, <2>2, <3>1
  <2>9. ~split => f.page >= f.want
    <3>1. f.page \in Nat /\ f.want \in Nat /\ floor[f.rev] \in Nat
      BY <1>2, <1>4, <2>1
    <3> HIDE DEF f
    <3> QED  BY <3>1, <2>2
  <2> QED  BY <1>1, <2>4, <2>7, <2>8, <2>9, FetchMoves
<1> QED  BY <1>6, <1>7, <1>8, <1>9 DEF FetchStep

LEMMA ReleaseKeeps ==
  ASSUME IInv, NEW s \in Slots, Show(s) \/ RefreshFails(s)
  PROVE  IInv'
<1>1. UNCHANGED <<primary, bump, rev, reach, memoryRev, shared, memory, announced, floor, split,
                  stream, dirty>>
  BY DEF Show, RefreshFails
<1>2. /\ fetch' \in [Slots -> Fetch] /\ fetch'[s] = Idle
      /\ \A z \in Slots : z # s => fetch'[z] = fetch[z]
      /\ asks' \in [Slots -> Screens \cup {None}]
  BY DEF Show, RefreshFails, Released, IInv, TypeOK, CacheTypeOK, Fetch
<1>3. shown' \in [Screens -> Pages]
  <2>1. CASE Show(s)
    <3>1. fetch[s].page \in Pages
      BY <2>1, FetchShape DEF Show, IInv, TypeOK
    <3> QED  BY <2>1, <3>1 DEF Show, IInv, TypeOK
  <2>2. CASE RefreshFails(s)
    BY <2>2 DEF RefreshFails, IInv, TypeOK
  <2> QED  BY <2>1, <2>2
<1>4. events' \in 0..MaxEvents
  BY ScreenAssumption DEF Show, RefreshFails, Event, IInv, TypeOK
<1>5. TypeOK'
  BY <1>1, <1>2, <1>3, <1>4 DEF IInv, TypeOK, CacheTypeOK
<1>6. ~split => \A r \in Revs : shared'[r] # None => r <= rev /\ shared'[r] >= floor[r]
  BY <1>1 DEF IInv, PagesKeepFloor
<1> QED  BY <1>1, <1>2, <1>5, <1>6, FetchMoves DEF world, Idle
----------------------------------------------------------------------------
(* Streams, time and faults.                                               *)

LEMMA StreamKeeps ==
  ASSUME IInv, NEW c \in Screens, CloseStream(c) \/ \E p \in Procs : OpenStream(c, p)
  PROVE  IInv'
<1>1. UNCHANGED <<primary, bump, rev, reach, memoryRev, shared, memory, fetch, announced, floor,
                  split, asks, shown>>
  BY DEF CloseStream, OpenStream, cache
<1>2. stream' \in [Screens -> {"closed", "live", "deaf"}] /\ events' \in 0..MaxEvents
  BY ScreenAssumption DEF CloseStream, OpenStream, Event, IInv, TypeOK
<1>3. dirty' \in [Screens -> Pages] /\ \A d \in Screens : dirty'[d] \in {dirty[d], 0}
  BY CacheAssumption DEF CloseStream, OpenStream, IInv, TypeOK, Pages
<1>4. TypeOK'
  BY <1>1, <1>2, <1>3 DEF IInv, TypeOK, CacheTypeOK
<1>5. RevsBounded' /\ AnnouncedWasCommitted'
  BY <1>1, CountsStill
<1>6. ~split => FloorsRise' /\ PagesKeepFloor' /\ AnswersReachWant'
  <2>1. announced \in Nat
    BY CacheAssumption DEF IInv, TypeOK, CacheTypeOK, Pages
  <2> QED  BY <1>1, <1>3, <2>1 DEF IInv, FloorsRise, PagesKeepFloor, AnswersReachWant
<1> QED  BY <1>1, <1>4, <1>5, <1>6 DEF IInv

LEMMA ExpireKeeps ==
  ASSUME IInv, Expire, UNCHANGED screens
  PROVE  IInv'
<1>1. UNCHANGED <<primary, bump, rev, reach, memoryRev, fetch, announced, floor, split>>
      /\ UNCHANGED <<asks, stream, dirty, shown, events>>
  BY DEF Expire, ExpireShared, ExpireMemory, screens
<1>2. PICK r \in Revs :
        \/ shared' = [shared EXCEPT ![r] = None] /\ UNCHANGED memory
        \/ \E p \in Procs : memory' = [memory EXCEPT ![p][r] = None] /\ UNCHANGED shared
  BY DEF Expire, ExpireShared, ExpireMemory
<1>3. /\ shared' \in [Revs -> Pages \cup {None}] /\ memory' \in [Procs -> [Revs -> Pages \cup {None}]]
      /\ \A q \in Revs : shared'[q] \in {shared[q], None}
  <2>1. CASE shared' = [shared EXCEPT ![r] = None] /\ UNCHANGED memory
    BY <2>1 DEF IInv, TypeOK, CacheTypeOK
  <2>2. CASE \E p \in Procs : memory' = [memory EXCEPT ![p][r] = None] /\ UNCHANGED shared
    <3>1. PICK p \in Procs : memory' = [memory EXCEPT ![p][r] = None]
      BY <2>2
    <3> QED  BY <2>2, <3>1 DEF IInv, TypeOK, CacheTypeOK
  <2> QED  BY <1>2, <2>1, <2>2
<1>4. TypeOK'
  BY <1>1, <1>3 DEF IInv, TypeOK, CacheTypeOK
<1>5. RevsBounded' /\ AnnouncedWasCommitted'
  BY <1>1, CountsStill
<1>6. ~split => FloorsRise' /\ AnswersReachWant'
  BY <1>1 DEF IInv, FloorsRise, AnswersReachWant
<1>7. ~split => PagesKeepFloor'
  BY <1>1, <1>3 DEF IInv, PagesKeepFloor
<1> QED  BY <1>1, <1>4, <1>5, <1>6, <1>7 DEF IInv

LEMMA RedisKeeps ==
  ASSUME IInv, NEW p \in Procs,
         \/ Reconnect(p) /\ UNCHANGED screens
         \/ LoseRedis(p) /\ Event /\ UNCHANGED <<asks, stream, dirty, shown>>
  PROVE  IInv'
<1>1. UNCHANGED <<primary, bump, rev, memoryRev, shared, memory, fetch, announced, floor>>
      /\ UNCHANGED <<asks, stream, dirty, shown>>
  BY DEF Reconnect, LoseRedis, screens
<1>2. /\ reach' \in [Procs -> BOOLEAN] /\ split' \in BOOLEAN /\ events' \in 0..MaxEvents
      /\ split'
  <2>1. CASE Reconnect(p) /\ UNCHANGED screens
    <3>1. ~reach[p]
      BY <2>1 DEF Reconnect
    <3> QED  BY <2>1, <3>1 DEF Reconnect, screens, IInv, TypeOK, CacheTypeOK
  <2>2. CASE LoseRedis(p) /\ Event
    BY <2>2, ScreenAssumption DEF LoseRedis, Event, IInv, TypeOK, CacheTypeOK
  <2> QED  BY <2>1, <2>2
<1>3. TypeOK'
  BY <1>1, <1>2 DEF IInv, TypeOK, CacheTypeOK
<1>4. RevsBounded' /\ AnnouncedWasCommitted'
  BY <1>1, CountsStill
<1> QED  BY <1>2, <1>3, <1>4 DEF IInv

LEMMA RestartKeeps ==
  ASSUME IInv, NEW p \in Procs, Restart(p), Event, UNCHANGED <<stream, dirty, shown>>,
         asks' = [s \in Slots |-> IF fetch'[s] = Idle THEN None ELSE asks[s]]
  PROVE  IInv'
<1>1. UNCHANGED <<primary, rev, shared, announced, floor>> /\ split'
  BY DEF Restart
<1>2. 0 \in Revs
  BY CacheAssumption DEF Revs
<1>3. /\ reach' \in [Procs -> BOOLEAN] /\ split' \in BOOLEAN /\ events' \in 0..MaxEvents
      /\ asks' \in [Slots -> Screens \cup {None}]
  BY ScreenAssumption DEF Restart, Event, IInv, TypeOK, CacheTypeOK
<1>4. /\ memoryRev' \in [Procs -> Revs] /\ memoryRev' = [memoryRev EXCEPT ![p] = 0]
      /\ memory' \in [Procs -> [Revs -> Pages \cup {None}]]
  BY <1>2 DEF Restart, IInv, TypeOK, CacheTypeOK
<1>5. fetch' \in [Slots -> Fetch]
  BY DEF Restart, Fetch, IInv, TypeOK, CacheTypeOK
<1>6. /\ bump' \in [Changes -> Bump]
      /\ \A v \in Changes : bump'[v] = bump[v] \/ (bump'[v].at = "done" /\ Due(v))
  BY DEF Restart, Bump, IInv, TypeOK, CacheTypeOK
<1>7. TypeOK'
  BY <1>1, <1>3, <1>4, <1>5, <1>6 DEF IInv, TypeOK, CacheTypeOK
<1>8. /\ Cardinality(CountedChanges) <= Cardinality(CountedChanges')
      /\ Cardinality(CountedChanges) \in Nat /\ Cardinality(CountedChanges') \in Nat
  BY <1>6, CountGrows DEF IInv, Due
<1>9. RevsBounded'
  <2>1. rev \in Nat /\ \A q \in Procs : memoryRev[q] \in Nat /\ memoryRev'[q] \in {memoryRev[q], 0}
    BY <1>4, CacheAssumption DEF IInv, TypeOK, CacheTypeOK, Revs
  <2> QED  BY <1>1, <1>8, <2>1 DEF IInv, RevsBounded
<1>10. AnnouncedWasCommitted'
  BY <1>1, <1>6 DEF IInv, AnnouncedWasCommitted, Due
<1> QED  BY <1>1, <1>7, <1>9, <1>10 DEF IInv

----------------------------------------------------------------------------
(* The theorems.                                                           *)

LEMMA StepKeeps == IInv /\ [Next]_vars => IInv'
<1> SUFFICES ASSUME IInv, [Next]_vars PROVE IInv'
  OBVIOUS
<1>1. ASSUME NEW v \in Changes, Announce(v) PROVE IInv'
  BY <1>1, IncrKeeps, CountInMemoryKeeps, PublishKeeps DEF Announce
<1>2. ASSUME NEW s \in Slots, Answer(s) PROVE IInv'
  BY <1>2, ReleaseKeeps, FetchStepKeeps DEF Answer
<1>3. ASSUME NEW c \in Screens, Screen(c) PROVE IInv'
  BY <1>3, RefreshKeeps, StreamKeeps DEF Screen, Poll
<1>4. CASE Surroundings
  <2>1. ASSUME NEW p \in Procs, (Change(p) \/ Reconnect(p)) /\ UNCHANGED screens PROVE IInv'
    BY <2>1, ChangeKeeps, RedisKeeps
  <2>2. ASSUME NEW p \in Frail, ProcessFault(p) PROVE IInv'
    <3>1. p \in Procs
      BY ScreenAssumption
    <3>2. UNCHANGED <<stream, dirty, shown>> /\ Event
      BY <2>2 DEF ProcessFault
    <3>3. CASE LoseRedis(p) /\ UNCHANGED asks
      BY <3>1, <3>2, <3>3, RedisKeeps
    <3>4. CASE Restart(p) /\ asks' = [s \in Slots |-> IF fetch'[s] = Idle THEN None ELSE asks[s]]
      BY <3>1, <3>2, <3>4, RestartKeeps
    <3> QED  BY <2>2, <3>3, <3>4 DEF ProcessFault
  <2>3. CASE Expire /\ UNCHANGED screens
    BY <2>3, ExpireKeeps
  <2>4. ASSUME NEW s \in Slots, RefreshFails(s) PROVE IInv'
    BY <2>4, ReleaseKeeps
  <2> QED  BY <1>4, <2>1, <2>2, <2>3, <2>4 DEF Surroundings
<1>5. CASE UNCHANGED vars
  <2>1. UNCHANGED <<primary, bump, rev, reach, memoryRev, shared, memory, fetch, announced, floor,
                    split, asks, stream, dirty, shown, events>>
    BY <1>5 DEF vars, cache, screens
  <2>2. TypeOK'
    BY <2>1 DEF IInv, TypeOK, CacheTypeOK
  <2>3. RevsBounded' /\ AnnouncedWasCommitted'
    BY <2>1, CountsStill
  <2> QED  BY <2>1, <2>2, <2>3 DEF IInv, FloorsRise, PagesKeepFloor, AnswersReachWant
<1> QED  BY <1>1, <1>2, <1>3, <1>4, <1>5 DEF Next

THEOREM Invariant == Spec => []IInv
<1> QED  BY InitIInv, StepKeeps, PTL DEF Spec

\* The cache and the screens stay in the states the model gives them: no
\* revision runs past the changes that were made, in Redis or in any process.
THEOREM ScreensTyped == Spec => []TypeOK
<1>1. IInv => TypeOK
  BY DEF IInv
<1> QED  BY <1>1, Invariant, PTL

\* As long as Redis is there, an answer of getQueue contains every change whose
\* revision was counted before the question.
THEOREM NoOldPageServed == Spec => []Fresh
<1>1. IInv => Fresh
  BY DEF IInv, Fresh, AnswersReachWant
<1> QED  BY <1>1, Invariant, PTL

----------------------------------------------------------------------------
(* No page is ahead of the database, also while caches are apart.          *)

Committed(page) == page # None => page <= primary

PagesBehind ==
  /\ \A r \in Revs : Committed(shared[r])
  /\ \A p \in Procs, r \in Revs : Committed(memory[p][r])
  /\ \A s \in Slots : fetch[s].at \in {"store", "done"} => fetch[s].page <= primary

questionOf == [s \in Slots |-> IF fetch[s] = Idle THEN Idle ELSE Asked(s)]

\* Other requests are as they were, and pages, old or new, are committed.
LEMMA PagesMove ==
  ASSUME IInv, TypeOK', PagesBehind, NEW s \in Slots, primary' = primary,
         \A z \in Slots : z # s => fetch'[z] = fetch[z],
         fetch'[s].at \in {"store", "done"} => fetch'[s].page <= primary,
         \A r \in Revs : shared'[r] = shared[r] \/ Committed(shared'[r]),
         \A p \in Procs, r \in Revs : memory'[p][r] = memory[p][r] \/ Committed(memory'[p][r])
  PROVE  PagesBehind'
BY DEF PagesBehind, Committed

\* The steps of getQueue change the question of nobody.
LEMMA FetchStepBehind ==
  ASSUME IInv, IInv', PagesBehind, NEW s \in Slots, FetchStep(s), UNCHANGED screens
  PROVE  PagesBehind' /\ questionOf' = questionOf
<1> DEFINE f == fetch[s]
<1>1. TypeOK' /\ CacheTypeOK /\ primary \in Nat /\ None \notin Pages
  BY CacheAssumption DEF IInv, TypeOK, CacheTypeOK, Pages
<1>2. primary' = primary /\ asks' = asks
  BY DEF FetchStep, ReadRev, Lookup, ReadOrders, Store, screens
<1>3. f.at \in {"rev", "lookup", "read", "store"} /\ f.want \in Pages /\ f.proc \in Procs
  BY <1>1, FetchShape DEF FetchStep, ReadRev, Lookup, ReadOrders, Store
<1>4. /\ fetch'[s].want = f.want
      /\ fetch'[s].at \in {"lookup", "read", "store", "done"}
      /\ fetch'[s].at \in {"store", "done"} => fetch'[s].page <= primary
      /\ \A z \in Slots : z # s => fetch'[z] = fetch[z]
  <2>1. CASE ReadRev(s)
    <3>1. PICK r : fetch' = [fetch EXCEPT ![s] = [at |-> "lookup", proc |-> f.proc,
                                                   want |-> f.want, rev |-> r]]
      BY <2>1 DEF ReadRev
    <3> QED  BY <1>1, <3>1 DEF CacheTypeOK
  <2>2. CASE Lookup(s)
    <3>1. f.rev \in Revs
      BY <1>1, <2>2, FetchShape DEF Lookup
    <3>2. PICK page \in Found(f) :
            fetch' = [fetch EXCEPT ![s] =
              IF page = None THEN [at |-> "read", proc |-> f.proc, want |-> f.want, rev |-> f.rev]
              ELSE Answered(f, page)]
      BY <2>2 DEF Lookup
    <3>3. page # None => page <= primary
      BY <1>3, <3>1, <3>2 DEF Found, PagesBehind, Committed
    <3>4. CASE page = None
      BY <1>1, <3>2, <3>4 DEF CacheTypeOK
    <3>5. CASE page # None
      BY <1>1, <3>2, <3>3, <3>5 DEF Answered, CacheTypeOK
    <3> QED  BY <3>4, <3>5
  <2>3. CASE ReadOrders(s)
    <3>1. fetch' = [fetch EXCEPT ![s] = [at |-> "store", proc |-> f.proc, want |-> f.want,
                                         rev |-> f.rev, page |-> primary]]
      BY <2>3 DEF ReadOrders
    <3> QED  BY <1>1, <3>1 DEF CacheTypeOK
  <2>4. CASE Store(s)
    <3>1. fetch' = [fetch EXCEPT ![s] = Answered(f, f.page)] /\ f.page <= primary
      BY <2>4 DEF Store, PagesBehind
    <3> QED  BY <1>1, <3>1 DEF Answered, CacheTypeOK
  <2> QED  BY <2>1, <2>2, <2>3, <2>4 DEF FetchStep
<1>5. fetch'[s] # Idle /\ f # Idle
  BY <1>3, <1>4 DEF Idle
<1>6. /\ \A r \in Revs : shared'[r] = shared[r] \/ Committed(shared'[r])
      /\ \A p \in Procs, r \in Revs : memory'[p][r] = memory[p][r] \/ Committed(memory'[p][r])
  <2>1. CASE UNCHANGED <<shared, memory>>
    BY <2>1
  <2>2. CASE Store(s)
    <3>1. f.page <= primary /\ f.page \in Pages /\ f.rev \in Revs
      BY <1>1, <2>2, FetchShape DEF Store, PagesBehind
    <3>2. \/ shared' = [shared EXCEPT ![f.rev] = f.page] /\ UNCHANGED memory
          \/ memory' = [memory EXCEPT ![f.proc][f.rev] = f.page] /\ UNCHANGED shared
      BY <2>2 DEF Store, StoreKey
    <3>3. CASE shared' = [shared EXCEPT ![f.rev] = f.page] /\ UNCHANGED memory
      BY <1>1, <3>1, <3>3 DEF CacheTypeOK, Committed
    <3>4. CASE memory' = [memory EXCEPT ![f.proc][f.rev] = f.page] /\ UNCHANGED shared
      BY <1>1, <1>3, <3>1, <3>4 DEF CacheTypeOK, Committed
    <3> QED  BY <3>2, <3>3, <3>4
  <2> QED  BY <2>1, <2>2 DEF FetchStep, ReadRev, Lookup, ReadOrders
<1>7. PagesBehind'
  BY <1>1, <1>2, <1>4, <1>6, PagesMove
<1>8. questionOf' = questionOf
  <2>1. \A z \in Slots : (fetch'[z] = Idle <=> fetch[z] = Idle) /\ Asked(z)' = Asked(z)
    BY <1>2, <1>4, <1>5 DEF Asked
  <2> QED  BY <2>1 DEF questionOf
<1> QED  BY <1>7, <1>8


\* Pages and requests go at most.
LEMMA StillBehind ==
  ASSUME IInv, IInv', PagesBehind, primary <= primary',
         \A r \in Revs : shared'[r] \in {shared[r], None},
         \A p \in Procs, r \in Revs : memory'[p][r] \in {memory[p][r], None},
         \A s \in Slots : fetch'[s] = fetch[s] \/ fetch'[s].at \in {"idle", "rev"}
  PROVE  PagesBehind'
<1>1. /\ primary \in Nat /\ primary' \in Nat
      /\ \A r \in Revs : shared[r] \in Nat \cup {None}
      /\ \A p \in Procs, r \in Revs : memory[p][r] \in Nat \cup {None}
      /\ \A s \in Slots : fetch[s].at \in {"store", "done"} => fetch[s].page \in Nat
  BY FetchShape, CacheAssumption DEF IInv, TypeOK, CacheTypeOK, Pages
<1> QED  BY <1>1 DEF PagesBehind, Committed

----------------------------------------------------------------------------
(* Every step is one of the staff's queue, or none.                        *)

LEMMA SameQueue ==
  ASSUME UNCHANGED <<primary, announced, shown, split>>, questionOf' = questionOf
  PROVE  UNCHANGED Queue!queueVars
BY DEF Queue!queueVars, questionOf

\* Questions that go, with what they asked for or in an error.
LEMMA QuestionGone ==
  ASSUME TypeOK, NEW Q \in SUBSET Slots,
         \A s \in Slots : fetch'[s] = IF s \in Q THEN Idle ELSE fetch[s],
         \A s \in Slots \ Q : fetch[s] # Idle => asks'[s] = asks[s]
  PROVE  questionOf' = [s \in Slots |-> IF s \in Q THEN Idle ELSE questionOf[s]]
BY DEF questionOf, Asked

LEMMA QuestionsFail ==
  ASSUME TypeOK, NEW Q \in SUBSET Slots,
         \A s \in Slots : fetch'[s] = IF s \in Q THEN Idle ELSE fetch[s],
         \A s \in Slots \ Q : fetch[s] # Idle => asks'[s] = asks[s],
         split' \in {split, TRUE}, UNCHANGED <<primary, announced, shown>>
  PROVE  Queue!QueueNext
<1>1. questionOf' = [s \in Slots |-> IF s \in Q THEN Idle ELSE questionOf[s]]
  BY QuestionGone
<1>2. Queue!Dropped(Q)
  BY <1>1 DEF Queue!Dropped, questionOf
<1>3. Queue!Fail
  BY <1>2 DEF Queue!Fail
<1> QED  BY <1>3 DEF Queue!QueueNext

LEMMA ShowIsAnswer ==
  ASSUME IInv, PagesBehind, NEW s \in Slots, Show(s)
  PROVE  Queue!QueueNext
<1>1. /\ fetch[s].at = "done" /\ fetch[s] # Idle
      /\ UNCHANGED <<primary, announced, split>>
  BY DEF Show, Idle
<1>2. PICK page \in 0..primary : page = fetch[s].page
  BY <1>1, FetchShape, CacheAssumption DEF IInv, TypeOK, CacheTypeOK, Pages, PagesBehind
<1>3. PICK q : q = questionOf[s] /\ q = Asked(s)
  BY <1>1 DEF questionOf
<1>4. ~split => q.since <= page
  <2>1. ~split => fetch[s].page >= fetch[s].want
    BY <1>1 DEF IInv, AnswersReachWant
  <2>2. fetch[s].want \in Nat
    BY <1>1, FetchShape, CacheAssumption DEF IInv, TypeOK, Pages
  <2> QED  BY <1>2, <1>3, <2>1, <2>2 DEF Asked
<1>5. q # Idle
  BY <1>3 DEF Asked, Idle
<1>6. shown' = [shown EXCEPT ![q.by] = page]
  BY <1>2, <1>3 DEF Show, Asked
<1>7. questionOf' = [questionOf EXCEPT ![s] = Idle]
  <2>1. \A z \in Slots : fetch'[z] = IF z \in {s} THEN Idle ELSE fetch[z]
    BY DEF Show, Released, IInv, TypeOK, CacheTypeOK
  <2>2. \A z \in Slots \ {s} : fetch[z] # Idle => asks'[z] = asks[z]
    BY DEF Show, Released, IInv, TypeOK
  <2>3. questionOf' = [z \in Slots |-> IF z \in {s} THEN Idle ELSE questionOf[z]]
    BY <2>1, <2>2, QuestionGone DEF IInv
  <2> QED  BY <2>3 DEF questionOf
<1>8. Queue!Answer(s)
  BY <1>1, <1>2, <1>3, <1>4, <1>5, <1>6, <1>7 DEF Queue!Answer, questionOf
<1> QED  BY <1>8 DEF Queue!QueueNext

LEMMA RefreshIsAsk ==
  ASSUME IInv, NEW c \in Screens, NEW s \in Slots, NEW p \in Procs, Refresh(c, s, p)
  PROVE  Queue!QueueNext
<1>1. fetch[s] = Idle /\ UNCHANGED <<primary, announced, shown, split>>
  BY DEF Refresh, Ask
<1>2. Wanted(c) = IF split THEN 0 ELSE announced
  <2>1. announced \in Nat /\ dirty[c] \in Nat
    BY CacheAssumption DEF IInv, TypeOK, CacheTypeOK, Pages
  <2> QED  BY <2>1 DEF Wanted, IInv, FloorsRise
<1>3. /\ fetch'[s] # Idle /\ fetch'[s].want = Wanted(c) /\ asks'[s] = c
      /\ \A z \in Slots : z # s => fetch'[z] = fetch[z] /\ asks'[z] = asks[z]
  BY DEF Refresh, Ask, Idle, IInv, TypeOK, CacheTypeOK
<1>4. questionOf' = [questionOf EXCEPT ![s] =
                       [by |-> c, since |-> IF split THEN 0 ELSE announced]]
  BY <1>2, <1>3 DEF questionOf, Asked
<1>5. questionOf[s] = Idle
  BY <1>1 DEF questionOf
<1>6. Queue!Ask(s, c)
  BY <1>1, <1>4, <1>5 DEF Queue!Ask, questionOf
<1> QED  BY <1>6 DEF Queue!QueueNext

LEMMA IncrIsAnnounce ==
  ASSUME IInv, NEW v \in Changes, Incr(v), UNCHANGED screens
  PROVE  [Queue!QueueNext]_(Queue!queueVars)
<1>1. UNCHANGED <<primary, fetch, split, asks, shown>>
  BY DEF Incr, screens
<1>2. /\ announced \in Nat /\ primary \in Nat /\ v \in Nat /\ v <= primary
      /\ announced' = IF v > announced THEN v ELSE announced
  BY CacheAssumption
     DEF Incr, Changes, Pages, IInv, TypeOK, CacheTypeOK, AnnouncedWasCommitted
<1>3. questionOf' = questionOf
  BY <1>1 DEF questionOf, Asked
<1>4. CASE v > announced
  <2>1. Queue!Announce
    BY <1>1, <1>2, <1>3, <1>4 DEF Queue!Announce, questionOf
  <2> QED  BY <2>1 DEF Queue!QueueNext
<1>5. CASE ~(v > announced)
  BY <1>1, <1>2, <1>3, <1>5, SameQueue
<1> QED  BY <1>4, <1>5


LEMMA StepInQueue ==
  IInv /\ IInv' /\ PagesBehind /\ [Next]_vars =>
    PagesBehind' /\ [Queue!QueueNext]_(Queue!queueVars)
<1> SUFFICES ASSUME IInv, IInv', PagesBehind, [Next]_vars
             PROVE  PagesBehind' /\ [Queue!QueueNext]_(Queue!queueVars)
  OBVIOUS
<1>1. primary \in Nat /\ primary' \in Nat
  BY CacheAssumption DEF IInv, TypeOK, CacheTypeOK, Pages
<1>2. ASSUME UNCHANGED <<primary, shared, memory, fetch>> PROVE PagesBehind'
  BY <1>1, <1>2, StillBehind
<1>3. ASSUME UNCHANGED <<primary, announced, shown, split, fetch, asks>>
      PROVE  UNCHANGED Queue!queueVars
  BY <1>3, SameQueue DEF questionOf, Asked
<1>4. ASSUME NEW v \in Changes, Announce(v)
      PROVE  PagesBehind' /\ [Queue!QueueNext]_(Queue!queueVars)
  <2>1. UNCHANGED <<primary, shared, memory, fetch>>
    BY <1>4 DEF Announce, Incr, CountInMemory, Publish, PublishFails
  <2>2. CASE Incr(v) /\ UNCHANGED screens
    BY <1>2, <2>1, <2>2, IncrIsAnnounce
  <2>3. CASE (CountInMemory(v) /\ UNCHANGED screens) \/ Publish(v) \/ PublishFails(v)
    <3>1. UNCHANGED <<announced, shown, split, asks>>
      BY <2>3 DEF CountInMemory, Publish, PublishFails, screens
    <3> QED  BY <1>2, <1>3, <2>1, <3>1
  <2> QED  BY <1>4, <2>2, <2>3 DEF Announce
<1>5. ASSUME NEW s \in Slots, Answer(s)
      PROVE  PagesBehind' /\ [Queue!QueueNext]_(Queue!queueVars)
  <2>1. CASE Show(s)
    <3>1. PagesBehind'
      BY <1>1, <2>1, StillBehind DEF Show, Released, Idle, IInv, TypeOK, CacheTypeOK
    <3> QED  BY <2>1, <3>1, ShowIsAnswer
  <2>2. CASE FetchStep(s) /\ UNCHANGED screens
    <3>1. PagesBehind' /\ questionOf' = questionOf
      BY <2>2, FetchStepBehind
    <3>2. UNCHANGED <<primary, announced, shown, split>>
      BY <2>2 DEF FetchStep, ReadRev, Lookup, ReadOrders, Store, screens
    <3> QED  BY <3>1, <3>2, SameQueue
  <2> QED  BY <1>5, <2>1, <2>2 DEF Answer
<1>6. ASSUME NEW c \in Screens, Screen(c)
      PROVE  PagesBehind' /\ [Queue!QueueNext]_(Queue!queueVars)
  <2>1. ASSUME NEW s \in Slots, NEW p \in Procs, Refresh(c, s, p)
        PROVE  PagesBehind' /\ [Queue!QueueNext]_(Queue!queueVars)
    <3>1. PagesBehind'
      BY <1>1, <2>1, StillBehind DEF Refresh, Ask, IInv, TypeOK, CacheTypeOK
    <3> QED  BY <2>1, <3>1, RefreshIsAsk
  <2>2. CASE CloseStream(c) \/ \E p \in Procs : OpenStream(c, p)
    BY <1>2, <1>3, <2>2 DEF CloseStream, OpenStream, cache
  <2> QED  BY <1>6, <2>1, <2>2 DEF Screen, Poll
<1>7. CASE Surroundings
  <2>1. ASSUME NEW p \in Procs, Change(p), UNCHANGED screens
        PROVE  PagesBehind' /\ [Queue!QueueNext]_(Queue!queueVars)
    <3>1. UNCHANGED <<announced, shared, memory, fetch, split, shown, asks>> /\ primary' = primary + 1
      BY <2>1 DEF Change, screens
    <3>2. PagesBehind'
      BY <1>1, <3>1, StillBehind
    <3>3. Queue!Make
      BY <3>1 DEF Queue!Make, Asked
    <3> QED  BY <3>2, <3>3 DEF Queue!QueueNext
  <2>2. ASSUME NEW p \in Procs, Reconnect(p), UNCHANGED screens
        PROVE  PagesBehind' /\ [Queue!QueueNext]_(Queue!queueVars)
    BY <1>2, <1>3, <2>2 DEF Reconnect, screens
  <2>3. ASSUME NEW p \in Frail, ProcessFault(p)
        PROVE  PagesBehind' /\ [Queue!QueueNext]_(Queue!queueVars)
    <3>1. CASE LoseRedis(p) /\ UNCHANGED asks
      <4>1. UNCHANGED <<primary, announced, shared, memory, fetch, asks, shown>> /\ split' = TRUE
        BY <2>3, <3>1 DEF LoseRedis, ProcessFault
      <4>2. PagesBehind'
        BY <1>2, <4>1
      <4>3. Queue!QueueNext
        <5>1. PICK Q \in SUBSET Slots : Q = {}
          OBVIOUS
        <5> QED  BY <4>1, <5>1, QuestionsFail DEF IInv
      <4> QED  BY <4>2, <4>3
    <3>2. CASE Restart(p) /\ asks' = [s \in Slots |-> IF fetch'[s] = Idle THEN None ELSE asks[s]]
      <4>1. UNCHANGED <<primary, announced, shared, shown>> /\ split' = TRUE
        BY <2>3, <3>2 DEF Restart, ProcessFault
      <4>2. PICK Q \in SUBSET Slots : Q = {s \in Slots : At(s, p)}
        OBVIOUS
      <4>3. \A s \in Slots : fetch'[s] = IF s \in Q THEN Idle ELSE fetch[s]
        BY <3>2, <4>2 DEF Restart
      <4>4. \A s \in Slots \ Q : fetch[s] # Idle => asks'[s] = asks[s]
        BY <3>2, <4>3
      <4>5. Queue!QueueNext
        BY <4>1, <4>3, <4>4, QuestionsFail DEF IInv
      <4>6. \A q \in Procs, r \in Revs : memory'[q][r] \in {memory[q][r], None}
        BY <3>2 DEF Restart, IInv, TypeOK, CacheTypeOK
      <4>7. PagesBehind'
        BY <1>1, <4>1, <4>3, <4>6, StillBehind DEF Idle
      <4> QED  BY <4>5, <4>7
    <3> QED  BY <2>3, <3>1, <3>2 DEF ProcessFault
  <2>4. CASE Expire /\ UNCHANGED screens
    <3>1. UNCHANGED <<primary, announced, fetch, split, shown, asks>>
      BY <2>4 DEF Expire, ExpireShared, ExpireMemory, screens
    <3>2. /\ \A r \in Revs : shared'[r] \in {shared[r], None}
          /\ \A p \in Procs, r \in Revs : memory'[p][r] \in {memory[p][r], None}
      BY <2>4 DEF Expire, ExpireShared, ExpireMemory, IInv, TypeOK, CacheTypeOK
    <3>3. PagesBehind'
      BY <1>1, <3>1, <3>2, StillBehind
    <3> QED  BY <1>3, <3>1, <3>3
  <2>5. ASSUME NEW s \in Slots, RefreshFails(s)
        PROVE  PagesBehind' /\ [Queue!QueueNext]_(Queue!queueVars)
    <3>1. UNCHANGED <<primary, announced, shared, memory, split, shown>>
      BY <2>5 DEF RefreshFails
    <3>2. PICK Q \in SUBSET Slots : Q = {s}
      OBVIOUS
    <3>3. /\ \A z \in Slots : fetch'[z] = IF z \in Q THEN Idle ELSE fetch[z]
          /\ \A z \in Slots \ Q : fetch[z] # Idle => asks'[z] = asks[z]
      BY <2>5, <3>2 DEF RefreshFails, Released, IInv, TypeOK, CacheTypeOK
    <3>4. PagesBehind'
      BY <1>1, <3>1, <3>3, StillBehind DEF Idle
    <3>5. Queue!QueueNext
      BY <3>1, <3>3, QuestionsFail DEF IInv
    <3> QED  BY <3>4, <3>5
  <2> QED  BY <1>7, <2>1, <2>2, <2>3, <2>4, <2>5 DEF Surroundings
<1>8. CASE UNCHANGED vars
  BY <1>2, <1>3, <1>8 DEF vars, cache, screens
<1> QED  BY <1>4, <1>5, <1>6, <1>7, <1>8 DEF Next

\* Caches, revisions, messages and processes implement the queue of the staff:
\* an answer of getQueue is never ahead of the database, whatever fails, and
\* never behind what was announced at the question while Redis is there.
THEOREM ScreensImplementQueue == Spec => ScreensSeeOneQueue
<1>1. Init => PagesBehind /\ Queue!QueueInit
  <2> SUFFICES ASSUME Init PROVE PagesBehind /\ Queue!QueueInit
    OBVIOUS
  <2>1. PagesBehind
    BY DEF Init, CacheInit, PagesBehind, Committed, Idle
  <2>2. Queue!QueueInit
    BY DEF Init, CacheInit, Queue!QueueInit
  <2> QED  BY <2>1, <2>2
<1>2. IInv /\ IInv' /\ PagesBehind /\ [Next]_vars =>
        PagesBehind' /\ [Queue!QueueNext]_(Queue!queueVars)
  BY StepInQueue
<1> QED  BY <1>1, <1>2, Invariant, PTL DEF Spec, ScreensSeeOneQueue, Queue!QueueSpec

===============================================================================
