------------------------------ MODULE QueueCache ------------------------------
(***************************************************************************)
(* GET /orders/queue behind QueueResponseCacheService, on several API      *)
(* processes.  A page of the queue is cached under the revision that was   *)
(* read first; a handler that committed a change raises the revision and   *)
(* publishes a message, without waiting for either.  A process that cannot *)
(* reach Redis counts and caches in its own memory.  Changes are numbered  *)
(* in the order they commit and a page is named by the last change in it.  *)
(***************************************************************************)
EXTENDS Naturals

CONSTANTS Procs,      \* API processes
          Slots,      \* 1..n: requests for the queue in hand at once
          MaxChanges, \* bound: changes of the orders
          None        \* no page

ASSUME CacheAssumption ==
  /\ Slots \subseteq Nat /\ MaxChanges \in Nat
  /\ None \notin 0..MaxChanges

Changes == 1..MaxChanges
Pages == 0..MaxChanges
Revs == 0..MaxChanges

VARIABLES
  primary,   \* changes committed to the database
  bump,      \* per change, how far notifyQueueProjectionChanged got, and where
  rev,       \* queue:rev:global in Redis
  reach,     \* per process, whether the Redis client is ready
  memoryRev, \* per process
  shared,    \* per revision, the page in Redis
  memory,    \* per process and revision, the page in its Map
  fetch,     \* per slot, the request in hand
  announced, \* history: the last change whose bump raised rev
  floor,     \* history: announced, when rev took this value
  split      \* history: some process has been without Redis

cache == <<primary, bump, rev, reach, memoryRev, shared, memory, fetch, announced, floor, split>>

\* Before the change commits, and when nothing is left to do for it.
Bump == {[at |-> "none"], [at |-> "done"]} \cup [at : {"incr", "publish"}, proc : Procs]
Due(v) == bump[v].at \in {"incr", "publish"}

\* want: the last change that the answer should contain.
Idle == [at |-> "idle"]
Fetch == {Idle}
  \cup [at : {"rev"}, proc : Procs, want : Pages]
  \cup [at : {"lookup", "read"}, proc : Procs, want : Pages, rev : Revs]
  \cup [at : {"store"}, proc : Procs, want : Pages, rev : Revs, page : Pages]
  \cup [at : {"done"}, want : Pages, page : Pages]

CacheTypeOK ==
  /\ primary \in Pages
  /\ bump \in [Changes -> Bump]
  /\ rev \in Revs
  /\ reach \in [Procs -> BOOLEAN]
  /\ memoryRev \in [Procs -> Revs]
  /\ shared \in [Revs -> Pages \cup {None}]
  /\ memory \in [Procs -> [Revs -> Pages \cup {None}]]
  /\ fetch \in [Slots -> Fetch]
  /\ announced \in Pages
  /\ floor \in [Revs -> Pages]
  /\ split \in BOOLEAN

CacheInit ==
  /\ primary = 0 /\ rev = 0 /\ announced = 0
  /\ bump = [v \in Changes |-> [at |-> "none"]]
  /\ reach = [p \in Procs |-> TRUE]
  /\ memoryRev = [p \in Procs |-> 0]
  /\ shared = [r \in Revs |-> None]
  /\ memory = [p \in Procs |-> [r \in Revs |-> None]]
  /\ fetch = [s \in Slots |-> Idle]
  /\ floor = [r \in Revs |-> 0]
  /\ split = FALSE

----------------------------------------------------------------------------
(* A change and its announcement.                                          *)

\* A handler of process p commits; the announcement is still to be made.
Change(p) ==
  /\ primary < MaxChanges
  /\ primary' = primary + 1
  /\ bump' = [bump EXCEPT ![primary + 1] = [at |-> "incr", proc |-> p]]
  /\ UNCHANGED <<rev, reach, memoryRev, shared, memory, fetch, announced, floor, split>>

\* INCR: from now on requests look for a page of their own.
Incr(v) ==
  /\ bump[v].at = "incr" /\ reach[bump[v].proc]
  /\ rev' = rev + 1
  /\ announced' = IF v > announced THEN v ELSE announced
  /\ floor' = IF split THEN floor ELSE [floor EXCEPT ![rev + 1] = announced']
  /\ bump' = [bump EXCEPT ![v].at = "publish"]
  /\ UNCHANGED <<primary, reach, memoryRev, shared, memory, fetch, split>>

Counted(v) == bump' = [bump EXCEPT ![v] = [at |-> "done"]]

\* Redis is away, or the INCR fails, perhaps after it was applied.
CountInMemory(v) ==
  LET p == bump[v].proc IN
  /\ bump[v].at = "incr" /\ ~reach[p]
  /\ rev' \in {rev, rev + 1}
  /\ memoryRev' = [memoryRev EXCEPT ![p] = @ + 1]
  /\ Counted(v)
  /\ UNCHANGED <<primary, reach, shared, memory, fetch, announced, floor, split>>

MayPublish(v) == bump[v].at = "publish"

Published(v) == bump' = [bump EXCEPT ![v] = IF @.at = "publish" THEN [at |-> "done"] ELSE @]

----------------------------------------------------------------------------
(* getQueue.                                                               *)

\* Slots are taken from the first on: they are interchangeable.
Ask(s, p, w) ==
  /\ fetch[s] = Idle /\ \A z \in Slots : z < s => fetch[z] # Idle
  /\ fetch' = [fetch EXCEPT ![s] = [at |-> "rev", proc |-> p, want |-> w]]

\* getGlobalRevForCache.
ReadRev(s) ==
  LET f == fetch[s] IN
  /\ f.at = "rev"
  /\ fetch' = [fetch EXCEPT ![s] =
       [at |-> "lookup", proc |-> f.proc, want |-> f.want,
        rev |-> IF reach[f.proc] THEN rev ELSE memoryRev[f.proc]]]
  /\ UNCHANGED <<primary, bump, rev, reach, memoryRev, shared, memory, announced, floor, split>>

\* The pages getJson may find; a command that fails is a miss.
Found(f) ==
  IF reach[f.proc] THEN {shared[f.rev]} ELSE {memory[f.proc][f.rev], None}

Answered(f, page) == [at |-> "done", want |-> f.want, page |-> page]

Lookup(s) ==
  LET f == fetch[s] IN
  /\ f.at = "lookup"
  /\ \E page \in Found(f) :
       fetch' = [fetch EXCEPT ![s] =
         IF page = None
           THEN [at |-> "read", proc |-> f.proc, want |-> f.want, rev |-> f.rev]
           ELSE Answered(f, page)]
  /\ UNCHANGED <<primary, bump, rev, reach, memoryRev, shared, memory, announced, floor, split>>

\* projectQueuePage, on the primary database.
ReadOrders(s) ==
  LET f == fetch[s] IN
  /\ f.at = "read"
  /\ fetch' = [fetch EXCEPT ![s] =
       [at |-> "store", proc |-> f.proc, want |-> f.want, rev |-> f.rev, page |-> primary]]
  /\ UNCHANGED <<primary, bump, rev, reach, memoryRev, shared, memory, announced, floor, split>>

\* Bug: the key is made of the revision of the moment the page is stored.
StoreKey_Current(f) == rev

StoreKey(f) == f.rev

\* setJson, to Redis or, when that is away or fails, to the Map.
Store(s) ==
  LET f == fetch[s] IN
  /\ f.at = "store"
  /\ fetch' = [fetch EXCEPT ![s] = Answered(f, f.page)]
  /\ IF reach[f.proc]
       THEN shared' = [shared EXCEPT ![StoreKey(f)] = f.page] /\ UNCHANGED memory
       ELSE memory' = [memory EXCEPT ![f.proc][StoreKey(f)] = f.page] /\ UNCHANGED shared
  /\ UNCHANGED <<primary, bump, rev, reach, memoryRev, announced, floor, split>>

FetchStep(s) == ReadRev(s) \/ Lookup(s) \/ ReadOrders(s) \/ Store(s)

----------------------------------------------------------------------------
(* Time and faults.                                                        *)

ExpireShared(r) ==
  /\ shared[r] # None
  /\ shared' = [shared EXCEPT ![r] = None]
  /\ UNCHANGED <<primary, bump, rev, reach, memoryRev, memory, fetch, announced, floor, split>>

\* Bug: what was stored in the Map while Redis was away never expires.
ExpireMemory_Never(p, r) == FALSE /\ UNCHANGED cache

\* The entry's time is over, or pruneMemory drops it.
ExpireMemory(p, r) ==
  /\ memory[p][r] # None
  /\ memory' = [memory EXCEPT ![p][r] = None]
  /\ UNCHANGED <<primary, bump, rev, reach, memoryRev, shared, fetch, announced, floor, split>>

\* An entry lives for QUEUE_CACHE_TTL_MS; that one goes which is still up to
\* date makes no difference to anybody.
Outdated(page) == page # None /\ page < primary
Expire ==
  \E r \in Revs :
    \/ Outdated(shared[r]) /\ ExpireShared(r)
    \/ \E p \in Procs : Outdated(memory[p][r]) /\ ExpireMemory(p, r)

LoseRedis(p) ==
  /\ reach[p]
  /\ reach' = [reach EXCEPT ![p] = FALSE]
  /\ split' = TRUE
  /\ UNCHANGED <<primary, bump, rev, memoryRev, shared, memory, fetch, announced, floor>>

Reconnect(p) ==
  /\ ~reach[p]
  /\ reach' = [reach EXCEPT ![p] = TRUE]
  /\ UNCHANGED <<primary, bump, rev, memoryRev, shared, memory, fetch, announced, floor, split>>

At(s, p) == fetch[s].at \notin {"idle", "done"} /\ fetch[s].proc = p

\* The process starts again: what it had in memory is gone, so are its requests
\* and the announcements it still had to make, and Redis is not connected yet.
Restart(p) ==
  /\ reach' = [reach EXCEPT ![p] = FALSE]
  /\ split' = TRUE
  /\ memoryRev' = [memoryRev EXCEPT ![p] = 0]
  /\ memory' = [memory EXCEPT ![p] = [r \in Revs |-> None]]
  /\ fetch' = [s \in Slots |-> IF At(s, p) THEN Idle ELSE fetch[s]]
  /\ bump' = [v \in Changes |-> IF Due(v) /\ bump[v].proc = p THEN [at |-> "done"] ELSE bump[v]]
  /\ UNCHANGED <<primary, rev, shared, announced, floor>>
===============================================================================
