----------------------------- MODULE QueueScreens -----------------------------
(***************************************************************************)
(* The staff screens on top of the queue cache: kitchen, courier and order *)
(* desk.  A screen asks for the queue when it opens, every minute or two,  *)
(* and when its event stream says that the queue changed; it shows the     *)
(* answers in the order they arrive.                                       *)
(***************************************************************************)
EXTENDS QueueCache

CONSTANTS Screens,
          Frail,     \* the processes that something happens to
          MaxEvents  \* bound: what goes wrong

ASSUME ScreenAssumption == Frail \subseteq Procs /\ MaxEvents \in Nat /\ None \notin Screens

VARIABLES
  asks,   \* per slot, the screen that waits for it
  stream, \* per screen, what its event stream is subscribed to
  dirty,  \* per screen, the last change a message told it of since it asked
  shown,  \* per screen, the page on it
  events  \* of what MaxEvents bounds, so far

screens == <<asks, stream, dirty, shown, events>>
vars == <<cache, screens>>

TypeOK ==
  /\ CacheTypeOK
  /\ asks \in [Slots -> Screens \cup {None}]
  /\ stream \in [Screens -> {"closed", "live", "deaf"}]
  /\ dirty \in [Screens -> Pages]
  /\ shown \in [Screens -> Pages]
  /\ events \in 0..MaxEvents

Init ==
  /\ CacheInit
  /\ asks = [s \in Slots |-> None]
  /\ stream = [c \in Screens |-> "closed"]
  /\ dirty = [c \in Screens |-> 0]
  /\ shown = [c \in Screens |-> 0]
  /\ events = 0

Event == events < MaxEvents /\ events' = events + 1

----------------------------------------------------------------------------
(* queueDirtyStream and its hook.                                          *)

\* Without Redis the stream carries heartbeats only, also when Redis is back;
\* the screen takes either for connected, and does not ask for the queue.
OpenStream(c, p) ==
  /\ stream[c] = "closed"
  /\ stream' = [stream EXCEPT ![c] = IF reach[p] THEN "live" ELSE "deaf"]
  /\ UNCHANGED <<cache, asks, dirty, shown, events>>

\* A message whose debounce is running is forgotten.
CloseStream(c) ==
  /\ stream[c] # "closed" /\ Event
  /\ stream' = [stream EXCEPT ![c] = "closed"]
  /\ dirty' = [dirty EXCEPT ![c] = 0]
  /\ UNCHANGED <<cache, asks, shown>>

\* PUBLISH reaches the streams that are subscribed at that moment.
Publish(v) ==
  /\ MayPublish(v) /\ reach[bump[v].proc]
  /\ Published(v)
  /\ dirty' = [c \in Screens |-> IF stream[c] = "live" /\ ~split /\ v > dirty[c] THEN v ELSE dirty[c]]
  /\ UNCHANGED <<primary, rev, reach, memoryRev, shared, memory, fetch, announced, floor, split,
                 asks, stream, shown, events>>

PublishFails(v) ==
  /\ bump[v].at = "publish" /\ ~reach[bump[v].proc]
  /\ Published(v)
  /\ UNCHANGED <<primary, rev, reach, memoryRev, shared, memory, fetch, announced, floor, split,
                 screens>>

----------------------------------------------------------------------------
(* fetchActiveOrders and its like.                                         *)

\* What the answer should contain: every change announced by now, and those a
\* message told of; once some process was without Redis nothing is promised.
Wanted(c) == IF split THEN 0 ELSE IF dirty[c] > announced THEN dirty[c] ELSE announced

\* The poll, or a message after its debounce; requests of one screen overlap.
Refresh(c, s, p) ==
  /\ Ask(s, p, Wanted(c))
  /\ asks' = [asks EXCEPT ![s] = c]
  /\ dirty' = [dirty EXCEPT ![c] = 0]
  /\ UNCHANGED <<primary, bump, rev, reach, memoryRev, shared, memory, announced, floor, split,
                 stream, shown, events>>

Released(s) ==
  /\ fetch' = [fetch EXCEPT ![s] = Idle]
  /\ asks' = [asks EXCEPT ![s] = None]

Show(s) ==
  /\ fetch[s].at = "done"
  /\ shown' = [shown EXCEPT ![asks[s]] = fetch[s].page]
  /\ Released(s)
  /\ UNCHANGED <<primary, bump, rev, reach, memoryRev, shared, memory, announced, floor, split,
                 stream, dirty, events>>

\* Bug: an error empties the list.
RefreshFails_Clears(s) ==
  /\ fetch[s] # Idle /\ Event
  /\ shown' = [shown EXCEPT ![asks[s]] = 0]
  /\ Released(s)
  /\ UNCHANGED <<primary, bump, rev, reach, memoryRev, shared, memory, announced, floor, split,
                 stream, dirty>>

\* The answer is an error or is lost: the list stays as it is.
RefreshFails(s) ==
  /\ fetch[s] # Idle /\ Event
  /\ Released(s)
  /\ UNCHANGED <<primary, bump, rev, reach, memoryRev, shared, memory, announced, floor, split,
                 stream, dirty, shown>>

----------------------------------------------------------------------------
Announce(v) ==
  \/ (Incr(v) \/ CountInMemory(v)) /\ UNCHANGED screens
  \/ Publish(v) \/ PublishFails(v)

Answer(s) == Show(s) \/ (FetchStep(s) /\ UNCHANGED screens)

Poll(c) == \E s \in Slots, p \in Procs : Refresh(c, s, p)

Screen(c) == Poll(c) \/ CloseStream(c) \/ \E p \in Procs : OpenStream(c, p)

ProcessFault(p) ==
  /\ Event
  /\ \/ LoseRedis(p) /\ UNCHANGED asks
     \/ Restart(p) /\ asks' = [s \in Slots |-> IF fetch'[s] = Idle THEN None ELSE asks[s]]
  /\ UNCHANGED <<stream, dirty, shown>>

Surroundings ==
  \/ \E p \in Procs : (Change(p) \/ Reconnect(p)) /\ UNCHANGED screens
  \/ \E p \in Frail : ProcessFault(p)
  \/ Expire /\ UNCHANGED screens
  \/ \E s \in Slots : RefreshFails(s)

Next ==
  \/ \E v \in Changes : Announce(v)
  \/ \E s \in Slots : Answer(s)
  \/ \E c \in Screens : Screen(c)
  \/ Surroundings

Spec == Init /\ [][Next]_vars

\* Screens poll, requests are answered, entries do not outlive their time.
FairSpec ==
  /\ Spec
  /\ \A c \in Screens : WF_vars(Poll(c))
  /\ \A s \in Slots : WF_vars(Answer(s))
  /\ WF_vars(Expire /\ UNCHANGED screens)

----------------------------------------------------------------------------
(* Properties.                                                             *)

\* While every process has had Redis all along: an answer contains every change
\* announced before the question, and the one a message asked for; neither a
\* page being read while the revision moves nor a slow write can bring an old
\* page back under a new revision.
Fresh ==
  ~split => \A s \in Slots : fetch[s].at = "done" => fetch[s].page >= fetch[s].want

\* Every change gets to every screen in the end and stays there, whatever was
\* lost, and with Redis gone for good.
EventuallyFresh == \A c \in Screens : <>[](shown[c] = primary)

\* The queue as the staff know it.
Asked(s) == [by |-> asks[s], since |-> fetch[s].want]

Queue == INSTANCE StaffQueue
           WITH Questions <- Slots, Nobody <- Idle, made <- primary, cutOff <- split,
                question  <- [s \in Slots |-> IF fetch[s] = Idle THEN Idle ELSE Asked(s)]

\* However many processes cache pages, lose Redis or start again, screens see
\* one queue: an answer is never ahead of the database, even with caches apart,
\* nor behind what was announced at the question while they are not.
ScreensSeeOneQueue == Queue!QueueSpec
===============================================================================
