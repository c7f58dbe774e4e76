----------------------------- MODULE OutboxRelay -----------------------------
(***************************************************************************)
(* The outbox table and the relays that empty it onto BullMQ.  A handler's *)
(* transaction appends rows; every worker process runs a relay whose tick  *)
(* reads the oldest due rows, claims each by a conditional update on the   *)
(* status it read, and then publishes and marks the claimed rows one by    *)
(* one.  Each database or Redis call is a step of its own.  A row is named *)
(* by its place in creation order.                                         *)
(***************************************************************************)
EXTENDS Naturals, FiniteSets

CONSTANTS Events,      \* outbox rows, in creation order
          Relays,      \* worker processes with a relay
          BatchSize,   \* OUTBOX_RELAY_BATCH_SIZE
          Threshold,   \* OUTBOX_RELAY_DEAD_LETTER_ATTEMPTS
          MaxFaults    \* bound: process deaths and failed database calls

ASSUME RelayAssumption ==
  /\ Events \subseteq Nat
  /\ BatchSize \in Nat \ {0} /\ Threshold \in Nat \ {0} /\ MaxFaults \in Nat

VARIABLES
  row,       \* per event, the status column; "absent" before the append commits
  attempts,  \* per event, the attemptCount column
  jobs,      \* the job ids BullMQ has accepted
  relay,     \* per relay, the tick under way
  faults     \* faults so far

vars == <<row, attempts, jobs, relay, faults>>

RowStatus == {"absent", "pending", "processing", "published", "failed", "dead_letter"}

\* seen: candidates read and not yet claimed, with the status read; batch: the
\* rows claimed and not yet dealt with; step: the next call for the oldest one.
RelayState == [seen  : SUBSET (Events \X {"pending", "failed"}),
               batch : SUBSET Events,
               step  : {"publish", "mark", "fail"}]
Resting == [seen |-> {}, batch |-> {}, step |-> "publish"]

\* Bug: the job id tells the attempts apart.
JobId_PerAttempt(e) == <<e, attempts[e]>>

\* The idempotency key of the row, with the characters BullMQ forbids replaced.
JobId(e) == <<e, 0>>

TypeOK ==
  /\ row \in [Events -> RowStatus]
  /\ attempts \in [Events -> 0..Threshold]
  /\ jobs \subseteq Events \X Nat
  /\ relay \in [Relays -> RelayState]
  /\ faults \in 0..MaxFaults

Init ==
  /\ row = [e \in Events |-> "absent"]
  /\ attempts = [e \in Events |-> 0]
  /\ jobs = {}
  /\ relay = [w \in Relays |-> Resting]
  /\ faults = 0

----------------------------------------------------------------------------
(* appendUsingTx: the row becomes visible when the handler's transaction   *)
(* commits, not always in creation order.                                  *)
Append(e) ==
  /\ row[e] = "absent"
  /\ row' = [row EXCEPT ![e] = "pending"]
  /\ UNCHANGED <<attempts, jobs, relay, faults>>

----------------------------------------------------------------------------
(* claimPendingBatch.                                                      *)

\* Bug: rows whose publication failed are never looked at again.
Due_PendingOnly == {e \in Events : row[e] = "pending"}

Due == {e \in Events : row[e] \in {"pending", "failed"}}

Oldest(S, n) == {e \in S : Cardinality({f \in S : f < e}) < n}
First(S, e) == e \in S /\ \A f \in S : e <= f

ReadCandidates(w) ==
  /\ relay[w] = Resting /\ Due # {}
  /\ relay' = [relay EXCEPT ![w].seen = {<<e, row[e]>> : e \in Oldest(Due, BatchSize)}]
  /\ UNCHANGED <<row, attempts, jobs, faults>>

Candidate(w, e) == First({c[1] : c \in relay[w].seen}, e)

\* Bug: the claim is not conditional on the status that was read.
ClaimWins_Always(w, e) == TRUE

\* updateMany WHERE id AND status = the status read touches one row.
ClaimWins(w, e) == <<e, row[e]>> \in relay[w].seen

Claimed(e) ==
  /\ row' = [row EXCEPT ![e] = "processing"]
  /\ attempts' = [attempts EXCEPT ![e] = @ + 1]

PassOver(w, e) ==
  relay' = [relay EXCEPT ![w].seen = {c \in @ : c[1] # e}]

ClaimOne(w, e) ==
  /\ Candidate(w, e)
  /\ \/ /\ ClaimWins(w, e)
        /\ Claimed(e)
        /\ relay' = [relay EXCEPT ![w].seen  = {c \in @ : c[1] # e},
                                  ![w].batch = @ \cup {e}]
     \/ ~ClaimWins(w, e) /\ PassOver(w, e) /\ UNCHANGED <<row, attempts>>
  /\ UNCHANGED <<jobs, faults>>

\* The update or the re-read after it fails: the error is logged and the loop
\* goes on, with the row claimed by nobody in the second case.
ClaimFails(w, e) ==
  /\ faults < MaxFaults /\ faults' = faults + 1
  /\ Candidate(w, e) /\ ClaimWins(w, e)
  /\ PassOver(w, e)
  /\ Claimed(e) \/ UNCHANGED <<row, attempts>>
  /\ UNCHANGED jobs

----------------------------------------------------------------------------
(* The rest of the tick: publishOne, then markPublished or markFailed.     *)

AtHead(w, e) == relay[w].seen = {} /\ First(relay[w].batch, e)

\* Bug: the row is marked before its job is added.
Publish_MarkFirst(w, e) ==
  /\ AtHead(w, e) /\ relay[w].step = "publish"
  /\ \/ /\ row' = [row EXCEPT ![e] = "published"]
        /\ jobs' = jobs
        /\ relay' = [relay EXCEPT ![w].step = "mark"]
     \/ /\ jobs' = jobs \/ jobs' = jobs \cup {JobId(e)}
        /\ relay' = [relay EXCEPT ![w].step = "fail"]
        /\ UNCHANGED row
  /\ UNCHANGED <<attempts, faults>>

\* queue.add does nothing when the job id is known.  An error may come before
\* or after Redis took the job; a queue that is switched off is one too.
Publish(w, e) ==
  /\ AtHead(w, e) /\ relay[w].step = "publish"
  /\ \/ /\ jobs' = jobs \cup {JobId(e)}
        /\ relay' = [relay EXCEPT ![w].step = "mark"]
     \/ /\ jobs' = jobs \/ jobs' = jobs \cup {JobId(e)}
        /\ relay' = [relay EXCEPT ![w].step = "fail"]
  /\ UNCHANGED <<row, attempts, faults>>

Done(w, e) == relay' = [relay EXCEPT ![w].batch = @ \ {e}, ![w].step = "publish"]

MarkPublished(w, e) ==
  /\ AtHead(w, e) /\ relay[w].step = "mark"
  /\ row' = [row EXCEPT ![e] = "published"]
  /\ Done(w, e)
  /\ UNCHANGED <<attempts, jobs, faults>>

\* The error may come after the update was committed; the row is then handed
\* to markFailed all the same.
MarkPublishedFails(w, e) ==
  /\ faults < MaxFaults /\ faults' = faults + 1
  /\ AtHead(w, e) /\ relay[w].step = "mark"
  /\ row' = row \/ row' = [row EXCEPT ![e] = "published"]
  /\ relay' = [relay EXCEPT ![w].step = "fail"]
  /\ UNCHANGED <<attempts, jobs>>

FailedStatus(e) == IF attempts[e] >= Threshold THEN "dead_letter" ELSE "failed"

MarkFailed(w, e) ==
  /\ AtHead(w, e) /\ relay[w].step = "fail"
  /\ row' = [row EXCEPT ![e] = FailedStatus(e)]
  /\ Done(w, e)
  /\ UNCHANGED <<attempts, jobs, faults>>

\* The process dies, or an error leaves the tick (the first read or markFailed
\* failed): what it held is forgotten and the next tick starts afresh.
Crash(w) ==
  /\ faults < MaxFaults /\ faults' = faults + 1
  /\ relay[w] # Resting
  /\ relay' = [relay EXCEPT ![w] = Resting]
  /\ UNCHANGED <<row, attempts, jobs>>

RelayStep(w) ==
  \/ ReadCandidates(w)
  \/ \E e \in Events : \/ ClaimOne(w, e) \/ Publish(w, e)
                       \/ MarkPublished(w, e) \/ MarkFailed(w, e)

Fault(w) ==
  Crash(w) \/ \E e \in Events : ClaimFails(w, e) \/ MarkPublishedFails(w, e)

Next ==
  \/ \E e \in Events : Append(e)
  \/ \E w \in Relays : RelayStep(w) \/ Fault(w)

Spec == Init /\ [][Next]_vars

\* Every relay ticks on a timer and every call it awaits is answered.
FairSpec == Spec /\ \A w \in Relays : WF_vars(RelayStep(w))

----------------------------------------------------------------------------
(* Properties.                                                             *)

\* However the relays' reads and claims interleave, a claimed row is held by
\* one relay only, and no other can take it: it no longer reads pending or
\* failed while it is held.
HeldByOne ==
  \A w \in Relays : \A e \in relay[w].batch :
    /\ row[e] \in {"processing", "published"}
    /\ \A v \in Relays \ {w} : e \notin relay[v].batch

\* A row that says published has its job on the queue, whichever call failed.
PublishedHasJob == \A e \in Events : row[e] = "published" => JobId(e) \in jobs

\* A publication that was retried, by the same relay or another, left one job.
OneJobPerEvent == \A i, j \in jobs : i[1] = j[1] => i = j

\* A row is given up after exactly Threshold claims, and one that is still
\* due has attempts left.
DeadLetterAtThreshold ==
  \A e \in Events :
    /\ row[e] = "dead_letter" => attempts[e] = Threshold
    /\ row[e] \in {"pending", "failed"} => attempts[e] < Threshold

\* A row whose relay died, or lost the answer to its claim, before it was done.
Stranded(e) == row[e] = "processing" /\ \A w \in Relays : e \notin relay[w].batch

\* Every row that is due is published or given up in the end
\* (docs/ops/scaling-api-queue.md:44), or a fault struck while it was claimed:
\* such a row is never looked at again, and nothing else is ever left behind.
EventuallySettled ==
  \A e \in Events :
    row[e] \in {"pending", "failed"}
      ~> row[e] \in {"published", "dead_letter"} \/ Stranded(e)

----------------------------------------------------------------------------
(* The delivery these relays implement.                                    *)

StageOf == [absent |-> "none", pending |-> "waiting", failed |-> "waiting",
            processing |-> "taken", published |-> "delivered", dead_letter |-> "given_up"]

Delivery == INSTANCE EventDelivery
              WITH stage    <- [e \in Events |-> StageOf[row[e]]],
                   tries    <- attempts,
                   messages <- [e \in Events |-> Cardinality({j \in jobs : j[1] = e})]

\* Any number of relays, whatever dies or fails between their calls, act on an
\* event as one relay that takes it, sends it and then marks it would.
RelaysDeliver == Delivery!DeliverySpec
==============================================================================
