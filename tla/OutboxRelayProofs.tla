--------------------------- MODULE OutboxRelayProofs ---------------------------
(***************************************************************************)
(* Proofs that the relays of the outbox never share a row, never mark what *)
(* they did not queue, leave one job per row and give a row up at exactly  *)
(* the threshold, for any number of rows, relays and faults.               *)
(***************************************************************************)
EXTENDS OutboxRelay, FiniteSetTheorems, TLAPS

----------------------------------------------------------------------------
(* The inductive invariant.  HeldByOne and PublishedHasJob say too little: *)
(* that a row a relay is about to mark is its own, and has its job, depends*)
(* on how far the tick has come.                                           *)

\* A held row is processing.  Only the one whose mark was reported as failed
\* may read published, and it is the next to be written.
HeldIsProcessing ==
  \A w \in Relays : \A e \in relay[w].batch :
    \/ row[e] = "processing"
    \/ row[e] = "published" /\ relay[w].step = "fail" /\ First(relay[w].batch, e)

HeldApart ==
  \A v, w \in Relays : v # w => relay[v].batch \cap relay[w].batch = {}

\* Publication starts when every candidate was dealt with.
ClaimsComeFirst ==
  \A w \in Relays : relay[w].seen # {} => relay[w].step = "publish"

MarkHasJob ==
  \A w \in Relays : \A e \in relay[w].batch :
    relay[w].step = "mark" /\ First(relay[w].batch, e) => JobId(e) \in jobs

JobsByRow == jobs \subseteq Events \X {0}

AttemptsLeft ==
  \A e \in Events :
    /\ row[e] \in {"absent", "pending", "failed"} => attempts[e] < Threshold
    /\ row[e] = "dead_letter" => attempts[e] = Threshold

IInv ==
  /\ TypeOK
  /\ HeldIsProcessing
  /\ HeldApart
  /\ ClaimsComeFirst
  /\ MarkHasJob
  /\ PublishedHasJob
  /\ JobsByRow
  /\ AttemptsLeft

----------------------------------------------------------------------------
(* The rows at the head of a batch.                                        *)

LEMMA OneHead ==
  ASSUME NEW S \in SUBSET Events, NEW e, NEW f, First(S, e), First(S, f)
  PROVE  e = f
<1>1. e \in Nat /\ f \in Nat  BY RelayAssumption DEF First
<1>2. e <= f /\ f <= e  BY DEF First
<1> QED  BY <1>1, <1>2

\* A tick at its publish step holds processing rows only.
LEMMA NothingWritten ==
  ASSUME IInv, NEW w \in Relays, NEW e \in relay[w].batch, relay[w].step # "fail"
  PROVE  row[e] = "processing"
BY DEF IInv, HeldIsProcessing

\* A row that is held does not look due, so no read offers it and no claim wins it.
LEMMA HeldNotDue ==
  ASSUME IInv, NEW w \in Relays, NEW e \in relay[w].batch
  PROVE  row[e] \notin {"absent", "pending", "failed"}
BY DEF IInv, HeldIsProcessing

----------------------------------------------------------------------------
(* One lemma per action: it keeps the inductive invariant.                 *)

LEMMA InitIInv == Init => IInv
BY RelayAssumption, Z3
   DEF Init, IInv, TypeOK, HeldIsProcessing, HeldApart, ClaimsComeFirst, MarkHasJob,
       PublishedHasJob, JobsByRow, AttemptsLeft, Resting, RelayState, RowStatus

LEMMA AppendKeeps ==
  ASSUME IInv, NEW e \in Events, Append(e)
  PROVE  IInv'
<1>1. TypeOK'  BY DEF Append, IInv, TypeOK, RowStatus
<1>2. HeldIsProcessing' /\ HeldApart' /\ ClaimsComeFirst' /\ MarkHasJob' /\ JobsByRow'
  BY HeldNotDue
     DEF Append, IInv, TypeOK, HeldIsProcessing, HeldApart, ClaimsComeFirst, MarkHasJob, JobsByRow, JobId
<1>3. PublishedHasJob' /\ AttemptsLeft'
  BY DEF Append, IInv, TypeOK, PublishedHasJob, AttemptsLeft, JobId
<1> QED  BY <1>1, <1>2, <1>3 DEF IInv

LEMMA ReadKeeps ==
  ASSUME IInv, NEW w \in Relays, ReadCandidates(w)
  PROVE  IInv'
<1> DEFINE found == {<<e, row[e]>> : e \in Oldest(Due, BatchSize)}
<1>1. found \subseteq Events \X {"pending", "failed"}
  <2> SUFFICES ASSUME NEW e \in Oldest(Due, BatchSize)
               PROVE  e \in Events /\ row[e] \in {"pending", "failed"}
    OBVIOUS
  <2> QED  BY DEF Oldest, Due
<1>2. /\ relay[w] = Resting /\ relay'[w] = [Resting EXCEPT !.seen = found]
      /\ \A v \in Relays \ {w} : relay'[v] = relay[v]
      /\ UNCHANGED <<row, attempts, jobs, faults>>
  BY DEF ReadCandidates, IInv, TypeOK
<1>3. TypeOK'
  <2>1. relay'[w] \in RelayState  BY <1>1, <1>2 DEF Resting, RelayState
  <2> QED  BY <1>2, <2>1 DEF ReadCandidates, IInv, TypeOK
<1>4. relay'[w].batch = {} /\ relay'[w].step = "publish"
  BY <1>2 DEF Resting
<1>5. HeldIsProcessing' /\ HeldApart' /\ ClaimsComeFirst' /\ MarkHasJob'
  BY <1>2, <1>4
     DEF IInv, HeldIsProcessing, HeldApart, ClaimsComeFirst, MarkHasJob, JobId, Resting
<1>6. PublishedHasJob' /\ JobsByRow' /\ AttemptsLeft'
  BY <1>2 DEF IInv, PublishedHasJob, JobsByRow, AttemptsLeft, JobId
<1> QED  BY <1>3, <1>5, <1>6 DEF IInv

\* What claiming a due row does to the tables, whether or not the relay
\* learns of it.
LEMMA ClaimedRow ==
  ASSUME IInv, NEW w \in Relays, NEW e \in Events, ClaimWins(w, e), Claimed(e)
  PROVE  /\ row' \in [Events -> RowStatus]
         /\ attempts' \in [Events -> 0..Threshold]
         /\ \A f \in Events \ {e} : row'[f] = row[f]
         /\ row'[e] = "processing"
         /\ row[e] \in {"pending", "failed"}
         /\ AttemptsLeft'
<1>1. row[e] \in {"pending", "failed"}
  BY DEF ClaimWins, IInv, TypeOK, RelayState
<1>2. attempts[e] \in Nat /\ attempts[e] < Threshold /\ Threshold \in Nat
  BY <1>1, RelayAssumption DEF IInv, TypeOK, AttemptsLeft
<1>3. attempts' \in [Events -> 0..Threshold]
  BY <1>2 DEF Claimed, IInv, TypeOK
<1>4. /\ row' \in [Events -> RowStatus] /\ row'[e] = "processing"
      /\ \A f \in Events \ {e} : row'[f] = row[f] /\ attempts'[f] = attempts[f]
  BY DEF Claimed, IInv, TypeOK, RowStatus
<1>5. AttemptsLeft'
  BY <1>4 DEF AttemptsLeft, IInv
<1> QED  BY <1>1, <1>3, <1>4, <1>5

LEMMA ClaimKeeps ==
  ASSUME IInv, NEW w \in Relays, NEW e \in Events, ClaimOne(w, e)
  PROVE  IInv'
<1> DEFINE left == {c \in relay[w].seen : c[1] # e}
<1>1. relay[w].seen # {} /\ relay[w].step = "publish"
  BY DEF ClaimOne, Candidate, First, IInv, ClaimsComeFirst
<1>2. relay[w] \in RelayState  BY DEF IInv, TypeOK
<1>3. CASE ClaimWins(w, e) /\ Claimed(e)
           /\ relay' = [relay EXCEPT ![w].seen = left, ![w].batch = @ \cup {e}]
  <2>1. /\ relay'[w].seen = left /\ relay'[w].step = "publish"
        /\ relay'[w].batch = relay[w].batch \cup {e}
        /\ relay'[w] \in RelayState
        /\ \A v \in Relays \ {w} : relay'[v] = relay[v]
    BY <1>1, <1>2, <1>3 DEF IInv, TypeOK, RelayState
  <2>2. \A v \in Relays : e \notin relay[v].batch
    BY <1>3, ClaimedRow, HeldNotDue
  <2>3. TypeOK'
    BY <1>3, <2>1, ClaimedRow DEF ClaimOne, IInv, TypeOK
  <2>4. HeldIsProcessing'
    <3> SUFFICES ASSUME NEW v \in Relays, NEW f \in relay'[v].batch
                 PROVE  \/ row'[f] = "processing"
                        \/ row'[f] = "published" /\ relay'[v].step = "fail"
                           /\ First(relay'[v].batch, f)
      BY DEF HeldIsProcessing, First
    <3>1. CASE f = e  BY <3>1, <1>3, ClaimedRow
    <3>2. CASE f # e
      <4>1. f \in relay[v].batch /\ f \in Events \ {e}
        BY <3>2, <2>1, <2>3 DEF TypeOK, RelayState
      <4>2. row'[f] = row[f]  BY <4>1, <1>3, ClaimedRow
      <4>3. CASE v = w  BY <4>1, <4>2, <4>3, <1>1, NothingWritten
      <4>4. CASE v # w
        <5>1. relay'[v] = relay[v]  BY <4>4, <2>1
        <5> QED  BY <4>1, <4>2, <5>1 DEF IInv, HeldIsProcessing
      <4> QED  BY <4>3, <4>4
    <3> QED  BY <3>1, <3>2
  <2>5. HeldApart'
    BY <2>1, <2>2 DEF IInv, HeldApart
  <2>6. ClaimsComeFirst' /\ MarkHasJob'
    BY <2>1 DEF ClaimOne, IInv, ClaimsComeFirst, MarkHasJob, JobId
  <2>7. PublishedHasJob' /\ JobsByRow'
    BY <1>3, ClaimedRow DEF ClaimOne, IInv, PublishedHasJob, JobsByRow, JobId
  <2> QED  BY <1>3, <2>3, <2>4, <2>5, <2>6, <2>7, ClaimedRow DEF IInv
<1>4. CASE PassOver(w, e) /\ UNCHANGED <<row, attempts>>
  <2>1. /\ relay'[w].batch = relay[w].batch /\ relay'[w].step = "publish"
        /\ relay'[w] \in RelayState
        /\ \A v \in Relays \ {w} : relay'[v] = relay[v]
    BY <1>1, <1>2, <1>4 DEF PassOver, IInv, TypeOK, RelayState
  <2>2. TypeOK'
    BY <1>4, <2>1 DEF ClaimOne, PassOver, IInv, TypeOK
  <2>3. HeldIsProcessing' /\ HeldApart' /\ ClaimsComeFirst' /\ MarkHasJob'
    BY <1>1, <1>4, <2>1
       DEF ClaimOne, IInv, HeldIsProcessing, HeldApart, ClaimsComeFirst, MarkHasJob, JobId
  <2>4. PublishedHasJob' /\ JobsByRow' /\ AttemptsLeft'
    BY <1>4 DEF ClaimOne, IInv, PublishedHasJob, JobsByRow, AttemptsLeft, JobId
  <2> QED  BY <2>2, <2>3, <2>4 DEF IInv
<1> QED  BY <1>3, <1>4 DEF ClaimOne

LEMMA ClaimFailsKeeps ==
  ASSUME IInv, NEW w \in Relays, NEW e \in Events, ClaimFails(w, e)
  PROVE  IInv'
<1>1. relay[w].seen # {} /\ relay[w].step = "publish"
  BY DEF ClaimFails, Candidate, First, IInv, ClaimsComeFirst
<1>2. relay[w] \in RelayState  BY DEF IInv, TypeOK
<1>3. /\ \A v \in Relays : relay'[v].batch = relay[v].batch /\ relay'[v].step = relay[v].step
      /\ ClaimsComeFirst'
      /\ relay' \in [Relays -> RelayState]
  <2>1. /\ relay'[w].batch = relay[w].batch /\ relay'[w].step = "publish"
        /\ relay'[w] \in RelayState
        /\ \A v \in Relays \ {w} : relay'[v] = relay[v]
    BY <1>1, <1>2 DEF ClaimFails, PassOver, IInv, TypeOK, RelayState
  <2>2. relay' \in [Relays -> RelayState]
    BY <2>1 DEF ClaimFails, PassOver, IInv, TypeOK
  <2> QED  BY <1>1, <2>1, <2>2 DEF IInv, ClaimsComeFirst
<1>4. /\ faults' \in 0..MaxFaults /\ UNCHANGED jobs
      /\ HeldApart' /\ MarkHasJob' /\ JobsByRow'
  <2>1. faults' \in 0..MaxFaults
    BY RelayAssumption DEF ClaimFails, IInv, TypeOK
  <2> QED  BY <1>3, <2>1
           DEF ClaimFails, IInv, HeldApart, MarkHasJob, JobsByRow, JobId, First
<1>5. CASE Claimed(e)
  <2>1. ClaimWins(w, e)  BY DEF ClaimFails
  <2>2. TypeOK'  BY <1>3, <1>4, <1>5, <2>1, ClaimedRow DEF IInv, TypeOK
  <2>3. \A v \in Relays : e \notin relay[v].batch
    BY <1>5, <2>1, ClaimedRow, HeldNotDue
  <2>4. HeldIsProcessing'
    <3> SUFFICES ASSUME NEW v \in Relays, NEW f \in relay'[v].batch
                 PROVE  \/ row'[f] = "processing"
                        \/ row'[f] = "published" /\ relay'[v].step = "fail"
                           /\ First(relay'[v].batch, f)
      BY DEF HeldIsProcessing, First
    <3>1. f \in relay[v].batch /\ f \in Events \ {e}
      BY <1>3, <2>2, <2>3 DEF TypeOK, RelayState
    <3>2. row'[f] = row[f]  BY <1>5, <2>1, <3>1, ClaimedRow
    <3> QED  BY <1>3, <3>1, <3>2 DEF IInv, HeldIsProcessing
  <2>5. PublishedHasJob'
    BY <1>4, <1>5, <2>1, ClaimedRow DEF IInv, PublishedHasJob, JobId
  <2> QED  BY <1>3, <1>4, <1>5, <2>1, <2>2, <2>4, <2>5, ClaimedRow DEF IInv
<1>6. CASE UNCHANGED <<row, attempts>>
  <2>1. TypeOK'  BY <1>3, <1>4, <1>6 DEF IInv, TypeOK
  <2>2. HeldIsProcessing' /\ PublishedHasJob' /\ AttemptsLeft'
    BY <1>3, <1>4, <1>6
       DEF IInv, HeldIsProcessing, PublishedHasJob, AttemptsLeft, JobId, First
  <2> QED  BY <1>3, <1>4, <2>1, <2>2 DEF IInv
<1> QED  BY <1>5, <1>6 DEF ClaimFails

\* A row at the head was claimed by this relay and by no other.
LEMMA HeadRow ==
  ASSUME IInv, NEW w \in Relays, NEW e \in Events, AtHead(w, e)
  PROVE  /\ e \in relay[w].batch /\ First(relay[w].batch, e) /\ relay[w].seen = {}
         /\ relay[w] \in RelayState
         /\ \A v \in Relays \ {w} : e \notin relay[v].batch
BY DEF AtHead, First, IInv, TypeOK, HeldApart

LEMMA PublishKeeps ==
  ASSUME IInv, NEW w \in Relays, NEW e \in Events, Publish(w, e)
  PROVE  IInv'
<1>1. AtHead(w, e) /\ relay[w].step = "publish" /\ UNCHANGED <<row, attempts, faults>>
  BY DEF Publish
<1>2. jobs \subseteq jobs' /\ jobs' \subseteq jobs \cup {JobId(e)}
  BY DEF Publish
<1>3. PICK x \in {"mark", "fail"} :
        /\ relay' = [relay EXCEPT ![w].step = x]
        /\ x = "mark" => JobId(e) \in jobs'
  BY DEF Publish
<1>4. /\ relay'[w].seen = {} /\ relay'[w].batch = relay[w].batch /\ relay'[w].step = x
      /\ \A v \in Relays \ {w} : relay'[v] = relay[v]
      /\ relay' \in [Relays -> RelayState]
  BY <1>1, <1>3, HeadRow DEF IInv, TypeOK, RelayState
<1>5. TypeOK' /\ JobsByRow'
  BY <1>1, <1>2, <1>4 DEF IInv, TypeOK, JobsByRow, JobId
<1>6. HeldIsProcessing'
  <2>1. \A f \in relay[w].batch : row[f] = "processing"
    BY <1>1, NothingWritten
  <2> QED  BY <1>1, <1>4, <2>1 DEF IInv, HeldIsProcessing
<1>7. HeldApart' /\ ClaimsComeFirst'
  BY <1>4 DEF IInv, HeldApart, ClaimsComeFirst
<1>8. MarkHasJob'
  <2> SUFFICES ASSUME NEW v \in Relays, NEW f \in relay'[v].batch,
                      relay'[v].step = "mark", First(relay'[v].batch, f)
               PROVE  JobId(f) \in jobs'
    BY DEF MarkHasJob, First, JobId
  <2>1. CASE v = w
    <3>1. f = e  BY <1>1, <1>4, <2>1, HeadRow, OneHead DEF RelayState
    <3> QED  BY <1>3, <1>4, <2>1, <3>1
  <2>2. CASE v # w
    BY <1>2, <1>4, <2>2 DEF IInv, MarkHasJob
  <2> QED  BY <2>1, <2>2
<1>9. PublishedHasJob' /\ AttemptsLeft'
  BY <1>1, <1>2 DEF IInv, PublishedHasJob, AttemptsLeft, JobId
<1> QED  BY <1>5, <1>6, <1>7, <1>8, <1>9 DEF IInv

\* What leaving a row does to the tick, once its last write was made.
LEMMA DoneKeeps ==
  ASSUME IInv, NEW w \in Relays, NEW e \in Events, AtHead(w, e), Done(w, e),
         UNCHANGED jobs, NEW x \in RowStatus, row' = [row EXCEPT ![e] = x]
  PROVE  /\ relay' \in [Relays -> RelayState] /\ row' \in [Events -> RowStatus]
         /\ HeldIsProcessing' /\ HeldApart' /\ ClaimsComeFirst' /\ MarkHasJob' /\ JobsByRow'
<1>1. /\ relay'[w].seen = {} /\ relay'[w].batch = relay[w].batch \ {e}
      /\ relay'[w].step = "publish"
      /\ \A v \in Relays \ {w} : relay'[v] = relay[v]
      /\ relay' \in [Relays -> RelayState]
  <2>1. \A v \in Relays \ {w} : relay'[v] = relay[v]
    BY DEF Done, IInv, TypeOK
  <2>2. relay'[w] \in RelayState /\ relay'[w].seen = {}
        /\ relay'[w].batch = relay[w].batch \ {e} /\ relay'[w].step = "publish"
    <3>1. relay[w] \in RelayState /\ relay[w].seen = {}  BY HeadRow
    <3>2. relay'[w] = [relay[w] EXCEPT !.batch = @ \ {e}, !.step = "publish"]
      BY DEF Done, IInv, TypeOK
    <3>3. /\ relay'[w].seen = relay[w].seen /\ relay'[w].batch = relay[w].batch \ {e}
          /\ relay'[w].step = "publish"
      BY <3>1, <3>2 DEF RelayState
    <3>4. relay'[w] \in RelayState
      BY <3>1, <3>2 DEF RelayState
    <3> QED  BY <3>1, <3>3, <3>4
  <2>3. relay' \in [Relays -> RelayState]
    BY <2>2 DEF Done, IInv, TypeOK
  <2> QED  BY <2>1, <2>2, <2>3
<1>2. row' \in [Events -> RowStatus] /\ \A f \in Events \ {e} : row'[f] = row[f]
  BY DEF IInv, TypeOK
<1>3. HeldIsProcessing'
  <2> SUFFICES ASSUME NEW v \in Relays, NEW f \in relay'[v].batch
               PROVE  \/ row'[f] = "processing"
                      \/ row'[f] = "published" /\ relay'[v].step = "fail"
                         /\ First(relay'[v].batch, f)
    BY DEF HeldIsProcessing, First
  <2>1. f \in relay[v].batch /\ f \in Events \ {e}
    BY <1>1, HeadRow DEF RelayState
  <2>2. row'[f] = row[f]  BY <1>2, <2>1
  <2>3. CASE v = w
    <3>1. ~First(relay[w].batch, f)
      BY <2>1, <2>3, HeadRow, OneHead DEF RelayState
    <3> QED  BY <2>1, <2>2, <2>3, <3>1 DEF IInv, HeldIsProcessing
  <2>4. CASE v # w
    <3>1. relay'[v] = relay[v]  BY <1>1, <2>4
    <3> QED  BY <2>1, <2>2, <3>1 DEF IInv, HeldIsProcessing
  <2> QED  BY <2>3, <2>4
<1>4. HeldApart' /\ ClaimsComeFirst' /\ MarkHasJob' /\ JobsByRow'
  BY <1>1 DEF IInv, HeldApart, ClaimsComeFirst, MarkHasJob, JobsByRow, JobId
<1> QED  BY <1>1, <1>2, <1>3, <1>4

LEMMA MarkPublishedKeeps ==
  ASSUME IInv, NEW w \in Relays, NEW e \in Events, MarkPublished(w, e)
  PROVE  IInv'
<1>1. /\ AtHead(w, e) /\ relay[w].step = "mark" /\ Done(w, e)
      /\ row' = [row EXCEPT ![e] = "published"] /\ UNCHANGED <<attempts, jobs, faults>>
  BY DEF MarkPublished
<1>2. "published" \in RowStatus  BY DEF RowStatus
<1>3. TypeOK'  BY <1>1, <1>2, DoneKeeps DEF IInv, TypeOK
<1>4. PublishedHasJob'
  <2>1. JobId(e) \in jobs  BY <1>1, HeadRow DEF IInv, MarkHasJob
  <2> QED  BY <1>1, <2>1 DEF IInv, TypeOK, PublishedHasJob, JobId
<1>5. AttemptsLeft'  BY <1>1 DEF IInv, TypeOK, AttemptsLeft
<1> QED  BY <1>1, <1>2, <1>3, <1>4, <1>5, DoneKeeps DEF IInv

LEMMA MarkFailedKeeps ==
  ASSUME IInv, NEW w \in Relays, NEW e \in Events, MarkFailed(w, e)
  PROVE  IInv'
<1>1. /\ AtHead(w, e) /\ Done(w, e)
      /\ row' = [row EXCEPT ![e] = FailedStatus(e)] /\ UNCHANGED <<attempts, jobs, faults>>
  BY DEF MarkFailed
<1>2. FailedStatus(e) \in RowStatus \ {"published"}  BY DEF FailedStatus, RowStatus
<1>3. TypeOK'  BY <1>1, <1>2, DoneKeeps DEF IInv, TypeOK
<1>4. PublishedHasJob'
  BY <1>1, <1>2 DEF IInv, TypeOK, PublishedHasJob, JobId
<1>5. AttemptsLeft'
  <2>1. attempts[e] \in 0..Threshold /\ Threshold \in Nat
    BY RelayAssumption DEF IInv, TypeOK
  <2>2. /\ FailedStatus(e) \in {"absent", "pending", "failed"} => attempts[e] < Threshold
        /\ FailedStatus(e) = "dead_letter" => attempts[e] = Threshold
    BY <2>1 DEF FailedStatus
  <2> QED  BY <1>1, <2>2 DEF IInv, TypeOK, AttemptsLeft
<1> QED  BY <1>1, <1>2, <1>3, <1>4, <1>5, DoneKeeps DEF IInv

LEMMA MarkPublishedFailsKeeps ==
  ASSUME IInv, NEW w \in Relays, NEW e \in Events, MarkPublishedFails(w, e)
  PROVE  IInv'
<1>1. /\ AtHead(w, e) /\ relay[w].step = "mark" /\ UNCHANGED <<attempts, jobs>>
      /\ relay' = [relay EXCEPT ![w].step = "fail"]
      /\ faults' \in 0..MaxFaults
  BY RelayAssumption DEF MarkPublishedFails, IInv, TypeOK
<1>2. /\ relay'[w].seen = {} /\ relay'[w].batch = relay[w].batch /\ relay'[w].step = "fail"
      /\ \A v \in Relays \ {w} : relay'[v] = relay[v]
      /\ relay' \in [Relays -> RelayState]
  BY <1>1, HeadRow DEF IInv, TypeOK, RelayState
<1>3. /\ row' \in [Events -> RowStatus] /\ \A f \in Events \ {e} : row'[f] = row[f]
      /\ row'[e] \in {row[e], "published"}
  BY DEF MarkPublishedFails, IInv, TypeOK, RowStatus
<1>4. TypeOK'  BY <1>1, <1>2, <1>3 DEF IInv, TypeOK
<1>5. row[e] = "processing" /\ JobId(e) \in jobs
  BY <1>1, HeadRow, NothingWritten DEF IInv, MarkHasJob
<1>6. HeldIsProcessing'
  <2> SUFFICES ASSUME NEW v \in Relays, NEW f \in relay'[v].batch
               PROVE  \/ row'[f] = "processing"
                      \/ row'[f] = "published" /\ relay'[v].step = "fail"
                         /\ First(relay'[v].batch, f)
    BY DEF HeldIsProcessing, First
  <2>1. f \in relay[v].batch /\ f \in Events
    BY <1>2 DEF RelayState
  <2>2. CASE f = e
    <3>1. v = w  BY <1>1, <2>1, <2>2, HeadRow
    <3> QED  BY <1>1, <1>2, <1>3, <1>5, <2>2, <3>1, HeadRow
  <2>3. CASE f # e /\ v = w
    BY <1>1, <1>3, <2>1, <2>3, NothingWritten
  <2>4. CASE f # e /\ v # w
    <3>1. relay'[v] = relay[v]  BY <1>2, <2>4
    <3> QED  BY <1>3, <2>1, <2>4, <3>1 DEF IInv, HeldIsProcessing
  <2> QED  BY <2>2, <2>3, <2>4
<1>7. HeldApart' /\ ClaimsComeFirst' /\ MarkHasJob' /\ JobsByRow'
  BY <1>1, <1>2 DEF IInv, HeldApart, ClaimsComeFirst, MarkHasJob, JobsByRow, JobId
<1>8. PublishedHasJob' /\ AttemptsLeft'
  BY <1>1, <1>3, <1>5 DEF IInv, PublishedHasJob, AttemptsLeft, JobId
<1> QED  BY <1>4, <1>6, <1>7, <1>8 DEF IInv

LEMMA CrashKeeps ==
  ASSUME IInv, NEW w \in Relays, Crash(w)
  PROVE  IInv'
<1>1. /\ relay'[w] = Resting /\ \A v \in Relays \ {w} : relay'[v] = relay[v]
      /\ relay' \in [Relays -> RelayState] /\ UNCHANGED <<row, attempts, jobs>>
      /\ faults' \in 0..MaxFaults
  <2>1. faults' \in 0..MaxFaults
    BY RelayAssumption DEF Crash, IInv, TypeOK
  <2>2. Resting \in RelayState  BY DEF Resting, RelayState
  <2> QED  BY <2>1, <2>2 DEF Crash, IInv, TypeOK
<1>2. TypeOK'  BY <1>1 DEF IInv, TypeOK
<1>3. HeldIsProcessing' /\ HeldApart' /\ ClaimsComeFirst' /\ MarkHasJob'
  BY <1>1 DEF Resting, IInv, HeldIsProcessing, HeldApart, ClaimsComeFirst, MarkHasJob, JobId
<1>4. PublishedHasJob' /\ JobsByRow' /\ AttemptsLeft'
  BY <1>1 DEF IInv, PublishedHasJob, JobsByRow, AttemptsLeft, JobId
<1> QED  BY <1>2, <1>3, <1>4 DEF IInv

----------------------------------------------------------------------------
(* The theorems.                                                           *)

\* The inductive invariant holds of every relay at every moment of its tick.
THEOREM RelayInvariance == Spec => []IInv
<1>1. Init => IInv  BY InitIInv
<1>2. IInv /\ [Next]_vars => IInv'
  <2> SUFFICES ASSUME IInv, [Next]_vars PROVE IInv'
    OBVIOUS
  <2>1. CASE UNCHANGED vars
    BY <2>1 DEF vars, IInv, TypeOK, HeldIsProcessing, HeldApart, ClaimsComeFirst, MarkHasJob,
                PublishedHasJob, JobsByRow, AttemptsLeft, JobId, First
  <2>2. ASSUME NEW e \in Events, Append(e) PROVE IInv'
    BY <2>2, AppendKeeps
  <2>3. ASSUME NEW w \in Relays, RelayStep(w) PROVE IInv'
    BY <2>3, ReadKeeps, ClaimKeeps, PublishKeeps, MarkPublishedKeeps, MarkFailedKeeps
       DEF RelayStep
  <2>4. ASSUME NEW w \in Relays, Fault(w) PROVE IInv'
    BY <2>4, CrashKeeps, ClaimFailsKeeps, MarkPublishedFailsKeeps DEF Fault
  <2> QED  BY <2>1, <2>2, <2>3, <2>4 DEF Next
<1> QED  BY <1>1, <1>2, PTL DEF Spec

\* Rows, attempts, ticks and faults keep their types; in particular no row is
\* claimed more often than the threshold (claimPendingBatch).
THEOREM RelayTypeCorrect == Spec => []TypeOK
<1>1. IInv => TypeOK  BY DEF IInv
<1> QED  BY <1>1, RelayInvariance, PTL

\* The conditional update of claimPendingBatch gives each row to one relay.
THEOREM RowsHeldByOne == Spec => []HeldByOne
<1>1. IInv => HeldByOne
  BY DEF IInv, HeldIsProcessing, HeldApart, HeldByOne
<1> QED  BY <1>1, RelayInvariance, PTL

\* No row says published before its job was accepted (publishOne, markPublished).
THEOREM NothingMarkedUnqueued == Spec => []PublishedHasJob
<1>1. IInv => PublishedHasJob  BY DEF IInv
<1> QED  BY <1>1, RelayInvariance, PTL

\* Retries of a publication use one job id, so BullMQ keeps one job per row.
THEOREM RowsQueuedOnce == Spec => []OneJobPerEvent
<1>1. IInv => OneJobPerEvent
  BY DEF IInv, JobsByRow, OneJobPerEvent
<1> QED  BY <1>1, RelayInvariance, PTL

\* A row is dead-lettered at exactly the threshold of claims (markFailed).
THEOREM GivenUpAtThreshold == Spec => []DeadLetterAtThreshold
<1>1. IInv => DeadLetterAtThreshold
  BY DEF IInv, AttemptsLeft, DeadLetterAtThreshold
<1> QED  BY <1>1, RelayInvariance, PTL

----------------------------------------------------------------------------
(* Refinement: the tables change as under one relay that never fails.      *)

messagesOf == [e \in Events |-> Cardinality({j \in jobs : j[1] = e})]
stageOf == [e \in Events |-> StageOf[row[e]]]

LEMMA CountOfOne ==
  ASSUME NEW S \in SUBSET (Events \X {0}), NEW e \in Events
  PROVE  Cardinality({j \in S : j[1] = e}) = IF JobId(e) \in S THEN 1 ELSE 0
<1> DEFINE mine == {j \in S : j[1] = e}
<1>1. \A j \in mine : j = JobId(e)
  BY DEF JobId
<1>2. JobId(e)[1] = e
  BY DEF JobId
<1>3. CASE JobId(e) \in S
  <2>1. mine = {JobId(e)}
    BY <1>1, <1>2, <1>3
  <2> QED  BY <1>3, <2>1, FS_Singleton
<1>4. CASE JobId(e) \notin S
  <2>1. mine = {}
    BY <1>1, <1>4
  <2> QED  BY <1>4, <2>1, FS_EmptySet
<1> QED  BY <1>3, <1>4

LEMMA MessageCounted ==
  ASSUME NEW e \in Events
  PROVE  /\ IInv => messagesOf[e] = IF JobId(e) \in jobs THEN 1 ELSE 0
         /\ IInv' => messagesOf'[e] = IF JobId(e) \in jobs' THEN 1 ELSE 0
BY CountOfOne DEF IInv, JobsByRow, messagesOf, JobId

\* A row that changes its status moves to the stage of the new one.
LEMMA RowMoves ==
  ASSUME IInv, NEW e \in Events, NEW x \in RowStatus, row' = [row EXCEPT ![e] = x],
         NEW from, StageOf[row[e]] \in from
  PROVE  Delivery!Moves(e, from, StageOf[x])
<1>1. row \in [Events -> RowStatus] /\ row' \in [Events -> RowStatus]
  BY DEF IInv, TypeOK
<1>2. stageOf' = [stageOf EXCEPT ![e] = StageOf[x]]
  BY <1>1 DEF stageOf
<1> QED  BY <1>2 DEF Delivery!Moves, stageOf

LEMMA JobsKeptCounted ==
  ASSUME UNCHANGED jobs PROVE messagesOf' = messagesOf
BY DEF messagesOf

LEMMA ClaimDelivers ==
  ASSUME IInv, NEW w \in Relays, NEW e \in Events, ClaimWins(w, e), Claimed(e), UNCHANGED jobs
  PROVE  Delivery!Take(e)
<1>1. row[e] \in {"pending", "failed"} /\ attempts[e] < Threshold
  BY ClaimedRow DEF IInv, AttemptsLeft
<1>2. Delivery!Moves(e, {"waiting"}, "taken")
  <2>1. StageOf[row[e]] = "waiting" /\ StageOf["processing"] = "taken"
    BY <1>1 DEF StageOf
  <2>2. Delivery!Moves(e, {"waiting"}, StageOf["processing"])
    BY <2>1, RowMoves DEF Claimed, RowStatus
  <2> QED  BY <2>1, <2>2
<1>3. messagesOf' = messagesOf
  BY JobsKeptCounted
<1> QED  BY <1>1, <1>2, <1>3 DEF Claimed, Delivery!Take, messagesOf

LEMMA PublishDelivers ==
  ASSUME IInv, NEW w \in Relays, NEW e \in Events, Publish(w, e)
  PROVE  [Delivery!DeliveryNext]_(Delivery!deliveryVars)
<1>1. UNCHANGED <<row, attempts>> /\ stageOf' = stageOf
  BY DEF Publish, stageOf
<1>2. row[e] = "processing"
  BY HeadRow, NothingWritten DEF Publish
<1>3. jobs' = jobs \/ jobs' = jobs \cup {JobId(e)}
  BY DEF Publish
<1>4. CASE jobs' = jobs
  <2>1. messagesOf' = messagesOf
    BY <1>4, JobsKeptCounted
  <2> QED  BY <1>1, <2>1 DEF Delivery!deliveryVars, stageOf, messagesOf
<1>5. CASE JobId(e) \notin jobs /\ jobs' = jobs \cup {JobId(e)}
  <2>1. messagesOf[e] = 0 /\ messagesOf'[e] = 1
    BY <1>5, MessageCounted, PublishKeeps DEF JobId
  <2>2. ASSUME NEW f \in Events \ {e} PROVE messagesOf'[f] = messagesOf[f]
    <3>1. {j \in jobs' : j[1] = f} = {j \in jobs : j[1] = f}
      BY <1>5, <2>2 DEF JobId
    <3> QED  BY <3>1 DEF messagesOf
  <2>3. messagesOf' = [messagesOf EXCEPT ![e] = 1]
    BY <2>1, <2>2 DEF messagesOf
  <2>4. stageOf[e] = "taken"
    BY <1>2 DEF stageOf, StageOf
  <2>5. Delivery!Send(e)
    BY <1>1, <2>1, <2>3, <2>4 DEF Delivery!Send, stageOf, messagesOf
  <2> QED  BY <2>5 DEF Delivery!DeliveryNext
<1> QED  BY <1>3, <1>4, <1>5

\* The mark of the row at the head, whether or not the relay learns of it.
LEMMA MarkDelivers ==
  ASSUME IInv, NEW w \in Relays, NEW e \in Events, AtHead(w, e), relay[w].step = "mark",
         row' = [row EXCEPT ![e] = "published"], UNCHANGED <<attempts, jobs>>
  PROVE  Delivery!Deliver(e)
<1>1. row[e] = "processing" /\ JobId(e) \in jobs
  BY HeadRow, NothingWritten DEF IInv, MarkHasJob
<1>2. Delivery!Moves(e, {"taken"}, "delivered")
  <2>1. StageOf[row[e]] = "taken" /\ StageOf["published"] = "delivered"
    BY <1>1 DEF StageOf
  <2>2. Delivery!Moves(e, {"taken"}, StageOf["published"])
    BY <2>1, RowMoves DEF RowStatus
  <2> QED  BY <2>1, <2>2
<1>3. messagesOf[e] = 1 /\ messagesOf' = messagesOf
  BY <1>1, MessageCounted, JobsKeptCounted
<1> QED  BY <1>2, <1>3 DEF Delivery!Deliver, messagesOf

LEMMA MarkFailedDelivers ==
  ASSUME IInv, NEW w \in Relays, NEW e \in Events, MarkFailed(w, e)
  PROVE  Delivery!HandBack(e)
<1>1. row[e] \in {"processing", "published"}
  BY HeadRow DEF MarkFailed, IInv, HeldIsProcessing
<1>2. StageOf[row[e]] \in {"taken", "delivered"}
  BY <1>1 DEF StageOf
<1>3. StageOf[FailedStatus(e)] = IF attempts[e] = Threshold THEN "given_up" ELSE "waiting"
  <2>1. attempts[e] \in 0..Threshold /\ Threshold \in Nat
    BY RelayAssumption DEF IInv, TypeOK
  <2> QED  BY <2>1 DEF StageOf, FailedStatus
<1>4. PICK x \in RowStatus : x = FailedStatus(e)
  BY DEF FailedStatus, RowStatus
<1>5. Delivery!Moves(e, {"taken", "delivered"}, StageOf[x])
  BY <1>2, <1>4, RowMoves DEF MarkFailed
<1>6. messagesOf' = messagesOf /\ UNCHANGED attempts
  BY JobsKeptCounted DEF MarkFailed
<1>7. CASE attempts[e] = Threshold
  <2>1. Delivery!Moves(e, {"taken", "delivered"}, "given_up")
    BY <1>3, <1>4, <1>5, <1>7
  <2> QED  BY <1>6, <1>7, <2>1 DEF Delivery!HandBack, Delivery!Moves, messagesOf
<1>8. CASE attempts[e] # Threshold
  <2>1. Delivery!Moves(e, {"taken", "delivered"}, "waiting")
    BY <1>3, <1>4, <1>5, <1>8
  <2> QED  BY <1>6, <1>8, <2>1 DEF Delivery!HandBack, Delivery!Moves, messagesOf
<1> QED  BY <1>7, <1>8

LEMMA StepDelivers ==
  ASSUME IInv, [Next]_vars
  PROVE  [Delivery!DeliveryNext]_(Delivery!deliveryVars)
<1>1. CASE UNCHANGED <<row, attempts, jobs>>
  <2>1. stageOf' = stageOf /\ messagesOf' = messagesOf
    BY <1>1, JobsKeptCounted DEF stageOf
  <2> QED  BY <1>1, <2>1 DEF Delivery!deliveryVars, stageOf, messagesOf
<1>2. ASSUME NEW e \in Events, Append(e) PROVE Delivery!DeliveryNext
  <2>1. StageOf[row[e]] = "none" /\ StageOf["pending"] = "waiting"
    BY <1>2 DEF Append, StageOf
  <2>2. Delivery!Moves(e, {"none"}, StageOf["pending"])
    BY <1>2, <2>1, RowMoves DEF Append, RowStatus
  <2>3. messagesOf' = messagesOf /\ UNCHANGED attempts
    BY <1>2, JobsKeptCounted DEF Append
  <2> QED  BY <2>1, <2>2, <2>3 DEF Delivery!Record, Delivery!DeliveryNext, messagesOf
<1>3. ASSUME NEW w \in Relays, NEW e \in Events, ClaimOne(w, e) \/ ClaimFails(w, e)
      PROVE  [Delivery!DeliveryNext]_(Delivery!deliveryVars)
  <2>1. UNCHANGED jobs
    BY <1>3 DEF ClaimOne, ClaimFails
  <2>2. CASE ClaimWins(w, e) /\ Claimed(e)
    BY <2>1, <2>2, ClaimDelivers DEF Delivery!DeliveryNext
  <2>3. CASE UNCHANGED <<row, attempts>>
    BY <1>1, <2>1, <2>3
  <2> QED  BY <1>3, <2>2, <2>3 DEF ClaimOne, ClaimFails
<1>4. ASSUME NEW w \in Relays, NEW e \in Events, MarkPublished(w, e) \/ MarkPublishedFails(w, e)
      PROVE  [Delivery!DeliveryNext]_(Delivery!deliveryVars)
  <2>1. AtHead(w, e) /\ relay[w].step = "mark" /\ UNCHANGED <<attempts, jobs>>
    BY <1>4 DEF MarkPublished, MarkPublishedFails
  <2>2. CASE row' = [row EXCEPT ![e] = "published"]
    BY <2>1, <2>2, MarkDelivers DEF Delivery!DeliveryNext
  <2>3. CASE row' = row
    BY <1>1, <2>1, <2>3
  <2> QED  BY <1>4, <2>2, <2>3 DEF MarkPublished, MarkPublishedFails
<1>5. ASSUME NEW w \in Relays, NEW e \in Events, MarkFailed(w, e) PROVE Delivery!DeliveryNext
  BY <1>5, MarkFailedDelivers DEF Delivery!DeliveryNext
<1>6. ASSUME NEW w \in Relays, ReadCandidates(w) \/ Crash(w)
      PROVE  UNCHANGED <<row, attempts, jobs>>
  BY <1>6 DEF ReadCandidates, Crash
<1>7. CASE UNCHANGED vars
  BY <1>1, <1>7 DEF vars
<1> QED  BY <1>1, <1>2, <1>3, <1>4, <1>5, <1>6, <1>7, PublishDelivers DEF Next, RelayStep, Fault

\* Any number of relays, with processes that die and calls that fail between
\* their steps, implement a single delivery: one message per event however often
\* it is taken, and none given up before Threshold claims.
THEOREM RelaysImplementDelivery == Spec => RelaysDeliver
<1>1. Init => Delivery!DeliveryInit
  <2> SUFFICES ASSUME Init PROVE Delivery!DeliveryInit
    OBVIOUS
  <2>1. IInv
    BY InitIInv
  <2>2. \A e \in Events : stageOf[e] = "none" /\ messagesOf[e] = 0
    BY <2>1, MessageCounted DEF Init, stageOf, StageOf
  <2>3. stageOf = [e \in Events |-> "none"] /\ messagesOf = [e \in Events |-> 0]
    BY <2>2 DEF stageOf, messagesOf
  <2> QED  BY <2>3 DEF Init, Delivery!DeliveryInit, stageOf, messagesOf
<1>2. IInv /\ [Next]_vars => [Delivery!DeliveryNext]_(Delivery!deliveryVars)
  BY StepDelivers
<1> QED  BY <1>1, <1>2, RelayInvariance, PTL DEF Spec, RelaysDeliver, Delivery!DeliverySpec
===============================================================================
