------------------------- MODULE PaymentGatewayProofs -------------------------
(***************************************************************************)
(* Proofs that the webhook records no payment twice, queues no job for one *)
(* it has not recorded, that an order reads completed only for money that  *)
(* was taken, and that webhook, job and till implement PaymentTrail: for   *)
(* any number of payments, requests, tills and deaths.                     *)
(***************************************************************************)
EXTENDS PaymentGateway, TLAPS

----------------------------------------------------------------------------
(* The inductive invariant.  RecordedOnce alone does not say why a second  *)
(* request never gets to the recording: the claim was made for it once,    *)
(* and one request holds what the claim gave.                              *)

InHand(s) == handler[s][2][1]
Paying(s) == At(s, "record") \/ At(s, "append")

SuccessWasCharged == \A p \in Payments : <<p, "success">> \in sent => p \in charged

\* What a request carries was sent; past its claim it is a success.
HeldWasSent ==
  \A s \in Slots : handler[s] # Idle =>
    /\ handler[s][2] \in sent
    /\ Paying(s) => handler[s][2] = <<InHand(s), "success">> /\ InHand(s) \in claims

\* One claim, one request past it.
HeldApart ==
  \A s, t \in Slots : s # t /\ Paying(s) /\ Paying(t) => InHand(s) # InHand(t)

\* How often a payment was recorded, by how far its request has come.
RecordsCounted ==
  /\ \A s \in Slots : /\ At(s, "record") => recorded[InHand(s)] = 0
                      /\ At(s, "append") => recorded[InHand(s)] = 1
  /\ \A p \in Payments : recorded[p] <= 1
  /\ \A p \in Payments : recorded[p] = 1 => p \in claims \cap charged
  /\ \A p \in outbox : recorded[p] = 1

IInv ==
  /\ TypeOK
  /\ SuccessWasCharged
  /\ HeldWasSent
  /\ HeldApart
  /\ RecordsCounted
  /\ CompletedWasPaid

----------------------------------------------------------------------------
(* Where a request is.                                                     *)

Steps == {"claim", "record", "append", "fail", "close"}

LEMMA HandlerShape ==
  ASSUME TypeOK, NEW s \in Slots, handler[s] # Idle
  PROVE  /\ handler[s] \in Steps \X Note
         /\ handler[s][1] \in Steps /\ handler[s][2] \in Note
         /\ InHand(s) \in Payments /\ handler[s][2][2] \in Codes
<1>1. handler[s] \in Steps \X Note
  BY DEF TypeOK, Steps
<1> QED  BY <1>1 DEF InHand, Note

\* A step that is not the idle mark.
LEMMA NotIdle ==
  ASSUME NEW step, NEW n
  PROVE  <<step, n>> # Idle
BY DEF Idle

\* Only slot s has moved, to a step past the claim or to another.
LEMMA MovesKeepApart ==
  ASSUME IInv, NEW s \in Slots, NEW h, handler' = [handler EXCEPT ![s] = h],
         h = Idle \/ (h = <<h[1], h[2]>> /\ h[1] \in {"claim", "fail", "close"})
  PROVE  HeldApart'
<1>1. ~Paying(s)'
  BY NotIdle DEF IInv, TypeOK, Paying, At, Idle
<1>2. \A t \in Slots \ {s} : handler'[t] = handler[t]
  BY DEF IInv, TypeOK
<1> QED  BY <1>1, <1>2 DEF IInv, HeldApart, Paying, At, InHand
----------------------------------------------------------------------------
(* One lemma per action: it keeps the inductive invariant.                 *)

LEMMA InitIInv == Init => IInv
BY GatewayAssumption
   DEF Init, IInv, TypeOK, SuccessWasCharged, HeldWasSent, HeldApart, RecordsCounted,
       CompletedWasPaid, At, Paying

LEMMA ReportKeeps ==
  ASSUME IInv, NEW p \in Payments, NEW c \in Codes, Report(p, c)
  PROVE  IInv'
<1>1. sent \subseteq sent' /\ sent' \subseteq Note /\ charged \subseteq charged' /\ charged' \subseteq Payments
  BY DEF Report, IInv, TypeOK, Note
<1>2. UNCHANGED <<acked, claims, recorded, outbox, landed, pay, txn, method, handler, faults>>
  BY DEF Report, order
<1>3. TypeOK'
  BY <1>1, <1>2 DEF IInv, TypeOK, Note
<1>4. SuccessWasCharged'
  BY <1>1 DEF Report, IInv, SuccessWasCharged
<1>5. HeldWasSent' /\ HeldApart'
  BY <1>1, <1>2 DEF IInv, HeldWasSent, HeldApart, Paying, At, InHand
<1>6. RecordsCounted' /\ CompletedWasPaid'
  BY <1>1, <1>2 DEF IInv, RecordsCounted, CompletedWasPaid, At, InHand
<1> QED  BY <1>3, <1>4, <1>5, <1>6 DEF IInv

LEMMA ReadKeeps ==
  ASSUME IInv, NEW s \in Slots, NEW n \in Note, WebhookRead(s, n)
  PROVE  IInv'
<1>1. UNCHANGED <<charged, sent, claims, recorded, outbox, landed, pay, txn, method, faults>>
  BY DEF WebhookRead, order
<1>2. n \in sent /\ acked' \subseteq Note
  BY DEF WebhookRead, IInv, TypeOK
<1>3. CASE UNCHANGED handler
  BY <1>1, <1>2, <1>3
     DEF IInv, TypeOK, SuccessWasCharged, HeldWasSent, HeldApart, RecordsCounted,
         CompletedWasPaid, Paying, At, InHand
<1>4. CASE handler' = [handler EXCEPT ![s] = <<"claim", n>>]
  <2>1. TypeOK'
    BY <1>1, <1>2, <1>4 DEF IInv, TypeOK
  <2>2. \A t \in Slots : t # s => handler'[t] = handler[t]
    BY <1>4 DEF IInv, TypeOK
  <2>3. handler'[s] = <<"claim", n>>
    BY <1>4 DEF IInv, TypeOK
  <2>4. ~Paying(s)'
    BY <2>3 DEF Paying, At
  <2>5. HeldWasSent'
    BY <1>1, <1>2, <2>2, <2>3, <2>4 DEF IInv, HeldWasSent, Paying, At, InHand
  <2>6. HeldApart'
    BY <1>4, MovesKeepApart
  <2>7. RecordsCounted'
    BY <1>1, <2>2, <2>4 DEF IInv, RecordsCounted, Paying, At, InHand
  <2> QED  BY <1>1, <2>1, <2>5, <2>6, <2>7 DEF IInv, SuccessWasCharged, CompletedWasPaid
<1> QED  BY <1>3, <1>4 DEF WebhookRead

LEMMA ClaimKeeps ==
  ASSUME IInv, NEW s \in Slots, Claim(s)
  PROVE  IInv'
<1> DEFINE n == handler[s][2]
<1>1. UNCHANGED <<charged, sent, recorded, outbox, landed, pay, txn, method, faults>>
  BY DEF Claim, order
<1>2. n \in Note /\ n[1] \in Payments /\ n[2] \in Codes /\ n = <<n[1], n[2]>> /\ n \in sent
  BY HandlerShape DEF Claim, At, IInv, HeldWasSent, Note, InHand
<1>3. CASE n[1] \notin claims /\ claims' = claims \cup {n[1]} /\ UNCHANGED acked
           /\ handler' = [handler EXCEPT ![s] = <<IF PaidCode(n[2]) THEN "record" ELSE "fail", n>>]
  <2>1. TypeOK'
    BY <1>1, <1>2, <1>3 DEF IInv, TypeOK
  <2>2. \A t \in Slots : t # s => handler'[t] = handler[t]
    BY <1>3 DEF IInv, TypeOK
  <2>3. handler'[s] = <<IF PaidCode(n[2]) THEN "record" ELSE "fail", n>>
    BY <1>3 DEF IInv, TypeOK
  <2>4. InHand(s)' = n[1] /\ ~At(s, "append")' /\ (At(s, "record")' => n[2] = "success")
    BY <2>3 DEF InHand, At, PaidCode
  <2>5. HeldWasSent'
    BY <1>1, <1>2, <1>3, <2>2, <2>3, <2>4 DEF IInv, HeldWasSent, Paying, At, InHand
  <2>6. \A t \in Slots : t # s /\ Paying(t)' => InHand(t)' # n[1]
    BY <1>3, <2>2 DEF IInv, HeldWasSent, Paying, At, InHand
  <2>7. HeldApart'
    BY <2>2, <2>4, <2>6 DEF IInv, HeldApart, Paying, At, InHand
  <2>8. recorded[n[1]] = 0
    BY <1>2, <1>3 DEF IInv, TypeOK, RecordsCounted
  <2>9. RecordsCounted'
    BY <1>1, <1>3, <2>2, <2>4, <2>8 DEF IInv, RecordsCounted, Paying, At, InHand
  <2> QED  BY <1>1, <2>1, <2>5, <2>7, <2>9 DEF IInv, SuccessWasCharged, CompletedWasPaid
<1>4. CASE Reply(s, n) /\ UNCHANGED claims
  <2>1. TypeOK'
    BY <1>1, <1>2, <1>4 DEF IInv, TypeOK, Reply
  <2>2. \A t \in Slots : t # s => handler'[t] = handler[t]
    BY <1>4 DEF IInv, TypeOK, Reply
  <2>3. handler'[s] = Idle
    BY <1>4 DEF IInv, TypeOK, Reply
  <2>5. HeldWasSent' /\ HeldApart' /\ RecordsCounted'
    BY <1>1, <1>4, <2>2, <2>3 DEF IInv, HeldWasSent, HeldApart, RecordsCounted, Paying, At, InHand
  <2> QED  BY <1>1, <2>1, <2>5 DEF IInv, SuccessWasCharged, CompletedWasPaid
<1> QED  BY <1>3, <1>4 DEF Claim, ClaimWins, webhookKey, Goto

LEMMA RecordKeeps ==
  ASSUME IInv, NEW s \in Slots, RecordPaid(s)
  PROVE  IInv'
<1> DEFINE p == InHand(s)
<1>1. UNCHANGED <<charged, sent, acked, claims, outbox, landed, pay, txn, method, faults>>
  BY DEF RecordPaid, order
<1>2. At(s, "record") /\ handler[s][2] \in sent /\ handler[s][2] = <<p, "success">>
      /\ p \in claims /\ p \in Payments /\ handler[s][2] \in Note
  BY HandlerShape DEF RecordPaid, At, Paying, IInv, HeldWasSent
<1>3. p \in charged /\ recorded[p] = 0
  BY <1>2 DEF IInv, SuccessWasCharged, RecordsCounted
<1>4. recorded' = [recorded EXCEPT ![p] = 1]
  BY <1>2, <1>3 DEF RecordPaid, InHand, IInv, TypeOK
<1>5. /\ handler'[s] = <<"append", handler[s][2]>>
      /\ \A t \in Slots : t # s => handler'[t] = handler[t]
  BY <1>2 DEF RecordPaid, Goto, IInv, TypeOK
<1>6. TypeOK'
  BY <1>1, <1>2, <1>4 DEF RecordPaid, Goto, IInv, TypeOK
<1>7. HeldWasSent' /\ HeldApart'
  <2>1. At(s, "append")' /\ ~At(s, "record")' /\ InHand(s)' = p
    BY <1>5 DEF At, InHand, Idle
  <2> QED  BY <1>1, <1>2, <1>5, <2>1 DEF IInv, HeldWasSent, HeldApart, Paying, At, InHand
<1>8. RecordsCounted'
  <2>1. \A t \in Slots : t # s /\ Paying(t) => InHand(t) # p
    BY <1>2 DEF IInv, HeldApart, Paying
  <2>2. \A t \in Slots : t # s => (At(t, "record")' <=> At(t, "record")) /\ (At(t, "append")' <=> At(t, "append"))
                                  /\ InHand(t)' = InHand(t)
    BY <1>5 DEF At, InHand
  <2>3. ~At(s, "record")' /\ InHand(s)' = p
    BY <1>5 DEF At, InHand
  <2>4. \A t \in Slots : Paying(t) => InHand(t) \in Payments
    BY HandlerShape DEF IInv, Paying, At
  <2>5. recorded'[p] = 1 /\ \A q \in Payments : q # p => recorded'[q] = recorded[q]
    BY <1>2, <1>4 DEF IInv, TypeOK
  <2>6. outbox \subseteq Payments
    BY DEF IInv, TypeOK
  <2> QED  BY <1>1, <1>2, <1>3, <2>1, <2>2, <2>3, <2>4, <2>5, <2>6 DEF IInv, RecordsCounted, Paying
<1>9. CompletedWasPaid'
  BY <1>1, <1>2, <1>4 DEF IInv, TypeOK, CompletedWasPaid
<1> QED  BY <1>1, <1>6, <1>7, <1>8, <1>9 DEF IInv, SuccessWasCharged

\* Idle in one slot, the other slots and what they rest on as they were.
LEMMA ReplyKeepsOthers ==
  ASSUME IInv, NEW s \in Slots, handler' = [handler EXCEPT ![s] = Idle],
         UNCHANGED <<sent, claims, charged, recorded>>, NEW p \in Payments, recorded[p] = 1,
         outbox' \in {outbox, outbox \cup {p}}
  PROVE  HeldWasSent' /\ HeldApart' /\ RecordsCounted'
<1>1. handler'[s] = Idle /\ \A t \in Slots : t # s => handler'[t] = handler[t]
  BY DEF IInv, TypeOK
<1> QED  BY <1>1 DEF IInv, HeldWasSent, HeldApart, RecordsCounted, Paying, At, InHand

LEMMA AppendKeeps ==
  ASSUME IInv, NEW s \in Slots, AppendPaid(s)
  PROVE  IInv'
<1>1. UNCHANGED <<charged, sent, claims, recorded, landed, pay, txn, method, faults>>
  BY DEF AppendPaid, order
<1>2. InHand(s) \in Payments /\ handler[s][2] \in Note /\ recorded[InHand(s)] = 1
  BY HandlerShape DEF AppendPaid, At, IInv, RecordsCounted
<1>3. outbox' = outbox \cup {InHand(s)} /\ handler' = [handler EXCEPT ![s] = Idle]
      /\ acked' = acked \cup {handler[s][2]}
  BY DEF AppendPaid, Reply, InHand
<1>4. TypeOK'
  BY <1>1, <1>2, <1>3 DEF IInv, TypeOK
<1>5. HeldWasSent' /\ HeldApart' /\ RecordsCounted'
  BY <1>1, <1>2, <1>3, ReplyKeepsOthers
<1> QED  BY <1>1, <1>4, <1>5 DEF IInv, SuccessWasCharged, CompletedWasPaid

LEMMA FailKeeps ==
  ASSUME IInv, NEW s \in Slots, FailOrder(s) \/ CloseFailed(s) \/ Crash(s)
  PROVE  IInv'
<1>1. UNCHANGED <<charged, sent, claims, recorded, outbox, landed, txn, method>>
  BY DEF FailOrder, CloseFailed, Crash, order
<1>2. handler[s] # Idle
  BY DEF FailOrder, CloseFailed, Crash, At
<1>3. handler[s][2] \in Note /\ handler[s][2] \in sent
  BY <1>2, HandlerShape DEF IInv, HeldWasSent
<1>4. PICK h \in {Idle, <<"close", handler[s][2]>>} : handler' = [handler EXCEPT ![s] = h]
  BY DEF FailOrder, CloseFailed, Crash, Goto, Reply
<1>5. pay' \in {pay, "failed"} /\ acked' \subseteq Note /\ faults' \in 0..MaxFaults
  BY <1>3, GatewayAssumption DEF FailOrder, CloseFailed, Crash, Reply, order, IInv, TypeOK
<1>6. TypeOK'
  BY <1>1, <1>3, <1>4, <1>5 DEF IInv, TypeOK
<1>7. /\ handler'[s] = h
      /\ \A t \in Slots : t # s => handler'[t] = handler[t]
  BY <1>4 DEF IInv, TypeOK
<1>8. ~At(s, "record")' /\ ~At(s, "append")'
  BY <1>7 DEF At, Idle
<1>9. HeldWasSent' /\ HeldApart' /\ RecordsCounted'
  BY <1>1, <1>3, <1>7, <1>8 DEF IInv, HeldWasSent, HeldApart, RecordsCounted, Paying, At, InHand
<1> QED  BY <1>1, <1>5, <1>6, <1>9 DEF IInv, SuccessWasCharged, CompletedWasPaid

LEMMA JobKeeps ==
  ASSUME IInv, NEW p \in Payments, JobPaid(p)
  PROVE  IInv'
<1>1. UNCHANGED <<charged, sent, acked, claims, recorded, outbox, method, handler, faults>>
  BY DEF JobPaid
<1>2. pay' = "completed" /\ txn' = p /\ landed' = landed \cup {p}
  BY DEF JobPaid
<1>3. p \in charged /\ recorded[p] = 1
  BY DEF JobPaid, IInv, RecordsCounted
<1> QED
  BY <1>1, <1>2, <1>3
     DEF IInv, TypeOK, SuccessWasCharged, HeldWasSent, HeldApart, RecordsCounted,
         CompletedWasPaid, Paying, At, InHand

LEMMA CollectKeeps ==
  ASSUME IInv, NEW t \in Tills, Collect(t)
  PROVE  IInv'
<1>1. UNCHANGED <<charged, sent, acked, claims, recorded, outbox, landed, txn, handler, faults>>
  BY DEF Collect
<1>2. pay' = "completed" /\ method' = "cash"
  BY DEF Collect
<1> QED
  BY <1>1, <1>2
     DEF IInv, TypeOK, SuccessWasCharged, HeldWasSent, HeldApart, RecordsCounted,
         CompletedWasPaid, Paying, At, InHand

LEMMA StepKeeps == IInv /\ [Next]_vars => IInv'
<1> SUFFICES ASSUME IInv, [Next]_vars PROVE IInv'
  OBVIOUS
<1>1. CASE \E p \in Payments, c \in Codes : Report(p, c)
  BY <1>1, ReportKeeps
<1>2. CASE \E s \in Slots, n \in Note : WebhookRead(s, n)
  BY <1>2, ReadKeeps
<1>3. CASE \E s \in Slots : Serve(s) \/ Crash(s)
  BY <1>3, ClaimKeeps, RecordKeeps, AppendKeeps, FailKeeps DEF Serve
<1>4. CASE \E p \in Payments : JobPaid(p)
  BY <1>4, JobKeeps
<1>5. CASE \E t \in Tills : Collect(t)
  BY <1>5, CollectKeeps
<1>6. CASE UNCHANGED vars
  BY <1>6
     DEF vars, IInv, TypeOK, SuccessWasCharged, HeldWasSent, HeldApart, RecordsCounted,
         CompletedWasPaid, Paying, At, InHand
<1> QED  BY <1>1, <1>2, <1>3, <1>4, <1>5, <1>6 DEF Next

LEMMA Invariant == Spec => []IInv
BY InitIInv, StepKeeps, PTL DEF Spec

----------------------------------------------------------------------------
(* The theorems.                                                           *)

\* Every column, claim and request of the webhook keeps its type.
THEOREM GatewayTyped == Spec => []TypeOK
<1>1. IInv => TypeOK
  BY DEF IInv
<1> QED  BY <1>1, Invariant, PTL

\* However often PayHere repeats a notification and however many requests
\* serve it at once, a payment is recorded once and has a job only then.
THEOREM PaymentRecordedOnce == Spec => []RecordedOnce
<1>1. IInv => RecordedOnce
  BY DEF IInv, RecordsCounted, RecordedOnce
<1> QED  BY <1>1, Invariant, PTL

\* An order reads completed for a payment whose money was taken, or for cash.
THEOREM CompletionWasPaid == Spec => []CompletedWasPaid
<1>1. IInv => CompletedWasPaid
  BY DEF IInv
<1> QED  BY <1>1, Invariant, PTL

----------------------------------------------------------------------------
(* Every step is one of the trail, or none.                                *)

LEMMA RecordIsEntry ==
  ASSUME IInv, NEW s \in Slots, RecordPaid(s)
  PROVE  Trail!TrailNext
<1>1. PICK p \in Payments : p = InHand(s)
  BY HandlerShape DEF RecordPaid, At, IInv
<1>2. p \in charged /\ recorded[p] = 0
  BY <1>1, HandlerShape
     DEF RecordPaid, At, Paying, IInv, HeldWasSent, SuccessWasCharged, RecordsCounted
<1>3. recorded' = [recorded EXCEPT ![p] = 1]
  BY <1>1, <1>2 DEF RecordPaid, InHand, IInv, TypeOK
<1>4. UNCHANGED <<charged, outbox, landed, pay, txn, method>>
  BY DEF RecordPaid, order
<1>5. Trail!Enter(p)
  BY <1>2, <1>3, <1>4 DEF Trail!Enter
<1> QED  BY <1>5 DEF Trail!TrailNext

LEMMA AppendIsEnqueue ==
  ASSUME IInv, NEW s \in Slots, AppendPaid(s)
  PROVE  [Trail!TrailNext]_(Trail!trailVars)
<1>1. PICK p \in Payments : p = InHand(s)
  BY HandlerShape DEF AppendPaid, At, IInv
<1>2. recorded[p] = 1
  BY <1>1 DEF AppendPaid, IInv, RecordsCounted
<1>3. outbox' = outbox \cup {p}
  BY <1>1 DEF AppendPaid, InHand
<1>4. UNCHANGED <<charged, recorded, landed, pay, txn, method>>
  BY DEF AppendPaid, order
<1>5. CASE p \in outbox
  BY <1>3, <1>4, <1>5 DEF Trail!trailVars
<1>6. CASE p \notin outbox
  <2>1. Trail!Enqueue(p)
    BY <1>2, <1>3, <1>4, <1>6 DEF Trail!Enqueue
  <2> QED  BY <2>1 DEF Trail!TrailNext
<1> QED  BY <1>5, <1>6

LEMMA StepFollows ==
  IInv /\ [Next]_vars => [Trail!TrailNext]_(Trail!trailVars)
<1> SUFFICES ASSUME IInv, [Next]_vars
             PROVE  [Trail!TrailNext]_(Trail!trailVars)
  OBVIOUS
<1>1. ASSUME NEW p \in Payments, NEW c \in Codes, Report(p, c)
      PROVE  [Trail!TrailNext]_(Trail!trailVars)
  <2>1. UNCHANGED <<recorded, outbox, landed, pay, txn, method>>
    BY <1>1 DEF Report, order
  <2>2. CASE charged' = charged
    BY <2>1, <2>2 DEF Trail!trailVars
  <2>3. CASE charged' # charged
    <3>1. Trail!Take(p)
      BY <1>1, <2>1, <2>3 DEF Report, Trail!Take
    <3> QED  BY <3>1 DEF Trail!TrailNext
  <2> QED  BY <2>2, <2>3
<1>2. ASSUME NEW s \in Slots, NEW n \in Note, WebhookRead(s, n)
      PROVE  [Trail!TrailNext]_(Trail!trailVars)
  BY <1>2 DEF WebhookRead, order, Trail!trailVars
<1>3. ASSUME NEW s \in Slots, Claim(s) \/ CloseFailed(s) \/ Crash(s)
      PROVE  [Trail!TrailNext]_(Trail!trailVars)
  BY <1>3 DEF Claim, CloseFailed, Crash, order, Trail!trailVars
<1>4. ASSUME NEW s \in Slots, FailOrder(s)
      PROVE  [Trail!TrailNext]_(Trail!trailVars)
  BY <1>4 DEF FailOrder, Trail!Refuse, Trail!TrailNext
<1>5. ASSUME NEW p \in Payments, JobPaid(p)
      PROVE  [Trail!TrailNext]_(Trail!trailVars)
  <2>1. Trail!Land(p)
    BY <1>5 DEF JobPaid, Trail!Land
  <2> QED  BY <2>1 DEF Trail!TrailNext
<1>6. ASSUME NEW t \in Tills, Collect(t)
      PROVE  [Trail!TrailNext]_(Trail!trailVars)
  BY <1>6 DEF Collect, Trail!PayCash, Trail!TrailNext
<1>7. CASE UNCHANGED vars
  BY <1>7 DEF vars, Trail!trailVars
<1> QED
  BY <1>1, <1>2, <1>3, <1>4, <1>5, <1>6, <1>7, RecordIsEntry, AppendIsEnqueue DEF Next, Serve

\* The webhook, the job behind it and the till implement the trail of a payment,
\* for any number of payments, repeated notifications, requests and deaths: the
\* money is entered once, queued only then, and completes the order in its name.
THEOREM WebhookFollowsTrail == Spec => FollowsTrail
<1>1. Init => Trail!TrailInit
  BY DEF Init, Trail!TrailInit
<1>2. IInv /\ [Next]_vars => [Trail!TrailNext]_(Trail!trailVars)
  BY StepFollows
<1> QED  BY <1>1, <1>2, Invariant, PTL DEF Spec, FollowsTrail, Trail!TrailSpec
===============================================================================
