------------------------------ MODULE StaffQueue ------------------------------
(***************************************************************************)
(* What the queue promises the staff, with no revision, cache, process or  *)
(* message in sight: one list of changes, part of which is announced.  A   *)
(* screen that asks is shown the list as it was at some moment: not later  *)
(* than now and, until some part of the system was cut off, not before     *)
(* what was announced when it asked.  A question may go unanswered, and    *)
(* then the screen is left as it is.                                       *)
(***************************************************************************)
EXTENDS Naturals

CONSTANTS Questions, Screens, Nobody

VARIABLES
  made,       \* changes made
  announced,  \* the last that was announced
  question,   \* per question under way, who asked and what was announced then
  shown,      \* per screen, the last change in its list
  cutOff

queueVars == <<made, announced, question, shown, cutOff>>

QueueInit ==
  /\ made = 0 /\ announced = 0
  /\ question = [q \in Questions |-> Nobody]
  /\ shown = [c \in Screens |-> 0]
  /\ cutOff = FALSE

Make == made' = made + 1 /\ UNCHANGED <<announced, question, shown, cutOff>>

Announce ==
  /\ announced < announced' /\ announced' <= made
  /\ UNCHANGED <<made, question, shown, cutOff>>

Ask(q, c) ==
  /\ question[q] = Nobody
  /\ question' = [question EXCEPT ![q] =
                    [by |-> c, since |-> IF cutOff THEN 0 ELSE announced]]
  /\ UNCHANGED <<made, announced, shown, cutOff>>

Answer(q) ==
  /\ question[q] # Nobody
  /\ \E page \in 0..made :
       /\ ~cutOff => question[q].since <= page
       /\ shown' = [shown EXCEPT ![question[q].by] = page]
  /\ question' = [question EXCEPT ![q] = Nobody]
  /\ UNCHANGED <<made, announced, cutOff>>

Dropped(Q) == question' = [q \in Questions |-> IF q \in Q THEN Nobody ELSE question[q]]

\* Questions fail or are lost, perhaps because some process is cut off.
Fail ==
  /\ \E Q \in SUBSET Questions : Dropped(Q)
  /\ cutOff' \in {cutOff, TRUE}
  /\ UNCHANGED <<made, announced, shown>>

QueueNext ==
  \/ Make \/ Announce \/ Fail
  \/ \E q \in Questions : Answer(q) \/ \E c \in Screens : Ask(q, c)

QueueSpec == QueueInit /\ [][QueueNext]_queueVars
===============================================================================
