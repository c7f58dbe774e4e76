----------------------------- MODULE DishReviews -----------------------------
(***************************************************************************)
(* The reviews of one dish: guests review it once per order, the office    *)
(* publishes or hides a review, and guests mark a published one as         *)
(* helpful.  The dish carries the number and the average of its published  *)
(* reviews, which are computed from the table and written back after every *)
(* moderation, in calls of their own.  An order stands for the review of   *)
(* the dish in it; an average is kept as a sum beside the number.          *)
(***************************************************************************)
EXTENDS Naturals, FiniteSets, Functions

CONSTANTS Orders,    \* orders that contain the dish
          Readers,   \* guests that mark reviews
          Ratings,
          Slots,     \* requests in hand at once
          MaxEvents  \* bound: moderations and marks in all

ASSUME ReviewAssumption == Ratings \subseteq Nat \ {0} /\ MaxEvents \in Nat

VARIABLES
  reviewable, \* the orders that pass evaluateMenuItemReviewEligibility now
  active,     \* MenuItem.isActive
  review,     \* per order, the visibility of its review, if there is one
  rating,     \* per order, the rating in it
  stats,      \* MenuItem.reviewCount and averageRating
  reaction,   \* per order and reader, the id of their MenuItemReviewReaction, or 0
  hand,       \* per slot, the request in hand
  toggled,    \* history: the marks that were answered an odd number of times
  raced,      \* history: moderations have been open at once, or died half-way
  events      \* of what MaxEvents bounds, so far

reviewVars == <<reviewable, active, review, rating, stats, reaction, hand, toggled, raced, events>>

Visibility == {"pending", "public", "hidden"}

\* The number of some reviews and the sum of their ratings.
StatsOf(ratings) == [count |-> Cardinality(DOMAIN ratings), sum |-> SumFunction(ratings)]
Counts == {StatsOf(ratings) : ratings \in UNION {[S -> Ratings] : S \in SUBSET Orders}}
RatingsOf(S) == [o \in S |-> rating[o]]

Marks == Orders \X Readers

Idle == [at |-> "idle"]
Request == {Idle}
  \cup [at : {"insert"}, order : Orders, rating : Ratings]
  \cup [at : {"aggregate"}, order : Orders]
  \cup [at : {"write"}, order : Orders, stats : Counts]
  \cup [at : {"find"}, mark : Marks, id : 1..MaxEvents]
  \cup [at : {"toggle"}, mark : Marks, id : 1..MaxEvents, row : 0..MaxEvents]

ReviewsTypeOK ==
  /\ reviewable \subseteq Orders /\ active \in BOOLEAN
  /\ review \in [Orders -> Visibility \cup {"none"}]
  /\ rating \in [Orders -> Ratings \cup {0}]
  /\ stats \in Counts
  /\ reaction \in [Marks -> 0..MaxEvents]
  /\ hand \in [Slots -> Request]
  /\ toggled \subseteq Marks
  /\ raced \in BOOLEAN
  /\ events \in 0..MaxEvents

ReviewsInit ==
  /\ reviewable = {} /\ active = TRUE
  /\ review = [o \in Orders |-> "none"]
  /\ rating = [o \in Orders |-> 0]
  /\ stats = StatsOf(RatingsOf({}))
  /\ reaction = [m \in Marks |-> 0]
  /\ hand = [s \in Slots |-> Idle]
  /\ toggled = {} /\ raced = FALSE /\ events = 0

Event == events < MaxEvents /\ events' = events + 1

Take(s, request) == hand[s] = Idle /\ hand' = [hand EXCEPT ![s] = request]
Answer(s) == hand' = [hand EXCEPT ![s] = Idle]

----------------------------------------------------------------------------
(* createReview.                                                           *)

\* A paid order is complete, is refunded, or its sixty days are over.
OrderMoves(o) ==
  /\ reviewable' = IF o \in reviewable THEN reviewable \ {o} ELSE reviewable \cup {o}
  /\ UNCHANGED <<active, review, rating, stats, reaction, hand, toggled, raced, events>>

DishMoves ==
  /\ active' = ~active
  /\ UNCHANGED <<reviewable, review, rating, stats, reaction, hand, toggled, raced, events>>

CreateReview(s, o, n) ==
  /\ o \in reviewable /\ active
  /\ Take(s, [at |-> "insert", order |-> o, rating |-> n])
  /\ UNCHANGED <<reviewable, active, review, rating, stats, reaction, toggled, raced, events>>

\* A second review of the order is a unique violation.
InsertReview(s) ==
  LET r == hand[s] IN
  /\ r.at = "insert"
  /\ IF review[r.order] = "none"
       THEN /\ review' = [review EXCEPT ![r.order] = "pending"]
            /\ rating' = [rating EXCEPT ![r.order] = r.rating]
       ELSE UNCHANGED <<review, rating>>
  /\ Answer(s)
  /\ UNCHANGED <<reviewable, active, stats, reaction, toggled, raced, events>>

----------------------------------------------------------------------------
(* patchAdminReview and refreshPublicStatsForMenuItem.                     *)

Moderating(s) == hand[s].at \in {"aggregate", "write"}

Moderate(s, o, v) ==
  /\ Event /\ review[o] # "none"
  /\ Take(s, [at |-> "aggregate", order |-> o])
  /\ review' = [review EXCEPT ![o] = v]
  /\ raced' = (raced \/ \E t \in Slots : Moderating(t))
  /\ UNCHANGED <<reviewable, active, rating, stats, reaction, toggled>>

\* Bug: reviews that wait for moderation count as well.
Counted_Pending(o) == review[o] \in {"pending", "public"}

Counted(o) == review[o] = "public"

Aggregate(s) ==
  /\ hand[s].at = "aggregate"
  /\ hand' = [hand EXCEPT ![s] = [at |-> "write", order |-> @.order,
                                   stats |-> StatsOf(RatingsOf({o \in Orders : Counted(o)}))]]
  /\ UNCHANGED <<reviewable, active, review, rating, stats, reaction, toggled, raced, events>>

\* Bug: what was aggregated is added to what the dish has.
NewStats_Added(r) == [count |-> stats.count + r.stats.count, sum |-> stats.sum + r.stats.sum]

NewStats(r) == r.stats

WriteStats(s) ==
  /\ hand[s].at = "write"
  /\ stats' = NewStats(hand[s])
  /\ Answer(s)
  /\ UNCHANGED <<reviewable, active, review, rating, reaction, toggled, raced, events>>

----------------------------------------------------------------------------
(* toggleReviewHelpful.                                                    *)

MarkHelpful(s, m) ==
  /\ Event /\ review[m[1]] = "public"
  /\ Take(s, [at |-> "find", mark |-> m, id |-> events'])
  /\ UNCHANGED <<reviewable, active, review, rating, stats, reaction, toggled, raced>>

FindReaction(s) ==
  /\ hand[s].at = "find"
  /\ hand' = [hand EXCEPT ![s] = [at |-> "toggle", mark |-> @.mark, id |-> @.id,
                                   row |-> reaction[@.mark]]]
  /\ UNCHANGED <<reviewable, active, review, rating, stats, reaction, toggled, raced, events>>

\* Bug: a mark that is gone, or there already, is taken for what was to be done.
Toggles_Lenient(r) == TRUE

\* A deletion is by id, and an insertion is subject to a unique index.
Toggles(r) == reaction[r.mark] = r.row

ToggleReaction(s) ==
  LET r == hand[s] IN
  /\ r.at = "toggle"
  /\ IF Toggles(r)
       THEN /\ reaction' = [reaction EXCEPT ![r.mark] = IF r.row = 0 THEN r.id ELSE 0]
            /\ toggled' = (toggled \ {r.mark}) \cup ({r.mark} \ toggled)
       ELSE UNCHANGED <<reaction, toggled>>
  /\ Answer(s)
  /\ UNCHANGED <<reviewable, active, review, rating, stats, raced, events>>

----------------------------------------------------------------------------
\* The request fails or its process dies.
Die(s) ==
  /\ hand[s] # Idle
  /\ Answer(s)
  /\ raced' = (raced \/ Moderating(s))
  /\ UNCHANGED <<reviewable, active, review, rating, stats, reaction, toggled, events>>

RequestStep(s) ==
  InsertReview(s) \/ Aggregate(s) \/ WriteStats(s) \/ FindReaction(s) \/ ToggleReaction(s) \/ Die(s)

ReviewsNext ==
  \/ \E o \in Orders : OrderMoves(o)
  \/ DishMoves
  \/ \E s \in Slots :
       \/ \E o \in Orders, n \in Ratings : CreateReview(s, o, n)
       \/ \E o \in Orders, v \in Visibility : Moderate(s, o, v)
       \/ \E m \in Marks : MarkHelpful(s, m)
       \/ RequestStep(s)

ReviewsSpec == ReviewsInit /\ [][ReviewsNext]_reviewVars

----------------------------------------------------------------------------
(* Properties.                                                             *)

\* When the office is done, the dish shows the number and the average of its
\* published reviews, unless moderations ran at once or died half-way; reviews
\* that come in meanwhile make no difference.
StatsMatchPublic ==
  ~raced /\ (\A s \in Slots : ~Moderating(s)) =>
    stats = StatsOf(RatingsOf({o \in Orders : review[o] = "public"}))

\* A reader's mark is there after an odd number of toggles that were answered,
\* however two of them overlap: of two that found the same only one succeeds.
HelpfulParity == \A m \in Marks : reaction[m] # 0 <=> m \in toggled
===============================================================================
