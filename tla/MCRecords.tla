----------------------------- MODULE MCRecords -----------------------------
(***************************************************************************)
(* What is written of orders from the storefront's submission on: the      *)
(* submission itself, what Shopify's webhooks write on the row later, and  *)
(* the shop's daily numbers, twice: two orders counted at once with        *)
(* nothing failing, and one with failures and a rebuild that is tried      *)
(* again. A behaviour is of one of the four, which "part" names.           *)
(***************************************************************************)
EXTENDS OrderLifecycle

CONSTANTS
    d1, d2,          \* the deliveries
    Submissions, Purchases, Limit, Rescanned, Verdicts,
    s1, s2, b1, b2,  \* the submissions, and the purchases they are for
    Counted, One, Rebuilds, LastDay, ChunkDays, MaxTries,
    c1, c2           \* the orders that are counted

VARIABLES
    part,
    phase, requireOtp, purchase, verdict, answer, orders, recent, stage, riskAction, otpRequired, queued,
    used, scan, since, lapsed, failed, peak,
    today, created, cancelled, blocked, stat, lock, increment, readMap, lost, step, from, to, cursor,
    tries, readOrders, readViews, quiet

Submitted == INSTANCE Submission WITH status <- stage, counted <- used

Counting == INSTANCE DailyStats WITH Orders <- Counted, MaxTries <- 1, MaxViews <- 0, Outages <- FALSE
Retrying == INSTANCE DailyStats WITH Orders <- One, MaxViews <- 1

ASSUME RecordsAssumption ==
    Submitted!SubmissionAssumption /\ Counting!StatsAssumption /\ Retrying!StatsAssumption

\* What the orders in which the names are used, below, stand on.
ASSUME RecordsNames ==
    /\ Deliveries = {d1, d2}
    /\ Submissions = {s1, s2} /\ Purchases = {b1, b2}
    /\ Counted = {c1, c2} /\ One = {c1}

-----------------------------------------------------------------------------
submitVars == <<phase, requireOtp, purchase, verdict, answer, orders, recent, stage, riskAction,
                otpRequired, queued, used, scan, since, lapsed, failed, peak>>
statsVars == <<today, created, cancelled, blocked, stat, lock, increment, readMap, lost, step, from, to,
               cursor, tries, readOrders, readViews, quiet>>
recordVars == <<part, vars, submitVars, statsVars>>

\* Which delivery, purchase or counted order is which makes no difference:
\* they are used in this order, so that each behaviour is explored under one naming.
D1First == topic'[d2] # Null => topic'[d1] # Null
FirstIsB1 == b2 \in {purchase'[s] : s \in {s1, s2}} => b1 \in {purchase'[s] : s \in {s1, s2}}
C1First == created'[c2] # 0 => created'[c1] # 0
\* The order that is rescanned is of the submission that arrives first.
S1First == phase'[s2] # "new" => phase'[s1] # "new"

HookStep == part = "hooks" /\ Next /\ D1First /\ UNCHANGED <<part, submitVars, statsVars>>
SubmitStep == part = "submit" /\ Submitted!Next /\ FirstIsB1 /\ S1First /\ UNCHANGED <<part, vars, statsVars>>
CountStep == part = "count" /\ Counting!Next /\ C1First /\ UNCHANGED <<part, vars, submitVars>>
RetryStep == part = "retry" /\ Retrying!Next /\ UNCHANGED <<part, vars, submitVars>>

RecordsInit ==
    /\ part \in {"hooks", "submit", "count", "retry"}
    /\ Init /\ Submitted!Init
    /\ IF part = "retry" THEN Retrying!Init ELSE Counting!Init

RecordsNext == HookStep \/ SubmitStep \/ CountStep \/ RetryStep

RecordsSpec == RecordsInit /\ [][RecordsNext]_recordVars

-----------------------------------------------------------------------------
(* Properties: those of the parts, each stated where its module says why.  *)

\* A purchase submitted again finds its order (Submission: orders/service.ts).
ResubmissionFindsOrder == Submitted!ResubmissionFindsOrder

\* The plan's cap is overshot by no more than the submissions in flight (Submission:
\* billing/service.ts checkUsage, recordUsage).
OvershootBounded == Submitted!OvershootBounded

\* The order a buyer is told of is for what was submitted (Submission: orders/service.ts).
AnswerNamesPurchase == Submitted!AnswerNamesPurchase

\* A stored order has a push job, or a gate holds it (Submission: scanOrder.ts, gates.ts).
StoredIsQueuedOrHeld == Submitted!StoredIsQueuedOrHeld

Stats(counting, retrying) == IF part = "retry" THEN retrying ELSE counting

\* The country map and the revenue of a day never part (DailyStats: applyDelta).
MapAgreesWithRevenue == Stats(Counting!MapAgreesWithRevenue, Retrying!MapAgreesWithRevenue)

\* Until something fails or rebuilds a day counts its orders, and an undisturbed
\* rebuild restates its days (DailyStats: applyDelta, processStatsRebuild).
DaysAreExact == Stats(Counting!EveryOrderCounted /\ Counting!RebuildIsExact,
                      Retrying!EveryOrderCounted /\ Retrying!RebuildIsExact)

\* A day's average comes to be that of its columns (DailyStats: recalculateAverage).
AverageSettles == Stats(Counting!AverageSettles, Retrying!AverageSettles)
=============================================================================
