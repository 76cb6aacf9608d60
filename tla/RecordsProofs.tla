---------------------------- MODULE RecordsProofs ----------------------------
(***************************************************************************)
(* What the modules of submissions and of daily numbers promise holds of   *)
(* the two together with the webhooks, as MCRecords runs them: a step of   *)
(* one part leaves the others' variables alone. Then what the webhook      *)
(* handlers write on the row and count, for any number of orders, webhooks *)
(* and requests: a counter follows its row, and a webhook is counted once  *)
(* unless somebody replays it.                                             *)
(***************************************************************************)
EXTENDS MCRecords, FiniteSetTheorems, TLAPS

\* The same instances, of the modules that hold the proofs.
ProvedSubmission == INSTANCE SubmissionProofs WITH status <- stage, counted <- used

ProvedCounting == INSTANCE DailyStatsProofs
    WITH Orders <- Counted, MaxTries <- 1, MaxViews <- 0, Outages <- FALSE
ProvedRetrying == INSTANCE DailyStatsProofs WITH Orders <- One, MaxViews <- 1

-----------------------------------------------------------------------------
(* Submissions                                                              *)

LEMMA SubmissionsAssumed ==
  ProvedSubmission!SubmissionAssumption
  BY RecordsAssumption
     DEF Submitted!SubmissionAssumption, Submitted!RiskAction, Submitted!Status,
         Submitted!IsFiniteSet, ProvedSubmission!IsFiniteSet, ProvedSubmission!SubmissionAssumption, ProvedSubmission!RiskAction,
         ProvedSubmission!Status

\* The steps of one instance are those of the other, definition by definition.
LEMMA SubmissionSteps ==
  /\ Submitted!Init => ProvedSubmission!Init
  /\ Submitted!Next => ProvedSubmission!Next
<1>1. Submitted!Init => ProvedSubmission!Init
  BY DEF Submitted!Init, ProvedSubmission!Init
<1>2. Submitted!Next => ProvedSubmission!Next
  BY DEF Submitted!Cardinality, ProvedSubmission!Cardinality, Submitted!RiskAction,
         ProvedSubmission!RiskAction, Submitted!Status, ProvedSubmission!Status,
         Submitted!rowVars, ProvedSubmission!rowVars, Submitted!doneVars,
         ProvedSubmission!doneVars, Submitted!pastVars, ProvedSubmission!pastVars,
         Submitted!runVars, ProvedSubmission!runVars, Submitted!Pending,
         ProvedSubmission!Pending, Submitted!InFlight, ProvedSubmission!InFlight,
         Submitted!Goto, ProvedSubmission!Goto, Submitted!Receive, ProvedSubmission!Receive,
         Submitted!WithinLimit, ProvedSubmission!WithinLimit, Submitted!checkUsage,
         ProvedSubmission!checkUsage, Submitted!Price, ProvedSubmission!Price,
         Submitted!assessAndRecord, ProvedSubmission!assessAndRecord, Submitted!Duplicates,
         ProvedSubmission!Duplicates, Submitted!findRecentDuplicate,
         ProvedSubmission!findRecentDuplicate, Submitted!createWithTimeline,
         ProvedSubmission!createWithTimeline, Submitted!persistAssessment,
         ProvedSubmission!persistAssessment, Submitted!appendEvent,
         ProvedSubmission!appendEvent, Submitted!Allows, ProvedSubmission!Allows,
         Submitted!Enqueue, ProvedSubmission!Enqueue, Submitted!recordUsage,
         ProvedSubmission!recordUsage, Submitted!Fail, ProvedSubmission!Fail,
         Submitted!Expire, ProvedSubmission!Expire, Submitted!SetStatus,
         ProvedSubmission!SetStatus, Submitted!Push, ProvedSubmission!Push,
         Submitted!markPushExhausted, ProvedSubmission!markPushExhausted,
         Submitted!ordersCancelled, ProvedSubmission!ordersCancelled, Submitted!ScanRead,
         ProvedSubmission!ScanRead, Submitted!Released, ProvedSubmission!Released,
         Submitted!ScanWrite, ProvedSubmission!ScanWrite, Submitted!ScanRelease,
         ProvedSubmission!ScanRelease, Submitted!ScanFails, ProvedSubmission!ScanFails,
         Submitted!submitOrder, ProvedSubmission!submitOrder, Submitted!Meanwhile,
         ProvedSubmission!Meanwhile, Submitted!Next, ProvedSubmission!Next
<1> QED
  BY <1>1, <1>2

LEMMA SubmissionsKept ==
  ASSUME ProvedSubmission!SubmissionInv, [RecordsNext]_recordVars
  PROVE  ProvedSubmission!SubmissionInv'
<1>1. [ProvedSubmission!Next]_(ProvedSubmission!vars)
  BY SubmissionSteps
     DEF RecordsNext, HookStep, SubmitStep, CountStep, RetryStep, recordVars, submitVars,
         ProvedSubmission!vars, ProvedSubmission!runVars, ProvedSubmission!rowVars,
         ProvedSubmission!doneVars, ProvedSubmission!pastVars
<1> QED
  BY <1>1, SubmissionsAssumed, ProvedSubmission!SubmissionInvNext

LEMMA SubmissionsGive ==
  ASSUME ProvedSubmission!SubmissionInv
  PROVE  ResubmissionFindsOrder /\ OvershootBounded /\ AnswerNamesPurchase /\ StoredIsQueuedOrHeld
<1>1. /\ ProvedSubmission!ResubmissionFindsOrder /\ ProvedSubmission!OvershootBounded
      /\ ProvedSubmission!AnswerNamesPurchase /\ ProvedSubmission!StoredIsQueuedOrHeld
  BY SubmissionsAssumed, ProvedSubmission!SubmissionInvGives
<1> QED
  BY <1>1
     DEF ResubmissionFindsOrder, OvershootBounded, AnswerNamesPurchase, StoredIsQueuedOrHeld,
         Submitted!ResubmissionFindsOrder, Submitted!OvershootBounded,
         Submitted!AnswerNamesPurchase, Submitted!StoredIsQueuedOrHeld, Submitted!Held,
         Submitted!Allows, ProvedSubmission!ResubmissionFindsOrder,
         ProvedSubmission!OvershootBounded, ProvedSubmission!AnswerNamesPurchase,
         ProvedSubmission!StoredIsQueuedOrHeld, ProvedSubmission!Held, ProvedSubmission!Allows,
         Submitted!Cardinality, ProvedSubmission!Cardinality

LEMMA SubmissionsStart == RecordsInit => ProvedSubmission!SubmissionInv
  BY SubmissionsAssumed, SubmissionSteps, ProvedSubmission!SubmissionInvInit DEF RecordsInit

\* submitOrder: a purchase submitted again finds its order while that is alive
\* and in the duplicate window, unless the two submissions overlapped.
THEOREM PurchaseIsOneOrder == RecordsSpec => []ResubmissionFindsOrder
  BY SubmissionsStart, SubmissionsKept, SubmissionsGive, PTL DEF RecordsSpec

\* checkUsage and recordUsage: the plan's cap is overshot by fewer orders than
\* submissions were ever in flight together, those not counted apart.
THEOREM CapIsNearlyKept == RecordsSpec => []OvershootBounded
  BY SubmissionsStart, SubmissionsKept, SubmissionsGive, PTL DEF RecordsSpec

\* submitOrder: the order in the answer is stored and of what was submitted.
THEOREM BuyersHearOfTheirOrder == RecordsSpec => []AnswerNamesPurchase
  BY SubmissionsStart, SubmissionsKept, SubmissionsGive, PTL DEF RecordsSpec

\* The gates and the fraud rescan: an order whose submission met no failure has
\* a push job, or a gate holds it now, whatever the rescan wrote meanwhile.
THEOREM NoOrderIsForgotten == RecordsSpec => []StoredIsQueuedOrHeld
  BY SubmissionsStart, SubmissionsKept, SubmissionsGive, PTL DEF RecordsSpec

-----------------------------------------------------------------------------
(* Daily numbers                                                            *)

LEMMA StatsAssumed ==
  ProvedCounting!StatsAssumption /\ ProvedRetrying!StatsAssumption
  BY RecordsAssumption
     DEF Counting!IsFiniteSet, ProvedCounting!IsFiniteSet, Retrying!IsFiniteSet,
         ProvedRetrying!IsFiniteSet, Counting!StatsAssumption,
         ProvedCounting!StatsAssumption, Retrying!StatsAssumption,
         ProvedRetrying!StatsAssumption, Counting!Row, ProvedCounting!Row, Retrying!Row,
         ProvedRetrying!Row, Counting!OrderRead, ProvedCounting!OrderRead,
         Retrying!OrderRead, ProvedRetrying!OrderRead, Counting!Day, ProvedCounting!Day,
         Retrying!Day, ProvedRetrying!Day

LEMMA CountingSteps ==
  /\ Counting!Init => ProvedCounting!Init
  /\ Counting!Next => ProvedCounting!Next
<1>1. Counting!Init => ProvedCounting!Init
  BY DEF Counting!Init, ProvedCounting!Init, Counting!Day, ProvedCounting!Day, Counting!Event,
         ProvedCounting!Event
<1>2. Counting!Next => ProvedCounting!Next
  BY DEF Counting!Cardinality, ProvedCounting!Cardinality, Counting!Day, ProvedCounting!Day,
         Counting!EmptyRow, ProvedCounting!EmptyRow, Counting!orderVars,
         ProvedCounting!orderVars, Counting!incrementVars, ProvedCounting!incrementVars,
         Counting!rebuildVars, ProvedCounting!rebuildVars, Counting!Event,
         ProvedCounting!Event, Counting!Disturb, ProvedCounting!Disturb, Counting!NextDay,
         ProvedCounting!NextDay, Counting!SetIncrement, ProvedCounting!SetIncrement,
         Counting!Submit, ProvedCounting!Submit, Counting!Cancel, ProvedCounting!Cancel,
         Counting!Block, ProvedCounting!Block, Counting!RowOf, ProvedCounting!RowOf,
         Counting!DayOf, ProvedCounting!DayOf, Counting!Averaged, ProvedCounting!Averaged,
         Counting!RecordFormView, ProvedCounting!RecordFormView, Counting!RecordCancelled,
         ProvedCounting!RecordCancelled, Counting!Upsert, ProvedCounting!Upsert,
         Counting!LockRow, ProvedCounting!LockRow, Counting!Merged, ProvedCounting!Merged,
         Counting!WriteMerged, ProvedCounting!WriteMerged, Counting!RecalculateAverage,
         ProvedCounting!RecalculateAverage, Counting!LoseIncrement,
         ProvedCounting!LoseIncrement, Counting!Lesser, ProvedCounting!Lesser,
         Counting!Inline, ProvedCounting!Inline, Counting!Running, ProvedCounting!Running,
         Counting!RequestRebuild, ProvedCounting!RequestRebuild, Counting!Window,
         ProvedCounting!Window, Counting!ReadOrders, ProvedCounting!ReadOrders,
         Counting!ReadRows, ProvedCounting!ReadRows, Counting!RebuiltRow,
         ProvedCounting!RebuiltRow, Counting!Replaced, ProvedCounting!Replaced,
         Counting!NextChunk, ProvedCounting!NextChunk, Counting!Replace,
         ProvedCounting!Replace, Counting!FailRebuild, ProvedCounting!FailRebuild,
         Counting!Merge, ProvedCounting!Merge, Counting!Rebuild, ProvedCounting!Rebuild,
         Counting!Next, ProvedCounting!Next
<1> QED
  BY <1>1, <1>2

LEMMA RetryingSteps ==
  /\ Retrying!Init => ProvedRetrying!Init
  /\ Retrying!Next => ProvedRetrying!Next
<1>1. Retrying!Init => ProvedRetrying!Init
  BY DEF Retrying!Init, ProvedRetrying!Init, Retrying!Day, ProvedRetrying!Day, Retrying!Event,
         ProvedRetrying!Event
<1>2. Retrying!Next => ProvedRetrying!Next
  BY DEF Retrying!Cardinality, ProvedRetrying!Cardinality, Retrying!Day, ProvedRetrying!Day,
         Retrying!EmptyRow, ProvedRetrying!EmptyRow, Retrying!orderVars,
         ProvedRetrying!orderVars, Retrying!incrementVars, ProvedRetrying!incrementVars,
         Retrying!rebuildVars, ProvedRetrying!rebuildVars, Retrying!Event,
         ProvedRetrying!Event, Retrying!Disturb, ProvedRetrying!Disturb, Retrying!NextDay,
         ProvedRetrying!NextDay, Retrying!SetIncrement, ProvedRetrying!SetIncrement,
         Retrying!Submit, ProvedRetrying!Submit, Retrying!Cancel, ProvedRetrying!Cancel,
         Retrying!Block, ProvedRetrying!Block, Retrying!RowOf, ProvedRetrying!RowOf,
         Retrying!DayOf, ProvedRetrying!DayOf, Retrying!Averaged, ProvedRetrying!Averaged,
         Retrying!RecordFormView, ProvedRetrying!RecordFormView, Retrying!RecordCancelled,
         ProvedRetrying!RecordCancelled, Retrying!Upsert, ProvedRetrying!Upsert,
         Retrying!LockRow, ProvedRetrying!LockRow, Retrying!Merged, ProvedRetrying!Merged,
         Retrying!WriteMerged, ProvedRetrying!WriteMerged, Retrying!RecalculateAverage,
         ProvedRetrying!RecalculateAverage, Retrying!LoseIncrement,
         ProvedRetrying!LoseIncrement, Retrying!Lesser, ProvedRetrying!Lesser,
         Retrying!Inline, ProvedRetrying!Inline, Retrying!Running, ProvedRetrying!Running,
         Retrying!RequestRebuild, ProvedRetrying!RequestRebuild, Retrying!Window,
         ProvedRetrying!Window, Retrying!ReadOrders, ProvedRetrying!ReadOrders,
         Retrying!ReadRows, ProvedRetrying!ReadRows, Retrying!RebuiltRow,
         ProvedRetrying!RebuiltRow, Retrying!Replaced, ProvedRetrying!Replaced,
         Retrying!NextChunk, ProvedRetrying!NextChunk, Retrying!Replace,
         ProvedRetrying!Replace, Retrying!FailRebuild, ProvedRetrying!FailRebuild,
         Retrying!Merge, ProvedRetrying!Merge, Retrying!Rebuild, ProvedRetrying!Rebuild,
         Retrying!Next, ProvedRetrying!Next
<1> QED
  BY <1>1, <1>2

\* A behaviour is of one part: the numbers are those of its instance.
StatsInv == IF part = "retry" THEN ProvedRetrying!StatsInv ELSE ProvedCounting!StatsInv

LEMMA StatsKept ==
  ASSUME StatsInv, [RecordsNext]_recordVars
  PROVE  StatsInv'
<1>1. part' = part
  BY DEF RecordsNext, HookStep, SubmitStep, CountStep, RetryStep, recordVars
<1> USE DEF RecordsNext, HookStep, SubmitStep, CountStep, RetryStep, recordVars, statsVars
<1>2. CASE part = "retry"
  <2>1. [ProvedRetrying!Next]_(ProvedRetrying!vars)
    BY <1>2, RetryingSteps
       DEF ProvedRetrying!vars, ProvedRetrying!orderVars, ProvedRetrying!incrementVars,
           ProvedRetrying!rebuildVars
  <2>2. ProvedRetrying!StatsInv'
    BY <1>2, <2>1, StatsAssumed, ProvedRetrying!StatsInvNext DEF StatsInv
  <2> QED
    BY <1>1, <1>2, <2>2 DEF StatsInv
<1>3. CASE part # "retry"
  <2>1. [ProvedCounting!Next]_(ProvedCounting!vars)
    BY <1>3, CountingSteps
       DEF ProvedCounting!vars, ProvedCounting!orderVars, ProvedCounting!incrementVars,
           ProvedCounting!rebuildVars
  <2>2. ProvedCounting!StatsInv'
    BY <1>3, <2>1, StatsAssumed, ProvedCounting!StatsInvNext DEF StatsInv
  <2> QED
    BY <1>1, <1>3, <2>2 DEF StatsInv
<1> QED
  BY <1>2, <1>3

LEMMA StatsGive ==
  ASSUME StatsInv
  PROVE  MapAgreesWithRevenue /\ DaysAreExact /\ AverageSettles
<1> USE DEF StatsInv, Stats, MapAgreesWithRevenue, DaysAreExact, AverageSettles
<1>1. CASE part = "retry"
  <2>1. /\ ProvedRetrying!MapAgreesWithRevenue /\ ProvedRetrying!AverageSettles
        /\ ProvedRetrying!EveryOrderCounted /\ ProvedRetrying!RebuildIsExact
    BY <1>1, StatsAssumed, ProvedRetrying!StatsInvGives
  <2>2. /\ Retrying!MapAgreesWithRevenue /\ Retrying!AverageSettles
        /\ Retrying!EveryOrderCounted /\ Retrying!RebuildIsExact
    BY <2>1
       DEF Retrying!Cardinality, ProvedRetrying!Cardinality, Retrying!MapAgreesWithRevenue,
           ProvedRetrying!MapAgreesWithRevenue, Retrying!AverageSettles,
           ProvedRetrying!AverageSettles, Retrying!EveryOrderCounted,
           ProvedRetrying!EveryOrderCounted, Retrying!RebuildIsExact,
           ProvedRetrying!RebuildIsExact, Retrying!RowOf, ProvedRetrying!RowOf,
           Retrying!EmptyRow, ProvedRetrying!EmptyRow, Retrying!Averaged,
           ProvedRetrying!Averaged, Retrying!Placed, ProvedRetrying!Placed,
           Retrying!InFlight, ProvedRetrying!InFlight, Retrying!NeverRebuilt,
           ProvedRetrying!NeverRebuilt, Retrying!Day, ProvedRetrying!Day
  <2> QED
    BY <1>1, <2>2
<1>2. CASE part # "retry"
  <2>1. /\ ProvedCounting!MapAgreesWithRevenue /\ ProvedCounting!AverageSettles
        /\ ProvedCounting!EveryOrderCounted /\ ProvedCounting!RebuildIsExact
    BY <1>2, StatsAssumed, ProvedCounting!StatsInvGives
  <2>2. /\ Counting!MapAgreesWithRevenue /\ Counting!AverageSettles
        /\ Counting!EveryOrderCounted /\ Counting!RebuildIsExact
    BY <2>1
       DEF Counting!Cardinality, ProvedCounting!Cardinality, Counting!MapAgreesWithRevenue,
           ProvedCounting!MapAgreesWithRevenue, Counting!AverageSettles,
           ProvedCounting!AverageSettles, Counting!EveryOrderCounted,
           ProvedCounting!EveryOrderCounted, Counting!RebuildIsExact,
           ProvedCounting!RebuildIsExact, Counting!RowOf, ProvedCounting!RowOf,
           Counting!EmptyRow, ProvedCounting!EmptyRow, Counting!Averaged,
           ProvedCounting!Averaged, Counting!Placed, ProvedCounting!Placed,
           Counting!InFlight, ProvedCounting!InFlight, Counting!NeverRebuilt,
           ProvedCounting!NeverRebuilt, Counting!Day, ProvedCounting!Day
  <2> QED
    BY <1>2, <2>2
<1> QED
  BY <1>1, <1>2

LEMMA StatsStart == RecordsInit => StatsInv
  BY StatsAssumed, CountingSteps, RetryingSteps, ProvedCounting!StatsInvInit,
     ProvedRetrying!StatsInvInit
     DEF RecordsInit, StatsInv

\* applyDelta: FOR UPDATE keeps the country map of a day with its revenue,
\* through merges at once, lost increments and rebuilds.
THEOREM MapsAddUp == RecordsSpec => []MapAgreesWithRevenue
  BY StatsStart, StatsKept, StatsGive, PTL DEF RecordsSpec

\* applyDelta and processStatsRebuild: days count their orders until something
\* fails or rebuilds, and a rebuild nothing disturbs restates its days.
THEOREM DaysCountOrders == RecordsSpec => []DaysAreExact
  BY StatsStart, StatsKept, StatsGive, PTL DEF RecordsSpec

\* recalculateAverage: once no order of a day has an average to compute, and
\* none was lost, the stored average is that of the stored columns.
THEOREM AveragesAreRight == RecordsSpec => []AverageSettles
  BY StatsStart, StatsKept, StatsGive, PTL DEF RecordsSpec

-----------------------------------------------------------------------------
(* Webhooks                                                                 *)

USE DEF shopifyVars, rowVars, runVars

Busy(p) == pc[p] # "idle"

\* A request handles a webhook that was sent, and one that was sent is about an order.
HandlesWhatWasSent ==
  /\ \A d \in Deliveries : topic[d] # Null => about[d] \in Orders
  /\ \A d \in Deliveries : receipt[d] # "none" => topic[d] # Null
  /\ \A p \in Procs : Busy(p) => handling[p] \in Deliveries /\ receipt[handling[p]] # "none"

\* What it applies is what the webhook says; the status it would write back is one.
AppliesWhatIsSaid ==
  \A p \in Procs :
    /\ pc[p] \in {"again", "write", "event", "stats"} => applying[p] \in says[handling[p]]
    /\ pc[p] = "rename" => saw[p] \in Status

\* Past the row's write the row shows the transition.
WrittenFirst ==
  \A p \in Procs : pc[p] \in {"event", "stats"} => applying[p] \in stamped[about[handling[p]]]

HooksInv ==
  /\ TypeOK /\ HandlesWhatWasSent /\ AppliesWhatIsSaid
  /\ WrittenFirst /\ CountedOnlyIfStamped

LEMMA HooksInvInit == Init => HooksInv
  BY DEF Init, HooksInv, TypeOK, HandlesWhatWasSent, AppliesWhatIsSaid, WrittenFirst,
         CountedOnlyIfStamped, Busy, Status, Receipt, HandlerStep

\* Shopify and the push.
LEMMA ShopifyKeepsHooksInv ==
  ASSUME HooksInv, NEW o \in Orders,
         Complete(o) \/ Link(o) \/ (\E k \in Kind : Happen(o, k))
                     \/ (\E d \in Deliveries : Emit(d, o))
  PROVE  HooksInv'
<1> USE LifecycleAssumption DEF HooksInv, TypeOK, HandlesWhatWasSent, AppliesWhatIsSaid,
        WrittenFirst, CountedOnlyIfStamped, Busy
<1>1. CASE Complete(o)
  BY <1>1 DEF Complete
<1>2. CASE Link(o)
  BY <1>2 DEF Link, Status
<1>3. ASSUME NEW k \in Kind, Happen(o, k) PROVE HooksInv'
  BY <1>3 DEF Happen
<1>4. ASSUME NEW d \in Deliveries, Emit(d, o) PROVE HooksInv'
  BY <1>4 DEF Emit, Kind
<1> QED
  BY <1>1, <1>2, <1>3, <1>4

\* A request takes a webhook.
LEMMA TakingKeepsHooksInv ==
  ASSUME HooksInv, NEW p \in Procs, NEW d \in Deliveries, Receive(p, d) \/ Replay(p, d)
  PROVE  HooksInv'
<1> USE LifecycleAssumption DEF HooksInv, TypeOK, HandlesWhatWasSent, AppliesWhatIsSaid,
        WrittenFirst, CountedOnlyIfStamped, Busy, Begin, Receipt, HandlerStep
<1>1. CASE Receive(p, d)
  BY <1>1 DEF Receive
<1>2. CASE Replay(p, d)
  BY <1>2 DEF Replay
<1> QED
  BY <1>1, <1>2

\* A request that applies something has an order and a transition to apply.
LEMMA TargetIsTyped ==
  ASSUME HooksInv, NEW p \in Procs, pc[p] \in {"again", "write", "event", "stats"}
  PROVE  /\ handling[p] \in Deliveries /\ topic[handling[p]] # Null
         /\ about[handling[p]] \in Orders /\ applying[p] \in Kind
  BY DEF HooksInv, TypeOK, HandlesWhatWasSent, AppliesWhatIsSaid, Busy

\* A request handles it.
LEMMA HandlingKeepsHooksInv ==
  ASSUME HooksInv, NEW p \in Procs, Step(p) \/ HandlerThrows(p) \/ Crash(p)
  PROVE  HooksInv'
<1> USE LifecycleAssumption DEF HooksInv, TypeOK, HandlesWhatWasSent, AppliesWhatIsSaid,
        WrittenFirst, CountedOnlyIfStamped, Busy, Goto, Leave, Receipt, HandlerStep
<1>1. CASE markInProgress(p)
  BY <1>1 DEF markInProgress
<1>2. CASE Locate(p)
  <2> DEFINE d == handling[p]
             todo == Unapplied(d, about[d])
             first == IF "CANCELLED" \in todo THEN "CANCELLED" ELSE CHOOSE k \in todo : TRUE
  <2>1. /\ pc[p] = "locate" /\ d \in Deliveries /\ topic[d] # Null /\ about[d] \in Orders
        /\ UNCHANGED <<shopifyVars, receipt, rowVars, counted, handling>>
    BY <1>2 DEF Locate
  <2>2. CASE pc' = [pc EXCEPT ![p] = "finish"] /\ UNCHANGED <<applying, saw>>
    BY <2>1, <2>2
  <2>3. CASE /\ todo # {}
             /\ \E next \in {"again", "write"} : pc' = [pc EXCEPT ![p] = next]
             /\ applying' = [applying EXCEPT ![p] = first]
             /\ UNCHANGED saw
    <3>1. first \in todo
      BY <2>3
    <3>2. first \in says[d] /\ first \in Kind
      BY <2>1, <3>1 DEF Unapplied
    <3> HIDE DEF first, todo
    <3> QED
      BY <2>1, <2>3, <3>2
  <2>4. CASE /\ pc' = [pc EXCEPT ![p] = "rename"]
             /\ saw' = [saw EXCEPT ![p] = status[about[d]]]
             /\ UNCHANGED applying
    BY <2>1, <2>4
  <2> QED
    BY <1>2, <2>1, <2>2, <2>3, <2>4 DEF Locate
<1>3. CASE LocateAgain(p)
  BY <1>3 DEF LocateAgain, Unapplied
<1>4. CASE Rename(p)
  BY <1>4 DEF Rename
<1>5. CASE WriteTransition(p)
  BY <1>5 DEF WriteTransition, Status
<1>6. CASE AppendEvent(p)
  BY <1>6 DEF AppendEvent
<1>7. CASE RecordStats(p)
  <2>1. pc[p] = "stats" /\ pc' = [pc EXCEPT ![p] = "finish"]
    BY <1>7 DEF RecordStats
  <2>2. CASE UNCHANGED counted
    BY <1>7, <2>2 DEF RecordStats
  <2>3. CASE counted' = [counted EXCEPT ![about[handling[p]]][applying[p]] = @ + 1]
    <3>1. about[handling[p]] \in Orders /\ applying[p] \in Kind
      BY <2>1, TargetIsTyped
    <3>2. counted' \in [Orders -> [Kind -> Nat]]
      BY <2>3, <3>1
    <3>3. CountedOnlyIfStamped'
      BY <1>7, <2>1, <2>3, <3>1 DEF RecordStats
    <3> QED
      BY <1>7, <2>1, <3>2, <3>3 DEF RecordStats
  <2> QED
    BY <1>7, <2>2, <2>3 DEF RecordStats
<1>8. CASE markProcessed(p)
  BY <1>8 DEF markProcessed
<1>9. CASE HandlerThrows(p)
  BY <1>9 DEF HandlerThrows
<1>10. CASE Crash(p)
  BY <1>10 DEF Crash
<1> QED
  BY <1>1, <1>2, <1>3, <1>4, <1>5, <1>6, <1>7, <1>8, <1>9, <1>10 DEF Step

LEMMA HooksInvNext == HooksInv /\ [Next]_vars => HooksInv'
<1> SUFFICES ASSUME HooksInv, [Next]_vars PROVE HooksInv'
  OBVIOUS
<1>1. CASE UNCHANGED vars
  BY <1>1 DEF vars, HooksInv, TypeOK, HandlesWhatWasSent, AppliesWhatIsSaid, WrittenFirst,
              CountedOnlyIfStamped, Busy
<1> QED
  BY <1>1, ShopifyKeepsHooksInv, TakingKeepsHooksInv, HandlingKeepsHooksInv DEF Next

\* Every variable of the handlers keeps its type, replays and outages included.
THEOREM LifecycleTypes == Spec => []TypeOK
<1>1. HooksInv => TypeOK
  BY DEF HooksInv
<1> QED
  BY <1>1, HooksInvInit, HooksInvNext, PTL DEF Spec

\* No counter is ahead of its row: whatever fails between the two writes, and
\* however often a webhook is replayed, a counted transition is on the row.
THEOREM CountsFollowRows == Spec => []CountedOnlyIfStamped
<1>1. HooksInv => CountedOnlyIfStamped
  BY DEF HooksInv
<1> QED
  BY <1>1, HooksInvInit, HooksInvNext, PTL DEF Spec

-----------------------------------------------------------------------------
(* A webhook counts once                                                    *)

\* One request at most handles a webhook.
OneHandlerEach ==
  \A p, q \in Procs : Busy(p) /\ Busy(q) /\ handling[p] = handling[q] => p = q

\* The webhooks that carried a transition and whose request is past its count.
Spent(o, k) ==
  {d \in Carriers(o, k) :
     /\ receipt[d] # "none"
     /\ \A p \in Procs : handling[p] = d => pc[p] \in {"idle", "finish"}}

CountsAreSpent ==
  \A o \in Orders, k \in Kind : counted[o][k] <= Cardinality(Spent(o, k))

OnceInv == HooksInv /\ OneHandlerEach /\ CountsAreSpent

LEMMA OnceInvInit == Init => OnceInv
<1> SUFFICES ASSUME Init PROVE OnceInv
  OBVIOUS
<1>1. HooksInv /\ OneHandlerEach
  BY HooksInvInit DEF Init, OneHandlerEach, Busy
<1>2. ASSUME NEW o \in Orders, NEW k \in Kind
      PROVE  counted[o][k] <= Cardinality(Spent(o, k))
  <2>1. Spent(o, k) = {} /\ counted[o][k] = 0
    BY DEF Init, Spent, Carriers
  <2> QED
    BY <2>1, FS_EmptySet
<1> QED
  BY <1>1, <1>2 DEF OnceInv, CountsAreSpent

\* Who handles what changes only as a request takes a webhook nobody took.
LEMMA OneHandlerNext ==
  ASSUME ~Replays, OnceInv, [Next]_vars
  PROVE  OneHandlerEach'
<1> USE DEF OneHandlerEach, Busy
<1>1. CASE UNCHANGED <<pc, handling>>
  BY <1>1 DEF OnceInv
<1>2. ASSUME NEW p \in Procs, NEW d \in Deliveries, Receive(p, d)
      PROVE  OneHandlerEach'
  BY <1>2 DEF OnceInv, HooksInv, HandlesWhatWasSent, TypeOK, Receive, Begin
<1>3. ASSUME NEW p \in Procs, Busy(p), UNCHANGED handling,
             \E next \in HandlerStep : pc' = [pc EXCEPT ![p] = next]
      PROVE  OneHandlerEach'
  BY <1>3 DEF OnceInv, HooksInv, TypeOK
<1>4. ASSUME NEW p \in Procs, Leave(p)
      PROVE  OneHandlerEach'
  BY <1>4 DEF OnceInv, HooksInv, TypeOK, Leave
<1>5. ASSUME NEW p \in Procs, Step(p) \/ HandlerThrows(p) \/ Crash(p)
      PROVE  OneHandlerEach'
  <2>1. CASE markProcessed(p) \/ HandlerThrows(p) \/ Crash(p)
    BY <2>1, <1>4 DEF markProcessed, HandlerThrows, Crash
  <2>2. CASE ~(markProcessed(p) \/ HandlerThrows(p) \/ Crash(p))
    <3>1. Busy(p) /\ UNCHANGED handling /\ \E next \in HandlerStep : pc' = [pc EXCEPT ![p] = next]
      BY <1>5, <2>2 DEF Step, markInProgress, Locate, LocateAgain, Rename, WriteTransition,
                        AppendEvent, RecordStats, Goto, HandlerStep
    <3> QED
      BY <1>3, <3>1
  <2> QED
    BY <2>1, <2>2
<1>6. ASSUME NEW o \in Orders,
             Complete(o) \/ Link(o) \/ (\E k \in Kind : Happen(o, k))
                         \/ (\E d \in Deliveries : Emit(d, o))
      PROVE  UNCHANGED <<pc, handling>>
  BY <1>6 DEF Complete, Link, Happen, Emit
<1> QED
  BY <1>1, <1>2, <1>5, <1>6 DEF Next, Replay, vars

LEMMA SpentIsFinite ==
  ASSUME HooksInv, NEW o \in Orders, NEW k \in Kind
  PROVE  /\ IsFiniteSet(Spent(o, k)) /\ Cardinality(Spent(o, k)) \in Nat
         /\ counted[o][k] \in Nat
<1>1. Spent(o, k) \subseteq Deliveries
  BY DEF Spent, Carriers
<1> QED
  BY <1>1, FS_Subset, FS_CardinalityType, LifecycleAssumption DEF HooksInv, TypeOK

\* Counts stay covered when a step spends webhooks and counts nothing.
LEMMA SpendingKeepsCounts ==
  ASSUME HooksInv, HooksInv', CountsAreSpent, UNCHANGED counted,
         \A o \in Orders, k \in Kind : Spent(o, k) \subseteq Spent(o, k)'
  PROVE  CountsAreSpent'
<1> SUFFICES ASSUME NEW o \in Orders, NEW k \in Kind
             PROVE  counted'[o][k] <= Cardinality(Spent(o, k)')
  BY DEF CountsAreSpent
<1>1. Cardinality(Spent(o, k)) <= Cardinality(Spent(o, k)') /\ Cardinality(Spent(o, k)') \in Nat
  <2>1. Spent(o, k)' \subseteq Deliveries
    BY DEF Spent, Carriers
  <2>2. IsFiniteSet(Spent(o, k)')
    BY <2>1, FS_Subset, LifecycleAssumption
  <2> QED
    BY <2>2, FS_Subset, FS_CardinalityType
<1> QED
  BY <1>1, SpentIsFinite DEF CountsAreSpent

\* The count itself spends the webhook it is for.
LEMMA CountingSpends ==
  ASSUME OnceInv, HooksInv', NEW p \in Procs, RecordStats(p)
  PROVE  CountsAreSpent'
<1>1. pc[p] = "stats" /\ pc' = [pc EXCEPT ![p] = "finish"]
      /\ UNCHANGED <<shopifyVars, receipt, handling>>
  BY DEF RecordStats, Goto
<1> PICK d \in Deliveries, o \in Orders, k \in Kind :
      d = handling[p] /\ o = about[d] /\ k = applying[p]
  BY <1>1, TargetIsTyped DEF OnceInv
<1>2. k \in says[d] /\ receipt[d] # "none"
  BY <1>1 DEF OnceInv, HooksInv, AppliesWhatIsSaid, HandlesWhatWasSent, Busy
<1>3. ASSUME NEW q \in Orders, NEW j \in Kind PROVE Spent(q, j) \subseteq Spent(q, j)'
  BY <1>1 DEF Spent, Carriers, OnceInv, HooksInv, TypeOK
<1>4. d \notin Spent(o, k) /\ d \in Carriers(o, k)
  BY <1>1, <1>2 DEF Spent, Carriers
<1>5. d \in Spent(o, k)'
  BY <1>1, <1>2, <1>4 DEF Spent, Carriers, OnceInv, OneHandlerEach, HooksInv, TypeOK, Busy
<1>6. CASE UNCHANGED counted
  BY <1>3, <1>6, SpendingKeepsCounts DEF OnceInv
<1>7. CASE counted' = [counted EXCEPT ![o][k] = @ + 1]
  <2> SUFFICES ASSUME NEW q \in Orders, NEW j \in Kind
               PROVE  counted'[q][j] <= Cardinality(Spent(q, j)')
    BY DEF CountsAreSpent
  <2>1. /\ IsFiniteSet(Spent(q, j)) /\ Cardinality(Spent(q, j)) \in Nat
        /\ counted[q][j] \in Nat /\ counted[q][j] <= Cardinality(Spent(q, j))
    BY SpentIsFinite DEF OnceInv, CountsAreSpent
  <2>2. Spent(q, j)' \subseteq Deliveries
    BY DEF Spent, Carriers
  <2>3. IsFiniteSet(Spent(q, j)') /\ Cardinality(Spent(q, j)') \in Nat
    BY <2>2, FS_Subset, FS_CardinalityType, LifecycleAssumption
  <2>4. CASE q = o /\ j = k
    <3>1. Spent(q, j) \cup {d} \subseteq Spent(q, j)'
      BY <1>3, <1>5, <2>4
    <3>2. Cardinality(Spent(q, j) \cup {d}) = Cardinality(Spent(q, j)) + 1
      BY <1>4, <2>1, <2>4, FS_AddElement
    <3>3. Cardinality(Spent(q, j)) + 1 <= Cardinality(Spent(q, j)')
      BY <3>1, <3>2, <2>3, FS_Subset
    <3>4. counted'[q][j] = counted[q][j] + 1
      BY <1>7, <2>4 DEF OnceInv, HooksInv, TypeOK
    <3> QED
      BY <2>1, <2>3, <3>3, <3>4
  <2>5. CASE ~(q = o /\ j = k)
    <3>1. counted'[q][j] = counted[q][j]
      BY <1>7, <2>5 DEF OnceInv, HooksInv, TypeOK
    <3>2. Cardinality(Spent(q, j)) <= Cardinality(Spent(q, j)')
      BY <1>3, <2>3, FS_Subset
    <3> QED
      BY <2>1, <2>3, <3>1, <3>2
  <2> QED
    BY <2>4, <2>5
<1> QED
  BY <1>6, <1>7 DEF RecordStats

LEMMA CountsNext ==
  ASSUME ~Replays, OnceInv, [Next]_vars
  PROVE  CountsAreSpent'
<1> USE DEF OnceInv
<1>1. HooksInv'
  BY HooksInvNext
<1>2. CASE \E p \in Procs : RecordStats(p)
  BY <1>1, <1>2, CountingSpends
<1>3. CASE ~\E p \in Procs : RecordStats(p)
  <2>1. UNCHANGED counted
    BY <1>3 DEF Next, vars, Complete, Link, Happen, Emit, Receive, Replay, Step, HandlerThrows,
                Crash, markInProgress, Locate, LocateAgain, Rename, WriteTransition, AppendEvent,
                markProcessed
  <2> SUFFICES ASSUME NEW o \in Orders, NEW k \in Kind PROVE Spent(o, k) \subseteq Spent(o, k)'
    BY <1>1, <2>1, SpendingKeepsCounts
  <2> USE DEF Spent, Carriers, HooksInv, TypeOK
  <2>2. CASE UNCHANGED vars
    BY <2>2 DEF vars
  <2>3. ASSUME NEW q \in Orders, Complete(q) \/ Link(q) \/ (\E j \in Kind : Happen(q, j))
        PROVE  Spent(o, k) \subseteq Spent(o, k)'
    BY <2>3 DEF Complete, Link, Happen
  <2>4. ASSUME NEW q \in Orders, NEW d \in Deliveries, Emit(d, q)
        PROVE  Spent(o, k) \subseteq Spent(o, k)'
    <3>1. receipt[d] = "none"
      BY <2>4 DEF Emit, HandlesWhatWasSent
    <3>2. /\ \A e \in Deliveries \ {d} : about'[e] = about[e] /\ says'[e] = says[e]
          /\ UNCHANGED <<receipt, pc, handling>>
      BY <2>4 DEF Emit
    <3> QED
      BY <3>1, <3>2
  <2>5. ASSUME NEW p \in Procs, NEW d \in Deliveries, Receive(p, d)
        PROVE  Spent(o, k) \subseteq Spent(o, k)'
    BY <2>5 DEF Receive, Begin, Receipt
  <2>6. ASSUME NEW p \in Procs, Step(p) \/ HandlerThrows(p) \/ Crash(p)
        PROVE  Spent(o, k) \subseteq Spent(o, k)'
    <3>1. Busy(p) /\ receipt' \in [Deliveries -> Receipt] /\ UNCHANGED <<about, says>>
      BY <1>1, <2>6 DEF Step, HandlerThrows, Crash, markInProgress, Locate, LocateAgain, Rename,
            WriteTransition, AppendEvent, RecordStats, markProcessed, Busy
    <3>2. \A e \in Deliveries : receipt[e] # "none" => receipt'[e] # "none"
      BY <2>6 DEF Step, HandlerThrows, Crash, markInProgress, Locate, LocateAgain, Rename,
            WriteTransition, AppendEvent, RecordStats, markProcessed
    <3>3. CASE pc[p] = "finish" \/ Leave(p)
      BY <2>6, <3>1, <3>2, <3>3
         DEF Step, HandlerThrows, Crash, markInProgress, Locate, LocateAgain, Rename,
             WriteTransition, AppendEvent, RecordStats, markProcessed, Leave, Goto
    <3>4. CASE pc[p] # "finish" /\ ~Leave(p)
      <4>1. /\ \A r \in Procs \ {p} : pc'[r] = pc[r]
            /\ UNCHANGED handling
        BY <2>6, <3>4 DEF Step, HandlerThrows, Crash, markInProgress, Locate, LocateAgain, Rename,
               WriteTransition, AppendEvent, RecordStats, markProcessed, Goto
      <4>2. handling[p] \notin Spent(o, k)
        BY <3>1, <3>4 DEF Busy
      <4> QED
        BY <3>1, <3>2, <4>1, <4>2
    <3> QED
      BY <3>3, <3>4
  <2> QED
    BY <2>2, <2>3, <2>4, <2>5, <2>6 DEF Next, Replay
<1> QED
  BY <1>2, <1>3

\* However often Shopify delivers it, and whatever fails, a webhook counts its
\* transition at most once: an order's counter is never above the number of
\* webhooks that carried the transition. Replaying is what would break it: two
\* requests then handle one webhook, and nothing in the build calls it.
THEOREM WebhooksCountOnce == ~Replays => (Spec => []CountedPerWebhook)
<1> SUFFICES ASSUME ~Replays PROVE Spec => []CountedPerWebhook
  OBVIOUS
<1>1. OnceInv /\ [Next]_vars => OnceInv'
  BY HooksInvNext, OneHandlerNext, CountsNext DEF OnceInv
<1>2. OnceInv => CountedPerWebhook
  <2> SUFFICES ASSUME OnceInv, NEW o \in Orders, NEW k \in Kind
               PROVE  counted[o][k] <= Cardinality(Carriers(o, k))
    BY DEF CountedPerWebhook
  <2>1. Spent(o, k) \subseteq Carriers(o, k) /\ Carriers(o, k) \subseteq Deliveries
    BY DEF Spent, Carriers
  <2>2. Cardinality(Spent(o, k)) <= Cardinality(Carriers(o, k))
        /\ Cardinality(Carriers(o, k)) \in Nat
    BY <2>1, FS_Subset, FS_CardinalityType, LifecycleAssumption
  <2> QED
    BY <2>2, SpentIsFinite DEF OnceInv, CountsAreSpent
<1> QED
  BY <1>1, <1>2, OnceInvInit, PTL DEF Spec
=============================================================================
