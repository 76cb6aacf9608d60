--------------------------- MODULE OrderPushProofs ---------------------------
(***************************************************************************)
(* The inductive invariant of OrderPush and the properties it gives,       *)
(* whether or not two workers may run the same job; then what holds when   *)
(* no job runs twice at once: one Shopify order per COD order, under the   *)
(* draft its row names, and the push implements OrderDelivery. Before the  *)
(* push there is the dialog: it shows, asks and charges what the server    *)
(* does (FormEntry).                                                       *)
(***************************************************************************)
EXTENDS OrderPushInvariants, FormEntry, FoldLemmas, FiniteSetTheorems, TLAPS

(* An attempt that fails gives the job back, or up, and leaves the run.     *)

LEMMA AttemptFailsJob ==
  ASSUME IInv, NEW w \in Workers, pc[w] # "idle", AttemptFails(w)
  PROVE  JobType' /\ JobData'
<1>. DEFINE o == runOrder[w]
<1>. o \in Orders
  BY DEF IInv, RunData
<1>1. CASE UNCHANGED jobVars
  BY <1>1 DEF IInv, TypeOK, JobType, JobData, jobVars, Live
<1>2. CASE Holds(w, o) /\ LastAttempt(o)
  <2>1. /\ attemptsMade' = [attemptsMade EXCEPT ![o] = @ + 1]
        /\ owner' = [owner EXCEPT ![o] = Null]
        /\ jobState' = [jobState EXCEPT ![o] = "failed"]
        /\ stalls' = stalls
    BY <1>2 DEF AttemptFails, IInv, TypeOK, JobType
  <2>2. attemptsMade[o] \in Nat /\ attemptsMade[o] < MaxAttempts
    BY <1>2, PushAssumption DEF IInv, TypeOK, JobType, JobData, Holds, Live
  <2>3. JobType'
    BY <2>1, <2>2, PushAssumption DEF IInv, TypeOK, JobType, JobState
  <2>. QED
    BY <2>1, <2>3, PushAssumption DEF IInv, TypeOK, JobType, JobData, Live
<1>3. CASE Holds(w, o) /\ ~LastAttempt(o)
  <2>1. /\ attemptsMade' = [attemptsMade EXCEPT ![o] = @ + 1]
        /\ owner' = [owner EXCEPT ![o] = Null]
        /\ jobState' = [jobState EXCEPT ![o] = "waiting"]
        /\ stalls' = stalls
    BY <1>3 DEF AttemptFails, IInv, TypeOK, JobType
  <2>2. attemptsMade[o] \in Nat /\ attemptsMade[o] + 1 < MaxAttempts
    BY <1>3, PushAssumption DEF IInv, TypeOK, JobType, LastAttempt
  <2>3. JobType'
    BY <2>1, <2>2, PushAssumption DEF IInv, TypeOK, JobType, JobState
  <2>. QED
    BY <2>1, <2>2, <2>3, PushAssumption DEF IInv, TypeOK, JobType, JobData, Live
<1>. QED
  BY <1>1, <1>2, <1>3 DEF AttemptFails

LEMMA AttemptFailsRun ==
  ASSUME NEW w \in Workers, AttemptFails(w)
  PROVE  Leave(w, "idle") \/ Leave(w, "exhaust")
BY DEF AttemptFails

LEMMA GateStep ==
  ASSUME IInv, NEW w \in Workers, Gate(w)
  PROVE  IInv'
<1>1. RunType'
  BY DEF IInv, TypeOK, RunType, RunData, RowType, RunStep, Gate, Goto
<1>2. RunData'
  BY DEF IInv, TypeOK, RunData, RunType, Gate, Goto
<1>3. RunDraftOwned'
  BY DEF IInv, TypeOK, RunDraftOwned, RowDraftOwned, RunData, RunType,
     Drafting, Drafted, Announcing, Gate, Goto, rowVars, draftVars
<1>. QED
  BY <1>1, <1>2, <1>3 DEF IInv, TypeOK, RowType, JobType, ShopType, DraftType,
     RequestType, RequestData, JobData, UnusedIsUnowned, RowDraftOwned,
     SeenPushedHasDraft, PushedNamesDraft, SaleReportedOnlyOnceReal, Live,
     Gate, Goto, rowVars, jobVars, shopVars, draftVars, requestVars

LEMMA LoadSessionStep ==
  ASSUME IInv, NEW w \in Workers, LoadSession(w)
  PROVE  IInv'
<1>1. JobType'
  BY AttemptFailsJob DEF IInv, TypeOK, JobType, JobState, LoadSession, jobVars
<1>2. RunType'
  BY AttemptFailsRun DEF IInv, TypeOK, RunType, ShopType, RunStep,
     LoadSession, AfterDraft, Leave
<1>3. RunData'
  BY AttemptFailsRun DEF IInv, TypeOK, RunData, RunType, LoadSession, Leave
<1>4. JobData'
  BY AttemptFailsJob DEF IInv, JobData, Live, LoadSession, jobVars
<1>5. RunDraftOwned'
  BY AttemptFailsRun DEF IInv, TypeOK, RunDraftOwned, RunType, Drafting,
     Drafted, Announcing, LoadSession, AfterDraft, rowVars, draftVars, Leave
<1>. QED
  BY <1>1, <1>2, <1>3, <1>4, <1>5 DEF IInv, TypeOK, RowType, ShopType,
     DraftType, RequestType, RequestData, UnusedIsUnowned, RowDraftOwned,
     SeenPushedHasDraft, PushedNamesDraft, SaleReportedOnlyOnceReal,
     LoadSession, AfterDraft, jobVars, rowVars, shopVars, draftVars,
     requestVars

LEMMA createDraftStep ==
  ASSUME IInv, NEW w \in Workers, createDraft(w)
  PROVE  IInv'
<1>1. JobType'
  BY AttemptFailsJob DEF IInv, TypeOK, JobType, JobState, createDraft, jobVars
<1>2. RunType'
  <2>1. PICK d \in Drafts :
          \/ /\ pc' = [pc EXCEPT ![w] = "persist"]
             /\ inHand' = [inHand EXCEPT ![w] = d]
             /\ UNCHANGED <<runOrder, asDraft>>
          \/ UNCHANGED runVars
          \/ AttemptFails(w)
    BY DEF createDraft
  <2>. QED
    BY <2>1, AttemptFailsRun DEF IInv, TypeOK, RunType, RunStep, runVars, Leave
<1>3. DraftType'
  BY AttemptFailsRun DEF IInv, TypeOK, DraftType, RunData, DraftState,
     createDraft, Leave
<1>4. RunData'
  BY AttemptFailsRun DEF IInv, TypeOK, RunData, RunType, createDraft, runVars,
     Leave
<1>5. JobData'
  BY AttemptFailsJob DEF IInv, JobData, Live, createDraft, jobVars
<1>6. UnusedIsUnowned'
  BY AttemptFailsRun DEF IInv, TypeOK, UnusedIsUnowned, DraftType,
     createDraft, Leave
<1>7. RowDraftOwned'
  BY PushAssumption, AttemptFailsRun DEF IInv, RowDraftOwned, UnusedIsUnowned,
     createDraft, rowVars, Leave
<1>8. RunDraftOwned'
  BY PushAssumption, AttemptFailsRun DEF IInv, TypeOK, RunDraftOwned,
     UnusedIsUnowned, RunData, RunType, DraftType, Drafting, Drafted,
     Announcing, createDraft, runVars, rowVars, Leave
<1>. QED
  BY <1>1, <1>2, <1>3, <1>4, <1>5, <1>6, <1>7, <1>8 DEF IInv, TypeOK, RowType,
     ShopType, RequestType, RequestData, SeenPushedHasDraft, PushedNamesDraft,
     SaleReportedOnlyOnceReal, createDraft, jobVars, runVars, rowVars,
     shopVars, requestVars

LEMMA PersistDraftStep ==
  ASSUME IInv, NEW w \in Workers, PersistDraft(w)
  PROVE  IInv'
<1>1. RowType'
  BY DEF IInv, TypeOK, RowType, RunType, Status, RiskAction, PersistDraft,
     Goto
<1>2. RunType'
  BY DEF IInv, TypeOK, RunType, RunStep, PersistDraft, Goto, AfterDraft
<1>3. RunData'
  BY DEF IInv, RunData, PersistDraft, Goto
<1>4. RowDraftOwned'
  BY DEF IInv, RowDraftOwned, RunDraftOwned, Drafting, PersistDraft, Goto,
     draftVars
<1>5. RunDraftOwned'
  BY DEF IInv, TypeOK, RunDraftOwned, RunData, RowType, Drafting, Drafted,
     Announcing, PersistDraft, Goto, AfterDraft, draftVars
<1>6. SeenPushedHasDraft'
  BY DEF IInv, SeenPushedHasDraft, RunDraftOwned, Drafting, PersistDraft,
     Goto, requestVars
<1>7. PushedNamesDraft'
  BY DEF IInv, PushedNamesDraft, RunDraftOwned, Drafting, PersistDraft, Goto
<1>. QED
  BY <1>1, <1>2, <1>3, <1>4, <1>5, <1>6, <1>7 DEF IInv, TypeOK, JobType,
     ShopType, DraftType, RequestType, RequestData, JobData, UnusedIsUnowned,
     SaleReportedOnlyOnceReal, Live, PersistDraft, Goto, AfterDraft, jobVars,
     shopVars, draftVars, requestVars

LEMMA PublishDraftStep ==
  ASSUME IInv, NEW w \in Workers, PublishDraft(w)
  PROVE  IInv'
<1>1. RowType'
  BY DEF IInv, TypeOK, RowType, Status, RiskAction, PublishDraft, Goto
<1>2. RunType'
  BY DEF IInv, TypeOK, RunType, RunStep, PublishDraft, Goto
<1>3. RunData'
  BY DEF IInv, RunData, PublishDraft, Goto
<1>4. RunDraftOwned'
  BY DEF IInv, RunDraftOwned, Drafting, Drafted, Announcing, PublishDraft,
     Goto, draftVars
<1>5. PushedNamesDraft'
  BY DEF IInv, PushedNamesDraft, RunDraftOwned, Drafted, PublishDraft, Goto
<1>. QED
  BY <1>1, <1>2, <1>3, <1>4, <1>5 DEF IInv, TypeOK, JobType, ShopType,
     DraftType, RequestType, RequestData, JobData, UnusedIsUnowned,
     RowDraftOwned, SeenPushedHasDraft, SaleReportedOnlyOnceReal, Live,
     PublishDraft, Goto, jobVars, shopVars, draftVars, requestVars

LEMMA DraftEventStep ==
  ASSUME IInv, NEW w \in Workers, DraftEvent(w)
  PROVE  IInv'
<1>1. RunType'
  BY DEF IInv, TypeOK, RunType, RunStep, DraftEvent, Goto
<1>2. RunData'
  BY DEF IInv, RunData, DraftEvent, Goto
<1>3. RunDraftOwned'
  BY DEF IInv, RunDraftOwned, Drafting, Drafted, Announcing, DraftEvent, Goto,
     rowVars, draftVars
<1>. QED
  BY <1>1, <1>2, <1>3 DEF IInv, TypeOK, RowType, JobType, ShopType, DraftType,
     RequestType, RequestData, JobData, UnusedIsUnowned, RowDraftOwned,
     SeenPushedHasDraft, PushedNamesDraft, SaleReportedOnlyOnceReal, Live,
     DraftEvent, Goto, rowVars, jobVars, shopVars, draftVars, requestVars

LEMMA completeDraftStep ==
  ASSUME IInv, NEW w \in Workers, completeDraft(w)
  PROVE  IInv'
<1>1. JobType'
  BY AttemptFailsJob DEF IInv, TypeOK, JobType, JobState, completeDraft, Goto,
     jobVars
<1>2. RunType'
  BY AttemptFailsRun DEF IInv, TypeOK, RunType, RunStep, completeDraft, Goto,
     runVars, Leave
<1>3. DraftType'
  BY AttemptFailsRun DEF IInv, TypeOK, DraftType, DraftState, completeDraft,
     Goto, Leave
<1>4. RunData'
  BY AttemptFailsRun DEF IInv, TypeOK, RunData, RunType, completeDraft, Goto,
     runVars, Leave
<1>5. JobData'
  BY AttemptFailsJob DEF IInv, JobData, Live, completeDraft, Goto, jobVars
<1>6. UnusedIsUnowned'
  BY AttemptFailsRun DEF IInv, TypeOK, UnusedIsUnowned, DraftType,
     completeDraft, Goto, Leave
<1>7. RunDraftOwned'
  BY AttemptFailsRun DEF IInv, TypeOK, RunDraftOwned, RunType, Drafting,
     Drafted, Announcing, completeDraft, Goto, runVars, rowVars, Leave
<1>. QED
  BY <1>1, <1>2, <1>3, <1>4, <1>5, <1>6, <1>7 DEF IInv, TypeOK, RowType,
     ShopType, RequestType, RequestData, RowDraftOwned, SeenPushedHasDraft,
     PushedNamesDraft, SaleReportedOnlyOnceReal, completeDraft, Goto, jobVars,
     runVars, rowVars, shopVars, requestVars

LEMMA RecordOrderStep ==
  ASSUME IInv, NEW w \in Workers, RecordOrder(w)
  PROVE  IInv'
<1>1. RowType'
  BY DEF IInv, TypeOK, RowType, RunType, Status, RiskAction, RecordOrder, Goto
<1>2. RunType'
  BY DEF IInv, TypeOK, RunType, RunStep, RecordOrder, Goto
<1>3. RunData'
  BY DEF IInv, RunData, RecordOrder, Goto
<1>4. RunDraftOwned'
  BY DEF IInv, TypeOK, RunDraftOwned, RunData, RowType, Drafting, Drafted,
     Announcing, RecordOrder, Goto, draftVars
<1>5. PushedNamesDraft'
  BY DEF IInv, PushedNamesDraft, RunDraftOwned, Drafted, RecordOrder, Goto
<1>6. SaleReportedOnlyOnceReal'
  BY DEF IInv, SaleReportedOnlyOnceReal, RunDraftOwned, Drafting, RecordOrder,
     Goto
<1>. QED
  BY <1>1, <1>2, <1>3, <1>4, <1>5, <1>6 DEF IInv, TypeOK, JobType, ShopType,
     DraftType, RequestType, RequestData, JobData, UnusedIsUnowned,
     RowDraftOwned, SeenPushedHasDraft, Live, RecordOrder, Goto, jobVars,
     shopVars, draftVars, requestVars

LEMMA CompletedEventStep ==
  ASSUME IInv, NEW w \in Workers, CompletedEvent(w)
  PROVE  IInv'
<1>1. RunType'
  BY DEF IInv, TypeOK, RunType, RunStep, CompletedEvent, Goto
<1>2. RunData'
  BY DEF IInv, RunData, CompletedEvent, Goto
<1>3. RunDraftOwned'
  BY DEF IInv, RunDraftOwned, Drafting, Drafted, Announcing, CompletedEvent,
     Goto, rowVars, draftVars
<1>. QED
  BY <1>1, <1>2, <1>3 DEF IInv, TypeOK, RowType, JobType, ShopType, DraftType,
     RequestType, RequestData, JobData, UnusedIsUnowned, RowDraftOwned,
     SeenPushedHasDraft, PushedNamesDraft, SaleReportedOnlyOnceReal, Live,
     CompletedEvent, Goto, rowVars, jobVars, shopVars, draftVars, requestVars

LEMMA EnqueueSheetStep ==
  ASSUME IInv, NEW w \in Workers, EnqueueSheet(w)
  PROVE  IInv'
<1>1. RunType'
  BY DEF IInv, TypeOK, RunType, RunStep, EnqueueSheet, Announce, Goto
<1>2. (told \in [Orders -> SUBSET Channel])'
  BY PushAssumption DEF IInv, TypeOK, Channel, EnqueueSheet, Announce, Goto
<1>3. RunData'
  BY DEF IInv, RunData, EnqueueSheet, Announce, Goto
<1>4. RunDraftOwned'
  BY DEF IInv, RunDraftOwned, Drafting, Drafted, Announcing, EnqueueSheet,
     Announce, Goto, rowVars, draftVars
<1>5. SaleReportedOnlyOnceReal'
  BY DEF IInv, TypeOK, SaleReportedOnlyOnceReal, RunDraftOwned, Announcing,
     EnqueueSheet, Announce, Goto, rowVars
<1>. QED
  BY <1>1, <1>2, <1>3, <1>4, <1>5 DEF IInv, TypeOK, RowType, JobType,
     ShopType, DraftType, RequestType, RequestData, JobData, UnusedIsUnowned,
     RowDraftOwned, SeenPushedHasDraft, PushedNamesDraft, Live, EnqueueSheet,
     Announce, Goto, rowVars, jobVars, shopVars, draftVars, requestVars

LEMMA EnqueuePixelStep ==
  ASSUME IInv, NEW w \in Workers, EnqueuePixel(w)
  PROVE  IInv'
<1>1. RunType'
  BY DEF IInv, TypeOK, RunType, RunStep, EnqueuePixel, Announce, Goto
<1>2. (told \in [Orders -> SUBSET Channel])'
  BY PushAssumption DEF IInv, TypeOK, Channel, EnqueuePixel, Announce, Goto
<1>3. RunData'
  BY DEF IInv, RunData, EnqueuePixel, Announce, Goto
<1>4. RunDraftOwned'
  BY DEF IInv, RunDraftOwned, Drafting, Drafted, Announcing, EnqueuePixel,
     Announce, Goto, rowVars, draftVars
<1>5. SaleReportedOnlyOnceReal'
  BY DEF IInv, TypeOK, SaleReportedOnlyOnceReal, RunDraftOwned, Announcing,
     EnqueuePixel, Announce, Goto, rowVars
<1>. QED
  BY <1>1, <1>2, <1>3, <1>4, <1>5 DEF IInv, TypeOK, RowType, JobType,
     ShopType, DraftType, RequestType, RequestData, JobData, UnusedIsUnowned,
     RowDraftOwned, SeenPushedHasDraft, PushedNamesDraft, Live, EnqueuePixel,
     Announce, Goto, rowVars, jobVars, shopVars, draftVars, requestVars

LEMMA RecordStatsStep ==
  ASSUME IInv, NEW w \in Workers, RecordStats(w)
  PROVE  IInv'
<1>1. RunType'
  BY DEF IInv, TypeOK, RunType, RunStep, RecordStats, Announce, Goto
<1>2. (told \in [Orders -> SUBSET Channel])'
  BY PushAssumption DEF IInv, TypeOK, Channel, RecordStats, Announce, Goto
<1>3. RunData'
  BY DEF IInv, RunData, RecordStats, Announce, Goto
<1>4. RunDraftOwned'
  BY DEF IInv, RunDraftOwned, Drafting, Drafted, Announcing, RecordStats,
     Announce, Goto, rowVars, draftVars
<1>5. SaleReportedOnlyOnceReal'
  BY DEF IInv, TypeOK, SaleReportedOnlyOnceReal, RunDraftOwned, Announcing,
     RecordStats, Announce, Goto, rowVars
<1>. QED
  BY <1>1, <1>2, <1>3, <1>4, <1>5 DEF IInv, TypeOK, RowType, JobType,
     ShopType, DraftType, RequestType, RequestData, JobData, UnusedIsUnowned,
     RowDraftOwned, SeenPushedHasDraft, PushedNamesDraft, Live, RecordStats,
     Announce, Goto, rowVars, jobVars, shopVars, draftVars, requestVars

LEMMA DoneStep ==
  ASSUME IInv, NEW w \in Workers, Done(w)
  PROVE  IInv'
<1>1. JobType'
  BY DEF IInv, TypeOK, JobType, JobState, Done, Leave
<1>2. RunType'
  BY DEF IInv, TypeOK, RunType, RunStep, Done, Leave
<1>3. RunData'
  BY DEF IInv, TypeOK, RunData, RunType, Done, Leave
<1>4. JobData'
  BY DEF IInv, TypeOK, JobData, JobType, Live, Done, Leave
<1>5. RunDraftOwned'
  BY DEF IInv, RunDraftOwned, Drafting, Drafted, Announcing, Done, Leave,
     rowVars, draftVars
<1>. QED
  BY <1>1, <1>2, <1>3, <1>4, <1>5 DEF IInv, TypeOK, RowType, ShopType,
     DraftType, RequestType, RequestData, UnusedIsUnowned, RowDraftOwned,
     SeenPushedHasDraft, PushedNamesDraft, SaleReportedOnlyOnceReal, Done,
     Holds, Leave, rowVars, shopVars, draftVars, requestVars

LEMMA PushThrowsStep ==
  ASSUME IInv, NEW w \in Workers, PushThrows(w)
  PROVE  IInv'
<1>1. JobType'
  BY AttemptFailsJob DEF IInv, JobType, JobState, PushThrows, Fallible
<1>2. RunType'
  BY AttemptFailsRun DEF IInv, TypeOK, RunType, RunStep, PushThrows, Leave
<1>3. RunData'
  BY AttemptFailsRun DEF IInv, TypeOK, RunData, RunType, PushThrows, Fallible,
     Leave
<1>4. JobData'
  BY AttemptFailsJob DEF IInv, JobData, Live, PushThrows, Fallible
<1>5. RunDraftOwned'
  BY AttemptFailsRun DEF IInv, TypeOK, RunDraftOwned, RunType, Drafting,
     Drafted, Announcing, PushThrows, rowVars, draftVars, Leave
<1>. QED
  BY <1>1, <1>2, <1>3, <1>4, <1>5 DEF IInv, TypeOK, RowType, ShopType,
     DraftType, RequestType, RequestData, UnusedIsUnowned, RowDraftOwned,
     SeenPushedHasDraft, PushedNamesDraft, SaleReportedOnlyOnceReal,
     PushThrows, Fallible, rowVars, shopVars, draftVars, requestVars

LEMMA markPushExhaustedStep ==
  ASSUME IInv, NEW w \in Workers, markPushExhausted(w)
  PROVE  IInv'
<1>1. RowType'
  BY DEF IInv, TypeOK, RowType, Status, RiskAction, markPushExhausted, Leave
<1>2. RunType'
  BY DEF IInv, TypeOK, RunType, RunStep, markPushExhausted, Leave
<1>3. RunData'
  BY DEF IInv, TypeOK, RunData, RunType, markPushExhausted, Leave
<1>4. RunDraftOwned'
  BY DEF IInv, RunDraftOwned, Drafting, Drafted, Announcing,
     markPushExhausted, Leave, draftVars
<1>5. PushedNamesDraft'
  BY DEF IInv, TypeOK, PushedNamesDraft, RowType, markPushExhausted, Leave
<1>. QED
  BY <1>1, <1>2, <1>3, <1>4, <1>5 DEF IInv, TypeOK, JobType, ShopType,
     DraftType, RequestType, RequestData, JobData, UnusedIsUnowned,
     RowDraftOwned, SeenPushedHasDraft, SaleReportedOnlyOnceReal, Live,
     markPushExhausted, Leave, jobVars, shopVars, draftVars, requestVars

LEMMA CrashStep ==
  ASSUME IInv, NEW w \in Workers, Crash(w)
  PROVE  IInv'
<1>1. RunType'
  BY DEF IInv, TypeOK, RunType, RunStep, Crash, Leave
<1>2. RunData'
  BY DEF IInv, TypeOK, RunData, RunType, Crash, Leave
<1>3. RunDraftOwned'
  BY DEF IInv, TypeOK, RunDraftOwned, RunType, Drafting, Drafted, Announcing,
     Crash, Leave, rowVars, draftVars
<1>. QED
  BY <1>1, <1>2, <1>3 DEF IInv, TypeOK, RowType, JobType, ShopType, DraftType,
     RequestType, RequestData, JobData, UnusedIsUnowned, RowDraftOwned,
     SeenPushedHasDraft, PushedNamesDraft, SaleReportedOnlyOnceReal, Live,
     Crash, Leave, rowVars, jobVars, shopVars, draftVars, requestVars

LEMMA TakeStep ==
  ASSUME IInv, NEW w \in Workers, NEW o \in Orders, Take(w, o)
  PROVE  IInv'
<1>1. JobType'
  BY DEF IInv, TypeOK, JobType, JobState, Take
<1>2. RunType'
  BY DEF IInv, TypeOK, RunType, RunStep, Take
<1>3. RunData'
  BY DEF IInv, TypeOK, RunData, RunType, Take
<1>4. JobData'
  BY DEF IInv, JobData, Live, Take
<1>5. RunDraftOwned'
  BY DEF IInv, RunDraftOwned, Drafting, Drafted, Announcing, Take, rowVars,
     draftVars
<1>. QED
  BY <1>1, <1>2, <1>3, <1>4, <1>5 DEF IInv, TypeOK, RowType, ShopType,
     DraftType, RequestType, RequestData, UnusedIsUnowned, RowDraftOwned,
     SeenPushedHasDraft, PushedNamesDraft, SaleReportedOnlyOnceReal, Take,
     rowVars, shopVars, draftVars, requestVars

LEMMA StallStep ==
  ASSUME IInv, NEW o \in Orders, Stall(o)
  PROVE  IInv'
<1>1. JobType'
  BY PushAssumption DEF IInv, TypeOK, JobType, JobState, Stall
<1>2. JobData'
  BY DEF IInv, TypeOK, JobData, JobType, Live, Stall
<1>. QED
  BY <1>1, <1>2 DEF IInv, TypeOK, RowType, RunType, ShopType, DraftType,
     RequestType, RunData, RequestData, UnusedIsUnowned, RowDraftOwned,
     RunDraftOwned, SeenPushedHasDraft, PushedNamesDraft,
     SaleReportedOnlyOnceReal, Drafting, Drafted, Announcing, Stall,
     Abandoned, rowVars, runVars, shopVars, draftVars, requestVars, Holds

LEMMA ExpireStep ==
  ASSUME IInv, NEW o \in Orders, Expire(o)
  PROVE  IInv'
<1>1. JobType'
  BY PushAssumption DEF IInv, TypeOK, JobType, JobState, Expire
<1>2. JobData'
  BY DEF IInv, TypeOK, JobData, JobType, Live, Expire
<1>. QED
  BY <1>1, <1>2 DEF IInv, TypeOK, RowType, RunType, ShopType, DraftType,
     RequestType, RunData, RequestData, UnusedIsUnowned, RowDraftOwned,
     RunDraftOwned, SeenPushedHasDraft, PushedNamesDraft,
     SaleReportedOnlyOnceReal, Drafting, Drafted, Announcing, Expire, rowVars,
     runVars, shopVars, draftVars, requestVars

LEMMA reviewAssessmentStep ==
  ASSUME IInv, NEW o \in Orders, reviewAssessment(o)
  PROVE  IInv'
<1>1. RowType'
  BY DEF IInv, TypeOK, RowType, Status, RiskAction, reviewAssessment,
     WriteVerdict
<1>. QED
  BY <1>1 DEF IInv, TypeOK, JobType, RunType, ShopType, DraftType,
     RequestType, RunData, RequestData, JobData, UnusedIsUnowned,
     RowDraftOwned, RunDraftOwned, SeenPushedHasDraft, PushedNamesDraft,
     SaleReportedOnlyOnceReal, Live, Drafting, Drafted, Announcing,
     reviewAssessment, WriteVerdict, jobVars, runVars, shopVars, draftVars,
     requestVars

LEMMA rescanStep ==
  ASSUME IInv, NEW o \in Orders, rescan(o)
  PROVE  IInv'
<1>1. RowType'
  BY DEF IInv, TypeOK, RowType, Status, RiskAction, rescan, WriteVerdict
<1>. QED
  BY <1>1 DEF IInv, TypeOK, JobType, RunType, ShopType, DraftType,
     RequestType, RunData, RequestData, JobData, UnusedIsUnowned,
     RowDraftOwned, RunDraftOwned, SeenPushedHasDraft, PushedNamesDraft,
     SaleReportedOnlyOnceReal, Live, Drafting, Drafted, Announcing, rescan,
     WriteVerdict, jobVars, runVars, shopVars, draftVars, requestVars

LEMMA retryPushStep ==
  ASSUME IInv, NEW r \in Requests, NEW o \in Orders, retryPush(r, o)
  PROVE  IInv'
<1>1. RequestType'
  BY DEF IInv, TypeOK, RequestType, RowType, RequestStep, RequestKind, Status,
     RiskAction, retryPush, Begin
<1>2. RequestData'
  BY DEF IInv, TypeOK, RequestData, RequestType, Status, retryPush, Begin
<1>3. SeenPushedHasDraft'
  BY DEF IInv, SeenPushedHasDraft, retryPush, Begin, rowVars
<1>. QED
  BY <1>1, <1>2, <1>3 DEF IInv, TypeOK, RowType, JobType, RunType, ShopType,
     DraftType, RunData, JobData, UnusedIsUnowned, RowDraftOwned,
     RunDraftOwned, PushedNamesDraft, SaleReportedOnlyOnceReal, Live,
     Drafting, Drafted, Announcing, retryPush, Begin, rowVars, jobVars,
     runVars, shopVars, draftVars

LEMMA verifyOrderStep ==
  ASSUME IInv, NEW r \in Requests, NEW o \in Orders, verifyOrder(r, o)
  PROVE  IInv'
<1>1. RequestType'
  BY DEF IInv, TypeOK, RequestType, RowType, RequestStep, RequestKind, Status,
     RiskAction, verifyOrder, Begin
<1>2. RequestData'
  BY PushAssumption DEF IInv, TypeOK, RequestData, RowType, RequestType,
     Status, verifyOrder, Begin
<1>3. SeenPushedHasDraft'
  BY DEF IInv, TypeOK, SeenPushedHasDraft, PushedNamesDraft, RequestType,
     verifyOrder, Begin, rowVars
<1>. QED
  BY <1>1, <1>2, <1>3 DEF IInv, TypeOK, RowType, JobType, RunType, ShopType,
     DraftType, RunData, JobData, UnusedIsUnowned, RowDraftOwned,
     RunDraftOwned, PushedNamesDraft, SaleReportedOnlyOnceReal, Live,
     Drafting, Drafted, Announcing, verifyOrder, Begin, rowVars, jobVars,
     runVars, shopVars, draftVars

LEMMA processFraudScanStep ==
  ASSUME IInv, NEW r \in Requests, NEW o \in Orders, processFraudScan(r, o)
  PROVE  IInv'
<1>1. RequestType'
  BY DEF IInv, TypeOK, RequestType, RowType, RequestStep, RequestKind, Status,
     RiskAction, processFraudScan, Begin
<1>2. RequestData'
  BY DEF IInv, TypeOK, RequestData, RequestType, Status, processFraudScan,
     Begin
<1>3. SeenPushedHasDraft'
  BY DEF IInv, SeenPushedHasDraft, processFraudScan, Begin, rowVars
<1>. QED
  BY <1>1, <1>2, <1>3 DEF IInv, TypeOK, RowType, JobType, RunType, ShopType,
     DraftType, RunData, JobData, UnusedIsUnowned, RowDraftOwned,
     RunDraftOwned, PushedNamesDraft, SaleReportedOnlyOnceReal, Live,
     Drafting, Drafted, Announcing, processFraudScan, Begin, rowVars, jobVars,
     runVars, shopVars, draftVars

LEMMA ResetFailedStep ==
  ASSUME IInv, NEW r \in Requests, ResetFailed(r)
  PROVE  IInv'
<1>1. RowType'
  BY DEF IInv, TypeOK, RowType, Status, RiskAction, ResetFailed, Continue
<1>2. RequestType'
  BY DEF IInv, TypeOK, RequestType, RequestStep, RequestKind, Status,
     RiskAction, ResetFailed, Continue
<1>3. RequestData'
  BY DEF IInv, RequestData, Status, ResetFailed, Continue
<1>4. SeenPushedHasDraft'
  BY DEF IInv, SeenPushedHasDraft, ResetFailed, Continue
<1>5. PushedNamesDraft'
  BY DEF IInv, PushedNamesDraft, ResetFailed, Continue
<1>. QED
  BY <1>1, <1>2, <1>3, <1>4, <1>5 DEF IInv, TypeOK, JobType, RunType,
     ShopType, DraftType, RunData, JobData, UnusedIsUnowned, RowDraftOwned,
     RunDraftOwned, SaleReportedOnlyOnceReal, Live, Drafting, Drafted,
     Announcing, ResetFailed, Continue, jobVars, runVars, shopVars, draftVars

LEMMA WriteVerifiedStep ==
  ASSUME IInv, NEW r \in Requests, WriteVerified(r)
  PROVE  IInv'
<1>1. RowType'
  BY DEF IInv, TypeOK, RowType, RequestData, Status, RiskAction,
     WriteVerified, Continue, Finish
<1>2. RequestType'
  <2>1. Continue(r, "enqueue") \/ Finish(r)
    BY Zenon DEF WriteVerified
  <2>. QED
    BY <2>1, PushAssumption DEF IInv, TypeOK, RequestType, Continue, Finish,
       RequestStep, RequestKind
<1>3. RequestData'
  BY DEF IInv, TypeOK, RequestData, RequestType, Status, WriteVerified,
     Continue, Finish
<1>4. SeenPushedHasDraft'
  BY DEF IInv, TypeOK, SeenPushedHasDraft, RequestType, WriteVerified,
     Continue, Finish
<1>5. PushedNamesDraft'
  BY DEF IInv, PushedNamesDraft, SeenPushedHasDraft, WriteVerified, Continue,
     Finish
<1>. QED
  BY <1>1, <1>2, <1>3, <1>4, <1>5 DEF IInv, TypeOK, JobType, RunType,
     ShopType, DraftType, RunData, JobData, UnusedIsUnowned, RowDraftOwned,
     RunDraftOwned, SaleReportedOnlyOnceReal, Live, Drafting, Drafted,
     Announcing, WriteVerified, Continue, Finish, jobVars, runVars, shopVars,
     draftVars

LEMMA EnqueueStep ==
  ASSUME IInv, NEW r \in Requests, Enqueue(r)
  PROVE  IInv'
<1>1. JobType'
  BY DEF IInv, TypeOK, JobType, JobState, Enqueue, enqueueOrderPush, Finish,
     Add, jobVars
<1>2. RequestType'
  BY PushAssumption DEF IInv, TypeOK, RequestType, RequestStep, RequestKind,
     Status, RiskAction, Enqueue, Finish
<1>3. RequestData'
  BY DEF IInv, TypeOK, RequestData, RequestType, Status, Enqueue, Finish
<1>4. JobData'
  BY PushAssumption DEF IInv, TypeOK, JobData, JobType, Live, Enqueue,
     enqueueOrderPush, Finish, Add, jobVars
<1>5. SeenPushedHasDraft'
  BY DEF IInv, SeenPushedHasDraft, Enqueue, Finish, rowVars
<1>. QED
  BY <1>1, <1>2, <1>3, <1>4, <1>5 DEF IInv, TypeOK, RowType, RunType,
     ShopType, DraftType, RunData, UnusedIsUnowned, RowDraftOwned,
     RunDraftOwned, PushedNamesDraft, SaleReportedOnlyOnceReal, Drafting,
     Drafted, Announcing, Enqueue, enqueueOrderPush, Finish, rowVars, runVars,
     shopVars, draftVars, Add, jobVars

LEMMA ApplyVerdictStep ==
  ASSUME IInv, NEW r \in Requests, ApplyVerdict(r)
  PROVE  IInv'
<1>1. RowType'
  BY DEF IInv, TypeOK, RowType, Status, RiskAction, ApplyVerdict,
     WriteVerdict, rowVars, Finish
<1>2. RequestType'
  BY PushAssumption DEF IInv, TypeOK, RequestType, RequestStep, RequestKind,
     Status, RiskAction, ApplyVerdict, WriteVerdict, Finish
<1>3. RequestData'
  BY DEF IInv, TypeOK, RequestData, RequestType, Status, ApplyVerdict,
     WriteVerdict, Finish
<1>4. SeenPushedHasDraft'
  BY DEF IInv, TypeOK, SeenPushedHasDraft, RequestType, ApplyVerdict,
     WriteVerdict, rowVars, Finish
<1>. QED
  BY <1>1, <1>2, <1>3, <1>4 DEF IInv, TypeOK, JobType, RunType, ShopType,
     DraftType, RunData, JobData, UnusedIsUnowned, RowDraftOwned,
     RunDraftOwned, PushedNamesDraft, SaleReportedOnlyOnceReal, Live,
     Drafting, Drafted, Announcing, ApplyVerdict, WriteVerdict, rowVars,
     Finish, jobVars, runVars, shopVars, draftVars

LEMMA ScanEventStep ==
  ASSUME IInv, NEW r \in Requests, ScanEvent(r)
  PROVE  IInv'
<1>1. RequestType'
  BY PushAssumption DEF IInv, TypeOK, RequestType, RequestStep, RequestKind,
     Status, RiskAction, ScanEvent, Continue, Finish
<1>2. RequestData'
  BY DEF IInv, TypeOK, RequestData, RequestType, Status, ScanEvent, Continue,
     Finish
<1>3. SeenPushedHasDraft'
  BY DEF IInv, TypeOK, SeenPushedHasDraft, RequestType, ScanEvent, Continue,
     Finish, rowVars
<1>. QED
  BY <1>1, <1>2, <1>3 DEF IInv, TypeOK, RowType, JobType, RunType, ShopType,
     DraftType, RunData, JobData, UnusedIsUnowned, RowDraftOwned,
     RunDraftOwned, PushedNamesDraft, SaleReportedOnlyOnceReal, Live,
     Drafting, Drafted, Announcing, ScanEvent, Continue, Finish, rowVars,
     jobVars, runVars, shopVars, draftVars

LEMMA RefreshStep ==
  ASSUME IInv, NEW r \in Requests, Refresh(r)
  PROVE  IInv'
<1>1. RequestType'
  BY PushAssumption DEF IInv, TypeOK, RequestType, RequestStep, RequestKind,
     Status, RiskAction, Refresh, Continue, Finish
<1>2. RequestData'
  BY DEF IInv, TypeOK, RequestData, RequestType, Status, Refresh, Continue,
     Finish
<1>3. SeenPushedHasDraft'
  BY DEF IInv, TypeOK, SeenPushedHasDraft, RequestType, Refresh, Continue,
     Finish, rowVars
<1>. QED
  BY <1>1, <1>2, <1>3 DEF IInv, TypeOK, RowType, JobType, RunType, ShopType,
     DraftType, RunData, JobData, UnusedIsUnowned, RowDraftOwned,
     RunDraftOwned, PushedNamesDraft, SaleReportedOnlyOnceReal, Live,
     Drafting, Drafted, Announcing, Refresh, Continue, Finish, rowVars,
     jobVars, runVars, shopVars, draftVars

LEMMA ScanAgainStep ==
  ASSUME IInv, NEW r \in Requests, ScanAgain(r)
  PROVE  IInv'
<1>1. RequestType'
  BY PushAssumption DEF IInv, TypeOK, RequestType, RequestData, RowType,
     RequestStep, RequestKind, Status, RiskAction, ScanAgain, Finish
<1>2. RequestData'
  BY DEF IInv, TypeOK, RequestData, RequestType, Status, ScanAgain, Finish
<1>3. SeenPushedHasDraft'
  BY DEF IInv, TypeOK, SeenPushedHasDraft, RequestType, ScanAgain, Finish,
     rowVars
<1>. QED
  BY <1>1, <1>2, <1>3 DEF IInv, TypeOK, RowType, JobType, RunType, ShopType,
     DraftType, RunData, JobData, UnusedIsUnowned, RowDraftOwned,
     RunDraftOwned, PushedNamesDraft, SaleReportedOnlyOnceReal, Live,
     Drafting, Drafted, Announcing, ScanAgain, Finish, rowVars, jobVars,
     runVars, shopVars, draftVars

LEMMA RequestThrowsStep ==
  ASSUME IInv, NEW r \in Requests, RequestThrows(r)
  PROVE  IInv'
<1>1. RequestType'
  BY PushAssumption DEF IInv, TypeOK, RequestType, RequestStep, RequestKind,
     Status, RiskAction, RequestThrows, Finish
<1>2. RequestData'
  BY DEF IInv, TypeOK, RequestData, RequestType, Status, RequestThrows, Finish
<1>3. SeenPushedHasDraft'
  BY DEF IInv, TypeOK, SeenPushedHasDraft, RequestType, RequestThrows, Finish,
     rowVars
<1>. QED
  BY <1>1, <1>2, <1>3 DEF IInv, TypeOK, RowType, JobType, RunType, ShopType,
     DraftType, RunData, JobData, UnusedIsUnowned, RowDraftOwned,
     RunDraftOwned, PushedNamesDraft, SaleReportedOnlyOnceReal, Live,
     Drafting, Drafted, Announcing, RequestThrows, Finish, rowVars, jobVars,
     runVars, shopVars, draftVars

LEMMA MerchantCompletesStep ==
  ASSUME IInv, NEW d \in Drafts, MerchantCompletes(d)
  PROVE  IInv'
<1>1. DraftType'
  BY DEF IInv, TypeOK, DraftType, DraftState, MerchantCompletes
<1>2. UnusedIsUnowned'
  BY DEF IInv, UnusedIsUnowned, MerchantCompletes
<1>. QED
  BY <1>1, <1>2 DEF IInv, TypeOK, RowType, JobType, RunType, ShopType,
     RequestType, RunData, RequestData, JobData, RowDraftOwned, RunDraftOwned,
     SeenPushedHasDraft, PushedNamesDraft, SaleReportedOnlyOnceReal, Live,
     Drafting, Drafted, Announcing, MerchantCompletes, rowVars, jobVars,
     runVars, shopVars, requestVars

LEMMA ChangeShopStep ==
  ASSUME IInv, ChangeShop
  PROVE  IInv'
<1>1. RunType'
  BY DEF IInv, TypeOK, RunType, RunStep, ChangeShop, runVars
<1>2. ShopType'
  BY DEF IInv, TypeOK, ShopType, ChangeShop
<1>3. RunDraftOwned'
  BY DEF IInv, RunDraftOwned, Drafting, Drafted, Announcing, ChangeShop,
     rowVars, runVars, draftVars
<1>. QED
  BY <1>1, <1>2, <1>3 DEF IInv, TypeOK, RowType, JobType, DraftType,
     RequestType, RunData, RequestData, JobData, UnusedIsUnowned,
     RowDraftOwned, SeenPushedHasDraft, PushedNamesDraft,
     SaleReportedOnlyOnceReal, Live, ChangeShop, rowVars, jobVars, runVars,
     draftVars, requestVars

-----------------------------------------------------------------------------
(* The invariant holds at the start and through every step.                 *)

LEMMA InitIInv == Init => IInv
<1>. SUFFICES ASSUME Init PROVE IInv
  OBVIOUS
<1>1. RowType
  BY DEF Init, RowType, Status, RiskAction
<1>2. JobType
  BY PushAssumption DEF Init, JobType, JobState
<1>3. RunType /\ ShopType /\ DraftType
  BY DEF Init, RunType, RunStep, ShopType, DraftType, DraftState
<1>4. RequestType
  BY PushAssumption DEF Init, RequestType, RequestStep, RequestKind
<1>5. TypeOK
  BY <1>1, <1>2, <1>3, <1>4 DEF Init, TypeOK, Channel
<1>6. RunData /\ RequestData /\ UnusedIsUnowned
  BY DEF Init, RunData, RequestData, UnusedIsUnowned
<1>7. JobData
  BY PushAssumption DEF Init, JobData, Live
<1>8. RowDraftOwned /\ RunDraftOwned /\ SeenPushedHasDraft /\ SaleReportedOnlyOnceReal
  BY DEF Init, RowDraftOwned, RunDraftOwned, Drafting, Drafted, Announcing,
         SeenPushedHasDraft, SaleReportedOnlyOnceReal
<1>9. PushedNamesDraft
  BY DEF Init, PushedNamesDraft
<1>. QED
  BY <1>5, <1>6, <1>7, <1>8, <1>9 DEF IInv

LEMMA StutterIInv ==
  ASSUME IInv, UNCHANGED vars
  PROVE  IInv'
BY DEF IInv, vars, rowVars, jobVars, runVars, shopVars, draftVars,
       requestVars, TypeOK, RowType, JobType, RunType, ShopType, DraftType,
       RequestType, RunData, RequestData, JobData, Live, UnusedIsUnowned,
       RowDraftOwned, RunDraftOwned, SeenPushedHasDraft, PushedNamesDraft,
       SaleReportedOnlyOnceReal

LEMMA NextIInv == IInv /\ [Next]_vars => IInv'
<1>. SUFFICES ASSUME IInv, [Next]_vars PROVE IInv'
  OBVIOUS
<1>1. ASSUME NEW w \in Workers, WorkerStep(w) \/ Crash(w) PROVE IInv'
  BY <1>1, GateStep, LoadSessionStep, createDraftStep, PersistDraftStep,
     PublishDraftStep, DraftEventStep, completeDraftStep, RecordOrderStep,
     CompletedEventStep, EnqueueSheetStep, EnqueuePixelStep, RecordStatsStep,
     DoneStep, PushThrowsStep, markPushExhaustedStep, CrashStep, TakeStep
     DEF WorkerStep, PushStep
<1>2. ASSUME NEW o \in Orders, Stall(o) \/ Expire(o) \/ Arrival(o) PROVE IInv'
  BY <1>2, StallStep, ExpireStep, reviewAssessmentStep, rescanStep,
     retryPushStep, verifyOrderStep, processFraudScanStep DEF Arrival
<1>3. ASSUME NEW r \in Requests, RequestStepOf(r) PROVE IInv'
  BY <1>3, ResetFailedStep, WriteVerifiedStep, EnqueueStep, ApplyVerdictStep,
     ScanEventStep, RefreshStep, ScanAgainStep, RequestThrowsStep
     DEF RequestStepOf
<1>4. ASSUME NEW d \in Drafts, MerchantCompletes(d) PROVE IInv'
  BY <1>4, MerchantCompletesStep
<1>5. CASE ChangeShop
  BY <1>5, ChangeShopStep
<1>6. CASE UNCHANGED vars
  BY <1>6, StutterIInv
<1>. QED
  BY <1>1, <1>2, <1>3, <1>4, <1>5, <1>6 DEF Next

LEMMA AlwaysIInv == Spec => []IInv
BY InitIInv, NextIInv, PTL DEF Spec

\* Every variable keeps its type: an attempt is never counted past MaxAttempts
\* and a stall never past maxStalledCount.
THEOREM TypeCorrect == Spec => []TypeOK
<1>1. IInv => TypeOK
  BY DEF IInv
<1>. QED
  BY <1>1, AlwaysIInv, PTL

\* A sale is reported downstream only for an order whose Shopify number is on
\* its row, even when a slow worker loses its job to another.
THEOREM SalesAreReal == Spec => []SaleReportedOnlyOnceReal
<1>1. IInv => SaleReportedOnlyOnceReal
  BY DEF IInv
<1>. QED
  BY <1>1, AlwaysIInv, PTL

\* An order whose status says pushed names a draft of its own in the shop,
\* stolen jobs included: verifyOrder writing back a stale status keeps it so.
THEOREM PushedOrdersHaveDrafts == Spec => []PushedHasDraft
<1>1. IInv => PushedHasDraft
  BY DEF IInv, PushedHasDraft, PushedNamesDraft, RowDraftOwned
<1>. QED
  BY <1>1, AlwaysIInv, PTL

-----------------------------------------------------------------------------
(* No job runs twice at once.                                              *)

LEMMA AttemptFailsOwner ==
  ASSUME IInv, NEW w \in Workers, pc[w] # "idle", AttemptFails(w)
  PROVE  \A o \in Orders : o # runOrder[w] =>
           jobState'[o] = jobState[o] /\ owner'[o] = owner[o]
BY DEF AttemptFails, IInv, TypeOK, JobType, RunData, jobVars

LEMMA GateOneRun ==
  ASSUME IInv, OneRunInv, NEW w \in Workers, Gate(w)
  PROVE  OneRunInv'
<1>1. RunHoldsJob'
  BY DEF IInv, OneRunInv, TypeOK, RunHoldsJob, JobType, RunType, Working,
     Holds, Gate, Goto, rowVars, jobVars, shopVars, draftVars, requestVars
<1>2. RunInStep'
  BY DEF IInv, OneRunInv, TypeOK, RunInStep, RowType, RunType, DraftType,
     Drafted, Unrecorded, Gate, Pushable, Goto, rowVars, jobVars, shopVars,
     draftVars, requestVars, evaluateGates
<1>. QED
  BY <1>1, <1>2 DEF OneRunInv, CompletedIsNamed, NumberIsDraft, Gate, Goto,
     rowVars, jobVars, shopVars, draftVars, requestVars

LEMMA LoadSessionOneRun ==
  ASSUME IInv, OneRunInv, NEW w \in Workers, LoadSession(w)
  PROVE  OneRunInv'
<1>1. RunHoldsJob'
  BY AttemptFailsRun, AttemptFailsOwner DEF IInv, OneRunInv, TypeOK,
     RunHoldsJob, RunData, JobType, RunType, Working, Holds, LoadSession,
     AfterDraft, jobVars, rowVars, shopVars, draftVars, requestVars, Leave
<1>2. RunInStep'
  BY AttemptFailsRun, AttemptFailsOwner DEF IInv, OneRunInv, TypeOK,
     RunInStep, RowType, RunType, DraftType, Drafted, Unrecorded, LoadSession,
     AfterDraft, jobVars, rowVars, shopVars, draftVars, requestVars, Leave
<1>. QED
  BY <1>1, <1>2 DEF OneRunInv, CompletedIsNamed, NumberIsDraft, LoadSession,
     AfterDraft, jobVars, rowVars, shopVars, draftVars, requestVars

LEMMA createDraftOneRun ==
  ASSUME IInv, OneRunInv, NEW w \in Workers, createDraft(w)
  PROVE  OneRunInv'
<1>1. RunHoldsJob'
  BY AttemptFailsRun, AttemptFailsOwner DEF IInv, OneRunInv, TypeOK,
     RunHoldsJob, RunData, JobType, RunType, Working, Holds, createDraft,
     jobVars, runVars, rowVars, shopVars, requestVars, Leave
<1>2. RunInStep'
  BY AttemptFailsRun, AttemptFailsOwner DEF IInv, OneRunInv, TypeOK,
     RunInStep, RowType, RunType, DraftType, Drafted, Unrecorded, createDraft,
     jobVars, runVars, rowVars, shopVars, requestVars, Leave
<1>3. CompletedIsNamed'
  BY AttemptFailsRun, AttemptFailsOwner DEF IInv, OneRunInv, TypeOK,
     CompletedIsNamed, RowType, DraftType, createDraft, jobVars, runVars,
     rowVars, shopVars, requestVars, Leave
<1>4. NumberIsDraft'
  BY AttemptFailsRun, AttemptFailsOwner DEF IInv, OneRunInv, TypeOK,
     NumberIsDraft, RowType, DraftType, createDraft, jobVars, runVars,
     rowVars, shopVars, requestVars, Leave
<1>. QED
  BY <1>1, <1>2, <1>3, <1>4 DEF OneRunInv

LEMMA PersistDraftOneRun ==
  ASSUME IInv, OneRunInv, NEW w \in Workers, PersistDraft(w)
  PROVE  OneRunInv'
<1>1. RunHoldsJob'
  BY DEF IInv, OneRunInv, TypeOK, RunHoldsJob, JobType, RunType, Working,
     Holds, PersistDraft, Goto, AfterDraft, jobVars, shopVars, draftVars,
     requestVars
<1>2. RunInStep'
  BY DEF IInv, OneRunInv, TypeOK, RunInStep, RunHoldsJob, RunData,
     RunDraftOwned, RowType, JobType, RunType, DraftType, Drafted, Unrecorded,
     Working, Holds, Drafting, Announcing, PersistDraft, Goto, AfterDraft,
     jobVars, shopVars, draftVars, requestVars
<1>3. CompletedIsNamed'
  BY PushAssumption DEF IInv, OneRunInv, TypeOK, CompletedIsNamed, RunInStep,
     RunData, RunDraftOwned, RowDraftOwned, UnusedIsUnowned, RunHoldsJob,
     NumberIsDraft, JobData, RowType, JobType, RunType, DraftType, Drafted,
     Unrecorded, Drafting, Announcing, Working, Holds, Live, Status,
     RiskAction, JobState, RunStep, DraftState, PersistDraft, Goto,
     AfterDraft, jobVars, shopVars, draftVars, requestVars
<1>4. NumberIsDraft'
  BY DEF IInv, OneRunInv, TypeOK, NumberIsDraft, RunInStep, RunData,
     RunDraftOwned, CompletedIsNamed, RowType, RunType, DraftType, Drafted,
     Unrecorded, Drafting, Announcing, PersistDraft, Goto, AfterDraft,
     jobVars, shopVars, draftVars, requestVars
<1>. QED
  BY <1>1, <1>2, <1>3, <1>4 DEF OneRunInv

LEMMA PublishDraftOneRun ==
  ASSUME IInv, OneRunInv, NEW w \in Workers, PublishDraft(w)
  PROVE  OneRunInv'
<1>1. RunHoldsJob'
  BY DEF IInv, OneRunInv, TypeOK, RunHoldsJob, JobType, RunType, Working,
     Holds, PublishDraft, Goto, jobVars, shopVars, draftVars, requestVars
<1>2. RunInStep'
  BY DEF IInv, OneRunInv, TypeOK, RunInStep, RowType, RunType, DraftType,
     Drafted, Unrecorded, PublishDraft, Goto, jobVars, shopVars, draftVars,
     requestVars
<1>. QED
  BY <1>1, <1>2 DEF OneRunInv, CompletedIsNamed, NumberIsDraft, PublishDraft,
     Goto, jobVars, shopVars, draftVars, requestVars

LEMMA DraftEventOneRun ==
  ASSUME IInv, OneRunInv, NEW w \in Workers, DraftEvent(w)
  PROVE  OneRunInv'
<1>1. RunHoldsJob'
  BY DEF IInv, OneRunInv, TypeOK, RunHoldsJob, JobType, RunType, Working,
     Holds, DraftEvent, Goto, rowVars, jobVars, shopVars, draftVars,
     requestVars
<1>2. RunInStep'
  BY DEF IInv, OneRunInv, TypeOK, RunInStep, RowType, RunType, DraftType,
     Drafted, Unrecorded, DraftEvent, Goto, rowVars, jobVars, shopVars,
     draftVars, requestVars
<1>. QED
  BY <1>1, <1>2 DEF OneRunInv, CompletedIsNamed, NumberIsDraft, DraftEvent,
     Goto, rowVars, jobVars, shopVars, draftVars, requestVars

LEMMA completeDraftOneRun ==
  ASSUME IInv, OneRunInv, NEW w \in Workers, completeDraft(w)
  PROVE  OneRunInv'
<1>1. RunHoldsJob'
  BY AttemptFailsRun, AttemptFailsOwner DEF IInv, OneRunInv, TypeOK,
     RunHoldsJob, RunData, JobType, RunType, Working, Holds, completeDraft,
     Goto, jobVars, runVars, rowVars, shopVars, requestVars, Leave
<1>2. RunInStep'
  BY AttemptFailsRun, AttemptFailsOwner DEF IInv, OneRunInv, TypeOK,
     RunInStep, RunHoldsJob, RunData, RunDraftOwned, RowType, JobType,
     RunType, DraftType, Drafted, Unrecorded, Working, Holds, Drafting,
     Announcing, completeDraft, Goto, jobVars, runVars, rowVars, shopVars,
     requestVars, Leave
<1>3. CompletedIsNamed'
  BY AttemptFailsRun, AttemptFailsOwner DEF IInv, OneRunInv, TypeOK,
     CompletedIsNamed, RunInStep, RunData, RunDraftOwned, RowDraftOwned,
     UnusedIsUnowned, RowType, RunType, DraftType, Drafted, Unrecorded,
     Drafting, Announcing, completeDraft, Goto, jobVars, runVars, rowVars,
     shopVars, requestVars, Leave
<1>4. NumberIsDraft'
  BY AttemptFailsRun, AttemptFailsOwner DEF IInv, OneRunInv, TypeOK,
     NumberIsDraft, RowType, DraftType, completeDraft, Goto, jobVars, runVars,
     rowVars, shopVars, requestVars, Leave
<1>. QED
  BY <1>1, <1>2, <1>3, <1>4 DEF OneRunInv

LEMMA RecordOrderOneRun ==
  ASSUME IInv, OneRunInv, NEW w \in Workers, RecordOrder(w)
  PROVE  OneRunInv'
<1>1. RunHoldsJob'
  BY DEF IInv, OneRunInv, TypeOK, RunHoldsJob, JobType, RunType, Working,
     Holds, RecordOrder, Goto, jobVars, shopVars, draftVars, requestVars
<1>2. RunInStep'
  BY DEF IInv, OneRunInv, TypeOK, RunInStep, RunHoldsJob, RunData,
     RunDraftOwned, RowType, JobType, RunType, DraftType, Drafted, Unrecorded,
     Working, Holds, Drafting, Announcing, RecordOrder, Goto, jobVars,
     shopVars, draftVars, requestVars
<1>3. NumberIsDraft'
  BY DEF IInv, OneRunInv, TypeOK, NumberIsDraft, RunInStep, RunData,
     RunDraftOwned, CompletedIsNamed, RowType, RunType, DraftType, Drafted,
     Unrecorded, Drafting, Announcing, RecordOrder, Goto, jobVars, shopVars,
     draftVars, requestVars
<1>. QED
  BY <1>1, <1>2, <1>3 DEF OneRunInv, CompletedIsNamed, RecordOrder, Goto,
     jobVars, shopVars, draftVars, requestVars

LEMMA CompletedEventOneRun ==
  ASSUME IInv, OneRunInv, NEW w \in Workers, CompletedEvent(w)
  PROVE  OneRunInv'
<1>1. RunHoldsJob'
  BY DEF IInv, OneRunInv, TypeOK, RunHoldsJob, JobType, RunType, Working,
     Holds, CompletedEvent, Goto, rowVars, jobVars, shopVars, draftVars,
     requestVars
<1>2. RunInStep'
  BY DEF IInv, OneRunInv, TypeOK, RunInStep, RowType, RunType, DraftType,
     Drafted, Unrecorded, CompletedEvent, Goto, rowVars, jobVars, shopVars,
     draftVars, requestVars
<1>. QED
  BY <1>1, <1>2 DEF OneRunInv, CompletedIsNamed, NumberIsDraft,
     CompletedEvent, Goto, rowVars, jobVars, shopVars, draftVars, requestVars

LEMMA EnqueueSheetOneRun ==
  ASSUME IInv, OneRunInv, NEW w \in Workers, EnqueueSheet(w)
  PROVE  OneRunInv'
<1>1. RunHoldsJob'
  BY DEF IInv, OneRunInv, TypeOK, RunHoldsJob, JobType, RunType, Working,
     Holds, EnqueueSheet, Announce, Goto, rowVars, jobVars, shopVars,
     draftVars, requestVars
<1>2. RunInStep'
  BY DEF IInv, OneRunInv, TypeOK, RunInStep, RowType, RunType, DraftType,
     Drafted, Unrecorded, EnqueueSheet, Announce, Goto, rowVars, jobVars,
     shopVars, draftVars, requestVars
<1>. QED
  BY <1>1, <1>2 DEF OneRunInv, CompletedIsNamed, NumberIsDraft, EnqueueSheet,
     Announce, Goto, rowVars, jobVars, shopVars, draftVars, requestVars

LEMMA EnqueuePixelOneRun ==
  ASSUME IInv, OneRunInv, NEW w \in Workers, EnqueuePixel(w)
  PROVE  OneRunInv'
<1>1. RunHoldsJob'
  BY DEF IInv, OneRunInv, TypeOK, RunHoldsJob, JobType, RunType, Working,
     Holds, EnqueuePixel, Announce, Goto, rowVars, jobVars, shopVars,
     draftVars, requestVars
<1>2. RunInStep'
  BY DEF IInv, OneRunInv, TypeOK, RunInStep, RowType, RunType, DraftType,
     Drafted, Unrecorded, EnqueuePixel, Announce, Goto, rowVars, jobVars,
     shopVars, draftVars, requestVars
<1>. QED
  BY <1>1, <1>2 DEF OneRunInv, CompletedIsNamed, NumberIsDraft, EnqueuePixel,
     Announce, Goto, rowVars, jobVars, shopVars, draftVars, requestVars

LEMMA RecordStatsOneRun ==
  ASSUME IInv, OneRunInv, NEW w \in Workers, RecordStats(w)
  PROVE  OneRunInv'
<1>1. RunHoldsJob'
  BY DEF IInv, OneRunInv, TypeOK, RunHoldsJob, JobType, RunType, Working,
     Holds, RecordStats, Announce, Goto, rowVars, jobVars, shopVars,
     draftVars, requestVars
<1>2. RunInStep'
  BY DEF IInv, OneRunInv, TypeOK, RunInStep, RowType, RunType, DraftType,
     Drafted, Unrecorded, RecordStats, Announce, Goto, rowVars, jobVars,
     shopVars, draftVars, requestVars
<1>. QED
  BY <1>1, <1>2 DEF OneRunInv, CompletedIsNamed, NumberIsDraft, RecordStats,
     Announce, Goto, rowVars, jobVars, shopVars, draftVars, requestVars

LEMMA DoneOneRun ==
  ASSUME IInv, OneRunInv, NEW w \in Workers, Done(w)
  PROVE  OneRunInv'
<1>1. RunHoldsJob'
  BY DEF IInv, OneRunInv, TypeOK, RunHoldsJob, RunData, JobType, RunType,
     Working, Holds, Done, Leave, rowVars, shopVars, draftVars, requestVars
<1>2. RunInStep'
  BY DEF IInv, OneRunInv, TypeOK, RunInStep, RowType, RunType, DraftType,
     Drafted, Unrecorded, Done, Holds, Leave, rowVars, shopVars, draftVars,
     requestVars
<1>. QED
  BY <1>1, <1>2 DEF OneRunInv, CompletedIsNamed, NumberIsDraft, Done, Holds,
     Leave, rowVars, shopVars, draftVars, requestVars

LEMMA PushThrowsOneRun ==
  ASSUME IInv, OneRunInv, NEW w \in Workers, PushThrows(w)
  PROVE  OneRunInv'
<1>1. RunHoldsJob'
  BY AttemptFailsRun, AttemptFailsOwner DEF IInv, OneRunInv, TypeOK,
     RunHoldsJob, RunData, JobType, RunType, Working, Holds, PushThrows,
     Fallible, rowVars, shopVars, draftVars, requestVars, Leave
<1>2. RunInStep'
  BY AttemptFailsRun, AttemptFailsOwner DEF IInv, OneRunInv, TypeOK,
     RunInStep, RowType, RunType, DraftType, Drafted, Unrecorded, PushThrows,
     Fallible, rowVars, shopVars, draftVars, requestVars, Leave
<1>. QED
  BY <1>1, <1>2 DEF OneRunInv, CompletedIsNamed, NumberIsDraft, PushThrows,
     Fallible, rowVars, shopVars, draftVars, requestVars

LEMMA markPushExhaustedOneRun ==
  ASSUME IInv, OneRunInv, NEW w \in Workers, markPushExhausted(w)
  PROVE  OneRunInv'
<1>1. RunHoldsJob'
  BY DEF IInv, OneRunInv, TypeOK, RunHoldsJob, JobType, RunType, Working,
     Holds, markPushExhausted, Leave, jobVars, shopVars, draftVars,
     requestVars
<1>2. RunInStep'
  BY DEF IInv, OneRunInv, TypeOK, RunInStep, RowType, RunType, DraftType,
     Drafted, Unrecorded, markPushExhausted, Leave, jobVars, shopVars,
     draftVars, requestVars
<1>. QED
  BY <1>1, <1>2 DEF OneRunInv, CompletedIsNamed, NumberIsDraft,
     markPushExhausted, Leave, jobVars, shopVars, draftVars, requestVars

LEMMA CrashOneRun ==
  ASSUME IInv, OneRunInv, NEW w \in Workers, Crash(w)
  PROVE  OneRunInv'
<1>1. RunHoldsJob'
  BY DEF IInv, OneRunInv, TypeOK, RunHoldsJob, JobType, RunType, Working,
     Holds, Crash, Leave, rowVars, jobVars, shopVars, draftVars, requestVars
<1>2. RunInStep'
  BY DEF IInv, OneRunInv, TypeOK, RunInStep, RowType, RunType, DraftType,
     Drafted, Unrecorded, Crash, Leave, rowVars, jobVars, shopVars, draftVars,
     requestVars
<1>. QED
  BY <1>1, <1>2 DEF OneRunInv, CompletedIsNamed, NumberIsDraft, Crash, Leave,
     rowVars, jobVars, shopVars, draftVars, requestVars

LEMMA TakeOneRun ==
  ASSUME IInv, OneRunInv, NEW w \in Workers, NEW o \in Orders, Take(w, o)
  PROVE  OneRunInv'
<1>1. RunHoldsJob'
  BY DEF IInv, OneRunInv, TypeOK, RunHoldsJob, JobType, RunType, Working,
     Holds, Take, rowVars, shopVars, draftVars, requestVars
<1>2. RunInStep'
  BY DEF IInv, OneRunInv, TypeOK, RunInStep, RowType, RunType, DraftType,
     Drafted, Unrecorded, Take, rowVars, shopVars, draftVars, requestVars
<1>. QED
  BY <1>1, <1>2 DEF OneRunInv, CompletedIsNamed, NumberIsDraft, Take, rowVars,
     shopVars, draftVars, requestVars

LEMMA StallOneRun ==
  ASSUME IInv, OneRunInv, ~Steals, NEW o \in Orders, Stall(o)
  PROVE  OneRunInv'
<1>1. RunHoldsJob'
  BY DEF IInv, OneRunInv, TypeOK, RunHoldsJob, RunData, JobType, RunType,
     Working, Holds, Stall, Abandoned, rowVars, runVars, shopVars, draftVars,
     requestVars
<1>. QED
  BY <1>1 DEF OneRunInv, RunInStep, CompletedIsNamed, NumberIsDraft, Drafted,
     Unrecorded, Stall, Abandoned, rowVars, runVars, shopVars, draftVars,
     requestVars, Holds

LEMMA ExpireOneRun ==
  ASSUME IInv, OneRunInv, NEW o \in Orders, Expire(o)
  PROVE  OneRunInv'
<1>1. RunHoldsJob'
  BY DEF IInv, OneRunInv, TypeOK, RunHoldsJob, JobType, RunType, Working,
     Holds, Expire, rowVars, runVars, shopVars, draftVars, requestVars
<1>. QED
  BY <1>1 DEF OneRunInv, RunInStep, CompletedIsNamed, NumberIsDraft, Drafted,
     Unrecorded, Expire, rowVars, runVars, shopVars, draftVars, requestVars

LEMMA EnqueueOneRun ==
  ASSUME IInv, OneRunInv, NEW r \in Requests, Enqueue(r)
  PROVE  OneRunInv'
<1>1. RunHoldsJob'
  BY DEF IInv, OneRunInv, TypeOK, RunHoldsJob, RunData, JobType, RunType,
     Working, Holds, Enqueue, enqueueOrderPush, Finish, rowVars, runVars,
     shopVars, draftVars, Add, jobVars
<1>. QED
  BY <1>1 DEF OneRunInv, RunInStep, CompletedIsNamed, NumberIsDraft, Drafted,
     Unrecorded, Enqueue, enqueueOrderPush, Finish, rowVars, runVars,
     shopVars, draftVars, Add, jobVars

LEMMA MerchantCompletesOneRun ==
  ASSUME IInv, OneRunInv, NEW d \in Drafts, MerchantCompletes(d)
  PROVE  OneRunInv'
<1>1. RunInStep'
  BY DEF IInv, OneRunInv, TypeOK, RunInStep, RowType, RunType, DraftType,
     Drafted, Unrecorded, MerchantCompletes, rowVars, jobVars, runVars,
     shopVars, requestVars
<1>2. CompletedIsNamed'
  BY DEF IInv, OneRunInv, TypeOK, CompletedIsNamed, RowType, DraftType,
     MerchantCompletes, rowVars, jobVars, runVars, shopVars, requestVars
<1>3. NumberIsDraft'
  BY DEF IInv, OneRunInv, TypeOK, NumberIsDraft, RowType, DraftType,
     MerchantCompletes, rowVars, jobVars, runVars, shopVars, requestVars
<1>. QED
  BY <1>1, <1>2, <1>3 DEF OneRunInv, RunHoldsJob, Working, Holds,
     MerchantCompletes, rowVars, jobVars, runVars, shopVars, requestVars

LEMMA ChangeShopOneRun ==
  ASSUME IInv, OneRunInv, ChangeShop
  PROVE  OneRunInv'
<1>1. RunInStep'
  BY DEF IInv, OneRunInv, TypeOK, RunInStep, RowType, RunType, DraftType,
     Drafted, Unrecorded, ChangeShop, rowVars, jobVars, runVars, draftVars,
     requestVars
<1>. QED
  BY <1>1 DEF OneRunInv, RunHoldsJob, CompletedIsNamed, NumberIsDraft,
     Working, Holds, ChangeShop, rowVars, jobVars, runVars, draftVars,
     requestVars

-----------------------------------------------------------------------------
(* OneRunInv holds at the start and through every step.                     *)

LEMMA InitOneRun == Init => OneRunInv
BY DEF Init, OneRunInv, RunHoldsJob, Working, RunInStep, Drafted, Unrecorded,
       CompletedIsNamed, NumberIsDraft

\* Steps that touch none of the variables OneRunInv reads.
LEMMA FrameOneRun ==
  ASSUME OneRunInv,
         UNCHANGED <<draftGid, orderGid, jobVars, runVars, draftVars>>
  PROVE  OneRunInv'
BY DEF OneRunInv, RunHoldsJob, Working, Holds, RunInStep, CompletedIsNamed,
       NumberIsDraft, jobVars, runVars, draftVars

LEMMA RequestsOneRun ==
  ASSUME OneRunInv, NEW r \in Requests,
         \/ \E o \in Orders :
              retryPush(r, o) \/ verifyOrder(r, o) \/ processFraudScan(r, o)
         \/ ResetFailed(r) \/ WriteVerified(r) \/ ApplyVerdict(r)
         \/ ScanEvent(r) \/ Refresh(r) \/ ScanAgain(r) \/ RequestThrows(r)
  PROVE  OneRunInv'
<1>1. UNCHANGED <<draftGid, orderGid, jobVars, runVars, draftVars>>
  BY DEF retryPush, verifyOrder, processFraudScan, Begin, ResetFailed,
         WriteVerified, ApplyVerdict, WriteVerdict, ScanEvent, Refresh,
         ScanAgain, RequestThrows, rowVars
<1>. QED
  BY <1>1, FrameOneRun

LEMMA VerdictOneRun ==
  ASSUME OneRunInv, NEW o \in Orders, reviewAssessment(o) \/ rescan(o)
  PROVE  OneRunInv'
<1>1. UNCHANGED <<draftGid, orderGid, jobVars, runVars, draftVars>>
  BY DEF reviewAssessment, rescan, WriteVerdict
<1>. QED
  BY <1>1, FrameOneRun

LEMMA NextOneRun ==
  ASSUME ~Steals
  PROVE  IInv /\ OneRunInv /\ [Next]_vars => OneRunInv'
<1>. SUFFICES ASSUME IInv, OneRunInv, [Next]_vars PROVE OneRunInv'
  OBVIOUS
<1>1. ASSUME NEW w \in Workers, WorkerStep(w) \/ Crash(w) PROVE OneRunInv'
  BY <1>1, GateOneRun, LoadSessionOneRun, createDraftOneRun,
     PersistDraftOneRun, PublishDraftOneRun, DraftEventOneRun,
     completeDraftOneRun, RecordOrderOneRun, CompletedEventOneRun,
     EnqueueSheetOneRun, EnqueuePixelOneRun, RecordStatsOneRun, DoneOneRun,
     PushThrowsOneRun, markPushExhaustedOneRun, CrashOneRun, TakeOneRun
     DEF WorkerStep, PushStep
<1>2. ASSUME NEW o \in Orders, Stall(o) \/ Expire(o) PROVE OneRunInv'
  BY <1>2, StallOneRun, ExpireOneRun
<1>3. ASSUME NEW o \in Orders, Arrival(o) PROVE OneRunInv'
  BY <1>3, VerdictOneRun, RequestsOneRun DEF Arrival
<1>4. ASSUME NEW r \in Requests, RequestStepOf(r) PROVE OneRunInv'
  BY <1>4, RequestsOneRun, EnqueueOneRun DEF RequestStepOf
<1>5. ASSUME NEW d \in Drafts, MerchantCompletes(d) PROVE OneRunInv'
  BY <1>5, MerchantCompletesOneRun
<1>6. CASE ChangeShop
  BY <1>6, ChangeShopOneRun
<1>7. CASE UNCHANGED vars
  BY <1>7, FrameOneRun DEF vars, rowVars
<1>. QED
  BY <1>1, <1>2, <1>3, <1>4, <1>5, <1>6, <1>7 DEF Next

LEMMA AlwaysOneRun ==
  ASSUME ~Steals
  PROVE  Spec => [](IInv /\ OneRunInv)
BY InitIInv, NextIInv, InitOneRun, NextOneRun, PTL DEF Spec

\* pushOrder creates at most one Shopify order per COD order, over any number
\* of crashes, lost answers, retries and requests, if no job runs twice at once.
THEOREM OneShopifyOrder ==
  ASSUME ~Steals
  PROVE  Spec => []AtMostOneShopifyOrder
<1>1. IInv /\ OneRunInv => AtMostOneShopifyOrder
  <2>. SUFFICES ASSUME IInv, OneRunInv, NEW o \in Orders
                PROVE  Cardinality(OrdersMade(o)) <= 1
    BY DEF AtMostOneShopifyOrder
  <2>1. OrdersMade(o) \subseteq {draftGid[o]}
    BY DEF OrdersMade, OneRunInv, CompletedIsNamed
  <2>2. CASE OrdersMade(o) = {}
    BY <2>2, FS_EmptySet
  <2>3. CASE OrdersMade(o) = {draftGid[o]}
    BY <2>3, FS_Singleton
  <2>. QED
    BY <2>1, <2>2, <2>3
<1>. QED
  BY <1>1, AlwaysOneRun, PTL

\* The number updateStatus records is that of the one Shopify order completed
\* for the row, from the draft the row names.
THEOREM RecordedOrders ==
  ASSUME ~Steals
  PROVE  Spec => []RecordedOrderIsOurs
<1>1. IInv /\ OneRunInv => RecordedOrderIsOurs
  BY PushAssumption DEF RecordedOrderIsOurs, IInv, TypeOK, RowType, OneRunInv,
     NumberIsDraft, RowDraftOwned, OrdersMade
<1>. QED
  BY <1>1, AlwaysOneRun, PTL

-----------------------------------------------------------------------------
(* The push implements OrderDelivery.                                       *)

\* The order number of a row, the drafts and the downstream work change in a
\* few steps of a push only.
LEMMA DeliveryFrame ==
  ASSUME Next
  PROVE  \/ UNCHANGED <<orderGid, draftVars, told>>
         \/ \E w \in Workers :
              \/ createDraft(w) \/ completeDraft(w) \/ RecordOrder(w)
              \/ EnqueueSheet(w) \/ EnqueuePixel(w) \/ RecordStats(w)
         \/ \E d \in Drafts : MerchantCompletes(d)
<1>1. ASSUME NEW w \in Workers,
             \/ Gate(w) \/ LoadSession(w) \/ PersistDraft(w) \/ PublishDraft(w)
             \/ DraftEvent(w) \/ CompletedEvent(w) \/ Done(w) \/ PushThrows(w)
             \/ markPushExhausted(w) \/ Crash(w)
             \/ \E o \in Orders : Take(w, o)
      PROVE  UNCHANGED <<orderGid, draftVars, told>>
  BY <1>1 DEF Gate, LoadSession, PersistDraft, PublishDraft, DraftEvent,
     CompletedEvent, Done, PushThrows, markPushExhausted, Crash, Take, rowVars
<1>2. ASSUME NEW o \in Orders, Stall(o) \/ Expire(o) \/ Arrival(o)
      PROVE  UNCHANGED <<orderGid, draftVars, told>>
  BY <1>2 DEF Stall, Expire, Arrival, reviewAssessment, rescan, WriteVerdict,
     retryPush, verifyOrder, processFraudScan, Begin, rowVars
<1>3. ASSUME NEW r \in Requests, RequestStepOf(r)
      PROVE  UNCHANGED <<orderGid, draftVars, told>>
  BY <1>3 DEF RequestStepOf, ResetFailed, WriteVerified, Enqueue, ApplyVerdict,
     WriteVerdict, ScanEvent, Refresh, ScanAgain, RequestThrows, rowVars
<1>4. CASE ChangeShop
  BY <1>4 DEF ChangeShop, rowVars
<1>. QED
  BY <1>1, <1>2, <1>3, <1>4 DEF Next, WorkerStep, PushStep

LEMMA RecordOrderLearns ==
  ASSUME IInv, OneRunInv, NEW w \in Workers, RecordOrder(w)
  PROVE  /\ runOrder[w] \in Orders /\ orderGid[runOrder[w]] = Null
         /\ inHand[w] \in OrdersMade(runOrder[w])
         /\ orderGid' = [orderGid EXCEPT ![runOrder[w]] = inHand[w]]
         /\ UNCHANGED <<draftVars, told>>
BY DEF RecordOrder, IInv, TypeOK, RunType, RunData, RunDraftOwned, Drafting,
   OneRunInv, RunInStep, Unrecorded, Drafted, OrdersMade

\* No step of the push, of a request or of a rescan replaces a recorded Shopify
\* order number.
THEOREM NumbersAreFinal ==
  ASSUME ~Steals
  PROVE  Spec => OrderNumberIsFinal
<1>1. IInv /\ OneRunInv /\ [Next]_vars
        => [\A o \in Orders : orderGid[o] # Null => orderGid'[o] = orderGid[o]]_vars
  <2>. SUFFICES ASSUME IInv, OneRunInv, Next, NEW o \in Orders, orderGid[o] # Null
                PROVE  orderGid'[o] = orderGid[o]
    OBVIOUS
  <2>1. ASSUME NEW w \in Workers, RecordOrder(w)
        PROVE  orderGid'[o] = orderGid[o]
    BY <2>1, RecordOrderLearns DEF IInv, TypeOK, RowType
  <2>2. ASSUME NEW w \in Workers,
               \/ createDraft(w) \/ completeDraft(w)
               \/ EnqueueSheet(w) \/ EnqueuePixel(w) \/ RecordStats(w)
        PROVE  orderGid' = orderGid
    BY <2>2 DEF createDraft, completeDraft, EnqueueSheet, EnqueuePixel,
       RecordStats, Announce, rowVars
  <2>3. ASSUME NEW d \in Drafts, MerchantCompletes(d)
        PROVE  orderGid' = orderGid
    BY <2>3 DEF MerchantCompletes, rowVars
  <2>. QED
    BY <2>1, <2>2, <2>3, DeliveryFrame
<1>. QED
  BY <1>1, AlwaysOneRun, PTL DEF Spec, OrderNumberIsFinal

\* Every step of a push that Shopify or the merchant's channels see is a step
\* of the delivery.
LEMMA InitDelivery == Init => Delivery!Init
BY PushAssumption DEF Init, Delivery!Init, OrdersMade

LEMMA createDraftStutters ==
  ASSUME IInv, NEW w \in Workers, createDraft(w)
  PROVE  UNCHANGED Delivery!vars
<1>1. PICK d \in Drafts : /\ draftState[d] = "unused"
                          /\ draftState' = [draftState EXCEPT ![d] = "open"]
                          /\ draftOf' = [draftOf EXCEPT ![d] = runOrder[w]]
                          /\ UNCHANGED <<orderGid, told>>
  BY DEF createDraft, rowVars
<1>2. \A o \in Orders : OrdersMade(o)' = OrdersMade(o)
  BY <1>1 DEF OrdersMade, IInv, TypeOK, DraftType
<1>. QED
  BY <1>1, <1>2 DEF Delivery!vars

LEMMA MerchantCompletesStutters ==
  ASSUME IInv, NEW d \in Drafts, MerchantCompletes(d)
  PROVE  UNCHANGED Delivery!vars
<1>1. UNCHANGED <<orderGid, told>>
  BY DEF MerchantCompletes, rowVars
<1>2. \A o \in Orders : OrdersMade(o)' = OrdersMade(o)
  BY DEF MerchantCompletes, OrdersMade, IInv, TypeOK, DraftType
<1>. QED
  BY <1>1, <1>2 DEF Delivery!vars

LEMMA completeDraftCreates ==
  ASSUME IInv, OneRunInv, NEW w \in Workers, completeDraft(w)
  PROVE  [Delivery!Next]_(Delivery!vars)
<1>1. PICK o \in Orders, d \in Drafts :
        o = runOrder[w] /\ d = inHand[w] /\ draftOf[d] = o /\ draftGid[o] = d
  BY DEF completeDraft, IInv, TypeOK, RunType, RunData, RunDraftOwned,
     Drafting, OneRunInv, RunInStep, Drafted
<1>2. UNCHANGED <<orderGid, told, draftOf>>
  BY DEF completeDraft, rowVars
<1>3. CASE UNCHANGED draftState
  BY <1>2, <1>3 DEF OrdersMade, Delivery!vars
<1>4. CASE draftState[d] = "open" /\ draftState' = [draftState EXCEPT ![d] = "completed"]
  <2>1. OrdersMade(o) = {}
    BY <1>1, <1>4 DEF OrdersMade, OneRunInv, CompletedIsNamed
  <2>2. OrdersMade(o)' = {d}
    <3>1. \A e \in Drafts : e # d => e \notin OrdersMade(o)'
      BY <1>1, <1>2, <1>4, <2>1 DEF OrdersMade, IInv, TypeOK, DraftType
    <3>2. d \in OrdersMade(o)'
      BY <1>1, <1>2, <1>4 DEF OrdersMade, IInv, TypeOK, DraftType
    <3>3. OrdersMade(o)' \subseteq Drafts
      BY DEF OrdersMade
    <3>. QED
      BY <3>1, <3>2, <3>3
  <2>3. \A p \in Orders : p # o => OrdersMade(p)' = OrdersMade(p)
    BY <1>1, <1>2, <1>4 DEF OrdersMade, IInv, TypeOK, DraftType
  <2>4. [p \in Orders |-> OrdersMade(p)]'
          = [[p \in Orders |-> OrdersMade(p)] EXCEPT ![o] = {d}]
    BY <1>1, <2>2, <2>3
  <2>5. Delivery!Create(o)
    BY <1>1, <1>2, <2>1, <2>4 DEF Delivery!Create
  <2>. QED
    BY <1>1, <2>5 DEF Delivery!Next
<1>. QED
  BY <1>1, <1>3, <1>4 DEF completeDraft

LEMMA NextDelivery ==
  ASSUME IInv, OneRunInv, [Next]_vars
  PROVE  [Delivery!Next]_(Delivery!vars)
<1>1. CASE UNCHANGED <<orderGid, draftVars, told>>
  BY <1>1 DEF Delivery!vars, OrdersMade, draftVars
<1>2. ASSUME NEW w \in Workers, RecordOrder(w)
      PROVE  Delivery!Learn(runOrder[w])
  <2>1. \A o \in Orders : OrdersMade(o)' = OrdersMade(o)
    BY <1>2, RecordOrderLearns DEF OrdersMade, draftVars
  <2>. QED
    BY <1>2, <2>1, RecordOrderLearns DEF Delivery!Learn
<1>3. ASSUME NEW w \in Workers,
             EnqueueSheet(w) \/ EnqueuePixel(w) \/ RecordStats(w)
      PROVE  Delivery!Tell(runOrder[w]) \/ UNCHANGED Delivery!vars
  <2>1. UNCHANGED <<orderGid, draftVars>>
    BY <1>3 DEF EnqueueSheet, EnqueuePixel, RecordStats, Announce, rowVars
  <2>2. runOrder[w] \in Orders /\ orderGid[runOrder[w]] # Null
    BY <1>3 DEF EnqueueSheet, EnqueuePixel, RecordStats, Announce, IInv,
       TypeOK, RunType, RunData, RunDraftOwned, Announcing
  <2>3. \A o \in Orders : OrdersMade(o)' = OrdersMade(o)
    BY <2>1 DEF OrdersMade, draftVars
  <2>4. \/ \E c \in Channel : told' = [told EXCEPT ![runOrder[w]] = @ \cup {c}]
        \/ UNCHANGED told
    BY <1>3 DEF EnqueueSheet, EnqueuePixel, RecordStats, Announce, Channel
  <2>. QED
    BY <2>1, <2>2, <2>3, <2>4 DEF Delivery!Tell, Delivery!vars
<1>. QED
  BY <1>1, <1>2, <1>3, DeliveryFrame, createDraftStutters,
     MerchantCompletesStutters, completeDraftCreates, RecordOrderLearns
     DEF Delivery!Next, vars, rowVars, EnqueueSheet, EnqueuePixel, RecordStats,
         Announce, IInv, RunData

\* The push implements the abstract delivery: create once, learn the number of
\* the order created, and only then tell the sheet, the pixels and the stats.
THEOREM PushDelivers ==
  ASSUME ~Steals
  PROVE  Spec => DeliverySpec
BY InitDelivery, NextDelivery, AlwaysOneRun, PTL DEF Spec, DeliverySpec, Delivery!Spec

\* Once PersistDraft has put a draft id on the row, no later attempt of the push
\* creates another draft for that order.
THEOREM DraftsAreReused ==
  ASSUME ~Steals
  PROVE  Spec => PersistedDraftReused
<1>1. ASSUME IInv, OneRunInv, NEW w \in Workers, createDraft(w),
             NEW o \in Orders, draftGid[o] # Null
      PROVE  DraftsOf(o)' = DraftsOf(o)
  <2>1. runOrder[w] # o
    BY <1>1 DEF createDraft, OneRunInv, RunInStep
  <2>2. PICK d \in Drafts : /\ draftState[d] = "unused"
                            /\ draftOf' = [draftOf EXCEPT ![d] = runOrder[w]]
    BY <1>1 DEF createDraft
  <2>3. draftOf[d] # o
    BY <1>1, <2>2, PushAssumption DEF IInv, UnusedIsUnowned
  <2>. QED
    BY <1>1, <2>1, <2>2, <2>3 DEF DraftsOf, IInv, TypeOK, DraftType
<1>2. IInv /\ OneRunInv /\ [Next]_vars
        => [\A o \in Orders : draftGid[o] # Null => DraftsOf(o)' = DraftsOf(o)]_vars
  <2>. SUFFICES ASSUME IInv, OneRunInv, Next, NEW o \in Orders, draftGid[o] # Null
                PROVE  DraftsOf(o)' = DraftsOf(o)
    OBVIOUS
  <2>1. CASE UNCHANGED draftOf
    BY <2>1 DEF DraftsOf
  <2>2. ASSUME NEW w \in Workers, ~createDraft(w),
               \/ completeDraft(w) \/ RecordOrder(w) \/ EnqueueSheet(w)
               \/ EnqueuePixel(w) \/ RecordStats(w)
        PROVE  UNCHANGED draftOf
    BY <2>2 DEF completeDraft, RecordOrder, EnqueueSheet, EnqueuePixel,
       RecordStats, Announce, draftVars
  <2>3. ASSUME NEW d \in Drafts, MerchantCompletes(d)
        PROVE  UNCHANGED draftOf
    BY <2>3 DEF MerchantCompletes
  <2>. QED
    BY <1>1, <2>1, <2>2, <2>3, DeliveryFrame DEF draftVars
<1>. QED
  BY <1>2, AlwaysOneRun, PTL DEF Spec, PersistedDraftReused

-----------------------------------------------------------------------------
(* What a form shows. *)

\* Which fields of a form are shown.
Shown(f) == [DOMAIN f -> BOOLEAN]

\* A pass reads of each field that a condition names what that condition makes of it.
Reads(f, k, A, B) ==
    \A c \in f[k].rule.conditions : c.field \in DOMAIN f => Meets(c, A[c.field]) = Meets(c, B[c.field])

\* A pass says of each field whether it is shown.
LEMMA PassIsShown ==
    ASSUME NEW f, IsForm(f), NEW V, NEW vs
    PROVE  Pass(f, V, vs) \in Shown(f)
<1>1. \A k \in DOMAIN f : (f[k].enabled /\ evaluateRule(f[k].rule, Seen(V, vs))) \in BOOLEAN
  BY DEF IsForm
<1> QED BY <1>1 DEF Pass, Shown

\* A rule says the same of values its conditions read alike,
LEMMA RulesAgree ==
    ASSUME NEW f, NEW k \in DOMAIN f, NEW A, NEW B, DOMAIN A = DOMAIN f, DOMAIN B = DOMAIN f,
           Reads(f, k, A, B)
    PROVE  evaluateRule(f[k].rule, A) = evaluateRule(f[k].rule, B)
<1>1. \A c \in f[k].rule.conditions : evaluateCondition(c, A) = evaluateCondition(c, B)
  BY DEF evaluateCondition, Reads
<1> QED BY <1>1 DEF evaluateRule

\* and so does a pass.
LEMMA PassesAgree ==
    ASSUME NEW f, IsForm(f), NEW k \in DOMAIN f, NEW V \in Shown(f), NEW U \in Shown(f), NEW vs, NEW us,
           Reads(f, k, Seen(V, vs), Seen(U, us))
    PROVE  Pass(f, V, vs)[k] = Pass(f, U, us)[k]
<1>1. DOMAIN Seen(V, vs) = DOMAIN f /\ DOMAIN Seen(U, us) = DOMAIN f BY DEF Seen, Shown
<1>2. evaluateRule(f[k].rule, Seen(V, vs)) = evaluateRule(f[k].rule, Seen(U, us)) BY <1>1, RulesAgree
<1>3. /\ Pass(f, V, vs)[k] = (f[k].enabled /\ evaluateRule(f[k].rule, Seen(V, vs)))
      /\ Pass(f, U, us)[k] = (f[k].enabled /\ evaluateRule(f[k].rule, Seen(U, us)))
  BY DEF Pass
<1> QED BY <1>2, <1>3

\* The passes of resolveVisibility, one by one.
LEMMA PassesRun ==
    ASSUME NEW f, IsForm(f), NEW vs
    PROVE  \E g : /\ \A i \in 0..Passes(f) : g[i] \in Shown(f)
                  /\ \A i \in 1..Passes(f) : g[i] = Pass(f, g[i - 1], vs)
                  /\ resolveVisibility(f, vs) = g[Passes(f)]
<1> DEFINE N == Passes(f)
           a == [k \in DOMAIN f |-> f[k].enabled]
           after[n \in 0..N] == IF n = 0 THEN a ELSE Pass(f, after[n - 1], vs)
           F == [d \in Shown(f) |-> [i \in 1..N |-> Pass(f, d, vs)]]
           Unfolds(h) == h = [n \in 0..N |-> IF n = 0 THEN a ELSE Pass(f, h[n - 1], vs)]
<1>1. N \in Nat BY DEF IsForm, Passes
<1>2. a \in Shown(f) BY DEF IsForm, Shown
<1>3. \A d \in Shown(f), i \in 1..N : F[d][i] = Pass(f, d, vs) OBVIOUS
<1>4. F \in [Shown(f) -> [1..N -> Shown(f)]] BY PassIsShown
<1>5. after = CHOOSE h : Unfolds(h) OBVIOUS
<1>6. resolveVisibility(f, vs) = after[N] BY DEF resolveVisibility
<1> HIDE DEF F, a, N, after
<1>7. PICK g \in [0..N -> Shown(f)] : IsRun(N, a, F, g) BY <1>1, <1>2, <1>4, LoopRuns
<1>8. \A i \in 1..N : g[i] = Pass(f, g[i - 1], vs)
  <2>1. \A i \in 1..N : i - 1 \in 0..N BY <1>1
  <2> QED BY <1>3, <1>7, <2>1 DEF IsRun
<1>9. Unfolds(g)
  <2>1. \A i \in 0..N : i # 0 => i \in 1..N BY <1>1
  <2> QED BY <1>7, <1>8, <2>1 DEF IsRun
<1>10. Unfolds(after) BY <1>5, <1>9
<1>11. 0 \in 0..N /\ \A i \in 1..N : i \in 0..N /\ i # 0 /\ i - 1 \in 0..N BY <1>1
<1>12. after[0] = a /\ \A i \in 1..N : after[i] = Pass(f, after[i - 1], vs) BY <1>10, <1>11
<1>13. \A i \in 0..N : after[i] \in Shown(f)
  <2>1. \A i \in 0..N : i = 0 \/ i \in 1..N BY <1>1
  <2> QED BY <1>2, <1>12, <2>1, PassIsShown
<1> QED BY <1>6, <1>12, <1>13 DEF N

\* For rules that do not go round in a circle the passes end with one that changes
\* nothing: as many passes as there are fields decide all of them
\* (validation/conditions.ts, resolveVisibility).
THEOREM PassesSettle ==
    ASSUME NEW f, IsForm(f), NEW vs
    PROVE  /\ resolveVisibility(f, vs) \in Shown(f)
           /\ Pass(f, resolveVisibility(f, vs), vs) = resolveVisibility(f, vs)
<1> DEFINE N == Len(f)
<1>1. PICK g : /\ \A i \in 0..(N + 1) : g[i] \in Shown(f)
               /\ \A i \in 1..(N + 1) : g[i] = Pass(f, g[i - 1], vs)
               /\ resolveVisibility(f, vs) = g[N + 1]
  BY PassesRun DEF Passes
<1>2. N \in Nat BY DEF IsForm
<1>3. PICK rank \in [DOMAIN f -> 0..(N - 1)] :
          \A k \in DOMAIN f : \A c \in f[k].rule.conditions :
              c.field \in DOMAIN f => rank[c.field] < rank[k]
  BY DEF IsForm, RulesEnd
<1> HIDE DEF N
<1> DEFINE Same(n) == \A k \in DOMAIN f : rank[k] < n => g[n][k] = g[n + 1][k]
           B == {n \in Nat : n <= N => Same(n)}
<1>4. 0 \in B
  <2>1. \A k \in DOMAIN f : rank[k] \in Nat /\ ~(rank[k] < 0) BY <1>2, <1>3
  <2> QED BY <2>1
<1>5. ASSUME NEW n \in Nat, n \in B PROVE n + 1 \in B
  <2> SUFFICES ASSUME n + 1 <= N, NEW k \in DOMAIN f, rank[k] < n + 1
               PROVE  g[n + 1][k] = g[(n + 1) + 1][k]
    OBVIOUS
  <2>1. /\ n <= N /\ n + 1 \in 1..(N + 1) /\ (n + 1) - 1 = n /\ n \in 0..(N + 1) /\ n + 1 \in 0..(N + 1)
        /\ (n + 1) + 1 \in 1..(N + 1) /\ ((n + 1) + 1) - 1 = n + 1
    BY <1>2
  <2>2. Same(n) BY <1>5, <2>1
  <2>3. g[n + 1] = Pass(f, g[n], vs) /\ g[(n + 1) + 1] = Pass(f, g[n + 1], vs) BY <1>1, <2>1
  <2>4. g[n] \in Shown(f) /\ g[n + 1] \in Shown(f) BY <1>1, <2>1
  <2>5. \A j \in DOMAIN f : rank[j] < rank[k] => g[n][j] = g[n + 1][j]
    <3>1. \A j \in DOMAIN f : rank[j] \in Int BY <1>2, <1>3
    <3>2. \A j \in DOMAIN f : rank[j] < rank[k] => rank[j] < n BY <3>1
    <3> QED BY <2>2, <3>2
  <2>6. \A j \in DOMAIN f : rank[j] < rank[k] => Seen(g[n], vs)[j] = Seen(g[n + 1], vs)[j]
    BY <2>4, <2>5 DEF Seen, Shown
  <2>7. Reads(f, k, Seen(g[n], vs), Seen(g[n + 1], vs)) BY <1>3, <2>6 DEF Reads
  <2>8. Pass(f, g[n], vs)[k] = Pass(f, g[n + 1], vs)[k] BY <2>4, <2>7, PassesAgree
  <2> QED BY <2>3, <2>8
<1> HIDE DEF B
<1>6. N \in B BY <1>2, <1>4, <1>5, NaturalsBySuccessor
<1>7. Same(N) BY <1>2, <1>6 DEF B
<1>8. \A k \in DOMAIN f : g[N][k] = g[N + 1][k]
  <2>1. \A k \in DOMAIN f : rank[k] < N BY <1>2, <1>3
  <2> QED BY <1>7, <2>1
<1>9. N \in 0..(N + 1) /\ N + 1 \in 0..(N + 1) /\ N + 1 \in 1..(N + 1) /\ (N + 1) - 1 = N BY <1>2
<1>10. g[N] \in Shown(f) /\ g[N + 1] \in Shown(f) BY <1>1, <1>9
<1>11. g[N] = g[N + 1] BY <1>8, <1>10 DEF Shown
<1>12. g[N + 1] = Pass(f, g[N], vs) BY <1>1, <1>9
<1> QED BY <1>1, <1>10, <1>11, <1>12

\* Two ways to show a form, each of which a pass leaves alone, are one if the rules
\* read alike what each shows.
LEMMA OneWayToShow ==
    ASSUME NEW f, IsForm(f), NEW vs, NEW us, NEW V \in Shown(f), NEW U \in Shown(f),
           V = Pass(f, V, vs), U = Pass(f, U, us),
           \A k \in DOMAIN f : \A c \in f[k].rule.conditions :
               c.field \in DOMAIN f /\ V[c.field] => Meets(c, vs[c.field]) = Meets(c, us[c.field])
    PROVE  V = U
<1> SUFFICES ASSUME V # U PROVE FALSE OBVIOUS
<1>1. PICK rank \in [DOMAIN f -> 0..(Len(f) - 1)] :
          \A k \in DOMAIN f : \A c \in f[k].rule.conditions :
              c.field \in DOMAIN f => rank[c.field] < rank[k]
  BY DEF IsForm, RulesEnd
<1>2. \A k \in DOMAIN f : rank[k] \in Nat BY <1>1 DEF IsForm
<1> DEFINE Apart == {k \in DOMAIN f : V[k] # U[k]}
           B == {rank[k] : k \in Apart}
<1>3. Apart # {} BY DEF Shown
<1>4. B \in SUBSET Nat /\ B # {} BY <1>2, <1>3
<1>5. PICK m \in B : \A n \in B : m <= n
  <2> HIDE DEF B
  <2> QED BY <1>4, LeastNatural
<1>6. PICK k \in Apart : rank[k] = m BY <1>5
<1>7. \A j \in DOMAIN f : rank[j] < rank[k] => V[j] = U[j]
  <2> SUFFICES ASSUME NEW j \in Apart, rank[j] < rank[k] PROVE FALSE OBVIOUS
  <2>1. rank[j] \in B OBVIOUS
  <2>2. m <= rank[j] BY <1>5, <2>1
  <2>3. rank[j] \in Nat /\ rank[k] \in Nat BY <1>2
  <2> HIDE DEF B, Apart
  <2> QED BY <1>6, <2>2, <2>3
<1>8. ASSUME NEW c \in f[k].rule.conditions, c.field \in DOMAIN f
      PROVE  Meets(c, Seen(V, vs)[c.field]) = Meets(c, Seen(U, us)[c.field])
  <2>1. V[c.field] = U[c.field] BY <1>1, <1>7, <1>8
  <2>2. /\ Seen(V, vs)[c.field] = IF V[c.field] THEN vs[c.field] ELSE Nothing
        /\ Seen(U, us)[c.field] = IF U[c.field] THEN us[c.field] ELSE Nothing
    BY <1>8 DEF Seen, Shown
  <2>3. CASE V[c.field] BY <1>8, <2>1, <2>2, <2>3
  <2>4. CASE ~V[c.field] BY <2>1, <2>2, <2>4
  <2> QED BY <2>3, <2>4
<1>9. Reads(f, k, Seen(V, vs), Seen(U, us)) BY <1>8 DEF Reads
<1>10. Pass(f, V, vs)[k] = Pass(f, U, us)[k] BY <1>9, PassesAgree
<1> QED BY <1>10

-----------------------------------------------------------------------------
(* What is sent. *)

\* What is trimmed is trimmed no further.
LEMMA TrimTwice == \A t : trim(trim(t)) = trim(t) BY DEF trim

\* A value of a kind has that kind and its text.
LEMMA KindsOfValues ==
    \A t : /\ Text(t).kind = "text" /\ Text(t).txt = t
           /\ Entry(t).kind = "list" /\ Entry(t).txt = t
           /\ Nothing.kind = "nothing" /\ \A b : Flag(b).kind = "flag"
  BY DEF Text, Entry, Nothing, Flag, Value

\* A field holds nothing, text, or what its control gives.
LEMMA WhatIsHeld ==
    ASSUME NEW f, EntriesFit(f), NEW v \in MayHold(f)
    PROVE  \/ v = Nothing
           \/ v = Text(v.txt)
           \/ f.type \in {"CHECKBOX", "CONSENT"} /\ v \in {Flag(TRUE), Flag(FALSE)}
           \/ f.type = "MULTISELECT" /\ v = Entry(v.txt)
<1>1. v \in Entries[f.type] \/ v = f.default BY DEF MayHold
<1> QED BY <1>1 DEF EntriesFit

\* What is coerced is coerced no further.
LEMMA CoercedTwice ==
    ASSUME NEW f, EntriesFit(f), NEW v \in MayHold(f)
    PROVE  coerceValue(f, coerceValue(f, v)) = coerceValue(f, v)
<1> DEFINE w == coerceValue(f, v)
<1>1. CASE f.type = "MULTISELECT"
  <2>1. w = IF v.kind = "list" THEN v ELSE IF isEmpty(v) THEN Entry("") ELSE Entry(v.txt)
    BY <1>1 DEF coerceValue
  <2>2. w.kind = "list"
    <3> HIDE DEF w
    <3>1. w.kind \in {Entry("").kind, Entry(v.txt).kind} \/ w.kind = "list" BY <2>1
    <3> QED BY <3>1, KindsOfValues
  <2>3. \A x : x.kind = "list" => coerceValue(f, x) = x BY <1>1 DEF coerceValue
  <2> QED BY <2>2, <2>3
<1>2. CASE f.type \in {"CHECKBOX", "CONSENT"}
  <2>1. w = IF v.kind = "flag" THEN v ELSE Flag(~isEmpty(v) /\ v.txt \in {"true", "on", "1", "yes"})
    BY <1>2 DEF coerceValue
  <2>2. w.kind = "flag" BY <2>1 DEF Flag, Value
  <2>3. \A x : x.kind = "flag" => coerceValue(f, x) = x BY <1>2 DEF coerceValue
  <2> QED BY <2>2, <2>3
<1>3. CASE f.type \in {"NUMBER", "QUANTITY"}
  <2>1. \A x : coerceValue(f, x) = IF isEmpty(x) THEN Nothing
                                   ELSE IF isNumeric(x) THEN Value("number", trim(x.txt)) ELSE NotANumber
    BY <1>3 DEF coerceValue
  <2>2. v = Nothing \/ v = Text(v.txt)
    <3>1. f.type \notin {"CHECKBOX", "CONSENT", "MULTISELECT"} BY <1>3
    <3> QED BY <3>1, WhatIsHeld
  <2>3. CASE isEmpty(v)
    <3>1. isEmpty(Nothing) BY DEF isEmpty, Nothing, Value
    <3> QED BY <2>1, <2>3, <3>1
  <2>4. CASE ~isEmpty(v) /\ isNumeric(v)
    <3> DEFINE t == trim(v.txt)
    <3>1. v.kind # "flag"
      <4>1. v.kind \in {Nothing.kind, Text(v.txt).kind} BY <2>2
      <4> QED BY <4>1, KindsOfValues
    <3>2. t \in DOMAIN numerals BY <2>4, <3>1 DEF isNumeric
    <3>3. trim(t) = t BY TrimTwice
    <3> HIDE DEF t
    <3>4. ~isEmpty(Value("number", t)) BY DEF isEmpty, Value
    <3>5. isNumeric(Value("number", t)) BY <3>2, <3>3, <3>4 DEF isNumeric, Value
    <3>6. Value("number", t).txt = t BY DEF Value
    <3>7. coerceValue(f, v) = Value("number", t) BY <2>1, <2>4 DEF t
    <3>8. coerceValue(f, Value("number", t)) = Value("number", t) BY <2>1, <3>3, <3>4, <3>5, <3>6
    <3> QED BY <3>7, <3>8
  <2>5. CASE ~isEmpty(v) /\ ~isNumeric(v)
    <3>1. ~isEmpty(NotANumber) BY DEF isEmpty, NotANumber, Value
    <3>2. trim("NaN") = "NaN" BY DEF trim
    <3>3. ~isNumeric(NotANumber) BY <3>2 DEF isNumeric, NotANumber, Value, numerals
    <3> QED BY <2>1, <2>5, <3>1, <3>3
  <2> QED BY <2>3, <2>4, <2>5
<1>4. CASE f.type \notin {"MULTISELECT", "CHECKBOX", "CONSENT", "NUMBER", "QUANTITY"}
  <2>1. \A x : coerceValue(f, x) = IF isEmpty(x) THEN Nothing
                                   ELSE IF x.kind = "text" THEN Text(trim(x.txt)) ELSE x
    BY <1>4 DEF coerceValue
  <2>2. CASE isEmpty(v)
    <3>1. isEmpty(Nothing) BY DEF isEmpty, Nothing, Value
    <3> QED BY <2>1, <2>2, <3>1
  <2>3. CASE ~isEmpty(v) /\ v.kind = "text"
    <3> DEFINE t == trim(v.txt)
    <3>1. trim(t) = t BY TrimTwice
    <3>2. t # "" BY <2>3 DEF isEmpty
    <3> HIDE DEF t
    <3>3. ~isEmpty(Text(t)) BY <3>1, <3>2 DEF isEmpty, Text, Value
    <3>4. Text(t).kind = "text" /\ Text(t).txt = t BY DEF Text, Value
    <3>5. coerceValue(f, v) = Text(t) BY <2>1, <2>3 DEF t
    <3>6. coerceValue(f, Text(t)) = Text(t) BY <2>1, <3>1, <3>3, <3>4
    <3> QED BY <3>5, <3>6
  <2>4. CASE ~isEmpty(v) /\ v.kind # "text" BY <2>1, <2>4
  <2> QED BY <2>2, <2>3, <2>4
<1> QED BY <1>1, <1>2, <1>3, <1>4

\* So a value is let through coerced if it is as it was entered.
LEMMA CoercedIsAsGood ==
    ASSUME NEW f, EntriesFit(f), NEW v \in MayHold(f)
    PROVE  validateField(f, coerceValue(f, v)) = validateField(f, v)
  BY CoercedTwice DEF validateField

\* The server shows of the form what the browser showed, and refuses what it refused
\* (validation/form.ts, which both run, the server on what was coerced).
THEOREM ServerSeesTheSame ==
    ASSUME NEW f, IsForm(f), NEW vs, \A k \in DOMAIN f : vs[k] \in MayHold(f[k])
    PROVE  /\ resolveVisibility(f, visibleValues(f, vs)) = resolveVisibility(f, vs)
           /\ validateForm(f, visibleValues(f, vs)) = validateForm(f, vs)
<1> DEFINE V == resolveVisibility(f, vs)
           us == visibleValues(f, vs)
           U == resolveVisibility(f, us)
<1>1. \A k \in DOMAIN f : V[k] => us[k] = coerceValue(f[k], vs[k]) BY DEF visibleValues
<1>2. V \in Shown(f) /\ U \in Shown(f) /\ V = Pass(f, V, vs) /\ U = Pass(f, U, us) BY PassesSettle
<1> HIDE DEF us, V, U
<1>3. \A k \in DOMAIN f : \A c \in f[k].rule.conditions :
          c.field \in DOMAIN f /\ V[c.field] => Meets(c, vs[c.field]) = Meets(c, us[c.field])
  BY <1>1 DEF IsForm, ReadAlike
<1>4. V = U BY <1>2, <1>3, OneWayToShow
<1>5. \A k \in DOMAIN f : V[k] => validateField(f[k], us[k]) = validateField(f[k], vs[k])
  <2>1. \A k \in DOMAIN f : EntriesFit(f[k]) BY DEF IsForm
  <2> QED BY <1>1, <2>1, CoercedIsAsGood
<1>6. validateForm(f, us) = {k \in DOMAIN f : U[k] /\ validateField(f[k], us[k]) # "fine"}
  BY DEF validateForm, U
<1>7. validateForm(f, vs) = {k \in DOMAIN f : V[k] /\ validateField(f[k], vs[k]) # "fine"}
  BY DEF validateForm, V
<1>8. validateForm(f, us) = validateForm(f, vs) BY <1>4, <1>5, <1>6, <1>7
<1> QED BY <1>4, <1>8 DEF us, V, U

\* What is refused is on screen, if what nobody enters is left as it starts.
LEMMA RefusedIsShown ==
    ASSUME NEW f, IsForm(f), NEW vs,
           \A k \in DOMAIN f : f[k].hidden \/ f[k].type = "HIDDEN" => vs[k] = f[k].default
    PROVE  validateForm(f, vs) \subseteq OnScreen(f, vs)
<1> DEFINE V == resolveVisibility(f, vs)
<1> SUFFICES ASSUME NEW k \in DOMAIN f, V[k], validateField(f[k], vs[k]) # "fine"
             PROVE  k \in OnScreen(f, vs)
  BY DEF validateForm
<1>1. V = Pass(f, V, vs) BY PassesSettle
<1>2. Pass(f, V, vs)[k] = (f[k].enabled /\ evaluateRule(f[k].rule, Seen(V, vs))) BY DEF Pass
<1>3. f[k].enabled BY <1>1, <1>2
<1>4. ~f[k].hidden /\ f[k].type # "HIDDEN" BY DEF IsForm, AsidesAreRight
<1> QED BY <1>3, <1>4 DEF OnScreen

-----------------------------------------------------------------------------
(* What it costs. *)

\* The coins of the currencies with no, two and three digits, in millionths.
LEMMA Units ==
    /\ Digits = {0, 2, 3}
    /\ unitOf[0] = 1000000 /\ unitOf[2] = 10000 /\ unitOf[3] = 1000
  BY DEF unitOf, Digits

\* Every currency has one of those.
LEMMA PrecisionIsDigits == \A c \in DOMAIN currencyPrecision : currencyPrecision[c] \in Digits
  BY DEF currencyPrecision, Digits

\* What is whole is left as it is, and what is not is moved by half a coin at most.
LEMMA RoundOfWhole ==
    ASSUME NEW p \in Digits, NEW a, Whole(a, unitOf[p])
    PROVE  round(a, p) = a
<1>0. a \in Nat BY DEF Whole
<1>1. CASE p = 0
  <2>1. a % 1000000 = 0 BY <1>1, Units DEF Whole
  <2>2. round(a, p) = ((a + 1000000 \div 2) \div 1000000) * 1000000 BY <1>1, Units DEF round
  <2> QED BY <1>0, <2>1, <2>2
<1>2. CASE p = 2
  <2>1. a % 10000 = 0 BY <1>2, Units DEF Whole
  <2>2. round(a, p) = ((a + 10000 \div 2) \div 10000) * 10000 BY <1>2, Units DEF round
  <2> QED BY <1>0, <2>1, <2>2
<1>3. CASE p = 3
  <2>1. a % 1000 = 0 BY <1>3, Units DEF Whole
  <2>2. round(a, p) = ((a + 1000 \div 2) \div 1000) * 1000 BY <1>3, Units DEF round
  <2> QED BY <1>0, <2>1, <2>2
<1> QED BY <1>1, <1>2, <1>3, Units

\* What is rounded is whole, and at most half a coin off.
LEMMA RoundIsNear ==
    ASSUME NEW p \in Digits, NEW a \in Nat
    PROVE  /\ Whole(round(a, p), unitOf[p])
           /\ 2 * (round(a, p) - a) <= unitOf[p] /\ 2 * (a - round(a, p)) <= unitOf[p]
<1>1. CASE p = 0
  <2> DEFINE r == ((a + 1000000 \div 2) \div 1000000) * 1000000
  <2>1. round(a, p) = r /\ unitOf[p] = 1000000 BY <1>1, Units DEF round
  <2>2. r \in Nat /\ r % 1000000 = 0 /\ 2 * (r - a) <= 1000000 /\ 2 * (a - r) <= 1000000 OBVIOUS
  <2> QED BY <2>1, <2>2 DEF Whole
<1>2. CASE p = 2
  <2> DEFINE r == ((a + 10000 \div 2) \div 10000) * 10000
  <2>1. round(a, p) = r /\ unitOf[p] = 10000 BY <1>2, Units DEF round
  <2>2. r \in Nat /\ r % 10000 = 0 /\ 2 * (r - a) <= 10000 /\ 2 * (a - r) <= 10000 OBVIOUS
  <2> QED BY <2>1, <2>2 DEF Whole
<1>3. CASE p = 3
  <2> DEFINE r == ((a + 1000 \div 2) \div 1000) * 1000
  <2>1. round(a, p) = r /\ unitOf[p] = 1000 BY <1>3, Units DEF round
  <2>2. r \in Nat /\ r % 1000 = 0 /\ 2 * (r - a) <= 1000 /\ 2 * (a - r) <= 1000 OBVIOUS
  <2> QED BY <2>1, <2>2 DEF Whole
<1> QED BY <1>1, <1>2, <1>3, Units

\* Whole amounts add up to whole ones, and a whole price times a quantity is whole.
LEMMA WholeAmounts ==
    ASSUME NEW p \in Digits
    PROVE  /\ Whole(0, unitOf[p])
           /\ \A a, b : Whole(a, unitOf[p]) /\ Whole(b, unitOf[p]) => Whole(a + b, unitOf[p])
           /\ \A a, q : Whole(a, unitOf[p]) /\ q \in Nat => Whole(a * q, unitOf[p])
<1> DEFINE c == unitOf[p]
<1>1. c \in {1000000, 10000, 1000} BY Units
<1> HIDE DEF c
<1>2. Whole(0, c) BY <1>1 DEF Whole
<1>3. ASSUME NEW a, NEW b, Whole(a, c), Whole(b, c) PROVE Whole(a + b, c)
  <2>1. a \in Nat /\ b \in Nat /\ a % c = 0 /\ b % c = 0 BY <1>3 DEF Whole
  <2>2. (a + b) % c = 0 BY <1>1, <2>1
  <2> QED BY <2>1, <2>2 DEF Whole
<1>4. ASSUME NEW a, NEW q, Whole(a, c), q \in Nat PROVE Whole(a * q, c)
  <2>1. a \in Nat /\ a % c = 0 BY <1>4 DEF Whole
  <2> DEFINE m == a \div c
  <2>2. m \in Nat /\ a = c * m BY <1>1, <2>1
  <2> HIDE DEF m
  <2>3. m * q \in Nat BY <1>4, <2>2
  <2>4. a * q = c * (m * q)
    <3>1. \A x, y, z \in Nat : (x * y) * z = x * (y * z) OBVIOUS
    <3>2. c \in Nat BY <1>1
    <3> QED BY <1>4, <2>2, <3>1, <3>2
  <2>5. \A n \in Nat : (c * n) % c = 0 BY <1>1
  <2>6. a * q \in Nat BY <1>4, <2>1
  <2> QED BY <2>3, <2>4, <2>5, <2>6 DEF Whole
<1> QED BY <1>2, <1>3, <1>4 DEF c

\* So is a sum of whole amounts.
LEMMA WholeSum ==
    ASSUME NEW p \in Digits, NEW f, NEW S, IsFiniteSet(S), \A x \in S : Whole(f[x], unitOf[p])
    PROVE  Whole(SumFunctionOnSet(f, S), unitOf[p])
<1> DEFINE D == {n \in Nat : Whole(n, unitOf[p])}
<1>1. 0 \in D /\ \A a, b \in D : a + b \in D BY WholeAmounts
<1>2. \A x \in S : f[x] \in D BY DEF Whole
<1> HIDE DEF D
<1>3. SumFunctionOnSet(f, S) \in D BY <1>1, <1>2, SumIsOneOf
<1> QED BY <1>3 DEF D

-----------------------------------------------------------------------------
(* The order of an offer o, of q pieces with the add-ons ticked, under the terms t. *)

\* The digits of an offer's currency, and its smallest coin.
Precision(o) == currencyPrecision[o.currency]
Coin(o) == unitOf[Precision(o)]

\* The add-ons ticked that the terms t still charge for, and their prices.
Charged(t, ticked) == {b \in ticked : t.bumps[b] > 0}
Price(t, b) == <<b, t.bumps[b]>>
Prices(t, ticked) == [b \in ticked |-> Price(t, b)]
SecondOf(P) == [b \in P |-> b[2]]

\* What an order keeps of its add-ons is their names with their prices.
LEMMA BumpsAreImages ==
    ASSUME NEW t, NEW ticked
    PROVE  resolveSelected(t, ticked) = Images(Prices(t, ticked), Charged(t, ticked))
  BY DEF resolveSelected, Images, Prices, Price, Charged

\* What the add-ons come to is whole, whoever adds it up.
LEMMA BumpsAddUp ==
    ASSUME NEW p \in Digits, NEW t, IsTerms(t, unitOf[p]), NEW ticked \in SUBSET DOMAIN t.bumps
    PROVE  /\ IsFiniteSet(resolveSelected(t, ticked))
           /\ SumFunction(SecondOf(resolveSelected(t, ticked))) = Sum(t.bumps, Charged(t, ticked))
           /\ Whole(Sum(t.bumps, Charged(t, ticked)), unitOf[p])
<1> DEFINE S == Charged(t, ticked)
           h == Prices(t, ticked)
           e == t.bumps
           R == resolveSelected(t, ticked)
           f == SecondOf(R)
<1>1. S \in SUBSET DOMAIN t.bumps /\ IsFiniteSet(S)
  <2>1. S \in SUBSET DOMAIN t.bumps BY DEF Charged
  <2>2. IsFiniteSet(DOMAIN t.bumps) BY DEF IsTerms
  <2> QED BY <2>1, <2>2, FS_Subset
<1>2. \A b \in S : Whole(e[b], unitOf[p]) /\ e[b] \in Int
  <2>1. \A b \in DOMAIN t.bumps : Whole(t.bumps[b], unitOf[p]) BY DEF IsTerms
  <2>2. \A n : Whole(n, unitOf[p]) => n \in Int BY DEF Whole
  <2> QED BY <1>1, <2>1, <2>2
<1>3. R = Images(h, S) BY BumpsAreImages
<1>4. \A b \in S : h[b] = <<b, e[b]>> BY DEF Prices, Price, Charged
<1>5. \A b \in S : f[h[b]] = e[b]
  <2>1. \A b \in S : h[b] \in R BY <1>3 DEF Images
  <2> QED BY <1>4, <2>1 DEF SecondOf
<1>6. \A x, y \in S : h[x] = h[y] => x = y BY <1>4
<1>7. SumFunction(f) = SumFunctionOnSet(f, R) BY DEF SumFunction, SecondOf
<1> HIDE DEF S, h, e, R, f
<1>8. IsFiniteSet(R) BY <1>1, <1>3, ImagesAreFinite
<1>9. SumFunctionOnSet(f, R) = SumFunctionOnSet(e, S)
  <2>1. \E T \in SUBSET S : /\ SumFunctionOnSet(f, Images(h, S)) = SumFunctionOnSet(e, T)
                            /\ (\A x, y \in S : h[x] = h[y] => x = y) => T = S
    BY <1>1, <1>2, <1>5, SumOfImages
  <2> QED BY <1>3, <1>6, <2>1
<1>10. Whole(SumFunctionOnSet(e, S), unitOf[p]) BY <1>1, <1>2, WholeSum
<1> QED BY <1>7, <1>8, <1>9, <1>10 DEF Sum, S, e, R, f

\* The parts of the price of q pieces at the whole price n.
LEMMA PartsAreWhole ==
    ASSUME NEW p \in Digits, NEW t, IsTerms(t, unitOf[p]), NEW n, Whole(n, unitOf[p])
    PROVE  /\ Whole(ShippingOf(n, t), unitOf[p])
           /\ CodFeeOf(n, t) \in Nat
<1>1. Whole(t.shippingFee, unitOf[p]) /\ t.codFeeAmount \in Nat BY DEF IsTerms
<1>2. Whole(ShippingOf(n, t), unitOf[p]) BY <1>1, WholeAmounts DEF ShippingOf
<1>3. n \in Nat BY DEF Whole
<1>4. Share(n, t.codFeeAmount) \in Nat
  <2>1. n \div 1000 \in Nat BY <1>3
  <2>2. (n \div 1000) * t.codFeeAmount \in Nat BY <1>1, <2>1
  <2>3. \A x \in Nat : x \div 10 \in Nat OBVIOUS
  <2> QED BY <2>2, <2>3 DEF Share
<1> QED BY <1>1, <1>2, <1>4 DEF CodFeeOf

\* What an order of an offer o costs: its parts, of which only the courier's fee is rounded.
LEMMA OrderCosts ==
    ASSUME NEW o, IsOffer(o), NEW t, IsTerms(t, Coin(o)), NEW q \in Nat,
           NEW ticked \in SUBSET DOMAIN t.bumps
    PROVE  LET order == priceOrder(o.variant, q, t, o.currency, ticked)
               goods == o.variant.price * q
               extras == Sum(t.bumps, Charged(t, ticked))
           IN /\ goods \in Nat /\ extras \in Nat
              /\ ShippingOf(goods, t) \in Nat /\ CodFeeOf(goods, t) \in Nat
              /\ order.shippingFee = ShippingOf(goods, t)
              /\ order.codFee = round(CodFeeOf(goods, t), Precision(o))
              /\ order.bumps = resolveSelected(t, ticked)
              /\ order.total = goods + ShippingOf(goods, t)
                               + round(CodFeeOf(goods, t), Precision(o)) + extras
<1> DEFINE p == Precision(o)
           goods == o.variant.price * q
           ship == ShippingOf(goods, t)
           cod == CodFeeOf(goods, t)
           B == resolveSelected(t, ticked)
           extras == Sum(t.bumps, Charged(t, ticked))
           order == priceOrder(o.variant, q, t, o.currency, ticked)
<1>1. p \in Digits /\ Coin(o) = unitOf[p] BY PrecisionIsDigits DEF Coin, Precision, IsOffer
<1>2. Whole(o.variant.price, unitOf[p]) BY DEF IsOffer, Precision
<1>3. Whole(goods, unitOf[p]) BY <1>1, <1>2, WholeAmounts
<1>4. Subtotal(o.variant, q, o.currency) = goods BY <1>1, <1>3, RoundOfWhole DEF Subtotal, Precision
<1>5. Whole(ship, unitOf[p]) /\ cod \in Nat BY <1>1, <1>3, PartsAreWhole
<1>6. Whole(round(cod, p), unitOf[p]) BY <1>1, <1>5, RoundIsNear
<1>7. Whole(extras, unitOf[p]) /\ SumFunction(SecondOf(B)) = extras BY <1>1, BumpsAddUp
<1>8. order = Priced(goods, ship, cod, B, p) BY <1>4 DEF priceOrder, Precision
<1>9. SumFunction([b \in B |-> b[2]]) = extras BY <1>7 DEF SecondOf
<1> HIDE DEF goods, ship, cod, B, extras, p, order
<1>10. round(ship, p) = ship /\ round(extras, p) = extras BY <1>1, <1>5, <1>7, RoundOfWhole
<1>11. /\ order.shippingFee = ship /\ order.codFee = round(cod, p) /\ order.bumps = B
       /\ order.total = round(goods + ship + round(cod, p) + extras, p)
  BY <1>8, <1>9, <1>10 DEF Priced
<1>12. Whole(goods + ship + round(cod, p) + extras, unitOf[p])
  <2>1. Whole(goods + ship, unitOf[p]) BY <1>1, <1>3, <1>5, WholeAmounts
  <2>2. Whole(goods + ship + round(cod, p), unitOf[p]) BY <1>1, <1>6, <2>1, WholeAmounts
  <2> QED BY <1>1, <1>7, <2>2, WholeAmounts
<1>13. order.total = goods + ship + round(cod, p) + extras BY <1>1, <1>11, <1>12, RoundOfWhole
<1>14. goods \in Nat /\ ship \in Nat /\ extras \in Nat BY <1>3, <1>5, <1>7 DEF Whole
<1> QED BY <1>5, <1>11, <1>13, <1>14 DEF goods, ship, cod, B, extras, p, order

\* The draft in Shopify comes to what the order is for: no line of it is lost, and its
\* roundings are those of the order (orders/pricing.ts, orders/push.ts).
THEOREM DraftComesTo ==
    ASSUME NEW o, IsOffer(o), NEW t, IsTerms(t, Coin(o)), NEW q \in Nat,
           NEW ticked \in SUBSET DOMAIN t.bumps
    PROVE  LET order == priceOrder(o.variant, q, t, o.currency, ticked)
           IN /\ order.total \in Nat
              /\ Collected(toShopifyLineItems(order, o.variant, q)) = order.total
<1> DEFINE order == priceOrder(o.variant, q, t, o.currency, ticked)
           goods == o.variant.price * q
           extras == Sum(t.bumps, Charged(t, ticked))
           B == resolveSelected(t, ticked)
           L == toShopifyLineItems(order, o.variant, q)
           f == SecondOf(L)
           g == <<"goods", goods>>
           d == <<"Delivery", order.shippingFee>>
           c == <<"COD fee", order.codFee>>
<1>1. Precision(o) \in Digits /\ Coin(o) = unitOf[Precision(o)]
  BY PrecisionIsDigits DEF Coin, Precision, IsOffer
<1>2. /\ goods \in Nat /\ extras \in Nat /\ order.shippingFee \in Nat /\ order.codFee \in Nat
      /\ order.bumps = B /\ order.total = goods + order.shippingFee + order.codFee + extras
  <2>1. /\ goods \in Nat /\ extras \in Nat
        /\ ShippingOf(goods, t) \in Nat /\ CodFeeOf(goods, t) \in Nat
        /\ order.shippingFee = ShippingOf(goods, t)
        /\ order.codFee = round(CodFeeOf(goods, t), Precision(o))
        /\ order.bumps = B
        /\ order.total = goods + ShippingOf(goods, t)
                         + round(CodFeeOf(goods, t), Precision(o)) + extras
    BY OrderCosts
  <2>2. \A n \in Nat : round(n, Precision(o)) \in Nat BY <1>1, RoundIsNear DEF Whole
  <2> HIDE DEF order, goods, extras, B
  <2> QED BY <2>1, <2>2
<1>3. IsFiniteSet(B) /\ SumFunction(SecondOf(B)) = extras BY <1>1, BumpsAddUp
<1>4. \A x \in B : x[1] \in DOMAIN t.bumps /\ x[2] \in Int
  <2>1. ASSUME NEW b \in DOMAIN t.bumps PROVE t.bumps[b] \in Int
    <3>1. Whole(t.bumps[b], Coin(o)) BY DEF IsTerms
    <3> QED BY <3>1 DEF Whole
  <2> QED BY <2>1 DEF resolveSelected
<1>5. {"goods", "Delivery", "COD fee"} \cap DOMAIN t.bumps = {} BY DEF IsTerms
<1>6. L = {g, d, c} \cup B BY <1>2 DEF toShopifyLineItems
<1>7. Collected(L) = SumFunctionOnSet(f, L) BY DEF Collected, SumFunction, SecondOf
<1>8. SumFunction(SecondOf(B)) = SumFunctionOnSet(SecondOf(B), B) BY DEF SumFunction, SecondOf
<1>9. g[1] = "goods" /\ d[1] = "Delivery" /\ c[1] = "COD fee"
      /\ g[2] = goods /\ d[2] = order.shippingFee /\ c[2] = order.codFee
  OBVIOUS
<1>10. \A x \in L : f[x] = x[2] BY DEF SecondOf
<1>11. \A x \in B : SecondOf(B)[x] = x[2] BY DEF SecondOf
<1> HIDE DEF order, goods, extras, B, L, f, g, d, c
<1>12. f[g] = goods /\ f[d] = order.shippingFee /\ f[c] = order.codFee BY <1>6, <1>9, <1>10
<1>13. \A x \in B : f[x] = SecondOf(B)[x] /\ f[x] \in Int BY <1>4, <1>6, <1>10, <1>11
<1>14. SumFunctionOnSet(f, B) = extras
  <2>1. SumFunctionOnSet(f, B) = SumFunctionOnSet(SecondOf(B), B) BY <1>3, <1>13, SumAgrees
  <2> QED BY <1>3, <1>8, <2>1
<1>15. c \notin B /\ d \notin B /\ g \notin B BY <1>4, <1>5, <1>9
<1>16. d \notin B \cup {c} /\ g \notin (B \cup {c}) \cup {d}
  <2>1. d # c /\ g # c /\ g # d BY <1>9
  <2> QED BY <1>15, <2>1
<1>17. IsFiniteSet(B \cup {c}) /\ IsFiniteSet((B \cup {c}) \cup {d}) BY <1>3, FS_AddElement
<1>18. SumFunctionOnSet(f, B \cup {c}) = f[c] + extras
  <2>1. f[c] \in Int BY <1>2, <1>12
  <2> QED BY <1>3, <1>13, <1>14, <1>15, <2>1, SumPutsIn
<1>19. SumFunctionOnSet(f, (B \cup {c}) \cup {d}) = f[d] + (f[c] + extras)
  <2>1. \A x \in B \cup {c} : f[x] \in Int BY <1>2, <1>12, <1>13
  <2>2. f[d] \in Int BY <1>2, <1>12
  <2> DEFINE S == B \cup {c}
  <2> HIDE DEF S
  <2>3. IsFiniteSet(S) /\ d \notin S /\ \A x \in S : f[x] \in Int BY <1>16, <1>17, <2>1 DEF S
  <2>4. SumFunctionOnSet(f, S \cup {d}) = f[d] + SumFunctionOnSet(f, S) BY <2>2, <2>3, SumPutsIn
  <2> QED BY <1>18, <2>4 DEF S
<1>20. SumFunctionOnSet(f, ((B \cup {c}) \cup {d}) \cup {g}) = f[g] + (f[d] + (f[c] + extras))
  <2>1. \A x \in (B \cup {c}) \cup {d} : f[x] \in Int BY <1>2, <1>12, <1>13
  <2>2. f[g] \in Int BY <1>2, <1>12
  <2> DEFINE S == (B \cup {c}) \cup {d}
  <2> HIDE DEF S
  <2>3. IsFiniteSet(S) /\ g \notin S /\ \A x \in S : f[x] \in Int BY <1>16, <1>17, <2>1 DEF S
  <2>4. SumFunctionOnSet(f, S \cup {g}) = f[g] + SumFunctionOnSet(f, S) BY <2>2, <2>3, SumPutsIn
  <2> QED BY <1>19, <2>4 DEF S
<1>21. L = ((B \cup {c}) \cup {d}) \cup {g} BY <1>6
<1>22. Collected(L) = order.total BY <1>2, <1>7, <1>12, <1>20, <1>21
<1>23. order.total \in Nat BY <1>2
<1> QED BY <1>22, <1>23 DEF order, L

\* The summary the shopper sees is of the same parts, the fee not rounded.
LEMMA SummaryComesTo ==
    ASSUME NEW o, IsOffer(o), NEW q \in Nat, NEW ticked \in SUBSET DOMAIN o.terms.bumps,
           \A b \in ticked : o.terms.bumps[b] > 0
    PROVE  LET order == priceOrder(o.variant, q, o.terms, o.currency, ticked)
               summary == buildSummary(o.variant.displayed, q, o.terms, ticked)
           IN /\ summary \in Nat
              /\ 2 * (order.total - summary) <= Coin(o) /\ 2 * (summary - order.total) <= Coin(o)
<1> DEFINE t == o.terms
           p == Precision(o)
           order == priceOrder(o.variant, q, t, o.currency, ticked)
           summary == buildSummary(o.variant.displayed, q, t, ticked)
           goods == o.variant.price * q
           ship == ShippingOf(goods, t)
           cod == CodFeeOf(goods, t)
           extras == Sum(t.bumps, Charged(t, ticked))
<1>1. p \in Digits /\ Coin(o) = unitOf[p] /\ IsTerms(t, Coin(o))
  BY PrecisionIsDigits DEF Coin, Precision, IsOffer
<1>2. /\ goods \in Nat /\ extras \in Nat /\ ship \in Nat /\ cod \in Nat
      /\ order.total = goods + ship + round(cod, p) + extras
  BY <1>1, OrderCosts
<1>3. summary = goods + ship + cod + extras
  <2>1. Charged(t, ticked) = ticked BY DEF Charged
  <2>2. o.variant.displayed = o.variant.price BY DEF IsOffer
  <2> QED BY <2>1, <2>2 DEF buildSummary
<1>4. /\ round(cod, p) \in Nat
      /\ 2 * (round(cod, p) - cod) <= unitOf[p] /\ 2 * (cod - round(cod, p)) <= unitOf[p]
  BY <1>1, <1>2, RoundIsNear DEF Whole
<1>5. unitOf[p] \in Nat BY <1>1, Units
<1> HIDE DEF t, p, order, summary, goods, ship, cod, extras
<1>6. summary \in Nat BY <1>2, <1>3
<1>7. 2 * (order.total - summary) <= unitOf[p] /\ 2 * (summary - order.total) <= unitOf[p]
  BY <1>2, <1>3, <1>4, <1>5
<1> QED BY <1>1, <1>6, <1>7 DEF t, order, summary

\* How far what is written may be from what is charged.
CoarserOf(o) ==
    IF o.moneyFormat = "amount_no_decimals" THEN unitOf[0]
    ELSE unitOf[IF currencyPrecision[o.currency] = 0 THEN 0 ELSE 2]

\* What the shopper reads, written out, is what is charged but for less than that.
LEMMA ShownIsCharged ==
    ASSUME NEW o, IsOffer(o), NEW q \in Nat, NEW ticked \in SUBSET DOMAIN o.terms.bumps,
           \A b \in ticked : o.terms.bumps[b] > 0
    PROVE  formatMoney(buildSummary(o.variant.displayed, q, o.terms, ticked), o.moneyFormat)
               - priceOrder(o.variant, q, o.terms, o.currency, ticked).total
             \in (0 - CoarserOf(o))..CoarserOf(o)
<1> DEFINE p == Precision(o)
           w == IF o.moneyFormat = "amount_no_decimals" THEN 0 ELSE 2
           cost == priceOrder(o.variant, q, o.terms, o.currency, ticked).total
           summary == buildSummary(o.variant.displayed, q, o.terms, ticked)
           display == formatMoney(summary, o.moneyFormat)
<1>1. p \in Digits /\ Coin(o) = unitOf[p] /\ IsTerms(o.terms, Coin(o))
  BY PrecisionIsDigits DEF Coin, Precision, IsOffer
<1>2. summary \in Nat /\ 2 * (cost - summary) <= unitOf[p] /\ 2 * (summary - cost) <= unitOf[p]
  BY <1>1, SummaryComesTo
<1>3. cost \in Nat BY <1>1, DraftComesTo
<1>4. w \in Digits BY Units
<1>5. display = round(summary, w) BY DEF formatMoney
<1>6. CoarserOf(o) = IF w = 0 THEN unitOf[0] ELSE unitOf[IF p = 0 THEN 0 ELSE 2]
  BY DEF CoarserOf, Precision
<1>7. w = 0 \/ w = 2 OBVIOUS
<1> HIDE DEF p, w, cost, summary, display
<1>8. display \in Nat /\ 2 * (display - summary) <= unitOf[w] /\ 2 * (summary - display) <= unitOf[w]
  BY <1>2, <1>4, <1>5, RoundIsNear DEF Whole
<1>9. unitOf[p] \in Nat /\ unitOf[w] \in Nat /\ CoarserOf(o) \in Nat
      /\ unitOf[p] + unitOf[w] <= 2 * CoarserOf(o)
  BY <1>1, <1>6, <1>7, Units
<1>10. display - cost <= CoarserOf(o) /\ cost - display <= CoarserOf(o) /\ display - cost \in Int
  BY <1>2, <1>3, <1>8, <1>9
<1>11. display - cost \in (0 - CoarserOf(o))..CoarserOf(o) BY <1>9, <1>10, <1>3, <1>8
<1> QED BY <1>11 DEF display, cost, summary

-----------------------------------------------------------------------------
(* The dialog. What it keeps is what was entered or what it started from,  *)
(* what it shows is what it keeps, and its sum is of its cart.             *)

\* The dialog is of a shop's form and offer; the terms are the offer's, or what came of them.
Offered ==
    /\ form \in Forms /\ page \in Offers
    /\ \E o \in Offers : o.currency = page.currency /\ terms = o.terms

\* A field that nobody enters anything in keeps what it starts from.
Aside(f) == f.hidden \/ f.type = "HIDDEN"
Kept(fs, vs) ==
    /\ DOMAIN vs = DOMAIN fs
    /\ \A k \in DOMAIN fs : vs[k] \in MayHold(fs[k]) /\ (Aside(fs[k]) => vs[k] = fs[k].default)

\* A control shows the value, or what it makes of the default it started from.
Displays(fs, vs, cs) ==
    /\ DOMAIN cs = DOMAIN fs
    /\ \A k \in DOMAIN fs : \/ cs[k] = vs[k]
                            \/ vs[k] = fs[k].default /\ cs[k] = buildControl(fs[k], fs[k].default)

\* Only an add-on the page charges for can be ticked.
IsCart(c) ==
    /\ c.quantity \in Nat
    /\ c.ticked \subseteq DOMAIN page.terms.bumps /\ \A b \in c.ticked : page.terms.bumps[b] > 0

\* The inductive invariant. FormIsHonest is not inductive: that a message is seen and an order
\* is what was shown rests on what the controls, the values and the sum have to do with each other.
FormInv ==
    /\ Offered
    /\ Kept(form, values)
    /\ Displays(form, values, control)
    /\ shown = OnScreen(form, values)
    /\ IsCart(cart) /\ DOMAIN cart = {"quantity", "ticked"}
    /\ total = refreshSummary(cart)
    /\ DOMAIN live = {"fields", "active"}
    /\ MessagesAreSeen /\ ServerAgrees /\ StoredAsShown /\ ChargedAsShown /\ DraftIsTheOrder

\* The forms and offers of a dialog are of those that are sound.
LEMMA WhatIsOffered ==
    ASSUME FormsAreSound, Offered
    PROVE  /\ IsForm(form) /\ IsOffer(page) /\ IsTerms(terms, Coin(page))
           /\ DOMAIN terms.bumps = DOMAIN page.terms.bumps
<1>1. PICK o \in Offers : o.currency = page.currency /\ terms = o.terms BY DEF Offered
<1>2. IsForm(form) /\ IsOffer(page) /\ IsOffer(o) /\ DOMAIN o.terms.bumps = DOMAIN page.terms.bumps
  BY <1>1 DEF FormsAreSound, Offered
<1>3. Coin(page) = unitOf[currencyPrecision[page.currency]] BY DEF Coin, Precision
<1> QED BY <1>1, <1>2, <1>3 DEF IsOffer

\* A dialog that opens is in order.
LEMMA FormStarts == FormsAreSound /\ FormInit => FormInv
<1> SUFFICES ASSUME FormsAreSound, FormInit PROVE FormInv OBVIOUS
<1>1. Offered BY DEF FormInit, Offered
<1>2. Kept(form, values) BY DEF FormInit, Kept, MayHold, seedValues
<1>3. Displays(form, values, control) BY DEF FormInit, Displays, seedValues
<1>4. shown = OnScreen(form, values) BY DEF FormInit
<1>5. IsCart(cart) /\ DOMAIN cart = {"quantity", "ticked"} BY DEF FormInit, IsCart
<1>6. total = refreshSummary(cart) BY DEF FormInit, refreshSummary
<1>7. MessagesAreSeen /\ DOMAIN live = {"fields", "active"} BY DEF FormInit, MessagesAreSeen
<1>8. answer.at = "nothing" BY DEF FormInit, NotSent
<1>9. ServerAgrees /\ StoredAsShown /\ ChargedAsShown /\ DraftIsTheOrder
  BY <1>8 DEF ServerAgrees, StoredAsShown, ChargedAsShown, DraftIsTheOrder
<1> QED BY <1>1, <1>2, <1>3, <1>4, <1>5, <1>6, <1>7, <1>9 DEF FormInv

\* Before the order is placed, an order is honest: nothing was charged or drafted.
LEMMA NothingPlaced ==
    ASSUME answer'.at # "placed", answer'.at = "fields" => live'.fields # form'
    PROVE  ServerAgrees' /\ StoredAsShown' /\ ChargedAsShown' /\ DraftIsTheOrder'
  BY DEF ServerAgrees, StoredAsShown, ChargedAsShown, DraftIsTheOrder

\* A step that leaves the form and the terms alone leaves them among those offered.
LEMMA StillOffered == ASSUME Offered, UNCHANGED <<form, page, terms>> PROVE Offered' BY DEF Offered

\* A look at one field leaves a new message only beside one that is shown.
LEMMA LookedAt ==
    ASSUME NEW fs, IsForm(fs), NEW vs, NEW k \in DOMAIN fs, ~Aside(fs[k]), form = fs, NEW old
    PROVE  validateOne(k, vs, {j \in DOMAIN fs : resolveVisibility(fs, vs)[j]}, old) \subseteq OnScreen(fs, vs) \cup old
<1>1. CASE ~resolveVisibility(fs, vs)[k] BY <1>1 DEF validateOne
<1>2. CASE resolveVisibility(fs, vs)[k]
  <2>1. resolveVisibility(fs, vs) \in Shown(fs)
        /\ Pass(fs, resolveVisibility(fs, vs), vs) = resolveVisibility(fs, vs) BY PassesSettle
  <2>2. fs[k].enabled BY <1>2, <2>1 DEF Pass
  <2>3. k \in OnScreen(fs, vs) BY <1>2, <2>2 DEF OnScreen, Aside
  <2> QED BY <2>3 DEF validateOne
<1> QED BY <1>1, <1>2

\* The phone is on screen unless the merchant lets something hide it.
LEMMA PhoneIsShown ==
    ASSUME NEW f, IsForm(f), NEW vs, NEW k \in phones(f), ~MayHide(f[k])
    PROVE  k \in OnScreen(f, vs)
<1> DEFINE V == resolveVisibility(f, vs)
<1>1. V = Pass(f, V, vs) BY PassesSettle
<1>2. k \in DOMAIN f /\ f[k].type = "PHONE" BY DEF phones
<1>3. f[k].enabled BY DEF IsForm, HasPhone
<1>4. ~f[k].hidden /\ f[k].rule.conditions = {} BY DEF MayHide
<1>5. Pass(f, V, vs)[k] BY <1>2, <1>3, <1>4 DEF Pass, evaluateRule
<1>6. V[k] BY <1>1, <1>5
<1> QED BY <1>2, <1>3, <1>4, <1>6 DEF OnScreen

\* onInput leaves marks only beside fields still shown, and the sum is of the new cart.
LEMMA OnInputKeeps ==
    ASSUME FormsAreSound, FormInv, NEW k \in Keys, NEW v \in Entries[form[k].type], onInput(k, v)
    PROVE  FormInv'
<1> DEFINE vs == [values EXCEPT ![k] = v]
           kept == {j \in Keys : resolveVisibility(form, vs)[j]}
           quantity == IF form[k].type # "QUANTITY" THEN cart.quantity
                       ELSE IF isNumeric(v) /\ asNumber(v) > 0 THEN asNumber(v) ELSE 1
<1>1. IsForm(form) BY WhatIsOffered DEF FormInv
<1>2. /\ values' = vs /\ control' = [control EXCEPT ![k] = v] /\ shown' = OnScreen(form, vs)
      /\ marked' = IF k \in touched THEN validateOne(k, vs, kept, marked \cap shown') ELSE marked \cap shown'
      /\ cart' = [cart EXCEPT !.quantity = quantity] /\ total' = refreshSummary(cart')
      /\ UNCHANGED <<form, live, page, terms, touched, answer>> /\ k \in shown /\ Open
  BY DEF onInput
<1>3. Offered' BY <1>2, StillOffered DEF FormInv
<1>4. ~Aside(form[k]) BY <1>2 DEF FormInv, OnScreen, Aside
<1>5. Kept(form, vs) /\ Displays(form, vs, control')
  BY <1>2, <1>4 DEF FormInv, Kept, Displays, MayHold, Keys
<1>6. IsCart(cart)' /\ DOMAIN cart' = {"quantity", "ticked"}
  <2>1. \A n \in DOMAIN numerals : numerals[n] \in Nat BY DEF numerals
  <2>2. isNumeric(v) => asNumber(v) \in Nat BY <2>1 DEF isNumeric, asNumber
  <2>3. quantity \in Nat BY <2>2 DEF FormInv, IsCart
  <2>4. cart'.quantity = quantity /\ cart'.ticked = cart.ticked /\ DOMAIN cart' = {"quantity", "ticked"}
    BY <1>2 DEF FormInv
  <2> HIDE DEF quantity
  <2> QED BY <1>2, <2>3, <2>4 DEF FormInv, IsCart
<1>7. MessagesAreSeen'
  <2>1. validateOne(k, vs, kept, marked \cap shown') \subseteq OnScreen(form, vs) \cup (marked \cap shown')
    BY <1>1, <1>2, <1>4, LookedAt DEF Keys
  <2> HIDE DEF vs, kept
  <2> QED BY <1>2, <2>1 DEF MessagesAreSeen
<1>8. answer'.at # "placed" /\ (answer'.at = "fields" => live'.fields # form') BY <1>2 DEF Open, FormInv, ServerAgrees
<1>9. total' = refreshSummary(cart)' BY <1>2 DEF refreshSummary
<1> HIDE DEF vs, kept
<1> QED BY <1>2, <1>3, <1>5, <1>6, <1>7, <1>8, <1>9, NothingPlaced DEF FormInv

\* Blur marks the field it leaves only while that is shown.
LEMMA BlurKeeps ==
    ASSUME FormsAreSound, FormInv, NEW k \in Keys, Blur(k)
    PROVE  FormInv'
<1>1. IsForm(form) BY WhatIsOffered DEF FormInv
<1>2. /\ marked' = validateOne(k, values, {j \in Keys : resolveVisibility(form, values)[j]}, marked)
      /\ UNCHANGED <<form, live, page, terms, control, values, shown, cart, total, answer>> /\ k \in shown /\ Open
  BY DEF Blur
<1>3. Offered' BY <1>2, StillOffered DEF FormInv
<1>4. ~Aside(form[k]) BY <1>2 DEF FormInv, OnScreen, Aside
<1>5. MessagesAreSeen'
  <2>1. marked' \subseteq OnScreen(form, values) \cup marked BY <1>1, <1>2, <1>4, LookedAt DEF Keys
  <2> QED BY <1>2, <2>1 DEF MessagesAreSeen, FormInv
<1>6. answer'.at # "placed" /\ (answer'.at = "fields" => live'.fields # form') BY <1>2 DEF Open, FormInv, ServerAgrees
<1>7. IsCart(cart)' /\ total' = refreshSummary(cart)' BY <1>2 DEF FormInv, IsCart, refreshSummary
<1> QED BY <1>2, <1>3, <1>5, <1>6, <1>7, NothingPlaced DEF FormInv

\* A tick is of an add-on the page charges for, and the sum follows it.
LEMMA BuildBumpsKeeps ==
    ASSUME FormsAreSound, FormInv, NEW b \in DOMAIN page.terms.bumps, buildBumps(b)
    PROVE  FormInv'
<1>1. /\ cart' = [cart EXCEPT !.ticked = IF b \in @ THEN @ \ {b} ELSE @ \cup {b}]
      /\ total' = refreshSummary(cart') /\ page.terms.bumps[b] > 0 /\ Open
      /\ UNCHANGED <<form, live, page, terms, control, values, shown, touched, marked, answer>>
  BY DEF buildBumps
<1>2. Offered' BY <1>1, StillOffered DEF FormInv
<1>3. IsCart(cart)' /\ DOMAIN cart' = {"quantity", "ticked"}
  <2>1. /\ cart'.quantity = cart.quantity /\ DOMAIN cart' = {"quantity", "ticked"}
        /\ cart'.ticked = IF b \in cart.ticked THEN cart.ticked \ {b} ELSE cart.ticked \cup {b}
    BY <1>1 DEF FormInv
  <2> QED BY <1>1, <2>1 DEF FormInv, IsCart
<1>4. MessagesAreSeen' BY <1>1 DEF MessagesAreSeen, FormInv
<1>5. answer'.at # "placed" /\ (answer'.at = "fields" => live'.fields # form') BY <1>1 DEF Open, FormInv, ServerAgrees
<1>6. total' = refreshSummary(cart)' BY <1>1 DEF refreshSummary
<1> QED BY <1>1, <1>2, <1>3, <1>4, <1>5, <1>6, NothingPlaced DEF FormInv

\* The merchant's new terms are of the same currency, and name the same add-ons.
LEMMA ChangeTermsKeeps ==
    ASSUME FormsAreSound, FormInv, NEW offer \in Offers, ChangeTerms(offer)
    PROVE  FormInv'
<1>1. /\ Open /\ offer.currency = page.currency /\ terms' = offer.terms
      /\ UNCHANGED <<form, live, page, control, values, shown, touched, marked, cart, total, answer>>
  BY DEF ChangeTerms
<1>2. Offered' BY <1>1 DEF FormInv, Offered
<1>3. MessagesAreSeen' BY <1>1 DEF MessagesAreSeen, FormInv
<1>4. answer'.at # "placed" /\ (answer'.at = "fields" => live'.fields # form') BY <1>1 DEF Open, FormInv, ServerAgrees
<1>5. IsCart(cart)' /\ total' = refreshSummary(cart)' BY <1>1 DEF FormInv, IsCart, refreshSummary
<1> QED BY <1>1, <1>2, <1>3, <1>4, <1>5, NothingPlaced DEF FormInv

\* Nor does the form the merchant changes say anything of the one on the page.
LEMMA MerchantKeeps ==
    ASSUME FormsAreSound, FormInv, setActive \/ \E fs \in Forms : replaceFields(fs)
    PROVE  FormInv'
<1>1. /\ Open /\ UNCHANGED <<form, page, terms, control, values, shown, touched, marked, cart, total, answer>>
      /\ DOMAIN live' = {"fields", "active"}
      /\ live'.fields = form => live.fields = form
  <2>1. CASE setActive BY <2>1 DEF setActive, FormInv
  <2>2. ASSUME NEW fs \in Forms, replaceFields(fs)
        PROVE  /\ Open /\ UNCHANGED <<form, page, terms, control, values, shown, touched, marked, cart, total, answer>>
               /\ DOMAIN live' = {"fields", "active"} /\ live'.fields = fs /\ fs # form
    BY <2>2 DEF replaceFields, FormInv
  <2> QED BY <2>1, <2>2
<1>2. Offered' BY <1>1, StillOffered DEF FormInv
<1>3. MessagesAreSeen' BY <1>1 DEF MessagesAreSeen, FormInv
<1>4. answer'.at # "placed" /\ (answer'.at = "fields" => live'.fields # form') BY <1>1 DEF Open, FormInv, ServerAgrees
<1>5. IsCart(cart)' /\ total' = refreshSummary(cart)' BY <1>1 DEF FormInv, IsCart, refreshSummary
<1> QED BY <1>1, <1>2, <1>3, <1>4, <1>5, NothingPlaced DEF FormInv

\* What the server makes of an order the browser let through.
LEMMA OrderIsHonest ==
    ASSUME FormsAreSound, FormInv, NEW honeypot, NEW seconds, validateForm(form, values) = {},
           answer' = createOrder(payload, honeypot, seconds),
           UNCHANGED <<form, live, page, terms, control, values, shown, cart, total>>
    PROVE  /\ live.fields = form => answer'.demands \subseteq phones(form)
           /\ ServerAgrees' /\ StoredAsShown' /\ ChargedAsShown' /\ DraftIsTheOrder'
<1> DEFINE fs == live.fields
           got == [k \in DOMAIN fs |-> IF k \in Keys THEN payload[k] ELSE Nothing]
           kept == accepted(fs, got)
           order == priceOrder(page.variant, cart.quantity, terms, page.currency, cart.ticked)
           draft == Collected(toShopifyLineItems(order, page.variant, cart.quantity))
           display == formatMoney(total, page.moneyFormat)
           placed == [NotSent EXCEPT !.at = "placed", !.charged = order.total, !.stored = kept,
                                     !.draft = draft, !.display = display]
<1>1. /\ IsForm(form) /\ IsOffer(page) /\ IsTerms(terms, Coin(page))
      /\ DOMAIN terms.bumps = DOMAIN page.terms.bumps
  BY WhatIsOffered DEF FormInv
<1>2. payload = visibleValues(form, values) BY DEF payload
<1>3. ASSUME fs = form
      PROVE  got = payload /\ validateForm(fs, got) = {} /\ resolveVisibility(fs, got) = resolveVisibility(form, values)
  <2>1. \A k \in DOMAIN form : values[k] \in MayHold(form[k]) BY DEF FormInv, Kept
  <2>2. payload = [k \in DOMAIN form |-> payload[k]] BY <1>2 DEF visibleValues
  <2>3. got = payload BY <1>3, <2>2 DEF Keys
  <2> HIDE DEF got
  <2> QED BY <1>1, <1>2, <1>3, <2>1, <2>3, ServerSeesTheSame
<1>4. \/ answer' = placed
      \/ \E at \in {"inactive", "bot", "country", "items", "limits"} : answer' = [NotSent EXCEPT !.at = at]
      \/ answer' = [NotSent EXCEPT !.at = "phone", !.demands = phones(fs)]
      \/ validateForm(fs, got) # {} /\ answer' = [NotSent EXCEPT !.at = "fields", !.demands = validateForm(fs, got)]
  <2> HIDE DEF order, draft, display
  <2> QED BY DEF createOrder, order, draft, display
<1>5. CASE answer' # placed
  <2>1. /\ answer'.at # "placed"
        /\ answer'.at = "fields" => validateForm(fs, got) # {}
        /\ answer'.demands \in {{}, phones(fs)} \/ validateForm(fs, got) # {}
    <3> HIDE DEF placed, got, fs
    <3> QED BY <1>4, <1>5 DEF NotSent
  <2>2. answer'.at = "fields" => live'.fields # form' BY <1>3, <2>1
  <2>3. live.fields = form => answer'.demands \subseteq phones(form) BY <1>3, <2>1
  <2> QED BY <2>1, <2>2, <2>3, NothingPlaced
<1>6. CASE answer' = placed
  <2>1. /\ answer'.at = "placed" /\ answer'.charged = order.total /\ answer'.stored = kept
        /\ answer'.draft = draft /\ answer'.display = display /\ answer'.demands = {}
    BY <1>6 DEF NotSent
  <2>2. StoredAsShown'
    <3> SUFFICES ASSUME fs = form, NEW k \in shown, buildField(form[k])
                 PROVE  kept[k] = coerceValue(form[k], control[k])
      BY <2>1 DEF StoredAsShown
    <3>1. k \in DOMAIN form /\ resolveVisibility(form, values)[k] BY DEF FormInv, OnScreen
    <3>2. payload[k] = coerceValue(form[k], values[k]) BY <1>2, <3>1 DEF visibleValues
    <3>3. validateField(form[k], values[k]) = "fine" BY <3>1 DEF validateForm
    <3>4. DefaultIsShown(form[k]) /\ EntriesFit(form[k]) BY <1>1, <3>1 DEF IsForm
    <3>5. control[k] = values[k] \/ (values[k] = form[k].default /\ control[k] = buildControl(form[k], form[k].default))
      BY <3>1 DEF FormInv, Displays
    <3>6. kept[k] = payload[k]
      <4>1. got = payload /\ resolveVisibility(fs, got)[k] BY <1>3, <3>1
      <4> HIDE DEF got
      <4> QED BY <3>1, <4>1 DEF accepted
    <3> HIDE DEF kept
    <3> QED BY <3>2, <3>3, <3>4, <3>5, <3>6 DEF DefaultIsShown
  <2>3. cart.quantity \in Nat /\ cart.ticked \subseteq DOMAIN page.terms.bumps
        /\ \A b \in cart.ticked : page.terms.bumps[b] > 0
    BY DEF FormInv, IsCart
  <2>4. order.total \in Nat /\ draft = order.total BY <1>1, <2>3, DraftComesTo
  <2>5. ChargedAsShown'
    <3> SUFFICES ASSUME terms = page.terms
                 PROVE  answer'.display - answer'.charged \in (0 - Coarser)..Coarser
      BY DEF ChargedAsShown, Coarser
    <3>1. total = buildSummary(page.variant.displayed, cart.quantity, page.terms, cart.ticked)
      BY DEF FormInv, refreshSummary
    <3>2. Coarser = CoarserOf(page) BY DEF Coarser, CoarserOf
    <3>3. display - order.total \in (0 - CoarserOf(page))..CoarserOf(page)
      BY <1>1, <2>3, <3>1, ShownIsCharged
    <3> HIDE DEF display, order
    <3> QED BY <2>1, <3>2, <3>3
  <2>6. DraftIsTheOrder'
    <3> DEFINE coin == unitOf[currencyPrecision[page.currency]]
    <3>1. coin \in Nat /\ coin > 0
      <4>1. Precision(page) \in Digits BY <1>1, PrecisionIsDigits DEF IsOffer, Precision
      <4> QED BY <4>1, Units DEF Precision
    <3> HIDE DEF draft, order, coin
    <3>2. answer'.draft - answer'.charged \in (1 - coin)..(coin - 1) BY <2>1, <2>4, <3>1
    <3> QED BY <3>2 DEF DraftIsTheOrder, coin
  <2>7. ServerAgrees' BY <2>1 DEF ServerAgrees
  <2> HIDE DEF placed
  <2> QED BY <2>1, <2>2, <2>5, <2>6, <2>7
<1> QED BY <1>5, <1>6

\* Submit marks what is refused, which is shown, or sends what the server lets through.
LEMMA SubmitKeeps ==
    ASSUME FormsAreSound, FormInv, NEW honeypot, NEW seconds, Submit(honeypot, seconds)
    PROVE  FormInv'
<1>1. IsForm(form) BY WhatIsOffered DEF FormInv
<1>2. UNCHANGED <<form, live, page, terms, control, values, shown, cart, total>> BY DEF Submit
<1>3. Offered' BY <1>2, StillOffered DEF FormInv
<1>4. IsCart(cart)' /\ total' = refreshSummary(cart)' BY <1>2 DEF FormInv, IsCart, refreshSummary
<1>5. MessagesAreSeen' /\ ServerAgrees' /\ StoredAsShown' /\ ChargedAsShown' /\ DraftIsTheOrder'
  <2>1. CASE validateForm(form, values) # {}
    <3>1. marked' = marked \cup validateForm(form, values) /\ answer' = [NotSent EXCEPT !.at = "kept"]
      BY <2>1 DEF Submit
    <3>2. validateForm(form, values) \subseteq shown
      BY <1>1, RefusedIsShown DEF FormInv, Kept, Aside
    <3>3. answer'.at # "placed" /\ (answer'.at = "fields" => live'.fields # form') BY <3>1 DEF NotSent
    <3>4. MessagesAreSeen' BY <1>2, <3>1, <3>2 DEF MessagesAreSeen, FormInv
    <3> QED BY <3>3, <3>4, NothingPlaced
  <2>2. CASE validateForm(form, values) = {}
    <3>1. answer' = createOrder(payload, honeypot, seconds) /\ marked' = marked \cup (answer'.demands \cap Keys)
      BY <2>2 DEF Submit
    <3>2. /\ live.fields = form => answer'.demands \subseteq phones(form)
          /\ ServerAgrees' /\ StoredAsShown' /\ ChargedAsShown' /\ DraftIsTheOrder'
      BY <1>2, <2>2, <3>1, OrderIsHonest
    <3>3. \A k \in phones(form) : ~MayHide(form[k]) => k \in shown
      BY <1>1, PhoneIsShown DEF FormInv
    <3>4. MessagesAreSeen' BY <1>2, <3>1, <3>2, <3>3 DEF MessagesAreSeen, FormInv
    <3> QED BY <3>2, <3>4
  <2> QED BY <2>1, <2>2
<1> QED BY <1>2, <1>3, <1>4, <1>5 DEF FormInv

\* Every step of the dialog keeps the invariant.
LEMMA FormSteps == FormsAreSound /\ FormInv /\ [FormNext]_evars => FormInv'
<1> SUFFICES ASSUME FormsAreSound, FormInv, [FormNext]_evars PROVE FormInv' OBVIOUS
<1>1. CASE \E honeypot \in {Nothing, Text("x")}, seconds \in {-1, 1, 60} : Submit(honeypot, seconds)
  BY <1>1, SubmitKeeps
<1>2. CASE \E k \in Keys : Blur(k) BY <1>2, BlurKeeps
<1>3. CASE \E k \in Keys : \E v \in Entries[form[k].type] : onInput(k, v) BY <1>3, OnInputKeeps
<1>4. CASE \E b \in DOMAIN page.terms.bumps : buildBumps(b) BY <1>4, BuildBumpsKeeps
<1>5. CASE \E offer \in Offers : ChangeTerms(offer) BY <1>5, ChangeTermsKeeps
<1>7. CASE setActive \/ \E fs \in Forms : replaceFields(fs) BY <1>7, MerchantKeeps
<1>6. CASE UNCHANGED evars
  BY <1>6 DEF evars, FormInv, Offered, IsCart, refreshSummary, MessagesAreSeen, ServerAgrees, StoredAsShown,
              ChargedAsShown, Coarser, DraftIsTheOrder
<1> QED BY <1>1, <1>2, <1>3, <1>4, <1>5, <1>6, <1>7 DEF FormNext

\* The invariant has all of FormIsHonest; that the passes settle is a fact of every form.
LEMMA FormInvIsHonest == FormsAreSound /\ FormInv => FormIsHonest
<1> SUFFICES ASSUME FormsAreSound, FormInv PROVE FormIsHonest OBVIOUS
<1>1. IsForm(form) BY WhatIsOffered DEF FormInv
<1>2. VisibilitySettles BY <1>1, PassesSettle DEF VisibilitySettles
<1> QED BY <1>2 DEF FormIsHonest, FormInv

\* FormIsHonest, for every form whose rules do not go round in a circle, every entry, every
\* price, number, country and moment of the merchant's change: what is refused is on screen,
\* the server's check of the fields refuses nothing the browser let through, an order holds
\* what its controls showed, and the courier collects what the dialog said, but for less than
\* a coin (theme-src/form.ts, validation/form.ts, orders/service.ts, orders/pricing.ts).
THEOREM FormStaysHonest == FormsAreSound => (FormSpec => []FormIsHonest)
<1> SUFFICES ASSUME FormsAreSound PROVE FormSpec => []FormIsHonest OBVIOUS
<1>1. FormInit => FormInv BY FormStarts
<1>2. FormInv /\ [FormNext]_evars => FormInv' BY FormSteps
<1>3. FormInv => FormIsHonest BY FormInvIsHonest
<1> QED BY <1>1, <1>2, <1>3, PTL DEF FormSpec
=============================================================================
