------------------------ MODULE OrderPushInvariants ------------------------
(***************************************************************************)
(* The inductive invariants behind the theorems of OrderPushProofs. TLC    *)
(* checks them on the instances of MCOrderPush before they are proved.     *)
(***************************************************************************)
EXTENDS OrderPush

\* Steps of a run that still hold the order's job.
Working(w) == pc[w] \notin {"idle", "exhaust"}

\* Steps with a draft in hand, with a draft on the row, before the Shopify
\* order is recorded, and after.
Drafting == {"persist", "publishDraft", "complete", "record"}
Drafted == {"publishDraft", "draftEvent", "complete", "record"}
Unrecorded == {"session", "create", "persist"} \cup Drafted
Announcing == {"event", "sheet", "pixel", "stats"}

\* What a run, a request and a job carry from an earlier step fits the step
\* they are at.
RunData == \A w \in Workers : pc[w] # "idle" => runOrder[w] \in Orders

RequestData ==
  \A r \in Requests :
    /\ step[r] # "idle" => target[r] \in Orders
    /\ step[r] = "verify" => seen[r] \in Status

JobData ==
  \A o \in Orders :
    /\ Live(o) => attemptsMade[o] < MaxAttempts
    /\ jobState[o] = "none" => attemptsMade[o] = 0

UnusedIsUnowned == \A d \in Drafts : draftState[d] = "unused" => draftOf[d] = Null

RowDraftOwned ==
  \A o \in Orders : draftGid[o] # Null => draftOf[draftGid[o]] = o

\* The draft a run works on belongs to its order, and once past the draft the
\* row names some draft of that order.
RunDraftOwned ==
  \A w \in Workers :
    /\ pc[w] \in Drafting => inHand[w] # Null /\ draftOf[inHand[w]] = runOrder[w]
    /\ pc[w] = "session" /\ inHand[w] # Null =>
         draftOf[inHand[w]] = runOrder[w] /\ draftGid[runOrder[w]] # Null
    /\ pc[w] \in Drafted => draftGid[runOrder[w]] # Null
    /\ pc[w] \in Announcing => orderGid[runOrder[w]] # Null

\* A status verifyOrder is about to write back needs a draft if it says pushed.
SeenPushedHasDraft ==
  \A r \in Requests :
    step[r] = "verify" /\ seen[r] = "PUSHED_TO_SHOPIFY" => draftGid[target[r]] # Null

PushedNamesDraft ==
  \A o \in Orders : status[o] = "PUSHED_TO_SHOPIFY" => draftGid[o] # Null

\* Inductive whether or not jobs can be stolen.
IInv ==
  /\ TypeOK
  /\ RunData /\ RequestData /\ JobData
  /\ UnusedIsUnowned
  /\ RowDraftOwned
  /\ RunDraftOwned
  /\ SeenPushedHasDraft
  /\ PushedNamesDraft
  /\ SaleReportedOnlyOnceReal

\* A run past its first step holds its order's job, so an order has one run.
RunHoldsJob == \A w \in Workers : Working(w) => Holds(w, runOrder[w])

\* What the run read of the row is still what the row says.
RunInStep ==
  \A w \in Workers :
    /\ pc[w] \in {"session"} \cup Drafted => draftGid[runOrder[w]] = inHand[w]
    /\ pc[w] \in {"create", "persist"} => draftGid[runOrder[w]] = Null
    /\ pc[w] \in Unrecorded => orderGid[runOrder[w]] = Null
    /\ pc[w] = "record" => draftState[inHand[w]] = "completed"

\* Only the draft a row names was completed for it.
CompletedIsNamed ==
  \A d \in Drafts : draftState[d] = "completed" =>
    draftOf[d] \in Orders /\ draftGid[draftOf[d]] = d

NumberIsDraft ==
  \A o \in Orders : orderGid[o] # Null =>
    orderGid[o] = draftGid[o] /\ draftState[orderGid[o]] = "completed"

\* Inductive when a job never runs twice at once.
OneRunInv ==
  /\ RunHoldsJob
  /\ RunInStep
  /\ CompletedIsNamed
  /\ NumberIsDraft
=============================================================================
