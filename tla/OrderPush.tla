------------------------------ MODULE OrderPush ------------------------------
(***************************************************************************)
(* Delivery of COD orders into Shopify: the order row, the push job BullMQ *)
(* keeps for it, the worker that runs the job one await at a time, the     *)
(* draft orders in the shop, and the merchant's requests and fraud rescans *)
(* that change the row meanwhile.                                          *)
(*                                                                         *)
(* A Shopify order is identified by the draft it was completed from.       *)
(***************************************************************************)
EXTENDS Naturals, FiniteSets

CONSTANTS
  Orders,          (* COD orders                                            *)
  Workers,         (* slots of the order-push worker, each its own process  *)
  Requests,        (* admin requests and fraud-scan jobs in flight          *)
  Drafts,          (* draft orders Shopify may create: bounds their number  *)
  Null,            (* a null column                                         *)
  MaxAttempts,     (* config.queue.maxAttempts                              *)
  MaxStalledCount, (* maxStalledCount of the worker                         *)
  Steals,          (* may a live run lose its lock to another worker?       *)
  Outages,         (* may queue.add fail, or its process die before it?     *)
  Kinds            (* requests that arrive: a subset of RequestKind         *)

RequestKind == {"retry", "verify", "review", "rescan", "scan"}

ASSUME PushAssumption ==
  /\ Null \notin Orders /\ Null \notin Drafts /\ Null \notin Workers
  /\ MaxAttempts \in Nat \ {0}
  /\ MaxStalledCount \in Nat
  /\ Steals \in BOOLEAN
  /\ Outages \in BOOLEAN
  /\ Kinds \subseteq RequestKind

VARIABLES
  (* The CodOrder columns pushing reads and writes, by order.               *)
  status, riskAction, otpRequired, otpVerified, draftGid, orderGid,
  (* The BullMQ job "push-<order>", by order.                               *)
  jobState, attemptsMade, stalls, owner,
  (* The execution of pushOrder in each worker: where it is, on which order,*)
  (* with which draft in hand, and the setting it read.                     *)
  pc, runOrder, inHand, asDraft,
  (* The shop: its createAsDraftOrder setting and its offline session.      *)
  createAsDraftOrder, session,
  (* Draft orders in Shopify.                                               *)
  draftOf, draftState,
  (* Downstream work the push of each order has started.                    *)
  told,
  (* Handlers and fraud-scan jobs between two awaits.                       *)
  step, kind, target, tries, seen

rowVars == <<status, riskAction, otpRequired, otpVerified, draftGid, orderGid>>
jobVars == <<jobState, attemptsMade, stalls, owner>>
runVars == <<pc, runOrder, inHand, asDraft>>
shopVars == <<createAsDraftOrder, session>>
draftVars == <<draftOf, draftState>>
requestVars == <<step, kind, target, tries, seen>>
vars == <<rowVars, jobVars, runVars, shopVars, draftVars, told, requestVars>>

RiskAction == {"ALLOW", "REVIEW", "CHALLENGE_OTP", "BLOCK"}
Status == {"PENDING_OTP", "CONFIRMED", "PUSHED_TO_SHOPIFY", "FAILED"}
JobState == {"none", "waiting", "active", "completed", "failed"}
RunStep == {"idle", "gate", "session", "create", "persist", "publishDraft",
            "draftEvent", "complete", "record", "event", "sheet", "pixel",
            "stats", "done", "exhaust"}
DraftState == {"unused", "open", "completed", "merchant"}
Channel == {"SHEET", "PURCHASE", "STATS"}
RequestStep == {"idle", "reset", "enqueue", "verify", "again", "apply",
                "event", "refresh"}

RowType ==
  /\ status \in [Orders -> Status]
  /\ riskAction \in [Orders -> RiskAction]
  /\ otpRequired \in [Orders -> BOOLEAN]
  /\ otpVerified \in [Orders -> BOOLEAN]
  /\ draftGid \in [Orders -> Drafts \cup {Null}]
  /\ orderGid \in [Orders -> Drafts \cup {Null}]

JobType ==
  /\ jobState \in [Orders -> JobState]
  /\ attemptsMade \in [Orders -> 0..MaxAttempts]
  /\ stalls \in [Orders -> 0..MaxStalledCount]
  /\ owner \in [Orders -> Workers \cup {Null}]

RunType ==
  /\ pc \in [Workers -> RunStep]
  /\ runOrder \in [Workers -> Orders \cup {Null}]
  /\ inHand \in [Workers -> Drafts \cup {Null}]
  /\ asDraft \in [Workers -> BOOLEAN]

ShopType == createAsDraftOrder \in BOOLEAN /\ session \in BOOLEAN

DraftType ==
  /\ draftOf \in [Drafts -> Orders \cup {Null}]
  /\ draftState \in [Drafts -> DraftState]

RequestType ==
  /\ step \in [Requests -> RequestStep]
  /\ kind \in [Requests -> RequestKind \cup {Null}]
  /\ target \in [Requests -> Orders \cup {Null}]
  /\ tries \in [Requests -> 0..MaxAttempts]
  /\ seen \in [Requests -> Status \cup RiskAction \cup {Null}]

TypeOK ==
  /\ RowType /\ JobType /\ RunType /\ ShopType /\ DraftType /\ RequestType
  /\ told \in [Orders -> SUBSET Channel]

-----------------------------------------------------------------------------
(* Gates and the queue                                                      *)

\* Whether an order may be sent to Shopify. A cancelled order is blocked by
\* its number: only an order already in Shopify is ever cancelled.
evaluateGates(number, risk, required, verified) ==
  IF number # Null \/ risk = "BLOCK" THEN "BLOCK"
  ELSE IF \/ risk = "REVIEW"
          \/ (required \/ risk = "CHALLENGE_OTP") /\ ~verified THEN "HOLD"
  ELSE "ALLOW"

Pushable(o) ==
  evaluateGates(orderGid[o], riskAction[o], otpRequired[o], otpVerified[o])
    = "ALLOW"

\* queue.add under the id push-<o>: a no-op while any job of that id is kept,
\* the completed and the failed ones included.
Add(o) ==
  /\ jobState' = [jobState EXCEPT ![o] = IF @ = "none" THEN "waiting" ELSE @]
  /\ UNCHANGED <<attemptsMade, stalls, owner>>

\* The enqueue swallows its errors: the caller goes on either way.
enqueueOrderPush(o) == Add(o) \/ (Outages /\ UNCHANGED jobVars)

Live(o) == jobState[o] \in {"waiting", "active"}

-----------------------------------------------------------------------------
(* A submitted order starts unpushed, held or queued; its enqueue may have  *)
(* been lost.                                                               *)
Init ==
  /\ riskAction \in [Orders -> RiskAction \ {"BLOCK"}]
  /\ otpRequired \in [Orders -> BOOLEAN]
  /\ \A o \in Orders : riskAction[o] = "CHALLENGE_OTP" => otpRequired[o]
  /\ status = [o \in Orders |->
                 IF otpRequired[o] THEN "PENDING_OTP" ELSE "CONFIRMED"]
  /\ otpVerified = [o \in Orders |-> FALSE]
  /\ draftGid = [o \in Orders |-> Null]
  /\ orderGid = [o \in Orders |-> Null]
  /\ jobState \in [Orders -> {"none", "waiting"}]
  /\ \A o \in Orders :
       IF Pushable(o) THEN jobState[o] = "none" => Outages
                      ELSE jobState[o] = "none"
  /\ attemptsMade = [o \in Orders |-> 0]
  /\ stalls = [o \in Orders |-> 0]
  /\ owner = [o \in Orders |-> Null]
  /\ pc = [w \in Workers |-> "idle"]
  /\ runOrder = [w \in Workers |-> Null]
  /\ inHand = [w \in Workers |-> Null]
  /\ asDraft = [w \in Workers |-> FALSE]
  /\ createAsDraftOrder \in BOOLEAN
  /\ session = TRUE
  /\ draftOf = [d \in Drafts |-> Null]
  /\ draftState = [d \in Drafts |-> "unused"]
  /\ told = [o \in Orders |-> {}]
  /\ step = [r \in Requests |-> "idle"]
  /\ kind = [r \in Requests |-> Null]
  /\ target = [r \in Requests |-> Null]
  /\ tries = [r \in Requests |-> 0]
  /\ seen = [r \in Requests |-> Null]

-----------------------------------------------------------------------------
(* The queue: a worker takes a job, fails or finishes it, or loses it.      *)

Take(w, o) ==
  /\ pc[w] = "idle"
  /\ jobState[o] = "waiting"
  /\ jobState' = [jobState EXCEPT ![o] = "active"]
  /\ owner' = [owner EXCEPT ![o] = w]
  /\ pc' = [pc EXCEPT ![w] = "gate"]
  /\ runOrder' = [runOrder EXCEPT ![w] = o]
  /\ UNCHANGED <<rowVars, attemptsMade, stalls, inHand, asDraft, shopVars,
                 draftVars, told, requestVars>>

Holds(w, o) == jobState[o] = "active" /\ owner[o] = w

\* The run ends; only the order of an exhausted job is kept, for its handler.
Leave(w, next) ==
  /\ pc' = [pc EXCEPT ![w] = next]
  /\ runOrder' = [runOrder EXCEPT ![w] = IF next = "exhaust" THEN @ ELSE Null]
  /\ inHand' = [inHand EXCEPT ![w] = Null]
  /\ asDraft' = [asDraft EXCEPT ![w] = FALSE]

Goto(w, next) ==
  /\ pc' = [pc EXCEPT ![w] = next]
  /\ UNCHANGED <<runOrder, inHand, asDraft>>

LastAttempt(o) == attemptsMade[o] + 1 >= MaxAttempts

\* The processor threw. A worker that no longer holds the job's lock cannot
\* move it; the holder sends it back for another attempt, or gives up.
AttemptFails(w) ==
  LET o == runOrder[w]
  IN \/ /\ ~Holds(w, o)
        /\ Leave(w, "idle")
        /\ UNCHANGED jobVars
     \/ /\ Holds(w, o)
        /\ attemptsMade' = [attemptsMade EXCEPT ![o] = @ + 1]
        /\ owner' = [owner EXCEPT ![o] = Null]
        /\ jobState' = [jobState EXCEPT ![o] =
                          IF LastAttempt(o) THEN "failed" ELSE "waiting"]
        /\ Leave(w, IF LastAttempt(o) THEN "exhaust" ELSE "idle")
        /\ UNCHANGED stalls

\* The processor returned.
Done(w) ==
  /\ pc[w] = "done"
  /\ \/ /\ Holds(w, runOrder[w])
        /\ jobState' = [jobState EXCEPT ![runOrder[w]] = "completed"]
        /\ owner' = [owner EXCEPT ![runOrder[w]] = Null]
     \/ ~Holds(w, runOrder[w]) /\ UNCHANGED <<jobState, owner>>
  /\ Leave(w, "idle")
  /\ UNCHANGED <<rowVars, attemptsMade, stalls, shopVars, draftVars, told,
                 requestVars>>

\* The worker process dies: the job stays active under a lock nobody renews.
Crash(w) ==
  /\ pc[w] # "idle"
  /\ Leave(w, "idle")
  /\ UNCHANGED <<rowVars, jobVars, shopVars, draftVars, told, requestVars>>

Abandoned(o) ==
  ~\E w \in Workers : pc[w] # "idle" /\ runOrder[w] = o /\ Holds(w, o)

\* Mutant: stalls are never counted.
StallForever(o) ==
  /\ jobState[o] = "active"
  /\ Abandoned(o) \/ Steals
  /\ owner' = [owner EXCEPT ![o] = Null]
  /\ jobState' = [jobState EXCEPT ![o] = "waiting"]
  /\ UNCHANGED <<rowVars, attemptsMade, stalls, runVars, shopVars, draftVars,
                 told, requestVars>>

\* The stall check reclaims a job whose lock lapsed, and fails it outright
\* once it has stalled more than maxStalledCount times.
Stall(o) ==
  /\ jobState[o] = "active"
  /\ Abandoned(o) \/ Steals
  /\ owner' = [owner EXCEPT ![o] = Null]
  /\ \/ /\ stalls[o] < MaxStalledCount
        /\ stalls' = [stalls EXCEPT ![o] = @ + 1]
        /\ jobState' = [jobState EXCEPT ![o] = "waiting"]
     \/ /\ stalls[o] >= MaxStalledCount
        /\ jobState' = [jobState EXCEPT ![o] = "failed"]
        /\ UNCHANGED stalls
  /\ UNCHANGED <<rowVars, attemptsMade, runVars, shopVars, draftVars, told,
                 requestVars>>

\* removeOnComplete and removeOnFail: a finished job and its id go after a day
\* or a week, long after the failed event has been handled.
Expire(o) ==
  /\ jobState[o] \in {"completed", "failed"}
  /\ ~\E w \in Workers : runOrder[w] = o
  /\ jobState' = [jobState EXCEPT ![o] = "none"]
  /\ attemptsMade' = [attemptsMade EXCEPT ![o] = 0]
  /\ stalls' = [stalls EXCEPT ![o] = 0]
  /\ UNCHANGED <<rowVars, owner, runVars, shopVars, draftVars, told,
                 requestVars>>

-----------------------------------------------------------------------------
(* pushOrder, one await at a time                                           *)

\* Mutant: the push ignores the draft the row names.
GateForgetsDraft(w) ==
  /\ pc[w] = "gate"
  /\ IF Pushable(runOrder[w]) THEN Goto(w, "session") ELSE Goto(w, "done")
  /\ UNCHANGED <<rowVars, jobVars, shopVars, draftVars, told, requestVars>>

Gate(w) ==
  /\ pc[w] = "gate"
  /\ IF Pushable(runOrder[w])
     THEN /\ pc' = [pc EXCEPT ![w] = "session"]
          /\ inHand' = [inHand EXCEPT ![w] = draftGid[runOrder[w]]]
          /\ UNCHANGED <<runOrder, asDraft>>
     ELSE Goto(w, "done")
  /\ UNCHANGED <<rowVars, jobVars, shopVars, draftVars, told, requestVars>>

AfterDraft(leaveOpen) == IF leaveOpen THEN "publishDraft" ELSE "complete"

LoadSession(w) ==
  /\ pc[w] = "session"
  /\ \/ /\ session
        /\ asDraft' = [asDraft EXCEPT ![w] = createAsDraftOrder]
        /\ pc' = [pc EXCEPT ![w] = IF inHand[w] # Null
                                   THEN AfterDraft(createAsDraftOrder)
                                   ELSE "create"]
        /\ UNCHANGED <<jobVars, runOrder, inHand>>
     \/ ~session /\ AttemptFails(w)
  /\ UNCHANGED <<rowVars, shopVars, draftVars, told, requestVars>>

\* draftOrderCreate reaches Shopify. The answer may be lost: adminGraphql
\* then sends the mutation again, or gives up.
createDraft(w) ==
  /\ pc[w] = "create"
  /\ \E d \in Drafts :
       /\ draftState[d] = "unused"
       /\ draftState' = [draftState EXCEPT ![d] = "open"]
       /\ draftOf' = [draftOf EXCEPT ![d] = runOrder[w]]
       /\ \/ /\ pc' = [pc EXCEPT ![w] = "persist"]
             /\ inHand' = [inHand EXCEPT ![w] = d]
             /\ UNCHANGED <<jobVars, runOrder, asDraft>>
          \/ UNCHANGED <<jobVars, runVars>>
          \/ AttemptFails(w)
  /\ UNCHANGED <<rowVars, shopVars, told, requestVars>>

\* Mutant: the draft id never reaches the row.
PersistNothing(w) ==
  /\ pc[w] = "persist"
  /\ Goto(w, AfterDraft(asDraft[w]))
  /\ UNCHANGED <<rowVars, jobVars, shopVars, draftVars, told, requestVars>>

PersistDraft(w) ==
  /\ pc[w] = "persist"
  /\ draftGid' = [draftGid EXCEPT ![runOrder[w]] = inHand[w]]
  /\ Goto(w, AfterDraft(asDraft[w]))
  /\ UNCHANGED <<status, riskAction, otpRequired, otpVerified, orderGid,
                 jobVars, shopVars, draftVars, told, requestVars>>

\* createAsDraftOrder: the merchant completes the draft in Shopify.
PublishDraft(w) ==
  /\ pc[w] = "publishDraft"
  /\ status' = [status EXCEPT ![runOrder[w]] = "PUSHED_TO_SHOPIFY"]
  /\ Goto(w, "draftEvent")
  /\ UNCHANGED <<riskAction, otpRequired, otpVerified, draftGid, orderGid,
                 jobVars, shopVars, draftVars, told, requestVars>>

\* Mutant: a draft left to the merchant is reported as a sale.
DraftReportedAsSale(w) ==
  /\ pc[w] = "draftEvent"
  /\ Goto(w, "sheet")
  /\ UNCHANGED <<rowVars, jobVars, shopVars, draftVars, told, requestVars>>

DraftEvent(w) ==
  /\ pc[w] = "draftEvent"
  /\ Goto(w, "done")
  /\ UNCHANGED <<rowVars, jobVars, shopVars, draftVars, told, requestVars>>

\* draftOrderComplete. Completing twice is a userError; the answer to the
\* first may be lost, and the mutation sent again.
completeDraft(w) ==
  /\ pc[w] = "complete"
  /\ \/ /\ draftState[inHand[w]] = "open"
        /\ draftState' = [draftState EXCEPT ![inHand[w]] = "completed"]
        /\ \/ Goto(w, "record") /\ UNCHANGED jobVars
           \/ UNCHANGED <<jobVars, runVars>>
           \/ AttemptFails(w)
     \/ /\ draftState[inHand[w]] # "open"
        /\ AttemptFails(w)
        /\ UNCHANGED draftState
  /\ UNCHANGED <<rowVars, shopVars, draftOf, told, requestVars>>

RecordOrder(w) ==
  /\ pc[w] = "record"
  /\ status' = [status EXCEPT ![runOrder[w]] = "PUSHED_TO_SHOPIFY"]
  /\ orderGid' = [orderGid EXCEPT ![runOrder[w]] = inHand[w]]
  /\ Goto(w, "event")
  /\ UNCHANGED <<riskAction, otpRequired, otpVerified, draftGid,
                 jobVars, shopVars, draftVars, told, requestVars>>

\* applyTags, which swallows its errors, and the push.completed event.
CompletedEvent(w) ==
  /\ pc[w] = "event"
  /\ Goto(w, "sheet")
  /\ UNCHANGED <<rowVars, jobVars, shopVars, draftVars, told, requestVars>>

\* Three calls that log and swallow their own failures.
Announce(w, at, channel, next) ==
  /\ pc[w] = at
  /\ \/ told' = [told EXCEPT ![runOrder[w]] = @ \cup {channel}]
     \/ Outages /\ UNCHANGED told
  /\ Goto(w, next)
  /\ UNCHANGED <<rowVars, jobVars, shopVars, draftVars, requestVars>>

EnqueueSheet(w) == Announce(w, "sheet", "SHEET", "pixel")
EnqueuePixel(w) == Announce(w, "pixel", "PURCHASE", "stats")
RecordStats(w) == Announce(w, "stats", "STATS", "done")

\* The steps with a call that may throw: the database, or Shopify before the
\* mutation took effect.
Fallible == {"gate", "session", "create", "persist", "publishDraft",
             "draftEvent", "complete", "record", "event"}

PushThrows(w) ==
  /\ pc[w] \in Fallible
  /\ AttemptFails(w)
  /\ UNCHANGED <<rowVars, shopVars, draftVars, told, requestVars>>

\* onOrderPushFailed on the last attempt; a database error is only logged.
markPushExhausted(w) ==
  /\ pc[w] = "exhaust"
  /\ \/ status' = [status EXCEPT ![runOrder[w]] = "FAILED"]
     \/ UNCHANGED status
  /\ Leave(w, "idle")
  /\ UNCHANGED <<riskAction, otpRequired, otpVerified, draftGid, orderGid,
                 jobVars, shopVars, draftVars, told, requestVars>>

-----------------------------------------------------------------------------
(* The shop                                                                 *)

\* The merchant flips createAsDraftOrder, uninstalls, or installs again.
ChangeShop ==
  /\ \/ createAsDraftOrder' = ~createAsDraftOrder /\ UNCHANGED session
     \/ session' = ~session /\ UNCHANGED createAsDraftOrder
  /\ UNCHANGED <<rowVars, jobVars, runVars, draftVars, told, requestVars>>

\* The merchant completes a draft in the Shopify admin.
MerchantCompletes(d) ==
  /\ draftState[d] = "open"
  /\ draftState' = [draftState EXCEPT ![d] = "merchant"]
  /\ UNCHANGED <<rowVars, jobVars, runVars, shopVars, draftOf, told,
                 requestVars>>

-----------------------------------------------------------------------------
(* Admin requests                                                           *)

Begin(r, k, first, o, read) ==
  /\ k \in Kinds
  /\ step[r] = "idle"
  /\ step' = [step EXCEPT ![r] = first]
  /\ kind' = [kind EXCEPT ![r] = k]
  /\ target' = [target EXCEPT ![r] = o]
  /\ seen' = [seen EXCEPT ![r] = read]
  /\ UNCHANGED <<rowVars, jobVars, runVars, shopVars, draftVars, told, tries>>

Continue(r, next) ==
  step' = [step EXCEPT ![r] = next] /\ UNCHANGED <<kind, target, tries, seen>>

Finish(r) ==
  /\ step' = [step EXCEPT ![r] = "idle"]
  /\ kind' = [kind EXCEPT ![r] = Null]
  /\ target' = [target EXCEPT ![r] = Null]
  /\ tries' = [tries EXCEPT ![r] = 0]
  /\ seen' = [seen EXCEPT ![r] = Null]

\* retryPush refuses an order a gate holds, and resets a failed one.
retryPush(r, o) ==
  /\ Pushable(o)
  /\ Begin(r, "retry", IF status[o] = "FAILED" THEN "reset" ELSE "enqueue",
           o, status[o])

\* Mutant: the reset clears what the last push wrote.
ResetRow(r) ==
  /\ step[r] = "reset"
  /\ status' = [status EXCEPT ![target[r]] = "CONFIRMED"]
  /\ orderGid' = [orderGid EXCEPT ![target[r]] = Null]
  /\ Continue(r, "enqueue")
  /\ UNCHANGED <<riskAction, otpRequired, otpVerified, draftGid,
                 jobVars, runVars, shopVars, draftVars, told>>

ResetFailed(r) ==
  /\ step[r] = "reset"
  /\ status' = [status EXCEPT ![target[r]] = "CONFIRMED"]
  /\ Continue(r, "enqueue")
  /\ UNCHANGED <<riskAction, otpRequired, otpVerified, draftGid, orderGid,
                 jobVars, runVars, shopVars, draftVars, told>>

\* The merchant vouches for the phone number of an order waiting for it.
verifyOrder(r, o) ==
  /\ orderGid[o] = Null
  /\ otpRequired[o] \/ riskAction[o] = "CHALLENGE_OTP"
  /\ ~otpVerified[o]
  /\ Begin(r, "verify", "verify", o, status[o])

\* Writes back the status read before, and queues by the row it wrote.
WriteVerified(r) ==
  LET o == target[r]
      gate == evaluateGates(orderGid[o], riskAction[o], otpRequired[o], TRUE)
  IN /\ step[r] = "verify"
     /\ status' = [status EXCEPT ![o] =
                     IF seen[r] = "PENDING_OTP" THEN "CONFIRMED" ELSE seen[r]]
     /\ otpVerified' = [otpVerified EXCEPT ![o] = TRUE]
     /\ IF gate = "ALLOW" THEN Continue(r, "enqueue") ELSE Finish(r)
     /\ UNCHANGED <<riskAction, otpRequired, draftGid, orderGid,
                    jobVars, runVars, shopVars, draftVars, told>>

\* The last await of retryPush, verifyOrder and processFraudScan.
Enqueue(r) ==
  /\ step[r] = "enqueue"
  /\ enqueueOrderPush(target[r])
  /\ Finish(r)
  /\ UNCHANGED <<rowVars, runVars, shopVars, draftVars, told>>

WriteVerdict(o, verdict) ==
  /\ riskAction' = [riskAction EXCEPT ![o] = verdict]
  /\ UNCHANGED <<status, otpRequired, otpVerified, draftGid, orderGid>>

\* The merchant decides a risk assessment; the handler enqueues nothing.
reviewAssessment(o) ==
  /\ "review" \in Kinds
  /\ \E decision \in RiskAction : WriteVerdict(o, decision)
  /\ UNCHANGED <<jobVars, runVars, shopVars, draftVars, told, requestVars>>

\* The merchant re-runs the engine, on any order.
rescan(o) ==
  /\ "rescan" \in Kinds
  /\ \E verdict \in RiskAction : WriteVerdict(o, verdict)
  /\ UNCHANGED <<jobVars, runVars, shopVars, draftVars, told, requestVars>>

-----------------------------------------------------------------------------
(* The fraud-scan job                                                       *)

processFraudScan(r, o) ==
  /\ orderGid[o] = Null
  /\ Begin(r, "scan", "apply", o, riskAction[o])

\* rescanOrder writes the verdict unless the write fails, which it swallows.
ApplyVerdict(r) ==
  /\ step[r] = "apply"
  /\ \E verdict \in RiskAction :
       /\ WriteVerdict(target[r], verdict) \/ (Outages /\ UNCHANGED rowVars)
       /\ IF verdict = seen[r]
          THEN Finish(r)
          ELSE /\ step' = [step EXCEPT ![r] = "event"]
               /\ seen' = [seen EXCEPT ![r] = verdict]
               /\ UNCHANGED <<kind, target, tries>>
  /\ UNCHANGED <<jobVars, runVars, shopVars, draftVars, told>>

\* The timeline event; only a relaxed order goes on to be queued.
ScanEvent(r) ==
  /\ step[r] = "event"
  /\ IF seen[r] = "ALLOW" THEN Continue(r, "refresh") ELSE Finish(r)
  /\ UNCHANGED <<rowVars, jobVars, runVars, shopVars, draftVars, told>>

\* Re-reads the order before queueing it.
Refresh(r) ==
  /\ step[r] = "refresh"
  /\ IF Pushable(target[r]) THEN Continue(r, "enqueue") ELSE Finish(r)
  /\ UNCHANGED <<rowVars, jobVars, runVars, shopVars, draftVars, told>>

\* A retry of the job starts from its first line, reading the order again.
ScanAgain(r) ==
  /\ step[r] = "again"
  /\ IF orderGid[target[r]] # Null
     THEN Finish(r)
     ELSE /\ step' = [step EXCEPT ![r] = "apply"]
          /\ seen' = [seen EXCEPT ![r] = riskAction[target[r]]]
          /\ UNCHANGED <<kind, target, tries>>
  /\ UNCHANGED <<rowVars, jobVars, runVars, shopVars, draftVars, told>>

\* An await throws: a handler answers with the error, a scan job is retried
\* until its attempts run out. The enqueue itself never throws.
RequestThrows(r) ==
  /\ step[r] \in RequestStep \ {"idle", "enqueue"}
  /\ IF kind[r] = "scan" /\ tries[r] + 1 < MaxAttempts
     THEN /\ step' = [step EXCEPT ![r] = "again"]
          /\ tries' = [tries EXCEPT ![r] = @ + 1]
          /\ UNCHANGED <<kind, target, seen>>
     ELSE Finish(r)
  /\ UNCHANGED <<rowVars, jobVars, runVars, shopVars, draftVars, told>>

-----------------------------------------------------------------------------
PushStep(w) ==
  \/ Gate(w) \/ LoadSession(w) \/ createDraft(w) \/ PersistDraft(w)
  \/ PublishDraft(w) \/ DraftEvent(w) \/ completeDraft(w) \/ RecordOrder(w)
  \/ CompletedEvent(w) \/ EnqueueSheet(w) \/ EnqueuePixel(w) \/ RecordStats(w)
  \/ Done(w) \/ PushThrows(w) \/ markPushExhausted(w)

WorkerStep(w) == PushStep(w) \/ (\E o \in Orders : Take(w, o))

RequestStepOf(r) ==
  \/ ResetFailed(r) \/ WriteVerified(r) \/ Enqueue(r)
  \/ ApplyVerdict(r) \/ ScanEvent(r) \/ Refresh(r) \/ ScanAgain(r)
  \/ RequestThrows(r)

Arrival(o) ==
  \/ reviewAssessment(o)
  \/ rescan(o)
  \/ \E r \in Requests :
       retryPush(r, o) \/ verifyOrder(r, o) \/ processFraudScan(r, o)

Next ==
  \/ \E w \in Workers : WorkerStep(w) \/ Crash(w)
  \/ \E o \in Orders : Stall(o) \/ Expire(o) \/ Arrival(o)
  \/ \E r \in Requests : RequestStepOf(r)
  \/ \E d \in Drafts : MerchantCompletes(d)
  \/ ChangeShop

Spec == Init /\ [][Next]_vars

\* The workers and the stall check keep running, and a handler ends.
Fairness ==
  /\ \A w \in Workers : WF_vars(WorkerStep(w))
  /\ \A o \in Orders : WF_vars(Abandoned(o) /\ Stall(o))
  /\ \A r \in Requests : WF_vars(RequestStepOf(r))

FairSpec == Spec /\ Fairness

-----------------------------------------------------------------------------
(* Properties                                                               *)

OrdersMade(o) == {d \in Drafts : draftOf[d] = o /\ draftState[d] = "completed"}

\* However often the push of an order crashes, fails, is retried or resumes
\* after a lost answer, the app creates at most one Shopify order for it.
AtMostOneShopifyOrder == \A o \in Orders : Cardinality(OrdersMade(o)) <= 1

\* The Shopify order recorded on a row is one the app completed for that very
\* order, from the draft the row still names.
RecordedOrderIsOurs ==
  \A o \in Orders :
    orderGid[o] # Null => orderGid[o] \in OrdersMade(o) /\ orderGid[o] = draftGid[o]

\* The sheet row, the PURCHASE event and the push count are started only for
\* an order whose Shopify order number is on the row.
SaleReportedOnlyOnceReal ==
  \A o \in Orders : told[o] # {} => orderGid[o] # Null

\* An order shown as pushed names a draft in the shop that is its own.
PushedHasDraft ==
  \A o \in Orders : status[o] = "PUSHED_TO_SHOPIFY" =>
    draftGid[o] # Null /\ draftOf[draftGid[o]] = o

DraftsOf(o) == {d \in Drafts : draftOf[d] = o}

\* Once a row names a draft, no retry and no resumed push creates another.
PersistedDraftReused ==
  [][\A o \in Orders : draftGid[o] # Null => DraftsOf(o)' = DraftsOf(o)]_vars

\* The Shopify order number of a row, once written, is never replaced.
OrderNumberIsFinal ==
  [][\A o \in Orders : orderGid[o] # Null => orderGid'[o] = orderGid[o]]_vars

\* A queued push settles: it completes, or it fails for good, however the
\* workers crash.
JobSettles ==
  \A o \in Orders : Live(o) ~> jobState[o] \in {"completed", "failed"}

Delivery == INSTANCE OrderDelivery WITH
  ShopifyOrders <- Drafts, Channels <- Channel,
  created <- [o \in Orders |-> OrdersMade(o)], known <- orderGid

\* The push implements the abstract delivery.
DeliverySpec == Delivery!Spec
=============================================================================
