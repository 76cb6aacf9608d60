------------------------------ MODULE Submission ------------------------------
(***************************************************************************)
(* A buyer's submission of the storefront form: submitOrder, one step per  *)
(* await, with other submissions, the merchant, the push and the fraud     *)
(* rescan of the stored order moving in between.                           *)
(*                                                                         *)
(* An order is named by the submission that stored it: its reference is    *)
(* unique. All submissions fall into one billing month. What two orders    *)
(* must share to be one purchase, the phone and the resolved total, is a   *)
(* single value. How a stored order is verified, retried and reviewed is   *)
(* in OrderPush.                                                           *)
(***************************************************************************)
EXTENDS Naturals, FiniteSets

CONSTANTS
  Submissions,  (* requests to the endpoint                                 *)
  Purchases,    (* phones with totals                                       *)
  Limit,        (* COD orders the plan allows in a month                    *)
  Rescanned,    (* submissions whose order a fraud rescan may be queued for *)
  Verdicts,     (* verdicts the engine gives                                *)
  Outages,      (* may a database, a queue or the process fail?             *)
  Null          (* a value not known yet                                    *)

RiskAction == {"ALLOW", "REVIEW", "CHALLENGE_OTP", "BLOCK"}

Status == {"PENDING_OTP", "CONFIRMED", "PUSHED_TO_SHOPIFY", "FAILED",
           "CANCELLED"}

SubmissionAssumption ==
  /\ IsFiniteSet(Submissions)
  /\ Limit \in Nat \ {0}
  /\ Rescanned \subseteq Submissions
  /\ Verdicts \subseteq RiskAction
  /\ Outages \in BOOLEAN
  /\ Null \notin Submissions \cup Purchases \cup Status \cup RiskAction

VARIABLES
  (* The execution of submitOrder: where it is, the requireOtp of the form  *)
  (* it read, what it resolved, the engine's verdict, and the order the     *)
  (* buyer is told of.                                                      *)
  phase, requireOtp, purchase, verdict, answer,
  (* The CodOrder rows: which exist and are still in the duplicate window.  *)
  orders, recent, status, riskAction, otpRequired,
  (* Orders a push job was queued for, and orders in the month's usage.     *)
  queued, counted,
  (* The fraud-scan job of each order: assessing one it read with the       *)
  (* verdict ALLOW ("clear") or another ("flagged"), or releasing it.       *)
  scan,
  (* History: orders stored when a submission arrived; orders that were     *)
  (* ever dead or out of the window; submissions an outage touched; the     *)
  (* most submissions ever in flight together.                              *)
  since, lapsed, failed, peak

runVars == <<requireOtp, purchase, verdict, answer>>
rowVars == <<orders, recent, status, riskAction, otpRequired>>
doneVars == <<queued, counted>>
pastVars == <<since, lapsed, failed, peak>>
vars == <<phase, runVars, rowVars, doneVars, scan, pastVars>>

Pending == {"allowance", "price", "assess", "duplicate", "create", "persist",
            "flag", "enqueue", "usage"}
Phase == {"new"} \cup Pending \cup {"answered", "refused", "error"}

TypeOK ==
  /\ phase \in [Submissions -> Phase]
  /\ requireOtp \in [Submissions -> BOOLEAN]
  /\ purchase \in [Submissions -> Purchases \cup {Null}]
  /\ verdict \in [Submissions -> RiskAction \cup {Null}]
  /\ answer \in [Submissions -> Submissions \cup {Null}]
  /\ orders \subseteq Submissions /\ recent \subseteq orders
  /\ status \in [Submissions -> Status \cup {Null}]
  /\ riskAction \in [Submissions -> RiskAction \cup {Null}]
  /\ otpRequired \in [Submissions -> BOOLEAN]
  /\ queued \subseteq orders /\ counted \subseteq orders
  /\ scan \in [Submissions -> {"idle", "clear", "flagged", "release"}]
  /\ since \in [Submissions -> SUBSET Submissions]
  /\ lapsed \subseteq orders /\ failed \subseteq Submissions
  /\ peak \in 0..Cardinality(Submissions)
  /\ \A o \in orders : status[o] # Null /\ riskAction[o] # Null

Init ==
  /\ phase = [s \in Submissions |-> "new"]
  /\ requireOtp = [s \in Submissions |-> FALSE]
  /\ purchase = [s \in Submissions |-> Null]
  /\ verdict = [s \in Submissions |-> Null]
  /\ answer = [s \in Submissions |-> Null]
  /\ orders = {} /\ recent = {}
  /\ status = [s \in Submissions |-> Null]
  /\ riskAction = [s \in Submissions |-> Null]
  /\ otpRequired = [s \in Submissions |-> FALSE]
  /\ queued = {} /\ counted = {}
  /\ scan = [s \in Submissions |-> "idle"]
  /\ since = [s \in Submissions |-> {}]
  /\ lapsed = {} /\ failed = {} /\ peak = 0

InFlight(ph) == {s \in Submissions : ph[s] \in Pending}

Goto(s, step) == phase' = [phase EXCEPT ![s] = step]

-----------------------------------------------------------------------------
(* Before the order                                                         *)

\* The request arrives: its token is verified, the form read, and the signals
\* of a bot looked for. A form no longer active refuses it.
Receive(s) ==
  /\ phase[s] = "new"
  /\ \/ /\ \E otp \in BOOLEAN : requireOtp' = [requireOtp EXCEPT ![s] = otp]
        /\ Goto(s, "allowance")
     \/ UNCHANGED requireOtp /\ Goto(s, "refused")
  /\ since' = [since EXCEPT ![s] = orders]
  /\ LET now == Cardinality(InFlight(phase')) IN
       peak' = IF now > peak THEN now ELSE peak
  /\ UNCHANGED <<purchase, verdict, answer, rowVars, doneVars,
                 scan, lapsed, failed>>

\* Mutant: one order too many.
WithinLimitAndOne(used) == used <= Limit

WithinLimit(used) == used < Limit

\* The month's usage is read, and not reserved.
checkUsage(s) ==
  /\ phase[s] = "allowance"
  /\ Goto(s, IF WithinLimit(Cardinality(counted)) THEN "price" ELSE "refused")
  /\ UNCHANGED <<runVars, rowVars, doneVars, scan, pastVars>>

\* Fields, phone, country and session are checked and the prices resolved.
Price(s) ==
  /\ phase[s] = "price"
  /\ \/ /\ \E p \in Purchases : purchase' = [purchase EXCEPT ![s] = p]
        /\ Goto(s, "assess")
     \/ /\ Goto(s, "refused")
        /\ UNCHANGED purchase
  /\ UNCHANGED <<requireOtp, verdict, answer, rowVars, doneVars,
                 scan, pastVars>>

\* The fraud engine's verdict, ALLOW when it fails or is too slow. BLOCK is
\* refused before anything is written.
assessAndRecord(s) ==
  /\ phase[s] = "assess"
  /\ \E a \in Verdicts :
       /\ verdict' = [verdict EXCEPT ![s] = a]
       /\ Goto(s, IF a = "BLOCK" THEN "refused" ELSE "duplicate")
  /\ UNCHANGED <<requireOtp, purchase, answer, rowVars, doneVars,
                 scan, pastVars>>

\* Mutant: only a confirmed order is taken for a duplicate.
ConfirmedDuplicates(s) ==
  {o \in recent : purchase[o] = purchase[s] /\ status[o] = "CONFIRMED"}

\* Mutant: the total is not compared.
AnyDuplicates(s) == {o \in recent : status[o] \notin {"CANCELLED", "FAILED"}}

Duplicates(s) ==
  {o \in recent : /\ purchase[o] = purchase[s]
                  /\ status[o] \notin {"CANCELLED", "FAILED"}}

\* A second submission of one purchase is answered with the first one's order.
findRecentDuplicate(s) ==
  /\ phase[s] = "duplicate"
  /\ \/ \E o \in Duplicates(s) :
          /\ answer' = [answer EXCEPT ![s] = o]
          /\ Goto(s, "answered")
     \/ /\ Duplicates(s) = {}
        /\ Goto(s, "create")
        /\ UNCHANGED answer
  /\ UNCHANGED <<requireOtp, purchase, verdict, rowVars, doneVars,
                 scan, pastVars>>

-----------------------------------------------------------------------------
(* The order, and what follows from it                                      *)

\* The order and its first timeline entry, in one transaction.
createWithTimeline(s) ==
  /\ phase[s] = "create"
  /\ LET otp == requireOtp[s] \/ verdict[s] = "CHALLENGE_OTP" IN
       /\ status' = [status EXCEPT ![s] = IF otp THEN "PENDING_OTP"
                                                 ELSE "CONFIRMED"]
       /\ otpRequired' = [otpRequired EXCEPT ![s] = otp]
  /\ riskAction' = [riskAction EXCEPT ![s] = verdict[s]]
  /\ orders' = orders \cup {s} /\ recent' = recent \cup {s}
  /\ Goto(s, "persist")
  /\ UNCHANGED <<runVars, doneVars, scan, pastVars>>

\* The assessment's own row, then the verdict written to the order again. A
\* failure is swallowed.
persistAssessment(s) ==
  /\ phase[s] = "persist"
  /\ \/ riskAction' = [riskAction EXCEPT ![s] = verdict[s]]
     \/ Outages /\ UNCHANGED riskAction
  /\ Goto(s, IF verdict[s] = "ALLOW" THEN "enqueue" ELSE "flag")
  /\ UNCHANGED <<runVars, orders, recent, status, otpRequired,
                 doneVars, scan, pastVars>>

\* The timeline entry of a flagged order.
appendEvent(s) ==
  /\ phase[s] = "flag" /\ Goto(s, "enqueue")
  /\ UNCHANGED <<runVars, rowVars, doneVars, scan, pastVars>>

\* Whether the gates let an order through. No order of this module is
\* verified or in Shopify when they are asked.
Allows(risk, required) == risk = "ALLOW" /\ ~required

\* The gates look at the order as it was created. A failure to queue it is
\* swallowed.
Enqueue(s) ==
  /\ phase[s] = "enqueue" /\ Goto(s, "usage")
  /\ \/ /\ queued' = IF Allows(verdict[s], otpRequired[s]) THEN queued \cup {s}
                                                           ELSE queued
        /\ UNCHANGED failed
     \/ /\ Outages /\ Allows(verdict[s], otpRequired[s])
        /\ failed' = failed \cup {s}
        /\ UNCHANGED queued
  /\ UNCHANGED <<runVars, rowVars, counted, scan, since,
                 lapsed, peak>>

\* The order is counted for its day, which DailyStats models, and in the
\* month's usage; a failure of either is swallowed. Then the buyer is answered.
recordUsage(s) ==
  /\ phase[s] = "usage" /\ Goto(s, "answered")
  /\ \/ counted' = counted \cup {s} /\ UNCHANGED failed
     \/ Outages /\ failed' = failed \cup {s} /\ UNCHANGED counted
  /\ answer' = [answer EXCEPT ![s] = s]
  /\ UNCHANGED <<requireOtp, purchase, verdict, rowVars, queued,
                 scan, since, lapsed, peak>>

\* Any other await may throw, and the process may die at any: the buyer sees
\* an error, also when the order is stored.
Fail(s) ==
  /\ Outages
  /\ phase[s] \in Pending
  /\ Goto(s, "error")
  /\ failed' = failed \cup {s}
  /\ UNCHANGED <<runVars, rowVars, doneVars, scan, since, lapsed, peak>>

-----------------------------------------------------------------------------
(* Meanwhile                                                                *)

\* The duplicate window of an order passes.
Expire(o) ==
  /\ o \in recent
  /\ recent' = recent \ {o}
  /\ lapsed' = lapsed \cup {o}
  /\ UNCHANGED <<phase, runVars, orders, status, riskAction,
                 otpRequired, doneVars, scan, since, failed, peak>>

SetStatus(o, st) ==
  /\ status' = [status EXCEPT ![o] = st]
  /\ lapsed' = IF st \in {"FAILED", "CANCELLED"} THEN lapsed \cup {o} ELSE lapsed
  /\ UNCHANGED <<phase, runVars, orders, recent, riskAction,
                 otpRequired, doneVars, scan, since, failed, peak>>

\* The push job puts the order in Shopify, the gates read afresh.
Push(o) ==
  /\ o \in queued /\ status[o] = "CONFIRMED"
  /\ Allows(riskAction[o], otpRequired[o])
  /\ SetStatus(o, "PUSHED_TO_SHOPIFY")

\* The push job uses up its attempts.
markPushExhausted(o) ==
  o \in queued /\ status[o] = "CONFIRMED" /\ SetStatus(o, "FAILED")

\* A webhook says the Shopify order was cancelled.
ordersCancelled(o) ==
  status[o] = "PUSHED_TO_SHOPIFY" /\ SetStatus(o, "CANCELLED")

\* The fraud-scan job of an order reads it, unless it is in Shopify.
ScanRead(o) ==
  /\ o \in orders \cap Rescanned /\ scan[o] = "idle"
  /\ status[o] \notin {"PUSHED_TO_SHOPIFY", "CANCELLED"}
  /\ scan' = [scan EXCEPT ![o] = IF riskAction[o] = "ALLOW" THEN "clear"
                                                            ELSE "flagged"]
  /\ UNCHANGED <<phase, runVars, rowVars, doneVars, pastVars>>

Released(read, now) == read = "flagged" /\ now = "ALLOW"

\* The verdict of the settings as they are now is written to the order; a
\* failure to write it is swallowed.
ScanWrite(o) ==
  /\ scan[o] \in {"clear", "flagged"}
  /\ \E a \in Verdicts :
       /\ \/ riskAction' = [riskAction EXCEPT ![o] = a]
          \/ Outages /\ UNCHANGED riskAction
       /\ scan' = [scan EXCEPT ![o] = IF Released(scan[o], a) THEN "release"
                                                                  ELSE "idle"]
  /\ UNCHANGED <<phase, runVars, orders, recent, status, otpRequired,
                 doneVars, pastVars>>

\* Mutant: the gates look at the order as the rescan first read it.
ReleaseAsRead(o) ==
  /\ scan[o] = "release"
  /\ scan' = [scan EXCEPT ![o] = "idle"]
  /\ UNCHANGED <<phase, runVars, rowVars, doneVars, pastVars>>

\* An order the rescan released is read again and queued if its gates agree.
ScanRelease(o) ==
  /\ scan[o] = "release"
  /\ scan' = [scan EXCEPT ![o] = "idle"]
  /\ queued' = IF /\ status[o] \notin {"PUSHED_TO_SHOPIFY", "CANCELLED"}
                  /\ Allows(riskAction[o], otpRequired[o])
               THEN queued \cup {o} ELSE queued
  /\ UNCHANGED <<phase, runVars, rowVars, counted, pastVars>>

\* The job fails, or its enqueueing of the push does.
ScanFails(o) ==
  /\ Outages /\ scan[o] # "idle"
  /\ scan' = [scan EXCEPT ![o] = "idle"]
  /\ failed' = failed \cup {o}
  /\ UNCHANGED <<phase, runVars, rowVars, doneVars, since, lapsed, peak>>

submitOrder(s) ==
  \/ Receive(s) \/ checkUsage(s) \/ Price(s) \/ assessAndRecord(s)
  \/ findRecentDuplicate(s) \/ createWithTimeline(s) \/ persistAssessment(s)
  \/ appendEvent(s) \/ Enqueue(s) \/ recordUsage(s)

Meanwhile(o) ==
  \/ Expire(o) \/ Push(o) \/ markPushExhausted(o) \/ ordersCancelled(o)
  \/ ScanRead(o) \/ ScanWrite(o) \/ ScanRelease(o) \/ ScanFails(o)

Next ==
  \E s \in Submissions : submitOrder(s) \/ Fail(s) \/ Meanwhile(s)

Spec == Init /\ [][Next]_vars

-----------------------------------------------------------------------------
(* Properties                                                               *)

\* A buyer who submits a purchase again once its order is stored gets no
\* second order while the first is alive and in the duplicate window: two
\* such orders only ever come of submissions that overlapped. The look-up and
\* the insert are apart, so those that overlap can both store one
\* (findRecentDuplicate, createWithTimeline).
ResubmissionFindsOrder ==
  \A s \in orders : \A o \in since[s] :
    purchase[o] = purchase[s] => o \in lapsed

\* A shop gets past its month's cap by no more orders than submissions were
\* ever in flight together, less one, and those whose counting failed:
\* reading the usage first and adding to it last costs no more than that.
OvershootBounded == Cardinality(orders \ failed) < Limit + peak

\* The order a buyer is told of exists and is the purchase that was
\* submitted, also when it is another submission's order.
AnswerNamesPurchase ==
  \A s \in Submissions : phase[s] = "answered" =>
    answer[s] \in orders /\ purchase[answer[s]] = purchase[s]

Held(o) ==
  \/ ~Allows(riskAction[o], otpRequired[o])
  \/ scan[o] = "release"

\* An order whose submission met no failure is left to someone: it has a push
\* job, or a gate holds it now, whatever rescans did to its verdict while it
\* was being stored.
StoredIsQueuedOrHeld ==
  \A o \in orders \ failed :
    phase[o] \in {"usage", "answered"} => o \in queued \/ Held(o)
=============================================================================
