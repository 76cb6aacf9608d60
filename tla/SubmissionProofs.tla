-------------------------- MODULE SubmissionProofs --------------------------
(***************************************************************************)
(* What a submission promises, for any number of submissions, purchases    *)
(* and rescans and any cap: a purchase finds its order again, the cap is   *)
(* overshot by overlap only, the answer names the purchase, and a stored   *)
(* order is left to someone.                                               *)
(***************************************************************************)
EXTENDS Submission, FiniteSetTheorems, TLAPS

USE DEF runVars, rowVars, doneVars, pastVars, Goto

-----------------------------------------------------------------------------
(* The inductive invariant                                                  *)

Unstored == {"new", "allowance", "price", "assess", "duplicate", "create"}
Stored == {"persist", "flag", "enqueue", "usage"}

\* Which submissions have a row, and that no other order has one.
RowsAreStored ==
  /\ \A s \in Submissions :
       /\ phase[s] \in Unstored => s \notin orders
       /\ phase[s] \in Stored => s \in orders
       /\ phase[s] \in {"duplicate", "create"} \cup Stored => verdict[s] \in RiskAction
  /\ \A o \in Submissions \ orders : status[o] = Null /\ scan[o] = "idle"

\* An order that was never dead or out of the window can be found.
LivesUntilLapsed ==
  \A o \in orders \ lapsed : o \in recent /\ status[o] \notin {"CANCELLED", "FAILED"}

\* A submission past its look-up has no living order of its purchase before it.
LookedUp ==
  \A s \in Submissions :
    /\ since[s] \subseteq orders
    /\ phase[s] = "create" \/ s \in orders =>
         \A o \in since[s] : purchase[o] = purchase[s] => o \in lapsed

\* What is known of the push job of an order that needs no code: it was queued
\* as it was created, or since a rescan cleared it.
QueuedIfClear ==
  \A o \in orders :
    /\ status[o] \in {"PUSHED_TO_SHOPIFY", "CANCELLED"} => o \in queued
    /\ o \notin failed /\ ~otpRequired[o] /\ o \notin queued =>
         IF verdict[o] = "ALLOW"
         THEN phase[o] \notin {"usage", "answered"}
         ELSE /\ riskAction[o] = "ALLOW" => scan[o] = "release"
              /\ scan[o] # "clear"

\* Submissions that were let through and are not counted yet.
Admitted == {s \in Submissions : phase[s] \in Pending \ {"allowance"}}

\* The cap: usage and what was let through, against what was ever in flight.
AdmittedWithinCap ==
  /\ Cardinality(InFlight(phase)) <= peak
  /\ Cardinality(counted) + Cardinality(Admitted) < Limit + peak
  /\ orders \ failed \subseteq counted \cup Admitted

RowInv == TypeOK /\ RowsAreStored
FindInv == LivesUntilLapsed /\ LookedUp /\ AnswerNamesPurchase

SubmissionInv == RowInv /\ FindInv /\ QueuedIfClear /\ AdmittedWithinCap

-----------------------------------------------------------------------------
(* Rows                                                                     *)

LEMMA SubmissionInvInit ==
  ASSUME SubmissionAssumption
  PROVE  Init => SubmissionInv
<1> SUFFICES ASSUME Init PROVE SubmissionInv
  OBVIOUS
<1>1. InFlight(phase) = {} /\ Admitted = {}
  BY DEF Init, InFlight, Admitted, Pending
<1>2. AdmittedWithinCap
  BY <1>1, FS_EmptySet DEF Init, AdmittedWithinCap, SubmissionAssumption
<1>3. RowInv
  <2>1. Cardinality(Submissions) \in Nat
    BY FS_CardinalityType DEF SubmissionAssumption
  <2> QED
    BY <2>1 DEF Init, RowInv, TypeOK, RowsAreStored, Phase, Unstored, Stored
<1> QED
  BY <1>2, <1>3
     DEF Init, SubmissionInv, FindInv, LivesUntilLapsed, LookedUp, AnswerNamesPurchase, QueuedIfClear

\* A request that arrives is in flight with no more than there are.
LEMMA ReceiveKeepsPeak ==
  ASSUME SubmissionAssumption, RowInv, NEW s \in Submissions, Receive(s)
  PROVE  peak' \in 0..Cardinality(Submissions) /\ peak <= peak' /\ Cardinality(InFlight(phase')) <= peak'
<1>1. InFlight(phase') \subseteq Submissions
  BY DEF InFlight
<1>2. /\ Cardinality(InFlight(phase')) \in Nat /\ Cardinality(Submissions) \in Nat
      /\ Cardinality(InFlight(phase')) <= Cardinality(Submissions)
  BY <1>1, FS_Subset, FS_CardinalityType DEF SubmissionAssumption
<1>3. peak' = IF Cardinality(InFlight(phase')) > peak THEN Cardinality(InFlight(phase')) ELSE peak
  BY DEF Receive
<1> QED
  BY <1>2, <1>3 DEF RowInv, TypeOK

LEMMA RowInvNext ==
  ASSUME SubmissionAssumption, RowInv, [Next]_vars
  PROVE  RowInv'
<1> USE DEF SubmissionAssumption, RowInv, TypeOK, RowsAreStored, Phase, Pending, Unstored, Stored,
            Status, RiskAction
<1>1. CASE UNCHANGED vars
  BY <1>1 DEF vars
<1> SUFFICES ASSUME NEW s \in Submissions, submitOrder(s) \/ Fail(s) \/ Meanwhile(s)
             PROVE  RowInv'
  BY <1>1 DEF Next
<1>2. CASE Receive(s)
  <2>1. /\ phase[s] = "new"
        /\ \E next \in {"allowance", "refused"} : phase' = [phase EXCEPT ![s] = next]
        /\ \/ \E otp \in BOOLEAN : requireOtp' = [requireOtp EXCEPT ![s] = otp]
           \/ UNCHANGED requireOtp
        /\ since' = [since EXCEPT ![s] = orders]
        /\ UNCHANGED <<purchase, verdict, answer, rowVars, doneVars, scan, lapsed, failed>>
    BY <1>2 DEF Receive
  <2>2. peak' \in 0..Cardinality(Submissions)
    BY <1>2, ReceiveKeepsPeak
  <2> QED
    BY <2>1, <2>2
<1>3. CASE checkUsage(s)
  BY <1>3 DEF checkUsage
<1>4. CASE Price(s)
  BY <1>4 DEF Price
<1>5. CASE assessAndRecord(s)
  BY <1>5 DEF assessAndRecord
<1>6. CASE findRecentDuplicate(s)
  BY <1>6 DEF findRecentDuplicate, Duplicates
<1>7. CASE createWithTimeline(s)
  BY <1>7 DEF createWithTimeline
<1>8. CASE persistAssessment(s)
  BY <1>8 DEF persistAssessment
<1>9. CASE appendEvent(s)
  BY <1>9 DEF appendEvent
<1>10. CASE Enqueue(s)
  BY <1>10 DEF Enqueue
<1>11. CASE recordUsage(s)
  BY <1>11 DEF recordUsage
<1>12. CASE Fail(s)
  BY <1>12 DEF Fail
<1>13. CASE Expire(s)
  BY <1>13 DEF Expire
<1>14. CASE Push(s) \/ markPushExhausted(s) \/ ordersCancelled(s)
  BY <1>14 DEF Push, markPushExhausted, ordersCancelled, SetStatus
<1>15. CASE ScanRead(s)
  BY <1>15 DEF ScanRead
<1>16. CASE ScanWrite(s)
  BY <1>16 DEF ScanWrite
<1>17. CASE ScanRelease(s)
  BY <1>17 DEF ScanRelease
<1>18. CASE ScanFails(s)
  BY <1>18 DEF ScanFails
<1> QED
  BY <1>2, <1>3, <1>4, <1>5, <1>6, <1>7, <1>8, <1>9, <1>10, <1>11, <1>12, <1>13, <1>14, <1>15,
     <1>16, <1>17, <1>18 DEF submitOrder, Meanwhile

-----------------------------------------------------------------------------
(* A purchase submitted again                                               *)

\* What a step may do to the rows and purchases that a look-up went by.
LEMMA FindInvNext ==
  ASSUME SubmissionAssumption, RowInv, FindInv, [Next]_vars
  PROVE  FindInv'
<1> USE DEF RowInv, TypeOK, RowsAreStored, FindInv, LivesUntilLapsed, LookedUp,
            AnswerNamesPurchase, Pending, Unstored, Stored
<1>1. CASE UNCHANGED vars
  BY <1>1 DEF vars
<1> SUFFICES ASSUME NEW s \in Submissions, submitOrder(s) \/ Fail(s) \/ Meanwhile(s)
             PROVE  FindInv'
  BY <1>1 DEF Next
<1>2. CASE Receive(s)
  BY <1>2 DEF Receive
<1>3. CASE checkUsage(s)
  BY <1>3 DEF checkUsage
<1>4. CASE Price(s)
  BY <1>4 DEF Price
<1>5. CASE assessAndRecord(s)
  BY <1>5 DEF assessAndRecord
<1>6. CASE findRecentDuplicate(s)
  BY <1>6 DEF findRecentDuplicate, Duplicates
<1>7. CASE createWithTimeline(s)
  BY <1>7 DEF createWithTimeline
<1>8. CASE persistAssessment(s)
  BY <1>8 DEF persistAssessment
<1>9. CASE appendEvent(s)
  BY <1>9 DEF appendEvent
<1>10. CASE Enqueue(s)
  BY <1>10 DEF Enqueue
<1>11. CASE recordUsage(s)
  BY <1>11 DEF recordUsage
<1>12. CASE Fail(s)
  BY <1>12 DEF Fail
<1>13. CASE Expire(s)
  BY <1>13 DEF Expire
<1>14. CASE Push(s) \/ markPushExhausted(s) \/ ordersCancelled(s)
  BY <1>14 DEF Push, markPushExhausted, ordersCancelled, SetStatus
<1>15. CASE ScanRead(s) \/ ScanWrite(s) \/ ScanRelease(s) \/ ScanFails(s)
  BY <1>15 DEF ScanRead, ScanWrite, ScanRelease, ScanFails
<1> QED
  BY <1>2, <1>3, <1>4, <1>5, <1>6, <1>7, <1>8, <1>9, <1>10, <1>11, <1>12, <1>13, <1>14, <1>15
     DEF submitOrder, Meanwhile

-----------------------------------------------------------------------------
(* A stored order is left to someone                                        *)

LEMMA QueuedIfClearNext ==
  ASSUME SubmissionAssumption, RowInv, QueuedIfClear, [Next]_vars
  PROVE  QueuedIfClear'
<1> USE DEF RowInv, TypeOK, RowsAreStored, QueuedIfClear, Pending, Unstored, Stored
<1>1. CASE UNCHANGED vars
  BY <1>1 DEF vars
<1> SUFFICES ASSUME NEW s \in Submissions, submitOrder(s) \/ Fail(s) \/ Meanwhile(s)
             PROVE  QueuedIfClear'
  BY <1>1 DEF Next
<1>2. CASE Receive(s) \/ checkUsage(s) \/ Price(s) \/ assessAndRecord(s) \/ findRecentDuplicate(s)
  BY <1>2 DEF Receive, checkUsage, Price, assessAndRecord, findRecentDuplicate
<1>3. CASE createWithTimeline(s)
  BY <1>3 DEF createWithTimeline
<1>4. CASE persistAssessment(s)
  BY <1>4 DEF persistAssessment
<1>5. CASE appendEvent(s) \/ Fail(s)
  BY <1>5 DEF appendEvent, Fail
<1>6. CASE Enqueue(s)
  BY <1>6 DEF Enqueue, Allows
<1>7. CASE recordUsage(s)
  BY <1>7 DEF recordUsage
<1>8. CASE Expire(s) \/ Push(s) \/ markPushExhausted(s) \/ ordersCancelled(s)
  BY <1>8 DEF Expire, Push, markPushExhausted, ordersCancelled, SetStatus
<1>9. CASE ScanRead(s)
  BY <1>9 DEF ScanRead
<1>10. CASE ScanWrite(s)
  BY <1>10 DEF ScanWrite, Released
<1>11. CASE ScanRelease(s)
  BY <1>11 DEF ScanRelease, Allows
<1>12. CASE ScanFails(s)
  BY <1>12 DEF ScanFails
<1> QED
  BY <1>2, <1>3, <1>4, <1>5, <1>6, <1>7, <1>8, <1>9, <1>10, <1>11, <1>12
     DEF submitOrder, Meanwhile

-----------------------------------------------------------------------------
(* The cap                                                                  *)

LEMMA CapSetsFinite ==
  ASSUME SubmissionAssumption, RowInv
  PROVE  /\ IsFiniteSet(InFlight(phase)) /\ Cardinality(InFlight(phase)) \in Nat
         /\ IsFiniteSet(Admitted) /\ Cardinality(Admitted) \in Nat
         /\ IsFiniteSet(counted) /\ Cardinality(counted) \in Nat
         /\ peak \in Nat /\ Limit \in Nat \ {0}
<1>1. InFlight(phase) \subseteq Submissions /\ Admitted \subseteq Submissions
      /\ counted \subseteq Submissions
  BY DEF InFlight, Admitted, RowInv, TypeOK
<1>2. Cardinality(Submissions) \in Nat
  BY FS_CardinalityType DEF SubmissionAssumption
<1> QED
  BY <1>1, <1>2, FS_Subset, FS_CardinalityType DEF SubmissionAssumption, RowInv, TypeOK

\* Who is let through or comes to an end changes the sum as the cap allows.
LEMMA CapKept ==
  ASSUME SubmissionAssumption, RowInv, RowInv', AdmittedWithinCap,
         InFlight(phase)' \subseteq InFlight(phase), Admitted' \subseteq Admitted,
         UNCHANGED <<counted, peak>>,
         orders' \ failed' \subseteq counted' \cup Admitted'
  PROVE  AdmittedWithinCap'
<1>1. /\ Cardinality(InFlight(phase)') <= Cardinality(InFlight(phase))
      /\ Cardinality(Admitted') <= Cardinality(Admitted)
  BY CapSetsFinite, FS_Subset
<1>2. Cardinality(InFlight(phase)') \in Nat /\ Cardinality(Admitted') \in Nat
  <2>1. InFlight(phase)' \subseteq Submissions /\ Admitted' \subseteq Submissions
    BY DEF InFlight, Admitted
  <2> QED
    BY <2>1, FS_Subset, FS_CardinalityType DEF SubmissionAssumption
<1> QED
  BY <1>1, <1>2, CapSetsFinite DEF AdmittedWithinCap, InFlight

LEMMA CapNext ==
  ASSUME SubmissionAssumption, RowInv, AdmittedWithinCap, [Next]_vars
  PROVE  AdmittedWithinCap'
<1>1. RowInv'
  BY RowInvNext
<1> DEFINE Same == /\ InFlight(phase)' \subseteq InFlight(phase) /\ Admitted' \subseteq Admitted
                   /\ UNCHANGED <<counted, peak>>
                   /\ orders' \ failed' \subseteq counted' \cup Admitted'
<1>2. Same => AdmittedWithinCap'
  BY <1>1, CapKept
<1> HIDE DEF Same
<1>3. CASE UNCHANGED vars
  BY <1>2, <1>3 DEF vars, Same, AdmittedWithinCap, InFlight, Admitted
<1> SUFFICES ASSUME NEW s \in Submissions, submitOrder(s) \/ Fail(s) \/ Meanwhile(s)
             PROVE  AdmittedWithinCap'
  BY <1>3 DEF Next
<1> USE DEF Pending, RowInv, TypeOK
<1>4. CASE Receive(s)
  <2>1. /\ phase[s] = "new"
        /\ \E next \in {"allowance", "refused"} : phase' = [phase EXCEPT ![s] = next]
        /\ UNCHANGED <<counted, orders, failed>>
    BY <1>4 DEF Receive
  <2>2. Admitted' = Admitted
    BY <2>1 DEF Admitted
  <2>3. peak <= peak' /\ peak' \in Nat /\ Cardinality(InFlight(phase)') <= peak'
    <3>1. Cardinality(Submissions) \in Nat
      BY FS_CardinalityType DEF SubmissionAssumption
    <3>2. InFlight(phase)' = InFlight(phase')
      BY DEF InFlight
    <3> QED
      BY <1>4, <3>1, <3>2, ReceiveKeepsPeak
  <2>4. Cardinality(counted') + Cardinality(Admitted') < Limit + peak'
    BY <2>1, <2>2, <2>3, CapSetsFinite DEF AdmittedWithinCap
  <2> QED
    BY <2>1, <2>2, <2>3, <2>4 DEF AdmittedWithinCap
<1>5. CASE checkUsage(s)
  <2>1. CASE Cardinality(counted) < Limit /\ phase' = [phase EXCEPT ![s] = "price"]
    <3>1. /\ phase[s] = "allowance" /\ UNCHANGED <<counted, orders, failed, peak>>
      BY <1>5 DEF checkUsage
    <3>2. InFlight(phase)' = InFlight(phase) /\ Admitted' \subseteq InFlight(phase)
          /\ Admitted \subseteq Admitted'
      BY <2>1, <3>1 DEF InFlight, Admitted
    <3>3. Cardinality(Admitted') <= peak /\ Cardinality(Admitted') \in Nat
      <4>1. Cardinality(Admitted') <= Cardinality(InFlight(phase)) /\ IsFiniteSet(Admitted')
        BY <3>2, CapSetsFinite, FS_Subset
      <4>2. Cardinality(Admitted') \in Nat
        BY <4>1, FS_CardinalityType
      <4> QED
        BY <4>1, <4>2, CapSetsFinite DEF AdmittedWithinCap
    <3>4. Cardinality(counted') + Cardinality(Admitted') < Limit + peak'
      BY <2>1, <3>1, <3>3, CapSetsFinite
    <3> QED
      BY <3>1, <3>2, <3>4 DEF AdmittedWithinCap
  <2>2. CASE phase' = [phase EXCEPT ![s] = "refused"]
    BY <1>2, <1>5, <2>2 DEF checkUsage, Same, InFlight, Admitted, AdmittedWithinCap
  <2> QED
    BY <1>5, <2>1, <2>2 DEF checkUsage, WithinLimit
<1>6. CASE Price(s) \/ assessAndRecord(s) \/ findRecentDuplicate(s)
  BY <1>2, <1>6 DEF Price, assessAndRecord, findRecentDuplicate, Same, RowsAreStored, Unstored,
                    InFlight, Admitted, AdmittedWithinCap
<1>7. CASE createWithTimeline(s) \/ persistAssessment(s) \/ appendEvent(s) \/ Enqueue(s)
  BY <1>2, <1>7 DEF createWithTimeline, persistAssessment, appendEvent, Enqueue, Same,
                    InFlight, Admitted, AdmittedWithinCap
<1>8. CASE recordUsage(s)
  <2>1. /\ phase[s] = "usage" /\ phase' = [phase EXCEPT ![s] = "answered"]
        /\ UNCHANGED <<orders, peak>>
    BY <1>8 DEF recordUsage
  <2>2. CASE UNCHANGED counted
    BY <1>2, <1>8, <2>1, <2>2 DEF recordUsage, Same, InFlight, Admitted, AdmittedWithinCap
  <2>3. CASE counted' = counted \cup {s} /\ UNCHANGED failed
    <3>1. s \in Admitted /\ Admitted' = Admitted \ {s} /\ InFlight(phase)' \subseteq InFlight(phase)
      BY <2>1 DEF InFlight, Admitted
    <3>2. Cardinality(Admitted') = Cardinality(Admitted) - 1
      <4>1. Cardinality(Admitted \ {s}) = Cardinality(Admitted) - 1
        BY <3>1, CapSetsFinite, FS_RemoveElement
      <4> QED
        BY <3>1, <4>1
    <3>3. Cardinality(counted') <= Cardinality(counted) + 1 /\ Cardinality(counted') \in Nat
      <4>1. /\ IsFiniteSet(counted \cup {s})
            /\ \/ Cardinality(counted \cup {s}) = Cardinality(counted)
               \/ Cardinality(counted \cup {s}) = Cardinality(counted) + 1
        BY CapSetsFinite, FS_AddElement
      <4> QED
        BY <2>3, <4>1, CapSetsFinite
    <3>4. Cardinality(InFlight(phase)') <= Cardinality(InFlight(phase))
          /\ Cardinality(InFlight(phase)') \in Nat
      BY <3>1, CapSetsFinite, FS_Subset, FS_CardinalityType
    <3>5. Cardinality(counted') + Cardinality(Admitted') < Limit + peak'
      BY <2>1, <3>2, <3>3, CapSetsFinite DEF AdmittedWithinCap
    <3>6. orders' \ failed' \subseteq counted' \cup Admitted'
      BY <2>1, <2>3, <3>1 DEF AdmittedWithinCap
    <3>7. Cardinality(InFlight(phase)') <= peak'
      BY <2>1, <3>4, CapSetsFinite DEF AdmittedWithinCap
    <3> QED
      BY <3>5, <3>6, <3>7 DEF AdmittedWithinCap
  <2> QED
    BY <1>8, <2>2, <2>3 DEF recordUsage
<1>9. CASE Fail(s)
  BY <1>2, <1>9 DEF Fail, Same, InFlight, Admitted, AdmittedWithinCap
<1>10. CASE Meanwhile(s)
  BY <1>2, <1>10 DEF Meanwhile, Expire, Push, markPushExhausted, ordersCancelled, SetStatus,
                     ScanRead, ScanWrite, ScanRelease, ScanFails, Same, InFlight,
                     Admitted, AdmittedWithinCap
<1> QED
  BY <1>4, <1>5, <1>6, <1>7, <1>8, <1>9, <1>10 DEF submitOrder

-----------------------------------------------------------------------------
(* The theorems                                                             *)

LEMMA SubmissionInvNext ==
  ASSUME SubmissionAssumption
  PROVE  SubmissionInv /\ [Next]_vars => SubmissionInv'
  BY RowInvNext, FindInvNext, QueuedIfClearNext, CapNext DEF SubmissionInv

\* What the invariant says of the cap, in the property's words.
LEMMA OvershootFollows ==
  ASSUME SubmissionAssumption, SubmissionInv
  PROVE  OvershootBounded
<1> USE DEF SubmissionInv
<1>1. orders \ failed \subseteq counted \cup Admitted
  BY DEF AdmittedWithinCap
<1>2. /\ IsFiniteSet(counted \cup Admitted) /\ Cardinality(counted \cup Admitted) \in Nat
      /\ Cardinality(counted \cup Admitted) <= Cardinality(counted) + Cardinality(Admitted)
  <2>1. IsFiniteSet(counted) /\ IsFiniteSet(Admitted)
    BY CapSetsFinite
  <2>2. IsFiniteSet(counted \cap Admitted) /\ Cardinality(counted \cap Admitted) \in Nat
    BY <2>1, FS_Intersection, FS_CardinalityType
  <2>3. /\ IsFiniteSet(counted \cup Admitted)
        /\ Cardinality(counted \cup Admitted)
             = Cardinality(counted) + Cardinality(Admitted) - Cardinality(counted \cap Admitted)
    BY <2>1, FS_Union
  <2>4. Cardinality(counted \cup Admitted) \in Nat
    BY <2>3, FS_CardinalityType
  <2> QED
    BY <2>2, <2>3, <2>4, CapSetsFinite
<1>3. Cardinality(orders \ failed) <= Cardinality(counted \cup Admitted)
      /\ Cardinality(orders \ failed) \in Nat
  BY <1>1, <1>2, FS_Subset, FS_CardinalityType
<1> QED
  BY <1>2, <1>3, CapSetsFinite DEF AdmittedWithinCap, OvershootBounded

\* The parts of the invariant that are properties, or give one.
LEMMA SubmissionInvGives ==
  ASSUME SubmissionAssumption, SubmissionInv
  PROVE  /\ TypeOK /\ ResubmissionFindsOrder /\ OvershootBounded
         /\ AnswerNamesPurchase /\ StoredIsQueuedOrHeld
<1>1. ResubmissionFindsOrder
  BY DEF SubmissionInv, FindInv, LookedUp, ResubmissionFindsOrder, RowInv, TypeOK
<1>2. StoredIsQueuedOrHeld
  BY DEF SubmissionInv, QueuedIfClear, StoredIsQueuedOrHeld, Held, Allows
<1> QED
  BY <1>1, <1>2, OvershootFollows DEF SubmissionInv, RowInv, FindInv

\* The promises of a submission, whatever overlaps, fails or dies: a purchase
\* submitted again finds its living order; the plan's cap is overshot by fewer
\* orders than were ever in flight together; the answer names an order of what
\* was submitted; a stored order has a push job or a gate holds it.
THEOREM SubmissionIsSound ==
  ASSUME SubmissionAssumption
  PROVE  Spec => [](/\ TypeOK /\ ResubmissionFindsOrder /\ OvershootBounded
                    /\ AnswerNamesPurchase /\ StoredIsQueuedOrHeld)
  BY SubmissionInvInit, SubmissionInvNext, SubmissionInvGives, PTL DEF Spec
=============================================================================
