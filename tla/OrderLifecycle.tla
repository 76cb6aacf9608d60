--------------------------- MODULE OrderLifecycle ---------------------------
(***************************************************************************)
(* What Shopify says about an order after it was pushed: webhook receipts, *)
(* the handlers that apply a cancellation, a delivery or a refund to the   *)
(* order row one await at a time, and the dashboard counters they bump.    *)
(***************************************************************************)
EXTENDS Naturals, FiniteSets

CONSTANTS
  Orders,     (* COD orders                                                 *)
  Deliveries, (* webhook ids: bounds how many webhooks Shopify sends        *)
  Procs,      (* requests being handled at once                             *)
  Null,       (* nothing                                                    *)
  Topics,     (* subscribed topics: a subset of Topic                       *)
  Outages,    (* may the database fail, or the process die?                 *)
  Replays     (* does an operator call replay?                              *)

Kind == {"CANCELLED", "FULFILLED", "RETURNED"}
Topic == {"orders/create", "orders/updated", "orders/cancelled",
          "orders/fulfilled", "refunds/create"}

ASSUME LifecycleAssumption ==
  /\ Null \notin Orders /\ Null \notin Deliveries
  /\ IsFiniteSet(Procs) /\ IsFiniteSet(Deliveries)
  /\ Topics \subseteq Topic
  /\ Outages \in BOOLEAN /\ Replays \in BOOLEAN

VARIABLES
  (* Shopify: which orders it has, and what happened to them.               *)
  inShopify, happened,
  (* The webhooks it sent: topic, order, and what the payload says.         *)
  topic, about, says,
  (* WebhookEvent.status by delivery; "none" until the receipt is inserted. *)
  receipt,
  (* The CodOrder row: shopifyOrderGid known, status, and the timestamps    *)
  (* cancelledAt, fulfilledAt, returnedAt that are set.                     *)
  linked, status, stamped,
  (* How often daily_stats counted the transition of an order.              *)
  counted,
  (* dispatch in each process: its step, delivery, transition, status read. *)
  pc, handling, applying, saw

shopifyVars == <<inShopify, happened, topic, about, says>>
rowVars == <<linked, status, stamped>>
runVars == <<pc, handling, applying, saw>>
vars == <<shopifyVars, receipt, rowVars, counted, runVars>>

Status == {"CONFIRMED", "PUSHED_TO_SHOPIFY"} \cup Kind
Receipt == {"none", "PENDING", "IN_PROGRESS", "SUCCESS", "FAILED"}
HandlerStep == {"idle", "start", "locate", "rename", "again", "write",
                "event", "stats", "finish"}

TypeOK ==
  /\ inShopify \in [Orders -> BOOLEAN]
  /\ happened \in [Orders -> SUBSET Kind]
  /\ topic \in [Deliveries -> Topic \cup {Null}]
  /\ about \in [Deliveries -> Orders \cup {Null}]
  /\ says \in [Deliveries -> SUBSET Kind]
  /\ receipt \in [Deliveries -> Receipt]
  /\ linked \in [Orders -> BOOLEAN]
  /\ status \in [Orders -> Status]
  /\ stamped \in [Orders -> SUBSET Kind]
  /\ counted \in [Orders -> [Kind -> Nat]]
  /\ pc \in [Procs -> HandlerStep]
  /\ handling \in [Procs -> Deliveries \cup {Null}]
  /\ applying \in [Procs -> Kind \cup {Null}]
  /\ saw \in [Procs -> Status \cup {Null}]

Init ==
  /\ inShopify = [o \in Orders |-> FALSE]
  /\ happened = [o \in Orders |-> {}]
  /\ topic = [d \in Deliveries |-> Null]
  /\ about = [d \in Deliveries |-> Null]
  /\ says = [d \in Deliveries |-> {}]
  /\ receipt = [d \in Deliveries |-> "none"]
  /\ linked = [o \in Orders |-> FALSE]
  /\ status = [o \in Orders |-> "CONFIRMED"]
  /\ stamped = [o \in Orders |-> {}]
  /\ counted = [o \in Orders |-> [k \in Kind |-> 0]]
  /\ pc = [p \in Procs |-> "idle"]
  /\ handling = [p \in Procs |-> Null]
  /\ applying = [p \in Procs |-> Null]
  /\ saw = [p \in Procs |-> Null]

-----------------------------------------------------------------------------
(* The push and Shopify                                                     *)

\* draftOrderComplete: the order exists, and the push does not know it yet.
Complete(o) ==
  /\ ~inShopify[o]
  /\ inShopify' = [inShopify EXCEPT ![o] = TRUE]
  /\ UNCHANGED <<happened, topic, about, says, receipt, rowVars, counted, runVars>>

\* pushOrder writes the number and the status once the mutation answered.
Link(o) ==
  /\ inShopify[o] /\ ~linked[o]
  /\ linked' = [linked EXCEPT ![o] = TRUE]
  /\ status' = [status EXCEPT ![o] = "PUSHED_TO_SHOPIFY"]
  /\ UNCHANGED <<shopifyVars, receipt, stamped, counted, runVars>>

\* The merchant or the courier acts on the order in Shopify.
Happen(o, k) ==
  /\ inShopify[o] /\ k \notin happened[o]
  /\ happened' = [happened EXCEPT ![o] = @ \cup {k}]
  /\ UNCHANGED <<inShopify, topic, about, says, receipt, rowVars, counted, runVars>>

TopicOf(k) ==
  CASE k = "CANCELLED" -> "orders/cancelled"
    [] k = "FULFILLED" -> "orders/fulfilled"
    [] k = "RETURNED" -> "refunds/create"

\* One webhook per transition, except that an order may be refunded in parts;
\* orders/updated carries the cancellation and the delivery so far.
Emit(d, o) ==
  /\ topic[d] = Null /\ inShopify[o]
  /\ \E t \in Topics :
       /\ \/ t \in {"orders/create", "orders/updated"}
          \/ \E k \in happened[o] : t = TopicOf(k)
       /\ t \notin {"orders/updated", "refunds/create"} =>
            ~\E e \in Deliveries : about[e] = o /\ topic[e] = t
       /\ topic' = [topic EXCEPT ![d] = t]
       /\ says' = [says EXCEPT ![d] =
                     IF t = "orders/updated" THEN happened[o] \ {"RETURNED"}
                     ELSE {k \in Kind : TopicOf(k) = t}]
  /\ about' = [about EXCEPT ![d] = o]
  /\ UNCHANGED <<inShopify, happened, receipt, rowVars, counted, runVars>>

-----------------------------------------------------------------------------
(* dispatch                                                                 *)

Begin(p, d) ==
  /\ pc[p] = "idle"
  /\ pc' = [pc EXCEPT ![p] = "start"]
  /\ handling' = [handling EXCEPT ![p] = d]
  /\ UNCHANGED <<applying, saw>>

Goto(p, next) == pc' = [pc EXCEPT ![p] = next] /\ UNCHANGED <<handling, applying, saw>>

Leave(p) ==
  /\ pc' = [pc EXCEPT ![p] = "idle"]
  /\ handling' = [handling EXCEPT ![p] = Null]
  /\ applying' = [applying EXCEPT ![p] = Null]
  /\ saw' = [saw EXCEPT ![p] = Null]

\* Mutant: a delivery seen before is handled again.
ReceiveAgain(p, d) ==
  /\ topic[d] # Null
  /\ receipt' = [receipt EXCEPT ![d] = "PENDING"]
  /\ Begin(p, d)
  /\ UNCHANGED <<shopifyVars, rowVars, counted>>

\* recordReceipt inserts under a unique webhook id; a delivery seen before
\* breaks the constraint and is answered without doing anything.
Receive(p, d) ==
  /\ topic[d] # Null
  /\ receipt[d] = "none"
  /\ receipt' = [receipt EXCEPT ![d] = "PENDING"]
  /\ Begin(p, d)
  /\ UNCHANGED <<shopifyVars, rowVars, counted>>

\* replay takes what findPending returned; nothing in the build calls it.
Replay(p, d) ==
  /\ Replays
  /\ receipt[d] \in {"PENDING", "FAILED"}
  /\ Begin(p, d)
  /\ UNCHANGED <<shopifyVars, receipt, rowVars, counted>>

markInProgress(p) ==
  /\ pc[p] = "start"
  /\ receipt' = [receipt EXCEPT ![handling[p]] = "IN_PROGRESS"]
  /\ Goto(p, "locate")
  /\ UNCHANGED <<shopifyVars, rowVars, counted>>

\* The transitions of a payload that the row does not have yet.
Unapplied(d, o) == says[d] \ stamped[o]

\* locate, and what the handler decides on the row it returned. orders/updated
\* calls a second handler, which locates the row again.
Locate(p) ==
  LET d == handling[p]
      o == about[d]
      todo == Unapplied(d, o)
  IN /\ pc[p] = "locate"
     /\ \/ (~linked[o] \/ todo = {}) /\ Goto(p, "finish")
        \/ /\ linked[o] /\ todo # {}
           /\ pc' = [pc EXCEPT ![p] = IF topic[d] = "orders/updated"
                                      THEN "again" ELSE "write"]
           /\ applying' = [applying EXCEPT ![p] =
                             IF "CANCELLED" \in todo THEN "CANCELLED"
                             ELSE CHOOSE k \in todo : TRUE]
           /\ UNCHANGED <<handling, saw>>
        \/ /\ linked[o] /\ topic[d] = "orders/create"
           /\ pc' = [pc EXCEPT ![p] = "rename"]
           /\ saw' = [saw EXCEPT ![p] = status[o]]
           /\ UNCHANGED <<handling, applying>>
     /\ UNCHANGED <<shopifyVars, receipt, rowVars, counted>>

\* Mutant: the handler orders/updated calls sees nothing to do.
AgainIgnores(p) ==
  /\ pc[p] = "again"
  /\ Goto(p, "finish")
  /\ UNCHANGED <<shopifyVars, receipt, rowVars, counted>>

LocateAgain(p) ==
  /\ pc[p] = "again"
  /\ Goto(p, IF applying[p] \in Unapplied(handling[p], about[handling[p]])
             THEN "write" ELSE "finish")
  /\ UNCHANGED <<shopifyVars, receipt, rowVars, counted>>

\* ordersCreate found another order name: it writes the name, and the status
\* it read with it.
Rename(p) ==
  /\ pc[p] = "rename"
  /\ status' = [status EXCEPT ![about[handling[p]]] = saw[p]]
  /\ Goto(p, "finish")
  /\ UNCHANGED <<shopifyVars, receipt, linked, stamped, counted>>

\* Mutant: the counter is bumped before the row is written.
CountFirst(p) ==
  /\ pc[p] = "write"
  /\ counted' = [counted EXCEPT ![about[handling[p]]][applying[p]] = @ + 1]
  /\ Goto(p, "event")
  /\ UNCHANGED <<shopifyVars, receipt, rowVars>>

\* The row first: status and timestamp.
WriteTransition(p) ==
  LET o == about[handling[p]]
  IN /\ pc[p] = "write"
     /\ status' = [status EXCEPT ![o] = applying[p]]
     /\ stamped' = [stamped EXCEPT ![o] = @ \cup {applying[p]}]
     /\ Goto(p, "event")
     /\ UNCHANGED <<shopifyVars, receipt, linked, counted>>

AppendEvent(p) ==
  /\ pc[p] = "event"
  /\ Goto(p, "stats")
  /\ UNCHANGED <<shopifyVars, receipt, rowVars, counted>>

\* The counter after; stats.record logs and swallows a failure.
RecordStats(p) ==
  /\ pc[p] = "stats"
  /\ \/ counted' = [counted EXCEPT ![about[handling[p]]][applying[p]] = @ + 1]
     \/ Outages /\ UNCHANGED counted
  /\ Goto(p, "finish")
  /\ UNCHANGED <<shopifyVars, receipt, rowVars>>

markProcessed(p) ==
  /\ pc[p] = "finish"
  /\ receipt' = [receipt EXCEPT ![handling[p]] = "SUCCESS"]
  /\ Leave(p)
  /\ UNCHANGED <<shopifyVars, rowVars, counted>>

\* An await throws: the failure is put on the receipt, unless that fails too.
\* Shopify is answered 200 either way and does not deliver again.
HandlerThrows(p) ==
  /\ Outages
  /\ pc[p] \in HandlerStep \ {"idle", "stats"}
  /\ \/ receipt' = [receipt EXCEPT ![handling[p]] = "FAILED"]
     \/ UNCHANGED receipt
  /\ Leave(p)
  /\ UNCHANGED <<shopifyVars, rowVars, counted>>

\* The web process dies. Shopify delivers again, to a receipt that exists.
Crash(p) ==
  /\ Outages
  /\ pc[p] # "idle"
  /\ Leave(p)
  /\ UNCHANGED <<shopifyVars, receipt, rowVars, counted>>

-----------------------------------------------------------------------------
Step(p) ==
  \/ markInProgress(p) \/ Locate(p) \/ LocateAgain(p) \/ Rename(p)
  \/ WriteTransition(p) \/ AppendEvent(p) \/ RecordStats(p) \/ markProcessed(p)

Next ==
  \/ \E o \in Orders : Complete(o) \/ Link(o) \/ (\E k \in Kind : Happen(o, k))
  \/ \E d \in Deliveries :
       \/ \E o \in Orders : Emit(d, o)
       \/ \E p \in Procs : Receive(p, d) \/ Replay(p, d)
  \/ \E p \in Procs : Step(p) \/ HandlerThrows(p) \/ Crash(p)

Spec == Init /\ [][Next]_vars

\* Shopify delivers until it is answered, and a handler that started goes on.
Fairness ==
  /\ \A d \in Deliveries : WF_vars(\E p \in Procs : Receive(p, d))
  /\ \A p \in Procs : WF_vars(Step(p))

FairSpec == Spec /\ Fairness

-----------------------------------------------------------------------------
(* Properties                                                               *)

\* The row is the source of truth: a counter never counts a transition the
\* row does not show, whatever fails between the two writes.
CountedOnlyIfStamped ==
  \A o \in Orders, k \in Kind : counted[o][k] > 0 => k \in stamped[o]

Carriers(o, k) == {d \in Deliveries : about[d] = o /\ k \in says[d]}

\* However often Shopify delivers it, one webhook counts its transition at
\* most once: counts never exceed the distinct webhooks that carried it.
CountedPerWebhook ==
  \A o \in Orders, k \in Kind : counted[o][k] <= Cardinality(Carriers(o, k))

Applies(d, k) ==
  topic[d] = TopicOf(k) \/ (topic[d] = "orders/updated" /\ k = "CANCELLED")

\* A webhook about an order whose number is already on the row is applied to
\* the row; an orders/updated that also carries a cancellation applies only it.
WebhookIsApplied ==
  \A d \in Deliveries, o \in Orders, k \in Kind :
    (linked[o] /\ d \in Carriers(o, k) /\ Applies(d, k) /\ receipt[d] = "none")
      ~> k \in stamped[o]
=============================================================================
