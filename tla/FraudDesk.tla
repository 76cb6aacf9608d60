------------------------------ MODULE FraudDesk ------------------------------
(***************************************************************************)
(* The orders waiting at the fraud desk (fraud/service, fraud/controller,  *)
(* jobs/scanOrder): merchants edit what the engine reads, every edit that  *)
(* asks for it queues a scan of the waiting orders, and each scan reads    *)
(* the settings, the lists and the rules in steps of its own before it     *)
(* writes its verdict and releases what it allows.                         *)
(***************************************************************************)
EXTENDS FraudRules

CONSTANTS
    Held,        \* waiting orders, numbered in the order they came
    PhoneOf,     \* the phone of each
    FactsOf,     \* what the detectors find of each
    Desks,       \* admin requests at once
    Thresholds,  \* the medium thresholds a merchant tries
    ScanLimit,   \* rescanPending's limit
    MaxDesk,     \* bound on admin requests
    MaxFaults    \* bound on failed reads, lost calls and crashes

ASSUME DeskAssumption ==
    Held \subseteq Nat \ {0} /\ ScanLimit \in Nat /\ MaxDesk \in Nat /\ MaxFaults \in Nat

VARIABLES
    config,      \* [medium, list, rule]: what the engine reads
    order,       \* per order: [action, shipped]
    ip,          \* what the cache says of the shoppers' address
    scan,        \* per order: its scan job
    push,        \* per order: is its push queued?
    request,     \* per admin request: where it stands
    missed,      \* per order: did an edit, a review or a fault leave its verdict behind?
    asked,       \* admin requests so far
    faults       \* faults so far

dvars == <<config, order, ip, scan, push, request, missed, asked, faults>>

Phones == {PhoneOf[o] : o \in Held}
Types == {"BLACKLIST", "WHITELIST"}
Entries == {"none", "live", "lapsed"}
NoScan == [at |-> "none", was |-> "ALLOW", medium |-> 0, resolved |-> FALSE, matches |-> {},
           deaf |-> FALSE, verdict |-> "ALLOW", doubt |-> FALSE]
NoRequest == [at |-> "idle", type |-> "none", drop |-> {}, add |-> {}]

Where == {"none", "waiting", "settings", "lists", "rules", "apply", "release", "kept"}

DeskTypeOK ==
    /\ config \in [medium : Thresholds, list : [Types -> [Phones -> Entries]],
                   rule : {"on", "off", "gone"}]
    /\ order \in [Held -> [action : RiskActions, shipped : BOOLEAN]]
    /\ ip \in {"unknown", "known"}
    /\ scan \in [Held -> [at : Where, was : RiskActions, medium : Thresholds \cup {0},
                          resolved : BOOLEAN, matches : SUBSET [type : Types, scope : {"PHONE"}],
                          deaf : BOOLEAN, verdict : RiskActions, doubt : BOOLEAN]]
    /\ push \in [Held -> {"none", "queued"}]
    /\ request \in [Desks -> [at : {"idle", "delete", "upsert", "rescan"},
                              type : Types \cup {"none"}, drop : SUBSET Phones,
                              add : SUBSET Phones]]
    /\ missed \in [Held -> BOOLEAN] /\ asked \in 0..MaxDesk /\ faults \in 0..MaxFaults

-----------------------------------------------------------------------------
(* The engine on a saved order. *)

\* The one rule of the shop: an order of more than five is worth forty points.
bigOrder == [id |-> "big", all |-> {[field |-> "total", operator |-> "gt", value |-> Number(5)]},
             any |-> {}, scoreDelta |-> 40, action |-> "none"]
listEnabledRules(rule) == IF rule = "on" THEN <<bigOrder>> ELSE <<>>

findBlockListMatches(o, list) ==
    {[type |-> t, scope |-> "PHONE"] : t \in {y \in Types : list[y][PhoneOf[o]] = "live"}}

subjectFromOrder(o, matches, resolved) ==
    [facts |-> FactsOf[o], matches |-> matches, optOut |-> FALSE,
     ip |-> IF resolved THEN [resolved |-> TRUE, countryCode |-> Text("home")] ELSE IP_INTEL_UNKNOWN,
     order |-> [total |-> Number(9)]]

Judged(o, medium, resolved, matches, rules, failed) ==
    assess(subjectFromOrder(o, matches, resolved), [DefaultSettings EXCEPT !.medium = medium],
           rules, failed).action

\* What the engine would say of the order now, its address looked up or not.
VerdictIf(o, resolved) ==
    Judged(o, config.medium, resolved, findBlockListMatches(o, config.list),
           listEnabledRules(config.rule), {})

\* All of it answering.
Verdict(o) == VerdictIf(o, TRUE)

-----------------------------------------------------------------------------
(* The scan job, one step per answer it waits for. *)

Fault == faults < MaxFaults /\ faults' = faults + 1
Scans(o, at) == scan' = [scan EXCEPT ![o].at = at]
Misses(some) == missed' = [o \in Held |-> missed[o] \/ o \in some]

\* An order that is in Shopify is not judged again.
StartScan(o) ==
    /\ scan[o].at = "waiting"
    /\ scan' = [scan EXCEPT ![o] =
            [NoScan EXCEPT !.at = IF order[o].shipped THEN "kept" ELSE "settings",
                           !.was = order[o].action]]
    /\ missed' = [missed EXCEPT ![o] = FALSE]
    /\ UNCHANGED <<config, order, ip, push, request, asked, faults>>

\* The engine lets through what it cannot judge.
Permits(o) ==
    scan' = [scan EXCEPT ![o].at = "apply", ![o].verdict = permissive.action, ![o].doubt = TRUE]

\* The address is looked up once a day: what the cache says is taken, "unknown" too, or
\* it has lapsed, and the provider answers or does not.
lookupIp(resolved) ==
    /\ ip' = IF resolved THEN "known" ELSE "unknown"
    /\ IF ip = "known" /\ ~resolved THEN Fault ELSE UNCHANGED faults

ReadSettings(o) ==
    /\ scan[o].at = "settings"
    /\ \/ \E resolved \in BOOLEAN :
            /\ lookupIp(resolved)
            /\ scan' = [scan EXCEPT ![o].at = "lists", ![o].medium = config.medium,
                                    ![o].resolved = resolved, ![o].doubt = ~resolved]
       \/ Fault /\ Permits(o) /\ UNCHANGED ip
    /\ UNCHANGED <<config, order, push, request, missed, asked>>

\* A match is only told once its hit is counted: the count failing loses the match.
ReadLists(o) ==
    /\ scan[o].at = "lists"
    /\ \/ /\ scan' = [scan EXCEPT ![o].at = "rules",
                                  ![o].matches = findBlockListMatches(o, config.list)]
          /\ UNCHANGED faults
       \/ /\ Fault
          /\ scan' = [scan EXCEPT ![o].at = "rules", ![o].deaf = TRUE, ![o].doubt = TRUE]
    /\ UNCHANGED <<config, order, ip, push, request, missed, asked>>

JudgeBy(o, rules) ==
    LET s == scan[o]
    IN Judged(o, s.medium, s.resolved, s.matches, rules, IF s.deaf THEN {"blockList"} ELSE {})

\* Rules that cannot be read are no rules.
ReadRules(o) ==
    /\ scan[o].at = "rules"
    /\ \/ /\ scan' = [scan EXCEPT ![o].at = "apply",
                                  ![o].verdict = JudgeBy(o, listEnabledRules(config.rule))]
          /\ UNCHANGED faults
       \/ /\ Fault
          /\ scan' = [scan EXCEPT ![o].at = "apply", ![o].verdict = JudgeBy(o, <<>>), ![o].doubt = TRUE]
    /\ UNCHANGED <<config, order, ip, push, request, missed, asked>>

\* The deadline passes while the lists or the rules are read.
Deadline(o) ==
    /\ scan[o].at \in {"lists", "rules"}
    /\ Fault /\ Permits(o)
    /\ UNCHANGED <<config, order, ip, push, request, missed, asked>>

\* The verdict is written, or is not and nobody is told; only a change goes on.
persistAssessment(o) ==
    /\ scan[o].at = "apply"
    /\ LET s == scan[o]
       IN /\ Scans(o, IF s.was = s.verdict THEN "kept" ELSE "release")
          /\ \/ /\ order' = [order EXCEPT ![o].action = s.verdict]
                /\ Misses(IF s.doubt THEN {o} ELSE {}) /\ UNCHANGED faults
             \/ Fault /\ Misses({o}) /\ UNCHANGED order
    /\ UNCHANGED <<config, ip, push, request, asked>>

\* The order is read again: what the gates let through is queued.
Release(o) ==
    /\ scan[o].at = "release"
    /\ Scans(o, "kept")
    /\ push' = IF scan[o].verdict = "ALLOW" /\ order[o].action = "ALLOW" /\ ~order[o].shipped
               THEN [push EXCEPT ![o] = "queued"] ELSE push
    /\ UNCHANGED <<config, order, ip, request, missed, asked, faults>>

\* The worker dies, or a query throws: the job is run again from its start, or was
\* for the last time.
Retry(o) ==
    /\ scan[o].at \in {"settings", "lists", "rules", "apply", "release"}
    /\ Fault
    /\ \/ Scans(o, "waiting") /\ UNCHANGED missed
       \/ Scans(o, "kept") /\ Misses({o})
    /\ UNCHANGED <<config, order, ip, push, request, asked>>

\* The queue forgets a job that ended, after a day or a thousand others.
Evict(o) ==
    /\ scan[o].at = "kept"
    /\ scan' = [scan EXCEPT ![o] = NoScan]
    /\ UNCHANGED <<config, order, ip, push, request, missed, asked, faults>>

\* The push worker reads the gates again.
Ship(o) ==
    /\ push[o] = "queued"
    /\ push' = [push EXCEPT ![o] = "none"]
    /\ order' = IF order[o].action = "ALLOW" THEN [order EXCEPT ![o].shipped = TRUE] ELSE order
    /\ UNCHANGED <<config, ip, scan, request, missed, asked, faults>>

-----------------------------------------------------------------------------
(* The merchant. Saving the settings, adding to a list, replacing one, and  *)
(* making or switching a rule end with rescanPending; taking one entry off  *)
(* a list and deleting a rule do not.                                       *)

Asks(d) == request[d].at = "idle" /\ asked < MaxDesk /\ asked' = asked + 1
Goes(d, at) == request' = [request EXCEPT ![d] = [NoRequest EXCEPT !.at = at]]
Waiting == {o \in Held : ~order[o].shipped}
OnlyConfig == UNCHANGED <<order, ip, scan, push, faults>>

updateSettings(d, medium) ==
    /\ Asks(d) /\ medium # config.medium
    /\ config' = [config EXCEPT !.medium = medium]
    /\ Goes(d, "rescan")
    /\ OnlyConfig /\ UNCHANGED missed

\* An entry that had lapsed is live again.
upsertBlockListEntry(t, p) == config' = [config EXCEPT !.list[t][p] = "live"]

addBlockListEntry(d, t, p) ==
    /\ Asks(d) /\ config.list[t][p] # "live"
    /\ upsertBlockListEntry(t, p)
    /\ Goes(d, "rescan")
    /\ OnlyConfig /\ UNCHANGED missed

removeBlockListEntry(d, t, p) ==
    /\ Asks(d) /\ config.list[t][p] # "none"
    /\ config' = [config EXCEPT !.list[t][p] = "none"]
    /\ Misses(Held)
    /\ OnlyConfig /\ UNCHANGED request

\* Mutant: a rule that is switched is not asked of the orders that wait.
QuietUpdate(d) ==
    /\ Asks(d) /\ config.rule # "gone"
    /\ config' = [config EXCEPT !.rule = IF config.rule = "on" THEN "off" ELSE "on"]
    /\ OnlyConfig /\ UNCHANGED <<missed, request>>

updateRule(d) ==
    /\ Asks(d) /\ config.rule # "gone"
    /\ config' = [config EXCEPT !.rule = IF config.rule = "on" THEN "off" ELSE "on"]
    /\ Goes(d, "rescan")
    /\ OnlyConfig /\ UNCHANGED missed

createRule(d) ==
    /\ Asks(d) /\ config.rule = "gone"
    /\ config' = [config EXCEPT !.rule = "on"]
    /\ Goes(d, "rescan")
    /\ OnlyConfig /\ UNCHANGED missed

deleteRule(d) ==
    /\ Asks(d) /\ config.rule # "gone"
    /\ config' = [config EXCEPT !.rule = "gone"]
    /\ Misses(Held)
    /\ OnlyConfig /\ UNCHANGED request

\* What is gone from the list is dropped and what is new is added; the rest stays, and
\* stays lapsed where it had lapsed.
replaceBlockList(d, t, wanted) ==
    /\ Asks(d)
    /\ LET have == {p \in Phones : config.list[t][p] # "none"}
       IN request' = [request EXCEPT ![d] = [at |-> "delete", type |-> t, drop |-> have \ wanted,
                                             add |-> wanted \ have]]
    /\ UNCHANGED <<config, missed>> /\ OnlyConfig

deleteFromScope(d) ==
    /\ request[d].at = "delete"
    /\ config' = [config EXCEPT !.list[request[d].type] =
            [p \in Phones |-> IF p \in request[d].drop THEN "none" ELSE @[p]]]
    /\ request' = [request EXCEPT ![d].at = "upsert"]
    /\ UNCHANGED <<missed, asked>> /\ OnlyConfig

UpsertNext(d) ==
    /\ request[d].at = "upsert"
    /\ \/ \E p \in request[d].add :
            /\ upsertBlockListEntry(request[d].type, p)
            /\ request' = [request EXCEPT ![d].add = @ \ {p}]
       \/ request[d].add = {} /\ Goes(d, "rescan") /\ UNCHANGED config
    /\ UNCHANGED <<missed, asked>> /\ OnlyConfig

\* A request cut off leaves the list as it stands and queues nothing.
CutOff(d) ==
    /\ request[d].at # "idle" /\ Fault
    /\ Goes(d, "idle") /\ Misses(Held)
    /\ UNCHANGED <<config, order, ip, scan, push, asked>>

Newest(some) == {o \in some : Cardinality({n \in some : n > o}) < ScanLimit}

\* BullMQ ignores an id it still holds: a job that waits will see the edit, one that
\* runs or has ended will not.
rescanPending(d) ==
    /\ request[d].at = "rescan" /\ Goes(d, "idle")
    /\ LET found == Newest(Waiting)
           free == {o \in found : scan[o].at = "none"}
       IN \/ /\ scan' = [o \in Held |-> IF o \in free THEN [NoScan EXCEPT !.at = "waiting"] ELSE scan[o]]
             /\ Misses({o \in Held \ free : scan[o].at # "waiting"})
             /\ UNCHANGED faults
          \/ Fault /\ Misses(Held) /\ UNCHANGED scan
    /\ UNCHANGED <<config, order, ip, push, asked>>

\* A merchant's own decision, which queues nothing, and a scan done in the request.
reviewAssessment(d, o, decision) ==
    /\ Asks(d) /\ decision # order[o].action
    /\ order' = [order EXCEPT ![o].action = decision]
    /\ Misses({o})
    /\ UNCHANGED <<config, ip, scan, push, request, faults>>

rescan(d, o) ==
    /\ Asks(d)
    /\ \E resolved \in BOOLEAN :
          /\ lookupIp(resolved) /\ VerdictIf(o, resolved) # order[o].action
          /\ order' = [order EXCEPT ![o].action = VerdictIf(o, resolved)]
    /\ Misses({o})
    /\ UNCHANGED <<config, scan, push, request>>

-----------------------------------------------------------------------------
DeskInit ==
    /\ config = [medium |-> Min(Thresholds), list |-> [t \in Types |-> [p \in Phones |->
                    IF t = "BLACKLIST" /\ p = PhoneOf[Min(Held)] THEN "lapsed" ELSE "none"]],
                 rule |-> "off"]
    /\ ip = "known"
    /\ order = [o \in Held |-> [action |-> Verdict(o), shipped |-> FALSE]]
    /\ scan = [o \in Held |-> NoScan]
    /\ push = [o \in Held |-> "none"]
    /\ request = [d \in Desks |-> NoRequest]
    /\ missed = [o \in Held |-> FALSE]
    /\ asked = 0 /\ faults = 0

ScanStep(o) ==
    \/ StartScan(o) \/ ReadSettings(o) \/ ReadLists(o) \/ ReadRules(o)
    \/ persistAssessment(o) \/ Release(o)
DeskStep(d) == deleteFromScope(d) \/ UpsertNext(d) \/ rescanPending(d)

EditOrReview(d) ==
    \/ \E medium \in Thresholds : updateSettings(d, medium)
    \/ \E t \in Types, p \in Phones : addBlockListEntry(d, t, p) \/ removeBlockListEntry(d, t, p)
    \/ \E t \in Types, wanted \in SUBSET Phones : replaceBlockList(d, t, wanted)
    \/ updateRule(d) \/ createRule(d) \/ deleteRule(d)
    \/ \E o \in Held : rescan(d, o) \/ \E a \in RiskActions : reviewAssessment(d, o, a)

DeskWorks == (\E o \in Held : ScanStep(o)) \/ (\E d \in Desks : DeskStep(d))
DeskNext ==
    \/ DeskWorks
    \/ \E d \in Desks : EditOrReview(d) \/ CutOff(d)
    \/ \E o \in Held : Deadline(o) \/ Retry(o) \/ Evict(o) \/ Ship(o)

\* What is queued is run, and what is asked is carried through.
DeskSpec == DeskInit /\ [][DeskNext]_dvars /\ WF_dvars(DeskWorks)

-----------------------------------------------------------------------------
(* Properties. *)

\* Once the requests and the scans of an order that has not shipped are over, its
\* verdict is the one the engine gives it of the configuration as it stands, however
\* edits, replacements and scans interleaved (scanOrder.ts, service.ts rescanPending).
\* Left out is what the code does not go back to: an edit that queues no scan, a scan
\* whose id the queue still held, a read that failed, a merchant's own decision.
DeskAgrees ==
    (\A d \in Desks : request[d].at = "idle") =>
        \A o \in Held : scan[o].at \in {"none", "kept"} /\ ~order[o].shipped /\ ~missed[o]
                            => order[o].action = Verdict(o)

\* Every edit that asks for it is answered and every scan that is queued ends.
DeskSettles ==
    /\ \A o \in Held : []<>(scan[o].at \in {"none", "kept"})
    /\ \A d \in Desks : []<>(request[d].at = "idle")
=============================================================================
