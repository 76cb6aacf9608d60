----------------------------- MODULE FraudEngine -----------------------------
(***************************************************************************)
(* One call of the engine (fraud/engine, assess) on an order as it may     *)
(* arrive: of whatever is found of it, on a list or not, under merchant    *)
(* rules, with detectors, reads and the lookup of the address failing or   *)
(* the deadline passing, from a shopper who refused automated decisions or *)
(* did not.                                                                *)
(***************************************************************************)
EXTENDS FraudRules

CONSTANTS
    Suspects,    \* what may be found of an order: per fact, how often
    RuleLists,   \* the rules of merchants
    Configured,  \* their settings
    Known,       \* what an order says of itself
    Failing      \* what may fail of one assessment

\* As the endpoints let them through (fraud/dto; transfer/dto, whose files have thresholds
\* in any order, and of 0 too).
IsRuleList(rules) ==
    /\ Len(rules) \in Nat /\ DOMAIN rules = 1..Len(rules)
    /\ \A i \in DOMAIN rules : rules[i].scoreDelta \in Int /\ rules[i].action \in RiskActions \cup {"none"}
IsSettings(s) ==
    /\ {s.medium, s.high, s.critical} \subseteq 0..100
    /\ \A level \in {"MEDIUM", "HIGH", "CRITICAL"} : s.actionOn[level] \in RiskActions

ASSUME EngineAssumption ==
    /\ Suspects \subseteq [Facts -> Nat]
    /\ \A rules \in RuleLists : IsRuleList(rules)
    /\ \A s \in Configured : IsSettings(s)
    /\ Failing \subseteq SUBSET Failures

VARIABLE
    inquiry      \* [facts, matches, optOut, rules, failed, settings, answer]

Unanswered == [score |-> 0, level |-> "none", action |-> "none", degraded |-> FALSE]
Listed(t, s) == [type |-> t, scope |-> s]

EngineInit ==
    \E facts \in Suspects, optOut \in BOOLEAN, rules \in RuleLists,
       failed \in Failing, settings \in Configured,
       matches \in SUBSET {Listed("BLACKLIST", "PHONE"), Listed("WHITELIST", "EMAIL")} :
        inquiry = [facts |-> facts, optOut |-> optOut, rules |-> rules, failed |-> failed,
                   settings |-> settings, matches |-> matches, answer |-> Unanswered]

\* What an order says of itself agrees with what is found of it: no address of an
\* email, and a connection from another country.
subjectOf(q) ==
    [facts |-> q.facts, matches |-> q.matches, optOut |-> q.optOut,
     order |-> [name \in DOMAIN Known \cup {"email"} |->
                   IF name # "email" THEN Known[name]
                   ELSE IF q.facts["NO_EMAIL"] > 0 THEN Absent ELSE Text("given")],
     ip |-> [resolved |-> TRUE,
             countryCode |-> Text(IF q.facts["IP_COUNTRY_MISMATCH"] > 0 THEN "abroad" ELSE "home")]]

Answer(failed) == assess(subjectOf(inquiry), inquiry.settings, inquiry.rules, failed)

Assess ==
    /\ inquiry.answer = Unanswered
    /\ inquiry' = [inquiry EXCEPT !.answer = Answer(inquiry.failed)]

EngineNext == Assess

EngineSpec == EngineInit /\ [][EngineNext]_inquiry

-----------------------------------------------------------------------------
(* Properties. *)

Answered == inquiry.answer # Unanswered
Looked == inquiry.settings.isEnabled /\ inquiry.failed \cap {"settings", "deadline"} = {}
Heard(t) ==
    /\ Looked /\ "checkBlockList" \in inquiry.settings.checks
    /\ (\E m \in inquiry.matches : m.type = t) /\ "blockList" \notin inquiry.failed
Forces == \E i \in DOMAIN inquiry.rules : inquiry.rules[i].action # "none"

\* The points the rules can add, and what all the detectors can find at once.
PointsOf(rules) == SumFunction([i \in DOMAIN rules |-> Max({0, rules[i].scoreDelta})])
Worst == SumFunction([code \in Facts |-> Points(code, 60)])

\* No rule gives or takes points by one of these fields; no rule takes points.
PointsIgnore(rules, fields) ==
    \A i \in DOMAIN rules :
        rules[i].scoreDelta # 0 => \A c \in rules[i].all \cup rules[i].any : c.field \notin fields
OnlyDoubts(rules) == \A i \in DOMAIN rules : rules[i].scoreDelta >= 0

\* What the rules are told otherwise when something fails.
Misled(failed) == {"riskScore"} \cup (IF "ip" \in failed THEN {"ipCountryCode"} ELSE {})

\* With the settings a shop starts with, one thing odd about an order, however often
\* it is found, is never enough to refuse it.
LoneOddityIsNotRefused ==
    Cardinality({f \in Facts : inquiry.facts[f] > 0}) = 1 /\ DOMAIN inquiry.rules = {}
    /\ inquiry.settings = DefaultSettings /\ ~Heard("BLACKLIST") => inquiry.answer.action # "BLOCK"

\* What the merchant blocked is stopped whatever a rule says; what the merchant
\* trusts is let through whatever is found of it, unless the rules name an action or
\* add what the detectors leave of the thousand points of trust, or a threshold is 0.
ListsDecide ==
    /\ Heard("BLACKLIST") /\ ~Heard("WHITELIST")
          => inquiry.answer.action = (IF inquiry.optOut THEN "REVIEW" ELSE "BLOCK")
    /\ Heard("WHITELIST") /\ ~Forces
       /\ Max({0, Worst + PointsOf(inquiry.rules) - 1000})
             < Min({inquiry.settings.medium, inquiry.settings.high, inquiry.settings.critical})
          => inquiry.answer.action = "ALLOW"

\* Who refused automated decisions is never refused by the engine.
NoRefusalAgainstChoice == inquiry.optOut => inquiry.answer.action # "BLOCK"

\* What fails never counts against the shopper by itself: the score is no higher than
\* it would have been. It can be by the merchant's own hand, which is left out: the
\* list that says the shopper is trusted, rules that take points off and cannot be
\* read, and rules whose points go by the score, or by the country of an address that
\* could not be looked up.
FailureIsNotSuspicion ==
    /\ "blockList" \notin inquiry.failed
    /\ "rules" \in inquiry.failed => OnlyDoubts(inquiry.rules)
    /\ "rules" \notin inquiry.failed => PointsIgnore(inquiry.rules, Misled(inquiry.failed))
    => inquiry.answer.score =< Answer({}).score

\* The verdict on an order (engine.ts, detectors.ts): one signal alone does not
\* refuse it, the lists outrank the score, a choice of the shopper outranks both, and
\* an outage raises the score only through the merchant's lists and rules.
EngineIsFair ==
    Answered => /\ LoneOddityIsNotRefused /\ ListsDecide
                /\ NoRefusalAgainstChoice /\ FailureIsNotSuspicion
=============================================================================
