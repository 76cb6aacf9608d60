----------------------------- MODULE FraudRules -----------------------------
(***************************************************************************)
(* How an order's risk is judged: the detectors (fraud/detectors), the     *)
(* merchant's rules (fraud/rules) and the engine that turns their signals  *)
(* into a score, a level and an action (fraud/engine).                     *)
(*                                                                         *)
(* What is known of an order is a number per fact: how many orders share   *)
(* its phone, how far a limit is exceeded, or 1 for what is only so or not *)
(* so. Texts are opaque: one contains another when they are equal.         *)
(***************************************************************************)
EXTENDS Integers, FiniteSets, Sequences, FiniteSetsExt, Functions

RISK_SCORE_MIN == 0
RISK_SCORE_MAX == 100

RiskActions == {"ALLOW", "REVIEW", "CHALLENGE_OTP", "BLOCK"}

\* What a detector may find, and the weight of each signal.
weight(code) ==
    CASE code = "DUPLICATE_PHONE" -> 18 [] code = "DUPLICATE_EMAIL" -> 15
      [] code = "DUPLICATE_ADDRESS" -> 12 [] code = "VELOCITY_PHONE" -> 30
      [] code = "VELOCITY_IP" -> 25 [] code = "DAILY_LIMIT_PHONE" -> 35
      [] code \in {"DAILY_LIMIT_IP", "DAILY_LIMIT_EMAIL", "DAILY_LIMIT_DEVICE"} -> 30
      [] code = "TOO_MANY_OPEN_ORDERS" -> 25 [] code = "EXCESSIVE_QUANTITY" -> 40
      [] code = "DISPOSABLE_EMAIL" -> 35 [] code = "FAKE_PHONE" -> 45
      [] code = "PHONE_NOT_MOBILE" -> 8 [] code = "NO_EMAIL" -> 4
      [] code = "IP_IS_VPN" -> 25 [] code \in {"IP_IS_PROXY", "IP_REPUTATION"} -> 30
      [] code = "IP_IS_TOR" -> 60 [] code = "IP_IS_HOSTING" -> 35
      [] code = "IP_COUNTRY_MISMATCH" -> 15 [] code = "HIGH_RISK_COUNTRY" -> 20
      [] code = "PRIOR_CANCELLATIONS" -> 30 [] code = "PRIOR_RETURNS" -> 25

duplicates == {"DUPLICATE_PHONE", "DUPLICATE_EMAIL", "DUPLICATE_ADDRESS"}
velocity == {"VELOCITY_PHONE", "DAILY_LIMIT_PHONE", "TOO_MANY_OPEN_ORDERS", "VELOCITY_IP",
             "DAILY_LIMIT_IP", "DAILY_LIMIT_DEVICE", "DAILY_LIMIT_EMAIL"}
quantity == {"EXCESSIVE_QUANTITY"}
history == {"PRIOR_CANCELLATIONS", "PRIOR_RETURNS"}
identity == {"DISPOSABLE_EMAIL", "FAKE_PHONE", "PHONE_NOT_MOBILE", "NO_EMAIL"}
network == {"IP_IS_VPN", "IP_IS_PROXY", "IP_IS_TOR", "IP_IS_HOSTING", "IP_REPUTATION",
            "IP_COUNTRY_MISMATCH"}
geography == {"HIGH_RISK_COUNTRY"}
Facts == duplicates \cup velocity \cup quantity \cup history \cup identity \cup network \cup geography

\* The switch of the settings each signal is behind; what has none is always looked at.
checkOf(code) ==
    CASE code \in duplicates -> code
      [] code = "DAILY_LIMIT_DEVICE" -> "checkDeviceVelocity"
      [] code \in velocity \ {"DAILY_LIMIT_DEVICE"} -> "checkVelocity"
      [] code = "EXCESSIVE_QUANTITY" -> "maxItemsPerOrder"
      [] code = "DISPOSABLE_EMAIL" -> "checkDisposableEmail"
      [] code \in {"FAKE_PHONE", "PHONE_NOT_MOBILE"} -> "checkFakePhone"
      [] code = "IP_IS_VPN" -> "checkVpn"
      [] code \in {"IP_IS_PROXY", "IP_IS_HOSTING"} -> "checkProxy"
      [] code = "IP_IS_TOR" -> "checkTor"
      [] code = "IP_REPUTATION" -> "checkIpReputation"
      [] code = "HIGH_RISK_COUNTRY" -> "checkCountryRisk"
      [] OTHER -> "always"

Checks == {checkOf(code) : code \in Facts} \cup {"checkBlockList"}

-----------------------------------------------------------------------------
(* The detectors. A signal is [code, from, weight]: "from" tells apart the  *)
(* scopes of a list and the merchant's rules.                               *)

signal(code, w) == [code |-> code, from |-> code, weight |-> w]

\* Repetition counts, up to three times; so does a history, up to 60 points.
Points(code, n) ==
    CASE code \in duplicates -> Min({weight(code) * n, weight(code) * 3})
      [] code \in history -> Min({weight(code) * n, 60})
      [] OTHER -> weight(code)

\* What one detector reports of its facts.
Reports(codes, facts, settings) ==
    {signal(code, Points(code, facts[code])) :
        code \in {c \in codes : facts[c] > 0 /\ checkOf(c) \in settings.checks}}

\* The lists: an allowed identifier silences the blocked ones.
blockListDetector(matches, settings) ==
    IF "checkBlockList" \notin settings.checks THEN {}
    ELSE IF \E m \in matches : m.type = "WHITELIST" THEN {signal("WHITELISTED", -1000)}
    ELSE {[code |-> "BLACKLISTED", from |-> m.scope, weight |-> 100] : m \in matches}

\* Nothing about the connection is said unless a provider answered.
networkDetector(facts, settings, ipIntel) ==
    IF ipIntel.resolved THEN Reports(network, facts, settings) ELSE {}

Detectors == {"blockList", "duplicates", "velocity", "quantity", "history", "identity", "network",
              "geography"}

\* What an assessment waits for and may not get.
Failures == Detectors \cup {"settings", "ip", "rules", "deadline"}

\* A detector that fails says nothing; the others are heard.
runDetectors(subject, settings, ipIntel, failed) ==
    LET facts == subject.facts
        Ran(name, signals) == IF name \in failed THEN {} ELSE signals
    IN UNION {Ran("blockList", blockListDetector(subject.matches, settings)),
              Ran("duplicates", Reports(duplicates, facts, settings)),
              Ran("velocity", Reports(velocity, facts, settings)),
              Ran("quantity", Reports(quantity, facts, settings)),
              Ran("history", Reports(history, facts, settings)),
              Ran("identity", Reports(identity, facts, settings)),
              Ran("network", networkDetector(facts, settings, ipIntel)),
              Ran("geography", Reports(geography, facts, settings))}

-----------------------------------------------------------------------------
(* The merchant's rules. A value is [text, num]: NaN when it is not a       *)
(* number, an empty text when it is absent.                                 *)

NaN == -1
Absent == [text |-> "", num |-> NaN]
Text(t) == [text |-> t, num |-> NaN]
Number(n) == [text |-> "a number", num |-> n]
Field(context, name) == IF name \in DOMAIN context THEN context[name] ELSE Absent

Same(a, b) == IF NaN \in {a.num, b.num} THEN a.text = b.text ELSE a.num = b.num
Contains(a, b) == b.text = "" \/ Same(a, b)

\* A condition has a "value", or a list of them "among" which to look. A list that is
\* read as a text is its only element, or like nothing an order says of itself.
IsList(c) == "among" \in DOMAIN c
Wanted(c) ==
    IF ~IsList(c) THEN c.value
    ELSE IF c.among = {} THEN Absent
    ELSE IF Cardinality(c.among) = 1 THEN CHOOSE v \in c.among : TRUE ELSE Text("a list")

\* An operator it does not know matches nothing, and neither does a comparison of
\* what is not a number, or a look for the value in what is not a list.
evaluateCondition(c, context) ==
    LET actual == Field(context, c.field)
        wanted == Wanted(c)
        numeric == ~IsList(c) /\ NaN \notin {actual.num, wanted.num}
    IN CASE c.operator = "equals" -> Same(actual, wanted)
         [] c.operator = "not_equals" -> ~Same(actual, wanted)
         [] c.operator = "contains" -> Contains(actual, wanted)
         [] c.operator = "not_contains" -> ~Contains(actual, wanted)
         [] c.operator = "in" -> IsList(c) /\ \E v \in c.among : Same(actual, v)
         [] c.operator = "not_in" -> IsList(c) /\ \A v \in c.among : ~Same(actual, v)
         [] c.operator = "gt" -> numeric /\ actual.num > wanted.num
         [] c.operator = "lt" -> numeric /\ actual.num < wanted.num
         [] c.operator = "gte" -> numeric /\ actual.num >= wanted.num
         [] c.operator = "lte" -> numeric /\ actual.num =< wanted.num
         [] c.operator = "is_empty" -> actual = Absent
         [] c.operator = "is_not_empty" -> actual # Absent
         [] OTHER -> FALSE

\* "all" is looked at before "any"; a rule with neither matches nothing.
evaluateGroup(rule, context) ==
    IF rule.all # {} THEN \A c \in rule.all : evaluateCondition(c, context)
    ELSE \E c \in rule.any : evaluateCondition(c, context)

\* Every match adds its points, and the first that names an action decides.
evaluateRules(rules, context) ==
    LET matched == {i \in DOMAIN rules : evaluateGroup(rules[i], context)}
        deciding == {i \in matched : rules[i].action # "none"}
    IN [signals |-> {[code |-> "CUSTOM_RULE", from |-> rules[i].id, weight |-> rules[i].scoreDelta] :
                        i \in matched},
        forced |-> IF deciding = {} THEN "none" ELSE rules[Min(deciding)].action]

\* The country of the address is absent when it could not be, or was not, looked up.
toRuleContext(subject, riskScore, ipCountryCode) ==
    [name \in DOMAIN subject.order \cup {"riskScore", "ipCountryCode"} |->
        CASE name = "riskScore" -> Number(riskScore)
          [] name = "ipCountryCode" -> ipCountryCode
          [] OTHER -> subject.order[name]]

-----------------------------------------------------------------------------
(* The engine. *)

clamp(score) == Max({RISK_SCORE_MIN, Min({RISK_SCORE_MAX, score})})
Total(signals) == SumFunction([s \in signals |-> s.weight])

toLevel(score, settings) ==
    IF score >= settings.critical THEN "CRITICAL"
    ELSE IF score >= settings.high THEN "HIGH"
    ELSE IF score >= settings.medium THEN "MEDIUM" ELSE "LOW"

toAction(level, settings) == IF level = "LOW" THEN "ALLOW" ELSE settings.actionOn[level]

\* What cannot be judged, or need not be, is let through.
permissive == [score |-> 0, level |-> "LOW", action |-> "ALLOW", degraded |-> TRUE]

\* Mutant: a rule that names an action decides even over a block list.
RuleOverList(blacklisted, forced, threshold) ==
    IF forced # "none" THEN forced ELSE IF blacklisted THEN "BLOCK" ELSE threshold

\* A rule's action goes before the level's, and a block list before both.
Decided(blacklisted, forced, threshold) ==
    IF blacklisted THEN "BLOCK" ELSE IF forced # "none" THEN forced ELSE threshold

IP_INTEL_UNKNOWN == [resolved |-> FALSE, countryCode |-> Absent]

\* The address is looked up for the detectors that are switched on; a provider that
\* fails knows nothing of it.
ipIntelOf(subject, settings, failed) ==
    IF settings.checks \cap {"checkVpn", "checkProxy", "checkTor", "checkIpReputation"} # {}
       /\ "ip" \notin failed
    THEN subject.ip ELSE IP_INTEL_UNKNOWN

\* Rules that cannot be read are no rules.
RulesRead(rules, failed) == IF "rules" \in failed THEN <<>> ELSE rules

\* Who refused automated decisions is held for a person instead of refused.
runAssessment(subject, settings, rules, failed) ==
    LET ipIntel == ipIntelOf(subject, settings, failed)
        base == runDetectors(subject, settings, ipIntel, failed)
        result == evaluateRules(RulesRead(rules, failed),
                                toRuleContext(subject, clamp(Total(base)), ipIntel.countryCode))
        signals == base \cup result.signals
        score == clamp(Total(signals))
        level == toLevel(score, settings)
        decided == Decided(\E s \in signals : s.code = "BLACKLISTED", result.forced,
                           toAction(level, settings))
    IN [score |-> score, level |-> level, degraded |-> FALSE,
        action |-> IF subject.optOut /\ decided = "BLOCK" THEN "REVIEW" ELSE decided]

\* Settings that cannot be read, an engine switched off and one that throws or runs
\* into its deadline let the order through.
assess(subject, settings, rules, failed) ==
    IF "settings" \in failed \/ ~settings.isEnabled \/ "deadline" \in failed THEN permissive
    ELSE runAssessment(subject, settings, rules, failed)

-----------------------------------------------------------------------------
(* The settings a shop starts with. *)

DefaultSettings ==
    [isEnabled |-> TRUE, medium |-> 30, high |-> 60, critical |-> 85,
     actionOn |-> [MEDIUM |-> "REVIEW", HIGH |-> "CHALLENGE_OTP", CRITICAL |-> "BLOCK"],
     checks |-> Checks \ {"checkVpn", "checkProxy", "checkCountryRisk", "checkIpReputation",
                          "maxItemsPerOrder", "checkDeviceVelocity"}]
EverythingOn == [DefaultSettings EXCEPT !.checks = Checks]
=============================================================================
