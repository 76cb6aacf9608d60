---------------------------- MODULE OfficeProofs ----------------------------
(***************************************************************************)
(* The back office: proofs that the fraud engine is fair to the shopper,   *)
(* that the desk's verdicts agree with the lists and rules once every      *)
(* rescan is over, that a conversion reaches each platform once and the    *)
(* logs, totals and books say so, that the stuck orders' pages miss none,  *)
(* that a settings file is restored as it was written, and that an order   *)
(* shown as synced is in a spreadsheet, in one row, whatever fails.        *)
(***************************************************************************)
EXTENDS FraudEngine, FraudDesk, PixelDispatch, StuckOrders, SettingsTransfer, SheetSync, FoldLemmas,
        SequenceTheorems

-----------------------------------------------------------------------------
(* The fraud engine. *)

(* Totals. *)
Weights(R) == [s \in R |-> s.weight]

LEMMA TotalIsSum ==
    ASSUME NEW R, NEW S \in SUBSET R, IsFiniteSet(S)
    PROVE  Total(S) = SumFunctionOnSet(Weights(R), S)
<1>1. \A s \in S : Weights(S)[s] = Weights(R)[s] BY DEF Weights
<1>2. Total(S) = SumFunctionOnSet(Weights(S), S) BY DEF Total, SumFunction, Weights
<1> QED BY <1>1, <1>2, SumAgrees

LEMMA TotalIsInt ==
    ASSUME NEW S, IsFiniteSet(S), \A s \in S : s.weight \in Int
    PROVE  Total(S) \in Int
<1>1. \A s \in S : Weights(S)[s] \in Int BY DEF Weights
<1> QED BY <1>1, TotalIsSum, SumIsInt

\* The totals of signals apart add up, and good news only lowers a total.
LEMMA TotalOfBoth ==
    ASSUME NEW S, NEW R, IsFiniteSet(S), IsFiniteSet(R), \A s \in S \cup R : s.weight \in Int,
           S \cap R = {}
    PROVE  Total(S \cup R) = Total(S) + Total(R)
<1> DEFINE f == Weights(S \cup R)
<1>1. \A s \in S \cup R : f[s] \in Int BY DEF Weights
<1>2. IsFiniteSet(S \cup R) BY FS_Union
<1>3. Total(S) = SumFunctionOnSet(f, S) /\ Total(R) = SumFunctionOnSet(f, R)
      /\ Total(S \cup R) = SumFunctionOnSet(f, S \cup R)
  BY <1>2, TotalIsSum
<1> HIDE DEF f
<1> QED BY <1>1, <1>3, SumOfUnion

LEMMA TotalGrows ==
    ASSUME NEW R, NEW S \in SUBSET R, IsFiniteSet(R), \A s \in R : s.weight \in Int,
           \A s \in R \ S : s.weight \in Nat
    PROVE  Total(S) <= Total(R)
<1> DEFINE f == Weights(R)
<1>1. (\A s \in R : f[s] \in Int) /\ \A s \in R \ S : f[s] \in Nat BY DEF Weights
<1>2. IsFiniteSet(S) BY FS_Subset
<1>3. Total(S) = SumFunctionOnSet(f, S) /\ Total(R) = SumFunctionOnSet(f, R) BY <1>2, TotalIsSum
<1> HIDE DEF f
<1> QED BY <1>1, <1>3, SumGrows

\* Signals without weight make no difference.
LEMMA TotalOfTheWeighty ==
    ASSUME NEW S, IsFiniteSet(S), \A s \in S : s.weight \in Int
    PROVE  Total(S) = Total({s \in S : s.weight # 0})
<1> DEFINE T == {s \in S : s.weight # 0}
           Z == S \ T
<1>1. IsFiniteSet(T) /\ IsFiniteSet(Z) BY FS_Subset
<1>2. T \cap Z = {} /\ T \cup Z = S /\ \A s \in Z : s.weight = 0 OBVIOUS
<1> HIDE DEF T, Z
<1>3. Total(S) = Total(T) + Total(Z) BY <1>1, <1>2, TotalOfBoth
<1>4. \A s \in Z : Weights(Z)[s] = 0 BY <1>2 DEF Weights
<1>5. Total(Z) = 0 BY <1>1, <1>4, TotalIsSum, SumOfZeros
<1>6. Total(T) \in Int BY <1>1, <1>2, TotalIsInt
<1>7. Total(S) = Total(T) BY <1>3, <1>5, <1>6
<1> QED BY <1>7 DEF T

LEMMA TotalOfOne ==
    ASSUME NEW s, s.weight \in Int
    PROVE  Total({s}) = s.weight
<1>1. Weights({s})[s] = s.weight BY DEF Weights
<1>2. Total({s}) = SumFunctionOnSet(Weights({s}), {s}) BY FS_Singleton, TotalIsSum
<1> QED BY <1>1, <1>2, SumOfOne

LEMMA TotalOfNone == Total({}) = 0
<1>1. Total({}) = SumFunctionOnSet(Weights({}), {}) BY FS_EmptySet, TotalIsSum
<1> QED BY <1>1, SumOfNone

-----------------------------------------------------------------------------
(* What the detectors find. *)

\* Any fact found as often as it may be weighs a natural number, no more than when
\* found often, and never more than 60.
LEMMA PointsAreFew ==
    ASSUME NEW code \in Facts, NEW n \in Nat
    PROVE  /\ Points(code, n) \in Nat
           /\ Points(code, n) <= Points(code, 60) /\ Points(code, n) <= 60
<1> DEFINE w == weight(code)
<1>1. w \in 1..60 /\ (code \in duplicates => w \in 12..18) /\ (code \in history => w \in {25, 30})
  <2>1. weight("DUPLICATE_PHONE") = 18 /\ weight("DUPLICATE_EMAIL") = 15 /\ weight("DUPLICATE_ADDRESS") = 12
    BY DEF weight
  <2>2. weight("PRIOR_CANCELLATIONS") = 30 /\ weight("PRIOR_RETURNS") = 25 BY DEF weight
  <2>3. /\ weight("VELOCITY_PHONE") = 30 /\ weight("VELOCITY_IP") = 25 /\ weight("DAILY_LIMIT_PHONE") = 35
        /\ weight("DAILY_LIMIT_IP") = 30 /\ weight("DAILY_LIMIT_EMAIL") = 30
        /\ weight("DAILY_LIMIT_DEVICE") = 30 /\ weight("TOO_MANY_OPEN_ORDERS") = 25
    BY DEF weight
  <2>4. /\ weight("EXCESSIVE_QUANTITY") = 40 /\ weight("DISPOSABLE_EMAIL") = 35 /\ weight("FAKE_PHONE") = 45
        /\ weight("PHONE_NOT_MOBILE") = 8 /\ weight("NO_EMAIL") = 4 /\ weight("HIGH_RISK_COUNTRY") = 20
    BY DEF weight
  <2>5. /\ weight("IP_IS_VPN") = 25 /\ weight("IP_IS_PROXY") = 30 /\ weight("IP_REPUTATION") = 30
        /\ weight("IP_IS_TOR") = 60 /\ weight("IP_IS_HOSTING") = 35 /\ weight("IP_COUNTRY_MISMATCH") = 15
    BY DEF weight
  <2> QED
    BY <2>1, <2>2, <2>3, <2>4, <2>5
    DEF Facts, duplicates, velocity, quantity, history, identity, network, geography
<1>2. /\ code \in duplicates => Points(code, n) = Min({w * n, w * 3}) /\ Points(code, 60) = Min({w * 60, w * 3})
      /\ code \in history => Points(code, n) = Min({w * n, 60}) /\ Points(code, 60) = Min({w * 60, 60})
      /\ code \notin duplicates \cup history => Points(code, n) = w /\ Points(code, 60) = w
  <2> DEFINE P(m) == Points(code, m) = IF code \in duplicates THEN Min({w * m, w * 3})
                                       ELSE IF code \in history THEN Min({w * m, 60}) ELSE w
  <2>1. \A m : P(m) BY DEF Points, duplicates, history
  <2>2. P(n) /\ P(60) BY <2>1
  <2>3. ~(code \in duplicates /\ code \in history) BY DEF duplicates, history
  <2> HIDE DEF w
  <2> QED BY <2>2, <2>3
<1> HIDE DEF w
<1>3. w * n \in Nat /\ w * 3 \in Nat /\ w * 60 \in Nat BY <1>1
<1>4. CASE code \in duplicates
  <2>1. /\ Points(code, n) = IF w * n <= w * 3 THEN w * n ELSE w * 3
        /\ Points(code, 60) = IF w * 60 <= w * 3 THEN w * 60 ELSE w * 3
    BY <1>2, <1>3, <1>4, MinMaxOfTwo
  <2> QED BY <1>1, <1>3, <1>4, <2>1
<1>5. CASE code \in history
  <2>1. /\ Points(code, n) = IF w * n <= 60 THEN w * n ELSE 60
        /\ Points(code, 60) = IF w * 60 <= 60 THEN w * 60 ELSE 60
    BY <1>2, <1>3, <1>5, MinMaxOfTwo
  <2> QED BY <1>1, <1>3, <1>5, <2>1
<1>6. CASE code \notin duplicates \cup history BY <1>1, <1>2, <1>6
<1> QED BY <1>4, <1>5, <1>6

LEMMA FactsAreFinite == IsFiniteSet(Facts)
<1>1. \A a, b, c : IsFiniteSet({a, b, c})
  <2> SUFFICES ASSUME NEW a, NEW b, NEW c PROVE IsFiniteSet({a, b, c}) OBVIOUS
  <2>1. {a, b, c} = ({a} \cup {b}) \cup {c} OBVIOUS
  <2>2. IsFiniteSet({a}) /\ IsFiniteSet({b}) /\ IsFiniteSet({c}) BY FS_Singleton
  <2>3. IsFiniteSet({a} \cup {b}) BY <2>2, FS_Union
  <2>4. IsFiniteSet(({a} \cup {b}) \cup {c}) BY <2>2, <2>3, FS_Union
  <2> QED BY <2>1, <2>4
<1>2. IsFiniteSet(duplicates) /\ IsFiniteSet(quantity) /\ IsFiniteSet(geography) /\ IsFiniteSet(history)
  <2>1. history = {"PRIOR_CANCELLATIONS", "PRIOR_RETURNS", "PRIOR_RETURNS"} BY DEF history
  <2> QED BY <1>1, <2>1, FS_Singleton DEF duplicates, quantity, geography
<1>3. IsFiniteSet(identity)
  <2>1. identity = {"DISPOSABLE_EMAIL", "FAKE_PHONE", "PHONE_NOT_MOBILE"} \cup {"NO_EMAIL"} BY DEF identity
  <2> QED BY <1>1, <2>1, FS_Singleton, FS_Union
<1>4. IsFiniteSet(network)
  <2>1. network = {"IP_IS_VPN", "IP_IS_PROXY", "IP_IS_TOR"}
                  \cup {"IP_IS_HOSTING", "IP_REPUTATION", "IP_COUNTRY_MISMATCH"}
    BY DEF network
  <2> QED BY <1>1, <2>1, FS_Union
<1>5. IsFiniteSet(velocity)
  <2>1. velocity = ({"VELOCITY_PHONE", "DAILY_LIMIT_PHONE", "TOO_MANY_OPEN_ORDERS"}
                    \cup {"VELOCITY_IP", "DAILY_LIMIT_IP", "DAILY_LIMIT_DEVICE"}) \cup {"DAILY_LIMIT_EMAIL"}
    BY DEF velocity
  <2> QED BY <1>1, <2>1, FS_Singleton, FS_Union
<1> QED BY <1>2, <1>3, <1>4, <1>5, FS_Union DEF Facts

\* What is found among some facts is a signal each, and all of it weighs no more than
\* everything found often.
Detected(codes, facts, settings) == {c \in codes : facts[c] > 0 /\ checkOf(c) \in settings.checks}

LEMMA ReportsAreBounded ==
    ASSUME NEW codes \in SUBSET Facts, NEW facts \in [Facts -> Nat], NEW settings
    PROVE  LET signals == Reports(codes, facts, settings)
           IN /\ IsFiniteSet(signals) /\ Total(signals) <= Worst /\ Worst \in Nat
              /\ \A s \in signals : s.weight \in Nat /\ s.code \in codes
<1> DEFINE S == Detected(codes, facts, settings)
           e == [c \in S |-> Points(c, facts[c])]
           h == [c \in S |-> signal(c, Points(c, facts[c]))]
           I == Images(h, S)
           most == [c \in Facts |-> Points(c, 60)]
<1>1. Reports(codes, facts, settings) = I BY DEF Reports, Detected, Images
<1>2. S \in SUBSET Facts /\ IsFiniteSet(S) BY FS_Subset, FactsAreFinite DEF Detected
<1>3. \A c \in S : /\ e[c] \in Nat /\ most[c] \in Nat /\ e[c] <= most[c]
                   /\ h[c].weight = e[c] /\ h[c].code \in codes
  BY <1>2, PointsAreFew DEF signal, Detected
<1>4. \A c \in Facts : most[c] \in Nat BY PointsAreFew
<1>5. \A c \in S : h[c] \in I /\ Weights(I)[h[c]] = e[c] BY <1>3 DEF Weights, Images
<1>6. Worst = SumFunctionOnSet(most, Facts) BY DEF Worst, SumFunction
<1>7. \A s \in I : s.weight \in Nat /\ s.code \in codes BY <1>3 DEF Images
<1>a. I = Images(h, S) OBVIOUS
<1> HIDE DEF S, e, h, most, I
<1>8. IsFiniteSet(I) BY <1>2, <1>a, ImagesAreFinite
<1>9. PICK T \in SUBSET S : SumFunctionOnSet(Weights(I), Images(h, S)) = SumFunctionOnSet(e, T)
  <2> DEFINE f == Weights(I)
  <2>1. \A c \in S : e[c] \in Int /\ f[h[c]] = e[c] BY <1>3, <1>5
  <2> HIDE DEF f
  <2>2. \E T \in SUBSET S : SumFunctionOnSet(f, Images(h, S)) = SumFunctionOnSet(e, T)
    BY <1>2, <2>1, SumOfImages
  <2> QED BY <2>2 DEF f
<1>10. Total(I) = SumFunctionOnSet(e, T) BY <1>8, <1>9, <1>a, TotalIsSum
<1>11. T \in SUBSET Facts /\ IsFiniteSet(T) BY <1>2, FS_Subset
<1>12. SumFunctionOnSet(e, T) <= SumFunctionOnSet(most, T)
  <2>1. \A c \in T : e[c] \in Int /\ most[c] \in Int /\ e[c] <= most[c] BY <1>3
  <2> QED BY <1>11, <2>1, SumRises
<1>13. SumFunctionOnSet(most, T) <= Worst
  <2>1. (\A c \in Facts : most[c] \in Int) /\ \A c \in Facts \ T : most[c] \in Nat BY <1>4
  <2> QED BY <1>6, <1>11, <2>1, FactsAreFinite, SumGrows
<1>14. SumFunctionOnSet(e, T) \in Int /\ SumFunctionOnSet(most, T) \in Int /\ Worst \in Nat
  <2>1. (\A c \in T : e[c] \in Int) /\ \A c \in T : most[c] \in Int BY <1>3
  <2>2. SumFunctionOnSet(e, T) \in Int /\ SumFunctionOnSet(most, T) \in Int BY <1>11, <2>1, SumIsInt
  <2> QED BY <1>4, <1>6, <2>2, FactsAreFinite, SumIsNatural
<1>15. Total(I) <= Worst BY <1>10, <1>12, <1>13, <1>14
<1> QED BY <1>1, <1>7, <1>8, <1>14, <1>15

-----------------------------------------------------------------------------
(* What an inquiry is judged by. *)

IsInquiry(q) ==
    /\ q.facts \in [Facts -> Nat] /\ IsRuleList(q.rules) /\ IsSettings(q.settings)
    /\ q.optOut \in BOOLEAN
    /\ q.matches \in SUBSET {Listed("BLACKLIST", "PHONE"), Listed("WHITELIST", "EMAIL")}

\* What is known of the address, and what that lets the network's detector look at.
IntelOf(q, failed) == ipIntelOf(subjectOf(q), q.settings, failed)
Online(q, failed) == IF IntelOf(q, failed).resolved THEN network ELSE {}

\* The facts that the detectors heard look at, and the signals of the lists.
LookedAt(q, failed) ==
    UNION {IF "duplicates" \in failed THEN {} ELSE duplicates, IF "velocity" \in failed THEN {} ELSE velocity,
           IF "quantity" \in failed THEN {} ELSE quantity, IF "history" \in failed THEN {} ELSE history,
           IF "identity" \in failed THEN {} ELSE identity, IF "network" \in failed THEN {} ELSE Online(q, failed),
           IF "geography" \in failed THEN {} ELSE geography}
OfLists(q, failed) == IF "blockList" \in failed THEN {} ELSE blockListDetector(q.matches, q.settings)

LEMMA ReportsOfNone == \A facts, settings : Reports({}, facts, settings) = {} BY DEF Reports

LEMMA BaseIsListsAndReports ==
    ASSUME NEW q, NEW failed
    PROVE  /\ runDetectors(subjectOf(q), q.settings, IntelOf(q, failed), failed)
                 = OfLists(q, failed) \cup Reports(LookedAt(q, failed), q.facts, q.settings)
           /\ LookedAt(q, failed) \in SUBSET Facts
           /\ LookedAt(q, failed) \subseteq LookedAt(q, {})
<1> DEFINE On(name, codes) == IF name \in failed THEN {} ELSE codes
           From(name, codes) == Reports(On(name, codes), q.facts, q.settings)
           Ran(name, codes) == IF name \in failed THEN {} ELSE Reports(codes, q.facts, q.settings)
           L == OfLists(q, failed)
<1>1. \A name, codes : Ran(name, codes) = From(name, codes) BY ReportsOfNone
<1>2. runDetectors(subjectOf(q), q.settings, IntelOf(q, failed), failed)
        = UNION {L, Ran("duplicates", duplicates), Ran("velocity", velocity), Ran("quantity", quantity),
                 Ran("history", history), Ran("identity", identity), Ran("network", Online(q, failed)),
                 Ran("geography", geography)}
  <2>1. subjectOf(q).facts = q.facts /\ subjectOf(q).matches = q.matches BY DEF subjectOf
  <2>2. networkDetector(q.facts, q.settings, IntelOf(q, failed)) = Reports(Online(q, failed), q.facts, q.settings)
    BY ReportsOfNone DEF networkDetector, Online
  <2> QED BY <2>1, <2>2 DEF runDetectors, OfLists
<1>3. LookedAt(q, failed) = UNION {On("duplicates", duplicates), On("velocity", velocity), On("quantity", quantity),
                                On("history", history), On("identity", identity), On("network", Online(q, failed)),
                                On("geography", geography)}
  BY DEF LookedAt
<1>a. Online(q, failed) \subseteq network BY DEF Online
<1>4. LookedAt(q, failed) \in SUBSET Facts BY <1>3, <1>a DEF Facts
<1>5. LookedAt(q, failed) \subseteq LookedAt(q, {})
  <2>1. IntelOf(q, failed).resolved => IntelOf(q, {}).resolved BY DEF IntelOf, ipIntelOf, IP_INTEL_UNKNOWN
  <2>2. Online(q, failed) \subseteq Online(q, {}) BY <2>1 DEF Online
  <2> DEFINE on == Online(q, failed)
             all == Online(q, {})
  <2>3. LookedAt(q, {}) = UNION {duplicates, velocity, quantity, history, identity, all, geography} BY DEF LookedAt
  <2>4. \A name, codes : On(name, codes) \subseteq codes OBVIOUS
  <2>5. on \subseteq all BY <2>2
  <2> HIDE DEF On, on, all
  <2>6. LookedAt(q, failed) = UNION {On("duplicates", duplicates), On("velocity", velocity), On("quantity", quantity),
                                On("history", history), On("identity", identity), On("network", on),
                                On("geography", geography)}
    BY <1>3 DEF on
  <2> SUFFICES ASSUME NEW c \in LookedAt(q, failed) PROVE c \in LookedAt(q, {}) OBVIOUS
  <2>7. c \in UNION {duplicates, velocity, quantity, history, identity, on, geography} BY <2>4, <2>6
  <2> QED BY <2>3, <2>5, <2>7
<1> HIDE DEF On, Ran, L
<1> DEFINE All(codes) == Reports(codes, q.facts, q.settings)
           Hit(c, s) == q.facts[c] > 0 /\ checkOf(c) \in q.settings.checks /\ s = signal(c, Points(c, q.facts[c]))
<1>b. \A codes, s : s \in All(codes) <=> \E c \in codes : Hit(c, s) BY DEF Reports
<1>d. \A c : c \in LookedAt(q, failed)
        <=> \/ c \in On("duplicates", duplicates) \/ c \in On("velocity", velocity)
            \/ c \in On("quantity", quantity) \/ c \in On("history", history)
            \/ c \in On("identity", identity) \/ c \in On("network", Online(q, failed))
            \/ c \in On("geography", geography)
  BY <1>3
<1> HIDE DEF All, Hit
<1>6. \A s : s \in All(LookedAt(q, failed))
        <=> \/ s \in All(On("duplicates", duplicates)) \/ s \in All(On("velocity", velocity))
            \/ s \in All(On("quantity", quantity)) \/ s \in All(On("history", history))
            \/ s \in All(On("identity", identity)) \/ s \in All(On("network", Online(q, failed)))
            \/ s \in All(On("geography", geography))
  BY <1>b, <1>d
<1>c. \A name, codes : From(name, codes) = All(On(name, codes)) BY DEF All
<1> HIDE DEF From
<1>7. \A s : s \in runDetectors(subjectOf(q), q.settings, IntelOf(q, failed), failed)
        <=> s \in L \/ s \in Reports(LookedAt(q, failed), q.facts, q.settings)
  BY <1>1, <1>2, <1>6, <1>c DEF All
<1>8. runDetectors(subjectOf(q), q.settings, IntelOf(q, failed), failed) = L \cup Reports(LookedAt(q, failed), q.facts, q.settings)
  BY <1>7
<1> QED BY <1>4, <1>5, <1>8 DEF L

\* What the lists say: trust before refusal, and nothing when there is no match.
LEMMA ListsSay ==
    ASSUME NEW q, IsInquiry(q), NEW failed
    PROVE  LET signals == OfLists(q, failed)
               listed == "blockList" \notin failed /\ "checkBlockList" \in q.settings.checks
           IN /\ IsFiniteSet(signals) /\ \A s \in signals : s.weight \in Int /\ s.code \in {"WHITELISTED", "BLACKLISTED"}
              /\ listed /\ (\E m \in q.matches : m.type = "WHITELIST") => signals = {signal("WHITELISTED", -1000)}
              /\ listed /\ (\E m \in q.matches : m.type = "BLACKLIST") /\ ~(\E m \in q.matches : m.type = "WHITELIST")
                    => \E s \in signals : s.code = "BLACKLISTED"
              /\ ~(listed /\ (\E m \in q.matches : m.type = "BLACKLIST"))
                    => signals \in {{}, {signal("WHITELISTED", -1000)}}
<1> DEFINE S == OfLists(q, failed)
           B == [code |-> "BLACKLISTED", from |-> "PHONE", weight |-> 100]
           W == signal("WHITELISTED", -1000)
           black == Listed("BLACKLIST", "PHONE")
           white == Listed("WHITELIST", "EMAIL")
           listed == "blockList" \notin failed /\ "checkBlockList" \in q.settings.checks
<1>1. /\ black.type = "BLACKLIST" /\ black.scope = "PHONE" /\ white.type = "WHITELIST"
      /\ q.matches \subseteq {black, white}
  BY DEF Listed, IsInquiry
<1>2. B.weight = 100 /\ B.code = "BLACKLISTED" /\ W.weight = -1000 /\ W.code = "WHITELISTED" BY DEF signal
<1>3. S = IF ~listed THEN {} ELSE IF \E m \in q.matches : m.type = "WHITELIST" THEN {W}
          ELSE {[code |-> "BLACKLISTED", from |-> m.scope, weight |-> 100] : m \in q.matches}
  BY DEF OfLists, blockListDetector
<1> HIDE DEF S, W, black, white
<1>4. listed /\ ~(\E m \in q.matches : m.type = "WHITELIST")
         => S = IF \E m \in q.matches : m.type = "BLACKLIST" THEN {B} ELSE {}
  BY <1>1, <1>3
<1>5. S \in {{}, {B}, {W}} BY <1>3, <1>4
<1>6. IsFiniteSet(S)
  <2>1. IsFiniteSet({}) /\ IsFiniteSet({B}) /\ IsFiniteSet({W}) BY FS_EmptySet, FS_Singleton
  <2> QED BY <1>5, <2>1
<1>7. \A s \in S : s.weight \in Int /\ s.code \in {"WHITELISTED", "BLACKLISTED"} BY <1>2, <1>5
<1>8. listed /\ (\E m \in q.matches : m.type = "WHITELIST") => S = {W} BY <1>3
<1>9. listed /\ (\E m \in q.matches : m.type = "BLACKLIST") /\ ~(\E m \in q.matches : m.type = "WHITELIST")
         => \E s \in S : s.code = "BLACKLISTED"
  <2> SUFFICES ASSUME listed, \E m \in q.matches : m.type = "BLACKLIST", ~(\E m \in q.matches : m.type = "WHITELIST")
               PROVE  \E s \in S : s.code = "BLACKLISTED"
    OBVIOUS
  <2>1. S = {B} BY <1>4
  <2>2. B.code = "BLACKLISTED" BY <1>2
  <2> HIDE DEF B
  <2> QED BY <2>1, <2>2
<1>10. ~(listed /\ (\E m \in q.matches : m.type = "BLACKLIST")) => S \in {{}, {W}} BY <1>3, <1>4
<1> QED BY <1>6, <1>7, <1>8, <1>9, <1>10 DEF S, W

\* The detectors' signals, together.
LEMMA BaseIsFine ==
    ASSUME NEW q, IsInquiry(q), NEW failed
    PROVE  LET base == runDetectors(subjectOf(q), q.settings, IntelOf(q, failed), failed)
               found == Reports(LookedAt(q, failed), q.facts, q.settings)
               lists == OfLists(q, failed)
           IN /\ IsFiniteSet(base) /\ base = lists \cup found /\ IsFiniteSet(found)
              /\ \A s \in base : s.weight \in Int /\ s.code # "CUSTOM_RULE"
              /\ \A s \in found : s.weight \in Nat /\ s.code \in Facts /\ s.code # "BLACKLISTED"
              /\ Total(base) = Total(lists) + Total(found) /\ Total(lists) \in Int
              /\ Total(found) \in Int /\ Total(found) <= Worst /\ Worst \in Nat
<1> DEFINE C == LookedAt(q, failed)
           base == runDetectors(subjectOf(q), q.settings, IntelOf(q, failed), failed)
           found == Reports(C, q.facts, q.settings)
           lists == OfLists(q, failed)
<1>1. base = lists \cup found /\ C \in SUBSET Facts BY BaseIsListsAndReports
<1>2. q.facts \in [Facts -> Nat] BY DEF IsInquiry
<1> HIDE DEF C
<1>3. /\ IsFiniteSet(found) /\ Total(found) <= Worst /\ Worst \in Nat
      /\ \A s \in found : s.weight \in Nat /\ s.code \in C
  BY <1>1, <1>2, ReportsAreBounded
<1>4. IsFiniteSet(lists) /\ \A s \in lists : s.weight \in Int /\ s.code \in {"WHITELISTED", "BLACKLISTED"}
  BY ListsSay
<1> HIDE DEF base, found, lists
<1>5. "CUSTOM_RULE" \notin Facts /\ "BLACKLISTED" \notin Facts /\ "WHITELISTED" \notin Facts
  BY DEF Facts, duplicates, velocity, quantity, history, identity, network, geography
<1>6. lists \cap found = {} BY <1>1, <1>3, <1>4, <1>5
<1>7. \A s \in lists \cup found : s.weight \in Int BY <1>3, <1>4
<1>8. Total(base) = Total(lists) + Total(found) BY <1>1, <1>3, <1>4, <1>6, <1>7, TotalOfBoth
<1>9. IsFiniteSet(base) BY <1>1, <1>3, <1>4, FS_Union
<1>10. \A s \in base : s.weight \in Int /\ s.code # "CUSTOM_RULE" BY <1>1, <1>3, <1>4, <1>5
<1>11. \A s \in found : s.weight \in Nat /\ s.code \in Facts /\ s.code # "BLACKLISTED" BY <1>1, <1>3, <1>5
<1>12. Total(lists) \in Int /\ Total(found) \in Int BY <1>3, <1>4, TotalIsInt
<1> QED BY <1>1, <1>3, <1>8, <1>9, <1>10, <1>11, <1>12 DEF base, found, lists, C

-----------------------------------------------------------------------------
(* What the rules add. *)

Matched(rules, context) == {i \in DOMAIN rules : evaluateGroup(rules[i], context)}
OfRules(rules, M) == {[code |-> "CUSTOM_RULE", from |-> rules[i].id, weight |-> rules[i].scoreDelta] : i \in M}

\* The rules that match add no more points than all of them may.
LEMMA RulesAreBounded ==
    ASSUME NEW rules, IsRuleList(rules), NEW M \in SUBSET DOMAIN rules
    PROVE  LET signals == OfRules(rules, M)
           IN /\ IsFiniteSet(signals) /\ Total(signals) \in Int
              /\ PointsOf(rules) \in Nat /\ Total(signals) <= PointsOf(rules)
              /\ \A s \in signals : s.weight \in Int /\ s.code = "CUSTOM_RULE"
<1> DEFINE D == DOMAIN rules
           e == [i \in D |-> rules[i].scoreDelta]
           h == [i \in D |-> [code |-> "CUSTOM_RULE", from |-> rules[i].id, weight |-> rules[i].scoreDelta]]
           I == Images(h, M)
           gain == [i \in D |-> Max({0, rules[i].scoreDelta})]
<1>1. OfRules(rules, M) = I BY DEF OfRules, Images
<1>2. IsFiniteSet(D) /\ M \in SUBSET D BY FS_Interval DEF IsRuleList
<1>3. \A i \in D : e[i] \in Int /\ h[i].weight = e[i] /\ h[i].code = "CUSTOM_RULE" BY DEF IsRuleList
<1>4. \A i \in D : gain[i] \in Nat /\ e[i] <= gain[i]
  <2> SUFFICES ASSUME NEW i \in D PROVE gain[i] \in Nat /\ e[i] <= gain[i] OBVIOUS
  <2>1. e[i] \in Int /\ gain[i] = Max({0, e[i]}) BY <1>3
  <2>2. gain[i] = IF 0 <= e[i] THEN e[i] ELSE 0 BY <2>1, MinMaxOfTwo
  <2> HIDE DEF e, gain
  <2> QED BY <2>1, <2>2
<1>5. PointsOf(rules) = SumFunctionOnSet(gain, D) BY DEF PointsOf, SumFunction
<1>6. \A i \in M : h[i] \in I /\ Weights(I)[h[i]] = e[i] BY <1>2, <1>3 DEF Weights, Images
<1>7. \A s \in I : s.weight \in Int /\ s.code = "CUSTOM_RULE" BY <1>2, <1>3 DEF Images
<1>8. IsFiniteSet(M) BY <1>2, FS_Subset
<1>9. IsFiniteSet(I) BY <1>8, ImagesAreFinite
<1> DEFINE f == Weights(I)
<1>10. Total(I) = SumFunctionOnSet(f, Images(h, M)) BY <1>9, TotalIsSum
<1> HIDE DEF D, e, h, I, gain, f
<1>11. PICK T \in SUBSET M : SumFunctionOnSet(f, Images(h, M)) = SumFunctionOnSet(e, T)
  <2>1. \A i \in M : e[i] \in Int /\ f[h[i]] = e[i] BY <1>2, <1>3, <1>6 DEF f
  <2>2. \E T \in SUBSET M : SumFunctionOnSet(f, Images(h, M)) = SumFunctionOnSet(e, T)
    BY <1>8, <2>1, SumOfImages
  <2> QED BY <2>2
<1>12. T \in SUBSET D /\ IsFiniteSet(T) BY <1>2, FS_Subset
<1>13. SumFunctionOnSet(e, T) <= SumFunctionOnSet(gain, T)
  <2>1. \A i \in T : e[i] \in Int /\ gain[i] \in Int /\ e[i] <= gain[i] BY <1>3, <1>4, <1>12
  <2> QED BY <1>12, <2>1, SumRises
<1>14. SumFunctionOnSet(gain, T) <= SumFunctionOnSet(gain, D)
  <2>1. (\A i \in D : gain[i] \in Int) /\ \A i \in D \ T : gain[i] \in Nat BY <1>4
  <2> QED BY <1>2, <1>12, <2>1, SumGrows
<1>15. /\ SumFunctionOnSet(e, T) \in Int /\ SumFunctionOnSet(gain, T) \in Int
       /\ SumFunctionOnSet(gain, D) \in Nat
  <2>1. (\A i \in T : e[i] \in Int) /\ \A i \in T : gain[i] \in Int BY <1>3, <1>4, <1>12
  <2>2. SumFunctionOnSet(e, T) \in Int /\ SumFunctionOnSet(gain, T) \in Int BY <1>12, <2>1, SumIsInt
  <2>3. SumFunctionOnSet(gain, D) \in Nat BY <1>2, <1>4, SumIsNatural
  <2> QED BY <2>2, <2>3
<1>16. Total(I) <= PointsOf(rules) /\ Total(I) \in Int /\ PointsOf(rules) \in Nat
  BY <1>5, <1>10, <1>11, <1>13, <1>14, <1>15
<1> QED BY <1>1, <1>7, <1>9, <1>16 DEF I

\* Rules that only take doubt into account take no points off.
LEMMA DoubtsAdd ==
    ASSUME NEW rules, IsRuleList(rules), OnlyDoubts(rules), NEW M \in SUBSET DOMAIN rules
    PROVE  0 <= Total(OfRules(rules, M))
<1> DEFINE S == OfRules(rules, M)
<1>1. IsFiniteSet(S) /\ \A s \in S : s.weight \in Int BY RulesAreBounded
<1>2. \A s \in S \ {} : s.weight \in Nat BY <1>1 DEF OnlyDoubts, OfRules
<1> HIDE DEF S
<1>3. Total({}) <= Total(S) BY <1>1, <1>2, TotalGrows
<1> QED BY <1>3, TotalOfNone DEF S

\* The rules that are read are rules.
LEMMA RulesReadAreRules ==
    ASSUME NEW q, IsInquiry(q), NEW failed
    PROVE  /\ IsRuleList(RulesRead(q.rules, failed)) /\ PointsOf(q.rules) \in Nat
           /\ \A M \in SUBSET DOMAIN RulesRead(q.rules, failed) :
                 Total(OfRules(RulesRead(q.rules, failed), M)) <= PointsOf(q.rules)
           /\ \A i \in DOMAIN RulesRead(q.rules, failed) : i \in DOMAIN q.rules /\ RulesRead(q.rules, failed)[i] = q.rules[i]
<1>1. IsRuleList(q.rules) BY DEF IsInquiry
<1>2. PointsOf(q.rules) \in Nat BY <1>1, RulesAreBounded
<1>3. CASE "rules" \notin failed
  <2>1. RulesRead(q.rules, failed) = q.rules BY <1>3 DEF RulesRead
  <2> QED BY <1>1, <1>2, <2>1, RulesAreBounded
<1>4. CASE "rules" \in failed
  <2>1. RulesRead(q.rules, failed) = <<>> BY <1>4 DEF RulesRead
  <2>2. IsRuleList(<<>>) BY DEF IsRuleList
  <2>3. \A M \in SUBSET DOMAIN <<>> : OfRules(<<>>, M) = {} BY DEF OfRules
  <2>4. Total({}) = 0 BY TotalOfNone
  <2> QED BY <1>2, <2>1, <2>2, <2>3, <2>4
<1> QED BY <1>3, <1>4

\* Two contexts that differ in these fields alone match the same rules but those that
\* look at them.
LEMMA FieldsAlone ==
    ASSUME NEW fields, NEW subject, NEW a, NEW b, NEW here, NEW there, NEW rule,
           "riskScore" \in fields, here = there \/ "ipCountryCode" \in fields,
           \A c \in rule.all \cup rule.any : c.field \notin fields
    PROVE  evaluateGroup(rule, toRuleContext(subject, a, here)) = evaluateGroup(rule, toRuleContext(subject, b, there))
<1> DEFINE x == toRuleContext(subject, a, here)
           y == toRuleContext(subject, b, there)
<1>1. \A name : name \notin fields => Field(x, name) = Field(y, name) BY DEF toRuleContext, Field
<1> HIDE DEF x, y
<1>2. \A c \in rule.all \cup rule.any : evaluateCondition(c, x) = evaluateCondition(c, y)
  <2> SUFFICES ASSUME NEW c \in rule.all \cup rule.any PROVE evaluateCondition(c, x) = evaluateCondition(c, y) OBVIOUS
  <2>1. Field(x, c.field) = Field(y, c.field) BY <1>1
  <2> QED BY <2>1, Zenon DEF evaluateCondition
<1>3. evaluateGroup(rule, x) = evaluateGroup(rule, y) BY <1>2 DEF evaluateGroup
<1> QED BY <1>3 DEF x, y

\* Rules that take and give no points by these fields add the same whatever they are.
LEMMA RulesAddTheSame ==
    ASSUME NEW fields, NEW subject, NEW a, NEW b, NEW here, NEW there, NEW rules,
           "riskScore" \in fields, here = there \/ "ipCountryCode" \in fields,
           IsRuleList(rules), PointsIgnore(rules, fields)
    PROVE  Total(OfRules(rules, Matched(rules, toRuleContext(subject, a, here))))
             = Total(OfRules(rules, Matched(rules, toRuleContext(subject, b, there))))
<1> DEFINE x == toRuleContext(subject, a, here)
           y == toRuleContext(subject, b, there)
           M == Matched(rules, x)
           N == Matched(rules, y)
           Weighty(S) == {s \in S : s.weight # 0}
<1>1. M \in SUBSET DOMAIN rules /\ N \in SUBSET DOMAIN rules BY DEF Matched
<1>2. \A i \in DOMAIN rules : rules[i].scoreDelta # 0 => (i \in M <=> i \in N)
  <2> SUFFICES ASSUME NEW i \in DOMAIN rules, rules[i].scoreDelta # 0 PROVE i \in M <=> i \in N OBVIOUS
  <2>1. \A c \in rules[i].all \cup rules[i].any : c.field \notin fields BY DEF PointsIgnore
  <2>2. evaluateGroup(rules[i], x) = evaluateGroup(rules[i], y) BY <2>1, FieldsAlone
  <2> HIDE DEF x, y
  <2> QED BY <2>2, Zenon DEF Matched
<1> HIDE DEF M, N
<1>3. Weighty(OfRules(rules, M)) = Weighty(OfRules(rules, N))
  <2>1. \A s : s \in Weighty(OfRules(rules, M)) <=> s \in Weighty(OfRules(rules, N))
    BY <1>1, <1>2 DEF OfRules
  <2> QED BY <2>1
<1>4. Total(OfRules(rules, M)) = Total(Weighty(OfRules(rules, M))) BY <1>1, RulesAreBounded, TotalOfTheWeighty
<1>5. Total(OfRules(rules, N)) = Total(Weighty(OfRules(rules, N))) BY <1>1, RulesAreBounded, TotalOfTheWeighty
<1>6. Total(OfRules(rules, M)) = Total(OfRules(rules, N)) BY <1>3, <1>4, <1>5
<1> QED BY <1>6 DEF M, N

-----------------------------------------------------------------------------
(* The verdict. *)

BaseOf(q, failed) == runDetectors(subjectOf(q), q.settings, IntelOf(q, failed), failed)
ContextOf(q, failed) ==
    toRuleContext(subjectOf(q), clamp(Total(BaseOf(q, failed))), IntelOf(q, failed).countryCode)
MatchedBy(q, failed) == Matched(RulesRead(q.rules, failed), ContextOf(q, failed))
Added(q, failed) == OfRules(RulesRead(q.rules, failed), MatchedBy(q, failed))
ScoreOf(q, failed) == clamp(Total(BaseOf(q, failed)) + Total(Added(q, failed)))
ForcedBy(q, failed) == evaluateRules(RulesRead(q.rules, failed), ContextOf(q, failed)).forced
DecidedOn(q, failed) ==
    Decided(\E s \in BaseOf(q, failed) : s.code = "BLACKLISTED", ForcedBy(q, failed),
            toAction(toLevel(ScoreOf(q, failed), q.settings), q.settings))

LEMMA ClampBounds ==
    ASSUME NEW n \in Int
    PROVE  clamp(n) = IF n < 0 THEN 0 ELSE IF n > 100 THEN 100 ELSE n
<1> DEFINE low == Min({100, n})
<1>1. low = IF 100 <= n THEN 100 ELSE n BY MinMaxOfTwo
<1>2. low \in Int BY <1>1
<1>3. clamp(n) = Max({0, low}) BY DEF clamp, RISK_SCORE_MIN, RISK_SCORE_MAX
<1> HIDE DEF low
<1>4. Max({0, low}) = IF 0 <= low THEN low ELSE 0 BY <1>2, MinMaxOfTwo
<1> QED BY <1>1, <1>3, <1>4

LEMMA VerdictIs ==
    ASSUME NEW q, IsInquiry(q), NEW failed
    PROVE  LET v == runAssessment(subjectOf(q), q.settings, q.rules, failed)
           IN /\ v.score = ScoreOf(q, failed)
              /\ v.action = IF q.optOut /\ DecidedOn(q, failed) = "BLOCK" THEN "REVIEW" ELSE DecidedOn(q, failed)
<1> DEFINE base == BaseOf(q, failed)
           rules == RulesRead(q.rules, failed)
           context == ContextOf(q, failed)
           M == MatchedBy(q, failed)
           added == Added(q, failed)
           signals == base \cup added
<1>1. M = Matched(rules, context) /\ added = OfRules(rules, M) BY DEF MatchedBy, Added
<1>2. evaluateRules(rules, context).signals = added BY <1>1 DEF evaluateRules, Matched, OfRules
<1>3. IsRuleList(rules) /\ M \in SUBSET DOMAIN rules BY <1>1, RulesReadAreRules DEF Matched
<1>4. IsFiniteSet(base) /\ \A s \in base : s.weight \in Int /\ s.code # "CUSTOM_RULE"
  BY BaseIsFine DEF BaseOf
<1> HIDE DEF M
<1>5. IsFiniteSet(added) /\ \A s \in added : s.weight \in Int /\ s.code = "CUSTOM_RULE"
  BY <1>1, <1>3, RulesAreBounded
<1>6. ForcedBy(q, failed) = evaluateRules(rules, context).forced BY DEF ForcedBy
<1>8. ScoreOf(q, failed) = clamp(Total(base) + Total(added)) BY DEF ScoreOf
<1> DEFINE blacklisted == \E s \in signals : s.code = "BLACKLISTED"
           score == clamp(Total(signals))
           decided == Decided(blacklisted, evaluateRules(rules, context).forced,
                              toAction(toLevel(score, q.settings), q.settings))
           verdict == [score |-> score, level |-> toLevel(score, q.settings), degraded |-> FALSE,
                       action |-> IF q.optOut /\ decided = "BLOCK" THEN "REVIEW" ELSE decided]
<1>9. runAssessment(subjectOf(q), q.settings, q.rules, failed) = verdict
  <2>1. subjectOf(q).optOut = q.optOut BY DEF subjectOf
  <2>2. base = runDetectors(subjectOf(q), q.settings, IntelOf(q, failed), failed) BY DEF BaseOf
  <2> DEFINE r == evaluateRules(rules, context)
             intel == IntelOf(q, failed)
  <2>3. context = toRuleContext(subjectOf(q), clamp(Total(base)), intel.countryCode) BY DEF ContextOf
  <2>4. signals = base \cup r.signals BY <1>2
  <2>5. intel = ipIntelOf(subjectOf(q), q.settings, failed) BY DEF IntelOf
  <2> HIDE DEF base, context, signals, r, intel, rules
  <2> QED BY <2>1, <2>2, <2>3, <2>4, <2>5 DEF runAssessment, r, rules, intel
<1>7. base \cap added = {} BY <1>4, <1>5
<1> HIDE DEF base, added
<1>10. Total(signals) = Total(base) + Total(added) BY <1>4, <1>5, <1>7, TotalOfBoth
<1>11. score = ScoreOf(q, failed) BY <1>8, <1>10
<1>12. blacklisted = \E s \in base : s.code = "BLACKLISTED" BY <1>5
<1> HIDE DEF signals, score, blacklisted, context
<1>13. decided = DecidedOn(q, failed) BY <1>6, <1>11, <1>12 DEF DecidedOn, base
<1> HIDE DEF decided
<1>14. verdict.score = score /\ verdict.action = (IF q.optOut /\ decided = "BLOCK" THEN "REVIEW" ELSE decided)
  OBVIOUS
<1> QED BY <1>9, <1>11, <1>13, <1>14

\* A rule that names an action is needed for the rules to decide.
LEMMA ForcedByARule ==
    ASSUME NEW q, IsInquiry(q), NEW failed, \A i \in DOMAIN q.rules : q.rules[i].action = "none"
    PROVE  ForcedBy(q, failed) = "none"
<1> DEFINE rules == RulesRead(q.rules, failed)
           matched == {i \in DOMAIN rules : evaluateGroup(rules[i], ContextOf(q, failed))}
           deciding == {i \in matched : rules[i].action # "none"}
<1>1. deciding = {} BY RulesReadAreRules
<1>2. ForcedBy(q, failed) = IF deciding = {} THEN "none" ELSE rules[Min(deciding)].action
  BY DEF ForcedBy, evaluateRules
<1> QED BY <1>1, <1>2

\* The inquiry stays as it was asked, and its answer is the engine's.
Fields == {"facts", "optOut", "rules", "failed", "settings", "matches", "answer"}
EngineInv ==
    /\ inquiry = [f \in Fields |-> inquiry[f]]
    /\ IsInquiry(inquiry)
    /\ Answered => inquiry.answer = Answer(inquiry.failed)

LEMMA EngineStarts == EngineInit => EngineInv
<1> SUFFICES ASSUME EngineInit PROVE EngineInv OBVIOUS
<1>1. PICK facts \in Suspects, optOut \in BOOLEAN, rules \in RuleLists,
       failed \in Failing, settings \in Configured,
       matches \in SUBSET {Listed("BLACKLIST", "PHONE"), Listed("WHITELIST", "EMAIL")} :
        inquiry = [facts |-> facts, optOut |-> optOut, rules |-> rules, failed |-> failed,
                   settings |-> settings, matches |-> matches, answer |-> Unanswered]
  BY DEF EngineInit
<1>2. inquiry = [f \in Fields |-> inquiry[f]] BY <1>1 DEF Fields
<1>3. facts \in [Facts -> Nat] /\ IsRuleList(rules) /\ IsSettings(settings) BY EngineAssumption
<1>4. IsInquiry(inquiry) BY <1>1, <1>3 DEF IsInquiry
<1>5. ~Answered BY <1>1 DEF Answered
<1> QED BY <1>2, <1>4, <1>5 DEF EngineInv

LEMMA EngineAnswers == EngineInv /\ [EngineNext]_inquiry => EngineInv'
<1> SUFFICES ASSUME EngineInv, [EngineNext]_inquiry PROVE EngineInv' OBVIOUS
<1>1. CASE UNCHANGED inquiry BY <1>1 DEF EngineInv, Answered, Answer
<1>2. CASE Assess
  <2> DEFINE a == Answer(inquiry.failed)
  <2>1. inquiry' = [inquiry EXCEPT !.answer = a] BY <1>2 DEF Assess
  <2>2. inquiry = [f \in Fields |-> inquiry[f]] /\ IsInquiry(inquiry) BY DEF EngineInv
  <2> HIDE DEF a
  <2>3. /\ inquiry'.facts = inquiry.facts /\ inquiry'.optOut = inquiry.optOut /\ inquiry'.rules = inquiry.rules
        /\ inquiry'.failed = inquiry.failed /\ inquiry'.settings = inquiry.settings
        /\ inquiry'.matches = inquiry.matches /\ inquiry'.answer = a
        /\ inquiry' = [f \in Fields |-> inquiry'[f]]
    BY <2>1, <2>2 DEF Fields
  <2>4. IsInquiry(inquiry)' BY <2>2, <2>3 DEF IsInquiry
  <2>5. subjectOf(inquiry)' = subjectOf(inquiry) BY <2>3 DEF subjectOf
  <2>6. Answer(inquiry.failed)' = a BY <2>3, <2>5 DEF Answer, a
  <2> QED BY <2>3, <2>4, <2>6 DEF EngineInv
<1> QED BY <1>1, <1>2 DEF EngineNext

\* What is answered is the engine's verdict on the inquiry.
LEMMA AnswerIs ==
    ASSUME EngineInv, Answered
    PROVE  /\ IsInquiry(inquiry)
           /\ Looked =>
                /\ inquiry.answer.score = ScoreOf(inquiry, inquiry.failed)
                /\ inquiry.answer.action = IF inquiry.optOut /\ DecidedOn(inquiry, inquiry.failed) = "BLOCK" THEN "REVIEW"
                                           ELSE DecidedOn(inquiry, inquiry.failed)
           /\ ~Looked => inquiry.answer = permissive
<1> DEFINE q == inquiry
<1>1. IsInquiry(q) /\ inquiry.answer = assess(subjectOf(q), q.settings, q.rules, q.failed)
  BY DEF EngineInv, Answer
<1>2. CASE Looked
  <2>1. inquiry.answer = runAssessment(subjectOf(q), q.settings, q.rules, q.failed) BY <1>1, <1>2 DEF assess, Looked
  <2> QED BY <1>1, <1>2, <2>1, VerdictIs
<1>3. CASE ~Looked
  <2>1. inquiry.answer = permissive BY <1>1, <1>3 DEF assess, Looked
  <2> QED BY <1>1, <1>3, <2>1
<1> QED BY <1>2, <1>3

LEMMA ScoreIsClamped ==
    ASSUME NEW q, IsInquiry(q), NEW failed
    PROVE  /\ Total(BaseOf(q, failed)) \in Int /\ Total(Added(q, failed)) \in Int
           /\ Total(Added(q, failed)) <= PointsOf(q.rules) /\ PointsOf(q.rules) \in Nat
           /\ ScoreOf(q, failed) \in 0..100
<1>1. IsRuleList(RulesRead(q.rules, failed)) /\ MatchedBy(q, failed) \in SUBSET DOMAIN RulesRead(q.rules, failed)
  BY RulesReadAreRules DEF MatchedBy, Matched
<1>2. IsFiniteSet(BaseOf(q, failed)) /\ \A s \in BaseOf(q, failed) : s.weight \in Int BY BaseIsFine DEF BaseOf
<1>3. Total(BaseOf(q, failed)) \in Int BY <1>2, TotalIsInt
<1>4. Total(Added(q, failed)) \in Int BY <1>1, RulesAreBounded DEF Added
<1>5. Total(Added(q, failed)) <= PointsOf(q.rules) /\ PointsOf(q.rules) \in Nat BY <1>1, RulesReadAreRules DEF Added
<1> DEFINE n == Total(BaseOf(q, failed)) + Total(Added(q, failed))
<1>6. n \in Int /\ ScoreOf(q, failed) = clamp(n) BY <1>3, <1>4 DEF ScoreOf
<1> HIDE DEF n
<1>7. ScoreOf(q, failed) \in 0..100 BY <1>6, ClampBounds
<1> QED BY <1>3, <1>4, <1>5, <1>7

\* Whatever is found, the verdict is not a refusal while the score stays below the
\* thresholds, nobody is blocked and no rule decides.
LEMMA LowIsAllowed ==
    ASSUME NEW q, IsInquiry(q), NEW failed, ForcedBy(q, failed) = "none",
           \A s \in BaseOf(q, failed) : s.code # "BLACKLISTED",
           ScoreOf(q, failed) < q.settings.medium, ScoreOf(q, failed) < q.settings.high,
           ScoreOf(q, failed) < q.settings.critical
    PROVE  DecidedOn(q, failed) = "ALLOW"
<1> DEFINE score == ScoreOf(q, failed)
<1>1. score \in Nat /\ {q.settings.medium, q.settings.high, q.settings.critical} \subseteq Nat
  BY ScoreIsClamped DEF IsInquiry, IsSettings
<1>2. ~(score >= q.settings.critical) /\ ~(score >= q.settings.high) /\ ~(score >= q.settings.medium)
  <2> HIDE DEF score
  <2>1. score < q.settings.medium /\ score < q.settings.high /\ score < q.settings.critical BY DEF score
  <2> QED BY <1>1, <2>1
<1>3. toLevel(score, q.settings) = "LOW" BY <1>2, Zenon DEF toLevel
<1>4. toAction(toLevel(score, q.settings), q.settings) = "ALLOW" BY <1>3 DEF toAction
<1> QED BY <1>4 DEF DecidedOn, Decided

LEMMA LoneOddityProved == EngineInv /\ Answered => LoneOddityIsNotRefused
<1> SUFFICES ASSUME EngineInv, Answered, Cardinality({f \in Facts : inquiry.facts[f] > 0}) = 1,
                    DOMAIN inquiry.rules = {}, inquiry.settings = DefaultSettings, ~Heard("BLACKLIST")
             PROVE  inquiry.answer.action # "BLOCK"
  BY DEF LoneOddityIsNotRefused
<1> DEFINE q == inquiry
           failed == inquiry.failed
           found == Reports(LookedAt(q, failed), q.facts, q.settings)
           lists == OfLists(q, failed)
           W == signal("WHITELISTED", -1000)
<1> SUFFICES ASSUME Looked PROVE inquiry.answer.action # "BLOCK" BY AnswerIs DEF permissive
<1>0. Looked OBVIOUS
<1>1. IsInquiry(q) /\ q.facts \in [Facts -> Nat] BY AnswerIs DEF IsInquiry
<1>2. /\ q.settings.isEnabled /\ "checkBlockList" \in q.settings.checks /\ q.settings.critical = 85
      /\ q.settings.high = 60 /\ q.settings.medium = 30
      /\ q.settings.actionOn["MEDIUM"] = "REVIEW" /\ q.settings.actionOn["HIGH"] = "CHALLENGE_OTP"
  BY DEF DefaultSettings, Checks
<1>3. lists \in {{}, {W}}
  <2>1. ~("blockList" \notin failed /\ "checkBlockList" \in q.settings.checks
          /\ \E m \in q.matches : m.type = "BLACKLIST")
    BY <1>2, <1>0 DEF Heard
  <2> QED BY <1>1, <2>1, ListsSay
<1>4. Total(lists) \in Int /\ Total(lists) <= 0
  <2>1. W.weight = -1000 BY DEF signal
  <2>2. Total({W}) = -1000
    <3> HIDE DEF W
    <3> QED BY <2>1, TotalOfOne
  <2> QED BY <1>3, <2>2, TotalOfNone
<1>5. Total(found) \in Int /\ Total(found) <= 60
  <2>1. IsFiniteSet({f \in Facts : q.facts[f] > 0}) BY FactsAreFinite, FS_Subset
  <2>2. PICK x : {f \in Facts : q.facts[f] > 0} = {x} BY <2>1, FS_Singleton
  <2>3. x \in Facts BY <2>2
  <2> DEFINE t == signal(x, Points(x, q.facts[x]))
  <2>4. found \subseteq {t}
    <3>1. LookedAt(q, failed) \in SUBSET Facts BY BaseIsListsAndReports
    <3> QED BY <2>2, <3>1 DEF Reports
  <2>5. t.weight \in Nat /\ t.weight <= 60 BY <1>1, <2>3, PointsAreFew DEF signal
  <2>6. found = {} \/ found = {t} BY <2>4
  <2> HIDE DEF t, found
  <2>7. Total({t}) = t.weight BY <2>5, TotalOfOne
  <2> QED BY <2>5, <2>6, <2>7, TotalOfNone
<1>6. Total(Added(q, failed)) = 0
  <2>1. DOMAIN RulesRead(q.rules, failed) = {} BY <1>1, RulesReadAreRules
  <2>2. Added(q, failed) = {} BY <2>1 DEF Added, OfRules, MatchedBy, Matched
  <2> QED BY <2>2, TotalOfNone
<1>7. /\ Total(BaseOf(q, failed)) = Total(lists) + Total(found)
      /\ BaseOf(q, failed) = lists \cup found /\ \A s \in found : s.code # "BLACKLISTED"
  BY <1>1, BaseIsFine DEF BaseOf
<1>8. \A s \in BaseOf(q, failed) : s.code # "BLACKLISTED"
  <2>1. W.code # "BLACKLISTED" BY DEF signal
  <2> HIDE DEF W, lists, found
  <2> QED BY <1>3, <1>7, <2>1
<1>9. ForcedBy(q, failed) = "none" BY <1>1, ForcedByARule
<1>10. ScoreOf(q, failed) \in 0..60
  <2> DEFINE n == Total(BaseOf(q, failed)) + Total(Added(q, failed))
  <2>1. n \in Int /\ n <= 60
    <3> HIDE DEF lists, found
    <3> QED BY <1>4, <1>5, <1>6, <1>7
  <2>2. ScoreOf(q, failed) = clamp(n) BY DEF ScoreOf
  <2> HIDE DEF n
  <2> QED BY <2>1, <2>2, ClampBounds
<1> DEFINE score == ScoreOf(q, failed)
<1>11. toLevel(score, q.settings) \in {"HIGH", "MEDIUM", "LOW"}
  <2> HIDE DEF score
  <2>1. score \in 0..60 BY <1>10 DEF score
  <2>2. ~(score >= q.settings.critical) BY <1>2, <2>1
  <2>3. toLevel(score, q.settings) = IF score >= q.settings.high THEN "HIGH"
                                     ELSE IF score >= q.settings.medium THEN "MEDIUM" ELSE "LOW"
    BY <2>2 DEF toLevel
  <2> QED BY <2>3
<1>12. toAction(toLevel(score, q.settings), q.settings) # "BLOCK" BY <1>2, <1>11 DEF toAction
<1>13. DecidedOn(q, failed) # "BLOCK" BY <1>8, <1>9, <1>12 DEF DecidedOn, Decided
<1> QED BY <1>0, <1>13, AnswerIs

LEMMA ListsDecideProved == EngineInv /\ Answered => ListsDecide
<1> SUFFICES ASSUME EngineInv, Answered PROVE ListsDecide OBVIOUS
<1> DEFINE q == inquiry
           failed == inquiry.failed
           found == Reports(LookedAt(q, failed), q.facts, q.settings)
           lists == OfLists(q, failed)
           W == signal("WHITELISTED", -1000)
           least == Min({q.settings.medium, q.settings.high, q.settings.critical})
<1>1. IsInquiry(q) BY AnswerIs
<1>2. ASSUME Heard("BLACKLIST"), ~Heard("WHITELIST")
      PROVE  inquiry.answer.action = (IF inquiry.optOut THEN "REVIEW" ELSE "BLOCK")
  <2>1. \E s \in lists : s.code = "BLACKLISTED"
    <3>1. /\ "blockList" \notin failed /\ "checkBlockList" \in q.settings.checks
          /\ (\E m \in q.matches : m.type = "BLACKLIST") /\ ~(\E m \in q.matches : m.type = "WHITELIST")
      BY <1>2 DEF Heard
    <3> QED BY <1>1, <3>1, ListsSay
  <2>2. lists \subseteq BaseOf(q, failed) BY <1>1, BaseIsFine DEF BaseOf
  <2>3. DecidedOn(q, failed) = "BLOCK" BY <2>1, <2>2 DEF DecidedOn, Decided
  <2>4. Looked BY <1>2 DEF Heard
  <2> QED BY <2>3, <2>4, AnswerIs
<1>3. ASSUME Heard("WHITELIST"), ~Forces, Max({0, Worst + PointsOf(q.rules) - 1000}) < least
      PROVE  inquiry.answer.action = "ALLOW"
  <2>1. /\ "blockList" \notin failed /\ "checkBlockList" \in q.settings.checks /\ Looked
        /\ \E m \in q.matches : m.type = "WHITELIST"
    BY <1>3 DEF Heard
  <2>2. lists = {W} BY <1>1, <2>1, ListsSay
  <2>3. Total(lists) = -1000
    <3>1. W.weight = -1000 BY DEF signal
    <3> HIDE DEF W
    <3>2. Total({W}) = -1000 BY <3>1, TotalOfOne
    <3> HIDE DEF lists
    <3> QED BY <2>2, <3>2
  <2>4. /\ Total(BaseOf(q, failed)) = Total(lists) + Total(found) /\ BaseOf(q, failed) = lists \cup found
        /\ Total(found) \in Int /\ Total(found) <= Worst /\ Worst \in Nat
        /\ \A s \in found : s.code # "BLACKLISTED"
    BY <1>1, BaseIsFine DEF BaseOf
  <2>5. \A s \in BaseOf(q, failed) : s.code # "BLACKLISTED"
    <3>1. W.code # "BLACKLISTED" BY DEF signal
    <3> HIDE DEF W, lists, found
    <3> QED BY <2>2, <2>4, <3>1
  <2>6. ForcedBy(q, failed) = "none" BY <1>1, <1>3, ForcedByARule DEF Forces
  <2> DEFINE added == Total(Added(q, failed))
             n == Total(BaseOf(q, failed)) + added
             most == PointsOf(q.rules)
  <2>7. added \in Int /\ added <= most /\ most \in Nat BY <1>1, ScoreIsClamped
  <2>8. ScoreOf(q, failed) = clamp(n) BY DEF ScoreOf
  <2>9. least \in Nat
        /\ least <= q.settings.medium /\ least <= q.settings.high /\ least <= q.settings.critical
    <3>1. {q.settings.medium, q.settings.high, q.settings.critical} \in SUBSET Nat
      BY <1>1 DEF IsInquiry, IsSettings
    <3> DEFINE S == {q.settings.medium, q.settings.high, q.settings.critical}
    <3>2. S # {} /\ S \in SUBSET Nat BY <3>1
    <3> HIDE DEF S
    <3>3. Min(S) \in Nat /\ \A k \in S : Min(S) <= k BY <3>2, MinIsLeast
    <3> QED BY <3>3 DEF S
  <2>10. {q.settings.medium, q.settings.high, q.settings.critical} \in SUBSET Nat BY <1>1 DEF IsInquiry, IsSettings
  <2>11. n \in Int /\ n < least /\ 0 < least
    <3> DEFINE x == Worst + most - 1000
    <3>1. Max({0, x}) < least BY <1>3
    <3> HIDE DEF added, most, least, lists, found
    <3>2. x \in Int BY <2>4, <2>7
    <3> HIDE DEF x
    <3>3. Max({0, x}) = IF 0 <= x THEN x ELSE 0 BY <3>2, MinMaxOfTwo
    <3>4. x < least /\ 0 < least BY <2>9, <3>1, <3>2, <3>3
    <3> QED BY <2>3, <2>4, <2>7, <2>9, <3>4 DEF x
  <2> HIDE DEF n, least
  <2>12. clamp(n) \in Nat /\ clamp(n) < least BY <2>9, <2>11, ClampBounds
  <2>13. ScoreOf(q, failed) < q.settings.medium /\ ScoreOf(q, failed) < q.settings.high
         /\ ScoreOf(q, failed) < q.settings.critical
    BY <2>8, <2>9, <2>10, <2>12
  <2>14. DecidedOn(q, failed) = "ALLOW" BY <1>1, <2>5, <2>6, <2>13, LowIsAllowed
  <2> QED BY <2>1, <2>14, AnswerIs
<1> QED BY <1>2, <1>3 DEF ListsDecide

LEMMA NoRefusalProved == EngineInv /\ Answered => NoRefusalAgainstChoice
<1> SUFFICES ASSUME EngineInv, Answered, inquiry.optOut PROVE inquiry.answer.action # "BLOCK"
  BY DEF NoRefusalAgainstChoice
<1>1. CASE Looked BY <1>1, AnswerIs
<1>2. CASE ~Looked BY <1>2, AnswerIs DEF permissive
<1> QED BY <1>1, <1>2

\* What fails takes no points away from the rules that are read, and nothing but the
\* rules that are not.
LEMMA FailureAddsNoPoints ==
    ASSUME NEW q, IsInquiry(q), NEW failed,
           "rules" \in failed => OnlyDoubts(q.rules),
           "rules" \notin failed => PointsIgnore(q.rules, Misled(failed))
    PROVE  Total(Added(q, failed)) <= Total(Added(q, {}))
<1>1. IsRuleList(q.rules) BY DEF IsInquiry
<1>2. RulesRead(q.rules, {}) = q.rules BY DEF RulesRead
<1>3. MatchedBy(q, {}) \in SUBSET DOMAIN q.rules BY <1>2 DEF MatchedBy, Matched
<1>4. CASE "rules" \in failed
  <2>1. RulesRead(q.rules, failed) = <<>> BY <1>4 DEF RulesRead
  <2>2. Added(q, failed) = {} BY <2>1 DEF Added, OfRules, MatchedBy, Matched
  <2>3. 0 <= Total(Added(q, {})) BY <1>1, <1>2, <1>3, <1>4, DoubtsAdd DEF Added
  <2> QED BY <2>2, <2>3, TotalOfNone
<1>5. CASE "rules" \notin failed
  <2>1. RulesRead(q.rules, failed) = q.rules BY <1>5 DEF RulesRead
  <2>2. \/ IntelOf(q, failed).countryCode = IntelOf(q, {}).countryCode
        \/ "ipCountryCode" \in Misled(failed)
    BY DEF IntelOf, ipIntelOf, Misled
  <2>3. "riskScore" \in Misled(failed) BY DEF Misled
  <2>4. PointsIgnore(q.rules, Misled(failed)) BY <1>5
  <2> DEFINE a == clamp(Total(BaseOf(q, failed)))
             b == clamp(Total(BaseOf(q, {})))
  <2>5. Added(q, failed) = OfRules(q.rules, Matched(q.rules, toRuleContext(subjectOf(q), a, IntelOf(q, failed).countryCode)))
    BY <2>1 DEF Added, MatchedBy, ContextOf
  <2>6. Added(q, {}) = OfRules(q.rules, Matched(q.rules, toRuleContext(subjectOf(q), b, IntelOf(q, {}).countryCode)))
    BY <1>2 DEF Added, MatchedBy, ContextOf
  <2> HIDE DEF a, b
  <2>7. Total(Added(q, failed)) = Total(Added(q, {}))
    BY <1>1, <2>2, <2>3, <2>4, <2>5, <2>6, RulesAddTheSame
  <2>8. Total(Added(q, failed)) \in Int BY ScoreIsClamped
  <2> QED BY <2>7, <2>8
<1> QED BY <1>4, <1>5

LEMMA FailureProved == EngineInv /\ Answered => FailureIsNotSuspicion
<1> SUFFICES ASSUME EngineInv, Answered, "blockList" \notin inquiry.failed,
                    "rules" \in inquiry.failed => OnlyDoubts(inquiry.rules),
                    "rules" \notin inquiry.failed => PointsIgnore(inquiry.rules, Misled(inquiry.failed))
             PROVE  inquiry.answer.score <= Answer({}).score
  BY DEF FailureIsNotSuspicion
<1> DEFINE q == inquiry
           failed == inquiry.failed
<1>1. IsInquiry(q) BY AnswerIs
<1>2. CASE ~q.settings.isEnabled
  <2>1. inquiry.answer = permissive BY <1>2, AnswerIs DEF Looked
  <2>2. Answer({}) = permissive BY <1>2 DEF Answer, assess
  <2> QED BY <2>1, <2>2 DEF permissive
<1> SUFFICES ASSUME q.settings.isEnabled PROVE inquiry.answer.score <= Answer({}).score BY <1>2
<1>3. Answer({}).score = ScoreOf(q, {})
  <2>1. Answer({}) = runAssessment(subjectOf(q), q.settings, q.rules, {}) BY DEF Answer, assess
  <2> QED BY <1>1, <2>1, VerdictIs
<1>4. CASE ~Looked
  <2>1. inquiry.answer.score = 0 BY <1>4, AnswerIs DEF permissive
  <2> QED BY <1>1, <1>3, <2>1, ScoreIsClamped
<1>5. CASE Looked
  <2>1. inquiry.answer.score = ScoreOf(q, failed) BY <1>5, AnswerIs
  <2>3. /\ IsFiniteSet(BaseOf(q, {})) /\ \A s \in BaseOf(q, {}) : s.weight \in Int
        /\ BaseOf(q, {}) = OfLists(q, {}) \cup Reports(LookedAt(q, {}), q.facts, q.settings)
        /\ \A s \in Reports(LookedAt(q, {}), q.facts, q.settings) : s.weight \in Nat
    BY <1>1, BaseIsFine DEF BaseOf
  <2>4. BaseOf(q, failed) = OfLists(q, failed) \cup Reports(LookedAt(q, failed), q.facts, q.settings)
    BY <1>1, BaseIsFine DEF BaseOf
  <2>5. OfLists(q, failed) = OfLists(q, {}) BY DEF OfLists
  <2>6. Reports(LookedAt(q, failed), q.facts, q.settings) \subseteq Reports(LookedAt(q, {}), q.facts, q.settings)
    <3>1. LookedAt(q, failed) \subseteq LookedAt(q, {}) BY BaseIsListsAndReports
    <3> QED BY <3>1 DEF Reports
  <2> DEFINE B == BaseOf(q, {})
             A == BaseOf(q, failed)
  <2>7. A \in SUBSET B /\ \A s \in B \ A : s.weight \in Nat BY <2>3, <2>4, <2>5, <2>6
  <2>8. Total(A) <= Total(B)
    <3> HIDE DEF A
    <3>1. IsFiniteSet(B) /\ \A s \in B : s.weight \in Int BY <2>3
    <3> HIDE DEF B
    <3> QED BY <2>7, <3>1, TotalGrows
  <2> DEFINE r == Total(Added(q, failed))
             t == Total(Added(q, {}))
             m == Total(A) + r
             n == Total(B) + t
  <2>9. r <= t BY <1>1, FailureAddsNoPoints
  <2>10. Total(A) \in Int /\ Total(B) \in Int /\ r \in Int /\ t \in Int BY <1>1, ScoreIsClamped
  <2>11. ScoreOf(q, failed) = clamp(m) /\ ScoreOf(q, {}) = clamp(n) BY DEF ScoreOf
  <2>12. m \in Int /\ n \in Int /\ m <= n
    <3> HIDE DEF r, t, A, B
    <3> QED BY <2>8, <2>9, <2>10
  <2> HIDE DEF m, n
  <2>13. clamp(m) <= clamp(n) BY <2>12, ClampBounds
  <2> QED BY <1>3, <2>1, <2>11, <2>13
<1> QED BY <1>4, <1>5

\* Whatever the order, the rules, the settings and what fails, the engine is fair to
\* the shopper (engine.ts, detectors.ts).
THEOREM EngineIsFairHolds == EngineSpec => []EngineIsFair
<1>1. EngineInv => EngineIsFair
  BY LoneOddityProved, ListsDecideProved, NoRefusalProved, FailureProved DEF EngineIsFair
<1> QED BY <1>1, EngineStarts, EngineAnswers, PTL DEF EngineSpec

-----------------------------------------------------------------------------
(* The fraud desk. *)

IsScan(s) == s = [f \in {"at", "was", "medium", "resolved", "matches", "deaf", "verdict", "doubt"} |-> s[f]]
IsRequest(r) == r = [f \in {"at", "type", "drop", "add"} |-> r[f]]
IsOrder(r) == r = [f \in {"action", "shipped"} |-> r[f]]

DeskTypes ==
    /\ order = [o \in Held |-> order[o]] /\ scan = [o \in Held |-> scan[o]]
    /\ request = [d \in Desks |-> request[d]] /\ missed \in [Held -> BOOLEAN]
    /\ \A o \in Held : IsOrder(order[o]) /\ IsScan(scan[o])
    /\ \A d \in Desks : IsRequest(request[d])

\* The verdict of a configuration c on the order o.
VerdictBy(o, c) ==
    Judged(o, c.medium, TRUE, findBlockListMatches(o, c.list), listEnabledRules(c.rule), {})

\* A scan s of the order o, of action a, has read the configuration c as it stands.
ScanAgrees(o, s, a, c) ==
    /\ s.at \in Where
    /\ s.at \in {"none", "kept", "release"} => a = VerdictBy(o, c)
    /\ s.at \in {"settings", "lists"} => s.deaf = FALSE
    /\ s.at = "lists" /\ ~s.doubt => s.medium = c.medium /\ s.resolved = TRUE
    /\ s.at = "rules" /\ ~s.doubt => /\ s.medium = c.medium /\ s.resolved = TRUE /\ s.deaf = FALSE
                                     /\ s.matches = findBlockListMatches(o, c.list)
    /\ s.at = "apply" /\ ~s.doubt => s.verdict = VerdictBy(o, c)

AllIdle == \A d \in Desks : request[d].at = "idle"
OrderAgrees(o) ==
    ~order[o].shipped /\ ~missed[o] => ScanAgrees(o, scan[o], order[o].action, config)

DeskInv == DeskTypes /\ (AllIdle => \A o \in Held : OrderAgrees(o))

LEMMA DeskStarts == DeskInit => DeskInv
<1> SUFFICES ASSUME DeskInit PROVE DeskInv OBVIOUS
<1>1. \A o \in Held : order[o] = [action |-> Verdict(o), shipped |-> FALSE] /\ scan[o] = NoScan
  BY DEF DeskInit
<1>2. IsScan(NoScan) /\ NoScan.at = "none" /\ IsRequest(NoRequest) BY DEF IsScan, NoScan, IsRequest, NoRequest
<1>3. /\ order = [o \in Held |-> order[o]] /\ scan = [o \in Held |-> scan[o]]
      /\ request = [d \in Desks |-> request[d]] /\ missed \in [Held -> BOOLEAN]
      /\ \A d \in Desks : request[d] = NoRequest
  BY DEF DeskInit
<1>4. DeskTypes BY <1>1, <1>2, <1>3 DEF DeskTypes, IsOrder
<1>5. ASSUME NEW o \in Held PROVE OrderAgrees(o)
  <2> DEFINE v == Verdict(o)
  <2>1. order[o] = [action |-> v, shipped |-> FALSE] BY <1>1
  <2> HIDE DEF v
  <2>2. order[o].action = v BY <2>1
  <2>3. order[o].action = Verdict(o) BY <2>2 DEF v
  <2>4. Verdict(o) = VerdictBy(o, config) BY DEF Verdict, VerdictIf, VerdictBy
  <2>5. order[o].action = VerdictBy(o, config) BY <2>3, <2>4
  <2> QED BY <1>1, <1>2, <2>5 DEF OrderAgrees, ScanAgrees, Where
<1> QED BY <1>4, <1>5 DEF DeskInv

\* One order's scan, verdict or mark goes on, and the others stay.
OneOrder(q, s, r, m) ==
    /\ UNCHANGED <<config, request>>
    /\ IsScan(s) /\ IsOrder(r) /\ m \in BOOLEAN
    /\ scan' = [scan EXCEPT ![q] = s] /\ order' = [order EXCEPT ![q] = r] /\ missed' = [missed EXCEPT ![q] = m]
    /\ AllIdle /\ ~r.shipped /\ ~m => ScanAgrees(q, s, r.action, config)

LEMMA OneOrderMoves ==
    ASSUME DeskInv, NEW q \in Held, NEW s, NEW r, NEW m, OneOrder(q, s, r, m)
    PROVE  DeskInv'
<1>1. DeskTypes' BY DEF DeskInv, DeskTypes, OneOrder
<1>2. ASSUME AllIdle, NEW o \in Held PROVE OrderAgrees(o)'
  <2>1. CASE o = q
    <3>1. scan'[o] = s /\ order'[o] = r /\ missed'[o] = m /\ config' = config
      BY <2>1 DEF OneOrder, DeskInv, DeskTypes
    <3> QED BY <1>2, <2>1, <3>1 DEF OneOrder, OrderAgrees
  <2>2. CASE o # q
    <3>1. scan'[o] = scan[o] /\ order'[o] = order[o] /\ missed'[o] = missed[o] /\ config' = config
      BY <2>2 DEF OneOrder, DeskInv, DeskTypes
    <3> QED BY <1>2, <3>1 DEF DeskInv, OrderAgrees
  <2> QED BY <2>1, <2>2
<1>3. AllIdle' => AllIdle BY DEF AllIdle, OneOrder
<1> QED BY <1>1, <1>2, <1>3 DEF DeskInv

\* What an order's scan has been through so far.
LEMMA OrderSoFar ==
    ASSUME DeskInv, NEW o \in Held
    PROVE  /\ IsScan(scan[o]) /\ IsOrder(order[o]) /\ missed[o] \in BOOLEAN
           /\ AllIdle /\ ~order[o].shipped /\ ~missed[o] => ScanAgrees(o, scan[o], order[o].action, config)
           /\ scan = [scan EXCEPT ![o] = scan[o]] /\ order = [order EXCEPT ![o] = order[o]]
           /\ missed = [missed EXCEPT ![o] = missed[o]]
           /\ \A at : [scan EXCEPT ![o].at = at] = [scan EXCEPT ![o] = [scan[o] EXCEPT !.at = at]]
  BY DEF DeskInv, DeskTypes, OrderAgrees

\* Marks are put beside some orders.
LEMMA MissesOne ==
    ASSUME DeskInv, NEW o \in Held
    PROVE  /\ Misses({o}) => missed' = [missed EXCEPT ![o] = TRUE]
           /\ Misses({}) => missed' = [missed EXCEPT ![o] = missed[o]]
  BY DEF DeskInv, DeskTypes, Misses

LEMMA StartAgrees == ASSUME DeskInv, NEW o \in Held, StartScan(o) PROVE DeskInv'
<1> DEFINE s == [NoScan EXCEPT !.at = IF order[o].shipped THEN "kept" ELSE "settings",
                               !.was = order[o].action]
<1>1. /\ scan' = [scan EXCEPT ![o] = s] /\ missed' = [missed EXCEPT ![o] = FALSE]
      /\ UNCHANGED <<config, order, request>>
  BY DEF StartScan
<1>2. IsScan(s) /\ s.at = (IF order[o].shipped THEN "kept" ELSE "settings") /\ s.deaf = FALSE
  BY DEF IsScan, NoScan
<1> HIDE DEF s
<1>3. OneOrder(o, s, order[o], FALSE) BY <1>1, <1>2, OrderSoFar DEF OneOrder, ScanAgrees, Where
<1> QED BY <1>3, OneOrderMoves

LEMMA SettingsAgree == ASSUME DeskInv, NEW o \in Held, ReadSettings(o) PROVE DeskInv'
<1>0. UNCHANGED <<config, order, request, missed>> /\ scan[o].at = "settings" BY DEF ReadSettings
<1>1. ASSUME NEW resolved \in BOOLEAN,
             scan' = [scan EXCEPT ![o].at = "lists", ![o].medium = config.medium,
                                  ![o].resolved = resolved, ![o].doubt = ~resolved]
      PROVE  DeskInv'
  <2> DEFINE s == [scan[o] EXCEPT !.at = "lists", !.medium = config.medium, !.resolved = resolved,
                                  !.doubt = ~resolved]
  <2>1. scan' = [scan EXCEPT ![o] = s] BY <1>1 DEF DeskInv, DeskTypes
  <2>2. /\ IsScan(s) /\ s.at = "lists" /\ s.medium = config.medium /\ s.resolved = resolved
        /\ s.doubt = ~resolved /\ s.deaf = scan[o].deaf
    BY OrderSoFar DEF IsScan
  <2> HIDE DEF s
  <2>3. ~s.doubt => s.resolved = TRUE BY <2>2
  <2>4. OneOrder(o, s, order[o], missed[o])
    BY <1>0, <2>1, <2>2, <2>3, OrderSoFar DEF OneOrder, ScanAgrees, Where
  <2> QED BY <2>4, OneOrderMoves
<1>2. CASE Permits(o)
  <2> DEFINE s == [scan[o] EXCEPT !.at = "apply", !.verdict = permissive.action, !.doubt = TRUE]
  <2>1. scan' = [scan EXCEPT ![o] = s] BY <1>2 DEF Permits, DeskInv, DeskTypes
  <2>2. IsScan(s) /\ s.at = "apply" /\ s.doubt = TRUE BY OrderSoFar DEF IsScan
  <2> HIDE DEF s
  <2>3. OneOrder(o, s, order[o], missed[o])
    BY <1>0, <2>1, <2>2, OrderSoFar DEF OneOrder, ScanAgrees, Where
  <2> QED BY <2>3, OneOrderMoves
<1> QED BY <1>1, <1>2 DEF ReadSettings

LEMMA DeadlineAgrees == ASSUME DeskInv, NEW o \in Held, Deadline(o) PROVE DeskInv'
<1> DEFINE s == [scan[o] EXCEPT !.at = "apply", !.verdict = permissive.action, !.doubt = TRUE]
<1>1. scan' = [scan EXCEPT ![o] = s] BY DEF Deadline, Permits, DeskInv, DeskTypes
<1>2. IsScan(s) /\ s.at = "apply" /\ s.doubt = TRUE BY OrderSoFar DEF IsScan
<1> HIDE DEF s
<1>3. UNCHANGED <<config, order, request, missed>> BY DEF Deadline
<1>4. OneOrder(o, s, order[o], missed[o])
  BY <1>1, <1>2, <1>3, OrderSoFar DEF OneOrder, ScanAgrees, Where
<1> QED BY <1>4, OneOrderMoves

LEMMA ListsAgree == ASSUME DeskInv, NEW o \in Held, ReadLists(o) PROVE DeskInv'
<1>0. UNCHANGED <<config, order, request, missed>> /\ scan[o].at = "lists" BY DEF ReadLists
<1>1. CASE scan' = [scan EXCEPT ![o].at = "rules", ![o].matches = findBlockListMatches(o, config.list)]
  <2> DEFINE s == [scan[o] EXCEPT !.at = "rules", !.matches = findBlockListMatches(o, config.list)]
  <2>1. scan' = [scan EXCEPT ![o] = s] BY <1>1 DEF DeskInv, DeskTypes
  <2>2. /\ IsScan(s) /\ s.at = "rules" /\ s.medium = scan[o].medium /\ s.resolved = scan[o].resolved
        /\ s.doubt = scan[o].doubt /\ s.deaf = scan[o].deaf /\ s.matches = findBlockListMatches(o, config.list)
    BY OrderSoFar DEF IsScan
  <2> HIDE DEF s
  <2>3. OneOrder(o, s, order[o], missed[o])
    BY <1>0, <2>1, <2>2, OrderSoFar DEF OneOrder, ScanAgrees, Where
  <2> QED BY <2>3, OneOrderMoves
<1>2. CASE scan' = [scan EXCEPT ![o].at = "rules", ![o].deaf = TRUE, ![o].doubt = TRUE]
  <2> DEFINE s == [scan[o] EXCEPT !.at = "rules", !.deaf = TRUE, !.doubt = TRUE]
  <2>1. scan' = [scan EXCEPT ![o] = s] BY <1>2 DEF DeskInv, DeskTypes
  <2>2. IsScan(s) /\ s.at = "rules" /\ s.doubt = TRUE BY OrderSoFar DEF IsScan
  <2> HIDE DEF s
  <2>3. OneOrder(o, s, order[o], missed[o])
    BY <1>0, <2>1, <2>2, OrderSoFar DEF OneOrder, ScanAgrees, Where
  <2> QED BY <2>3, OneOrderMoves
<1> QED BY <1>1, <1>2 DEF ReadLists

LEMMA RulesAgree == ASSUME DeskInv, NEW o \in Held, ReadRules(o) PROVE DeskInv'
<1>0. UNCHANGED <<config, order, request, missed>> /\ scan[o].at = "rules" BY DEF ReadRules
<1>1. CASE scan' = [scan EXCEPT ![o].at = "apply", ![o].verdict = JudgeBy(o, listEnabledRules(config.rule))]
  <2> DEFINE v == JudgeBy(o, listEnabledRules(config.rule))
             s == [scan[o] EXCEPT !.at = "apply", !.verdict = v]
  <2>1. scan' = [scan EXCEPT ![o] = s] BY <1>1 DEF DeskInv, DeskTypes
  <2>4. ASSUME AllIdle, ~order[o].shipped, ~missed[o], ~scan[o].doubt PROVE v = VerdictBy(o, config)
    <3>1. /\ scan[o].medium = config.medium /\ scan[o].resolved = TRUE /\ scan[o].deaf = FALSE
          /\ scan[o].matches = findBlockListMatches(o, config.list)
      BY <1>0, <2>4, OrderSoFar DEF ScanAgrees
    <3> QED BY <3>1 DEF JudgeBy, VerdictBy
  <2> HIDE DEF v
  <2>2. IsScan(s) /\ s.at = "apply" /\ s.verdict = v /\ s.doubt = scan[o].doubt
    BY OrderSoFar DEF IsScan
  <2> HIDE DEF s
  <2>3. OneOrder(o, s, order[o], missed[o])
    BY <1>0, <2>1, <2>2, <2>4, OrderSoFar DEF OneOrder, ScanAgrees, Where
  <2> QED BY <2>3, OneOrderMoves
<1>2. CASE scan' = [scan EXCEPT ![o].at = "apply", ![o].verdict = JudgeBy(o, <<>>), ![o].doubt = TRUE]
  <2> DEFINE v == JudgeBy(o, <<>>)
             s == [scan[o] EXCEPT !.at = "apply", !.verdict = v, !.doubt = TRUE]
  <2>1. scan' = [scan EXCEPT ![o] = s] BY <1>2 DEF DeskInv, DeskTypes
  <2> HIDE DEF v
  <2>2. IsScan(s) /\ s.at = "apply" /\ s.doubt = TRUE BY OrderSoFar DEF IsScan
  <2> HIDE DEF s
  <2>3. OneOrder(o, s, order[o], missed[o])
    BY <1>0, <2>1, <2>2, OrderSoFar DEF OneOrder, ScanAgrees, Where
  <2> QED BY <2>3, OneOrderMoves
<1> QED BY <1>1, <1>2 DEF ReadRules

LEMMA PersistAgrees == ASSUME DeskInv, NEW o \in Held, persistAssessment(o) PROVE DeskInv'
<1> DEFINE t == scan[o]
           at == IF t.was = t.verdict THEN "kept" ELSE "release"
           s == [scan[o] EXCEPT !.at = at]
           r == [order[o] EXCEPT !.action = t.verdict]
<1>1. t.at = "apply" /\ scan' = [scan EXCEPT ![o] = s] /\ UNCHANGED <<config, request>>
  BY OrderSoFar DEF persistAssessment, Scans
<1>2. IsScan(s) /\ s.at \in {"kept", "release"} BY OrderSoFar DEF IsScan
<1>3. IsOrder(r) /\ r.action = t.verdict /\ r.shipped = order[o].shipped BY OrderSoFar DEF IsOrder
<1>4. CASE order' = [order EXCEPT ![o].action = t.verdict] /\ Misses(IF t.doubt THEN {o} ELSE {})
  <2>1. order' = [order EXCEPT ![o] = r] BY <1>4 DEF DeskInv, DeskTypes
  <2> HIDE DEF s, r
  <2>2. CASE t.doubt
    <3>1. missed' = [missed EXCEPT ![o] = TRUE] BY <1>4, <2>2, MissesOne
    <3>2. OneOrder(o, s, r, TRUE) BY <1>1, <1>2, <1>3, <2>1, <3>1 DEF OneOrder
    <3> QED BY <3>2, OneOrderMoves
  <2>3. CASE ~t.doubt
    <3>1. missed' = [missed EXCEPT ![o] = missed[o]] BY <1>4, <2>3, MissesOne
    <3>2. AllIdle /\ ~r.shipped /\ ~missed[o] => ScanAgrees(o, s, r.action, config)
      BY <1>1, <1>2, <1>3, <2>3, OrderSoFar DEF ScanAgrees, Where
    <3>3. OneOrder(o, s, r, missed[o]) BY <1>1, <1>2, <1>3, <2>1, <3>1, <3>2, OrderSoFar DEF OneOrder
    <3> QED BY <3>3, OneOrderMoves
  <2> QED BY <2>2, <2>3
<1>5. CASE Misses({o}) /\ UNCHANGED order
  <2>1. missed' = [missed EXCEPT ![o] = TRUE] BY <1>5, MissesOne
  <2> HIDE DEF s, r
  <2>2. OneOrder(o, s, order[o], TRUE) BY <1>1, <1>2, <1>5, <2>1, OrderSoFar DEF OneOrder
  <2> QED BY <2>2, OneOrderMoves
<1> QED BY <1>4, <1>5 DEF persistAssessment

LEMMA ReleaseAgrees ==
    ASSUME DeskInv, NEW o \in Held, Release(o) \/ Retry(o) \/ Evict(o) \/ Ship(o) PROVE DeskInv'
<1>1. CASE Release(o)
  <2> DEFINE s == [scan[o] EXCEPT !.at = "kept"]
  <2>1. scan[o].at = "release" /\ scan' = [scan EXCEPT ![o] = s] /\ UNCHANGED <<config, order, request, missed>>
    BY <1>1, OrderSoFar DEF Release, Scans
  <2>2. IsScan(s) /\ s.at = "kept" BY OrderSoFar DEF IsScan
  <2> HIDE DEF s
  <2>3. OneOrder(o, s, order[o], missed[o]) BY <2>1, <2>2, OrderSoFar DEF OneOrder, ScanAgrees, Where
  <2> QED BY <2>3, OneOrderMoves
<1>2. CASE Retry(o)
  <2>0. UNCHANGED <<config, order, request>> BY <1>2 DEF Retry
  <2>1. CASE Scans(o, "waiting") /\ UNCHANGED missed
    <3> DEFINE s == [scan[o] EXCEPT !.at = "waiting"]
    <3>1. scan' = [scan EXCEPT ![o] = s] BY <2>1, OrderSoFar DEF Scans
    <3>2. IsScan(s) /\ s.at = "waiting" BY OrderSoFar DEF IsScan
    <3> HIDE DEF s
    <3>3. OneOrder(o, s, order[o], missed[o])
      BY <2>0, <2>1, <3>1, <3>2, OrderSoFar DEF OneOrder, ScanAgrees, Where
    <3> QED BY <3>3, OneOrderMoves
  <2>2. CASE Scans(o, "kept") /\ Misses({o})
    <3> DEFINE s == [scan[o] EXCEPT !.at = "kept"]
    <3>1. scan' = [scan EXCEPT ![o] = s] BY <2>2, OrderSoFar DEF Scans
    <3>2. IsScan(s) BY OrderSoFar DEF IsScan
    <3> HIDE DEF s
    <3>3. missed' = [missed EXCEPT ![o] = TRUE] BY <2>2, MissesOne
    <3>4. OneOrder(o, s, order[o], TRUE) BY <2>0, <3>1, <3>2, <3>3, OrderSoFar DEF OneOrder
    <3> QED BY <3>4, OneOrderMoves
  <2> QED BY <1>2, <2>1, <2>2 DEF Retry
<1>3. CASE Evict(o)
  <2>1. scan[o].at = "kept" /\ scan' = [scan EXCEPT ![o] = NoScan] /\ UNCHANGED <<config, order, request, missed>>
    BY <1>3 DEF Evict
  <2>2. IsScan(NoScan) /\ NoScan.at = "none" BY DEF IsScan, NoScan
  <2>3. OneOrder(o, NoScan, order[o], missed[o]) BY <2>1, <2>2, OrderSoFar DEF OneOrder, ScanAgrees, Where
  <2> QED BY <2>3, OneOrderMoves
<1>4. CASE Ship(o)
  <2> DEFINE r == [order[o] EXCEPT !.shipped = TRUE]
  <2>1. UNCHANGED <<config, scan, request, missed>> BY <1>4 DEF Ship
  <2>2. CASE order' = [order EXCEPT ![o].shipped = TRUE]
    <3>1. order' = [order EXCEPT ![o] = r] BY <2>2 DEF DeskInv, DeskTypes
    <3>2. IsOrder(r) /\ r.shipped BY OrderSoFar DEF IsOrder
    <3> HIDE DEF r
    <3>3. OneOrder(o, scan[o], r, missed[o]) BY <2>1, <3>1, <3>2, OrderSoFar DEF OneOrder
    <3> QED BY <3>3, OneOrderMoves
  <2>3. CASE UNCHANGED order
    <3>1. OneOrder(o, scan[o], order[o], missed[o]) BY <2>1, <2>3, OrderSoFar DEF OneOrder
    <3> QED BY <3>1, OneOrderMoves
  <2> QED BY <1>4, <2>2, <2>3 DEF Ship
<1> QED BY <1>1, <1>2, <1>3, <1>4

-----------------------------------------------------------------------------

\* A request leaves someone not idle, or marks every order, or is done with the lists as they are.
LEMMA RequestMoves ==
    ASSUME DeskInv, UNCHANGED <<order, scan>>, NEW d \in Desks, NEW r, IsRequest(r),
           request' = [request EXCEPT ![d] = r], missed' \in [Held -> BOOLEAN],
           r.at = "idle" => \A o \in Held : missed'[o]
    PROVE  DeskInv'
<1>1. DeskTypes' BY DEF DeskInv, DeskTypes
<1>2. request'[d] = r BY DEF DeskInv, DeskTypes
<1>3. AllIdle' => \A o \in Held : missed'[o] BY <1>2 DEF AllIdle
<1> QED BY <1>1, <1>3 DEF DeskInv, OrderAgrees

LEMMA MissesAll ==
    ASSUME Misses(Held) PROVE missed' \in [Held -> BOOLEAN] /\ \A o \in Held : missed'[o]
  BY DEF Misses

LEMMA EditAgrees ==
    ASSUME DeskInv, NEW d \in Desks,
           \/ \E medium \in Thresholds : updateSettings(d, medium)
           \/ \E t \in Types, p \in Phones : addBlockListEntry(d, t, p) \/ removeBlockListEntry(d, t, p)
           \/ \E t \in Types, wanted \in SUBSET Phones : replaceBlockList(d, t, wanted)
           \/ updateRule(d) \/ createRule(d) \/ deleteRule(d)
    PROVE  DeskInv'
<1>0. UNCHANGED <<order, scan>>
  BY DEF OnlyConfig, updateSettings, addBlockListEntry, removeBlockListEntry, replaceBlockList, updateRule,
         createRule, deleteRule
<1>1. ASSUME Goes(d, "rescan"), UNCHANGED missed PROVE DeskInv'
  <2> DEFINE r == [NoRequest EXCEPT !.at = "rescan"]
  <2>1. IsRequest(r) /\ r.at = "rescan" BY DEF IsRequest, NoRequest
  <2>2. request' = [request EXCEPT ![d] = r] BY <1>1 DEF Goes
  <2>3. missed' \in [Held -> BOOLEAN] BY <1>1 DEF DeskInv, DeskTypes
  <2> HIDE DEF r
  <2> QED BY <1>0, <2>1, <2>2, <2>3, RequestMoves
<1>2. ASSUME Misses(Held), UNCHANGED request PROVE DeskInv'
  <2>1. missed' \in [Held -> BOOLEAN] /\ \A o \in Held : missed'[o] BY <1>2, MissesAll
  <2>2. DeskTypes' BY <1>0, <1>2, <2>1 DEF DeskInv, DeskTypes
  <2> QED BY <2>1, <2>2 DEF DeskInv, OrderAgrees
<1>3. ASSUME NEW t \in Types, NEW wanted \in SUBSET Phones, replaceBlockList(d, t, wanted) PROVE DeskInv'
  <2> DEFINE have == {p \in Phones : config.list[t][p] # "none"}
             r == [at |-> "delete", type |-> t, drop |-> have \ wanted, add |-> wanted \ have]
  <2>1. IsRequest(r) /\ r.at = "delete" BY DEF IsRequest
  <2>2. request' = [request EXCEPT ![d] = r] /\ UNCHANGED missed BY <1>3 DEF replaceBlockList
  <2>3. missed' \in [Held -> BOOLEAN] BY <2>2 DEF DeskInv, DeskTypes
  <2> HIDE DEF r
  <2> QED BY <1>0, <2>1, <2>2, <2>3, RequestMoves
<1>4. \/ Goes(d, "rescan") /\ UNCHANGED missed
      \/ Misses(Held) /\ UNCHANGED request
      \/ \E t \in Types, wanted \in SUBSET Phones : replaceBlockList(d, t, wanted)
  BY DEF updateSettings, addBlockListEntry, removeBlockListEntry, updateRule, createRule, deleteRule
<1> QED BY <1>1, <1>2, <1>3, <1>4

LEMMA ListStepAgrees ==
    ASSUME DeskInv, NEW d \in Desks, deleteFromScope(d) \/ UpsertNext(d) \/ CutOff(d) PROVE DeskInv'
<1>0. UNCHANGED <<order, scan>> BY DEF OnlyConfig, deleteFromScope, UpsertNext, CutOff
<1>1. IsRequest(request[d]) /\ (UNCHANGED missed => missed' \in [Held -> BOOLEAN]) BY DEF DeskInv, DeskTypes
<1>2. CASE deleteFromScope(d)
  <2> DEFINE r == [request[d] EXCEPT !.at = "upsert"]
  <2>1. IsRequest(r) /\ r.at = "upsert" BY <1>1 DEF IsRequest
  <2>2. request' = [request EXCEPT ![d] = r] /\ UNCHANGED missed
    BY <1>2 DEF deleteFromScope, DeskInv, DeskTypes
  <2> HIDE DEF r
  <2> QED BY <1>0, <1>1, <2>1, <2>2, RequestMoves
<1>3. ASSUME NEW p, request[d].at = "upsert", UNCHANGED missed,
             request' = [request EXCEPT ![d].add = @ \ {p}]
      PROVE  DeskInv'
  <2> DEFINE r == [request[d] EXCEPT !.add = @ \ {p}]
  <2>1. IsRequest(r) /\ r.at = "upsert" BY <1>1, <1>3 DEF IsRequest
  <2>2. request' = [request EXCEPT ![d] = r] BY <1>3 DEF DeskInv, DeskTypes
  <2> HIDE DEF r
  <2> QED BY <1>0, <1>1, <1>3, <2>1, <2>2, RequestMoves
<1>4. CASE Goes(d, "rescan") /\ UNCHANGED missed
  <2> DEFINE r == [NoRequest EXCEPT !.at = "rescan"]
  <2>1. IsRequest(r) /\ r.at = "rescan" BY DEF IsRequest, NoRequest
  <2>2. request' = [request EXCEPT ![d] = r] BY <1>4 DEF Goes
  <2> HIDE DEF r
  <2> QED BY <1>0, <1>1, <1>4, <2>1, <2>2, RequestMoves
<1>5. CASE Goes(d, "idle") /\ Misses(Held)
  <2> DEFINE r == [NoRequest EXCEPT !.at = "idle"]
  <2>1. IsRequest(r) BY DEF IsRequest, NoRequest
  <2>2. request' = [request EXCEPT ![d] = r] BY <1>5 DEF Goes
  <2>3. missed' \in [Held -> BOOLEAN] /\ \A o \in Held : missed'[o] BY <1>5, MissesAll
  <2> HIDE DEF r
  <2> QED BY <1>0, <2>1, <2>2, <2>3, RequestMoves
<1> QED BY <1>2, <1>3, <1>4, <1>5 DEF UpsertNext, CutOff

LEMMA RescanAgrees == ASSUME DeskInv, NEW d \in Desks, rescanPending(d) PROVE DeskInv'
<1> DEFINE found == Newest(Waiting)
           free == {o \in found : scan[o].at = "none"}
           r == [NoRequest EXCEPT !.at = "idle"]
           waits == [NoScan EXCEPT !.at = "waiting"]
<1>1. IsRequest(r) /\ request' = [request EXCEPT ![d] = r] /\ UNCHANGED <<config, order>>
  BY DEF IsRequest, NoRequest, rescanPending, Goes
<1>2. IsScan(waits) /\ waits.at = "waiting" BY DEF IsScan, NoScan
<1> HIDE DEF r, waits, found
<1>3. CASE /\ scan' = [o \in Held |-> IF o \in free THEN waits ELSE scan[o]]
           /\ Misses({o \in Held \ free : scan[o].at # "waiting"})
  <2>1. missed' \in [Held -> BOOLEAN] /\ \A o \in Held \ free : scan[o].at # "waiting" => missed'[o]
    BY <1>3 DEF Misses
  <2>2. DeskTypes' BY <1>1, <1>2, <1>3, <2>1 DEF DeskInv, DeskTypes
  <2>3. ASSUME NEW o \in Held, ~missed'[o] PROVE scan'[o].at = "waiting"
    BY <1>2, <1>3, <2>1, <2>3
  <2>4. \A o \in Held : OrderAgrees(o)'
    <3> TAKE o \in Held
    <3> SUFFICES ASSUME ~missed'[o] PROVE ScanAgrees(o, scan'[o], order'[o].action, config')
      BY DEF OrderAgrees
    <3>1. scan'[o].at = "waiting" BY <2>3
    <3> QED BY <3>1 DEF ScanAgrees, Where
  <2> QED BY <2>2, <2>4 DEF DeskInv
<1>4. CASE Misses(Held) /\ UNCHANGED scan
  <2>1. missed' \in [Held -> BOOLEAN] /\ \A o \in Held : missed'[o] BY <1>4, MissesAll
  <2> QED BY <1>1, <1>4, <2>1, RequestMoves
<1> QED BY <1>3, <1>4 DEF rescanPending, found, waits

LEMMA DecisionAgrees ==
    ASSUME DeskInv, NEW d \in Desks, NEW o \in Held,
           rescan(d, o) \/ \E a \in RiskActions : reviewAssessment(d, o, a)
    PROVE  DeskInv'
<1>1. PICK a : order' = [order EXCEPT ![o].action = a] BY DEF rescan, reviewAssessment
<1> DEFINE r == [order[o] EXCEPT !.action = a]
<1>2. order' = [order EXCEPT ![o] = r] BY <1>1 DEF DeskInv, DeskTypes
<1>3. IsOrder(r) BY OrderSoFar DEF IsOrder
<1> HIDE DEF r
<1>4. missed' = [missed EXCEPT ![o] = TRUE] /\ UNCHANGED <<config, request, scan>>
  BY MissesOne DEF rescan, reviewAssessment
<1>5. OneOrder(o, scan[o], r, TRUE) BY <1>2, <1>3, <1>4, OrderSoFar DEF OneOrder
<1> QED BY <1>5, OneOrderMoves

LEMMA DeskInductive == ASSUME DeskInv, [DeskNext]_dvars PROVE DeskInv'
<1>1. CASE UNCHANGED dvars BY <1>1 DEF dvars, DeskInv, DeskTypes, AllIdle, OrderAgrees
<1>2. ASSUME NEW o \in Held, ScanStep(o) PROVE DeskInv'
  BY <1>2, StartAgrees, SettingsAgree, ListsAgree, RulesAgree, PersistAgrees, ReleaseAgrees DEF ScanStep
<1>3. ASSUME NEW d \in Desks, DeskStep(d) \/ CutOff(d) PROVE DeskInv'
  BY <1>3, ListStepAgrees, RescanAgrees DEF DeskStep
<1>4. ASSUME NEW d \in Desks, EditOrReview(d) PROVE DeskInv'
  BY <1>4, EditAgrees, DecisionAgrees DEF EditOrReview
<1>5. ASSUME NEW o \in Held, Deadline(o) \/ Retry(o) \/ Evict(o) \/ Ship(o) PROVE DeskInv'
  BY <1>5, DeadlineAgrees, ReleaseAgrees
<1> QED BY <1>1, <1>2, <1>3, <1>4, <1>5 DEF DeskNext, DeskWorks

\* Once the requests and the scans of an order that waits are over, its verdict is the engine's on the
\* configuration as it stands, whatever the edits, the scans and the faults (scanOrder.ts, rescanPending).
THEOREM DeskHolds == DeskSpec => []DeskAgrees
<1>1. DeskInv => DeskAgrees
  BY DEF DeskInv, AllIdle, OrderAgrees, ScanAgrees, DeskAgrees, Verdict, VerdictIf, VerdictBy
<1> QED BY <1>1, DeskStarts, DeskInductive, PTL DEF DeskSpec

-----------------------------------------------------------------------------
(* The conversion pixels. *)

Legs == [at : {"off", "gates", "send", "log", "count"} \cup Done, row : PixelRows,
         ok : BOOLEAN, retriable : BOOLEAN, took : BOOLEAN]

PixelTypes ==
    /\ pixel \in [Pixels -> PixelRows] /\ leg \in [Pixels -> Legs]
    /\ heard \in [Pixels -> Nat] /\ logged \in [Pixels -> Nat] /\ total \in [Pixels -> Nat]
    /\ unsure \in [Pixels -> BOOLEAN] /\ books = [sent |-> books.sent, metered |-> books.metered]
    /\ books.sent \in Nat

\* A pixel's part of the dispatch l, what its platform heard h, the rows n that say SENT, the
\* total t shown, and whether u the platform was told with no row to show for it.
Fits(l, h, n, t, u) ==
    /\ (IF l.at = "log" /\ l.ok THEN n + 1 ELSE n) <= h
    /\ (IF l.at = "count" /\ l.ok THEN t + 1 ELSE t) <= n
    /\ l.at = "sent" => l.ok
    /\ l.at = "send" /\ l.row.dedup => n = 0
    /\ ~u => /\ h = (IF l.at = "log" /\ l.took THEN n + 1 ELSE n)
             /\ h <= 1
             /\ l.at = "log" /\ l.took => l.ok

FitsAll == \A p \in Pixels : Fits(leg[p], heard[p], logged[p], total[p], unsure[p])

\* The parts of a run whose row is written and not yet in the day's books.
Unbooked == {p \in Pixels : leg[p].at = "sent" \/ (leg[p].at = "count" /\ leg[p].ok)}
BooksFit ==
    /\ IsFiniteSet(SentRows) /\ books.sent + Cardinality(Unbooked) <= Cardinality(SentRows)

\* Between two runs nothing is under way.
Quiet ==
    /\ job = [at |-> job.at, runs |-> job.runs]
    /\ job.at # "active" => \A p \in Pixels : leg[p].at = "off"

\* What a request is about to write was checked.
TabFits(t) ==
    tab[t].at # "idle" =>
        /\ tab[t].at \in {"create", "update"} /\ tab[t].p \in Pixels /\ tab[t].row \in PixelRows
        /\ assertCoherent(tab[t].row, FALSE)
TabsFit == tab = [t \in PixelTabs |-> tab[t]] /\ \A t \in PixelTabs : TabFits(t)

PixelsInv == PixelTypes /\ FitsAll /\ BooksFit

\* A call taken for a success was taken by the platform.
LEMMA SuccessWasTaken ==
    ASSUME NEW row \in PixelRows, NEW a \in send(row)
    PROVE  a = [ok |-> a.ok, retriable |-> a.retriable, took |-> a.took]
           /\ a.ok \in BOOLEAN /\ a.retriable \in BOOLEAN /\ a.took \in BOOLEAN /\ (a.ok => a.took)
<1> DEFINE Fine(b) == b = [ok |-> b.ok, retriable |-> b.retriable, took |-> b.took]
                      /\ b.ok \in BOOLEAN /\ b.retriable \in BOOLEAN /\ b.took \in BOOLEAN /\ (b.ok => b.took)
<1>1. \A ok, retriable, took \in BOOLEAN : (ok => took) => Fine(reply(ok, retriable, took))
  BY DEF reply
<1>2. /\ Fine(reply(TRUE, FALSE, TRUE)) /\ Fine(reply(FALSE, TRUE, FALSE)) /\ Fine(reply(FALSE, FALSE, FALSE))
      /\ \A b \in BOOLEAN : Fine(reply(FALSE, TRUE, b)) /\ Fine(reply(FALSE, b, FALSE))
  <2> HIDE DEF Fine
  <2> QED BY <1>1
<1> HIDE DEF Fine
<1>3. /\ \A b \in classify : Fine(b)
      /\ \A b \in networkFailure : Fine(b)
      /\ \A b \in Unconfigured : Fine(b)
      /\ \A b \in {reply(FALSE, retriable, FALSE) : retriable \in BOOLEAN} : Fine(b)
  BY <1>2 DEF classify, Accepted, networkFailure, Unconfigured
<1>4. row.provider \in Providers BY DEF PixelRows
<1>5. \A b \in metaSend(row) \cup tiktokSend(row) \cup snapchatSend(row) \cup pinterestSend(row)
              \cup googleAdsSend(row) \cup customSend(row) : Fine(b)
  BY <1>3 DEF metaSend, tiktokSend, snapchatSend, pinterestSend, googleAdsSend, customSend
<1>6. send(row) \subseteq metaSend(row) \cup tiktokSend(row) \cup snapchatSend(row) \cup pinterestSend(row)
              \cup googleAdsSend(row) \cup customSend(row)
  BY <1>4 DEF send, Providers
<1>7. Fine(a) BY <1>5, <1>6
<1> QED BY <1>7 DEF Fine

LEMMA RowsOfPixels ==
    /\ NoPixel \in PixelRows /\ NoLeg \in Legs
    /\ \A provider \in Providers, dedup, requireConsent \in BOOLEAN :
          /\ Of(provider, dedup, requireConsent) \in PixelRows
          /\ [Of(provider, dedup, requireConsent) EXCEPT !.exists = FALSE] \in PixelRows
          /\ [Of(provider, dedup, requireConsent) EXCEPT !.exists = TRUE] \in PixelRows
    /\ \A row \in PixelRows : [NoLeg EXCEPT !.at = "gates", !.row = row] \in Legs
<1>1. NoPixel \in PixelRows BY DEF NoPixel, PixelRows, Providers
<1>2. NoLeg \in Legs BY <1>1 DEF NoLeg, Legs
<1>3. \A row \in PixelRows : [NoLeg EXCEPT !.at = "gates", !.row = row] \in Legs BY <1>2 DEF Legs
<1>4. Meta \in PixelRows BY <1>1 DEF Meta, PixelRows
<1>5. ASSUME NEW provider \in Providers, NEW dedup \in BOOLEAN, NEW requireConsent \in BOOLEAN
      PROVE  Of(provider, dedup, requireConsent) \in PixelRows
  BY <1>4, <1>5 DEF Of, PixelRows, needsToken
<1>6. \A row \in PixelRows : [row EXCEPT !.exists = FALSE] \in PixelRows
                             /\ [row EXCEPT !.exists = TRUE] \in PixelRows
  BY DEF PixelRows
<1> QED BY <1>1, <1>2, <1>3, <1>5, <1>6

LEMMA PixelsStart == PixelsInit => PixelsInv
<1> SUFFICES ASSUME PixelsInit PROVE PixelsInv OBVIOUS
<1>1. PICK platform \in Platforms, dedup \in BOOLEAN, both \in BOOLEAN :
        pixel = [p \in Pixels |-> IF p = Min(Pixels) THEN Of(platform, dedup, TRUE)
                                  ELSE [Of("META", TRUE, FALSE) EXCEPT !.exists = both]]
  BY DEF PixelsInit
<1>2. pixel \in [Pixels -> PixelRows]
  <2>1. platform \in Providers /\ "META" \in Providers BY EditsAssumption DEF Providers
  <2>2. Of(platform, dedup, TRUE) \in PixelRows BY <2>1, RowsOfPixels
  <2>3. [Of("META", TRUE, FALSE) EXCEPT !.exists = both] \in PixelRows BY <2>1, RowsOfPixels
  <2> QED BY <1>1, <2>2, <2>3
<1>3. PixelTypes BY <1>2, RowsOfPixels DEF PixelsInit, PixelTypes
<1>4. FitsAll BY DEF PixelsInit, FitsAll, Fits, NoLeg
<1>5. BooksFit
  <2>1. SentRows = {} BY DEF PixelsInit, SentRows
  <2>2. Unbooked = {} BY DEF PixelsInit, Unbooked, NoLeg
  <2>3. books.sent = 0 BY DEF PixelsInit
  <2> QED BY <2>1, <2>2, <2>3, FS_EmptySet DEF BooksFit
<1> QED BY <1>3, <1>4, <1>5 DEF PixelsInv

\* The legs all reset: nothing of a run is left.
LEMMA RunIsOver ==
    ASSUME PixelsInv, UNCHANGED <<pixel, heard, logged, total, books>>,
           leg' \in [Pixels -> Legs], \A p \in Pixels : leg'[p].at \in {"off", "gates"},
           unsure' \in [Pixels -> BOOLEAN],
           \A p \in Pixels : ~unsure'[p] => ~unsure[p] /\ ~(leg[p].at = "log" /\ leg[p].took)
    PROVE  PixelsInv'
<1>1. PixelTypes' BY DEF PixelsInv, PixelTypes, Legs
<1>2. FitsAll'
  <2> SUFFICES ASSUME NEW p \in Pixels PROVE Fits(leg'[p], heard[p], logged[p], total[p], unsure'[p])
    BY DEF FitsAll
  <2>1. Fits(leg[p], heard[p], logged[p], total[p], unsure[p]) /\ leg[p] \in Legs
        /\ heard[p] \in Nat /\ logged[p] \in Nat /\ total[p] \in Nat
    BY DEF PixelsInv, FitsAll, PixelTypes
  <2>2. ~unsure'[p] => ~unsure[p] /\ ~(leg[p].at = "log" /\ leg[p].took) OBVIOUS
  <2> DEFINE l == leg[p]
             h == heard[p]
             n == logged[p]
             t == total[p]
  <2>3. h \in Nat /\ n \in Nat /\ t \in Nat BY <2>1
  <2>4. leg'[p].at # "log" /\ leg'[p].at # "count" /\ leg'[p].at # "sent" /\ leg'[p].at # "send"
    <3>1. leg'[p].at \in {"off", "gates"} OBVIOUS
    <3> QED BY <3>1
  <2>5. Fits(l, h, n, t, unsure[p]) BY <2>1
  <2>6. ~unsure'[p] => ~unsure[p] /\ ~(l.at = "log" /\ l.took) BY <2>2
  <2> HIDE DEF l, h, n, t
  <2>7. n <= h /\ t <= n BY <2>3, <2>5 DEF Fits
  <2>8. ~unsure'[p] => h = n /\ h <= 1 BY <2>5, <2>6 DEF Fits
  <2>9. Fits(leg'[p], h, n, t, unsure'[p]) BY <2>4, <2>7, <2>8 DEF Fits
  <2> QED BY <2>9 DEF h, n, t
<1>3. BooksFit'
  <2>1. Unbooked' = {} BY DEF Unbooked
  <2>2. SentRows' = SentRows BY DEF SentRows
  <2>3. IsFiniteSet(Unbooked)
    <3>1. Unbooked \in SUBSET Pixels BY DEF Unbooked
    <3> QED BY <3>1, FS_Subset, PixelAssumption
  <2>4. Cardinality(Unbooked) \in Nat /\ Cardinality(SentRows) \in Nat /\ books.sent \in Nat
    BY <2>3, FS_CardinalityType DEF PixelsInv, PixelTypes, BooksFit
  <2> QED BY <2>1, <2>2, <2>4, FS_EmptySet DEF PixelsInv, BooksFit
<1> QED BY <1>1, <1>2, <1>3 DEF PixelsInv

\* One pixel's part of a run goes on, the rest is as it was.
GoesOn(q, l, h, n, t, u) ==
    /\ l \in Legs /\ h \in Nat /\ n \in Nat /\ t \in Nat /\ u \in BOOLEAN
    /\ UNCHANGED <<pixel, books>> /\ leg' = [leg EXCEPT ![q] = l] /\ heard' = [heard EXCEPT ![q] = h]
    /\ logged' = [logged EXCEPT ![q] = n] /\ total' = [total EXCEPT ![q] = t]
    /\ unsure' = [unsure EXCEPT ![q] = u] /\ Fits(l, h, n, t, u)
    /\ \/ n = logged[q] /\ ((l.at = "sent" \/ (l.at = "count" /\ l.ok)) => q \in Unbooked)
       \/ n = logged[q] + 1 /\ q \notin Unbooked

LEMMA LegGoesOn ==
    ASSUME PixelsInv, NEW q \in Pixels, NEW l, NEW h, NEW n, NEW t, NEW u, GoesOn(q, l, h, n, t, u)
    PROVE  PixelsInv'
<1> USE DEF GoesOn
<1>1. PixelTypes' BY DEF PixelsInv, PixelTypes
<1>2. FitsAll'
  <2> SUFFICES ASSUME NEW p \in Pixels PROVE Fits(leg'[p], heard'[p], logged'[p], total'[p], unsure'[p])
    BY DEF FitsAll
  <2>1. CASE p = q BY <2>1 DEF PixelsInv, PixelTypes
  <2>2. CASE p # q BY <2>2 DEF PixelsInv, PixelTypes, FitsAll
  <2> QED BY <2>1, <2>2
<1>3. IsFiniteSet(Unbooked) /\ Cardinality(Unbooked) \in Nat
  <2>1. Unbooked \in SUBSET Pixels BY DEF Unbooked
  <2> QED BY <2>1, FS_Subset, FS_CardinalityType, PixelAssumption
<1>4. IsFiniteSet(SentRows) /\ Cardinality(SentRows) \in Nat /\ books.sent \in Nat
      /\ books.sent + Cardinality(Unbooked) <= Cardinality(SentRows)
  BY FS_CardinalityType DEF PixelsInv, BooksFit, PixelTypes
<1>5. \A p \in Pixels : /\ p # q => leg'[p] = leg[p] /\ logged'[p] = logged[p]
                        /\ p = q => leg'[p] = l /\ logged'[p] = n
                        /\ logged[p] \in Nat
  BY DEF PixelsInv, PixelTypes
<1>6. CASE n = logged[q] /\ ((l.at = "sent" \/ (l.at = "count" /\ l.ok)) => q \in Unbooked)
  <2>1. \A p \in Pixels : logged'[p] = logged[p] BY <1>5, <1>6
  <2>2. SentRows' = SentRows BY <2>1 DEF SentRows
  <2>3. Unbooked' \in SUBSET Unbooked BY <1>5, <1>6 DEF Unbooked
  <2>4. Cardinality(Unbooked') <= Cardinality(Unbooked) /\ Cardinality(Unbooked') \in Nat
    BY <1>3, <2>3, FS_Subset, FS_CardinalityType
  <2>5. books.sent + Cardinality(Unbooked') <= Cardinality(SentRows) BY <1>3, <1>4, <2>4
  <2>6. BooksFit' BY <1>4, <2>2, <2>5 DEF BooksFit
  <2> QED BY <1>1, <1>2, <2>6 DEF PixelsInv
<1>7. CASE n = logged[q] + 1 /\ q \notin Unbooked
  <2> DEFINE new == <<q, n>>
  <2>1. SentRows' = SentRows \cup {new} /\ new \notin SentRows
    <3>1. \A p, k : <<p, k>> \in SentRows <=> p \in Pixels /\ k \in 1..logged[p] BY DEF SentRows
    <3>2. \A p, k : <<p, k>> \in SentRows' <=> p \in Pixels /\ k \in 1..logged'[p] BY DEF SentRows
    <3>3. \A p, k : p \in Pixels => (k \in 1..logged'[p] <=> k \in 1..logged[p] \/ (p = q /\ k = n))
      BY <1>5, <1>7
    <3>4. \A r \in SentRows \cup SentRows' : r = <<r[1], r[2]>> BY DEF SentRows
    <3>5. new \in SentRows' /\ new \notin SentRows BY <1>5, <1>7, <3>1, <3>2
    <3>6. SentRows \subseteq SentRows' BY <3>1, <3>2, <3>3, <3>4
    <3>7. \A r \in SentRows' : r \in SentRows \/ r = new BY <3>1, <3>2, <3>3, <3>4
    <3> QED BY <3>5, <3>6, <3>7
  <2>2. Unbooked' \in SUBSET (Unbooked \cup {q}) BY <1>5 DEF Unbooked
  <2> DEFINE more == Unbooked \cup {q}
  <2>3. IsFiniteSet(more) /\ Cardinality(more) = Cardinality(Unbooked) + 1
    BY <1>3, <1>7, FS_AddElement
  <2>4. IsFiniteSet(SentRows \cup {new}) /\ Cardinality(SentRows \cup {new}) = Cardinality(SentRows) + 1
    <3> HIDE DEF new
    <3> QED BY <1>4, <2>1, FS_AddElement
  <2> HIDE DEF more, new
  <2>5. Cardinality(Unbooked') <= Cardinality(Unbooked) + 1 /\ Cardinality(Unbooked') \in Nat
    <3>1. Unbooked' \in SUBSET more BY <2>2 DEF more
    <3> QED BY <3>1, <2>3, FS_Subset, FS_CardinalityType
  <2>6. books.sent + Cardinality(Unbooked') <= Cardinality(SentRows \cup {new}) BY <1>3, <1>4, <2>4, <2>5
  <2>7. BooksFit' BY <2>1, <2>4, <2>6 DEF BooksFit
  <2> QED BY <1>1, <1>2, <2>7 DEF PixelsInv
<1> QED BY <1>6, <1>7

LEMMA DispatchFits == ASSUME PixelsInv, Quiet, dispatch PROVE PixelsInv' /\ Quiet'
<1>1. /\ leg' = [p \in Pixels |-> IF p \in listServerSidePixels
                                  THEN [NoLeg EXCEPT !.at = "gates", !.row = pixel[p]] ELSE NoLeg]
      /\ job' = [at |-> IF listServerSidePixels = {} THEN "kept" ELSE "active", runs |-> job.runs + 1]
      /\ job.at = "waiting" /\ UNCHANGED <<pixel, heard, logged, total, books, unsure>>
  BY DEF dispatch, Frame
<1>2. ASSUME NEW p \in Pixels
      PROVE  leg'[p] \in Legs /\ leg'[p].at = IF p \in listServerSidePixels THEN "gates" ELSE "off"
  <2>1. pixel[p] \in PixelRows BY DEF PixelsInv, PixelTypes
  <2>2. [NoLeg EXCEPT !.at = "gates", !.row = pixel[p]].at = "gates" /\ NoLeg.at = "off" BY DEF NoLeg
  <2> QED BY <1>1, <2>1, <2>2, RowsOfPixels
<1>3. leg' \in [Pixels -> Legs] BY <1>1, <1>2
<1>4. \A p \in Pixels : leg'[p].at \in {"off", "gates"} BY <1>2
<1>5. \A p \in Pixels : leg[p].at = "off" BY <1>1 DEF Quiet
<1>6. unsure' \in [Pixels -> BOOLEAN] BY <1>1 DEF PixelsInv, PixelTypes
<1>7. PixelsInv' BY <1>1, <1>3, <1>4, <1>5, <1>6, RunIsOver
<1>8. Quiet' BY <1>1, <1>2 DEF Quiet
<1> QED BY <1>7, <1>8

LEMMA DiesFits == ASSUME PixelsInv, Quiet, Dies PROVE PixelsInv' /\ Quiet'
<1>1. /\ leg' = [p \in Pixels |-> NoLeg]
      /\ unsure' = [p \in Pixels |-> unsure[p] \/ (leg[p].at = "log" /\ leg[p].took)]
      /\ job' = [job EXCEPT !.at = IF job.runs < MaxRuns THEN "waiting" ELSE "failed"]
      /\ UNCHANGED <<pixel, heard, logged, total, books>>
  BY DEF Dies, Frame
<1>2. leg' \in [Pixels -> Legs] /\ \A p \in Pixels : leg'[p].at = "off" BY <1>1, RowsOfPixels DEF NoLeg
<1>3. /\ unsure' \in [Pixels -> BOOLEAN]
      /\ \A p \in Pixels : ~unsure'[p] => ~unsure[p] /\ ~(leg[p].at = "log" /\ leg[p].took)
  BY <1>1 DEF PixelsInv, PixelTypes
<1>4. \A p \in Pixels : leg'[p].at \in {"off", "gates"} BY <1>2
<1>5. PixelsInv' BY <1>1, <1>2, <1>3, <1>4, RunIsOver
<1>6. Quiet' BY <1>1, <1>2 DEF Quiet
<1> QED BY <1>5, <1>6

LEMMA SettleFits == ASSUME PixelsInv, Quiet, Settle PROVE PixelsInv' /\ Quiet'
<1>1. /\ leg' = [p \in Pixels |-> NoLeg] /\ \A p \in Pixels : leg[p].at \in Done \cup {"off"}
      /\ books' = [sent |-> books.sent + With({"sent"}),
                   metered |-> books.metered + With({"sent", "retriable", "failed"})]
      /\ UNCHANGED <<pixel, heard, logged, total, unsure>>
  BY DEF Settle, Frame
<1>2. job' = [job EXCEPT !.at = IF With({"retriable"}) = 0 THEN "kept"
                                ELSE IF job.runs < MaxRuns THEN "waiting" ELSE "failed"]
  BY DEF Settle
<1>3. leg' \in [Pixels -> Legs] /\ \A p \in Pixels : leg'[p].at = "off" BY <1>1, RowsOfPixels DEF NoLeg
<1>4. \A p \in Pixels : leg[p].at # "log" /\ leg[p].at # "count" BY <1>1 DEF Done
<1>5. Unbooked = {p \in Pixels : leg[p].at \in {"sent"}} BY <1>4 DEF Unbooked
<1>6. IsFiniteSet(Unbooked) /\ Cardinality(Unbooked) \in Nat /\ With({"sent"}) = Cardinality(Unbooked)
  <2>1. Unbooked \in SUBSET Pixels BY DEF Unbooked
  <2> QED BY <1>5, <2>1, FS_Subset, FS_CardinalityType, PixelAssumption DEF With
<1>7. books'.sent = books.sent + Cardinality(Unbooked) /\ books'.sent \in Nat
      /\ books' = [sent |-> books'.sent, metered |-> books'.metered]
  BY <1>1, <1>6 DEF PixelsInv, PixelTypes
<1>8. PixelTypes' BY <1>1, <1>3, <1>7 DEF PixelsInv, PixelTypes
<1>9. FitsAll'
  <2> SUFFICES ASSUME NEW p \in Pixels PROVE Fits(leg'[p], heard[p], logged[p], total[p], unsure[p])
    BY <1>1 DEF FitsAll
  <2> DEFINE l == leg[p]
             h == heard[p]
             n == logged[p]
             t == total[p]
  <2>1. h \in Nat /\ n \in Nat /\ t \in Nat /\ Fits(l, h, n, t, unsure[p]) /\ l.at # "log" /\ l.at # "count"
    BY <1>4 DEF PixelsInv, PixelTypes, FitsAll
  <2>2. leg'[p].at = "off" BY <1>3
  <2> HIDE DEF l, h, n, t
  <2>3. Fits(leg'[p], h, n, t, unsure[p]) BY <2>1, <2>2 DEF Fits
  <2> QED BY <2>3 DEF h, n, t
<1>10. BooksFit'
  <2>1. Unbooked' = {} BY <1>3 DEF Unbooked
  <2>2. SentRows' = SentRows BY <1>1 DEF SentRows
  <2>3. IsFiniteSet(SentRows) /\ books.sent + Cardinality(Unbooked) <= Cardinality(SentRows)
    BY DEF PixelsInv, BooksFit
  <2>4. books'.sent + Cardinality({}) <= Cardinality(SentRows)
    BY <1>7, <2>3, FS_EmptySet
  <2> QED BY <2>1, <2>2, <2>3, <2>4 DEF BooksFit
<1>11. Quiet' BY <1>2, <1>3 DEF Quiet
<1> QED BY <1>8, <1>9, <1>10, <1>11 DEF PixelsInv

\* What a pixel's part of a run has been through so far.
LEMMA LegSoFar ==
    ASSUME PixelsInv, NEW p \in Pixels
    PROVE  /\ leg[p] \in Legs /\ heard[p] \in Nat /\ logged[p] \in Nat /\ total[p] \in Nat
           /\ unsure[p] \in BOOLEAN
           /\ Fits(leg[p], heard[p], logged[p], total[p], unsure[p])
           /\ heard = [heard EXCEPT ![p] = heard[p]] /\ logged = [logged EXCEPT ![p] = logged[p]]
           /\ total = [total EXCEPT ![p] = total[p]] /\ unsure = [unsure EXCEPT ![p] = unsure[p]]
           /\ \A at : [leg EXCEPT ![p].at = at] = [leg EXCEPT ![p] = [leg[p] EXCEPT !.at = at]]
  BY DEF PixelsInv, PixelTypes, FitsAll

LEMMA GatesFits == ASSUME PixelsInv, NEW p \in Pixels, Gates(p) PROVE PixelsInv'
<1>1. /\ leg[p].at = "gates" /\ UNCHANGED <<pixel, heard, logged, total, books, unsure>>
      /\ \/ Leg(p, "skipped")
         \/ Leg(p, "retriable")
         \/ Leg(p, "send") /\ ~Stopped(p, leg[p].row)
  BY DEF Gates, Frame, Rejected
<1>2. PICK at \in {"skipped", "retriable", "send"} :
        Leg(p, at) /\ (at = "send" => ~Stopped(p, leg[p].row))
  BY <1>1
<1> DEFINE l == [leg[p] EXCEPT !.at = at]
<1>3. leg' = [leg EXCEPT ![p] = l] BY <1>2, LegSoFar DEF Leg
<1>4. l \in Legs /\ l.at = at /\ l.row = leg[p].row BY LegSoFar DEF Legs, Done
<1>5. l.at = "send" /\ l.row.dedup => logged[p] = 0
  BY <1>2, <1>4, LegSoFar DEF Stopped, alreadyDispatched
<1> HIDE DEF l
<1>6. Fits(l, heard[p], logged[p], total[p], unsure[p]) BY <1>1, <1>2, <1>4, <1>5, LegSoFar DEF Fits
<1>7. ~(l.at = "sent" \/ (l.at = "count" /\ l.ok)) BY <1>4
<1>11. GoesOn(p, l, heard[p], logged[p], total[p], unsure[p]) BY <1>1, <1>3, <1>4, <1>6, <1>7, LegSoFar DEF GoesOn
<1> QED BY <1>11, LegGoesOn

LEMMA SendFits == ASSUME PixelsInv, NEW p \in Pixels, Send(p) PROVE PixelsInv'
<1>1. PICK a \in send(leg[p].row) :
        /\ leg' = [leg EXCEPT ![p] = [leg[p] EXCEPT !.at = "log", !.ok = a.ok,
                                                    !.retriable = a.retriable, !.took = a.took]]
        /\ heard' = [heard EXCEPT ![p] = IF a.took THEN @ + 1 ELSE @]
        /\ unsure' = [unsure EXCEPT ![p] = @ \/ (a.took /\ ~(a.ok /\ leg[p].row.dedup))]
  BY DEF Send
<1>2. leg[p].at = "send" /\ UNCHANGED <<pixel, logged, total, books>> BY DEF Send, Frame
<1>3. a.ok \in BOOLEAN /\ a.retriable \in BOOLEAN /\ a.took \in BOOLEAN /\ (a.ok => a.took)
  <2>1. leg[p].row \in PixelRows BY LegSoFar DEF Legs
  <2> QED BY <2>1, SuccessWasTaken
<1> DEFINE l == [leg[p] EXCEPT !.at = "log", !.ok = a.ok, !.retriable = a.retriable, !.took = a.took]
           h == IF a.took THEN heard[p] + 1 ELSE heard[p]
           u == (unsure[p] \/ (a.took /\ ~(a.ok /\ leg[p].row.dedup)))
<1>4. l \in Legs /\ l.at = "log" /\ l.ok = a.ok /\ l.took = a.took BY <1>3, LegSoFar DEF Legs
<1>5. h \in Nat /\ u \in BOOLEAN BY <1>3, LegSoFar DEF Legs, PixelRows
<1>6. heard' = [heard EXCEPT ![p] = h] /\ unsure' = [unsure EXCEPT ![p] = u]
  BY <1>1 DEF PixelsInv, PixelTypes
<1>7. ~u => ~unsure[p] /\ (a.took => a.ok /\ leg[p].row.dedup) OBVIOUS
<1>10. leg' = [leg EXCEPT ![p] = l] BY <1>1
<1> HIDE DEF l, u
<1>8. Fits(l, h, logged[p], total[p], u)
  <2> DEFINE n == logged[p]
             t == total[p]
             g == heard[p]
             m == leg[p]
  <2>1. n \in Nat /\ t \in Nat /\ g \in Nat /\ Fits(m, g, n, t, unsure[p]) /\ m.at = "send"
    BY <1>2, LegSoFar
  <2>2. h = (IF a.took THEN g + 1 ELSE g) OBVIOUS
  <2>3. ~u => ~unsure[p] /\ (a.took => a.ok /\ m.row.dedup) BY <1>7
  <2> HIDE DEF n, t, g, m, h
  <2>4. n <= g /\ t <= n /\ (m.row.dedup => n = 0) /\ (~unsure[p] => g = n /\ g <= 1) BY <2>1 DEF Fits
  <2>5. (IF l.at = "log" /\ l.ok THEN n + 1 ELSE n) <= h BY <1>3, <1>4, <2>1, <2>2, <2>4
  <2>6. ~u => /\ h = (IF l.at = "log" /\ l.took THEN n + 1 ELSE n)
              /\ h <= 1
              /\ l.at = "log" /\ l.took => l.ok
    BY <1>3, <1>4, <2>1, <2>2, <2>3, <2>4
  <2>7. Fits(l, h, n, t, u) BY <1>4, <2>4, <2>5, <2>6 DEF Fits
  <2> QED BY <2>7 DEF n, t
<1> HIDE DEF h
<1>9. ~(l.at = "sent" \/ (l.at = "count" /\ l.ok)) BY <1>4
<1>11. GoesOn(p, l, h, logged[p], total[p], u) BY <1>2, <1>4, <1>5, <1>6, <1>8, <1>9, <1>10, LegSoFar DEF GoesOn
<1> QED BY <1>11, LegGoesOn

LEMMA LogFits == ASSUME PixelsInv, NEW p \in Pixels, logEvent(p) PROVE PixelsInv'
<1>1. leg[p].at = "log" /\ UNCHANGED <<pixel, heard, total, books>> BY DEF logEvent, Frame
<1> DEFINE n == logged[p]
           t == total[p]
           h == heard[p]
           m == leg[p]
<1>2. n \in Nat /\ t \in Nat /\ h \in Nat /\ Fits(m, h, n, t, unsure[p]) /\ m.at = "log" /\ m \in Legs
  BY <1>1, LegSoFar
<1>3. CASE /\ Leg(p, "count") /\ UNCHANGED unsure
           /\ logged' = [logged EXCEPT ![p] = IF leg[p].ok THEN @ + 1 ELSE @]
  <2> DEFINE l == [leg[p] EXCEPT !.at = "count"]
             k == IF m.ok THEN n + 1 ELSE n
  <2>1. leg' = [leg EXCEPT ![p] = l] BY <1>3, LegSoFar DEF Leg
  <2>2. l \in Legs /\ l.at = "count" /\ l.ok = m.ok /\ m.ok \in BOOLEAN BY LegSoFar DEF Legs
  <2>3. logged' = [logged EXCEPT ![p] = k] BY <1>3 DEF PixelsInv, PixelTypes
  <2> HIDE DEF l
  <2>4. Fits(l, h, k, t, unsure[p])
    <3> HIDE DEF n, t, h, m
    <3> QED BY <1>2, <2>2 DEF Fits
  <2>5. k \in Nat BY <1>2
  <2>6. \/ k = logged[p] /\ ((l.at = "sent" \/ (l.at = "count" /\ l.ok)) => p \in Unbooked)
        \/ k = logged[p] + 1 /\ p \notin Unbooked
    BY <1>1, <2>2 DEF Unbooked
  <2> HIDE DEF k
  <2>11. GoesOn(p, l, h, k, t, unsure[p]) BY <1>1, <1>3, <2>1, <2>2, <2>3, <2>4, <2>5, <2>6, LegSoFar DEF GoesOn
  <2> QED BY <2>11, LegGoesOn
<1>4. CASE Leg(p, "retriable") /\ UNCHANGED logged /\ unsure' = [unsure EXCEPT ![p] = @ \/ leg[p].took]
  <2> DEFINE l == [leg[p] EXCEPT !.at = "retriable"]
             u == (unsure[p] \/ m.took)
  <2>1. leg' = [leg EXCEPT ![p] = l] BY <1>4, LegSoFar DEF Leg
  <2>2. l \in Legs /\ l.at = "retriable" BY LegSoFar DEF Legs, Done
  <2>3. u \in BOOLEAN /\ unsure' = [unsure EXCEPT ![p] = u] BY <1>4, LegSoFar DEF Legs, PixelsInv, PixelTypes
  <2>7. ~u => ~unsure[p] /\ ~m.took OBVIOUS
  <2> HIDE DEF l, u
  <2>4. Fits(l, h, n, t, u)
    <3> HIDE DEF n, t, h, m
    <3>1. n <= h /\ t <= n /\ (~unsure[p] /\ ~m.took => h = n /\ h <= 1) BY <1>2 DEF Fits
    <3> QED BY <2>2, <2>7, <3>1 DEF Fits
  <2>5. ~(l.at = "sent" \/ (l.at = "count" /\ l.ok)) BY <2>2
  <2>11. GoesOn(p, l, h, n, t, u) BY <1>1, <1>4, <2>1, <2>2, <2>3, <2>4, <2>5, LegSoFar DEF GoesOn
  <2> QED BY <2>11, LegGoesOn
<1> QED BY <1>3, <1>4 DEF logEvent, Rejected

LEMMA OutcomeFits == ASSUME PixelsInv, NEW p \in Pixels, recordDispatchOutcome(p) PROVE PixelsInv'
<1>1. /\ leg[p].at = "count" /\ UNCHANGED <<pixel, heard, logged, books, unsure>>
      /\ Leg(p, IF pixel[p].exists THEN Outcome(leg[p]) ELSE "retriable")
      /\ total' = [total EXCEPT ![p] = IF pixel[p].exists /\ leg[p].ok THEN @ + 1 ELSE @]
  BY DEF recordDispatchOutcome, Frame
<1> DEFINE n == logged[p]
           t == total[p]
           h == heard[p]
           m == leg[p]
           at == IF pixel[p].exists THEN Outcome(leg[p]) ELSE "retriable"
           l == [leg[p] EXCEPT !.at = at]
           s == IF pixel[p].exists /\ m.ok THEN t + 1 ELSE t
<1>2. n \in Nat /\ t \in Nat /\ h \in Nat /\ Fits(m, h, n, t, unsure[p]) /\ m.at = "count" /\ m \in Legs
  BY <1>1, LegSoFar
<1>3. at \in {"sent", "retriable", "failed"} /\ (at = "sent" => m.ok) BY DEF Outcome
<1>4. leg' = [leg EXCEPT ![p] = l] BY <1>1, LegSoFar DEF Leg
<1> HIDE DEF at
<1>5. l \in Legs /\ l.at = at /\ l.ok = m.ok BY <1>3, LegSoFar DEF Legs, Done
<1>6. total' = [total EXCEPT ![p] = s] BY <1>1 DEF PixelsInv, PixelTypes
<1>7. s \in Nat /\ s <= (IF m.ok THEN t + 1 ELSE t) BY <1>2
<1> HIDE DEF l, s
<1>8. Fits(l, h, n, s, unsure[p])
  <2> HIDE DEF n, t, h, m
  <2>1. n <= h /\ (IF m.ok THEN t + 1 ELSE t) <= n /\ (~unsure[p] => h = n /\ h <= 1) BY <1>2 DEF Fits
  <2>2. s <= n BY <1>2, <1>7, <2>1
  <2>3. l.at # "log" /\ l.at # "count" /\ l.at # "send" BY <1>3, <1>5
  <2> QED BY <1>3, <1>5, <2>1, <2>2, <2>3 DEF Fits
<1>9. (l.at = "sent" \/ (l.at = "count" /\ l.ok)) => p \in Unbooked
  BY <1>1, <1>3, <1>5 DEF Unbooked
<1>11. GoesOn(p, l, h, n, s, unsure[p]) BY <1>1, <1>4, <1>5, <1>6, <1>7, <1>8, <1>9, LegSoFar DEF GoesOn
<1> QED BY <1>11, LegGoesOn

\* What a merchant may ask to be written is a row, whose token and server side agree.
LEMMA ColumnsFit ==
    ASSUME NEW row \in PixelRows, NEW u \in Edits
    PROVE  /\ toColumns(row, u) \in PixelRows
           /\ u.token \in {"kept", "cleared", "given"}
           /\ u.token = "kept" => toColumns(row, u).token = row.token
<1>1. u \in Updates BY EditsAssumption
<1>2. u.isEnabled \in BOOLEAN /\ u.server \in BOOLEAN /\ u.dedup \in BOOLEAN /\ u.requireConsent \in BOOLEAN
      /\ u.reports \in BOOLEAN /\ u.token \in {"kept", "cleared", "given"}
  BY <1>1 DEF Updates
<1> DEFINE token == IF u.token = "kept" THEN row.token ELSE u.token = "given"
<1>3. toColumns(row, u) = [row EXCEPT !.isEnabled = u.isEnabled, !.server = u.server, !.dedup = u.dedup,
                             !.requireConsent = u.requireConsent, !.reports = u.reports, !.token = token]
  BY DEF toColumns, PixelRows
<1>4. token \in BOOLEAN /\ (u.token = "kept" => token = row.token) BY <1>2 DEF PixelRows
<1> HIDE DEF token
<1>5. toColumns(row, u) \in PixelRows BY <1>2, <1>3, <1>4 DEF PixelRows
<1>6. toColumns(row, u).token = token BY <1>3 DEF PixelRows
<1> QED BY <1>2, <1>4, <1>5, <1>6

LEMMA WriteFits ==
    ASSUME PixelsInv, Quiet, TabsFit, NEW t \in PixelTabs, WritePixel(t)
    PROVE  PixelsInv' /\ Quiet' /\ TabsFit'
<1> DEFINE new == tab[t].row
           q == tab[t].p
           old == pixel[q]
           row == IF tab[t].at = "create" THEN new
                  ELSE IF ~old.exists THEN old
                  ELSE [new EXCEPT !.token = IF tab[t].token = "kept" THEN old.token ELSE @]
<1>1. /\ tab[t].at # "idle" /\ pixel' = [pixel EXCEPT ![q] = row] /\ tab' = [tab EXCEPT ![t] = NoTab]
      /\ UNCHANGED <<job, leg, heard, logged, total, books, unsure>>
  BY DEF WritePixel, Unmoved
<1>2. q \in Pixels /\ new \in PixelRows BY <1>1 DEF TabsFit, TabFits
<1>3. old \in PixelRows BY <1>2 DEF PixelsInv, PixelTypes
<1>4. row \in PixelRows BY <1>2, <1>3 DEF PixelRows
<1> HIDE DEF row, q
<1>5. pixel' \in [Pixels -> PixelRows] BY <1>1, <1>2, <1>4 DEF PixelsInv, PixelTypes
<1>6. PixelsInv' BY <1>1, <1>5 DEF PixelsInv, PixelTypes, FitsAll, BooksFit, Unbooked, SentRows
<1>7. Quiet' BY <1>1 DEF Quiet
<1>8. TabsFit' BY <1>1 DEF TabsFit, TabFits, NoTab
<1> QED BY <1>6, <1>7, <1>8

LEMMA RequestFits ==
    ASSUME PixelsInv, Quiet, TabsFit, NEW t \in PixelTabs, NEW p \in Pixels,
           \/ createPixel(t, p, Of("META", TRUE, TRUE))
           \/ deletePixel(t, p)
           \/ \E u \in Edits : updatePixel(t, p, u)
    PROVE  PixelsInv' /\ Quiet' /\ TabsFit'
<1>0. pixel \in [Pixels -> PixelRows] /\ pixel[p] \in PixelRows BY DEF PixelsInv, PixelTypes
<1>1. UNCHANGED <<job, leg, heard, logged, total, books, unsure>>
  BY DEF createPixel, deletePixel, updatePixel, Unmoved
<1>2. Quiet' BY <1>1 DEF Quiet
<1>3. ASSUME pixel' \in [Pixels -> PixelRows] PROVE PixelsInv'
  BY <1>1, <1>3 DEF PixelsInv, PixelTypes, FitsAll, BooksFit, Unbooked, SentRows
<1>4. CASE createPixel(t, p, Of("META", TRUE, TRUE))
  <2> DEFINE row == Of("META", TRUE, TRUE)
  <2>1. row \in PixelRows BY RowsOfPixels DEF Providers
  <2> HIDE DEF row
  <2>2. /\ UNCHANGED pixel /\ assertCoherent(row, FALSE)
        /\ tab' = [tab EXCEPT ![t] = [NoTab EXCEPT !.at = "create", !.p = p, !.row = row]]
    BY <1>4 DEF createPixel, row
  <2>3. TabsFit' BY <2>1, <2>2 DEF TabsFit, TabFits, NoTab
  <2> QED BY <1>0, <1>2, <1>3, <2>2, <2>3
<1>5. CASE deletePixel(t, p)
  <2>1. pixel' = [pixel EXCEPT ![p].exists = FALSE] /\ UNCHANGED tab BY <1>5 DEF deletePixel
  <2>2. [pixel[p] EXCEPT !.exists = FALSE] \in PixelRows BY <1>0 DEF PixelRows
  <2>3. pixel' \in [Pixels -> PixelRows] BY <1>0, <2>1, <2>2
  <2>4. TabsFit' BY <2>1 DEF TabsFit, TabFits
  <2> QED BY <1>2, <1>3, <2>3, <2>4
<1>6. ASSUME NEW u \in Edits, updatePixel(t, p, u) PROVE PixelsInv' /\ Quiet' /\ TabsFit'
  <2> DEFINE row == toColumns(pixel[p], u)
  <2>1. row \in PixelRows BY <1>0, ColumnsFit
  <2>2. /\ UNCHANGED pixel /\ assertCoherent(row, FALSE)
        /\ tab' = [tab EXCEPT ![t] = [at |-> "update", p |-> p, row |-> row, token |-> u.token]]
    BY <1>6 DEF updatePixel, assertCoherent
  <2> HIDE DEF row
  <2>3. TabsFit' BY <2>1, <2>2 DEF TabsFit, TabFits
  <2> QED BY <1>0, <1>2, <1>3, <2>2, <2>3
<1> QED BY <1>4, <1>5, <1>6

LEMMA PixelsInductive ==
    ASSUME PixelsInv, Quiet, TabsFit, [PixelsNext]_xvars
    PROVE  PixelsInv' /\ Quiet' /\ TabsFit'
<1>1. CASE UNCHANGED xvars
  BY <1>1 DEF xvars, PixelsInv, PixelTypes, FitsAll, BooksFit, Unbooked, SentRows, Quiet, TabsFit, TabFits
<1>2. ASSUME UNCHANGED tab PROVE TabsFit' BY <1>2 DEF TabsFit, TabFits
<1>3. CASE dispatch BY <1>2, <1>3, DispatchFits DEF dispatch, Frame
<1>4. CASE Settle BY <1>2, <1>4, SettleFits DEF Settle, Frame
<1>5. CASE Dies BY <1>2, <1>5, DiesFits DEF Dies, Frame
<1>6. ASSUME NEW p \in Pixels, Gates(p) \/ Send(p) \/ logEvent(p) \/ recordDispatchOutcome(p)
      PROVE  PixelsInv' /\ Quiet' /\ TabsFit'
  <2>1. PixelsInv' BY <1>6, GatesFits, SendFits, LogFits, OutcomeFits
  <2>2. leg[p].at # "off" /\ UNCHANGED <<job, tab>>
    BY <1>6 DEF Gates, Send, logEvent, recordDispatchOutcome, Frame
  <2>3. Quiet' BY <2>2 DEF Quiet
  <2> QED BY <1>2, <2>1, <2>2, <2>3
<1>7. ASSUME NEW t \in PixelTabs, WritePixel(t) PROVE PixelsInv' /\ Quiet' /\ TabsFit' BY <1>7, WriteFits
<1>8. ASSUME NEW t \in PixelTabs, NEW p \in Pixels,
             \/ createPixel(t, p, Of("META", TRUE, TRUE))
             \/ deletePixel(t, p)
             \/ \E u \in Edits : updatePixel(t, p, u)
      PROVE  PixelsInv' /\ Quiet' /\ TabsFit'
  BY <1>8, RequestFits
<1> QED BY <1>1, <1>3, <1>4, <1>5, <1>6, <1>7, <1>8 DEF PixelsNext, Dispatching

LEMMA PixelsStartQuiet == PixelsInit => Quiet /\ TabsFit
<1> SUFFICES ASSUME PixelsInit PROVE Quiet /\ TabsFit OBVIOUS
<1>1. job = [at |-> job.at, runs |-> job.runs] BY DEF PixelsInit
<1>2. \A p \in Pixels : leg[p].at = "off" BY DEF PixelsInit, NoLeg
<1>3. tab = [t \in PixelTabs |-> tab[t]] /\ \A t \in PixelTabs : tab[t].at = "idle" BY DEF PixelsInit, NoTab
<1> QED BY <1>1, <1>2, <1>3 DEF Quiet, TabsFit, TabFits

\* What the invariant says of the sale and of the books.
LEMMA PixelsTell == ASSUME PixelsInv PROVE SaleToldOnce /\ BooksMatch
<1>1. ASSUME NEW p \in Pixels PROVE (~unsure[p] => heard[p] <= 1) /\ total[p] <= logged[p] /\ logged[p] <= heard[p]
  BY LegSoFar DEF Fits
<1>2. books.sent <= Cardinality(SentRows)
  <2>1. Unbooked \in SUBSET Pixels BY DEF Unbooked
  <2>2. Cardinality(Unbooked) \in Nat BY <2>1, FS_Subset, FS_CardinalityType, PixelAssumption
  <2>3. Cardinality(SentRows) \in Nat /\ books.sent \in Nat BY FS_CardinalityType DEF PixelsInv, BooksFit, PixelTypes
  <2> QED BY <2>2, <2>3 DEF PixelsInv, BooksFit
<1> QED BY <1>1, <1>2 DEF SaleToldOnce, BooksMatch

\* The platforms hear of a sale once, and what the merchant is shown is what they took: whatever
\* pixels the shop has, the platforms answer, the merchant edits and the worker loses (dispatcher.ts).
THEOREM SaleIsTold == PixelsSpec => [](SaleToldOnce /\ BooksMatch)
<1>1. PixelsInit => PixelsInv /\ Quiet /\ TabsFit BY PixelsStart, PixelsStartQuiet
<1>2. PixelsInv /\ Quiet /\ TabsFit /\ [PixelsNext]_xvars => (PixelsInv /\ Quiet /\ TabsFit)'
  BY PixelsInductive
<1>3. PixelsInv => SaleToldOnce /\ BooksMatch BY PixelsTell
<1> QED BY <1>1, <1>2, <1>3, PTL DEF PixelsSpec

-----------------------------------------------------------------------------
(* A pixel's credential, where the requests come one at a time. *)

\* What is about to be written leaves the token the row has, or brings its own.
TokensFit ==
    /\ ServerSideHasToken
    /\ \A t \in PixelTabs : tab[t].at = "update" /\ tab[t].token = "kept" =>
           tab[t].row.token = pixel[tab[t].p].token

LEMMA TokensKept ==
    ASSUME \A t, u \in PixelTabs : t = u, PixelsInv, TabsFit, TokensFit, [PixelsNext]_xvars
    PROVE  TokensFit'
<1>1. CASE UNCHANGED <<pixel, tab>> BY <1>1 DEF TokensFit, ServerSideHasToken
<1>2. ASSUME NEW t \in PixelTabs, WritePixel(t) PROVE TokensFit'
  <2> DEFINE new == tab[t].row
             q == tab[t].p
             old == pixel[q]
             row == IF tab[t].at = "create" THEN new
                    ELSE IF ~old.exists THEN old
                    ELSE [new EXCEPT !.token = IF tab[t].token = "kept" THEN old.token ELSE @]
  <2>1. /\ tab[t].at # "idle" /\ pixel' = [pixel EXCEPT ![q] = row] /\ tab' = [tab EXCEPT ![t] = NoTab]
    BY <1>2 DEF WritePixel
  <2>2. /\ tab[t].at \in {"create", "update"} /\ q \in Pixels /\ new \in PixelRows
        /\ assertCoherent(new, FALSE)
    BY <2>1 DEF TabsFit, TabFits
  <2>3. row.exists => assertCoherent(row, FALSE)
    <3>1. CASE tab[t].at = "create" BY <2>2, <3>1
    <3>2. CASE tab[t].at = "update" /\ ~old.exists BY <3>2
    <3>3. CASE tab[t].at = "update" /\ old.exists
      <4>1. row = [new EXCEPT !.token = IF tab[t].token = "kept" THEN old.token ELSE @] BY <3>3
      <4>2. tab[t].token = "kept" => new.token = old.token BY <3>3 DEF TokensFit
      <4>3. row = new BY <2>2, <4>1, <4>2 DEF PixelRows
      <4> QED BY <2>2, <4>3
    <3> QED BY <2>2, <3>1, <3>2, <3>3
  <2> HIDE DEF row, q
  <2>4. pixel \in [Pixels -> PixelRows] BY DEF PixelsInv, PixelTypes
  <2>5. ServerSideHasToken' BY <2>1, <2>2, <2>3, <2>4 DEF TokensFit, ServerSideHasToken
  <2>6. \A u \in PixelTabs : tab'[u].at = "idle" BY <2>1 DEF TabsFit, NoTab
  <2> QED BY <2>5, <2>6 DEF TokensFit
<1>3. ASSUME NEW t \in PixelTabs, NEW p \in Pixels,
             \/ createPixel(t, p, Of("META", TRUE, TRUE))
             \/ deletePixel(t, p)
             \/ \E u \in Edits : updatePixel(t, p, u)
      PROVE  TokensFit'
  <2>0. pixel \in [Pixels -> PixelRows] /\ tab = [u \in PixelTabs |-> tab[u]] BY DEF PixelsInv, PixelTypes, TabsFit
  <2>1. CASE createPixel(t, p, Of("META", TRUE, TRUE))
    <3>1. /\ UNCHANGED pixel
          /\ tab' = [tab EXCEPT ![t] = [NoTab EXCEPT !.at = "create", !.p = p, !.row = Of("META", TRUE, TRUE)]]
      BY <2>1 DEF createPixel
    <3>2. \A u \in PixelTabs : tab'[u].at = "create" BY <2>0, <3>1 DEF NoTab
    <3> QED BY <3>1, <3>2 DEF TokensFit, ServerSideHasToken
  <2>2. CASE deletePixel(t, p)
    <3>1. pixel' = [pixel EXCEPT ![p].exists = FALSE] /\ UNCHANGED tab /\ tab[t].at = "idle"
      BY <2>2 DEF deletePixel, Change
    <3>2. \A u \in PixelTabs : tab'[u].at = "idle" BY <3>1
    <3>3. \A k \in Pixels : pixel'[k].exists => pixel'[k] = pixel[k] BY <2>0, <3>1 DEF PixelRows
    <3> QED BY <3>2, <3>3 DEF TokensFit, ServerSideHasToken
  <2>3. ASSUME NEW u \in Edits, updatePixel(t, p, u) PROVE TokensFit'
    <3>1. /\ UNCHANGED pixel
          /\ tab' = [tab EXCEPT ![t] = [at |-> "update", p |-> p, row |-> toColumns(pixel[p], u),
                                        token |-> u.token]]
      BY <2>3 DEF updatePixel
    <3>2. u.token = "kept" => toColumns(pixel[p], u).token = pixel[p].token BY <2>0, ColumnsFit
    <3>3. \A v \in PixelTabs : tab'[v].p = p /\ tab'[v].row = toColumns(pixel[p], u) /\ tab'[v].token = u.token
      BY <2>0, <3>1
    <3> QED BY <3>1, <3>2, <3>3 DEF TokensFit, ServerSideHasToken
  <2> QED BY <1>3, <2>1, <2>2, <2>3
<1> QED BY <1>1, <1>2, <1>3
        DEF PixelsNext, Dispatching, xvars, dispatch, Settle, Dies, Gates, Send, logEvent, recordDispatchOutcome, Frame

LEMMA TokensAtFirst == PixelsInit => TokensFit
<1> SUFFICES ASSUME PixelsInit PROVE TokensFit OBVIOUS
<1>1. \A provider \in Providers, dedup, requireConsent \in BOOLEAN :
          assertCoherent(Of(provider, dedup, requireConsent), FALSE)
  BY DEF Of, Meta, NoPixel, assertCoherent
<1>2. \A row \in PixelRows, b \in BOOLEAN :
          assertCoherent(row, FALSE) => assertCoherent([row EXCEPT !.exists = b], FALSE)
  BY DEF assertCoherent, PixelRows
<1>3. PICK platform \in Platforms, dedup \in BOOLEAN, both \in BOOLEAN :
        pixel = [p \in Pixels |-> IF p = Min(Pixels) THEN Of(platform, dedup, TRUE)
                                  ELSE [Of("META", TRUE, FALSE) EXCEPT !.exists = both]]
  BY DEF PixelsInit
<1>4. platform \in Providers /\ "META" \in Providers BY EditsAssumption DEF Providers
<1>5. assertCoherent(Of(platform, dedup, TRUE), FALSE)
      /\ assertCoherent([Of("META", TRUE, FALSE) EXCEPT !.exists = both], FALSE)
  BY <1>1, <1>2, <1>4, RowsOfPixels
<1>6. \A p \in Pixels : assertCoherent(pixel[p], FALSE) BY <1>3, <1>5
<1>7. \A t \in PixelTabs : tab[t].at = "idle" BY DEF PixelsInit, NoTab
<1> QED BY <1>6, <1>7 DEF TokensFit, ServerSideHasToken

\* A sale is told once and rightly, and a pixel that reports from the server has its token, as long
\* as the merchant changes one pixel at a time: assertCoherent checks the row as it was read.
THEOREM PixelsTruth ==
    ASSUME \A t, u \in PixelTabs : t = u
    PROVE  PixelsSpec => []PixelsTellTheTruth
<1>1. PixelsInit => PixelsInv /\ Quiet /\ TabsFit /\ TokensFit BY PixelsStart, PixelsStartQuiet, TokensAtFirst
<1>2. PixelsInv /\ Quiet /\ TabsFit /\ TokensFit /\ [PixelsNext]_xvars => (PixelsInv /\ Quiet /\ TabsFit /\ TokensFit)'
  BY PixelsInductive, TokensKept
<1>3. PixelsInv /\ TokensFit => PixelsTellTheTruth BY PixelsTell DEF PixelsTellTheTruth, TokensFit
<1> QED BY <1>1, <1>2, <1>3, PTL DEF PixelsSpec

-----------------------------------------------------------------------------
(* The list of stuck orders. *)

Placed == [status : {"CONFIRMED", "FAILED", "PENDING_OTP", "PUSHED"}, tried : BOOLEAN, pushed : BOOLEAN,
           riskAction : Verdicts \cup {"ALLOW", "REVIEW", "BLOCK"},
           otpRequired : BOOLEAN, otpVerified : BOOLEAN]
Found == [items : SUBSET Nat, nextCursor : Nat]
Page == [items : SUBSET Nat, nextCursor : Nat, counts : [Groups -> Nat]]

StuckTypes ==
    /\ placed \in Seq(Placed) /\ viewed \in Groups /\ held \in [Groups -> Seq(Page)]
    /\ gone \in BOOLEAN
    /\ fetch = [kind |-> fetch.kind, pages |-> fetch.pages, wanted |-> fetch.wanted,
                items |-> fetch.items]
    /\ fetch.kind \in {"none", "all", "next"} /\ fetch.pages \in Seq(Page)
    /\ fetch.items = <<>> \/ (fetch.items = <<fetch.items[1]>> /\ fetch.items[1] \in Found)

\* A page's cursor is the last order on it.
CursorIsLast(page) ==
    page.nextCursor # NoCursor =>
        page.nextCursor \in page.items /\ \A i \in page.items : page.nextCursor <= i

PagesInOrder(pages) ==
    NewestFirst(pages) /\ \A p \in DOMAIN pages : CursorIsLast(pages[p])

\* What is being fetched goes on from the pages before it.
FetchInOrder ==
    /\ PagesInOrder(fetch.pages)
    /\ fetch.kind = "none" => fetch.pages = <<>> /\ fetch.items = <<>>
    /\ fetch.pages # <<>> => Cursor(fetch.pages) # NoCursor
    /\ fetch.items # <<>> =>
        /\ CursorIsLast(fetch.items[1])
        /\ fetch.pages # <<>> => \A i \in fetch.items[1].items : i < Cursor(fetch.pages)

ListInv == StuckTypes /\ (\A g \in Groups : PagesInOrder(held[g])) /\ FetchInOrder
           /\ steady \subseteq In(placed, viewed)

\* Nothing left the tab since its pages were asked for, and something was in it.
Undisturbed == ~gone /\ steady # {}

\* What the pages show is in the tab, and down to their cursor they miss none of those.
Covers(pages, there, those) ==
    /\ \A p \in DOMAIN pages : pages[p].items \subseteq there
    /\ pages # <<>> => \A i \in those : Cursor(pages) <= i => \E p \in DOMAIN pages : i \in pages[p].items

\* The page just read goes on from there.
CoversOn(page, pages, there, those) ==
    /\ page.items \subseteq there
    /\ \A i \in those : (pages # <<>> => i < Cursor(pages)) /\ page.nextCursor <= i => i \in page.items

Cover(pages) == Covers(pages, In(placed, viewed), steady)
CoverOn(page, pages) == CoversOn(page, pages, In(placed, viewed), steady)

NothingMissed ==
    Undisturbed =>
        /\ fetch.kind # "all" => Cover(held[viewed])
        /\ fetch.kind # "none" => Cover(fetch.pages)
        /\ fetch.items # <<>> => CoverOn(fetch.items[1], fetch.pages)

StuckInv == ListInv /\ NothingMissed

-----------------------------------------------------------------------------

LEMMA InIsOrders ==
    ASSUME placed \in Seq(Placed), NEW g
    PROVE  In(placed, g) \subseteq 1..Len(placed) /\ IsFiniteSet(In(placed, g))
<1>1. DOMAIN placed = 1..Len(placed) /\ Len(placed) \in Nat OBVIOUS
<1>2. In(placed, g) \subseteq 1..Len(placed) BY <1>1 DEF In
<1>3. IsFiniteSet(1..Len(placed)) BY <1>1, FS_Interval
<1> DEFINE S == 1..Len(placed)
           T == In(placed, g)
<1>4. T \in SUBSET S /\ IsFiniteSet(S) BY <1>2, <1>3
<1> HIDE DEF S, T
<1>5. IsFiniteSet(T) BY <1>4, FS_Subset
<1> QED BY <1>2, <1>5 DEF T

\* What a page of some orders has: the newest, and a cursor when more are left.
NewestOf(rest) == {i \in rest : Cardinality({newer \in rest : newer > i}) < PageSize}
NextCursor(rest) == IF NewestOf(rest) = rest THEN NoCursor ELSE Min(NewestOf(rest))

FoundIn(rest, items, cursor) ==
    /\ items \in SUBSET rest /\ cursor \in Nat
    /\ cursor # NoCursor => cursor \in items /\ \A i \in items : cursor <= i
    /\ \A i \in rest : cursor <= i => i \in items

LEMMA NewestAreFound ==
    ASSUME NEW n \in Nat, NEW rest \in SUBSET (1..n)
    PROVE  FoundIn(rest, NewestOf(rest), NextCursor(rest))
<1> DEFINE items == NewestOf(rest)
           cursor == NextCursor(rest)
<1> DEFINE Newer(i) == {newer \in rest : newer > i}
<1>0. items = {i \in rest : Cardinality(Newer(i)) < PageSize} BY DEF NewestOf
<1>5. items \in SUBSET rest /\ items \in SUBSET Nat /\ rest \in SUBSET Nat
  <2> HIDE DEF Newer
  <2>1. \A i \in 1..n : i \in Nat OBVIOUS
  <2> QED BY <1>0, <2>1
<1>1. IsFiniteSet(rest) /\ PageSize \in Nat \ {0}
  <2>1. IsFiniteSet(1..n) BY FS_Interval
  <2> QED BY <2>1, FS_Subset, StuckAssumption
<1>2. \A i \in rest : IsFiniteSet(Newer(i)) /\ Cardinality(Newer(i)) \in Nat
  <2> TAKE i \in rest
  <2>1. Newer(i) \in SUBSET rest OBVIOUS
  <2> HIDE DEF Newer
  <2> QED BY <1>1, <2>1, FS_Subset, FS_CardinalityType
<1>3. ASSUME NEW i \in items, NEW j \in rest, i <= j PROVE j \in items
  <2>1. Newer(j) \in SUBSET Newer(i)
    <3>1. i \in Nat /\ j \in Nat /\ i <= j BY <1>3, <1>5
    <3>2. \A k \in rest : k > j => k > i BY <3>1, <1>5
    <3> QED BY <3>2
  <2>2. i \in rest /\ Cardinality(Newer(i)) < PageSize BY <1>0
  <2>3. Cardinality(Newer(j)) <= Cardinality(Newer(i)) 
    <3> HIDE DEF Newer
    <3> QED BY <1>2, <2>1, <2>2, FS_Subset
  <2>4. Cardinality(Newer(j)) < PageSize
    <3> HIDE DEF Newer
    <3> QED BY <1>1, <1>2, <1>3, <2>2, <2>3
  <2> HIDE DEF Newer, items
  <2> QED BY <1>0, <2>4
<1>4. ASSUME rest # {} PROVE items # {}
  <2>1. rest \in SUBSET (0..n) OBVIOUS
  <2>2. PICK m \in rest : \A k \in rest : k <= m BY <1>4, <2>1, GreatestBelow
  <2>6. \A k \in rest : ~(k > m) BY <2>2, <1>5
  <2>3. Newer(m) = {} BY <2>6
  <2>4. Cardinality(Newer(m)) = 0 BY <2>3, FS_EmptySet
  <2>5. m \in items
    <3> HIDE DEF Newer, items
    <3> QED BY <1>0, <1>1, <2>4
  <2> QED BY <2>5
<1> HIDE DEF Newer, items
<1>6. CASE items = rest
  BY <1>5, <1>6 DEF NoCursor, NextCursor, FoundIn, items
<1>7. CASE items # rest
  <2>1. items # {} BY <1>4, <1>7
  <2>2. cursor = Min(items) BY <1>7 DEF NextCursor, items
  <2>3. cursor \in items /\ \A k \in items : cursor <= k BY <1>5, <2>1, <2>2, MinIsLeast
  <2> QED BY <1>3, <1>5, <2>3 DEF FoundIn, items
<1> QED BY <1>6, <1>7

\* findStuckPage: the page after a cursor that is still in the group misses nothing.
LEMMA PageIsFound ==
    ASSUME placed \in Seq(Placed), NEW g, NEW c \in Nat, NEW page, page = findStuckPage(g, c)
    PROVE  /\ page \in Found /\ CursorIsLast(page) /\ page.items \subseteq In(placed, g)
           /\ c # NoCursor => \A i \in page.items : i < c
           /\ c = NoCursor \/ c \in In(placed, g) =>
                \A i \in In(placed, g) : (c # NoCursor => i < c) /\ page.nextCursor <= i => i \in page.items
<1> DEFINE group == In(placed, g)
           from == {i \in group : c = NoCursor \/ i =< c}
           rest == IF c = NoCursor THEN from ELSE {i \in from : \E newer \in from : newer > i}
           items == {i \in rest : Cardinality({newer \in rest : newer > i}) < PageSize}
           next == IF items = rest THEN NoCursor ELSE Min(items)
<1>1. page = [items |-> items, nextCursor |-> next] BY DEF findStuckPage
<1>2. group \subseteq 1..Len(placed) /\ Len(placed) \in Nat BY InIsOrders
<1> HIDE DEF group
<1>3. from \in SUBSET group OBVIOUS
<1>4. rest \in SUBSET (1..Len(placed)) /\ rest \in SUBSET group BY <1>2
<1>5. c # NoCursor => \A i \in rest : i < c
  <2> SUFFICES ASSUME c # NoCursor, NEW i \in rest PROVE i < c OBVIOUS
  <2>1. PICK newer \in from : newer > i OBVIOUS
  <2>2. newer <= c /\ newer \in Nat /\ i \in Nat BY <1>2
  <2> QED BY <2>1, <2>2
<1>6. c = NoCursor \/ c \in group => \A i \in group : (c # NoCursor => i < c) => i \in rest
  <2> SUFFICES ASSUME c = NoCursor \/ c \in group, NEW i \in group, c # NoCursor => i < c
               PROVE  i \in rest
    OBVIOUS
  <2>1. CASE c = NoCursor BY <2>1
  <2>2. CASE c # NoCursor
    <3>1. i \in Nat /\ i < c BY <1>2, <2>2
    <3>2. i \in from /\ c \in from /\ c > i BY <2>2, <3>1
    <3> QED BY <2>2, <3>2
  <2> QED BY <2>1, <2>2
<1> HIDE DEF from
<1>7. items = NewestOf(rest) /\ next = NextCursor(rest) BY DEF NewestOf, NextCursor
<1> HIDE DEF rest, items, next
<1>8. /\ items \in SUBSET rest /\ next \in Nat
      /\ next # NoCursor => next \in items /\ \A i \in items : next <= i
      /\ \A i \in rest : next <= i => i \in items
  <2> DEFINE n == Len(placed)
  <2>1. n \in Nat /\ rest \in SUBSET (1..n) BY <1>2, <1>4
  <2> HIDE DEF n
  <2> QED BY <2>1, <1>7, NewestAreFound DEF FoundIn
<1>9. page.items = items /\ page.nextCursor = next BY <1>1
<1>10. items \in SUBSET Nat BY <1>4, <1>8
<1>11. page \in Found BY <1>1, <1>8, <1>10 DEF Found
<1>12. CursorIsLast(page) BY <1>8, <1>9 DEF CursorIsLast
<1>13. page.items \subseteq group /\ (c # NoCursor => \A i \in page.items : i < c)
  BY <1>4, <1>5, <1>8, <1>9
<1>14. c = NoCursor \/ c \in group =>
         \A i \in group : (c # NoCursor => i < c) /\ page.nextCursor <= i => i \in page.items
  BY <1>6, <1>8, <1>9
<1> QED BY <1>11, <1>12, <1>13, <1>14 DEF group

\* The cursor of pages is a number, and of some pages it is on the last of them.
LEMMA CursorIsShown ==
    ASSUME NEW pages \in Seq(Page)
    PROVE  /\ Cursor(pages) \in Nat
           /\ pages = <<>> => Cursor(pages) = NoCursor
           /\ pages # <<>> => /\ Len(pages) \in DOMAIN pages
                              /\ Cursor(pages) = pages[Len(pages)].nextCursor
<1>1. CASE pages = <<>> BY <1>1 DEF Cursor, NoCursor
<1>2. CASE pages # <<>>
  <2>1. Len(pages) \in Nat \ {0} /\ DOMAIN pages = 1..Len(pages) BY <1>2
  <2>2. Len(pages) \in DOMAIN pages BY <2>1
  <2>3. pages[Len(pages)] \in Page BY <2>2
  <2> QED BY <1>2, <2>2, <2>3 DEF Cursor, Page
<1> QED BY <1>1, <1>2

\* Pages stay in order when the next one is put to them.
LEMMA NextPageInOrder ==
    ASSUME NEW pages \in Seq(Page), NEW page \in Page, PagesInOrder(pages), CursorIsLast(page),
           pages # <<>> => Cursor(pages) # NoCursor /\ \A i \in page.items : i < Cursor(pages)
    PROVE  PagesInOrder(Append(pages, page))
<1> DEFINE more == Append(pages, page)
           n == Len(pages)
<1>1. /\ n \in Nat /\ DOMAIN pages = 1..n /\ DOMAIN more = 1..(n + 1)
      /\ more[n + 1] = page /\ \A p \in 1..n : more[p] = pages[p]
  OBVIOUS
<1>2. \A p \in 1..n : pages[p] \in Page /\ pages[p].items \in SUBSET Nat
  <2>1. \A p \in 1..n : pages[p] \in Page BY <1>1
  <2> QED BY <2>1 DEF Page
<1>3. page.items \in SUBSET Nat BY DEF Page
<1> HIDE DEF more, n
<1>4. \A p \in DOMAIN more : CursorIsLast(more[p])
  <2> TAKE p \in DOMAIN more
  <2>1. CASE p = n + 1 BY <1>1, <2>1
  <2>2. CASE p # n + 1
    <3>1. p \in 1..n BY <1>1, <2>2
    <3> QED BY <1>1, <3>1 DEF PagesInOrder
  <2> QED BY <2>1, <2>2
<1>5. ASSUME NEW p \in 1..n, NEW i \in pages[p].items, NEW j \in page.items
      PROVE  i > j
  <2>1. pages # <<>> BY <1>1 DEF n
  <2>2. n \in 1..n /\ Cursor(pages) = pages[n].nextCursor BY <1>1, <2>1, CursorIsShown DEF n
  <2>3. CursorIsLast(pages[n]) BY <1>1, <2>2 DEF PagesInOrder
  <2>4. /\ Cursor(pages) \in pages[n].items
        /\ \A k \in pages[n].items : Cursor(pages) <= k
    BY <2>1, <2>2, <2>3 DEF CursorIsLast
  <2>5. Cursor(pages) \in Nat /\ i \in Nat /\ j \in Nat BY <1>2, <1>3, <2>2, <2>4
  <2>6. j < Cursor(pages) BY <2>1
  <2>7. CASE p = n BY <2>4, <2>5, <2>6, <2>7
  <2>8. CASE p # n
    <3>1. p < n BY <1>1, <2>8
    <3>2. i > Cursor(pages) BY <1>1, <2>2, <2>4, <3>1 DEF PagesInOrder, NewestFirst
    <3> QED BY <2>5, <2>6, <3>2
  <2> QED BY <2>7, <2>8
<1>6. NewestFirst(more)
  <2> SUFFICES ASSUME NEW p \in DOMAIN more, NEW q \in DOMAIN more, p < q,
                      NEW i \in more[p].items, NEW j \in more[q].items
               PROVE  i > j
    BY DEF NewestFirst
  <2>1. p \in 1..n /\ more[p] = pages[p] BY <1>1
  <2>2. CASE q = n + 1 BY <1>1, <1>5, <2>1, <2>2
  <2>3. CASE q # n + 1
    <3>1. q \in 1..n /\ more[q] = pages[q] BY <1>1, <2>3
    <3> QED BY <1>1, <2>1, <3>1 DEF PagesInOrder, NewestFirst
  <2> QED BY <2>2, <2>3
<1> QED BY <1>4, <1>6 DEF more, PagesInOrder

\* Pages that miss nothing do so with the next one.
LEMMA NextPageCovers ==
    ASSUME NEW pages \in Seq(Page), NEW page \in Page, NEW there, NEW those \in SUBSET Nat,
           Covers(pages, there, those), CoversOn(page, pages, there, those)
    PROVE  Covers(Append(pages, page), there, those)
<1> DEFINE more == Append(pages, page)
           n == Len(pages)
<1>1. /\ n \in Nat /\ DOMAIN pages = 1..n /\ DOMAIN more = 1..(n + 1) /\ n + 1 \in DOMAIN more
      /\ more[n + 1] = page /\ \A p \in 1..n : more[p] = pages[p] /\ p \in DOMAIN more
  OBVIOUS
<1>2. more \in Seq(Page) /\ more # <<>> /\ Len(more) = n + 1 OBVIOUS
<1> HIDE DEF more, n
<1>3. Cursor(more) = page.nextCursor BY <1>1, <1>2, CursorIsShown
<1>4. \A p \in DOMAIN more : more[p].items \subseteq there
  <2> TAKE p \in DOMAIN more
  <2>1. CASE p = n + 1 BY <1>1, <2>1 DEF CoversOn
  <2>2. CASE p # n + 1
    <3>1. p \in DOMAIN pages /\ more[p] = pages[p] BY <1>1, <2>2
    <3> QED BY <3>1 DEF Covers
  <2> QED BY <2>1, <2>2
<1>5. ASSUME NEW i \in those, page.nextCursor <= i
      PROVE  \E p \in DOMAIN more : i \in more[p].items
  <2>1. CASE pages # <<>> => i < Cursor(pages)
    <3>1. i \in page.items BY <1>5, <2>1 DEF CoversOn
    <3> QED BY <1>1, <3>1
  <2>2. CASE pages # <<>> /\ Cursor(pages) <= i
    <3>1. PICK p \in DOMAIN pages : i \in pages[p].items BY <2>2 DEF Covers
    <3> QED BY <1>1, <3>1
  <2>3. Cursor(pages) \in Nat /\ i \in Nat BY CursorIsShown
  <2> QED BY <2>1, <2>2, <2>3
<1> QED BY <1>3, <1>4, <1>5 DEF Covers, more

LEMMA StuckStarts == StuckInit => StuckInv
<1> SUFFICES ASSUME StuckInit PROVE StuckInv OBVIOUS
<1> USE DEF StuckInit
<1>1. /\ fetch.kind = "all" /\ fetch.pages = <<>> /\ fetch.items = <<>>
      /\ fetch = [kind |-> fetch.kind, pages |-> fetch.pages, wanted |-> fetch.wanted, items |-> fetch.items]
  BY DEF NoFetch
<1>2. StuckTypes
  <2>1. placed \in Seq(Placed) /\ <<>> \in Seq(Page) /\ viewed \in Groups BY DEF Groups
  <2>2. held \in [Groups -> Seq(Page)] BY <2>1
  <2> QED BY <1>1, <2>1, <2>2 DEF StuckTypes
<1>3. \A g \in Groups : PagesInOrder(held[g]) BY DEF PagesInOrder, NewestFirst
<1>4. FetchInOrder
  <2>1. DOMAIN fetch.pages = {} BY <1>1
  <2> QED BY <1>1, <2>1 DEF FetchInOrder, PagesInOrder, NewestFirst
<1>5. NothingMissed BY DEF NothingMissed, Undisturbed
<1> QED BY <1>2, <1>3, <1>4, <1>5 DEF StuckInv, ListInv

\* Pages asked for anew: nothing is fetched yet.
LEMMA FetchAnew ==
    ASSUME StuckInv, UNCHANGED <<placed, held>>, viewed' \in Groups, gone' = FALSE,
           NEW wanted, Begin("all", <<>>, wanted), steady' = In(placed, viewed')
    PROVE  StuckInv'
<1>1. /\ fetch'.kind = "all" /\ fetch'.pages = <<>> /\ fetch'.items = <<>>
      /\ fetch' = [kind |-> fetch'.kind, pages |-> fetch'.pages, wanted |-> fetch'.wanted,
                   items |-> fetch'.items]
  BY DEF Begin
<1>2. StuckTypes'
  <2>1. <<>> \in Seq(Page) OBVIOUS
  <2> QED BY <1>1, <2>1 DEF StuckInv, ListInv, StuckTypes
<1>3. (\A g \in Groups : PagesInOrder(held[g]))' BY DEF StuckInv, ListInv
<1>4. FetchInOrder' BY <1>1 DEF FetchInOrder, PagesInOrder, NewestFirst
<1>5. (steady \subseteq In(placed, viewed))' OBVIOUS
<1>6. NothingMissed' BY <1>1 DEF NothingMissed, Cover, Covers
<1> QED BY <1>2, <1>3, <1>4, <1>5, <1>6 DEF StuckInv, ListInv

LEMMA TabKeepsList == ASSUME StuckInv, selectTab PROVE StuckInv'
<1> USE DEF selectTab
<1>1. PICK g \in Groups \ {viewed} :
        /\ viewed' = g
        /\ \/ Begin("all", <<>>, Max({1, Len(held[g])})) /\ steady' = In(placed, g)
           \/ held[g] # <<>> /\ fetch' = NoFetch /\ steady' = {}
  OBVIOUS
<1>2. CASE Begin("all", <<>>, Max({1, Len(held[g])})) /\ steady' = In(placed, g)
  BY <1>1, <1>2, FetchAnew
<1>3. CASE fetch' = NoFetch /\ steady' = {}
  <2>1. /\ fetch'.kind = "none" /\ fetch'.pages = <<>> /\ fetch'.items = <<>>
        /\ fetch' = [kind |-> fetch'.kind, pages |-> fetch'.pages, wanted |-> fetch'.wanted,
                     items |-> fetch'.items]
    BY <1>3 DEF NoFetch
  <2>2. StuckTypes'
    <3>1. <<>> \in Seq(Page) OBVIOUS
    <3> QED BY <1>1, <2>1, <3>1 DEF StuckInv, ListInv, StuckTypes
  <2>3. (\A t \in Groups : PagesInOrder(held[t]))' BY DEF StuckInv, ListInv
  <2>4. FetchInOrder' BY <2>1 DEF FetchInOrder, PagesInOrder, NewestFirst
  <2>5. (steady \subseteq In(placed, viewed))' /\ NothingMissed' BY <1>3 DEF NothingMissed, Undisturbed
  <2> QED BY <2>2, <2>3, <2>4, <2>5 DEF StuckInv, ListInv
<1> QED BY <1>1, <1>2, <1>3

LEMMA PollKeepsList == ASSUME StuckInv, Poll PROVE StuckInv'
<1> USE DEF Poll
<1>1. viewed' \in Groups BY DEF StuckInv, ListInv, StuckTypes
<1> QED BY <1>1, FetchAnew

LEMMA MoreKeepsList == ASSUME StuckInv, fetchNextPage PROVE StuckInv'
<1> USE DEF fetchNextPage
<1> DEFINE wanted == Len(held[viewed]) + 1
<1>2. held[viewed] \in Seq(Page) /\ PagesInOrder(held[viewed]) BY DEF StuckInv, ListInv, StuckTypes
<1>1. /\ fetch'.kind = "next" /\ fetch'.pages = held[viewed] /\ fetch'.items = <<>>
      /\ fetch' = [kind |-> fetch'.kind, pages |-> fetch'.pages, wanted |-> fetch'.wanted,
                   items |-> fetch'.items]
  BY DEF Begin
<1> HIDE DEF wanted
<1>3. StuckTypes' BY <1>1, <1>2 DEF StuckInv, ListInv, StuckTypes
<1>4. (\A g \in Groups : PagesInOrder(held[g]))' BY DEF StuckInv, ListInv
<1>5. FetchInOrder' BY <1>1, <1>2 DEF FetchInOrder
<1>6. (steady \subseteq In(placed, viewed))' BY DEF StuckInv, ListInv
<1>7. NothingMissed'
  <2> SUFFICES ASSUME Undisturbed' PROVE Cover(held[viewed])'
    BY <1>1 DEF NothingMissed, Cover
  <2>1. ~gone /\ fetch.kind # "all" /\ Undisturbed
    BY DEF Undisturbed, StuckInv, ListInv, StuckTypes
  <2>2. Cover(held[viewed]) BY <2>1 DEF StuckInv, NothingMissed
  <2> QED BY <2>2 DEF Cover
<1> QED BY <1>3, <1>4, <1>5, <1>6, <1>7 DEF StuckInv, ListInv

\* A page's rows are read with the count, and land on it.
LEMMA ReadKeepsList == ASSUME StuckInv, ReadItems PROVE StuckInv'
<1> DEFINE pages == fetch.pages
           c == Cursor(pages)
           page == findStuckPage(viewed, c)
<1>1. StuckTypes /\ FetchInOrder /\ steady \subseteq In(placed, viewed) /\ pages \in Seq(Page)
      /\ placed \in Seq(Placed) /\ viewed \in Groups
  BY DEF StuckInv, ListInv, StuckTypes
<1>2. /\ fetch.kind # "none" /\ fetch' = [fetch EXCEPT !.items = <<page>>]
      /\ UNCHANGED <<placed, viewed, held, steady, gone>>
  BY DEF ReadItems
<1>3. /\ c \in Nat
      /\ pages = <<>> => c = NoCursor
      /\ pages # <<>> => /\ Len(pages) \in DOMAIN pages /\ c = pages[Len(pages)].nextCursor
                         /\ c # NoCursor
  BY <1>1, CursorIsShown DEF FetchInOrder
<1> HIDE DEF c
<1>4. /\ page \in Found /\ CursorIsLast(page) /\ page.items \subseteq In(placed, viewed)
      /\ c # NoCursor => \A i \in page.items : i < c
      /\ c = NoCursor \/ c \in In(placed, viewed) =>
           \A i \in In(placed, viewed) : (c # NoCursor => i < c) /\ page.nextCursor <= i => i \in page.items
  BY <1>1, <1>3, PageIsFound
<1> HIDE DEF page, pages
<1>5. /\ fetch'.kind = fetch.kind /\ fetch'.pages = fetch.pages /\ fetch'.items = <<page>>
      /\ fetch'.items[1] = page
      /\ fetch' = [kind |-> fetch'.kind, pages |-> fetch'.pages, wanted |-> fetch'.wanted,
                   items |-> fetch'.items]
  BY <1>1, <1>2 DEF StuckTypes
<1>6. StuckTypes' BY <1>1, <1>2, <1>4, <1>5 DEF StuckTypes
<1>7. (\A g \in Groups : PagesInOrder(held[g]))' BY <1>2 DEF StuckInv, ListInv
<1>8. FetchInOrder' BY <1>1, <1>2, <1>3, <1>4, <1>5 DEF FetchInOrder, pages, c
<1>9. (steady \subseteq In(placed, viewed))' BY <1>1, <1>2
<1>10. NothingMissed'
  <2> DEFINE there == In(placed, viewed)
  <2> HIDE DEF there
  <2> SUFFICES ASSUME Undisturbed
               PROVE  /\ fetch.kind # "all" => Covers(held[viewed], there, steady)
                      /\ Covers(pages, there, steady)
                      /\ CoversOn(page, pages, there, steady)
    BY <1>2, <1>5 DEF NothingMissed, Undisturbed, Cover, CoverOn, pages, there
  <2>2. (fetch.kind # "all" => Covers(held[viewed], there, steady)) /\ Covers(pages, there, steady)
    BY <1>2 DEF StuckInv, NothingMissed, Cover, pages, there
  <2>3. c = NoCursor \/ c \in there
    <3> SUFFICES ASSUME pages # <<>> PROVE c \in there BY <1>3
    <3>1. CursorIsLast(pages[Len(pages)]) BY <1>1, <1>3 DEF FetchInOrder, PagesInOrder, pages
    <3>2. c \in pages[Len(pages)].items BY <1>3, <3>1 DEF CursorIsLast
    <3>3. Len(pages) \in DOMAIN pages BY <1>3
    <3> QED BY <2>2, <3>2, <3>3 DEF Covers
  <2>4. \A i \in steady : (pages # <<>> => i < c) /\ page.nextCursor <= i => i \in page.items
    BY <1>1, <1>3, <1>4, <2>3 DEF there
  <2>5. c = Cursor(pages) BY DEF c
  <2>6. CoversOn(page, pages, there, steady) BY <1>4, <2>4, <2>5 DEF CoversOn, there
  <2> QED BY <2>2, <2>6
<1> QED BY <1>6, <1>7, <1>8, <1>9, <1>10 DEF StuckInv, ListInv

LEMMA ListKeepsList == ASSUME StuckInv, listStuck PROVE StuckInv'
<1> DEFINE found == fetch.items[1]
           page == [items |-> found.items, nextCursor |-> found.nextCursor,
                    counts |-> [g \in Groups |-> countStuckCapped(g)]]
           pages == Append(fetch.pages, page)
<1>1. /\ fetch.items # <<>> /\ UNCHANGED <<placed, viewed, steady, gone>>
      /\ IF Len(pages) = fetch.wanted \/ page.nextCursor = NoCursor
         THEN fetch' = NoFetch /\ held' = [held EXCEPT ![viewed] = pages]
         ELSE fetch' = [fetch EXCEPT !.pages = pages, !.items = <<>>] /\ UNCHANGED held
  BY DEF listStuck
<1>2. StuckTypes /\ FetchInOrder /\ steady \subseteq In(placed, viewed) /\ fetch.pages \in Seq(Page)
      /\ placed \in Seq(Placed) /\ viewed \in Groups /\ fetch.kind # "none" /\ found \in Found
      /\ CursorIsLast(found) /\ (\A g \in Groups : PagesInOrder(held[g]))
      /\ held \in [Groups -> Seq(Page)]
  BY <1>1 DEF StuckInv, ListInv, StuckTypes, FetchInOrder
<1>3. page \in Page
  <2>1. ASSUME NEW g \in Groups PROVE countStuckCapped(g) \in Nat
    <3>1. IsFiniteSet(In(placed, g)) BY <1>2, InIsOrders
    <3>2. Cardinality(In(placed, g)) \in Nat BY <3>1, FS_CardinalityType
    <3>3. COUNT_CAP \in Nat BY StuckAssumption
    <3> QED BY <3>2, <3>3 DEF countStuckCapped
  <2>2. [g \in Groups |-> countStuckCapped(g)] \in [Groups -> Nat] BY <2>1
  <2> QED BY <1>2, <2>2 DEF Page, Found
<1>4. page.items = found.items /\ page.nextCursor = found.nextCursor OBVIOUS
<1>5. CursorIsLast(page) BY <1>2, <1>4 DEF CursorIsLast
<1> DEFINE there == In(placed, viewed)
<1> HIDE DEF there
<1>6. Undisturbed => Covers(pages, there, steady) /\ (fetch.kind # "all" => Covers(held[viewed], there, steady))
  <2> SUFFICES ASSUME Undisturbed
               PROVE  Covers(pages, there, steady) /\ (fetch.kind # "all" => Covers(held[viewed], there, steady))
    OBVIOUS
  <2>1. /\ Covers(fetch.pages, there, steady) /\ CoversOn(found, fetch.pages, there, steady)
        /\ fetch.kind # "all" => Covers(held[viewed], there, steady)
    BY <1>1, <1>2 DEF StuckInv, NothingMissed, Cover, CoverOn, there
  <2> HIDE DEF found
  <2>2. CoversOn(page, fetch.pages, there, steady) BY <1>4, <2>1 DEF CoversOn
  <2>3. steady \in SUBSET Nat
    <3>1. In(placed, viewed) \subseteq 1..Len(placed) /\ Len(placed) \in Nat BY <1>2, InIsOrders
    <3>2. steady \subseteq 1..Len(placed) BY <1>2, <3>1
    <3>3. 1..Len(placed) \subseteq Nat BY <3>1
    <3> QED BY <3>2, <3>3
  <2> HIDE DEF page
  <2>4. Covers(pages, there, steady) BY <1>2, <1>3, <2>1, <2>2, <2>3, NextPageCovers
  <2> QED BY <2>1, <2>4
<1>7. PagesInOrder(pages)
  <2>1. fetch.pages # <<>> => Cursor(fetch.pages) # NoCursor /\ \A i \in page.items : i < Cursor(fetch.pages)
    BY <1>1, <1>2, <1>4 DEF FetchInOrder
  <2>2. PagesInOrder(fetch.pages) BY <1>2 DEF FetchInOrder
  <2> HIDE DEF page
  <2> QED BY <1>2, <1>3, <1>5, <2>1, <2>2, NextPageInOrder
<1> HIDE DEF found, page
<1>8. /\ pages \in Seq(Page) /\ pages # <<>> /\ <<>> \in Seq(Page)
      /\ pages[Len(pages)] = page
  <2> DEFINE before == fetch.pages
             n == Len(before)
  <2>1. <<>> \in Seq(Page) OBVIOUS
  <2>2. before \in Seq(Page) BY <1>2
  <2>3. pages = Append(before, page) OBVIOUS
  <2> HIDE DEF before, pages
  <2>4. pages \in Seq(Page) BY <1>3, <2>2, <2>3
  <2>5. n \in Nat /\ Len(pages) = n + 1 /\ pages[n + 1] = page BY <2>2, <2>3
  <2>6. pages # <<>> BY <2>5
  <2> QED BY <2>1, <2>4, <2>5, <2>6
<1>9. Cursor(pages) = page.nextCursor BY <1>8, CursorIsShown
<1> HIDE DEF pages
<1>10. CASE fetch' = NoFetch /\ held' = [held EXCEPT ![viewed] = pages]
  <2>1. /\ fetch'.kind = "none" /\ fetch'.pages = <<>> /\ fetch'.items = <<>>
        /\ fetch' = [kind |-> fetch'.kind, pages |-> fetch'.pages, wanted |-> fetch'.wanted,
                     items |-> fetch'.items]
    BY <1>10 DEF NoFetch
  <2>2. StuckTypes' BY <1>1, <1>2, <1>8, <1>10, <2>1 DEF StuckTypes
  <2>3. (\A g \in Groups : PagesInOrder(held[g]))' BY <1>2, <1>7, <1>10
  <2>4. FetchInOrder' BY <1>8, <2>1 DEF FetchInOrder, PagesInOrder, NewestFirst
  <2>5. held'[viewed'] = pages BY <1>1, <1>2, <1>10
  <2>6. NothingMissed'
    <3> QED BY <1>1, <1>6, <2>1, <2>5 DEF NothingMissed, Undisturbed, Cover, there
  <2> QED BY <1>1, <1>2, <2>2, <2>3, <2>4, <2>6 DEF StuckInv, ListInv
<1>11. CASE /\ page.nextCursor # NoCursor
            /\ fetch' = [fetch EXCEPT !.pages = pages, !.items = <<>>] /\ UNCHANGED held
  <2>1. /\ fetch'.kind = fetch.kind /\ fetch'.pages = pages /\ fetch'.items = <<>>
        /\ fetch' = [kind |-> fetch'.kind, pages |-> fetch'.pages, wanted |-> fetch'.wanted,
                     items |-> fetch'.items]
    BY <1>2, <1>11 DEF StuckTypes
  <2>2. StuckTypes' BY <1>1, <1>2, <1>8, <1>11, <2>1 DEF StuckTypes
  <2>3. (\A g \in Groups : PagesInOrder(held[g]))' BY <1>2, <1>11
  <2>4. FetchInOrder' BY <1>2, <1>7, <1>9, <1>11, <2>1 DEF FetchInOrder
  <2>5. NothingMissed' BY <1>1, <1>6, <1>11, <2>1 DEF NothingMissed, Undisturbed, Cover, there
  <2> QED BY <1>1, <1>2, <2>2, <2>3, <2>4, <2>5 DEF StuckInv, ListInv
<1> QED BY <1>1, <1>10, <1>11

\* Orders come and change: what is shown stands if none leaves the tab.
LEMMA OrdersMove ==
    ASSUME StuckInv, UNCHANGED <<viewed, held, fetch>>, placed' \in Seq(Placed), gone' \in BOOLEAN,
           steady' \subseteq steady, steady' \subseteq In(placed', viewed),
           ~gone' => ~gone /\ In(placed, viewed) \subseteq In(placed', viewed)
    PROVE  StuckInv'
<1>1. StuckTypes' BY DEF StuckInv, ListInv, StuckTypes
<1>2. (\A g \in Groups : PagesInOrder(held[g]))' /\ FetchInOrder'
  BY DEF StuckInv, ListInv, FetchInOrder
<1>3. NothingMissed'
  <2> DEFINE there == In(placed, viewed)
             later == In(placed', viewed)
             those == steady'
  <2>1. ASSUME NEW pages, there \subseteq later, Covers(pages, there, steady) PROVE Covers(pages, later, those)
    <3> HIDE DEF there, later, those
    <3>1. those \subseteq steady BY DEF those
    <3> QED BY <2>1, <3>1 DEF Covers
  <2>2. ASSUME NEW pages, NEW page, there \subseteq later, CoversOn(page, pages, there, steady)
        PROVE  CoversOn(page, pages, later, those)
    <3> HIDE DEF there, later, those
    <3>1. those \subseteq steady BY DEF those
    <3> QED BY <2>2, <3>1 DEF CoversOn
  <2> SUFFICES ASSUME Undisturbed'
               PROVE  /\ fetch.kind # "all" => Covers(held[viewed], later, those)
                      /\ fetch.kind # "none" => Covers(fetch.pages, later, those)
                      /\ fetch.items # <<>> => CoversOn(fetch.items[1], fetch.pages, later, those)
    BY DEF NothingMissed, Cover, CoverOn
  <2>3. Undisturbed /\ there \subseteq later BY DEF Undisturbed
  <2>4. /\ fetch.kind # "all" => Covers(held[viewed], there, steady)
        /\ fetch.kind # "none" => Covers(fetch.pages, there, steady)
        /\ fetch.items # <<>> => CoversOn(fetch.items[1], fetch.pages, there, steady)
    BY <2>3 DEF StuckInv, NothingMissed, Cover, CoverOn
  <2> HIDE DEF there, later, those
  <2> QED BY <2>1, <2>2, <2>3, <2>4
<1> QED BY <1>1, <1>2, <1>3 DEF StuckInv, ListInv

LEMMA ComingKeepsList == ASSUME StuckInv, createWithTimeline PROVE StuckInv'
<1>1. /\ placed \in Seq(Placed) /\ gone \in BOOLEAN /\ steady \subseteq In(placed, viewed)
  BY DEF StuckInv, ListInv, StuckTypes
<1>2. PICK action \in Verdicts, otp \in BOOLEAN :
        placed' = Append(placed, [status |-> IF otp THEN "PENDING_OTP" ELSE "CONFIRMED", tried |-> FALSE,
                                  pushed |-> FALSE, riskAction |-> action, otpRequired |-> otp,
                                  otpVerified |-> FALSE])
  BY DEF createWithTimeline
<1> DEFINE o == [status |-> IF otp THEN "PENDING_OTP" ELSE "CONFIRMED", tried |-> FALSE,
                 pushed |-> FALSE, riskAction |-> action, otpRequired |-> otp, otpVerified |-> FALSE]
<1>3. o \in Placed BY DEF Placed
<1>4. placed' = Append(placed, o) BY <1>2
<1> HIDE DEF o
<1>5. placed' \in Seq(Placed) BY <1>1, <1>3, <1>4
<1>6. \A i \in DOMAIN placed : i \in DOMAIN placed' /\ placed'[i] = placed[i] BY <1>1, <1>4
<1>7. In(placed, viewed) \subseteq In(placed', viewed) BY <1>6 DEF In
<1> QED BY <1>1, <1>5, <1>7, OrdersMove DEF createWithTimeline

LEMMA ChangeKeepsList ==
    ASSUME StuckInv, NEW i \in DOMAIN placed, NEW o \in Placed, Becomes(i, o) PROVE StuckInv'
<1>1. placed \in Seq(Placed) /\ gone \in BOOLEAN BY DEF StuckInv, ListInv, StuckTypes
<1>2. placed' = [placed EXCEPT ![i] = o] BY DEF Becomes
<1>3. placed' \in Seq(Placed) BY <1>1, <1>2
<1>4. /\ UNCHANGED <<viewed, held, fetch>>
      /\ steady' = steady \cap In(placed', viewed)
      /\ gone' = (gone \/ ~(In(placed, viewed) \subseteq In(placed', viewed)))
  BY DEF Becomes
<1> QED BY <1>1, <1>3, <1>4, OrdersMove

LEMMA StuckInductive == ASSUME StuckInv, [StuckNext]_lvars PROVE StuckInv'
<1>1. placed \in Seq(Placed) BY DEF StuckInv, ListInv, StuckTypes
<1>2. CASE UNCHANGED lvars
  BY <1>2 DEF lvars, StuckInv, ListInv, StuckTypes, FetchInOrder, NothingMissed, Undisturbed, Cover, CoverOn
<1>3. ASSUME NEW i \in DOMAIN placed, Attempt(i) \/ verifyOrder(i) \/ Decide(i) PROVE StuckInv'
  <2>1. placed[i] \in Placed BY <1>1
  <2>2. CASE Attempt(i)
    <3>1. /\ [placed[i] EXCEPT !.tried = TRUE] \in Placed
          /\ [placed[i] EXCEPT !.pushed = TRUE, !.status = "PUSHED"] \in Placed
          /\ [placed[i] EXCEPT !.status = "FAILED"] \in Placed
      BY <2>1 DEF Placed
    <3> QED BY <2>2, <3>1, ChangeKeepsList DEF Attempt
  <2>3. CASE verifyOrder(i)
    <3>1. [placed[i] EXCEPT !.otpVerified = TRUE,
                            !.status = IF @ = "PENDING_OTP" THEN "CONFIRMED" ELSE @] \in Placed
      BY <2>1 DEF Placed
    <3> QED BY <2>3, <3>1, ChangeKeepsList DEF verifyOrder
  <2>4. CASE Decide(i)
    <3>1. PICK action \in {"ALLOW", "REVIEW", "BLOCK"} : Becomes(i, [placed[i] EXCEPT !.riskAction = action])
      BY <2>4 DEF Decide
    <3>2. [placed[i] EXCEPT !.riskAction = action] \in Placed BY <2>1 DEF Placed
    <3> QED BY <3>1, <3>2, ChangeKeepsList
  <2> QED BY <1>3, <2>2, <2>3, <2>4
<1> QED BY <1>2, <1>3, TabKeepsList, PollKeepsList, MoreKeepsList, ReadKeepsList, ListKeepsList, ComingKeepsList
        DEF StuckNext

LEMMA GroupsDoPart == ASSUME StuckTypes PROVE GroupsPart
<1>1. placed \in Seq(Placed) BY DEF StuckTypes
<1>2. \A i \in DOMAIN placed :
        /\ placed[i] \in Placed
        /\ i \in pendingPush <=> stuckBase(placed[i])
        /\ \A g \in Groups : i \in In(placed, g) <=> stuckBase(placed[i]) /\ groupWhere(g, placed[i])
  BY <1>1 DEF pendingPush, stuckBase, In
<1>3. ASSUME NEW i \in pendingPush
      PROVE  \E g \in Groups : {h \in Groups : i \in In(placed, h)} = {g}
  <2>1. i \in DOMAIN placed BY DEF pendingPush
  <2> DEFINE o == placed[i]
  <2>2. \A g \in Groups : i \in In(placed, g) <=> groupWhere(g, o) BY <1>2, <2>1
  <2>3. /\ groupWhere("failing", o) <=> failingWhere(o)
        /\ groupWhere("held", o) <=> heldWhere(o)
        /\ groupWhere("waiting", o) <=> waitingWhere(o)
    BY DEF groupWhere
  <2>4. o.tried \in BOOLEAN BY <1>2, <2>1 DEF Placed
  <2> HIDE DEF o
  <2>5. CASE heldWhere(o)
    <3>1. ~failingWhere(o) /\ ~waitingWhere(o) BY <2>5 DEF failingWhere, waitingWhere
    <3>2. {h \in Groups : i \in In(placed, h)} = {"held"} BY <2>2, <2>3, <2>5, <3>1 DEF Groups
    <3> QED BY <3>2 DEF Groups
  <2>6. CASE ~heldWhere(o) /\ failingWhere(o)
    <3>1. ~waitingWhere(o) BY <2>6 DEF failingWhere, waitingWhere
    <3>2. {h \in Groups : i \in In(placed, h)} = {"failing"} BY <2>2, <2>3, <2>6, <3>1 DEF Groups
    <3> QED BY <3>2 DEF Groups
  <2>7. CASE ~heldWhere(o) /\ ~failingWhere(o)
    <3>1. waitingWhere(o) BY <2>4, <2>7 DEF failingWhere, waitingWhere
    <3>2. {h \in Groups : i \in In(placed, h)} = {"waiting"} BY <2>2, <2>3, <2>7, <3>1 DEF Groups
    <3> QED BY <3>2 DEF Groups
  <2> QED BY <2>5, <2>6, <2>7
<1>4. \A i \in pendingPush : Cardinality({g \in Groups : i \in In(placed, g)}) = 1
  <2> TAKE i \in pendingPush
  <2>1. PICK g \in Groups : {h \in Groups : i \in In(placed, h)} = {g} BY <1>3
  <2> QED BY <2>1, FS_Singleton
<1>5. UNION {In(placed, g) : g \in Groups} = pendingPush
  <2>1. \A g \in Groups : In(placed, g) \subseteq pendingPush BY <1>2 DEF In
  <2>2. \A i \in pendingPush : \E g \in Groups : i \in In(placed, g)
    <3> TAKE i \in pendingPush
    <3>1. PICK g \in Groups : {h \in Groups : i \in In(placed, h)} = {g} BY <1>3
    <3> QED BY <3>1
  <2> QED BY <2>1, <2>2
<1>6. \A i \in pendingPush : GateHolds(placed[i]) => i \in In(placed, "held")
  <2> TAKE i \in pendingPush
  <2>1. i \in DOMAIN placed BY DEF pendingPush
  <2>2. GateHolds(placed[i]) => groupWhere("held", placed[i]) BY DEF GateHolds, groupWhere, heldWhere
  <2> QED BY <1>2, <2>1, <2>2 DEF Groups
<1> QED BY <1>4, <1>5, <1>6 DEF GroupsPart

LEMMA PagesDoShowAll == ASSUME StuckInv PROVE PagesShowAll
<1>1. /\ held[viewed] \in Seq(Page) /\ NewestFirst(held[viewed])
      /\ placed \in Seq(Placed) /\ steady \subseteq In(placed, viewed)
  BY DEF StuckInv, ListInv, StuckTypes, PagesInOrder
<1>2. ASSUME AllPages, ~gone, NEW i \in steady PROVE i \in Shown
  <2>1. Covers(held[viewed], In(placed, viewed), steady)
    BY <1>2 DEF StuckInv, NothingMissed, Undisturbed, AllPages, Cover
  <2>2. i \in Nat /\ NoCursor <= i BY <1>1, InIsOrders DEF NoCursor
  <2>3. PICK p \in DOMAIN held[viewed] : i \in held[viewed][p].items
    BY <1>2, <2>1, <2>2 DEF AllPages, Covers
  <2> QED BY <2>3 DEF Shown
<1> QED BY <1>1, <1>2 DEF PagesShowAll

\* The list of the orders that never reached Shopify hides none: whatever the orders there are, the
\* pages asked for and what becomes of the orders meanwhile (orders/repository findStuckPage, useStuckOrders).
THEOREM StuckListHolds == StuckSpec => []StuckListIsWhole
<1>1. StuckInv => StuckListIsWhole
  BY GroupsDoPart, PagesDoShowAll DEF StuckListIsWhole, StuckInv, ListInv
<1> QED BY <1>1, StuckStarts, StuckInductive, PTL DEF StuckSpec

-----------------------------------------------------------------------------
(* The settings file. *)

IsTransfer(r) == r = [f \in {"at", "file", "got", "before", "left", "start", "alone"} |-> r[f]]

Imports == {"before", "settings", "buttons", "forms", "fraud", "fraudRules", "invalidate", "after", "done"}
\* The sections an import that stands at "at" is past.
Past(at) ==
    {s \in Sections :
        \/ at \in {"invalidate", "after", "done"}
        \/ s = "settings" /\ at \in {"buttons", "forms", "fraud", "fraudRules"}
        \/ s = "buttons" /\ at \in {"forms", "fraud", "fraudRules"}
        \/ s = "forms" /\ at \in {"fraud", "fraudRules"}
        \/ s = "fraud" /\ at = "fraudRules"}
\* The rows of a section it has written.
Wrote(s, r) ==
    IF s \in Past(r.at) THEN Rows(r.file, s) ELSE IF s = r.at THEN Rows(r.file, s) \ r.left ELSE {}

\* Those rows of a section read as the file has them, over what was there; the rest is as it was.
SectionReads(s, data, start, wrote, table) ==
    /\ DOMAIN table = DOMAIN start \cup wrote
    /\ \A k \in wrote : ReadsAs(s, data[k], table[k])
                        /\ (k \in DOMAIN start => Keeps(s, start[k], data[k], table[k]))
    /\ \A k \in DOMAIN start \ wrote : table[k] = start[k]

SectionFits(s, r, table) ==
    IF s = "fraudRules" /\ s \in DOMAIN r.file /\ s \in Past(r.at) THEN table = r.file[s]
    ELSE SectionReads(s, r.file[s], r.start[s], Wrote(s, r), table)

Progress(r, tables) ==
    r.at \in Imports /\ r.alone => \A s \in Sections : SectionFits(s, r, tables[s])

\* A request's files have the sections there are.
FilesFit(r) ==
    /\ IsTransfer(r)
    /\ r.at \in Imports => DOMAIN r.file \subseteq Sections
    /\ DOMAIN r.got \subseteq Sections /\ DOMAIN r.before \subseteq Sections
    /\ r.at \in Sections => r.left \subseteq Rows(r.file, r.at)

TransferTypes ==
    /\ store = [s \in Sections |-> store[s]] /\ transfer = [t \in Requests |-> transfer[t]]
    /\ \A t \in Requests : FilesFit(transfer[t])
    /\ DOMAIN backup \subseteq Sections /\ DOMAIN trail \subseteq Sections
    /\ failures \in Nat

\* A cache may be stale while one of these is under way.
Writing(at) == at \notin {"idle", "export", "before", "after", "saving", "done"}

StaleFits ==
    /\ stale => failures > 0 \/ \E t \in Requests : Writing(transfer[t].at)
    /\ \A t \in Requests : transfer[t].at = "failed" => failures > 0

TransferInv ==
    TransferTypes /\ (\A t \in Requests : Progress(transfer[t], store)) /\ StaleFits

-----------------------------------------------------------------------------
\* One row written over a table: it reads as the data has it, and the others stay.
RowPut(s, table, k, data) == IF s = "forms" THEN replaceFormFields(table, k, data) ELSE upsert(table, s, k, data)

LEMMA DefinedIs ==
    ASSUME NEW new, NEW old
    PROVE  /\ DOMAIN defined(new, old) = DOMAIN new \cup DOMAIN old
           /\ \A c \in DOMAIN new : defined(new, old)[c] = new[c]
           /\ \A c \in DOMAIN old \ DOMAIN new : defined(new, old)[c] = old[c]
  BY DEF defined

Upserted(table, k, data, now) ==
    /\ DOMAIN now = DOMAIN table \cup {k} /\ \A j \in DOMAIN table \ {k} : now[j] = table[j]
    /\ \A c \in DOMAIN data : now[k][c] = data[c]
    /\ k \in DOMAIN table => \A c \in DOMAIN table[k] \ DOMAIN data : now[k][c] = table[k][c]

LEMMA UpsertIs ==
    ASSUME NEW s, NEW table, NEW k, NEW data PROVE Upserted(table, k, data, upsert(table, s, k, data))
<1> USE DEF Upserted
<1> DEFINE old == IF k \in DOMAIN table THEN table[k] ELSE Defaults[s]
           row == defined(data, old)
           one == [j \in {k} |-> row]
<1>1. upsert(table, s, k, data) = defined(one, table) BY DEF upsert
<1>2. /\ \A c \in DOMAIN data : row[c] = data[c]
      /\ \A c \in DOMAIN old \ DOMAIN data : row[c] = old[c]
  <2> HIDE DEF old
  <2> QED BY DefinedIs
<1>3. k \in DOMAIN table => old = table[k] OBVIOUS
<1> HIDE DEF old, row
<1>4. DOMAIN one = {k} /\ one[k] = row OBVIOUS
<1> HIDE DEF one
<1>5. /\ DOMAIN defined(one, table) = {k} \cup DOMAIN table /\ defined(one, table)[k] = row
      /\ \A j \in DOMAIN table \ {k} : defined(one, table)[j] = table[j]
  BY <1>4, DefinedIs
<1> QED BY <1>1, <1>2, <1>3, <1>5

IsPut(s, table, k, data, now) ==
    /\ DOMAIN now = DOMAIN table \cup {k} /\ \A j \in DOMAIN table \ {k} : now[j] = table[j]
    /\ ReadsAs(s, data, now[k])
    /\ k \in DOMAIN table => Keeps(s, table[k], data, now[k])

LEMMA RowIsPut ==
    ASSUME NEW s, NEW table, NEW k, NEW data PROVE IsPut(s, table, k, data, RowPut(s, table, k, data))
<1>1. CASE s = "forms" /\ "fields" \in DOMAIN data /\ data["fields"] = {}
  <2> DEFINE less == [c \in DOMAIN data \ {"fields"} |-> data[c]]
  <2>1. RowPut(s, table, k, data) = upsert(table, "forms", k, less) BY <1>1 DEF RowPut, replaceFormFields
  <2>2. DOMAIN less = DOMAIN data \ {"fields"} /\ \A c \in DOMAIN less : less[c] = data[c] OBVIOUS
  <2> HIDE DEF less
  <2>3. \A c : c \in DOMAIN data => c \in DOMAIN less \/ LeftOut(s, data, c) BY <1>1, <2>2 DEF LeftOut
  <2>4. \A c : c \in DOMAIN less => c \in DOMAIN data /\ ~LeftOut(s, data, c) BY <2>2 DEF LeftOut
  <2> DEFINE now == upsert(table, "forms", k, less)
  <2>5. Upserted(table, k, less, now) BY UpsertIs
  <2>6. RowPut(s, table, k, data) = now BY <2>1
  <2> HIDE DEF now
  <2>7. ReadsAs(s, data, now[k]) BY <2>2, <2>3, <2>5 DEF ReadsAs, Upserted
  <2>8. k \in DOMAIN table => Keeps(s, table[k], data, now[k]) BY <2>4, <2>5 DEF Keeps, Upserted
  <2> QED BY <2>5, <2>6, <2>7, <2>8 DEF Upserted, IsPut
<1>2. CASE ~(s = "forms" /\ "fields" \in DOMAIN data /\ data["fields"] = {})
  <2>1. RowPut(s, table, k, data) = upsert(table, s, k, data) BY <1>2 DEF RowPut, replaceFormFields
  <2>2. \A c \in DOMAIN data : ~LeftOut(s, data, c) BY <1>2 DEF LeftOut
  <2> DEFINE now == upsert(table, s, k, data)
  <2>5. Upserted(table, k, data, now) BY UpsertIs
  <2>6. RowPut(s, table, k, data) = now BY <2>1
  <2> HIDE DEF now
  <2>7. ReadsAs(s, data, now[k]) BY <2>5 DEF ReadsAs, Upserted
  <2>8. k \in DOMAIN table => Keeps(s, table[k], data, now[k]) BY <2>2, <2>5 DEF Keeps, Upserted
  <2> QED BY <2>5, <2>6, <2>7, <2>8 DEF Upserted, IsPut
<1> QED BY <1>1, <1>2

\* An import goes on by a row.
LEMMA RowGoesOn ==
    ASSUME NEW s, NEW data, NEW start, NEW wrote, NEW table, NEW k, k \notin wrote,
           SectionReads(s, data, start, wrote, table)
    PROVE  SectionReads(s, data, start, wrote \cup {k}, RowPut(s, table, k, data[k]))
<1> DEFINE row == data[k]
           new == RowPut(s, table, k, row)
<1>1. /\ DOMAIN new = DOMAIN table \cup {k} /\ ReadsAs(s, data[k], new[k])
      /\ \A j \in DOMAIN table \ {k} : new[j] = table[j]
      /\ k \in DOMAIN table => Keeps(s, table[k], data[k], new[k])
  <2> HIDE DEF row
  <2>1. IsPut(s, table, k, row, new) BY RowIsPut
  <2> HIDE DEF new
  <2> QED BY <2>1 DEF row, IsPut
<1> HIDE DEF new
<1>2. DOMAIN new = DOMAIN start \cup (wrote \cup {k}) BY <1>1 DEF SectionReads
<1>3. \A j \in DOMAIN start \ (wrote \cup {k}) : new[j] = start[j] BY <1>1 DEF SectionReads
<1>4. ASSUME NEW j \in wrote \cup {k}
      PROVE  ReadsAs(s, data[j], new[j]) /\ (j \in DOMAIN start => Keeps(s, start[j], data[j], new[j]))
  <2>1. CASE j = k
    <3>1. k \in DOMAIN start => k \in DOMAIN table /\ table[k] = start[k] BY DEF SectionReads
    <3> QED BY <1>1, <2>1, <3>1
  <2>2. CASE j # k
    <3>1. j \in wrote /\ j \in DOMAIN table BY <1>4, <2>2 DEF SectionReads
    <3>2. new[j] = table[j] BY <1>1, <2>2, <3>1
    <3> QED BY <3>1, <3>2 DEF SectionReads
  <2> QED BY <2>1, <2>2
<1>5. SectionReads(s, data, start, wrote \cup {k}, new) BY <1>2, <1>3, <1>4 DEF SectionReads
<1> QED BY <1>5 DEF new

LEMMA TransferStarts == TransferInit => TransferInv
<1> SUFFICES ASSUME TransferInit PROVE TransferInv OBVIOUS
<1>1. /\ IsTransfer(Idle) /\ Idle.at = "idle" /\ DOMAIN NoFile = {} /\ Idle.got = NoFile /\ Idle.before = NoFile
  BY DEF IsTransfer, Idle, NoFile, NoRows
<1>2. FilesFit(Idle) BY <1>1 DEF FilesFit, Imports, Sections
<1>3. TransferTypes BY <1>1, <1>2, TransferAssumption DEF TransferInit, TransferTypes
<1>4. \A t \in Requests : transfer[t].at = "idle" BY <1>1 DEF TransferInit
<1>5. \A t \in Requests : Progress(transfer[t], store) BY <1>4 DEF Progress, Imports
<1>6. StaleFits BY <1>4 DEF TransferInit, StaleFits
<1> QED BY <1>3, <1>5, <1>6 DEF TransferInv

\* One request goes on, and the rows and the cache stay as they are.
GoesTo(q, r) ==
    /\ transfer' = [transfer EXCEPT ![q] = r] /\ UNCHANGED store
    /\ FilesFit(r) /\ Progress(r, store)
    /\ failures' \in Nat /\ (failures > 0 => failures' > 0) /\ (r.at = "failed" => failures' > 0)
    /\ DOMAIN backup' \subseteq Sections /\ DOMAIN trail' \subseteq Sections
    /\ stale' => stale /\ (Writing(transfer[q].at) => Writing(r.at) \/ failures' > 0)

LEMMA RequestGoes ==
    ASSUME TransferInv, NEW q \in Requests, NEW r, GoesTo(q, r)
    PROVE  TransferInv'
<1>1. /\ transfer'[q] = r /\ \A t \in Requests : t # q => transfer'[t] = transfer[t]
      /\ transfer' = [t \in Requests |-> transfer'[t]]
  BY DEF GoesTo, TransferInv, TransferTypes
<1>2. TransferTypes' BY <1>1 DEF GoesTo, TransferInv, TransferTypes
<1>3. \A t \in Requests : Progress(transfer'[t], store') BY <1>1 DEF GoesTo, TransferInv
<1>4. ASSUME stale' PROVE failures' > 0 \/ \E t \in Requests : Writing(transfer'[t].at)
  BY <1>1, <1>4 DEF GoesTo, TransferInv, StaleFits
<1>5. \A t \in Requests : transfer'[t].at = "failed" => failures' > 0
  BY <1>1 DEF GoesTo, TransferInv, StaleFits
<1> QED BY <1>2, <1>3, <1>4, <1>5 DEF TransferInv, StaleFits

\* One request writes, and the others are no longer alone.
WritesOn(q, tables, r) ==
    /\ Write(q, tables, r) /\ UNCHANGED <<backup, trail, failures>>
    /\ tables = [s \in Sections |-> tables[s]] /\ FilesFit(r) /\ Progress(r, tables)
    /\ Writing(r.at) /\ r.at # "failed"

LEMMA RequestWrites ==
    ASSUME TransferInv, NEW q \in Requests, NEW tables, NEW r, WritesOn(q, tables, r)
    PROVE  TransferInv'
<1> DEFINE other(t) == [transfer[t] EXCEPT !.alone = @ /\ tables = store]
<1>1. /\ store' = tables /\ transfer'[q] = r /\ \A t \in Requests : t # q => transfer'[t] = other(t)
      /\ transfer' = [t \in Requests |-> transfer'[t]]
  BY DEF WritesOn, Write
<1>2. ASSUME NEW t \in Requests
      PROVE  /\ IsTransfer(other(t)) /\ other(t).at = transfer[t].at /\ other(t).file = transfer[t].file
             /\ other(t).got = transfer[t].got /\ other(t).before = transfer[t].before
             /\ other(t).left = transfer[t].left /\ other(t).start = transfer[t].start
             /\ other(t).alone => transfer[t].alone /\ tables = store
  <2>1. IsTransfer(transfer[t]) BY DEF TransferInv, TransferTypes, FilesFit
  <2> QED BY <2>1 DEF IsTransfer
<1> HIDE DEF other
<1>3. ASSUME NEW t \in Requests PROVE FilesFit(transfer'[t]) /\ Progress(transfer'[t], tables)
                                      /\ (t # q => transfer'[t].at = transfer[t].at)
  <2>1. CASE t = q BY <1>1, <2>1 DEF WritesOn
  <2>2. CASE t # q
    <3>1. transfer'[t] = other(t) /\ FilesFit(transfer[t]) /\ Progress(transfer[t], store)
      BY <1>1, <2>2 DEF TransferInv, TransferTypes
    <3>2. FilesFit(other(t)) BY <1>2, <3>1 DEF FilesFit
    <3>3. other(t).alone => tables = store /\ transfer[t].alone BY <1>2
    <3>4. \A s, table : SectionFits(s, other(t), table) <=> SectionFits(s, transfer[t], table)
      BY <1>2 DEF SectionFits, Wrote
    <3>5. Progress(other(t), tables) BY <1>2, <3>1, <3>3, <3>4 DEF Progress
    <3> QED BY <1>2, <3>1, <3>2, <3>5
  <2> QED BY <2>1, <2>2
<1>4. TransferTypes' BY <1>1, <1>3 DEF WritesOn, TransferInv, TransferTypes
<1>5. \A t \in Requests : Progress(transfer'[t], store') BY <1>1, <1>3
<1>6. StaleFits'
  <2>1. Writing(transfer'[q].at) BY <1>1 DEF WritesOn
  <2>2. \A t \in Requests : transfer'[t].at = "failed" => failures' > 0
    BY <1>1, <1>3 DEF WritesOn, TransferInv, StaleFits
  <2> QED BY <2>1, <2>2 DEF StaleFits
<1> QED BY <1>4, <1>5, <1>6 DEF TransferInv

\* What a request has been through so far.
LEMMA RequestSoFar ==
    ASSUME TransferInv, NEW t \in Requests
    PROVE  /\ IsTransfer(transfer[t]) /\ FilesFit(transfer[t]) /\ Progress(transfer[t], store)
           /\ failures \in Nat /\ DOMAIN backup \subseteq Sections /\ DOMAIN trail \subseteq Sections
           /\ transfer[t].at = "failed" => failures > 0
           /\ DOMAIN store = Sections /\ store = [s \in Sections |-> store[s]]
  BY DEF TransferInv, TransferTypes, FilesFit, StaleFits

\* The record of a request, one field changed or all.
LEMMA IdleIs ==
    /\ IsTransfer(Idle) /\ Idle.at = "idle" /\ Idle.got = NoFile /\ Idle.before = NoFile /\ DOMAIN NoFile = {}
    /\ FilesFit(Idle) /\ \A tables : Progress(Idle, tables)
<1>1. /\ IsTransfer(Idle) /\ Idle.at = "idle" /\ DOMAIN NoFile = {} /\ Idle.got = NoFile /\ Idle.before = NoFile
  BY DEF IsTransfer, Idle, NoFile, NoRows
<1> QED BY <1>1 DEF FilesFit, Progress, Imports, Sections

LEMMA BeginsFit ==
    ASSUME TransferInv, NEW t \in Requests, NEW at \in {"export", "before"}, NEW file,
           DOMAIN file \subseteq Sections, Begins(t, at, file)
    PROVE  TransferInv'
<1> DEFINE r == [Idle EXCEPT !.at = at, !.file = file, !.start = store]
<1>1. /\ transfer[t].at = "idle" /\ transfer' = [transfer EXCEPT ![t] = r]
      /\ UNCHANGED <<store, backup, trail, stale, failures>>
  BY DEF Begins, Set
<1>2. /\ IsTransfer(r) /\ r.at = at /\ r.file = file /\ r.start = store /\ r.got = NoFile /\ r.before = NoFile
  BY IdleIs DEF IsTransfer
<1> HIDE DEF r
<1>3. FilesFit(r) BY <1>2, IdleIs DEF FilesFit, Sections
<1>4. Progress(r, store)
  <2> SUFFICES ASSUME at = "before", NEW s \in Sections PROVE SectionFits(s, r, store[s])
    BY <1>2 DEF Progress, Imports
  <2>1. s \notin Past(r.at) /\ s # r.at BY <1>2 DEF Past, Sections
  <2>2. Wrote(s, r) = {} BY <2>1 DEF Wrote
  <2> QED BY <1>2, <2>1, <2>2 DEF SectionFits, SectionReads
<1>5. GoesTo(t, r) BY <1>1, <1>2, <1>3, <1>4, RequestSoFar DEF GoesTo, Writing
<1> QED BY <1>5, RequestGoes

\* A request that stands where it stood, or is past what it has written, reads as it did.
SameReads(r, now) ==
    /\ now.file = r.file /\ now.start = r.start /\ now.alone = r.alone /\ r.at \in Imports
    /\ \A s \in Sections : Wrote(s, now) = Wrote(s, r)
    /\ "fraudRules" \in DOMAIN r.file => ("fraudRules" \in Past(now.at) <=> "fraudRules" \in Past(r.at))

LEMMA ReadsOn ==
    ASSUME NEW r, NEW now, NEW tables, Progress(r, tables), SameReads(r, now)
    PROVE  Progress(now, tables)
  BY DEF Progress, SameReads, SectionFits

\* importSettings comes to the next section.
LEMMA OnwardIs ==
    ASSUME NEW r, FilesFit(r), r.at \in {"before", "settings", "buttons", "forms", "fraud", "fraudRules"},
           r.at \in {"settings", "buttons", "forms", "fraud"} => r.left = {},
           r.at = "fraudRules" => "fraudRules" \notin DOMAIN r.file
    PROVE  /\ IsTransfer(Onward(r)) /\ FilesFit(Onward(r)) /\ SameReads(r, Onward(r))
           /\ Onward(r).at = After(r.at) /\ Onward(r).left = Rows(r.file, After(r.at))
           /\ Onward(r).got = r.got
<1> DEFINE at == After(r.at)
           now == Onward(r)
<1>1. /\ IsTransfer(now) /\ now.at = at /\ now.left = Rows(r.file, at) /\ now.file = r.file
      /\ now.start = r.start /\ now.alone = r.alone /\ now.got = r.got /\ now.before = r.before
  BY DEF Onward, FilesFit, IsTransfer
<1> HIDE DEF now
<1>2. at \in {"settings", "buttons", "forms", "fraud", "fraudRules", "invalidate"} BY DEF After
<1>3. FilesFit(now) BY <1>1, <1>2 DEF FilesFit, Imports
<1>4. ASSUME NEW s \in Sections PROVE Wrote(s, now) = Wrote(s, r)
  <2>1. CASE s = r.at
    <3>1. s \in Past(at) /\ s \notin Past(r.at) BY <2>1 DEF Past, After, Sections
    <3>2. Rows(r.file, s) \ r.left = Rows(r.file, s) BY <2>1 DEF Rows, Sections
    <3> QED BY <1>1, <2>1, <3>1, <3>2 DEF Wrote
  <2>2. CASE s = at
    <3>1. s \notin Past(at) /\ s \notin Past(r.at) /\ s # r.at BY <2>2 DEF Past, After, Sections
    <3> QED BY <1>1, <2>2, <3>1 DEF Wrote
  <2>3. CASE s # r.at /\ s # at
    <3>1. s \in Past(at) <=> s \in Past(r.at) BY <2>3 DEF Past, After, Sections
    <3> QED BY <1>1, <2>3, <3>1 DEF Wrote
  <2> QED BY <2>1, <2>2, <2>3
<1>5. "fraudRules" \in DOMAIN r.file => ("fraudRules" \in Past(at) <=> "fraudRules" \in Past(r.at))
  BY DEF Past, After, Sections
<1>6. SameReads(r, now) BY <1>1, <1>4, <1>5 DEF SameReads, Imports
<1> QED BY <1>1, <1>3, <1>6 DEF now

LEMMA ReadFits ==
    ASSUME TransferInv, NEW t \in Requests, exportSettings(t) \/ Downloaded(t) \/ SnapshotTaken(t)
    PROVE  TransferInv'
<1> DEFINE r == transfer[t]
<1>0. IsTransfer(r) /\ FilesFit(r) /\ Progress(r, store) BY RequestSoFar
<1>1. CASE exportSettings(t)
  <2>1. PICK s \in Sections \ DOMAIN r.got :
          transfer' = [transfer EXCEPT ![t] = [r EXCEPT !.got = defined([x \in {s} |-> store[s]], @)]]
    BY <1>1 DEF exportSettings, Set
  <2> DEFINE one == [x \in {s} |-> store[s]]
             got == defined(one, r.got)
             now == [r EXCEPT !.got = got]
  <2>2. r.at \in {"export", "before"} /\ UNCHANGED <<store, backup, trail, stale, failures>>
    BY <1>1 DEF exportSettings
  <2>3. DOMAIN got \subseteq Sections
    <3> DEFINE had == r.got
    <3>1. DOMAIN one = {s} OBVIOUS
    <3>2. DOMAIN had \subseteq Sections BY <1>0 DEF FilesFit
    <3> HIDE DEF one, had, r
    <3>3. DOMAIN defined(one, had) = DOMAIN one \cup DOMAIN had BY DefinedIs
    <3> QED BY <3>1, <3>2, <3>3 DEF had
  <2>4. transfer' = [transfer EXCEPT ![t] = now] BY <2>1
  <2> HIDE DEF got
  <2>5. /\ IsTransfer(now) /\ now.at = r.at /\ now.file = r.file /\ now.start = r.start /\ now.left = r.left
        /\ now.alone = r.alone /\ now.got = got /\ now.before = r.before
    BY <1>0 DEF IsTransfer
  <2> HIDE DEF now, r
  <2>6. FilesFit(now) BY <1>0, <2>3, <2>5 DEF FilesFit
  <2>7. Progress(now, store)
    <3>1. \A x, table : SectionFits(x, now, table) <=> SectionFits(x, r, table) BY <2>5 DEF SectionFits, Wrote
    <3> QED BY <1>0, <2>5, <3>1 DEF Progress
  <2>8. GoesTo(t, now) BY <2>2, <2>4, <2>5, <2>6, <2>7, RequestSoFar DEF GoesTo, r
  <2> QED BY <2>8, RequestGoes
<1>2. CASE Downloaded(t)
  <2>1. /\ r.at = "export" /\ backup' = r.got /\ transfer' = [transfer EXCEPT ![t] = Idle]
        /\ UNCHANGED <<store, trail, stale, failures>>
    BY <1>2 DEF Downloaded, Set
  <2>2. DOMAIN backup' \subseteq Sections BY <1>0, <2>1 DEF FilesFit
  <2>3. GoesTo(t, Idle) BY <2>1, <2>2, IdleIs, RequestSoFar DEF GoesTo, Writing
  <2> QED BY <2>3, RequestGoes
<1>3. CASE SnapshotTaken(t)
  <2> DEFINE on == Onward(r)
             now == [on EXCEPT !.before = r.got, !.got = NoFile]
  <2>1. /\ r.at = "before" /\ transfer' = [transfer EXCEPT ![t] = now]
        /\ UNCHANGED <<store, backup, trail, stale, failures>>
    BY <1>3 DEF SnapshotTaken, Set
  <2>2. IsTransfer(on) /\ FilesFit(on) /\ SameReads(r, on) /\ on.at = After(r.at)
    BY <1>0, <2>1, OnwardIs
  <2> HIDE DEF on
  <2>3. /\ IsTransfer(now) /\ now.at = on.at /\ now.file = on.file /\ now.start = on.start /\ now.left = on.left
        /\ now.alone = on.alone /\ now.got = NoFile /\ now.before = r.got
    BY <2>2 DEF IsTransfer
  <2> HIDE DEF now, r
  <2>4. FilesFit(now) BY <1>0, <2>2, <2>3, IdleIs DEF FilesFit
  <2>5. SameReads(r, now) BY <2>2, <2>3 DEF SameReads, Wrote
  <2>6. Progress(now, store) BY <1>0, <2>5, ReadsOn
  <2>7. now.at = "settings" BY <2>1, <2>2, <2>3 DEF After
  <2>8. GoesTo(t, now) BY <2>1, <2>4, <2>6, <2>7, RequestSoFar DEF GoesTo, Writing, r
  <2> QED BY <2>8, RequestGoes
<1> QED BY <1>1, <1>2, <1>3

LEMMA NextSectionFits == ASSUME TransferInv, NEW t \in Requests, NextSection(t) PROVE TransferInv'
<1> DEFINE r == transfer[t]
           now == Onward(r)
<1>0. IsTransfer(r) /\ FilesFit(r) /\ Progress(r, store) BY RequestSoFar
<1>1. /\ transfer' = [transfer EXCEPT ![t] = now] /\ UNCHANGED <<store, backup, trail, stale, failures>>
      /\ r.at \in {"settings", "buttons", "forms", "fraud", "fraudRules"}
      /\ r.at \in {"settings", "buttons", "forms", "fraud"} => r.left = {}
      /\ r.at = "fraudRules" => "fraudRules" \notin DOMAIN r.file
  BY DEF NextSection, Set
<1>2. FilesFit(now) /\ SameReads(r, now) /\ now.at = After(r.at) BY <1>0, <1>1, OnwardIs
<1> HIDE DEF now, r
<1>3. Progress(now, store) BY <1>0, <1>2, ReadsOn
<1>4. Writing(now.at) /\ now.at # "failed" BY <1>1, <1>2 DEF After, Writing
<1>5. GoesTo(t, now) BY <1>1, <1>2, <1>3, <1>4, RequestSoFar DEF GoesTo
<1> QED BY <1>5, RequestGoes

LEMMA EndingFits ==
    ASSUME TransferInv, NEW t \in Requests, invalidateTag(t) \/ recordForRequest(t) \/ Fails(t)
    PROVE  TransferInv'
<1> DEFINE r == transfer[t]
<1>0. IsTransfer(r) /\ FilesFit(r) /\ Progress(r, store) BY RequestSoFar
<1>1. ASSUME NEW at, transfer' = [transfer EXCEPT ![t] = [transfer[t] EXCEPT !.at = at]], UNCHANGED store,
             \/ at = "failed" /\ failures' > 0
             \/ at = "after" /\ r.at = "invalidate" /\ ~stale'
             \/ at = "done" /\ r.at = "after" /\ (stale' => stale),
             failures' \in Nat, failures > 0 => failures' > 0, DOMAIN backup' \subseteq Sections,
             DOMAIN trail' \subseteq Sections, stale' => stale
      PROVE  TransferInv'
  <2> DEFINE now == [r EXCEPT !.at = at]
  <2>1. transfer' = [transfer EXCEPT ![t] = now] BY <1>1
  <2>2. /\ IsTransfer(now) /\ now.at = at /\ now.file = r.file /\ now.start = r.start /\ now.left = r.left
        /\ now.alone = r.alone /\ now.got = r.got /\ now.before = r.before
    BY <1>0 DEF IsTransfer
  <2> HIDE DEF now
  <2>3. FilesFit(now) BY <1>0, <1>1, <2>2 DEF FilesFit, Imports, Sections
  <2>4. Progress(now, store)
    <3>1. CASE at = "failed" BY <2>2, <3>1 DEF Progress, Imports
    <3>2. CASE at \in {"after", "done"} /\ r.at \in {"invalidate", "after"}
      <4>1. Past(at) = Past(r.at) BY <3>2 DEF Past
      <4>2. at \notin Sections /\ r.at \notin Sections BY <3>2 DEF Sections
      <4>3. \A s \in Sections : Wrote(s, now) = Wrote(s, r) BY <2>2, <4>1, <4>2 DEF Wrote
      <4>4. SameReads(r, now) BY <2>2, <3>2, <4>1, <4>3 DEF SameReads, Imports
      <4> QED BY <1>0, <4>4, ReadsOn
    <3> QED BY <1>1, <3>1, <3>2
  <2>5. (at = "done" => ~Writing(r.at)) /\ (at = "failed" => failures' > 0)
    BY <1>1 DEF Writing
  <2>6. stale' => stale /\ (Writing(r.at) => Writing(at) \/ failures' > 0) BY <1>1, <2>5
  <2>7. GoesTo(t, now) BY <1>1, <2>1, <2>2, <2>3, <2>4, <2>5, <2>6 DEF GoesTo
  <2> QED BY <2>7, RequestGoes
<1>2. failures \in Nat /\ DOMAIN backup \subseteq Sections /\ DOMAIN trail \subseteq Sections BY RequestSoFar
<1>3. CASE invalidateTag(t) BY <1>1, <1>2, <1>3 DEF invalidateTag, Set
<1>4. CASE recordForRequest(t)
  <2>1. DOMAIN trail' \subseteq Sections
    <3>1. DOMAIN sanitize(r.before) = DOMAIN r.before BY DEF sanitize
    <3> QED BY <1>0, <1>2, <1>4, <3>1 DEF recordForRequest, FilesFit
  <2>2. failures' \in Nat /\ (failures > 0 => failures' > 0) BY <1>2, <1>4 DEF recordForRequest
  <2> QED BY <1>1, <1>2, <1>4, <2>1, <2>2 DEF recordForRequest, Set
<1>5. CASE Fails(t)
  <2>1. failures' \in Nat /\ failures' > 0 BY <1>2, <1>5 DEF Fails
  <2> QED BY <1>1, <1>2, <1>5, <2>1 DEF Fails, Set
<1> QED BY <1>3, <1>4, <1>5

LEMMA ScreenFits ==
    ASSUME TransferInv, NEW t \in Requests, Answers(t) \/ updateButton(t) \/ Told(t)
    PROVE  TransferInv'
<1>1. CASE Answers(t)
  <2>1. /\ transfer[t].at \in {"done", "failed"} /\ transfer' = [transfer EXCEPT ![t] = Idle]
        /\ UNCHANGED <<store, backup, trail, stale, failures>>
    BY <1>1 DEF Answers, Set
  <2>2. Writing(transfer[t].at) => failures' > 0 BY <2>1, RequestSoFar DEF Writing
  <2>3. GoesTo(t, Idle) BY <2>1, <2>2, IdleIs, RequestSoFar DEF GoesTo
  <2> QED BY <2>3, RequestGoes
<1>2. CASE Told(t)
  <2>1. /\ ~stale' /\ transfer' = [transfer EXCEPT ![t] = Idle] /\ UNCHANGED <<store, backup, trail, failures>>
    BY <1>2 DEF Told, Set
  <2>3. GoesTo(t, Idle) BY <2>1, IdleIs, RequestSoFar DEF GoesTo
  <2> QED BY <2>3, RequestGoes
<1>3. CASE updateButton(t)
  <2>1. PICK file : transfer' = [transfer EXCEPT ![t] = [Idle EXCEPT !.at = "saving", !.file = file]]
    BY <1>3 DEF updateButton, Set
  <2> DEFINE r == [Idle EXCEPT !.at = "saving", !.file = file]
  <2>2. transfer[t].at = "idle" /\ UNCHANGED <<store, backup, trail, stale, failures>>
    BY <1>3 DEF updateButton
  <2>3. IsTransfer(r) /\ r.at = "saving" /\ r.got = NoFile /\ r.before = NoFile BY IdleIs DEF IsTransfer
  <2>4. transfer' = [transfer EXCEPT ![t] = r] BY <2>1
  <2> HIDE DEF r
  <2>5. FilesFit(r) /\ Progress(r, store) BY <2>3, IdleIs DEF FilesFit, Progress, Imports, Sections
  <2>6. GoesTo(t, r) BY <2>2, <2>3, <2>4, <2>5, RequestSoFar DEF GoesTo, Writing
  <2> QED BY <2>6, RequestGoes
<1> QED BY <1>1, <1>2, <1>3

\* The rows a write leaves.
LEMMA WrittenIs ==
    ASSUME TransferInv, NEW section, NEW key, NEW data
    PROVE  /\ Written(section, key, data) = [s \in Sections |-> Written(section, key, data)[s]]
           /\ \A s \in Sections : Written(section, key, data)[s] =
                  IF s = section THEN RowPut(section, store[section], key, data) ELSE store[s]
<1>1. store = [s \in Sections |-> store[s]] BY DEF TransferInv, TransferTypes
<1>2. Written(section, key, data) = [store EXCEPT ![section] = RowPut(section, store[section], key, data)]
  BY <1>1 DEF Written, RowPut
<1> DEFINE table == RowPut(section, store[section], key, data)
<1>3. Written(section, key, data) = [store EXCEPT ![section] = table] BY <1>2
<1> HIDE DEF table
<1>4. /\ Written(section, key, data) = [s \in Sections |-> Written(section, key, data)[s]]
      /\ \A s \in Sections : Written(section, key, data)[s] = IF s = section THEN table ELSE store[s]
  BY <1>1, <1>3
<1> QED BY <1>4 DEF table

LEMMA SavesFits == ASSUME TransferInv, NEW t \in Requests, Saves(t) PROVE TransferInv'
<1>1. PICK section, key, data : Write(t, Written(section, key, data), [Idle EXCEPT !.at = "told"])
  BY DEF Saves
<1> DEFINE r == [Idle EXCEPT !.at = "told"]
           tables == Written(section, key, data)
<1>2. IsTransfer(r) /\ r.at = "told" /\ r.got = NoFile /\ r.before = NoFile BY IdleIs DEF IsTransfer
<1>3. tables = [s \in Sections |-> tables[s]] BY WrittenIs
<1>4. Write(t, tables, r) /\ UNCHANGED <<backup, trail, failures>> BY <1>1 DEF Saves
<1> HIDE DEF r, tables
<1>5. FilesFit(r) /\ Progress(r, tables) BY <1>2, IdleIs DEF FilesFit, Progress, Imports, Sections
<1>6. WritesOn(t, tables, r) BY <1>2, <1>3, <1>4, <1>5 DEF WritesOn, Writing
<1> QED BY <1>6, RequestWrites

LEMMA RowFits == ASSUME TransferInv, NEW t \in Requests, ImportRow(t) PROVE TransferInv'
<1> DEFINE r == transfer[t]
           at == r.at
<1>0. IsTransfer(r) /\ FilesFit(r) /\ Progress(r, store) BY RequestSoFar
<1>1. PICK key \in r.left : Write(t, Written(at, key, r.file[at][key]), [r EXCEPT !.left = @ \ {key}])
  BY DEF ImportRow
<1>2. at \in {"settings", "buttons", "forms", "fraud"} /\ UNCHANGED <<backup, trail, failures>>
  BY DEF ImportRow
<1> DEFINE now == [r EXCEPT !.left = @ \ {key}]
           row == r.file[at][key]
           tables == Written(at, key, row)
<1>3. /\ IsTransfer(now) /\ now.at = at /\ now.file = r.file /\ now.start = r.start /\ now.left = r.left \ {key}
      /\ now.alone = r.alone /\ now.got = r.got /\ now.before = r.before
  BY <1>0 DEF IsTransfer
<1>4. /\ tables = [s \in Sections |-> tables[s]]
      /\ \A s \in Sections : tables[s] = IF s = at THEN RowPut(at, store[at], key, row) ELSE store[s]
  <2> HIDE DEF row
  <2> QED BY WrittenIs
<1>5. Write(t, tables, now) BY <1>1
<1>6. at \in Sections /\ at # "fraudRules" /\ Writing(at) /\ at # "failed" /\ at \in Imports
  BY <1>2 DEF Sections, Writing, Imports
<1>7. key \in Rows(r.file, at) /\ r.left \subseteq Rows(r.file, at) BY <1>0, <1>1, <1>6 DEF FilesFit
<1> HIDE DEF now, tables, row, r, at
<1>8. FilesFit(now) BY <1>0, <1>3, <1>6, <1>7 DEF FilesFit, at
<1>9. ASSUME now.alone, NEW s \in Sections PROVE SectionFits(s, now, tables[s])
  <2>1. SectionFits(s, r, store[s]) BY <1>0, <1>3, <1>6, <1>9 DEF Progress, at
  <2>2. CASE s # at
    <3>1. Wrote(s, now) = Wrote(s, r) BY <1>3, <2>2 DEF Wrote, at
    <3> QED BY <1>3, <1>4, <2>1, <2>2, <3>1 DEF SectionFits, at
  <2>3. CASE s = at
    <3> DEFINE wrote == Rows(r.file, at) \ r.left
    <3>1. at \notin Past(at) BY <1>2 DEF Past
    <3>2. Wrote(at, r) = wrote /\ Wrote(at, now) = Rows(r.file, at) \ (r.left \ {key})
      BY <1>3, <3>1 DEF Wrote, at
    <3>3. Wrote(at, now) = wrote \cup {key} /\ key \notin wrote BY <1>1, <1>7, <3>2
    <3> HIDE DEF wrote
    <3>4. SectionReads(at, r.file[at], r.start[at], wrote, store[at])
      BY <1>6, <2>1, <2>3, <3>2 DEF SectionFits
    <3>5. SectionReads(at, r.file[at], r.start[at], wrote \cup {key}, RowPut(at, store[at], key, r.file[at][key]))
      BY <3>3, <3>4, RowGoesOn
    <3>6. SectionReads(at, now.file[at], now.start[at], Wrote(at, now), tables[at])
      BY <1>3, <1>4, <1>6, <3>3, <3>5 DEF row
    <3> QED BY <1>6, <2>3, <3>6 DEF SectionFits
  <2> QED BY <2>2, <2>3
<1>10. Progress(now, tables) BY <1>9 DEF Progress
<1>11. WritesOn(t, tables, now) BY <1>2, <1>3, <1>4, <1>5, <1>6, <1>8, <1>10 DEF WritesOn
<1> QED BY <1>11, RequestWrites

LEMMA RulesFit == ASSUME TransferInv, NEW t \in Requests, replaceFraudRules(t) PROVE TransferInv'
<1> DEFINE r == transfer[t]
           now == Onward(r)
           rules == r.file["fraudRules"]
           tables == [store EXCEPT !["fraudRules"] = rules]
<1>0. IsTransfer(r) /\ FilesFit(r) /\ Progress(r, store) /\ store = [s \in Sections |-> store[s]]
  BY RequestSoFar
<1>1. /\ r.at = "fraudRules" /\ "fraudRules" \in DOMAIN r.file /\ UNCHANGED <<backup, trail, failures>>
      /\ Write(t, tables, now)
  BY DEF replaceFraudRules
<1>2. /\ IsTransfer(now) /\ now.at = "invalidate" /\ now.file = r.file
      /\ now.start = r.start /\ now.alone = r.alone /\ now.got = r.got /\ now.before = r.before
  BY <1>0, <1>1 DEF Onward, FilesFit, IsTransfer, After
<1> HIDE DEF now, r, rules
<1>3. /\ tables = [s \in Sections |-> tables[s]] /\ tables["fraudRules"] = rules
      /\ \A s \in Sections \ {"fraudRules"} : tables[s] = store[s]
  BY <1>0 DEF Sections
<1> HIDE DEF tables
<1>4. FilesFit(now) BY <1>0, <1>1, <1>2 DEF FilesFit, Imports, Sections
<1>5. ASSUME now.alone, NEW s \in Sections PROVE SectionFits(s, now, tables[s])
  <2>1. SectionFits(s, r, store[s]) BY <1>0, <1>1, <1>2, <1>5 DEF Progress, Imports
  <2>2. CASE s = "fraudRules"
    <3>1. s \in Past(now.at) BY <1>2 DEF Past
    <3> QED BY <1>1, <1>2, <1>3, <2>2, <3>1 DEF SectionFits, rules
  <2>3. CASE s # "fraudRules"
    <3>1. s \in Past(now.at) /\ s \in Past(r.at) BY <1>1, <1>2, <2>3 DEF Past, Sections
    <3>2. Wrote(s, now) = Wrote(s, r) BY <1>2, <3>1 DEF Wrote
    <3> QED BY <1>2, <1>3, <2>1, <2>3, <3>2 DEF SectionFits
  <2> QED BY <2>2, <2>3
<1>6. Progress(now, tables) BY <1>5 DEF Progress
<1>7. WritesOn(t, tables, now) BY <1>1, <1>2, <1>3, <1>4, <1>6 DEF WritesOn, Writing
<1> QED BY <1>7, RequestWrites

LEMMA TransferInductive == ASSUME TransferInv, [TransferNext]_cvars PROVE TransferInv'
<1>1. CASE UNCHANGED cvars BY <1>1 DEF cvars, TransferInv, TransferTypes, StaleFits
<1>2. ASSUME NEW t \in Requests, StartExport(t) \/ StartImport(t) PROVE TransferInv'
  <2>1. DOMAIN NoFile \subseteq Sections BY IdleIs
  <2>2. CASE StartExport(t) BY <2>1, <2>2, BeginsFit DEF StartExport
  <2>3. CASE StartImport(t)
    <3>1. PICK file \in Foreign \cup ({backup, trail} \ {NoFile}) : Begins(t, "before", file)
      BY <2>3 DEF StartImport
    <3>2. DOMAIN file \subseteq Sections BY RequestSoFar, TransferAssumption
    <3> QED BY <3>1, <3>2, BeginsFit
  <2> QED BY <1>2, <2>2, <2>3
<1> QED BY <1>1, <1>2, ReadFits, RowFits, NextSectionFits, RulesFit, EndingFits, ScreenFits, SavesFits
        DEF TransferNext

LEMMA ImportDoesRestore == ASSUME TransferInv PROVE ImportRestores
<1> SUFFICES ASSUME NEW t \in Requests, Imported(t)
             PROVE  LET file == transfer[t].file
                        start == transfer[t].start
                    IN /\ \A s \in DOMAIN file : \A k \in DOMAIN file[s] :
                             k \in DOMAIN store[s] /\ ReadsAs(s, file[s][k], store[s][k])
                       /\ "fraudRules" \in DOMAIN file => DOMAIN store["fraudRules"] = DOMAIN file["fraudRules"]
                       /\ \A s \in Sections : \A k \in DOMAIN start[s] :
                             IF k \notin Rows(file, s)
                             THEN (s = "fraudRules" /\ s \in DOMAIN file) \/ store[s][k] = start[s][k]
                             ELSE s # "fraudRules" => Keeps(s, start[s][k], file[s][k], store[s][k])
  BY DEF ImportRestores
<1> DEFINE r == transfer[t]
           file == r.file
           start == r.start
<1>1. r.at \in {"after", "done"} /\ r.alone BY DEF Imported
<1>2. FilesFit(r) /\ Progress(r, store) BY RequestSoFar
<1>3. DOMAIN file \subseteq Sections BY <1>1, <1>2 DEF FilesFit, Imports
<1>4. \A s \in Sections : SectionFits(s, r, store[s]) BY <1>1, <1>2 DEF Progress, Imports
<1>5. \A s \in Sections : s \in Past(r.at) /\ Wrote(s, r) = Rows(file, s) BY <1>1 DEF Past, Wrote
<1>6. "fraudRules" \in DOMAIN file => store["fraudRules"] = file["fraudRules"]
  BY <1>3, <1>4, <1>5 DEF SectionFits
<1>7. \A s \in Sections : ~(s = "fraudRules" /\ s \in DOMAIN file) =>
          SectionReads(s, file[s], start[s], Rows(file, s), store[s])
  BY <1>4, <1>5 DEF SectionFits
<1> HIDE DEF r, file, start
<1>8. ASSUME NEW s \in DOMAIN file, NEW k \in DOMAIN file[s]
      PROVE  k \in DOMAIN store[s] /\ ReadsAs(s, file[s][k], store[s][k])
  <2>1. CASE s = "fraudRules" BY <1>6, <2>1 DEF ReadsAs
  <2>2. CASE s # "fraudRules"
    <3>1. SectionReads(s, file[s], start[s], Rows(file, s), store[s]) BY <1>3, <1>7, <2>2
    <3> QED BY <3>1 DEF SectionReads, Rows
  <2> QED BY <2>1, <2>2
<1>9. ASSUME NEW s \in Sections, NEW k \in DOMAIN start[s], ~(s = "fraudRules" /\ s \in DOMAIN file)
      PROVE  IF k \notin Rows(file, s) THEN store[s][k] = start[s][k]
             ELSE Keeps(s, start[s][k], file[s][k], store[s][k])
  BY <1>7, <1>9 DEF SectionReads
<1>10. \A s \in Sections : \A k \in DOMAIN start[s] :
          IF k \notin Rows(file, s)
          THEN (s = "fraudRules" /\ s \in DOMAIN file) \/ store[s][k] = start[s][k]
          ELSE s # "fraudRules" => Keeps(s, start[s][k], file[s][k], store[s][k])
  BY <1>9 DEF Rows
<1> QED BY <1>6, <1>8, <1>10 DEF file, start, r

\* An import that ended undisturbed left what its file says over what was there, and the storefront is told
\* of every write, whatever the file, the shop and the other requests (transfer/service.ts importSettings).
THEOREM TransferHolds == TransferSpec => []TransferIsFaithful
<1>1. TransferInv => TransferIsFaithful
  BY ImportDoesRestore DEF TransferIsFaithful, TransferInv, StaleFits, StaleWhileWriting, Writing
<1> QED BY <1>1, TransferStarts, TransferInductive, PTL DEF TransferSpec

-----------------------------------------------------------------------------
(* The queue                                                                *)

\* Why it is so: a running processor holds the lock of its job.
RunHoldsLock ==
  ~Steals => \A w \in Workers :
    running[w] # Null => owner[running[w]] = w /\ jobState[running[w]] = "active"

\* A job that may still run has an attempt left.
AttemptsLeft ==
  \A j \in Jobs : jobState[j] \in {"waiting", "active"} => attemptsMade[j] < MaxAttempts

QueueInv == QueueTypeOK /\ LocksAreOnActiveJobs /\ RunHoldsLock /\ AttemptsLeft

\* The initial queue satisfies the invariant.
LEMMA QueueInvInit == QueueInit => QueueInv
  BY QueueAssumption
     DEF QueueInit, QueueInv, QueueTypeOK, LocksAreOnActiveJobs, RunHoldsLock, AttemptsLeft, JobStates

\* Adding a job under an id.
LEMMA AddKeepsQueueInv ==
  ASSUME QueueInv, NEW j \in Jobs, Add(j)
  PROVE  QueueInv'
<1>1. QueueTypeOK'
  BY QueueAssumption DEF QueueInv, QueueTypeOK, JobStates, Add
<1>2. LocksAreOnActiveJobs'
  BY DEF QueueInv, QueueTypeOK, LocksAreOnActiveJobs, Add
<1>3. RunHoldsLock'
  BY DEF QueueInv, QueueTypeOK, RunHoldsLock, Add
<1>4. AttemptsLeft'
  BY QueueAssumption DEF QueueInv, QueueTypeOK, AttemptsLeft, Add
<1> QED
  BY <1>1, <1>2, <1>3, <1>4 DEF QueueInv

\* A worker takes a job: nobody was running it, for it was not active.
LEMMA TakeKeepsQueueInv ==
  ASSUME QueueInv, NEW w \in Workers, NEW j \in Jobs, Take(w, j)
  PROVE  QueueInv'
<1>1. QueueTypeOK'
  BY DEF QueueInv, QueueTypeOK, JobStates, Take
<1>2. LocksAreOnActiveJobs'
  BY DEF QueueInv, QueueTypeOK, LocksAreOnActiveJobs, Take
<1>3. RunHoldsLock'
  BY QueueAssumption DEF QueueInv, QueueTypeOK, RunHoldsLock, Take
<1>4. AttemptsLeft'
  BY DEF QueueInv, QueueTypeOK, AttemptsLeft, Take
<1> QED
  BY <1>1, <1>2, <1>3, <1>4 DEF QueueInv

\* A run that ends moves the one job it held, if it held it.
LEMMA EndRunKeepsLocks ==
  ASSUME QueueInv, NEW w \in Workers, NEW s \in JobStates, s # "active",
         running[w] # Null, EndRun(w, s)
  PROVE  /\ jobState' \in [Jobs -> JobStates]
         /\ owner' \in [Jobs -> Workers \cup {Null}]
         /\ running' \in [Workers -> Jobs \cup {Null}]
         /\ LocksAreOnActiveJobs' /\ RunHoldsLock'
<1>1. /\ jobState' \in [Jobs -> JobStates]
      /\ owner' \in [Jobs -> Workers \cup {Null}]
      /\ running' \in [Workers -> Jobs \cup {Null}]
  BY DEF QueueInv, QueueTypeOK, EndRun, Holds
<1>2. LocksAreOnActiveJobs'
  BY QueueAssumption DEF QueueInv, QueueTypeOK, LocksAreOnActiveJobs, EndRun, Holds
<1>3. RunHoldsLock'
  BY QueueAssumption DEF QueueInv, QueueTypeOK, RunHoldsLock, EndRun, Holds
<1> QED
  BY <1>1, <1>2, <1>3

\* A processor returns.
LEMMA ReturnKeepsQueueInv ==
  ASSUME QueueInv, NEW w \in Workers, Return(w)
  PROVE  QueueInv'
<1>1. QueueTypeOK' /\ LocksAreOnActiveJobs' /\ RunHoldsLock'
  BY EndRunKeepsLocks DEF QueueInv, QueueTypeOK, Return, JobStates
<1>2. AttemptsLeft'
  BY DEF QueueInv, QueueTypeOK, AttemptsLeft, Return, EndRun, Holds
<1> QED
  BY <1>1, <1>2 DEF QueueInv

\* A processor throws: the attempt counts only if the run held the lock, and
\* then one was left.
LEMMA ThrowKeepsQueueInv ==
  ASSUME QueueInv, NEW w \in Workers, Throw(w)
  PROVE  QueueInv'
<1> DEFINE j == running[w]
<1>1. j \in Jobs
  BY DEF Throw, QueueInv, QueueTypeOK
<1>2. PICK s \in {"failed", "waiting"} :
        EndRun(w, s) /\ s = IF LastAttempt(j) THEN "failed" ELSE "waiting"
  BY DEF Throw
<1>3. /\ jobState' \in [Jobs -> JobStates]
      /\ owner' \in [Jobs -> Workers \cup {Null}]
      /\ running' \in [Workers -> Jobs \cup {Null}]
      /\ LocksAreOnActiveJobs' /\ RunHoldsLock'
  BY <1>2, EndRunKeepsLocks DEF Throw, JobStates
<1>4. CASE Holds(w)
  <2>1. attemptsMade[j] < MaxAttempts
    BY <1>1, <1>4 DEF Holds, QueueInv, AttemptsLeft
  <2>2. attemptsMade' = [attemptsMade EXCEPT ![j] = @ + 1]
    BY <1>4 DEF Throw
  <2>3. QueueTypeOK'
    <3>1. attemptsMade[j] + 1 \in 0..MaxAttempts
      BY <1>1, <2>1, QueueAssumption DEF QueueInv, QueueTypeOK
    <3>2. attemptsMade' \in [Jobs -> 0..MaxAttempts]
      BY <2>2, <3>1 DEF QueueInv, QueueTypeOK
    <3>3. stalls' = stalls
      BY DEF Throw
    <3> QED
      BY <1>3, <3>2, <3>3 DEF QueueInv, QueueTypeOK
  <2>4. jobState' = [jobState EXCEPT ![j] = s]
    BY <1>2, <1>4 DEF EndRun
  <2>5. AttemptsLeft'
    BY <1>1, <1>2, <2>1, <2>2, <2>4, QueueAssumption
       DEF QueueInv, QueueTypeOK, AttemptsLeft, LastAttempt
  <2> QED
    BY <1>3, <2>3, <2>5 DEF QueueInv
<1>5. CASE ~Holds(w)
  <2>1. UNCHANGED <<jobState, attemptsMade>>
    BY <1>2, <1>5 DEF Throw, EndRun, QueueInv, QueueTypeOK
  <2> QED
    BY <1>3, <2>1 DEF QueueInv, QueueTypeOK, AttemptsLeft, Throw
<1> QED
  BY <1>4, <1>5

\* A process dies: it runs nothing, and its job keeps its lock.
LEMMA DieKeepsQueueInv ==
  ASSUME QueueInv, NEW w \in Workers, Die(w)
  PROVE  QueueInv'
  BY QueueAssumption
     DEF QueueInv, QueueTypeOK, LocksAreOnActiveJobs, RunHoldsLock, AttemptsLeft, Die

\* The stall check takes back a job that no processor is running.
LEMMA StallKeepsQueueInv ==
  ASSUME QueueInv, NEW j \in Jobs, Stall(j)
  PROVE  QueueInv'
<1>1. QueueTypeOK'
  BY QueueAssumption DEF QueueInv, QueueTypeOK, JobStates, Stall
<1>2. LocksAreOnActiveJobs'
  BY DEF QueueInv, QueueTypeOK, LocksAreOnActiveJobs, Stall
<1>3. RunHoldsLock'
  BY QueueAssumption DEF QueueInv, QueueTypeOK, RunHoldsLock, Stall, Abandoned
<1>4. AttemptsLeft'
  BY DEF QueueInv, QueueTypeOK, AttemptsLeft, Stall
<1> QED
  BY <1>1, <1>2, <1>3, <1>4 DEF QueueInv

\* A finished job's id is freed; nobody holds or runs it.
LEMMA ExpireKeepsQueueInv ==
  ASSUME QueueInv, NEW j \in Jobs, Expire(j)
  PROVE  QueueInv'
  BY DEF QueueInv, QueueTypeOK, JobStates, LocksAreOnActiveJobs, RunHoldsLock,
         AttemptsLeft, Expire

\* Every step of the queue keeps the invariant.
LEMMA QueueInvStep == QueueInv /\ [QueueNext]_jobVars => QueueInv'
<1> SUFFICES ASSUME QueueInv, [QueueNext]_jobVars PROVE QueueInv'
  OBVIOUS
<1>1. CASE UNCHANGED jobVars
  BY <1>1 DEF jobVars, QueueInv, QueueTypeOK, LocksAreOnActiveJobs, RunHoldsLock, AttemptsLeft
<1>2. CASE QueueNext
  BY <1>2, AddKeepsQueueInv, StallKeepsQueueInv, ExpireKeepsQueueInv, TakeKeepsQueueInv,
     ReturnKeepsQueueInv, ThrowKeepsQueueInv, DieKeepsQueueInv DEF QueueNext
<1> QED
  BY <1>1, <1>2

\* The invariant is what the properties need.
LEMMA QueueInvGives == QueueInv => OneRunPerJob /\ QueueTypeOK /\ LocksAreOnActiveJobs
  BY DEF QueueInv, RunHoldsLock, OneRunPerJob, QueueTypeOK

\* worker.ts, stalledInterval: "Too low and a slow-but-healthy job is stolen by
\* another worker and runs twice": if that does not happen, a job never runs
\* twice at once, its lock is only on it while it is active, and its counters
\* stay within attempts and maxStalledCount.
THEOREM QueueIsExclusive ==
  QueueSpec => [](OneRunPerJob /\ LocksAreOnActiveJobs /\ QueueTypeOK)
<1>1. QueueSpec => []QueueInv
  BY QueueInvInit, QueueInvStep, PTL DEF QueueSpec
<1> QED
  BY <1>1, QueueInvGives, PTL
-----------------------------------------------------------------------------
(* The sync is a client of the queue                                        *)

USE DEF jobVars, orderVars, configVars, googleVars, runVars

\* Every step of the sync is a step of the queue, or none.
LEMMA StepIsQueueStep == [Next]_vars => [QueueNext]_jobVars
<1> SUFFICES ASSUME [Next]_vars PROVE [QueueNext]_jobVars
  OBVIOUS
<1>1. CASE UNCHANGED vars
  BY <1>1 DEF vars
<1>2. CASE Merchant
  BY <1>2 DEF Merchant, CollectBacklog, RevokeGrant, Connect, Disconnect, UpdateSettings,
              Unshare, SelectSheet, Apart
<1>3. ASSUME NEW o \in Jobs,
             EnqueueSheetSync(o) \/ EnqueueBacklog(o) \/ StallCheck(o) \/ RemoveJob(o)
      PROVE  [QueueNext]_jobVars
  BY <1>3 DEF EnqueueSheetSync, EnqueueBacklog, StallCheck, RemoveJob, QueueNext
<1>4. ASSUME NEW w \in Workers, (\E o \in Jobs : Start(w, o)) \/ Finish(w) \/ Crash(w)
      PROVE  [QueueNext]_jobVars
  BY <1>4 DEF Start, Finish, Crash, QueueNext
<1>5. ASSUME NEW w \in Workers, Run(w), ~Finish(w)
      PROVE  [QueueNext]_jobVars
  BY <1>5 DEF Run, ReadConfig, MarkSkipped, MarkInProgress, AccessToken, AppendRow,
              OpenRow, FillRow, MarkSuccess, RecordSuccess, MarkFailed, Deactivate
<1> QED
  BY <1>1, <1>2, <1>3, <1>4, <1>5 DEF Next

\* syncOrder is a client of the queue: its runs take, end, lose and retry jobs
\* only as the queue does.
THEOREM SyncUsesQueue == Spec => QueueSpec
<1>1. Init => QueueInit
  BY DEF Init
<1> QED
  BY <1>1, StepIsQueueStep, PTL DEF Spec, QueueSpec

\* Hence one run per order at a time, unless a live run's lock is stolen.
THEOREM SyncRunsOnce == Spec => []OneRunPerJob
  BY SyncUsesQueue, QueueIsExclusive, PTL

-----------------------------------------------------------------------------
(* RowTypes                                                                    *)

RowTypes == QueueInv /\ SyncTypeOK

LEMMA TypesInit == Init => RowTypes
  BY QueueInvInit, SheetAssumption DEF Init, RowTypes, SyncTypeOK, Status, Step, QueueInit

\* What the merchant and Google do stays within its bound.
LEMMA ActIsBounded ==
  ASSUME RowTypes, Act
  PROVE  acts' \in 0..MaxActs /\ configId < acts' /\ configId + 1 \in 0..MaxActs
  BY SheetAssumption DEF Act, RowTypes, SyncTypeOK

\* They leave the runs and the backlog alone.
LEMMA ApartKeepsTypes ==
  ASSUME RowTypes, Apart
  PROVE  /\ status' \in [Jobs -> Status] /\ pushed' \in SUBSET Jobs
         /\ pc' \in [Workers -> Step] /\ using' \in [Workers -> Sheets \cup {Null}]
         /\ usingId' \in [Workers -> 0..MaxActs]
         /\ \A w \in Workers : (pc[w] = "idle" <=> running[w] = Null)'
         /\ backlog' \in SUBSET Jobs
  BY DEF Apart, RowTypes, SyncTypeOK

\* The merchant and Google.
LEMMA MerchantKeepsTypes ==
  ASSUME RowTypes, Merchant
  PROVE  SyncTypeOK'
<1>1. CASE CollectBacklog
  <2>1. Act
    BY <1>1 DEF CollectBacklog, Act
  <2> QED
    BY <1>1, <2>1, ActIsBounded DEF CollectBacklog, Unsynced, RowTypes, SyncTypeOK
<1>2. CASE RevokeGrant \/ Connect \/ UpdateSettings \/ Disconnect
  <2>1. Act /\ Apart
    BY <1>2 DEF RevokeGrant, Connect, UpdateSettings, Disconnect
  <2>2. /\ target' \in Sheets \cup {Null} /\ active' \in BOOLEAN /\ autoSync' \in BOOLEAN
        /\ account' \in {"none", "connected", "revoked"} /\ granted' \in BOOLEAN
        /\ configId' \in {configId, configId + 1}
        /\ reachable' = reachable /\ rows' = rows
    BY <1>2 DEF RevokeGrant, Connect, UpdateSettings, Disconnect, RowTypes, SyncTypeOK
  <2>3. configId' \in 0..MaxActs /\ configId' <= acts'
    BY <2>1, <2>2, ActIsBounded, SheetAssumption DEF RowTypes, SyncTypeOK
  <2> QED
    BY <2>1, <2>2, <2>3, ActIsBounded, ApartKeepsTypes DEF RowTypes, SyncTypeOK
<1>3. ASSUME NEW s \in Sheets, Unshare(s) \/ SelectSheet(s) PROVE SyncTypeOK'
  <2>1. Act /\ Apart
    BY <1>3 DEF Unshare, SelectSheet
  <2>2. /\ target' \in Sheets \cup {Null} /\ active' \in BOOLEAN
        /\ UNCHANGED <<configId, autoSync, account, granted, rows>>
        /\ reachable' \in SUBSET Sheets
    BY <1>3 DEF Unshare, SelectSheet, RowTypes, SyncTypeOK
  <2> QED
    BY <2>1, <2>2, ActIsBounded, ApartKeepsTypes, SheetAssumption DEF RowTypes, SyncTypeOK
<1> QED
  BY <1>1, <1>2, <1>3 DEF Merchant

\* Enqueueing, and the queue's own steps.
LEMMA QueueKeepsTypes ==
  ASSUME RowTypes, NEW o \in Jobs,
         EnqueueSheetSync(o) \/ EnqueueBacklog(o) \/ StallCheck(o) \/ RemoveJob(o)
  PROVE  SyncTypeOK'
<1>1. CASE EnqueueSheetSync(o)
  BY <1>1 DEF EnqueueSheetSync, Add, RowTypes, SyncTypeOK
<1>2. CASE EnqueueBacklog(o)
  BY <1>2 DEF EnqueueBacklog, Add, RowTypes, SyncTypeOK
<1>3. CASE StallCheck(o) \/ RemoveJob(o)
  BY <1>3 DEF StallCheck, Stall, RemoveJob, Expire, RowTypes, SyncTypeOK
<1> QED
  BY <1>1, <1>2, <1>3

\* A run begins, ends, or dies.
LEMMA RunEndsKeepTypes ==
  ASSUME RowTypes, NEW w \in Workers, (\E o \in Jobs : Start(w, o)) \/ Finish(w) \/ Crash(w)
  PROVE  SyncTypeOK'
<1>1. ASSUME NEW o \in Jobs, Start(w, o) PROVE SyncTypeOK'
  BY <1>1, QueueAssumption
     DEF Start, Take, Goto, RowTypes, QueueInv, QueueTypeOK, SyncTypeOK, Step
<1>2. CASE Finish(w)
  BY <1>2, SheetAssumption
     DEF Finish, Return, Throw, EndRun, Leave, OutsideRun, RowTypes, QueueInv, QueueTypeOK,
         SyncTypeOK, Step
<1>3. CASE Crash(w)
  BY <1>3, SheetAssumption
     DEF Crash, Die, Leave, OutsideRun, RowTypes, QueueInv, QueueTypeOK, SyncTypeOK, Step
<1> QED
  BY <1>1, <1>2, <1>3

\* A run that moves to another of its steps.
LEMMA GotoKeepsTypes ==
  ASSUME RowTypes, NEW w \in Workers, NEW s \in Step \ {"idle"}, pc[w] # "idle", Goto(w, s),
         running' = running
  PROVE  /\ pc' \in [Workers -> Step] /\ using' \in [Workers -> Sheets \cup {Null}]
         /\ usingId' \in [Workers -> 0..MaxActs]
         /\ \A v \in Workers : (pc[v] = "idle" <=> running[v] = Null)'
  BY DEF Goto, RowTypes, SyncTypeOK

\* A request writes a sequence of rows into the run's spreadsheet, if it does.
LEMMA RequestKeepsTypes ==
  ASSUME RowTypes, NEW w \in Workers, NEW effect, NEW next \in Step \ {"idle"},
         using[w] \in Sheets => effect \in Seq(Jobs \cup {Blank}),
         Request(w, effect, next)
  PROVE  /\ rows' \in [Sheets -> Seq(Jobs \cup {Blank})]
         /\ \E s \in Step \ {"idle"} : Goto(w, s)
  BY DEF Request, RowTypes, SyncTypeOK, Step

\* What the top row is replaced by, the other rows stay.
LEMMA ReplaceTop ==
  ASSUME NEW S, NEW s \in Seq(S), NEW e \in S
  PROVE  [s EXCEPT ![1] = e] \in Seq(S)
<1>1. CASE Len(s) # 0
  <2>1. 1 \in 1..Len(s)
    BY <1>1
  <2> QED
    BY <2>1, ExceptSeq
<1>2. CASE Len(s) = 0
  <2>1. s \in [1..Len(s) -> S] /\ 1 \notin 1..Len(s)
    BY <1>2
  <2>2. [s EXCEPT ![1] = e] = s
    BY <2>1, Zenon
  <2> QED
    BY <2>2
<1> QED
  BY <1>1, <1>2

\* The steps of a run other than its end.
Middle(w) ==
  \/ ReadConfig(w) \/ MarkSkipped(w) \/ MarkInProgress(w) \/ AccessToken(w)
  \/ AppendRow(w) \/ OpenRow(w) \/ FillRow(w)
  \/ MarkSuccess(w) \/ RecordSuccess(w) \/ MarkFailed(w) \/ Deactivate(w)

LEMMA MiddleKeepsTypes ==
  ASSUME RowTypes, NEW w \in Workers, Middle(w)
  PROVE  SyncTypeOK'
<1>1. CASE ReadConfig(w)
  <2>1. /\ pc[w] = "config" /\ UNCHANGED <<jobVars, orderVars>> /\ OutsideRun
        /\ \/ Goto(w, "skip")
           \/ /\ pc' = [pc EXCEPT ![w] = "mark"]
              /\ using' = [using EXCEPT ![w] = target]
              /\ usingId' = [usingId EXCEPT ![w] = configId]
    BY <1>1 DEF ReadConfig, At
  <2>2. /\ pc \in [Workers -> Step] /\ using \in [Workers -> Sheets \cup {Null}]
        /\ usingId \in [Workers -> 0..MaxActs]
        /\ target \in Sheets \cup {Null} /\ configId \in 0..MaxActs
    BY DEF RowTypes, SyncTypeOK
  <2>3. "mark" \in Step /\ "skip" \in Step BY DEF Step
  <2>4. /\ pc' \in [Workers -> Step] /\ using' \in [Workers -> Sheets \cup {Null}]
        /\ usingId' \in [Workers -> 0..MaxActs]
        /\ pc' = [pc EXCEPT ![w] = pc'[w]] /\ pc'[w] # "idle"
    BY <2>1, <2>2, <2>3 DEF Goto
  <2>5. \A v \in Workers : pc'[v] = "idle" <=> running'[v] = Null
    BY <2>1, <2>2, <2>4 DEF RowTypes, SyncTypeOK, jobVars
  <2> QED
    BY <2>1, <2>4, <2>5 DEF OutsideRun, orderVars, configVars, googleVars, RowTypes, SyncTypeOK
<1>2. CASE MarkSkipped(w) \/ MarkInProgress(w) \/ MarkSuccess(w) \/ RecordSuccess(w)
           \/ MarkFailed(w)
  <2>1. /\ \E s \in Step \ {"idle"} : Goto(w, s)
        /\ pc[w] # "idle" /\ UNCHANGED jobVars /\ OutsideRun
    BY <1>2 DEF MarkSkipped, MarkInProgress, MarkSuccess, RecordSuccess, MarkFailed, At,
                FirstWrite, Step
  <2>2. status' \in [Jobs -> Status] /\ pushed' = pushed
    BY <1>2 DEF MarkSkipped, MarkInProgress, MarkSuccess, RecordSuccess, MarkFailed, Mark,
                Order, RowTypes, SyncTypeOK, Status
  <2> QED
    BY <2>1, <2>2, GotoKeepsTypes DEF OutsideRun, RowTypes, SyncTypeOK
<1>3. CASE AccessToken(w) \/ Deactivate(w)
  <2>1. /\ \E s \in Step \ {"idle"} : Goto(w, s)
        /\ pc[w] # "idle" /\ UNCHANGED <<jobVars, orderVars, googleVars, backlog, acts>>
    BY <1>3 DEF AccessToken, Deactivate, At, FirstWrite, Step
  <2>2. /\ account' \in {"none", "connected", "revoked"} /\ active' \in BOOLEAN
        /\ UNCHANGED <<target, configId, autoSync>>
    BY <1>3 DEF AccessToken, Deactivate, RowTypes, SyncTypeOK
  <2> QED
    BY <2>1, <2>2, GotoKeepsTypes DEF RowTypes, SyncTypeOK
<1>4. ASSUME \/ AppendRow(w) \/ OpenRow(w) \/ FillRow(w)
      PROVE  SyncTypeOK'
  <2>1. /\ pc[w] # "idle" /\ Order(w) \in Jobs
        /\ UNCHANGED <<jobVars, orderVars, configVars, granted, reachable, backlog, acts>>
    BY <1>4 DEF AppendRow, OpenRow, FillRow, At, Order, RowTypes, QueueInv, QueueTypeOK, SyncTypeOK
  <2>2. /\ rows' \in [Sheets -> Seq(Jobs \cup {Blank})]
        /\ \E s \in Step \ {"idle"} : Goto(w, s)
    <3>1. using[w] \in Sheets => rows[using[w]] \in Seq(Jobs \cup {Blank})
      BY DEF RowTypes, SyncTypeOK
    <3>2. CASE AppendRow(w)
      <4>1. using[w] \in Sheets => Append(rows[using[w]], Order(w)) \in Seq(Jobs \cup {Blank})
        BY <2>1, <3>1
      <4> QED
        BY <3>2, <4>1, RequestKeepsTypes DEF AppendRow, Step
    <3>3. CASE OpenRow(w)
      <4>1. using[w] \in Sheets => <<Blank>> \o rows[using[w]] \in Seq(Jobs \cup {Blank})
        BY <3>1
      <4> QED
        BY <3>3, <4>1, RequestKeepsTypes DEF OpenRow, Step
    <3>4. CASE FillRow(w)
      <4>1. using[w] \in Sheets =>
              [rows[using[w]] EXCEPT ![1] = Order(w)] \in Seq(Jobs \cup {Blank})
        BY <2>1, <3>1, ReplaceTop
      <4> QED
        BY <3>4, <4>1, RequestKeepsTypes DEF FillRow, Step
    <3> QED
      BY <1>4, <3>2, <3>3, <3>4
  <2> QED
    BY <2>1, <2>2, GotoKeepsTypes DEF RowTypes, SyncTypeOK
<1> QED
  BY <1>1, <1>2, <1>3, <1>4 DEF Middle

\* The invariant of the types is inductive.
LEMMA TypesStep == RowTypes /\ [Next]_vars => RowTypes'
<1> SUFFICES ASSUME RowTypes, [Next]_vars PROVE RowTypes'
  OBVIOUS
<1>1. QueueInv'
  BY StepIsQueueStep, QueueInvStep DEF RowTypes
<1>2. CASE UNCHANGED vars
  BY <1>2, <1>1 DEF vars, RowTypes, SyncTypeOK
<1>3. CASE Merchant
  BY <1>1, <1>3, MerchantKeepsTypes DEF RowTypes
<1>4. ASSUME NEW w \in Workers, Run(w) PROVE RowTypes'
  BY <1>1, <1>4, MiddleKeepsTypes, RunEndsKeepTypes DEF Run, Middle, RowTypes
<1> QED
  BY <1>1, <1>2, <1>3, <1>4, QueueKeepsTypes, RunEndsKeepTypes DEF Next, RowTypes

\* Every variable of the sync keeps its type.
THEOREM SheetTypes == Spec => []TypeOK
<1>1. RowTypes => TypeOK
  BY DEF RowTypes, QueueInv, TypeOK
<1> QED
  BY <1>1, TypesInit, TypesStep, PTL DEF Spec

-----------------------------------------------------------------------------
(* What a write does to the rows                                            *)

Has(r, o) == \E s \in Sheets : \E i \in DOMAIN r[s] : r[s][i] = o
AtMostOnce(r, o) ==
  \A s, t \in Sheets : \A i \in DOMAIN r[s], j \in DOMAIN r[t] :
    r[s][i] = o /\ r[t][j] = o => s = t /\ i = j

\* A write puts x somewhere, and the other rows are as they were, all lower by one or none.
Puts(s, new, x) ==
  /\ DOMAIN new \subseteq Nat
  /\ \E n \in 0..1, k \in Nat : \A i \in DOMAIN new :
       \/ i = k /\ new[i] = x
       \/ i # k /\ i - n \in DOMAIN s /\ new[i] = s[i - n]

\* It leaves every order there is.
KeepsOrders(s, new) == \A i \in DOMAIN s : s[i] # Blank => \E j \in DOMAIN new : new[j] = s[i]

LEMMA AppendPuts ==
  ASSUME NEW s \in Seq(Jobs \cup {Blank}), NEW e \in Jobs
  PROVE  /\ Puts(s, Append(s, e), e) /\ KeepsOrders(s, Append(s, e))
         /\ \E i \in DOMAIN Append(s, e) : Append(s, e)[i] = e
<1>1. /\ DOMAIN s = 1..Len(s) /\ DOMAIN Append(s, e) = 1..(Len(s) + 1) /\ Len(s) \in Nat
      /\ Append(s, e)[Len(s) + 1] = e
      /\ \A i \in 1..Len(s) : Append(s, e)[i] = s[i]
  OBVIOUS
<1> DEFINE new == Append(s, e)
<1> HIDE DEF new
<1>2. \A i \in DOMAIN new : \/ i = Len(s) + 1 /\ new[i] = e
                            \/ i # Len(s) + 1 /\ i - 0 \in DOMAIN s /\ new[i] = s[i - 0]
  BY <1>1 DEF new
<1>3. 0 \in 0..1 /\ Len(s) + 1 \in Nat /\ Len(s) + 1 \in DOMAIN new
  BY <1>1 DEF new
<1>4. Puts(s, new, e)
  <2>1. DOMAIN new \subseteq Nat
    BY <1>1 DEF new
  <2> QED
    BY <1>2, <1>3, <2>1 DEF Puts
<1>5. \A i \in DOMAIN s : i \in DOMAIN new /\ new[i] = s[i]
  BY <1>1 DEF new
<1>6. KeepsOrders(s, new)
  BY <1>5 DEF KeepsOrders
<1>7. \E i \in DOMAIN new : new[i] = e
  BY <1>1, <1>3 DEF new
<1> QED
  BY <1>4, <1>6, <1>7 DEF new

LEMMA OpenPuts ==
  ASSUME NEW s \in Seq(Jobs \cup {Blank})
  PROVE  /\ Puts(s, <<Blank>> \o s, Blank) /\ KeepsOrders(s, <<Blank>> \o s)
         /\ <<Blank>> \o s # <<>> /\ (<<Blank>> \o s)[1] = Blank
<1> DEFINE new == <<Blank>> \o s
<1>1. /\ DOMAIN s = 1..Len(s) /\ Len(s) \in Nat /\ DOMAIN new = 1..(Len(s) + 1)
      /\ new[1] = Blank /\ \A i \in 2..(Len(s) + 1) : new[i] = s[i - 1]
  OBVIOUS
<1>2. new # <<>>
  OBVIOUS
<1> HIDE DEF new
<1>3. \A i \in DOMAIN new : \/ i = 1 /\ new[i] = Blank
                            \/ i # 1 /\ i - 1 \in DOMAIN s /\ new[i] = s[i - 1]
  BY <1>1
<1>4. Puts(s, new, Blank)
  <2>1. 1 \in 0..1 /\ 1 \in Nat
    OBVIOUS
  <2> QED
    BY <1>1, <1>3, <2>1 DEF Puts
<1>5. \A i \in DOMAIN s : i + 1 \in DOMAIN new /\ new[i + 1] = s[i]
  BY <1>1
<1>6. KeepsOrders(s, new)
  BY <1>5 DEF KeepsOrders
<1> QED
  BY <1>1, <1>2, <1>4, <1>6 DEF new

LEMMA FillPuts ==
  ASSUME NEW s \in Seq(Jobs \cup {Blank}), NEW e \in Jobs
  PROVE  /\ Puts(s, [s EXCEPT ![1] = e], e)
         /\ s # <<>> /\ s[1] = Blank =>
              /\ KeepsOrders(s, [s EXCEPT ![1] = e])
              /\ \E i \in DOMAIN [s EXCEPT ![1] = e] : [s EXCEPT ![1] = e][i] = e
<1> DEFINE new == [s EXCEPT ![1] = e]
<1>1. /\ DOMAIN s = 1..Len(s) /\ Len(s) \in Nat /\ DOMAIN new = DOMAIN s
      /\ \A i \in DOMAIN s : new[i] = IF i = 1 THEN e ELSE s[i]
  OBVIOUS
<1>2. s # <<>> => 1 \in DOMAIN s
  OBVIOUS
<1> HIDE DEF new
<1>3. \A i \in DOMAIN new : \/ i = 1 /\ new[i] = e
                            \/ i # 1 /\ i - 0 \in DOMAIN s /\ new[i] = s[i - 0]
  BY <1>1
<1>4. Puts(s, new, e)
  <2>1. 0 \in 0..1 /\ 1 \in Nat
    OBVIOUS
  <2>2. DOMAIN new \subseteq Nat
    BY <1>1
  <2>3. \E n \in 0..1, k \in Nat : \A i \in DOMAIN new :
          \/ i = k /\ new[i] = e
          \/ i # k /\ i - n \in DOMAIN s /\ new[i] = s[i - n]
    BY <1>3, <2>1, Zenon
  <2> QED
    BY <2>2, <2>3 DEF Puts
<1>5. ASSUME s # <<>>, s[1] = Blank
      PROVE  KeepsOrders(s, new) /\ \E i \in DOMAIN new : new[i] = e
  BY <1>1, <1>2, <1>5 DEF KeepsOrders
<1> QED
  BY <1>4, <1>5 DEF new

\* The rows of an order that a write does not put are at most as many as before; one that
\* had none has one.
LEMMA PutsOnce ==
  ASSUME NEW r \in [Sheets -> Seq(Jobs \cup {Blank})], NEW t \in Sheets, NEW new, NEW x,
         Puts(r[t], new, x), NEW o
  PROVE  LET now == [r EXCEPT ![t] = new]
         IN /\ o # x /\ AtMostOnce(r, o) => AtMostOnce(now, o) /\ (Has(now, o) => Has(r, o))
            /\ o = x /\ ~Has(r, o) => AtMostOnce(now, o)
<1> DEFINE now == [r EXCEPT ![t] = new]
<1>1. now[t] = new /\ \A s \in Sheets \ {t} : now[s] = r[s]
  OBVIOUS
<1> HIDE DEF now
<1>2. PICK n \in 0..1, k \in Nat : \A i \in DOMAIN new :
        \/ i = k /\ new[i] = x
        \/ i # k /\ i - n \in DOMAIN r[t] /\ new[i] = r[t][i - n]
  BY DEF Puts
<1>3. ASSUME o # x, AtMostOnce(r, o)
      PROVE  AtMostOnce(now, o) /\ (Has(now, o) => Has(r, o))
  <2>1. \A i \in DOMAIN new : new[i] = o => i - n \in DOMAIN r[t] /\ r[t][i - n] = o
    BY <1>2, <1>3
  <2>2. Has(now, o) => Has(r, o)
    BY <1>1, <2>1 DEF Has
  <2>3. \A i, j \in DOMAIN new : i - n = j - n /\ i - n \in DOMAIN r[t] => i = j
    <3>1. \A i \in DOMAIN new : i \in Nat
      BY DEF Puts
    <3> QED
      BY <3>1
  <2>4. AtMostOnce(now, o)
    BY <1>1, <1>3, <2>1, <2>3 DEF AtMostOnce
  <2> QED
    BY <2>2, <2>4
<1>4. ASSUME o = x, ~Has(r, o) PROVE AtMostOnce(now, o)
  <2>1. \A i \in DOMAIN new : new[i] = o => i = k
    BY <1>2, <1>4 DEF Has
  <2>2. \A s \in Sheets \ {t} : \A i \in DOMAIN now[s] : now[s][i] # o
    BY <1>1, <1>4 DEF Has
  <2> QED
    BY <1>1, <2>1, <2>2 DEF AtMostOnce
<1> QED
  BY <1>3, <1>4 DEF now

\* Only a run that writes touches a spreadsheet, and it puts one row into its own.
LEMMA OthersKeepRows ==
  ASSUME RowTypes, [Next]_vars, \A w \in Workers : ~AppendRow(w) /\ ~OpenRow(w) /\ ~FillRow(w)
  PROVE  rows' = rows
<1>1. CASE UNCHANGED vars
  BY <1>1 DEF vars
<1>2. CASE Merchant
  BY <1>2 DEF Merchant, CollectBacklog, RevokeGrant, Connect, Disconnect, UpdateSettings,
              Unshare, SelectSheet
<1>3. ASSUME NEW o \in Jobs,
             EnqueueSheetSync(o) \/ EnqueueBacklog(o) \/ StallCheck(o) \/ RemoveJob(o)
      PROVE  rows' = rows
  BY <1>3 DEF EnqueueSheetSync, EnqueueBacklog, StallCheck, RemoveJob
<1>4. ASSUME NEW w \in Workers, (\E o \in Jobs : Start(w, o)) \/ Crash(w) \/ Run(w)
      PROVE  rows' = rows
  BY <1>4 DEF Start, Crash, Run, Finish, ReadConfig, MarkSkipped, MarkInProgress,
              AccessToken, MarkSuccess, RecordSuccess, MarkFailed, Deactivate, OutsideRun
<1> QED
  BY <1>1, <1>2, <1>3, <1>4 DEF Next

\* What w puts into its spreadsheet, and where that takes it.
WritesAs(w, new, x, next) ==
  /\ using[w] \in Sheets /\ rows[using[w]] \in Seq(Jobs \cup {Blank}) /\ running[w] \in Jobs
  /\ rows' = [rows EXCEPT ![using[w]] = new] /\ Puts(rows[using[w]], new, x)
  /\ pc' = [pc EXCEPT ![w] = next] \/ (Outages /\ pc' = [pc EXCEPT ![w] = "failed"])
  /\ UNCHANGED <<jobVars, orderVars, configVars, using, usingId>>

\* The call to Google does something, and is answered or not.
Does(w) == rows' # rows \/ pc'[w] \in {"fill", "success"}

LEMMA AppendWrites ==
  ASSUME RowTypes, NEW w \in Workers, AppendRow(w), Does(w)
  PROVE  /\ At(w, "write")
         /\ WritesAs(w, Append(rows[using[w]], running[w]), running[w], "success")
<1> DEFINE t == using[w]
<1>1. /\ t \in reachable /\ rows' = [rows EXCEPT ![t] = Append(rows[t], running[w])]
      /\ Goto(w, "success") \/ (Outages /\ Goto(w, "failed"))
      /\ At(w, "write") /\ UNCHANGED <<jobVars, orderVars, configVars>>
  BY DEF AppendRow, Request, Order, Does, Goto, RowTypes, SyncTypeOK
<1>2. t \in Sheets /\ rows[t] \in Seq(Jobs \cup {Blank}) /\ running[w] \in Jobs
  BY <1>1 DEF At, RowTypes, QueueInv, QueueTypeOK, SyncTypeOK
<1> HIDE DEF t
<1>3. Puts(rows[t], Append(rows[t], running[w]), running[w])
  BY <1>2, AppendPuts
<1> DEFINE new == Append(rows[t], running[w])
<1>4. /\ t \in Sheets /\ rows[t] \in Seq(Jobs \cup {Blank}) /\ running[w] \in Jobs
      /\ rows' = [rows EXCEPT ![t] = new] /\ Puts(rows[t], new, running[w])
      /\ pc' = [pc EXCEPT ![w] = "success"] \/ (Outages /\ pc' = [pc EXCEPT ![w] = "failed"])
      /\ UNCHANGED <<jobVars, orderVars, configVars, using, usingId>>
  <2> HIDE DEF new
  <2>1. rows' = [rows EXCEPT ![t] = new] /\ Puts(rows[t], new, running[w])
    BY <1>1, <1>3 DEF new
  <2> QED
    BY <1>1, <1>2, <2>1 DEF Goto
<1> QED
  BY <1>1, <1>4, Zenon DEF WritesAs, t

LEMMA OpenWrites ==
  ASSUME RowTypes, NEW w \in Workers, OpenRow(w), Does(w)
  PROVE  At(w, "open") /\ WritesAs(w, <<Blank>> \o rows[using[w]], Blank, "fill")
<1> DEFINE t == using[w]
<1>1. /\ t \in reachable /\ rows' = [rows EXCEPT ![t] = <<Blank>> \o rows[t]]
      /\ Goto(w, "fill") \/ (Outages /\ Goto(w, "failed"))
      /\ At(w, "open") /\ UNCHANGED <<jobVars, orderVars, configVars>>
  BY DEF OpenRow, Request, Does, Goto, RowTypes, SyncTypeOK
<1>2. t \in Sheets /\ rows[t] \in Seq(Jobs \cup {Blank}) /\ running[w] \in Jobs
  BY <1>1 DEF At, RowTypes, QueueInv, QueueTypeOK, SyncTypeOK
<1> HIDE DEF t
<1>3. Puts(rows[t], <<Blank>> \o rows[t], Blank)
  BY <1>2, OpenPuts
<1> DEFINE new == <<Blank>> \o rows[t]
<1>4. /\ t \in Sheets /\ rows[t] \in Seq(Jobs \cup {Blank}) /\ running[w] \in Jobs
      /\ rows' = [rows EXCEPT ![t] = new] /\ Puts(rows[t], new, Blank)
      /\ pc' = [pc EXCEPT ![w] = "fill"] \/ (Outages /\ pc' = [pc EXCEPT ![w] = "failed"])
      /\ UNCHANGED <<jobVars, orderVars, configVars, using, usingId>>
  <2> HIDE DEF new
  <2>1. rows' = [rows EXCEPT ![t] = new] /\ Puts(rows[t], new, Blank)
    BY <1>1, <1>3 DEF new
  <2> QED
    BY <1>1, <1>2, <2>1 DEF Goto
<1> QED
  BY <1>1, <1>4, Zenon DEF WritesAs, t

LEMMA FillWrites ==
  ASSUME RowTypes, NEW w \in Workers, FillRow(w), Does(w)
  PROVE  /\ At(w, "fill")
         /\ WritesAs(w, [rows[using[w]] EXCEPT ![1] = running[w]], running[w], "success")
<1> DEFINE t == using[w]
<1>1. /\ t \in reachable /\ rows' = [rows EXCEPT ![t] = [rows[t] EXCEPT ![1] = running[w]]]
      /\ Goto(w, "success") \/ (Outages /\ Goto(w, "failed"))
      /\ At(w, "fill") /\ UNCHANGED <<jobVars, orderVars, configVars>>
  BY DEF FillRow, Request, Order, Does, Goto, RowTypes, SyncTypeOK
<1>2. t \in Sheets /\ rows[t] \in Seq(Jobs \cup {Blank}) /\ running[w] \in Jobs
  BY <1>1 DEF At, RowTypes, QueueInv, QueueTypeOK, SyncTypeOK
<1> HIDE DEF t
<1>3. Puts(rows[t], [rows[t] EXCEPT ![1] = running[w]], running[w])
  BY <1>2, FillPuts
<1> DEFINE new == [rows[t] EXCEPT ![1] = running[w]]
<1>4. /\ t \in Sheets /\ rows[t] \in Seq(Jobs \cup {Blank}) /\ running[w] \in Jobs
      /\ rows' = [rows EXCEPT ![t] = new] /\ Puts(rows[t], new, running[w])
      /\ pc' = [pc EXCEPT ![w] = "success"] \/ (Outages /\ pc' = [pc EXCEPT ![w] = "failed"])
      /\ UNCHANGED <<jobVars, orderVars, configVars, using, usingId>>
  <2> HIDE DEF new
  <2>1. rows' = [rows EXCEPT ![t] = new] /\ Puts(rows[t], new, running[w])
    BY <1>1, <1>3 DEF new
  <2> QED
    BY <1>1, <1>2, <2>1 DEF Goto
<1> QED
  BY <1>1, <1>4, Zenon DEF WritesAs, t

-----------------------------------------------------------------------------
(* An order shown as synced has a row                                       *)

\* A row that was opened at the top is blank until its run fills it ...
TopIsBlank(w) ==
  using[w] \in Sheets /\ rows[using[w]] # <<>> /\ rows[using[w]][1] = Blank

\* ... where rows are appended, or one worker writes them at the top. So a run that comes to
\* mark its order a success has written it, and so has the run that marked it.
RowsInv ==
  /\ RowTypes
  /\ \A w \in Workers : ~InsertAtTop => pc[w] \notin {"open", "fill"}
  /\ \A w \in Workers : pc[w] = "fill" => TopIsBlank(w)
  /\ \A w \in Workers : pc[w] = "success" => InSheet(running[w])
  /\ \A o \in Jobs : status[o] = "SUCCESS" => InSheet(o)

Calm == ~InsertAtTop \/ \A v, w \in Workers : v = w

LEMMA RowsInvInit == Init => RowsInv
  BY TypesInit DEF Init, RowsInv

\* A write leaves the orders there are, and the one that succeeds has added its own.
LEMMA WriteAdds ==
  ASSUME RowsInv, NEW w \in Workers, AppendRow(w) \/ OpenRow(w) \/ FillRow(w), Does(w)
  PROVE  /\ \A o \in Jobs : InSheet(o) => InSheet(o)'
         /\ pc'[w] = "success" => InSheet(running[w])'
         /\ pc'[w] = "fill" => TopIsBlank(w)'
<1> DEFINE t == using[w]
           s == rows[t]
<1>1. ASSUME NEW new, NEW x, NEW next, WritesAs(w, new, x, next), KeepsOrders(s, new)
      PROVE  /\ t \in Sheets /\ rows'[t] = new /\ using' = using /\ running' = running
             /\ \A o \in Jobs : InSheet(o) => InSheet(o)'
             /\ pc'[w] \in {next, "failed"}
  <2>1. /\ t \in Sheets /\ rows'[t] = new /\ (\A u \in Sheets \ {t} : rows'[u] = rows[u])
        /\ using' = using /\ running' = running /\ pc'[w] \in {next, "failed"}
    BY <1>1 DEF WritesAs, jobVars, RowsInv, RowTypes, SyncTypeOK
  <2>2. ASSUME NEW o \in Jobs, InSheet(o) PROVE InSheet(o)'
    <3>1. o # Blank
      BY SheetAssumption
    <3>2. PICK u \in Sheets : \E i \in DOMAIN rows[u] : rows[u][i] = o
      BY <2>2 DEF InSheet
    <3>3. \E i \in DOMAIN rows'[u] : rows'[u][i] = o
      BY <1>1, <2>1, <3>1, <3>2 DEF KeepsOrders
    <3> QED
      BY <3>3 DEF InSheet
  <2> QED
    BY <2>1, <2>2
<1>2. CASE AppendRow(w)
  <2>1. WritesAs(w, Append(s, running[w]), running[w], "success")
    BY <1>2, AppendWrites DEF RowsInv
  <2>2. s \in Seq(Jobs \cup {Blank}) /\ running[w] \in Jobs
    BY <2>1 DEF WritesAs
  <2> DEFINE new == Append(s, running[w])
  <2>3. KeepsOrders(s, new) /\ \E i \in DOMAIN new : new[i] = running[w]
    <3> HIDE DEF s
    <3> QED
      BY <2>2, AppendPuts
  <2> HIDE DEF new, s, t
  <2>4. /\ t \in Sheets /\ rows'[t] = new /\ running' = running /\ pc'[w] \in {"success", "failed"}
        /\ \A o \in Jobs : InSheet(o) => InSheet(o)'
    BY <1>1, <2>1, <2>3 DEF new
  <2>5. InSheet(running[w])'
    BY <2>3, <2>4 DEF InSheet
  <2> QED
    BY <2>4, <2>5
<1>3. CASE FillRow(w)
  <2>1. WritesAs(w, [s EXCEPT ![1] = running[w]], running[w], "success") /\ At(w, "fill")
    BY <1>3, FillWrites DEF RowsInv
  <2>2. s \in Seq(Jobs \cup {Blank}) /\ running[w] \in Jobs /\ s # <<>> /\ s[1] = Blank
    BY <2>1 DEF WritesAs, At, RowsInv, TopIsBlank
  <2> DEFINE new == [s EXCEPT ![1] = running[w]]
  <2>3. KeepsOrders(s, new) /\ \E i \in DOMAIN new : new[i] = running[w]
    <3> HIDE DEF s
    <3> QED
      BY <2>2, FillPuts
  <2> HIDE DEF new, s, t
  <2>4. /\ t \in Sheets /\ rows'[t] = new /\ running' = running /\ pc'[w] \in {"success", "failed"}
        /\ \A o \in Jobs : InSheet(o) => InSheet(o)'
    BY <1>1, <2>1, <2>3 DEF new
  <2>5. InSheet(running[w])'
    BY <2>3, <2>4 DEF InSheet
  <2> QED
    BY <2>4, <2>5
<1>4. CASE OpenRow(w)
  <2>1. WritesAs(w, <<Blank>> \o s, Blank, "fill")
    BY <1>4, OpenWrites DEF RowsInv
  <2>2. s \in Seq(Jobs \cup {Blank})
    BY <2>1 DEF WritesAs
  <2> DEFINE new == <<Blank>> \o s
  <2>3. KeepsOrders(s, new) /\ new # <<>> /\ new[1] = Blank
    <3> HIDE DEF s
    <3> QED
      BY <2>2, OpenPuts
  <2> HIDE DEF new, s
  <2>4. /\ t \in Sheets /\ rows'[t] = new /\ using' = using /\ pc'[w] \in {"fill", "failed"}
        /\ \A o \in Jobs : InSheet(o) => InSheet(o)'
    <3> HIDE DEF t
    <3> QED
      BY <1>1, <2>1, <2>3 DEF new
  <2>5. TopIsBlank(w)'
    BY <2>3, <2>4 DEF TopIsBlank
  <2> QED
    BY <2>4, <2>5
<1> QED
  BY <1>2, <1>3, <1>4

\* So a row, once written, stays.
LEMMA RowsStay ==
  ASSUME RowsInv, [Next]_vars
  PROVE  \A o \in Jobs : InSheet(o) => InSheet(o)'
<1>1. CASE rows' = rows
  BY <1>1 DEF InSheet
<1>2. CASE rows' # rows
  BY <1>2, OthersKeepRows, WriteAdds DEF RowsInv, Does
<1> QED
  BY <1>1, <1>2

\* No other step than a write brings a run to fill its row or to mark its success, or gives a
\* run that is there another order or spreadsheet.
LEMMA OnlyWritesSucceed ==
  ASSUME RowsInv, [Next]_vars, NEW w \in Workers, pc'[w] \in {"fill", "success"}
  PROVE  \/ AppendRow(w) \/ OpenRow(w) \/ FillRow(w)
         \/ pc[w] = pc'[w] /\ running'[w] = running[w] /\ using'[w] = using[w]
<1> DEFINE Kept == pc[w] = pc'[w] /\ running'[w] = running[w] /\ using'[w] = using[w]
<1>1. /\ pc \in [Workers -> Step] /\ running \in [Workers -> Jobs \cup {Null}]
      /\ using \in [Workers -> Sheets \cup {Null}]
  BY DEF RowsInv, RowTypes, QueueInv, QueueTypeOK, SyncTypeOK
<1>2. CASE UNCHANGED vars
  BY <1>2 DEF vars, runVars, jobVars
<1>3. CASE Merchant
  BY <1>3 DEF Merchant, CollectBacklog, RevokeGrant, Connect, Disconnect, UpdateSettings,
              Unshare, SelectSheet, Apart, runVars, jobVars
<1>4. ASSUME NEW o \in Jobs,
             EnqueueSheetSync(o) \/ EnqueueBacklog(o) \/ StallCheck(o) \/ RemoveJob(o)
      PROVE  Kept
  BY <1>4 DEF EnqueueSheetSync, EnqueueBacklog, StallCheck, RemoveJob, Add, Stall, Expire, runVars, jobVars
<1>5. ASSUME NEW v \in Workers, (\E o \in Jobs : Start(v, o)) \/ Finish(v) \/ Crash(v)
      PROVE  Kept
  BY <1>1, <1>5 DEF Start, Goto, Take, Finish, Crash, Leave, Return, Throw, Die, EndRun
<1>6. ASSUME NEW v \in Workers, Run(v), ~Finish(v)
      PROVE  (AppendRow(w) \/ OpenRow(w) \/ FillRow(w)) \/ Kept
  <2>1. CASE AppendRow(v) \/ OpenRow(v) \/ FillRow(v)
    <3>1. running' = running /\ (v = w \/ (pc'[w] = pc[w] /\ using'[w] = using[w]))
      BY <1>1, <2>1 DEF AppendRow, OpenRow, FillRow, Request, Goto, jobVars
    <3> QED
      BY <2>1, <3>1
  <2>2. CASE ~(AppendRow(v) \/ OpenRow(v) \/ FillRow(v))
    BY <1>1, <1>6, <2>2
       DEF Run, ReadConfig, MarkSkipped, MarkInProgress, AccessToken, FirstWrite,
           MarkSuccess, RecordSuccess, MarkFailed, Deactivate, Goto, jobVars
  <2> QED
    BY <2>1, <2>2
<1> QED
  BY <1>2, <1>3, <1>4, <1>5, <1>6 DEF Next

\* Only the marking of a success shows an order as synced.
LEMMA OnlySuccessSyncs ==
  ASSUME RowsInv, [Next]_vars, NEW o \in Jobs, status'[o] = "SUCCESS", status[o] # "SUCCESS"
  PROVE  \E w \in Workers : pc[w] = "success" /\ running[w] = o
<1>1. status \in [Jobs -> Status]
  BY DEF RowsInv, RowTypes, SyncTypeOK
<1>2. PICK w \in Workers : status' = [status EXCEPT ![Order(w)] = "SUCCESS"] /\ At(w, "success")
  <2>1. ASSUME NEW w \in Workers,
               \/ MarkSkipped(w) \/ MarkInProgress(w) \/ MarkFailed(w)
        PROVE  FALSE
    BY <1>1, <2>1 DEF MarkSkipped, MarkInProgress, MarkFailed, Mark
  <2>2. status' # status
    OBVIOUS
  <2>3. ~UNCHANGED vars /\ ~Merchant
    BY <2>2 DEF vars, Merchant, CollectBacklog, RevokeGrant, Connect, Disconnect,
                UpdateSettings, Unshare, SelectSheet, Apart
  <2>4. ASSUME NEW p \in Jobs,
               EnqueueSheetSync(p) \/ EnqueueBacklog(p) \/ StallCheck(p) \/ RemoveJob(p)
        PROVE  FALSE
    BY <2>2, <2>4 DEF EnqueueSheetSync, EnqueueBacklog, StallCheck, RemoveJob
  <2>5. PICK w \in Workers : (\E p \in Jobs : Start(w, p)) \/ Run(w) \/ Crash(w)
    BY <2>3, <2>4 DEF Next
  <2>6. MarkSuccess(w)
    BY <2>1, <2>2, <2>5 DEF Start, Crash, Run, Finish, ReadConfig, AccessToken, AppendRow,
         OpenRow, FillRow, RecordSuccess, Deactivate
  <2> QED
    BY <2>2, <2>6 DEF MarkSuccess, Mark
<1> QED
  BY <1>1, <1>2 DEF At, Order

\* Where rows are appended no run opens one.
LEMMA NoneOpened ==
  ASSUME RowsInv, [Next]_vars, ~InsertAtTop, NEW w \in Workers
  PROVE  pc'[w] \notin {"open", "fill"}
<1>1. pc \in [Workers -> Step] /\ pc[w] \notin {"open", "fill"}
  BY DEF RowsInv, RowTypes, SyncTypeOK
<1>2. CASE UNCHANGED vars \/ Merchant
  BY <1>1, <1>2 DEF vars, Merchant, CollectBacklog, RevokeGrant, Connect, Disconnect,
                    UpdateSettings, Unshare, SelectSheet, Apart, runVars
<1>3. ASSUME NEW o \in Jobs,
             EnqueueSheetSync(o) \/ EnqueueBacklog(o) \/ StallCheck(o) \/ RemoveJob(o)
      PROVE  pc'[w] \notin {"open", "fill"}
  BY <1>1, <1>3 DEF EnqueueSheetSync, EnqueueBacklog, StallCheck, RemoveJob, runVars
<1>4. ASSUME NEW v \in Workers, (\E o \in Jobs : Start(v, o)) \/ Run(v) \/ Crash(v)
      PROVE  pc'[w] \notin {"open", "fill"}
  <2>1. ~OpenRow(v)
    BY DEF OpenRow, At, RowsInv
  <2>2. CASE Run(v) /\ ~Finish(v)
    BY <1>1, <2>1, <2>2
       DEF Run, ReadConfig, MarkSkipped, MarkInProgress, AccessToken, FirstWrite,
           AppendRow, FillRow, Request, MarkSuccess, RecordSuccess, MarkFailed,
           Deactivate, Goto
  <2> QED
    BY <1>1, <1>4, <2>2 DEF Start, Goto, Finish, Crash, Leave
<1> QED
  BY <1>2, <1>3, <1>4 DEF Next

LEMMA RowsInvStep ==
  ASSUME Calm, RowsInv, [Next]_vars
  PROVE  RowsInv'
<1>1. RowTypes'
  BY TypesStep DEF RowsInv
<1>2. ASSUME NEW w \in Workers, pc'[w] = "fill" PROVE TopIsBlank(w)'
  <2>1. InsertAtTop /\ \A v \in Workers : v = w
    BY <1>2, NoneOpened DEF Calm
  <2>2. CASE AppendRow(w) \/ OpenRow(w) \/ FillRow(w)
    BY <1>2, <2>2, WriteAdds DEF Does
  <2>3. CASE pc[w] = "fill" /\ using'[w] = using[w] /\ ~(AppendRow(w) \/ OpenRow(w) \/ FillRow(w))
    <3>1. \A v \in Workers : ~AppendRow(v) /\ ~OpenRow(v) /\ ~FillRow(v)
      BY <2>1, <2>3
    <3>2. rows' = rows
      BY <3>1, OthersKeepRows DEF RowsInv
    <3> QED
      BY <2>3, <3>2 DEF RowsInv, TopIsBlank
  <2> QED
    BY <1>2, <2>2, <2>3, OnlyWritesSucceed
<1>3. ASSUME NEW w \in Workers, pc'[w] = "success" PROVE InSheet(running[w])'
  <2>1. CASE AppendRow(w) \/ OpenRow(w) \/ FillRow(w)
    BY <1>3, <2>1, WriteAdds DEF Does
  <2>2. CASE pc[w] = "success" /\ running'[w] = running[w]
    <3>1. running[w] \in Jobs /\ InSheet(running[w])
      BY <2>2 DEF RowsInv, RowTypes, QueueInv, QueueTypeOK, SyncTypeOK
    <3>2. \A o \in Jobs : InSheet(o) => InSheet(o)'
      BY RowsStay
    <3> QED
      BY <2>2, <3>1, <3>2 DEF InSheet
  <2> QED
    BY <1>3, <2>1, <2>2, OnlyWritesSucceed
<1>4. ASSUME NEW o \in Jobs, status'[o] = "SUCCESS" PROVE InSheet(o)'
  <2>1. InSheet(o)
    BY <1>4, OnlySuccessSyncs DEF RowsInv
  <2> QED
    BY <2>1, RowsStay
<1>5. \A w \in Workers : ~InsertAtTop => pc'[w] \notin {"open", "fill"}
  BY NoneOpened
<1> QED
  BY <1>1, <1>2, <1>3, <1>4, <1>5 DEF RowsInv

\* setOrderSyncStatus: an order shown as synced has a row, whatever fails, dies or is tried
\* again: with any number of workers where rows are appended, with one where they are put
\* at the top.
THEOREM SyncedHasRow == Spec => []SyncedIsInSheet
<1>1. CASE Calm
  <2>1. RowsInv => SyncedIsInSheet
    BY DEF RowsInv, SyncedIsInSheet
  <2>2. RowsInv /\ [Next]_vars => RowsInv'
    BY <1>1, RowsInvStep
  <2> QED
    BY <2>1, <2>2, RowsInvInit, PTL DEF Spec
<1>2. CASE ~Calm
  <2>1. InsertAtTop /\ Cardinality(Workers) # 1
    BY <1>2, FS_Singleton, SheetAssumption DEF Calm
  <2>2. SyncedIsInSheet
    BY <2>1 DEF SyncedIsInSheet
  <2> QED
    BY <2>2, PTL
<1> QED
  BY <1>1, <1>2

-----------------------------------------------------------------------------
(* An order has one row                                                     *)

\* The config a run read is there, as long as none was deleted: of the first there ever was
\* no id is but 0, and one that is active names a spreadsheet.
ConfigStands ==
  /\ active => target # Null
  /\ configId = 0 => \A w \in Workers : usingId[w] = 0 /\ (using[w] # Null => target # Null)
  /\ \A w \in Workers :
       pc[w] \in {"mark", "token", "open", "fill", "write", "success", "record"} => using[w] # Null

\* The job of an order is done with, or its run has nothing left but to say so.
RowWritten(o) ==
  \/ jobState[o] = "completed"
  \/ \E w \in Workers : running[w] = o /\ pc[w] \in {"success", "record", "done"}

\* An order with a row has one, and nothing will write another.
OneInv ==
  /\ RowTypes /\ ConfigStands
  /\ configId = 0 => \A o \in Jobs : AtMostOnce(rows, o) /\ (Has(rows, o) => RowWritten(o))

LEMMA OneInvInit == Init => OneInv
<1> SUFFICES ASSUME Init PROVE OneInv
  OBVIOUS
<1>1. RowTypes
  BY TypesInit
<1>2. ConfigStands
  BY DEF Init, ConfigStands
<1>3. \A s \in Sheets : DOMAIN rows[s] = {}
  BY DEF Init
<1>4. \A o \in Jobs : AtMostOnce(rows, o) /\ ~Has(rows, o)
  BY <1>3 DEF AtMostOnce, Has
<1> QED
  BY <1>1, <1>2, <1>4 DEF OneInv

\* What a step does to a run's config, and to the shop's.
LEMMA MerchantKeepsConfig ==
  ASSUME OneInv, Merchant
  PROVE  ConfigStands' /\ (configId' = 0 => configId = 0)
<1>1. configId \in Nat
  BY SheetAssumption DEF OneInv, RowTypes, SyncTypeOK
<1>2. UNCHANGED <<pc, using, usingId>>
  BY DEF Merchant, CollectBacklog, RevokeGrant, Connect, Disconnect, UpdateSettings,
         Unshare, SelectSheet, Apart, runVars
<1>3. CASE Disconnect
  <2>1. ~active' /\ (target = Null \/ configId' # 0) /\ (configId' = 0 => configId = 0)
        /\ (target = Null => target' = Null /\ configId' = configId)
    BY <1>1, <1>3 DEF Disconnect
  <2> QED
    BY <1>2, <2>1 DEF OneInv, ConfigStands
<1>4. CASE ~Disconnect
  <2>1. configId' = configId /\ (target # Null => target' # Null) /\ (active' => target' # Null)
    BY <1>4, SheetAssumption
       DEF Merchant, CollectBacklog, RevokeGrant, Connect, UpdateSettings, Unshare, SelectSheet,
           configVars, OneInv, ConfigStands
  <2> QED
    BY <1>2, <2>1 DEF OneInv, ConfigStands
<1> QED
  BY <1>3, <1>4

LEMMA RunKeepsConfig ==
  ASSUME OneInv, NEW w \in Workers, (\E o \in Jobs : Start(w, o)) \/ Run(w) \/ Crash(w)
  PROVE  ConfigStands' /\ configId' = configId
<1>1. /\ pc \in [Workers -> Step] /\ using \in [Workers -> Sheets \cup {Null}]
      /\ usingId \in [Workers -> 0..MaxActs]
  BY DEF OneInv, RowTypes, SyncTypeOK
<1>2. CASE ReadConfig(w)
  BY <1>1, <1>2 DEF ReadConfig, Goto, At, OutsideRun, configVars, OneInv, ConfigStands
<1>3. CASE (\E o \in Jobs : Start(w, o)) \/ Finish(w) \/ Crash(w)
  <2>1. /\ UNCHANGED <<target, configId, active>>
        /\ \A v \in Workers \ {w} : pc'[v] = pc[v] /\ using'[v] = using[v] /\ usingId'[v] = usingId[v]
        /\ pc'[w] \in {"config", "idle"}
        /\ \/ using'[w] = Null /\ usingId'[w] = 0
           \/ using' = using /\ usingId' = usingId
    BY <1>1, <1>3 DEF Start, Finish, Crash, Leave, Goto, OutsideRun, configVars
  <2> QED
    BY <2>1 DEF OneInv, ConfigStands
<1>4. CASE Run(w) /\ ~ReadConfig(w) /\ ~Finish(w)
  <2>1. /\ UNCHANGED <<target, configId, using, usingId>> /\ (active' => active)
        /\ \A v \in Workers \ {w} : pc'[v] = pc[v]
        /\ pc'[w] \in {"mark", "token", "open", "fill", "write", "success", "record"}
             => pc[w] \in {"mark", "token", "open", "fill", "write", "success", "record"}
    BY <1>1, <1>4
       DEF Run, MarkSkipped, MarkInProgress, AccessToken, FirstWrite, AppendRow, OpenRow, FillRow,
           Request, MarkSuccess, RecordSuccess, MarkFailed, Deactivate, Goto, At, OutsideRun,
           configVars
  <2> QED
    BY <2>1 DEF OneInv, ConfigStands
<1> QED
  BY <1>2, <1>3, <1>4 DEF Run

LEMMA ConfigStays ==
  ASSUME OneInv, [Next]_vars
  PROVE  ConfigStands' /\ (configId' = 0 => configId = 0)
<1>1. CASE UNCHANGED vars
  BY <1>1 DEF vars, configVars, runVars, OneInv, ConfigStands
<1>2. ASSUME NEW o \in Jobs,
             EnqueueSheetSync(o) \/ EnqueueBacklog(o) \/ StallCheck(o) \/ RemoveJob(o)
      PROVE  ConfigStands' /\ configId' = configId
  BY <1>2 DEF EnqueueSheetSync, EnqueueBacklog, StallCheck, RemoveJob, configVars, runVars,
              OneInv, ConfigStands
<1> QED
  BY <1>1, <1>2, MerchantKeepsConfig, RunKeepsConfig DEF Next

\* A job that completed stays so while its id is kept, and a run that wrote its row goes on to
\* its end while nothing fails.
LEMMA WrittenStays ==
  ASSUME ~Steals, ~Outages, ~Removals, OneInv, [Next]_vars, configId = 0,
         NEW o \in Jobs, RowWritten(o)
  PROVE  RowWritten(o)'
<1>1. /\ jobState \in [Jobs -> JobStates] /\ running \in [Workers -> Jobs \cup {Null}]
      /\ owner \in [Jobs -> Workers \cup {Null}] /\ pc \in [Workers -> Step]
  BY DEF OneInv, RowTypes, QueueInv, QueueTypeOK, SyncTypeOK
<1>2. \A w \in Workers : running[w] # Null => Holds(w)
  BY DEF OneInv, RowTypes, QueueInv, RunHoldsLock, Holds
<1>3. CASE UNCHANGED vars \/ Merchant
  <2>1. UNCHANGED <<jobState, running, pc>>
    BY <1>3 DEF vars, Merchant, CollectBacklog, RevokeGrant, Connect, Disconnect, UpdateSettings,
                Unshare, SelectSheet, Apart, jobVars, runVars
  <2> QED
    BY <2>1 DEF RowWritten
<1>4. ASSUME NEW j \in Jobs,
             EnqueueSheetSync(j) \/ EnqueueBacklog(j) \/ StallCheck(j) \/ RemoveJob(j)
      PROVE  RowWritten(o)'
  <2>1. UNCHANGED <<running, pc>>
    BY <1>4 DEF EnqueueSheetSync, EnqueueBacklog, StallCheck, RemoveJob, Add, Stall, Expire,
                jobVars, runVars
  <2>2. jobState[o] = "completed" => jobState'[o] = "completed"
    BY <1>1, <1>4 DEF EnqueueSheetSync, EnqueueBacklog, StallCheck, RemoveJob, Add, Stall, jobVars
  <2> QED
    BY <2>1, <2>2 DEF RowWritten
<1>5. ASSUME NEW w \in Workers, (\E j \in Jobs : Start(w, j)) \/ Run(w) \/ Crash(w)
      PROVE  RowWritten(o)'
  <2>1. ~Crash(w)
    BY DEF Crash
  <2>2. jobState[o] = "completed" => jobState'[o] = "completed"
    <3>1. CASE \E j \in Jobs : Start(w, j)
      BY <1>1, <3>1 DEF Start, Take
    <3>2. CASE Finish(w)
      BY <1>1, <3>2 DEF Finish, Return, Throw, EndRun, Holds
    <3>3. CASE Run(w) /\ ~Finish(w)
      BY <3>3 DEF Run, ReadConfig, MarkSkipped, MarkInProgress, AccessToken, AppendRow, OpenRow,
                  FillRow, MarkSuccess, RecordSuccess, MarkFailed, Deactivate, jobVars
    <3> QED
      BY <1>5, <2>1, <3>1, <3>2, <3>3
  <2>3. ASSUME NEW v \in Workers, running[v] = o, pc[v] \in {"success", "record", "done"}
        PROVE  RowWritten(o)'
    <3>1. CASE \E j \in Jobs : Start(w, j)
      <4>1. v # w /\ running'[v] = running[v] /\ pc'[v] = pc[v]
        BY <1>1, <2>3, <3>1, QueueAssumption DEF Start, Take, Goto
      <4> QED
        BY <2>3, <4>1 DEF RowWritten
    <3>2. CASE Finish(w) /\ v # w
      <4>1. running'[v] = running[v] /\ pc'[v] = pc[v]
        BY <1>1, <3>2 DEF Finish, Return, Throw, EndRun, Leave
      <4> QED
        BY <2>3, <4>1 DEF RowWritten
    <3>3. CASE Finish(w) /\ v = w
      <4>1. Return(w) /\ Holds(w)
        BY <1>2, <2>3, <3>3, QueueAssumption DEF Finish, At
      <4>2. jobState'[o] = "completed"
        BY <1>1, <2>3, <3>3, <4>1 DEF Return, EndRun
      <4> QED
        BY <4>2 DEF RowWritten
    <3>4. CASE Run(w) /\ ~Finish(w) /\ v # w
      <4>1. running' = running /\ pc'[v] = pc[v]
        BY <1>1, <3>4
           DEF Run, ReadConfig, MarkSkipped, MarkInProgress, AccessToken, AppendRow, OpenRow, FillRow,
               Request, MarkSuccess, RecordSuccess, MarkFailed, Deactivate, Goto, jobVars
      <4> QED
        BY <2>3, <4>1 DEF RowWritten
    <3>5. CASE Run(w) /\ ~Finish(w) /\ v = w
      <4>1. ~ConfigGone(w) \/ pc[w] # "record"
        BY DEF ConfigGone, OneInv, ConfigStands
      <4>2. running' = running /\ pc'[w] \in {"success", "record", "done"}
        BY <1>1, <2>3, <3>5, <4>1
           DEF Run, ReadConfig, MarkSkipped, MarkInProgress, AccessToken, AppendRow, OpenRow, FillRow,
               MarkSuccess, RecordSuccess, MarkFailed, Deactivate, Goto, At, jobVars
      <4> QED
        BY <2>3, <3>5, <4>2 DEF RowWritten
    <3> QED
      BY <1>5, <2>1, <3>1, <3>2, <3>3, <3>4, <3>5
  <2> QED
    BY <2>2, <2>3 DEF RowWritten
<1> QED
  BY <1>3, <1>4, <1>5 DEF Next

\* A run that comes to write an order finds no row of it: its job is not completed, and no
\* other run has it.
LEMMA NoneWritten ==
  ASSUME ~Steals, OneInv, NEW w \in Workers, pc[w] \in {"write", "fill"}
  PROVE  running[w] \in Jobs /\ ~RowWritten(running[w])
<1>1. running[w] \in Jobs /\ jobState[running[w]] = "active" /\ running[w] # Null
  BY QueueAssumption DEF OneInv, RowTypes, SyncTypeOK, QueueInv, QueueTypeOK, RunHoldsLock
<1>2. \A v \in Workers : running[v] = running[w] => v = w
  BY <1>1, QueueInvGives DEF OneInv, RowTypes, OneRunPerJob
<1> QED
  BY <1>1, <1>2 DEF RowWritten

\* A write puts its order once, and moves or keeps the rows of the others.
LEMMA WriteKeepsOne ==
  ASSUME ~Steals, ~Outages, OneInv, configId = 0, NEW w \in Workers,
         AppendRow(w) \/ OpenRow(w) \/ FillRow(w), rows' # rows, NEW o \in Jobs
  PROVE  AtMostOnce(rows', o) /\ (Has(rows', o) => Has(rows, o) \/ RowWritten(o)')
<1> DEFINE t == using[w]
<1>1. ASSUME NEW new, NEW x, NEW next, WritesAs(w, new, x, next),
             x = Blank \/ (x = running[w] /\ next = "success" /\ ~Has(rows, x))
      PROVE  AtMostOnce(rows', o) /\ (Has(rows', o) => Has(rows, o) \/ RowWritten(o)')
  <2>1. /\ t \in Sheets /\ Puts(rows[t], new, x) /\ rows' = [rows EXCEPT ![t] = new]
        /\ rows \in [Sheets -> Seq(Jobs \cup {Blank})] /\ running' = running
        /\ pc' = [pc EXCEPT ![w] = next] /\ pc \in [Workers -> Step]
    BY <1>1 DEF WritesAs, jobVars, OneInv, RowTypes, SyncTypeOK
  <2>2. AtMostOnce(rows, o)
    BY DEF OneInv
  <2> HIDE DEF t
  <2>3. CASE o # x
    BY <2>1, <2>2, <2>3, PutsOnce
  <2>4. CASE o = x
    <3>1. x = running[w] /\ next = "success" /\ ~Has(rows, x)
      BY <1>1, <2>4, SheetAssumption
    <3>2. AtMostOnce(rows', o)
      BY <2>1, <2>4, <3>1, PutsOnce
    <3>3. RowWritten(o)'
      BY <2>1, <2>4, <3>1 DEF RowWritten
    <3> QED
      BY <3>2, <3>3
  <2> QED
    BY <2>3, <2>4
<1>2. RowTypes /\ Does(w)
  BY DEF Does, OneInv
<1>3. CASE AppendRow(w)
  <2>1. At(w, "write") /\ WritesAs(w, Append(rows[using[w]], running[w]), running[w], "success")
    BY <1>2, <1>3, AppendWrites
  <2>2. ~Has(rows, running[w])
    BY <2>1, NoneWritten DEF At, OneInv
  <2> QED
    BY <1>1, <2>1, <2>2
<1>4. CASE FillRow(w)
  <2>1. At(w, "fill")
        /\ WritesAs(w, [rows[using[w]] EXCEPT ![1] = running[w]], running[w], "success")
    BY <1>2, <1>4, FillWrites
  <2>2. ~Has(rows, running[w])
    BY <2>1, NoneWritten DEF At, OneInv
  <2> QED
    BY <1>1, <2>1, <2>2
<1>5. CASE OpenRow(w)
  BY <1>1, <1>2, <1>5, OpenWrites
<1> QED
  BY <1>3, <1>4, <1>5

LEMMA OneInvStep ==
  ASSUME ~Steals, ~Outages, ~Removals, OneInv, [Next]_vars
  PROVE  OneInv'
<1>1. RowTypes' /\ ConfigStands' /\ (configId' = 0 => configId = 0)
  BY TypesStep, ConfigStays DEF OneInv
<1>2. ASSUME configId = 0, NEW o \in Jobs
      PROVE  AtMostOnce(rows', o) /\ (Has(rows', o) => RowWritten(o)')
  <2>1. AtMostOnce(rows', o) /\ (Has(rows', o) => Has(rows, o) \/ RowWritten(o)')
    <3>1. CASE rows' = rows
      BY <1>2, <3>1 DEF OneInv
    <3>2. CASE rows' # rows
      BY <1>2, <3>2, OthersKeepRows, WriteKeepsOne DEF OneInv
    <3> QED
      BY <3>1, <3>2
  <2>2. Has(rows, o) => RowWritten(o)'
    BY <1>2, WrittenStays DEF OneInv
  <2> QED
    BY <2>1, <2>2
<1> QED
  BY <1>1, <1>2 DEF OneInv

\* A set whose elements are all one has at most one.
LEMMA AtMostOneIsOne ==
  ASSUME NEW S, \A x, y \in S : x = y
  PROVE  Cardinality(S) <= 1
<1>1. CASE S = {}
  BY <1>1, FS_EmptySet
<1>2. CASE S # {}
  <2>1. PICK x \in S : TRUE
    BY <1>2
  <2>2. S = {x}
    BY <2>1
  <2> QED
    BY <2>2, FS_Singleton
<1> QED
  BY <1>1, <1>2

\* enqueueSheetSync: pushes and backfills collapse to one job, so an order has one row,
\* however many workers write and wherever they put it, while no lock is stolen.
THEOREM OneRowEach ==
  ASSUME ~Steals
  PROVE  Spec => []OneRowPerOrder
<1>1. CASE ~Outages /\ ~Removals
  <2>1. ASSUME OneInv, configId = 0, NEW o \in Jobs PROVE RowsOf(o) <= 1
    <3> DEFINE There == UNION {{<<s, i>> : i \in {k \in DOMAIN rows[s] : rows[s][k] = o}} : s \in Sheets}
    <3>1. \A x, y \in There : x = y
      BY <2>1 DEF OneInv, AtMostOnce
    <3>2. Cardinality(There) <= 1
      <4> HIDE DEF There
      <4> QED
        BY <3>1, AtMostOneIsOne
    <3> QED
      BY <3>2 DEF RowsOf
  <2>2. OneInv => OneRowPerOrder
    BY <2>1 DEF OneRowPerOrder
  <2>3. OneInv /\ [Next]_vars => OneInv'
    BY <1>1, OneInvStep
  <2> QED
    BY <2>2, <2>3, OneInvInit, PTL DEF Spec
<1>2. CASE Outages \/ Removals
  <2>1. OneRowPerOrder
    BY <1>2 DEF OneRowPerOrder
  <2> QED
    BY <2>1, PTL
<1> QED
  BY <1>1, <1>2
=============================================================================
