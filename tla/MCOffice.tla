------------------------------ MODULE MCOffice ------------------------------
(***************************************************************************)
(* The back office of one shop: the fraud engine and its desk, the order's *)
(* conversion pixels, the settings file, the list of stuck orders, and the *)
(* spreadsheet orders are written into. They share the shop's rows, which  *)
(* each sees as given, so a behaviour is of one of them, which "part"      *)
(* names.                                                                  *)
(***************************************************************************)
EXTENDS FraudEngine, FraudDesk, SheetSync, PixelDispatch, StuckOrders, SettingsTransfer

CONSTANTS w1, w2  \* the workers of the sheet's jobs

VARIABLE part

-----------------------------------------------------------------------------
\* Two orders: the first of a phone with a cancellation, the second from a Tor exit.
MCPhone == [o \in Held |-> IF o = 1 THEN "p" ELSE "q"]
Clean == [f \in Facts |-> 0]
MCFacts == [o \in Held |-> IF o = 1 THEN [Clean EXCEPT !["PRIOR_CANCELLATIONS"] = 1]
                           ELSE [Clean EXCEPT !["IP_IS_TOR"] = 1]]

\* From the browser; switched off; from the server and its token taken away; told of
\* every sale to everybody; and from the server, silent about sales.
Browser == [isEnabled |-> TRUE, server |-> FALSE, dedup |-> TRUE, requireConsent |-> TRUE,
            reports |-> TRUE, token |-> "kept"]
Server == [Browser EXCEPT !.server = TRUE]
MCEdits == {Browser, [Browser EXCEPT !.isEnabled = FALSE], [Server EXCEPT !.token = "cleared"],
            [Server EXCEPT !.dedup = FALSE, !.requireConsent = FALSE],
            [Server EXCEPT !.reports = FALSE, !.token = "given"]}

\* One or two things are odd about an order, or everything is, once or more often.
Oddities == {{f} : f \in Facts} \cup {{f, g} : f \in Facts, g \in {"IP_IS_TOR", "PRIOR_RETURNS", "FAKE_PHONE"}}
            \cup {Facts}
MCSuspects == {[f \in Facts |-> IF f \in odd THEN times ELSE 0] : odd \in Oddities, times \in {1, 4}}

ruleThat(id, condition, delta, action) ==
    [id |-> id, all |-> {condition}, any |-> {}, scoreDelta |-> delta, action |-> action]
Condition(field, operator, value) == [field |-> field, operator |-> operator, value |-> value]
Big == Condition("total", "gt", Number(5))
Risky == Condition("riskScore", "gte", Number(40))
FromCampaign == Condition("utmSource", "equals", Text("campaign"))
NoEmail == Condition("email", "is_empty", Absent)
Elsewhere == Condition("city", "not_equals", Text("here"))
AnyOf(field, operator, among) == [field |-> field, operator |-> operator, among |-> among]
NotFromHome == AnyOf("ipCountryCode", "not_in", {Text("home"), Text("near")})
FromThere == AnyOf("city", "in", {Text("there"), Text("near")})

\* What merchants write: nothing, trust, suspicion, an action above a score, a
\* refusal, two rules of which the first decides, and one by the address's country.
MCRules ==
    {<<>>,
     <<ruleThat("trust", FromCampaign, -100, "none")>>,
     <<ruleThat("doubt", Big, 100, "none"), ruleThat("worry", NoEmail, 100, "none")>>,
     <<ruleThat("call", Risky, 0, "CHALLENGE_OTP"), ruleThat("refuse", Big, 0, "BLOCK")>>,
     <<ruleThat("foreign", NotFromHome, 40, "none"), ruleThat("local", FromThere, 10, "none")>>,
     <<[ruleThat("allow", NoEmail, 0, "ALLOW") EXCEPT !.any = {Elsewhere}]>>,
     <<[ruleThat("either", Big, 0, "REVIEW") EXCEPT !.all = {}, !.any = {Elsewhere, NoEmail}]>>}

\* What is known of the order itself.
MCKnown == [total |-> Number(9), utmSource |-> Text("campaign"), city |-> Text("there"),
            countryCode |-> Text("home")]

MCSettings == {DefaultSettings, EverythingOn, [EverythingOn EXCEPT !.medium = 0]}
MCFailing == {{}, {"blockList"}, {"identity", "network"}, {"ip"}, {"rules", "history"}, {"settings"},
              {"deadline"}}

Files == INSTANCE TransferSamples
MCShop == Files!SomeShop
MCBackups == Files!SomeBackups
MCForeign == Files!SomeForeign
MCScreens == Files!SomeScreens

ASSUME OfficeAssumption == Workers = {w1, w2} /\ Cardinality(Jobs) = 1

-----------------------------------------------------------------------------
officeVars == <<part, inquiry, dvars, xvars, cvars, lvars, vars>>

\* Which request is which makes no difference: the second is used beside the first only.
SecondJoins == transfer[2].at = "idle" /\ transfer'[2].at # "idle" => transfer[1].at # "idle"
\* Nor does it which worker is which, as long as one runs: the second starts beside the
\* first only, which is when a job would run twice.
W2Joins == pc[w2] = "idle" /\ pc'[w2] # "idle" => pc[w1] # "idle"

EngineStep == part = "engine" /\ EngineNext
              /\ UNCHANGED <<part, dvars, xvars, cvars, lvars, vars>>
DeskStepped == part = "desk" /\ DeskNext
               /\ UNCHANGED <<part, inquiry, xvars, cvars, lvars, vars>>
PixelStep == part = "pixels" /\ PixelsNext
             /\ UNCHANGED <<part, inquiry, dvars, cvars, lvars, vars>>
TransferStep == part = "transfer" /\ TransferNext /\ SecondJoins
                /\ UNCHANGED <<part, inquiry, dvars, xvars, lvars, vars>>
StuckStep == part = "stuck" /\ StuckNext
             /\ UNCHANGED <<part, inquiry, dvars, xvars, cvars, vars>>
SheetStep == part = "sheet" /\ Next /\ W2Joins
             /\ UNCHANGED <<part, inquiry, dvars, xvars, cvars, lvars>>

\* The parts that do not run rest in one state each.
AtRest == [facts |-> Clean, optOut |-> FALSE, rules |-> <<>>, failed |-> {},
           settings |-> DefaultSettings, matches |-> {}, answer |-> Unanswered]
OfficeInit ==
    /\ part \in {"engine", "desk", "pixels", "transfer", "stuck", "sheet"}
    /\ DeskInit /\ StuckInit
    /\ Init /\ (part # "sheet" => target = Null)
    /\ PixelsInit
    /\ part # "pixels" => pixel[1] = Of("CUSTOM", TRUE, TRUE) /\ ~pixel[2].exists
                          /\ ~sale.consent /\ ~sale.serverSideTracking
    /\ TransferInit /\ (part # "transfer" => DOMAIN backup = {})
    /\ IF part = "engine" THEN EngineInit ELSE inquiry = AtRest

OfficeNext ==
    EngineStep \/ DeskStepped \/ PixelStep \/ TransferStep \/ StuckStep \/ SheetStep

OfficeSpec == OfficeInit /\ [][OfficeNext]_officeVars
=============================================================================
