---------------------------- MODULE AddressLookup ----------------------------
(***************************************************************************)
(* The postal code of the order form filling in the city (form.ts), the    *)
(* endpoint that answers it (modules/postal), its cache (lib/cache) and    *)
(* the provider behind it (lib/postal).                                    *)
(*                                                                         *)
(* One form, one shopper typing. Only India has a provider. A code is      *)
(* well-formed or half typed; a lookup is named by its sequence number.    *)
(***************************************************************************)
EXTENDS Naturals

CONSTANTS
    Codes,      \* well-formed Indian codes
    Known,      \* those the provider knows; the city of a code stands for itself
    Blocked,    \* those the merchant does not deliver to
    MaxEdits    \* bound on what the shopper does and on the provider's outages

Partial == "partial"

\* A country with a provider, and one without.
Countries == {"IN", "XX"}

ASSUME LookupAssumption ==
    /\ Partial \notin Codes /\ "" \notin Codes /\ "typed" \notin Codes
    /\ Known \subseteq Codes /\ Blocked \subseteq Codes
    /\ MaxEdits \in Nat

Lookups == 1..MaxEdits

VARIABLES
    shop,       \* [country, offers]: the shop's country, the choices of the country field
    postal,     \* [code, country, city, status]: the fields, and the line under the code
    sequence,   \* postalSequence
    timer,      \* the lookup postalTimer will make: [code, sequence], sequence 0 for none
    lookup,     \* the lookups made: [code, at, answer]
    cache,      \* per code: "absent", "null", or "record"
    edits

lvars == <<shop, postal, sequence, timer, lookup, cache, edits>>

NoTimer == [code |-> "", sequence |-> 0]
Idle == [code |-> "", at |-> "none", answer |-> "none"]

LookupTypeOK ==
    /\ shop \in [country : Countries, offers : SUBSET Countries]
    /\ postal \in [code : Codes \cup {"", Partial}, country : Countries \cup {""},
                   city : Codes \cup {"", "typed"}, status : {"none", "checking", "ok", "error"}]
    /\ sequence \in 0..MaxEdits
    /\ timer \in [code : Codes \cup {""}, sequence : 0..MaxEdits]
    /\ lookup \in [Lookups -> [code : Codes \cup {""},
                               at : {"none", "sent", "computing", "answered", "done"},
                               answer : {"none", "found", "not_found", "not_serviceable",
                                         "unavailable"}]]
    /\ cache \in [Codes -> {"absent", "null", "record"}]
    /\ edits \in 0..MaxEdits

Edit == edits < MaxEdits /\ edits' = edits + 1

-----------------------------------------------------------------------------
(* The form. *)

\* postalCountry: the shopper's choice, then the shop's country if there is a
\* provider for it, then the only country whose format the code has.
postalCountry(code) ==
    IF postal.country # "" THEN postal.country
    ELSE IF shop.country = "IN" \/ code \in Codes THEN "IN"
    ELSE shop.country

\* The line under the field once schedulePostalLookup has run: a half-typed code
\* takes it away, but not where there is no provider to ask.
StatusAfter(code) ==
    IF postalCountry(code) = "IN" /\ code \notin Codes THEN "none" ELSE postal.status

\* The shopper edits the postal code: schedulePostalLookup. Only a code worth a
\* lookup takes a new sequence number; the timer of the one before is cleared.
TypeCode ==
    /\ Edit
    /\ \E code \in (Codes \cup {Partial}) \ {postal.code} :
          LET asks == postalCountry(code) = "IN" /\ code \in Codes IN
          /\ postal' = [postal EXCEPT !.code = code, !.status = StatusAfter(code)]
          /\ sequence' = IF asks THEN sequence + 1 ELSE sequence
          /\ timer' = IF asks THEN [code |-> code, sequence |-> sequence + 1] ELSE NoTimer
    /\ UNCHANGED <<shop, lookup, cache>>

ChooseCountry ==
    /\ Edit
    /\ \E c \in shop.offers \ {postal.country} : postal' = [postal EXCEPT !.country = c]
    /\ UNCHANGED <<shop, sequence, timer, lookup, cache>>

TypeCity ==
    /\ Edit
    /\ postal' = [postal EXCEPT !.city = "typed"]
    /\ UNCHANGED <<shop, sequence, timer, lookup, cache>>

\* 350 ms without a keystroke: runPostalLookup.
TimerFires ==
    /\ timer # NoTimer
    /\ lookup' = [lookup EXCEPT ![timer.sequence] =
                    [code |-> timer.code, at |-> "sent", answer |-> "none"]]
    /\ postal' = [postal EXCEPT !.status = "checking"]
    /\ timer' = NoTimer
    /\ UNCHANGED <<shop, sequence, cache, edits>>

\* The request fails or takes more than six seconds: no answer. (What the server
\* still computes for it only reaches the cache, as ProviderAnswers does.)
LookupTimesOut(n) ==
    /\ lookup[n].at \in {"sent", "computing"}
    /\ Edit
    /\ lookup' = [lookup EXCEPT ![n].at = "answered", ![n].answer = "unavailable"]
    /\ UNCHANGED <<shop, postal, sequence, timer, cache>>

\* Mutant: every answer is applied.
AnyLookup(n) == TRUE

\* "A newer keystroke has already superseded this request."
IsLatest(n) == n = sequence

\* applyResolvedAddress: the city is overwritten, and the country filled in when
\* none was chosen.
Resolved(n) ==
    [postal EXCEPT !.city = lookup[n].code, !.status = "ok",
                   !.country = IF @ = "" THEN "IN" ELSE @]

AnswerArrives(n) ==
    /\ lookup[n].at = "answered"
    /\ lookup' = [lookup EXCEPT ![n].at = "done"]
    /\ postal' = IF ~IsLatest(n) THEN postal
                 ELSE CASE lookup[n].answer = "found" -> Resolved(n)
                        [] lookup[n].answer = "unavailable" -> [postal EXCEPT !.status = "none"]
                        [] OTHER -> [postal EXCEPT !.status = "error"]
    /\ UNCHANGED <<shop, sequence, timer, cache, edits>>

-----------------------------------------------------------------------------
(* The server. *)

\* modules/postal lookup: no record is "not found", and the merchant's own rules
\* come after.
Verdict(code, entry) ==
    IF entry = "null" THEN "not_found"
    ELSE IF code \in Blocked THEN "not_serviceable" ELSE "found"

\* remember: an entry answers at once, "null" included; without one it is computed.
ServeLookup(n) ==
    LET code == lookup[n].code IN
    /\ lookup[n].at = "sent"
    /\ lookup' = IF cache[code] = "absent"
                 THEN [lookup EXCEPT ![n].at = "computing"]
                 ELSE [lookup EXCEPT ![n].at = "answered",
                                     ![n].answer = Verdict(code, cache[code])]
    /\ UNCHANGED <<shop, postal, sequence, timer, cache, edits>>

Computed(n, entry) ==
    /\ lookup[n].at = "computing"
    /\ cache' = [cache EXCEPT ![lookup[n].code] = entry]
    /\ lookup' = [lookup EXCEPT ![n].at = "answered",
                                ![n].answer = Verdict(lookup[n].code, entry)]
    /\ UNCHANGED <<shop, postal, sequence, timer>>

\* lookupPostalCode answers, and remember keeps the answer for thirty days.
ProviderAnswers(n) ==
    /\ Computed(n, IF lookup[n].code \in Known THEN "record" ELSE "null")
    /\ UNCHANGED edits

\* The provider is down or slow: lookupPostalCode catches it and returns null, which
\* is kept just the same.
ProviderFails(n) == Edit /\ Computed(n, "null")

LookupInit ==
    /\ shop \in [country : Countries, offers : SUBSET Countries]
    /\ postal = [code |-> "", country |-> "", city |-> "", status |-> "none"]
    /\ sequence = 0 /\ timer = NoTimer
    /\ lookup = [n \in Lookups |-> Idle]
    /\ cache = [c \in Codes |-> "absent"]
    /\ edits = 0

LookupNext ==
    \/ TypeCode \/ ChooseCountry \/ TypeCity \/ TimerFires
    \/ \E n \in Lookups : \/ LookupTimesOut(n) \/ AnswerArrives(n)
                          \/ ServeLookup(n) \/ ProviderAnswers(n) \/ ProviderFails(n)

\* What happens by itself: a timer fires, the server answers (3.5 s for the
\* provider), an answer is handled.
LookupProgress ==
    \/ TimerFires
    \/ \E n \in Lookups : ServeLookup(n) \/ ProviderAnswers(n) \/ AnswerArrives(n)

LookupFairness == WF_lvars(LookupProgress)

LookupSpec == LookupInit /\ [][LookupNext]_lvars /\ LookupFairness

-----------------------------------------------------------------------------
(* What makes the lookup correct. *)

Quiet == timer = NoTimer /\ \A n \in Lookups : lookup[n].at \in {"none", "done"}

\* A shop in India whose form sends the shopper nowhere else.
Domestic == shop.country = "IN" /\ "XX" \notin shop.offers

\* However slow and reordered the answers are, once they are all in, a complete code
\* with an area under it has that area's city beside it, unless the shopper typed
\* their own (the sequence number of runPostalLookup).
ResolvedIsForCode ==
    (Domestic /\ Quiet /\ postal.code \in Codes /\ postal.status = "ok")
        => postal.city \in {postal.code, "typed"}

\* "Checking..." does not stay. Where another country can be chosen it can: the
\* lookup is superseded by one whose timer a code of that country clears.
CheckingEnds ==
    Domestic => ((postal.status = "checking") ~> (postal.status # "checking"))
=============================================================================
