---------------------------- MODULE BrowserPixels ----------------------------
(***************************************************************************)
(* The pixel bundle of the storefront (pixels.ts) and the queue that       *)
(* codflow.js and form.ts fill before it has loaded: which ad-platform     *)
(* tag on the page hears of which event.                                   *)
(*                                                                         *)
(* One page view. The bundle is fetched while the shopper already acts,    *)
(* and the shopper answers the merchant's consent banner at any time, and  *)
(* may change the answer. An event stands for its eventId.                 *)
(***************************************************************************)
EXTENDS Naturals, Sequences

CONSTANTS
    Tags,       \* the pixels of the config, in its order: a sequence of IsTag
    Orders,     \* the orders that may be announced: each a PURCHASE of its own
    MaxConsents \* bound on the answers to the banner

Browsing == {"PAGE_VIEW", "VIEW_CONTENT", "INITIATE_CHECKOUT"}

\* An event is its name and, for a PURCHASE, its order; 0 stands for none.
Events == [name : Browsing, order : {0}] \cup [name : {"PURCHASE"}, order : Orders]
EventNames == Browsing \cup {"PURCHASE"}

\* "names" are the events PROVIDER_EVENT_NAMES knows for the tag's provider; "gtm"
\* is a Google tag in a Tag Manager container, "label" one with a conversion label.
IsTag(t) ==
    t \in [provider : {"META", "TIKTOK", "GOOGLE_ADS", "SNAPCHAT", "PINTEREST", "CUSTOM"},
           requireConsent : BOOLEAN, enabled : SUBSET EventNames, names : SUBSET EventNames,
           gtm : BOOLEAN, label : BOOLEAN]

ASSUME PixelsAssumption ==
    /\ \A i \in 1..Len(Tags) : IsTag(Tags[i])
    /\ 0 \notin Orders /\ MaxConsents \in Nat

Pixels == 1..Len(Tags)

VARIABLES
    started,    \* init has run
    queue,      \* CodFlowPixelQueue: what was announced before that
    tracking,   \* [sent, loaded, deferred]: the bundle's own record of what it did
    consent,    \* the visitor's marketing consent: [granted, answers]
    heard,      \* how often each tag was told of each event
    unconsented \* <<tag, event>> told while the tag asked for consent and had none

pvars == <<started, queue, tracking, consent, heard, unconsented>>

ADDRESSABLE(provider) == provider \in {"META", "TIKTOK", "GOOGLE_ADS"}

\* The key an event has in "sent": per pixel where the SDK can address one, per
\* provider (pixel 0) where it cannot.
Keys == {t.provider : t \in {Tags[i] : i \in 1..Len(Tags)}} \X (Pixels \cup {0}) \X Events

PixelsTypeOK ==
    /\ started \in BOOLEAN
    /\ queue \in Seq(Events)
    /\ tracking.sent \subseteq Keys
    /\ tracking.loaded \subseteq Pixels
    /\ tracking.deferred \in Seq(Events)
    /\ consent \in [granted : BOOLEAN, answers : 0..MaxConsents]
    /\ heard \in [Pixels -> [Events -> Nat]]
    /\ unconsented \subseteq Pixels \X Events

-----------------------------------------------------------------------------
(* One event through every pixel. The loops carry everything they change:    *)
(* sent, loaded, deferred, heard and unconsented, and the consent they read. *)

Page(granted) == [sent |-> tracking.sent, loaded |-> tracking.loaded,
                  deferred |-> tracking.deferred, held |-> FALSE, granted |-> granted,
                  heard |-> heard, unconsented |-> unconsented]

Becomes(s) ==
    /\ tracking' = [sent |-> s.sent, loaded |-> s.loaded, deferred |-> s.deferred]
    /\ heard' = s.heard /\ unconsented' = s.unconsented

\* Mutant: consent is not asked for.
IgnoresConsent(t, e, granted) ==
    IF t.enabled # {} /\ e.name \notin t.enabled THEN "not-enabled"
    ELSE IF e.name \notin t.names THEN "unsupported" ELSE "send"

\* eligibility: the server's gates, in their order.
eligibility(t, e, granted) ==
    IF t.requireConsent /\ ~granted THEN "no-consent"
    ELSE IF t.enabled # {} /\ e.name \notin t.enabled THEN "not-enabled"
    ELSE IF e.name \notin t.names THEN "unsupported" ELSE "send"

sentKey(i, e) == <<Tags[i].provider, IF ADDRESSABLE(Tags[i].provider) THEN i ELSE 0, e>>

\* The SDKs' side: which of the initialised tags hear a call made for pixel i. Meta
\* and TikTok address the one; Snapchat's and Pinterest's call goes to all of theirs.
\* Google's goes to the account and label, to every container through the one
\* dataLayer, or to nobody without a label.
trackMeta(i, loaded) == {i}
trackTikTok(i, loaded) == {i}
trackSnapchat(i, loaded) == {j \in loaded : Tags[j].provider = "SNAPCHAT"}
trackPinterest(i, loaded) == {j \in loaded : Tags[j].provider = "PINTEREST"}
trackGoogle(i, loaded) ==
    IF Tags[i].gtm THEN {j \in loaded : Tags[j].gtm} ELSE IF Tags[i].label THEN {i} ELSE {}

Reached(i, loaded) ==
    CASE Tags[i].provider = "META"       -> trackMeta(i, loaded)
      [] Tags[i].provider = "TIKTOK"     -> trackTikTok(i, loaded)
      [] Tags[i].provider = "SNAPCHAT"   -> trackSnapchat(i, loaded)
      [] Tags[i].provider = "PINTEREST"  -> trackPinterest(i, loaded)
      [] Tags[i].provider = "GOOGLE_ADS" -> trackGoogle(i, loaded)
      [] OTHER -> {}

\* ensureLoaded and send: a tag is initialised on the first event sent for it. A tag that is
\* called is taken to hear: what a provider's own code throws (send's catch) is outside.
send(s, i, e) ==
    LET loaded == s.loaded \cup {i}
        ears == Reached(i, loaded)
    IN [s EXCEPT !.sent = @ \cup {sentKey(i, e)},
                 !.loaded = loaded,
                 !.heard = [j \in Pixels |-> [f \in Events |->
                              s.heard[j][f] + (IF j \in ears /\ f = e THEN 1 ELSE 0)]],
                 !.unconsented = @ \cup
                     ({j \in ears : Tags[j].requireConsent /\ ~s.granted} \X {e})]

\* One turn of the loop of emit: the pixel i.
OnePixel(s, i, e) ==
    LET verdict == eligibility(Tags[i], e, s.granted) IN
    IF sentKey(i, e) \in s.sent THEN s
    ELSE IF verdict = "no-consent" THEN [s EXCEPT !.held = TRUE]
    ELSE IF verdict = "send" THEN send(s, i, e) ELSE s

\* emit: the pixels of the config in turn; an event that some pixel may not hear
\* yet is held, once.
ForEachPixel(s, e) ==
    LET upTo[i \in 0..Len(Tags)] ==
            IF i = 0 THEN [s EXCEPT !.held = FALSE] ELSE OnePixel(upTo[i - 1], i, e)
    IN upTo[Len(Tags)]

emit(s, e) ==
    LET after == ForEachPixel(s, e) IN
    IF after.held /\ (\A k \in 1..Len(s.deferred) : s.deferred[k] # e)
    THEN [after EXCEPT !.deferred = Append(@, e)] ELSE after

emitAll(s, es) ==
    LET upTo[k \in 0..Len(es)] == IF k = 0 THEN s ELSE emit(upTo[k - 1], es[k])
    IN upTo[Len(es)]

PageEvent(name) == [name |-> name, order |-> 0]
Purchase(o) == [name |-> "PURCHASE", order |-> o]

-----------------------------------------------------------------------------
(* What happens on the page. *)

\* Mutant: init does not look at the queue.
IgnoresQueue == <<>>

\* What init finds in the queue.
Drained == queue

\* init, when the bundle has loaded: the page's own events, and then what was
\* announced meanwhile.
init ==
    /\ ~started
    /\ started' = TRUE /\ queue' = <<>>
    /\ Becomes(emitAll(Page(consent.granted),
                       <<PageEvent("PAGE_VIEW"), PageEvent("VIEW_CONTENT")>> \o Drained))
    /\ UNCHANGED consent

\* codflow:form:open or codflow:order:created: queued until init, heard after it.
Announce(e) ==
    /\ IF started THEN Becomes(emit(Page(consent.granted), e)) /\ UNCHANGED queue
       ELSE queue' = Append(queue, e) /\ UNCHANGED <<tracking, heard, unconsented>>
    /\ UNCHANGED <<started, consent>>

\* flushDeferred: what was held is emitted again.
flushDeferred(s) == emitAll([s EXCEPT !.deferred = <<>>], s.deferred)

\* The shopper answers the banner, or changes the answer, and Shopify says so.
AnswerBanner(granted) ==
    /\ consent.answers < MaxConsents /\ consent.granted # granted
    /\ consent' = [granted |-> granted, answers |-> consent.answers + 1]
    /\ IF started /\ granted THEN Becomes(flushDeferred(Page(granted)))
       ELSE UNCHANGED <<tracking, heard, unconsented>>
    /\ UNCHANGED <<started, queue>>

PixelsInit ==
    /\ started = FALSE /\ queue = <<>>
    /\ tracking = [sent |-> {}, loaded |-> {}, deferred |-> <<>>]
    /\ consent \in [granted : BOOLEAN, answers : {0}]
    /\ heard = [i \in Pixels |-> [e \in Events |-> 0]]
    /\ unconsented = {}

PixelsOwnNext == init \/ \E granted \in BOOLEAN : AnswerBanner(granted)

PixelsNext == PixelsOwnNext \/ \E e \in Events : e.name \notin {"PAGE_VIEW", "VIEW_CONTENT"} /\ Announce(e)

-----------------------------------------------------------------------------
(* What makes the pixels correct. *)

\* The tags a call can be made for alone, and that report anything at all.
Alone(i) == ADDRESSABLE(Tags[i].provider) /\ ~Tags[i].gtm /\ Tags[i].label

\* However often an event is announced, held and replayed, no tag counts it twice
\* (sentKey, the queue and its sink). Two Tag Manager containers do: they read what
\* is pushed for each other.
HeardOnce == \A i \in Pixels, e \in Events : ~Tags[i].gtm => heard[i][e] <= 1

\* A tag that waits for consent hears nothing before the shopper gave it, whatever
\* was queued or held meanwhile, and no tag hears an event its merchant switched
\* off: of the providers that can address one tag (eligibility). For Snapchat,
\* Pinterest and Tag Manager neither holds: a call for one tag reaches the others.
GatesHold ==
    \A i \in Pixels : Alone(i) =>
        /\ \A e \in Events : <<i, e>> \notin unconsented
        /\ \A e \in Events : (Tags[i].enabled # {} /\ e.name \notin Tags[i].enabled)
                                => heard[i][e] = 0

\* A sale is not lost to a bundle that loads late or to a banner answered late: once
\* the bundle has started, every tag that may hear of an announced order has
\* (the queue; deferred).
SaleIsHeard(announced) ==
    started =>
        \A o \in announced, i \in Pixels :
            (/\ Alone(i)
             /\ eligibility(Tags[i], Purchase(o), consent.granted) = "send")
                => heard[i][Purchase(o)] = 1
=============================================================================
