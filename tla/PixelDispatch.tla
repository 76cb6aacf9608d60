---------------------------- MODULE PixelDispatch ----------------------------
(***************************************************************************)
(* The sale the server tells the ad platforms (modules/pixels/dispatcher,  *)
(* jobs/dispatchPixel, pixels/providers), and the pixels a merchant sets   *)
(* up for it (modules/pixels/service). The pixels of one dispatch run side *)
(* by side; an order has one PURCHASE job, which is run again while a      *)
(* platform's failure may pass.                                            *)
(***************************************************************************)
EXTENDS Integers, FiniteSets, FiniteSetsExt

CONSTANTS
    Pixels,      \* the pixels a shop may have
    Platforms,   \* the platforms of its first pixel
    PixelTabs,   \* admin requests at once
    Edits,       \* the updates a merchant may send
    PlanPixels,  \* how many the plan includes
    MaxRuns,     \* BullMQ attempts
    MaxChanges,  \* bound on admin requests
    MaxLosses    \* bound on crashes, lost answers and failed writes

ASSUME PixelAssumption ==
    Pixels \subseteq Nat \ {0} /\ IsFiniteSet(Pixels) /\ PlanPixels \in Nat /\ MaxRuns \in Nat \ {0} /\ MaxChanges \in Nat /\ MaxLosses \in Nat

VARIABLES
    pixel,     \* the Pixel rows
    sale,      \* the order: [consent], and whether the plan has server-side tracking
    job,       \* its PURCHASE job: [at, runs]
    leg,       \* per pixel: where its part of the dispatch stands
    heard,     \* per pixel: how often the platform took the sale
    logged,    \* per pixel: PixelEvent rows that say SENT
    total,     \* per pixel: totalSent
    books,     \* [sent, metered]: the day's counter and the month's usage
    unsure,    \* per pixel: was the platform told and no row written, or none asked for?
    tab,       \* per admin request: where it stands
    changes, losses

xvars == <<pixel, sale, job, leg, heard, logged, total, books, unsure, tab, changes, losses>>

Providers == {"META", "TIKTOK", "GOOGLE_ADS", "SNAPCHAT", "PINTEREST", "CUSTOM"}
NoPixel == [exists |-> FALSE, provider |-> "META", isEnabled |-> FALSE, server |-> FALSE,
           token |-> FALSE, dedup |-> TRUE, requireConsent |-> TRUE, reports |-> TRUE]
PixelRows == [exists : BOOLEAN, provider : Providers, isEnabled : BOOLEAN, server : BOOLEAN,
         token : BOOLEAN, dedup : BOOLEAN, requireConsent : BOOLEAN, reports : BOOLEAN]
\* What an update may write: a setting that is left out is written with its default, a
\* token that is left out stays, an empty one is cleared.
Updates == [isEnabled : BOOLEAN, server : BOOLEAN, dedup : BOOLEAN, requireConsent : BOOLEAN,
            reports : BOOLEAN, token : {"kept", "cleared", "given"}]
ASSUME EditsAssumption == Edits \subseteq Updates /\ Platforms \subseteq Providers
NoLeg == [at |-> "off", row |-> NoPixel, ok |-> FALSE, retriable |-> FALSE, took |-> FALSE]
Done == {"sent", "skipped", "retriable", "failed"}
NoTab == [at |-> "idle", p |-> Min(Pixels), row |-> NoPixel, token |-> "kept"]
MaxTold == MaxRuns + MaxLosses

PixelTypeOK ==
    /\ pixel \in [Pixels -> PixelRows]
    /\ sale \in [consent : BOOLEAN, serverSideTracking : BOOLEAN]
    /\ job \in [at : {"waiting", "active", "kept", "failed"}, runs : 0..MaxRuns]
    /\ leg \in [Pixels -> [at : {"off", "gates", "send", "log", "count"} \cup Done, row : PixelRows,
                           ok : BOOLEAN, retriable : BOOLEAN, took : BOOLEAN]]
    /\ heard \in [Pixels -> 0..MaxTold] /\ logged \in [Pixels -> 0..MaxTold]
    /\ total \in [Pixels -> 0..MaxTold]
    /\ books \in [sent : Nat, metered : Nat]
    /\ unsure \in [Pixels -> BOOLEAN]
    /\ tab \in [PixelTabs -> [at : {"idle", "create", "update"}, p : Pixels, row : PixelRows,
                             token : {"kept", "cleared", "given"}]]
    /\ changes \in 0..MaxChanges /\ losses \in 0..MaxLosses

-----------------------------------------------------------------------------
(* The platforms. An answer is whether the call is taken for a success,    *)
(* whether it may pass on another attempt, and what the platform did.      *)

reply(ok, retriable, took) == [ok |-> ok, retriable |-> retriable, took |-> took]
Accepted == reply(TRUE, FALSE, TRUE)

\* A status is a success, a failure that may pass, or one that will not.
classify == {Accepted, reply(FALSE, TRUE, FALSE), reply(FALSE, FALSE, FALSE)}

\* A call that ends without an answer may have been taken.
networkFailure == {reply(FALSE, TRUE, took) : took \in BOOLEAN}

\* Nothing is called without a credential, and trying again will not find one.
Unconfigured == {reply(FALSE, FALSE, FALSE)}
metaSend(row) == IF ~row.token THEN Unconfigured ELSE classify \cup networkFailure
snapchatSend(row) == IF ~row.token THEN Unconfigured ELSE classify \cup networkFailure
pinterestSend(row) == IF ~row.token THEN Unconfigured ELSE classify \cup networkFailure

\* A refusal in the body of a 200 is a refusal.
tiktokSend(row) ==
    IF ~row.token THEN Unconfigured
    ELSE classify \cup networkFailure \cup {reply(FALSE, retriable, FALSE) : retriable \in BOOLEAN}

\* The conversion's label stands in for the token; any 204 is taken for a success.
googleAdsSend(row) == classify \cup networkFailure

\* An endpoint of the merchant's, whose https address was checked when it was saved.
customSend(row) == classify \cup networkFailure

send(row) ==
    CASE row.provider = "META" -> metaSend(row)
      [] row.provider = "TIKTOK" -> tiktokSend(row)
      [] row.provider = "SNAPCHAT" -> snapchatSend(row)
      [] row.provider = "PINTEREST" -> pinterestSend(row)
      [] row.provider = "GOOGLE_ADS" -> googleAdsSend(row)
      [] row.provider = "CUSTOM" -> customSend(row)

-----------------------------------------------------------------------------
(* One run of the job. *)

Loss == losses < MaxLosses /\ losses' = losses + 1
Leg(p, at) == leg' = [leg EXCEPT ![p].at = at]
Frame == UNCHANGED <<pixel, sale, tab, changes>>

listServerSidePixels == {p \in Pixels : pixel[p].exists /\ pixel[p].isEnabled /\ pixel[p].server}

dispatch ==
    /\ job.at = "waiting"
    /\ job' = [at |-> IF listServerSidePixels = {} THEN "kept" ELSE "active", runs |-> job.runs + 1]
    /\ leg' = [p \in Pixels |-> IF p \in listServerSidePixels
                                THEN [NoLeg EXCEPT !.at = "gates", !.row = pixel[p]] ELSE NoLeg]
    /\ Frame /\ UNCHANGED <<heard, logged, total, books, unsure, losses>>

consentAllows(row) == row.requireConsent => sale.consent
alreadyDispatched(p) == logged[p] > 0

\* Mutant: a retry does not ask which pixels have the event.
ForgetsDelivery(p, row) == ~consentAllows(row) \/ ~row.reports

\* What stops an event before it is sent.
Stopped(p, row) == ~consentAllows(row) \/ ~row.reports \/ (row.dedup /\ alreadyDispatched(p))

Rejected(p) == Leg(p, "retriable") /\ IF pixel[p].exists THEN Loss ELSE UNCHANGED losses

\* An event that is stopped is logged too. The look at what is logged may fail.
Gates(p) ==
    /\ leg[p].at = "gates"
    /\ IF Stopped(p, leg[p].row)
       THEN \/ pixel[p].exists /\ Leg(p, "skipped") /\ UNCHANGED losses
            \/ Rejected(p)
       ELSE \/ Leg(p, "send") /\ UNCHANGED losses
            \/ leg[p].row.dedup /\ Leg(p, "retriable") /\ Loss
    /\ Frame /\ UNCHANGED <<job, heard, logged, total, books, unsure>>

Send(p) ==
    /\ leg[p].at = "send"
    /\ \E a \in send(leg[p].row) :
        /\ leg' = [leg EXCEPT ![p] = [leg[p] EXCEPT !.at = "log", !.ok = a.ok,
                                                    !.retriable = a.retriable, !.took = a.took]]
        /\ heard' = [heard EXCEPT ![p] = IF a.took THEN @ + 1 ELSE @]
        /\ IF a.took /\ ~a.ok THEN Loss ELSE UNCHANGED losses
        /\ unsure' = [unsure EXCEPT ![p] = @ \/ (a.took /\ ~(a.ok /\ leg[p].row.dedup))]
    /\ Frame /\ UNCHANGED <<job, logged, total, books>>

\* A row that cannot be written, as when the pixel is gone, fails the pixel's part.
logEvent(p) ==
    /\ leg[p].at = "log"
    /\ \/ /\ pixel[p].exists /\ Leg(p, "count") /\ UNCHANGED <<losses, unsure>>
          /\ logged' = [logged EXCEPT ![p] = IF leg[p].ok THEN @ + 1 ELSE @]
       \/ /\ Rejected(p) /\ UNCHANGED logged
          /\ unsure' = [unsure EXCEPT ![p] = @ \/ leg[p].took]
    /\ Frame /\ UNCHANGED <<job, heard, total, books>>

Outcome(l) == IF l.ok THEN "sent" ELSE IF l.retriable THEN "retriable" ELSE "failed"

recordDispatchOutcome(p) ==
    /\ leg[p].at = "count"
    /\ Leg(p, IF pixel[p].exists THEN Outcome(leg[p]) ELSE "retriable")
    /\ total' = [total EXCEPT ![p] = IF pixel[p].exists /\ leg[p].ok THEN @ + 1 ELSE @]
    /\ Frame /\ UNCHANGED <<job, heard, logged, books, unsure, losses>>

With(outcomes) == Cardinality({p \in Pixels : leg[p].at \in outcomes})

\* The run is counted, and the job is run again while a failure may pass.
Settle ==
    /\ job.at = "active" /\ \A p \in Pixels : leg[p].at \in Done \cup {"off"}
    /\ books' = [sent |-> books.sent + With({"sent"}),
                 metered |-> books.metered + With({"sent", "retriable", "failed"})]
    /\ job' = [job EXCEPT !.at = IF With({"retriable"}) = 0 THEN "kept"
                                 ELSE IF job.runs < MaxRuns THEN "waiting" ELSE "failed"]
    /\ leg' = [p \in Pixels |-> NoLeg]
    /\ Frame /\ UNCHANGED <<heard, logged, total, unsure, losses>>

\* The worker dies: what was sent and not logged is forgotten.
Dies ==
    /\ job.at = "active" /\ Loss
    /\ job' = [job EXCEPT !.at = IF job.runs < MaxRuns THEN "waiting" ELSE "failed"]
    /\ unsure' = [p \in Pixels |-> unsure[p] \/ (leg[p].at = "log" /\ leg[p].took)]
    /\ leg' = [p \in Pixels |-> NoLeg]
    /\ Frame /\ UNCHANGED <<heard, logged, total, books>>

-----------------------------------------------------------------------------
(* The merchant's pixels. A request checks the row it reads and writes     *)
(* later; whether the server side may be on at all is only asked when a    *)
(* pixel is made.                                                          *)

needsToken(provider) == provider \notin {"GOOGLE_ADS", "CUSTOM"}

assertCoherent(row, had) == row.server /\ needsToken(row.provider) => row.token

assertFeature(row) == row.server => sale.serverSideTracking
assertCanCreate == Cardinality({p \in Pixels : pixel[p].exists}) < PlanPixels

Change(t) == tab[t].at = "idle" /\ changes < MaxChanges /\ changes' = changes + 1
Unmoved == UNCHANGED <<sale, job, leg, heard, logged, total, books, unsure, losses>>

createPixel(t, p, row) ==
    /\ Change(t) /\ ~pixel[p].exists /\ logged[p] = 0
    /\ assertCoherent(row, FALSE) /\ assertCanCreate /\ assertFeature(row)
    /\ tab' = [tab EXCEPT ![t] = [NoTab EXCEPT !.at = "create", !.p = p, !.row = row]]
    /\ UNCHANGED pixel /\ Unmoved

toColumns(row, u) ==
    [row EXCEPT !.isEnabled = u.isEnabled, !.server = u.server, !.dedup = u.dedup,
                !.requireConsent = u.requireConsent, !.reports = u.reports,
                !.token = IF u.token = "kept" THEN @ ELSE u.token = "given"]

updatePixel(t, p, u) ==
    /\ Change(t) /\ pixel[p].exists
    /\ LET row == toColumns(pixel[p], u)
       IN /\ assertCoherent(row, pixel[p].token)
          /\ tab' = [tab EXCEPT ![t] = [at |-> "update", p |-> p, row |-> row, token |-> u.token]]
    /\ UNCHANGED pixel /\ Unmoved

\* The columns the request gave are written over the row as it is now.
WritePixel(t) ==
    LET new == tab[t].row
        old == pixel[tab[t].p]
    IN /\ tab[t].at # "idle"
       /\ pixel' = [pixel EXCEPT ![tab[t].p] =
              IF tab[t].at = "create" THEN new
              ELSE IF ~old.exists THEN old
              ELSE [new EXCEPT !.token = IF tab[t].token = "kept" THEN old.token ELSE @]]
       /\ tab' = [tab EXCEPT ![t] = NoTab]
       /\ UNCHANGED changes /\ Unmoved

deletePixel(t, p) ==
    /\ Change(t) /\ pixel[p].exists
    /\ pixel' = [pixel EXCEPT ![p].exists = FALSE]
    /\ UNCHANGED tab /\ Unmoved

-----------------------------------------------------------------------------
Meta == [NoPixel EXCEPT !.exists = TRUE, !.isEnabled = TRUE, !.server = TRUE, !.token = TRUE]
Of(provider, dedup, requireConsent) ==
    [Meta EXCEPT !.provider = provider, !.dedup = dedup, !.requireConsent = requireConsent,
                 !.token = needsToken(provider)]

\* A shop with one pixel, or that and one of Meta's.
PixelsInit ==
    /\ \E platform \in Platforms, dedup, both \in BOOLEAN :
        pixel = [p \in Pixels |-> IF p = Min(Pixels) THEN Of(platform, dedup, TRUE)
                                  ELSE [Of("META", TRUE, FALSE) EXCEPT !.exists = both]]
    /\ sale \in [consent : BOOLEAN, serverSideTracking : BOOLEAN]
    /\ job = [at |-> "waiting", runs |-> 0]
    /\ leg = [p \in Pixels |-> NoLeg]
    /\ heard = [p \in Pixels |-> 0] /\ logged = [p \in Pixels |-> 0]
    /\ total = [p \in Pixels |-> 0] /\ books = [sent |-> 0, metered |-> 0]
    /\ unsure = [p \in Pixels |-> FALSE]
    /\ tab = [t \in PixelTabs |-> NoTab]
    /\ changes = 0 /\ losses = 0

Dispatching ==
    \/ dispatch \/ Settle
    \/ \E p \in Pixels : Gates(p) \/ Send(p) \/ logEvent(p) \/ recordDispatchOutcome(p)

PixelsNext ==
    \/ Dispatching \/ Dies
    \/ \E t \in PixelTabs :
        \/ WritePixel(t)
        \/ \E p \in Pixels :
            \/ createPixel(t, p, Of("META", TRUE, TRUE))
            \/ deletePixel(t, p)
            \/ \E u \in Edits : updatePixel(t, p, u)

\* The worker runs what is queued, and every call it makes ends.
PixelsSpec == PixelsInit /\ [][PixelsNext]_xvars /\ WF_xvars(Dispatching)

-----------------------------------------------------------------------------
(* Properties. *)

\* A platform hears of a sale once, over every retry the other pixels cause, unless it
\* was told with deduplication off, or told and the row that says so never written.
SaleToldOnce == \A p \in Pixels : ~unsure[p] => heard[p] =< 1

\* The rows that say SENT, one by one.
SentRows == UNION {{p} \X (1..logged[p]) : p \in Pixels}

\* What the merchant is shown never exceeds what the platforms took.
BooksMatch ==
    /\ \A p \in Pixels : total[p] =< logged[p] /\ logged[p] =< heard[p]
    /\ books.sent =< Cardinality(SentRows)

\* A pixel that reports from the server has what it needs to do so, as long as one
\* request changes it at a time: the check is made on the row as it was read.
ServerSideHasToken ==
    \A p \in Pixels : pixel[p].exists => assertCoherent(pixel[p], FALSE)

\* The ad platforms and the merchant are told the truth of a sale (dispatcher.ts,
\* dispatchPixel.ts, pixels/service.ts).
PixelsTellTheTruth == SaleToldOnce /\ BooksMatch /\ ServerSideHasToken

\* The sale's job ends, whatever the platforms answer.
DispatchEnds == <>[](job.at \in {"kept", "failed"})
=============================================================================
