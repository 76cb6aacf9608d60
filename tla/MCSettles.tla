----------------------------- MODULE MCSettles -----------------------------
(***************************************************************************)
(* What must eventually happen, on instances small enough to say so:       *)
(* webhooks are applied, orders marked as being written come out of it,    *)
(* the sale's job ends, the desk's requests and scans end, and the list of *)
(* stuck orders comes to show what is stuck. A behaviour is of one of the  *)
(* five, which "part" names.                                               *)
(***************************************************************************)
EXTENDS SheetSync

CONSTANTS o1, w1, Deliveries, Procs, Topics  \* an order, the worker, and those of the webhooks

VARIABLES
    part,
    inShopify, happened, topic, about, says, receipt, linked, stage, stamped, counted, step, handling,
    applying, saw,
    pixel, sale, job, leg, heard, logged, total, books, unsure, tab, changes, losses,
    placed, viewed, held, fetch, steady, gone, moves, looks,
    config, order, ip, scan, push, request, missed, asked, faults

-----------------------------------------------------------------------------
Browser == [isEnabled |-> TRUE, server |-> FALSE, dedup |-> TRUE, requireConsent |-> TRUE,
            reports |-> TRUE, token |-> "kept"]
Pixels == INSTANCE PixelDispatch WITH
    Pixels <- {1, 2}, Platforms <- {"TIKTOK"}, PixelTabs <- {1}, PlanPixels <- 2, Edits <- {Browser},
    MaxRuns <- 2, MaxChanges <- 0, MaxLosses <- 1

Stuck == INSTANCE StuckOrders WITH
    Verdicts <- {"ALLOW"}, MaxOrders <- 2, PageSize <- 1, COUNT_CAP <- 1, MaxMoves <- 1, MaxLooks <- 2

\* One order, of a phone with a cancellation.
Rules == INSTANCE FraudRules
Found == [f \in Rules!Facts |-> IF f = "PRIOR_CANCELLATIONS" THEN 1 ELSE 0]
Desk == INSTANCE FraudDesk WITH
    Held <- {1}, PhoneOf <- [o \in {1} |-> "p"], FactsOf <- [o \in {1} |-> Found], Desks <- {1},
    Thresholds <- {30, 50}, ScanLimit <- 2, MaxDesk <- 1, MaxFaults <- 1

\* The webhooks about one order, beside an operator who replays them; the status of its
\* row and the steps of their handlers are named apart from the sheet's.
Hooks == INSTANCE OrderLifecycle WITH
    Orders <- {o1}, Replays <- TRUE, status <- stage, pc <- step

\* The sheet is the module extended: two orders, one worker, rows put at the top of one
\* spreadsheet, and nothing failing.
ASSUME SettlesAssumption == o1 \in Jobs /\ Workers = {w1} /\ ~Outages

-----------------------------------------------------------------------------
hookVars == <<inShopify, happened, topic, about, says, receipt, linked, stage, stamped, counted, step,
              handling, applying, saw>>
pixelVars == <<pixel, sale, job, leg, heard, logged, total, books, unsure, tab, changes, losses>>
stuckVars == <<placed, viewed, held, fetch, steady, gone, moves, looks>>
deskVars == <<config, order, ip, scan, push, request, missed, asked, faults>>
settleVars == <<part, vars, hookVars, pixelVars, stuckVars, deskVars>>

HookStep == part = "hooks" /\ Hooks!Next /\ UNCHANGED <<part, vars, pixelVars, stuckVars, deskVars>>
PixelStep == part = "pixels" /\ Pixels!PixelsNext /\ UNCHANGED <<part, vars, hookVars, stuckVars, deskVars>>
StuckStep == part = "stuck" /\ Stuck!StuckNext /\ UNCHANGED <<part, vars, hookVars, pixelVars, deskVars>>
DeskStep == part = "desk" /\ Desk!DeskNext /\ UNCHANGED <<part, vars, hookVars, pixelVars, stuckVars>>
SheetStep == part = "sheet" /\ Next /\ UNCHANGED <<part, hookVars, pixelVars, stuckVars, deskVars>>

\* The parts that do not run rest in one state each.
SettleInit ==
    /\ part \in {"hooks", "pixels", "stuck", "desk", "sheet"}
    /\ Hooks!Init /\ Stuck!StuckInit /\ Desk!DeskInit
    /\ Init /\ (part # "sheet" => target = Null)
    /\ Pixels!PixelsInit
    /\ part # "pixels" => pixel[1] = Pixels!Of("TIKTOK", TRUE, TRUE) /\ ~pixel[2].exists
                          /\ ~sale.consent /\ ~sale.serverSideTracking

SettleNext == HookStep \/ PixelStep \/ StuckStep \/ DeskStep \/ SheetStep

\* The fairness of each part's own specification, while it is the part that runs.
SettleFairness ==
    /\ \A d \in Deliveries : WF_hookVars(part = "hooks" /\ \E p \in Procs : Hooks!Receive(p, d))
    /\ \A p \in Procs : WF_hookVars(part = "hooks" /\ Hooks!Step(p))
    /\ WF_pixelVars(part = "pixels" /\ Pixels!Dispatching)
    /\ WF_stuckVars(part = "stuck" /\ Stuck!Polling)
    /\ WF_deskVars(part = "desk" /\ Desk!DeskWorks)
    /\ \A o \in Jobs : SF_vars(part = "sheet" /\ Start(w1, o))
    /\ WF_vars(part = "sheet" /\ Run(w1))
    /\ \A o \in Jobs : WF_vars(part = "sheet" /\ StallCheck(o))

SettleSpec == SettleInit /\ [][SettleNext]_settleVars /\ SettleFairness

-----------------------------------------------------------------------------
(* Properties: those of the parts, each stated where its module says why.  *)

\* A webhook about a linked order reaches its row (OrderLifecycle: ordersLifecycle.ts).
WebhookIsApplied == Hooks!WebhookIsApplied

\* What is asked of the desk ends, the sale's job ends, and the list of stuck orders
\* comes to show what is stuck (scanOrder.ts, dispatchPixel.ts, useOrders.ts).
OfficeSettles ==
    /\ part = "desk" => Desk!DeskSettles
    /\ part = "pixels" => Pixels!DispatchEnds
    /\ part = "stuck" => Stuck!ListSettles
=============================================================================
