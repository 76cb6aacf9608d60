----------------------------- MODULE Storefront -----------------------------
(***************************************************************************)
(* The storefront's scripts on a product page. The order form and the      *)
(* pixels are composed: what the form announces on the document is what    *)
(* the pixel bundle queues or hears, in the same step. The buttons and the *)
(* postal lookup share nothing with them but the page, so a behaviour is   *)
(* of one of the three, which "part" names.                                *)
(***************************************************************************)
EXTENDS StorefrontButtons, CodForm, AddressLookup, BrowserPixels

VARIABLE part

svars == <<part, bvars, fvars, lvars, pvars>>

\* Whatever order is posted may be announced.
ASSUME StorefrontAssumption == Requests \subseteq Orders

\* What a step of the form announced, as the pixels name it.
Announced ==
    LET e == emitted'[Len(emitted')]
    IN IF e = 0 THEN PageEvent("INITIATE_CHECKOUT") ELSE Purchase(e)

FormStep ==
    /\ part = "form"
    /\ FormNext
    /\ IF emitted' = emitted THEN UNCHANGED pvars ELSE Announce(Announced)
    /\ UNCHANGED <<part, bvars, lvars>>

PixelStep ==
    /\ part = "form" /\ ~left
    /\ PixelsOwnNext
    /\ UNCHANGED <<part, bvars, fvars, lvars>>

ButtonsStep == part = "buttons" /\ ButtonsNext /\ UNCHANGED <<part, fvars, lvars, pvars>>
LookupStep == part = "lookup" /\ LookupNext /\ UNCHANGED <<part, bvars, fvars, pvars>>

StorefrontInit ==
    /\ part \in {"form", "buttons", "lookup"}
    /\ ButtonsInit /\ FormInit /\ LookupInit /\ PixelsInit
    \* The parts that do not run start in one state.
    /\ part # "buttons" => server = (CHOOSE c \in Configs : TRUE) /\ dom = BlankDom(TRUE, "mobile")
    /\ part # "lookup" => shop = [country |-> "IN", offers |-> {}]
    /\ part # "form" => ~consent.granted

StorefrontNext == FormStep \/ PixelStep \/ ButtonsStep \/ LookupStep

StorefrontFairness ==
    /\ WF_fvars(part = "form" /\ FormProgress)
    /\ WF_bvars(part = "buttons" /\ ButtonsProgress)
    /\ WF_lvars(part = "lookup" /\ LookupProgress)

StorefrontSpec == StorefrontInit /\ [][StorefrontNext]_svars /\ StorefrontFairness

\* Every order the shopper saw confirmed on a page that has started its pixels is
\* reported to every tag that may hear of it, once, whether it was announced before
\* the bundle came, while the banner was unanswered, or twice because two forms
\* were answered with the same order (form.ts, pixels.ts).
Confirmed == {emitted[i] : i \in 1..Len(emitted)} \ {0}
SaleHeardOnce == SaleIsHeard(Confirmed) /\ HeardOnce

\* Nothing the shopper waits for stays: a submission, a placeholder, a lookup.
WaitsEnd == ButtonComesBack /\ SpinnerEnds /\ CheckingEnds
=============================================================================
