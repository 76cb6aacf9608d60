------------------------------ MODULE MCOrders ------------------------------
(***************************************************************************)
(* An order on its way from the dialog to Shopify: what the shopper enters *)
(* and the server makes of it, and the push of what was stored, whose job  *)
(* may run twice at once. Each takes the other's rows as given, so a       *)
(* behaviour is of one of the two, which "part" names.                     *)
(***************************************************************************)
EXTENDS MCOrderPush, FormSamples

CONSTANT Parts  \* the parts an instance is of

VARIABLE part

\* The forms and offers are such as the dialog's promises are about.
ASSUME SoundAssumption == FormAssumption /\ FormsAreSound

ordersVars == <<part, evars, vars>>

FormStep == part = "form" /\ FormNext /\ UNCHANGED <<part, vars>>
PushingStep == part = "push" /\ Next /\ UNCHANGED <<part, evars>>

\* The part that does not run rests in one state: beside the dialog no order is queued.
OrdersInit ==
    /\ part \in Parts
    /\ Init /\ (part = "form" => createAsDraftOrder /\ \A o \in Orders : riskAction[o] = "REVIEW" /\ ~otpRequired[o])
    /\ FormInit /\ (part = "push" => form = Short /\ page.currency = "JPY")

OrdersNext == FormStep \/ PushingStep

OrdersSpec == OrdersInit /\ [][OrdersNext]_ordersVars

\* The push is as fair as in its own module, while it is the part that runs.
OrdersFairness ==
    /\ \A w \in Workers : WF_vars(part = "push" /\ WorkerStep(w))
    /\ \A o \in Orders : WF_vars(part = "push" /\ Abandoned(o) /\ Stall(o))
    /\ \A r \in Requests : WF_vars(part = "push" /\ RequestStepOf(r))

FairOrdersSpec == OrdersSpec /\ OrdersFairness
=============================================================================
