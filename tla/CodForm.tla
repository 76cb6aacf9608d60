------------------------------- MODULE CodForm -------------------------------
(***************************************************************************)
(* The order form of the storefront (form.ts) in the dialog of codflow.js: *)
(* opening and closing it, loading its bundle and its definition,          *)
(* submitting an order, and handing the shopper over to Shopify.           *)
(*                                                                         *)
(* Every opening of the dialog mounts a new CodFormController into the     *)
(* same body; the controllers of earlier openings keep running, with their *)
(* requests and their polls. The server is what Submission shows of it: it *)
(* looks for an earlier order of the same shopper, and then stores.        *)
(***************************************************************************)
EXTENDS Naturals, Sequences

CONSTANTS
    MaxMounts,  \* bound on the openings of the dialog in one page view
    MaxReqs     \* bound on the orders posted

ASSUME FormAssumption ==
    MaxMounts \in Nat \ {0} /\ MaxReqs \in Nat \ {0}

Controllers == 1..MaxMounts
Requests == 1..MaxReqs

VARIABLES
    bundle,     \* formBundlePromise: "absent", "loading" or "loaded"
    form,       \* cachedForm: "none", or its token is "fresh" or "expired"
    dialog,     \* [open, body]: body is [kind, by], what the dialog shows and whose it is
    ctl,        \* the controllers, one per mount
    req,        \* the orders posted, as the browser and as the server see them
    orders,     \* the orders stored, each named after the request that stored it
    emitted,    \* what was announced on the document, in order
    left        \* the browser is on Shopify's order status page

fvars == <<bundle, form, dialog, ctl, req, orders, emitted, left>>

Shows(kind, by) == [kind |-> kind, by |-> by]
NoMount == [mount |-> "none", submitting |-> FALSE, hand |-> 0]
NoReq == [by |-> 0, client |-> "none", server |-> "none", order |-> 0]

FormTypeOK ==
    /\ bundle \in {"absent", "loading", "loaded"}
    /\ form \in {"none", "fresh", "expired"}
    /\ dialog \in [open : BOOLEAN,
                   body : [kind : {"nothing", "placeholder", "form", "success", "failed"},
                           by : Controllers \cup {0}]]
    /\ ctl \in [Controllers -> [mount : {"none", "waiting", "fetching", "form", "failed"},
                                submitting : BOOLEAN, hand : Requests \cup {0}]]
    /\ req \in [Requests -> [by : Controllers \cup {0},
                             client : {"none", "waiting", "answered", "gone"},
                             server : {"none", "sent", "looked", "stored", "refused"},
                             order : Requests \cup {0}]]
    /\ orders \subseteq Requests
    /\ emitted \in Seq({0} \cup Requests)
    /\ left \in BOOLEAN

\* "codflow:form:open" is announced as 0, "codflow:order:created" by its order.
Emits(event) == emitted' = Append(emitted, event)

-----------------------------------------------------------------------------
(* Opening, closing, mounting. *)

FreshMount == {m \in Controllers : ctl[m].mount = "none"
                                   /\ \A k \in Controllers : k < m => ctl[k].mount # "none"}

\* loadFormBundle: the promise of an earlier opening is used again.
loadFormBundle == bundle' = IF bundle = "absent" THEN "loading" ELSE bundle

\* openDialog: a placeholder at once, then the bundle, then a mount. The overlay
\* keeps the shopper from the page's buttons while the dialog is open.
OpenDialog ==
    /\ ~left /\ ~dialog.open
    /\ \E m \in FreshMount : ctl' = [ctl EXCEPT ![m].mount = "waiting"]
    /\ dialog' = [open |-> TRUE, body |-> Shows("placeholder", 0)]
    /\ loadFormBundle
    /\ Emits(0)
    /\ UNCHANGED <<form, req, orders, left>>

\* closeDialog hides the dialog; nothing that runs behind it is stopped.
CloseDialog ==
    /\ ~left /\ dialog.open
    /\ dialog' = [dialog EXCEPT !.open = FALSE]
    /\ UNCHANGED <<bundle, form, ctl, req, orders, emitted, left>>

BundleLoads ==
    /\ ~left /\ bundle = "loading"
    /\ bundle' = "loaded"
    /\ UNCHANGED <<form, dialog, ctl, req, orders, emitted, left>>

\* A bundle that fails to load: every opening that waits for it shows the retry
\* card, and the next opening loads it again.
BundleFails ==
    /\ ~left /\ bundle = "loading"
    /\ bundle' = "absent"
    /\ ctl' = [m \in Controllers |->
                 IF ctl[m].mount = "waiting" THEN [ctl[m] EXCEPT !.mount = "failed"] ELSE ctl[m]]
    /\ dialog' = [dialog EXCEPT !.body = Shows("failed", 0)]
    /\ UNCHANGED <<form, req, orders, emitted, left>>

\* CodFormController.render: the body is rebuilt for this controller, whatever it
\* showed.
Render(m) ==
    /\ ctl' = [ctl EXCEPT ![m].mount = "form"]
    /\ dialog' = [dialog EXCEPT !.body = Shows("form", m)]

\* mountForm, with the definition of this page view or without it.
MountForm(m) ==
    /\ ~left /\ bundle = "loaded" /\ ctl[m].mount = "waiting"
    /\ IF form = "none"
       THEN ctl' = [ctl EXCEPT ![m].mount = "fetching"] /\ UNCHANGED dialog
       ELSE Render(m)
    /\ UNCHANGED <<bundle, form, req, orders, emitted, left>>

FormArrives(m) ==
    /\ ~left /\ ctl[m].mount = "fetching"
    /\ form' = "fresh"
    /\ Render(m)
    /\ UNCHANGED <<bundle, req, orders, emitted, left>>

\* fetchForm throws: a card without a retry button.
FormFails(m) ==
    /\ ~left /\ ctl[m].mount = "fetching"
    /\ ctl' = [ctl EXCEPT ![m].mount = "failed"]
    /\ dialog' = [dialog EXCEPT !.body = Shows("failed", m)]
    /\ UNCHANGED <<bundle, form, req, orders, emitted, left>>

\* The token of the cached definition passes its thirty minutes. It is fetched
\* once per page view, so no reopening brings a fresh one.
TokenExpires ==
    /\ ~left /\ form = "fresh"
    /\ form' = "expired"
    /\ UNCHANGED <<bundle, dialog, ctl, req, orders, emitted, left>>

OnScreen(m) == dialog.open /\ dialog.body = Shows("form", m)

-----------------------------------------------------------------------------
(* Submitting. *)

FreshReq == {r \in Requests : req[r].client = "none"
                              /\ \A k \in Requests : k < r => req[k].client # "none"}

\* Mutant: no guard.
AlwaysSubmits(m) == TRUE

\* The guard of submit is the controller's own.
MaySubmit(m) == ~ctl[m].submitting

\* submit, the fields being valid: one order posted with the token
\* the definition came with.
Submit(m) ==
    /\ ~left /\ OnScreen(m) /\ MaySubmit(m)
    /\ \E r \in FreshReq :
          req' = [req EXCEPT ![r] = [by |-> m, client |-> "waiting",
                                     server |-> IF form = "expired" THEN "refused" ELSE "sent",
                                     order |-> 0]]
    /\ ctl' = [ctl EXCEPT ![m].submitting = TRUE]
    /\ UNCHANGED <<bundle, form, dialog, orders, emitted, left>>

\* The server (Submission): it looks for a recent order of the same shopper, and
\* answers with it; or it stores a new one in a later step; or it refuses.
ServerLooks(r) ==
    /\ req[r].server = "sent"
    /\ IF orders = {}
       THEN req' = [req EXCEPT ![r].server = "looked"]
       ELSE \E o \in orders : req' = [req EXCEPT ![r].server = "stored", ![r].order = o]
    /\ UNCHANGED <<bundle, form, dialog, ctl, orders, emitted, left>>

ServerStores(r) ==
    /\ req[r].server = "looked"
    /\ req' = [req EXCEPT ![r].server = "stored", ![r].order = r]
    /\ orders' = orders \cup {r}
    /\ UNCHANGED <<bundle, form, dialog, ctl, emitted, left>>

ServerRefuses(r) ==
    /\ req[r].server \in {"sent", "looked"}
    /\ req' = [req EXCEPT ![r].server = "refused"]
    /\ UNCHANGED <<bundle, form, dialog, ctl, orders, emitted, left>>

\* A 2xx whose body holds no error.
Accepted(r) == req[r].server = "stored"

\* The answer: the confirmation replaces whatever the body shows, the conversion
\* is announced, and the hand-off starts; or the message goes to the form that is
\* on screen now. finally gives the button back either way.
Answer(r) ==
    LET m == req[r].by IN
    /\ ~left /\ req[r].client = "waiting" /\ req[r].server \in {"stored", "refused"}
    /\ req' = [req EXCEPT ![r].client = "answered"]
    /\ IF Accepted(r)
       THEN /\ dialog' = [dialog EXCEPT !.body = Shows("success", m)]
            /\ Emits(req[r].order)
            /\ ctl' = [ctl EXCEPT ![m].submitting = FALSE, ![m].hand = req[r].order]
       ELSE /\ ctl' = [ctl EXCEPT ![m].submitting = FALSE]
            /\ UNCHANGED <<dialog, emitted>>
    /\ UNCHANGED <<bundle, form, orders, left>>

\* Mutant: no finally.
RequestFailsSilently(r) ==
    /\ ~left /\ req[r].client = "waiting"
    /\ req' = [req EXCEPT ![r].client = "gone"]
    /\ UNCHANGED <<bundle, form, dialog, ctl, orders, emitted, left>>

\* The request is lost or times out: the shopper is told so and may submit again,
\* whatever the server goes on to do with it.
RequestFails(r) ==
    /\ ~left /\ req[r].client = "waiting"
    /\ req' = [req EXCEPT ![r].client = "gone"]
    /\ ctl' = [ctl EXCEPT ![req[r].by].submitting = FALSE]
    /\ UNCHANGED <<bundle, form, dialog, orders, emitted, left>>

-----------------------------------------------------------------------------
(* The hand-off to Shopify. *)

\* A poll finds the order's status page: the browser goes there, whatever is on
\* screen.
Redirect(m) ==
    /\ ~left /\ ctl[m].hand # 0
    /\ left' = TRUE
    /\ UNCHANGED <<bundle, form, dialog, ctl, req, orders, emitted>>

\* The deadline of twenty seconds, or an answer of 4xx.
GiveUpPolling(m) ==
    /\ ~left /\ ctl[m].hand # 0
    /\ ctl' = [ctl EXCEPT ![m].hand = 0]
    /\ UNCHANGED <<bundle, form, dialog, req, orders, emitted, left>>

FormInit ==
    /\ bundle = "absent" /\ form = "none"
    /\ dialog = [open |-> FALSE, body |-> Shows("nothing", 0)]
    /\ ctl = [m \in Controllers |-> NoMount]
    /\ req = [r \in Requests |-> NoReq]
    /\ orders = {} /\ emitted = <<>> /\ left = FALSE

FormNext ==
    \/ OpenDialog \/ CloseDialog \/ BundleLoads \/ BundleFails \/ TokenExpires
    \/ \E m \in Controllers :
          \/ MountForm(m) \/ FormArrives(m) \/ FormFails(m)
          \/ Submit(m) \/ Redirect(m) \/ GiveUpPolling(m)
    \/ \E r \in Requests :
          \/ ServerLooks(r) \/ ServerStores(r) \/ ServerRefuses(r)
          \/ Answer(r) \/ RequestFails(r)

\* What happens by itself: a script element loads or fails, an XHR answers or times
\* out, a promise's continuation runs.
FormProgress ==
    \/ BundleLoads \/ BundleFails
    \/ \E m \in Controllers : MountForm(m) \/ FormArrives(m) \/ FormFails(m)
    \/ \E r \in Requests : Answer(r) \/ RequestFails(r)

FormFairness == WF_fvars(FormProgress)

FormSpec == FormInit /\ [][FormNext]_fvars /\ FormFairness

-----------------------------------------------------------------------------
(* What makes the form correct. *)

\* A shopper is told that the order is placed, and it is reported to the ad
\* platforms, only for an order that the shop has stored (submit, renderSuccess).
ToldIsStored ==
    /\ \A i \in 1..Len(emitted) : emitted[i] # 0 => emitted[i] \in orders
    /\ dialog.body.kind = "success" => orders # {}

\* Whatever the shopper clicks, one form stores a second order only after a request
\* of it was lost or timed out (the submitting guard; the 20 s timeout of request).
SecondOrderNeedsTimeout ==
    \A r, s \in orders :
        (r # s /\ req[r].by = req[s].by)
            => req[r].client = "gone" \/ req[s].client = "gone"

\* The two together: what the form tells and what it stores.
OrdersAreHonest == ToldIsStored /\ SecondOrderNeedsTimeout

\* The button never stays disabled: a submission ends, or the browser has left
\* ("a promise that never settles leaves the submit button disabled", request).
ButtonComesBack == \A m \in Controllers : ctl[m].submitting ~> (~ctl[m].submitting \/ left)

\* The placeholder does not stay: the shopper gets a form, or a card that says it
\* failed (openDialog, mountForm).
SpinnerEnds == (dialog.body.kind = "placeholder") ~> (dialog.body.kind # "placeholder" \/ left)
=============================================================================
