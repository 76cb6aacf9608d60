-------------------------- MODULE StorefrontProofs --------------------------
(***************************************************************************)
(* Proofs about the storefront: what its scripts promise the shopper, for  *)
(* any number of openings, requests, codes, tags and orders.               *)
(***************************************************************************)
EXTENDS Storefront, FoldLemmas, SequenceTheorems

-----------------------------------------------------------------------------
(* The form. *)

(* The parts of the type invariant. *)

Dialogs == [open : BOOLEAN,
            body : [kind : {"nothing", "placeholder", "form", "success", "failed"},
                    by : Controllers \cup {0}]]
Mounts == [mount : {"none", "waiting", "fetching", "form", "failed"},
           submitting : BOOLEAN, hand : Requests \cup {0}]
Posts == [by : Controllers \cup {0}, client : {"none", "waiting", "answered", "gone"},
          server : {"none", "sent", "looked", "stored", "refused"},
          order : Requests \cup {0}]

FormTypes ==
    /\ bundle \in {"absent", "loading", "loaded"}
    /\ form \in {"none", "fresh", "expired"}
    /\ left \in BOOLEAN
    /\ dialog \in Dialogs
    /\ ctl \in [Controllers -> Mounts]
    /\ req \in [Requests -> Posts]
    /\ orders \subseteq Requests
    /\ emitted \in Seq({0} \cup Requests)

LEMMA FormTypesAreThose == FormTypes <=> FormTypeOK
BY DEF FormTypes, FormTypeOK, Dialogs, Mounts, Posts

\* What a request went through agrees with what it stored.
RequestsAgree ==
    \A r \in Requests :
        /\ req[r].client = "none" => req[r].server = "none"
        /\ req[r].client # "none" => req[r].by \in Controllers
        /\ req[r].client = "answered" => req[r].server \in {"stored", "refused"}
        /\ req[r].server = "stored" => req[r].order \in orders
        /\ r \in orders => req[r].server = "stored"

\* One form waits for one answer at a time.
OneAtATime ==
    /\ \A r \in Requests : req[r].client = "waiting" => ctl[req[r].by].submitting
    /\ \A r, s \in Requests :
          (r # s /\ req[r].client = "waiting" /\ req[s].client = "waiting")
              => req[r].by # req[s].by

\* After a form has been answered with an order of its own, no later request of it
\* stores one: the server finds the order it looks for.
StoredIsFound ==
    \A r, s \in Requests :
        (/\ r # s /\ req[r].by = req[s].by
         /\ req[r].client = "answered" /\ r \in orders /\ req[s].client # "gone")
            => s \notin orders /\ req[s].server # "looked"

FormInv == FormTypes /\ RequestsAgree /\ OneAtATime /\ StoredIsFound /\ ToldIsStored

\* The invariant says what the run checks, and more.
LEMMA FormInvIsHonest == FormInv => OrdersAreHonest
<1> SUFFICES ASSUME FormInv, NEW r \in orders, NEW s \in orders, r # s,
                    req[r].by = req[s].by, req[r].client # "gone", req[s].client # "gone"
             PROVE  FALSE
  BY DEF FormInv, OrdersAreHonest, SecondOrderNeedsTimeout
<1>1. r \in Requests /\ s \in Requests BY DEF FormInv, FormTypes
<1>2. req[r].server = "stored" /\ req[s].server = "stored" BY <1>1 DEF FormInv, RequestsAgree
<1>3. req[r].client \in {"waiting", "answered"} /\ req[s].client \in {"waiting", "answered"}
  BY <1>1, <1>2 DEF FormInv, FormTypes, Posts, RequestsAgree
<1>4. req[r].client = "answered" \/ req[s].client = "answered"
  BY <1>1, <1>3 DEF FormInv, OneAtATime
<1> QED BY <1>1, <1>4 DEF FormInv, StoredIsFound

LEMMA FormInvStarts == FormInit => FormInv
<1> SUFFICES ASSUME FormInit PROVE FormInv OBVIOUS
<1>1. ctl = [m \in Controllers |-> NoMount] /\ req = [r \in Requests |-> NoReq] /\ orders = {}
  BY DEF FormInit
<1>2. emitted \in Seq({0} \cup Requests) /\ Len(emitted) = 0 BY DEF FormInit
<1>3. dialog \in Dialogs /\ dialog.body.kind = "nothing" BY DEF FormInit, Dialogs, Shows
<1>4. NoMount \in Mounts /\ NoReq \in Posts BY DEF NoMount, NoReq, Mounts, Posts
<1>5. FormTypes BY <1>1, <1>2, <1>3, <1>4 DEF FormTypes, FormInit
<1>6. \A r \in Requests : req[r].client = "none" /\ req[r].server = "none"
  BY <1>1 DEF NoReq
<1> QED BY <1>1, <1>2, <1>3, <1>5, <1>6
       DEF FormInv, RequestsAgree, OneAtATime, StoredIsFound, ToldIsStored

LEMMA DialogTypes ==
    ASSUME dialog \in Dialogs
    PROVE  /\ \A b \in BOOLEAN : /\ [dialog EXCEPT !.open = b] \in Dialogs
                                 /\ [dialog EXCEPT !.open = b].body = dialog.body
           /\ \A kind \in {"nothing", "placeholder", "form", "success", "failed"},
                 m \in Controllers \cup {0} :
                 /\ [dialog EXCEPT !.body = Shows(kind, m)] \in Dialogs
                 /\ [dialog EXCEPT !.body = Shows(kind, m)].body.kind = kind
BY DEF Dialogs, Shows

\* Told of nothing new.
LEMMA KeepsTelling ==
    ASSUME FormTypes, ToldIsStored, orders \subseteq orders', emitted' = emitted,
           dialog'.body.kind = "success" => dialog.body.kind = "success"
    PROVE  ToldIsStored'
BY DEF ToldIsStored

LEMMA KeepsTellingMore ==
    ASSUME FormTypes, ToldIsStored, orders \subseteq orders',
           NEW o \in {0} \cup Requests, o # 0 => o \in orders', Emits(o),
           dialog'.body.kind = "success" => orders' # {}
    PROVE  emitted' \in Seq({0} \cup Requests) /\ ToldIsStored'
<1>1. emitted' \in Seq({0} \cup Requests) BY DEF FormTypes, Emits
<1>2. \A i \in 1..Len(emitted') :
         emitted'[i] = o \/ (i \in 1..Len(emitted) /\ emitted'[i] = emitted[i])
  BY DEF FormTypes, Emits
<1> QED BY <1>1, <1>2 DEF ToldIsStored

\* A step of a controller that neither posts nor answers.
LEMMA KeepsRequests ==
    ASSUME FormInv, UNCHANGED <<req, orders>>,
           \A m \in Controllers : ctl'[m].submitting = ctl[m].submitting
    PROVE  RequestsAgree' /\ OneAtATime' /\ StoredIsFound'
<1>1. RequestsAgree' BY DEF FormInv, RequestsAgree
<1>2. StoredIsFound' BY DEF FormInv, StoredIsFound
<1>3. \A r \in Requests : req[r].client = "waiting" => ctl'[req[r].by].submitting
  BY DEF FormInv, RequestsAgree, OneAtATime
<1>4. OneAtATime' BY <1>3 DEF FormInv, OneAtATime
<1> QED BY <1>1, <1>2, <1>4

LEMMA FormInvKept == FormInv /\ [FormNext]_fvars => FormInv'
<1> SUFFICES ASSUME FormInv, [FormNext]_fvars PROVE FormInv' OBVIOUS
<1>a. FormTypes /\ RequestsAgree /\ OneAtATime /\ StoredIsFound /\ ToldIsStored BY DEF FormInv
<1>b. (FormTypes /\ RequestsAgree /\ OneAtATime /\ StoredIsFound /\ ToldIsStored)' => FormInv'
  BY DEF FormInv
<1>c. \A k \in {"waiting", "fetching", "form", "failed"}, m \in Controllers :
         LET c == [ctl EXCEPT ![m].mount = k]
         IN c \in [Controllers -> Mounts] /\ \A n \in Controllers : c[n].submitting = ctl[n].submitting
  BY <1>a DEF FormTypes, Mounts
<1>d. dialog \in Dialogs BY <1>a DEF FormTypes
<1>0. CASE UNCHANGED fvars
  BY <1>0, <1>a, <1>b DEF fvars, FormTypes, RequestsAgree, OneAtATime, StoredIsFound, ToldIsStored
<1>1. CASE OpenDialog
  <2>1. PICK m \in Controllers : ctl' = [ctl EXCEPT ![m].mount = "waiting"]
    BY <1>1 DEF OpenDialog, FreshMount
  <2>2. ctl' \in [Controllers -> Mounts] /\ \A n \in Controllers : ctl'[n].submitting = ctl[n].submitting
    BY <1>c, <2>1
  <2>3. UNCHANGED <<form, req, orders, left>> /\ Emits(0) /\ bundle' \in {bundle, "loading"}
    BY <1>1 DEF OpenDialog, loadFormBundle
  <2>4. dialog' \in Dialogs /\ dialog'.body.kind = "placeholder"
    BY <1>1 DEF OpenDialog, Dialogs, Shows
  <2>5. emitted' \in Seq({0} \cup Requests) /\ ToldIsStored' BY <1>a, <2>3, <2>4, KeepsTellingMore
  <2>6. FormTypes' BY <1>a, <2>2, <2>3, <2>4, <2>5 DEF FormTypes
  <2> QED BY <1>b, <2>2, <2>3, <2>5, <2>6, KeepsRequests
<1>2. CASE CloseDialog \/ BundleLoads \/ TokenExpires
  <2>1. UNCHANGED <<ctl, req, orders, emitted, left>>
    BY <1>2 DEF CloseDialog, BundleLoads, TokenExpires
  <2>2. dialog' = dialog \/ dialog' = [dialog EXCEPT !.open = FALSE]
    BY <1>2 DEF CloseDialog, BundleLoads, TokenExpires
  <2>3. dialog' \in Dialogs /\ dialog'.body = dialog.body BY <1>d, <2>2, DialogTypes
  <2>4. ToldIsStored' BY <1>a, <2>1, <2>3, KeepsTelling
  <2>5. bundle' \in {bundle, "loaded"} /\ form' \in {form, "expired"}
    BY <1>2 DEF CloseDialog, BundleLoads, TokenExpires
  <2>6. FormTypes' BY <1>a, <2>1, <2>3, <2>5 DEF FormTypes
  <2> QED BY <1>b, <2>1, <2>4, <2>6, KeepsRequests
<1>3. CASE BundleFails
  <2>1. UNCHANGED <<form, req, orders, emitted, left>> /\ bundle' = "absent" BY <1>3 DEF BundleFails
  <2>2. dialog' \in Dialogs /\ dialog'.body.kind = "failed"
    BY <1>3, <1>d, DialogTypes DEF BundleFails
  <2>3. ctl' = [m \in Controllers |->
                 IF ctl[m].mount = "waiting" THEN [ctl[m] EXCEPT !.mount = "failed"] ELSE ctl[m]]
    BY <1>3 DEF BundleFails
  <2>4. ctl' \in [Controllers -> Mounts] /\ \A n \in Controllers : ctl'[n].submitting = ctl[n].submitting
    <3>1. \A n \in Controllers : ctl[n] \in Mounts BY <1>a DEF FormTypes
    <3>2. \A c \in Mounts : [c EXCEPT !.mount = "failed"] \in Mounts
                            /\ [c EXCEPT !.mount = "failed"].submitting = c.submitting
      BY DEF Mounts
    <3> QED BY <2>3, <3>1, <3>2
  <2>5. ToldIsStored' BY <1>a, <2>1, <2>2, KeepsTelling
  <2>6. FormTypes' BY <1>a, <2>1, <2>2, <2>4 DEF FormTypes
  <2> QED BY <1>b, <2>1, <2>4, <2>5, <2>6, KeepsRequests
<1>4. ASSUME NEW m \in Controllers, MountForm(m) \/ FormArrives(m) \/ FormFails(m)
      PROVE  FormInv'
  <2>1. UNCHANGED <<bundle, req, orders, emitted, left>> /\ form' \in {form, "fresh"}
    BY <1>4 DEF MountForm, FormArrives, FormFails
  <2>2. \E k \in {"fetching", "form", "failed"} : ctl' = [ctl EXCEPT ![m].mount = k]
    BY <1>4 DEF MountForm, FormArrives, FormFails, Render
  <2>3. ctl' \in [Controllers -> Mounts] /\ \A n \in Controllers : ctl'[n].submitting = ctl[n].submitting
    BY <1>c, <2>2
  <2>4. \/ dialog' = dialog
        \/ dialog' = [dialog EXCEPT !.body = Shows("form", m)]
        \/ dialog' = [dialog EXCEPT !.body = Shows("failed", m)]
    BY <1>4 DEF MountForm, FormArrives, FormFails, Render
  <2>5. dialog' \in Dialogs /\ (dialog'.body.kind = "success" => dialog.body.kind = "success")
    <3>1. \A kind \in {"form", "failed"} :
             /\ [dialog EXCEPT !.body = Shows(kind, m)] \in Dialogs
             /\ [dialog EXCEPT !.body = Shows(kind, m)].body.kind = kind
      BY <1>d, DialogTypes
    <3> QED BY <1>d, <2>4, <3>1
  <2>6. ToldIsStored' BY <1>a, <2>1, <2>5, KeepsTelling
  <2>7. FormTypes' BY <1>a, <2>1, <2>3, <2>5 DEF FormTypes
  <2> QED BY <1>b, <2>1, <2>3, <2>6, <2>7, KeepsRequests
<1>5. ASSUME NEW m \in Controllers, Submit(m) PROVE FormInv'
  <2>1. PICK r \in FreshReq :
          req' = [req EXCEPT ![r] = [by |-> m, client |-> "waiting",
                                     server |-> IF form = "expired" THEN "refused" ELSE "sent",
                                     order |-> 0]]
    BY <1>5 DEF Submit
  <2>2. r \in Requests /\ req[r].client = "none" BY DEF FreshReq
  <2>3. ~ctl[m].submitting /\ ctl' = [ctl EXCEPT ![m].submitting = TRUE]
        /\ UNCHANGED <<bundle, form, left, dialog, orders, emitted>>
    BY <1>5 DEF Submit, MaySubmit
  <2>4. /\ req'[r] \in Posts
        /\ req'[r].by = m /\ req'[r].client = "waiting" /\ req'[r].server \in {"refused", "sent"}
        /\ \A s \in Requests : s # r => req'[s] = req[s]
        /\ req' \in [Requests -> Posts]
    BY <1>a, <2>1, <2>2 DEF FormTypes, Posts
  <2>5. /\ ctl' \in [Controllers -> Mounts] /\ ctl'[m].submitting
        /\ \A n \in Controllers : n # m => ctl'[n] = ctl[n]
    BY <1>a, <2>3 DEF FormTypes, Mounts
  <2>6. FormTypes' BY <1>a, <2>3, <2>4, <2>5 DEF FormTypes
  <2>7. RequestsAgree' BY <1>a, <2>2, <2>3, <2>4 DEF RequestsAgree
  <2>8. OneAtATime'
    <3>1. \A s \in Requests : s # r /\ req[s].client = "waiting" => req[s].by # m
      BY <1>a, <2>3 DEF OneAtATime
    <3>2. \A s \in Requests : s # r /\ req[s].client = "waiting" => req[s].by \in Controllers
      BY <1>a DEF RequestsAgree
    <3>3. \A s \in Requests : req'[s].client = "waiting" => ctl'[req'[s].by].submitting
      BY <1>a, <2>4, <2>5, <3>1, <3>2 DEF OneAtATime
    <3>4. \A s, t \in Requests :
             (s # t /\ req'[s].client = "waiting" /\ req'[t].client = "waiting")
                 => req'[s].by # req'[t].by
      BY <1>a, <2>4, <3>1 DEF OneAtATime
    <3> QED BY <3>3, <3>4 DEF OneAtATime
  <2>9. StoredIsFound' BY <1>a, <2>2, <2>3, <2>4 DEF StoredIsFound, RequestsAgree
  <2>10. ToldIsStored' BY <1>a, <2>3, KeepsTelling
  <2> QED BY <1>b, <2>6, <2>7, <2>8, <2>9, <2>10
<1>6. ASSUME NEW m \in Controllers, Redirect(m) \/ GiveUpPolling(m) PROVE FormInv'
  <2>1. UNCHANGED <<bundle, form, dialog, req, orders, emitted>> /\ left' \in BOOLEAN
    BY <1>6, <1>a DEF Redirect, GiveUpPolling, FormTypes
  <2>2. ctl' = ctl \/ ctl' = [ctl EXCEPT ![m].hand = 0] BY <1>6 DEF Redirect, GiveUpPolling
  <2>3. ctl' \in [Controllers -> Mounts] /\ \A n \in Controllers : ctl'[n].submitting = ctl[n].submitting
    BY <1>a, <2>2 DEF FormTypes, Mounts
  <2>4. ToldIsStored' BY <1>a, <2>1, KeepsTelling
  <2>5. FormTypes' BY <1>a, <2>1, <2>3 DEF FormTypes
  <2> QED BY <1>b, <2>1, <2>3, <2>4, <2>5, KeepsRequests
<1>7. ASSUME NEW r \in Requests, ServerLooks(r) \/ ServerStores(r) \/ ServerRefuses(r)
      PROVE  FormInv'
  <2>1. UNCHANGED <<bundle, form, left, dialog, ctl, emitted>>
    BY <1>7 DEF ServerLooks, ServerStores, ServerRefuses
  <2>a. req[r] \in Posts /\ orders \subseteq Requests BY <1>a DEF FormTypes
  <2>b. PICK q \in Posts :
          /\ req' = [req EXCEPT ![r] = q]
          /\ q.client = req[r].client /\ q.by = req[r].by
          /\ \/ orders = {} /\ req[r].server = "sent" /\ orders' = orders /\ q.server = "looked"
             \/ req[r].server = "sent" /\ orders' = orders /\ q.server = "stored" /\ q.order \in orders
             \/ req[r].server = "looked" /\ orders' = orders \cup {r} /\ q.server = "stored" /\ q.order = r
             \/ req[r].server \in {"sent", "looked"} /\ orders' = orders /\ q.server = "refused"
    <3>1. CASE ServerLooks(r) /\ orders = {}
      <4> DEFINE q == [req[r] EXCEPT !.server = "looked"]
      <4>1. q \in Posts /\ q.client = req[r].client /\ q.by = req[r].by /\ q.server = "looked"
        BY <2>a DEF Posts
      <4>2. req' = [req EXCEPT ![r] = q] /\ orders' = orders /\ req[r].server = "sent"
        BY <3>1 DEF ServerLooks
      <4> HIDE DEF q
      <4> QED BY <3>1, <4>1, <4>2
    <3>2. CASE ServerLooks(r) /\ orders # {}
      <4>1. PICK o \in orders : req' = [req EXCEPT ![r].server = "stored", ![r].order = o]
        BY <3>2 DEF ServerLooks
      <4> DEFINE q == [req[r] EXCEPT !.server = "stored", !.order = o]
      <4>2. /\ q \in Posts /\ q.client = req[r].client /\ q.by = req[r].by
            /\ q.server = "stored" /\ q.order = o
        BY <2>a DEF Posts
      <4>3. req' = [req EXCEPT ![r] = q] BY <1>a, <4>1 DEF FormTypes
      <4>4. orders' = orders /\ req[r].server = "sent" BY <3>2 DEF ServerLooks
      <4> HIDE DEF q
      <4> QED BY <4>2, <4>3, <4>4
    <3>3. CASE ServerStores(r)
      <4> DEFINE q == [req[r] EXCEPT !.server = "stored", !.order = r]
      <4>2. /\ q \in Posts /\ q.client = req[r].client /\ q.by = req[r].by
            /\ q.server = "stored" /\ q.order = r
        BY <2>a DEF Posts
      <4>3. req' = [req EXCEPT ![r] = q] BY <1>a, <3>3 DEF FormTypes, ServerStores
      <4>4. orders' = orders \cup {r} /\ req[r].server = "looked" BY <3>3 DEF ServerStores
      <4> HIDE DEF q
      <4> QED BY <4>2, <4>3, <4>4
    <3>4. CASE ServerRefuses(r)
      <4> DEFINE q == [req[r] EXCEPT !.server = "refused"]
      <4>1. q \in Posts /\ q.client = req[r].client /\ q.by = req[r].by /\ q.server = "refused"
        BY <2>a DEF Posts
      <4>2. req' = [req EXCEPT ![r] = q] /\ orders' = orders /\ req[r].server \in {"sent", "looked"}
        BY <3>4 DEF ServerRefuses
      <4> HIDE DEF q
      <4> QED BY <4>1, <4>2
    <3> QED BY <1>7, <3>1, <3>2, <3>3, <3>4
  <2>2. /\ req' \in [Requests -> Posts] /\ req'[r] = q
        /\ \A s \in Requests : s # r => req'[s] = req[s]
    BY <1>a, <2>b DEF FormTypes
  <2>3. \A s \in Requests : req'[s].client = req[s].client /\ req'[s].by = req[s].by
    BY <2>2, <2>b
  <2>4. orders' \subseteq Requests /\ orders \subseteq orders'
    BY <2>a, <2>b
  <2>5. RequestsAgree' BY <1>a, <2>2, <2>b DEF RequestsAgree
  <2>6. OneAtATime' BY <1>a, <2>1, <2>3 DEF OneAtATime
  <2>7. StoredIsFound'
    <3>1. req[r].client # "answered" BY <1>a, <2>b DEF RequestsAgree
    <3> SUFFICES ASSUME NEW s \in Requests, NEW t \in Requests, s # t, req'[s].by = req'[t].by,
                        req'[s].client = "answered", s \in orders', req'[t].client # "gone"
                 PROVE  t \notin orders' /\ req'[t].server # "looked"
      BY DEF StoredIsFound
    <3>2. s # r /\ s \in orders BY <2>3, <2>b, <3>1
    <3>3. t \notin orders /\ req[t].server # "looked"
      BY <1>a, <2>3, <3>2 DEF StoredIsFound
    <3> QED BY <2>2, <2>b, <3>2, <3>3
  <2>8. ToldIsStored' BY <1>a, <2>1, <2>4, KeepsTelling
  <2>9. FormTypes' BY <1>a, <2>1, <2>2, <2>4 DEF FormTypes
  <2> QED BY <1>b, <2>5, <2>6, <2>7, <2>8, <2>9
<1>8. ASSUME NEW r \in Requests, Answer(r) \/ RequestFails(r) PROVE FormInv'
  <2> DEFINE m == req[r].by
  <2>1. m \in Controllers /\ req[r].client = "waiting"
    BY <1>8, <1>a DEF Answer, RequestFails, RequestsAgree
  <2>2. PICK seen \in {"answered", "gone"} :
          /\ req' = [req EXCEPT ![r].client = seen]
          /\ seen = "answered" => req[r].server \in {"stored", "refused"}
    BY <1>8 DEF Answer, RequestFails
  <2>3. /\ req' \in [Requests -> Posts] /\ req'[r].client = seen
        /\ req'[r].by = m /\ req'[r].server = req[r].server /\ req'[r].order = req[r].order
        /\ \A s \in Requests : s # r => req'[s] = req[s]
    BY <1>a, <2>2 DEF FormTypes, Posts
  <2>4. \/ ctl' = [ctl EXCEPT ![m].submitting = FALSE]
        \/ ctl' = [ctl EXCEPT ![m].submitting = FALSE, ![m].hand = req[r].order]
    BY <1>8 DEF Answer, RequestFails
  <2>5. req[r].order \in Requests \cup {0} BY <1>a DEF FormTypes, Posts
  <2>6. ctl' \in [Controllers -> Mounts] /\ \A n \in Controllers : n # m => ctl'[n] = ctl[n]
    <3>1. ctl[m] \in Mounts BY <1>a, <2>1 DEF FormTypes
    <3>2. /\ [ctl[m] EXCEPT !.submitting = FALSE] \in Mounts
          /\ [ctl[m] EXCEPT !.submitting = FALSE, !.hand = req[r].order] \in Mounts
      BY <2>5, <3>1 DEF Mounts
    <3>3. \/ ctl' = [ctl EXCEPT ![m] = [ctl[m] EXCEPT !.submitting = FALSE]]
          \/ ctl' = [ctl EXCEPT ![m] = [ctl[m] EXCEPT !.submitting = FALSE, !.hand = req[r].order]]
      BY <1>a, <2>1, <2>4 DEF FormTypes
    <3> QED BY <1>a, <2>1, <3>2, <3>3 DEF FormTypes
  <2>7. UNCHANGED <<bundle, form, orders, left>> BY <1>8 DEF Answer, RequestFails
  <2>8. RequestsAgree' BY <1>a, <2>1, <2>2, <2>3, <2>7 DEF RequestsAgree
  <2>9. OneAtATime'
    <3>1. \A s \in Requests : req'[s].client = "waiting" =>
             s # r /\ req[s].client = "waiting" /\ req[s].by # m /\ req[s].by \in Controllers
      BY <1>a, <2>1, <2>2, <2>3 DEF OneAtATime, RequestsAgree
    <3>2. \A s \in Requests : req'[s].client = "waiting" => ctl'[req'[s].by].submitting
      BY <1>a, <2>3, <2>6, <3>1 DEF OneAtATime
    <3>3. \A s, t \in Requests :
             (s # t /\ req'[s].client = "waiting" /\ req'[t].client = "waiting")
                 => req'[s].by # req'[t].by
      BY <1>a, <2>3, <3>1 DEF OneAtATime
    <3> QED BY <3>2, <3>3 DEF OneAtATime
  <2>10. StoredIsFound'
    <3> SUFFICES ASSUME NEW s \in Requests, NEW t \in Requests, s # t, req'[s].by = req'[t].by,
                        req'[s].client = "answered", s \in orders', req'[t].client # "gone"
                 PROVE  t \notin orders' /\ req'[t].server # "looked"
      BY DEF StoredIsFound
    <3>1. CASE s # r /\ t # r BY <1>a, <2>3, <2>7, <3>1 DEF StoredIsFound
    <3>2. CASE t = r
      <4>1. req[s] = req'[s] /\ req[r].by = req[s].by BY <2>3, <3>2
      <4> QED BY <1>a, <2>1, <2>3, <2>7, <3>2, <4>1 DEF StoredIsFound
    <3>3. CASE s = r
      <4>1. req'[t] = req[t] /\ req[t].by = m /\ req[r].server = "stored" BY <1>a, <2>3, <2>7, <3>3 DEF RequestsAgree
      <4>2. req[t].client # "waiting" BY <1>a, <2>1, <3>3, <4>1 DEF OneAtATime
      <4>3. CASE req[t].client = "none" BY <1>a, <2>7, <4>1, <4>3 DEF RequestsAgree
      <4>4. CASE req[t].client = "answered"
        BY <1>a, <2>1, <2>7, <3>3, <4>1, <4>4 DEF RequestsAgree, StoredIsFound
      <4> QED BY <1>a, <4>1, <4>2, <4>3, <4>4 DEF FormTypes, Posts
    <3> QED BY <3>1, <3>2, <3>3
  <2>11. emitted' \in Seq({0} \cup Requests) /\ ToldIsStored' /\ dialog' \in Dialogs
    <3>1. CASE Answer(r) /\ Accepted(r)
      <4>1. Emits(req[r].order) /\ dialog' = [dialog EXCEPT !.body = Shows("success", m)]
        BY <3>1 DEF Answer
      <4>2. req[r].order \in orders' /\ orders \subseteq orders' /\ orders' # {}
        BY <1>a, <2>7, <3>1 DEF Accepted, RequestsAgree
      <4>3. dialog' \in Dialogs BY <1>d, <2>1, <4>1, DialogTypes
      <4> QED BY <1>a, <2>5, <4>1, <4>2, <4>3, KeepsTellingMore
    <3>2. CASE ~(Answer(r) /\ Accepted(r))
      <4>1. UNCHANGED <<dialog, emitted>> BY <1>8, <3>2 DEF Answer, RequestFails
      <4> QED BY <1>a, <2>7, <4>1, KeepsTelling DEF FormTypes
    <3> QED BY <3>1, <3>2
  <2>12. FormTypes' BY <1>a, <2>3, <2>6, <2>7, <2>11 DEF FormTypes
  <2> QED BY <1>b, <2>8, <2>9, <2>10, <2>11, <2>12
<1> QED BY <1>0, <1>1, <1>2, <1>3, <1>4, <1>5, <1>6, <1>7, <1>8 DEF FormNext

-----------------------------------------------------------------------------
(* The postal lookup. *)

Fields == [code : Codes \cup {"", Partial}, country : Countries \cup {""},
           city : Codes \cup {"", "typed"}, status : {"none", "checking", "ok", "error"}]
Timers == [code : Codes \cup {""}, sequence : 0..MaxEdits]
LookupStates == [code : Codes \cup {""},
                 at : {"none", "sent", "computing", "answered", "done"},
                 answer : {"none", "found", "not_found", "not_serviceable", "unavailable"}]

LookupTypes ==
    /\ shop \in [country : Countries, offers : SUBSET Countries]
    /\ postal \in Fields
    /\ sequence \in 0..MaxEdits
    /\ timer \in Timers
    /\ lookup \in [Lookups -> LookupStates]
    /\ cache \in [Codes -> {"absent", "null", "record"}]
    /\ edits \in 0..MaxEdits

LEMMA LookupTypesAreThose == LookupTypes <=> LookupTypeOK
BY DEF LookupTypes, LookupTypeOK, Fields, Timers, LookupStates

\* A keystroke takes at most one sequence number.
SequenceIsBounded == sequence <= edits

\* A lookup that has been made asks for a code.
LookupsAsk ==
    /\ timer = NoTimer \/ (timer.sequence \in Lookups /\ timer.code \in Codes)
    /\ \A n \in Lookups : lookup[n].at # "none" => lookup[n].code \in Codes

\* In a shop that sends its shoppers nowhere else, a complete code in the field is
\* the one that the pending timer will ask for, or that the latest lookup asked for.
LatestIsForCode ==
    Domestic =>
        /\ postal.country \in {"", "IN"}
        /\ timer # NoTimer => timer.sequence = sequence /\ timer.code = postal.code
        /\ postal.code \in Codes /\ timer = NoTimer =>
              sequence \in Lookups /\ lookup[sequence].code = postal.code
              /\ lookup[sequence].at # "none"

\* There the area under a complete code is that code's, or is about to be asked for
\* or answered again.
AreaIsForCode ==
    (Domestic /\ postal.code \in Codes /\ postal.status = "ok" /\ timer = NoTimer)
        => \/ postal.city \in {postal.code, "typed"}
           \/ lookup[sequence].at \in {"sent", "computing", "answered"}

LookupInv == LookupTypes /\ SequenceIsBounded /\ LookupsAsk /\ LatestIsForCode /\ AreaIsForCode

LEMMA LookupInvResolves == LookupInv => ResolvedIsForCode
BY DEF LookupInv, LatestIsForCode, AreaIsForCode, ResolvedIsForCode, Quiet

LEMMA LookupInvStarts == LookupInit => LookupInv
<1> SUFFICES ASSUME LookupInit PROVE LookupInv OBVIOUS
<1>x. "" \notin Codes BY LookupAssumption
<1>0. 0 \in 0..MaxEdits
  <2>1. MaxEdits \in Nat BY LookupAssumption
  <2> QED BY <2>1
<1>1. LookupTypes
  <2>1. NoTimer \in Timers BY <1>0 DEF NoTimer, Timers
  <2>2. Idle \in LookupStates BY DEF Idle, LookupStates
  <2>3. postal \in Fields BY DEF LookupInit, Fields
  <2>4. lookup \in [Lookups -> LookupStates] BY <2>2 DEF LookupInit
  <2> QED BY <1>0, <2>1, <2>3, <2>4 DEF LookupInit, LookupTypes
<1>2. SequenceIsBounded
  <2>1. sequence \in Nat /\ edits = sequence BY DEF LookupInit
  <2> QED BY <2>1 DEF SequenceIsBounded
<1>3. LookupsAsk BY DEF LookupInit, LookupsAsk, Idle
<1>4. postal.code = "" /\ postal.country = "" /\ timer = NoTimer BY DEF LookupInit
<1>5. LatestIsForCode BY <1>4, <1>x DEF LatestIsForCode
<1>6. AreaIsForCode BY <1>4, <1>x DEF AreaIsForCode
<1> QED BY <1>1, <1>2, <1>3, <1>5, <1>6 DEF LookupInv

\* A step that touches no lookup, no timer and no code.
LEMMA KeepsLatest ==
    ASSUME LookupInv, UNCHANGED <<shop, sequence, timer, lookup>>,
           postal'.code = postal.code,
           Domestic => postal'.country \in {"", "IN"},
           postal'.status = "ok" => postal.status = "ok" /\ postal'.city \in {postal.city, "typed"}
    PROVE  LookupsAsk' /\ LatestIsForCode' /\ AreaIsForCode'
<1>1. Domestic' = Domestic BY DEF Domestic
<1> QED BY <1>1 DEF LookupInv, LookupsAsk, LatestIsForCode, AreaIsForCode

\* A lookup moves on and is still to be answered.
LEMMA KeepsAsking ==
    ASSUME LookupInv, NEW n \in Lookups, NEW l \in LookupStates,
           UNCHANGED <<shop, postal, sequence, timer>>,
           lookup' = [lookup EXCEPT ![n] = l], lookup[n].at # "none",
           l.code = lookup[n].code, l.at \in {"sent", "computing", "answered"}
    PROVE  LookupsAsk' /\ LatestIsForCode' /\ AreaIsForCode'
<1>1. Domestic' = Domestic BY DEF Domestic
<1>2. /\ lookup'[n] = l
      /\ \A k \in Lookups : k # n => lookup'[k] = lookup[k]
      /\ lookup' \in [Lookups -> LookupStates]
  BY DEF LookupInv, LookupTypes
<1>3. LookupsAsk' BY <1>2 DEF LookupInv, LookupsAsk
<1>4. LatestIsForCode' BY <1>1, <1>2 DEF LookupInv, LatestIsForCode
<1>5. AreaIsForCode'
  <2>1. postal.code \in Codes /\ timer = NoTimer /\ Domestic => sequence \in Lookups
    BY DEF LookupInv, LatestIsForCode
  <2> QED BY <1>1, <1>2, <2>1 DEF LookupInv, AreaIsForCode
<1> QED BY <1>3, <1>4, <1>5

LEMMA LookupInvKept == LookupInv /\ [LookupNext]_lvars => LookupInv'
<1> SUFFICES ASSUME LookupInv, [LookupNext]_lvars PROVE LookupInv' OBVIOUS
<1>a. /\ LookupTypes /\ SequenceIsBounded /\ LookupsAsk /\ LatestIsForCode /\ AreaIsForCode
  BY DEF LookupInv
<1>b. (LookupTypes /\ SequenceIsBounded /\ LookupsAsk /\ LatestIsForCode /\ AreaIsForCode)'
        => LookupInv'
  BY DEF LookupInv
<1>c. postal \in Fields /\ sequence \in 0..MaxEdits /\ edits \in 0..MaxEdits /\ MaxEdits \in Nat
      /\ lookup \in [Lookups -> LookupStates] /\ shop.offers \subseteq Countries
  BY <1>a, LookupAssumption DEF LookupTypes
<1>d. \A n \in Lookups : lookup[n] \in LookupStates BY <1>c
<1>e. Edit => edits' \in 0..MaxEdits /\ edits' = edits + 1 BY <1>c DEF Edit
<1>0. CASE UNCHANGED lvars
  BY <1>0, <1>a, <1>b DEF lvars, LookupTypes, SequenceIsBounded, LookupsAsk, LatestIsForCode,
     AreaIsForCode, Domestic
<1>1. CASE TypeCode
  <2> DEFINE asks(c) == postalCountry(c) = "IN" /\ c \in Codes
  <2>1. PICK code \in (Codes \cup {Partial}) \ {postal.code} :
          /\ postal' = [postal EXCEPT !.code = code, !.status = StatusAfter(code)]
          /\ sequence' = IF asks(code) THEN sequence + 1 ELSE sequence
          /\ timer' = IF asks(code) THEN [code |-> code, sequence |-> sequence + 1] ELSE NoTimer
    BY <1>1 DEF TypeCode
  <2>2. UNCHANGED <<shop, lookup, cache>> /\ Edit BY <1>1 DEF TypeCode
  <2>3. StatusAfter(code) \in {"none", postal.status} BY DEF StatusAfter
  <2>4. /\ postal' \in Fields /\ postal'.code = code /\ postal'.country = postal.country
        /\ postal'.city = postal.city /\ postal'.status \in {"none", postal.status}
    BY <1>c, <2>1, <2>3 DEF Fields
  <2>5. sequence + 1 \in Lookups /\ sequence + 1 \in 0..MaxEdits /\ sequence + 1 <= edits'
    BY <1>a, <1>c, <1>e, <2>2 DEF SequenceIsBounded, Lookups, Edit
  <2>6. NoTimer \in Timers /\ NoTimer.sequence = 0 BY <1>c DEF NoTimer, Timers
  <2>7. CASE asks(code)
    <3>1. /\ sequence' = sequence + 1 /\ timer' = [code |-> code, sequence |-> sequence + 1]
          /\ code \in Codes
      BY <2>1, <2>7
    <3>2. timer' \in Timers /\ timer'.sequence = sequence' /\ timer'.code = code
      BY <2>5, <3>1 DEF Timers
    <3>3. timer' # NoTimer BY <2>5, <2>6, <3>1, <3>2 DEF Lookups
    <3>4. LookupTypes' BY <1>a, <1>e, <2>2, <2>4, <2>5, <3>1, <3>2 DEF LookupTypes
    <3>5. SequenceIsBounded' BY <2>5, <3>1 DEF SequenceIsBounded
    <3>6. LookupsAsk' BY <1>a, <2>2, <2>5, <3>1, <3>2 DEF LookupsAsk
    <3>7. Domestic' = Domestic BY <2>2 DEF Domestic
    <3>8. LatestIsForCode' BY <1>a, <2>4, <3>2, <3>3, <3>7 DEF LatestIsForCode
    <3>9. AreaIsForCode' BY <3>3 DEF AreaIsForCode
    <3> QED BY <1>b, <3>4, <3>5, <3>6, <3>8, <3>9
  <2>8. CASE ~asks(code)
    <3>1. sequence' = sequence /\ timer' = NoTimer BY <2>1, <2>8
    <3>2. LookupTypes' BY <1>a, <1>e, <2>2, <2>4, <2>6, <3>1 DEF LookupTypes
    <3>3. SequenceIsBounded' BY <1>a, <1>c, <1>e, <2>2, <3>1 DEF SequenceIsBounded
    <3>4. LookupsAsk' BY <1>a, <2>2, <3>1 DEF LookupsAsk
    <3>5. Domestic' = Domestic BY <2>2 DEF Domestic
    <3>6. Domestic => code \notin Codes
      BY <1>a, <2>8 DEF LatestIsForCode, Domestic, postalCountry
    <3>7. LatestIsForCode' BY <1>a, <2>4, <3>1, <3>5, <3>6 DEF LatestIsForCode
    <3>8. AreaIsForCode' BY <2>4, <3>5, <3>6 DEF AreaIsForCode
    <3> QED BY <1>b, <3>2, <3>3, <3>4, <3>7, <3>8
  <2> QED BY <2>7, <2>8
<1>2. CASE ChooseCountry
  <2>1. PICK c \in shop.offers \ {postal.country} : postal' = [postal EXCEPT !.country = c]
    BY <1>2 DEF ChooseCountry
  <2>2. Edit /\ UNCHANGED <<shop, sequence, timer, lookup, cache>> BY <1>2 DEF ChooseCountry
  <2>3. c \in Countries /\ (Domestic => c = "IN") BY <1>c DEF Domestic, Countries
  <2>4. /\ postal' \in Fields /\ postal'.code = postal.code /\ postal'.country = c
        /\ postal'.status = postal.status /\ postal'.city = postal.city
    BY <1>c, <2>1, <2>3 DEF Fields
  <2>5. LookupTypes' BY <1>a, <1>e, <2>2, <2>4 DEF LookupTypes
  <2>6. SequenceIsBounded' BY <1>a, <1>c, <1>e, <2>2 DEF SequenceIsBounded
  <2> QED BY <1>b, <2>2, <2>3, <2>4, <2>5, <2>6, KeepsLatest
<1>3. CASE TypeCity
  <2>1. Edit /\ UNCHANGED <<shop, sequence, timer, lookup, cache>>
        /\ postal' = [postal EXCEPT !.city = "typed"]
    BY <1>3 DEF TypeCity
  <2>2. /\ postal' \in Fields /\ postal'.code = postal.code /\ postal'.country = postal.country
        /\ postal'.status = postal.status /\ postal'.city = "typed"
    BY <1>c, <2>1 DEF Fields
  <2>3. LookupTypes' BY <1>a, <1>e, <2>1, <2>2 DEF LookupTypes
  <2>4. SequenceIsBounded' BY <1>a, <1>c, <1>e, <2>1 DEF SequenceIsBounded
  <2>5. Domestic => postal'.country \in {"", "IN"} BY <1>a, <2>2 DEF LatestIsForCode
  <2> QED BY <1>b, <2>1, <2>2, <2>3, <2>4, <2>5, KeepsLatest
<1>4. CASE TimerFires
  <2> DEFINE l == [code |-> timer.code, at |-> "sent", answer |-> "none"]
             n == timer.sequence
  <2>1. /\ timer # NoTimer /\ lookup' = [lookup EXCEPT ![n] = l]
        /\ postal' = [postal EXCEPT !.status = "checking"] /\ timer' = NoTimer
        /\ UNCHANGED <<shop, sequence, cache, edits>>
    BY <1>4 DEF TimerFires
  <2>2. n \in Lookups /\ timer.code \in Codes BY <1>a, <2>1 DEF LookupsAsk
  <2>3. l \in LookupStates /\ l.code = timer.code /\ l.at = "sent" BY <2>2 DEF LookupStates
  <2> HIDE DEF l, n
  <2>4. /\ lookup' \in [Lookups -> LookupStates] /\ lookup'[n] = l
        /\ \A k \in Lookups : k # n => lookup'[k] = lookup[k]
    BY <1>c, <2>1, <2>2, <2>3
  <2>5. /\ postal' \in Fields /\ postal'.code = postal.code /\ postal'.country = postal.country
        /\ postal'.status = "checking"
    BY <1>c, <2>1 DEF Fields
  <2>6. NoTimer \in Timers BY <1>c DEF NoTimer, Timers
  <2>7. LookupTypes' BY <1>a, <2>1, <2>4, <2>5, <2>6 DEF LookupTypes
  <2>8. SequenceIsBounded' BY <1>a, <2>1 DEF SequenceIsBounded
  <2>9. LookupsAsk' BY <1>a, <2>1, <2>2, <2>3, <2>4 DEF LookupsAsk
  <2>10. Domestic' = Domestic BY <2>1 DEF Domestic
  <2>11. Domestic => n = sequence /\ timer.code = postal.code
    BY <1>a, <2>1 DEF LatestIsForCode, n
  <2>12. LatestIsForCode' BY <1>a, <2>1, <2>2, <2>3, <2>4, <2>5, <2>10, <2>11 DEF LatestIsForCode
  <2>13. AreaIsForCode' BY <2>5 DEF AreaIsForCode
  <2> QED BY <1>b, <2>7, <2>8, <2>9, <2>12, <2>13
<1>5. ASSUME NEW n \in Lookups, LookupTimesOut(n) \/ ServeLookup(n) PROVE LookupInv'
  <2>1. lookup[n].at \in {"sent", "computing"} BY <1>5 DEF LookupTimesOut, ServeLookup
  <2>2. PICK at \in {"computing", "answered"},
             answer \in {"none", "found", "not_found", "not_serviceable", "unavailable"} :
          lookup' = [lookup EXCEPT ![n] = [lookup[n] EXCEPT !.at = at, !.answer = answer]]
    <3>1. CASE LookupTimesOut(n)
      <4>1. lookup' = [lookup EXCEPT ![n] = [lookup[n] EXCEPT !.at = "answered",
                                                              !.answer = "unavailable"]]
        BY <1>c, <3>1 DEF LookupTimesOut
      <4> QED BY <4>1
    <3>2. CASE ServeLookup(n) /\ cache[lookup[n].code] = "absent"
      <4>1. lookup' = [lookup EXCEPT ![n] = [lookup[n] EXCEPT !.at = "computing"]]
        BY <3>2 DEF ServeLookup
      <4>2. [lookup[n] EXCEPT !.at = "computing"]
              = [lookup[n] EXCEPT !.at = "computing", !.answer = lookup[n].answer]
        BY <1>d DEF LookupStates
      <4>3. lookup[n].answer \in {"none", "found", "not_found", "not_serviceable", "unavailable"}
        BY <1>d DEF LookupStates
      <4> QED BY <4>1, <4>2, <4>3
    <3>3. CASE ServeLookup(n) /\ cache[lookup[n].code] # "absent"
      <4> DEFINE v == Verdict(lookup[n].code, cache[lookup[n].code])
      <4>1. v \in {"found", "not_found", "not_serviceable"} BY DEF Verdict
      <4>2. lookup' = [lookup EXCEPT ![n].at = "answered", ![n].answer = v]
        BY <3>3 DEF ServeLookup
      <4> HIDE DEF v
      <4>3. lookup' = [lookup EXCEPT ![n] = [lookup[n] EXCEPT !.at = "answered", !.answer = v]]
        BY <1>c, <4>2
      <4> QED BY <4>1, <4>3
    <3> QED BY <1>5, <3>1, <3>2, <3>3
  <2> DEFINE l == [lookup[n] EXCEPT !.at = at, !.answer = answer]
  <2>3. l \in LookupStates /\ l.code = lookup[n].code /\ l.at = at BY <1>d DEF LookupStates
  <2>4. lookup' = [lookup EXCEPT ![n] = l] BY <2>2
  <2> HIDE DEF l
  <2>5. UNCHANGED <<shop, postal, sequence, timer, cache>> /\ edits' \in edits..MaxEdits
    BY <1>5, <1>c, <1>e DEF LookupTimesOut, ServeLookup
  <2>6. LookupTypes' BY <1>a, <1>c, <2>3, <2>4, <2>5 DEF LookupTypes
  <2>7. SequenceIsBounded' BY <1>a, <1>c, <2>5 DEF SequenceIsBounded
  <2>8. l.at \in {"sent", "computing", "answered"} /\ lookup[n].at # "none" BY <2>1, <2>3
  <2>9. LookupsAsk' /\ LatestIsForCode' /\ AreaIsForCode' BY <2>3, <2>4, <2>5, <2>8, KeepsAsking
  <2> QED BY <1>b, <2>6, <2>7, <2>9
<1>6. ASSUME NEW n \in Lookups, ProviderAnswers(n) \/ ProviderFails(n) PROVE LookupInv'
  <2>1. PICK entry \in {"null", "record"} : Computed(n, entry)
    BY <1>6 DEF ProviderAnswers, ProviderFails
  <2> DEFINE v == Verdict(lookup[n].code, entry)
  <2>2. v \in {"found", "not_found", "not_serviceable"} BY DEF Verdict
  <2>3. /\ lookup[n].at = "computing" /\ cache' = [cache EXCEPT ![lookup[n].code] = entry]
        /\ lookup' = [lookup EXCEPT ![n].at = "answered", ![n].answer = v]
        /\ UNCHANGED <<shop, postal, sequence, timer>>
    BY <2>1 DEF Computed
  <2> HIDE DEF v
  <2> DEFINE l == [lookup[n] EXCEPT !.at = "answered", !.answer = v]
  <2>4. l \in LookupStates /\ l.code = lookup[n].code /\ l.at = "answered"
    BY <1>d, <2>2 DEF LookupStates
  <2>5. lookup' = [lookup EXCEPT ![n] = l] BY <1>c, <2>3
  <2> HIDE DEF l
  <2>6. edits' \in edits..MaxEdits BY <1>6, <1>c, <1>e DEF ProviderAnswers, ProviderFails
  <2>7. LookupTypes'
    <3>1. lookup' \in [Lookups -> LookupStates] BY <1>c, <2>4, <2>5
    <3>2. cache' \in [Codes -> {"absent", "null", "record"}]
      BY <1>a, <2>3, entry \in {"null", "record"} DEF LookupTypes
    <3>3. edits' \in 0..MaxEdits BY <1>c, <2>6
    <3> QED BY <1>a, <2>3, <3>1, <3>2, <3>3 DEF LookupTypes
  <2>8. SequenceIsBounded' BY <1>a, <1>c, <2>3, <2>6 DEF SequenceIsBounded
  <2>9. LookupsAsk' /\ LatestIsForCode' /\ AreaIsForCode' BY <2>3, <2>4, <2>5, KeepsAsking
  <2> QED BY <1>b, <2>7, <2>8, <2>9
<1>7. ASSUME NEW n \in Lookups, AnswerArrives(n) PROVE LookupInv'
  <2> DEFINE l == [lookup[n] EXCEPT !.at = "done"]
  <2>1. /\ lookup[n].at = "answered" /\ lookup' = [lookup EXCEPT ![n] = l]
        /\ UNCHANGED <<shop, sequence, timer, cache, edits>>
    BY <1>7 DEF AnswerArrives
  <2>2. l \in LookupStates /\ l.code = lookup[n].code /\ l.at = "done" BY <1>d DEF LookupStates
  <2> HIDE DEF l
  <2>3. /\ lookup' \in [Lookups -> LookupStates] /\ lookup'[n] = l
        /\ \A k \in Lookups : k # n => lookup'[k] = lookup[k]
    BY <1>c, <2>1, <2>2
  <2>4. lookup[n].code \in Codes BY <1>a, <2>1 DEF LookupsAsk
  <2>5. \/ postal' = postal /\ n # sequence
        \/ postal' = Resolved(n)
        \/ postal' = [postal EXCEPT !.status = "none"]
        \/ postal' = [postal EXCEPT !.status = "error"]
    BY <1>7 DEF AnswerArrives, IsLatest
  <2>6. /\ Resolved(n) \in Fields /\ Resolved(n).code = postal.code
        /\ Resolved(n).country \in {postal.country, "IN"} /\ Resolved(n).city = lookup[n].code
        /\ Resolved(n).status = "ok"
    BY <1>c, <2>4 DEF Resolved, Fields, Countries
  <2>7. \A st \in {"none", "error"} :
           LET p == [postal EXCEPT !.status = st]
           IN p \in Fields /\ p.code = postal.code /\ p.country = postal.country /\ p.status = st
    BY <1>c DEF Fields
  <2>8. /\ postal' \in Fields /\ postal'.code = postal.code
        /\ postal'.country \in {postal.country, "IN"}
        /\ \/ postal' = postal /\ n # sequence
           \/ postal'.city = lookup[n].code
           \/ postal'.status # "ok"
    BY <1>c, <2>5, <2>6, <2>7
  <2>9. LookupTypes' BY <1>a, <2>1, <2>3, <2>8 DEF LookupTypes
  <2>10. SequenceIsBounded' BY <1>a, <2>1 DEF SequenceIsBounded
  <2>11. LookupsAsk' BY <1>a, <2>1, <2>2, <2>3, <2>4 DEF LookupsAsk
  <2>12. Domestic' = Domestic BY <2>1 DEF Domestic
  <2>13. LatestIsForCode' BY <1>a, <2>1, <2>2, <2>3, <2>8, <2>12 DEF LatestIsForCode
  <2>14. AreaIsForCode'
    <3> SUFFICES ASSUME Domestic, postal.code \in Codes, postal'.status = "ok", timer = NoTimer
                 PROVE  \/ postal'.city \in {postal.code, "typed"}
                        \/ lookup'[sequence].at \in {"sent", "computing", "answered"}
      BY <2>1, <2>8, <2>12 DEF AreaIsForCode
    <3>1. sequence \in Lookups /\ lookup[sequence].code = postal.code
      BY <1>a DEF LatestIsForCode
    <3>2. CASE n = sequence BY <2>8, <3>1, <3>2
    <3>3. CASE n # sequence /\ postal' = postal
      BY <1>a, <2>3, <3>1, <3>3 DEF AreaIsForCode
    <3>4. CASE n # sequence /\ postal' # postal
      BY <1>7, <3>4 DEF AnswerArrives, IsLatest
    <3> QED BY <3>2, <3>3, <3>4
  <2> QED BY <1>b, <2>9, <2>10, <2>11, <2>13, <2>14
<1> QED BY <1>0, <1>1, <1>2, <1>3, <1>4, <1>5, <1>6, <1>7 DEF LookupNext

-----------------------------------------------------------------------------
(* The buttons. *)

Documents == [slot : BOOLEAN, slotButton : BOOLEAN, slotHidden : BOOLEAN, auto : BOOLEAN,
              floating : BOOLEAN, nativeHidden : SUBSET NativeButtons, viewport : Viewports]
Pages == [booted : BOOLEAN, observing : BOOLEAN, pixels : BOOLEAN, open : BOOLEAN,
          dirty : BOOLEAN]
Fetches == [for : {"nobody", "boot", "revalidate"}, answer : Configs \cup {NoConfig}]
Views == [opened : BOOLEAN, lost : BOOLEAN,
          events : SUBSET {"form_view", "button_click", "form_start"}]

ButtonsTypes ==
    /\ server \in Configs
    /\ {cached, config, http} \subseteq Configs \cup {NoConfig}
    /\ fetch \in Fetches /\ page \in Pages /\ dom \in Documents /\ view \in Views
    /\ acts \in 0..MaxActs

LEMMA ButtonsTypesAreThose == ButtonsTypes <=> ButtonsTypeOK
BY DEF ButtonsTypes, ButtonsTypeOK, Documents, Pages, Fetches, Views

\* A page view that has not begun shows no button, so no form can be open in it.
BlankUntilBooted ==
    ~page.booted =>
        /\ ~page.open /\ ~page.observing /\ ~page.dirty
        /\ ~dom.slotButton /\ ~dom.auto /\ ~dom.floating

\* The API is asked for the settings of a page view that has none, and asked about
\* those that are shown.
AskedInTurn ==
    /\ fetch.for = "boot" => ~page.booted
    /\ fetch.for = "revalidate" => page.booted

ButtonsInv == ButtonsTypes /\ BlankUntilBooted /\ AskedInTurn

\* What a page view that has begun may do to the page without ending it.
LEMMA BootedIsKept ==
    ASSUME page'.booted, fetch'.for # "boot"
    PROVE  BlankUntilBooted' /\ AskedInTurn'
BY DEF BlankUntilBooted, AskedInTurn

LEMMA ConfigFields ==
    ASSUME NEW c \in Configs
    PROVE  /\ c.pixels \in BOOLEAN /\ c.replace \subseteq NativeButtons
           /\ \A pl \in Placements : c.shown[pl] \subseteq Viewports
BY ButtonsAssumption DEF IsConfig

LEMMA RenderTypes ==
    ASSUME dom \in Documents, view \in Views, NEW c \in Configs \cup {NoConfig}, render(c)
    PROVE  dom' \in Documents /\ view' \in Views
<1>1. \A d \in Documents : renderSlots(c, d) \in Documents BY DEF renderSlots, Documents
<1>2. \A d \in Documents : autoPlaceProductButton(c, d) \in Documents
  BY DEF autoPlaceProductButton, isVisible, Documents
<1>3. \A d \in Documents : renderInjected(c, d) \in Documents
  <2>1. \A d \in Documents, b \in BOOLEAN : [d EXCEPT !.floating = b] \in Documents
    BY DEF Documents
  <2>2. \A d : isVisible(c, d, "FLOATING") \in BOOLEAN BY DEF isVisible
  <2> QED BY <2>1, <2>2 DEF renderInjected
<1>4. c \in Configs => \A d \in Documents : applyNativeButtonPolicy(c, d) \in Documents
  <2>1. c \in Configs => c.replace \subseteq NativeButtons BY ConfigFields
  <2> QED BY <2>1 DEF applyNativeButtonPolicy, Documents
<1>5. Renders(c) => RenderedDom(c, dom) \in Documents
  BY <1>1, <1>2, <1>3, <1>4 DEF RenderedDom, Renders
<1>6. [dom EXCEPT !.floating = FALSE] \in Documents BY DEF Documents
<1>7. dom' \in Documents BY <1>5, <1>6 DEF render
<1>8. view' = [view EXCEPT !.events = @ \cup {"form_view"}] \/ view' = view BY DEF render
<1>9. view' \in Views BY <1>8 DEF Views
<1> QED BY <1>7, <1>9

LEMMA StartedTypes ==
    ASSUME ButtonsTypes, NEW c \in Configs, Started(c)
    PROVE  dom' \in Documents /\ page' \in Pages /\ page'.booted /\ view' \in Views
<1>1. page \in Pages /\ dom \in Documents /\ view \in Views BY DEF ButtonsTypes
<1>2. CASE c = NoConfig \/ ~c.enabled
  <2>1. page' = [page EXCEPT !.booted = TRUE] /\ UNCHANGED <<dom, view>> BY <1>2 DEF Started
  <2> QED BY <1>1, <2>1 DEF Pages
<1>3. CASE ~(c = NoConfig \/ ~c.enabled)
  <2>1. page' = [page EXCEPT !.booted = TRUE, !.observing = TRUE, !.pixels = c.pixels] /\ render(c)
    BY <1>3 DEF Started
  <2>2. page' \in Pages /\ page'.booted BY <1>1, <2>1, ConfigFields DEF Pages
  <2> QED BY <1>1, <2>1, <2>2, RenderTypes
<1> QED BY <1>2, <1>3

LEMMA ButtonsInvStarts == ButtonsInit => ButtonsInv
<1> SUFFICES ASSUME ButtonsInit PROVE ButtonsInv OBVIOUS
<1>1. page \in Pages /\ page = BlankPage BY DEF ButtonsInit, Pages, BlankPage
<1>2. PICK slot \in BOOLEAN, v \in Viewports : dom = BlankDom(slot, v) BY DEF ButtonsInit
<1>3. dom \in Documents /\ ~dom.slotButton /\ ~dom.auto /\ ~dom.floating
  BY <1>2 DEF BlankDom, Documents
<1>4. acts = 0 /\ acts \in 0..MaxActs
  <2>1. MaxActs \in Nat BY ButtonsAssumption
  <2> QED BY <2>1 DEF ButtonsInit
<1>5. view = BlankView /\ fetch = NoFetch /\ server \in Configs
      /\ {cached, config, http} \subseteq Configs \cup {NoConfig}
  BY DEF ButtonsInit
<1>6. view \in Views /\ fetch \in Fetches BY <1>5 DEF BlankView, NoFetch, Views, Fetches
<1>7. ButtonsTypes BY <1>1, <1>3, <1>4, <1>5, <1>6 DEF ButtonsTypes
<1>8. BlankUntilBooted BY <1>1, <1>3 DEF BlankUntilBooted, BlankPage
<1>9. AskedInTurn BY <1>5 DEF AskedInTurn, NoFetch
<1> QED BY <1>7, <1>8, <1>9 DEF ButtonsInv

LEMMA FetchFields ==
    ASSUME fetch \in Fetches
    PROVE  /\ \A f \in {"nobody", "boot", "revalidate"}, a \in Configs \cup {NoConfig} :
                 LET g == [for |-> f, answer |-> a] IN g \in Fetches /\ g.for = f
           /\ \A a \in Configs \cup {NoConfig} :
                 LET g == [fetch EXCEPT !.answer = a] IN g \in Fetches /\ g.for = fetch.for
           /\ fetch.answer \in Configs \cup {NoConfig}
           /\ NoFetch \in Fetches /\ NoFetch.for = "nobody"
BY DEF Fetches, NoFetch

LEMMA ButtonsInvKept ==
    ASSUME ButtonsInv, [ButtonsNext]_bvars
    PROVE  ButtonsInv' /\ (page.open /\ page'.open => config' = config)
<1>a. ButtonsTypes /\ BlankUntilBooted /\ AskedInTurn BY DEF ButtonsInv
<1>b. ButtonsTypes' /\ BlankUntilBooted' /\ AskedInTurn' => ButtonsInv' BY DEF ButtonsInv
<1>c. /\ page \in Pages /\ dom \in Documents /\ view \in Views /\ fetch \in Fetches
      /\ acts \in 0..MaxActs /\ {cached, config, http} \subseteq Configs \cup {NoConfig}
      /\ server \in Configs /\ NoConfig \notin Configs
  BY <1>a, ButtonsAssumption DEF ButtonsTypes
<1>d. Act => acts' \in 0..MaxActs
  <2>1. MaxActs \in Nat BY ButtonsAssumption
  <2> QED BY <1>c, <2>1 DEF Act
<1>e. \A b \in BOOLEAN : /\ [page EXCEPT !.booted = b] \in Pages
                         /\ [page EXCEPT !.open = b] \in Pages
                         /\ [page EXCEPT !.dirty = b] \in Pages
  BY <1>c DEF Pages
<1>0. CASE UNCHANGED bvars
  BY <1>0, <1>a, <1>b DEF bvars, ButtonsTypes, BlankUntilBooted, AskedInTurn
<1>1. CASE BootFromCache
  <2>1. /\ cached \in Configs /\ ~page.booted /\ config' = cached /\ Started(cached)
        /\ fetch' = [for |-> "revalidate", answer |-> NoConfig]
        /\ UNCHANGED <<server, cached, http, acts>>
    BY <1>1, <1>c DEF BootFromCache
  <2>2. dom' \in Documents /\ page' \in Pages /\ page'.booted /\ view' \in Views
    BY <1>a, <2>1, StartedTypes
  <2>3. fetch' \in Fetches /\ fetch'.for = "revalidate" BY <1>c, <2>1, FetchFields
  <2>4. ButtonsTypes' BY <1>c, <2>1, <2>2, <2>3 DEF ButtonsTypes
  <2>5. ~page.open BY <1>a, <2>1 DEF BlankUntilBooted
  <2> QED BY <1>b, <2>2, <2>3, <2>4, <2>5, BootedIsKept
<1>2. CASE BootFromApi
  <2>1. /\ ~page.booted /\ fetch' = [for |-> "boot", answer |-> NoConfig]
        /\ UNCHANGED <<server, cached, config, http, page, dom, view, acts>>
    BY <1>2 DEF BootFromApi
  <2>2. fetch' \in Fetches /\ fetch'.for = "boot" BY <1>c, <2>1, FetchFields
  <2>3. ButtonsTypes' BY <1>a, <2>1, <2>2 DEF ButtonsTypes
  <2> QED BY <1>a, <1>b, <2>1, <2>2, <2>3 DEF BlankUntilBooted, AskedInTurn
<1>3. CASE Serve
  <2>1. PICK a \in Configs : fetch' = [fetch EXCEPT !.answer = a] /\ http' \in {a, server}
    BY <1>3, <1>c DEF Serve
  <2>2. UNCHANGED <<server, cached, config, page, dom, view, acts>> BY <1>3 DEF Serve
  <2>3. fetch' \in Fetches /\ fetch'.for = fetch.for BY <1>c, <2>1, FetchFields
  <2>4. ButtonsTypes' BY <1>a, <1>c, <2>1, <2>2, <2>3 DEF ButtonsTypes
  <2> QED BY <1>a, <1>b, <2>2, <2>3, <2>4 DEF BlankUntilBooted, AskedInTurn
<1>4. CASE Loaded
  <2>1. /\ fetch.for = "boot" /\ fetch.answer \in Configs
        /\ cached' = fetch.answer /\ config' = fetch.answer /\ Started(fetch.answer)
        /\ fetch' = NoFetch /\ UNCHANGED <<server, http, acts>>
    BY <1>4, <1>c, FetchFields DEF Loaded
  <2>2. dom' \in Documents /\ page' \in Pages /\ page'.booted /\ view' \in Views
    BY <1>a, <2>1, StartedTypes
  <2>3. fetch' \in Fetches /\ fetch'.for = "nobody" BY <1>c, <2>1, FetchFields
  <2>4. ButtonsTypes' BY <1>c, <2>1, <2>2, <2>3 DEF ButtonsTypes
  <2>5. ~page.open BY <1>a, <2>1 DEF BlankUntilBooted, AskedInTurn
  <2> QED BY <1>b, <2>2, <2>3, <2>4, <2>5, BootedIsKept
<1>5. CASE revalidateConfig
  <2>1. /\ fetch.for = "revalidate" /\ fetch.answer \in Configs
        /\ cached' = fetch.answer /\ fetch' = NoFetch /\ UNCHANGED <<server, http, page, acts>>
    BY <1>5, <1>c, FetchFields DEF revalidateConfig
  <2>2. CASE Replaces(fetch.answer)
    <3>1. config' = fetch.answer /\ render(fetch.answer) BY <1>5, <2>2 DEF revalidateConfig
    <3>2. dom' \in Documents /\ view' \in Views BY <1>c, <2>1, <3>1, RenderTypes
    <3>3. ~page.open BY <2>2 DEF Replaces
    <3>4. fetch' \in Fetches /\ fetch'.for = "nobody" BY <1>c, <2>1, FetchFields
    <3>5. ButtonsTypes' BY <1>c, <2>1, <3>1, <3>2, <3>4 DEF ButtonsTypes
    <3>6. page'.booted BY <1>a, <2>1 DEF AskedInTurn
    <3> QED BY <1>b, <3>3, <3>4, <3>5, <3>6, BootedIsKept
  <2>3. CASE ~Replaces(fetch.answer)
    <3>1. UNCHANGED <<config, dom, view>> BY <1>5, <2>3 DEF revalidateConfig
    <3>2. fetch' \in Fetches /\ fetch'.for = "nobody" BY <1>c, <2>1, FetchFields
    <3>3. ButtonsTypes' BY <1>c, <2>1, <3>1, <3>2 DEF ButtonsTypes
    <3>4. page'.booted BY <1>a, <2>1 DEF AskedInTurn
    <3> QED BY <1>b, <3>1, <3>2, <3>3, <3>4, BootedIsKept
  <2> QED BY <2>2, <2>3
<1>6. CASE Reject
  <2>1. /\ Act /\ fetch' = NoFetch /\ page' = [page EXCEPT !.booted = TRUE]
        /\ view' = [view EXCEPT !.lost = TRUE] /\ UNCHANGED <<server, cached, config, http, dom>>
    BY <1>6 DEF Reject
  <2>2. page' \in Pages /\ page'.booted BY <1>c, <2>1 DEF Pages
  <2>3. view' \in Views BY <1>c, <2>1 DEF Views
  <2>4. fetch' \in Fetches /\ fetch'.for = "nobody" BY <1>c, <2>1, FetchFields
  <2>5. ButtonsTypes' BY <1>c, <1>d, <2>1, <2>2, <2>3, <2>4 DEF ButtonsTypes
  <2> QED BY <1>b, <2>1, <2>2, <2>4, <2>5, BootedIsKept
<1>7. CASE openDialog
  <2>1. /\ Act /\ page' = [page EXCEPT !.open = TRUE]
        /\ view' = [view EXCEPT !.opened = TRUE, !.events = @ \cup {"button_click", "form_start"}]
        /\ UNCHANGED <<server, cached, config, http, fetch, dom>>
    BY <1>7 DEF openDialog
  <2>2. page.booted BY <1>7, <1>a DEF openDialog, BlankUntilBooted
  <2>3. page' \in Pages /\ page'.booted BY <1>c, <2>1, <2>2 DEF Pages
  <2>4. view' \in Views BY <1>c, <2>1 DEF Views
  <2>5. ButtonsTypes' BY <1>c, <1>d, <2>1, <2>3, <2>4 DEF ButtonsTypes
  <2>6. fetch.for # "boot" BY <1>a, <2>2 DEF AskedInTurn
  <2> QED BY <1>b, <2>1, <2>3, <2>5, <2>6, BootedIsKept
<1>8. CASE closeDialog
  <2>1. /\ page.open /\ page' = [page EXCEPT !.open = FALSE]
        /\ UNCHANGED <<server, cached, config, http, fetch, dom, view, acts>>
    BY <1>8 DEF closeDialog
  <2>2. page' \in Pages /\ page'.booted = page.booted BY <1>c, <2>1 DEF Pages
  <2>3. page.booted BY <1>a, <2>1 DEF BlankUntilBooted
  <2>4. ButtonsTypes' BY <1>c, <2>1, <2>2 DEF ButtonsTypes
  <2>5. fetch.for # "boot" BY <1>a, <2>3 DEF AskedInTurn
  <2> QED BY <1>b, <2>1, <2>2, <2>3, <2>4, <2>5, BootedIsKept
<1>9. CASE Resize \/ SectionChanges
  <2>1. /\ Act /\ page' = [page EXCEPT !.dirty = page.observing]
        /\ UNCHANGED <<server, cached, config, http, fetch, view>>
    BY <1>9 DEF Resize, SectionChanges
  <2>2. /\ page' \in Pages /\ page'.booted = page.booted /\ page'.open = page.open
        /\ page'.observing = page.observing /\ page'.dirty = page.observing
    BY <1>c, <2>1 DEF Pages
  <2>3. /\ dom' \in Documents /\ (dom'.slotButton => dom.slotButton)
        /\ dom'.auto = dom.auto /\ dom'.floating = dom.floating
    <3>1. CASE Resize
      <4>1. PICK v \in Viewports : dom' = [dom EXCEPT !.viewport = v]
        <5>1. \E v \in Viewports : v # dom.viewport BY DEF Viewports
        <5>2. (CHOOSE v \in Viewports : v # dom.viewport) \in Viewports BY <5>1
        <5> QED BY <3>1, <5>2 DEF Resize
      <4> QED BY <1>c, <4>1 DEF Documents
    <3>2. CASE SectionChanges
      <4>1. dom' = [dom EXCEPT !.slot = ~@, !.slotButton = FALSE, !.slotHidden = FALSE]
        BY <3>2 DEF SectionChanges
      <4> QED BY <1>c, <4>1 DEF Documents
    <3> QED BY <1>9, <3>1, <3>2
  <2>4. ButtonsTypes' BY <1>c, <1>d, <2>1, <2>2, <2>3 DEF ButtonsTypes
  <2>5. BlankUntilBooted' BY <1>a, <2>2, <2>3 DEF BlankUntilBooted
  <2>6. AskedInTurn' BY <1>a, <2>1, <2>2 DEF AskedInTurn
  <2> QED BY <1>b, <2>1, <2>4, <2>5, <2>6
<1>10. CASE rerender
  <2>1. /\ page.dirty /\ page' = [page EXCEPT !.dirty = FALSE] /\ render(config)
        /\ UNCHANGED <<server, cached, config, http, fetch, acts>>
    BY <1>10 DEF rerender
  <2>2. page.booted BY <1>a, <2>1 DEF BlankUntilBooted
  <2>3. page' \in Pages /\ page'.booted BY <1>c, <2>1, <2>2 DEF Pages
  <2>4. dom' \in Documents /\ view' \in Views BY <1>c, <2>1, RenderTypes
  <2>5. ButtonsTypes' BY <1>c, <2>1, <2>3, <2>4 DEF ButtonsTypes
  <2>6. fetch.for # "boot" BY <1>a, <2>2 DEF AskedInTurn
  <2> QED BY <1>b, <2>1, <2>3, <2>5, <2>6, BootedIsKept
<1>11. CASE EditSettings \/ ExpireHttp \/ ExpireCache
  <2>1. /\ Act /\ UNCHANGED <<config, fetch, page, dom, view>>
        /\ server' \in Configs /\ cached' \in {cached, NoConfig} /\ http' \in {http, NoConfig}
    BY <1>11, <1>c DEF EditSettings, ExpireHttp, ExpireCache
  <2>2. ButtonsTypes' BY <1>c, <1>d, <2>1 DEF ButtonsTypes
  <2> QED BY <1>a, <1>b, <2>1, <2>2 DEF BlankUntilBooted, AskedInTurn
<1>12. CASE Reload
  <2>1. /\ Act /\ config' = NoConfig /\ fetch' = NoFetch /\ page' = BlankPage
        /\ dom' = BlankDom(dom.slot, dom.viewport) /\ view' = BlankView
        /\ UNCHANGED <<server, cached, http>>
    BY <1>12 DEF Reload
  <2>2. /\ page' \in Pages /\ ~page'.open /\ ~page'.observing /\ ~page'.dirty
    BY <2>1 DEF BlankPage, Pages
  <2>3. dom.slot \in BOOLEAN /\ dom.viewport \in Viewports BY <1>c DEF Documents
  <2>4. dom' \in Documents /\ ~dom'.slotButton /\ ~dom'.auto /\ ~dom'.floating
    BY <2>1, <2>3 DEF BlankDom, Documents
  <2>5. view' \in Views BY <2>1 DEF BlankView, Views
  <2>6. fetch' \in Fetches /\ fetch'.for = "nobody" BY <1>c, <2>1, FetchFields
  <2>7. ButtonsTypes' BY <1>c, <1>d, <2>1, <2>2, <2>4, <2>5, <2>6 DEF ButtonsTypes
  <2>8. BlankUntilBooted' BY <2>2, <2>4 DEF BlankUntilBooted
  <2>9. AskedInTurn' BY <2>6 DEF AskedInTurn
  <2> QED BY <1>b, <2>2, <2>7, <2>8, <2>9
<1> QED BY <1>0, <1>1, <1>2, <1>3, <1>4, <1>5, <1>6, <1>7, <1>8, <1>9, <1>10, <1>11, <1>12
       DEF ButtonsNext

-----------------------------------------------------------------------------
(* The tags on the page. *)

PageStates ==
    [sent : SUBSET Keys, loaded : SUBSET Pixels, deferred : Seq(Events), held : BOOLEAN,
     granted : BOOLEAN, heard : [Pixels -> [Events -> Nat]],
     unconsented : SUBSET (Pixels \X Events)]

LEMMA TagFields ==
    ASSUME NEW i \in Pixels
    PROVE  /\ Tags[i].provider \in {"META", "TIKTOK", "GOOGLE_ADS", "SNAPCHAT", "PINTEREST",
                                    "CUSTOM"}
           /\ Tags[i].requireConsent \in BOOLEAN /\ Tags[i].gtm \in BOOLEAN
           /\ Tags[i].label \in BOOLEAN
BY PixelsAssumption DEF Pixels, IsTag

LEMMA KeysAreKeys ==
    ASSUME NEW i \in Pixels, NEW e \in Events
    PROVE  sentKey(i, e) \in Keys
<1>1. Tags[i].provider \in {t.provider : t \in {Tags[k] : k \in 1..Len(Tags)}} BY DEF Pixels
<1>2. (IF ADDRESSABLE(Tags[i].provider) THEN i ELSE 0) \in Pixels \cup {0} OBVIOUS
<1> QED BY <1>1, <1>2 DEF sentKey, Keys

\* A key tells the events apart, and the tags that can be addressed.
LEMMA KeysTellApart ==
    ASSUME NEW i \in Pixels, NEW j \in Pixels, NEW e, NEW f, sentKey(i, e) = sentKey(j, f)
    PROVE  e = f /\ (ADDRESSABLE(Tags[j].provider) => i = j)
BY DEF sentKey, Pixels

\* Who hears a call made for the tag i: a tag of its key, or another container; of
\* the tags that a call can be made for alone, only i.
LEMMA WhoHears ==
    ASSUME NEW i \in Pixels, NEW loaded \in SUBSET Pixels
    PROVE  /\ Reached(i, loaded) \subseteq Pixels
           /\ \A j \in Reached(i, loaded) :
                 /\ ~Tags[j].gtm => \A e : sentKey(j, e) = sentKey(i, e)
                 /\ Alone(j) => j = i
           /\ Alone(i) => i \in Reached(i, loaded)
<1>1. CASE Tags[i].provider \in {"META", "TIKTOK"}
  <2>1. Reached(i, loaded) = {i} BY <1>1 DEF Reached, trackMeta, trackTikTok
  <2> QED BY <2>1
<1>2. CASE Tags[i].provider \in {"SNAPCHAT", "PINTEREST"}
  <2>1. Reached(i, loaded) = {j \in loaded : Tags[j].provider = Tags[i].provider}
    BY <1>2 DEF Reached, trackSnapchat, trackPinterest
  <2> QED BY <1>2, <2>1 DEF sentKey, Alone, ADDRESSABLE
<1>3. CASE Tags[i].provider = "GOOGLE_ADS"
  <2>1. Reached(i, loaded) = trackGoogle(i, loaded) BY <1>3 DEF Reached
  <2>2. Tags[i].gtm => Reached(i, loaded) = {j \in loaded : Tags[j].gtm}
    BY <2>1 DEF trackGoogle
  <2>3. ~Tags[i].gtm /\ Tags[i].label => Reached(i, loaded) = {i} BY <2>1 DEF trackGoogle
  <2>4. ~Tags[i].gtm /\ ~Tags[i].label => Reached(i, loaded) = {} BY <2>1 DEF trackGoogle
  <2> QED BY <2>2, <2>3, <2>4 DEF Alone
<1>4. CASE Tags[i].provider = "CUSTOM"
  <2>1. Reached(i, loaded) = {} BY <1>4 DEF Reached
  <2> QED BY <1>4, <2>1 DEF Alone, ADDRESSABLE
<1> QED BY <1>1, <1>2, <1>3, <1>4, TagFields

\* What the call for i takes the page from s to r: whom it tells, and who was told
\* without the consent it asks for.
Tells(s, r, i, e) ==
    \A j \in Pixels, f \in Events :
        LET hears == j \in Reached(i, s.loaded \cup {i}) /\ f = e IN
        /\ hears => r.heard[j][f] = s.heard[j][f] + 1
        /\ ~hears => r.heard[j][f] = s.heard[j][f]
        /\ <<j, f>> \in r.unconsented =>
               \/ <<j, f>> \in s.unconsented
               \/ hears /\ Tags[j].requireConsent /\ ~s.granted

\* What a call changes, field by field.
LEMMA SendFields ==
    ASSUME NEW s \in PageStates, NEW i \in Pixels, NEW e \in Events
    PROVE  /\ send(s, i, e) \in PageStates
           /\ send(s, i, e).sent = s.sent \cup {sentKey(i, e)}
           /\ send(s, i, e).deferred = s.deferred
           /\ send(s, i, e).held = s.held
           /\ send(s, i, e).granted = s.granted
           /\ Tells(s, send(s, i, e), i, e)
<1> DEFINE loaded == s.loaded \cup {i}
           ears == Reached(i, loaded)
           H == [j \in Pixels |-> [f \in Events |->
                     s.heard[j][f] + (IF j \in ears /\ f = e THEN 1 ELSE 0)]]
           U == s.unconsented \cup ({j \in ears : Tags[j].requireConsent /\ ~s.granted} \X {e})
           S == s.sent \cup {sentKey(i, e)}
<1>1. loaded \in SUBSET Pixels BY DEF PageStates
<1>2. ears \subseteq Pixels BY <1>1, WhoHears
<1>3. S \in SUBSET Keys BY KeysAreKeys DEF PageStates
<1>4. H \in [Pixels -> [Events -> Nat]]
  <2>1. \A j \in Pixels, f \in Events : s.heard[j][f] \in Nat BY DEF PageStates
  <2>2. \A j \in Pixels, f \in Events :
           s.heard[j][f] + (IF j \in ears /\ f = e THEN 1 ELSE 0) \in Nat
    BY <2>1
  <2> QED BY <2>2
<1>5. U \in SUBSET (Pixels \X Events) BY <1>2 DEF PageStates
<1>6. send(s, i, e) = [s EXCEPT !.sent = S, !.loaded = loaded, !.heard = H, !.unconsented = U]
  BY DEF send
<1>7. \A j \in Pixels, f \in Events :
         H[j][f] = s.heard[j][f] + (IF j \in ears /\ f = e THEN 1 ELSE 0)
  OBVIOUS
<1> HIDE DEF H, U, S, ears, loaded
<1>8. /\ send(s, i, e) \in PageStates
      /\ send(s, i, e).sent = S /\ send(s, i, e).deferred = s.deferred
      /\ send(s, i, e).held = s.held /\ send(s, i, e).granted = s.granted
      /\ send(s, i, e).heard = H /\ send(s, i, e).unconsented = U
  BY <1>1, <1>3, <1>4, <1>5, <1>6 DEF PageStates
<1> DEFINE r == send(s, i, e)
<1> HIDE DEF r
<1>9. ASSUME NEW j \in Pixels, NEW f \in Events
      PROVE  /\ j \in ears /\ f = e => r.heard[j][f] = s.heard[j][f] + 1
             /\ ~(j \in ears /\ f = e) => r.heard[j][f] = s.heard[j][f]
             /\ <<j, f>> \in r.unconsented =>
                    \/ <<j, f>> \in s.unconsented
                    \/ j \in ears /\ f = e /\ Tags[j].requireConsent /\ ~s.granted
  <2>1. r.heard = H /\ r.unconsented = U BY <1>8 DEF r
  <2>2. s.heard[j][f] \in Nat BY DEF PageStates
  <2> QED BY <1>7, <2>1, <2>2 DEF U
<1>10. r.sent = s.sent \cup {sentKey(i, e)} BY <1>8 DEF r, S
<1>11. Tells(s, r, i, e) BY <1>9 DEF Tells, ears, loaded
<1> QED BY <1>8, <1>10, <1>11 DEF r

LEMMA OnePixelTypes ==
    ASSUME NEW s \in PageStates, NEW i \in Pixels, NEW e \in Events
    PROVE  OnePixel(s, i, e) \in PageStates
<1>1. send(s, i, e) \in PageStates BY SendFields
<1>2. [s EXCEPT !.held = TRUE] \in PageStates BY DEF PageStates
<1> QED BY <1>1, <1>2 DEF OnePixel

LEMMA ForEachPixelRuns ==
    ASSUME NEW s \in PageStates, NEW e \in Events
    PROVE  \E f : /\ f[0] = [s EXCEPT !.held = FALSE]
                  /\ \A i \in Pixels : f[i] = OnePixel(f[i - 1], i, e)
                  /\ ForEachPixel(s, e) = f[Len(Tags)]
<1> DEFINE N == Len(Tags)
           a == [s EXCEPT !.held = FALSE]
           upTo[i \in 0..N] == IF i = 0 THEN a ELSE OnePixel(upTo[i - 1], i, e)
           F == [d \in PageStates |-> [i \in 1..N |-> OnePixel(d, i, e)]]
           Unfolds(g) == g = [i \in 0..N |-> IF i = 0 THEN a ELSE OnePixel(g[i - 1], i, e)]
<1>0. N \in Nat /\ Pixels = 1..N BY PixelsAssumption DEF Pixels
<1>1. a \in PageStates BY DEF PageStates
<1>2. \A d \in PageStates, i \in 1..N : F[d][i] = OnePixel(d, i, e) OBVIOUS
<1>3. F \in [PageStates -> [1..N -> PageStates]] BY <1>0, OnePixelTypes
<1>4. upTo = CHOOSE h : Unfolds(h) OBVIOUS
<1>5. ForEachPixel(s, e) = upTo[N] BY DEF ForEachPixel
<1> HIDE DEF F, a, N, upTo
<1>6. PICK g \in [0..N -> PageStates] : IsRun(N, a, F, g)
  BY <1>0, <1>1, <1>3, LoopRuns
<1>7. \A i \in 1..N : g[i] = OnePixel(g[i - 1], i, e)
  <2>1. \A i \in 1..N : i - 1 \in 0..N BY <1>0
  <2> QED BY <1>2, <1>6, <2>1 DEF IsRun
<1>8. Unfolds(g)
  <2>1. \A i \in 0..N : i # 0 => i \in 1..N BY <1>0
  <2> QED BY <1>6, <1>7, <2>1 DEF IsRun
<1>9. Unfolds(upTo) BY <1>4, <1>8
<1>10. 0 \in 0..N /\ \A i \in 1..N : i \in 0..N /\ i # 0 BY <1>0
<1>11. upTo[0] = a /\ \A i \in 1..N : upTo[i] = OnePixel(upTo[i - 1], i, e)
  BY <1>9, <1>10
<1> QED BY <1>0, <1>5, <1>11 DEF a, N

-----------------------------------------------------------------------------
(* What one call, one event and a list of events keep. *)

\* No tag is told twice, and a tag that can be told alone is told exactly what was
\* sent for it, with the consent and the events its merchant asks for.
Sound(s) ==
    \A j \in Pixels, f \in Events :
        /\ ~Tags[j].gtm => /\ s.heard[j][f] <= 1
                           /\ s.heard[j][f] = 1 => sentKey(j, f) \in s.sent
        /\ Alone(j) => /\ <<j, f>> \notin s.unconsented
                       /\ sentKey(j, f) \in s.sent => s.heard[j][f] = 1
                       /\ (Tags[j].enabled # {} /\ f.name \notin Tags[j].enabled)
                              => s.heard[j][f] = 0

LEMMA SoundFields ==
    ASSUME NEW s, NEW r, Sound(s), r.sent = s.sent, r.heard = s.heard,
           r.unconsented = s.unconsented
    PROVE  Sound(r)
BY DEF Sound

LEMMA SendIsSound ==
    ASSUME NEW s \in PageStates, Sound(s), NEW i \in Pixels, NEW e \in Events,
           sentKey(i, e) \notin s.sent, eligibility(Tags[i], e, s.granted) = "send"
    PROVE  Sound(send(s, i, e))
<1> DEFINE r == send(s, i, e)
           ears == Reached(i, s.loaded \cup {i})
<1> SUFFICES ASSUME NEW j \in Pixels, NEW f \in Events
             PROVE  /\ ~Tags[j].gtm => /\ r.heard[j][f] <= 1
                                       /\ r.heard[j][f] = 1 => sentKey(j, f) \in r.sent
                    /\ Alone(j) => /\ <<j, f>> \notin r.unconsented
                                   /\ sentKey(j, f) \in r.sent => r.heard[j][f] = 1
                                   /\ (Tags[j].enabled # {} /\ f.name \notin Tags[j].enabled)
                                          => r.heard[j][f] = 0
  BY DEF Sound
<1>1. s.loaded \cup {i} \in SUBSET Pixels BY DEF PageStates
<1>2. s.heard[j][f] \in Nat BY DEF PageStates
<1>3. /\ r.sent = s.sent \cup {sentKey(i, e)}
      /\ j \in ears /\ f = e => r.heard[j][f] = s.heard[j][f] + 1
      /\ ~(j \in ears /\ f = e) => r.heard[j][f] = s.heard[j][f]
      /\ <<j, f>> \in r.unconsented =>
             \/ <<j, f>> \in s.unconsented
             \/ j \in ears /\ f = e /\ Tags[j].requireConsent /\ ~s.granted
  <2>1. r.sent = s.sent \cup {sentKey(i, e)} /\ Tells(s, r, i, e) BY SendFields
  <2> QED BY <2>1 DEF Tells
<1>4. /\ j \in ears /\ ~Tags[j].gtm => sentKey(j, e) = sentKey(i, e)
      /\ j \in ears /\ Alone(j) => j = i
      /\ Alone(i) => i \in ears
  BY <1>1, WhoHears
<1>5. /\ ~Tags[j].gtm => /\ s.heard[j][f] <= 1
                         /\ s.heard[j][f] = 1 => sentKey(j, f) \in s.sent
      /\ Alone(j) => /\ <<j, f>> \notin s.unconsented
                     /\ sentKey(j, f) \in s.sent => s.heard[j][f] = 1
                     /\ (Tags[j].enabled # {} /\ f.name \notin Tags[j].enabled)
                            => s.heard[j][f] = 0
  BY DEF Sound
<1>6. Alone(j) => ADDRESSABLE(Tags[j].provider) /\ ~Tags[j].gtm BY DEF Alone
<1>7. sentKey(j, f) = sentKey(i, e) => f = e /\ (ADDRESSABLE(Tags[j].provider) => j = i)
  BY KeysTellApart
<1>8. /\ ~(Tags[i].requireConsent /\ ~s.granted)
      /\ ~(Tags[i].enabled # {} /\ e.name \notin Tags[i].enabled)
  BY DEF eligibility
<1> HIDE DEF r, ears
<1>9. CASE j \in ears /\ f = e
  <2>1. r.heard[j][f] = s.heard[j][f] + 1 BY <1>3, <1>9
  <2>2. ~Tags[j].gtm => s.heard[j][f] = 0
    BY <1>2, <1>4, <1>5, <1>9
  <2>3. ~Tags[j].gtm => r.heard[j][f] = 1 BY <2>1, <2>2
  <2>4. ~Tags[j].gtm => sentKey(j, f) \in r.sent BY <1>3, <1>4, <1>9
  <2>5. Alone(j) => <<j, f>> \notin r.unconsented BY <1>3, <1>4, <1>5, <1>8, <1>9
  <2> QED BY <1>4, <1>6, <1>8, <1>9, <2>3, <2>4, <2>5
<1>10. CASE ~(j \in ears /\ f = e)
  <2>1. r.heard[j][f] = s.heard[j][f] BY <1>2, <1>3, <1>10
  <2>2. <<j, f>> \notin s.unconsented => <<j, f>> \notin r.unconsented BY <1>3, <1>10
  <2>3. Alone(j) => sentKey(j, f) # sentKey(i, e) BY <1>4, <1>6, <1>7, <1>10
  <2> QED BY <1>3, <1>5, <2>1, <2>2, <2>3
<1> QED BY <1>9, <1>10

\* The loop has dealt with the tag j: it was told of e, or e is held for it.
Served(s, j, e) ==
    Alone(j) =>
        /\ eligibility(Tags[j], e, s.granted) = "send" => sentKey(j, e) \in s.sent
        /\ eligibility(Tags[j], e, s.granted) = "no-consent" => sentKey(j, e) \in s.sent \/ s.held

\* What the loop over the pixels has reached after i of them, having begun with s.
After(s, e) ==
    [i \in 0..Len(Tags) |->
        {r \in PageStates : /\ Sound(r) /\ r.granted = s.granted /\ r.deferred = s.deferred
                            /\ s.sent \subseteq r.sent /\ (r.held => ~r.granted)
                            /\ \A j \in 1..i : Served(r, j, e)}]

LEMMA EachPixelIsServed ==
    ASSUME NEW s \in PageStates, Sound(s), NEW e \in Events
    PROVE  ForEachPixel(s, e) \in After(s, e)[Len(Tags)]
<1> DEFINE N == Len(Tags)
<1>0. N \in Nat /\ Pixels = 1..N BY PixelsAssumption DEF Pixels
<1>1. PICK f : /\ f[0] = [s EXCEPT !.held = FALSE]
               /\ \A i \in Pixels : f[i] = OnePixel(f[i - 1], i, e)
               /\ ForEachPixel(s, e) = f[N]
  BY ForEachPixelRuns
<1>2. f[0] \in After(s, e)[0]
  <2>1. /\ f[0] \in PageStates /\ f[0].granted = s.granted /\ f[0].deferred = s.deferred
        /\ f[0].sent = s.sent /\ f[0].held = FALSE /\ f[0].heard = s.heard
        /\ f[0].unconsented = s.unconsented
    BY <1>1 DEF PageStates
  <2>2. Sound(f[0]) BY <2>1, SoundFields
  <2>3. 0 \in 0..N /\ 1..0 = {} BY <1>0
  <2> QED BY <2>1, <2>2, <2>3 DEF After
<1>3. ASSUME NEW i \in 1..N, f[i - 1] \in After(s, e)[i - 1] PROVE f[i] \in After(s, e)[i]
  <2> DEFINE d == f[i - 1]
             r == f[i]
  <2>1. i \in Pixels /\ i \in 0..N /\ i - 1 \in 0..N BY <1>0
  <2>2. \A j \in 1..i : j \in Pixels /\ (j = i \/ j \in 1..(i - 1)) BY <1>0
  <2>3. /\ d \in PageStates /\ Sound(d) /\ d.granted = s.granted /\ d.deferred = s.deferred
        /\ s.sent \subseteq d.sent /\ (d.held => ~d.granted)
        /\ \A j \in 1..(i - 1) : Served(d, j, e)
    BY <1>3, <2>1 DEF After
  <2>4. r = OnePixel(d, i, e) BY <1>1, <2>1
  <2> DEFINE verdict == eligibility(Tags[i], e, d.granted)
  <2> HIDE DEF d, r
  <2>5. verdict = "no-consent" => ~d.granted BY DEF eligibility
  <2>6. verdict \in {"no-consent", "not-enabled", "unsupported", "send"} BY DEF eligibility
  <2>7. /\ r \in PageStates /\ Sound(r) /\ r.granted = d.granted /\ r.deferred = d.deferred
        /\ d.sent \subseteq r.sent /\ (d.held => r.held) /\ (r.held => ~r.granted)
        /\ verdict = "send" => sentKey(i, e) \in r.sent
        /\ verdict = "no-consent" => sentKey(i, e) \in r.sent \/ r.held
    <3>1. CASE sentKey(i, e) \in d.sent
      <4>1. r = d BY <2>4, <3>1 DEF OnePixel
      <4> QED BY <2>3, <3>1, <4>1
    <3>2. CASE sentKey(i, e) \notin d.sent /\ verdict = "no-consent"
      <4>1. r = [d EXCEPT !.held = TRUE] BY <2>4, <3>2 DEF OnePixel
      <4>2. /\ r \in PageStates /\ r.granted = d.granted /\ r.deferred = d.deferred
            /\ r.sent = d.sent /\ r.held = TRUE /\ r.heard = d.heard
            /\ r.unconsented = d.unconsented
        BY <2>3, <4>1 DEF PageStates
      <4>3. Sound(r) BY <2>3, <4>2, SoundFields
      <4> QED BY <2>5, <3>2, <4>2, <4>3
    <3>3. CASE sentKey(i, e) \notin d.sent /\ verdict = "send"
      <4>1. r = send(d, i, e) BY <2>4, <3>3 DEF OnePixel
      <4>2. /\ r \in PageStates /\ r.granted = d.granted /\ r.deferred = d.deferred
            /\ r.sent = d.sent \cup {sentKey(i, e)} /\ r.held = d.held
        BY <2>1, <2>3, <4>1, SendFields
      <4>3. Sound(r) BY <2>1, <2>3, <3>3, <4>1, SendIsSound
      <4> QED BY <2>3, <3>3, <4>2, <4>3
    <3>4. CASE sentKey(i, e) \notin d.sent /\ verdict \in {"not-enabled", "unsupported"}
      <4>1. r = d BY <2>4, <3>4 DEF OnePixel
      <4> QED BY <2>3, <3>4, <4>1
    <3> QED BY <2>6, <3>1, <3>2, <3>3, <3>4
  <2>8. ASSUME NEW j \in 1..i PROVE Served(r, j, e)
    <3>1. CASE j = i BY <2>7, <3>1 DEF Served
    <3>2. CASE j \in 1..(i - 1)
      <4>1. Served(d, j, e) BY <2>3, <3>2
      <4> QED BY <2>7, <4>1 DEF Served
    <3> QED BY <2>2, <3>1, <3>2
  <2>9. s.sent \subseteq r.sent /\ r.granted = s.granted /\ r.deferred = s.deferred
    BY <2>3, <2>7
  <2> QED BY <2>1, <2>7, <2>8, <2>9 DEF After, r
<1> HIDE DEF N
<1>4. f[N] \in After(s, e)[N] BY <1>0, <1>2, <1>3, LoopKeeps
<1> QED BY <1>1, <1>4 DEF N

\* The event e is held until the shopper consents.
Held(s, e) == \E k \in 1..Len(s.deferred) : s.deferred[k] = e

\* Every tag that can be told alone, and that may hear of e once the shopper
\* consents, was told or will be.
CaredFor(s, e) ==
    \A j \in Pixels :
        (Alone(j) /\ eligibility(Tags[j], e, TRUE) = "send")
            => \/ sentKey(j, e) \in s.sent
               \/ Tags[j].requireConsent /\ ~s.granted /\ Held(s, e)

\* What emitting an event, or several, does to a page.
GoesOn(s, r) ==
    /\ r \in PageStates /\ Sound(r) /\ r.granted = s.granted
    /\ s.sent \subseteq r.sent
    /\ s.granted => r.deferred = s.deferred
    /\ \A e \in Events : Held(s, e) => Held(r, e)

LEMMA CareLasts ==
    ASSUME NEW s, NEW r, GoesOn(s, r), NEW e \in Events, CaredFor(s, e)
    PROVE  CaredFor(r, e)
BY DEF GoesOn, CaredFor

LEMMA GoesOnTwice ==
    ASSUME NEW s, NEW d, NEW r, GoesOn(s, d), GoesOn(d, r)
    PROVE  GoesOn(s, r)
BY DEF GoesOn

LEMMA AppendHolds ==
    ASSUME NEW q \in Seq(Events), NEW e \in Events
    PROVE  /\ Append(q, e) \in Seq(Events)
           /\ \E k \in 1..Len(Append(q, e)) : Append(q, e)[k] = e
           /\ \A f : (\E k \in 1..Len(q) : q[k] = f)
                        => \E k \in 1..Len(Append(q, e)) : Append(q, e)[k] = f
<1> DEFINE r == Append(q, e)
<1>1. /\ r \in Seq(Events) /\ Len(r) = Len(q) + 1 /\ r[Len(q) + 1] = e
      /\ \A k \in 1..Len(q) : r[k] = q[k]
  OBVIOUS
<1>2. Len(q) \in Nat /\ Len(q) + 1 \in 1..(Len(q) + 1)
      /\ \A k \in 1..Len(q) : k \in 1..(Len(q) + 1)
  OBVIOUS
<1> HIDE DEF r
<1>3. \E k \in 1..Len(r) : r[k] = e BY <1>1, <1>2
<1>4. ASSUME NEW f, NEW k \in 1..Len(q), q[k] = f PROVE \E n \in 1..Len(r) : r[n] = f
  BY <1>1, <1>2, <1>4
<1> QED BY <1>1, <1>3, <1>4 DEF r

LEMMA EmitCares ==
    ASSUME NEW s \in PageStates, Sound(s), NEW e \in Events
    PROVE  GoesOn(s, emit(s, e)) /\ CaredFor(emit(s, e), e)
<1> DEFINE after == ForEachPixel(s, e)
           r == emit(s, e)
           isHeld == \E k \in 1..Len(s.deferred) : s.deferred[k] = e
<1>0. Len(Tags) \in Nat /\ Pixels = 1..Len(Tags) /\ Len(Tags) \in 0..Len(Tags)
  BY PixelsAssumption DEF Pixels
<1>1. after \in After(s, e)[Len(Tags)] BY EachPixelIsServed
<1>2. /\ after \in PageStates /\ Sound(after) /\ after.granted = s.granted
      /\ after.deferred = s.deferred /\ s.sent \subseteq after.sent
      /\ (after.held => ~after.granted) /\ \A j \in Pixels : Served(after, j, e)
  BY <1>0, <1>1 DEF After
<1>3. s.deferred \in Seq(Events) /\ s.granted \in BOOLEAN BY DEF PageStates
<1>4. r = IF after.held /\ ~isHeld
          THEN [after EXCEPT !.deferred = Append(after.deferred, e)] ELSE after
  BY DEF emit
<1> HIDE DEF after, r
<1>5. CASE after.held /\ ~isHeld
  <2>1. r = [after EXCEPT !.deferred = Append(s.deferred, e)] BY <1>2, <1>4, <1>5
  <2>2. Append(s.deferred, e) \in Seq(Events) BY <1>3, AppendHolds
  <2>3. /\ r \in PageStates /\ r.granted = after.granted /\ r.sent = after.sent
        /\ r.heard = after.heard /\ r.unconsented = after.unconsented
        /\ r.deferred = Append(s.deferred, e)
    BY <1>2, <2>1, <2>2 DEF PageStates
  <2>4. Sound(r) BY <1>2, <2>3, SoundFields
  <2>5. Held(r, e) /\ \A f \in Events : Held(s, f) => Held(r, f)
    BY <1>3, <2>3, AppendHolds DEF Held
  <2>6. ~s.granted BY <1>2, <1>5
  <2>7. GoesOn(s, r) BY <1>2, <2>3, <2>4, <2>5, <2>6 DEF GoesOn
  <2>8. CaredFor(r, e)
    BY <1>2, <2>3, <2>5, <2>6 DEF CaredFor, Served, eligibility
  <2> QED BY <2>7, <2>8 DEF r
<1>6. CASE ~(after.held /\ ~isHeld)
  <2>1. r = after BY <1>4, <1>6
  <2>2. after.held => Held(r, e) /\ ~r.granted BY <1>2, <1>6, <2>1 DEF Held
  <2>3. \A f \in Events : Held(s, f) => Held(r, f) BY <1>2, <2>1 DEF Held
  <2>4. GoesOn(s, r) BY <1>2, <2>1, <2>3 DEF GoesOn
  <2>5. CaredFor(r, e)
    <3> SUFFICES ASSUME NEW j \in Pixels, Alone(j), eligibility(Tags[j], e, TRUE) = "send",
                        sentKey(j, e) \notin r.sent
                 PROVE  Tags[j].requireConsent /\ ~r.granted /\ Held(r, e)
      BY DEF CaredFor
    <3>1. Served(r, j, e) BY <1>2, <2>1
    <3>2. eligibility(Tags[j], e, r.granted) # "send" BY <3>1 DEF Served
    <3>3. Tags[j].requireConsent /\ ~r.granted BY <3>2 DEF eligibility
    <3>4. eligibility(Tags[j], e, r.granted) = "no-consent" BY <3>3 DEF eligibility
    <3>5. r.held BY <3>1, <3>4 DEF Served
    <3> QED BY <2>1, <2>2, <3>3, <3>5
  <2> QED BY <2>4, <2>5 DEF r
<1> QED BY <1>5, <1>6

LEMMA EmitAllRuns ==
    ASSUME NEW s \in PageStates, Sound(s), NEW es \in Seq(Events)
    PROVE  \E f : /\ f[0] = s
                  /\ \A k \in 1..Len(es) : f[k] = emit(f[k - 1], es[k])
                  /\ emitAll(s, es) = f[Len(es)]
<1> DEFINE N == Len(es)
           D == {r \in PageStates : Sound(r)}
           upTo[k \in 0..N] == IF k = 0 THEN s ELSE emit(upTo[k - 1], es[k])
           F == [d \in D |-> [k \in 1..N |-> emit(d, es[k])]]
           Unfolds(g) == g = [k \in 0..N |-> IF k = 0 THEN s ELSE emit(g[k - 1], es[k])]
<1>0. N \in Nat /\ \A k \in 1..N : es[k] \in Events OBVIOUS
<1>1. s \in D OBVIOUS
<1>2. \A d \in D, k \in 1..N : F[d][k] = emit(d, es[k]) OBVIOUS
<1>3. F \in [D -> [1..N -> D]]
  <2>1. \A d \in D, k \in 1..N : emit(d, es[k]) \in D BY <1>0, EmitCares DEF GoesOn
  <2> QED BY <2>1
<1>4. upTo = CHOOSE h : Unfolds(h) OBVIOUS
<1>5. emitAll(s, es) = upTo[N] BY DEF emitAll
<1> HIDE DEF F, D, N, upTo
<1>6. PICK g \in [0..N -> D] : IsRun(N, s, F, g)
  BY <1>0, <1>1, <1>3, LoopRuns
<1>7. \A k \in 1..N : g[k] = emit(g[k - 1], es[k])
  <2>1. \A k \in 1..N : k - 1 \in 0..N BY <1>0
  <2> QED BY <1>2, <1>6, <2>1 DEF IsRun
<1>8. Unfolds(g)
  <2>1. \A k \in 0..N : k # 0 => k \in 1..N BY <1>0
  <2> QED BY <1>6, <1>7, <2>1 DEF IsRun
<1>9. Unfolds(upTo) BY <1>4, <1>8
<1>10. 0 \in 0..N /\ \A k \in 1..N : k \in 0..N /\ k # 0 BY <1>0
<1>11. upTo[0] = s /\ \A k \in 1..N : upTo[k] = emit(upTo[k - 1], es[k])
  BY <1>9, <1>10
<1> QED BY <1>5, <1>11 DEF N

\* Everything in a list of events is cared for.
LEMMA EmitAllCares ==
    ASSUME NEW s \in PageStates, Sound(s), NEW es \in Seq(Events)
    PROVE  /\ GoesOn(s, emitAll(s, es))
           /\ \A k \in 1..Len(es) : CaredFor(emitAll(s, es), es[k])
<1> DEFINE N == Len(es)
           Reach == [k \in 0..N |-> {r \in PageStates : GoesOn(s, r)
                                        /\ \A m \in 1..k : CaredFor(r, es[m])}]
<1>0. N \in Nat /\ (\A k \in 1..N : es[k] \in Events) /\ N \in 0..N OBVIOUS
<1>1. PICK f : /\ f[0] = s /\ \A k \in 1..N : f[k] = emit(f[k - 1], es[k])
               /\ emitAll(s, es) = f[N]
  BY EmitAllRuns
<1>2. f[0] \in Reach[0]
  <2>1. 0 \in 0..N /\ 1..0 = {} BY <1>0
  <2>2. GoesOn(s, s) BY DEF GoesOn
  <2> QED BY <1>1, <2>1, <2>2
<1>3. ASSUME NEW k \in 1..N, f[k - 1] \in Reach[k - 1] PROVE f[k] \in Reach[k]
  <2> DEFINE d == f[k - 1]
             r == f[k]
  <2>1. k \in 0..N /\ k - 1 \in 0..N /\ es[k] \in Events BY <1>0
  <2>2. \A m \in 1..k : (m = k \/ m \in 1..(k - 1)) /\ es[m] \in Events BY <1>0
  <2>3. d \in PageStates /\ GoesOn(s, d) /\ \A m \in 1..(k - 1) : CaredFor(d, es[m])
    BY <1>3, <2>1
  <2>4. r = emit(d, es[k]) BY <1>1
  <2> HIDE DEF d, r
  <2>5. Sound(d) BY <2>3 DEF GoesOn
  <2>6. GoesOn(d, r) /\ CaredFor(r, es[k]) BY <2>1, <2>3, <2>4, <2>5, EmitCares
  <2>7. GoesOn(s, r) BY <2>3, <2>6, GoesOnTwice
  <2>8. r \in PageStates BY <2>6 DEF GoesOn
  <2>9. \A m \in 1..k : CaredFor(r, es[m])
    <3> SUFFICES ASSUME NEW m \in 1..k PROVE CaredFor(r, es[m]) OBVIOUS
    <3>1. CASE m = k BY <2>6, <3>1
    <3>2. CASE m \in 1..(k - 1) BY <2>2, <2>3, <2>6, <3>2, CareLasts
    <3> QED BY <2>2, <3>1, <3>2
  <2>10. r \in Reach[k] BY <2>1, <2>7, <2>8, <2>9
  <2> QED BY <2>10 DEF r
<1>4. f[N] \in Reach[N]
  <2> HIDE DEF N, Reach
  <2> QED BY <1>0, <1>2, <1>3, LoopKeeps
<1>5. GoesOn(s, f[N]) /\ \A k \in 1..N : CaredFor(f[N], es[k]) BY <1>0, <1>4
<1> QED BY <1>1, <1>5

-----------------------------------------------------------------------------
(* The pixels' invariant. *)

PageNow == Page(consent.granted)

\* Nothing is held before the bundle has started, or from a shopper who consents.
HeldWithoutConsent == (~started \/ consent.granted) => tracking.deferred = <<>>

PixelInv == PixelsTypeOK /\ Sound(PageNow) /\ HeldWithoutConsent

\* An event that was announced waits for the bundle, or is cared for by it.
Reported(e) ==
    IF started THEN CaredFor(PageNow, e) ELSE \E k \in 1..Len(queue) : queue[k] = e

LEMMA PageNowFields ==
    /\ PageNow.sent = tracking.sent /\ PageNow.loaded = tracking.loaded
    /\ PageNow.deferred = tracking.deferred /\ PageNow.granted = consent.granted
    /\ PageNow.heard = heard /\ PageNow.unconsented = unconsented
BY DEF PageNow, Page

LEMMA PageNowTypes == PixelsTypeOK => PageNow \in PageStates
BY DEF PixelsTypeOK, PageNow, Page, PageStates

LEMMA PageDecides ==
    ASSUME NEW s, NEW r, r.sent = s.sent, r.granted = s.granted, r.deferred = s.deferred, NEW e
    PROVE  CaredFor(s, e) => CaredFor(r, e)
BY DEF CaredFor, Held

\* The page after a step that has emitted everything it had to.
LEMMA PageBecomes ==
    ASSUME NEW r \in PageStates, Sound(r), Becomes(r), consent'.granted = r.granted,
           started' \in BOOLEAN, queue' \in Seq(Events),
           consent' \in [granted : BOOLEAN, answers : 0..MaxConsents],
           (~started' \/ r.granted) => r.deferred = <<>>
    PROVE  PixelInv' /\ \A e : CaredFor(r, e) => CaredFor(PageNow, e)'
<1>1. /\ tracking'.sent = r.sent /\ tracking'.loaded = r.loaded /\ tracking'.deferred = r.deferred
      /\ heard' = r.heard /\ unconsented' = r.unconsented
  BY DEF Becomes
<1>2. PixelsTypeOK' BY <1>1 DEF PageStates, PixelsTypeOK
<1>3. /\ PageNow'.sent = r.sent /\ PageNow'.granted = r.granted
      /\ PageNow'.deferred = r.deferred /\ PageNow'.heard = r.heard
      /\ PageNow'.unconsented = r.unconsented
  BY <1>1 DEF PageNow, Page
<1>4. Sound(PageNow)'
  <2>1. Sound(PageNow') BY <1>3, SoundFields
  <2> QED BY <2>1
<1>5. HeldWithoutConsent' BY <1>1 DEF HeldWithoutConsent
<1>6. \A e : CaredFor(r, e) => CaredFor(PageNow', e) BY <1>3, PageDecides
<1> QED BY <1>2, <1>4, <1>5, <1>6 DEF PixelInv

LEMMA PixelInvStarts == PixelsInit => PixelInv
<1> SUFFICES ASSUME PixelsInit PROVE PixelInv OBVIOUS
<1>1. /\ started = FALSE /\ queue = <<>> /\ unconsented = {}
      /\ tracking.sent = {} /\ tracking.loaded = {} /\ tracking.deferred = <<>>
      /\ heard = [i \in Pixels |-> [e \in Events |-> 0]]
  BY DEF PixelsInit
<1>2. consent \in [granted : BOOLEAN, answers : 0..MaxConsents]
  <2>1. 0 \in 0..MaxConsents
    <3>1. MaxConsents \in Nat BY PixelsAssumption
    <3> QED BY <3>1
  <2> QED BY <2>1 DEF PixelsInit
<1>3. PixelsTypeOK
  <2>1. heard \in [Pixels -> [Events -> Nat]] BY <1>1
  <2>2. queue \in Seq(Events) /\ tracking.deferred \in Seq(Events) BY <1>1
  <2> QED BY <1>1, <1>2, <2>1, <2>2 DEF PixelsTypeOK
<1>4. Sound(PageNow)
  <2>1. /\ PageNow.sent = {} /\ PageNow.unconsented = {}
        /\ \A j \in Pixels, f \in Events : PageNow.heard[j][f] = 0
    BY <1>1, PageNowFields
  <2> QED BY <2>1 DEF Sound
<1> QED BY <1>1, <1>3, <1>4 DEF PixelInv, HeldWithoutConsent

\* A step that leaves the pixels alone.
LEMMA PixelsStand ==
    ASSUME PixelInv, UNCHANGED pvars
    PROVE  PixelInv' /\ \A e : Reported(e) => Reported(e)'
<1>1. PageNow' = PageNow BY DEF pvars, PageNow, Page
<1>2. PixelsTypeOK' BY DEF PixelInv, pvars, PixelsTypeOK
<1>3. Sound(PageNow)' BY <1>1 DEF PixelInv
<1>4. HeldWithoutConsent' BY DEF PixelInv, pvars, HeldWithoutConsent
<1>5. \A e : Reported(e) => Reported(e)' BY <1>1 DEF Reported, pvars
<1> QED BY <1>2, <1>3, <1>4, <1>5 DEF PixelInv

\* What the run checks of the tags.
LEMMA PixelInvHolds == PixelInv => HeardOnce /\ GatesHold
<1> SUFFICES ASSUME PixelInv PROVE HeardOnce /\ GatesHold OBVIOUS
<1>1. \A j \in Pixels, f \in Events :
        /\ ~Tags[j].gtm => heard[j][f] <= 1
        /\ Alone(j) => /\ <<j, f>> \notin unconsented
                       /\ (Tags[j].enabled # {} /\ f.name \notin Tags[j].enabled)
                              => heard[j][f] = 0
  BY PageNowFields DEF PixelInv, Sound
<1>2. HeardOnce BY <1>1 DEF HeardOnce
<1>3. GatesHold BY <1>1 DEF GatesHold
<1> QED BY <1>2, <1>3

\* A reported order was heard by the tags that may hear of it.
LEMMA ReportedIsHeard ==
    ASSUME PixelInv, NEW told \in SUBSET Orders, \A o \in told : Reported(Purchase(o))
    PROVE  SaleIsHeard(told)
<1> SUFFICES ASSUME started, NEW o \in told, NEW i \in Pixels, Alone(i),
                    eligibility(Tags[i], Purchase(o), consent.granted) = "send"
             PROVE  heard[i][Purchase(o)] = 1
  BY DEF SaleIsHeard
<1>1. Purchase(o) \in Events BY DEF Purchase, Events
<1>2. CaredFor(PageNow, Purchase(o)) BY DEF Reported
<1>3. /\ eligibility(Tags[i], Purchase(o), TRUE) = "send"
      /\ ~(Tags[i].requireConsent /\ ~consent.granted)
  BY DEF eligibility
<1>4. sentKey(i, Purchase(o)) \in tracking.sent BY <1>2, <1>3, PageNowFields DEF CaredFor
<1> QED BY <1>1, <1>4, PageNowFields DEF PixelInv, Sound

\* init: the page's own events and the queue.
LEMMA InitReports ==
    ASSUME PixelInv, init
    PROVE  PixelInv' /\ \A e \in Events : Reported(e) => Reported(e)'
<1> DEFINE own == <<PageEvent("PAGE_VIEW"), PageEvent("VIEW_CONTENT")>>
           es == own \o queue
           r == emitAll(PageNow, es)
<1>1. /\ ~started /\ started' = TRUE /\ queue' = <<>> /\ Becomes(r) /\ UNCHANGED consent
  BY DEF init, PageNow, Drained
<1>2. own \in Seq(Events) /\ Len(own) = 2
  <2>1. PageEvent("PAGE_VIEW") \in Events /\ PageEvent("VIEW_CONTENT") \in Events
    BY DEF PageEvent, Events, Browsing
  <2> QED BY <2>1
<1>3. queue \in Seq(Events) /\ consent \in [granted : BOOLEAN, answers : 0..MaxConsents]
  BY DEF PixelInv, PixelsTypeOK
<1> HIDE DEF own
<1>4. /\ es \in Seq(Events) /\ Len(es) = 2 + Len(queue)
      /\ \A k \in 1..Len(queue) : k + 2 \in 1..Len(es) /\ es[k + 2] = queue[k]
  <2>1. es \in Seq(Events) /\ Len(es) = 2 + Len(queue)
    <3>1. own \o queue \in Seq(Events) /\ Len(own \o queue) = Len(own) + Len(queue)
      BY <1>2, <1>3, ConcatProperties
    <3> QED BY <1>2, <3>1
  <2>2. \A k \in 1..(Len(own) + Len(queue)) :
           es[k] = IF k <= Len(own) THEN own[k] ELSE queue[k - Len(own)]
    BY <1>2, <1>3, ConcatProperties
  <2>3. Len(queue) \in Nat BY <1>3
  <2>4. \A k \in 1..Len(queue) : /\ k + 2 \in 1..(2 + Len(queue)) /\ ~(k + 2 <= 2)
                                 /\ (k + 2) - 2 = k
    BY <2>3
  <2> QED BY <1>2, <2>1, <2>2, <2>4
<1> HIDE DEF es
<1>5. PageNow \in PageStates /\ Sound(PageNow) /\ PageNow.deferred = <<>>
      /\ PageNow.granted = consent.granted
  BY <1>1, PageNowTypes, PageNowFields DEF PixelInv, HeldWithoutConsent
<1>6. GoesOn(PageNow, r) /\ \A k \in 1..Len(es) : CaredFor(r, es[k])
  BY <1>4, <1>5, EmitAllCares
<1> HIDE DEF r
<1>7. r \in PageStates /\ Sound(r) /\ r.granted = consent.granted
      /\ (r.granted => r.deferred = <<>>)
  BY <1>5, <1>6 DEF GoesOn
<1>8. started' \in BOOLEAN /\ queue' \in Seq(Events) /\ consent'.granted = r.granted
      /\ consent' \in [granted : BOOLEAN, answers : 0..MaxConsents]
  BY <1>1, <1>3, <1>7
<1>9. PixelInv' /\ \A e : CaredFor(r, e) => CaredFor(PageNow, e)'
  BY <1>1, <1>7, <1>8, PageBecomes
<1>10. ASSUME NEW e \in Events, Reported(e) PROVE Reported(e)'
  <2>1. PICK k \in 1..Len(queue) : queue[k] = e BY <1>1, <1>10 DEF Reported
  <2>2. CaredFor(r, e) BY <1>4, <1>6, <2>1
  <2>3. CaredFor(PageNow, e)' BY <1>9, <2>2
  <2> QED BY <1>1, <2>3 DEF Reported
<1> QED BY <1>9, <1>10

\* An announcement: queued, or emitted.
LEMMA AnnounceReports ==
    ASSUME PixelInv, NEW e \in Events, Announce(e)
    PROVE  PixelInv' /\ Reported(e)' /\ \A f \in Events : Reported(f) => Reported(f)'
<1>0. /\ queue \in Seq(Events) /\ consent \in [granted : BOOLEAN, answers : 0..MaxConsents]
      /\ started \in BOOLEAN
  BY DEF PixelInv, PixelsTypeOK
<1>1. CASE started
  <2> DEFINE r == emit(PageNow, e)
  <2>1. Becomes(r) /\ UNCHANGED <<queue, started, consent>>
    BY <1>1 DEF Announce, PageNow
  <2>2. PageNow \in PageStates /\ Sound(PageNow) /\ PageNow.granted = consent.granted
        /\ (consent.granted => PageNow.deferred = <<>>)
    BY PageNowTypes, PageNowFields DEF PixelInv, HeldWithoutConsent
  <2>3. GoesOn(PageNow, r) /\ CaredFor(r, e) BY <2>2, EmitCares
  <2> HIDE DEF r
  <2>4. r \in PageStates /\ Sound(r) /\ r.granted = consent.granted
        /\ (r.granted => r.deferred = <<>>)
    BY <2>2, <2>3 DEF GoesOn
  <2>5. started' \in BOOLEAN /\ started' /\ queue' \in Seq(Events) /\ consent'.granted = r.granted
        /\ consent' \in [granted : BOOLEAN, answers : 0..MaxConsents]
    BY <1>0, <1>1, <2>1, <2>4
  <2>6. PixelInv' /\ \A f : CaredFor(r, f) => CaredFor(PageNow, f)'
    BY <2>1, <2>4, <2>5, PageBecomes
  <2>7. ASSUME NEW f \in Events, Reported(f) PROVE Reported(f)'
    <3>1. CaredFor(PageNow, f) BY <1>1, <2>7 DEF Reported
    <3>2. CaredFor(r, f) BY <2>3, <3>1, CareLasts
    <3>3. CaredFor(PageNow, f)' BY <2>6, <3>2
    <3> QED BY <2>5, <3>3 DEF Reported
  <2>8. Reported(e)'
    <3>1. CaredFor(PageNow, e)' BY <2>3, <2>6
    <3> QED BY <2>5, <3>1 DEF Reported
  <2> QED BY <2>6, <2>7, <2>8
<1>2. CASE ~started
  <2>1. queue' = Append(queue, e) /\ UNCHANGED <<started, tracking, heard, unconsented, consent>>
    BY <1>2 DEF Announce
  <2>2. /\ queue' \in Seq(Events) /\ \E k \in 1..Len(queue') : queue'[k] = e
        /\ \A f : (\E k \in 1..Len(queue) : queue[k] = f)
                     => \E k \in 1..Len(queue') : queue'[k] = f
    BY <1>0, <2>1, AppendHolds
  <2>3. PixelsTypeOK' BY <2>1, <2>2 DEF PixelInv, PixelsTypeOK
  <2>4. PageNow' = PageNow BY <2>1 DEF PageNow, Page
  <2>5. Sound(PageNow)' BY <2>4 DEF PixelInv
  <2>6. HeldWithoutConsent' BY <2>1 DEF PixelInv, HeldWithoutConsent
  <2> QED BY <1>2, <2>1, <2>2, <2>3, <2>5, <2>6 DEF PixelInv, Reported
<1> QED BY <1>1, <1>2

\* The banner: what is held is emitted when the shopper consents.
LEMMA AnswerReports ==
    ASSUME PixelInv, NEW granted \in BOOLEAN, AnswerBanner(granted)
    PROVE  PixelInv' /\ \A e \in Events : Reported(e) => Reported(e)'
<1>0. /\ queue \in Seq(Events) /\ consent \in [granted : BOOLEAN, answers : 0..MaxConsents]
      /\ started \in BOOLEAN /\ tracking.deferred \in Seq(Events)
  BY DEF PixelInv, PixelsTypeOK
<1>1. /\ consent.answers < MaxConsents /\ consent.granted # granted
      /\ consent' = [granted |-> granted, answers |-> consent.answers + 1]
      /\ UNCHANGED <<started, queue>>
  BY DEF AnswerBanner
<1>2. /\ consent' \in [granted : BOOLEAN, answers : 0..MaxConsents]
      /\ consent'.granted = granted
  <2>1. consent.answers \in 0..MaxConsents BY <1>0
  <2>2. MaxConsents \in Nat BY PixelsAssumption
  <2>3. consent.answers + 1 \in 0..MaxConsents BY <1>1, <2>1, <2>2
  <2> QED BY <1>1, <2>3
<1>3. CASE started /\ granted
  <2> DEFINE s == [Page(granted) EXCEPT !.deferred = <<>>]
             es == tracking.deferred
             r == emitAll(s, es)
  <2>1. Becomes(r) BY <1>1, <1>3 DEF AnswerBanner, flushDeferred, Page
  <2>2. /\ s \in PageStates /\ s.sent = tracking.sent /\ s.heard = heard
        /\ s.unconsented = unconsented /\ s.deferred = <<>> /\ s.granted = TRUE
    <3>1. Page(granted) \in PageStates BY DEF PixelInv, PixelsTypeOK, Page, PageStates
    <3>2. s \in PageStates /\ s.deferred = <<>>
      <4>1. <<>> \in Seq(Events) OBVIOUS
      <4>2. \A p \in PageStates, q \in Seq(Events) :
               [p EXCEPT !.deferred = q] \in PageStates /\ [p EXCEPT !.deferred = q].deferred = q
        BY DEF PageStates
      <4> QED BY <3>1, <4>1, <4>2
    <3> QED BY <1>3, <3>2 DEF Page
  <2>3. Sound(s) BY <2>2, PageNowFields, SoundFields DEF PixelInv
  <2> HIDE DEF s
  <2>4. GoesOn(s, r) /\ \A k \in 1..Len(es) : CaredFor(r, es[k])
    BY <1>0, <2>2, <2>3, EmitAllCares
  <2> HIDE DEF r
  <2>5. r \in PageStates /\ Sound(r) /\ r.granted = TRUE /\ r.deferred = <<>>
        /\ s.sent \subseteq r.sent
    BY <2>2, <2>4 DEF GoesOn
  <2>6. started' \in BOOLEAN /\ started' /\ queue' \in Seq(Events) /\ consent'.granted = r.granted
    BY <1>0, <1>1, <1>2, <1>3, <2>5
  <2>7. PixelInv' /\ \A e : CaredFor(r, e) => CaredFor(PageNow, e)'
    BY <1>2, <2>1, <2>5, <2>6, PageBecomes
  <2>8. ASSUME NEW e \in Events, Reported(e) PROVE Reported(e)'
    <3>1. CaredFor(PageNow, e) BY <1>3, <2>8 DEF Reported
    <3>2. CASE Held(PageNow, e)
      <4>1. PICK k \in 1..Len(es) : es[k] = e BY <3>2, PageNowFields DEF Held
      <4>2. CaredFor(r, e) BY <2>4, <4>1
      <4>3. CaredFor(PageNow, e)' BY <2>7, <4>2
      <4> QED BY <2>6, <4>3 DEF Reported
    <3>3. CASE ~Held(PageNow, e)
      <4>1. CaredFor(r, e) BY <2>2, <2>5, <3>1, <3>3, PageNowFields DEF CaredFor
      <4>2. CaredFor(PageNow, e)' BY <2>7, <4>1
      <4> QED BY <2>6, <4>2 DEF Reported
    <3> QED BY <3>2, <3>3
  <2> QED BY <2>7, <2>8
<1>4. CASE ~(started /\ granted)
  <2>1. UNCHANGED <<tracking, heard, unconsented>> BY <1>4 DEF AnswerBanner
  <2>2. /\ PageNow'.sent = PageNow.sent /\ PageNow'.heard = PageNow.heard
        /\ PageNow'.unconsented = PageNow.unconsented /\ PageNow'.deferred = PageNow.deferred
        /\ PageNow'.granted = granted
    BY <1>2, <2>1 DEF PageNow, Page
  <2>3. Sound(PageNow') BY <2>2, SoundFields DEF PixelInv
  <2>4. PixelsTypeOK' BY <1>0, <1>1, <1>2, <2>1 DEF PixelInv, PixelsTypeOK
  <2>5. HeldWithoutConsent'
    BY <1>1, <1>2, <1>4, <2>1 DEF PixelInv, HeldWithoutConsent
  <2>6. PixelInv' BY <2>3, <2>4, <2>5 DEF PixelInv
  <2>7. ASSUME NEW e \in Events, Reported(e) PROVE Reported(e)'
    <3>1. CASE ~started BY <1>1, <2>7, <3>1 DEF Reported
    <3>2. CASE started
      <4>1. CaredFor(PageNow, e) BY <2>7, <3>2 DEF Reported
      <4>2. PageNow.granted = TRUE BY <1>0, <1>1, <1>4, <3>2, PageNowFields
      <4>3. CaredFor(PageNow', e) BY <2>2, <4>1, <4>2 DEF CaredFor
      <4>4. CaredFor(PageNow, e)' BY <4>3
      <4> QED BY <1>1, <3>2, <4>4 DEF Reported
    <3> QED BY <3>1, <3>2
  <2> QED BY <2>6, <2>7
<1> QED BY <1>3, <1>4

-----------------------------------------------------------------------------
(* The storefront. *)

\* What was confirmed to the shopper is on its way to the tags.
SalesAreReported == \A o \in Confirmed : Reported(Purchase(o))

StorefrontInv == ButtonsInv /\ FormInv /\ LookupInv /\ PixelInv /\ SalesAreReported

LEMMA ConfirmedAreOrders == FormInv => Confirmed \subseteq Orders
BY StorefrontAssumption DEF FormInv, FormTypes, Confirmed

\* A step of the form announces one thing, or nothing.
LEMMA FormAnnounces ==
    ASSUME FormInv, [FormNext]_fvars
    PROVE  emitted' = emitted \/ \E o \in {0} \cup Requests : Emits(o)
<1>1. CASE OpenDialog BY <1>1 DEF OpenDialog
<1>2. ASSUME NEW r \in Requests, Answer(r)
      PROVE  emitted' = emitted \/ \E o \in {0} \cup Requests : Emits(o)
  <2>1. req[r].order \in {0} \cup Requests BY DEF FormInv, FormTypes, Posts
  <2> QED BY <1>2, <2>1 DEF Answer
<1>3. CASE CloseDialog \/ BundleLoads \/ BundleFails \/ TokenExpires
  BY <1>3 DEF CloseDialog, BundleLoads, BundleFails, TokenExpires
<1>4. ASSUME NEW m \in Controllers, \/ MountForm(m) \/ FormArrives(m) \/ FormFails(m)
                                    \/ Submit(m) \/ Redirect(m) \/ GiveUpPolling(m)
      PROVE  emitted' = emitted
  BY <1>4 DEF MountForm, FormArrives, FormFails, Submit, Redirect, GiveUpPolling
<1>5. ASSUME NEW r \in Requests, \/ ServerLooks(r) \/ ServerStores(r) \/ ServerRefuses(r)
                                 \/ RequestFails(r)
      PROVE  emitted' = emitted
  BY <1>5 DEF ServerLooks, ServerStores, ServerRefuses, RequestFails
<1>6. CASE UNCHANGED fvars BY <1>6 DEF fvars
<1> QED BY <1>1, <1>2, <1>3, <1>4, <1>5, <1>6 DEF FormNext

LEMMA StorefrontInvStarts == StorefrontInit => StorefrontInv
<1> SUFFICES ASSUME StorefrontInit PROVE StorefrontInv OBVIOUS
<1>1. ButtonsInit /\ FormInit /\ LookupInit /\ PixelsInit BY DEF StorefrontInit
<1>2. Confirmed = {} BY <1>1 DEF FormInit, Confirmed
<1> QED BY <1>1, <1>2, ButtonsInvStarts, FormInvStarts, LookupInvStarts, PixelInvStarts
       DEF StorefrontInv, SalesAreReported

\* The pixels hear what the form announces in the same step, so that what is
\* confirmed is reported.
LEMMA FormStepKept ==
    ASSUME StorefrontInv, FormStep
    PROVE  FormInv' /\ PixelInv' /\ SalesAreReported'
<1>1. FormInv' BY FormInvKept DEF StorefrontInv, FormStep
<1>2. Confirmed \subseteq Orders /\ \A o \in Orders : Purchase(o) \in Events
  BY ConfirmedAreOrders DEF StorefrontInv, Purchase, Events
<1>3. CASE emitted' = emitted
  <2>1. UNCHANGED pvars BY <1>3 DEF FormStep
  <2>2. PixelInv' /\ \A e : Reported(e) => Reported(e)' BY <2>1, PixelsStand DEF StorefrontInv
  <2>3. Confirmed' = Confirmed BY <1>3 DEF Confirmed
  <2> QED BY <1>1, <2>2, <2>3 DEF StorefrontInv, SalesAreReported
<1>4. CASE emitted' # emitted
  <2>1. PICK o \in {0} \cup Requests : Emits(o)
    BY <1>4, FormAnnounces DEF StorefrontInv, FormStep
  <2>2. emitted \in Seq({0} \cup Requests) BY DEF StorefrontInv, FormInv, FormTypes
  <2>3. /\ emitted' = Append(emitted, o) /\ Len(emitted') = Len(emitted) + 1
        /\ emitted'[Len(emitted')] = o
        /\ \A i \in 1..Len(emitted') : emitted'[i] = o
                                       \/ (i \in 1..Len(emitted) /\ emitted'[i] = emitted[i])
    BY <2>1, <2>2 DEF Emits
  <2>4. \A x \in Confirmed' : x \in Confirmed \/ x = o BY <2>3 DEF Confirmed
  <2> DEFINE e == IF o = 0 THEN PageEvent("INITIATE_CHECKOUT") ELSE Purchase(o)
  <2>5. Announce(e) BY <1>4, <2>3 DEF FormStep, Announced
  <2>6. e \in Events
    BY <1>2, StorefrontAssumption DEF PageEvent, Events, Browsing
  <2>7. o # 0 => e = Purchase(o) OBVIOUS
  <2> HIDE DEF e
  <2>8. PixelInv' /\ Reported(e)' /\ \A f \in Events : Reported(f) => Reported(f)'
    BY <2>5, <2>6, AnnounceReports DEF StorefrontInv
  <2>9. 0 \notin Confirmed' BY DEF Confirmed
  <2>10. ASSUME NEW x \in Confirmed' PROVE Reported(Purchase(x))'
    <3>1. CASE x = o
      <4>1. e = Purchase(x) BY <2>7, <2>9, <3>1
      <4>2. Reported(e)' BY <2>8
      <4> QED BY <4>1, <4>2
    <3>2. CASE x \in Confirmed
      <4>1. Reported(Purchase(x)) BY <3>2 DEF StorefrontInv, SalesAreReported
      <4>2. Purchase(x) \in Events BY <1>2, <3>2
      <4> QED BY <2>8, <4>1, <4>2
    <3> QED BY <2>4, <3>1, <3>2
  <2>11. SalesAreReported' BY <2>10 DEF SalesAreReported
  <2> QED BY <1>1, <2>8, <2>11
<1> QED BY <1>3, <1>4

LEMMA StorefrontInvKept == StorefrontInv /\ [StorefrontNext]_svars => StorefrontInv'
<1> SUFFICES ASSUME StorefrontInv, [StorefrontNext]_svars PROVE StorefrontInv' OBVIOUS
<1>1. ButtonsInv'
  <2>1. [ButtonsNext]_bvars
    BY DEF StorefrontNext, FormStep, PixelStep, ButtonsStep, LookupStep, svars
  <2> QED BY <2>1, ButtonsInvKept DEF StorefrontInv
<1>2. FormInv'
  <2>1. [FormNext]_fvars
    BY DEF StorefrontNext, FormStep, PixelStep, ButtonsStep, LookupStep, svars
  <2> QED BY <2>1, FormInvKept DEF StorefrontInv
<1>3. LookupInv'
  <2>1. [LookupNext]_lvars
    BY DEF StorefrontNext, FormStep, PixelStep, ButtonsStep, LookupStep, svars
  <2> QED BY <2>1, LookupInvKept DEF StorefrontInv
<1>4. PixelInv' /\ SalesAreReported'
  <2>1. CASE FormStep BY <2>1, FormStepKept
  <2>2. CASE PixelStep
    <3>1. UNCHANGED fvars /\ PixelsOwnNext BY <2>2 DEF PixelStep
    <3>2. PixelInv' /\ \A e \in Events : Reported(e) => Reported(e)'
      BY <3>1, InitReports, AnswerReports DEF PixelsOwnNext, StorefrontInv
    <3>3. Confirmed' = Confirmed BY <3>1 DEF fvars, Confirmed
    <3>4. \A o \in Confirmed : Purchase(o) \in Events
      BY ConfirmedAreOrders DEF StorefrontInv, Purchase, Events
    <3> QED BY <3>2, <3>3, <3>4 DEF StorefrontInv, SalesAreReported
  <2>3. CASE ButtonsStep \/ LookupStep \/ UNCHANGED svars
    <3>1. UNCHANGED <<fvars, pvars>> BY <2>3 DEF ButtonsStep, LookupStep, svars
    <3>2. PixelInv' /\ \A e : Reported(e) => Reported(e)' BY <3>1, PixelsStand DEF StorefrontInv
    <3>3. Confirmed' = Confirmed BY <3>1 DEF fvars, Confirmed
    <3> QED BY <3>2, <3>3 DEF StorefrontInv, SalesAreReported
  <2> QED BY <2>1, <2>2, <2>3 DEF StorefrontNext
<1> QED BY <1>1, <1>2, <1>3, <1>4 DEF StorefrontInv

LEMMA StorefrontKeeps == StorefrontSpec => []StorefrontInv
<1>1. StorefrontInit => StorefrontInv BY StorefrontInvStarts
<1>2. StorefrontInv /\ [StorefrontNext]_svars => StorefrontInv' BY StorefrontInvKept
<1> QED BY <1>1, <1>2, PTL DEF StorefrontSpec

\* Whatever the shopper opens, closes and resubmits, and however the requests end,
\* the form confirms and reports only orders that the shop has stored, and stores a
\* second order for one form only after a request of it was lost (form.ts).
THEOREM OrdersStayHonest == StorefrontSpec => [](FormTypeOK /\ OrdersAreHonest)
<1>1. StorefrontInv => FormTypeOK /\ OrdersAreHonest
  BY FormInvIsHonest, FormTypesAreThose DEF StorefrontInv, FormInv
<1> QED BY <1>1, StorefrontKeeps, PTL

\* However slow and reordered the answers to the shopper's keystrokes are, the area
\* that ends up under a complete code is that code's (runPostalLookup).
THEOREM AreaIsTheCodes == StorefrontSpec => [](LookupTypeOK /\ ResolvedIsForCode)
<1>1. StorefrontInv => LookupTypeOK /\ ResolvedIsForCode
  BY LookupInvResolves, LookupTypesAreThose DEF StorefrontInv, LookupInv
<1> QED BY <1>1, StorefrontKeeps, PTL

\* Of any list of tags, none that can be told alone hears of an event before the
\* consent it asks for, or of one its merchant switched off (pixels.ts eligibility).
THEOREM GatesStayShut == StorefrontSpec => [](PixelsTypeOK /\ GatesHold)
<1>1. StorefrontInv => PixelsTypeOK /\ GatesHold
  BY PixelInvHolds DEF StorefrontInv, PixelInv
<1> QED BY <1>1, StorefrontKeeps, PTL

\* Every confirmed order reaches every tag that may hear of it, and no tag counts
\* it twice (form.ts, pixels.ts).
THEOREM SalesAreHeardOnce == StorefrontSpec => []SaleHeardOnce
<1>1. StorefrontInv => SaleHeardOnce
  BY PixelInvHolds, ReportedIsHeard, ConfirmedAreOrders
     DEF StorefrontInv, SalesAreReported, SaleHeardOnce
<1> QED BY <1>1, StorefrontKeeps, PTL

\* The settings a form was opened with stay while it is open (revalidateConfig).
THEOREM OpenFormKeepsConfig == StorefrontSpec => ConfigStaysWhileOpen
<1>1. StorefrontInv /\ [StorefrontNext]_svars
        => [page.open /\ page'.open => config' = config]_bvars
  <2> SUFFICES ASSUME StorefrontInv, [StorefrontNext]_svars
               PROVE  page.open /\ page'.open => config' = config
    OBVIOUS
  <2>1. [ButtonsNext]_bvars
    BY DEF StorefrontNext, FormStep, PixelStep, ButtonsStep, LookupStep, svars
  <2> QED BY <2>1, ButtonsInvKept DEF StorefrontInv
<1> QED BY <1>1, StorefrontKeeps, PTL DEF StorefrontSpec, ConfigStaysWhileOpen
=============================================================================
