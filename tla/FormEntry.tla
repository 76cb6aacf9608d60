------------------------------ MODULE FormEntry ------------------------------
(***************************************************************************)
(* A shopper in front of the dialog (theme-src/form.ts): what the controls *)
(* show, which fields are shown, which are marked wrong, and the sum to    *)
(* pay; and what the server (orders/service) makes of the order, by the    *)
(* same rules, with the form and the terms the merchant has by then. The   *)
(* field of type PHONE is the order's phone, the one of type COUNTRY its   *)
(* country, which has the merchant's options.                              *)
(***************************************************************************)
EXTENDS FieldRules, OrderPricing

CONSTANTS
    Forms,       \* the forms of shops
    Entries,     \* per field type: what a shopper enters
    Offers,      \* what is for sale, what a merchant charges, in what and how it is written
    Numbers,     \* per phone number: its country, and whether it says it itself
    MaxEntries   \* bound on what a shopper does

FormAssumption == Offers # {} /\ MaxEntries \in Nat

VARIABLES
    form,      \* the form, as the page got it
    live,      \* the form as the shop has it: [fields, active]
    page,      \* the offer the page was made with
    terms,     \* what the merchant charges now
    control,   \* per field: what its control shows
    values,    \* per field: what the dialog keeps
    shown,     \* the fields on screen
    touched,   \* the fields the shopper has been in
    marked,    \* the fields with an error beside them
    cart,      \* [quantity, ticked]
    total,     \* the sum on screen
    answer,    \* what came of the last attempt to order
    entries

evars == <<form, live, page, terms, control, values, shown, touched, marked, cart, total, answer, entries>>

Keys == DOMAIN form
NotSent == [at |-> "nothing", demands |-> {}, charged |-> 0, draft |-> 0, stored |-> <<>>, display |-> 0]

-----------------------------------------------------------------------------
(* The dialog. *)

\* The values start from the account and the defaults; a control shows a default it can.
seedValues(f) == [k \in DOMAIN f |-> f[k].default]
buildControl(f, v) ==
    CASE f.type \in {"CHECKBOX", "CONSENT"} -> Flag(v = Flag(TRUE))
      [] f.type = "MULTISELECT" -> IF v.kind = "list" THEN v ELSE Entry("")
      [] f.type \in {"SELECT", "COUNTRY", "RADIO"} -> IF v.txt \in f.accepts THEN Text(v.txt) ELSE Text("")
      [] OTHER -> Text(v.txt)
buildField(f) == f.type \notin Presentational

OnScreen(f, vs) ==
    {k \in DOMAIN f : f[k].enabled /\ resolveVisibility(f, vs)[k] /\ ~f[k].hidden /\ f[k].type # "HIDDEN"}

refreshSummary(c) == buildSummary(page.variant.displayed, c.quantity, page.terms, c.ticked)
Acts == entries < MaxEntries /\ entries' = entries + 1
Open == answer.at # "placed"

\* One field is looked at again: a field that is hidden keeps no message.
validateOne(k, vs, visible, old) ==
    IF k \notin visible THEN old
    ELSE IF validateField(form[k], vs[k]) = "fine" THEN old \ {k} ELSE old \cup {k}

\* Whatever is entered may show and hide other fields, and the quantity is counted.
onInput(k, v) ==
    LET vs == [values EXCEPT ![k] = v]
        kept == {j \in Keys : resolveVisibility(form, vs)[j]}
        quantity == IF form[k].type # "QUANTITY" THEN cart.quantity
                    ELSE IF isNumeric(v) /\ asNumber(v) > 0 THEN asNumber(v) ELSE 1
    IN /\ Acts /\ Open /\ k \in shown /\ buildField(form[k]) /\ v # control[k]
       /\ values' = vs /\ control' = [control EXCEPT ![k] = v]
       /\ shown' = OnScreen(form, vs)
       /\ marked' = IF k \in touched THEN validateOne(k, vs, kept, marked \cap shown')
                    ELSE marked \cap shown'
       /\ cart' = [cart EXCEPT !.quantity = quantity]
       /\ total' = refreshSummary(cart')
       /\ UNCHANGED <<form, live, page, terms, touched, answer>>

Blur(k) ==
    /\ Acts /\ Open /\ k \in shown \ touched /\ buildField(form[k])
    /\ touched' = touched \cup {k}
    /\ marked' = validateOne(k, values, {j \in Keys : resolveVisibility(form, values)[j]}, marked)
    /\ UNCHANGED <<form, live, page, terms, control, values, shown, cart, total, answer>>

buildBumps(b) ==
    /\ Acts /\ Open /\ page.terms.bumps[b] > 0
    /\ cart' = [cart EXCEPT !.ticked = IF b \in @ THEN @ \ {b} ELSE @ \cup {b}]
    /\ total' = refreshSummary(cart')
    /\ UNCHANGED <<form, live, page, terms, control, values, shown, touched, marked, answer>>

-----------------------------------------------------------------------------
(* The order. What is sent is what is visible, coerced. *)

phones(fs) == {k \in DOMAIN fs : fs[k].type = "PHONE"}

visibleValues(fs, vs) ==
    [k \in DOMAIN fs |-> IF resolveVisibility(fs, vs)[k] THEN coerceValue(fs[k], vs[k]) ELSE Nothing]
payload == visibleValues(form, values)

\* What the server keeps of what it gets, as it got it.
accepted(fs, vs) ==
    [k \in DOMAIN fs |-> IF resolveVisibility(fs, vs)[k] /\ buildField(fs[k]) THEN vs[k] ELSE Nothing]

\* A column of the order is read from the field of its name, if that is there and shown.
text(type, fs, kept) ==
    LET given == {kept[k].txt : k \in {j \in DOMAIN fs : fs[j].type = type}} \ {""}
    IN IF given = {} THEN "" ELSE CHOOSE t \in given : TRUE

\* A number is of the country it names, or else valid only in the order's.
normalizePhone(number, country) ==
    IF number \in DOMAIN Numbers /\ (Numbers[number].international \/ Numbers[number].country = country)
    THEN [valid |-> TRUE, countryCode |-> Numbers[number].country]
    ELSE [valid |-> FALSE, countryCode |-> ""]

Delivers(country) ==
    \/ country = ""
    \/ country \notin terms.blockedCountryCodes
       /\ (terms.allowedCountryCodes = {} \/ country \in terms.allowedCountryCodes)

\* The server reads the form as it is by now, turns away what looks like a bot, asks
\* for the fields, then for a number and a country it delivers to, then sells, then
\* minds the limits.
createOrder(sent, honeypot, seconds) ==
    LET fs == live.fields
        got == [k \in DOMAIN fs |-> IF k \in Keys THEN sent[k] ELSE Nothing]
        demands == validateForm(fs, got)
        kept == accepted(fs, got)
        country == IF text("COUNTRY", fs, kept) # "" THEN text("COUNTRY", fs, kept) ELSE page.countryCode
        phone == normalizePhone(text("PHONE", fs, kept), country)
        resolved == IF phone.countryCode # "" THEN phone.countryCode ELSE country
        subtotal == Subtotal(page.variant, cart.quantity, page.currency)
        order == priceOrder(page.variant, cart.quantity, terms, page.currency, cart.ticked)
    IN IF ~live.active THEN [NotSent EXCEPT !.at = "inactive"]
       ELSE IF ~checkBotSignals(page.botProtection, honeypot, seconds, page.minFillSeconds)
       THEN [NotSent EXCEPT !.at = "bot"]
       ELSE IF demands # {} THEN [NotSent EXCEPT !.at = "fields", !.demands = demands]
       ELSE IF ~phone.valid THEN [NotSent EXCEPT !.at = "phone", !.demands = phones(fs)]
       ELSE IF ~Delivers(resolved) THEN [NotSent EXCEPT !.at = "country"]
       ELSE IF ~resolveLineItems(page.variant, cart.quantity) THEN [NotSent EXCEPT !.at = "items"]
       ELSE IF ~WithinLimits(subtotal, terms) THEN [NotSent EXCEPT !.at = "limits"]
       ELSE [NotSent EXCEPT !.at = "placed", !.charged = order.total, !.stored = kept,
                            !.draft = Collected(toShopifyLineItems(order, page.variant, cart.quantity)),
                            !.display = formatMoney(total, page.moneyFormat)]

\* What is refused is marked, as far as the page has a place for it.
Submit(honeypot, seconds) ==
    /\ Acts /\ Open
    /\ LET wrong == validateForm(form, values)
       IN IF wrong # {}
          THEN /\ touched' = touched \cup wrong /\ marked' = marked \cup wrong
               /\ answer' = [NotSent EXCEPT !.at = "kept"]
          ELSE /\ answer' = createOrder(payload, honeypot, seconds)
               /\ touched' = touched \cup (answer'.demands \cap Keys)
               /\ marked' = marked \cup (answer'.demands \cap Keys)
    /\ UNCHANGED <<form, live, page, terms, control, values, shown, cart, total>>

\* The merchant changes what an order costs while the page is open,
ChangeTerms(offer) ==
    /\ Acts /\ Open /\ offer.currency = page.currency /\ terms = page.terms /\ terms' = offer.terms
    /\ UNCHANGED <<form, live, page, control, values, shown, touched, marked, cart, total, answer>>

\* the fields of the form, but for those of the order's own columns,
SystemFields(fs) == {<<k, fs[k].type>> : k \in {j \in DOMAIN fs : fs[j].type \in {"PHONE", "COUNTRY"}}}
replaceFields(fs) ==
    /\ Acts /\ Open /\ live.fields = form /\ fs # form /\ SystemFields(fs) = SystemFields(form)
    /\ live' = [live EXCEPT !.fields = fs]
    /\ UNCHANGED <<form, page, terms, control, values, shown, touched, marked, cart, total, answer>>

\* or puts another form in its place.
setActive ==
    /\ Acts /\ Open /\ live.active /\ live' = [live EXCEPT !.active = FALSE]
    /\ UNCHANGED <<form, page, terms, control, values, shown, touched, marked, cart, total, answer>>

FormInit ==
    /\ form \in Forms /\ live = [fields |-> form, active |-> TRUE]
    /\ page \in Offers
    /\ terms = page.terms
    /\ values = seedValues(form)
    /\ control = [k \in DOMAIN form |-> buildControl(form[k], form[k].default)]
    /\ shown = OnScreen(form, seedValues(form))
    /\ touched = {} /\ marked = {} /\ cart = [quantity |-> 1, ticked |-> {}]
    /\ total = buildSummary(page.variant.displayed, 1, page.terms, {})
    /\ answer = NotSent /\ entries = 0

FormNext ==
    \/ \E honeypot \in {Nothing, Text("x")}, seconds \in {-1, 1, 60} : Submit(honeypot, seconds)
    \/ \E k \in Keys : Blur(k) \/ \E v \in Entries[form[k].type] : onInput(k, v)
    \/ \E b \in DOMAIN page.terms.bumps : buildBumps(b)
    \/ \E offer \in Offers : ChangeTerms(offer)
    \/ \E fs \in Forms : replaceFields(fs)
    \/ setActive

FormSpec == FormInit /\ [][FormNext]_evars

-----------------------------------------------------------------------------
(* What the forms and offers of a shop are taken to be, where the dialog's *)
(* promises rest on it.                                                    *)

\* What the values of a field are: what is entered, and what it starts from.
MayHold(f) == Entries[f.type] \cup {f.default}

\* An entry has the kind its control gives, a default is text or none.
EntriesFit(f) ==
    /\ f.default = Nothing \/ f.default = Text(f.default.txt)
    /\ \A v \in Entries[f.type] :
          IF f.type \in {"CHECKBOX", "CONSENT"} THEN v \in {Flag(TRUE), Flag(FALSE)}
          ELSE IF f.type = "MULTISELECT" THEN v = Entry(v.txt) ELSE v = Text(v.txt)

\* The rules of a form do not go round in a circle: each looks at fields of a lower rank.
RulesEnd(fs) ==
    \E rank \in [DOMAIN fs -> 0..(Len(fs) - 1)] :
        \A k \in DOMAIN fs : \A c \in fs[k].rule.conditions :
            c.field \in DOMAIN fs => rank[c.field] < rank[k]

\* A rule reads what is kept of a field as it reads what is sent of it.
ReadAlike(fs) ==
    \A k \in DOMAIN fs : \A c \in fs[k].rule.conditions :
        c.field \in DOMAIN fs =>
            \A v \in MayHold(fs[c.field]) :
                Meets(c, v) = Meets(c, coerceValue(fs[c.field], v))

\* What nobody enters is right as it starts.
AsidesAreRight(f) == f.hidden \/ f.type = "HIDDEN" => validateField(f, f.default) = "fine"

\* A default that is let through is the one its control shows.
DefaultIsShown(f) ==
    buildField(f) /\ validateField(f, f.default) = "fine"
        => coerceValue(f, f.default) = coerceValue(f, buildControl(f, f.default))

\* The builder sees to a phone in use and required, but lets rules and a flag hide it.
HasPhone(fs) == \E k \in DOMAIN fs : phones(fs) = {k} /\ fs[k].enabled /\ fs[k].required
MayHide(f) == f.hidden \/ f.rule.conditions # {}

IsForm(fs) ==
    /\ Len(fs) \in Nat /\ DOMAIN fs = 1..Len(fs)
    /\ \A k \in DOMAIN fs : {fs[k].enabled, fs[k].hidden, fs[k].required} \subseteq BOOLEAN
    /\ RulesEnd(fs) /\ ReadAlike(fs) /\ HasPhone(fs)
    /\ \A k \in DOMAIN fs : EntriesFit(fs[k]) /\ AsidesAreRight(fs[k]) /\ DefaultIsShown(fs[k])

\* Prices, fees and add-ons are whole coins of the currency, and the page shows the
\* price the shop sells at.
Whole(amount, coin) == amount \in Nat /\ amount % coin = 0
IsTerms(t, coin) ==
    /\ Whole(t.shippingFee, coin) /\ t.codFeeAmount \in Nat /\ t.freeShippingAbove \in Int
    /\ t.codFeeEnabled /\ ~t.codFeeIsPercent => Whole(t.codFeeAmount, coin)
    /\ IsFiniteSet(DOMAIN t.bumps) /\ \A b \in DOMAIN t.bumps : Whole(t.bumps[b], coin)
    /\ DOMAIN t.bumps \cap {"goods", "Delivery", "COD fee"} = {}
IsOffer(o) ==
    /\ o.currency \in DOMAIN currencyPrecision
    /\ IsTerms(o.terms, unitOf[currencyPrecision[o.currency]])
    /\ Whole(o.variant.price, unitOf[currencyPrecision[o.currency]])
    /\ o.variant.displayed = o.variant.price

\* A merchant who changes an add-on still has it, if only for nothing.
FormsAreSound ==
    /\ \A fs \in Forms : IsForm(fs)
    /\ \A o \in Offers : IsOffer(o)
    /\ \A o, n \in Offers : o.currency = n.currency => DOMAIN o.terms.bumps = DOMAIN n.terms.bumps

-----------------------------------------------------------------------------
(* Properties. *)

\* The passes over a form end with every field shown that its rule says to show, for
\* rules that do not go round in a circle.
VisibilitySettles ==
    LET visible == resolveVisibility(form, values) IN Pass(form, visible, values) = visible

\* While the merchant leaves the form alone a message stands beside a field the shopper
\* can see and answer. The one it may not stand beside is the phone, where the merchant
\* lets a rule or a flag hide it.
MessagesAreSeen ==
    live.fields = form => \A k \in marked \ shown : k \in phones(form) /\ MayHide(form[k])

\* And the server's check of the fields refuses nothing the browser let through: what
\* the browser cannot tell is the number, the country, the limits and the stock.
ServerAgrees == answer.at = "fields" => live.fields # form

\* An order holds what the controls showed.
StoredAsShown ==
    answer.at = "placed" /\ live.fields = form =>
        \A k \in shown : buildField(form[k]) => answer.stored[k] = coerceValue(form[k], control[k])

\* What the courier collects is the sum the shopper saw, but for less than a coin.
Coarser == IF page.moneyFormat = "amount_no_decimals" THEN unitOf[0]
           ELSE unitOf[IF currencyPrecision[page.currency] = 0 THEN 0 ELSE 2]
ChargedAsShown ==
    answer.at = "placed" /\ terms = page.terms =>
        answer.display - answer.charged \in (0 - Coarser)..Coarser

\* The draft in Shopify comes to what the order is for, but for less than a coin.
DraftIsTheOrder ==
    answer.at = "placed" =>
        LET coin == unitOf[currencyPrecision[page.currency]]
        IN answer.draft - answer.charged \in (1 - coin)..(coin - 1)

\* The dialog shows, asks and charges what the server does (theme-src/form.ts,
\* validation/form.ts, orders/pricing.ts, orders/push.ts).
FormIsHonest ==
    /\ VisibilitySettles /\ MessagesAreSeen /\ ServerAgrees /\ StoredAsShown /\ ChargedAsShown
    /\ DraftIsTheOrder

\* theme-src/form.ts: "The same function the API will run. If it passes here it will
\* pass there, barring a server-side rule the browser cannot evaluate."
PassesHerePassesThere == ServerAgrees
=============================================================================
