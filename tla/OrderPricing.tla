---------------------------- MODULE OrderPricing -----------------------------
(***************************************************************************)
(* What an order costs: the sum the dialog shows (theme-src/form.ts) and   *)
(* the total the server charges (orders/pricing). Amounts are in           *)
(* millionths of the currency's unit, of which a currency pays some.       *)
(***************************************************************************)
EXTENDS Integers, FiniteSets, Functions

Digits == {0, 2, 3}
unitOf == [p \in Digits |-> CASE p = 0 -> 1000000 [] p = 2 -> 10000 [] p = 3 -> 1000]
currencyPrecision == [c \in {"JPY", "INR", "KWD"} |-> CASE c = "JPY" -> 0 [] c = "INR" -> 2 [] c = "KWD" -> 3]

\* Half a unit is rounded up.
round(amount, precision) ==
    ((amount + unitOf[precision] \div 2) \div unitOf[precision]) * unitOf[precision]

\* A share in hundredths of a percent of an amount with three decimals at most.
Share(amount, hundredths) == ((amount \div 1000) * hundredths) \div 10

\* A limit the merchant did not set.
NoLimit == 2000000000

Sum(amounts, of) == SumFunctionOnSet(amounts, of)

-----------------------------------------------------------------------------
(* The server. A line is refused when the shop would not sell it. *)

resolveLineItems(variant, quantity) ==
    /\ variant.status = "ACTIVE" /\ variant.availableForSale
    /\ variant.inventoryPolicy = "DENY" => quantity =< variant.inventoryQuantity

Subtotal(variant, quantity, currency) == round(variant.price * quantity, currencyPrecision[currency])

\* The merchant's limits are on the goods.
WithinLimits(subtotal, terms) == terms.minOrderValue =< subtotal /\ subtotal =< terms.maxOrderValue

ShippingOf(subtotal, terms) ==
    IF subtotal >= terms.freeShippingAbove THEN 0 ELSE terms.shippingFee

CodFeeOf(base, terms) ==
    IF ~terms.codFeeEnabled THEN 0
    ELSE IF terms.codFeeIsPercent THEN Share(base, terms.codFeeAmount) ELSE terms.codFeeAmount

\* What an order keeps of its price: an add-on that is no longer offered is left out.
Priced(subtotal, shippingFee, codFee, bumps, p) ==
    [subtotal |-> subtotal, shippingFee |-> round(shippingFee, p), codFee |-> round(codFee, p), bumps |-> bumps,
     total |-> round(subtotal + round(shippingFee, p) + round(codFee, p)
                     + round(SumFunction([b \in bumps |-> b[2]]), p), p)]
resolveSelected(terms, ticked) == {<<b, terms.bumps[b]>> : b \in {t \in ticked : terms.bumps[t] > 0}}

priceOrder(variant, quantity, terms, currency, ticked) ==
    LET subtotal == Subtotal(variant, quantity, currency)
    IN Priced(subtotal, ShippingOf(subtotal, terms), CodFeeOf(subtotal, terms), resolveSelected(terms, ticked),
              currencyPrecision[currency])

\* The draft sent to Shopify: the goods at the price Shopify has, every charge on a line of its own.
toShopifyLineItems(order, variant, quantity) ==
    {<<"goods", variant.price * quantity>>, <<"Delivery", order.shippingFee>>, <<"COD fee", order.codFee>>}
    \cup order.bumps
Collected(lines) == SumFunction([l \in lines |-> l[2]])

-----------------------------------------------------------------------------
(* The browser, with the price the page was rendered with. *)

formatMoney(amount, moneyFormat) == round(amount, IF moneyFormat = "amount_no_decimals" THEN 0 ELSE 2)

\* The total of the summary, before it is written out.
buildSummary(price, quantity, terms, ticked) ==
    LET subtotal == price * quantity
    IN subtotal + ShippingOf(subtotal, terms) + CodFeeOf(subtotal, terms) + Sum(terms.bumps, ticked)
=============================================================================
