---------------------------- MODULE FormSamples ----------------------------
(* The dialog, with forms and offers to check it with.                     *)
EXTENDS FormEntry

Always == [logic |-> "all", conditions |-> {}]
When(f, op, v) == [field |-> f, operator |-> op, value |-> v]
If(f, op, v) == [logic |-> "all", conditions |-> {When(f, op, v)}]

Plain(t) == [type |-> t, enabled |-> TRUE, hidden |-> FALSE, required |-> FALSE, rule |-> Always,
             default |-> Nothing, accepts |-> {}, least |-> 0, most |-> 3]
Needed(t) == [Plain(t) EXCEPT !.required = TRUE]
OneOf(t, some) == [Plain(t) EXCEPT !.accepts = some]
Shows(f, rule) == [f EXCEPT !.rule = rule]
Starts(f, v) == [f EXCEPT !.default = Text(v)]

\* One question.
Short == <<Needed("PHONE")>>
\* Each field shown by the one before it.
Chain == <<Needed("PHONE"), Shows(OneOf("SELECT", {"1", "2"}), If(1, "is_not_empty", "")),
           [Shows(Needed("NUMBER"), If(2, "in", {"2"})) EXCEPT !.least = 1, !.most = 2]>>
\* Each field hidden by the one before it, the phone the last of them.
Gaps == <<Plain("TEXT"), Shows(Plain("TEXT"), If(1, "is_empty", "")),
          Shows(Needed("PHONE"), If(2, "not_equals", "x"))>>
\* A field either of two shows.
Amounts == <<Starts(Plain("QUANTITY"), "1"), OneOf("MULTISELECT", {"1", "2"}),
             Starts(Needed("PHONE"), "+2"),
             Shows(Needed("TEXT"), [logic |-> "any",
                                    conditions |-> {When(1, "gt", "1"), When(2, "contains", "2")}])>>
Boxes == <<Needed("CONSENT"), Plain("CHECKBOX"), [Needed("PHONE") EXCEPT !.accepts = {"x"}],
           Starts(OneOf("COUNTRY", {"1", "2"}), "3"), Plain("HEADING")>>
\* A field nobody enters, and one the merchant has switched off, decide on others.
Asides == <<Starts(Plain("HIDDEN"), "x"), Shows(Needed("PHONE"), If(1, "equals", "x")),
            Shows(Needed("TEXT"), If(2, "not_contains", "x")), [Needed("TEXT") EXCEPT !.enabled = FALSE],
            Shows(Plain("NUMBER"), If(4, "not_in", {"x"}))>>
SomeForms == {Short, Chain, Gaps, Amounts, Boxes, Asides}

\* A box decides whether a question is asked.
BoxForms == {<<Plain("CHECKBOX"), Shows(Needed("TEXT"), If(1, op, "false")), Starts(Needed("PHONE"), "+2")>> :
                op \in {"equals", "is_not_empty"}}

Entered(t) ==
    CASE t = "TEXT" -> {Text(""), Text("x"), Text(" ")}
      [] t = "PHONE" -> {Text("x"), Text("x "), Text("+2")}
      [] t \in {"SELECT", "COUNTRY"} -> {Text(""), Text("1"), Text("2")}
      [] t = "MULTISELECT" -> {Entry(""), Entry("2")}
      [] t \in {"NUMBER", "QUANTITY"} -> {Text(""), Text("0"), Text("2"), Text("3")}
      [] t \in {"CONSENT", "CHECKBOX"} -> {Flag(TRUE), Flag(FALSE)}
      [] OTHER -> {}
SomeEntries == [t \in {"TEXT", "PHONE", "SELECT", "COUNTRY", "MULTISELECT", "NUMBER", "QUANTITY",
                       "CONSENT", "CHECKBOX", "HIDDEN", "HEADING"} |-> Entered(t)]

\* A number as it is dialled in country 1, and one of country 2 from anywhere.
SomeNumbers == [t \in {"x", "+2"} |-> [country |-> IF t = "x" THEN "1" ELSE "2", international |-> t = "+2"]]

-----------------------------------------------------------------------------
Wrap(price) == [b \in {"wrap", "card"} |-> IF b = "wrap" THEN price ELSE 0]
Free == [codFeeEnabled |-> FALSE, codFeeIsPercent |-> FALSE, codFeeAmount |-> 0, shippingFee |-> 0,
         freeShippingAbove |-> NoLimit, minOrderValue |-> 0, maxOrderValue |-> NoLimit,
         bumps |-> Wrap(1500000), allowedCountryCodes |-> {}, blockedCountryCodes |-> {}]
Flat == [Free EXCEPT !.blockedCountryCodes = {"2"}, !.bumps = Wrap(0), !.codFeeEnabled = TRUE, !.codFeeAmount = 300000]
Fees == [Free EXCEPT !.codFeeEnabled = TRUE, !.codFeeIsPercent = TRUE, !.codFeeAmount = 250,
                     !.shippingFee = 4000000, !.freeShippingAbove = 15000000, !.minOrderValue = 5000000]
Far == [Fees EXCEPT !.shippingFee = 40000000, !.freeShippingAbove = NoLimit, !.bumps = Wrap(0),
                    !.maxOrderValue = 700000000, !.allowedCountryCodes = {"1"}]

Item(p) == [price |-> p, displayed |-> p, status |-> "ACTIVE", availableForSale |-> TRUE,
            inventoryPolicy |-> "DENY", inventoryQuantity |-> 2]
Endless(p) == [Item(p) EXCEPT !.inventoryPolicy = "CONTINUE"]
Offer(charges, currency, format, variant) ==
    [terms |-> charges, currency |-> currency, moneyFormat |-> format, variant |-> variant,
     countryCode |-> IF currency = "KWD" THEN "" ELSE "1", botProtection |-> TRUE, minFillSeconds |-> 2]

\* Prices a percentage does not divide, in coins of two, no and three digits; one of
\* them written without its digits, one not for sale.
SomeOffers == {Offer(Fees, "INR", "amount", Item(9990000)),
               Offer(Flat, "INR", "amount_no_decimals", Endless(9990000)),
               Offer(Far, "JPY", "amount", Endless(333000000)),
               Offer(Fees, "KWD", "amount", Item(9995000)),
               Offer(Fees, "KWD", "amount", [Item(1250000) EXCEPT !.availableForSale = FALSE])}
=============================================================================
