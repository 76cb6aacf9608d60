----------------------------- MODULE FieldRules ------------------------------
(***************************************************************************)
(* The rules of a COD form (packages/shared/validation), which the browser *)
(* and the server both run: what a value is, which fields a form shows,    *)
(* and what it refuses. A form is a sequence of fields, a field's key its  *)
(* place in it.                                                            *)
(***************************************************************************)
EXTENDS Integers, Sequences

-----------------------------------------------------------------------------
(* Values. A value has a kind and what it reads as text; a list here holds *)
(* one entry or none.                                                      *)

Value(kind, txt) == [kind |-> kind, txt |-> txt]
Nothing == Value("nothing", "")
Text(t) == Value("text", t)
Flag(b) == Value("flag", IF b THEN "true" ELSE "false")
Entry(t) == Value("list", t)
NotANumber == Value("number", "NaN")

trim(t) == CASE t = "x " -> "x" [] t = " " -> "" [] OTHER -> t
numerals == [t \in {"0", "1", "2", "3"} |-> CASE t = "0" -> 0 [] t = "1" -> 1 [] t = "2" -> 2 [] t = "3" -> 3]

\* FALSE is an answer, and so is 0.
isEmpty(v) ==
    \/ v.kind = "nothing"
    \/ v.kind = "text" /\ trim(v.txt) = ""
    \/ v.kind = "list" /\ v.txt = ""

asString(v) == v.txt

\* The number a value reads as: what is empty and what is a list reads as none.
isNumeric(v) == ~isEmpty(v) /\ v.kind # "list" /\ (v.kind = "flag" \/ trim(v.txt) \in DOMAIN numerals)
asNumber(v) == IF v.kind = "flag" THEN IF v.txt = "true" THEN 1 ELSE 0 ELSE numerals[trim(v.txt)]

Contains(v, t) ==
    IF v.kind = "list" THEN ~isEmpty(v) /\ v.txt = t
    ELSE t \in {"", asString(v), trim(asString(v))}

-----------------------------------------------------------------------------
(* Which fields are shown. *)

Compare(operator, a, b) ==
    /\ isNumeric(a) /\ isNumeric(b)
    /\ CASE operator = "gt" -> asNumber(a) > asNumber(b)
         [] operator = "lt" -> asNumber(a) < asNumber(b)
         [] operator = "gte" -> asNumber(a) >= asNumber(b)
         [] operator = "lte" -> asNumber(a) =< asNumber(b)

Meets(c, actual) ==
    CASE c.operator = "is_empty" -> isEmpty(actual)
      [] c.operator = "is_not_empty" -> ~isEmpty(actual)
      [] c.operator = "equals" -> asString(actual) = c.value
      [] c.operator = "not_equals" -> asString(actual) # c.value
      [] c.operator = "contains" -> Contains(actual, c.value)
      [] c.operator = "not_contains" -> ~Contains(actual, c.value)
      [] c.operator = "in" -> asString(actual) \in c.value
      [] c.operator = "not_in" -> asString(actual) \notin c.value
      [] OTHER -> Compare(c.operator, actual, Text(c.value))

evaluateCondition(c, values) == Meets(c, IF c.field \in DOMAIN values THEN values[c.field] ELSE Nothing)

evaluateRule(rule, values) ==
    \/ rule.conditions = {}
    \/ rule.logic = "any" /\ \E c \in rule.conditions : evaluateCondition(c, values)
    \/ rule.logic = "all" /\ \A c \in rule.conditions : evaluateCondition(c, values)

\* A field that is not shown counts as having no value.
Seen(visible, values) == [k \in DOMAIN visible |-> IF visible[k] THEN values[k] ELSE Nothing]

Pass(form, visible, values) ==
    [k \in DOMAIN form |-> form[k].enabled /\ evaluateRule(form[k].rule, Seen(visible, values))]

\* As many passes as a chain of fields can need, and one that changes nothing.
Passes(form) == Len(form) + 1

\* Mutant: the rules are read once.
OnePass(form, values) == Pass(form, [k \in DOMAIN form |-> form[k].enabled], values)

resolveVisibility(form, values) ==
    LET after[n \in 0..Passes(form)] ==
            IF n = 0 THEN [k \in DOMAIN form |-> form[k].enabled]
            ELSE Pass(form, after[n - 1], values)
    IN after[Passes(form)]

-----------------------------------------------------------------------------
(* What is refused. *)

Presentational == {"HEADING", "PARAGRAPH", "DIVIDER"}

\* What a value becomes on its way to the server.
coerceValue(f, v) ==
    CASE f.type = "MULTISELECT" -> IF v.kind = "list" THEN v ELSE IF isEmpty(v) THEN Entry("") ELSE Entry(v.txt)
      [] f.type \in {"CHECKBOX", "CONSENT"} ->
            IF v.kind = "flag" THEN v ELSE Flag(~isEmpty(v) /\ v.txt \in {"true", "on", "1", "yes"})
      [] f.type \in {"NUMBER", "QUANTITY"} ->
            IF isEmpty(v) THEN Nothing
            ELSE IF isNumeric(v) THEN Value("number", trim(v.txt)) ELSE NotANumber
      [] OTHER -> IF isEmpty(v) THEN Nothing ELSE IF v.kind = "text" THEN Text(trim(v.txt)) ELSE v

\* What the checks of a value's content let through: its length, range, shape and pattern.
Fits(f, v) ==
    /\ v.kind = "number" => f.least =< asNumber(v) /\ asNumber(v) =< f.most
    /\ f.accepts # {} => \/ v.kind # "list" /\ asString(v) \in f.accepts
                         \/ v.kind = "list" /\ v.txt \in f.accepts

validateField(f, raw) ==
    LET v == coerceValue(f, raw)
    IN IF f.type \in Presentational \/ ~f.enabled THEN "fine"
       ELSE IF f.type = "CONSENT" THEN IF f.required /\ v # Flag(TRUE) THEN "consent_required" ELSE "fine"
       ELSE IF v = NotANumber THEN "not_a_number"
       ELSE IF isEmpty(v) THEN IF f.required THEN "required" ELSE "fine"
       ELSE IF Fits(f, v) THEN "fine" ELSE "refused"

\* The fields that are refused: one a rule hides is never asked for.
validateForm(form, values) ==
    {k \in DOMAIN form : resolveVisibility(form, values)[k] /\ validateField(form[k], values[k]) # "fine"}

\* Bots fill the field nobody sees, or are too quick; a clock ahead of ours is neither.
checkBotSignals(botProtection, honeypot, seconds, minFillSeconds) ==
    botProtection => isEmpty(honeypot) /\ ~(0 =< seconds /\ seconds < minFillSeconds)
=============================================================================
