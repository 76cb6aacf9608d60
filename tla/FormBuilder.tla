----------------------------- MODULE FormBuilder -----------------------------
(***************************************************************************)
(* The forms a merchant builds (forms/service, forms/repository), from     *)
(* several tabs at once, and what an installation and a reinstallation     *)
(* create of them (shop/repository ensureProvisioned, backfillDefaults).   *)
(*                                                                         *)
(* A form has three fields that matter: the phone, which no order can do   *)
(* without; an address field, built in like it; and one of the merchant's. *)
(***************************************************************************)
EXTENDS Naturals, FiniteSets

CONSTANTS
    Forms,      \* ids of forms
    Tabs,       \* admin requests at once
    FormLimit,  \* PLAN_LIMITS[plan].forms
    MaxEdits    \* bound on the merchant's requests and on reinstallations

ASSUME FormAssumption ==
    /\ FormLimit \in Nat \ {0} /\ MaxEdits \in Nat
    /\ IsFiniteSet(Forms) /\ Forms # {} /\ IsFiniteSet(Tabs) /\ Tabs # {}

FormNames == {"COD form", "mine", "COD form (copy)"}
DefaultName == "COD form"
Keys == {"phone", "address", "custom"}
\* A field: not there, built in, or the merchant's own.
Kinds == {"absent", "system", "own"}
DefaultFields == [k \in Keys |-> IF k = "custom" THEN "absent" ELSE "system"]
NoForm == [name |-> "", active |-> FALSE, default |-> FALSE, fields |-> DefaultFields]
AForm == [name : FormNames, active : BOOLEAN, default : BOOLEAN, fields : [Keys -> Kinds]]

VARIABLES
    form,       \* the shop's forms, NoForm where there is none
    tab,        \* per request: [job, at, form, arg]
    reinstalls, \* reinstallations that found the default form renamed
    collided,   \* has a form been deleted that was activated after deleteForm read it?
    edits

fvars == <<form, tab, reinstalls, collided, edits>>

\* What the builder sends for a field: nothing, the row's id, or the key alone.
Arrangements == [Keys -> {"omitted", "byId", "byKey"}]
NoTab == [job |-> "none", at |-> "idle", form |-> "none", arg |-> "none"]

FormTypeOK ==
    /\ form \in [Forms -> AForm \cup {NoForm}]
    /\ \A t \in Tabs : /\ tab[t].job \in {"none", "create", "duplicate", "update", "fields", "delete"}
                       /\ tab[t].at \in {"idle", "read", "write", "activate"}
                       /\ tab[t].form \in Forms \cup {"none"}
    /\ reinstalls \in Nat /\ collided \in BOOLEAN /\ edits \in 0..MaxEdits

Made == {f \in Forms : form[f] # NoForm}
Active == {f \in Made : form[f].active}
Done(t) == tab' = [tab EXCEPT ![t] = NoTab]
At(t, job, at) == tab[t].job = job /\ tab[t].at = at
Step(t, at) == tab' = [tab EXCEPT ![t].at = at]
Kept == UNCHANGED <<reinstalls, collided, edits>>

-----------------------------------------------------------------------------
(* The requests. *)

Start(t) ==
    /\ tab[t].job = "none" /\ edits < MaxEdits
    /\ \E job \in {"create", "duplicate", "update", "fields", "delete"}, f \in Made :
          \E arg \in CASE job = "create" -> FormNames
                       [] job = "update" -> FormNames \cup {"activate", "deactivate"}
                       [] job = "fields" -> Arrangements
                       [] OTHER -> {"none"} :
             tab' = [tab EXCEPT ![t] = [job |-> job, at |-> "read", form |-> f, arg |-> arg]]
    /\ edits' = edits + 1
    /\ UNCHANGED <<form, reinstalls, collided>>

Taken(name) == \E f \in Made : form[f].name = name
FreshForm(name, fields) == [name |-> name, active |-> FALSE, default |-> FALSE, fields |-> fields]
NextId == CHOOSE f \in Forms : form[f] = NoForm

\* createForm and duplicateForm count the forms before they create.
CountForms(t) ==
    /\ At(t, "create", "read") \/ At(t, "duplicate", "read")
    /\ LET source == form[tab[t].form]
       IN IF Cardinality(Made) >= FormLimit \/ (tab[t].job = "duplicate" /\ source = NoForm)
          THEN Done(t)
          ELSE tab' = [tab EXCEPT ![t].at = "write",
                           ![t].arg = IF tab[t].job = "create" THEN FreshForm(@, DefaultFields)
                                      ELSE FreshForm("COD form (copy)", source.fields)]
    /\ UNCHANGED form /\ Kept

\* A name is unique: a second of it is refused. A new form is not active. (Forms bounds
\* the forms there are at once.)
CreateForm(t) ==
    /\ tab[t].at = "write" /\ tab[t].job \in {"create", "duplicate"}
    /\ Taken(tab[t].arg.name) \/ Made # Forms
    /\ form' = IF Taken(tab[t].arg.name) THEN form ELSE [form EXCEPT ![NextId] = tab[t].arg]
    /\ Done(t)
    /\ Kept

findById(t) ==
    /\ At(t, "update", "read")
    /\ IF form[tab[t].form] = NoForm THEN Done(t) ELSE Step(t, "write")
    /\ UNCHANGED form /\ Kept

\* The columns are saved before activation is looked at; a form deleted meanwhile is
\* not found.
updateForm(t) ==
    /\ At(t, "update", "write")
    /\ LET f == tab[t].form
           name == tab[t].arg
       IN IF form[f] = NoForm \/ name = "deactivate" THEN Done(t) /\ UNCHANGED form
          ELSE IF name = "activate" THEN Step(t, "activate") /\ UNCHANGED form
          ELSE /\ form' = IF \E g \in Made \ {f} : form[g].name = name THEN form
                          ELSE [form EXCEPT ![f].name = name]
               /\ Done(t)
    /\ Kept

\* Mutant: the form is looked for after the others were deactivated.
DeactivateFirst(t) ==
    /\ At(t, "update", "activate")
    /\ LET f == tab[t].form
       IN form' = [g \in Forms |-> IF g \in Made THEN [form[g] EXCEPT !.active = (g = f)] ELSE NoForm]
    /\ Done(t)
    /\ Kept

\* One transaction: nothing changes when the form is gone.
setActive(t) ==
    /\ At(t, "update", "activate")
    /\ LET f == tab[t].form
       IN form' = IF form[f] = NoForm THEN form
                  ELSE [g \in Forms |-> IF g \in Made THEN [form[g] EXCEPT !.active = (g = f)]
                                        ELSE NoForm]
    /\ Done(t)
    /\ Kept

\* validateArrangement and assertSystemFieldsIntact: the phone is there, and so is every
\* built-in field the form had when it was read.
Complete(layout) == layout["phone"] # "omitted"
SystemIntact(f, layout) == \A k \in Keys : form[f].fields[k] = "system" => layout[k] # "omitted"

CheckFields(t) ==
    /\ At(t, "fields", "read")
    /\ LET f == tab[t].form
       IN IF form[f] # NoForm /\ Complete(tab[t].arg) /\ SystemIntact(f, tab[t].arg)
          THEN Step(t, "write") ELSE Done(t)
    /\ UNCHANGED form /\ Kept

\* A row that is not named by its id is deleted and created again, as the merchant's.
Rearranged(old, layout) ==
    [k \in Keys |-> CASE layout[k] = "omitted" -> "absent"
                      [] layout[k] = "byId" /\ old[k] # "absent" -> old[k]
                      [] OTHER -> "own"]

replaceFields(t) ==
    /\ At(t, "fields", "write")
    /\ LET f == tab[t].form
       IN form' = IF form[f] = NoForm THEN form
                  ELSE [form EXCEPT ![f].fields = Rearranged(@, tab[t].arg)]
    /\ Done(t)
    /\ Kept

\* The active form and the default one are refused, as they were when they were read.
CheckDelete(t) ==
    /\ At(t, "delete", "read")
    /\ LET f == tab[t].form
       IN IF form[f] = NoForm \/ form[f].active \/ form[f].default THEN Done(t) ELSE Step(t, "write")
    /\ UNCHANGED form /\ Kept

deleteForm(t) ==
    /\ At(t, "delete", "write")
    /\ form' = [form EXCEPT ![tab[t].form] = NoForm]
    /\ collided' = (collided \/ form[tab[t].form].active)
    /\ Done(t)
    /\ UNCHANGED <<reinstalls, edits>>

-----------------------------------------------------------------------------
(* Installing. *)

DefaultForm == [name |-> DefaultName, active |-> TRUE, default |-> TRUE, fields |-> DefaultFields]

\* backfillDefaults finds the default form by its name, and its fields by their keys.
Reinstall ==
    /\ edits < MaxEdits /\ edits' = edits + 1
    /\ \/ \E f \in Made :
             /\ form[f].name = DefaultName
             /\ form' = [form EXCEPT ![f].fields =
                   [k \in Keys |-> IF @[k] = "absent" THEN DefaultFields[k] ELSE @[k]]]
             /\ UNCHANGED reinstalls
       \/ /\ ~Taken(DefaultName)
          /\ Made # Forms
          /\ form' = [form EXCEPT ![NextId] = DefaultForm]
          /\ reinstalls' = reinstalls + 1
    /\ UNCHANGED <<tab, collided>>

FirstForm == CHOOSE f \in Forms : TRUE

FormInit ==
    /\ form = [f \in Forms |-> IF f = FirstForm THEN DefaultForm ELSE NoForm]
    /\ tab = [t \in Tabs |-> NoTab]
    /\ reinstalls = 0 /\ collided = FALSE /\ edits = 0

FormNext ==
    \/ \E t \in Tabs :
          \/ Start(t) \/ CountForms(t) \/ CreateForm(t) \/ findById(t) \/ updateForm(t)
          \/ setActive(t) \/ CheckFields(t) \/ replaceFields(t) \/ CheckDelete(t) \/ deleteForm(t)
    \/ Reinstall
FormSpec == FormInit /\ [][FormNext]_fvars

-----------------------------------------------------------------------------
(* Properties. *)

\* Whatever the tabs do at once, every form can take the phone an order is confirmed by,
\* a default form stays, no more forms exist than the plan and the requests racing its
\* check allow, and one form is active, unless a reinstallation created a second
\* default form or a deletion raced an activation.
HasPhone == \A f \in Made : form[f].fields["phone"] # "absent"
DefaultStays == \E f \in Made : form[f].default
WithinFormLimit == Cardinality(Made) <= FormLimit + Cardinality(Tabs) - 1 + reinstalls
OneIsActive == (reinstalls = 0 /\ ~collided) => Cardinality(Active) = 1
FormsHold == HasPhone /\ DefaultStays /\ WithinFormLimit /\ OneIsActive
=============================================================================
