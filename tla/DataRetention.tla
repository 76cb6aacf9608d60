---------------------------- MODULE DataRetention ----------------------------
(***************************************************************************)
(* The nightly clearing of personal data (jobs/enforceRetention), the      *)
(* erasure one customer asks for (webhooks customers/redact) and the       *)
(* export of what is held (customers/data_request), over the orders of     *)
(* several shops (shop/repository).                                        *)
(*                                                                         *)
(* An order is numbered within its shop, the oldest first. Its age is how  *)
(* long a period must be to keep it: "new" orders are kept by both periods *)
(* a merchant may choose, "middling" ones by the long one, "old" ones by   *)
(* neither.                                                                *)
(***************************************************************************)
EXTENDS Naturals, FiniteSets

CONSTANTS
    Shops,          \* shops being swept
    PerShop,        \* orders each of them has
    BATCH,          \* orders cleared per statement
    MAX_PER_SHOP_PER_RUN,   \* the ceiling for one shop in one night
    MaxTrouble      \* bound on failures, on new policies and on uninstalls

ASSUME RetentionAssumption ==
    /\ PerShop \in Nat \ {0} /\ BATCH \in Nat \ {0} /\ MAX_PER_SHOP_PER_RUN \in Nat \ {0}
    /\ MaxTrouble \in Nat

Orders == Shops \X (1..PerShop)
Periods == {"short", "long", "unset"}   \* unset: no settings row yet
Customers == {"asks", "stays"}
Customer(o) == IF o[2] % 2 = 1 THEN "asks" ELSE "stays"

VARIABLES
    age,        \* of each order
    cleared,    \* orders whose personal columns are blank
    period,     \* each shop's orderRetentionDays
    installed,  \* active shops
    sweep,      \* the job: [todo, shop, days, due, batch, count]
    asked,      \* customers whose erasure Shopify has forwarded
    told,       \* orders whose shopper the export the merchant was sent tells of
    trouble

rvars == <<age, cleared, period, installed, sweep, asked, told, trouble>>

NoShop == "none"
Resting == [at |-> "idle", todo |-> {}, shop |-> NoShop, due |-> {}, batch |-> {}, count |-> 0]

RetentionTypeOK ==
    /\ age \in [Orders -> {"new", "middling", "old"}]
    /\ cleared \subseteq Orders /\ told \subseteq Orders
    /\ period \in [Shops -> Periods] /\ installed \subseteq Shops
    /\ sweep \in [at : {"idle", "next", "select", "blank"},
                  todo : SUBSET [shop : Shops, days : Periods], shop : Shops \cup {NoShop},
                  due : SUBSET Orders, batch : SUBSET Orders,
                  count : 0..(MAX_PER_SHOP_PER_RUN + BATCH)]
    /\ asked \subseteq Shops
    /\ trouble \in 0..MaxTrouble

Trouble == trouble < MaxTrouble /\ trouble' = trouble + 1
Of(s) == {o \in Orders : o[1] = s}
Past(days) == CASE days = "short" -> {"middling", "old"} [] days = "long" -> {"old"} [] OTHER -> {}

-----------------------------------------------------------------------------
(* processDataRetention. *)

\* The shops and their periods are read once, at the start.
StartSweep ==
    /\ sweep.at = "idle"
    /\ sweep' = [Resting EXCEPT !.at = "next",
                     !.todo = {[shop |-> s, days |-> period[s]] : s \in installed}]
    /\ UNCHANGED <<age, cleared, period, installed, asked, told, trouble>>

\* The cutoff is fixed when the shop's turn comes.
sweepShop ==
    /\ sweep.at = "next"
    /\ \/ \E t \in sweep.todo :
             sweep' = [Resting EXCEPT !.at = "select", !.todo = sweep.todo \ {t}, !.shop = t.shop,
                           !.due = {o \in Of(t.shop) : age[o] \in Past(t.days)}]
       \/ sweep.todo = {} /\ sweep' = Resting
    /\ UNCHANGED <<age, cleared, period, installed, asked, told, trouble>>

NextShop == [Resting EXCEPT !.at = "next", !.todo = sweep.todo]

\* The oldest that are not blank yet, at most BATCH; none left, or the ceiling reached,
\* ends this shop's turn.
Oldest(S) == {o \in S : Cardinality({p \in S : p[2] < o[2]}) < BATCH}

\* Mutant: the blanked orders are selected again.
SelectAgain ==
    /\ sweep.at = "select"
    /\ LET batch == Oldest(sweep.due)
       IN sweep' = IF sweep.count >= MAX_PER_SHOP_PER_RUN \/ batch = {} THEN NextShop
                   ELSE [sweep EXCEPT !.at = "blank", !.batch = batch]
    /\ UNCHANGED <<age, cleared, period, installed, asked, told, trouble>>

SelectExpired ==
    /\ sweep.at = "select"
    /\ LET batch == Oldest(sweep.due \ cleared)
       IN sweep' = IF sweep.count >= MAX_PER_SHOP_PER_RUN \/ batch = {} THEN NextShop
                   ELSE [sweep EXCEPT !.at = "blank", !.batch = batch]
    /\ UNCHANGED <<age, cleared, period, installed, asked, told, trouble>>

\* An order somebody else blanked meanwhile is written again, and counted; a row that
\* is gone is neither.
BlankExpired ==
    /\ sweep.at = "blank"
    /\ cleared' = cleared \cup sweep.batch
    /\ sweep' = [sweep EXCEPT !.at = "select", !.batch = {},
                              !.count = @ + Cardinality(sweep.batch)]
    /\ UNCHANGED <<age, period, installed, asked, told, trouble>>

\* A statement fails: this shop waits for the next night, the others do not.
SweepFails ==
    /\ sweep.at \in {"select", "blank"}
    /\ Trouble
    /\ sweep' = NextShop
    /\ UNCHANGED <<age, cleared, period, installed, asked, told>>

\* The worker stops, or progress cannot be reported: the run ends where it is.
SweepStops ==
    /\ sweep.at # "idle"
    /\ Trouble
    /\ sweep' = Resting
    /\ UNCHANGED <<age, cleared, period, installed, asked, told>>

-----------------------------------------------------------------------------
(* The privacy webhooks. *)

\* The customer is matched by e-mail, number or Shopify's id, of which a blanked row keeps
\* the last: it is blanked once more, to no effect.
redactCustomer(s) ==
    /\ s \in asked
    /\ cleared' = cleared \cup {o \in Of(s) : s \in installed /\ Customer(o) = "asks"}
    /\ asked' = asked \ {s}
    /\ UNCHANGED <<age, period, installed, sweep, told, trouble>>

collectCustomerData(s) ==
    /\ s \in asked
    /\ told' = {o \in Of(s) : s \in installed /\ Customer(o) = "asks"} \ cleared
    /\ UNCHANGED <<age, cleared, period, installed, sweep, asked, trouble>>

CustomerAsks ==
    /\ Trouble
    /\ \E s \in Shops : asked' = asked \cup {s}
    /\ UNCHANGED <<age, cleared, period, installed, sweep, told>>

-----------------------------------------------------------------------------
(* Time, and the merchants. *)

GrowOlder(o) ==
    /\ age[o] # "old"
    /\ \A p \in Of(o[1]) : p[2] < o[2] => age[p] = "old" \/ age[p] # age[o]
    /\ age' = [age EXCEPT ![o] = IF @ = "new" THEN "middling" ELSE "old"]
    /\ UNCHANGED <<cleared, period, installed, sweep, asked, told, trouble>>

ChangePeriod ==
    /\ Trouble
    /\ \E s \in Shops, days \in {"short", "long"} : period' = [period EXCEPT ![s] = days]
    /\ UNCHANGED <<age, cleared, installed, sweep, asked, told>>

\* The rows of an uninstalled shop go with shop/redact.
UninstallShop ==
    /\ Trouble
    /\ \E s \in installed : installed' = installed \ {s}
    /\ UNCHANGED <<age, cleared, period, sweep, asked, told>>

RetentionInit ==
    /\ age = [o \in Orders |-> IF o[2] = 1 THEN "middling" ELSE "new"]
    /\ cleared = {} /\ told = {} /\ asked = {}
    /\ period \in [Shops -> {"short", "unset"}]
    /\ installed = Shops
    /\ sweep = Resting /\ trouble = 0

Sweeps == sweepShop \/ SelectExpired \/ BlankExpired
RetentionNext ==
    \/ StartSweep \/ Sweeps \/ SweepFails \/ SweepStops
    \/ \E s \in Shops : redactCustomer(s) \/ collectCustomerData(s)
    \/ CustomerAsks \/ ChangePeriod \/ UninstallShop
    \/ \E o \in Orders : GrowOlder(o)

\* The sweep is scheduled every night, and what it starts goes on.
RetentionFairness == WF_rvars(StartSweep \/ Sweeps)
RetentionSpec == RetentionInit /\ [][RetentionNext]_rvars /\ RetentionFairness

-----------------------------------------------------------------------------
(* Properties. *)

\* The orders past the period their merchant chose come to be all blanked, however the
\* sweeps are cut into batches, cut short by the ceiling, by another shop's failure or
\* by a restart (enforceRetention.ts:44-49, the catch per shop and the loop to zero).
Overdue == {o \in Orders : o[1] \in installed /\ age[o] \in Past(period[o[1]])} \ cleared
ExpiredIsErased == []<>(Overdue = {})
=============================================================================
