---------------------------- MODULE OrderDelivery ----------------------------
(***************************************************************************)
(* What pushing promises, without the queue that does it: the app creates  *)
(* at most one Shopify order per COD order, learns the number of the order *)
(* it created and of no other, and tells the merchant's sheet, pixels and  *)
(* dashboard about a sale only once that number is known.                  *)
(***************************************************************************)
EXTENDS FiniteSets

CONSTANTS Orders,        (* COD orders                                      *)
          ShopifyOrders, (* identities Shopify may give an order            *)
          Channels,      (* who is told about a sale                        *)
          Null           (* an absent identity                              *)

VARIABLES created, (* created[o]: the Shopify orders the app made for o     *)
          known,   (* known[o]: the Shopify order recorded on o, or Null    *)
          told     (* told[o]: the channels that heard of the sale          *)

vars == <<created, known, told>>

Init ==
  /\ created = [o \in Orders |-> {}]
  /\ known = [o \in Orders |-> Null]
  /\ told = [o \in Orders |-> {}]

Create(o) ==
  /\ created[o] = {}
  /\ \E s \in ShopifyOrders : created' = [created EXCEPT ![o] = {s}]
  /\ UNCHANGED <<known, told>>

Learn(o) ==
  /\ known[o] = Null
  /\ \E s \in created[o] : known' = [known EXCEPT ![o] = s]
  /\ UNCHANGED <<created, told>>

Tell(o) ==
  /\ known[o] # Null
  /\ \E c \in Channels : told' = [told EXCEPT ![o] = @ \cup {c}]
  /\ UNCHANGED <<created, known>>

Next == \E o \in Orders : Create(o) \/ Learn(o) \/ Tell(o)

Spec == Init /\ [][Next]_vars
=============================================================================
