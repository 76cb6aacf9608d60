-------------------------- MODULE TransferSamples --------------------------
(* A shop's configuration, and files, to check SettingsTransfer with.      *)
EXTENDS TLC

Ask(choices) == [name |-> "size", choices |-> choices]
Phone == [name |-> "phone", choices |-> "none"]
Charges(amount) == "shop" :> [codFeeAmount |-> amount, currencyFormat |-> "Rs"]
Cash == "CART_PAGE" :> [isEnabled |-> FALSE, label |-> "Cash", shown |-> TRUE]

SomeShop ==
    [settings |-> Charges(49),
     buttons |-> ("PRODUCT_PAGE" :> [isEnabled |-> FALSE, label |-> "Pay later", shown |-> TRUE]),
     forms |-> ("COD form" :> [isActive |-> TRUE, fields |-> {Phone, Ask("S, M")}]),
     fraud |-> ("shop" :> [mediumThreshold |-> 40, highThreshold |-> 70]),
     fraudRules |-> ("night" :> [scoreDelta |-> 10])]

\* None, or one from before the fee was raised and a button taken away.
SomeBackups == {[s \in {} |-> {}], [SomeShop EXCEPT !.settings = Charges(20), !.buttons = @ @@ Cash]}

\* Parts of what a file may have; rows the shop does not have; a form without questions.
SomeForeign ==
    {[settings |-> ("shop" :> [codFeeAmount |-> 99]),
      buttons |-> ("CART_PAGE" :> [label |-> "Pay cash", shown |-> FALSE]),
      forms |-> ("mine" :> [isActive |-> TRUE, fields |-> {Phone}])
                @@ ("COD form" :> [isActive |-> FALSE, fields |-> {}])],
     [fraud |-> ("shop" :> [highThreshold |-> 30]), fraudRules |-> ("big" :> [scoreDelta |-> 20]),
      forms |-> ("COD form" :> [fields |-> {Phone}])]}

SomeScreens ==
    {[section |-> "buttons", key |-> "CART_PAGE", data |-> [isEnabled |-> TRUE]],
     [section |-> "buttons", key |-> "PRODUCT_PAGE", data |-> [shown |-> FALSE]],
     [section |-> "forms", key |-> "COD form", data |-> [isActive |-> FALSE, fields |-> {Phone, Ask("L")}]]}
=============================================================================
