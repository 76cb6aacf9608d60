SPECIFICATION OrdersSpec
CONSTANTS
  Orders = {o1}
  Workers = {w1, w2}
  Requests = {r1}
  Drafts = {d1, d2}
  Null = Null
  MaxAttempts = 2
  MaxStalledCount = 1
  Steals = FALSE
  Outages = TRUE
  Kinds = {"retry", "review", "rescan", "scan"}
  Forms <- SomeForms
  Entries <- SomeEntries
  Offers <- SomeOffers
  Numbers <- SomeNumbers
  MaxEntries = 4
  Parts = {"push"}
SYMMETRY MCSymmetry
INVARIANTS
  AtMostOneShopifyOrder
  PushedHasDraft
PROPERTIES
  OrderNumberIsFinal
  DeliverySpec
CHECK_DEADLOCK FALSE
