SPECIFICATION FairOrdersSpec
CONSTANTS
  Orders = {o1}
  Workers = {w1, w2}
  Requests = {r1}
  Drafts = {d1, d2}
  Null = Null
  MaxAttempts = 2
  MaxStalledCount = 1
  Steals = TRUE
  Outages = FALSE
  Kinds = {"verify"}
  Forms <- SomeForms
  Entries <- SomeEntries
  Offers <- SomeOffers
  Numbers <- SomeNumbers
  MaxEntries = 4
  Parts = {"form", "push"}
INVARIANTS
  SaleReportedOnlyOnceReal
  FormIsHonest
PROPERTY
  JobSettles
CHECK_DEADLOCK FALSE
