SPECIFICATION Spec
CONSTANTS
  Orders = {o1}
  Workers = {w1}
  Requests = {r1}
  Drafts = {d1, d2}
  Null = Null
  MaxAttempts = 2
  MaxStalledCount = 1
  Steals = FALSE
  Outages = FALSE
  Kinds = {"review"}
PROPERTY ApprovalQueuesTheOrder
CHECK_DEADLOCK FALSE
