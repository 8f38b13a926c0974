SPECIFICATION FairSpec
CONSTANTS
  First = First
  Reevaluations = {again}
  Requests = {}
  MaxEnvelopes = 4
  MaxPlans = 1
  MaxFailures = 1
PROPERTIES
  ApprovalSettles
CHECK_DEADLOCK FALSE
