SPECIFICATION FairSpec
CONSTANTS
  None = None
  Events <- MCEvents
  Kind <- KindOf
  Created <- CreatedAt
  Remote <- StateOf
  Stamped <- WithTenant
  ProviderStatus = "active"
  MaxFaults = 2
  Workers = {w1, w2}
INVARIANTS BillingTypeOK AppliedOnce
PROPERTIES EventuallyAcked ImplementsInbox
