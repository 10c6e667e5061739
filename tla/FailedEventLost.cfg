SPECIFICATION Spec
CONSTANTS
  None = None
  Events <- MCEvents
  Kind <- EndingKindOf
  Created <- CreatedAt
  Remote <- StateOf
  Stamped <- MCEvents
  ProviderStatus = "active"
  MaxFaults = 2
  Workers = {w1, w2}
INVARIANT AckedIsProcessed
