SPECIFICATION FairSpec
CONSTANTS
  r1 = r1  p1 = p1  p2 = p2  p3 = p3  t1 = t1  t2 = t2
  s1 = s1  s2 = s2  s3 = s3  e1 = e1  e2 = e2
  None = None
  Zero = Zero
  Rooms <- OneRoom
  Participants <- ThreePeople
  Tracks <- OneTrack
  Ssrcs <- TwoSsrcs
  Endpoints <- OneEndpoint
  MaxSessions = 3
  MaxParticipants = 2
  MaxTracks = 1
  MaxSubscriptions = 1
  NegotiationTicks = 0
  IdleTicks = 0
INVARIANTS EngineTypeOK MembersAlive SubscriptionsReal WireOwned
PROPERTY GhostsFreed
