SPECIFICATION Spec
CONSTANTS
  Self <- MCSelf
  OwnQuality <- MCDefaultQuality
  Capacity = 2
  SlaveOnly = FALSE
  DelayMechanism = "P2P"
  Announces <- MCAnnounces
  Syncs <- MCSyncs
  FollowUps <- MCFollowUps
INVARIANTS
  TimersMatchState RecommendationAgrees
  RecordsReceived DecisionHasARecord DataSetMatchesRole
PROPERTY KeepsRolePromise
