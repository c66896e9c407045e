SPECIFICATION Spec
CONSTANTS
  Self <- MCSelf
  OwnQuality <- MCSlaveQuality
  Capacity = 2
  SlaveOnly = TRUE
  DelayMechanism = "E2E"
  Announces <- MCAnnounces
  Syncs <- MCSyncs
  FollowUps <- MCFollowUps
INVARIANTS
  TypeOK TimersMatchState RecommendationAgrees SlaveOnlyNeverMaster
  RecordsReceived DecisionHasARecord DataSetMatchesRole
  PendingSyncHasAFollower SlaveIsSynchronised
PROPERTY KeepsRolePromise
