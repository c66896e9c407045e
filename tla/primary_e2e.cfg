SPECIFICATION Spec
CONSTANTS
  Self <- MCSelf
  OwnQuality <- MCPrimaryQuality
  Capacity = 3
  SlaveOnly = FALSE
  DelayMechanism = "E2E"
  Announces <- MCAnnounces
  Syncs <- MCSyncs
  FollowUps <- MCFollowUps
INVARIANTS
  TimersMatchState RecordsReceived DataSetMatchesRole
