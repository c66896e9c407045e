SPECIFICATION Spec
CONSTANTS
  Self <- MCSelf
  OwnQuality <- MCSlaveQuality
  Capacity = 2
  SlaveOnly = TRUE
  DelayMechanism = "E2E"
  Announces <- MCAnnounces
  Syncs <- MCSyncs
  FollowUps <- MCFollowUps
INVARIANT OffsetFromOneMaster
