SPECIFICATION LiveSpec
CONSTANTS
  Self <- MCSelf
  OwnQuality <- MCQuality
  Capacity = 2
  SlaveOnly = FALSE
  DelayMechanism = "E2E"
  Announces <- MCAnnounces
  Syncs <- MCSyncs
  FollowUps <- MCFollowUps
PROPERTIES AbandonsSilentMaster TakesOverSilentNetwork
