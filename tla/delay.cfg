SPECIFICATION Spec
CONSTANTS
  Port = {A, B}
  Nobody = Nobody
  Allowed = {"LISTENING", "MASTER", "PASSIVE", "UNCALIBRATED", "SLAVE"}
  StepsBack = TRUE
  PeerDelay = TRUE
  Wrap = 4
  Lifetime = 2
INVARIANTS
  TypeOK AnswerMeetsItsRequest SlaveDelayFromItsMaster PeerDelayOfOneExchange
  WaitingHasAnswer
