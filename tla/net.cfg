SPECIFICATION Spec
CONSTANTS
  QueueSize = 2
  RxPbuf = {r1, r2, r3, r4}
  TxPbuf = {t1, t2, t3}
  NoPbuf = NoPbuf
SYMMETRY Renaming
INVARIANTS
  TypeOK RingShape EachPacketOnce EachPacketCalledFor WaitIsAnswered OwnTimestamp
CHECK_DEADLOCK FALSE
