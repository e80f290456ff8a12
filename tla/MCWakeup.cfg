\* Twice as fast heads, three clock cycles, queues of three flits.
SPECIFICATION WakeupSpec
CONSTANTS
  Clock = 4
  DataPacketSpeedup = 2
  TransmitDelay = 3
  MaxPackets = 3
  MaxTime = 12
  MaxPending = 2
INVARIANTS RetryWithinTwoClocks LastIsPending
CHECK_DEADLOCK FALSE
