SPECIFICATION FairSpec
CONSTANTS
  FifoSize = 2
  MaxTyped = 3
  MaxToSend = 2
  MaxCalls = 2
INVARIANTS TypeOK AvailableExact ServiceBalanced
PROPERTIES ImplementsSerialLine RxDrains TxDrains
