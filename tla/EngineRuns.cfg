CONSTANTS
  Instruments <- MCInstruments
  Unlisted = "Z"
  NumOrders = 5
  Configs <- MCConfigs
SPECIFICATION FairSpec
INVARIANTS TypeOK OneBookPerInstrument NothingLeftAtExit NoOrderRefused
PROPERTIES Terminates
CHECK_DEADLOCK FALSE
