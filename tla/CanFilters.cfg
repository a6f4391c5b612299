CONSTANTS
  NullPtr = NullPtr
  MAX_CAN_BUSES = 1
  MAX_FILTERS = 2
  RX_SIZE = 3
  MAX_DLC = 8
  Bits <- MCBits
  StdBits <- MCStdBits
  ExtBits <- MCExtBits
  Configs <- MCConfigs
  Messages <- MCMessages
  Filters <- MCFilters
  Callbacks = {TRUE}
SPECIFICATION Spec
PROPERTY FiltersDecide
