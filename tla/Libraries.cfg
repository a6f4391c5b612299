SPECIFICATION LibrariesSpec
CONSTANTS
  NullPtr = NullPtr
  MAX_CAN_BUSES = 1
  MAX_FILTERS = 2
  RX_SIZE = 3
  MAX_DLC = 8
  Bits <- MCBits
  StdBits <- MCStdBits
  ExtBits <- MCExtBits
  Configs <- MCConfigs
  Messages <- MCMessages
  Filters <- MCFilters
  Callbacks = {TRUE, FALSE}
\* PWM, scaled down by 10^6: a second has 1000 "nanoseconds", a word holds 4295.
  SIMULITH_PWM_MAX_CHANNELS = 1
  SIMULITH_PWM_MIN_FREQ_HZ = 1
  SIMULITH_PWM_MAX_FREQ_HZ = 1000
  NanosPerSecond = 1000
  Word = 4295
  Frequencies = {0, 1, 23, 24, 1000, 1001}
  DutyCycles = {0, 50, 100, 101}
\* GPIO
  Pins = {p1}
  NoSuchPin = NoSuchPin
  Values = {0, 1, 2}
\* UART
  MAX_UART_PORTS = 2
  RX_BUFFER_SIZE = 4
  UartConfigs <- MCUartConfigs
  UartCallbacks = {cb1}
  UartLengths = {0, 2}
  UartResults <- MCUartResults
  UartDepth = 2
\* SPI
  MAX_SPI_BUSES = 2
  SpiConfigs <- MCSpiConfigs
  SpiCallbacks = {cb1, cb2}
  SpiLengths = {0, 2}
  SpiResults <- MCSpiResults
  SpiDepth = 2
\* I2C
  MAX_I2C_BUSES = 2
  I2cCallbacks = {cb1, cb2}
  I2cLengths = {0, 2}
  I2cResults = {0, 1}
  I2cDepth = 2
\* Endpoints
  Addresses = {"pub", "rep"}
  BadAddress = "bad"
  MaxContexts = 2
  MaxSockets = 4
INVARIANTS TypeOK LibrariesTypeOK ExactWhenItFits PulseWithinPeriod RunningIsOpen InputsKeepPull NothingToPoll PointersLive ShutdownWaitsForMessageOnly CarefulReleases
PROPERTIES ImplementsContract ModeFixedWhileOpen ImplementsDevicePort
\* A device that was called when calls nest no deeper.
CHECK_DEADLOCK FALSE
