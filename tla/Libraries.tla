------------------------------ MODULE Libraries ------------------------------
(***************************************************************************)
(* The libraries that simulate devices, and the endpoints of server and    *)
(* client, as the test programs use them: each program links one of them.  *)
(* They share neither state nor calls, so whatever a program could do with *)
(* several is an interleaving in which each behaves as it does alone.      *)
(* CAN is extended, the others are instances.                              *)
(***************************************************************************)
EXTENDS CanBus

CONSTANTS
  SIMULITH_PWM_MAX_CHANNELS, SIMULITH_PWM_MIN_FREQ_HZ, SIMULITH_PWM_MAX_FREQ_HZ,
  NanosPerSecond, Word, Frequencies, DutyCycles,                        \* PWM
  Pins, NoSuchPin, Values,                                              \* GPIO
  MAX_UART_PORTS, RX_BUFFER_SIZE, UartConfigs, UartCallbacks, UartLengths,
  UartResults, UartDepth,                                               \* UART
  MAX_SPI_BUSES, SpiConfigs, SpiCallbacks, SpiLengths, SpiResults,
  SpiDepth,                                                             \* SPI
  MAX_I2C_BUSES, I2cCallbacks, I2cLengths, I2cResults, I2cDepth,        \* I2C
  Addresses, BadAddress, MaxContexts, MaxSockets                        \* endpoints

VARIABLES
  active,                                \* the library that is used
  pwm_channels, pwm_answer,              \* PWM
  gpio_pins, gpio_answer,                \* GPIO
  uart_ports, uart_calls, uart_answer,   \* UART
  spi_buses, spi_calls, spi_answer,      \* SPI
  i2c_buses, i2c_calls, i2c_answer,      \* I2C
  held, contexts, sockets, unsent,       \* server and client
  lingering, ready, terminating, careless

pwmVars       == <<pwm_channels, pwm_answer>>
gpioVars      == <<gpio_pins, gpio_answer>>
uartVars      == <<uart_ports, uart_calls, uart_answer>>
spiVars       == <<spi_buses, spi_calls, spi_answer>>
i2cVars       == <<i2c_buses, i2c_calls, i2c_answer>>
endpointsVars == <<held, contexts, sockets, unsent, lingering, ready, terminating, careless>>
librariesVars ==
  <<active, vars, pwmVars, gpioVars, uartVars, spiVars, i2cVars, endpointsVars>>

-----------------------------------------------------------------------------
Pwm  == INSTANCE PwmChannel WITH answer <- pwm_answer

Gpio == INSTANCE GpioPin WITH pins <- gpio_pins, answer <- gpio_answer

Uart == INSTANCE UartPort WITH
  Configs <- UartConfigs, Callbacks <- UartCallbacks, Lengths <- UartLengths,
  Results <- UartResults, MaxDepth <- UartDepth,
  calls   <- uart_calls, answer <- uart_answer

Spi == INSTANCE SpiBus WITH
  Configs <- SpiConfigs, Callbacks <- SpiCallbacks, Lengths <- SpiLengths,
  Results <- SpiResults, MaxDepth <- SpiDepth,
  calls   <- spi_calls, answer <- spi_answer

I2c == INSTANCE I2cBus WITH
  Callbacks <- I2cCallbacks, Lengths <- I2cLengths,
  Results   <- I2cResults, MaxDepth <- I2cDepth,
  calls     <- i2c_calls, answer <- i2c_answer

Ends == INSTANCE Endpoints

ASSUME LibrariesAssumption ==
  /\ Pwm!PwmAssumption /\ Gpio!GpioAssumption
  /\ Uart!UartAssumption /\ Spi!SpiAssumption /\ I2c!I2cAssumption
  /\ Ends!EndpointsAssumption

-----------------------------------------------------------------------------
LibrariesInit ==
  /\ active \in {"can", "pwm", "gpio", "uart", "spi", "i2c", "endpoints"}
  /\ Init /\ Pwm!Init /\ Gpio!Init /\ Uart!Init /\ Spi!Init /\ I2c!Init /\ Ends!Init

CanStep ==
  /\ active = "can" /\ Next
  /\ UNCHANGED <<active, pwmVars, gpioVars, uartVars, spiVars, i2cVars, endpointsVars>>

PwmStep ==
  /\ active = "pwm" /\ Pwm!Next
  /\ UNCHANGED <<active, vars, gpioVars, uartVars, spiVars, i2cVars, endpointsVars>>

GpioStep ==
  /\ active = "gpio" /\ Gpio!Next
  /\ UNCHANGED <<active, vars, pwmVars, uartVars, spiVars, i2cVars, endpointsVars>>

UartStep ==
  /\ active = "uart" /\ Uart!Next
  /\ UNCHANGED <<active, vars, pwmVars, gpioVars, spiVars, i2cVars, endpointsVars>>

SpiStep ==
  /\ active = "spi" /\ Spi!Next
  /\ UNCHANGED <<active, vars, pwmVars, gpioVars, uartVars, i2cVars, endpointsVars>>

I2cStep ==
  /\ active = "i2c" /\ I2c!Next
  /\ UNCHANGED <<active, vars, pwmVars, gpioVars, uartVars, spiVars, endpointsVars>>

EndpointsStep ==
  /\ active = "endpoints" /\ Ends!Next
  /\ UNCHANGED <<active, vars, pwmVars, gpioVars, uartVars, spiVars, i2cVars>>

LibrariesNext ==
  CanStep \/ PwmStep \/ GpioStep \/ UartStep \/ SpiStep \/ I2cStep \/ EndpointsStep

LibrariesSpec == LibrariesInit /\ [][LibrariesNext]_librariesVars

-----------------------------------------------------------------------------
(***************************************************************************)
(* Every field of every library's tables keeps the width and the range of  *)
(* its C type, products that wrap and levels nobody validated included.    *)
(***************************************************************************)
LibrariesTypeOK ==
  /\ Pwm!TypeOK /\ Gpio!TypeOK /\ Uart!TypeOK /\ Spi!TypeOK /\ I2c!TypeOK /\ Ends!TypeOK

(***************************************************************************)
(* PWM: the timing fields follow the configuration through any sequence of *)
(* calls, and the pulse is exact as long as 100 periods fit in 32 bits.    *)
(***************************************************************************)
ExactWhenItFits == Pwm!ExactWhenItFits

(***************************************************************************)
(* PWM: however the product wraps, the pulse never outlasts the period.    *)
(***************************************************************************)
PulseWithinPeriod == Pwm!PulseWithinPeriod

(***************************************************************************)
(* PWM: a channel that is closed is not running, so whoever opens it next  *)
(* gets it stopped.                                                        *)
(***************************************************************************)
RunningIsOpen == Pwm!RunningIsOpen

(***************************************************************************)
(* GPIO: an input keeps the level of its pull resistor while it is open,   *)
(* whatever an earlier life of the pin left behind.                        *)
(***************************************************************************)
InputsKeepPull == Gpio!InputsKeepPull

(***************************************************************************)
(* GPIO: an open pin keeps its mode.                                       *)
(***************************************************************************)
ModeFixedWhileOpen == Gpio!ModeFixedWhileOpen

(***************************************************************************)
(* UART: nothing is ever received by polling, whatever was sent.           *)
(***************************************************************************)
NothingToPoll == Uart!NothingToPoll

(***************************************************************************)
(* UART, SPI and I2C: a call reaches the device of the init in force, and  *)
(* none of an earlier life of the port, whatever callbacks do to the ports *)
(* while they run, and returns what that device returned; no call is made  *)
(* through a callback that is NULL.  It is what ImplementsDevicePort says  *)
(* in each, of the library in use: the variables of the others stay.       *)
(***************************************************************************)
ImplementsDevicePort ==
  /\ Uart!Device!Init /\ Spi!Device!Init /\ I2c!Device!Init
  /\ [][ /\ active = "uart" => [Uart!Device!Next]_(Uart!Device!vars)
         /\ active = "spi"  => [Spi!Device!Next]_(Spi!Device!vars)
         /\ active = "i2c"  => [I2c!Device!Next]_(I2c!Device!vars) ]_librariesVars

(***************************************************************************)
(* Server and client: a pointer that is not NULL points to an object that  *)
(* exists and is not closed, however failed inits and shutdowns follow     *)
(* each other.                                                             *)
(***************************************************************************)
PointersLive == Ends!PointersLive

(***************************************************************************)
(* Server and client: a shutdown waits for a message that has not left,    *)
(* never for a socket that nobody will close.                              *)
(***************************************************************************)
ShutdownWaitsForMessageOnly == Ends!ShutdownWaitsForMessageOnly

(***************************************************************************)
(* Server and client: a program that shuts down before it calls init again *)
(* leaves nothing behind when it has shut down.                            *)
(***************************************************************************)
CarefulReleases == Ends!CarefulReleases
=============================================================================
