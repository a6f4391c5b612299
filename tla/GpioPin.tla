------------------------------ MODULE GpioPin ------------------------------
(***************************************************************************)
(* The simulated GPIO pins, simulith_gpio.c.  One caller's calls, in any   *)
(* order, with valid and invalid arguments.  A pin id stands for a port    *)
(* and a pin number: both are only compared with their limits.             *)
(***************************************************************************)
EXTENDS Integers

CONSTANTS
  Pins,       \* the pins of all ports (8 x 32)
  NoSuchPin,  \* a port or a pin number beyond its limit
  Values,     \* bytes the caller passes as initial state and to write
  NullPtr

\* Assumed of the constants.
GpioAssumption ==
  /\ NoSuchPin \notin Pins
  /\ Values \subseteq Nat /\ 0 \in Values

PinIds == Pins \cup {NoSuchPin}

INPUT           == 0
INPUT_PULLUP    == 1
INPUT_PULLDOWN  == 2
OUTPUT          == 3
OUTPUT_OD       == 4
Modes           == INPUT .. OUTPUT_OD
IsOutput(mode)  == mode \in {OUTPUT, OUTPUT_OD}

\* One mode more than there are: a C enum holds any integer.
PinConfigs == [mode : INPUT .. (OUTPUT_OD + 1), initial_state : Values] \cup {NullPtr}

VARIABLES
  pins,    \* the pins of gpio_ports
  answer   \* the last call: its name, its pin, its result and the level read

vars == <<pins, answer>>

gpio_pin_t == [initialized : BOOLEAN, mode : Modes, state : {0, 1}]
NoLevel    == -1
Calls      == {"none", "init", "write", "read", "toggle", "close"}

(***************************************************************************)
(* In particular the level is 0 or 1 whatever bytes a caller passes: the   *)
(* initial state of an input is not validated.                             *)
(***************************************************************************)
TypeOK ==
  /\ pins \in [Pins -> gpio_pin_t]
  /\ answer \in [call : Calls, pin : PinIds, value : {0, -1}, level : {NoLevel, 0, 1}]

Init ==
  /\ pins = [p \in Pins |-> [initialized |-> FALSE, mode |-> INPUT, state |-> 0]]
  /\ answer = [call |-> "none", pin |-> NoSuchPin, value |-> 0, level |-> NoLevel]

-----------------------------------------------------------------------------
\* The initial state counts for outputs only.
is_valid_pin_config(config) ==
  /\ config # NullPtr
  /\ config.mode \in Modes
  /\ IsOutput(config.mode) => config.initial_state <= 1

check_pin_initialized(p) == p \in Pins /\ pins[p].initialized

Return(call, p, value, level) ==
  answer' = [call |-> call, pin |-> p, value |-> value, level |-> level]

\* The early returns: -1, and no change.
Reject(call, p) == Return(call, p, -1, NoLevel) /\ UNCHANGED pins

SetPin(call, p, pin) ==
  /\ pins' = [pins EXCEPT ![p] = pin]
  /\ Return(call, p, 0, NoLevel)

\* Mutant of InitialState: the initial state of the configuration, for inputs too.
InitialStateOfAll(config) == config.initial_state

\* An input starts at the level of its pull resistor.
InitialState(config) ==
  IF IsOutput(config.mode)
    THEN config.initial_state
    ELSE IF config.mode = INPUT_PULLUP THEN 1 ELSE 0

\* Mutant of simulith_gpio_init: an initialized pin may be initialized again.
InitAgain(p, config) ==
  IF p \in Pins /\ is_valid_pin_config(config)
    THEN SetPin("init", p, [initialized |-> TRUE, mode |-> config.mode,
                            state |-> InitialState(config)])
    ELSE Reject("init", p)

simulith_gpio_init(p, config) ==
  IF p \in Pins /\ is_valid_pin_config(config) /\ ~ check_pin_initialized(p)
    THEN SetPin("init", p, [initialized |-> TRUE, mode |-> config.mode,
                            state |-> InitialState(config)])
    ELSE Reject("init", p)

simulith_gpio_write(p, value) ==
  IF check_pin_initialized(p) /\ IsOutput(pins[p].mode) /\ value <= 1
    THEN SetPin("write", p, [pins[p] EXCEPT !.state = value])
    ELSE Reject("write", p)

\* buffer is FALSE when the caller passes NULL for the value to fill.
simulith_gpio_read(p, buffer) ==
  IF check_pin_initialized(p) /\ buffer
    THEN Return("read", p, 0, pins[p].state) /\ UNCHANGED pins
    ELSE Reject("read", p)

\* Mutant of simulith_gpio_toggle: the mode is not checked.
ToggleAnyMode(p) ==
  IF check_pin_initialized(p)
    THEN SetPin("toggle", p, [pins[p] EXCEPT !.state = 1 - @])
    ELSE Reject("toggle", p)

simulith_gpio_toggle(p) ==
  IF check_pin_initialized(p) /\ IsOutput(pins[p].mode)
    THEN SetPin("toggle", p, [pins[p] EXCEPT !.state = 1 - @])
    ELSE Reject("toggle", p)

simulith_gpio_close(p) ==
  IF check_pin_initialized(p)
    THEN SetPin("close", p, [pins[p] EXCEPT !.initialized = FALSE])
    ELSE Reject("close", p)

Next ==
  \E p \in PinIds :
    \/ \E config \in PinConfigs : simulith_gpio_init(p, config)
    \/ \E value \in Values : simulith_gpio_write(p, value)
    \/ \E buffer \in BOOLEAN : simulith_gpio_read(p, buffer)
    \/ simulith_gpio_toggle(p)
    \/ simulith_gpio_close(p)

Spec == Init /\ [][Next]_vars

-----------------------------------------------------------------------------
(***************************************************************************)
(* An input pin keeps the level of its pull resistor for as long as it is  *)
(* open: neither a write, nor a toggle, nor what an earlier life of the    *)
(* pin left in its state reaches it.                                       *)
(***************************************************************************)
InputsKeepPull ==
  \A p \in Pins :
    pins[p].initialized /\ ~ IsOutput(pins[p].mode)
      => pins[p].state = (IF pins[p].mode = INPUT_PULLUP THEN 1 ELSE 0)

(***************************************************************************)
(* An open pin keeps its mode: nobody turns an output into an input, or    *)
(* back, without closing it first.                                         *)
(***************************************************************************)
ModeFixedWhileOpen ==
  [][ \A p \in Pins :
        pins[p].initialized /\ pins'[p].initialized => pins'[p].mode = pins[p].mode ]_vars
=============================================================================
