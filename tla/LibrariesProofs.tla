-------------------------- MODULE LibrariesProofs ---------------------------
(***************************************************************************)
(* PWM, for any number of channels, any limits of the frequency and any    *)
(* word that holds a second of nanoseconds; GPIO, for any set of pins and  *)
(* any bytes the caller passes; and the programs of Libraries, where each  *)
(* library, among the others, keeps what its own module promises: the      *)
(* invariants of CanBusProofs, DevicePortProofs, EndpointsProofs and of    *)
(* PWM and GPIO are carried over to LibrariesSpec.                         *)
(***************************************************************************)
EXTENDS CanBusProofs, DevicePortProofs

-----------------------------------------------------------------------------
(* Arithmetic of update_timing. *)

LEMMA QuotientBound ==
  ASSUME NEW n \in Nat, NEW f \in Nat \ {0}
  PROVE  n \div f \in 0 .. n
<1> DEFINE q == n \div f
<1>1. q \in Int /\ f * q <= n /\ n < f * q + f
  BY Z3
<1>2. q >= 0
  BY <1>1, Z3
<1>3. q <= f * q
  BY <1>2, <1>1, Z3
<1> QED
  BY <1>1, <1>2, <1>3

LEMMA ProductBound ==
  ASSUME NEW p \in Nat, NEW d \in Nat, d <= 100
  PROVE  p * d \in 0 .. (p * 100)
<1>1. p * d \in Nat
  OBVIOUS
<1>2. p * d <= p * 100
  BY Z3
<1> QED
  BY <1>1, <1>2

\* A product that fits is kept, one that does not shrinks.
LEMMA RemainderBound ==
  ASSUME NEW x \in Nat, NEW w \in Nat \ {0}
  PROVE  /\ x % w \in 0 .. (w - 1)
         /\ x % w <= x
         /\ x < w => x % w = x
BY Z3

LEMMA HundredthBound ==
  ASSUME NEW x \in Nat, NEW p \in Nat, x <= p * 100
  PROVE  x \div 100 \in 0 .. p
BY Z3

-----------------------------------------------------------------------------
(* The invariant.  Of an open channel it says that its configuration was    *)
(* checked and that update_timing ran last: without the ranges of the       *)
(* configuration nothing bounds the pulse.                                  *)

Timed(pwm) ==
  /\ Pwm!is_valid_frequency(pwm.config.frequency_hz)
  /\ Pwm!is_valid_duty_cycle(pwm.config.duty_cycle)
  /\ pwm.period_ns = NanosPerSecond \div pwm.config.frequency_hz
  /\ pwm.duty_ns = ((pwm.period_ns * pwm.config.duty_cycle) % Word) \div 100

Sound(pwm) ==
  /\ pwm.initialized => Timed(pwm)
  /\ pwm.running => pwm.initialized

PwmInv == Pwm!TypeOK /\ \A c \in Pwm!Channels : Sound(pwm_channels[c])

LEMMA PwmUpdateTiming ==
  ASSUME Pwm!PwmAssumption, NEW pwm \in Pwm!pwm_channel_t,
         Pwm!is_valid_frequency(pwm.config.frequency_hz),
         Pwm!is_valid_duty_cycle(pwm.config.duty_cycle)
  PROVE  /\ Pwm!update_timing(pwm) \in Pwm!pwm_channel_t
         /\ Timed(Pwm!update_timing(pwm))
         /\ Pwm!update_timing(pwm).initialized = pwm.initialized
         /\ Pwm!update_timing(pwm).running = pwm.running
<1> DEFINE f == pwm.config.frequency_hz
           d == pwm.config.duty_cycle
           q == NanosPerSecond \div f
           p == q % Word
           t == ((p * d) % Word) \div 100
<1>1. f \in Nat \ {0} /\ d \in Nat /\ d <= 100
  BY DEF Pwm!pwm_channel_t, Pwm!Config, Pwm!is_valid_frequency,
         Pwm!is_valid_duty_cycle, Pwm!PwmAssumption
<1>2. q \in 0 .. NanosPerSecond
  BY <1>1, QuotientBound DEF Pwm!PwmAssumption
<1> HIDE DEF q
<1>3. p = q /\ p \in 0 .. (Word - 1) /\ p \in Nat
  <2>1. q \in Nat /\ q < Word /\ Word \in Nat \ {0}
    BY <1>2 DEF Pwm!PwmAssumption
  <2> QED
    BY <2>1, RemainderBound, Zenon
<1>4. p * d \in 0 .. (p * 100)
  BY <1>1, <1>3, ProductBound
<1>5. (p * d) % Word \in Nat /\ (p * d) % Word <= p * d
  <2> DEFINE x == p * d
  <2>1. x \in Nat
    BY <1>3, <1>4
  <2> HIDE DEF x
  <2>2. x % Word \in Nat /\ x % Word <= x
    BY <2>1, RemainderBound DEF Pwm!PwmAssumption
  <2> QED
    BY <2>2 DEF x
<1>6. t \in 0 .. p
  BY <1>3, <1>4, <1>5, HundredthBound
<1>7. p \in 0 .. (Word - 1) /\ t \in 0 .. (Word - 1)
  BY <1>3, <1>6 DEF Pwm!PwmAssumption
<1>8. Pwm!update_timing(pwm) = [pwm EXCEPT !.period_ns = p, !.duty_ns = t]
  BY DEF Pwm!update_timing, q
<1> HIDE DEF p, t
<1>9. /\ Pwm!update_timing(pwm) \in Pwm!pwm_channel_t
      /\ Pwm!update_timing(pwm).config = pwm.config
      /\ Pwm!update_timing(pwm).period_ns = p
      /\ Pwm!update_timing(pwm).duty_ns = t
      /\ Pwm!update_timing(pwm).initialized = pwm.initialized
      /\ Pwm!update_timing(pwm).running = pwm.running
  BY <1>7, <1>8 DEF Pwm!pwm_channel_t
<1>10. Timed(Pwm!update_timing(pwm))
  BY <1>3, <1>9 DEF Timed, t, q
<1> QED
  BY <1>9, <1>10

\* What a timed channel shows.
LEMMA PwmTimedPulse ==
  ASSUME Pwm!PwmAssumption, NEW pwm \in Pwm!pwm_channel_t, Timed(pwm)
  PROVE  /\ pwm.duty_ns <= pwm.period_ns
         /\ pwm.period_ns * 100 < Word => pwm.duty_ns = Pwm!Pulse(pwm)
<1> DEFINE p == pwm.period_ns
           d == pwm.config.duty_cycle
           x == p * d
<1>1. p \in Nat /\ d \in Nat /\ d <= 100 /\ Word \in Nat \ {0}
  BY DEF Pwm!pwm_channel_t, Pwm!Config, Timed, Pwm!is_valid_duty_cycle,
         Pwm!PwmAssumption
<1>2. x \in 0 .. (p * 100)
  BY <1>1, ProductBound
<1>3. pwm.duty_ns = (x % Word) \div 100
  BY DEF Timed
<1> HIDE DEF x, p
<1>4. x % Word \in Nat /\ x % Word <= x /\ (x < Word => x % Word = x)
  <2>1. x \in Nat /\ Word \in Nat \ {0}
    BY <1>1, <1>2
  <2>2. x % Word \in 0 .. (Word - 1) /\ x % Word <= x /\ (x < Word => x % Word = x)
    BY <2>1, RemainderBound, Zenon
  <2> QED
    BY <2>1, <2>2
<1>5. pwm.duty_ns \in 0 .. p
  BY <1>1, <1>2, <1>3, <1>4, HundredthBound
<1>6. ASSUME p * 100 < Word
      PROVE  pwm.duty_ns = x \div 100
  <2>1. x < Word
    BY <1>1, <1>2, <1>6
  <2> QED
    BY <1>3, <1>4, <2>1
<1> QED
  BY <1>1, <1>5, <1>6 DEF Pwm!Pulse, x, p

\* A call that changes a channel into a sound one.
LEMMA PwmUpdateSound ==
  ASSUME Pwm!PwmAssumption, PwmInv, NEW call \in Pwm!Calls,
         NEW channel \in Pwm!Channels,
         NEW pwm \in Pwm!pwm_channel_t, Sound(pwm), Pwm!Update(call, channel, pwm)
  PROVE  PwmInv'
<1>1. Pwm!Channels \subseteq Pwm!ChannelIds
  BY DEF Pwm!Channels, Pwm!ChannelIds, Pwm!PwmAssumption
<1>2. pwm_channels' \in [Pwm!Channels -> Pwm!pwm_channel_t]
  BY DEF Pwm!Update, PwmInv, Pwm!TypeOK
<1>3. pwm_answer' \in [call : Pwm!Calls, channel : Pwm!ChannelIds, value : {0, -1}]
  BY <1>1 DEF Pwm!Update, Pwm!Return
<1>4. \A c \in Pwm!Channels :
        pwm_channels'[c] = IF c = channel THEN pwm ELSE pwm_channels[c]
  BY DEF Pwm!Update, PwmInv, Pwm!TypeOK
<1> QED
  BY <1>2, <1>3, <1>4 DEF PwmInv, Pwm!TypeOK

LEMMA PwmRejectSound ==
  ASSUME PwmInv, NEW call \in Pwm!Calls, NEW channel \in Pwm!ChannelIds,
         Pwm!Reject(call, channel)
  PROVE  PwmInv'
BY DEF Pwm!Reject, Pwm!Return, PwmInv, Pwm!TypeOK

LEMMA PwmInitSound == Pwm!PwmAssumption /\ Pwm!Init => PwmInv
BY DEF Pwm!Init, PwmInv, Pwm!TypeOK, Sound, Pwm!PwmAssumption, Pwm!pwm_channel_t,
       Pwm!Config, Pwm!Calls, Pwm!ChannelIds

LEMMA PwmNextSound ==
  ASSUME Pwm!PwmAssumption, PwmInv, [Pwm!Next]_(Pwm!vars)
  PROVE  PwmInv'
<1> USE DEF Pwm!Calls
<1>1. ASSUME NEW channel \in Pwm!Channels
      PROVE  /\ pwm_channels[channel] \in Pwm!pwm_channel_t
             /\ Sound(pwm_channels[channel])
  BY DEF PwmInv, Pwm!TypeOK
<1>2. ASSUME NEW channel, Pwm!IsOpen(channel)
      PROVE  /\ channel \in Pwm!Channels
             /\ pwm_channels[channel].initialized
             /\ Timed(pwm_channels[channel])
  BY <1>1, <1>2 DEF Pwm!IsOpen, Pwm!is_valid_channel, Sound
<1>3. ASSUME NEW channel \in Pwm!ChannelIds, NEW config \in Pwm!ChannelConfigs,
             Pwm!simulith_pwm_init(channel, config)
      PROVE  PwmInv'
  <2>1. CASE Pwm!Reject("init", channel)
    BY <1>3, <2>1, PwmRejectSound
  <2>2. CASE /\ channel \in Pwm!Channels /\ config # NullPtr
             /\ Pwm!is_valid_frequency(config.frequency_hz)
             /\ Pwm!is_valid_duty_cycle(config.duty_cycle)
             /\ Pwm!Update("init", channel,
                       Pwm!update_timing([pwm_channels[channel] EXCEPT
                                        !.config = config, !.initialized = TRUE,
                                        !.running = FALSE]))
    <3> DEFINE pwm == [pwm_channels[channel] EXCEPT
                         !.config = config, !.initialized = TRUE, !.running = FALSE]
    <3>1. config \in Pwm!Config
      BY <2>2 DEF Pwm!ChannelConfigs, Pwm!Config, Pwm!PwmAssumption
    <3>2. pwm \in Pwm!pwm_channel_t /\ pwm.config = config /\ ~ pwm.running
      BY <1>1, <2>2, <3>1 DEF Pwm!pwm_channel_t
    <3> HIDE DEF pwm
    <3>3. /\ Pwm!update_timing(pwm) \in Pwm!pwm_channel_t
          /\ Timed(Pwm!update_timing(pwm))
          /\ ~ Pwm!update_timing(pwm).running
      BY <2>2, <3>2, PwmUpdateTiming
    <3>4. Pwm!Update("init", channel, Pwm!update_timing(pwm))
      BY <2>2 DEF pwm
    <3> QED
      BY <2>2, <3>3, <3>4, PwmUpdateSound DEF Sound
  <2> QED
    BY <1>3, <2>1, <2>2 DEF Pwm!simulith_pwm_init, Pwm!is_valid_channel
<1>4. ASSUME NEW channel \in Pwm!ChannelIds, Pwm!simulith_pwm_start(channel)
      PROVE  PwmInv'
  <2> DEFINE pwm == [pwm_channels[channel] EXCEPT !.running = TRUE]
  <2>1. CASE Pwm!IsOpen(channel)
    <3>1. pwm \in Pwm!pwm_channel_t /\ Sound(pwm)
      BY <1>1, <1>2, <2>1 DEF Pwm!pwm_channel_t, Sound, Timed
    <3>2. Pwm!Update("start", channel, pwm)
      BY <1>4, <2>1 DEF Pwm!simulith_pwm_start
    <3> QED
      BY <1>2, <2>1, <3>1, <3>2, PwmUpdateSound
  <2> QED
    BY <1>4, <2>1, PwmRejectSound DEF Pwm!simulith_pwm_start
<1>5. ASSUME NEW channel \in Pwm!ChannelIds, Pwm!simulith_pwm_stop(channel)
      PROVE  PwmInv'
  <2> DEFINE pwm == [pwm_channels[channel] EXCEPT !.running = FALSE]
  <2>1. CASE Pwm!IsOpen(channel)
    <3>1. pwm \in Pwm!pwm_channel_t /\ Sound(pwm)
      BY <1>1, <1>2, <2>1 DEF Pwm!pwm_channel_t, Sound, Timed
    <3>2. Pwm!Update("stop", channel, pwm)
      BY <1>5, <2>1 DEF Pwm!simulith_pwm_stop
    <3> QED
      BY <1>2, <2>1, <3>1, <3>2, PwmUpdateSound
  <2> QED
    BY <1>5, <2>1, PwmRejectSound DEF Pwm!simulith_pwm_stop
<1>6. ASSUME NEW channel \in Pwm!ChannelIds, NEW duty_cycle \in DutyCycles,
             Pwm!simulith_pwm_set_duty(channel, duty_cycle)
      PROVE  PwmInv'
  <2> DEFINE pwm == [pwm_channels[channel] EXCEPT !.config.duty_cycle = duty_cycle]
  <2>1. CASE Pwm!is_valid_duty_cycle(duty_cycle) /\ Pwm!IsOpen(channel)
    <3>1. /\ pwm \in Pwm!pwm_channel_t /\ pwm.initialized
          /\ Pwm!is_valid_frequency(pwm.config.frequency_hz)
          /\ Pwm!is_valid_duty_cycle(pwm.config.duty_cycle)
      BY <1>1, <1>2, <2>1 DEF Pwm!pwm_channel_t, Pwm!Config, Timed,
             Pwm!PwmAssumption
    <3>2. Pwm!Update("set_duty", channel, Pwm!update_timing(pwm))
      BY <1>6, <2>1 DEF Pwm!simulith_pwm_set_duty
    <3> HIDE DEF pwm
    <3>3. /\ Pwm!update_timing(pwm) \in Pwm!pwm_channel_t
          /\ Sound(Pwm!update_timing(pwm))
      BY <3>1, PwmUpdateTiming DEF Sound
    <3> QED
      BY <1>2, <2>1, <3>2, <3>3, PwmUpdateSound
  <2> QED
    BY <1>6, <2>1, PwmRejectSound DEF Pwm!simulith_pwm_set_duty
<1>7. ASSUME NEW channel \in Pwm!ChannelIds, NEW freq_hz \in Frequencies,
             Pwm!simulith_pwm_set_frequency(channel, freq_hz)
      PROVE  PwmInv'
  <2> DEFINE pwm == [pwm_channels[channel] EXCEPT !.config.frequency_hz = freq_hz]
  <2>1. CASE Pwm!is_valid_frequency(freq_hz) /\ Pwm!IsOpen(channel)
    <3>1. /\ pwm \in Pwm!pwm_channel_t /\ pwm.initialized
          /\ Pwm!is_valid_frequency(pwm.config.frequency_hz)
          /\ Pwm!is_valid_duty_cycle(pwm.config.duty_cycle)
      BY <1>1, <1>2, <2>1 DEF Pwm!pwm_channel_t, Pwm!Config, Timed,
             Pwm!PwmAssumption
    <3>2. Pwm!Update("set_frequency", channel, Pwm!update_timing(pwm))
      BY <1>7, <2>1 DEF Pwm!simulith_pwm_set_frequency
    <3> HIDE DEF pwm
    <3>3. /\ Pwm!update_timing(pwm) \in Pwm!pwm_channel_t
          /\ Sound(Pwm!update_timing(pwm))
      BY <3>1, PwmUpdateTiming DEF Sound
    <3> QED
      BY <1>2, <2>1, <3>2, <3>3, PwmUpdateSound
  <2> QED
    BY <1>7, <2>1, PwmRejectSound DEF Pwm!simulith_pwm_set_frequency
<1>8. ASSUME NEW channel \in Pwm!ChannelIds, Pwm!simulith_pwm_close(channel)
      PROVE  PwmInv'
  <2> DEFINE pwm == [pwm_channels[channel] EXCEPT !.running = FALSE,
                                                  !.initialized = FALSE]
  <2>1. CASE Pwm!IsOpen(channel)
    <3>1. pwm \in Pwm!pwm_channel_t /\ Sound(pwm)
      BY <1>1, <1>2, <2>1 DEF Pwm!pwm_channel_t, Sound
    <3>2. Pwm!Update("close", channel, pwm)
      BY <1>8, <2>1 DEF Pwm!simulith_pwm_close
    <3> QED
      BY <1>2, <2>1, <3>1, <3>2, PwmUpdateSound
  <2> QED
    BY <1>8, <2>1, PwmRejectSound DEF Pwm!simulith_pwm_close
<1>9. CASE UNCHANGED Pwm!vars
  BY <1>9 DEF Pwm!vars, PwmInv, Pwm!TypeOK
<1> QED
  BY <1>3, <1>4, <1>5, <1>6, <1>7, <1>8, <1>9 DEF Pwm!Next

LEMMA PwmInvHolds ==
  ASSUME Pwm!PwmAssumption
  PROVE  Pwm!Spec => []PwmInv
<1>1. Pwm!Init => PwmInv
  BY PwmInitSound
<1>2. PwmInv /\ [Pwm!Next]_(Pwm!vars) => PwmInv'
  BY PwmNextSound
<1> QED
  BY <1>1, <1>2, PTL DEF Pwm!Spec

-----------------------------------------------------------------------------
\* No field of a channel outgrows its C type, whatever is asked for: a period
\* of a second, the longest there is, fits in 32 bits.
THEOREM PwmTypeCorrect ==
  ASSUME Pwm!PwmAssumption
  PROVE  Pwm!Spec => []Pwm!TypeOK
<1>1. PwmInv => Pwm!TypeOK
  BY DEF PwmInv
<1> QED
  BY <1>1, PwmInvHolds, PTL

\* However the 32 bit product of update_timing wraps, the pulse ends within
\* the period.
THEOREM PulseEndsInPeriod ==
  ASSUME Pwm!PwmAssumption
  PROVE  Pwm!Spec => []Pwm!PulseWithinPeriod
<1>1. PwmInv => Pwm!PulseWithinPeriod
  BY PwmTimedPulse DEF PwmInv, Pwm!TypeOK, Sound, Pwm!PulseWithinPeriod
<1> QED
  BY <1>1, PwmInvHolds, PTL

\* The timing follows the configuration through any sequence of calls, and the
\* pulse is the exact share of a period of which 100 fit in 32 bits.
THEOREM TimingExact ==
  ASSUME Pwm!PwmAssumption
  PROVE  Pwm!Spec => []Pwm!ExactWhenItFits
<1>1. PwmInv => Pwm!ExactWhenItFits
  BY PwmTimedPulse DEF PwmInv, Pwm!TypeOK, Sound, Timed, Pwm!ExactWhenItFits
<1> QED
  BY <1>1, PwmInvHolds, PTL

\* A channel never runs closed, so it is stopped when it is opened again.
THEOREM ClosedIsStopped ==
  ASSUME Pwm!PwmAssumption
  PROVE  Pwm!Spec => []Pwm!RunningIsOpen
<1>1. PwmInv => Pwm!RunningIsOpen
  BY DEF PwmInv, Sound, Pwm!RunningIsOpen
<1> QED
  BY <1>1, PwmInvHolds, PTL

-----------------------------------------------------------------------------
(* The invariant is inductive as it stands: a level changes only through    *)
(* init, write and toggle, and the last two ask for an output.              *)

KeepsPull(pin) ==
  pin.initialized /\ ~ Gpio!IsOutput(pin.mode)
    => pin.state = (IF pin.mode = Gpio!INPUT_PULLUP THEN 1 ELSE 0)

GpioInv == Gpio!TypeOK /\ Gpio!InputsKeepPull

LEMMA GpioModeFacts ==
  /\ Gpio!Modes = 0 .. 4 /\ Gpio!INPUT_PULLUP = 1
  /\ Gpio!OUTPUT = 3 /\ Gpio!OUTPUT_OD = 4
BY DEF Gpio!Modes, Gpio!INPUT, Gpio!INPUT_PULLUP, Gpio!OUTPUT, Gpio!OUTPUT_OD

LEMMA GpioPinFacts ==
  ASSUME GpioInv, NEW p \in Pins
  PROVE  gpio_pins[p] \in Gpio!gpio_pin_t /\ KeepsPull(gpio_pins[p])
BY DEF GpioInv, Gpio!TypeOK, Gpio!InputsKeepPull, KeepsPull

\* The level an accepted configuration gives is a level, and that of the pull.
LEMMA GpioInitialStateSound ==
  ASSUME Gpio!GpioAssumption, NEW config \in Gpio!PinConfigs,
         Gpio!is_valid_pin_config(config)
  PROVE  LET pin == [initialized |-> TRUE, mode |-> config.mode,
                     state |-> Gpio!InitialState(config)]
         IN  pin \in Gpio!gpio_pin_t /\ KeepsPull(pin)
<1>1. config # NullPtr /\ config.mode \in Gpio!Modes
  BY DEF Gpio!is_valid_pin_config
<1>2. config.initial_state \in Nat
  BY <1>1 DEF Gpio!PinConfigs, Gpio!GpioAssumption
<1>3. Gpio!InitialState(config) \in {0, 1}
  BY <1>2 DEF Gpio!InitialState, Gpio!is_valid_pin_config
<1> QED
  BY <1>1, <1>3 DEF Gpio!gpio_pin_t, KeepsPull, Gpio!InitialState

LEMMA GpioSetPinSound ==
  ASSUME GpioInv, NEW call \in Gpio!Calls, NEW p \in Pins,
         NEW pin \in Gpio!gpio_pin_t,
         KeepsPull(pin), Gpio!SetPin(call, p, pin)
  PROVE  GpioInv'
<1>1. \A q \in Pins : gpio_pins'[q] = IF q = p THEN pin ELSE gpio_pins[q]
  BY DEF Gpio!SetPin, GpioInv, Gpio!TypeOK
<1>2. gpio_pins' \in [Pins -> Gpio!gpio_pin_t]
  BY DEF Gpio!SetPin, GpioInv, Gpio!TypeOK
<1>3. gpio_answer' \in [call : Gpio!Calls, pin : Gpio!PinIds, value : {0, -1},
                       level : {Gpio!NoLevel, 0, 1}]
  BY DEF Gpio!SetPin, Gpio!Return, Gpio!PinIds
<1>4. Gpio!InputsKeepPull'
  BY <1>1, GpioPinFacts DEF KeepsPull, Gpio!InputsKeepPull
<1> QED
  BY <1>2, <1>3, <1>4 DEF GpioInv, Gpio!TypeOK

LEMMA GpioRejectSound ==
  ASSUME GpioInv, NEW call \in Gpio!Calls, NEW p \in Gpio!PinIds, Gpio!Reject(call,
         p)
  PROVE  GpioInv'
BY DEF Gpio!Reject, Gpio!Return, GpioInv, Gpio!TypeOK, Gpio!InputsKeepPull

LEMMA GpioInitSound == Gpio!GpioAssumption /\ Gpio!Init => GpioInv
BY GpioModeFacts DEF Gpio!Init, GpioInv, Gpio!TypeOK, Gpio!InputsKeepPull,
       Gpio!gpio_pin_t, Gpio!PinIds, Gpio!Calls, Gpio!NoLevel, Gpio!INPUT

LEMMA GpioNextSound ==
  ASSUME Gpio!GpioAssumption, GpioInv, [Gpio!Next]_(Gpio!vars)
  PROVE  GpioInv'
<1> USE DEF Gpio!Calls
<1>1. ASSUME NEW p \in Gpio!PinIds, NEW config \in Gpio!PinConfigs,
             Gpio!simulith_gpio_init(p, config)
      PROVE  GpioInv'
  <2>1. CASE /\ p \in Pins /\ Gpio!is_valid_pin_config(config)
             /\ ~ Gpio!check_pin_initialized(p)
    BY <1>1, <2>1, GpioInitialStateSound,
           GpioSetPinSound DEF Gpio!simulith_gpio_init
  <2> QED
    BY <1>1, <2>1, GpioRejectSound DEF Gpio!simulith_gpio_init
<1>2. ASSUME NEW p \in Gpio!PinIds, NEW value \in Values,
             Gpio!simulith_gpio_write(p, value)
      PROVE  GpioInv'
  <2> DEFINE pin == [gpio_pins[p] EXCEPT !.state = value]
  <2>1. CASE /\ Gpio!check_pin_initialized(p) /\ Gpio!IsOutput(gpio_pins[p].mode)
             /\ value <= 1
    <3>1. p \in Pins /\ Gpio!SetPin("write", p, pin)
      BY <1>2, <2>1 DEF Gpio!simulith_gpio_write, Gpio!check_pin_initialized
    <3>2. value \in {0, 1}
      BY <2>1 DEF Gpio!GpioAssumption
    <3>3. pin \in Gpio!gpio_pin_t /\ KeepsPull(pin)
      BY <2>1, <3>1, <3>2, GpioPinFacts DEF Gpio!gpio_pin_t, KeepsPull
    <3> QED
      BY <3>1, <3>3, GpioSetPinSound
  <2> QED
    BY <1>2, <2>1, GpioRejectSound DEF Gpio!simulith_gpio_write
<1>3. ASSUME NEW p \in Gpio!PinIds, NEW buffer \in BOOLEAN,
             Gpio!simulith_gpio_read(p, buffer)
      PROVE  GpioInv'
  <2>1. CASE Gpio!check_pin_initialized(p) /\ buffer
    <3>1. gpio_pins[p].state \in {0, 1}
      BY <2>1, GpioPinFacts DEF Gpio!check_pin_initialized, Gpio!gpio_pin_t
    <3> QED
      BY <1>3, <2>1, <3>1
         DEF Gpio!simulith_gpio_read, Gpio!Return, GpioInv, Gpio!TypeOK,
             Gpio!InputsKeepPull
  <2> QED
    BY <1>3, <2>1, GpioRejectSound DEF Gpio!simulith_gpio_read
<1>4. ASSUME NEW p \in Gpio!PinIds, Gpio!simulith_gpio_toggle(p)
      PROVE  GpioInv'
  <2> DEFINE pin == [gpio_pins[p] EXCEPT !.state = 1 - @]
  <2>1. CASE Gpio!check_pin_initialized(p) /\ Gpio!IsOutput(gpio_pins[p].mode)
    <3>1. p \in Pins /\ Gpio!SetPin("toggle", p, pin)
      BY <1>4, <2>1 DEF Gpio!simulith_gpio_toggle, Gpio!check_pin_initialized
    <3>2. pin \in Gpio!gpio_pin_t /\ KeepsPull(pin)
      BY <2>1, <3>1, GpioPinFacts DEF Gpio!gpio_pin_t, KeepsPull
    <3> QED
      BY <3>1, <3>2, GpioSetPinSound
  <2> QED
    BY <1>4, <2>1, GpioRejectSound DEF Gpio!simulith_gpio_toggle
<1>5. ASSUME NEW p \in Gpio!PinIds, Gpio!simulith_gpio_close(p)
      PROVE  GpioInv'
  <2> DEFINE pin == [gpio_pins[p] EXCEPT !.initialized = FALSE]
  <2>1. CASE Gpio!check_pin_initialized(p)
    <3>1. p \in Pins /\ Gpio!SetPin("close", p, pin)
      BY <1>5, <2>1 DEF Gpio!simulith_gpio_close, Gpio!check_pin_initialized
    <3>2. pin \in Gpio!gpio_pin_t /\ KeepsPull(pin)
      BY <3>1, GpioPinFacts DEF Gpio!gpio_pin_t, KeepsPull
    <3> QED
      BY <3>1, <3>2, GpioSetPinSound
  <2> QED
    BY <1>5, <2>1, GpioRejectSound DEF Gpio!simulith_gpio_close
<1>6. CASE UNCHANGED Gpio!vars
  BY <1>6 DEF Gpio!vars, GpioInv, Gpio!TypeOK, Gpio!InputsKeepPull
<1> QED
  BY <1>1, <1>2, <1>3, <1>4, <1>5, <1>6 DEF Gpio!Next

LEMMA GpioInvHolds ==
  ASSUME Gpio!GpioAssumption
  PROVE  Gpio!Spec => []GpioInv
<1>1. Gpio!Init => GpioInv
  BY GpioInitSound
<1>2. GpioInv /\ [Gpio!Next]_(Gpio!vars) => GpioInv'
  BY GpioNextSound
<1> QED
  BY <1>1, <1>2, PTL DEF Gpio!Spec

\* Opened by init only, and init finds the pin closed.
LEMMA GpioNextKeepsMode ==
  ASSUME GpioInv, [Gpio!Next]_(Gpio!vars), NEW p \in Pins,
         gpio_pins[p].initialized, gpio_pins'[p].initialized
  PROVE  gpio_pins'[p].mode = gpio_pins[p].mode
<1> DEFINE Keeps(q) ==
             \/ gpio_pins' = gpio_pins
             \/ \E pin : /\ gpio_pins' = [gpio_pins EXCEPT ![q] = pin]
                         /\ q = p => pin.mode = gpio_pins[p].mode
<1>1. gpio_pins \in [Pins -> Gpio!gpio_pin_t]
  BY DEF GpioInv, Gpio!TypeOK
<1>2. ASSUME NEW q \in Gpio!PinIds, NEW config \in Gpio!PinConfigs,
             Gpio!simulith_gpio_init(q, config)
      PROVE  Keeps(q)
  BY <1>2 DEF Gpio!simulith_gpio_init, Gpio!SetPin, Gpio!Reject,
         Gpio!check_pin_initialized
<1>3. ASSUME NEW q \in Gpio!PinIds, NEW value \in Values,
             Gpio!simulith_gpio_write(q, value)
      PROVE  Keeps(q)
  BY <1>1, <1>3 DEF Gpio!simulith_gpio_write, Gpio!SetPin, Gpio!Reject,
         Gpio!gpio_pin_t
<1>4. ASSUME NEW q \in Gpio!PinIds, NEW buffer \in BOOLEAN,
             Gpio!simulith_gpio_read(q, buffer)
      PROVE  Keeps(q)
  BY <1>4 DEF Gpio!simulith_gpio_read, Gpio!Reject
<1>5. ASSUME NEW q \in Gpio!PinIds, Gpio!simulith_gpio_toggle(q)
      PROVE  Keeps(q)
  BY <1>1, <1>5 DEF Gpio!simulith_gpio_toggle, Gpio!SetPin, Gpio!Reject,
         Gpio!gpio_pin_t
<1>6. ASSUME NEW q \in Gpio!PinIds, Gpio!simulith_gpio_close(q)
      PROVE  Keeps(q)
  BY <1>1, <1>6 DEF Gpio!simulith_gpio_close, Gpio!SetPin, Gpio!Reject,
         Gpio!gpio_pin_t
<1>7. ASSUME NEW q, Keeps(q)
      PROVE  gpio_pins'[p].mode = gpio_pins[p].mode
  <2>1. CASE gpio_pins' = gpio_pins
    BY <2>1
  <2>2. ASSUME NEW pin, gpio_pins' = [gpio_pins EXCEPT ![q] = pin],
               q = p => pin.mode = gpio_pins[p].mode
        PROVE  gpio_pins'[p].mode = gpio_pins[p].mode
    <3>1. gpio_pins'[p] = IF p = q THEN pin ELSE gpio_pins[p]
      BY <1>1, <2>2
    <3> QED
      BY <2>2, <3>1
  <2> QED
    BY <1>7, <2>1, <2>2
<1>8. CASE UNCHANGED Gpio!vars
  BY <1>8 DEF Gpio!vars
<1> HIDE DEF Keeps
<1> QED
  BY <1>2, <1>3, <1>4, <1>5, <1>6, <1>7, <1>8 DEF Gpio!Next

-----------------------------------------------------------------------------
\* A pin's level is 0 or 1 whatever bytes are passed to init and write.
THEOREM GpioTypeCorrect ==
  ASSUME Gpio!GpioAssumption
  PROVE  Gpio!Spec => []Gpio!TypeOK
<1>1. GpioInv => Gpio!TypeOK
  BY DEF GpioInv
<1> QED
  BY <1>1, GpioInvHolds, PTL

\* No write, toggle or earlier life of the pin moves an input off its pull.
THEOREM PullKept ==
  ASSUME Gpio!GpioAssumption
  PROVE  Gpio!Spec => []Gpio!InputsKeepPull
<1>1. GpioInv => Gpio!InputsKeepPull
  BY DEF GpioInv
<1> QED
  BY <1>1, GpioInvHolds, PTL

\* A pin changes its mode only by being closed and opened again.
THEOREM ModeKept ==
  ASSUME Gpio!GpioAssumption
  PROVE  Gpio!Spec => Gpio!ModeFixedWhileOpen
<1>1. ASSUME GpioInv, [Gpio!Next]_(Gpio!vars)
      PROVE  [ \A p \in Pins :
                 gpio_pins[p].initialized /\ gpio_pins'[p].initialized
                   => gpio_pins'[p].mode = gpio_pins[p].mode ]_(Gpio!vars)
  BY <1>1, GpioNextKeepsMode
<1> QED
  BY <1>1, GpioInvHolds, PTL DEF Gpio!Spec, Gpio!ModeFixedWhileOpen

-----------------------------------------------------------------------------
(* The programs of Libraries.                                              *)

EndsT == INSTANCE EndpointsProofs

-----------------------------------------------------------------------------
(* EndsT has the definitions of Ends under other names, and its theorems.   *)

LEMMA EndsNewIdSame ==
  ASSUME NEW limit, NEW used
  PROVE  Ends!NewId(limit, used) = EndsT!NewId(limit, used)
BY DEF Ends!NewId, EndsT!NewId, Ends!Null, EndsT!Null, Ends!Min, EndsT!Min

LEMMA EndsOpenSame ==
  ASSUME NEW side, NEW kinds, NEW a1, NEW a2
  PROVE  Ends!Open(side, kinds, a1, a2) <=> EndsT!Open(side, kinds, a1, a2)
BY EndsNewIdSame DEF Ends!Open, EndsT!Open, Ends!Null, EndsT!Null,
   Ends!Reaches, EndsT!Reaches, Ends!Holds, EndsT!Holds

LEMMA EndsSame ==
  /\ Ends!EndpointsAssumption <=> EndsT!EndpointsAssumption
  /\ Ends!Init <=> EndsT!Init
  /\ Ends!Next <=> EndsT!Next
  /\ Ends!TypeOK <=> EndsT!TypeOK
  /\ Ends!PointersLive <=> EndsT!PointersLive
  /\ Ends!ShutdownWaitsForMessageOnly <=> EndsT!ShutdownWaitsForMessageOnly
  /\ Ends!CarefulReleases <=> EndsT!CarefulReleases
<1>1. Ends!EndpointsAssumption <=> EndsT!EndpointsAssumption
  BY DEF Ends!EndpointsAssumption, EndsT!EndpointsAssumption
<1>2. Ends!Init <=> EndsT!Init
  BY DEF Ends!Sides, EndsT!Sides, Ends!Null, EndsT!Null, Ends!AllNull,
         EndsT!AllNull, Ends!Init, EndsT!Init
<1>3. Ends!Next <=> EndsT!Next
  BY EndsOpenSame DEF Ends!Sides, EndsT!Sides, Ends!Null, EndsT!Null,
         Ends!AllNull, EndsT!AllNull, Ends!InitCalled, EndsT!InitCalled,
         Ends!simulith_server_init, EndsT!simulith_server_init,
         Ends!simulith_client_init, EndsT!simulith_client_init,
         Ends!simulith_client_handshake, EndsT!simulith_client_handshake,
         Ends!Deliver, EndsT!Deliver, Ends!Shutdown, EndsT!Shutdown,
         Ends!Terminate, EndsT!Terminate, Ends!Next, EndsT!Next
<1>4. Ends!TypeOK <=> EndsT!TypeOK
  BY DEF Ends!Sides, EndsT!Sides, Ends!Kinds, EndsT!Kinds, Ends!TypeOK,
         EndsT!TypeOK
<1>5. Ends!PointersLive <=> EndsT!PointersLive
  BY DEF Ends!Sides, EndsT!Sides, Ends!Null, EndsT!Null, Ends!PointersLive,
         EndsT!PointersLive
<1>6. Ends!ShutdownWaitsForMessageOnly <=> EndsT!ShutdownWaitsForMessageOnly
  BY DEF Ends!Sides, EndsT!Sides, Ends!ShutdownWaitsForMessageOnly,
         EndsT!ShutdownWaitsForMessageOnly
<1>7. Ends!CarefulReleases <=> EndsT!CarefulReleases
  BY DEF Ends!Sides, EndsT!Sides, Ends!Null, EndsT!Null, Ends!AllNull,
         EndsT!AllNull, Ends!Contexts, EndsT!Contexts, Ends!CarefulReleases,
         EndsT!CarefulReleases
<1> QED
  BY <1>1, <1>2, <1>3, <1>4, <1>5, <1>6, <1>7

-----------------------------------------------------------------------------
(* A step of a program is a step of the library it uses, and the others stay. *)

LEMMA LibraryStep ==
  ASSUME [LibrariesNext]_librariesVars
  PROVE  /\ [Next]_vars
         /\ [Pwm!Next]_(Pwm!vars)
         /\ [Gpio!Next]_(Gpio!vars)
         /\ [Uart!Next]_(Uart!vars)
         /\ [Spi!Next]_(Spi!vars)
         /\ [I2c!Next]_(I2c!vars)
         /\ [Ends!Next]_(Ends!vars)
<1> USE DEF vars, pwmVars, gpioVars, uartVars, spiVars, i2cVars, endpointsVars,
        Pwm!vars, Gpio!vars, Uart!vars, Spi!vars, I2c!vars, Ends!vars
<1>1. CASE CanStep
  BY <1>1 DEF CanStep
<1>2. CASE PwmStep
  BY <1>2 DEF PwmStep
<1>3. CASE GpioStep
  BY <1>3 DEF GpioStep
<1>4. CASE UartStep
  BY <1>4 DEF UartStep
<1>5. CASE SpiStep
  BY <1>5 DEF SpiStep
<1>6. CASE I2cStep
  BY <1>6 DEF I2cStep
<1>7. CASE EndpointsStep
  BY <1>7 DEF EndpointsStep
<1>8. CASE UNCHANGED librariesVars
  BY <1>8 DEF librariesVars
<1> QED
  BY <1>1, <1>2, <1>3, <1>4, <1>5, <1>6, <1>7, <1>8 DEF LibrariesNext

\* Each library, in a program, behaves as it does alone.
LEMMA LibraryRuns ==
  LibrariesSpec =>
    /\ Spec /\ Pwm!Spec /\ Gpio!Spec
    /\ Uart!Spec /\ Spi!Spec /\ I2c!Spec /\ EndsT!Spec
<1>1. LibrariesInit => /\ Init /\ Pwm!Init /\ Gpio!Init
                       /\ Uart!Init /\ Spi!Init /\ I2c!Init /\ EndsT!Init
  BY EndsSame DEF LibrariesInit
<1>2. ASSUME [LibrariesNext]_librariesVars
      PROVE  /\ [Next]_vars
             /\ [Pwm!Next]_(Pwm!vars)
             /\ [Gpio!Next]_(Gpio!vars)
             /\ [Uart!Next]_(Uart!vars)
             /\ [Spi!Next]_(Spi!vars)
             /\ [I2c!Next]_(I2c!vars)
             /\ [EndsT!Next]_(EndsT!vars)
  BY <1>2, LibraryStep, EndsSame DEF EndsT!vars, Ends!vars
<1> QED
  BY <1>1, <1>2, PTL
     DEF LibrariesSpec, Spec, Pwm!Spec, Gpio!Spec, Uart!Spec, Spi!Spec, I2c!Spec,
         EndsT!Spec

LEMMA LibraryAssumptions ==
  /\ Pwm!PwmAssumption /\ Gpio!GpioAssumption /\ EndsT!EndpointsAssumption
  /\ Uart!UartAssumption /\ Spi!SpiAssumption /\ I2c!I2cAssumption
BY LibrariesAssumption, EndsSame DEF LibrariesAssumption

-----------------------------------------------------------------------------
\* Every table of every library keeps the widths and ranges of its C types.
THEOREM LibrariesTypeCorrect == LibrariesSpec => []LibrariesTypeOK
<1>1. Pwm!Spec => []Pwm!TypeOK
  BY LibraryAssumptions, PwmTypeCorrect
<1>2. Gpio!Spec => []Gpio!TypeOK
  BY LibraryAssumptions, GpioTypeCorrect
<1>3. /\ Uart!Spec => []Uart!TypeOK
      /\ Spi!Spec => []Spi!TypeOK
      /\ I2c!Spec => []I2c!TypeOK
  BY LibraryAssumptions, UartTypeCorrect, SpiTypeCorrect, I2cTypeCorrect
<1>4. EndsT!Spec => []EndsT!TypeOK
  BY LibraryAssumptions, EndsT!TypeCorrect
<1>5. EndsT!TypeOK => Ends!TypeOK
  BY EndsSame
<1> QED
  BY <1>1, <1>2, <1>3, <1>4, <1>5, LibraryRuns, PTL DEF LibrariesTypeOK

\* CAN: the ring and the filter slots are the mailbox and the handles of CanContract.
THEOREM CanImplementsContract == LibrariesSpec => []TypeOK /\ ImplementsContract
BY LibraryRuns, TypeCorrect, RefinesContract, PTL

\* PWM: however the product of period and duty cycle wraps, no pulse outlasts its
\* period.
THEOREM PwmPulseWithinPeriod == LibrariesSpec => []PulseWithinPeriod
<1>1. Pwm!Spec => []Pwm!PulseWithinPeriod
  BY LibraryAssumptions, PulseEndsInPeriod
<1> QED
  BY <1>1, LibraryRuns, PTL DEF PulseWithinPeriod

\* PWM: the timing fields follow the configuration through any sequence of calls,
\* and the pulse is exact as long as 100 periods fit in the word.
THEOREM PwmExactWhenItFits == LibrariesSpec => []ExactWhenItFits
<1>1. Pwm!Spec => []Pwm!ExactWhenItFits
  BY LibraryAssumptions, TimingExact
<1> QED
  BY <1>1, LibraryRuns, PTL DEF ExactWhenItFits

\* PWM: no channel is left running when it is closed.
THEOREM PwmRunningIsOpen == LibrariesSpec => []RunningIsOpen
<1>1. Pwm!Spec => []Pwm!RunningIsOpen
  BY LibraryAssumptions, ClosedIsStopped
<1> QED
  BY <1>1, LibraryRuns, PTL DEF RunningIsOpen

\* GPIO: an open input has the level of its pull resistor.
THEOREM GpioInputsKeepPull == LibrariesSpec => []InputsKeepPull
<1>1. Gpio!Spec => []Gpio!InputsKeepPull
  BY LibraryAssumptions, PullKept
<1> QED
  BY <1>1, LibraryRuns, PTL DEF InputsKeepPull

\* GPIO: a pin changes its mode only by being closed and opened again.
THEOREM GpioModeFixed == LibrariesSpec => ModeFixedWhileOpen
<1>1. Gpio!Spec => Gpio!ModeFixedWhileOpen
  BY LibraryAssumptions, ModeKept
<1> QED
  BY <1>1, LibraryRuns, PTL DEF ModeFixedWhileOpen

\* UART: nothing is ever received by polling, whatever was sent to a port.
THEOREM UartNothingToPoll == LibrariesSpec => []NothingToPoll
<1>1. Uart!Spec => []Uart!NothingToPoll
  BY LibraryAssumptions, UartPollsNothing
<1> QED
  BY <1>1, LibraryRuns, PTL DEF NothingToPoll

\* UART, SPI and I2C: a call reaches the device of the init in force and returns
\* what that device returned, whatever callbacks do to the ports while they run.
THEOREM LibrariesImplementDevicePort == LibrariesSpec => ImplementsDevicePort
<1>1. LibrariesInit => Uart!Device!Init /\ Spi!Device!Init /\ I2c!Device!Init
  BY LibraryAssumptions, UartInitRefines, SpiInitRefines, I2cInitRefines DEF LibrariesInit
<1>2. /\ Uart!Spec => []UartInv
      /\ Spi!Spec => []SpiInv
      /\ I2c!Spec => []I2cInv
  BY LibraryAssumptions, UartInvHolds, SpiInvHolds, I2cInvHolds
<1> DEFINE Devices == /\ active = "uart" => [Uart!Device!Next]_(Uart!Device!vars)
                      /\ active = "spi"  => [Spi!Device!Next]_(Spi!Device!vars)
                      /\ active = "i2c"  => [I2c!Device!Next]_(I2c!Device!vars)
<1>3. ASSUME UartInv, SpiInv, I2cInv, [LibrariesNext]_librariesVars
      PROVE  [Devices]_librariesVars
  <2>1. /\ [Uart!Next]_(Uart!vars)
        /\ [Spi!Next]_(Spi!vars)
        /\ [I2c!Next]_(I2c!vars)
    BY <1>3, LibraryStep
  <2> QED
    BY <1>3, <2>1, LibraryAssumptions, UartNextRefines, SpiNextRefines, I2cNextRefines
<1> QED
  BY <1>1, <1>2, <1>3, LibraryRuns, PTL DEF LibrariesSpec, ImplementsDevicePort

\* Server and client: a pointer that is not NULL points to an object that exists
\* and is not closed, however inits that failed half way and shutdowns follow each other.
THEOREM EndpointsPointersLive == LibrariesSpec => []PointersLive
<1>1. EndsT!Spec => []EndsT!PointersLive
  BY LibraryAssumptions, EndsT!PointersStayLive
<1>2. EndsT!PointersLive => PointersLive
  BY EndsSame DEF PointersLive
<1> QED
  BY <1>1, <1>2, LibraryRuns, PTL

\* Server and client: a shutdown waits for a message, never for a socket nobody closes.
THEOREM EndpointsShutdownWaits == LibrariesSpec => []ShutdownWaitsForMessageOnly
<1>1. EndsT!Spec => []EndsT!ShutdownWaitsForMessageOnly
  BY LibraryAssumptions, EndsT!ShutdownWaits
<1>2. EndsT!ShutdownWaitsForMessageOnly => ShutdownWaitsForMessageOnly
  BY EndsSame DEF ShutdownWaitsForMessageOnly
<1> QED
  BY <1>1, <1>2, LibraryRuns, PTL

\* Server and client: who shuts down before each further init leaves nothing behind.
THEOREM EndpointsCarefulReleases == LibrariesSpec => []CarefulReleases
<1>1. EndsT!Spec => []EndsT!CarefulReleases
  BY LibraryAssumptions, EndsT!CarefulLeaksNothing
<1>2. EndsT!CarefulReleases => CarefulReleases
  BY EndsSame DEF CarefulReleases
<1> QED
  BY <1>1, <1>2, LibraryRuns, PTL
=============================================================================
