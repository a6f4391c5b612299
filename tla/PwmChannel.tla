----------------------------- MODULE PwmChannel -----------------------------
(***************************************************************************)
(* The simulated PWM channels, simulith_pwm.c.  One caller's calls, in any *)
(* order, with valid and invalid arguments.                                *)
(***************************************************************************)
EXTENDS Integers

CONSTANTS
  SIMULITH_PWM_MAX_CHANNELS,  \* 16
  SIMULITH_PWM_MIN_FREQ_HZ,   \* 1
  SIMULITH_PWM_MAX_FREQ_HZ,   \* 1000000
  NanosPerSecond,             \* 1000000000
  Word,                       \* 2^32, what a uint32_t holds
  Frequencies,                \* frequencies the caller asks for
  DutyCycles,                 \* duty cycles the caller asks for
  NullPtr

\* Assumed of the constants.
PwmAssumption ==
  /\ SIMULITH_PWM_MAX_CHANNELS \in Nat
  /\ SIMULITH_PWM_MIN_FREQ_HZ \in Nat \ {0}
  /\ SIMULITH_PWM_MAX_FREQ_HZ \in Nat
  /\ NanosPerSecond \in Nat
  /\ Word \in Nat \ {0}
  /\ NanosPerSecond < Word
  /\ Frequencies \subseteq Nat /\ DutyCycles \subseteq Nat
  /\ NullPtr \notin [frequency_hz : Nat, duty_cycle : Nat]

Channels   == 0 .. (SIMULITH_PWM_MAX_CHANNELS - 1)
ChannelIds == 0 .. SIMULITH_PWM_MAX_CHANNELS   \* what a caller passes: one too many

VARIABLES
  pwm_channels,  \* the table of channels
  answer         \* the last call: its name, its channel and its result

vars == <<pwm_channels, answer>>

Config  == [frequency_hz : Nat, duty_cycle : Nat]
ChannelConfigs == [frequency_hz : Frequencies, duty_cycle : DutyCycles] \cup {NullPtr}

pwm_channel_t == [initialized : BOOLEAN,
                  running     : BOOLEAN,
                  config      : Config,
                  period_ns   : 0 .. (Word - 1),
                  duty_ns     : 0 .. (Word - 1)]

Calls == {"none", "init", "start", "stop", "set_duty", "set_frequency", "close"}

\* Every field keeps the width of its C type.
TypeOK ==
  /\ pwm_channels \in [Channels -> pwm_channel_t]
  /\ answer \in [call : Calls, channel : ChannelIds, value : {0, -1}]

Init ==
  /\ pwm_channels = [c \in Channels |->
                       [initialized |-> FALSE, running |-> FALSE,
                        config |-> [frequency_hz |-> 0, duty_cycle |-> 0],
                        period_ns |-> 0, duty_ns |-> 0]]
  /\ answer = [call |-> "none", channel |-> 0, value |-> 0]

-----------------------------------------------------------------------------
is_valid_channel(channel) == channel \in Channels

is_valid_frequency(freq_hz) ==
  freq_hz \in SIMULITH_PWM_MIN_FREQ_HZ .. SIMULITH_PWM_MAX_FREQ_HZ

is_valid_duty_cycle(duty_cycle) == duty_cycle <= 100

\* Mutant of update_timing: the duty cycle is rounded before the product.
TimingRoundedFirst(pwm) ==
  LET period == NanosPerSecond \div pwm.config.frequency_hz
  IN  [pwm EXCEPT !.period_ns = period,
                  !.duty_ns = ((period \div 100) * pwm.config.duty_cycle) % Word]

\* Mutant of update_timing: a product of more than 32 bits, unreduced.
TimingUnreduced(pwm) ==
  LET period == NanosPerSecond \div pwm.config.frequency_hz
  IN  [pwm EXCEPT !.period_ns = period,
                  !.duty_ns = period * pwm.config.duty_cycle]

\* period_ns and duty_cycle are multiplied as unsigned 32-bit numbers.
update_timing(pwm) ==
  LET period == (NanosPerSecond \div pwm.config.frequency_hz) % Word
  IN  [pwm EXCEPT !.period_ns = period,
                  !.duty_ns = ((period * pwm.config.duty_cycle) % Word) \div 100]

Return(call, channel, value) ==
  answer' = [call |-> call, channel |-> channel, value |-> value]

\* The early returns: -1, and no change.
Reject(call, channel) == Return(call, channel, -1) /\ UNCHANGED pwm_channels

Update(call, channel, pwm) ==
  /\ pwm_channels' = [pwm_channels EXCEPT ![channel] = pwm]
  /\ Return(call, channel, 0)

IsOpen(channel) == is_valid_channel(channel) /\ pwm_channels[channel].initialized

simulith_pwm_init(channel, config) ==
  IF /\ is_valid_channel(channel)
     /\ config # NullPtr
     /\ is_valid_frequency(config.frequency_hz)
     /\ is_valid_duty_cycle(config.duty_cycle)
     /\ ~ IsOpen(channel)
    THEN Update("init", channel,
                update_timing([pwm_channels[channel] EXCEPT !.config = config,
                                                            !.initialized = TRUE,
                                                            !.running = FALSE]))
    ELSE Reject("init", channel)

simulith_pwm_start(channel) ==
  IF IsOpen(channel)
    THEN Update("start", channel, [pwm_channels[channel] EXCEPT !.running = TRUE])
    ELSE Reject("start", channel)

simulith_pwm_stop(channel) ==
  IF IsOpen(channel)
    THEN Update("stop", channel, [pwm_channels[channel] EXCEPT !.running = FALSE])
    ELSE Reject("stop", channel)

simulith_pwm_set_duty(channel, duty_cycle) ==
  IF is_valid_duty_cycle(duty_cycle) /\ IsOpen(channel)
    THEN Update("set_duty", channel,
                update_timing([pwm_channels[channel] EXCEPT
                                 !.config.duty_cycle = duty_cycle]))
    ELSE Reject("set_duty", channel)

\* Mutant of simulith_pwm_set_frequency: the period is set, the pulse is not.
SetPeriodOnly(channel, frequency_hz) ==
  IF is_valid_frequency(frequency_hz) /\ IsOpen(channel)
    THEN Update("set_frequency", channel,
                [pwm_channels[channel] EXCEPT
                   !.config.frequency_hz = frequency_hz,
                   !.period_ns = NanosPerSecond \div frequency_hz])
    ELSE Reject("set_frequency", channel)

simulith_pwm_set_frequency(channel, frequency_hz) ==
  IF is_valid_frequency(frequency_hz) /\ IsOpen(channel)
    THEN Update("set_frequency", channel,
                update_timing([pwm_channels[channel] EXCEPT
                                 !.config.frequency_hz = frequency_hz]))
    ELSE Reject("set_frequency", channel)

\* Mutant of simulith_pwm_close: a running channel is not stopped.
CloseOnly(channel) ==
  IF IsOpen(channel)
    THEN Update("close", channel, [pwm_channels[channel] EXCEPT !.initialized = FALSE])
    ELSE Reject("close", channel)

\* A running channel is stopped first.
simulith_pwm_close(channel) ==
  IF IsOpen(channel)
    THEN Update("close", channel, [pwm_channels[channel] EXCEPT !.running = FALSE,
                                                                !.initialized = FALSE])
    ELSE Reject("close", channel)

Next ==
  \E channel \in ChannelIds :
    \/ \E config \in ChannelConfigs : simulith_pwm_init(channel, config)
    \/ simulith_pwm_start(channel)
    \/ simulith_pwm_stop(channel)
    \/ \E duty_cycle \in DutyCycles : simulith_pwm_set_duty(channel, duty_cycle)
    \/ \E freq_hz \in Frequencies : simulith_pwm_set_frequency(channel, freq_hz)
    \/ simulith_pwm_close(channel)

Spec == Init /\ [][Next]_vars

-----------------------------------------------------------------------------
\* The length of the pulse a configuration asks for, in nanoseconds.
Pulse(pwm) == (pwm.period_ns * pwm.config.duty_cycle) \div 100

(***************************************************************************)
(* The timing fields follow the configuration through any sequence of      *)
(* calls, reopening included, and the pulse is the share of the period     *)
(* that was asked for, as long as 100 periods fit in 32 bits: from 24 Hz.  *)
(***************************************************************************)
ExactWhenItFits ==
  \A c \in Channels :
    LET pwm == pwm_channels[c]
    IN  pwm.initialized =>
          /\ pwm.period_ns = NanosPerSecond \div pwm.config.frequency_hz
          /\ pwm.period_ns * 100 < Word => pwm.duty_ns = Pulse(pwm)

(***************************************************************************)
(* However the product wraps, the pulse never outlasts the period: there   *)
(* is no setting for which the output would be inconsistent.               *)
(***************************************************************************)
PulseWithinPeriod ==
  \A c \in Channels :
    pwm_channels[c].initialized =>
      pwm_channels[c].duty_ns <= pwm_channels[c].period_ns

(***************************************************************************)
(* A channel that is closed is not running: whoever opens it next gets it  *)
(* stopped (simulith_pwm_start says "PWM channel started", nobody else).   *)
(***************************************************************************)
RunningIsOpen ==
  \A c \in Channels : pwm_channels[c].running => pwm_channels[c].initialized

(***************************************************************************)
(* pwm.c: "Calculate duty cycle in nanoseconds".  The pulse is the share   *)
(* of the period that was asked for, at every frequency that is accepted.  *)
(***************************************************************************)
PulseIsExact ==
  \A c \in Channels :
    pwm_channels[c].initialized => pwm_channels[c].duty_ns = Pulse(pwm_channels[c])
=============================================================================
