----------------------------- MODULE MCLibraries -----------------------------
(* Constant values for model checking Libraries. *)
EXTENDS Libraries, MCCanBus

UartCfg(baud_rate, data_bits) ==
  [baud_rate |-> baud_rate, data_bits |-> data_bits, stop_bits |-> 1,
   parity |-> 0, flow_control |-> 2]

SpiCfg(clock_hz, data_bits) ==
  [clock_hz |-> clock_hz, mode |-> 3, bit_order |-> 1, cs_polarity |-> 1,
   data_bits |-> data_bits]

\* Of three configurations one is accepted.
MCUartConfigs == {UartCfg(9600, 8), UartCfg(9600, 9), NullPtr}
MCSpiConfigs  == {SpiCfg(1000, 16), SpiCfg(999, 16), NullPtr}

\* A callback fails, or takes one byte of two; a transfer takes both.
MCUartResults == {-1, 1}
MCSpiResults  == {-1, 2}
=============================================================================
