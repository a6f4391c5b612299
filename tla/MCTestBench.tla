---------------------------- MODULE MCTestBench -----------------------------
(* Suites for model checking TestBench: the tests of test_gpio.c, test_pwm.c *)
(* and test_spi.c, runs of assertions on a port in one or two checks.        *)
EXTENDS TestBench

Do(what, port) == [do |-> what, port |-> port]

GpioTests ==
  << <<Do("check", 0), Do("open", 0), Do("duplicate", 0)>>,
     <<Do("open", 0), Do("check", 0), Do("check", 0)>>,
     <<Do("open", 0), Do("check", 0), Do("open", 1), Do("check", 1),
       Do("open", 2), Do("check", 2), Do("check", 0)>>,
     <<Do("open", 0), Do("open", 1), Do("open", 2), Do("check", 0), Do("check", 2)>> >>

PwmTests ==
  << <<Do("check", 0), Do("open", 0), Do("duplicate", 0)>>,
     <<Do("uninitialized", 0), Do("open", 0), Do("check", 0)>>,
     <<Do("open", 0), Do("check", 0), Do("uninitialized", 1), Do("check", 2)>>,
     <<Do("open", 0), Do("check", 0), Do("uninitialized", 1), Do("check", 2)>>,
     <<Do("open", 0), Do("check", 0), Do("closed", 0), Do("open", 0),
       Do("uninitialized", 1), Do("check", 2)>> >>

SpiTests ==
  << <<Do("check", 0), Do("open", 0), Do("duplicate", 0), Do("close", 0)>>,
     <<Do("open", 0), Do("check", 0), Do("check", 0), Do("close", 0)>>,
     <<Do("uninitialized", 0), Do("open", 0), Do("check", 0), Do("close", 0)>>,
     <<Do("open", 0), Do("open", 1), Do("open", 2), Do("check", 0), Do("check", 2),
       Do("close", 0), Do("close", 1), Do("close", 2)>> >>

MCSuites ==
  [gpio |-> [tearDown |-> "closing", tests |-> GpioTests],
   pwm  |-> [tearDown |-> "closing", tests |-> PwmTests],
   spi  |-> [tearDown |-> "empty", tests |-> SpiTests]]
=============================================================================
