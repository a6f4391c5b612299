# A verification project for Simulith

TLA+ models of Simulith (C, `src/`), TLC configurations that check them, and
theorems about them proved with TLAPS. Paths below are relative to the
repository; `server.c` is `src/simulith_server.c`, and so on.

## 1. The system

| component | state it keeps | operations | what makes it correct |
|---|---|---|---|
| time server (`simulith_server.c`) | `current_time_ns`, `client_states[32]` (id, responded), `expected_clients`, `tick_interval_ns`, sockets | `init`, `run` (handshake loop, then for ever: broadcast, reset, acknowledgement loop, advance), `shutdown` | table dense and without duplicates; time advances only when each registered client has finished the current time, and does advance |
| client library (`simulith_client.c`) | `client_id`, SUB and REQ sockets, receive timeout | `init`, `handshake` (1 s timeout), `run_loop`, `shutdown` | a handshake that returns 0 means the server waits for the client; each broadcast is processed once, in order |
| ZeroMQ (external) | pending requests and replies, subscriptions, subscriber queues | REQ/REP, PUB/SUB | - |
| CAN (`simulith_can.c`) | 8 buses: `initialized`, `config`, `rx_callback`, 16 filter slots, ring of 32 messages | `init`, `add_filter`, `remove_filter`, `send`, `receive`, `close` | ring is a FIFO; reopening starts empty; handles valid until removed; filters filter |
| UART (`simulith_uart.c`) | 8 ports: flag, config, callback, ring of 1024 bytes | `init`, `send`, `receive`, `available`, `close` | bytes come out in order; `available` agrees with `receive` |
| PWM (`simulith_pwm.c`) | channels: flags, frequency, duty, `period_ns`, `duty_ns` | `init`, `start`, `stop`, `set_duty`, `set_frequency`, `close` | timing fields always match the configuration; running implies initialized |
| GPIO (`simulith_gpio.c`) | pins: flag, mode, state | `init`, `write`, `read`, `toggle`, `close` | inputs keep their pull level; outputs read back what was written |
| SPI, I2C | buses: flag, config, callbacks | `init`, `transfer` / `read`, `write`, `close` (SPI) | calls reach the callback of the open device only |
| logging (`simulith_common.c`) | none | `simulith_log` | pure output |
| Unity runner (`src/unity/`) | `Unity`: counters, flags, `AbortFrame` | `UnityBegin`, `UnityDefaultTestRun`, `UnityFail`, `UnityIgnore`, `UnityConcludeTest`, `UnityEnd` | each test counted once; tearDown always runs; the exit status tells of a failure |
| Unity assertions, output | none but the flags | `UnityAssert...`, `UnityPrint...` | an assertion fails exactly when what it says is false; a failure can be told from what is printed |
| device tests (`src/test/`) | the static tables of the device libraries | `RUN_TEST` of each | a test fails for its own fault only |

Interactions: server and clients are separate processes (or threads in the
tests). A client sends `READY <id>` on REQ/REP and is answered `ACK`, `DUP_ID` or
`ERR`; the server publishes 8 bytes of time on PUB/SUB; a client runs `on_tick`,
sends its bare id on REQ/REP and is answered `ACK`. The devices are libraries of
one process that keep a static table; they call user callbacks and do not
interact with the time protocol. The tests of all libraries run on Unity, which
is kept in the repository and compiled into every test program, so what a green
test run means rests on it: an assertion that fails leaves the test by
`longjmp`, past the statements that would have closed its ports.

What is hard here: requests of many clients in any order; a handshake that times
out while its READY is on its way; client processes that die and come back;
a server that dies and comes back without its table; acknowledgements that do
not say which tick they answer; asynchronous subscriptions; `init` functions
that fail half way; callbacks that call back; fixed-size buffers, tables and
rings; in Unity, casts, wrap-around, infinities, and pointers that walk through
memory. `PROJECT.json` lists each
hazard at its line with the properties that watch it.

## 2. Modules

| module | what it is | code |
|---|---|---|
| `SyncWire` | the ZeroMQ transport as the program uses it (external) | `zmq_*` calls; `broadcast_time` |
| `TimeServer` | the server: one action per turn of each loop of `simulith_server_run` | `server.c` |
| `TimeClient` | one client process and the application that drives it | `client.c` |
| `TimeSync` | server and clients over the wire; all properties | both |
| `TickBarrier` | the abstract barrier the protocol implements | - |
| `MCTimeSync` | constants for TLC | - |
| `TimeSyncProofs` | theorems about `TimeSync` and `TimeSyncFaults` | - |
| `CanBus` | the CAN buses, one action per API function | `can.c` |
| `CanContract` | what a user of `simulith_can.h` gets: mailbox and handles | - |
| `MCCanBus` | constants for TLC | - |
| `Libraries` | a program that uses one of the device libraries or of the `Endpoints`; their properties | - |
| `MCLibraries` | constants for TLC | - |
| `CanBusProofs` | theorems about `CanBus` | - |
| `DevicePortProofs` | theorems about `UartPort`, `SpiBus`, `I2cBus` and that they implement `DevicePort` | - |
| `EndpointsProofs` | theorems about `Endpoints` | - |
| `LibrariesProofs` | theorems about `PwmChannel`, `GpioPin` and, from these and those of the three modules above, `Libraries` | - |
| `TestBenchProofs` | theorems about `UnityRun` and `TestBench` | - |
| `UnityProofs` | theorems about the assertions of Unity: `UnityChecks` and its parts | - |
| `UnityPrintProofs` | theorems about the numbers that Unity prints: `UnityDigits`, `UnityFloatText` | - |
| `TimeSyncFaults`, `MCTimeSyncFaults` | `TimeSync` with a server that dies and a supervisor that starts processes again | `server.c`, `client.c`, external |
| `Endpoints` | `init` and `shutdown` of both sides as users of ZeroMQ contexts and sockets | `server.c` 33-81, 216-228; `client.c` 9-58, 139-151 |
| `DevicePort` | abstract: what a user of UART, SPI or I2C gets of a port | - |
| `UartPort` | the UART ports, refine `DevicePort` | `uart.c` |
| `SpiBus` | the SPI buses, refine `DevicePort` | `spi.c` |
| `I2cBus` | the I2C buses, refine `DevicePort` | `i2c.c` |
| `PwmChannel` | the PWM channels | `pwm.c` |
| `GpioPin` | the GPIO pins | `gpio.c` |
| `UnityRun` | how Unity runs a suite | `unity.c` 34-41, 586-607, 2168-2309; `unity_internals.h` 744-765 |
| `TestBench`, `MCTestBench` | the device tests on `UnityRun` | `test_spi.c`, `test_gpio.c`, `test_pwm.c` |
| `UnityWords` | integers of 1, 2, 4, 8 bytes, their display styles, the comparison with a delta | `unity.c` 207-255, 1594-1615 |
| `UnityNumbers` | assertions on two integers and on bits | `unity.c` 318-342, 730-830, 1446-1486; macros |
| `UnityIntArrays` | assertions on arrays of integers | `unity.c` 695-723, 842-950, 1489-1645, 1885-1907 |
| `UnityText` | assertions on strings, printing of characters | `unity.c` 97-204, 637-688, 1648-1797 |
| `UnityMemory` | assertions on memory | `unity.c` 1800-1870 |
| `UnityFloats` | assertions on floats and arrays of them | `unity.c` 955-1211 |
| `UnityDecimals` | powers of ten, and reading digits back | external |
| `UnityDigits` | printing integers | `unity.c` 207-315 |
| `UnityFloatText` | printing floats, with the rounding of their products | `unity.c` 353-531 |
| `UnityChecks` | one call of one of these assertions or printing functions; their properties | - |
| `MCUnityChecks` | constants for TLC | - |

Composition: `TimeSync` extends `SyncWire`, `TimeServer` and `TimeClient`;
`TimeSyncFaults` extends `TimeSync`; `TestBench` extends `UnityRun`;
`UnityNumbers` and `UnityIntArrays` extend `UnityWords`. `TimeSync` implements
`TickBarrier`, `CanBus` implements `CanContract`, and `UartPort`, `SpiBus` and
`I2cBus` implement `DevicePort`. `Libraries` and `UnityChecks` take the libraries,
and the parts of Unity, which share neither state nor calls; a variable says which
of them a program uses, and the variables of the others stay as they are.

Definitions named `...` *Mutant of X* in the comments are plausible wrong
versions of `X`; replacing `X` by one must violate the property it is listed with
in `PROJECT.json`. They take no part in the specifications.

### The time protocol

State. `phase`, `client_states`, `ready_clients` and `current_time_ns` are the
server's variables (`phase` is its program counter between the two loops). `pc`
is a client's place in the API, `time_ns` the local of `run_loop`, `seen` a
history variable: the last time from which the client's `on_tick` returned,
kept across a crash. `requests`, `reply`, `subscribed`, `ticks` and `sock` are
ZeroMQ's: pending requests, the answer on its way, the subscriptions that have
reached the publisher, the queue of each SUB socket, and a generation number
that tells a process's sockets from those of its predecessor.

Actions. The server's steps are `ServeHandshake(r)` (lines 127-188),
`StartTicking` (190-198), `ServeAck(r)` (200-210) and `AdvanceTime` (212 and the
next broadcast and reset). A step contains a whole loop turn, since nobody sees
the server between a `zmq_recv` and its `zmq_send`. The client's are `Connect`,
`Subscribe` (its subscription arrives), `SendReady`, `EndHandshake`,
`HandshakeTimeout`, `ReceiveTick`, `AckTick`, `ReceiveAck`, `Shutdown`, `Crash`.
The application is that of `test_simulith.c`: it enters the tick loop only after
a handshake that returned 0; after one that failed it retries or shuts down.
A handshake that timed out leaves the REQ socket waiting for its answer, so
another `zmq_send` on it fails: the only way on is shutdown.

Data. A name is a sequence of up to three pieces (57 characters, 6 more, the
rest), because only the 63 bytes of `client_id`, and the 57 that are left for it
in a READY message, matter. Time has width `TimeMod` (2^64 in C).
Undefined behaviour: `buffer[size] = 0` at `server.c:133` writes outside the
buffer for a longer message (`zmq_recv` reports the untruncated size); the model
gives that write no effect on the named state.

Faults are switched on by the constant `Faults`: `timeout`, `crash` (client
processes), `slow_join` (a handshake before the subscription has arrived). In
`TimeSync` the server does not crash.

`TimeSyncFaults` lets it. `ServerRestart` gives it the state of a new process
(`ServerStarts`) and leaves the wire with any part of what may survive
(`ServerConnectionsLost`): requests still in a living client's pipe, replies and
times that had arrived, no subscription (sockets reconnect and subscribe again
by themselves). Neither program restarts anything, so a supervisor is assumed:
it starts the server again, and kills a client that runs unregistered.
The server takes any request that arrives, whatever subscription has, and a
handshake may give up at any time while it waits. Recovery then depends on two
races that the code does not decide: a client may give up an answer that is
coming (`GiveUp`), be registered behind its back and be refused when it comes
again; and a client may be registered whose subscription arrives after the first
broadcast (`StartAll`), and wait for ever. Both happen in the model; the history
variable `untimely` remembers it, and `TimeRecovers` and `OrphansReturn` are stated
for the behaviours in which it stays `FALSE`: those in which the server, or the
next one the supervisor starts, answers within the second, and subscriptions
arrive in time. Without that both properties are false, for the causes that the
runs `TimeSyncRetry` and `TimeSyncSlowJoin` show.

`Endpoints` leaves the protocol out and keeps, for each side, the three static
pointers, the contexts and sockets that exist, and which sockets have a message
that has not left. `zmq_ctx_new` and `zmq_socket` return NULL at their limits,
`zmq_bind` fails on an address in use, `zmq_ctx_term` waits until every socket of
its context is closed and has sent what it had. Every early return of the two
`init` functions is a disjunct of `Open`.

### CAN

`can_buses` is the static table; `answer` is the last call with its result.
Every API function is one action, early returns included, and callers pass bad
bus ids, configurations, messages, handles and NULL pointers. Ids and masks are
sets of one-bits, so `&` is intersection. Payloads are left out. The ring, the
indices and the zeroed initial contents are kept as they are.

### Devices

Each module keeps its library's static table and `answer`, the last call with its
result; callers pass bad ids, configurations, buffers and lengths. UART, SPI and
I2C call a function the user registered. It may call the library again, so a call
that reached its callback goes on a stack (`calls`) and every operation is enabled
meanwhile; `CallbackReturns` ends the innermost. `DevicePort` says what that is to
mean: a port has a device, the one given to the `init` in force, or none; a call
reaches the device attached when it was made, and its result is what that device
answered, whatever has been detached or attached since; an `init` that is refused
attaches nothing. `PwmChannel` keeps the widths of `period_ns`, of the product and
of `duty_ns`; the run scales a second down to 1000 units and a word to 4295, the
ratio of 10^9 to 2^32.

### Unity and the tests

`UnityRun` has one action per thing the runner or the user's code can do next;
`AbortFrame` is the `setjmp` that `longjmp` returns to. An assertion that fails is
`UnityFail`. `fate` and `fates` are history variables: the first fault of the
running test and of those over. `TestBench` puts the statements of a device test
on top: what the test checks may be wrong, and `faulty` records it. Programs
differ in who closes the ports: the tests of `test_gpio.c` and `test_pwm.c` leave
theirs open at the end, passed or failed, for a tearDown that closes all; those of
`test_spi.c` (and of UART and CAN) close what they opened, and tearDown is
empty. Of a suite `TestBench` assumes what its author has to see to
(`SuiteAssumption`): each test expects of a port what it has done to it itself,
and, only where tearDown is empty, has closed its ports when it ends.

A behaviour of an assertion module is one call, loops turn by turn, made while
the test has not failed; inputs are chosen in `Init`. `call` holds the arguments,
`outcome` and `report` what came of it: not the wording, but the two values or
texts a failure shows. Arithmetic is that of the C types: in `UnityWords` a byte
has `ByteBits` bits and values are cast as the macros cast them. In `UnityFloats`
a float is an integer up to `MaxFinite`, an infinity or NaN, operations overflow
to infinities and propagate NaN, and rounding of small results is left out. In
`UnityFloatText` a number is `c * 10^q`, and every product and quotient of the
scaling loops, those of the loops' conditions included, is rounded by the operator
`Rounded` to a number of the machine. What is not rounded there is exact in C too:
powers of ten up to 10^10, doubling, the split into integer and fraction,
comparisons; but the two thresholds of the loops by 10^10 are the floats next to
10^-3 and 10^16 in C and these powers themselves here. The history variable `kept`
is what the roundings have left of the input: as soon as a product had to be
rounded, the number that the rounded one stands for. What is printed is nearest to
`kept`; to the input it need not be, as the comment at unity.c 349-351 says.
`UnityPrintLen` looks at each character before it tests the length, so it reads
one more than it prints; `PrintLenReads` names what it reads.

## 3. Runs

Passing:

| run | instance | what it shows |
|---|---|---|
| `TimeSyncRestarts` | 2 clients, 2 expected, each (re)initialised 3 times, all faults, time mod 4 by steps of 3 | tokens: one acknowledgement per tick and client across crashes (`AckAccounting`); flags are about the current tick (`RespondedMeansDone`); `AdvanceOnlyWhenAllDone`; refinement of `TickBarrier` |
| `TimeSyncLateJoiner` | 3 clients, 2 expected, all faults | the third client, before or after the start, disturbs neither table (`RegistrationSound`), nor registered clients (`LockStep`), nor the barrier |
| `TimeSyncHealthy` | 3 clients, 2 expected, table of 2, pipes of 1, no faults; liveness, deadlock checked | every handshake succeeds, every running client keeps being ticked, time never stops |
| `TimeSyncRecovery` | 2 clients of 2 lives each, 2 expected, one restart of the server at any time, timeouts, deaths and late subscriptions; liveness | where no race is lost (`untimely`), time goes on after the restart (`TimeRecovers`) and no client stays behind unregistered (`OrphansReturn`); and whatever old requests reach the new table it stays sound |
| `Libraries` | see below; any sequence of calls of one library | CAN implements `CanContract`, UART, SPI and I2C `DevicePort`; PWM, GPIO, polling UARTs and the endpoints' inits and shutdowns, see below |
| `TestBench` | four programs: the suites of `test_gpio.c` and `test_pwm.c` with their tearDown that closes the ports, that of `test_spi.c` with its empty one, and up to 5 tests that may do anything the runner lets them; 3 ports, 4 exit statuses; liveness | counting, flags, exit status, tearDown exactly once, every test concludes; where tearDown closes the ports a test fails for its own fault, and where it is empty the first failing one does |
| `UnityChecks` | see below; one call of one assertion or printing function | judged as the mathematical relation is; no comparison reads outside; a failure shows a difference; numbers read back from what is printed |

The instances of `Libraries`, all in the run at once (72 000 states):

| part | instance | properties |
|---|---|---|
| `CanBus` | 1 bus, 2 filter slots, ring of 3, 6 messages, 3 configurations | `TypeOK`, `ImplementsContract` |
| `PwmChannel` | 1 channel, frequencies and duty cycles on both sides of every limit and of the wrap | exact timing where the product fits (`ExactWhenItFits`), `PulseWithinPeriod` always, nothing closed runs (`RunningIsOpen`) |
| `GpioPin` | 1 pin, all modes, values 0-2 | `InputsKeepPull`; modes change only through close (`ModeFixedWhileOpen`) |
| `UartPort` | 2 ports, 1 callback, calls nested twice | `ImplementsDevicePort`; the ring stays empty (`NothingToPoll`) |
| `SpiBus`, `I2cBus` | 2 buses, 2 callbacks, calls nested twice | `ImplementsDevicePort` |
| `Endpoints` | 2 addresses and a bad one, at most 2 contexts and 4 sockets, both sides | no pointer to a closed object (`PointersLive`), `ShutdownWaitsForMessageOnly`, callers that shut down after a failed init leak nothing (`CarefulReleases`) |

Those of `UnityChecks` (1 520 000 states), with the parts of each property:

| part | instance | `AssertsAsStated` and the others, of this part |
|---|---|---|
| `UnityNumbers`, `UnityIntArrays` | bytes of 2 bits; every style; the corners of every width; arrays of up to 2 | judged as mathematical integers and sets of bits are, nothing to compare is a failure; `ReadsInside`; a failure shows two different values (`FailuresVisible`) |
| `UnityText`, `UnityMemory` | buffers of 2 and 3 characters, blocks of up to 3 times 2 bytes | the first difference is found and named; `ReadsInside`, one character behind a length when printing; texts that differ are printed differently |
| `UnityFloats` | 11 floats with infinities and NaN, arrays of up to 2 | `FloatsAsStated`: within means near, order means order, arrays as their elements |
| `UnityDigits` | all 256 numbers of 8 bits, all styles | `NumbersPrintedRight`: printed digits read back as the number |
| `UnityFloatText` | 2 significant digits, a machine whose numbers have up to four digits and a last place of its own (`RoundedTo4`), 18 exponents | `NumbersPrintedRight`: what is printed is a nearest number to what the rounded products left, laid out as `%g`, with the exponent's digits; the buffer holds it |

Expected violations, each a disagreement between the code and what a document,
comment or test says (`PROJECT.json`, findings):

| run | property | what happens |
|---|---|---|
| `TimeSyncUnawaited` | `RunningIsRegistered` | a late READY is answered ACK by the acknowledgement loop; the client runs unregistered |
| `TimeSyncRetry` | `RefusedMeansTaken` | after a timeout a client is refused as its own duplicate |
| `TimeSyncSlowJoin` | `EveryRunningClientTicks` | subscription later than the first broadcast: all wait for ever |
| `CanFilters` | `FiltersDecide` | the filters have no effect |
| `EndpointsLinger` | `ClientStops` | no server is ever there: shutdown waits for ever for a READY nobody takes |

Further disagreements. These properties are stated in the modules next to those
that hold, and TLC finds each violated when it takes the place of the properties
of the run named; no run of its own is kept for them.

| property | in | added to | what happens |
|---|---|---|---|
| `RunningNamesDistinct` | `TimeSync` | `TimeSyncUnawaited`, two clients of one name | duplicates are not looked for once ticking |
| `TimeAdvances` | `TimeSync` | `TimeSyncHealthy`, names of 58-63 characters | they are registered cut and acknowledged whole: nobody is ever counted |
| `AckOfThisServer` | `TimeSyncFaults` | `TimeSyncRecovery` | an acknowledgement for the dead server is counted by the next |
| `SentIsQueued` | `CanBus` | `CanFilters` with `Callbacks` of one or both values | `send` returns 0 and drops the message: the ring is full, or there is no callback, without which nothing is queued |
| `PulseIsExact` | `PwmChannel` | `Libraries`, as `Pwm!PulseIsExact` | the 32-bit product wraps at low frequencies |
| `SendCountsBytes` | `UartPort` | `Libraries`, as `Uart!SendCountsBytes` | `send` returns the callback's result |
| `ShutdownReleases` | `Endpoints` | `Libraries`, as `Ends!ShutdownReleases` | a repeated init loses what the failed one had created |
| `UninitializedIsClosed` | `TestBench` | `TestBench` | a failed test leaves its bus open for the next |
| `NullsAreEqual` | `UnityText` | `UnityChecks`, as `Texts!NullsAreEqual` | unity.c 1777: "if both null, test should pass"; `TEST_ASSERT_EACH_EQUAL_STRING` of NULL and an array of NULLs fails |
| `PrintsInside` | `UnityText` | `UnityChecks`, as `Texts!PrintsInside` | `UnityPrintLen` (unity.c 175) tests the character before the length: it reads one behind the length of a string that needs no terminator |
| `TiesToEven` | `UnityFloatText` | `UnityChecks`, as `Fraction!TiesToEven` | ties are rounded by the parity of the fraction, not of the digit printed |

Bounds. `MaxSockets` bounds how often a client process starts; three lives allow
a ghost of an earlier life (a READY or an acknowledgement still pending) to meet
the next one, twice. Times wrap within the run (`TimeMod` 4, step 3), so old and
new times do coincide. Two expected clients are the least for which one can be
done and the other not; the third client of `TimeSyncLateJoiner` is the one too
many. `Hwm` 1 in the healthy run shows that one slot per subscriber suffices. A
ring of 3 holds 2 messages, the least that shows an order, and wraps. Symmetry
over clients is used in the safety runs only. `CHECK_DEADLOCK FALSE` is set
where the system really may stop (crashed or stuck clients with their bound
used up; the findings' traces; Unity after its one call or at the end of a
program), and in `Libraries`, where callbacks may be nested as deep as the bound.

One PWM channel, one GPIO pin and one CAN bus are enough because no call looks at
another entry of its table: the ports and buses of UART, SPI and I2C are two,
since a callback of one may call the other. UART has one callback, since
a port without one answers for itself, which makes a second device to tell apart.

One restart of the server (`MaxStarts` 2) with two lives of each client lets
every kind of leftover, READY or acknowledgement, meet the new table, and each
orphan come back once. Two contexts
and four sockets are one init of each side, so every call can fail at a limit.
Callbacks nested twice show a call that returns into another one's middle.
Bytes of two bits keep four widths apart (2, 4, 8, 16 bits) with values small
enough for TLC's integers; a defect of width, sign or wrap-around shows at the
corners of each. Float text with 2 digits instead of 7 has the same limits
(`min_scaled`, `max_scaled`, `sig_digits + 3`) relative to `SigDigits`; the jump of
10^10 becomes one of 10^3 (`Jump`), still larger than the number of digits, as its
assumption asks. The machine of the run has numbers of three to four digits, more
than are significant, as a float has, with a last place that is coarser now and
then, so that a product with a power of ten is rounded up, down or not at all.
`MaxPower` (5) is a power of ten that twice a mantissa does not reach: no
comparison needs a larger one, and TLC's integers hold no much larger one
(`PowersSuffice` proves that it changes nothing).

Fairness (`LiveSpec`). The server never blocks on anything but its REP socket:
weak fairness of `StartTicking` and `AdvanceTime`. The REP socket takes pending
requests round robin between peers, so a pending request is served after
finitely many others although the server leaves `zmq_recv` in between to
advance the time: strong fairness of serving each client. A connection is
established (`Subscribe`), applications run their clients and `on_tick` returns:
weak fairness of the client's steps. None of faults or of `Shutdown`.
`RecoverySpec` adds the supervisor to a client's steps: an orphan is restarted, a
handshake that gets no answer gives up (its timeout is one second) and the client
shuts down after it. It may give up whatever is on its way; that a handshake
awaits an answer that is coming is not fairness but the condition `untimely` of
the two properties. `AloneSpec` of `Endpoints`, where nobody binds the addresses
that a client connects to, lets ZeroMQ's threads deliver and `zmq_ctx_term` return
when they can; `FairBenchSpec` of `TestBench` assumes that
the functions of the suite return, one way or another.

## 4. Proofs

`TimeSyncProofs`, for any number of clients, slots, names and starts, and any
faults. Assumed are only the named assumptions of the modules (what
`simulith_server_init` accepts, types of the constants, `Hwm >= 1`).

1. `TypeCorrect`: `Spec => []TypeOK`.
2. `TableCorrect`: `Spec => []RegistrationSound`. Inductive given the types. The
   key lemmas say that the slot found for a new name is number `ready_clients`
   (`FirstFreeSlot`) and that at most one slot matches an acknowledgement
   (`OneAckedSlot`).
3. `AcksAccounted`, `InLockStep`, `RespondedIsDone`, `AdvanceIsSafe`, under
   `UniqueNames` (no two clients are given one name; otherwise either answers for
   the other). `RespondedMeansDone` is not inductive: nothing in the message
   tells which tick it is about, so one must know that a stale one cannot exist.
   The strengthening, `Tokens`, follows each registered client's token: a
   broadcast creates it in the SUB queue, it moves to `on_tick`, to one pending
   acknowledgement, to the responded flag, and is never in two places
   (`TokenAt`); crashes may lose it but not copy it; in the handshake phase there
   are none (`Quiet`). `Tokens` is `AckAccounting /\ LockStep` (`TokensAre`), both
   also checked by TLC. `BroadcastTokens` shows why the barrier is needed: a new
   token may be created only when the old one is spent (`AllRespondedSettled`).
4. `RefinesBarrier`: `Spec => ImplementsBarrier`, under `UniqueNames` and
   `ShortNames` (at most 57 characters: the handshake reads a name 6 characters
   shorter than the acknowledgements do, so a longer one is registered cut, and
   the barrier waits for a member that does not exist; see `TimeAdvances` above).
   The refinement needs `Tokens` and that whoever is in the table is a client
   (`BarrierInv`). The server counts slots and the barrier counts members:
   `RegisterAddsName` keeps the number of names at `ready_clients`, and
   `AllRegistered` turns "every slot has responded" into "every member is done".
5. `SoundAfterRestarts`: on `TimeSyncFaults`, `FaultsSpec => [](TypeOK /\
   RegistrationSound)`, however often the server process is started and whatever
   races are lost. What the supervisor chooses to start is a step of `Next`
   (`FaultsStep`), so only `ServerRestart` is new.

`CanBusProofs`, for any number of buses and filter slots, any length of the ring
and any calls, from `CanAssumption` alone (types of the constants).

6. `TypeCorrect`: `Spec => []TypeOK`.
7. `RefinesContract`: `Spec => ImplementsContract`. `TypeOK` is all the invariant
   it needs, since the queue of the contract is a function of the ring. The
   arithmetic modulo the length of the ring is done once, in `RingIndices`: with
   `n = (head - tail) % RX_SIZE` messages, the next head is the tail exactly when
   `n = RX_SIZE - 1`, and no waiting message lies in the slot at the head.
   `StoreAppends` and `ReceiveRemoves` turn that into `Append` and `Tail` of the
   queue; then each action is shown to be a step of the contract.

`LibrariesProofs`, on PWM from `PwmAssumption` (a second of nanoseconds fits in the
word, the least frequency is not 0), for any number of channels.

8. `PwmTypeCorrect`, `PulseEndsInPeriod`, `TimingExact`, `ClosedIsStopped`. None of
   the three properties is inductive: what bounds the pulse is that the
   configuration of an open channel was checked and that `update_timing` ran
   last, which `Timed` says. The arithmetic (a quotient, a product by at most 100,
   a remainder that only shrinks it, a hundredth) is in four lemmas of its own.

On GPIO from `GpioAssumption`, for any pins and any bytes passed.

9. `GpioTypeCorrect`, `PullKept`, `ModeKept`. `InputsKeepPull` is inductive with the
   types, since `write` and `toggle` refuse what is no output.

`DevicePortProofs`, for any number of ports, any configurations, callbacks and
results, and any depth of nesting.

10. `UartTypeCorrect`, `SpiTypeCorrect`, `I2cTypeCorrect`, `UartPollsNothing`.
11. `UartImplements`, `SpiImplements`, `I2cImplements`: each library implements
    `DevicePort`. The refinement maps the table to the devices attached and the
    stack of calls that have not returned to the stack of `DevicePort`
    (`Frames`); the lemmas on `Frames` say that entering and leaving a callback
    commute with it. What must be known of a frame is that its callback was not
    NULL when the call was made, and, for UART, that the ring is empty, so
    `receive` reads nothing that `DevicePort` does not know of.

`EndpointsProofs`, from `EndpointsAssumption`, for any addresses and any limits
of ZeroMQ, whatever inits fail half way.

12. `TypeCorrect`, `PointersStayLive`, `ShutdownWaits`, `CarefulLeaksNothing`. The
    inductive invariant `IInv` says who owns what: ids are unique, a context
    outlives its sockets, each side holds a context of its own and points to open
    sockets of its own two kinds (so no shutdown closes a socket of the other
    side), the context it holds has no other sockets than those, and a side that
    has always shut down has no other context. TLC has checked it on three
    contexts and five sockets. `OpenCreates` brings the early returns of the two
    `init` functions to one form, of which `CreatesKeeps` proves the step; a new
    id is free (`NewIdFresh`) because every socket's context still exists.

And on the programs, from `LibrariesAssumption`, which is that of each library: the
properties of the run `Libraries`, for every value of its constants.

13. `LibrariesTypeCorrect`, `CanImplementsContract`, `PwmPulseWithinPeriod`,
    `PwmExactWhenItFits`, `PwmRunningIsOpen`, `GpioInputsKeepPull`,
    `GpioModeFixed`, `UartNothingToPoll`, `LibrariesImplementDevicePort`,
    `EndpointsPointersLive`, `EndpointsShutdownWaits`, `EndpointsCarefulReleases`.
    A step of a program is a step of the library it uses and a stutter of the
    others (`LibraryStep`), so each library behaves as it does alone
    (`LibraryRuns`), and what items 6 to 12 say of it carries over. `EndpointsProofs`
    extends its module and is an instance here; `EndsSame` says that this instance
    and the one of `Libraries` are about the same formulas.

`TestBenchProofs`, from `RunAssumption`, for any number of tests and exit statuses
and user code that does whatever the runner lets it.

14. `RunnerTypeCorrect`, `EachCountedOnce`, `FlagsAreFresh`, `ExitIsVerdict`,
    `TearDownRunsOnce`. They need each other, and one fact more: `AbortFrame` is
    that of the function that runs (`Framed`), without which an abort could lead
    anywhere. Counts are sizes of sets of tests (`AmongAppend`, `AmongBound`).
15. `TestsRunOnRunner`: `BenchSpec => Spec`, so all of this holds of the device
    tests.
16. `BlameStaysLocal`, `FirstBlameHolds`, from `BenchAssumption` and
    `SuiteAssumption`, for any suite: as long as tearDown closes the ports, or no
    test has failed, the ports that are open are those the running test has opened
    itself and not closed up to its present statement (`OpenIsOwn`,
    `OpenBeforeNext`), so only its own checks can fail. What a test leaves open is
    closed by tearDown, or, where that is empty, by the assumption on tests that
    pass.

`UnityProofs`, from `ChecksAssumption`, which is that of each part, and
`WordAssumption`: bytes of any number of bits, a float with any largest value and
precision, buffers, arrays and strings of any size.

17. `AssertionsJudge`, `ReadsStayInside`: failure is equivalent to a relation that
    does not hold, or nothing to compare, in every part; and reads stay inside but
    for the one character that printing a string of a given length looks at. Each
    part has an invariant that says where the loops are, that the pointers are at
    that element, and that nothing before it differs: `MemoryInv`, `TextInv`,
    `ArrayInv`. For integers the rest is arithmetic. `2^n` has no theory in the
    provers; that it doubles and grows comes from counting subsets
    (`PowerDoubles`, `PowerGrows`). From it, `CastsAreInverse` and
    `DifferenceWraps` say what the casts and a subtraction in `UNITY_UINT`
    compute, and `ComparisonsAreOfNumbers` that two `UNITY_INT`s which stand for
    two numbers of a style compare as these do, with a delta too. `LoadedNumber`
    and `ArgumentStandsFor` say that what arrays hold and macros cast does stand
    for the number it should. The assumption that memory holds patterns of its
    width is what makes this true.
18. `FloatAssertionsJudge`, with `FloatInv`: `WithinMeansNear` and
    `ElementMeansNear` go through the special values and the differences that
    overflow to an infinity.

19. `FailuresShowDifference`, from `ChecksInv /\ FailuresVisible`. What a style
    prints keeps the pattern a number was read from (`LowKeepsPattern`), so two
    patterns that differ are shown differently (`ShownDiffer`). A text is a fold
    over its characters, which needs induction over its length: `Induction` is
    proved here by counting, with finite sets, and gives `LeastElement` and
    `PrintsByCharacter`. The codes of two characters differ in a place both have
    (`CodesDiffer`; a char is -128 .. 127, and the backslash is the exception), so
    texts that agree up to a character and not in it are printed differently, with
    a length or without (`PrintsDiffer`, `PrintsLimited`), and none looks like NULL
    (`QuotedDiffer`).

`UnityPrintProofs`, from `ChecksAssumption`: numbers of any width, any number of
significant digits, any mantissa and exponent.

20. `NumbersReadBack`: `ChecksSpec => []NumbersPrintedRight`. The powers of ten and
    the reading of digits are recursive functions (`UnityDecimals`); that they exist
    and satisfy their equations is itself proved (`GrowthExists`, `TenToGrows`,
    `ReadBackReads`), by the `Induction` of item 19, and gives `TenToSum`,
    `ReadBackAppend` and `ReadBackPrepend`.
    Integers: `DigitsInv` says that what is printed so far reads as the number
    divided by ten times the divisor, or by a power of 16, and that the first digit is
    not 0; `NextDigit` and `NextNibble` are the arithmetic of one more digit.
    Floats, from `FloatTextAssumption`: the fraction of a number of the machine is
    one again, a product is rounded to a number of the machine, and rounding does
    not carry a product over a power of ten that the product itself does not pass
    (as it is where rounding is monotone and these powers are floats). `FractionInv`
    says for each loop where the number is (`LoopsInv`). While it is scaled, what is `kept` of
    it is all in `number`, but for the powers of ten in the factor and the exponent
    (`IsScaled`), or its integer part, scaled, is in `n_int` and the rest in
    `number` (`IsSplit`). `Product` says that no loop goes beyond the digits that are
    significant, however it rounds, and `SplitCompared` the same of the integer
    part. Rounding the rest to an integer rounds the whole (`PartsNearest`), whether
    the last product was rounded before (`SumStands`) or not (`SplitIsNearest`), up
    to the next power of ten at most (`RoundInv`, `NearestBounds`). From
    then on, what `n` and `buf` hold together is as close to `kept` as half of
    the last significant digit, in any unit (`IsClose`, `CloseInUnits`), and its
    first digit stands for the power of ten that chose the format (`IsPlaced`):
    dropping a zero moves it to the exponent (`CloseWithoutZero`), moving a digit to
    `buf` changes nothing (`DigitsInMove`); nor does moving one of the exponent
    (`ExponentInv`).

Model-checked only: all liveness (fairness and ENABLED are out of the prover's
reach). Every other property of a passing run is a theorem.

## 5. Not modelled

- `simulith_log`: pure output.
- Calls of `shutdown` from another thread while a loop runs, for which ZeroMQ
  defines nothing; an application that enters the tick loop after a failed
  handshake; a zero-length request; the update rate of a client, which no code
  reads; `current_time_ns`, which a second `simulith_server_init` of one process
  does not reset (a new process starts at 0).
- Payloads of CAN, UART, SPI and I2C: no code looks at them.
- Of Unity: the assertions on doubles (unity.c 1217-1441), the same code as those
  on floats with another type, compiled only with `UNITY_INCLUDE_DOUBLE`;
  `UnityPrintF` (1927-2161) and the command line (2314-2553), compiled only with
  macros the build does not define; colours, wording and Eclipse output;
  how many bits a float has: the rounding of its products is a parameter of the
  model, and that of a difference in `UnityFloats` is left out.
- What each single assertion of the device tests expects.

## 6. Plan

The plan is carried out. What would extend it: the promises of the protocol
across a restart of the server, of which item 5 proves what the table keeps and
TLC checks that time recovers; and binary floats in the place of the assumed
rounding, which would say how far what is printed is from the input.
