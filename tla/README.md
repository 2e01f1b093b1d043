# A verification project for ESP32-freeRTOS

The repository is a collection of ESP-IDF programs for the ESP32: small ones
that each show one FreeRTOS object (queue, semaphore, mutex, event group, task
notification, timer), drivers for a few sensors, and a series that ends in
`wifi_mqtt_6`, which sends readings over Wi-Fi and MQTT. Every directory is a
program of its own; what they share is the kernel. This directory holds TLA+
models of the programs in which tasks, interrupts, events and time-outs
interact, the TLC configurations that check them, and TLAPS proofs.

    tlc -workers 2 -config MqttUndisturbed.cfg MqttReading.tla   # one run
    tlapm MqttReadingProofs.tla                                  # one module of proofs

`PROJECT.json` lists the runs, the properties, the source lines of every
definition, the hazards and the theorems.

## 1. Inventory

### Programs that are modelled

| program | tasks and handlers | shared state | module |
|---|---|---|---|
| `wifi_mqtt_6` | `generateReading`, `OnConnected`/`MQTTLogic`, Wi-Fi `event_handler`, `mqtt_event_handler_cb` | `readingQueue`, the notification value of `taskHandle`, the MQTT clients | `MqttReading`, abstractly `ReadingPipeline` |
| `wifi_connect_4`, `wifi_getdata_5` | `app_main`/`wifiInit`, `event_handler`, `OnConnected` | `connectionSemaphore`, the driver, its configuration in flash | `Connection` |
| `TaskNotification_1` | `sender`, `receiver` | a counting notification value | `NotifyCount` |
| `Task Notification 2` | `sender`, `receiver` | a notification value used as bits | `NotifyBits` |
| `Semaforo_Mutex_1` | `tareaLP`, `tareaHP` | `xMutex` | `PriorityMutex` |
| `gruposEventos_2` | timer callback `ISR`, `app_main`, `tarea1..3`, the timer task | `smf`, `count`, `state`, the event group | `EventTimer` |
| `gruposEventos_1` | `app_main`, `tarea1` | the event bit | `EventTimeout` |
| `cxColas_1` | `tarea1`, `tarea2` | a queue of ten | `QueueTimeout` |
| `cxColas_2` | `sendTask1`, `sendTask2`, `receiveTask` | a queue of five, written at its front | `QueueFront` |
| `Semaforo_Test1` | `isr`, `tarea1` | a binary semaphore | `IsrBinary` |
| `Semaforo_Contador1` | `isr`, `Tarea1` | a counting semaphore, `state` | `IsrCounting` |
| `spidemo_dac` | `adcRead_task`, `app_main`/`dacSetVoltage` | the global `adc_reading` | `DacSampling` |
| `dhtdemo` | `dht_task`, the driver `dht.c`, the sensor on the line | none: one caller | `DhtReader` |
| `SDcard` | `app_main`, the card, the power supply | the files on the card | `SdCard` |
| `i2c_PCA_MPU6050` | `loop_task`, the multiplexer, the sensor | the heap; channel and mode, which outlast a reset | `Mpu6050` |
| `i2cPCA9548a`, `i2c_scanner` | `loop_task` or `app_main`, the devices | the multiplexer's channel | `MuxScan` |
| `LM75_Mid` | `app_main`, the sensor | the sensor's mode and register | `Lm75` |
| `uart_eco_vscode`, `uart_rxtx_task` | the reader, the UART driver, the sender | the ring buffer, the buffer from `malloc` | `UartReader` |
| `Timergroup` | `timer_group0_isr`, the timer | `cnt`, the alarm | `HardwareTimer` |
| `wifi_ntp_3` | `app_main`, `on_got_time`, the SNTP client | the clock, the registered callback | `NtpClock` |
| `mutex_2` | `task1`, `task2` on two cores | `mutexBus` | `TwoWriters` |

### Programs that are not modelled

`hello-world`, `adc`, `Task_FreeRTOS`, `Timer_Hardware`, `uartdemo`, `wifi_escaner_2`
and `wifi_basic_1` have one task, or two that share nothing. They print, toggle
pins and call drivers whose results they do not look at: no order of their steps
differs from another, and no state of theirs outlives a step. (`adc` is the
sampling loop of `spidemo_dac` with a local in place of the global;
`wifi_escaner_2` indexes a table with a number the access point announces, which
is in the list of hazards.) The timer and the semaphore of `timerSoftware_1` are those
of `gruposEventos_2`, whose `EventTimer` has the same callback and the same take; the
busy tasks of `tareas_Planificador_1` share nothing but time: how it is divided
is the scheduler's doing and not the program's.

FreeRTOS, ESP-IDF's event loop, the Wi-Fi driver, the MQTT client, the ADC, the
DAC and the sensors are not in the repository. They appear in the models
as what the programs see of them, and `PROJECT.json` marks each definition that
stands for one of them as external.

### What is hard in these programs

- **One notification value, several writers.** `wifi_mqtt_6` passes three
  commands through one 32-bit value that each writer overwrites, from the event
  task and from the MQTT client's task, and the value outlives the session.
- **A semaphore used as a state.** `wifi_connect_4` takes one semaphore twice a
  turn, once for "connected" and once, it seems, for "no longer connected", but
  only an address ever gives it.
- **Time-outs against periods.** `gruposEventos_1`, `cxColas_1`, `cxColas_2`,
  `Semaforo_Mutex_1`, `Semaforo_Test1` are right because of their delays: a send
  whose result is ignored, an event that is not counted, an item put in front
  of another.
- **Shared data without a lock.** `spidemo_dac` accumulates its sum in the global
  that the other task sends to the DAC.
- **Full queues and semaphores.** Their errors are ignored throughout.
- **Restarts.** `wifi_connect_4` relies on `esp_restart`; `wifi_mqtt_6` may panic
  on a NULL client. Whatever is not the ESP32 outlasts its reset: the files of
  `SDcard`, the multiplexer's channel, the mode of a sensor, the clock of
  `wifi_ntp_3`.
- **Results nobody looks at.** A write, an unlink, a transfer or a `fgets` that
  fails leaves the program to go on with what it has, which may be bytes nobody
  wrote.
- **Resources used up.** A command link lost per reading, a buffer half as large as
  what is read into it.

## 2. How the models correspond to the code

All modules keep the code's names. A task is a program counter and its locals,
one action per call that can block or that another task can observe; an
interrupt or a callback is an action; printing is no action unless a property
is about what is printed. An error the code ignores stays ignored.

**MqttReading** (`main.c`, `connect.c`). `pc` is where `OnConnected` stands: in
`xQueueReceive`, in `xTaskNotifyWait`, or about to run the `command` it got.
`StartClient`, `Publish` and `EndSession` are the three cases of the `switch`.
`notice` is the notification value. `events` is the queue of the event loop;
`event_handler` handles its head. `conn` and `outbox` are the MQTT client
objects: after `esp_mqtt_client_init` they live until they are destroyed,
whether `MQTTLogic` still has a handle to them or not; with `HeapFull`
`esp_mqtt_client_init` returns NULL. `Dropped`, `Renew` and
`LoseLink` are the faults, each with a bound. `Panic` is the other outcome of a
call with a NULL `client`: a reboot that empties the queue. The queue has
four places, because `xQueueCreate(sizeof(int), 10)` has its arguments swapped.

**ReadingPipeline** is the abstract specification: readings are offered in order,
may be turned away only when the pipeline is full, and are delivered once, in
order. `MqttReading` implements it under the mapping `waiting` = the reading of
the session, until it is delivered, followed by the queue.

**Connection**. One module for two programs, which differ in the driver calls of
`wifiInit`; `program` is chosen at the start. Time is in seconds and passes only
when nothing can run, so the two time-outs (ten and five seconds) are exact.
Credentials are stored by the driver and survive `esp_restart`.

**NotifyCount**, **NotifyBits**. The delays of the senders end when the receiver has
long been blocked again: a second and five seconds against a line of output.

**PriorityMutex**, **EventTimer**, **QueueFront**, **IsrBinary**. A tick is an action;
it happens when all tasks are blocked, and at most once while a task is busy for
less than a tick. The ready task of the highest priority runs. `PriorityMutex` gives the
holder of the mutex the priority of the task that waits for it; with two tasks there is
no third that this could keep from running. In `QueueFront` a send to a full queue waits
a step (100 ms) for room and then fails, which five slots never need. In `EventTimer` the
timer task runs the callback, and also sets the bits that `xEventGroupSetBitsFromISR` was asked for.

**EventTimeout**, **QueueTimeout**. Two clocks that count down together; when both
reach zero at once the order is open. `EventTimeout` lets a report carry `tarea1`
into the next tick, so that the clocks drift.

**IsrCounting**. The button is external: it may be pressed `MaxBurst` times at once,
and for the rest not faster than four toggles take. Without such a limit gives
are lost, and neither the interrupt nor the task notices: with `MaxBurst = 3`,
which the assumption excludes, twelve gives meet a limit of ten.

**DacSampling**. `dacSetVoltage` reads `adc_reading` between any two steps of the
sampling loop. `Command` builds the sixteen-bit word, `Byte` its two bytes and
`Latched` reads them as the data sheet of the MCP4822 does.

**DhtReader**. `Await` is one call of `dht_await_pin_state` or one level of the
data phase: the line holds a level for a number of microseconds, the reader polls
every two, and what it overshoots shortens the next level. TLC gets bytes of
two bits: nothing in the fetch, the checksum or the conversion depends on
there being eight, and the time-outs are those of the code.

**SdCard**. `pc` names the call on the card that comes next; each succeeds or
fails, and where the code looks at the result the failure ends the run. Opening
for writing empties the file, on the card at once or not before it is closed. The
power may be cut before any call. `faults` counts since the last run that nothing
disturbed, `suffered` says what they were, and `mishaps` what went wrong since the power
came on; all three are history the properties need.

**Mpu6050**. `heap` is the number of command links there is room for; a read takes
two and gives one back, and is no transfer when the second is NULL. `Byte` and
`Assembled` take a register apart and together, `TempDeg` is the arithmetic of
`getTemp` with its two roundings. Bytes never written are the value `Garbage`. The
channel and the sleep mode outlast a `Reset`; a `Brownout` changes them behind the
program's back.

**MuxScan**. One module for the two scans, `board` telling which; addresses are asked
one by one, and a transfer may fail at any of them.

**Lm75**. Time is in ticks of 10 ms and passes during the delay and after `app_main`
has returned; the sensor, when awake, converts within a tick and then every ten.
`AsSent` is the format of the register, `Temperature` what the code makes of it.

**UartReader**. One module for two programs; `reader` says which, and `Allocated` and `Asked`
give for each of them what it allocates and what it asks for. Flow control is off, so
`Arrive` waits for nobody. `Copy` and `uart_read_bytes` are the driver's call: it
collects until it has what was asked, or until nothing came for the time-out.
`Overrun` is a write, of a byte or of the terminator, behind the buffer: only `uart_eco`
asks for more than it has, and what that program does afterwards is not modelled.
`data` is the buffer as it was ever written, kept from chunk to chunk. Byte `n`
of the text has the value `n`, so that order and repetition show in what is printed;
the bytes in `Zeros` are NULs as well, at which `%s` stops (`out`) and the hex dump of
`rx_task` does not (`dump`).

**HardwareTimer**. The timer disables its alarm when it goes
off; the interrupt waits up to `Latency`. `cnt` is an `int` whose greatest value is
`INT_MAX`: the increment runs over as the build has it, and the remainder keeps the sign.

**NtpClock**. An answer may come at any moment after `sntp_init`, also before the
callback is set; the next question is asked after fifteen seconds or an hour, long
after `app_main` has gone on. A restart keeps the clock, a loss of power does not; what
it shows is `"1970"`, `"drifted"` or `"right"`. The time zone is left out.

**TwoWriters**. Both tasks may be busy at once, each on its core, and each for less than
a tick.

## 3. Runs

Programs that share nothing are checked together where they wait for the same kind of
thing: the modules `MCTasks`, `MCTimeouts`, `MCSensors`, `MCInterrupts` and `MCServices`
extend one program's module, instantiate the others', and choose in the initial state which of them a behaviour is of. They
declare the constants of the modules they instantiate and assume of them what those
modules ask (`BinaryAssumption`, `TimerAssumption`, ...), so that TLC evaluates the
assumptions the proofs use.

| run | checks | shows |
|---|---|---|
| `mqtt_undisturbed` | `TypeOK`, `NoNullClient`, `SessionEndsDelivered`, `CleanBetweenSessions`, `NoCommandLost`, `ImplementsPipelineSteps`, `PipelineGoesOn` | with one address and one broker connection per session no command is overwritten and the pipeline is implemented; a lost link stops it but breaks nothing |
| `mqtt_faulty` | `OwnClientInTurn`, `SessionEnds` | what survives broker drops and renewed addresses: a session's own client never delivers late, and the session ends |
| `connect` | `RestartCause`, `WorksInTheEnd` | a restart of a connected chip has one of two causes, and otherwise the task does its work |
| `connect_renewal` | `RestartOnlyWithoutConnection` (violated) | see below |
| `tasks` | `BoundedBlocking`; `ReleasedTogether`, `EachExpiryCounted`, `RoundComplete`; `NoBitLost`, `HalvesNotMixed`; `EveryGivePrinted` | the wait for the mutex lasts one sleep at most; every expiry counts and every task is woken in every round; neither use of the notification value loses or mixes anything |
| `timeouts` | `TimeoutAfterThree`, `NoEventMerged`; `ReceivedInTurn`, `TimeoutsOnlyInPause`; `SenderOrder`; `NeverTimesOut` | time-outs are reported where they are meant to be; a queue written at its front keeps the order all the same; the "timed out" branches of `mutex_2` are dead code |
| `sensors` | `AverageWithinSamples`, `SettingsKept`; `ReadingIsMeasured`, `SteadyLineRead`; `PrintedAsHeld`; `ScanShowsSelected`; `FreshTemperature` | what is printed or sent is what was measured while line, bus and heap are in order, whatever an earlier run left (for the negative temperatures of `LM75_Mid` see below); a disturbed level or a torn value does no other harm |
| `dac_torn` | `VoltageInRange` (violated) | see below |
| `interrupts` | `AnsweredInTime`, `TimeoutOnlyIfQuiet`; `NoGiveLost`; `SquareWave` | presses during pulses and sleeps are kept and answered; no pulse is lost when the interrupt is late or its counter runs over |
| `services` | `Echoed`; `OneFaultSurvives`, `LineIsGreeting`, `RunRepairs`; `TimeShown` | what `rx_task` receives is printed and dumped once and in order, and so is what `uart_eco` receives while its buffer suffices; one cut or failure, a failed write excepted, never costs what was on the card, and the next run repairs it; an answer nobody was told of is made up for |
| `mpu_leak` | `FunctionsRead` (violated) | see below |
| `uart_overrun` | `AllDataSent` (violated) | see below |

Each property has a mutant of the code in `PROJECT.json` that breaks it.

### Where the code disagrees with its comments

- `connect_renewal`: the comment at `wifi_connect_4/main/main.c:89` says the chip is
  restarted if there is no connection. When the address is obtained a second
  time while the link is up (a DHCP renewal, say), the second take of the loop
  succeeds, the first take of the next turn times out, and a connected chip
  restarts. `RestartCause` shows that the only other way is an address that
  arrives during the countdown.
- `dac_torn`: `mcp4822.c:82` gives the range 0-4095 for the argument of
  `dacSetVoltage`; `app_main` passes whatever the accumulator holds.
- `mpu_leak`: `i2c_PCA_MPU6050.c:5` lists functions that read the sensor. Each
  creates its command link twice and deletes it once, four lost links a
  second; once the heap has no room, they return bytes nobody wrote, for ever and
  without a word. `PrintedAsHeld` shows that before that they are right.

- `uart_overrun`: `uart_eco.c:12` says that all data received on UART2 is sent to the
  main port. The buffer has 1024 bytes (line 45), the read asks for 2048 (line 48), and
  nothing holds the sender back: it writes to UART2, and what it would see of an
  echo goes to another port. A sender that makes no pause of 20 ms fills the
  buffer, and the next byte is written behind it before one is printed. `Echoed` shows
  that `rx_task`, which asks for one byte less than it has, never does this.

Three more are evident from the code and have no run: `%s` in `uart_eco.c` stops at a
NUL, and line 12 speaks of all data; the head of `Timergroup/main.c`
speaks of a pulse of one millisecond, and the interval is ten; `wifi_ntp.c:14` says the
zone is that of Colombia, and `EST5EDT` has daylight time, which Colombia has not.

### What the properties do not promise

- `uart_eco_vscode`: after an overrun nothing is said of what is printed; before it,
  `Echoed` promises everything only of a text without NULs and a ring buffer that
  never ran full.
- `wifi_mqtt_6`: `NoCommandLost` compares values, and would not notice a command
  overwritten by the same one. `NoNullClient`, `SessionEndsDelivered` and
  `CleanBetweenSessions` are about undisturbed sessions; what a broker drop or a renewed address
  does to them is below.
- `Semaforo_Contador1`: `NoGiveLost` holds for a hand on the button as slow as `MaxBurst` and
  the credit say; nothing in the code makes it so.
- `SDcard`: a write that fails unnoticed (a full card) replaces the greeting by its
  beginning: `OneFaultSurvives` and `LineIsGreeting` except it. Two faults lose it
  too: a cut between unlink and rename, and another while the next run, which
  begins by emptying `hello.txt`, writes it anew.
- `LM75_Mid`: below 0 degrees the number printed and the true one add up to -128.
  Nothing in the repository says otherwise, so `FreshTemperature` states it of the
  code, and it is not a finding.
- `LM75_Mid`, `i2c_PCA_MPU6050`: a failed transfer prints whatever was on the stack.
- `wifi_ntp_3`: the time is shown at last, not within a time: after an answer nobody was
  told of the next one comes in an hour.

### What disturbs wifi_mqtt_6

With a broker connection dropped or an address obtained twice in one session, the
properties of `mqtt_undisturbed` do not hold, and nothing in the repository says
they should: the client publishes the reading again after it reconnected, the
second `MQTT_PUBLISHED` is consumed by a later session, which ends without having
delivered its reading or calls the library with a NULL client; a second
`WIFI_CONNEECTED` makes a second client and forgets the first. `mqtt_faulty`
checks what is left. `SessionEnds` and `PipelineGoesOn` except a lost link: the
`DISCONNECTED` event is only logged, and the session waits for ever.

Not even the order of first deliveries is left, once an address is obtained twice in two
sessions. TLC finds this behaviour, without a broker drop: the first session makes a second
client and forgets the one that has published reading 1; so does the second session
after publishing 2. Now the client forgotten first delivers 1 again, which ends the
second session, and the one forgotten in it delivers 2 in the third session, after 3. With
one renewal and one drop TLC finds the order kept. What holds in general is
`OwnClientInTurn`: only forgotten clients deliver late. And because no client that was
forgotten is ever destroyed, the heap runs full at last; `SessionEnds` excepts that
too. A client forgotten once is heard in every session that follows: it connects again when
the Wi-Fi is back, its `MQTT_CONNECTED` has the session's reading published a second
time, and so the number of repetitions has no bound in the number of faults.

### Bounds

- `MqttUndisturbed.cfg`: five readings against a queue of two, so that the queue
  runs full and a session is followed by several others; two clients, so that a
  second one could exist; one lost link, at any moment. `MqttFaulty.cfg`: three
  readings, three clients and a queue of two, two renewals and one fault of every other
  kind. That is enough for the longest chains known: a fault in the first session, a stale
  command in the second, its effect in the third; and two sessions that forget a client
  each, which leaves room for one only.
- `Connect.cfg`: an access point that may take thirteen seconds falls after the
  take's ten and before the countdown's end; two renewals are a swallowed address
  and the one after it. The clock stops at eighteen seconds, past the thirteen
  of the slowest answer and the fifteen of the fastest restart. An answer after fifteen
  seconds, when both waits are over, may meet the restart itself; `RestartCause`
  holds up to fourteen (`AnswersInTime`), and with fifteen TLC refutes it.
- `Tasks.cfg`, `Timeouts.cfg`: the delays, sizes and limits of the code; the bits are
  those of its loop; twenty notifications are ten turns of their sender. In `QueueFront`
  the counters go round after three: the queue never holds more than two items.
- `Interrupts.cfg`: the delays and the limit of the code; the timer's period in
  tenths of a millisecond with up to two of latency; three bits of `cnt` run over
  after four pulses.
- `Sensors.cfg`, `DacTorn.cfg`: three samples in place of 64, out of the two ends and two
  inner values of the range; bytes of two bits for the DHT, with measurements that
  carry, overflow the sum of the bytes and have a sign, level lengths at
  both ends of the data sheet, and one level of any of five other lengths; registers
  at both ends of the range, around zero, where a byte carries and where the division
  changes; an address that is used on both channels; links for two turns and
  one read more, with two faults. `MpuLeak.cfg` has the same links and no fault.
- `Services.cfg`, `UartOverrun.cfg`: buffer, request and ring in the proportions of the code
  (3 : 6 : 6 and 4 : 3 : 6); fourteen bytes, sent at any moments, fill the buffer of
  `uart_eco`, overflow the ring and make several chunks of different lengths; the twelfth is a
  NUL in `Services.cfg`, and there is none in `UartOverrun.cfg`; three faults of the card, in any
  state of both files: two of them are what it takes to lose the greeting, a third
  disturbs the repair. The clock of `wifi_ntp_3` needs no bound.

`CHECK_DEADLOCK FALSE` appears where a bound or a lost link really ends the
behaviour: the two MQTT runs, and `Services.cfg` and `UartOverrun.cfg`, whose senders
stop. All other runs check for deadlock; in `MCTasks` the end of the bounded sender is
a step of its own (`Ended`).

### Fairness

Weak fairness for each task, on the grounds that the scheduler is preemptive and
every task blocks in each turn of its loop; for the tick and the event
task; and, in the Wi-Fi models, for the access point and the broker to
answer what they were asked. In `NtpClock` the answer is strongly fair: a server that
is asked again and again answers once. No fault is fair. The safety properties need
none of it.

## 4. Proofs

There is one module of proofs for each group of programs that run together; it
extends the module of the run, so that every theorem is about the very
definition the run checks. The theorems hold for all values of the constants that the
named assumptions of the modules allow. Each of them follows from an invariant
that is proved inductive; those invariants are stated at the end of the component's
module, and TLC agrees with each on the constants of the run.

| module | theorem | states | for every |
|---|---|---|---|
| `MqttReadingProofs` | `TypeCorrect` | `TypeOK` | number of faults of each kind, of clients and of readings, any queue length |
| | `SessionNeverLate` | `OwnClientInTurn` | the same |
| | `NeverNullClient`, `NeverAbandoned`, `AlwaysClean`, `CommandsNeverLost` | `NoNullClient`, `SessionEndsDelivered`, `CleanBetweenSessions`, `NoCommandLost` | number of readings, clients and lost links, under `Undisturbed`: no broker drop, no second address |
| | `StepsRefine` | `ImplementsPipelineSteps` | the same |
| `ConnectionProofs` | `RestartsExplained` | `RestartCause` | number of further addresses and lost links; the access point answers within fourteen seconds (`AnswersInTime`) |
| `NotificationsProofs` | `BitsNeverLost`, `HalvesNeverMixed` | `NoBitLost`, `HalvesNotMixed` | sequence of sets of bits |
| | `GivesCounted`, `CountsWithinTurn` | `EveryGiveCounted`, `CountWithinTurn` | number of notifications |
| `OneCoreProofs` | `BlockingIsBounded` | `BoundedBlocking` | delay of either task |
| | `SeenTogether`, `NoExpiryLost`, `RoundsAreComplete` | `ReleasedTogether`, `EachExpiryCounted`, `RoundComplete` | period, and delay shorter than it |
| `TimeoutsProofs` | `ThreeThenTimeout`, `NeverMerged` | `TimeoutAfterThree`, `NoEventMerged` | delays in the proportions of `TicksAssumption` |
| | `NeverDropped`, `AlwaysInTurn`, `PauseOnly` | `NothingDropped`, `ReceivedInTurn`, `TimeoutsOnlyInPause` | queue size and number of items; the delays are those of the code |
| | `FrontInOrder` | `SenderOrder` | queue size, range of the counters, delay of more than two ticks |
| | `MutexInTime` | `NeverTimesOut` | sleeps of more than one tick, patience of more than three |
| `SensorsProofs` | `AveragesAreAverages`, `SettingsAlwaysKept` | `AverageWithinSamples`, `SettingsKept` | number of samples, value of `adc_reading` |
| | `ScansAreRight` | `ScanShowsSelected` | set of devices on the bus and behind each channel |
| | `NeverStale` | `FreshTemperature` | temperature, delay longer than a conversion, period |
| | `PrintsWhatIsHeld` | `PrintedAsHeld` | content of the registers, size of the heap, number of faults |
| | `ReadingsAreMeasured`, `SteadyLinesAreRead` | `ReadingIsMeasured`, `SteadyLineRead` | measurement that fits its bytes, number of wrong levels; bytes have the eight bits of the code |
| `InterruptsProofs` | `GivesNeverLost`, `LedAtRest` | `NoGiveLost`, `LedOffAtRest` | limit and burst with `4 * MaxBurst <= Limit` |
| | `PressAnswered`, `TimeoutsAreQuiet` | `AnsweredInTime`, `TimeoutOnlyIfQuiet` | patience and sleep |
| | `WaveHasNoGap` | `SquareWave` | period longer than the latency, width of `int` |
| `ServicesProofs` | `ReaderEchoes` | `Echoed` | size of buffer, request and ring, place of the NULs and length of the text; only `rx_task` is assumed to ask for less than it allocates |
| | `CardFaultSurvived`, `CardLine`, `CardRepaired` | `OneFaultSurvives`, `LineIsGreeting`, `RunRepairs` | number of faults, initial content of the card |

The arguments, in short:

- **MQTT, undisturbed.** That a pending command is never overwritten is not inductive:
  it depends on where the next event can come from. `SinglePhase` says
  that there is one token. A session is in one of seven phases (idle, joining,
  joined, connecting, online, publishing, confirmed), and in each exactly one
  of the event loop, the driver, the client and the notification value holds what
  happens next. Whoever notifies therefore finds the value empty; and when
  `MQTT_PUBLISHED` arrives the outbox was that of this session. The refinement of
  `ReadingPipeline` needs also that no reading is in two places (`EachReadingOnce`):
  the queue holds different readings, none of them delivered or in hand, and the
  session's reading is delivered in the phase `Confirmed` only. Then `Generate`
  maps to `Offer`, the client's confirmation to `Deliver`, and `Receive`, the end
  of the session and all the rest to a stutter.
- **MQTT, with faults.** `TurnInv` holds whatever happens. Readings leave the queue in
  the order they were drawn; what has left it, in hand, in any outbox or delivered
  (`Taken`), is older than what is in it and no younger than the session's reading;
  and the session's client, free before the session took it, was given that
  reading only. So nothing delivered is younger than what it has to deliver.
- **Connection.** Up to its first address a run follows the clock. `OnTime` says that a
  task in its first wait, or in the countdown, has spent or has left ten, or
  fifteen, seconds since the start, which is so because a second passes only when
  nothing can run; `FirstAddress` says that the first address is posted, then given,
  then taken, with nothing in between. At a restart fifteen seconds are over: an
  address that was still posted would be later than `JoinTime`.
- **Notifications.** What is given and not yet printed is at most what this turn of
  the sender gave (`InFlight`). A pending notification keeps its bits in the value, and an
  empty pending state leaves none there that belongs to another half (`ValueOfHalf`).
- **One core.** What `tareaHP` has waited and what `tareaLP` has left to sleep add up to
  one sleep and a tick (`WaitsForOneSleep`). What an expiry of the timer causes is a chain in
  which at most one link is active (`OneAtATime`), and it is over within a tick of the expiry
  (`DoneInTime`): the next one finds the semaphore taken, no bit set, and exactly
  the tasks woken that the count says (`WokenSoFar`).
- **Time-outs.** `ClocksInStep` relates the two clocks for every number of bits already
  set; the inequalities say that a gap is shorter than the patience, and the rest
  with the gap longer than one patience and shorter than two. The code's numbers
  (33, 100, 100) satisfy them. In `cxColas_1` the queue holds at most the number just sent
  (`OneInFlight`), and between two numbers the clocks differ by a constant.
  In `cxColas_2` each sender has at most one item in the queue or in print
  (`OneEach`), because it sleeps until that one has been reported (`Asleep`): so the
  end at which items are put does not matter. In `mutex_2` the patience used up is a
  tick before the other task takes the mutex, one while it writes and one until this
  task runs again (`PatienceLeft`).
- **Sampling.** After `i` samples the sum lies between `i` times the least and
  `i` times the greatest of them; a clear starts both again. The settings are kept
  since the word is assembled from the low twelve bits.
- **I2C.** What a scan has found is what can be reached below the address it is at, and
  the channel is not changed in the loop (`ScanListed`, `SelectionKept`). A sensor in its
  normal mode holds a temperature no older than its next conversion is far, or waits for
  the first, due before `app_main` reads (`Awake`). Each turn leaks four links
  (`LeakBounded`), and what a read returns follows from three lemmas about bytes and
  division: two bytes put together are the register (`Assembling`), and the two
  divisions lose less than 1.53 degrees (`Rounding`).
- **DHT.** The reader is at most 1 us into a level when it notices it, 2 after a level too short
  to be seen, whence every level of the data sheet is measured below its limit, a low one
  between 44 and 54 us and a high one outside that range (`NoticedInTime`,
  `RightLevel`). So the bytes read differ from the bits sent so far in nothing, or, after one
  wrong level, in one byte by at most 128 (`OneBitWrong`); a wrong low level spoils
  nothing yet but the measure its own bit will be compared with. At the checksum
  that difference is the difference of the sums, and less than 256 (`SumTells`).
  The invariant is written for bytes of any width, and TLC agrees with it for two bits;
  the theorems are for `BYTE_BITS = 8`, because the provers know powers of two only one by one
  (`Powers`, `Places`).
- **Interrupts.** Work not done plus credit not spent never exceeds the initial
  credit, so whoever can pay for a press finds room for its four gives. The age of a
  press and what is left of the sleep add up to one sleep (`PressWaits`), and the quiet
  and what is left of the wait to both (`QuietSince`). The counter of the timer runs
  on while the handler is late (`CounterRuns`), and the level is the parity of the
  last `cnt` (`LevelOfLast`), also where it runs over, from odd to even.
- **Services.** Printed, read and waiting are, in this order, what was received
  (`Passed`, `InSequence`), with nothing missing unless the ring overflowed (`Accounted`), and
  the buffer starts with the chunk and a zero (`Delimited`). So what `%s` prints, up to the
  least zero, is a prefix of the chunk, and all of it if it holds no NUL. On the card, after a run that
  nothing disturbed `foo.txt` holds the greeting until `unlink`, and `hello.txt` holds it from
  `fclose` on unless that failed (`Kept`, `WrittenAnew`).

`GivesCounted`, `CountsWithinTurn`, `LedAtRest` and `NeverDropped` are proved and not run: they
are what the other properties of these programs rest on.

What looking for the proofs changed in the models:

- The first form of `OwnClientInTurn` said that first deliveries are in order. Its
  inductive invariant could not be found, and TLC, with one renewal more, showed why
  (see "What disturbs wifi_mqtt_6"). The same run showed sessions that stood still
  because a full heap disabled `StartClient`: it now has the outcome the code has.
- `RestartCause` holds only of an access point that answers before both waits are over;
  the assumption is now explicit.
- `DhtReader` did not say that a measurement fits the bytes that carry it;
  `ConstantsAssumption` now does (a byte for a DHT11, a sign and fifteen bits for the others).
- `UartReader` had a sender that waits for its echo, and the proof of `ReaderEchoes` rested
  on that; `uart_eco` has no such sender, so the model now lets the buffer
  overflow, and the theorem says what is true without the assumption.
- `SdCard` kept its faults as a sequence; the number of them and the set of their kinds say
  all the properties ask.

Not proved, and checked by TLC only:

- everything that says something happens at last (`PipelineGoesOn`, `SessionEnds`,
  `WorksInTheEnd`, `EveryGivePrinted`, `TimeShown`), which is out of the prover's reach;
- the violated properties, of which there is nothing to prove.

## 5. What is left out

- Data that no property depends on: what is printed, the temperature itself, the
  text of messages, error codes that are only logged.
- The memory errors that wrong item sizes cause (`readingQueue` with items of ten
  bytes, the queue of `cxColas_2` with one byte more than its structure).
- What `uart_eco` does after it has written behind its buffer; what `dht.c` logs inside its
  critical section when a read fails.
- The start-up of `wifi_mqtt_6` before its tasks run, and failures of memory
  allocation and task creation.
- `listDir`, which prints the tree of the card and never closes a directory; two of the
  three axes of the MPU6050; `tx_task`, which writes a constant; the set-up of buses
  and pins.
- How long a heap lasts: the number of links is a constant.
- Drift of the crystal, and priorities of the system tasks other than the timer's.

## 6. Plan

Done: the inventory, the models of the programs above, and the proofs listed: every safety
property of a passing run is a theorem.

Next, in this order:

1. `NtpClock`: the safety part of `TimeShown`, that an answer nobody was told of leaves the
   client asking.
2. What a forgotten client of `wifi_mqtt_6` may still do, as an invariant under faults:
   which readings it can still deliver, and which it can have published twice.
