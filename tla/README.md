# OBDH 2.0 firmware: TLA+ models and proofs

Models of the on-board computer firmware of a CubeSat (`src/firmware`, C on
FreeRTOS 10.2, MSP430F6659), checked with TLC and, where it says so, proved with
TLAPS. Paths below are relative to `src/firmware/`.

## The system

The firmware is a set of FreeRTOS tasks over device modules (`devices/`), drivers
(`drivers/`) and the microcontroller's ports. Tasks share data through global
variables (`sat_data_buf`, the time, the configuration structures), a mutex (the
console) and one event group (start-up done). There are no queues between tasks.
FreeRTOS is vendored, but its scheduler, its clock and its mutex decide every
interleaving and every time-out, so the part of it that is called is modelled too.

| Part | Source | State | Operations | Hard parts | What makes it correct |
|---|---|---|---|---|---|
| UART receive | `drivers/uart`, `libs/containers/queue.c`, `drivers/edc/edc_uart.c` | a ring buffer: data, head, tail, size | push by the interrupt; flush, available, read by a task | the interrupt falls between any two statements | no byte lost, repeated or reordered; indexes in range; size is the length |
| System log | `system/sys_log` | one mutex | begin a line, print, end the line | time-out of the take; preemption | a line comes from one task; only the holder gives |
| EDC payload | `drivers/edc`, `devices/payload`, `app/tasks/read_edc.c` | receive buffer, packet being read | commands and answers, pop | late answers, lost pops | every packet once and in order |
| SPI port 0 | `drivers/spi`, `*_spi.c` | chip selects; the port's registers | write, read, transfer | four tasks of two priorities, no lock | a task reads its own chip's answer; transfers end |
| NOR flash | `drivers/mt25q` | the memory's description | write, read, erase | busy memory, time-outs, pages | reported means stored |
| Media, FRAM, internal flash | `devices/media`, `drivers/cy15x102qn`, `drivers/flash` | configuration | dispatch to a driver | write enable of the FRAM | as for the NOR flash |
| Boot | `main.c`, `app/tasks/tasks.c`, `startup.c` | event group, devices initialised | create tasks, initialise devices, release the others | waits that time out; a task that reads the FRAM before it is initialised | every task starts, and copes with a device that is not there yet |
| Telecommands | `process_tc.c`, `devices/ttc`, `drivers/sl_ttc2`, `read_ttc.c` | radio configurations | packets available, receive, handle | polling of a radio shared with `read_ttc` | a packet taken from the radio is handled |
| EPS telemetry | `read_eps.c`, `devices/eps`, `drivers/sl_eps2`, `tca4311a`, `i2c` | data and timestamp in `sat_data_buf` | registers over I2C | retries, time-outs, late answers | data is of its register and of its timestamp |
| Antenna | `antenna_deployment.c`, `read_antenna.c`, `devices/antenna`, `drivers/isis_antenna` | counters in `sat_data_buf` | arm, deploy, disarm | retries, resets in between | bounded attempts |
| Kernel | `freertos/tasks.c`, `queue.c`, `event_groups.c`, `list.c` | ready, delayed and event lists, tick counter, mutex holder, priorities | tick, delay, suspend, wait for a bit, take and give a mutex | wrap of the tick counter; ticks that pend; time-outs against gives | sleeps are exact; no wake-up is lost; the highest ready task runs; inherited priorities are given back |
| Time | `system/system.c`, `time_control.c` | 32-bit time, its record in the FRAM | load, set, increment, read | two words on a 16-bit machine; resets | never fast, never stops; no time that was never shown |
| Data log | `data_log.c` | log address, a page | compose a page, advance the address | preemption while copying | the log stays in the memory |
| Mode | `housekeeping.c` | mode, time of change | leave hibernation | time comparison | hibernation ends when due |
| Watchdogs, periodic reset | `watchdog_reset.c`, `devices/watchdog`, `system_reset.c` | two watchdog counters | reset the watchdogs, restart the computer | starvation by busy-waiting tasks; resets at any instant | only a computer that hangs is bitten; a hang ends |
| Heartbeat | `heartbeat.c` | none | blink | none | blinks |

The tasks that run (`tasks.c`, `config/config.h`), by FreeRTOS priority:
start-up 5 (clipped to 4) and `process_tc` 4 every 5 ms; `time_control`,
`data_log`, `read_edc`, `read_eps`, `read_ttc`, `read_sensors` 3; `read_antenna`,
`system_reset` 2; `heartbeat`, `watchdog_reset` 1. Beacon and antenna deployment
are disabled in `config.h`, and the housekeeping task is never created.

## Modules

Each component has one passing run, the kernel two; `Ttc` has a second one that
refutes what a document says. A behaviour that depends on how the environment acts
carries a *regime* chosen in the initial state and never changed (`orderly`,
`overlap`, `delay`, `regime`), and the properties name the regime they need. One
run so covers the good and the bad environments together.

| Module (with) | Runs | Distinct states | Proofs |
|---|---|---|---|
| `UartRx` (`Queue`, `Fifo`) | `uart_rx` | 97 490 | `UartRxProofs` |
| `SysLog` (`LineLog`) | `sys_log` | 1 711 | `FlightProofs` |
| `ReadEdc` (`PttDelivery`) | `read_edc` | 25 115 | `UartRxProofs` |
| `SpiBus` | `spi_bus` | 232 817 | `SpiBusProofs` |
| `Mt25q` (`NorMemory`) | `mt25q` | 42 752 | `SpiBusProofs` |
| `Ttc` | `ttc`, `ttc_telecommand` | 45 918 | `TtcProofs` |
| `Eps` | `eps` | 11 213 | `EpsProofs` |
| `Antenna` | `antenna` | 135 961 | `AntennaProofs` |
| `Kernel` (`Lists`, `Ticks`, `Scheduler`, `Alarms`) | `kernel_delay`, `kernel_mutex` | 405 027, 1 876 645 | `SchedulerProofs`, `KernelProofs` |
| `Flight` | `flight` | 394 651 | `FlightProofs` |

How they fit together: `Kernel` is what the other modules assume of the scheduler
(a ready task of higher priority runs first, a sleep ends, a take times out on
time, a wait for the start-up bit ends). `SysLog` abstracts the kernel's mutex;
what a failed assertion, a task that spins on the SPI port (`SpiBus`) or one that
waits for the I2C bus (`Eps`) does to the whole computer is `Hang` of `Flight`,
which ends in a reset. A module whose name starts with `MC` only gives constants
their values for TLC. In each module a definition that ends in a comment `mutant`
is not part of the model: it is a variant of the definition after it, as a
plausible error would leave it, by which the properties were tried. A proof module
may serve two components (`ReadEdc` goes with the UART and `Mt25q` with the SPI port
it uses, `SysLog` with `Flight`): it extends both, which is why the definitions of
the second carry its name (`EdcSpec`, `FlashSpec`, `LogSpec`). The two share no
variable.

### UART receive path: `Queue`, `UartRx`, `Fifo`

`Queue` holds the ring buffer of `queue.c` as operators on its four fields.
`UartRx` composes it with the interrupt (`Receive`, the body of `USCI_A1_ISR`) and
the task side of `uart.c`: `queue_pop_front` and `queue_init` are split into
their statements, because the project builds without optimisation
(`.cproject:45`, `OPT_LEVEL.off`) and the interrupt is enabled while they run.
The interrupt is atomic: FreeRTOS on this port does not nest interrupts. `size` is
a `uint16_t` of its real width and wraps (`Inc`, `Dec`, `UINT16_MAX`). The three
ports run the same code on a buffer of their own; one is modelled.

`Fifo` is the abstract buffer. It is *sound* (a bounded sequence that drops what
arrives when it is full), *clearing* during a flush, or *spoiled* from a byte that
arrives in a flush to the next flush. `UartRx` records in the history variable
`late` which of these holds, and the mapping gives the bytes from head to tail,
less the one a pop has already read.

*Run* `uart_rx`: bytes arrive at any instant. The indexes stay in range, a pop
finds a byte, and the refinement of `Fifo` holds. `SizeDrift` says what remains of
the comment of the field `size`: it differs from the bytes held by exactly those
accepted between `tail = 0` and `size = 0` of a flush. One such byte and a pop take
`size` from 0 to 65535, which `edc_read` sees as -1 bytes available.
Bounds: a buffer of three bytes (`LENGTH` 4), two byte values (symmetric), reads of
1, 3 and 6 bytes: less than, as much as and more than it holds. That reaches full,
empty, every wrap of the indexes and a flush interrupted at each statement.

*Proved* (`UartRxProofs`), for every buffer length and set of bytes: `TypeOK`,
`HeadInBounds`, `PopFinds`, `SizeDrift` and the refinement. The inductive invariant
adds to the type what each program counter knows: while a pop is past its test the
buffer holds a byte, since only the pop removes one, and between two statements of
a flush tail and size disagree by a known amount.

### System log: `SysLog`, `LineLog`

Each line of the console is: take the mutex (`Take`, `Wait`, `TimeOut`,
`TakeWithoutMutex`), print, end the line and give. The result of the take is
ignored by the code, so a task whose take timed out, or that found no mutex because
its creation failed, prints as well. Here the mutex of FreeRTOS is external: its
give asserts that the giver is the holder (`freertos/tasks.c:4049`), and a failed
assertion stops the processor (`halted`), which is why the run sets
`CHECK_DEADLOCK FALSE`. A time-out is reachable: a line takes about 9 ms at 115200
baud, and its writer can be preempted by tasks that busy-wait on I2C (`i2c.h:44`,
`i2c.c:142`). `LineLog` is the abstract log of whole lines; what is compared with
it is what was written *with* the mutex. That a wait for the mutex ends, and when,
is a matter of the kernel: see `Kernel`.

*Run* `sys_log`: with both failures, a task that has the mutex keeps it to the end
of its line, its line is whole, and only a task whose take failed can fail the
assertion (`HaltsAreForced`). The code does let that happen.
Bounds: three tasks, so that one writes, one waits and one forces its way.

*Proved* (`FlightProofs`, second half), for every set of tasks: `HolderOwns`,
`HaltsAreForced`, the refinement of `LineLog`, and that nothing halts if neither
failure is possible (`NeverHalts`). The invariant ties the holder to the program
counters: the holder is the one task between its take and its give that took with
success.

### EDC payload: `ReadEdc`, `PttDelivery`

The task reads the payload's housekeeping, state and decoded packets (PTT) by
commands over the UART; each read waits a fixed time, then takes what the buffer
holds. `ReadEdc` has one step per command and per read. The payload and the lines
are external (`Decode`, `Answer`, `Obey`, `Arrive`). A frame is its kind and, for a
packet, its number; a frame put together from parts of two fails its checksum.
`delay` is the regime: an answer comes in the *window* of its read, in the *gap*
before the next command, or *later*. `PttDelivery` is the abstract specification:
each decoded packet is logged once, in order.

*Run* `read_edc`: in the first two regimes the refinement holds; in the first every
decoded packet is delivered in the end (fairness: the task's cycle, the payload's
obedience and its line go on, as a task of its own period and an independent device
do); in all three the log never goes back to an older packet and no more packets
are popped than were logged.
Bounds: `MaxPackets` 3 and a receive buffer `MaxBehind` 4 frames behind: enough for
an answer that is two commands late and a packet taken for another. A reset between
a pop and the log, which loses the packet, is not modelled. Commands follow each
other without the gap that `edc.c:284` speaks of: time is not modelled between them.

*Proved* (`UartRxProofs`, second half), for every number of packets and every lag of
the buffer: `EdcTypeOK`, `NeverBackwards`, `PopsArePaid` and the refinement of
`PttDelivery`. The store of the payload is always the packets from the oldest on
(`StoreInv`). `NeverBackwards` needs what is on the line as well: the frames of
packets between the payload and the task never decrease, lie between the packet read
last and the payload's oldest, and what is logged is no newer than the packet read
last (`Order`). `PopsArePaid` counts the pops under way with those obeyed (`Paid`).
The refinement needs, in the two prompt regimes, that at most one command is under
way, and that a packet about to be popped, or on the line to its read, is the oldest
of the payload (`InStep`).

### SPI port 0: `SpiBus`

A step of a task is one test or write of a flag, a buffer or a chip select in
`spi.c`; the USCI is external (`Load`, `Exchange`). The tasks busy-wait, so a task
runs only while none of higher priority is in a transfer; tasks of one priority
interleave freely (time slices). A transfer may begin at any instruction of
another; the history variable `mixed` remembers that one has.

*Run* `spi_bus`: until transfers mix, a task reads its own chip's answers; every
transfer ends, or is mixed with another; and a wait of `spi_write_byte` ("Wait
until TX buffer ready", `spi.c:337`) can be for nothing only if another task was
preempted between clearing the flag (`spi.c:343`) and filling the buffer. The last
can happen: `process_tc` then spins at priority 4 for ever, and with it every task
below it, the watchdog's included, until a watchdog resets the computer (`HangEnds`
of `Flight`). The port has then really stopped, which is why the run sets
`CHECK_DEADLOCK FALSE`. Fairness: the port's clock runs, and so does some task that
is not preempted.
Bounds: three tasks of both priorities (`process_tc`; `read_ttc` and
`time_control`), two chips, transfers of one byte and, for one task, of two (the
first and the last byte of a transfer are different cases of the loops). Tasks and
lengths are few because the steps of three tasks are interleaved one by one.

*Proved* (`SpiBusProofs`), for every set of tasks, chips, priorities and lengths:
`TypeOK`, `WaitsForBuffer`, `OwnAnswers` and `LeavesQuiet` (transfers that have not
mixed leave no chip selected, nothing under way and the flags telling so). The
invariant says for each program counter what flags, buffers and chip selects hold
while one task alone is in a transfer, and, mixed or not, that the transmit flag is
down only for a byte in the buffer or for a task between the two statements.

### NOR flash: `Mt25q`, `NorMemory`

One action per exchange with the memory: status, write enable, status of the latch,
command, polling, flag register. The memory is external: it accepts a PROGRAM or an
ERASE only with its latch set, clears the latch when the operation ends, and while
busy answers only to status reads. A byte is one bit, erased or cleared.
`orderly` is the regime: calls stay in the memory, writes in a page, and the memory
ends its operations in time. Otherwise operations fail (`Failures`) or time out;
`found` remembers whether a call began during an operation that had timed out.
`NorMemory` is the abstract memory: a call that returns 0 has taken effect, one that
returns -1 has changed nothing.

*Run* `mt25q`: in the orderly regime the driver implements `NorMemory`; in both, no
command meets a busy memory, each PROGRAM of a write gives the bytes it carries to
their own cells, a write that is reported as done has sent all of its bytes, and one
in one page is stored, unless `found`. `SendsEveryByte` is the only one of the four
about writes of several pages: it says what the memory was told, not what it did.
Bounds: eight bytes, pages of two, two sectors, four sub-sectors: writes of up to
three pages cover the three parts of the loop of `mt25q_write` (to the page's end,
whole pages, the rest).

*Proved* (`SpiBusProofs`, second half), for every size of the memory, its pages and
its units, and every set of calls: `CommandFindsReady`, `SendsEveryByte`,
`ReportedIsStored` and the refinement of `NorMemory`. That no command meets a busy
memory needs that an erase which found it ready sends nothing else in between
(`FlashReady`). The property of the data needs the latch: a write that found the
memory ready keeps the latch from its write enable to its PROGRAM, whose end is the
only thing that can happen to the memory before the call returns (`OwnStored`). For
the refinement, in the orderly regime the only operation that runs is that of the call
in progress (`OrderlyInv`). `SendsEveryByte` needs that after the first PROGRAM each
begins a page (`InStride`). Neither of the two about the data needs that a write stays
below the end of the memory: the page of its address does.

Two facts of the code that the model has and no run is spent on: the latch is set
once for a write of several pages (`mt25q.c:601`), so that all but the first are
dropped and 0 is returned, although the comment on `mt25q_write_enable`
(`mt25q.h:240`) asks for it before each; and `mt25q_sector_erase` accepts the sector
after the last (`mt25q.c:443`).

### Radios and telecommands: `Ttc`

The two radios as their two users see them: `read_ttc` opens them and copies their
housekeeping, `process_tc` polls the second for packets. A transfer is one step; its
answer is the register, silence (zeros, which pass the checksum) or noise (which
does not). A transfer of `process_tc` is never interrupted by `read_ttc`; the other
way round it is possible between two transfers, not inside one: that is `SpiBus`.
Noted while modelling: the checksum in `sl_ttc2_read_packet` is compared with
itself and never fails; before `read_ttc` has filled in `ttc_1_config` its zeros
name the chip select of the other radio; `ttc_get_data` returns 0 when no device is
detected, so old data get a new time stamp (`StampIsWhole` therefore says: whole or
untouched).

*Run* `ttc`: with a radio that stops answering at any transfer, a stamped record is
whole or untouched; a failed reception never makes `process_tc` run a telecommand;
every packet is taken from the radio; and both records are refreshed again and again
once the radio answers. Fairness: `WF(ProcessTc)`, since it has the highest
priority; `SF(ReadTtc)`, since it is preempted over and over but `process_tc`
sleeps for longer than it runs; `WF(Repair)`, the assumption of the last property.
Bounds: two packets (one taken while another is waiting), one fault, three fields
(both kinds of field, and one after an error).
*Run* `ttc_telecommand` refutes `ReceivedIsRun`: the test at `process_tc.c:254` is
inverted, so the packet is handled when the reception *failed* and thrown away when
it succeeded, against `doc/user_manual/chapters/firmware.tex:136`. It follows that
no handler of a telecommand ever runs, and parts that only they reach are not
modelled.

*Proved* (`TtcProofs`), for every number of packets and of faults: `TypeOK`,
`StampIsWhole`, `NoGhostCommand`. The invariant has three parts beside the type: a
radio whose packet is being read has one, since only `process_tc` takes it
(`Pending`); the fields of a record up to the present one are read, or an error is
counted (`Records`); and what the first byte of the packet holds at each step of
`process_tc` (`Buffer`).

### EPS telemetry: `Eps`

A register is read by writing its address (with retries), waiting 50 ms and reading
a frame with a CRC-8; the address in the frame is not looked at. The EPS is
external: it switches to the register asked for some time after the write
(`Switch`), and in the regime *mute* it may stop in a frame, when `i2c_read` repeats
the receive register; its time-out is never reported, because the loop stops at the
limit the test asks to be exceeded (`i2c.c:290`, `ReadFails`). The CRC is what
catches that, except for a frame of zeros.

*Run* `eps`: however the EPS behaves, a record gets a time stamp only if all fields
were read in this cycle and passed their CRC; if the EPS is *timely* each field
holds its own register, and the record is refreshed again and again. Fairness: the
EPS obeys, the bus is not held for ever (`i2c_write` waits for it without a limit,
`i2c.c:182`, so this is needed), and the task runs.
Bounds: two registers, which tell a frame of the register read before from the one
asked for; three attempts for the ten of the code; four errors of the bus, more than
one write is tried for, so that a register fails completely and later ones fail as
well.

*Proved* (`EpsProofs`), for every list of registers, number of attempts and limit:
`TypeOK`, `StampIsChecked`, `StampIsTrue`. The invariant has four parts beside the
type: while a frame is awaited without an error the EPS answers, or is about to,
with the register of the field (`Asked`; a write that failed may have been heard as
well, but it is repeated or the error kept); a frame read without an error is good
enough for its field (`FrameIsGood`); while no error is counted, so are all fields
before the present one (`ReadSoFar`); and no field counts more than one error
(`Counted`), which the type of the error counter needs.

### Antenna: `Antenna`

The tasks `read_antenna` and `antenna_deployment` with the driver of the antenna
over the EN pin of the I2C buffer. A task goes through conversations (arm, burn,
disarm, status, temperature), a conversation through transfers, and a transfer
enables the buffer, runs (with retries), and disables it. The pin is shared without
a lock: `overlap` is the regime in which transfers of the two tasks may overlap. A
transfer itself is one step: preemption inside `i2c.c` is not modelled. The
deployment task is not created with the present `config.h`; a build without it is a
behaviour of the model in which it hibernates for ever. Its function returns at its
end, which FreeRTOS does not allow; the model stops there ("ended"). The counters
are in RAM only, so `Reset` returns to the boot.

Noted while modelling: after a transfer the driver waits until `tca4311a_disable`
returns `TCA4311A_NOT_READY` (`isis_antenna_i2c.c:96`; its initialisation asks for
the same at `:63`), but it returns `TCA4311A_READY` or an error (`tca4311a.c:98`);
the unit tests let a mock return 1 (`tests/drivers/isis_antenna_test.c:614`). So
every transfer of the driver is reported as failed, `antenna_init` never succeeds,
and no telemetry of the antenna gets a time stamp (the theorem `NothingSucceeds` of
`AntennaProofs` says so of the model).
Also, `60*1000` in `antenna_deployment.c:58` exceeds a 16-bit `int`; the task is not
created.

*Run* `antenna`: the deployment works nevertheless. With fewer failed transfers than a
loop has attempts, and no overlap, it burns every antenna while armed and disarms at
the end, also after a reset in the middle; the antenna is cut off from the bus between
transfers in any interleaving; and both tasks end their routines whatever fails.
Fairness: `SF(Deployer)`, as the task has the highest priority but may find the buffer
in use when `overlap` is excluded, and `read_antenna` sleeps for most of its minute;
`WF(Reader)`. Bounds: two attempts for ten and two tries to arm, so that each loop is
left both ways; one minute of hibernation; two faults (no loop can absorb both); one
reset.

*Proved* (`AntennaProofs`), for every number of attempts, tries, minutes, faults and
resets: `TypeOK`, `CutOffWhenIdle`, `Released`, and that no transfer is reported as
a success. The retries make `Released` the hard part: the invariant counts them
against the faults (a loop that has failed `i` times has met `i` faults, and there
are fewer of them than attempts), says how far the routine has come for each place
in it (`Progress`: armed, and the antennas before the present one burnt), and that
without overlap a transfer finds the buffer enabled (`Apart`).

### Kernel: `Lists`, `Ticks`, `Scheduler`, `Kernel`, `Alarms`

FreeRTOS as `config/FreeRTOSConfig.h` builds it and the tasks call it.

- `Lists` has the lists of `list.c`: a ready list is a ring with an index, a delayed
  or event list is in the order of its values.
- `Ticks` has the arithmetic of `TickType_t`, an unsigned integer of `W` values.
- `Scheduler` has the functions of `tasks.c` as operators from one state of the
  scheduler to the next: `xTaskIncrementTick` with the exchange of the two delayed
  lists, `vTaskSwitchContext`, `prvAddCurrentTaskToDelayedList`,
  `xTaskRemoveFromEventList`, `xTaskResumeAll`, the inheritance of priorities and
  its two ways back.
- `Kernel` has the tasks. Start-up initialises its devices, sets the bit of the event
  group and suspends itself; each other task waits for the bit with a time-out of its
  own (`BitTicks`), then runs a cycle in which it may log (take the mutex with a
  time-out, give it) and sleeps by `vTaskDelay` or `vTaskDelayUntil`. The parts of
  `xQueueSemaphoreTake` that may be interrupted are actions of their own (`Take`,
  `Block`, `Expired`, `GiveUp`).

Two things are left out. Start-up logs as well, with the same mutex
(`startup.c:66-89`, `186-195`), but is not one of the `Loggers`: it would be one more
of them, and the proofs hold for any number of loggers of any priority. And
`configUSE_TIMERS` makes `vTaskStartScheduler` create the timer service task, which
blocks at once on its empty queue and never runs again, as no task calls a timer.

The steps are cut where interrupts are enabled and the scheduler is not locked.
Between two of them a tick may come (`Tick`), and switch tasks. Between
`vTaskSuspendAll` and `xTaskResumeAll` ticks only pend, so that is one step with a
number of pended ticks (at most `MaxPended`). A failed assertion spins with the
interrupts disabled (`Hang`).

`Alarms` is the abstract clock: a task that asks to sleep for n ticks sleeps exactly
n ticks, unless it also waits for something that wakes it sooner.

*Run* `kernel_delay`: the lists agree with each other and with the two
`uxTopReadyPriority` and `xNextTaskUnblockTime` that shortcut them (`Filed`); the
kernel implements `Alarms` (`SleepsExactly`); `vTaskDelayUntil` keeps its period
(`Punctual`). *Run* `kernel_mutex`: the highest ready task runs; a freed mutex is
not left with all its waiters asleep; priorities are inherited, and given back also
when the waiter times out; a take that is woken and loses the mutex to another
waits only for the rest of its time, and one that fails has waited all of it.
Bounds: the tick counter has 6 and 4 values for the 2^32 of the port, so that it
wraps again and again, with tasks asleep over one and more wraps and at each offset;
all sleeps are below it, as the code's are. Five tasks: start-up, idle, and three of
two priorities, so that two share a priority and one can be inherited from. A
counter that goes round twice in one wait is beyond what FreeRTOS can tell; the
properties say so. Both runs are about safety; no fairness is needed.

Noted while modelling: the comment at `freertos/queue.c:1501` says that an adjusted
time-out cannot be 0 when inheritance has occurred, "as if it were 0 the function
would have exited". A task that has inherited its priority to the holder may find the
mutex free when its time is up (`Expired`), go round its loop, and lose the mutex to
another before it enters the critical section. Then the assertion at `:1505` fails:
`kernel_mutex` reaches that disjunct of `Take`. The one at `tasks.c:4049` fails for a
task that gives a mutex it failed to take. In the model both stop the computer.
`HighestRuns` leans on all takes of the firmware having the same time-out and on one
mutex only: `vTaskPriorityDisinheritAfterTimeout` would not switch tasks at once
otherwise.

*Proved* (`SchedulerProofs` for the arithmetic, the lists and the scheduler,
`KernelProofs` for the rest), for every set of tasks, workers and priorities, every
period and time-out the assumptions allow, and every width of the counter:
`TypeOK`, `Filed`, the refinement of `Alarms`, `NoLostWakeup`, `FailsOnTime`,
`WaitsTheRest`, `Punctual`, `HighestRuns` and `Inheritance`. The proof is layered as
the code is.

- The arithmetic: the test of `vTaskDelayUntil` is exact for a caller less than one
  turn late (`DelayUntilIsExact`); the test of `xTaskCheckForTimeOut` is exact if the
  counter wraps no more than once (`TimeOutIsExact`); `pdMS_TO_TICKS` is exact while
  its product fits (`ShortTimesConvert`), which it does not for the period of
  `system_reset.c:47`: 36 000 000 ms become 1 640 261 ticks (`ResetPeriodWraps`), so
  that the computer restarts every 27 minutes where
  `doc/user_manual/chapters/firmware.tex:132` says every 10 hours.
- The lists: what `Insert`, `ListRemove`, `InsertEnd`, `RingRemove` and `Advance`
  return from lists in which no task occurs twice, and that they keep the order.
- The scheduler: for each function of `Scheduler`, what it returns from a state whose
  lists agree (`Filing`) and whose clock is right (`Clock`). The loops over the
  delayed list, the pended ticks and the waiters for the bit are folds, and these
  lemmas go by induction on their length.
- `Sound`, the inductive invariant of `Kernel`. To the lists and the clock it adds
  what the program counters say about them: who sleeps is at a call that sleeps; who
  waits for the mutex is a worker in its take, filed under its present priority;
  only start-up is suspended; the holder is logging, hence awake; the running task
  is ready or about to be switched out. That the holder is awake is what makes an
  inherited priority safe: no list in which a priority is the key holds its task.
- On top of it, for each property what it needs of its own: for `SleepsExactly` what
  each step does to the ticks a sleeper has left; for `NoLostWakeup`, that it is
  inductive when the task on its way is named (`Fetched`); for the two properties of
  time-outs, that the ticks left, those elapsed since they were noted, and those
  waited always add up to the time-out, across a wrap the mark `stale` tells of
  (`Timed`); for `Punctual`, that the age of a cycle is what the counter has done
  since `last_cycle`, as long as that is less than a turn (`Kept`).
- `HighestRuns` and `Inheritance` are inductive only together. A give, or a wait that
  ends, may lower a priority without a switch (`PriorityDisinherit`,
  `DisinheritAfterTimeout`), so the first needs to know what a raised priority stood
  for. `Fair` says that the running task, when it is ready, is one of the highest;
  while the scheduler is locked, that holds or a yield is owed, which
  `xTaskResumeAll` pays. `Ranks` says who may be raised: only the holder is above its
  base (`Own`); it is as high as every waiter (`Served`), and a waiter above its base
  remembers to have raised it (`Marked`); a raised holder has a task of that priority
  which still waits or has waited its whole time-out (`Caused`); and a freed mutex has
  a task on its way to it as high as every waiter (`Coming`). And a waiter gives up
  no later than anyone more urgent in a take (`Earlier`): the more urgent came second,
  as nobody less urgent gets to run while it, or the holder it raised, is ready. So
  when the task that raised the holder has timed out, nobody less urgent waits any
  more, and whoever a give wakes is above the lowered holder: the kernel yields. That
  is where all takes having one time-out is used.

### Start-up, watchdogs, time: `Flight`

What keeps the computer going from one reset to the next. The task that resets the
watchdogs has the lowest priority but the idle task's, so all others are abstracted
to *bursts*: stretches of ticks, at most `MaxBurst`, in which it does not get the
processor. One may begin after each of its statements (`Cycle`, `FeedInt`,
`FeedExt`). At any instant of a burst the computer may hang (`Hang`): that is a task
that spins for ever, as in `SpiBus`, or a failed assertion, as in `SysLog`. A
watchdog that has run out (`WatchdogReset`) and `vTaskSystemReset` (`SystemReset`)
start everything again except the record in the FRAM.

`time_control` loads the time from that record, sets it and counts seconds. On the
16-bit processor a 32-bit assignment or increment is two writes (`SetFirst` and
`SetSecond`, `Count` and `Carry`), and `system_get_time` two reads (`ReadFirst`,
`ReadSecond`). The record is read whether or not start-up has initialised the FRAM
by then (`InitFram`): its wait for start-up has a time-out.

*Run* `flight`: a watchdog bites only a computer that hangs; a hang ends; the clock
never runs fast, and a computer that does not hang for ever counts for ever, over
resets; and a time read in two words is one that the clock showed, unless its high
word changed meanwhile, when it is off by whole turns of the low word. That can be
18 hours; no reader guards against it. Fairness: the tick comes and a watchdog that
has run out bites (they are hardware), the other tasks run when due unless the
computer hangs (their bursts are bounded), the watchdog task runs when they are not
in the way. None is assumed of start-up, which may never end.
Bounds: `FeedPeriod` 2, `MaxBurst` 1, limits 5 and 6 (the tightest that satisfy the
assumption below), a second of 3 ticks, a restart after 10, words of two values,
so that every other count carries and the time wraps after four.

*Proved* (`FlightProofs`), for every value of the constants: `TypeOK`, `NoFalseReset`,
`NeverFast` and `StampIsShown`. `NoFalseReset` rests on `BurstAssumption`: a period
and two bursts, and also three bursts, fit the internal watchdog; a period and three
bursts fit the external one. The invariant adds up, for each statement of the watchdog
task, what has passed since each watchdog was reset. With the numbers of the code and
the data sheets (period 100 ms; internal watchdog 1 s, although the manual says 500
ms; TPS3823 900 ms at least) a burst must stay below about 266 ms. The firmware does
nothing to ensure that. `StampIsShown` rests on two facts: the words of the time are
those of the clock except inside an assignment or a carry (`TimeInv`), and the word a
read holds is one the clock has shown since the read began or is about to show, of the
same turn as the clock if none was crossed (`ReadInv`).

Noted while modelling: nothing ever saves the time (the call at
`time_control.c:116` is commented out), although `firmware.tex:140` says that it is
saved every minute. After each reset the clock starts from the same record.

## What is proved and what is only checked

The theorems hold for every value of the constants under the assumptions the modules
name (`QueueAssumption`, `SysLogAssumption`, `SpiBusAssumption`, `BurstAssumption`,
...), which TLC evaluates on the instances. But for those about the arithmetic they
follow one argument: the initial states satisfy an inductive invariant, each action
preserves it (one lemma or step per action), and it implies the property or the step
of the abstract specification.

| Module | Theorems | Properties of the runs |
|---|---|---|
| `UartRxProofs` (UART) | `TypeCorrect`, `HeadStaysInBounds`, `PopAlwaysFinds`, `SizeIsAccountedFor`, `Refinement` | `HeadInBounds`, `SizeDrift`, `ImplementsFifo` |
| `UartRxProofs` (EDC) | `EdcTypesHold`, `LogIsOrderly`, `PopsWerePaid`, `EdcDelivers` | `NeverBackwards`, `PopsArePaid`, `ImplementsPttDelivery` |
| `FlightProofs` (system log) | `MutexIsOwned`, `OnlyForcedHalt`, `NeverHalts`, `LinesAreWhole` | `HaltsAreForced`, `ImplementsLineLog` |
| `EpsProofs` | `TypeCorrect`, `StampedIsChecked`, `StampedIsTrue` | `StampIsChecked`, `StampIsTrue` |
| `SpiBusProofs` (SPI) | `TypesHold`, `WaitsOnlyForAnother`, `AnswersAreOwn`, `PortIsQuiet` | `WaitsForBuffer`, `OwnAnswers` |
| `SpiBusProofs` (NOR flash) | `CommandsFindReady`, `BytesAreSent`, `ReportsAreTrue`, `FlashIsNor` | `CommandFindsReady`, `SendsEveryByte`, `ReportedIsStored`, `ImplementsNor` |
| `TtcProofs` | `TypesHold`, `StampedIsWhole`, `NoGhosts` | `StampIsWhole`, `NoGhostCommand` |
| `AntennaProofs` | `TypesHold`, `CutOff`, `DeploymentReleases` | `CutOffWhenIdle`, `Released` |
| `FlightProofs` (watchdogs, time) | `TypesHold`, `WatchdogsSpare`, `ClockNeverFast`, `StampHolds` | `NoFalseReset`, `NeverFast`, `StampIsShown` |
| `SchedulerProofs` | `DelayUntilIsExact`, `TimeOutIsExact`, `ShortTimesConvert`, `ResetPeriodWraps` | |
| `KernelProofs` | `TypesHold`, `FiledHolds`, `ClockIsExact`, `WakeupsArrive`, `TakesFailOnTime`, `RestIsWaited`, `PeriodsAreKept`, `HighestAlwaysRuns`, `PrioritiesAreInherited` | `TypeOK`, `Filed`, `SleepsExactly`, `NoLostWakeup`, `FailsOnTime`, `WaitsTheRest`, `Punctual`, `HighestRuns`, `Inheritance` |

Where a type invariant or another property (`PopFinds`, `HolderOwns`,
`LeavesQuiet`) is proved, no run checks it again.

All safety properties of the runs are proved. Only liveness (`AllDelivered`,
`TransfersEnd`, `AllTaken`, both `FreshAgain`, `RoutinesEnd`, `HangEnds`, `ClockRuns`)
is model-checked alone, because the proof system has no rules for fairness and ENABLED.

No recursive operator is used. The library's induction theorems cannot be used with
the installed provers, because they take an operator as a parameter; `Induct` of
`SchedulerProofs` is induction over a set instead (a set of numbers that has 0 and with
each number the next has them all), proved from the pigeonhole principle of finite
sets. What is beyond reach is `SelectSeq`, whose definition the provers do not see
through; `Without` of `Lists` is written with `SubSeq` for that reason.

## Not modelled

- Telecommands' handlers cannot run (`ttc_telecommand`), and the setters and single
  getters of the drivers, `ttc_send`, entering hibernation and the shut-down of the
  payload are called by them or by the beacon only, which `config.h` disables.
- The housekeeping task, which ends hibernation, is never created. (The comparison
  in it that should end hibernation is reversed as well.)
- `data_log` copies `sat_data_buf` field by field while the tasks of its priority
  write it, so a page may be torn; but the call that would write the page is
  commented out, and no property can tell.
- `media.c` writes the FRAM without a write enable (nothing sends WREN); no task
  calls that, so `Flight` has the read only.
- Of FreeRTOS: what the firmware never calls (deletion, notifications, queues of data,
  timers and their service task, stream buffers, calls from interrupts, the MPU
  wrappers) and the heap.
- Sensors, pins, clocks, the heartbeat: register writes and conversions of one task,
  nothing of which depends on an order. Encoders and checksums are straight-line
  code; a checksum appears as a test that damaged frames fail.
- Drivers no task uses in this configuration, and the vendored peripheral library
  `hal/`, which with the headers of FreeRTOS is most of the lines of the repository:
  it is register access, and appears only as the external actions of the modules.

`PROJECT.json` lists each part with its status, and the hazards no property covers,
each with the reason.

## Plan

1. What the liveness properties rest on, as far as it can be proved: for the loops of
   `SpiBus`, `Eps` and `Antenna` a measure that every step of a routine lowers, whatever
   fails, so that only fairness is left to TLC.
2. That `Kernel` implements the mutex `SysLog` takes for granted: an abstract mutex with
   takes that wait, succeed or time out and gives that only its holder may make, which
   both modules refine.
