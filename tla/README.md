# Models of the W55RP20 / W5500 firmware

TLA+ models of the concurrent parts of this firmware: an RP2040 that runs the
FreeRTOS SMP kernel on two cores, a shell on the USB serial port, a few
services, and a WIZnet W5500 Ethernet chip driven by lwIP. The modules are
translated from the C sources; `PROJECT.json` maps every definition to the
lines it stands for.

Parse with `tlasany M.tla`, check with `tlc -workers 2 -config X.cfg M`, prove
with `tlapm XProofs.tla`.

## 1. The system

### Components

| Component (code) | State it keeps | Operations | Talks to |
|---|---|---|---|
| start-up (`main.c`) | - | set up hardware, create queues, start `taskmanager`, start the scheduler | all |
| task manager (`services/taskman_service.c`) | its one-slot `taskman_queue` | start the start-up services; poll the queue every 20 ms and delete, suspend or resume the task a request names | shell commands by queue |
| service commands (`cli/node_bin.c`: `kill`, `service`, `reboot`) | none; a task handle on the stack | look up a handle, post a request, print the outcome; `reboot` spins until the watchdog task is suspended and then forces a reset | task manager, watchdog |
| watchdog (`services/watchdog_service.c`, `hardware/rp2040/hw_watchdog.c`) | the hardware timer | enable, kick, force a reset | - |
| storage manager (`services/storman_service.c`) | `storman_queue`, the shared item `smi_glob`, the semaphore `smi_glob_sem`, littlefs | poll the queue every 100 ms, run one of 12 file actions, give the semaphore when data are ready | `flash0` command by queue, semaphore and shared memory; print queue |
| `flash0` command (`cli/node_mnt.c`) | none | post a request, wait for the semaphore with a timeout, print `smi_glob` | storage manager |
| console (`services/cli_service.c`, `cli/shell.c`) | the microshell instance, `print_queue` | take a message from the print queue at an empty prompt, run microshell, print | USB, every task that prints |
| print queue (`services/service_queues.c`) | the queues | `cli_print_raw`, `cli_print_timestamp`, `taskman_request`, `storman_request` | all |
| USB (`services/usb_service.c`, `hardware/rp2040/hw_usb.c`) | a receive and a transmit buffer and a queue behind each, a mutex | run TinyUSB; with the CLI on the UART also move bytes between TinyUSB and the queues, which `cat` and `echo` of `/dev/usb0` use | console, shell nodes |
| Ethernet driver (`port/lwip/w5x00_lwip.c`, `cli/w5500_polltask.c`) | the chip's receive and transmit rings, `tx_frame` | poll for frames and hand them to lwIP; send a frame and wait for SENDOK | lwIP, chip access |
| `w5500` commands (`cli/w5500_func.c`) | the bus open or not, netif | open the bus, initialise the chip, start lwIP and DHCP | driver, chip access |
| chip access (`port/pio/wiznet_spi_pio.c`, `port/ioLibrary_Driver/src/w5x00_spi.c`, `w5500.c`) | registered bus callbacks, the PIO state machine | read and write registers and buffers in critical sections | chip |
| register view (`cli/w5500_registerview.c`, `cli/w5500_misc.c`) | last values of the registers | show what changed, hex dumps | chip access |
| flash block device (`hardware/rp2040/onboard_flash.c`) | `onboard_flash_mutex` | read, program, erase for littlefs | storage manager |
| other nodes and drivers (`cli/node_*.c`, `driver_lib`, `hardware/rp2040`) | little | print values, read sensors, set registers | - |
| libraries | - | lwIP, ioLibrary, pico-extras are vendored; microshell, littlefs, FreeRTOS, TinyUSB are submodules that are not in the tree | - |

### What is hard about it

The program has no global lock. Tasks of equal and different priority on two
cores share queues of one slot, one answer buffer, one microshell instance and
one Ethernet chip, and nearly every wait has a timeout whose result is ignored.
Any task can be deleted or suspended by a command at any point. The hard
questions are therefore of a few kinds:

- **an answer that comes too late** (`flash0` and the storage manager): a binary
  semaphore carries no identity, so the answer to a command that gave up can be
  taken for the answer to the next;
- **a request that is lost or overtaken** (task manager): a full one-slot queue
  drops a request whose command nevertheless reports success, and a handle may
  be used after its task was deleted;
- **a reset that never comes, or comes for no reason** (watchdog and `reboot`);
- **output that is torn, lost or repeated** (console): a message must not break
  into a line being typed, and only one task may drive microshell;
- **a shared bus that changes under its users** (chip access): a command replaces
  the bus callbacks one by one, those that enter and leave the lock among them,
  while another task may be in the middle of an access that is made of six calls;
- **a place in a ring that is lost** (Ethernet driver): 16-bit positions wrap,
  frames straddle the end of the ring and arrive between the two reads of a
  frame, and one flag answers all senders;
- **a wait that never ends** in any of them.

What makes each component correct, as properties, is listed under its module in
section 3. `PROJECT.json` lists each hazard at its line with the properties that
would notice it.

## 2. Plan

Modules are written in the order of the importance of what they cover.

| # | Module | Covers | State |
|---|---|---|---|
| 1 | `Storman`, `StormanProofs` | `flash0` and the storage manager | done, safety proved |
| 2 | `TaskManager`, `TaskManagerProofs` | kill, suspend, resume, start, reboot, watchdog | done, safety proved |
| 3 | `MacRaw` with `FrameLink`, `MacRawProofs` | the driver's rings, abstractly a link of frames | done, safety and refinement proved |
| 4 | `Console` with `MessageQueue`, `ConsoleProofs` | shell, print queue, USB stalls, a second user of `shell_print` | done except banner and editing keys; safety and refinement proved |
| 5 | `RegisterRead`, `RegisterReadProofs` | `getSn_RX_RSR` (`w5500.c:213-228`): a 16-bit register that changes between two 8-bit reads | done, safety proved |
| 6 | `WizBus` with `Registers`, `WizBusProofs` | bus callbacks and their registration, the critical section, SPI and PIO, the poll task in the middle of an access, abstractly a memory | done, safety and refinement proved |
| 7 | `UsbSerial` with `Pipe`, `UsbSerialProofs` | the usb task's buffers and queues, `/dev/usb0`, abstractly a stream of bytes in each direction | done, safety and refinements proved |

How they compose: `Storman` and `TaskManager` share the service that is killed
and restarted; `Console` is what prints for all of them; `MacRaw` uses the size
that `RegisterRead` shows to be a real one, over the memory that `WizBus`
implements. Each composition is by an interface that one module proves or checks
and the other takes as an action.

Abstract specifications: `MessageQueue` (what a queue of messages promises),
`FrameLink` (a link of frames), `Registers` (a memory whose accesses are atomic)
and `Pipe` (a stream of bytes). Each is a `PROPERTY` of the run of the module
that implements it.

Every safety property and every refinement that a passing run checks is also a
theorem (section 5); the liveness properties are checked only.

## 3. The modules

Time, where it matters, is counted in RTOS ticks: `Tick` is an action that is
blocked while a deadline that has been reached has not been served. A state
machine step of a task may happen at any point between ticks, which covers both
cores and preemption. Actions marked `MUTANT` in the comments are not part of
the specification; each is a plausible bug by which one property is shown to be
able to fail.

### Storman

One run of the storage manager against one shell, as there is one of each.
`Command` starts `flash0_exec_callback`; `Send`/`SendTimeout` is
`xQueueSendToBack` with its wait of 10 ms in `storman_request`; `StartTake`,
`Take`, `TakeTimeout` the semaphore with its wait of `2*DELAY_STORMAN`;
`PrintFirst`/`PrintRest` the two ends of `shell_print` reading `smi_glob`, since
the service may write to it in between. `Mount`, `CreateSem`, `Receive`,
`PollEmpty` are the head of the service; `Open`, `Body`, `Close`, `Change`,
`Query`, `Give`, `Report` are what the 12 cases of its `switch` are made of,
each with the failures the code checks for. `Kill` and `Restart` are the task
manager's; a restart creates a new semaphore while the shell may wait on the
old one. littlefs is reduced to "this call succeeds or fails". Suspending the
service is left to `TaskManager`.

`MaxOp` bounds the ticks between a receive and the next sleep: the flash
operation itself, the wait of the error message for room in the print queue,
and the scheduling latency.

Properties: `OwnAnswer` (what is printed is this command's answer, first
character to last), `NoLateAnswer` (who gives up has been dropped or has
failed), `RequestServed`, and two with an exception that the code makes
necessary. `HandleClosed`: the service sleeps with its file closed, unless in
this life of it a read, write or seek of an open file has failed, which leaves
the handle open (`leaked`; `storman_service.c:170,180`). `ShellReturns`: the
shell gets its prompt back, unless it takes the semaphore before the first one is
made (`cpc = "fault"`): the take of a NULL handle is a failed assertion and never
ends.

| Run | Shows |
|---|---|
| `storman` | All of them with `2*MaxOp < DELAY_STORMAN`, with a kill at any point (the first two then hold up to the kill). |
| `storman_late` | With `MaxOp` above the polling period `OwnAnswer` fails: the answer comes after the wait, stays in the semaphore, and the next command takes it. An operation of 50 ms, half of the firmware's 100, breaks the condition, and an operation may erase several sectors of the flash. |

The condition is tight: at `2*MaxOp = DELAY_STORMAN` `NoLateAnswer` already
fails. `OwnAnswer` really fails after a kill, because the killed operation's
answer buffer and semaphore are replaced under the shell. Two commands are
enough to see every overlap (the queue has one slot, so a command meets at most
the one before it); the theorems cover any number.

### TaskManager

`state` and `inc` are what the kernel knows of each task; a handle is a name and an
incarnation, and dangles once that incarnation was deleted. `Request` is the command up
to `xTaskGetHandle`, `Send`/`SendTimeout` the post with its 10 ms, `AfterRequest` what
the command prints and does regardless of the result; `SpinEnds` and
`force_watchdog_reboot` the rest of `reboot`; `Receive`/`PollEmpty` one turn of the task
manager; `Kick`, `Expire`, `Boot` the watchdog. Suspending or killing `cli` or `usb`
stops the input, as on the device.

`KickTicks` bounds the delay of the watchdog task with its latency and
`WATCHDOG_DELAY` is longer (100 ms against 1 s in the firmware); `Paces` are the
possible least numbers of ticks between two commands, and a behaviour keeps to
the one it starts with (`pace`). With `pace > DELAY_TASKMAN` commands are typed
more slowly than the task manager polls (`Typed`); with 0 they are pasted.

| Run | Shows |
|---|---|
| `taskman` | Typed: no dangling handle reaches the kernel, no request is dropped, nobody kicks once the reset is forced, `reboot` reboots, and what was reported suspended is. Typed or pasted: there is no reset without a cause. |
| `taskman_reboot` | With the task manager itself suspended or killed, `reboot` spins for ever while the watchdog task keeps the MCU alive. |

The distinction is needed: with pasted commands handles dangle, requests are lost, and
`ForcedIsFinal` fails too: suspend the watchdog, queue a resume, and the spin of
`reboot` ends while the task is still suspended; then the resume is carried out
and the watchdog task kicks for ever against a shell in an endless loop. Three
commands are what that takes, so `MaxCmds` is 3.

### MacRaw and FrameLink

`FrameLink` says what lwIP may rely on: frames are handed up and go out whole,
in order and at most once; one may be lost if there is no buffer, or given up
by the chip. `MacRaw` is the driver: the chip's rings are byte arrays indexed
modulo their size with positions modulo `PTR`, `ChipReceive` stores a frame
behind its two bytes of length and `ChipSend` carries out a SEND; `Turn` to
`TurnEnd` are the steps of `poll_w5x00macraw` and `recv_lwip`, one per access to
the chip; `Output` to `Await` those of `netif_output` and `send_lwip`; `LwipInit`
to `LwipEnd` those of `w5500 lwip`, which opens the socket, sets the link up and
sends the first DHCP message from the shell. `clash` is a history variable: two
tasks were in `netif_output` at once. `longest` is the longest frame that was
copied to `pack`, the poll task's buffer on its stack (`w5500_polltask.c:28`); if
it is longer than `pack` the copy went over what lies behind. In either case
(`Broken`) nothing is followed further. A byte is
(frame, length, place), so a byte of the wrong frame, a torn length or padding
left over from another frame is seen.

`IsLink` is the refinement (`Link!LinkSpec` with the history variables), `Drained` that
every frame is taken out again, `SendReturns` that `netif_output` returns, `FrameFits`
that no frame is longer than the buffer it is copied to, which the code does not
guarantee, and `OneInLwip` that one task at a time is inside lwIP.

| Run | Shows |
|---|---|
| `macraw` | The first three, until a clash, with frames that fit `pack`: the shell's frame and the poll task's go out one after the other. `Drained` also ends with a second `w5500 lwip`, which clears the link and never returns: `netif_add` looks for a number that no netif of the list has, and the list holds the one it is to add. |
| `macraw_shared` | The shell's `dhcp_start` runs inside lwIP together with the poll task, as the link was set up before it; lwIP's documentation forbids that in a build without an OS. Both then use one `tx_frame`, and one SENDOK flag answers whoever looks first. |
| `macraw_overflow` | The check "packet is bigger than buffer" compares with the fill level of the ring and never fires; a frame longer than the buffer is copied all the same, as one of 1514 bytes is into the 1500 of the firmware. |

The rings have 6 and 4 bytes and `PTR` is 12; frames have 1 or 3 bytes, and `pack` has
3, or 2 in `macraw_overflow`. So every frame can straddle the end of a ring, the
position registers wrap, the ring fills up so that frames are refused, and short frames
are padded. `RECV` is taken to have effect before the next access to the chip
(`recv_lwip` does not wait for it, `send_lwip` does wait for SEND); the double read of
`Sn_RX_RSR` is taken as one atomic read, which `RegisterRead` justifies.

### Console and MessageQueue

`Peek` to `Wake` are the loop of `prvCliTask`; `PrintRound` is one turn of
`shell_is_printing` and `PrintEnd` the return of `shell_print`; `StartPost`,
`Send`, `SendTimeout` are `cli_print_raw`. microshell is not in the tree: it is
modelled by how `shell.c` and `cli_service.c` use it, as a state that is
`WRITE_CHAR` while a string is written, then `RESET`, from where the prompt is
written in the same way, and only then `READ_CHAR`, where a key is read. Reading
a key, echoing it and acting on the end of a line are one step (`ReadKey`). A
string has two characters, the first and the last, which is enough to be cut.

The prompt (`shell.c:72-76`) is the one string that nobody waits for:
`shell_service` writes one character of it in each pass of the loop (`NoKey`), with
a sleep after each, and `Peek` takes nothing from the queue until it is complete.
In the model it is two characters, so three passes lie between one message and the
next; in the firmware it is more than sixty characters and as many passes, longer
than a sender waits. So a burst of messages that does not fit in the queue loses
some of them also on a console that nobody uses, and no property says otherwise.

`up` is false while the host does not take characters. `held` is a history
variable: at some moment while a task waited for room, microshell was not at an
empty line (a line was half typed, a command ran, a message or the prompt was
being written) or the output stalled. `shared` says that another task has used
`shell_print`.

| Run | Shows |
|---|---|
| `console` | A task and a command post while the user types and USB stalls, and the poll task may use `shell_print`. Until it does, nothing is interleaved (`NotInterleaved`), a print returns when all was written (`PrintedWholeAlone`), messages are shown once and in order (`IsQueue`, a refinement of `MessageQueue`), and one is lost only if the console was held up while its sender waited (`LostOnlyIfHeld`, with `held` as above). In any case the queue empties (`AllShown`) and the prompt returns (`PromptReturns`), even for a command that posts to the full queue that only its own task empties. |
| `console_torn` | With the poll task using `shell_print`, the string of another task is cut off: `shell.h` says that tasks outside the CLI should use the print queue, and `check_link_status` does not. |

`LostOnlyIfHeld` needs `PRINT_TICKS > DELAY_CLI`, the wait for room to be longer
than the sleep between two passes (10 ms against 1 ms in the firmware), and that
one task posts besides the commands, as the heartbeat does: a console that shows its
prompt takes the oldest message in its next pass, but of two tasks that post one may
take the room that the other waits for. The depth of the queue is 1, so that every
message can meet a full queue, and `PRINT_TICKS` is 2 and `DELAY_CLI` 1. Two messages,
two keys and one other string are enough for a message to wait for room while a line
is typed, a command runs or prints, or the prompt at start-up or behind any of them
is written; that a message waits behind two others is left to the theorems.

### RegisterRead

`High1`, `Low1`, `High2`, `Low2` are the four 8-bit reads of `getSn_RX_RSR`,
each of which is atomic (a critical section of its own), `Test` the end of its
loop; `Grow` is a frame that arrives between any two of them, `Acknowledge` the
driver taking frames out between two calls. A word is a pair of bytes, and
`(val << 8) + byte` drops the upper one. `held` is a history variable: the values
the register had since the call.

| Run | Shows |
|---|---|
| `rx_rsr` | What is returned is a value the register had during the call, or zero (`ReadsAValue`), and the call returns (`ReadEnds`). Zero may be a mixture, of the high byte before and the low byte after a carry; the caller then finds nothing and asks again. |

Bytes have three values and the register may grow four times, so that a carry
can fall between any two reads and every reading can differ. A register that
falls during a call (the socket opened again by a command) is not covered: then
a first reading of zero can be compared with an older second one until the next
frame comes.

### WizBus and Registers

`Registers` says what the accessors of the chip promise: a memory in which each
access takes effect at one moment between its call and its return. `WizBus` is
how they do it. `cb` are the callbacks in `WIZCHIP`, which every call looks up
anew; `Call` to `Exit` are the six calls an access is made of, from
`WIZCHIP_CRITICAL_ENTER` to `WIZCHIP_CRITICAL_EXIT`, and `HeadSlot` and
`DataSlot` say which callback the bytes go through, as the four accessors
differ in that. `HeadSpi`/`DataSpi` clock bytes out at once; `HeadPio` keeps the three bytes
of a header and `DataPio` sends it with what comes next. `StartInit` to `Ready`
are `w5500 init` in its two modes, one step (`Register`) per callback it stores,
`_enter` and `_exit` of the critical section included: `SpiInit`
and `PioOpen` claim DMA channels and take the pins, `NewSection`
(`critical_section_init`) makes a new critical section whoever is in the old one,
`ChipOff` deselects the chip, `SetupCall` stands for the accesses
with which it programs the chip. `View` is `w5500 register`, which sets the
status the poll task goes by. The chip is what it does with a frame: the first
three bytes after chip select are the header; bytes it does not expect have any
effect (`Havoc`).

`misused` is a history variable: the bus was changed while a task was in an
access, or was used before it was complete. `viewed` says that `w5500 register`
set the status while no bus was open. Nothing else is excused.

The two stores of `reg_wizchip_cris_cbfunc` (`wizchip_conf.c:205-206`) leave a window:
a task that enters by the new `_enter` before the second store and leaves by the old
`_exit`, which is empty, never releases the section (`Stranded`), and every later
access waits for ever. Before the first `w5500 init` the poll task is in an access
only after `w5500 register`, and a later init finds both callbacks stored; so
`AccessEnds` excuses a stranded section after `w5500 register` and nothing else.

| Run | Shows |
|---|---|
| `wizbus` | Unless misused, both tasks see a memory, over either bus and across changes of the bus (`IsRegisters`), and no access leaves chip select, a header or the section behind (`LeavesNoTrace`). The poll task keeps off a bus that is not open, unless `w5500 register` lets it (`PollWaits`). The firmware stops only after misuse, on a second open of the one PIO instance, or without DMA channels (`NoPanic`). Every access ends, even across a new critical section and whatever is misused, unless the section was stranded as above (`AccessEnds`). |

Three `init` commands are one more than there are DMA channels for, so the
claim fails once; two suffice for every change of bus, and for opening the PIO
twice. Two registers, one of which the chip changes, and one access of each
kind are enough for a wrong register, direction or order to be seen.

### UsbSerial and Pipe

This is the build with the CLI on the UART (`CLI_USE_USB` 0; `project.cmake`
sets 1, `CMakeLists.txt` calls 0 the default), in which USB is the device file
`/dev/usb0`. `Pipe` says that what is put in comes out once and in order.
`Transfer` is `tud_task` with `usb_read_bytes` and `Write` `usb_write_bytes`; `Post`,
`PostTimeout` and `Fetch` the two queues; `Cat` to `CatEnd` and `Echo` to
`EchoTimeout` the two callbacks of the node. TinyUSB is a FIFO in each direction, and the
host opens and closes the port, sends and takes at any time. A character is
its number, so that one that is lost, repeated or out of place is seen.

The shell takes lines of up to 128 bytes (`BUF_IN_SIZE`) and nothing checks the length
of a text: `EchoPut` queues the first `TX_BUFSIZE` bytes of it (`Item`), with the
terminator or without. Without one `strlen` in `Fetch` leaves `tx_buffer`; behind it
in `usb_iface_t` is `rx_pos`, the low byte of which is sent if it is not 0, and the
terminator is found at the latest in its high byte (`Terminated`, `Outgoing`). When
the FIFO takes too little, the move to the front writes over `rx_pos` (`Move`): what
is in `rx_buffer` is lost.

Three history variables say when a side stops being a pipe, as the
code has it: `hidden`, a terminator was received with something behind it;
`overrun`, a second item was received into the buffer of `cat`, which has room
for one; and `stray`, a text without its terminator was taken from the queue. The
first two concern the receiving side, the last one both.

| Run | Shows |
|---|---|
| `usb` | Until then `cat` shows what was sent, once and in order (`RxIsPipe`), and texts go out whole and in order (`TxIsPipe`). In any case what was queued for the host arrives if it keeps the port open (`TextsArrive`); with `cat` used again and again input is read, but for a packet that fills the FIFO (`InputRead`): `usb_read_bytes` wants room for a terminator in an empty buffer of the same size, so that such a packet is never read, and nothing after it. The terminator added to what was received always fits, and `tx_pos` leaves `tx_buffer` only if `stray`, by two bytes at most (`TypeOK`). |

The receiving buffers have 4 bytes, the transmitting ones 3, and queues one item: a
packet can fill the FIFO, join what is in the buffer or not fit with it, and every
queue is full at times. `BUF_IN_SIZE` is 3: a text of two characters leaves room for
its terminator and one of three does not; a longer one is cut to the same item. There
are four inputs: three packets and a text or two of each, enough for a text after
one that has left the buffer.

## 4. Fairness

Safety runs use `Spec`. Liveness runs add weak fairness of each task's next step and of
`Tick`: the kernel is preemptive with time slicing and two cores, so a task that stays
able to run does run, and the tick interrupt keeps coming. In `Console` a command that
runs also ends (strong fairness of `CommandEnd`, because it may print and post in
between) and a print that is repeatedly able to write a character writes one. In
`MacRaw` the chip eventually carries out a SEND, well or not, and `w5500 lwip` goes on.
In `RegisterRead` the reading task runs on; that a call ends rests on the number of
frames during it being bounded (`MaxGrow`). In `WizBus` an init that can go on does, and
a task in an access goes on (strong fairness: the critical section is a spin lock that
both cores try again and again). In `UsbSerial` the usb task and a command go on, and a
host takes what there is while it has the port open (strong fairness, as the usb task is
in `tud_task` only now and then). Otherwise nothing is assumed of users, of the host at
the USB port or of the network: where a property needs them (`AllShown`,
`PromptReturns`), the need is the left-hand side of its implication.

`CHECK_DEADLOCK FALSE` appears where the environment may stop for good within
the bounds: no more keys, frames or messages.

## 5. Proofs

`StormanProofs` proves for every period, timeout and number of commands and
kills, from `ConstantsAreTimes`:

- `TypeCorrect`: `Spec => []TypeOK`, from the inductive `TypeInv`, which adds to
  the types that the semaphore in use is the last one made (`GenInv`);
- `AnswersAreOwn` and `NoAnswerIsLate`: `OwnAnswer` and `NoLateAnswer` if
  `2*MaxOp < DELAY_STORMAN` (`Timely`). Neither is inductive: that the answer is
  there in time depends on where the request is. `AnswerInv` says, while nothing
  was killed, how long the shell can have waited when its request is still in
  the queue, is worked on, or is answered (`DeadlineInv`), whose request is where
  (`OrderInv`, `OwnerInv`), and that the semaphore is only full if the answer of
  the waiting command is in `smi_glob` (`SemInv`). `UntilKill` makes it an
  invariant of all behaviours;
- `NoHandleLeaks`: `HandleClosed`, that is, with the exception of `leaked`: which
  of the calls fail is free, and only a read, write or seek between opening and closing
  may leave the file open. `HandleInv` says at which steps of which
  operation it may be open, also after a kill in the middle of one.

`TaskManagerProofs` proves for any services, delays, paces and number of commands,
from `TaskManagerConstants`:

- `TaskManagerTypes`: `TypeOK`; a start is a command, so that there are no more
  incarnations of a task than commands;
- `ResetsHaveACause`: `NoSpuriousReset`, typed or pasted and whatever is named.
  `WatchdogInv`: unless that task was stopped or the reset is forced, the timer is
  not older than its last kick, and that is at most `KickTicks` old;
- `HandlesAreAlive`, `RequestsAreQueued` and `ForcedRebootIsFinal`:
  `NoDanglingHandle`, `NoRequestDropped` and `ForcedIsFinal`, if no command names
  the task manager (`TaskmanagerLeftAlone`; the run has such `Targets`, and
  `taskman_reboot` shows what happens otherwise). `TypedInv` relates the clocks of
  the shell and the task manager (`PaceInv`: when a command is typed, the one
  before has been read), and from it follows that a handle in the queue or in
  the task manager's hand is the present one (`OnTheirWayInv`).

`WizBusProofs` proves for any registers and values, tasks' accesses, channels and
`init` commands, from `WizBusConstants`:

- `WizBusTypes`, `PollTaskWaits`: `TypeOK`, with a section made before the callbacks
  that use it are stored (`SectionMade`); `PollWaits` from `ProgressInv` (what the
  steps so far have registered is registered) and `StatusInv`;
- `AccessesLeaveNoTrace` and `OnlyTheseStop`: `LeavesNoTrace` and `NoPanic` from
  `misused \/ SafeInv`: during an access the callbacks are complete and of one bus,
  which has the pins (`BusInv`), the section in use is held by the task inside
  (`SectionInv`), and chip select, the latched and the saved header are what that
  task has done so far (`AccessInv`);
- `ImplementsRegisters`: `IsRegisters`. Under `SafeInv` each step of an access is
  the access of the abstract memory or leaves it as it is.

`UsbSerialProofs` proves for buffers, FIFOs and queues of any size and texts of any
length, from `UsbConstants`:

- `UsbSerialTypes`: `TypeOK`, that is, `rx_buffer` and the items of the queues are never
  left and have room for the terminator, and `tx_pos` stays inside `tx_buffer` until
  `strlen` has left it (`stray`), and then exceeds it by two at most; the numbers of
  characters are bounded by those of packets and texts (`CountInv`);
- `TextsReachTheHost`: `TxIsPipe`, until `stray`; what is pending is the concatenation
  of what is in the FIFO, the buffer and the queues;
- `CatShowsTheInput`: `RxIsPipe`, until `overrun`, `hidden` or `stray`, with `RxInv`: until
  one is read, no byte is behind
  a terminator. `TextOf`, which leaves the terminators out, is a recursive
  function; the lemmas `TextAppend` and `TextAll` say what it does to a sequence of
  any length.

`MacRawProofs` proves for rings, positions and frames of any size for which the
rings divide the positions, from `MacRawConstants`:

- `MacRawTypes`: `TypeOK`;
- `ImplementsLink`: `IsLink`, that is, until two tasks are in `netif_output` at once or
  a frame longer than `pack` was copied to it (`Broken`). `RxInv`: there are places,
  growing without a wrap, at which the frames that wait start, one behind the other; the
  chip's positions are those places modulo `PTR`, and what is between the acknowledged
  and the written position is the frames' bytes modulo the ring. `PollInv` says what the
  poll task has read of the first of them. `clash \/ TxInv`: at most one task is in
  `netif_output`, and what it has put between the read and the written position is its
  frame.

`ConsoleProofs` proves for any number of tasks, messages, keys and prints, from
`ConsoleConstants`:

- `ConsoleTypes`: `Spec => []TypeOK`, with two strengthenings: a key that was
  typed waits, is in the line, or has ended one (`KeyInv`), and the cli task's
  place in its loop says what it prints and posts (`CliInv`);
- `NothingIsCut` and `PrintsAreWhole`: `NotInterleaved` and `PrintedWholeAlone`,
  whatever other tasks do, up to the first use of `shell_print` by one of them.
  The inductive invariant is `shared \/ PieceInv`: `PieceInv` relates what is left
  of the string being written, the prompt or what the cli task prints (`Owner`), to the
  last character on the screen, and a task
  that is not the cli task makes `shared` true before it can disturb it. The run
  `console_torn` shows that nothing holds beyond;
- `QueueIsKept`: `IsQueue`, with any number of tasks that post. Invariant until
  `shared`: no message is in two places (`Unique`), and one that is on the screen or
  being printed is neither in the queue nor being posted (`ShownInv`), so that the
  end of a message appears once. `messagesShown` reads the messages off the
  screen with a recursive function; `MessagesAppend` says what one more character
  adds;
- `IdleConsoleLosesNothing`: `LostOnlyIfHeld` if `OneTaskPosts`, that is, one task
  and `DELAY_CLI < PRINT_TICKS`. A message that is given up was held up: at some moment
  while it waited a line, a command, a message or the prompt was in the way, or the
  output stalled. `WaitInv`: while microshell has been at an empty line since the wait
  began, there is room, or what is left of the wait covers what is left of the cli
  task's sleep; the next pass then makes room (`PeekMakesRoom`).

`RegisterReadProofs` proves for bytes of any size and any number of frames, from
`RegisterReadConstants`:

- `RegisterTypes`: `Spec => []TypeOK`;
- `NoTornValue`: `Spec => ReadsAValue`. `ReadInv` says that the first reading is a
  value the register had, or has a high byte below the register's present one; as
  the high byte never falls, the second reading then differs from the first.

Where a sequence of any length is run through, the proofs use induction over a set
of numbers (`SetInduction`, from the well-foundedness of `<`), as the library's
induction over predicates is beyond the provers.

Only model-checked: the liveness properties (`ShellReturns`, `RequestServed`,
`RebootHappens`, `SuspendComesTrue`, `AllShown`, `PromptReturns`, `Drained`,
`SendReturns`, `ReadEnds`, `AccessEnds`, `TextsArrive`, `InputRead`). They rest on
fairness and on `ENABLED`, which the provers do not handle. And the five
violations, which are single behaviours.

## 6. Not modelled

The vendored libraries are most of the lines in the tree (lwIP, the ioLibrary's
application protocols, pico-extras: about 200 000 of 210 000) and are not this
firmware's logic; of the ioLibrary the register access and the buffer functions
that the driver uses are modelled. lwIP is in the models as the caller of
`netif_output` and the receiver of frames. What `w5500 lwip` does inside it is
not, but for what `MacRaw` says of it; as a second one does not get past
`netif_add`, the socket is opened once.

The flash driver has one user, the storage manager, and is in `Storman` as calls
that succeed or fail. The register view draws a screen. The remaining shell
nodes, the hardware layer and the sensor drivers are straight-line code that
reads or writes one register and formats the result; the uptime of `/proc` is
one expression.

In the modelled components are left out: the banner and editing keys of the console, the
contents of files, names and messages, and the length of a transfer over the bus.

## 7. Disagreements between code and documentation

Each is shown by a run that ends in a violation and listed in `PROJECT.json`
under `findings`: `storman_late`, `taskman_reboot`, `console_torn`,
`macraw_shared`, `macraw_overflow`.
