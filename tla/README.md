# TLA+ models of csel-workspace

This directory holds TLA+ models of the concurrent programs of this repository:
the fan controller of `src/07_miniproj` (a kernel driver, a daemon and a command
line client) and the exercises it grew out of that have concurrency, failure
paths or ordering of their own, with the loading and unloading of every kernel
module of the course, the teacher's solutions included. Paths in the modules are relative to the root
of the repository. TLC checks the models on small instances; TLAPS proves the
main safety properties for every value of the constants.

Check a module with `tlc -config FanDriverSafety.cfg MCFanDriver.tla`, its proofs
with `tlapm FanDriverProofs.tla`.

## 1. The system and its components

### Fan driver: `src/07_miniproj/fan_driver/skeleton.c`

State: one `struct fan_ctrl` per bound device (`manual_mode`, `frequency`,
`gpio_state`, a timer, a spinlock) and the fan's GPIO. Operations: the sysfs
stores `manual_mode_store` and `frequency_store`; the timer callback
`fan_toggle_timer`, which samples the temperature in automatic mode, toggles the
pin and arms the timer again; `fan_ctrl_probe` and `fan_ctrl_remove`.
Hard: the callback runs in softirq context, interleaved with any number of
writers; the lock covers `manual_mode` and `frequency` only; every operation
drops the lock and goes on with what it read; probe can fail at each step.
Correct when: the timer dies only if the frequency is 0, the pin never stays
high, frequency 0 brings the fan to rest, another frequency keeps the pin
toggling, every failure gives the GPIO back, and users see an atomic register.

### Daemon, event loop and socket server: `daemon/main.c`, `daemon/socket.c`

State: the table `client_events` with its count, epoll's registrations (which
hold pointers into that table), the batch of the last `epoll_wait`. Operations:
accept or reject a client, dispatch an event, `recv`, `send` and close, remove
the client from the table. Hard: removing an entry moves another one, so that
epoll's pointers and the rest of a batch lead elsewhere; registrations are
EPOLLONESHOT; `recv` blocks the only thread; clients die at any time; `accept`
may fail, and one `epoll_wait` returns ten events at most.
Correct when: the table is the set of open connections, clients see a server that
takes them in turn and answers each once, and every request is answered.

### Daemon, control: `daemon/fan.c`, `daemon/gpios.c` and the handlers

State: the daemon's copy of the mode, the buttons, the LED. Operations: three
buttons and five socket requests (and those it refuses to understand), each of
which makes one or more system calls on the driver's attributes. Hard: the driver's callback and other processes
write the attributes between those system calls; the level of a button is read
when its edge is handled. Correct when: the copy is right, a running fan stays
between FAN_FREQUENCY_MIN and _MAX, the LED ends up off, and status 0 means that
the request took effect.

### fan-ctl: `application/main.c`

One request per process: connect, send, recv. It talks to the daemon only.

### Switch driver and its application: `src/03_drivers/exercise07`

State: the atomic counter `nb_of_interrupts` and its wait queue; on the other
side epoll's ready list and the application's total. Operations: the interrupt
handler, `read` (blocking and not), `poll`, the reset through sysfs. Hard: the
handler wakes before it counts; a read empties the counter before it knows
whether it can deliver what it took. Correct when: no interrupt is reported
twice or lost, but by a read that fails, and whoever waits is notified.

### Skeleton devices: `src/03_drivers/exercise02_to_03/skeleton.c`

State: `devices_number` buffers, the char devices, nodes, class and region of
numbers. Operations: init with seven error paths, exit, open, read, write,
release. Hard: partial failure; a device is open to the public before init has
finished; reads and writes take no lock. Correct when: a module that is not
loaded owns nothing but, after some failures, nodes in `/dev`; no file that was
opened after init loses its buffer, a buffer is always a terminated string, and
an undisturbed reader reads the message exactly.

### Socket pair: `src/05_multiprocessing_and_schedulers/exercise_1/main.c`

State: the two ends of a stream in two processes, the handlers they have
installed. Operations: close the other's end, install handlers, write, read,
end. Hard: signals before the handlers exist, SIGPIPE and end of file, merged
reads, a `sigaction`, `read` or `write` that fails in one process and leaves the
other alone. Correct when: both processes end, and the log has the order of sending.

### better_led: `src/04_file_systems/better_led/better_led.c`

State: the period, a mutex, epoll's ready list, a timerfd, the LED. Operations:
a thread for the buttons and a thread for the LED. Hard: edge-triggered events
that merge or come without a press, a period that changes while the timer runs.
Correct when: every press is served, the last period applies, the LED blinks.

### Device of exercise 5: `src/03_drivers/exercise05/skeleton.c`

State: one pointer, `chardev_data`, the buffer it leads to, and the position of
each open file. Operations: open, read (`strlen`, copy, advance), write (free,
allocate, copy, terminate), exit. Hard: no lock; every call reads the pointer
again; a copy can fail half way; a write does not reset the positions. Correct
when, as long as no write overlaps another operation, nothing freed is used, a
reader gets what there is of the last message from its position on, and the
module takes no buffer with it.

### Two threads: `src/02_modules/exercice07/skeleton.c`, and the teacher's

State: the flag or counter `is_kicked`, a wait queue, the two threads. Operations:
kick, wait, take back, `kthread_stop`. Hard: a kick or a stop between the test and
the sleep; a second thread that cannot be created. Correct when no kick is slept
through, exit ends, and no thread outlives the module.

### Daemons: `src/01_environment/daemon`, `process`, `daemonize` of `daemon/main.c`

State: the session, the descriptors, the descriptor of syslog, the installed
handlers. Operations: fork, setsid, close, open and dup2 of the streams, chroot,
the handler that logs, the sleep that signals cut short. Hard: the handler calls
`syslog`, which may open a descriptor between two steps of the set-up, or wait
for a lock that the interrupted code holds. Correct when the body runs detached,
with `/dev/null` as its streams, and ends.

### Screen: `daemon/screen.c`, `daemon/ssd1306.c`

State: the settings of the controller, whether the display is on, its rows and its
cursor; what the daemon has read. Operations: init, the refresh every 100 ms.
Hard: nothing is erased; a write to the bus that fails is forgotten, the cursor
is elsewhere than the daemon thinks, and what only init sends is never sent
again. Correct when no text keeps the end of a longer one, no refresh leaves its
rows, and the controller comes to hold what the driver has.

### Loading and unloading: `src/02_modules`, `src/03_drivers`, `teacher_solutions`, sysfs pins

State: what each module or program has obtained (pins, interrupts, names, memory,
threads, nodes). Operations: the steps of init, each with its error path; the
steps of exit. Hard: any request can fail; modules want the same pins and names,
and `gpio_free` and `free_irq` do not ask who the owner is. Correct when an init
that fails leaves nothing, an init that succeeds has everything, releases meet
what was obtained, and nobody loses what is his.

### Interactions

```
 fan-ctl --stream socket--> daemon --sysfs--> driver --GPIO--> fan
 buttons --sysfs + epoll--> daemon              ^-- timer softirq, thermal zone
 other processes -----------------sysfs-------> driver
```

Components not modelled are listed in section 8.

## 2. Modules

| Module | Models | Composes |
|---|---|---|
| `FanRegister` | what the driver promises: an atomic register, and callbacks that have begun to sample | |
| `FanDriver` | the driver; implements `FanRegister` (`IsRegister`) | `FanRegister` by refinement |
| `FanControl` | the daemon's handlers on top of the register | `FanRegister` as the driver |
| `RequestServer` | what the daemon promises to the processes that run fan-ctl | |
| `FanDaemon` | the event loop, the table of clients and fan-ctl; implements `RequestServer` (`IsRequestServer`) | `RequestServer` by refinement |
| `SwitchDriver` | interrupt handler, poll, read, the Rust application | |
| `SkeletonDevices` | loading, unloading and file operations | |
| `SocketPair` | parent, child, stream and signals | |
| `BetterLed` | the two threads | |
| `ConfigDevice` | the character device of exercise 5 | |
| `KthreadKick` | the two threads, student's and teacher's | |
| `DaemonProcess` | how the three daemons detach | |
| `Display` | screen, controller and refresh | |
| `Workspace` | the six small programs, one of which runs | `SocketPair`, `BetterLed`, `ConfigDevice`, `KthreadKick`, `DaemonProcess`, `Display` |
| `ModuleLifecycle` | loading and unloading, for any ladders; outlines | |
| `DriverLadders` | what 31 drivers and programs obtain and give back | `ModuleLifecycle` |
| `PairConstants`, `LedConstants` | constants that `Workspace` shares with two of its modules | |
| `MC*` | values of the constants for TLC | |
| `ExerciseProofs` | theorems about the first four programs of `Workspace`, each by itself | `Workspace` |
| `WorkspaceProofs` | theorems about its last two, and about `Workspace` | `ExerciseProofs` |
| other `*Proofs` | theorems of the module they extend | |

The split between `FanDriver` and `FanControl` is the refinement: the daemon is
checked against `FanRegister`, and the driver is shown to implement it, by TLC
and by proof, so that the daemon need not be checked against softirqs.

### How the modules correspond to the code

**FanDriver.** The variables are the fields of `struct fan_ctrl` under their own
names, plus the pin, what probe has acquired, and a program counter per context.
Each access that another context can interleave with is one action: a critical
section under `fc->lock` is a lock action and one action for its body; each
access outside it (`if (fc->frequency == 0)`, `fc->gpio_state = 0`,
`gpio_set_value`, `mod_timer`) is an action of its own. `fan_toggle_timer` is
`ToggleStep(c)` for the softirq and for probe, which calls it directly.
`RemoveHide` and `RemoveRelease` are the kernel's release of managed resources
after `remove` returns. `interrupted` records the process in whose critical
section the timer softirq has struck; such a process does not run until the
softirq is done. A step that is a BUG of the kernel (arming a timer that was
never set up, a callback on freed memory) sets `fault`, and the behaviour is not
followed further.

**FanControl.** `daemon` is the next system call of the handler in progress.
`reply.done` is a history variable: whether the request had its effect.
`written` remembers which attributes another process has written (history too).

**FanDaemon.** `conn` is the kernel's view of descriptors, `client_events` and
`client_event_count` are the table. `interest[f]` is the slot whose address epoll
holds for descriptor f; a batch is a sequence of slots, because epoll returns
pointers, and `Dispatch` reads the slot when it comes to it, like the loop does.
`EpollWait` hands out all that is ready or as much as there is room for: `Room`
are the numbers of the ten events that the buttons and the screen may leave.
`AcceptFails` uses the event up and leaves the connection in the queue.

**RequestServer.** The daemon as its clients see it, without descriptors, table and
epoll: `waiting` is the backlog, `held` the clients of the open connections, `up`
that the daemon lives. `Accept` is `LetIn` or `Refuse`; `Respond` is `Serve`, or
nothing that can be seen if a stale pointer led to a descriptor that is closed;
`Perish` is `Die`; waiting, dispatching, receiving and an `accept` that fails are
stutters. That `Serve`
requires a request, and room in the house is counted in clients and not in slots,
is what the daemon has to get right with its table.

**SwitchDriver.** `IsrWake` and `IsrIncrement` are lines 50 and 51 of the driver.
`wait_event_interruptible` is `WaitPrepare`, `WaitTest`, then sleep until woken.
`raised`, `cleared`, `lost` and `got` count for `LostToFaultsOnly` only. `Take` has
the two outcomes of `copy_to_user`; the application reads into an array of its
own, where it cannot fail.

**SkeletonDevices.** `module` names what init acquires next. `Acquire` is a
success that only adds to `owned`; `Fail` is the error path of whatever was to be
acquired, with the sets `Released`, `Freed`, `Deleted`, `Destroyed` written
separately for each of the seven paths as in the code. A write goes byte by byte;
a read is its `strnlen` and its copy. `quiet`, `text`, `got` and `early` are
history variables: they hold what a reader ought to find.

**SocketPair.** `queue` holds the messages in the stream. A read takes all of
them and logs the first, because the parent prints and compares up to the first
NUL. `Holders` decides end of file and SIGPIPE. `failed` is history: the processes
in which `sigaction`, `read` or `write` has failed.

**BetterLed.** `ready` is epoll's ready list, `events` the rest of the batch.
`timer` is the struct that `set_timer_period` fills under the mutex, `interval`
what `timerfd_settime` set last, and `unset` is history: whether the last one
failed. Writing the LED's file is taken to succeed.

**ConfigDevice.** Every statement of `chardev_write` is an action, a read is its
test, its `strlen` with the test for the end of the file, and its copy, which moves
`pos`. A read asks for any number of bytes. `p` is the pointer in a register; `data`
is read again where the code reads the variable again. `raced` and `last` are history.

**KthreadKick.** `wait_event` is test, queue, condition, sleep; `kthread_stop` sets
the flag, wakes, and joins. `solution` chooses between the student's and the
teacher's order of creating and stopping, and of taking back the kick.

**DaemonProcess.** `fds` is the table of descriptors, so that "the lowest free one"
and what `dup2` replaces are computed, not assumed. `Syslog` is the C library's:
it opens its descriptor late, again if it was closed, and holds a lock. `Catch` is
a handler between two steps, `CatchInside` one within `syslog`.

**Display.** `SetUp` is the list of commands that configures the controller, `Turn`
the off and on around each clearing. A refresh is a list of lines; `Over` is the controller, which writes a
character and moves the cursor around the row. A text has the length that the code
gives it; its characters are told apart by the text they belong to and their place
in it, and only the blanks at its end are like the blanks of any other. `Lose` is a write to the bus that
fails: of a line's commands, or of one of its characters.

**Workspace.** The small programs share no state, and one run serves them all: at
the start the user chooses which runs, the others stay in their first state. The
states are the sum of those of the six programs, not the product.

**ModuleLifecycle** and **DriverLadders.** A driver is data: a sequence of steps for
init and one for exit. A step asks for a resource (`Get`), needs earlier ones
(`Need`), gives back (`Put`, `PutIf`) or unexports a pin (`Evict`); it has the list
of what its error path gives back, and where init goes then: on, out with an
error, out with success, or into a bad pointer. `DriverLadders` has these lists
for every module as the code has them, bugs included; the actions are the
kernel's, the same for all. `Outline` gives what a driver can hold before each
step. It is computed in `MCModuleLifecycle`, and `OutlineAssumption` says that it
is closed under every answer of the kernel.
A driver that requests an interrupt without sharing it holds `"irq 2 alone"` beside
`"irq 2"`. The former clashes with every sharer of the line, and exits put back
both, because `free_irq` looks at the line and the device id only.

## 3. Runs: what is checked and what it shows

| Run | Properties | Shows |
|---|---|---|
| `fan_driver_safety` | `TypeOK`, `StoppedOnlyAtZero`, `HighIsAttended`, `UnboundOwnsNothing`, `UnsetTimerOnlyInProbe`, `IsRegister`, `ZeroComesFromAStore` | two writers, softirq, bind and unbind in any order: no interleaving loses a frequency, leaves the pin high, or leaks; users see an atomic register; a timer that is not set up is armed in one window only, and only a race makes a divisor 0 |
| `fan_driver_live` | `ZeroStops`, `KeepsToggling` | frequency 0 brings the fan to rest, any other keeps it toggling |
| `fan_daemon` | `TypeOK`, `TableIsSound`, `IsRequestServer`, `LoneRequestsAnswered` | the table stays exact although pointers go stale, and none leads to a slot that was never filled; so the clients see an orderly server: let in in turn, answered after the request and once, cut off only if one of them leaves too early; one connection at a time is always answered |
| `fan_control` | `TypeOK`, `CopyIsRight`, `FrequencyInRange`, `LedRests`, `OkMeansDone` | as long as nobody else interferes, the copy, the range and status 0 are right |
| `switch_driver` | `TypeOK`, `LostToFaultsOnly`, `LateByOne`, `TwoAreFetched` | an interrupt is delivered once, or goes with a read that failed; at most one goes unnoticed |
| `skeleton_devices` | `TypeOK`, `UnloadedOwnsNothing`, `FilesKeepTheirBuffer`, `AtRestIsAString`, `ReadsAreExact` | every error path gives back all but nodes in `/dev`; unlocked reads and writes do no more harm than mixing messages |
| `kernel_modules` | `TypeOK`, `NothingIsOrphaned`, `ErrorsAreHandled`, `OnlyRobbed`, `ClassesAreExact` | 31 drivers and programs, alone and in every pair that meets, with a failure at every request: which of them give everything back, forget no error, release only their own and follow no bad pointer |
| `workspace` | `TypeOK`, `ConversationIsSound`, `QuietStart`, `ModulesAreSound`, `DaemonsAreDetached`, `DisplayIsClean`, `EachEnds`, `InputsTakeEffect` | the six small programs, each in every interleaving, with signals, lost writes and failures: safe on the way, ended at the end, no input forgotten |
| `fan_lock` (violated) | `LockIsSafe` | see below |
| `fan_auto_sampled` (violated) | `AutomaticIsSampled` | see below |
| `daemon_requests` (violated) | `RequestsAnswered` | see below |
| `switch_notified` (violated) | `AppIsNotified` | see below |

Four runs are expected to end in a counterexample, because the code does
something else than its comments or reports say:

- `fan_lock`: line 27 calls `fc->lock` the "Spinlock to protect sysfs
  attributes", but the stores take it with plain `spin_lock` (lines 111 and 135)
  and the callback takes it in softirq context. A timer interrupt on the CPU of
  a store in its critical section spins for ever. The run ends with a store as
  the holder; probe, which calls the callback as a function, runs the same risk.
- `fan_auto_sampled`: a callback that ends with frequency 0 lets the timer die,
  and `manual_mode_store` never arms it. After frequency 0 in manual mode, or a
  first thermal reading that failed, "automatic" is a mode in which nothing is
  sampled. Only a write to `frequency`, in manual mode, starts it again.
- `daemon_requests`: `process_event` closes the gap in `client_events` by moving
  entries while epoll keeps the old addresses. The event of a client is then
  dispatched with the descriptor of another: its one-shot event is spent and its
  request never read, or the daemon blocks in `recv`.
- `switch_notified`: `gpio_isr` wakes the queue before it increments the counter.
  A process that looks in between goes back to sleep with an interrupt pending.

`ClassesAreExact` is two-sided: the classes of `MCModuleLifecycle` are those of the
outlines, so that a driver outside of `Careful`, say, has a refusal that makes it
leave something behind. The three other invariants check in the state space what
the classes promise. The properties of `workspace` collect what the modules of
the six programs state one by one: `ConversationIsSound` is `ChildOutlivesClose`
and `LogIsInOrder`; `ModulesAreSound` is `FaultsNeedARace`, `NothingIsLeaked`,
`NeverBelowZero` and `NobodyRunsOn`; `DaemonsAreDetached` is `BodyIsDetached` and
`FailsForAReason`; `DisplayIsClean` is `ShownExactly` and `HeadersStay`; `EachEnds`
is `BothEnd`, `ExitEnds` and `EndsByItself`; `InputsTakeEffect` is `ReadsAreExact`,
`PressesAreServed`, `LastPeriodApplies`, `KeepsBlinking`, `KicksAreSeen` and
`DisplaySettles`. They speak of failures where those matter: a parent leaves
before its child only if it was killed or one of its own calls failed; the last
period applies unless setting the timer goes on to fail; and the display is sure
to be on only if nothing was lost in the start.

`LateByOne` and `LoneRequestsAnswered` say what is left of the promises of the
last two: at most one interrupt goes unnoticed, and a daemon with a single
connection answers.

## 4. Bounds

- `FanDriver`: two writers (in the liveness run one, and 34 degrees only). Two are needed for a store
  to overtake another between unlock and re-reading; the properties speak of one
  writer and "somebody else". Frequencies 0, 7 and, in the violation runs, 16
  (half of `Word`, where `2 * frequency` wraps). Only the frequency 0 and the
  membership of the table matter to the actions. Temperatures 34, 38 and 50
  degrees: below, inside and above the gap of the table's comparisons, so that
  all its reachable entries occur. `Word` = 32 stands for 2^32.
- `FanDaemon`: four clients, two slots, a queue of two. Two slots make one client
  move when another is removed, a third is rejected, a fourth re-uses the
  descriptor of one that has gone. `MAX_SOCKET_CLIENTS` is 8 in the code. Each
  client lives once. Three clients are enough for the counterexample. `Room` is one
  or two of up to three that are ready; in the code at least six of the ten events
  are left for up to nine.
- `FanControl`: the range 1 to 4 with step 1 around the table {2, 3}, requests
  below, at and above both limits and negative ones. One callback context: two
  never run at a time once the driver is bound.
- `SwitchDriver`: two readers and four interrupts: with two an interrupt can be
  taken by the wrong reader, four let each sleeper miss one and be woken again.
- `SkeletonDevices`: two devices (the error path of the second must undo the
  first), two files (two writes, or a write and a read, on one device), buffers
  of three bytes, messages that are empty, fit, and are cut.
- `SocketPair`: the program's own four messages; two of its five caught signals
  (`setup_signals` treats all alike), and SIGKILL.
- `BetterLed`: two presses of any of three buttons, the periods 150, 100 and 60:
  the step of 50 does not divide the range, so that two presses reach the lower
  limit by clamping, and a press and a reset are pending together.

- `ConfigDevice`: two files, two buffers, two messages: a write and a read, or two
  writes, overlap, and a buffer is re-used while another operation has it.
- `KthreadKick`: no bound; the flag and the counter are small by themselves.
- `DaemonProcess`: descriptors 0 to 5 (three streams, one more file, the log and
  the null device), two of the six caught signals, two that arrive, a sleep of 2.
  A second signal is needed for a handler within a handler's syslog.
- `Display`: frequencies of one and two digits, temperatures of one, two and three
  and a failed reading; two changes; one lost write, at the first or the seventh
  character: the first is the command that sets the row, the seventh is in the
  number. With one loss `DisplaySettles` already needs the repair.
- `ModuleLifecycle`: casts of one and of two. What a third could add is proved
  away: the theorems are about any number. Loops over devices are unrolled for
  two of them.

All bounds are constants (`MaxInterrupts`, `MaxPresses`, `Clients`, ...); no
property depends on a counter reaching its bound.

Deadlock checking is off where the system stops: the driver after a fault or a
spinning softirq, the daemon when no client is left, the switch when no
interrupt is left, both processes ended, both threads ended, a module that has
followed a bad pointer, a daemon that has ended.

## 5. Fairness

- `FanDriver`: weak fairness of the timer's expiry; strong fairness of the steps
  of the callback and of stores that have begun. Strong, because the arm64
  spinlock is a queue: a waiter that finds it free again and again gets it.
  Nobody is obliged to write or to unbind. `fan_driver_live` assumes that the
  softirq does not strike inside a critical section (`TickInLock = FALSE`): it
  asks what holds when the fault of `fan_lock` does not happen.
- `FanDaemon`: the daemon's thread runs when it can; a client that has connected
  goes on to send and receive, or is killed. Nobody is obliged to connect.
  `accept` is tried again and again (the server socket stays ready), and strong
  fairness of `Accept` says that it does not fail for ever: what the daemon does
  about descriptors that have run out for good is nothing.
- `SwitchDriver`: a handler that has begun ends; runnable processes are
  scheduled. No fairness of interrupts or of signals.
- `Workspace`: of the program that runs, the fairness below. `FirstStep` and
  `SecondStep` name its first and second process, so that the conditions of
  programs that never run together stand side by side.
- `KthreadKick`: both threads and rmmod, once begun, are scheduled. Nobody is
  obliged to unload. `DaemonProcess`: the process is scheduled; no fairness of
  signals. `Display`: the daemon is scheduled and its periodic timer expires.
- `SocketPair`: both processes are scheduled, and `sleep(1)` ends. No fairness of
  signals.
- `BetterLed`: both threads are scheduled and obtain a mutex that is free again
  and again (between two uses the other thread sleeps for a period or waits for
  a press); a timer that was set once expires again and again. No fairness of
  presses or failures.

## 6. Theorems

All are proved by TLAPS without assumptions beyond the named ASSUMEs on the
constants, which say that counts are positive naturals, that the values of
context names differ, that the limits are ordered, and (for the sum in
`LostToFaultsOnly`) that there are finitely many readers. Those of `Workspace` say that
kmalloc has no buffer at NULL and no message is the garbage of a new buffer
(`ConfigAssumption`); that there are at least six descriptors (`DetachAssumption`:
three streams, one inherited file, the log and the null device; the kernel gives a
process 1024); and that what is displayed fits in its row (`DisplayAssumption`):
frequencies of 8 characters at most, where the daemon sets 100 at most, and less
than 1000 degrees. Another process can store a frequency that does not fit in its
row; its text goes around the row, which the model does not follow.

- `FanDriverProofs`: `TypeCorrect`, `StopsOnlyAtZero`, `NeverLeftHigh`,
  `NothingOwned`, `UnsetOnlyInProbe`, `DivisorIsRaced`, `ImplementsRegister`, for any writers, frequencies and
  temperatures. The safety properties are not inductive: an idle timer is
  harmless only if nobody who could act on a frequency other than 0 has gone
  away. `IInv` adds that (`NonzeroIsAttended`: with a frequency other than 0 the
  timer is pending, or a store is about to look, or a callback is in a state
  from which it will arm the timer), that probe runs alone, that the values in
  hand are table entries or user values (so that a callback about to write never
  writes 0), and who owns what at which step. The refinement proof maps each
  action to a step of `FanRegister` or a stutter; the late thermal write is a
  step there (`Apply`), because the register admits that a callback that has
  begun to sample writes after a change of mode.
- `FanDaemonProofs`: `TableIsRight`. The inductive invariant is
  `TableInv`, with `ListenInv` (a batch contains the server socket once, and only
  if a connection waits). Its lemma on removal shows that closing the gap keeps
  exactly the other connections, and that a slot once filled stays filled, which
  is why stale pointers are wrong but never wild. `TypeCorrect` adds the clients
  and the bound of the kernel's queue (`ClientInv`). `ImplementsServer` is the
  refinement: it needs that every client is at one place at a time, in the queue or
  at the end of one descriptor, and has no answer while it is there (`PartnerInv`),
  that as many clients are held as slots are in use (`HeldCount`), and that the
  daemon is about to send only if the request was read, the client has gone or the
  descriptor is closed (together `DaemonInv`). From the same invariant follows the
  action property `OneAnswer`: neither a stale pointer nor the daemon's death
  replaces an answer. `LonePointersAreExact` is the safety half of
  `LoneRequestsAnswered`: as long as there is never more than one connection, each
  pointer of a batch leads to a connection with something to read, so that `recv`
  neither blocks nor fails (`LoneInv`); what is left to TLC is that the loop goes on.
- `FanControlProofs`: `CopyStaysRight`, `FrequencyStaysInRange` (`ControlInv`;
  `StepLemma`: one step from 0 or from within the range ends within it), and
  `OkIsTrue`, whose `ReplyInv` says that a handler that is about to write for a
  client has seen manual mode and a value in range. `LedComesToRest` is inductive
  as it stands: only a handler writes the LED, and it writes the level it has just
  read. `TypeCorrect` rests on `ControlInv`, `ReplyInv` and `PlaceInv`. Two action
  properties follow. `NoWriteIsRefused`: the daemon does not look at the result of a
  write of the frequency, and need not, because the driver takes each one as long as
  only the daemon writes the mode (`WriteInv`). `DaemonKeepsRange`: until somebody
  else writes the frequency, the register takes steps of a `FanRegister` whose users
  write values in the daemon's range only; `FanDriverProofs` shows that the driver
  keeps such a register for any users, which joins the two halves.
- `SwitchDriverProofs`: `SleepersAreLateByOne`. `LateInv` strengthens the property
  to the moments when the handler runs: before it has woken anybody a sleeper may
  have missed one, and after waking nobody counts as asleep. `TypeCorrect` and
  `OnlyFaultsLose` (by way of `SumInv`) rest on `CountInv` (what is in the counter, counted by the
  application, cleared or lost was raised before). The latter also needs how a sum over
  a function changes with one of its values (`SumOfUpdate`): the partial sums that
  the fold builds exist, and differ by the same amount, because a smallest set of
  readers for which that fails could be made smaller. Two theorems say when a fetch
  may come back empty: only if somebody else fetched. `AloneReadsSomething`: unless a
  blocking reader fetches, the application reads something whenever poll sends it to
  read. `LoneReaderGetsSomething`: a blocking read of the only process that fetches
  does not return 0. Both have the hypothesis as an action formula, and TLC refutes
  them without it.
- `SkeletonDevicesProofs`: `NothingIsKept`, `BuffersAreKept`, `WritesLeaveStrings`
  from `SkeletonInv`: what init owns at each stage (the invariant of the ladder),
  files in use have buffers, and every writer's message ends within the buffer,
  so that a NUL remains at or before the place where it will terminate.
  `ReadsReturnTheText`: a file on whose device nobody else has written is the only
  writer, if it writes; otherwise its buffer holds exactly its text and a NUL, and
  what it has read is the text up to its position (`QuietInv`). It rests on what
  `strnlen` returns (`StrnlenOfText`, `TextIsHeld`) and on copies that continue
  each other (`CopyContinues`). `TypeCorrect` adds that a read that has measured
  the buffer ends within it, whoever writes meanwhile (`PlaceInv`).
- `ModuleLifecycleProofs`: for any drivers, any ladders and any number of drivers
  that are loaded together. The invariant is that a driver at a step holds one of
  the sets its outline lists there, whoever else is about: others can only make a
  request fail, and `lost` and `orphans` are not consulted by a ladder. From it
  `CarefulDriversLeaveNothing`, `ClassesAreKept` (with `StrictDriversAreComplete`,
  `ExactDriversAreMatched` and `SolidDriversStayUp`), `OnlyRobbersRob` and
  `TypeCorrect` follow, each under the hypothesis that the members of the class
  pass the test of the class on their own outlines (`LeavesNothing`, ...), which
  is what `ClassesAreExact` checks for the 31 of this repository. So the run looks
  at each driver alone, and the theorems lift it to all of them at once.

- `ExerciseProofs` and `WorkspaceProofs`: every safety property of `workspace`, for
  all values of the constants: `WorkspaceIsTyped`, `ConversationStaysSound`,
  `StartStaysQuiet`, `ModulesStaySound`, `DaemonsStayDetached`, `DisplayStaysClean`
  and the action property `ReadsStayExact`. Each program has its own inductive
  invariant and is proved by itself; `ProgramsAreTheirOwn` shows that `Workspace`
  implements the specification of every one of them, whichever runs, and carries
  the results over. The invariants:
  - socket pair: each process keeps its own end until it is done, "exit" is in the
    stream only if the child has stopped writing, and a parent that has shut down
    by itself had such a child (`PairInv`); the stream holds the messages sent
    last, and the log is an increasing choice from those before them (`LogInv`): a
    read extends the choice by the first of the stream, and drops the others;
  - better_led: before the reset that the start reports the period may have been
    lowered, after it, it is the maximum, and the third report cannot raise it
    (`LedInv`). The queue of epoll holds each button once, so that it is bounded;
  - exercise 7: which threads exist at each step of init and exit, which have been
    stopped, and that a waiter wakes up for a kick or because it is being stopped
    (`KickInv`);
  - exercise 5: as long as nothing has raced, a writer is alone; there is one buffer,
    `chardev_data` leads to it, and what an operation has found of it is still so,
    a read's piece at its position included; only a write in progress leaves it
    without an end (`ConfigInv`);
  - daemons: above what was inherited nothing is open but the log and a null
    device on its way, so that there is always a descriptor free for it
    (`RoomIsLeft`); what the loop of `close` has passed is closed but for the log of
    a handler (`LoopCloses`); and without a signal the streams are replaced one
    after the other (`DetachInv`). That `open` returns the lowest descriptor is used
    by way of `LowestIsClosed`;
  - screen: what the lines drawn so far have left in the rows (`StartIsDrawn`,
    `RefreshIsDrawn`); that beyond the longest text the rows of mode and
    temperature are blank, which is why the two blanks that the code appends
    suffice from 3 digits to 1 (`RestIsBlank`); that the cursor stays in the
    three rows of a refresh whatever is lost (`HeadersStand`); and that a start
    without a loss leaves the display on, which no refresh touches (`PanelIsOn`).

The lemmas about data need an induction (a smallest place, a smallest set). The
induction theorems of the library take a predicate as a parameter and cannot be
used; `WFMin`, which takes a relation, says that a set of counterexamples has a
smallest one, which is enough (`LeastOfNaturals`, `LeastElement`).

Only model-checked: all liveness (`ZeroStops`, `KeepsToggling`,
`LoneRequestsAnswered` but for its safety half, `TwoAreFetched`, `EachEnds`, and of `InputsTakeEffect` all but
`ReadsAreExact`), because fairness and ENABLED are beyond the prover; and
`ClassesAreExact`, which is about the 31 drivers of this repository and no others.
Every other invariant of a passing run is proved, and both refinements.

## 7. What the code does, where no run says so

Met while modelling; in the models, but no property that excludes them holds.

- `remove` deletes the timer while the attributes are still writable: a store can
  arm it again, and it expires in freed memory (`fault = "use_after_free"`).
- The attributes exist before `timer_setup` (lines 231 and 237): a store in
  between arms a timer without a callback (`fault = "unset_timer"`; it is only
  reached if the mode is set to manual first).
- `frequency_store` divides by `2 * fc->frequency` after the unlock, when the
  frequency may be 0 by now, or may wrap. On arm64 the quotient is 0 and the
  timer expires at once; the model lets the period be anything.
- The callback writes the thermal frequency without looking at the mode again:
  one automatic value may overwrite the user's. `FanRegister` admits exactly that.
- `temp_to_freq` tests `> 40000` before `< 45000`: above 40 degrees it answers
  5 Hz, between 35 and 40 degrees 10 Hz, and 20 Hz never. The model keeps the
  code's order.
- A ninth client is closed without an answer, and takes the zeros of its buffer
  for success. A client that dies before its answer is sent ends the daemon by
  SIGPIPE (`Perish`); `IsRequestServer` says that nothing else does. A failed temperature reading is reported as 0 degrees.
- Another process that writes `manual_mode` is never noticed by the daemon; one
  that writes `frequency` may leave it above the maximum.
- The switch driver's `read` exchanges the counter for 0 before it copies: if
  `copy_to_user` fails (lines 91 to 93) it returns -EFAULT and the interrupts it
  took are lost. `LostToFaultsOnly` says that this is the only way.
- The switch driver's `read` may return 0 in blocking mode, when another reader
  was faster between the test and the exchange; only then (`LoneReaderGetsSomething`).
- A `cdev_add` that fails after the first device deletes the earlier cdevs but not
  their nodes in `/dev` (lines 202 to 204; the path of `device_create` does both).
- `report_2.typ` describes "a series of messages to the parent that logs them";
  messages that merge in one read are not logged, except the first. They merge
  only if the parent is late by a second, or a signal cuts the child's sleep
  short.
- Exercise 5: a write that overlaps a read or a write frees what the other uses
  (lines 123 to 136). The assignment in line 125 is redundant unless kmalloc
  fails. Two writers can each allocate, and one buffer is lost. A message whose
  copy fails is not terminated by the driver, but `copy_from_user` fills the rest
  with zeros: the write fails, and the part that was copied is the new message.
- Exercise 5: a file that has read a message keeps its position (lines 107 to 114),
  and a write leaves the positions alone: without being opened again it sees of the
  next message what is longer than the last, or nothing.
- Module 7 returns an error if its second thread cannot be created, and leaves the
  first running in memory that the kernel frees (lines 59 to 63).
- Module 8 requests the interrupt of K1 as shared with the device id
  `(void*)K1_Switch`, which is 0: the kernel refuses such a request always, and
  the module is loaded without it. Its exit frees it nevertheless.
- The switch driver goes on after pins and interrupts it did not get, and its exit
  frees them: with the teacher's module for the same buttons about, these lose
  theirs (`OnlyRobbed` names the two modules that do this).
- The teacher's modules 6 and 7 stop a thread that `kthread_run` may not have
  created; exercise 05.1 never destroys its device, because it is created with the
  numbers of the character device and destroyed with others; sample 06.3 forgets
  all children but the last.
- The handlers of the example daemons call `syslog`, which is not async-signal-safe:
  a signal during a `syslog` waits for ever for its lock, and one during the set-up
  can take a descriptor that is meant for `/dev/null`. Started without one of its
  standard streams, fan-daemon can have its log in their place.
- The frequency on the display keeps the end of a longer text: after "10Hz" comes
  "5Hzz". The mode and the temperature are padded.
- A setting of the controller or the command that turns the display on is sent in
  `screen_init` only: if it is lost, no refresh repairs it, and the display stays
  dark or wrong until the daemon is started again.
- An `accept` that fails for want of descriptors leaves the server socket ready:
  the daemon's loop runs without rest until it succeeds.
- better_led turns the LED on before the thread that believes it to be off
  starts; the first toggle changes nothing.

## 8. What is not modelled

- What sysfs fails to deliver to the daemon (FanControl starts with the attributes
  present) and to the programs that take pins: a failed export is an answer of the
  kernel in `ModuleLifecycle`, but a LED that is not there is just not lit.
- The sysfs attributes of exercise 5, which store numbers and texts nobody uses.
- `src/02_modules` 1 and 2 print; the thread of 6 and the handlers of 8 print.
  `src/03_drivers/exercise01` maps and reads a register; `exercise04` writes and
  reads a message on the skeleton devices: sequential programs.
- The loop of `silly_led`, a busy wait. Exercises 2 and 3 of
  `src/05_multiprocessing_and_schedulers`: loops and allocations, to be observed
  from outside. The examples of `src/01_environment` and `src/06_optimization` that
  trace, crash, leak or count.
- `teacher_solutions`: the reads and writes by position of its character devices
  (one memcpy between two clamps), its ioctl and mmap, its attributes, `procstat`,
  and `src/03_drivers` exercise 06, which defines `sysfs_driver_init` twice and
  does not compile. Copies of the student's programs (daemon, process, ssd1306)
  are modelled once.
- `boot-scripts`, `config`, `.devcontainer`: build and boot.
- Real time. Timers expire at some moment; periods matter only by being defined.
  The effects of a fast writer that postpones the timer for ever, and of
  frequencies above 500 Hz, are outside.
- Memory models: accesses of single words are atomic and ordered.

## 9. Order of work, and what could follow

Done in this order: the driver with its abstract register, the event loop, the
control, the switch driver, the skeleton devices, the socket pair, better_led,
loading and unloading of all modules, the small programs of `Workspace`, the
abstract request server and its refinement by the daemon.

What could follow, by importance:

1. The daemon without its driver: failed reads and writes of the attributes.
2. Real time: periods of the timers, and a writer that postpones one for ever.
