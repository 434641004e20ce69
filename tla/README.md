# The LK boot loader for HTC Windows Mobile phones, in TLA+

This directory is a verification project for the boot loader in `src/`: TLA+
modules translated from its C and assembly code, TLC configurations that check
them on small instances, and proofs that the TLA+ proof system checks.

The program is a small preemptive kernel (threads, mutexes, events, timers,
deferred calls, a heap), the drivers of two chips of one family (msm7200a and
msm7227), and one application, `aboot`, which boots Linux from NAND flash or
serves the fastboot protocol over USB.  It has one processor.  What runs
concurrently are threads, which are preempted by the timer interrupt, interrupt
handlers, which run with interrupts off, and the hardware.  The critical section
is "interrupts off", counted.

## 1. Inventory

| Part (source) | State | Operations | Hard behaviours | Correct means | Modules |
|---|---|---|---|---|---|
| Threads (`kernel/thread.c`) | run queue: a list for each priority and a bitmap of those in use; state, priority, remaining quantum of each thread; critical section count, saved at each switch; wait queues with counts | create, resume, yield, set priority, sleep, exit, preempt, block with or without timeout, wake one, wake all, unblock | preemption between any two calls; a timeout that races a wake; timers on the stacks of threads; nesting counts that travel with the switch | queues and states agree; the best thread runs; nobody starves among equals; counts balanced; sleeps and timed waits end | Thread |
| Timers (`kernel/timer.c`) | queue ordered by due time | set, cancel, tick | handlers change the queue the tick walks; wrap of the clock | no timer outlives its thread; each one expires | Thread |
| Mutexes (`kernel/mutex.c`) | count, holder, wait queue, magic | acquire, with timeout, try, release, destroy, init | hand-over to a waiter that has not run yet; a timeout that backs out late; destruction with waiters | mutual exclusion; order of arrival; nobody waits for a free mutex | Mutex, MutexLine |
| Events (`kernel/event.c`) | signalled, autounsignal, wait queue, magic | wait, with timeout, signal (also from interrupt handlers), unsignal, destroy, init | signal against wait, timeout and destruction | the rules in `include/kernel/event.h` | Event, EventPromise |
| Deferred calls (`kernel/dpc.c`) | list, event, one thread | queue, run | the event is cleared while entries arrive | each entry runs once; dead threads are freed once | Dpc |
| Heap (`lib/heap/heap.c`) | free list in address order, headers before allocations | alloc with alignment, free | cutting and merging in any order | no byte owned twice or lost; fails only when nothing fits | Heap, HeapPromise |
| USB controller driver (`platform/msm_shared/hsusb.c`) | the request of each endpoint, item flags, configuration; endpoints, descriptors and string numbers given out; the controller's interrupt | bring-up, register, start, stop, queue, interrupt (reset, setup, completions) | bus resets and setup packets that overtake completions; endpoints enabled without a configuration; one request for two endpoints; a controller left running; a device started twice | each request completed once; the handler returns; no host is served by half a device | Udc, UdcStart |
| Fastboot (`app/aboot/fastboot.c`, handlers in `aboot.c`) | protocol state, two events, transfer status, download size | read, write, the command loop, acknowledgements, notifications | the host resets or configures at any moment; state checked once, used later | one answer to a command; no partial image | Fastboot |
| Flash (`platform/msm_shared/nand_wince.c`) | pages, bad block marks | read, write, erase a partition | failing lists, bad blocks, restart of a block, power cuts; result words left over from the list before | what is written is what is read; only erased pages of good blocks of the partition are programmed | Flash, StoragePromise |
| Command lists of the data mover (`nand_wince.c`, `nand.c`) | the words of a list, two controllers' registers, status words | check a block, erase, read, write, mark; for one chip, two, OneNAND | pacing by request lines, chip selects, a list given up in the middle | no list waits for ever or overruns its memory; 0 is returned only for work done | NandLists |
| Partitions (`lib/ptable`, the board files) | table | add, find, hand over | arithmetic on block numbers | partitions apart and on the chip; names found | Layout |
| Recovery and boot decisions (`app/aboot/recovery.c`, `aboot.c`, boot reasons of `target/.../init.c`) | message in the misc partition, images, marker in RAM | read and follow the message, update the radio, choose what to boot, reboot | power cuts, failing flash calls, ignored results | the command survives or is completed; each boot ends with something running; a failure is reported | Boot |
| DEX mailbox and regulators (`target/.../dex_*.c`) | words in shared memory, serial numbers, reference counts | command, enable, disable, reboot, power off | timeout and late answer, two callers | an answered command was carried out; calls return | Dex |
| I2C (`platform/msm_shared/msm_i2c.c`, `i2c_qup.c`) | transfer record shared with the handler; FIFO | read, write, recover | the handler against the caller that polls or gives up; a byte carried from one word to the next | a transfer reported done moved every byte; calls return | MsmI2c, Qup |
| Clocks and rails (`platform/msm7200a/clock.c`; `msm7227/clock.c` and `proc_comm.c`) | registers; the modem's command words | enable, disable, set rate | read-modify-write of shared registers; order of power, clamp and reset; one mailbox for all | no lost bit; no rail drives the chip without power; each caller gets its own answer | Clock, Pcom |
| Keys (`platform/msm7200a/gpio.c`, `interrupts.c`, `gpio_keys.c`, `dev/keys`) | polarity, status and enable bits, the VIC's edge, key map | interrupt handler, debouncing | pins that move between any two accesses; a second key behind a line that stays up | no stuck key | Keys |
| Key matrix (`dev/keys/gpio_keypad.c`, `platform/msm7227/gpio.c`) | driven output, scan, timer | initialise, scan step | keys that move during a scan | a scan finds the keys that rest; the first scan comes | Keypad |
| Battery (`dev/battery/ds2746_battery.c`, `board_htckovsky.c`) | voltage, cable, charger | wait for the charge | two bytes read apart, reads that fail | boots with enough, shuts down only when alone | Battery |
| Delays (`platform/msm_shared/timer.c`) | one hardware counter | mdelay, udelay | a delay in a handler inside a thread's | no delay short; it ends | Delay |
| Text console (`dev/fbcon/fbcon.c`) | position | putc | printers without a lock | the position stays on the screen | Fbcon |
| Printing (`lib/libc/printf.c`) | buffer, flags | vsnprintf | end of the buffer in the middle of a field | stays in the buffer; whole if there is room | Printf |
| Command line (`lib/console/console.c`) | line, position, words | edit, cut into words, look up | rubbing out, escape sequences, a full line | runs what the terminal shows | Console |
| Display link, debug output, C library, board tables | registers written once | | none of their own | out of scope | - |

How they interact.  Events and mutexes call the wait queues of threads; threads
call timers (sleep, timed waits) and deferred calls (exit); the timer interrupt
drives timers and preemption; the USB interrupt completes requests and signals
fastboot's events; fastboot's handlers call flash and boot; boot calls recovery,
which calls flash; the board files call I2C, DEX, clocks and delays to bring
the hardware up, and key handlers call delays.

## 2. The modules

`PROJECT.json` maps each definition to its source lines.

**The kernel**

* **Thread** is the scheduler with wait queues, timers, sleep, exit and the IRQ
  path.  `runq` is `run_queue[]` with its bitmap, `csc` is
  `critical_section_count` and `saved` the count in each thread's structure,
  `pc` says in which call a thread was switched out, so that the end of the call
  (`timer_cancel`, leaving the critical section) is the step
  `return_from_block`.  A call that cannot be interrupted is one step.
  `wait_queue_wake_all` with reschedule switches threads in its loop, so it is
  as many steps as threads.  An interrupt is a sequence of steps that
  nothing can come between: `irq_tick`, one handler for each expired timer,
  `timer_tick_done`, `thread_preempt`.  Timers hold the time that is left, not
  the time at which they are due: the clock does not grow without bound.
* **Mutex** extends Thread: each operation is the code of `mutex.c` around the
  calls it makes on the scheduler.  `owns` is a history variable, what callers
  believe they hold.  **MutexLine** is the abstract mutex: a line of threads
  whose first is inside.
* **Event** extends Thread; **EventPromise** states the rules of
  `include/kernel/event.h` with no scheduler at all: who may pass, whom a
  signal releases.
* **Dpc** extends Event: the queue, the thread that runs it, and `thread_exit`
  with `thread_cleanup_dpc`, its only user.
* **Heap** is `heap.c` in words of four bytes; **HeapPromise** what an allocator
  promises.

**USB and fastboot**

* **Udc** is the interrupt handler and the request queue of `hsusb.c`, cut into
  steps (`isr_status`, `isr_setup`, `isr_collect`, one `isr_complete` for each
  endpoint, `isr_return`) at the points where it reads what the controller may
  have changed.  The controller and the host are external and are modelled from
  what the driver relies on.
* **UdcStart** is what comes before: the bring-up of the controller, endpoints,
  descriptors and strings, start and stop, with a controller that the system
  before may have left running.  It is cut between register writes, where the
  controller may interrupt.
* **Fastboot** extends Udc with the fastboot thread (`pc`, `call`), the
  callbacks from the interrupt handler, and a host that sends commands and
  images, resets the bus and configures the device.  A download has a length in
  bytes; `usb_read` reads it buffer by buffer, the last time what remains, and
  looks at nothing but lengths, so commands have lengths too.  It is not built on the
  scheduler: there is one thread of interest, and it is either blocked at one of
  the two events or runs between interrupts, which is all that Event's promise
  leaves of them.

**Storage and booting**

* **Flash** takes one command list of the data mover as a step: the loops of
  `flash_read_ext`, `flash_write` and `flash_erase` around them are in the
  model, with blocks that are bad or go bad, lists that fail visibly or leave the
  words of the list before, and power cuts.  `call` holds the locals of the
  call.  **StoragePromise** is what callers may rely on; `holds` is the image
  found in the partition's pages by the way the driver itself would read it.  While
  a write or an erase runs the promise lets any version show through: a block that
  is marked bad drops out of the partition, and with it what stood between an
  older image's pages.
* **NandLists** looks inside: the lists of both drivers, transfer by transfer,
  with the request lines that pace them, the controllers' registers and the
  status words the functions judge.  `nand_wince.c` and `nand.c` with one chip,
  two interleaved chips and OneNAND are alternatives chosen at the start.  All
  lists share one piece of memory: `behind` is what longer lists left behind the
  present one, into which a list without an end goes on.
* **Layout** is each board's list of partitions and the table.
* **Boot** composes `aboot.c` and `recovery.c` above partitions that behave as
  StoragePromise says.  A reset or a power cut comes between any two steps; RAM
  but not the marker's word is lost.

**Drivers**

* **MsmI2c**: the caller, the handler, and the controller that shifts one byte
  ahead, each with steps of its own.  The controller is external: a raised
  interrupt is taken before the caller's next poll, the bus is active from the
  write of the address, reading the status clears error bits, and anything but
  an address is lost on an idle bus.  **Qup** is the other chip's: the FIFO's
  words as the controller will see them.
* **Dex**: the mailbox word by word for two callers and an ARM9 at its own pace;
  both targets' `dex_comm.c`, and the regulators.
* **Clock**: a call is a sequence of read-modify-writes that is worked off step
  by step.  **Pcom**: the calls of the other chip, through the modem's words.
* **Keys**: pins, bank, interrupt controller and handler, access by access.  The
  interrupt controller latches a rise of the bank's line (`Latch`), so a line that
  never falls interrupts once.
  **Keypad**: the scan of the matrix by the timer.
* **Battery**, **Delay**, **Fbcon**, **Console**, **Printf**: one source file
  each; steps are register or memory accesses in Battery, Delay and Fbcon, a key
  and a character in Console, a format character in Printf.

**MC...** modules give the constants their values for TLC and compose the
components.  Machines that share no state (the drivers and the heap in module
**Platform**, the scenarios of MCStorage, MCSync, MCKernelLive and MCAboot) are put
side by side: a variable that never changes says which one a behaviour is about,
the others stand still, and each property of the composition is asked of its own
machine.  A conjunction such as `WaitsRight` names the part each component
contributes.  Platform has its constants as parameters, so that theorems can be
stated of it; MCPlatform gives them their values.

### Where a step begins and ends

One processor and interrupts off inside critical sections make a call of the
kernel atomic, except where it switches threads.  Two places are outside: the
first test of `thread_resume`, and the reading of the clock in
`timer_set_oneshot`.  Neither matters with the callers in the tree (a thread is
resumed once, by its creator; a tick between the reading and the insertion
shortens a delay by one tick), and both are taken into the step.

Drivers run with interrupts on and without locks, so their steps are single
accesses to registers and to memory shared with a handler, another thread or the
hardware; what lies between two of them touches nothing shared.

### When the count leaks

The run `thread_leak` shows that a late timeout leaves a critical section open.
From then on interrupts are off when they should be on or the other way round,
and the reading "one call, one step" no longer describes the program.  So the
model stops there (`stopped`): the states after the leak are not explored, and
liveness properties that use timed waits say "unless the count leaked".

## 3. What is checked

Every passing run explores all states of its instance.

| Run | Asks | Properties | Instance and bounds |
|---|---|---|---|
| `thread_safety` | Do the queues always agree with the states, does the best thread run, do timers die with their calls, is a wake's result kept? | TypeOK, RunQueueInv, WaitQueueInv, CurrentInv, TimerInv, SwitchesToHighest, WakeResultKept | three threads and idle, of which two are created as they go, one wait queue, priorities up to 2 and one request above (clamped), quantum 1, delays and timeouts of one tick |
| `thread_leak` | (violated) Is the count balanced with timed waits? | CriticalSectionInv | two threads |
| `kernel_live` | Do timed waits and sleeps end? Is every dead thread freed, once? Do threads of one priority share the processor? Is the critical section count balanced without timed waits? | TimedWaitEnds; DpcInv, DeadIsFreedByDpc; EqualsShare; BalancedUntimed | three scenarios: two threads, timeouts of two ticks, sleeps of one, nobody dying; the DPC thread and two others that die and are created again; or three threads of one priority, quantum 2, sleeps of one tick, no timed waits, nobody dying |
| `mutex_line` | Mutual exclusion, no stranded waiter, first come first served, every acquire ends | LineInv, DestroyedNotScribbled, LineSpec, AcquireEnds | three threads of one priority, one mutex, destruction and re-initialisation |
| `sync` | Do events keep their rules? Is every count of a mutex accounted for when acquires time out? | PromiseSpec, EventInv, CountInv | two threads of one priority, one above and interrupts, an event of each kind; or one mutex, timeouts and sleeps of one tick |
| `mutex_stranded` | (violated) Can a thread wait for a mutex nobody holds? | WaitersHaveHolder | three threads of one priority, timed acquires |
| `storage` | What do reads, writes and erases of a partition leave and say, whatever goes wrong? Do the command lists end, fit and tell the truth? Are the boards' partitions apart? | WritesPromised, PagesRespected, CallEnds; StorageInv (the reads in order, the partitions apart, the lists' pacing, size, end and registers); SuccessMeansDone | a partition of three blocks of two pages in the middle of five, images of a block and a half, two faults, two calls; lists for four chips, one after the other in any order in the memory of 64 entries, with one error in each as long as no list was broken; three boards with their real numbers |
| `aboot` | Is any bulk request lost, any command done twice, any partial image taken for whole? Is a patient host served? Does every boot end, with the updates covered? | UsbInv, NoPartialDownload, CommandOnce; PatientHostServed; BootInv, RecoveryOnce, EveryBootEnds | two bus resets, six kinds of request to the control endpoint (three with each host), the commands (flash with the patient host only), a buffer of two bytes, commands of one, downloads of none, three and (patient) four bytes, transfer errors; two power cuts and one failing flash call |
| `boot_status` | (violated) Does recovery find that the update failed? | FailureReported | as the boots of `aboot` |
| `platform` | Fourteen machines: does each keep what it is for? | HeapInv, PromiseSpec (heap); WaitsRight (DEX, modem, delays, battery); BoardRight (I2C, text console, command line); ClocksInOrder (clocks); KeysRight (keys, matrix); DataWhole (QUP, printing, command line); UsbServed; DriversReturn (I2C, DEX, matrix, delays) | below |
| `key_edges` | (violated) Is the next edge of a pin that rests always latched? | BothEdges | two pins |
| `key_line` | (violated) Is a release seen, once no handler runs? | ReleaseInterrupts | two pins |

The machines of `platform`: a heap of 21 words with four sizes and four
alignments, one malformed; I2C transfers of up to three bytes, one retry, two
troubles; two callers of the mailbox, one regulator, two commands, both targets;
QUP messages below, at and above a block of 8 and a FIFO of 16 entries, and of
257 bytes, writes of odd and even length in front of a read of the same device,
of a read of another one and of a second write; five clocks and two threads; two pins and one round of the edge
detection; two threads at the modem's mailbox; a screen of 26 x 24 pixels (two
cells across, two rows in use) with two threads and a handler; a matrix of 3 x 3 with two
wired keys; voltages 0..7 with a low byte of 2 and the real patience of 12 looks;
delays of 1 and 250 microseconds and of a millisecond on a counter of 5 periods
a millisecond (33 in the hardware), three delays; a line of 7 characters and two
words; 24 printf fields, every conversion and flag among them, alone, in pairs and
in front of an unfinished one, into buffers of 2, 4, 6 and 64 bytes; USB with two strings, four string numbers (255),
three endpoint numbers and seven calls.

Why the bounds are enough.  Queue operations touch a thread, its neighbours and
the bitmap: three threads give a first, a middle and a last, two priorities a
switch in either direction, and a third, idle, the fall-back.  A timeout races a
wake within one tick.  A mutex needs an owner, a waiter and a newcomer.  On a
heap of 21 words chunks have neighbours that are free on no side, on one, on
both, and the smallest rest that is worth splitting and the largest that is not
both occur.  Two bus resets give one before and one in the middle of everything;
a download of three bytes has a whole buffer, which is followed by a read without
a look at the state, and a remainder, which is as long as a command.  A partition of three blocks with an image of
a block and a half has a block to skip, one to start again in and one that must
be left erased, and two faults give a failure while another is being repaired;
its neighbours on the chip show a step too far.  One power cut can fall into an
update and one into the repair of it.  Two callers are what a lock keeps apart; a
second command is one whose caller may be given the answer to the first.
Counters that only grow are bounded by the number of calls (MaxCalls, MaxDelays),
of faults (MaxFaults, MaxErrors, MaxTrouble, MaxBad, MaxCuts), of resets
(MaxResets) or, for the console's position, by MaxPosition, beyond which
the model does not let two threads drive it.

Deadlock is checked in the kernel's runs.  The others say CHECK_DEADLOCK FALSE:
the program does stop there.  It has booted or shut down, waits for a host that
is not there any more, or is a function that has returned.

### Fairness

* A kernel call and an interrupt handler run to their end: weak fairness of the
  return steps and the handler steps.  They are finite code on the one
  processor.
* The timer interrupt is taken if interrupts are enabled again and again: strong
  fairness of `irq_tick`.  The interrupt stays asserted until served.
* A thread in its own code need not do anything: no fairness, so threads may
  loop.  Mutex adds that a holder releases in the end; Dpc that the DPC thread's
  own loop goes on.
* Fastboot: its thread is scheduled, and the host ends the transfers it began.
  It need not send another command.
* Flash, Boot: the call and the loader go on; a requested reset comes.  Faults
  and power cuts have no fairness and a bound.
* I2C: the caller polls, the handler is taken, and the controller shifts.
  Devices need not cooperate: they may refuse and hold the clock.  DEX: callers
  run, their ten seconds pass, and the ARM9 is initialised in the end; it need
  not answer.
* Matrix: the timer fires again and again and its thread runs; a delay's counter
  counts while it is enabled.

### Findings

* `thread_leak`: `thread_unblock_from_wait_queue` returns `ERR_NOT_BLOCKED`
  with the critical section open.
* `mutex_stranded`: a timed-out acquire backs out its count when its thread runs
  again, not when the timeout expires; a release in between leaves the next
  acquirer waiting for a free mutex.
* `boot_status`: the status of a failed update is overwritten with OKAY by the
  boot that starts recovery.
* `key_edges`: the polarity bits of pins that should interrupt on both edges are only
  ever set: once a press was handled its pin keeps the rising edge, and every later
  press is missed until its release.
* `key_line`: all inputs of the interrupt controller are edges, and the handler looks
  at a bank once.  A second pin latched between that look and the first clear keeps
  the bank's line up, no key interrupts again, and a key that was let go of meanwhile
  stays held.

Met while modelling, in the models as they are, and not made a run:

* Kernel: a mutex in hand-over can be destroyed under the
  thread that was woken for it (`mutex.c:52`); an acquire with a timeout whose wait
  ended because the mutex was destroyed falls through to making its thread the
  holder, where the comment says that it exits (`mutex.c:137`).
* USB: CLEAR_FEATURE enables a bulk endpoint although the device is not configured
  (`hsusb.c:548`); a command sent after a reset that is as long as the remainder of a
  download passes for it, and the partial image is taken for whole (`fastboot.c:165`,
  the exception of NoPartialDownload); a setup packet that overtakes a completion makes the interrupt handler
  wait for the transfer it has just queued (`hsusb.c:369`), for ever if the host
  resets instead; an answer sent after the host configured the device anew blocks
  both sides (`fastboot.c:239`); `udc_endpoint_free` frees nothing, and a device
  that is registered again runs out of string numbers.
* Flash: the result word of an erase is preset to a value that passes for success,
  so a list that did not run looks done (`silent` marks these); `flash_read_ext`
  fails an image that ends with the partition (`nand_wince.c:953`) and passes
  over unreadable pages; a block without a mark that cannot be erased is passed over by
  a write and keeps what it held (`nand_wince.c:1022`), and `flash_erase` reports every
  failure as success.  In `nand.c` the lists for two interleaved chips double the
  codewords twice (1440) and, the reads of 2 KB pages apart, outgrow the 64 entries
  they are given, and the transfer that should restore the ECC configuration behind
  a read or a write is overwritten by the next one (`nand.c:1207`, 1656), and with it,
  in the read, the flag that ends the list; no target switches interleaving on.
* Boot: the test for an incomplete image is reversed (`aboot.c:271`);
  `reboot-bootloader` boots normally; the result of `set_recovery_message` is
  ignored, so with a misc partition that cannot be written the device starts
  again for ever (faults are bounded in the model); after a `continue` that finds
  nothing to boot nobody listens to USB; no board has the FOTA partition that an
  update of the radio is written to.
* Drivers: the DEX result is always 0 and its regulator table all zeros; a
  regulator id of 32 passes the test; `clock.c:284` clears the VDC bits of another
  register than the one it set; a QUP write of even length in front of a message
  it is not combined with loses its last byte and reports success (`i2c_qup.c:388`;
  MessagesWhole says exactly which bytes those are), and one of no bytes never ends; a delay inside a delay leaves the outer one at a stopped
  counter (`timer.c:173`); I2C reads of the battery are not checked;
  `photon_keymap` has fewer entries than its matrix; a handler that prints when a thread
  has just filled the last cell of a row draws a few pixels past the right end, and past
  the frame below the last row; "%05d" of -12 prints 00-12, "%#6x" puts the prefix in
  front of its fill, and a precision counts as more digits of the width (PrintsWhole
  lists the three).
* Layout: kovsky's cache covers the blocks that a comment keeps for the block markers
  (`board_htckovsky.c:569`); rhodium's reaches past 4096 blocks.

### What the properties excuse

Some properties hold only with an exception, which each of them states where it is
defined; in the order of the runs:

* `mutex_line` has no timeouts, and neither have the theorems on the line; what goes
  wrong with them is in the run `mutex_stranded` and, of a destroyed mutex, in the
  list above.
* StorageInv asks the size of a list only of those that are in use (ListFits) and of
  the interleaved read not that it ends (StopsAtItsEnd); an interleaved read or write
  need not restore the ECC configuration (LeftAsFound).  Of the boards, rhodium's
  cache need not fit the chip, and kovsky's is the one partition on the markers'
  blocks.
* WritesPromised says nothing of a write in which a failure went unreported (`silent`):
  a list that did not run and left words that pass, or an unmarked block that could
  not be erased.
* NoPartialDownload excuses a remainder as long as a command, when whole buffers came.
* BootInv does not cover an update whose message was cut while it was written.
  EveryBootEnds is about finitely many faults: a misc partition that can never be
  written makes the device start again for ever.
* ClocksInOrder does not ask that a disabled clock stops (`clock.c:284`).
* KeysRight excuses the lost line, where it says what is left: the release is latched.
* WaitsRight says that no delay is short, and DriversReturn excuses the delay that was
  disturbed by one in a handler; a battery read that fails excuses what is decided by it.
* DEX: the ARM9 reads a command's words in one step.  Module Delay has one thread and one
  handler, module Pcom the callers that take `clk_mutex`; the I2C pins and the USB PHY of
  the msm7227 use the modem's mailbox without it.

## 4. What is proved

The proof modules state their theorems for every value of the constants: any
number of threads, queues, blocks, pages, versions, words, resets, faults and
power cuts, any quantum, delay and image.  What they assume of the constants is
named where the constants are declared, is evaluated by TLC in each run, and is
what the code takes for granted:

| Assumption | Says |
|---|---|
| `ThreadAssumption`, `BootAssumption` | the idle thread is a thread, `None` is no thread and no queue, priorities and times are naturals, a timeout of 0 does not queue a timer, and each thread is at most once in the queues at boot |
| `MutexAssumption` | there are finitely many threads |
| `EventAssumption`, `DpcAssumption` | autounsignalling events are events; the DPC thread runs from boot and its event is not one of them (`dpc.c:80`) |
| `HeapAssumption` | the heap has a start other than 0 and holds at least one header |
| `FlashAssumption` | the partition is not empty and lies on the chip, blocks and images have pages |
| `UdcAssumption`, `FastbootAssumption` | the control requests and commands are ones the model knows; a buffer is not empty, a command not empty and shorter than a buffer, and downloads have lengths in naturals |
| `DriversAssumption` | the names that stand for "no thread" are no threads; delays and the counter's rate are numbers |
| `BatteryAssumption` | levels, thresholds and the patience are naturals; the low byte has at least one value |
| `KeysAssumption` | pins are naturals, a level is sampled at least once, and each key of the matrix is at a crossing of an output and an input |
| `I2cAssumption` | the numbers of bytes in a transfer and of its retries are naturals |
| `ScreenAssumption` | printers and handlers are different, characters have a size, the screen is higher than two of its rows and its height is a number of whole rows, as of all the panels (800 and 480 lines, a font of 8) |
| `LineAssumption` | the buffer takes a line's end, and the array at least one word |
| `UsbAssumption` | the last string and endpoint are naturals, the strings a sequence, and no pair of endpoints is NULL |

| Module | Theorem | Property of a run | Invariant |
|---|---|---|---|
| ThreadProofs | TypeCorrect, RunQueueCorrect, WaitQueueCorrect, CurrentCorrect | TypeOK, RunQueueInv, WaitQueueInv, CurrentInv | `IInv` |
| | SwitchesCorrect | SwitchesToHighest (action property) | `IInv` |
| | TimersCorrect | TimerInv | `KInv` |
| | WakeResultCorrect | WakeResultKept (action property) | `KInv` |
| | CriticalSectionsBalanced (`Timeouts = {}`) | CriticalSectionInv, of BalancedUntimed | `CInv` |
| SyncProofs | MutualExclusion | OwnerHolds, a part of LineInv | `MInv` |
| | CountsCorrect | CountInv | `MInv` |
| | NobodyStranded (`Timeouts = {}`) | LineInv | `LInv` |
| | OwnershipNotScribbled (`Timeouts = {}`) | DestroyedNotScribbled (action property) | `LInv` |
| | MutexIsLine (`Timeouts = {}`) | LineSpec: Mutex implements MutexLine | `LInv`, `FrontsRight` |
| | NoWakeupLost | EventInv | `EInv` |
| | EventsKeepRules | PromiseSpec: Event implements EventPromise | `EInv` |
| | DeadQueuedOnce | DpcInv | `DInv` |
| HeapProofs | HeapCorrect | HeapInv | `HInv` |
| | HeapKeepsPromise | PromiseSpec: Heap implements HeapPromise | `HInv` |
| FlashProofs | FlashCorrect | FlashInv, a part of StorageInv | `FInv` |
| | FlashRespectsPages | PagesRespected (action property) | `FInv` |
| | FlashKeepsPromise | WritesPromised: Flash implements StoragePromise | `FInv` |
| AbootProofs | UsbCorrect | UsbInv | `FbInv` |
| | DownloadsWhole | NoPartialDownload | `FbInv` |
| | CommandsOnce | CommandOnce (action property) | `FbInv` |
| | BootCorrect (`Polls \in Nat`), UpdatesCovered | BootInv; FotaCovered, its part | `BInv` |
| | RecoveryStartsOnce | RecoveryOnce (action property) | `BInv` |
| DriverProofs | WaitsCorrect | WaitsRight | `DriversInv` |
| | UsbAlwaysServed | UsbServed | `DriversInv` |
| | KeysAlwaysRight | KeysRight | `DriversInv` |
| BoardProofs | BoardAlwaysRight | BoardRight | `BoardInv` |
| | I2cStaysWhole, ScreenStaysInOrder, LineStaysInBounds | I2cWhole, ScreenInOrder, LineInBounds: its parts | `BoardInv` |
| ClockProofs | ClocksStayInOrder | ClocksInOrder | `ClkInv` |

Four theorems assume that nobody waits with a timeout.  That is no convenience:
with timeouts the properties are false.  The runs `thread_leak` and
`mutex_stranded` show it for the count and for the waiters (and so for the line);
the acquire with timeout makes its thread the holder of a destroyed mutex
(`mutex.c:137`).  `MutualExclusion`, `CountsCorrect`, the scheduler's
invariants, the events' and the deferred calls' hold with timeouts.

### The arguments

**Scheduler.**  None of the invariants is inductive alone: that a woken thread may
be put in the run queue needs it to be in none (RunQueueInv), which holds because
it was blocked, which WaitQueueInv says of the members of wait queues; that the
switch finds a thread needs the idle thread never to block (CurrentInv), and a
sleeping thread is made ready by its timer only because it still sleeps when that
expires.  So
`IInv == TypeOK /\ RunQueueInv /\ WaitQueueInv /\ CurrentInv /\ SleepersOf(timers, state)`,
where the last conjunct says that the timers of sleeps belong to threads that
sleep, one each.  First come lemmas on sequences (what insertion, removal and
the search for a position do to the set of elements and to injectivity), then on
the two run queue insertions, on `thread_resched` (for any states and queue that
agree except for the thread that gives up the processor) and on `Unblock`; then
one lemma for each action, and the theorems.  `SwitchesToHighest` follows from
`RunQueueInv` before and after the step: the bitmap names the lists of ready
threads, and `thread_resched` takes the highest.

**Timers and frames.**  `KInv` adds where the threads are (`FrameInv`: exactly the
threads inside `wait_queue_block` can be blocked, an interrupt or a wake-up loop
finds the current thread in its own code) and what is in the timer queue: it is
ordered, a timeout belongs to a thread that is inside its call, a sleeper has a
timer.  The proof is of the steps any client of the kernel can take (`KernelNext`), so
the modules about mutexes, events and deferred calls use `KInv` as it is.
`CInv` adds the balance of the critical section; without timeouts every switch
leaves by the way it came.

**Mutexes.**  `mutex_release` decides by the count and not by the queue, so the
invariant relates the count to the threads it counts: those that own the mutex,
those in its queue, those that were woken and have not run, and those that timed
out and have not run (`Counts`).  At most one of them owns it or has been woken
to (`OneHolder`), and a thread inside an acquire has the result its waker gave
(`ResultsRight`).  A destroyed mutex keeps being decremented by those who wait
to see the error, hence the bounds for it.  `LInv` adds `Attended`: a mutex that
counts anyone has an owner or was handed to someone, which a timeout would break.
For the refinement the line in front of a mutex starts with its holder or the
thread that was woken to become it (`FrontsRight`); a release is then the step
in which the abstract line loses its first.

**Events.**  A signalled event has an empty queue, and every thread inside an
`event_wait` is blocked at that event or has its result (`WaitsAt`); the promise's
state is a function of the result and the place.  A wake-up loop of the scheduler
is several steps here and one at the promise.

**Deferred calls.**  Only the DPC thread waits, and only at its own event; every
dead thread is in the list or is the entry being worked on, and a list that is
not empty has its event signalled or its thread on the way.

**Heap.**  `NoWordLost` says which words the chunks own; it needs the free list to
be sorted with gaps (`Sorted`), so that a chunk that is put back meets at most
two neighbours, and each header to lie in its own chunk (`HeaderKept`).  Half the
module is lemmas about cutting and splicing sequences of chunks.  The promise's
"fails only if nothing fits" follows because two free chunks never touch, so that
a run of free words lies in one of them.

**Flash.**  `FInv` says how far a call has come: the image's pages that were
written are those before the current page in the good blocks, counted by `Rank`
(`WrittenInv`); the rest of the block is erased (`RestErased`); a read has handed
out the pages in order (`ReadInv`).  `Rank` is a cardinality, so the module first
proves that blocks and their ranks correspond.  Working it out showed that
the promise had been stated too strongly: see StoragePromise above.

**Fastboot.**  A bulk request is in one place on its way from the controller to the
handler (`InOnePlace`), it has ended when it is there (`CompletedEnded`), and the
thread that waits is owed it (`WaitIsOwed`); together with the host's rules (nothing
overtakes a SETUP packet, nothing but commands comes after a reset: `HostWaits`) that
gives `UsbInv`.  CLEAR_FEATURE may enable a bulk endpoint at any time, so only one
direction holds: a configured device has both enabled.  For the download, `DownloadInv`
ties what the memory holds to the dialogue at each of the thread's places, stale results
of transfers included: as long as the host sends the image the memory holds what was
read, and once it does not, whole buffers of it, behind which only a transfer as long as
a command can pass.

**Boot.**  The message that is being followed is the one in the partition
(`MessageStands`), what is about to be reported is true (`ReportTrue`), and between
`dex_reboot` and the reset the loader only loads (`ResetSoon`).

**Drivers.**  `DriversInv` is a conjunction of one invariant for each of seven machines,
`BoardInv` of those of three more, and `ClkInv` is the one of the clocks; a step of the
platform is a step of one of them or leaves it alone (`EachMachineMoves`, `ClockMoves`).

* DEX: the mutex lets one caller at a time to the words (`OneInside`), so what it wrote
  stands (`CommandWritten`) and, from the moment it raises the number, stands under that
  number, and whatever was done under it is this command (`CommandStands`).  An
  answer that is late carries a number given before (`Numbers`), which is never the one
  waited for.  The words are cleared, the number with them, only before the ARM9
  has done anything (`Young`).
* Modem: the same for the words of proc_comm, which `clk_mutex` keeps (`Asking`,
  `WordsWritten`); the modem is notified only of a command that is written whole
  (`Notified`).
* Delays: handlers do not nest (`OneHandler`) and leave the counter as they found it
  for a thread that was about to start it (`CounterLeft`), so that it is never ahead of
  the clock (`CountedPeriods`).
* Battery: the high byte read is at most the battery's, but for the one level lost
  between the two reads (`BytesRead`).
* USB: a number is given to one string (`Numbered`), each string named in a
  descriptor or in the one being made is registered (`Spelled`), what a start needs is
  there at each of its steps (`Brought`, `Started`), and it stays when the interrupt is
  let in (`LetIn`).  That the search of the list finds anything needs a least
  element of a set of naturals, from the library's well-founded induction.
* Keys: a held key that is let go of is latched, or on the handler's list, or about to
  be looked at (`ReleaseComes`).  That the interrupt comes takes a line that is not up
  without a latch while no handler runs; with one key enabled it never is (`LineKept`).  For that, each pin that is low must have the
  polarity that latches its rise, or be on its way to getting it (`LowLatched`), which
  the loop that sets the polarity restores although the pin moves between the reads of
  its registers (`Detected`); and a pin that rises between the last sample and the
  event is latched for another round (`Sampled`).
* Matrix: what a scan has passed is known for what it is, but for the keys that moved
  (`Scanned`); exactly the output whose turn it is is active, so that the inputs show its
  row alone (`RowIsRead`), and a crossing's number belongs to one row (`Crossing`).

* I2C: what waits in the controller's register, what has gone over the bus and what the
  handler still counts add up (`Sending`, `Turning`, `Receiving`: a register number that
  is sent, the turn of the bus, bytes that are shifted one ahead of the reader), as
  long as the transfer is not given up; an error has its interrupt waiting
  (`InTransfer`).  The handler has a message only while the caller waits for it
  (`InMessages`), and what the caller believes at the end it reports (`Reported`).
* Text console: whoever leaves the column too far right still holds that column, or is on
  its way to the first one (`ColumnKept`), and the same of the row, which only the last
  scroll takes back (`RowKept`); of a thread that prints alone, the row is too low only
  by what a handler takes back before it leaves (`OneTooLow`).
* Command line: a key that is read has room for itself and for the line's end, and a
  word that starts has an entry in the array (`RoomInLine`).
* Clocks: the invariant is about the writes that are still to be done.  Each of them finds
  what it needs when its turn comes (`InOrder`): the power before the clamp goes, reset
  and a closed port before the clamp comes, the clamp before the power goes, whether the
  register holds it already or an earlier write puts it there.  A rail's flag is a clock
  that is on or being enabled (`Remembered`), so that a call that returns early has
  nothing to do.  No write clears a bit that lets an enabled clock run (`Spared`), and
  the call that enables one still sets each of its bits (`Running`).  That the calls of
  `clock.c` are such sequences is shown call by call, from which clock a bit belongs
  to (`Owners`): a write is `Plain` if it touches no rail, `Mild` to a rail it leaves as
  it is, and the calls for a rail are mild to the two others.

### What is only model-checked

* Liveness: EqualsShare, TimedWaitEnds, DeadIsFreedByDpc, AcquireEnds, CallEnds,
  PatientHostServed, EveryBootEnds, DriversReturn.  Fairness and ENABLED are out of the
  prover's reach.
* The command lists (module NandLists, in StorageInv and SuccessMeansDone) and the
  boards' partitions (module Layout, in StorageInv): finitely many lists and tables
  that are constants of the code, which the run goes through.  A general number of
  errors in the status words is not proved.
* DataWhole, which compares what is written with what a recursion over the messages, the
  formats or the keys makes of them (induction over data).

## 5. Not modelled, and why

* The display link and panels (`mddi.c`, the panel tables of the boards): brought
  up by one thread before any other runs, from tables, waiting for status bits
  that nothing in the repository describes.  Debug output (`debug.c`).
* The C library but for printf and malloc: functions of their arguments.
* `acpuclock.c`, `platform.c`, `smem*.c`: tables walked once, or not used.
* In `hsusb.c` the charger's functions (130-202, 931-951), the ULPI accesses and
  `usb_cable_status`, which nobody calls.  In `nand.c` the calls at 3218-3430,
  which are nearly those of `nand_wince.c` (module Flash), and
  `isbad_interleave` and `erase_interleave` (317-488, 571-719), which nobody
  calls.  `gpio_config` and the other set-up of pins, which is done once by one
  thread.
* The PMIC, Ethernet and old USB drivers (twl4030, smc91c96, `usb.c`): in no
  project of the repository.  Tests, shell and nandwrite: not in the default
  build; what they expect of the kernel and the command line was read.
* Instruction-level matters (register saving, caches, the MMU), and the tags for
  Linux, which are bytes in a fixed order.

Abstractions inside the modelled parts: thread-local storage, names, stacks as
memory, debug checks that panic (callers are taken to keep to them), the wrap of
the 32-bit millisecond clock, sizes near 2^32 on the heap, the contents of USB
descriptors, the text of fastboot's answers, the sizes in a boot image's header,
rates of clocks, pixels, the current of the battery, and numbers on the command
line.

## 6. Plan

Done: the kernel (Thread, Mutex, Event, Dpc, Heap), USB and fastboot (Udc, UdcStart,
Fastboot), storage and booting (Flash, NandLists, Layout, Boot), the drivers (MsmI2c,
Qup, Dex, Clock, Pcom, Keys, Keypad, Battery, Delay, Fbcon, Printf, Console); and the
proofs of the kernel, the heap, fastboot, the flash driver, the boot, and the drivers
whose callers wait for an answer, that serve a host, read keys, move bytes over I2C,
print on the screen, take a command or switch clocks and rails.

What is left:

1. Boot on Flash instead of on its promise, and a timer queue with absolute times
   that wrap.
