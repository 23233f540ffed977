# Formal models of the eco-g45 board support code

This directory is a TLA+ development for the parts of the `eco-g45-linux-bsp`
repository that are the repository's own program logic and have something to
go wrong between two steps: drivers that the patch series adds to Linux 3.14.2,
and the local programs, libraries and firmware under
`BSP-3.14/local_src/common`.
Everything else in the tree (PTXdist and Docker configuration, third-party
patches, vendored programs, boot logos) is listed in `PROJECT.json` as not
modelled, with the reason.

Paths below are relative to `src/`; "910" stands for
`BSP-3.14/patches/linux-3.14.2/910-can-oki-ml9620.patch`, and numbers after a
colon are lines of that file. Run a model with
`tlc -workers 2 -config <file>.cfg <module>` and a proof with
`tlapm <module>.tla`.

## 1. Inventory

### CAN driver for the OKI ML9620 (910)

A Bosch C_CAN style controller with 32 message objects: 1..16 receive, 17..32
transmit. State: in the controller, a control word (`TXRQST`, `NEWDAT`,
`MSGLST`, `INTPND`, `RXIE`, `EOB`...) and a frame per object, the interrupt
enables and the bus state; in the driver, `tx_next`, `tx_echo`, `irqstatus`,
`last_status`, `can.state`; in the network core, the queue, the NAPI state, the
echo skbs, the carrier and the restart timer.

| Part | Operations | Interacts through | Correct when |
|---|---|---|---|
| interrupt and NAPI skeleton | `c_can_isr`, `c_can_poll` | `irqstatus`, interrupt enables, NAPI | no pending cause is forgotten although one poll serves one cause |
| transmit ring | `c_can_start_xmit`, `c_can_do_tx` | `TXRQST`, echo array, queue | nothing written over, echo = frame sent, FIFO, the queue always restarts |
| receive objects | `c_can_do_rx_poll` and the helpers that mark and activate objects | `NEWDAT`, `INTPND`, `MSGLST` against the controller storing frames | each frame once, in order, the low group always reopens |
| status, bus-off, restart, open, close | `c_can_handle_state_change`, `c_can_set_mode`, `c_can_open`, `c_can_close` | restart timer, carrier, NAPI enable, interrupt enables | nothing of the old ring survives a restart; the interface comes back |

Hard here: the controller and the hard interrupt run between any two register
accesses; the ISR latches one cause and the poll serves it later; both sides
work with copies of registers; the controller sends the lowest object first
although the driver fills a ring; memory may be short; a restart can fall
between a latch and its use.

### xconfig (BSP-3.14/local_src/common/xconfig)

A command line tool that keeps an XML configuration in two MTD partitions,
each with a CRC and a generation number. State: the two partitions, and in a
session what was read and the edited tree. Operations: read both and choose
(`xml_read_from_mtd`), edit, write back (`save_to_flash`, `xml_write_to_mtd`).
Hard: power loss and failed writes at any moment, results that are not looked
at, two sessions at once. Correct when a good copy always survives, the newest
is never written over, and an update happens as a whole or not at all. The
XML editing itself (`ezxml` is vendored) is sequential and in memory.

### Capacitive keyboard firmware (BSP-3.14/local_src/common/capacitive_keyboard_firmware)

An AVR that measures three keys and is an I2C slave with a map of six
registers. State: the map, the status bytes last sent, the address pointer,
`i2c_busy`, the transceiver's enable bits, the CHANGE line, the LED port.
Operations: the main loop (measure, report, LEDs, restart the transceiver), the
timer interrupt, the TWI interrupt with one case for each state of the bus. The
host and the main loop meet in the map and in the CHANGE line. Hard: the
interrupt falls between any two statements of the main loop, which waits for a
variable that only the interrupt sets; bus errors; CHANGE is released by a
comparison of values, not by a count. Correct when every key change reaches a
host that reads, CHANGE stays low over an unread one and is released in the
end, and the slave stays on the bus.

### GPIO PWM (865-gpiopwm.patch)

A PWM chip on any GPIO. State: an hrtimer, the bits `active`, `stop`,
`running`, `polarity` of one word, a work item (for a pin that may sleep), a
completion, the pin. Operations: the timer callback, the work item, and the
PWM core's enable, disable, config, set_polarity, remove. Hard: the callback
against the process on shared bits without a lock; the stop handshake; a signal
during its wait; a write still pending in the work item. Correct when a stop
ends and nothing runs once it has.

### VPU library (BSP-3.14/local_src/common/imx-lib-11.09.01/vpu)

The user-space driver of the i.MX's one video processor. State: in memory
shared by all processes, a mutex for the API, a pool of codec instances and
`pendingInst`, the instance whose frame is in the VPU; in the VPU, the
registers of the instance it was last given a command for; in each instance,
`ctxRegs`, a copy of them; per process, `vpu_fd`, `vpu_active_num` and handles.
Operations: open and close the device and instances, ask for headers, register
frame buffers, start a frame and fetch its output, feed or drain the ring
buffer of a bit stream, release frame buffers, reset. The processes meet in the
mutex, the pool and the registers. Hard: the mutex is kept from
`StartOneFrame` to `GetOutputInfo`; opening takes two sections; reset unlocks
what it does not hold for sure; a process may time out or die with the mutex;
stream pointers move between `ctxRegs` and the VPU whenever instances take
turns; some calls take no lock. Correct when whoever has a command in the VPU
holds the mutex, no instance has two owners, a frame can always be collected,
no call hangs, and each ring buffer is a queue.

### Screen layers (BSP-3.14/local_src/common/imx-lib-11.09.01/screenlayer)

Up to three layers that different processes create over one frame buffer.
State: three `ScreenLayerPriv` in shared memory (links to the layer below and
above, buffers, which half of the frame buffer is shown), three named
semaphores. Operations: create, destroy, load a picture, flip the layer's
buffer, set its properties, and update: the IPU composes the layers bottom up
into the hidden half, which the frame buffer is then panned to. Hard: the
frame buffer is handed from layer to layer as they come and go; tasks and pans
fail half way; two semaphores. Correct when the chain and its buffers agree,
the half on the screen is never drawn into, a pan shows one snapshot of all
layers, and no semaphore stays locked.

### MDB bus library (BSP-3.14/local_src/common/libmdb)

The master of a Multi-Drop Bus over a serial port, with the 9th bit made of
MARK and SPACE parity. State: the port's parity, the terminal's queues, the
buffer of one transaction. Operations: open, reset, transaction (send, read
until a time-out, check, answer ACK or NACK). Hard: the reply comes through the
terminal's conversions; the line harms bytes; an error of the terminal ends a
transaction in the middle of a reply; the peripheral goes on to its next event
when it hears ACK. Correct when each event reaches the client unharmed, and
again only if its ACK was not sent, and only harmed replies are refused.

### Atmel SPI driver patches (881 to 884)

The master of the board's SPI bus. State: one completion, `xfer_running` and
`done_status` for all transfers; the PDC's counters and the interrupt enables;
the chip selects; per device the `csr` and a cached speed; two bounce buffers.
Operations: `spi_setup`, a message of several transfers, the interrupt. Hard:
the wait is a busy or a sleeping one, chosen after the lock is given back; the
interrupt of a transfer that timed out comes late; overruns; `cs_change` keeps
chips selected across messages; short transfers are copied. Correct when a
wait ends with its own transfer, every message ends, the chip meant is selected
and no other stays so unasked, the speed is the one asked for, and what was
read arrives.

### Parts that are not modelled

| Part | State | Operations | Hard | Why not modelled |
|---|---|---|---|---|
| LED triggers netdev, usbdev, morse (830, 831, 832) | device name and reference, interval, mode, timer, text | sysfs stores, notifier, timer, deactivate | stores against notifiers and the timer | not built: netdev and morse are "not set" in `configs/eco-g45/kernelconfig.guf` |
| GPIO character device (835) | per open file, the pins requested through it | ioctl, close | threads that share a file lose a bit; freeing a pin another file tracks | one bit field; nothing interleaves between clients with files of their own |
| IPU and Sahara2 libraries | set-up of tasks and descriptor chains | task_init, buf_update; crypto calls | the queueing is in kernel drivers that are not in the tree | tables and straight-line set-up |
| Atmel PWM and IIO patches | registers, clocks, triggers | enable, disable, create, remove | nothing that interleaves here: the running is in cores that are not in the tree | arithmetic and set-up |

## 2. Plan

1. **CAN transmit** (done): `OkiIrq`, `OkiTx`, abstract `CanLink`, proofs of
   the invariants and the refinement.
2. **CAN receive** (done, proved): `OkiRx`, proofs of its safety invariants.
3. **CAN life cycle** (done): `OkiCan`, which composes the transmit ring with
   open, close, bus-off and restart; proof that the ring survives them.
4. **Redundant configuration** (done): `FlashConfig`, abstract `ConfigStore`,
   proofs of the invariant and the refinement.
5. **GPIO PWM** (done): `GpioPwm`, proof that a finished stop is final.
6. **Keyboard firmware** (done, proved): `CapKeyboard`, proof that a touch is
   kept.
7. **VPU library** (done): `VpuLib` (who may use the VPU), with the proof of
   its safety invariants; `VpuStream` (what the instances' streams go through
   meanwhile), abstract `BitFifo`, proofs of the invariants and the refinement.
8. **Screen layers** (done): `ScreenLayer`, proofs of its safety invariants.
9. **libmdb** (done, proved): `Mdb`, proofs of its safety invariants.
10. **SPI driver** (done): `SpiAtmel`, proofs of its safety invariants.

Every safety invariant, action property and refinement that the passing runs
check is proved; liveness is model-checked.

## 3. Modules

| Module | Models | Notes |
|---|---|---|
| `OkiIrq` | `c_can_isr`, head and tail of `c_can_poll` | the cause register shows status first, then the lowest object |
| `OkiTx` | `c_can_start_xmit`, `c_can_do_tx` | extends `OkiIrq`; receive and status causes are environment |
| `CanLink` | what the transmit side promises | bounded FIFO: accept, transmit, confirm |
| `OkiRx` | `c_can_do_rx_poll` and helpers | extends `OkiIrq`; transmit and status causes are environment |
| `OkiCan` | open, close, status, bus-off, restart | extends `OkiTx`, whose actions it guards and reuses |
| `FlashConfig` | xconfig sessions on two partitions | `Procs` sessions |
| `ConfigStore` | what the partitions promise one session at a time | atomic register |
| `CapKeyboard` | main loop, timer and TWI interrupt of the firmware | the host, the keys and bus errors are environment |
| `GpioPwm` | the GPIO PWM | one user of one chip |
| `VpuLib` | API mutex, instances, calls, frames, reset | processes that time out or are killed |
| `VpuStream` | ring buffers, end flags, display flags, registers | one call or frame at a time, which is what `VpuLib` shows until a stray reset |
| `BitFifo` | what a ring buffer promises | bounded queue of bytes |
| `ScreenLayer` | the screen layer library | pixels abstracted to which layers a buffer shows |
| `Mdb` | `mdb_transaction`, `mdb_reset` | terminal, line and peripheral are environment |
| `SpiAtmel` | messages, waits and interrupt of the SPI driver | controller and clients are environment |
| `OkiProofs`, `FlashConfigProofs`, `GpioPwmProofs`, `VpuLibProofs`, `VpuStreamProofs`, `ScreenLayerProofs`, `SpiAtmelProofs`, `BusProofs` | theorems and proofs | `OkiProofs` is about `OkiTx`, `OkiCan` and `OkiRx`, `BusProofs` about `CapKeyboard` and `Mdb` |
| `MC*` | instances for TLC | |

### Concurrency in the CAN modules

The board has one ARM926 core. `start_xmit`, the poll and the restart timer
run with bottom halves disabled and so do not preempt each other; the hard IRQ
and the controller run between any two of their register accesses, and all of
them interrupt `open` and `close` anywhere. So the steps of `start_xmit` are
"frame into the object" and "echo, tx_next, queue" (`StartXmit`, `FinishXmit`);
those of `do_tx` are one round of the loop (`EchoOne`) and its end
(`PollTxEnd`); those of `do_rx_poll` are the read of the pending register, one
step per object and one per object that is reactivated. The ISR is atomic. It
runs when the controller is unmasked and holds a cause: the pin is then low,
and the line that returns early on a high pin is the guard.

`OkiTx`: `pend` is `INTPND` plus the status cause, `txrqst` the `TXRQST` bits,
`ram` the frame of each valid transmit object, `echo` the echo array. A frame
is a model value. `PutEcho` is external (`can_put_echo_skb`): it keeps an skb
only if its sender wants a loopback, and drops it if the slot is taken.

`OkiRx`: frames are numbered in order of arrival, so order and loss can be
stated. The controller stores into the lowest object without `NEWDAT` and
overwrites the one with `EOB` when there is none. `deaf` has the objects whose
control word `c_can_handle_lost_msg_obj` cleared altogether (910:499): with the
write, `RXIE`, `UMASK` and `EOB` go too, so they take no further part.
`lower` is the loop variable of `c_can_activate_all_lower_rx_msg_obj`.

`OkiCan`: `life` says how far open or close has got. `c_can_start` takes two
steps, since the controller is unmasked at the end of `c_can_chip_config` and
the ring pointers are reset after it. `PollStatus` compares BOFF with
`last_status`, may find no memory for the error frame, and unmasks at its end
like every poll. `can_restart`, `can_bus_off`, `can_changelink`, `open_candev`
and `close_candev` are the CAN core's, known from how the driver is called by
it. Warning and passive states only report, and are folded into "active".

`FlashConfig`: a partition holds a kind ("good", "untagged", or one of three
kinds of garbage), a generation and a configuration. `ReadCopy` keeps how the
reader reacts to each kind: skip, or end the session with an error. A write is
two steps with garbage in between; `WriteFail` is a write that went wrong and
was not noticed; `PowerLoss` ends every session. `tree` is the generation that
the command leaves in the tree, which `save_to_flash` counts up: that of the
copy taken, or any other, since `addattribute -f` edits this attribute like all
others.

### The keyboard and the PWM

`CapKeyboard`: `at` is the statement of the main loop; each step touches the
variables shared with the interrupts at most once. An interrupt is one step,
and so is the event on the bus that raises it, since the bus waits for the
handler. `told` is what the host was last sent of the key status, `reloads`
whether the build reads `i2c_busy` anew in each round of the wait at
i2c_slave.c:78, which is not volatile. `qt_measure_sensors` is vendored: it
either asks for another burst (`MeasureAgain`) or gives the keys as they are.
The general call and arbitration states of the handler cannot occur with the
address register as it is set.

`GpioPwm`: the callback is one step, in hard IRQ context. The process loads the
word of the four flags into `held`, changes a bit and stores it, and what the
callback did in between is lost (`Modify`). `again` follows from 865:104: the
acknowledgement leaves out `hrtimer_forward_now`, so the timer runs once more
in the same interrupt, before the process goes on. `duty` compares the duty
cycle with the period. A signal (`StopSignal`) makes a disable return with the
timer running, and a remove go on to free the chip ("gone").

### The libraries

`VpuLib`: `lock` is `api_lock`; `Dead` holds it for a process that died.
`Waiting` is where a process waits in `semaphore_wait`, with its time-out
(`TimeOut`) for each. A call is `Ask`, then `Issue` (the mutex and the command)
and `Finish` (the end of the busy loop and the unlock); the sections that give
no command are one step (`BriefLock`). A frame is `StartPicRun`, which keeps
the mutex, and `GetOutputInfo`. `by` is whose command the VPU works at.
`vpu_SWReset` is `SWResetUnlock`, then `SWReset`, with a gap; the clean-up by
index is `SWResetIndex`, `SWResetFree`. Any process with a good handle may call
it, unless another instance's frame is pending, and it unlocks the mutex
whoever holds it. `stray` is history: it is set when a process did so that did
not hold the mutex. It is set for a free mutex too, because a brief section,
which may hold it at that moment, is one step here. The properties of `VpuLib`
hold until then, but for `CallsReturn`, which holds after it for every wait
except the one for the end of a command that others' commands may hide.
`vpu_DecSetEscSeqInit` is one more brief section and sets a bit nothing else
reads; it is left out.

`VpuStream`: `hw` is the VPU's registers, `ctx` the instances' copies, `run` is
`BIT_RUN_INDEX`; `View` picks the one that counts, as the code does. `cur` is
the instance whose call or frame has the mutex: that there is one at a time is
what `VpuLib` shows, as long as no process resets without the mutex. Bytes are
numbered, so that loss, repetition and overtaking can be seen. What the VPU
does in a frame (`VpuRead`, `VpuWrite`, `VpuDone`) is external, known from how
the library reads its registers.

`ScreenLayer`: calls that hold `semMainID` from end to end are one step; an
update is one step for each IPU task and one for the pan, since
`FlipScreenLayerBuf` takes only the other semaphore. `semLoadID` is only taken
under `semMainID` and needs no variable. `pic` has, for each buffer, the layers
whose present state it shows; `agreed` is history: it is cleared by a failed
composition or a primary layer created while the second half is shown. A layer
may be refused for its size or its alpha, which clears its slot, and for a
primary layer all slots.

`Mdb`: bytes are numbers, because checksum and conversions are what the
properties are about. The peripheral reports `Events` in order, and goes on
when it hears ACK. `Converted` is what `INPCK`, `PARMRK` and `ICRNL` do to a
byte. A buffer of `BufSize` stands for the 39 bytes of the code, and is filled
by some replies. `Fail` is an error of `tcsetattr`, `select` or `read`, as from
a signal: it ends the transaction anywhere, with `-EIO`, and the peripheral
goes on with its reply. Nobody looks at whether the ACK or NACK could be
written, so `EndOfReply` may leave it out. `got` has the events handed over
with an ACK that is under way or arrived, `again` what was handed over without
one, or with one that the next transaction's `tcflush` threw away (`Unsaid`).

### The SPI driver

`SpiAtmel`: the patches are diffs; the lines they leave alone are those of
linux-3.14.2. What the driver does under its spin lock, which turns interrupts
off, is one step: a transfer is `StartTransfer`, `ChooseWait`, then one of
`WakeUp`, `BusyEnds`, or `TimeOut` and `GiveUp`. `hw` is the PDC ("stuck" after
an overrun, whose lost byte the counter waits for), `hint` is `cs_change`.
`WaitKinds` leaves the wait of a short transfer open, because the threshold
depends on speed and bus clock. `arrived` says that what was read is in the
client's buffer. A speed that no divider gives (`TooSlow`) leaves the old one,
as the code does, since nobody looks at the error.

## 4. Runs

| Run | Shows |
|---|---|
| `can_tx` | With interrupts and the controller between any two accesses: nothing is overwritten (`NextSlotFree`), an echo is the frame that was sent (`EchoMatches`), a stopped queue has somebody to restart it (`NoLostWakeup`) and is restarted (`QueueRestarts`), every frame is confirmed (`FramesConfirmed`), and the ring is a FIFO link (`IsFifo`, refinement of `CanLink`). |
| `can_rx` | Every accepted frame is in exactly one place (`EachFrameOnce`); the low group keeps its order (`LowGroupInOrder`); a stored frame is read, except in the last object (`StoredIsRead`). |
| `can_life` | The ring through open, close, bus-off and restart: `RingSurvives`, `QueueRestartsLater`. |
| `can_stale_cause` | Violation: a transmit cause latched before a restart wakes a queue that was stopped after it (comment at 910:637). |
| `flash` | One session at a time, power loss and failed writes at any moment: a good copy survives, the newest is not written over, updates are atomic (refinement of `ConfigStore`), and a complete one is what the next session takes, unless its command set the generation back (`SavedIsInForce`). |
| `key` | An unread touch keeps CHANGE low (`TouchKeepsChange`); a host that goes on reading has the keys as they are (`HostCatchesUp`); CHANGE is released in the end (`ChangeSettles`); a bus error between transfers is repaired (`IdleErrorRepaired`). |
| `pwm` | A finished stop is final (`StopIsFinal`), a stop ends (`StopEnds`). |
| `vpu_lock` | Until a process without the mutex resets: a frame or command in the VPU means holding the mutex (`HolderInside`); one owner for each instance (`HandlesDistinct`); no command overruns another (`CommandOwner`); a frame can be collected (`FramePending`). And no call hangs although processes die with the mutex (`CallsReturn`). |
| `vpu_stream` | Ring buffers are queues (`IsFifo`, refinement of `BitFifo`); the end of a stream reaches the VPU and stays with its instance (`EndKept`); exactly the frame buffers on display are marked (`BuffersMatch`); every frame ends, a starved one too (`FramesEnd`). |
| `screen` | The chain and its buffers are those of the library's cases a, b, c (`CasesABC`); the half on the screen is not drawn into (`NoTearing`); a pan shows one snapshot (`PansSnapshot`); every call returns (`CallsReturn`). |
| `mdb` | Through spoilt and lost bytes, time-outs, failed writes and errors in the middle of a reply: the events in order and unharmed, ACK only for those, one repeated only if its ACK was not sent (`EachEventOnce`); refused only if harmed (`RefusedOnlyBad`). |
| `spi` | A wait ends with its own transfer (`EndIsOwn`), every message ends (`MessagesEnd`), the chip meant is selected and another one only if the last message of its device asked for it (`SelectedAsMeant`), at the speed asked for (`SpeedAsAsked`), through overruns, time-outs, late interrupts, failed mappings and messages to other devices. |

### Configurations that show known deviations

Kept beside the runs; each ends in a counterexample. The behaviour is in the
models, and the runs' properties are stated so that they hold in spite of it.

| Configuration | Module | Shows |
|---|---|---|
| `MCOkiRxOrder.cfg` | `MCOkiRx` | In-order reception (910:875) fails across the end of the low group: objects are served from a copy of the pending register. |
| `MCOkiRxLast.cfg` | `MCOkiRx` | The object with `EOB` is part of the FIFO by the comment at 910:686, but its frame is never read, and interrupt and poll repeat. |
| `MCFlashOneCopy.cfg` | `MCFlashConfig` | With one valid copy left the tool refuses to use it, against flash_config.c:216. |
| `MCKeyReleased.cfg` | `MCCapKeyboard` | CHANGE can be released with the release of a key unread, against i2c_slave.c:135. |
| `MCKeyBusError.cfg` | `MCCapKeyboard` | A bus error within a transfer takes the slave off the bus for good, against i2c_slave.c:226. |
| `MCVpuReset.cfg` | `MCVpuLib` | After `vpu_SWReset` `pendingInst` still names the frame given up: closing its instance is refused for ever, though nothing runs. |
| `MCVpuStray.cfg` | `MCVpuLib` | A process with a good handle and no frame calls `vpu_SWReset` (vpu_lib.c:241 to 255), which unlocks the mutex of another one that waits for a command (`MutexKept`). |
| `MCVpuClear.cfg` | `MCVpuStream` | A frame buffer released by a display thread during a frame (as mxc_vpu_test does, dec.c:1739) is marked again by the backup in `vpu_DecGetOutputInfo`, and is lost to the decoder. |
| `MCMdbHurried.cfg` | `MCMdb` | A transaction that starts while the reply to one that an error ended still comes in: bytes that arrive after the `tcflush` meet MARK parity. A 0 among them reads as the mark of an empty reply and is answered ACK, so that an event is lost (`EachEventOnce`), or a good reply behind them is refused (`RefusedOnlyBad`). |
| `MCMdbConverted.cfg` | `MCMdb` | A whole reply with an FF or a CR in it is answered NACK, because the terminal doubles the one and changes the other before the checksum is formed, against libmdb.c:174. |
| `MCSpiDeselect.cfg` | `MCSpiAtmel` | After a time-out with `cs_change` on the last transfer the chip stays selected, against 882:77 ("unless no error"): the failed transfer returns 0. |
| `MCSpiRead.cfg` | `MCSpiAtmel` | What a transfer of up to `dma_bounce_limit` bytes reads stays in the bounce buffer (884:111; the comment at 884:247 has it "for copying"). |

Other deviations met on the way, which constants or guards keep out of the
runs:

* Two xconfig sessions at once (`Procs` of two): `NeverErasesNewest` fails,
  since nothing excludes the second.
* xconfig: an update whose command sets the generation back (`addattribute -f`
  on `/flash`) is written in full and is not in force; one without a generation
  attribute does not get as far as the write (in the model).
* `c_can_poll` unmasks the controller (910:1170) that the bus-off handling it
  has just called masked (910:1004).
* VPU: `DEC_SET_PPS_RBSP` gives a command without the mutex (vpu_lib.c:4100;
  `ParaSets`); two processes that open fresh shared memory at once both make
  the mutex (vpu_util.c:1138; `ColdRace`); `vpu_EncStartOneFrame` returns with
  the mutex locked when its report buffers cannot be had (vpu_lib.c:1442; in
  the model); a failed open leaves the instance in use (in the model);
  mxc_vpu_test asks for output after a refused close (`TrustRefusal`);
  `pendingInst` is an address of one process kept in memory shared by all.
  `vpu_EncUpdateBitstreamBuffer` during encoding writes back a write pointer
  that the VPU has moved on (enc.c:519; `DrainAnytime`).
  The reset that takes the mutex away (vpu_lib.c:250 to 255) is in the model:
  after it the other four properties of `VpuLib` say nothing, and `CallsReturn`
  allows for a wait that does not end.
* Screen layers (`Orderly`, `Failures`): the error exits of `LoadScreenLayer`
  keep their semaphores (ScreenLayer.c:843, 892, 897); a failed
  `_MemAllocSL` leaves its layer in the chain; a layer created after the middle
  one was destroyed, or a fourth one, takes slot 3 although in use, is linked
  to itself, and the next update never ends; a destroyed primary layer stays
  `isPrimary`.
* SPI: a message to another chip while one was left selected by `cs_change` has
  two chips selected (in the model: the driver deselects nobody, and 882:77
  says only that the next message is probably for this chip). `spi_setup`
  during a message of the device can leave a cached speed without its csr
  (`SetupIdle`). A message reports the error of its last transfer only (in the
  model), and one whose buffer cannot be mapped that of an earlier one (in the
  model).
* libmdb: an event is repeated when its ACK was queued and then thrown away by
  the `tcflush` of the next transaction, as in the back-to-back transactions of
  mdbtest.c, or could not be written (in the model). Starting a transaction
  while the reply to one that was given up still comes in is left out of the run
  (`Hurried`): the library does nothing against it.
* libmdb: the sum over a reply cannot protect every byte, although at most one
  is harmed. A lost 0 leaves the sum as it was; a 254 spoilt to 255 is doubled
  by the terminal, and two 255 add up to 254 again; a 255 is doubled and a 13
  becomes 10 even on a good line. `SafeEvents` (in `BusProofs`) is what is left:
  events without these four bytes, short enough for the buffer with their end
  mark. A reply of 37 to 39 bytes is copied past `precv_data` of the
  documented size.

### Bounds

* `OkiTx`: `TxNum = 3`, `RxNum = 1`, two frames, `Width` (2^32 in the code)
  twice the ring. A ring of 3 has a first, an inner and a last slot; the
  counters wrap after two laps, so wrap of the counter and wrap of the ring
  happen together and apart; two frames are enough to confuse one with another.
  One receive object is enough to compete for the interrupt register. The
  proofs remove these bounds.
* `OkiRx`: `RxNum = 4` with `LowLast = 2`: an inner and the last object of the
  low group, one above it, and the one with `EOB`. `Weight` equals `RxNum` as
  in the code. `MaxFrames = 6` fills every object and overwrites one twice, or
  goes through a full round of the low group with frames arriving meanwhile.
* `OkiCan`: `TxNum = 2`, `RxNum = 1`. `CalmRestart` bounds one thing: TRUE keeps
  the restart timer from firing while a poll for a transmit cause is due. That
  one race is what `can_stale_cause` is about, with the constant FALSE; it
  would otherwise hide every other result of `can_life`. `autoRestart`
  (`restart_ms`) takes both values.
* `FlashConfig`: `MaxGen = 5`, two configurations. A command can leave any
  generation below that (`TreeGens`), so also the one it found, a lower one and
  that of the other copy. Generations stay far from the 2^31 where the signed
  comparison would turn round: counting does not get there, since flash does not
  survive that many writes, but an edited generation could.
* `CapKeyboard`: `Bytes` of two values (pressed and released are what the code
  tells apart: it only compares bytes); both status bytes, and a third register
  that is the LEDs'; `AddrWidth` a little beyond the map, so that the pointer is
  inside, outside and wraps. `Writes` keeps the host from writing the key status
  register itself, which it has no reason to do and nothing in the firmware
  forbids. The proofs remove the other bounds.
* `GpioPwm`: no bounds; the state is finite.
* `VpuLib`: two processes and two instances, so that both instances may be in
  use, or one lost to a failed open; one process killed; `MaxActive = 2`
  (`vpu_active_num` of one process above one). The proofs remove the first two.
* `VpuStream`: a decoder and an encoder, rings of 3 bytes (empty, partly filled
  and full differ, and pointers wrap), one frame buffer. `ClearAnytime` and
  `DrainAnytime` are FALSE: see the deviations. The proofs remove the bounds.
* `ScreenLayer`: three layers, as many as the library has, and three processes;
  `Failures` has IPU tasks and pans. The proofs remove the bound on processes.
* `Mdb`: three events whose bytes add up to less than, exactly and more than
  255; a spoilt byte takes any of the 256 values; at most one harmed byte for a
  reply, which is what a sum can be asked to notice. `BufSize = 6` is less than
  the longest conversion of a reply. `Hurried` is FALSE (a client that sees `EIO`
  waits as long as a reply takes before it tries again) and the events are
  `SafeEvents`: see the deviations. The proofs remove the other bounds.
* `SpiAtmel`: two devices and two speeds (a cache can hold the wrong one of
  another device or of another time), messages of up to two transfers (a first
  and a later one differ), a short and a long size. The two configurations that
  show deviations have the middle size too, bounced but waited for asleep.
  Messages come in any order, to any device. `SetupIdle` is what the SPI core
  expects of protocol drivers.
  The proofs remove the other bounds.

### Fairness

`OkiTx`, `OkiRx`, `OkiCan`: a softirq that is due runs, one that runs ends, an
enabled interrupt is taken, a timer fires; weak fairness of those actions is
what the kernel's scheduling gives. `HwTransmit` and `HwSends` are fair because
the controller retransmits automatically (`CONTROL_ENABLE_AR`). Nobody is
required to send, open or close, and the bus may stay off. The conclusions on
transmission carry the premise that other causes stop arriving at some point
(`<>[](pend \subseteq TxObjs)`): status and lower objects have priority in the
interrupt register, and nothing in the code keeps a busy bus from starving the
transmit causes. The safety runs state no fairness.

`CapKeyboard`: the timer ticks and the main loop runs; `SF(MeasureDone)` says
that the touch library asks for another burst only finitely often in a row.
`Polls` (the host reads on) and `MainRuns` (the main loop comes round) are
premises in the properties and not fairness: a host may stop, and a build that
reads `i2c_busy` once may hang in i2c_slave.c:78.

`GpioPwm`: the timer expires, work items run, and the stopping process goes on;
`SF(StopSync)`, because the callback interrupts it again and again. `GapMissed`
is a premise of `StopEnds`: a callback between `init_completion` and the store
of `stop` costs one more round of the loop, and only luck ends a series of them.

`VpuLib`: a process in a call goes on (the timed wait ends in any case) and the
VPU ends what it was given; nobody has to call anything, and a frame need not
be collected. `VpuStream`: the VPU works while it can, and a client that polls
for the end of its frame feeds it and collects it, as `mxc_vpu_test` does.
`ScreenLayer`: `SF` of a process's steps, since a process that waits for a
semaphore which is posted again and again gets it (futex wake order); nobody
has to call anything. `SpiAtmel`: the thread that sends messages goes on when
it can, the controller ends what it was given or loses a byte, and an enabled
interrupt is served; nobody has to send. A sleeper ends by its time-out in any
case, a busy waiter only by the interrupt. `Mdb` is
about safety only: each wait of a transaction has a time-out of its own.

## 5. Proofs

Checked by TLAPS for every value of the constants that satisfies the named
assumptions (`NumAssumption`, `FrameAssumption`, `WidthAssumption`,
`RestartAssumption`, `GroupAssumption`, `WeightAssumption`, `ConfigAssumption`,
`NoneAssumption`, `OwnerAssumption`, `InstAssumption`, `BoundAssumption`,
`FlagAssumption`, `SizeAssumption`, `BufAssumption`, `ClientAssumption`,
`ProcsAssumption`, `OrderlyAssumption`, `FailuresAssumption`, `SpeedAssumption`,
`ByteAssumption`, `MapAssumption`, `EventsAssumption`, `SpoiltAssumption`,
`HurriedAssumption`).
A theorem of the form `H => (Spec => ...)`, or `ASSUME H PROVE Spec => ...`, has
its hypothesis `H` on the constants that name what clients do; the deviations say what happens without it.

**`OkiProofs`**, about `Spec` of `OkiTx`: `TypeCorrect`, `Invariance`,
`NeverOverwrites`, `EchoIsOwn`, `NeverStuck`, `TransmitIsFifo`. `NextSlotFree` is not inductive: that the next slot is free
follows from how far the ring is filled. The code keeps the objects in flight
within one lap by stopping the queue at each wrap and restarting it only when
the lap is echoed; `IInv` says this in five parts: `OneLap` (distance of the
u32 counters against the distance of their slots), `OldestFirst` (the
controller, which sends the lowest object, has sent a lower end of what is in
flight, and holds an interrupt for each), `Contents` (objects and echoes),
`StopRule` (the queue is stopped exactly while a wrapped lap is echoed) and
`LatchedIsReal` (a latched transmit cause is a completion that the poll will
find, so a poll cannot wake a full queue by mistake). The lemmas on `%` come
first: `WidthAssumption` (the width is a multiple of the ring) is needed so
that the slot of a counter is right across the wrap of the counter.
`TransmitIsFifo` maps the objects in flight, from `tx_echo` on, to the queues of
`CanLink`: the first ones, whose request bit is clear, are sent and the rest
waits. That they are split at one place, and nowhere else (`OnTop`, `Boundary`),
is `OldestFirst`; that they do not straddle the end of the ring
(`FlightFacts`) is `OneLap` with `StopRule`. Then a frame accepted, sent or
confirmed appends, moves or removes one entry.

About `CanSpec` of `OkiCan`: `CanTypeCorrect`, `CanInvariance`,
`RingAlwaysSurvives`. `CanInv` weakens `IInv` to what open, close and bus-off
leave of it. `CanRing` has two cases: a ring as above, or, while the device is
being configured or restarted, one that is cleared; `CanStopRule` allows for a
queue that was stopped for the bus-off or closed; `FormerLife` says that objects
of the life before an open may still be sent, but that no echo waits for them
and no interrupt tells of them. `CanLatched` is what a restart breaks that
comes between the latching of a completion and its poll (`can_stale_cause`),
hence the hypothesis `CalmRestart`, which `can_life` has too; `CanTypeCorrect`
does without it.

About `RxSpec` of `OkiRx`: `RxTypeCorrect`, `RxInvariance`, `NoFrameTwice`,
`LowGroupOrdered`, for any number of receive objects and any low group below the
last of them. `EachFrameOnce` rests on how the objects are filled and read.
`RxIInv` adds to it and to `LowGroupInOrder` the seven parts of `ObjInv` and
`LowOrder`. The heart of it is why `activate_all_lower`, which clears objects it
does not look at, clears no unread frame: the low group fills without holes
(`LowFilled`), so all of it holds frames when its last object is read; the
poll's copy of the pending register has no holes either (`CopyFilled`), so all
of them have been read by then; and until the loop has cleared an object, the
controller cannot store a new frame in it (`LowRead`). From `LowLast` on an
object is freed together with its interrupt (`UpperPending`), and only the
object with `EOB` is ever overwritten (`OnlyLastLost`). The lemmas before the
actions say how a frame moves between the places it can be in. That the lowest
element of a set of object numbers exists (`MinFacts`) is proved from the
well-foundedness of set inclusion.

**`FlashConfigProofs`**: `Invariance`, `NeverWithoutCopy`, `NewestIsKept`,
`UpdateIsNotLost`, `UpdatesAreAtomic`, for one session at a time (an assumption
of the theorems, `Procs = {P}`) and any set of configurations. `IInv`:
what a session has read is what the partitions hold except the target it
writes, and one copy is good. Nothing is assumed of the generation that a
command leaves in the tree: the two copies may have the same one with different
contents, and then the order in which they are read decides, in `Target` as in
`InForce`. The refinement theorem maps the configuration in force to that of
the good copy with the highest generation; a write with a lower one is an
update that does not take place.

**`GpioPwmProofs`**: `TypeCorrect`, `Invariance`, `StoppedForGood`, for a model
with no bounds. `StopIsFinal` is not inductive: `IInv` adds that the "running"
of a loaded word is current, since no callback writes it, and that the last
steps of a stop silence the timer first, then the work item. The lemmas sort
the steps into those that change a flag through a loaded word (`Changing`), the
callback, and the rest.

**`VpuLibProofs`**: `VpuTypeCorrect`, `Invariance`, `HolderAlwaysInside`,
`HandlesAlwaysDistinct`, `CommandAlwaysOwned`, `FrameAlwaysPending`, for any
sets of processes and instances, any bounds, and clients that are `Careful`
(they do not use `DEC_SET_PPS_RBSP`, do not trust a refused close, and do not
race for fresh shared memory: each of the three breaks one of the theorems).
The last four are about the time until `stray` is set: a reset by a process
without the mutex is a step of the model and ends what they promise; the types
and `Counted`, `Cold`, `Locked` hold after it too. None of the four is
inductive by itself; `IInv` has them together with the types and `Counted`
(`vpu_active_num` is within bounds where it is changed next), `Cold` (before
the shared memory is ready nobody has got beyond making it, and one process at
most is making it) and `Locked` (nobody is in an unlocked "pps" call). The key
is that only the process with the frame can clear or take `pendingInst`, since
it holds the mutex and every other call that would change it waits for that.
The steps are grouped by what they change, and lemmas say what an update of one
field of an instance leaves alone.

**`VpuStreamProofs`**: `TypeCorrect`, `EndIsKept`, `MarksAreHeld`,
`StreamsAreFifos`, for any instances, frame buffers and ring size. `Owned` (the
holder of the API mutex is `BIT_RUN_INDEX`, and its header is at the stage of
its call) is what all of them need. `Ended` adds that `ctxRegs` has the end flag
too, so that a switch cannot lose it; `EndIsKept` has no hypothesis. `Marked`
relates the marks in the VPU during a frame to those on display, and holds when
buffers are released between frames (`~ClearAnytime`). `Placed` says, for each
pointer, which of the client, the VPU and `ctxRegs` is up to date, and that the
room a client was promised is still there; it needs `~DrainAnytime`. The
refinement is proved in two halves. First every action is shown to do one of
four things to a ring and nothing to the others (`Flows`): leave its unread
bytes where they are, put some behind them, take some in front, or give them up.
Then each of these is a step of `BitFifo`: the lemmas on `Dist` replace the
remainders of the C code by a case distinction, and show that addresses at
distances of the same order are the same or come one after the other.

**`ScreenLayerProofs`**: `TypeCorrect`, `Invariance`, `ChainsAreCases`,
`NeverTears`, `PansAreSnapshots`, for any set of processes. `IInv` has five
parts: `Excluded` (who draws has both semaphores), `Room` (the calls under way
leave room for what they will get), `Shape` (the chain has one of five forms),
`Climbing` (an update goes up the chain, and what lies below it is in the
temporary buffer) and `Halved` (the index of the shown half changes sides while
the top layer is composed). All but `TypeCorrect` are for `Careful` clients: they
are `Orderly`, and no allocation fails, because a layer left in the chain by one
that failed is nobody's to destroy. Failing IPU tasks, pans and loads are
included, and so are the semaphores that a failed load keeps.

**`SpiAtmelProofs`**: `SpiTypeCorrect`, `WaitEndsOwn`, `ChipAlwaysSelected`,
`SpeedAlwaysAsked`, with an invariant for each: an overrun that the interrupt
has not seen has stopped the counters (`Overruns`); the
chip of the message on the bus is selected unless `cs_change` took it away
between two transfers, and any other that is selected is `held` by the last
message of its device (`SelectedFor`); outside `spi_setup` a valid cached speed
is that of the csr (`CacheRight`). The last two need clients that are `Orderly`
(`SetupIdle`); the first needs nothing of them. No theorem assumes anything of
the order of messages.

**`BusProofs`**, about `KeySpec` of `CapKeyboard`: `KeyTypeCorrect`,
`TouchIsKept`, for any register map and any bytes. `TouchKeepsChange` compares
the map with what the host was told, the code with what it remembers as sent;
`SentIsTold` relates the two: a touch that is remembered as sent of the first
status byte is what the host was told last, because whatever is sent of it later
is remembered too, and a reset of the memory (`SentAfter`) leaves no touch in
it. The hypothesis is that the host does not write that byte (see the bounds).

About `Spec` of `Mdb`: `TypeCorrect`, `EventsOnce`, `Refusals`, for any
sequence of events and any buffer that are `SafeEvents`, any bytes the line may
make of another, errors and failed writes anywhere, and a client that is not
`Hurried`. `Kept` is the inductive invariant. Its heart is `Phase`: for each
place in the transaction, what is in the queues, what the peripheral does and
what has arrived. What has arrived is `Raw`, the buffer with the terminal's
queue behind it, so that reading changes nothing. While the first k bytes of an
event have been sent (`Follows`), `Raw` is those k bytes, or has another sum,
holds no end mark (FF 00) and is at most one byte too long. When all have been
sent (`Ended`), `Raw` has no end mark although the line harmed the reply, or is
data with an end mark behind it that either are the event and its sum or do not
match. So an ACK is given for nothing but the event. `GivenUp` is what an error
leaves behind: nothing was handed over in that transaction, and a command, or a
reply to nobody, is still under way. A buffer that is full before the end
(`BufSize`) can only cut a reply that was harmed, since a good one fits. That
one changed byte changes the sum modulo 256 is arithmetic (`ModFacts`,
`ModTwice`); the step of `Chk`, a recursive function, is derived for every
length from the well-foundedness of the naturals.

**Model-checked only**: liveness, which is out of the provers' reach
(`QueueRestarts`, `FramesConfirmed`, `StoredIsRead`, `QueueRestartsLater`,
`HostCatchesUp`, `ChangeSettles`, `IdleErrorRepaired`, `StopEnds`,
`CallsReturn`, `FramesEnd`, `MessagesEnd`).

## 6. Not modelled

* Within the CAN driver: power management (`c_can_power_down`, for a variant
  this board does not have), bit timing, error counters and the contents of
  error frames, module and platform registration.
* Of the controller: arbitration and errors on the bus other than bus-off;
  acceptance filtering (every object takes every frame, as set up).
* In xconfig: the commands on the tree, what is printed, exit codes. A wrapped
  generation number.
* In the firmware: touch measurement and the one instruction an AVR runs
  between two interrupts. In the PWM: two users of one chip at once, and what
  happens to the memory of a chip freed with its timer running.
* In the VPU library: the i.MX6 branches (`cpu_is_mx6q`, the motion-JPEG unit),
  file-play mode, headers and tables, and what the VPU computes. In the screen
  layers: pixels, the television output, `LoadAlphaPoint`. In libmdb: the
  wake-up line, `mdb_close` and the settings.
* In the SPI driver: PIO and DMA-engine transfers, transfers of several PDC
  loads, word sizes and modes, delays.
* The tree's largest files are register headers, tables and third-party code
  (sam-ba, the IPU and Sahara2 libraries, test suites): they hold
  no state machine of this repository, and most lines of the implementation
  are of this kind.
* Listed with reasons in `PROJECT.json`: the parts of section 1 that
  are not modelled, vendored and generated code, other boards' patches, demonstration and
  test programs, the build environment.

The hazards list in `PROJECT.json` names, line by line, what is hard to test in
all of this code; those without a property say why.
