------------------------------- MODULE SpiAtmel ------------------------------
(***************************************************************************)
(* The Atmel SPI driver with this board's patches (881 to 884), as it runs *)
(* with the PDC: messages of several transfers, the busy or sleeping wait  *)
(* for the interrupt, overruns and time-outs, the chip selects, the cached *)
(* speed and the bounce buffer.  The driver's spin lock turns interrupts   *)
(* off, so what happens under it is one step.  The lines of the driver     *)
(* that the patches leave alone are those of linux-3.14.2.                 *)
(***************************************************************************)
EXTENDS Naturals

CONSTANTS
    Chips,       \* the devices on the bus
    Speeds,      \* speeds a transfer may ask for
    TooSlow,     \* a speed that no divider gives
    NoSpeed,     \* no divider
    Sizes,       \* sizes of transfers that are used
    MaxXfers,    \* bound on the transfers of a message
    SetupIdle    \* spi_setup of a device only when it has no message

ASSUME SpeedAssumption == NoSpeed \notin Speeds
ASSUME SizeAssumption == Sizes \subseteq {"short", "middle", "long"}
ASSUME ClientAssumption == SetupIdle \in BOOLEAN
ASSUME BoundAssumption == MaxXfers \in Nat \ {0}

VARIABLES
    pc,       \* where the thread that sends the messages is
    chip,     \* the device of its message
    xfer,     \* its current transfer
    count,    \* transfers of the message so far
    running,  \* xfer_running: 0, 1 busy waiting, 2 sleeping
    done,     \* xfer_completion
    failed,   \* done_status is -EIO
    status,   \* msg->status of the last message is -EIO
    hw,       \* the PDC's counters: "zero", "run", "stuck" after an overrun
    overrun,  \* OVRES in the status register
    mask,     \* the interrupts that are enabled
    selected, \* the chip selects that are active
    csr,      \* asd->csr of each device
    speed,    \* configured_speed_hz of each device
    reg,      \* CSRn, the speed the controller works at
    half,     \* devices in the middle of spi_setup
    arrived,  \* the data of a read is in the client's buffer
    held      \* history: devices whose last message ended with cs_change

wait == <<pc, running, done, failed>>
control == <<hw, overrun, mask>>
rate == <<csr, speed, reg, half>>
message == <<chip, xfer, count, status, arrived>>
selects == <<selected, held>>
vars == <<wait, control, rate, message, selects>>

Xfers == [size: Sizes, hint: BOOLEAN, read: BOOLEAN, speed: Speeds \union {TooSlow}]
(* With the lock given back, interrupts come in.                           *)
Unlocked == {"idle", "started", "asleep", "busy", "late"}
(* A transfer has been started and not been ended by the driver.           *)
UnderWay == {"started", "asleep", "busy", "late"}

TypeOK ==
    /\ pc \in Unlocked \union {"next"}
    /\ chip \in Chips /\ xfer \in Xfers /\ count \in 0 .. MaxXfers
    /\ running \in 0 .. 2 /\ done \in BOOLEAN
    /\ failed \in BOOLEAN /\ status \in BOOLEAN
    /\ hw \in {"zero", "run", "stuck"} /\ overrun \in BOOLEAN
    /\ mask \in SUBSET {"ENDRX", "OVRES"}
    /\ selected \in SUBSET Chips /\ held \in SUBSET Chips
    /\ csr \in [Chips -> Speeds \union {NoSpeed}]
    /\ speed \in [Chips -> Speeds \union {NoSpeed}]
    /\ reg \in [Chips -> Speeds \union {NoSpeed}]
    /\ half \in SUBSET Chips
    /\ arrived \in BOOLEAN

Init ==
    /\ pc = "idle" /\ running = 0 /\ done = FALSE /\ failed = FALSE
    /\ hw = "zero" /\ overrun = FALSE /\ mask = {}
    /\ csr = [c \in Chips |-> NoSpeed] /\ speed = [c \in Chips |-> NoSpeed]
    /\ reg = [c \in Chips |-> NoSpeed] /\ half = {}
    /\ chip \in Chips /\ xfer \in Xfers /\ count = 0
    /\ status = FALSE /\ arrived = FALSE
    /\ selected = {} /\ held = {}

-----------------------------------------------------------------------------
(* spi_setup                                                               *)

(* The device is deselected and its csr set up, without a speed ...        *)
Setup(c) ==
    /\ pc \in Unlocked /\ c \notin half
    /\ SetupIdle => ~(pc # "idle" /\ chip = c)
    /\ selected' = selected \ {c} /\ held' = held \ {c}
    /\ csr' = [csr EXCEPT ![c] = NoSpeed]
    /\ half' = half \union {c}
    /\ UNCHANGED <<wait, control, message, speed, reg>>

(* Mutant: the cached speed outlives the csr it belongs to.                *)
SetupKeeps(c) ==
    /\ c \in half
    /\ half' = half \ {c}
    /\ UNCHANGED <<wait, control, message, csr, speed, reg, selects>>

(* ... and then, without the lock, the cached speed is made invalid.       *)
SetupSpeed(c) ==
    /\ c \in half
    /\ pc \in Unlocked
    /\ speed' = [speed EXCEPT ![c] = NoSpeed]
    /\ half' = half \ {c}
    /\ UNCHANGED <<wait, control, message, csr, reg, selects>>

-----------------------------------------------------------------------------
(* Messages                                                                *)

(* atmel_spi_transfer_one_message takes the lock and selects the chip,     *)
(* whatever an earlier message has left selected.                          *)
Message(c) ==
    /\ pc = "idle"
    /\ SetupIdle => c \notin half
    /\ pc' = "next" /\ chip' = c /\ count' = 0
    /\ selected' = selected \union {c} /\ held' = held \ {c}
    /\ UNCHANGED <<control, rate, running, done, failed, xfer, status, arrived>>

(* atmel_spi_set_xfer_speed: a device whose csr has the speed keeps it,    *)
(* and a speed no divider gives changes nothing; nobody looks at the error.*)
SetSpeed(c, s) ==
    IF s = TooSlow THEN UNCHANGED <<csr, speed, reg>>
    ELSE IF speed[c] = s THEN reg' = [reg EXCEPT ![c] = csr[c]] /\ UNCHANGED <<csr, speed>>
    ELSE /\ reg' = [reg EXCEPT ![c] = s]
         /\ csr' = [csr EXCEPT ![c] = s]
         /\ speed' = [speed EXCEPT ![c] = s]

(* atmel_spi_dma_map_xfer: transfers up to dma_bounce_limit go through the *)
(* driver's own buffers.                                                   *)
Bounced(x) == x.size # "long"

(* xfer_running: busy waiting for a transfer below wait_sync_threshold,    *)
(* which depends on the speed.                                             *)
WaitKinds(x) == IF x.size = "short" THEN {1, 2} ELSE {2}

(* Mutant: reinit_completion is forgotten.                                 *)
ArmNoReinit(x) ==
    /\ running' \in WaitKinds(x)
    /\ failed' = FALSE
    /\ UNCHANGED done

(* The flags of a new transfer.                                            *)
Arm(x) ==
    /\ running' \in WaitKinds(x)
    /\ failed' = FALSE
    /\ done' = FALSE

(* Mutant: only the first transfer selects the chip.                       *)
SelectFirst == selected' = IF count = 0 THEN selected \union {chip} ELSE selected

(* The first transfer of a message and one after cs_change select the chip.*)
SelectChip ==
    selected' = IF count = 0 \/ xfer.hint THEN selected \union {chip} ELSE selected

(* atmel_spi_one_transfer up to the wait: the PDC is set going.            *)
StartTransfer(x) ==
    /\ pc = "next"
    /\ count < MaxXfers
    /\ xfer' = x /\ count' = count + 1
    /\ SelectChip
    /\ SetSpeed(chip, x.speed)
    /\ Arm(x)
    /\ arrived' = FALSE
    /\ hw' = "run" /\ overrun' = FALSE /\ mask' = {"ENDRX", "OVRES"}
    /\ pc' = "started"
    /\ UNCHANGED <<chip, status, half, held>>

(* A buffer cannot be mapped: the transfer fails before done_status is     *)
(* set, and the message ends with the status of an earlier one.            *)
MapFails ==
    /\ pc = "next" /\ count < MaxXfers
    /\ selected' = selected \ {chip}
    /\ status' = failed
    /\ pc' = "idle"
    /\ UNCHANGED <<control, rate, running, done, failed, chip, xfer, count, arrived, held>>

(* The way to wait, looked up after the lock was given back: an interrupt  *)
(* that came already leaves nothing to wait for.                           *)
ChooseWait ==
    /\ pc = "started"
    /\ pc' = IF running > 1 THEN "asleep" ELSE "busy"
    /\ UNCHANGED <<control, rate, message, selects, running, done, failed>>

(* wait_for_completion_timeout gives up; the lock is not taken yet.        *)
TimeOut ==
    /\ pc = "asleep" /\ ~done
    /\ pc' = "late"
    /\ UNCHANGED <<control, rate, message, selects, running, done, failed>>

(* The chip select after a transfer that returned no error.                *)
AfterTransfer(last) ==
    /\ selected' = IF xfer.hint # last THEN selected \ {chip} ELSE selected
    /\ held' = IF last /\ xfer.hint THEN held \union {chip} ELSE held

(* The rest of atmel_spi_one_transfer after a wait, and of the turn of the *)
(* loop over the message: a failed transfer has the PDC cleaned up and     *)
(* returns 0 all the same.                                                 *)
EndTransfer(bad, last) ==
    /\ failed' = bad
    /\ hw' = IF bad THEN "zero" ELSE hw
    /\ overrun' = (overrun /\ ~bad)
    /\ arrived' = (~bad /\ xfer.read /\ ~Bounced(xfer))
    /\ AfterTransfer(last)
    /\ IF last THEN pc' = "idle" /\ status' = bad
       ELSE count < MaxXfers /\ pc' = "next" /\ UNCHANGED status
    /\ UNCHANGED <<rate, mask, running, chip, xfer, count>>

WakeUp ==
    /\ pc = "asleep" /\ done
    /\ done' = FALSE
    /\ \E last \in BOOLEAN : EndTransfer(failed, last)

BusyEnds ==
    /\ pc = "busy" /\ running = 0
    /\ \E last \in BOOLEAN : EndTransfer(failed, last)
    /\ UNCHANGED done

GiveUp ==
    /\ pc = "late"
    /\ \E last \in BOOLEAN : EndTransfer(TRUE, last)
    /\ UNCHANGED done

-----------------------------------------------------------------------------
(* The controller and its interrupt                                        *)

(* All bytes have been received.                                           *)
HwEnd ==
    /\ hw = "run"
    /\ hw' = "zero"
    /\ UNCHANGED <<wait, rate, message, selects, overrun, mask>>

(* A byte was lost: the count never comes down to zero.                    *)
HwOverrun ==
    /\ hw = "run"
    /\ hw' = "stuck" /\ overrun' = TRUE
    /\ UNCHANGED <<wait, rate, message, selects, mask>>

(* Mutant: a busy waiter is not told of an overrun.                        *)
NotifySleeper ==
    /\ done' = (done \/ running > 1)
    /\ running' = IF overrun /\ running = 1 THEN 1 ELSE 0

(* A sleeper is woken, a busy waiter sees the zero.                        *)
Notify ==
    /\ done' = (done \/ running > 1)
    /\ running' = 0

(* atmel_spi_pdc_interrupt                                                 *)
Interrupt ==
    /\ pc \in Unlocked
    /\ \/ /\ overrun /\ "OVRES" \in mask
          /\ mask' = {} /\ overrun' = FALSE
          /\ failed' = TRUE
          /\ Notify
       \/ /\ ~(overrun /\ "OVRES" \in mask) /\ hw = "zero" /\ "ENDRX" \in mask
          /\ mask' = mask \ {"ENDRX"}
          /\ Notify
          /\ UNCHANGED <<overrun, failed>>
    /\ UNCHANGED <<pc, hw, rate, message, selects>>

Pump ==
    \/ \E x \in Xfers : StartTransfer(x)
    \/ MapFails \/ ChooseWait \/ TimeOut \/ WakeUp \/ BusyEnds \/ GiveUp

Next ==
    \/ \E c \in Chips : Setup(c) \/ SetupSpeed(c) \/ Message(c)
    \/ Pump
    \/ HwEnd \/ HwOverrun \/ Interrupt

Spec == Init /\ [][Next]_vars

(* The thread goes on, the controller sends what it was given or loses a   *)
(* byte, and interrupts are served.                                        *)
FairSpec ==
    /\ Spec
    /\ WF_vars(Pump) /\ WF_vars(Interrupt)
    /\ WF_vars(HwEnd \/ HwOverrun)

-----------------------------------------------------------------------------
(* Properties                                                              *)

(* What ends a wait is the end of this transfer and not an interrupt left  *)
(* over from one that timed out, although flag and completion are one for  *)
(* all transfers; and a wait that an overrun ended is known to have failed *)
(* (atmel_spi_one_transfer, atmel_spi_pdc_interrupt).                      *)
EndIsOwn ==
    pc \in UnderWay /\ (done \/ running = 0) =>
        hw # "run" /\ (hw = "stuck" => failed)

(* While bytes go over the bus, the chip they are meant for is selected.   *)
(* Another one is selected only if the last message of its own device      *)
(* asked for that with cs_change, whatever transfers, failed mappings and  *)
(* messages to others came in between (atmel_spi_transfer_one_message).    *)
SelectedAsMeant ==
    /\ pc \in UnderWay => chip \in selected
    /\ \A c \in selected : c \in held \/ (pc # "idle" /\ c = chip)

(* A transfer runs at the speed it asked for, although the divider is      *)
(* computed only when the speed changes (atmel_spi_set_xfer_speed and      *)
(* atmel_spi_setup).                                                       *)
SpeedAsAsked == pc \in UnderWay /\ xfer.speed # TooSlow => reg[chip] = xfer.speed

(* Every message ends: neither way of waiting misses its interrupt.        *)
MessagesEnd == pc # "idle" ~> pc = "idle"

(* "normally deactivate chipselect ... unless no error and cs_change has   *)
(* hinted that the next message will probably be for this chip too."       *)
FailedDeselects == pc = "idle" /\ status => chip \notin selected

(* "rx/tx buffer is used for throwaway rx and tx data as well as for       *)
(* copying "small" data sets instead of setting up streaming buffer."      *)
ReadArrives ==
    pc \in {"idle", "next"} /\ count > 0 /\ ~failed /\ xfer.read => arrived
=============================================================================
