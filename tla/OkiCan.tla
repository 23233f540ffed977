------------------------------- MODULE OkiCan -------------------------------
(***************************************************************************)
(* The life of a CAN interface around the transmit ring of OkiTx: open and *)
(* close in process context, the status interrupt with bus-off, and the    *)
(* restart timer of the CAN core.  Softirqs (poll, transmission, restart)  *)
(* do not interrupt each other but interrupt a process anywhere; the hard  *)
(* IRQ and the controller run between any two steps.                       *)
(*                                                                         *)
(* Error warning and error passive change only what is reported, and are   *)
(* part of the state "active" here.                                        *)
(***************************************************************************)
EXTENDS OkiTx

CONSTANTS
    CalmRestart    \* bound: the restart timer does not fire while a
                   \* transmit poll is due

ASSUME RestartAssumption == CalmRestart \in BOOLEAN

VARIABLES
    bus,        \* the controller: on the bus, off it (INIT set by itself),
                \* or let back on and still counting idle sequences
    lastBoff,   \* the BOFF bit of priv->last_status
    state,      \* priv->can.state
    carrier,    \* netif_carrier_ok
    timer,      \* priv->can.restart_timer is pending
    life,       \* where open and close are
    restart,    \* the restart timer is between two steps of c_can_start
    autoRestart \* priv->can.restart_ms is not 0

canVars == <<bus, lastBoff, state, carrier, timer, life, restart, autoRestart>>
allVars == <<vars, canVars>>

-----------------------------------------------------------------------------

(* What open and close have done so far.                                   *)
Lives == {"down", "opening", "configured", "up",
          "queueStopped", "napiDisabled", "stopped"}

(* NAPI_STATE_SCHED is held by napi_disable (netif_napi_add sets it too).  *)
NapiOff == life \in {"down", "napiDisabled", "stopped"}

Boff == bus # "on"

CanTypeOK ==
    /\ TypeOK
    /\ bus \in {"on", "off", "recovering"}
    /\ lastBoff \in BOOLEAN
    /\ state \in {"active", "busoff", "stopped"}
    /\ carrier \in BOOLEAN
    /\ timer \in BOOLEAN
    /\ life \in Lives
    /\ restart \in BOOLEAN
    /\ autoRestart \in BOOLEAN
    /\ NapiOff => napi = "scheduled"

(* Registered and never opened.                                            *)
CanInit ==
    /\ TxInit
    /\ pend = {}
    /\ irqEnabled = FALSE
    /\ irqstatus = 0
    /\ napi = "scheduled"
    /\ bus = "on"
    /\ lastBoff = FALSE
    /\ state = "stopped"
    /\ carrier = TRUE
    /\ timer = FALSE
    /\ life = "down"
    /\ restart = FALSE
    /\ autoRestart = FALSE

(* No softirq is in the middle of its work: a process, or another softirq, *)
(* may run.                                                                *)
Quiet == xmit = NoFrame /\ ~Polling /\ ~restart

-----------------------------------------------------------------------------
(* c_can_start, in two steps: the chip's interrupts are enabled at the end *)
(* of c_can_chip_config, before the driver's own state is reset.           *)

(* Mutant: only the receive objects are invalidated.                       *)
ConfigChipRxOnly ==
    /\ pend' = pend \ RxObjs
    /\ bus' = IF bus = "off" THEN "recovering" ELSE bus
    /\ irqEnabled' = TRUE
    /\ UNCHANGED <<ram, txrqst>>

(* c_can_chip_config invalidates all message objects and lets the          *)
(* controller back on the bus.                                             *)
ConfigChip ==
    /\ pend' = pend \intersect {Status}
    /\ ram' = [s \in Slots |-> NoFrame]
    /\ txrqst' = {}
    /\ bus' = IF bus = "off" THEN "recovering" ELSE bus
    /\ irqEnabled' = TRUE

(* Mutant: nobody wakes the queue.                                         *)
StartDoneAsleep ==
    /\ state' = "active"
    /\ txNext' = 0
    /\ txEcho' = 0
    /\ irqEnabled' = TRUE
    /\ UNCHANGED stopped

(* Then the tx helper pointers are reset, and c_can_open or c_can_set_mode *)
(* starts the queue.                                                       *)
StartDone ==
    /\ state' = "active"
    /\ txNext' = 0
    /\ txEcho' = 0
    /\ irqEnabled' = TRUE
    /\ stopped' = FALSE

-----------------------------------------------------------------------------
(* c_can_open and c_can_close                                              *)

(* open_candev, request_irq, napi_enable                                   *)
OpenBegin ==
    /\ life = "down"
    /\ life' = "opening"
    /\ carrier' = TRUE
    /\ napi' = "idle"
    /\ UNCHANGED <<pend, irqEnabled, irqstatus, txVars, bus, lastBoff, state, timer, restart, autoRestart>>

(* A failed request_irq: open_candev is undone by close_candev.            *)
OpenFails ==
    /\ life = "down"
    /\ carrier' = TRUE
    /\ timer' = FALSE
    /\ echo' = [s \in Slots |-> NoFrame]
    /\ UNCHANGED <<irqVars, txNext, txEcho, txrqst, ram, stopped, xmit,
                   bus, lastBoff, state, life, restart, autoRestart>>

OpenConfig ==
    /\ life = "opening"
    /\ Quiet
    /\ ConfigChip
    /\ life' = "configured"
    /\ UNCHANGED <<irqstatus, napi, txNext, txEcho, echo, stopped, xmit,
                   lastBoff, state, carrier, timer, restart, autoRestart>>

OpenDone ==
    /\ life = "configured"
    /\ Quiet
    /\ StartDone
    /\ life' = "up"
    /\ UNCHANGED <<pend, irqstatus, napi, txrqst, ram, echo, xmit,
                   bus, lastBoff, carrier, timer, restart, autoRestart>>

(* netif_stop_queue; the core has taken the queue from the stack before.   *)
CloseQueue ==
    /\ life = "up"
    /\ Quiet
    /\ life' = "queueStopped"
    /\ stopped' = TRUE
    /\ UNCHANGED <<irqVars, txNext, txEcho, txrqst, ram, echo, xmit,
                   bus, lastBoff, state, carrier, timer, restart, autoRestart>>

(* napi_disable waits for a poll that is due or running.                   *)
CloseNapi ==
    /\ life = "queueStopped"
    /\ Quiet
    /\ napi = "idle"
    /\ life' = "napiDisabled"
    /\ napi' = "scheduled"
    /\ UNCHANGED <<pend, irqEnabled, irqstatus, txVars, bus, lastBoff, state, carrier,
                   timer, restart, autoRestart>>

(* c_can_stop                                                              *)
CloseStop ==
    /\ life = "napiDisabled"
    /\ Quiet
    /\ life' = "stopped"
    /\ irqEnabled' = FALSE
    /\ state' = "stopped"
    /\ UNCHANGED <<pend, irqstatus, napi, txVars, bus, lastBoff, carrier, timer, restart, autoRestart>>

(* free_irq and close_candev, which deletes the restart timer              *)
CloseEnd ==
    /\ life = "stopped"
    /\ Quiet
    /\ life' = "down"
    /\ timer' = FALSE
    /\ echo' = [s \in Slots |-> NoFrame]
    /\ UNCHANGED <<irqVars, txNext, txEcho, txrqst, ram, stopped, xmit,
                   bus, lastBoff, state, carrier, restart, autoRestart>>

-----------------------------------------------------------------------------
(* The status interrupt                                                    *)

(* c_can_handle_state_change for bus-off, with can_bus_off                 *)
BusOff ==
    /\ state' = "busoff"
    /\ carrier' = FALSE
    /\ timer' = (timer \/ autoRestart)

(* c_can_poll with STATUS_INTERRUPT: BOFF is compared with the last time.  *)
(* There may be no memory for the error frame, and then nothing is done.   *)
(* At the end the controller is unmasked, after bus-off too.               *)
PollStatus ==
    /\ napi = "scheduled"
    /\ ~NapiOff
    /\ irqstatus = Status
    /\ Quiet
    /\ pend' = pend \ {Status}
    /\ lastBoff' = Boff
    /\ \/ Boff /\ ~lastBoff /\ BusOff
       \/ Boff /\ UNCHANGED <<state, carrier, timer>>
       \/ ~Boff /\ lastBoff /\ state' = "active" /\ UNCHANGED <<carrier, timer>>
       \/ ~Boff /\ ~lastBoff /\ UNCHANGED <<state, carrier, timer>>
    /\ PollComplete
    /\ UNCHANGED <<txVars, bus, life, restart, autoRestart>>

(* A receive poll takes its object's cause and touches nothing else here.  *)
PollRx ==
    /\ irqstatus \in RxObjs
    /\ ~NapiOff
    /\ ~restart
    /\ PollOther
    /\ UNCHANGED canVars

-----------------------------------------------------------------------------
(* The restart timer                                                       *)

(* can_changelink sets restart_ms, only while the interface is down.       *)
SetRestart ==
    /\ life = "down"
    /\ autoRestart' \in BOOLEAN
    /\ UNCHANGED <<vars, bus, lastBoff, state, carrier, timer, life, restart>>

(* can_restart_now, on request of the user: only in bus-off.               *)
RestartNow ==
    /\ ~autoRestart
    /\ life = "up"
    /\ Quiet
    /\ state = "busoff"
    /\ timer' = TRUE
    /\ UNCHANGED <<vars, bus, lastBoff, state, carrier, life, restart, autoRestart>>

(* can_restart: the echoes are dropped, the carrier is back, and           *)
(* c_can_set_mode starts the controller and wakes the queue.               *)
RestartBegin ==
    /\ timer
    /\ Quiet
    /\ CalmRestart => ~(napi = "scheduled" /\ irqstatus \in TxObjs)
    /\ timer' = FALSE
    /\ carrier' = TRUE
    /\ echo' = [s \in Slots |-> NoFrame]
    /\ ConfigChip
    /\ restart' = TRUE
    /\ UNCHANGED <<irqstatus, napi, txNext, txEcho, stopped, xmit, lastBoff, state, life, autoRestart>>

RestartDone ==
    /\ restart
    /\ StartDone
    /\ restart' = FALSE
    /\ UNCHANGED <<pend, irqstatus, napi, txrqst, ram, echo, xmit,
                   bus, lastBoff, carrier, timer, life, autoRestart>>

-----------------------------------------------------------------------------
(* The ring and the controller, as long as the life of the interface lets  *)
(* them                                                                    *)

Xmit ==
    /\ \/ life = "up" /\ ~restart /\ \E f \in Frames : StartXmit(f)
       \/ FinishXmit
    /\ UNCHANGED canVars

PollTx ==
    /\ \/ ~NapiOff /\ ~restart /\ PollTxBegin
       \/ EchoOne
       \/ PollTxEnd
    /\ UNCHANGED canVars

(* The handler is registered from request_irq to free_irq.                 *)
IsrCan ==
    /\ life # "down"
    /\ IsrTx
    /\ UNCHANGED canVars

HwSends ==
    /\ bus = "on"
    /\ HwTransmit
    /\ UNCHANGED canVars

(* A transmitter whose frames keep failing leaves the bus.                 *)
HwBusOff ==
    /\ bus = "on"
    /\ txrqst # {}
    /\ bus' = "off"
    /\ pend' = pend \union {Status}
    /\ UNCHANGED <<irqEnabled, irqstatus, napi, txVars,
                   lastBoff, state, carrier, timer, life, restart, autoRestart>>

HwRecovered ==
    /\ bus = "recovering"
    /\ bus' = "on"
    /\ pend' = pend \union {Status}
    /\ UNCHANGED <<irqEnabled, irqstatus, napi, txVars,
                   lastBoff, state, carrier, timer, life, restart, autoRestart>>

(* Received frames, and the status interrupts that come with traffic.      *)
HwTraffic ==
    /\ bus # "off"
    /\ HwOther
    /\ UNCHANGED canVars

CanNext ==
    \/ OpenBegin \/ OpenFails \/ OpenConfig \/ OpenDone
    \/ CloseQueue \/ CloseNapi \/ CloseStop \/ CloseEnd
    \/ PollStatus \/ PollRx \/ PollTx
    \/ SetRestart \/ RestartNow \/ RestartBegin \/ RestartDone
    \/ Xmit
    \/ IsrCan
    \/ HwSends \/ HwBusOff \/ HwRecovered \/ HwTraffic

(* As in OkiTx, and timers fire; nobody has to open or close.              *)
CanFairness ==
    /\ WF_allVars(FinishXmit /\ UNCHANGED canVars)
    /\ WF_allVars(IsrCan)
    /\ WF_allVars(PollTx)
    /\ WF_allVars(PollStatus \/ PollRx)
    /\ WF_allVars(RestartBegin)
    /\ WF_allVars(RestartDone)
    /\ WF_allVars(HwSends)

CanSpec == CanInit /\ [][CanNext]_allVars

CanFairSpec == CanSpec /\ CanFairness

-----------------------------------------------------------------------------
(* Properties                                                              *)

(* Whatever bus-offs, restarts and close and open calls came before, a     *)
(* queue that runs has a free next slot, and an echo is what was sent.     *)
RingSurvives == NextSlotFree /\ EchoMatches

(* A queue stopped before, during or after a bus-off is restarted, once    *)
(* the bus stays on and no other cause keeps the interrupt register busy.  *)
QueueRestartsLater ==
    <>[](bus = "on" /\ pend \subseteq TxObjs) =>
        (stopped /\ life = "up") ~> (~stopped \/ life # "up")

=============================================================================
