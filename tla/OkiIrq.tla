------------------------------- MODULE OkiIrq -------------------------------
(***************************************************************************)
(* The interrupt skeleton of the OKI ML9620 CAN driver: the controller     *)
(* raises causes, the ISR latches the most urgent one, masks the           *)
(* controller and schedules NAPI; c_can_poll serves the ONE latched cause  *)
(* and unmasks the controller again.  The transmit and receive modules     *)
(* add what the poll does with its cause.                                  *)
(*                                                                         *)
(* The board has one ARM926 core.  start_xmit and c_can_poll both run with *)
(* bottom halves disabled, so neither can preempt the other; the hard IRQ  *)
(* and the controller itself run between any two of their register         *)
(* accesses.                                                               *)
(***************************************************************************)
EXTENDS Integers, FiniteSets

CONSTANTS
    RxNum,   \* C_CAN_MSG_OBJ_RX_NUM: objects 1 .. RxNum receive
    TxNum    \* C_CAN_MSG_OBJ_TX_NUM: the TxNum objects after them transmit

ASSUME NumAssumption == RxNum \in Nat \ {0} /\ TxNum \in Nat \ {0}

VARIABLES
    pend,        \* causes the controller holds: INTPND bits, and Status
    irqEnabled,  \* the IE, SIE and EIE bits of the control register
    irqstatus,   \* priv->irqstatus: the cause the ISR latched
    napi         \* what the NAPI context does

irqVars == <<pend, irqEnabled, irqstatus, napi>>

-----------------------------------------------------------------------------

RxObjs == 1 .. RxNum
TxFirst == RxNum + 1
TxObjs == TxFirst .. RxNum + TxNum

(* STATUS_INTERRUPT, 0x8000 in the source: above every object number.      *)
Status == RxNum + TxNum + 1

Causes == RxObjs \union TxObjs \union {Status}

(* The branch of c_can_poll that serves cause c.                           *)
Branch(c) ==
    CASE c = Status   -> "status"
      [] c \in RxObjs -> "rx"
      [] c \in TxObjs -> "tx"

(* What NAPI may be doing.  "scheduled" is the interval between            *)
(* napi_schedule and the first instruction of the poll.                    *)
NapiStates == {"idle", "scheduled", "status", "rx", "tx"}

Polling == napi \in {"status", "rx", "tx"}

IrqTypeOK ==
    /\ pend \in SUBSET Causes
    /\ irqEnabled \in BOOLEAN
    /\ irqstatus \in Causes \union {0}
    /\ napi \in NapiStates

IrqInit ==
    /\ pend = {}
    /\ irqEnabled = TRUE
    /\ irqstatus = 0
    /\ napi = "idle"

-----------------------------------------------------------------------------

(* The interrupt register shows the most urgent cause: the status          *)
(* interrupt first, then the lowest message object.                        *)
IntReg(c) ==
    /\ c \in pend
    /\ Status \in pend => c = Status
    /\ Status \notin pend => \A d \in pend : c <= d

(* c_can_isr.  The pin is low only while the controller is unmasked and    *)
(* holds a cause; otherwise the handler returns without doing anything.    *)
(* napi_schedule is a no-op unless NAPI is idle.                           *)
Isr ==
    /\ irqEnabled
    /\ \E c \in pend :
          /\ IntReg(c)
          /\ irqstatus' = c
    /\ irqEnabled' = FALSE
    /\ napi' = IF napi = "idle" THEN "scheduled" ELSE napi
    /\ UNCHANGED pend

(* c_can_poll up to the dispatch on irqstatus.                             *)
PollBegin ==
    /\ napi = "scheduled"
    /\ irqstatus # 0
    /\ napi' = Branch(irqstatus)
    /\ UNCHANGED <<pend, irqEnabled, irqstatus>>

(* Mutant: the poll completes and leaves the controller masked.            *)
PollCompleteMasked ==
    /\ napi' = "idle"
    /\ UNCHANGED <<irqEnabled, irqstatus>>

(* The end of c_can_poll when the quota was not used up: napi_complete,    *)
(* then every interrupt of the controller is enabled.                      *)
PollComplete ==
    /\ napi' = "idle"
    /\ irqEnabled' = TRUE
    /\ UNCHANGED irqstatus

=============================================================================
