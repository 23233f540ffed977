-------------------------------- MODULE OkiRx --------------------------------
(***************************************************************************)
(* The receive side of the OKI ML9620 CAN driver: the controller stores a  *)
(* frame in the lowest receive object without NEWDAT; c_can_do_rx_poll     *)
(* reads a copy of the pending register and serves the objects in it one   *)
(* by one, while the controller goes on storing frames.  Objects of the    *)
(* low group keep NEWDAT once read until the last of the group is read.    *)
(***************************************************************************)
EXTENDS OkiIrq, Sequences, FiniteSetsExt

CONSTANTS
    LowLast,     \* C_CAN_MSG_RX_LOW_LAST
    Weight,      \* C_CAN_NAPI_WEIGHT
    MaxFrames    \* bound: frames 1 .. MaxFrames arrive, in this order

ASSUME GroupAssumption == LowLast \in 1 .. RxNum - 1
ASSUME WeightAssumption == Weight \in Nat \ {0} /\ MaxFrames \in Nat

VARIABLES
    newdat,      \* receive objects with NEWDAT
    msglst,      \* receive objects with MSGLST
    deaf,        \* objects whose control word was cleared: no RXIE, UMASK, EOB
    data,        \* the frame in each receive object
    val,         \* do_rx_poll: its copy of INTPND, less what it has taken
    quota,       \* do_rx_poll: frames it may still take
    lower,       \* activate_all_lower: the next object to activate, 0 if not in it
    arrived,     \* frames the controller accepted
    received,    \* frames handed to the stack, with the object each was read from
    dropped,     \* frames alloc_can_skb had no memory for
    lost         \* frames the controller overwrote or had no object for

objVars == <<newdat, msglst, deaf, data>>
pollVars == <<val, quota, lower>>
history == <<arrived, received, dropped, lost>>
rxVars == <<irqVars, objVars, pollVars, history>>

-----------------------------------------------------------------------------

FramesRx == 1 .. MaxFrames
LowGroup == 1 .. LowLast

(* The one object with the EOB bit, set up last.                           *)
EndOfBuffer == RxNum

RxTypeOK ==
    /\ IrqTypeOK
    /\ newdat \in SUBSET RxObjs
    /\ msglst \in SUBSET RxObjs
    /\ deaf \in SUBSET RxObjs
    /\ data \in [RxObjs -> FramesRx \union {0}]
    /\ val \in SUBSET RxObjs
    /\ quota \in 0 .. Weight
    /\ lower \in LowGroup \union {0}
    /\ arrived \in 0 .. MaxFrames
    /\ received \in Seq([frame : FramesRx, obj : RxObjs])
    /\ dropped \in SUBSET FramesRx
    /\ lost \in SUBSET FramesRx

(* c_can_configure_msg_objects                                             *)
RxInit ==
    /\ IrqInit
    /\ newdat = {}
    /\ msglst = {}
    /\ deaf = {}
    /\ data = [o \in RxObjs |-> 0]
    /\ val = {}
    /\ quota = 0
    /\ lower = 0
    /\ arrived = 0
    /\ received = <<>>
    /\ dropped = {}
    /\ lost = {}

-----------------------------------------------------------------------------
(* The controller                                                          *)

(* An object that can take a frame: NEWDAT clear and still matching.       *)
FreeObjs == RxObjs \ (newdat \union deaf)

HwStore ==
    /\ FreeObjs # {}
    /\ LET o == Min(FreeObjs) IN
          /\ newdat' = newdat \union {o}
          /\ data' = [data EXCEPT ![o] = arrived']
          /\ pend' = pend \union {o}
    /\ UNCHANGED <<msglst, lost>>

(* With every object taken, the one with EOB is overwritten.               *)
HwOverwrite ==
    /\ FreeObjs = {}
    /\ EndOfBuffer \notin deaf
    /\ msglst' = msglst \union {EndOfBuffer}
    /\ lost' = lost \union {data[EndOfBuffer]}
    /\ data' = [data EXCEPT ![EndOfBuffer] = arrived']
    /\ pend' = pend \union {EndOfBuffer}
    /\ UNCHANGED newdat

(* No object takes the frame; one without RXIE that still matched it would *)
(* hold it without an interrupt, and nothing would ever read it.           *)
HwReject ==
    /\ FreeObjs = {}
    /\ EndOfBuffer \in deaf
    /\ lost' = lost \union {arrived'}
    /\ UNCHANGED <<pend, newdat, msglst, data>>

HwReceive ==
    /\ arrived < MaxFrames
    /\ arrived' = arrived + 1
    /\ HwStore \/ HwOverwrite \/ HwReject
    /\ UNCHANGED <<irqEnabled, irqstatus, napi, deaf, pollVars, received, dropped>>

(* Status and transmit causes, and their polls, which touch no receive     *)
(* object.                                                                 *)
HwNotRx ==
    /\ \E c \in Causes \ RxObjs : pend' = pend \union {c}
    /\ UNCHANGED <<irqEnabled, irqstatus, napi, objVars, pollVars, history>>

PollNotRx ==
    /\ napi = "scheduled"
    /\ irqstatus \notin RxObjs
    /\ pend' = pend \ {irqstatus}
    /\ PollComplete
    /\ UNCHANGED <<objVars, pollVars, history>>

IsrRx == Isr /\ UNCHANGED <<objVars, pollVars, history>>

-----------------------------------------------------------------------------
(* c_can_do_rx_poll                                                        *)

(* netif_napi_add was given C_CAN_NAPI_WEIGHT, the number of receive       *)
(* objects.                                                                *)
Quota == Weight

PollRxBegin ==
    /\ irqstatus \in RxObjs
    /\ PollBegin
    /\ quota' = Quota
    /\ UNCHANGED <<objVars, val, lower, history>>

(* The outer loop reads C_CAN_INTPND1_REG.                                 *)
ReadPending ==
    /\ napi = "rx"
    /\ lower = 0
    /\ val = {}
    /\ quota > 0
    /\ pend \intersect RxObjs # {}
    /\ val' = pend \intersect RxObjs
    /\ UNCHANGED <<irqVars, objVars, quota, lower, history>>

(* Nothing pending, or no quota left: then NAPI polls again.               *)
PollRxEnd ==
    /\ napi = "rx"
    /\ lower = 0
    /\ quota = 0 \/ (val = {} /\ pend \intersect RxObjs = {})
    /\ val' = {}
    /\ IF quota = 0
       THEN napi' = "scheduled" /\ UNCHANGED <<irqEnabled, irqstatus>>
       ELSE PollComplete
    /\ UNCHANGED <<pend, objVars, quota, lower, history>>

(* The inner loop takes the lowest object left in its copy.                *)
Take(o) ==
    /\ napi = "rx"
    /\ lower = 0
    /\ quota > 0
    /\ val # {}
    /\ o = Min(val)

(* c_can_handle_lost_msg_obj writes 0 to the whole control word: the       *)
(* object is free, and also stays without RXIE, UMASK and EOB.             *)
HandleLost ==
    /\ \E o \in val :
          /\ Take(o)
          /\ o \in msglst
          /\ val' = val \ {o}
          /\ msglst' = msglst \ {o}
          /\ newdat' = newdat \ {o}
          /\ deaf' = deaf \union {o}
          /\ lost' = lost \union {data[o]}
          /\ pend' = pend \ {o}
    /\ quota' = quota - 1
    /\ UNCHANGED <<irqEnabled, irqstatus, napi, data, lower, arrived, received, dropped>>

(* An object with EOB and no MSGLST ends the poll.                         *)
ReturnAtEob ==
    /\ Take(EndOfBuffer)
    /\ EndOfBuffer \notin msglst \union deaf
    /\ val' = {}
    /\ PollComplete
    /\ UNCHANGED <<pend, objVars, quota, lower, history>>

(* c_can_read_msg_object: the frame goes to the stack, or is dropped for   *)
(* want of an skb.                                                         *)
Deliver(o) ==
    \/ /\ received' = Append(received, [frame |-> data[o], obj |-> o])
       /\ UNCHANGED dropped
    \/ /\ dropped' = dropped \union {data[o]}
       /\ UNCHANGED received

(* Mutant: marking an object frees it as well.                             *)
MarkRxFrees(o) ==
    /\ pend' = pend \ {o}
    /\ newdat' = newdat \ {o}
    /\ UNCHANGED lower

(* c_can_mark_rx_msg_obj: INTPND is cleared, NEWDAT written back as read.  *)
MarkRx(o) ==
    /\ pend' = pend \ {o}
    /\ UNCHANGED <<newdat, lower>>

(* c_can_activate_rx_msg_obj: the object can take a frame again.           *)
ActivateRx(o) ==
    /\ pend' = pend \ {o}
    /\ newdat' = newdat \ {o}
    /\ UNCHANGED lower

(* Mutant: every object of the low group reopens the whole group.          *)
KeepsNewdatNever(o) == FALSE

KeepsNewdat(o) == o < LowLast

(* The frame is read; then the object is marked below LowLast, activated   *)
(* above it; at LowLast the activation of the whole low group begins.  An  *)
(* object without NEWDAT is passed over.                                   *)
ReadOne ==
    /\ \E o \in val \ (msglst \union {EndOfBuffer}) :
          /\ Take(o)
          /\ val' = val \ {o}
          /\ \/ /\ o \in newdat
                /\ Deliver(o)
                /\ quota' = quota - 1
                /\ \/ KeepsNewdat(o) /\ MarkRx(o)
                   \/ o > LowLast /\ ActivateRx(o)
                   \/ /\ ~KeepsNewdat(o) /\ o <= LowLast
                      /\ lower' = 1
                      /\ UNCHANGED <<newdat, pend>>
             \/ /\ o \notin newdat
                /\ UNCHANGED <<received, dropped, quota, newdat, pend, lower>>
    /\ UNCHANGED <<irqEnabled, irqstatus, napi, msglst, deaf, data, arrived, lost>>

(* One round of c_can_activate_all_lower_rx_msg_obj.                       *)
ActivateLower ==
    /\ lower # 0
    /\ newdat' = newdat \ {lower}
    /\ pend' = pend \ {lower}
    /\ lower' = IF lower = LowLast THEN 0 ELSE lower + 1
    /\ UNCHANGED <<irqEnabled, irqstatus, napi, msglst, deaf, data, val, quota, history>>

-----------------------------------------------------------------------------

RxNext ==
    \/ HwReceive
    \/ HwNotRx
    \/ IsrRx
    \/ PollNotRx
    \/ PollRxBegin
    \/ ReadPending
    \/ PollRxEnd
    \/ HandleLost
    \/ ReturnAtEob
    \/ ReadOne
    \/ ActivateLower

(* Interrupts and softirqs are served.                                     *)
RxFairness ==
    /\ WF_rxVars(IsrRx)
    /\ WF_rxVars(PollNotRx)
    /\ WF_rxVars(PollRxBegin)
    /\ WF_rxVars(ReadPending \/ PollRxEnd \/ HandleLost \/ ReturnAtEob \/ ReadOne
               \/ ActivateLower)

RxSpec == RxInit /\ [][RxNext]_rxVars

RxFairSpec == RxSpec /\ RxFairness

-----------------------------------------------------------------------------
(* Properties                                                              *)

Handed == {received[i].frame : i \in DOMAIN received}

(* Objects holding a frame nobody has read: their interrupt is pending,    *)
(* except that LowLast keeps it until its own activation.                  *)
Unread ==
    {o \in newdat : o \in pend /\ ~(lower # 0 /\ o = LowLast)}

Waiting == {data[o] : o \in Unread}

(* Every frame the controller accepted is in exactly one place: handed to  *)
(* the stack once, waiting unread in one object, dropped or lost.  So the  *)
(* activation of the low group, which clears objects that were not just    *)
(* read, never wipes out a frame that arrived in the meantime.             *)
EachFrameOnce ==
    /\ Handed \union Waiting \union dropped \union lost = 1 .. arrived
    /\ Handed \intersect Waiting = {}
    /\ dropped \intersect lost = {}
    /\ (Handed \union Waiting) \intersect (dropped \union lost) = {}
    /\ \A i, j \in DOMAIN received : received[i].frame = received[j].frame => i = j
    /\ \A o, p \in Unread : data[o] = data[p] => o = p

(* Frames that went through the low group are handed over in the order in  *)
(* which they arrived.                                                     *)
LowGroupInOrder ==
    \A i, j \in DOMAIN received :
        i < j /\ received[i].obj \in LowGroup /\ received[j].obj \in LowGroup =>
            received[i].frame < received[j].frame

(* A frame in any object but the last is read sooner or later, whatever    *)
(* arrives behind it, unless status interrupts keep coming.                *)
StoredIsRead ==
    <>[](Status \notin pend) =>
        \A o \in RxObjs \ {EndOfBuffer} : (o \in pend) ~> (o \notin pend)

(* The comment above c_can_do_rx_poll: its way of activating the objects   *)
(* ensures in-order frame reception.                                       *)
InOrderReception ==
    \A i, j \in DOMAIN received : i < j => received[i].frame < received[j].frame

(* The comment above c_can_configure_msg_objects: all RxNum objects are    *)
(* the reception FIFO.  So a frame in the last one is received as well.    *)
LastObjectIsRead ==
    <>[](Status \notin pend) =>
        (EndOfBuffer \in pend) ~> (EndOfBuffer \notin pend)

=============================================================================
