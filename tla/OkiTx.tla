-------------------------------- MODULE OkiTx --------------------------------
(***************************************************************************)
(* The transmit side of the OKI ML9620 CAN driver: c_can_start_xmit puts a *)
(* frame into the next transmit message object and its skb into the echo   *)
(* slot of that object; the controller sends the objects; c_can_do_tx      *)
(* walks from tx_echo to tx_next, hands the echoes back and restarts the   *)
(* queue.  Status and receive interrupts are the environment here.         *)
(***************************************************************************)
EXTENDS OkiIrq, Sequences, FiniteSetsExt

CONSTANTS
    Frames,    \* the frames the stack sends
    NoFrame,   \* no frame
    Width      \* 2^32: tx_next and tx_echo are u32

ASSUME FrameAssumption == NoFrame \notin Frames
ASSUME WidthAssumption == Width \in Nat /\ Width > TxNum /\ Width % TxNum = 0

VARIABLES
    txNext,    \* priv->tx_next
    txEcho,    \* priv->tx_echo
    txrqst,    \* the TXRQST registers: slots waiting for the bus
    ram,       \* the frame in each valid transmit object
    echo,      \* priv->can.echo_skb
    stopped,   \* the netdev queue is stopped
    xmit       \* the frame start_xmit is working on

txVars == <<txNext, txEcho, txrqst, ram, echo, stopped, xmit>>
vars == <<irqVars, txVars>>

-----------------------------------------------------------------------------

Slots == 0 .. TxNum - 1

(* counter & C_CAN_NEXT_MSG_OBJ_MASK                                       *)
Mask(c) == c % TxNum

(* u32 increment                                                           *)
Inc(c) == IF c = Width - 1 THEN 0 ELSE c + 1

TxObj(s) == TxFirst + s

TxTypeOK ==
    /\ txNext \in 0 .. Width - 1
    /\ txEcho \in 0 .. Width - 1
    /\ txrqst \in SUBSET Slots
    /\ ram \in [Slots -> Frames \union {NoFrame}]
    /\ echo \in [Slots -> Frames \union {NoFrame}]
    /\ stopped \in BOOLEAN
    /\ xmit \in Frames \union {NoFrame}

TxInit ==
    /\ txNext = 0
    /\ txEcho = 0
    /\ txrqst = {}
    /\ ram = [s \in Slots |-> NoFrame]
    /\ echo = [s \in Slots |-> NoFrame]
    /\ stopped = FALSE
    /\ xmit = NoFrame

-----------------------------------------------------------------------------
(* c_can_start_xmit                                                        *)

(* c_can_write_msg_object: a frame goes into a message object, with the    *)
(* transmission request and with its interrupt pending bit written as 0.   *)
WriteObject(s, f) ==
    /\ ram' = [ram EXCEPT ![s] = f]
    /\ txrqst' = txrqst \union {s}
    /\ pend' = pend \ {TxObj(s)}

(* The frame goes into message object tx_next.                             *)
StartXmit(f) ==
    /\ ~stopped
    /\ xmit = NoFrame
    /\ ~Polling
    /\ WriteObject(Mask(txNext), f)
    /\ xmit' = f
    /\ UNCHANGED <<irqEnabled, irqstatus, napi, txNext, txEcho, echo, stopped>>

(* Mutant: the queue stops only at an object still requested.              *)
QueueFullBusyOnly(c) == Mask(c) \in txrqst

(* The queue has to stop once tx_next = c: c_can_is_next_tx_obj_busy, or a *)
(* wrap around.                                                            *)
QueueFull(c) == Mask(c) \in txrqst \/ Mask(c) = 0

(* can_put_echo_skb for object tx_next: an occupied slot is reported, and  *)
(* the skb dropped.                                                        *)
PutEcho(f) == [echo EXCEPT ![Mask(txNext)] = IF @ = NoFrame THEN f ELSE @]

(* The skb is kept only if its sender asked for a loopback; then tx_next   *)
(* moves on, and the queue stops if it has to.                             *)
FinishXmit ==
    /\ xmit # NoFrame
    /\ echo' = PutEcho(xmit) \/ echo' = echo
    /\ txNext' = Inc(txNext)
    /\ stopped' = (stopped \/ QueueFull(txNext'))
    /\ xmit' = NoFrame
    /\ UNCHANGED <<irqVars, txEcho, txrqst, ram>>

-----------------------------------------------------------------------------
(* c_can_poll with a transmit object as the latched cause: c_can_do_tx     *)

PollTxBegin ==
    /\ irqstatus \in TxObjs
    /\ xmit = NoFrame
    /\ PollBegin
    /\ UNCHANGED txVars

(* Mutant: bit n of the request register taken for object n.               *)
SentOffByOne(c) == Mask(c + 1) \notin txrqst

(* Bit n - 1 of the request register is clear: object n has been sent.     *)
Sent(c) == Mask(c) \notin txrqst

(* Mutant: a wrapped queue is not restarted even when all is echoed.       *)
StillWrappedForEver == Mask(txNext) = 0

(* tx_next is at the start of a lap and the lap before is not all echoed.  *)
StillWrapped == Mask(txNext) = 0 /\ Mask(txEcho) # 0

(* Mutant: the object after the one sent is invalidated.                   *)
InvalNextObject(s) ==
    /\ ram' = [ram EXCEPT ![Mask(s + 1)] = NoFrame]
    /\ pend' = pend \ {TxObj(Mask(s + 1))}

(* c_can_inval_msg_object: neither valid nor pending any more.             *)
InvalObject(s) ==
    /\ ram' = [ram EXCEPT ![s] = NoFrame]
    /\ pend' = pend \ {TxObj(s)}

(* One round of the loop: the object has been sent, so its echo goes back  *)
(* to the stack and the object is invalidated.                             *)
EchoOne ==
    /\ napi = "tx"
    /\ txNext # txEcho
    /\ Sent(txEcho)
    /\ echo' = [echo EXCEPT ![Mask(txEcho)] = NoFrame]
    /\ InvalObject(Mask(txEcho))
    /\ txEcho' = Inc(txEcho)
    /\ UNCHANGED <<irqEnabled, irqstatus, napi, txNext, txrqst, stopped, xmit>>

(* The loop ends at an object not yet sent, or with nothing in flight; the *)
(* queue is restarted unless it wrapped and the lap is not all echoed.     *)
PollTxEnd ==
    /\ napi = "tx"
    /\ txNext = txEcho \/ ~Sent(txEcho)
    /\ stopped' = (stopped /\ StillWrapped)
    /\ PollComplete
    /\ UNCHANGED <<pend, txNext, txEcho, txrqst, ram, echo, xmit>>

-----------------------------------------------------------------------------
(* The controller, and the causes this module leaves to its environment    *)

(* The controller sends the requested object with the lowest number.       *)
HwTransmit ==
    /\ \E s \in txrqst :
          /\ \A t \in txrqst : s <= t
          /\ txrqst' = txrqst \ {s}
          /\ pend' = pend \union {TxObj(s)}
    /\ UNCHANGED <<irqEnabled, irqstatus, napi, txNext, txEcho, ram, echo, stopped, xmit>>

HwOther ==
    /\ \E c \in Causes \ TxObjs : pend' = pend \union {c}
    /\ UNCHANGED <<irqEnabled, irqstatus, napi, txVars>>

(* A poll for a status or receive cause touches no transmit state.         *)
PollOther ==
    /\ napi = "scheduled"
    /\ irqstatus \notin TxObjs
    /\ xmit = NoFrame
    /\ pend' = pend \ {irqstatus}
    /\ PollComplete
    /\ UNCHANGED txVars

IsrTx == Isr /\ UNCHANGED txVars

Init == IrqInit /\ TxInit

Next ==
    \/ \E f \in Frames : StartXmit(f)
    \/ FinishXmit
    \/ IsrTx
    \/ PollTxBegin
    \/ EchoOne
    \/ PollTxEnd
    \/ PollOther
    \/ HwTransmit
    \/ HwOther

(* The controller keeps its bus, interrupts and softirqs are served, and a *)
(* start_xmit that began runs to its end.                                  *)
Fairness ==
    /\ WF_vars(FinishXmit)
    /\ WF_vars(IsrTx)
    /\ WF_vars(PollTxBegin)
    /\ WF_vars(EchoOne)
    /\ WF_vars(PollTxEnd)
    /\ WF_vars(PollOther)
    /\ WF_vars(HwTransmit)

Spec == Init /\ [][Next]_vars

FairSpec == Spec /\ Fairness

-----------------------------------------------------------------------------
(* Properties                                                              *)

TypeOK == IrqTypeOK /\ TxTypeOK

(* c_can_start_xmit never writes over a frame the controller still has to  *)
(* send, nor over one whose echo is still owed: whenever the queue runs,   *)
(* the next object is free in the controller and in the echo array.        *)
NextSlotFree ==
    ~stopped /\ xmit = NoFrame =>
        /\ Mask(txNext) \notin txrqst
        /\ ram[Mask(txNext)] = NoFrame
        /\ echo[Mask(txNext)] = NoFrame

(* The echo do_tx hands back for an object is the frame that object sent.  *)
EchoMatches ==
    \A s \in Slots : echo[s] # NoFrame => echo[s] = ram[s]

(* A queue is never stopped with nobody left to restart it: an object is   *)
(* still to be sent, or a completion is held by the controller, or do_tx   *)
(* is running; and the controller is masked only while a poll is due.      *)
NoLostWakeup ==
    stopped =>
        /\ txrqst # {} \/ pend \intersect TxObjs # {} \/ napi = "tx"
        /\ irqEnabled \/ napi # "idle"

-----------------------------------------------------------------------------
(* The inductive invariant behind them: the objects in flight never        *)
(* straddle the end of the ring.                                           *)

(* tx_next - tx_echo in u32 arithmetic                                     *)
Distance == IF txNext >= txEcho THEN txNext - txEcho ELSE txNext + Width - txEcho

(* Slots between tx_echo and tx_next, all of one lap of the ring           *)
Owed ==
    IF txNext = txEcho THEN {}
    ELSE IF Mask(txNext) = 0 THEN Mask(txEcho) .. TxNum - 1
    ELSE Mask(txEcho) .. Mask(txNext) - 1

(* Slots whose object is valid: start_xmit loads the object before it      *)
(* counts it.                                                              *)
Loaded == Owed \union (IF xmit = NoFrame THEN {} ELSE {Mask(txNext)})

OneLap ==
    \/ txNext = txEcho
    \/ Mask(txNext) > Mask(txEcho) /\ Distance = Mask(txNext) - Mask(txEcho)
    \/ Mask(txNext) = 0 /\ Distance = TxNum - Mask(txEcho)

(* The controller sends the oldest object first: what is still requested   *)
(* is the upper end of what is loaded, and the rest holds its interrupt.   *)
OldestFirst ==
    /\ txrqst \subseteq Loaded
    /\ \A s \in txrqst, t \in Loaded : s < t => t \in txrqst
    /\ \A s \in Slots : TxObj(s) \in pend <=> s \in Loaded \ txrqst

Contents ==
    /\ \A s \in Slots : ram[s] # NoFrame <=> s \in Loaded
    /\ \A s \in Slots : echo[s] # NoFrame => s \in Owed /\ echo[s] = ram[s]
    /\ xmit # NoFrame => ram[Mask(txNext)] = xmit

(* The queue is stopped exactly while a wrapped lap is being echoed.       *)
StopRule ==
    /\ stopped => Mask(txNext) = 0 /\ (txNext # txEcho \/ napi = "tx")
    /\ ~stopped => Mask(txNext) # 0 \/ txNext = txEcho
    /\ xmit # NoFrame => ~stopped /\ ~Polling

(* A latched transmit cause is a completion do_tx will find, so a poll     *)
(* that leaves tx_echo where the lap began leaves nothing to restart.      *)
LatchedIsReal ==
    /\ irqEnabled <=> napi = "idle"
    /\ napi = "scheduled" => irqstatus # 0
    /\ napi = "scheduled" /\ irqstatus \in TxObjs => irqstatus \in pend
    /\ napi = "tx" /\ txNext # txEcho /\ Mask(txNext) = 0 /\ Mask(txEcho) = 0 =>
           0 \notin txrqst

IInv == OneLap /\ OldestFirst /\ Contents /\ StopRule /\ LatchedIsReal

-----------------------------------------------------------------------------
(* Refinement and liveness                                                 *)

(* The objects in flight are a FIFO, oldest first; the frame start_xmit    *)
(* has just loaded is already in the controller.                           *)
InFlight == Distance + (IF xmit = NoFrame THEN 0 ELSE 1)

(* The lowest object requested is the first not sent yet.                  *)
SentCount == IF txrqst = {} THEN InFlight ELSE Min(txrqst) - Mask(txEcho)

(* n frames in flight, after the k oldest                                  *)
FramesAfter(k, n) == [i \in 1 .. n |-> ram[Mask(txEcho + k + i - 1)]]

Link == INSTANCE CanLink WITH
    Capacity <- TxNum,
    waiting  <- FramesAfter(SentCount, InFlight - SentCount),
    sent     <- FramesAfter(0, SentCount)

(* The transmit path is a FIFO: frames reach the bus and are confirmed in  *)
(* the order start_xmit accepted them, although the controller sends the   *)
(* lowest-numbered object first.                                           *)
IsFifo == Link!Spec

(* While no other cause keeps the interrupt register busy, a stopped queue *)
(* is restarted.                                                           *)
QueueRestarts ==
    <>[](pend \subseteq TxObjs) => (stopped ~> ~stopped)

(* While no other cause keeps the interrupt register busy, every frame put *)
(* into an object is sent, and its echo handed back.                       *)
FramesConfirmed ==
    <>[](pend \subseteq TxObjs) =>
        \A s \in Slots : (ram[s] # NoFrame) ~> (ram[s] = NoFrame)

=============================================================================
