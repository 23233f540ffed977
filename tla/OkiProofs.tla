------------------------------ MODULE OkiProofs ------------------------------
(***************************************************************************)
(* The driver of the OKI ML9620 CAN controller.                            *)
(* For every number of message objects, every counter width and every set  *)
(* of frames: the transmit ring never overwrites a frame it still owes,    *)
(* echoes what it sent, never leaves its queue stopped with nobody to      *)
(* restart it, and is a FIFO (OkiTx); and the first two survive whatever   *)
(* open, close, bus-off and restart do (OkiCan).                           *)
(* For every number of receive objects, every split of them into a low     *)
(* group and the rest, every NAPI weight and any number of frames: the     *)
(* receive poll loses no frame silently, hands none over twice, and keeps  *)
(* the order of those it reads from the low group (OkiRx).                 *)
(***************************************************************************)
EXTENDS OkiCan, OkiRx, SequenceTheorems, FiniteSetTheorems, WellFoundedInduction, TLAPS

(***************************************************************************)
(* Arithmetic of the ring index.                                           *)
(***************************************************************************)

(* Division with remainder, for a divisor that is not a literal.           *)
LEMMA DivMod ==
    ASSUME NEW N \in Nat \ {0}, NEW c \in Nat
    PROVE  /\ c = N * (c \div N) + (c % N)
           /\ c \div N \in Nat
           /\ c % N \in 0 .. N - 1
  OBVIOUS

(* A product with a positive factor is no smaller than the other factor.   *)
LEMMA PositiveFactor ==
    ASSUME NEW N \in Nat \ {0}, NEW k \in Nat \ {0}
    PROVE  N * k >= N
  OBVIOUS

(* The remainder of a division is unique.                                  *)
LEMMA UniqueRemainder ==
    ASSUME NEW N \in Nat \ {0}, NEW a \in Nat, NEW b \in Nat,
           NEW r \in 0 .. N - 1, NEW s \in 0 .. N - 1,
           N * a + r = N * b + s
    PROVE  r = s
  <1>1. ASSUME NEW x \in Nat, NEW y \in Nat, x < y
        PROVE  N * y >= N * x + N
    <2>1. y - x \in Nat \ {0}
      BY <1>1
    <2>2. N * (y - x) >= N
      BY <2>1, PositiveFactor
    <2>3. N * (y - x) = N * y - N * x
      OBVIOUS
    <2>4. N * y \in Int /\ N * x \in Int
      OBVIOUS
    <2> QED
      BY <2>2, <2>3, <2>4
  <1>2. N * a \in Int /\ N * b \in Int
    OBVIOUS
  <1>3. CASE a < b
    BY <1>1, <1>2, <1>3
  <1>4. CASE b < a
    BY <1>1, <1>2, <1>4
  <1>5. CASE a = b
    BY <1>2, <1>5
  <1> QED
    BY <1>3, <1>4, <1>5

(* Counting up by one moves the index by one, or from the last to 0.       *)
LEMMA NextRemainder ==
    ASSUME NEW N \in Nat \ {0}, NEW c \in Nat
    PROVE  (c + 1) % N = IF c % N = N - 1 THEN 0 ELSE (c % N) + 1
  <1> DEFINE q == c \div N
             r == c % N
             p == (c + 1) \div N
             s == (c + 1) % N
  <1>1. q \in Nat /\ r \in 0 .. N - 1 /\ c = N * q + r
    BY DivMod
  <1>2. p \in Nat /\ s \in 0 .. N - 1 /\ c + 1 = N * p + s
    <2>1. c + 1 \in Nat
      OBVIOUS
    <2> QED
      BY <2>1, DivMod
  <1> HIDE DEF q, r, p, s
  <1>3. N * q \in Int /\ N * p \in Int /\ N * (q + 1) = N * q + N
    BY <1>1, <1>2
  <1>4. CASE r # N - 1
    <2>1. r + 1 \in 0 .. N - 1 /\ N * q + (r + 1) = N * p + s
      BY <1>1, <1>2, <1>3, <1>4
    <2>2. r + 1 = s
      BY <2>1, <1>1, <1>2, UniqueRemainder
    <2> QED
      BY <2>2, <1>4 DEF r, s
  <1>5. CASE r = N - 1
    <2>1. N * (q + 1) + 0 = N * p + s
      BY <1>1, <1>2, <1>3, <1>5
    <2>2. 0 = s
      BY <2>1, <1>1, <1>2, UniqueRemainder
    <2> QED
      BY <2>2, <1>5 DEF r, s
  <1> QED
    BY <1>4, <1>5

(* The counters index the ring, and wrapping the u32 wraps the ring too.   *)
LEMMA MaskFacts ==
    ASSUME NEW c \in 0 .. Width - 1
    PROVE  /\ Mask(c) \in Slots
           /\ Inc(c) \in 0 .. Width - 1
           /\ Mask(Inc(c)) = IF Mask(c) = TxNum - 1 THEN 0 ELSE Mask(c) + 1
           /\ Mask(0) = 0
  <1>1. c \in Nat /\ TxNum \in Nat \ {0} /\ Width \in Nat /\ Width > TxNum
    BY NumAssumption, WidthAssumption
  <1>2. c % TxNum \in 0 .. TxNum - 1 /\ 0 % TxNum = 0
    BY <1>1
  <1>3. (c + 1) % TxNum = IF c % TxNum = TxNum - 1 THEN 0 ELSE (c % TxNum) + 1
    BY <1>1, NextRemainder
  <1>4. CASE c = Width - 1
    <2>1. c + 1 = Width
      BY <1>1, <1>4
    <2>2. (c + 1) % TxNum = 0
      BY <2>1, WidthAssumption
    <2>3. c % TxNum = TxNum - 1
      BY <1>1, <1>2, <1>3, <2>2
    <2> QED
      BY <1>1, <1>2, <1>4, <2>3 DEF Mask, Inc, Slots
  <1>5. CASE c # Width - 1
    BY <1>1, <1>2, <1>3, <1>5 DEF Mask, Inc, Slots
  <1> QED
    BY <1>4, <1>5

(***************************************************************************)
(* The slots between the two counters.                                     *)
(***************************************************************************)

(* Unless a whole lap is already owed, tx_next is above every owed slot.   *)
LEMMA NextAbove ==
    ASSUME TypeOK, OneLap, txNext = txEcho \/ Mask(txNext) # 0
    PROVE  \A s \in Owed : s < Mask(txNext)
  BY MaskFacts, NumAssumption DEF TypeOK, TxTypeOK, Slots, OneLap, Owed

(* Counting a frame in: unless a whole lap is already owed, tx_next is     *)
(* above every owed slot and becomes owed itself.                          *)
LEMMA CountNext ==
    ASSUME TypeOK, OneLap, txNext = txEcho \/ Mask(txNext) # 0,
           txNext' = Inc(txNext), txEcho' = txEcho
    PROVE  /\ OneLap'
           /\ Owed' = Owed \union {Mask(txNext)}
           /\ \A s \in Owed : s < Mask(txNext)
           /\ txNext' # txEcho'
  <1> DEFINE n == Mask(txNext)
             e == Mask(txEcho)
             m == Mask(txNext')
  <1>1. /\ txNext \in 0 .. Width - 1 /\ txEcho \in 0 .. Width - 1
        /\ txNext' \in 0 .. Width - 1
        /\ n \in 0 .. TxNum - 1 /\ e \in 0 .. TxNum - 1
        /\ m = IF n = TxNum - 1 THEN 0 ELSE n + 1
        /\ TxNum \in Nat \ {0} /\ Width \in Nat /\ Width > TxNum
    BY MaskFacts, NumAssumption, WidthAssumption DEF TypeOK, TxTypeOK, Slots
  <1>2. \/ txNext = txEcho /\ n = e /\ Distance = 0
        \/ txNext # txEcho /\ n > e /\ Distance = n - e
    BY <1>1 DEF OneLap, Distance
  <1>3. Distance < Width - 1
    BY <1>1, <1>2
  <1>4. Distance' = Distance + 1
    BY <1>1, <1>3 DEF Distance, Inc
  <1>5. txNext' # txEcho'
    BY <1>1, <1>2, <1>4 DEF Distance
  <1>6. OneLap'
    BY <1>1, <1>2, <1>4 DEF OneLap
  <1>7. Owed = IF txNext = txEcho THEN {} ELSE e .. n - 1
    BY <1>1, <1>2 DEF Owed
  <1>8. Owed' = IF m = 0 THEN e .. TxNum - 1 ELSE e .. m - 1
    BY <1>5 DEF Owed
  <1>9. Owed' = e .. n
    BY <1>1, <1>8
  <1>10. Owed' = Owed \union {n}
    BY <1>1, <1>2, <1>7, <1>9
  <1> QED
    BY <1>1, <1>5, <1>6, <1>7, <1>10

(* Counting an echo out: tx_echo is the lowest owed slot, and once it has  *)
(* reached the end of its lap nothing is owed.                             *)
LEMMA CountEcho ==
    ASSUME TypeOK, OneLap, txNext # txEcho,
           txEcho' = Inc(txEcho), txNext' = txNext
    PROVE  /\ OneLap'
           /\ Owed' = Owed \ {Mask(txEcho)}
           /\ Mask(txEcho) \in Owed
           /\ \A s \in Owed : Mask(txEcho) <= s
           /\ txNext' # txEcho' => Mask(txEcho') # 0
  <1> DEFINE n == Mask(txNext)
             e == Mask(txEcho)
             d == Mask(txEcho')
             top == IF n = 0 THEN TxNum ELSE n
  <1>1. /\ txNext \in 0 .. Width - 1 /\ txEcho \in 0 .. Width - 1
        /\ txEcho' \in 0 .. Width - 1
        /\ n \in 0 .. TxNum - 1 /\ e \in 0 .. TxNum - 1
        /\ d = IF e = TxNum - 1 THEN 0 ELSE e + 1
        /\ TxNum \in Nat \ {0} /\ Width \in Nat /\ Width > TxNum
    BY MaskFacts, NumAssumption, WidthAssumption DEF TypeOK, TxTypeOK, Slots
  <1>2. top > e /\ top \in 1 .. TxNum /\ Distance = top - e
    BY <1>1 DEF OneLap
  <1>3. Distance' = Distance - 1
    BY <1>1, <1>2 DEF Distance, Inc
  <1>4. txNext' = txEcho' <=> Distance' = 0
    BY <1>1 DEF Distance
  <1>5. txNext' # txEcho' => d = e + 1 /\ top > d
    BY <1>1, <1>2, <1>3, <1>4
  <1>6. OneLap'
    BY <1>1, <1>2, <1>3, <1>4, <1>5 DEF OneLap
  <1>7. Owed = e .. top - 1
    BY <1>1 DEF Owed
  <1>8. Owed' = IF txNext' = txEcho' THEN {} ELSE d .. top - 1
    BY <1>1 DEF Owed
  <1>9. Owed' = Owed \ {e}
    <2>1. CASE txNext' = txEcho'
      <3>1. top = e + 1
        BY <1>1, <1>2, <1>3, <1>4, <2>1
      <3> QED
        BY <1>1, <1>7, <1>8, <2>1, <3>1
    <2>2. CASE txNext' # txEcho'
      BY <1>1, <1>2, <1>5, <1>7, <1>8, <2>2
    <2> QED
      BY <2>1, <2>2
  <1>10. e \in Owed /\ \A s \in Owed : e <= s
    BY <1>1, <1>2, <1>7
  <1> QED
    BY <1>1, <1>5, <1>6, <1>9, <1>10

(* Owed slots are slots.                                                   *)
LEMMA OwedSlots ==
    ASSUME TypeOK
    PROVE  Owed \subseteq Slots /\ Loaded \subseteq Slots /\ Mask(txNext) \in Slots
  <1>1. /\ Mask(txNext) \in 0 .. TxNum - 1 /\ Mask(txEcho) \in 0 .. TxNum - 1
        /\ TxNum \in Nat
    BY MaskFacts, NumAssumption DEF TypeOK, TxTypeOK, Slots
  <1>2. Owed \subseteq Slots
    BY <1>1 DEF Owed, Slots
  <1> QED
    BY <1>1, <1>2 DEF Loaded, Slots

(* The transmit object of a slot is a transmit object, one for each slot,  *)
(* and no other cause is one.                                              *)
LEMMA TxObjFacts ==
    /\ TxObjs \subseteq Causes
    /\ 0 \notin Causes
    /\ \A s \in Slots : TxObj(s) \in TxObjs
    /\ \A s, t \in Slots : TxObj(s) = TxObj(t) => s = t
    /\ \A c \in TxObjs : \E s \in Slots : c = TxObj(s)
    /\ \A c \in Causes : Branch(c) = "tx" <=> c \in TxObjs
    /\ \A c \in Causes : Branch(c) \in NapiStates \ {"idle", "scheduled"}
  <1>1. RxNum \in Nat \ {0} /\ TxNum \in Nat \ {0}
    BY NumAssumption
  <1>2. TxObjs = RxNum + 1 .. RxNum + TxNum /\ TxFirst = RxNum + 1
    BY DEF TxObjs, TxFirst
  <1>3. /\ TxObjs \subseteq Causes
        /\ 0 \notin Causes
    BY <1>1, <1>2 DEF Causes, RxObjs, Status
  <1>4. /\ \A s \in Slots : TxObj(s) \in TxObjs
        /\ \A s, t \in Slots : TxObj(s) = TxObj(t) => s = t
    BY <1>1, <1>2 DEF TxObj, Slots
  <1>5. \A c \in TxObjs : \E s \in Slots : c = TxObj(s)
    <2>1. ASSUME NEW c \in TxObjs
          PROVE  c - TxFirst \in Slots /\ c = TxObj(c - TxFirst)
      BY <1>1, <1>2 DEF TxObj, Slots
    <2> QED
      BY <2>1
  <1>6. ASSUME NEW c \in Causes
        PROVE  /\ Branch(c) = "tx" <=> c \in TxObjs
               /\ Branch(c) \in NapiStates \ {"idle", "scheduled"}
    BY <1>1, <1>2 DEF Causes, Branch, RxObjs, Status, NapiStates
  <1> QED
    BY <1>3, <1>4, <1>5, <1>6

(***************************************************************************)
(* Type correctness.                                                       *)
(***************************************************************************)

LEMMA InitType == Init => TypeOK
  <1> SUFFICES ASSUME Init PROVE TypeOK
    OBVIOUS
  <1>1. 0 \in 0 .. Width - 1
    BY NumAssumption, WidthAssumption
  <1>2. IrqTypeOK
    BY DEF Init, IrqInit, IrqTypeOK, NapiStates
  <1>3. ram \in [Slots -> Frames \union {NoFrame}]
        /\ echo \in [Slots -> Frames \union {NoFrame}]
    BY DEF Init, TxInit
  <1> QED
    BY <1>1, <1>2, <1>3 DEF Init, TxInit, TypeOK, TxTypeOK

(* Every action keeps every variable in its range.                         *)
LEMMA NextType == TypeOK /\ [Next]_vars => TypeOK'
  <1> SUFFICES ASSUME TypeOK, [Next]_vars PROVE TypeOK'
    OBVIOUS
  <1> USE DEF TypeOK, IrqTypeOK, TxTypeOK
  <1>1. ASSUME NEW f \in Frames, StartXmit(f) PROVE TypeOK'
    BY <1>1, OwedSlots DEF StartXmit, WriteObject
  <1>2. CASE FinishXmit
    <2>1. txNext' \in 0 .. Width - 1
      BY <1>2, MaskFacts DEF FinishXmit
    <2>2. echo' \in [Slots -> Frames \union {NoFrame}]
      BY <1>2, OwedSlots DEF FinishXmit, PutEcho
    <2> QED
      BY <1>2, <2>1, <2>2 DEF FinishXmit, QueueFull, irqVars
  <1>3. CASE IsrTx
    BY <1>3 DEF IsrTx, Isr, IntReg, NapiStates, txVars
  <1>4. CASE PollTxBegin
    BY <1>4, TxObjFacts DEF PollTxBegin, PollBegin, txVars
  <1>5. CASE EchoOne
    <2>1. txEcho' \in 0 .. Width - 1
      BY <1>5, MaskFacts DEF EchoOne, InvalObject
    <2> QED
      BY <1>5, <2>1 DEF EchoOne, InvalObject
  <1>6. CASE PollTxEnd
    BY <1>6 DEF PollTxEnd, PollComplete, NapiStates
  <1>7. CASE PollOther
    BY <1>7 DEF PollOther, PollComplete, NapiStates, txVars
  <1>8. CASE HwTransmit
    BY <1>8, TxObjFacts DEF HwTransmit
  <1>9. CASE HwOther
    BY <1>9 DEF HwOther, txVars
  <1>10. CASE UNCHANGED vars
    BY <1>10 DEF vars, irqVars, txVars
  <1> QED
    BY <1>1, <1>2, <1>3, <1>4, <1>5, <1>6, <1>7, <1>8, <1>9, <1>10 DEF Next

(* No sequence of driver and controller steps takes a counter, an object   *)
(* number or a queue flag out of its range.                                *)
THEOREM TypeCorrect == Spec => []TypeOK
  BY InitType, NextType, PTL DEF Spec

(***************************************************************************)
(* The inductive invariant.                                                *)
(***************************************************************************)

LEMMA InitInv == Init => IInv
  <1> SUFFICES ASSUME Init PROVE IInv
    OBVIOUS
  <1> USE DEF Init, IrqInit, TxInit
  <1>1. Owed = {} /\ Loaded = {}
    BY DEF Owed, Loaded
  <1>2. OneLap
    BY DEF OneLap
  <1>3. OldestFirst
    BY <1>1 DEF OldestFirst
  <1>4. Contents
    BY <1>1 DEF Contents
  <1>5. StopRule
    BY DEF StopRule
  <1>6. LatchedIsReal
    BY DEF LatchedIsReal
  <1> QED
    BY <1>2, <1>3, <1>4, <1>5, <1>6 DEF IInv

(* The slots in flight, and what objects, interrupts and echoes hold for   *)
(* them: what the ring keeps whatever stops and wakes the queue.           *)
RingInv == OneLap /\ OldestFirst /\ Contents

(* start_xmit loads a free object above everything that is owed.           *)
LEMMA StartXmitRing ==
    ASSUME TypeOK, RingInv, NEW f \in Frames, StartXmit(f),
           txNext = txEcho \/ Mask(txNext) # 0
    PROVE  RingInv' /\ TxObj(Mask(txNext)) \notin pend
  <1> DEFINE n == Mask(txNext)
  <1> USE DEF StartXmit, WriteObject
  <1>1. /\ ~stopped /\ f # NoFrame /\ n \in Slots
        /\ Owed \subseteq Slots /\ pend \subseteq Causes
    BY FrameAssumption, OwedSlots DEF TypeOK, IrqTypeOK
  <1>2. \A s \in Owed : s < n
    BY NextAbove DEF RingInv
  <1>3. Owed' = Owed /\ Loaded = Owed /\ Loaded' = Owed \union {n}
    BY <1>1 DEF Owed, Loaded
  <1>4. n \notin Owed
    BY <1>1, <1>2, NumAssumption DEF Slots
  <1>5. OneLap'
    BY DEF RingInv, OneLap, Distance
  <1>6. OldestFirst'
    <2>1. txrqst' \subseteq Loaded'
      BY <1>3 DEF RingInv, OldestFirst
    <2>2. ASSUME NEW s \in txrqst', NEW t \in Loaded', s < t
          PROVE  t \in txrqst'
      BY <1>1, <1>2, <1>3, <2>2, NumAssumption DEF RingInv, OldestFirst, Slots
    <2>3. ASSUME NEW s \in Slots
          PROVE  TxObj(s) \in pend' <=> s \in Loaded' \ txrqst'
      <3>1. s # n => TxObj(s) # TxObj(n)
        BY <1>1, TxObjFacts
      <3> QED
        BY <1>3, <3>1 DEF RingInv, OldestFirst
    <2> QED
      BY <2>1, <2>2, <2>3 DEF OldestFirst
  <1>7. Contents'
    <2>1. \A s \in Slots : ram'[s] = IF s = n THEN f ELSE ram[s]
      BY <1>1 DEF TypeOK, TxTypeOK
    <2> QED
      BY <1>1, <1>3, <1>4, <2>1 DEF RingInv, Contents
  <1>8. TxObj(n) \notin pend
    BY <1>1, <1>3, <1>4 DEF RingInv, OldestFirst
  <1> QED
    BY <1>5, <1>6, <1>7, <1>8 DEF RingInv

(* tx_next moves over the object just loaded, and the queue stops when the *)
(* lap is full.                                                            *)
LEMMA FinishXmitRing ==
    ASSUME TypeOK, RingInv, FinishXmit,
           txNext = txEcho \/ Mask(txNext) # 0
    PROVE  /\ RingInv' /\ txNext' # txEcho'
           /\ stopped' <=> stopped \/ Mask(txNext') = 0
  <1> DEFINE n == Mask(txNext)
             m == Mask(txNext')
  <1> USE DEF FinishXmit, QueueFull, PutEcho, irqVars
  <1>1. /\ n \in Slots /\ Owed \subseteq Slots
        /\ m = IF n = TxNum - 1 THEN 0 ELSE n + 1
        /\ txNext = txEcho \/ n # 0
    BY OwedSlots, MaskFacts DEF TypeOK, TxTypeOK
  <1>2. /\ OneLap' /\ Owed' = Owed \union {n}
        /\ \A s \in Owed : s < n
        /\ txNext' # txEcho'
    BY <1>1, CountNext DEF RingInv
  <1>3. Loaded = Owed \union {n} /\ Loaded' = Loaded
    BY <1>2, FrameAssumption DEF Loaded
  <1>4. OldestFirst'
    BY <1>3 DEF RingInv, OldestFirst
  <1>5. Contents'
    <2>1. n \notin Owed
      BY <1>1, <1>2, NumAssumption DEF Slots
    <2>2. echo[n] = NoFrame
      BY <1>1, <2>1 DEF RingInv, Contents
    <2>3. \A s \in Slots : echo'[s] = echo[s] \/ (s = n /\ echo'[s] = xmit)
      BY <1>1, <2>2 DEF TypeOK, TxTypeOK
    <2> QED
      BY <1>1, <1>2, <1>3, <2>2, <2>3 DEF RingInv, Contents
  <1>6. m # 0 => m \notin txrqst
    BY <1>1, <1>2, <1>3, NumAssumption DEF RingInv, OldestFirst, Slots
  <1>7. stopped' <=> stopped \/ m = 0
    BY <1>6
  <1> QED
    BY <1>2, <1>4, <1>5, <1>7 DEF RingInv

(* A transmit cause that is a completion: the oldest object, sent before   *)
(* every other, has completed as well.                                     *)
LEMMA CompletionRing ==
    ASSUME TypeOK, RingInv, irqstatus \in TxObjs, irqstatus \in pend
    PROVE  0 \notin txrqst
  <1>1. PICK s \in Slots : irqstatus = TxObj(s)
    BY TxObjFacts
  <1>2. s \in Loaded \ txrqst
    BY <1>1 DEF RingInv, OldestFirst
  <1>3. 0 \in txrqst => ~(0 < s)
    BY <1>2 DEF RingInv, OldestFirst
  <1>4. s \in Nat
    BY NumAssumption DEF Slots
  <1> QED
    BY <1>2, <1>3, <1>4

(* One echo handed back takes the lowest slot out of everything at once.   *)
LEMMA EchoOneRing ==
    ASSUME TypeOK, RingInv, EchoOne, xmit = NoFrame
    PROVE  RingInv' /\ (txNext' # txEcho' => Mask(txEcho') # 0)
  <1> DEFINE e == Mask(txEcho)
  <1> USE DEF EchoOne, InvalObject, Sent
  <1>1. /\ OneLap' /\ Owed' = Owed \ {e}
        /\ e \in Owed /\ Owed \subseteq Slots
        /\ txNext' # txEcho' => Mask(txEcho') # 0
    BY CountEcho, OwedSlots DEF RingInv
  <1>2. Loaded = Owed /\ Loaded' = Owed \ {e}
    BY <1>1 DEF Loaded
  <1>3. OldestFirst'
    <2>1. ASSUME NEW s \in Slots
          PROVE  TxObj(s) \in pend' <=> s \in Loaded' \ txrqst'
      <3>1. s # e => TxObj(s) # TxObj(e)
        BY <1>1, TxObjFacts
      <3> QED
        BY <1>2, <3>1 DEF RingInv, OldestFirst
    <2> QED
      BY <1>2, <2>1 DEF RingInv, OldestFirst
  <1>4. Contents'
    <2>1. /\ \A s \in Slots : ram'[s] = IF s = e THEN NoFrame ELSE ram[s]
          /\ \A s \in Slots : echo'[s] = IF s = e THEN NoFrame ELSE echo[s]
      BY <1>1 DEF TypeOK, TxTypeOK
    <2> QED
      BY <1>1, <1>2, <2>1 DEF RingInv, Contents
  <1> QED
    BY <1>1, <1>3, <1>4 DEF RingInv

(* The controller sends the lowest requested object.                       *)
LEMMA HwTransmitRing ==
    ASSUME TypeOK, RingInv, HwTransmit
    PROVE  RingInv' /\ txrqst' \subseteq txrqst /\ pend \subseteq pend'
  <1> USE DEF HwTransmit
  <1>1. PICK s \in txrqst :
            /\ \A t \in txrqst : s <= t
            /\ txrqst' = txrqst \ {s}
            /\ pend' = pend \union {TxObj(s)}
    BY DEF HwTransmit
  <1>2. OneLap' /\ Owed' = Owed /\ Loaded' = Loaded
    BY DEF RingInv, OneLap, Distance, Owed, Loaded
  <1>3. s \in Loaded /\ s \in Slots /\ Loaded \subseteq Slots
    BY OwedSlots DEF RingInv, OldestFirst
  <1>4. OldestFirst'
    <2>1. ASSUME NEW t \in txrqst', NEW u \in Loaded', t < u
          PROVE  u \in txrqst'
      BY <1>1, <1>2, <1>3, <2>1, NumAssumption DEF RingInv, OldestFirst, Slots
    <2>2. ASSUME NEW t \in Slots
          PROVE  TxObj(t) \in pend' <=> t \in Loaded' \ txrqst'
      <3>1. t # s => TxObj(t) # TxObj(s)
        BY <1>3, TxObjFacts
      <3> QED
        BY <1>1, <1>2, <1>3, <3>1 DEF RingInv, OldestFirst
    <2> QED
      BY <1>1, <1>2, <2>1, <2>2 DEF RingInv, OldestFirst
  <1>5. Contents'
    BY <1>2 DEF RingInv, Contents
  <1> QED
    BY <1>1, <1>2, <1>4, <1>5 DEF RingInv

(* Steps that touch neither the ring nor the transmit interrupts.          *)
LEMMA SameRing ==
    ASSUME TypeOK, RingInv, UNCHANGED <<txNext, txEcho, txrqst, ram, echo, xmit>>,
           pend' \intersect TxObjs = pend \intersect TxObjs
    PROVE  RingInv'
  <1>1. OneLap' /\ Owed' = Owed /\ Loaded' = Loaded
    BY DEF RingInv, OneLap, Distance, Owed, Loaded
  <1>2. OldestFirst' /\ Contents'
    BY <1>1, TxObjFacts DEF RingInv, OldestFirst, Contents
  <1> QED
    BY <1>1, <1>2 DEF RingInv

(***************************************************************************)
(* The ring by itself: the invariant with the queue and the interrupts.    *)
(***************************************************************************)

(* The invariant is that of the ring, and two rules.                       *)
LEMMA IInvParts == IInv <=> RingInv /\ StopRule /\ LatchedIsReal
  BY DEF IInv, RingInv

(* start_xmit runs only with the ring not full, and the object it takes is *)
(* not the one the ISR has latched.                                        *)
LEMMA StartXmitInv ==
    ASSUME TypeOK, IInv, NEW f \in Frames, StartXmit(f)
    PROVE  IInv'
  <1>1. RingInv' /\ TxObj(Mask(txNext)) \notin pend
    BY IInvParts, StartXmitRing DEF StopRule, StartXmit
  <1>2. StopRule' /\ LatchedIsReal'
    BY <1>1 DEF StartXmit, WriteObject, IInv, StopRule, LatchedIsReal, Polling
  <1> QED
    BY <1>1, <1>2 DEF IInv, RingInv

(* The queue stops exactly when the lap is full.                           *)
LEMMA FinishXmitInv ==
    ASSUME TypeOK, IInv, FinishXmit
    PROVE  IInv'
  <1>1. ~stopped /\ ~Polling /\ (txNext = txEcho \/ Mask(txNext) # 0)
    BY DEF IInv, StopRule, FinishXmit
  <1>2. RingInv' /\ txNext' # txEcho' /\ (stopped' <=> stopped \/ Mask(txNext') = 0)
    BY <1>1, IInvParts, FinishXmitRing
  <1>3. StopRule' /\ LatchedIsReal'
    BY <1>1, <1>2 DEF FinishXmit, IInv, StopRule, LatchedIsReal, Polling, irqVars
  <1> QED
    BY <1>2, <1>3 DEF IInv, RingInv

(* do_tx is entered only with a completion to find.                        *)
LEMMA PollTxBeginInv ==
    ASSUME TypeOK, IInv, PollTxBegin
    PROVE  IInv'
  <1> USE DEF PollTxBegin, PollBegin, txVars
  <1>1. napi' = "tx"
    BY TxObjFacts DEF TypeOK, IrqTypeOK
  <1>2. RingInv'
    BY IInvParts, SameRing
  <1>3. StopRule'
    BY <1>1 DEF IInv, StopRule
  <1>4. LatchedIsReal'
    <2>1. 0 \notin txrqst
      BY IInvParts, CompletionRing DEF LatchedIsReal
    <2> QED
      BY <1>1, <2>1 DEF IInv, LatchedIsReal
  <1> QED
    BY <1>2, <1>3, <1>4 DEF IInv, RingInv

(* No frame is being loaded while do_tx runs.                              *)
LEMMA EchoOneInv ==
    ASSUME TypeOK, IInv, EchoOne
    PROVE  IInv'
  <1>1. xmit = NoFrame
    BY DEF IInv, StopRule, EchoOne, Polling
  <1>2. RingInv' /\ (txNext' # txEcho' => Mask(txEcho') # 0)
    BY <1>1, IInvParts, EchoOneRing
  <1>3. StopRule' /\ LatchedIsReal'
    BY <1>1, <1>2 DEF EchoOne, InvalObject, IInv, StopRule, LatchedIsReal
  <1> QED
    BY <1>2, <1>3 DEF IInv, RingInv

(* do_tx leaves the queue stopped only in the middle of a wrapped lap.     *)
LEMMA PollTxEndInv ==
    ASSUME TypeOK, IInv, PollTxEnd
    PROVE  IInv'
  <1> USE DEF PollTxEnd, PollComplete, Sent, StillWrapped
  <1>1. RingInv'
    BY IInvParts, SameRing
  <1>2. xmit = NoFrame
    BY DEF IInv, StopRule, Polling
  <1>3. stopped /\ ~(Mask(txNext) = 0 /\ Mask(txEcho) # 0) => txNext = txEcho
    BY DEF IInv, StopRule, LatchedIsReal
  <1>4. StopRule'
    BY <1>2, <1>3 DEF IInv, StopRule
  <1>5. LatchedIsReal'
    BY DEF LatchedIsReal
  <1> QED
    BY <1>1, <1>4, <1>5 DEF IInv, RingInv

(* A completion more, a request less.                                      *)
LEMMA HwTransmitInv ==
    ASSUME TypeOK, IInv, HwTransmit
    PROVE  IInv'
  <1>1. RingInv' /\ txrqst' \subseteq txrqst /\ pend \subseteq pend'
    BY IInvParts, HwTransmitRing
  <1>2. StopRule' /\ LatchedIsReal'
    BY <1>1 DEF HwTransmit, IInv, StopRule, LatchedIsReal, Polling
  <1> QED
    BY <1>1, <1>2 DEF IInv, RingInv

(* What the ISR, the other causes and the other polls do leaves the ring   *)
(* and the completions alone.                                              *)
LEMMA OtherInv ==
    ASSUME TypeOK, IInv, IsrTx \/ PollOther \/ HwOther \/ UNCHANGED vars
    PROVE  IInv'
  <1>1. UNCHANGED txVars
    BY DEF IsrTx, PollOther, HwOther, vars
  <1>2. OneLap' /\ Owed' = Owed /\ Loaded' = Loaded
    BY <1>1 DEF IInv, OneLap, Distance, Owed, Loaded, txVars
  <1>3. \A c \in TxObjs : c \in pend' <=> c \in pend
    BY DEF IsrTx, Isr, PollOther, HwOther, vars, irqVars
  <1>4. OldestFirst'
    BY <1>1, <1>2, <1>3, TxObjFacts DEF IInv, OldestFirst, txVars
  <1>5. Contents'
    BY <1>1, <1>2 DEF IInv, Contents, txVars
  <1>6. StopRule' /\ LatchedIsReal'
    <2>1. CASE IsrTx
      BY <1>1, <2>1, TxObjFacts
      DEF IsrTx, Isr, IntReg, IInv, StopRule, LatchedIsReal, Polling, TypeOK,
          IrqTypeOK, txVars
    <2>2. CASE PollOther
      BY <1>1, <2>2
      DEF PollOther, PollComplete, IInv, StopRule, LatchedIsReal, Polling, txVars
    <2>3. CASE HwOther \/ UNCHANGED vars
      BY <1>1, <1>3, <2>3
      DEF HwOther, vars, irqVars, IInv, StopRule, LatchedIsReal, Polling, txVars
    <2> QED
      BY <2>1, <2>2, <2>3
  <1> QED
    BY <1>2, <1>4, <1>5, <1>6 DEF IInv

LEMMA NextInv == TypeOK /\ IInv /\ [Next]_vars => IInv'
  BY StartXmitInv, FinishXmitInv, PollTxBeginInv, EchoOneInv, PollTxEndInv,
     HwTransmitInv, OtherInv DEF Next

(* The objects in flight never straddle the end of the ring, the oldest    *)
(* are the ones already sent, and the queue is stopped exactly while a     *)
(* wrapped lap is being echoed.                                            *)
THEOREM Invariance == Spec => []IInv
  BY InitType, NextType, InitInv, NextInv, PTL DEF Spec

(***************************************************************************)
(* What the driver promises.                                               *)
(***************************************************************************)

(* start_xmit never overwrites a frame that is still to be sent, or one    *)
(* whose echo is owed, whatever the ring size and the counter width.       *)
THEOREM NeverOverwrites == Spec => []NextSlotFree
  <1>1. TypeOK /\ IInv => NextSlotFree
    <2> SUFFICES ASSUME TypeOK, IInv, ~stopped, xmit = NoFrame
                 PROVE  /\ Mask(txNext) \notin txrqst
                        /\ ram[Mask(txNext)] = NoFrame
                        /\ echo[Mask(txNext)] = NoFrame
      BY DEF NextSlotFree
    <2>1. \A s \in Owed : s < Mask(txNext)
      BY NextAbove DEF IInv, StopRule
    <2>2. Mask(txNext) \notin Owed /\ Loaded = Owed /\ Mask(txNext) \in Slots
      BY <2>1, OwedSlots, NumAssumption DEF Slots, Loaded
    <2> QED
      BY <2>2 DEF IInv, OldestFirst, Contents
  <1> QED
    BY <1>1, TypeCorrect, Invariance, PTL

(* The echo handed back is the frame that went out.                        *)
THEOREM EchoIsOwn == Spec => []EchoMatches
  <1>1. IInv => EchoMatches
    BY DEF IInv, Contents, EchoMatches
  <1> QED
    BY <1>1, Invariance, PTL

(* A stopped queue always has a completion coming, or pending, or being    *)
(* served, and the controller is masked only while a poll is due.          *)
THEOREM NeverStuck == Spec => []NoLostWakeup
  <1>1. TypeOK /\ IInv => NoLostWakeup
    <2> SUFFICES ASSUME TypeOK, IInv, stopped
                 PROVE  /\ txrqst # {} \/ pend \intersect TxObjs # {} \/ napi = "tx"
                        /\ irqEnabled \/ napi # "idle"
      BY DEF NoLostWakeup
    <2>1. ASSUME napi # "tx"
          PROVE  txrqst # {} \/ pend \intersect TxObjs # {}
      <3>1. Mask(txEcho) \in Slots /\ Mask(txNext) = 0 /\ txNext # txEcho
        BY <2>1, MaskFacts DEF IInv, StopRule, TypeOK, TxTypeOK
      <3>2. Mask(txEcho) \in Loaded
        BY <3>1, NumAssumption DEF Owed, Loaded, Slots
      <3> QED
        BY <3>1, <3>2, TxObjFacts DEF IInv, OldestFirst
    <2> QED
      BY <2>1 DEF IInv, LatchedIsReal
  <1> QED
    BY <1>1, TypeCorrect, Invariance, PTL

(***************************************************************************)
(* The objects in flight as a FIFO.                                        *)
(***************************************************************************)

(* A function on 1 .. n is a sequence of length n.                         *)
LEMMA BuiltSeq ==
    ASSUME NEW S, NEW n \in Nat, NEW f \in [1 .. n -> S]
    PROVE  f \in Seq(S) /\ Len(f) = n
  OBVIOUS

(* Functions that agree everywhere are equal.                              *)
LEMMA BuiltEqual ==
    ASSUME NEW D, NEW S, NEW f \in [D -> S], NEW g \in [D -> S],
           \A i \in D : g[i] = f[i]
    PROVE  g = f
  OBVIOUS

(* One entry more at the end.                                              *)
LEMMA BuiltAppend ==
    ASSUME NEW S, NEW n \in Nat, NEW f \in [1 .. n -> S], NEW g \in [1 .. n + 1 -> S],
           \A i \in 1 .. n : g[i] = f[i]
    PROVE  g = Append(f, g[n + 1])
  <1>1. f \in Seq(S) /\ Len(f) = n
    BY BuiltSeq
  <1> QED
    BY <1>1

(* One entry less at the front.                                            *)
LEMMA BuiltTail ==
    ASSUME NEW S, NEW n \in Nat, NEW f \in [1 .. n + 1 -> S], NEW g \in [1 .. n -> S],
           \A i \in 1 .. n : g[i] = f[i + 1]
    PROVE  f # <<>> /\ Head(f) = f[1] /\ Tail(f) = g
  <1>1. f \in Seq(S) /\ Len(f) = n + 1
    BY BuiltSeq
  <1>2. f # <<>>
    BY <1>1
  <1>3. /\ Tail(f) \in Seq(S) /\ Len(Tail(f)) = n
        /\ \A i \in 1 .. n : Tail(f)[i] = f[i + 1]
    BY <1>1, <1>2, HeadTailProperties
  <1>4. g \in Seq(S) /\ Len(g) = n
    BY BuiltSeq
  <1>5. Tail(f) = g
    BY <1>3, <1>4, SeqEqual
  <1> QED
    BY <1>1, <1>2, <1>5

(* Counting on from c does not wrap as long as the remainder does not.     *)
LEMMA MaskPlus ==
    ASSUME NEW c \in Nat, NEW j \in Nat, Mask(c) + j < TxNum
    PROVE  Mask(c + j) = Mask(c) + j
  <1> DEFINE q == c \div TxNum
             p == (c + j) \div TxNum
  <1>1. TxNum \in Nat \ {0} /\ c + j \in Nat
    BY NumAssumption
  <1>2. q \in Nat /\ Mask(c) \in 0 .. TxNum - 1 /\ c = TxNum * q + Mask(c)
    BY <1>1, DivMod DEF Mask
  <1>3. /\ p \in Nat /\ Mask(c + j) \in 0 .. TxNum - 1
        /\ c + j = TxNum * p + Mask(c + j)
    BY <1>1, DivMod DEF Mask
  <1> HIDE DEF q, p
  <1>4. Mask(c) + j \in 0 .. TxNum - 1
    BY <1>1, <1>2
  <1>5. TxNum * q \in Int /\ TxNum * p \in Int
    BY <1>1, <1>2, <1>3
  <1>6. TxNum * q + (Mask(c) + j) = TxNum * p + Mask(c + j)
    BY <1>1, <1>2, <1>3, <1>5
  <1> QED
    BY <1>1, <1>2, <1>3, <1>4, <1>6, UniqueRemainder

(* The lowest number of an interval.                                       *)
LEMMA MinInterval ==
    ASSUME NEW a \in Int, NEW b \in Int, a <= b
    PROVE  Min(a .. b) = a
  <1>1. a \in a .. b /\ \A y \in a .. b : a <= y
    OBVIOUS
  <1>2. Min(a .. b) \in a .. b /\ \A y \in a .. b : Min(a .. b) <= y
    BY <1>1 DEF Min
  <1> QED
    BY <1>1, <1>2

(* The k oldest objects in flight have been sent, the others are           *)
(* requested.                                                              *)
Boundary(k) ==
    /\ k \in 0 .. InFlight
    /\ txrqst = (Mask(txEcho) + k) .. (Mask(txEcho) + InFlight - 1)

OnTop == \E k \in Nat : Boundary(k)

(* What is in flight lies in one lap, and start_xmit takes the next slot.  *)
FlightOK ==
    /\ InFlight \in Nat /\ Mask(txEcho) \in Slots /\ txEcho \in Nat
    /\ Mask(txEcho) + InFlight <= TxNum
    /\ ~stopped /\ xmit = NoFrame =>
           Mask(txNext) = Mask(txEcho) + InFlight /\ Mask(txNext) < TxNum

LEMMA FlightFacts == TypeOK /\ IInv => FlightOK
  <1> SUFFICES ASSUME TypeOK, IInv PROVE FlightOK
    OBVIOUS
  <1> DEFINE n == Mask(txNext)
             e == Mask(txEcho)
  <1>1. /\ txNext \in 0 .. Width - 1 /\ txEcho \in 0 .. Width - 1
        /\ n \in 0 .. TxNum - 1 /\ e \in 0 .. TxNum - 1
        /\ TxNum \in Nat \ {0} /\ Width \in Nat
    BY MaskFacts, NumAssumption, WidthAssumption DEF TypeOK, TxTypeOK, Slots
  <1>2. \/ txNext = txEcho /\ n = e /\ Distance = 0
        \/ txNext # txEcho /\ n > e /\ Distance = n - e
        \/ txNext # txEcho /\ n = 0 /\ Distance = TxNum - e
    BY <1>1 DEF IInv, OneLap, Distance
  <1>3. ~stopped => n # 0 \/ txNext = txEcho
    BY DEF IInv, StopRule
  <1>4. xmit # NoFrame => ~stopped
    BY DEF IInv, StopRule
  <1> HIDE DEF n, e
  <1>5. InFlight \in Nat /\ e + InFlight <= TxNum
    BY <1>1, <1>2, <1>3, <1>4 DEF InFlight
  <1>6. ~stopped /\ xmit = NoFrame => n = e + InFlight
    BY <1>1, <1>2, <1>3 DEF InFlight
  <1> QED
    BY <1>1, <1>5, <1>6 DEF n, e, FlightOK, Slots

(* The boundary is what SentCount counts.                                  *)
LEMMA BoundaryCount ==
    \A k \in Nat : FlightOK /\ Boundary(k) => SentCount = k
  <1> SUFFICES ASSUME NEW k \in Nat, FlightOK, Boundary(k) PROVE SentCount = k
    OBVIOUS
  <1>1. Mask(txEcho) \in Nat /\ InFlight \in Nat
    BY NumAssumption DEF FlightOK, Slots
  <1>2. CASE k = InFlight
    BY <1>1, <1>2 DEF Boundary, SentCount
  <1>3. CASE k < InFlight
    <2>1. txrqst # {} /\ Min(txrqst) = Mask(txEcho) + k
      BY <1>1, <1>3, MinInterval DEF Boundary
    <2> QED
      BY <1>1, <2>1 DEF SentCount
  <1> QED
    BY <1>1, <1>2, <1>3 DEF Boundary

(* Where the frames in flight lie.                                         *)
LEMMA FramesAt ==
    TypeOK /\ FlightOK =>
        \A k, n \in Nat : k + n <= InFlight =>
            /\ FramesAfter(k, n) \in [1 .. n -> Frames \union {NoFrame}]
            /\ \A i \in 1 .. n : /\ Mask(txEcho) + k + i - 1 \in Slots
                                 /\ FramesAfter(k, n)[i] = ram[Mask(txEcho) + k + i - 1]
  <1> SUFFICES ASSUME TypeOK, FlightOK, NEW k \in Nat, NEW n \in Nat, k + n <= InFlight
               PROVE  /\ FramesAfter(k, n) \in [1 .. n -> Frames \union {NoFrame}]
                      /\ \A i \in 1 .. n :
                             /\ Mask(txEcho) + k + i - 1 \in Slots
                             /\ FramesAfter(k, n)[i] = ram[Mask(txEcho) + k + i - 1]
    OBVIOUS
  <1>1. /\ txEcho \in Nat /\ Mask(txEcho) \in Nat /\ InFlight \in Nat /\ TxNum \in Nat
        /\ Mask(txEcho) + InFlight <= TxNum
    BY NumAssumption DEF FlightOK, Slots
  <1>2. ASSUME NEW i \in 1 .. n
        PROVE  /\ Mask(txEcho) + k + i - 1 \in Slots
               /\ Mask(txEcho + k + i - 1) = Mask(txEcho) + k + i - 1
    <2>1. k + i - 1 \in Nat /\ Mask(txEcho) + (k + i - 1) < TxNum
      BY <1>1
    <2>2. Mask(txEcho + (k + i - 1)) = Mask(txEcho) + (k + i - 1)
      BY <1>1, <2>1, MaskPlus
    <2>3. txEcho + (k + i - 1) = txEcho + k + i - 1
      BY <1>1
    <2> QED
      BY <1>1, <2>1, <2>2, <2>3 DEF Slots
  <1> QED
    BY <1>2 DEF FramesAfter, TypeOK, TxTypeOK

(* The link's two queues, as OkiTx maps them.                              *)
LinkSent == FramesAfter(0, SentCount)
LinkWaiting == FramesAfter(SentCount, InFlight - SentCount)

AnyFrame == Frames \union {NoFrame}

(* k objects sent, the others requested: what the two queues hold.         *)
LinkHolds(k) ==
    /\ LinkSent \in [1 .. k -> AnyFrame]
    /\ \A i \in 1 .. k : /\ Mask(txEcho) + i - 1 \in Slots
                         /\ LinkSent[i] = ram[Mask(txEcho) + i - 1]
    /\ LinkWaiting \in [1 .. InFlight - k -> AnyFrame]
    /\ \A i \in 1 .. InFlight - k :
           /\ Mask(txEcho) + k + i - 1 \in Slots
           /\ LinkWaiting[i] = ram[Mask(txEcho) + k + i - 1]

LEMMA LinkState ==
    \A k \in Nat : TypeOK /\ FlightOK /\ Boundary(k) => LinkHolds(k)
  <1> SUFFICES ASSUME NEW k \in Nat, TypeOK, FlightOK, Boundary(k)
               PROVE  LinkHolds(k)
    OBVIOUS
  <1>1. SentCount = k /\ InFlight \in Nat /\ k <= InFlight /\ Mask(txEcho) \in Nat
    BY BoundaryCount, NumAssumption DEF FlightOK, Boundary, Slots
  <1>2. /\ LinkSent \in [1 .. k -> AnyFrame]
        /\ \A i \in 1 .. k : /\ Mask(txEcho) + 0 + i - 1 \in Slots
                             /\ LinkSent[i] = ram[Mask(txEcho) + 0 + i - 1]
    <2>1. 0 \in Nat /\ 0 + k <= InFlight
      BY <1>1
    <2>2. LinkSent = FramesAfter(0, k)
      BY <1>1 DEF LinkSent
    <2> QED
      BY <2>1, <2>2, FramesAt DEF AnyFrame
  <1>3. InFlight - k \in Nat /\ k + (InFlight - k) <= InFlight
    BY <1>1
  <1>4. /\ LinkWaiting \in [1 .. InFlight - k -> AnyFrame]
        /\ \A i \in 1 .. InFlight - k :
               /\ Mask(txEcho) + k + i - 1 \in Slots
               /\ LinkWaiting[i] = ram[Mask(txEcho) + k + i - 1]
    BY <1>1, <1>3, FramesAt DEF LinkWaiting, AnyFrame
  <1>5. \A i \in 1 .. k : Mask(txEcho) + 0 + i - 1 = Mask(txEcho) + i - 1
    BY <1>1
  <1> QED
    BY <1>2, <1>4, <1>5 DEF LinkHolds

(* The same for the state after a step.                                    *)
LEMMA LinkStateNext ==
    (\A k \in Nat : TypeOK /\ FlightOK /\ Boundary(k) => LinkHolds(k))'
  BY LinkState, PTL

(* start_xmit appends to what waits for the bus.                           *)
LEMMA StartXmitLink ==
    ASSUME TypeOK, FlightOK, TypeOK', FlightOK', NEW k \in Nat, Boundary(k),
           NEW f \in Frames, StartXmit(f)
    PROVE  Boundary(k)' /\ Link!Accept(f)
  <1> DEFINE n == InFlight
             e == Mask(txEcho)
  <1> USE DEF StartXmit, WriteObject
  <1>1. /\ n \in Nat /\ e \in Nat /\ TxNum \in Nat /\ Mask(txNext) = e + n
        /\ e + n < TxNum /\ k <= n
    BY NumAssumption DEF FlightOK, Slots, Boundary
  <1>2. n' = n + 1 /\ e' = e
    <2>1. Distance \in Int
      BY WidthAssumption DEF Distance, TypeOK, TxTypeOK
    <2> QED
      BY <2>1, FrameAssumption DEF InFlight, Distance
  <1>3. Boundary(k)'
    <2>1. txrqst' = (e + k) .. (e + n)
      BY <1>1 DEF Boundary
    <2> QED
      BY <1>1, <1>2, <2>1 DEF Boundary
  <1>4. LinkHolds(k) /\ LinkHolds(k)'
    BY <1>3, LinkState, LinkStateNext
  <1>5. \A s \in Slots : ram'[s] = IF s = e + n THEN f ELSE ram[s]
    BY <1>1 DEF TypeOK, TxTypeOK
  <1> HIDE DEF n, e
  <1>6. /\ LinkSent \in [1 .. k -> AnyFrame] /\ LinkSent' \in [1 .. k -> AnyFrame]
        /\ LinkWaiting \in [1 .. n - k -> AnyFrame]
        /\ LinkWaiting' \in [1 .. n - k + 1 -> AnyFrame]
    <2>1. (n + 1) - k = n - k + 1
      BY <1>1
    <2> QED
      BY <1>2, <1>4, <2>1 DEF LinkHolds, n
  <1>7. LinkSent' = LinkSent
    <2>1. ASSUME NEW i \in 1 .. k PROVE LinkSent'[i] = LinkSent[i]
      <3>1. e + i - 1 # e + n /\ e + i - 1 \in Slots /\ LinkSent[i] = ram[e + i - 1]
        BY <1>1, <1>4 DEF LinkHolds, e
      <3>2. LinkSent'[i] = ram'[e' + i - 1]
        BY <1>4 DEF LinkHolds, e
      <3> QED
        BY <1>2, <1>5, <3>1, <3>2
    <2> QED
      BY <1>6, <2>1, BuiltEqual
  <1>8. \A i \in 1 .. n - k : LinkWaiting'[i] = LinkWaiting[i]
    <2> SUFFICES ASSUME NEW i \in 1 .. n - k PROVE LinkWaiting'[i] = LinkWaiting[i]
      OBVIOUS
    <2>1. e + k + i - 1 # e + n /\ i \in 1 .. n' - k
      BY <1>1, <1>2
    <2>2. e + k + i - 1 \in Slots /\ LinkWaiting[i] = ram[e + k + i - 1]
      BY <1>4 DEF LinkHolds, e, n
    <2>3. LinkWaiting'[i] = ram'[e' + k + i - 1]
      BY <1>4, <2>1 DEF LinkHolds, e, n
    <2> QED
      BY <1>2, <1>5, <2>1, <2>2, <2>3
  <1>9. LinkWaiting'[n - k + 1] = f
    <2>1. n - k + 1 \in 1 .. n' - k /\ e + k + (n - k + 1) - 1 = e + n
      BY <1>1, <1>2
    <2>2. LinkWaiting'[n - k + 1] = ram'[e' + k + (n - k + 1) - 1]
      BY <1>4, <2>1 DEF LinkHolds, e, n
    <2>3. e + n \in Slots
      BY <1>1 DEF Slots
    <2> QED
      BY <1>2, <1>5, <2>1, <2>2, <2>3
  <1>10. n - k \in Nat
    BY <1>1
  <1>11. LinkWaiting' = Append(LinkWaiting, f)
    BY <1>6, <1>8, <1>9, <1>10, BuiltAppend
  <1>12. Len(LinkWaiting) + Len(LinkSent) < TxNum
    <2>1. Len(LinkWaiting) = n - k /\ Len(LinkSent) = k
      BY <1>6, <1>10, BuiltSeq
    <2> QED
      BY <1>1, <2>1
  <1> QED
    BY <1>3, <1>7, <1>11, <1>12 DEF Link!Accept, LinkSent, LinkWaiting

(* The lowest requested object is what waits longest.                      *)
LEMMA HwTransmitLink ==
    ASSUME TypeOK, FlightOK, TypeOK', FlightOK', NEW k \in Nat, Boundary(k),
           HwTransmit
    PROVE  Boundary(k + 1)' /\ Link!Transmit
  <1> DEFINE n == InFlight
             e == Mask(txEcho)
  <1>1. n \in Nat /\ e \in Nat /\ k <= n
    BY NumAssumption DEF FlightOK, Slots, Boundary
  <1>2. n' = n /\ e' = e /\ ram' = ram
    BY DEF HwTransmit, InFlight, Distance
  <1>3. k < n /\ txrqst' = (e + (k + 1)) .. (e + n - 1)
    BY <1>1 DEF HwTransmit, Boundary
  <1>4. Boundary(k + 1)'
    BY <1>1, <1>2, <1>3 DEF Boundary
  <1>5. LinkHolds(k) /\ LinkHolds(k + 1)'
    BY <1>1, <1>4, LinkState, LinkStateNext
  <1> HIDE DEF n, e
  <1>6. n - (k + 1) \in Nat /\ n - k = (n - (k + 1)) + 1
    BY <1>1, <1>3
  <1>7. /\ LinkSent \in [1 .. k -> AnyFrame] /\ LinkSent' \in [1 .. k + 1 -> AnyFrame]
        /\ LinkWaiting \in [1 .. (n - (k + 1)) + 1 -> AnyFrame]
        /\ LinkWaiting' \in [1 .. n - (k + 1) -> AnyFrame]
    BY <1>2, <1>5, <1>6 DEF LinkHolds, n
  <1>8. \A i \in 1 .. k : LinkSent'[i] = LinkSent[i]
    <2> SUFFICES ASSUME NEW i \in 1 .. k PROVE LinkSent'[i] = LinkSent[i]
      OBVIOUS
    <2>1. i \in 1 .. k + 1
      OBVIOUS
    <2> QED
      BY <1>2, <1>5, <2>1 DEF LinkHolds, e
  <1>9. LinkSent'[k + 1] = LinkWaiting[1]
    <2>1. k + 1 \in 1 .. k + 1 /\ 1 \in 1 .. n - k /\ e + k + 1 - 1 = e + (k + 1) - 1
      BY <1>1, <1>3
    <2>2. LinkWaiting[1] = ram[e + k + 1 - 1]
      BY <1>5, <2>1 DEF LinkHolds, e, n
    <2>3. LinkSent'[k + 1] = ram'[e' + (k + 1) - 1]
      BY <1>5, <2>1 DEF LinkHolds, e, n
    <2> QED
      BY <1>2, <2>1, <2>2, <2>3
  <1>10. \A i \in 1 .. n - (k + 1) : LinkWaiting'[i] = LinkWaiting[i + 1]
    <2> SUFFICES ASSUME NEW i \in 1 .. n - (k + 1)
                 PROVE  LinkWaiting'[i] = LinkWaiting[i + 1]
      OBVIOUS
    <2>1. i + 1 \in 1 .. n - k /\ e + k + (i + 1) - 1 = e + (k + 1) + i - 1
      BY <1>1
    <2>2. LinkWaiting[i + 1] = ram[e + k + (i + 1) - 1]
      BY <1>5, <2>1 DEF LinkHolds, e, n
    <2>3. i \in 1 .. n' - (k + 1)
      BY <1>2
    <2>4. LinkWaiting'[i] = ram'[e' + (k + 1) + i - 1]
      BY <1>5, <2>3 DEF LinkHolds, e, n
    <2> QED
      BY <1>2, <2>1, <2>2, <2>4
  <1>11. /\ LinkWaiting # <<>> /\ Head(LinkWaiting) = LinkWaiting[1]
         /\ LinkWaiting' = Tail(LinkWaiting)
    BY <1>6, <1>7, <1>10, BuiltTail
  <1>12. LinkSent' = Append(LinkSent, Head(LinkWaiting))
    BY <1>7, <1>8, <1>9, <1>11, BuiltAppend
  <1> QED
    BY <1>4, <1>11, <1>12 DEF Link!Transmit, LinkSent, LinkWaiting

(* do_tx confirms what was sent first.                                     *)
LEMMA EchoOneLink ==
    ASSUME TypeOK, FlightOK, TypeOK', FlightOK', OneLap, xmit = NoFrame,
           NEW k \in Nat, Boundary(k), EchoOne
    PROVE  \E j \in Nat : Boundary(j)' /\ Link!Confirm
  <1> DEFINE n == InFlight
             e == Mask(txEcho)
  <1> USE DEF EchoOne, InvalObject, Sent
  <1>1. n \in Nat /\ e \in Nat /\ k <= n /\ e + n <= TxNum /\ TxNum \in Nat
    BY NumAssumption DEF FlightOK, Slots, Boundary
  <1>2. n > 0 /\ n' = n - 1
    <2>1. /\ txNext \in 0 .. Width - 1 /\ txEcho \in 0 .. Width - 1 /\ Width \in Nat
          /\ txNext' = txNext /\ txEcho' = Inc(txEcho) /\ xmit' = xmit
          /\ txNext # txEcho
      BY WidthAssumption DEF TypeOK, TxTypeOK
    <2>2. Distance \in Nat \ {0} /\ Distance' = Distance - 1
      BY <2>1 DEF Distance, Inc
    <2> QED
      BY <2>1, <2>2 DEF InFlight
  <1>3. k > 0
    BY <1>1, <1>2 DEF Boundary
  <1>4. e' = e + 1 \/ n = 1
    <2>1. e' = IF e = TxNum - 1 THEN 0 ELSE e + 1
      BY MaskFacts DEF TypeOK, TxTypeOK
    <2> QED
      BY <1>1, <1>2, <2>1
  <1>5. Boundary(k - 1)' /\ k - 1 \in Nat
    <2>1. CASE e' = e + 1
      BY <1>1, <1>2, <1>3, <2>1 DEF Boundary
    <2>2. CASE n = 1
      <3>1. txrqst = {} /\ e' \in Nat
        BY <1>1, <1>2, <2>2, NumAssumption DEF Boundary, FlightOK, Slots
      <3> QED
        BY <1>1, <1>2, <1>3, <2>2, <3>1 DEF Boundary
    <2> QED
      BY <1>4, <2>1, <2>2
  <1>6. LinkHolds(k) /\ LinkHolds(k - 1)'
    BY <1>5, LinkState, LinkStateNext
  <1>7. \A s \in Slots : ram'[s] = IF s = e THEN NoFrame ELSE ram[s]
    BY DEF TypeOK, TxTypeOK, FlightOK
  <1> HIDE DEF n, e, EchoOne, InvalObject, Sent
  <1>8. (n - 1) - (k - 1) = n - k /\ n - k \in Nat
    BY <1>1, <1>2
  <1>9. /\ LinkSent \in [1 .. (k - 1) + 1 -> AnyFrame]
        /\ LinkSent' \in [1 .. k - 1 -> AnyFrame]
        /\ LinkWaiting \in [1 .. n - k -> AnyFrame]
        /\ LinkWaiting' \in [1 .. n - k -> AnyFrame]
    <2>1. n' - (k - 1) = n - k /\ (k - 1) + 1 = k
      BY <1>1, <1>2, <1>8
    <2> QED
      BY <1>6, <2>1 DEF LinkHolds, n
  <1>10. \A i \in 1 .. k - 1 : LinkSent'[i] = LinkSent[i + 1]
    <2> SUFFICES ASSUME NEW i \in 1 .. k - 1 PROVE LinkSent'[i] = LinkSent[i + 1]
      OBVIOUS
    <2>1. /\ e' = e + 1 /\ i + 1 \in 1 .. k
          /\ e + (i + 1) - 1 # e /\ (e + 1) + i - 1 = e + (i + 1) - 1
      BY <1>1, <1>4
    <2>2. e + (i + 1) - 1 \in Slots /\ LinkSent[i + 1] = ram[e + (i + 1) - 1]
      BY <1>6, <2>1 DEF LinkHolds, e
    <2>3. LinkSent'[i] = ram'[e' + i - 1]
      BY <1>6 DEF LinkHolds, e
    <2> QED
      BY <1>7, <2>1, <2>2, <2>3
  <1>11. LinkSent # <<>> /\ LinkSent' = Tail(LinkSent)
    BY <1>5, <1>9, <1>10, BuiltTail
  <1>12. LinkWaiting' = LinkWaiting
    <2>1. ASSUME NEW i \in 1 .. n - k PROVE LinkWaiting'[i] = LinkWaiting[i]
      <3>1. /\ e' = e + 1 /\ i \in 1 .. n' - (k - 1)
            /\ e + k + i - 1 # e /\ (e + 1) + (k - 1) + i - 1 = e + k + i - 1
        BY <1>1, <1>2, <1>3, <1>4, <1>8
      <3>2. e + k + i - 1 \in Slots /\ LinkWaiting[i] = ram[e + k + i - 1]
        BY <1>6 DEF LinkHolds, e, n
      <3>3. LinkWaiting'[i] = ram'[e' + (k - 1) + i - 1]
        BY <1>6, <3>1 DEF LinkHolds, e, n
      <3>4. e' + (k - 1) + i - 1 = e + k + i - 1
        BY <3>1
      <3> QED
        BY <1>7, <3>1, <3>2, <3>3, <3>4
    <2>2. \A i \in 1 .. n - k : LinkWaiting'[i] = LinkWaiting[i]
      BY <2>1
    <2> DEFINE D == 1 .. n - k
    <2>3. /\ LinkWaiting \in [D -> AnyFrame] /\ LinkWaiting' \in [D -> AnyFrame]
          /\ \A i \in D : LinkWaiting'[i] = LinkWaiting[i]
      BY <1>9, <2>2
    <2> HIDE DEF D
    <2> QED
      BY <2>3, BuiltEqual
  <1> QED
    BY <1>5, <1>11, <1>12 DEF Link!Confirm, LinkSent, LinkWaiting

(* The other steps leave the link alone.                                   *)
LEMMA OtherLink ==
    ASSUME TypeOK, IInv, NEW k \in Nat, Boundary(k),
           \/ FinishXmit \/ IsrTx \/ PollTxBegin \/ PollTxEnd
           \/ PollOther \/ HwOther \/ UNCHANGED vars
    PROVE  Boundary(k)' /\ UNCHANGED <<LinkSent, LinkWaiting>>
  <1>1. /\ UNCHANGED <<txEcho, txrqst, ram>>
        /\ FinishXmit \/ UNCHANGED <<txNext, xmit>>
    BY DEF FinishXmit, IsrTx, PollTxBegin, PollTxEnd, PollOther, HwOther, vars, txVars
  <1>2. InFlight' = InFlight
    <2>1. CASE FinishXmit
      <3>1. /\ txNext \in 0 .. Width - 1 /\ txEcho \in 0 .. Width - 1 /\ Width \in Nat
            /\ txNext' = Inc(txNext) /\ txEcho' = txEcho
            /\ xmit # NoFrame /\ xmit' = NoFrame
        BY <1>1, <2>1, WidthAssumption DEF FinishXmit, TypeOK, TxTypeOK
      <3>2. ~stopped /\ (txNext = txEcho \/ Mask(txNext) # 0)
        BY <2>1 DEF IInv, StopRule, FinishXmit
      <3>3. Distance < Width - 1
        BY <3>1, <3>2, MaskFacts, NumAssumption, WidthAssumption
        DEF IInv, OneLap, Distance, Slots
      <3>4. Distance' = Distance + 1
        BY <3>1, <3>3 DEF Distance, Inc
      <3>5. Distance \in Nat
        BY <3>1 DEF Distance
      <3> QED
        BY <3>1, <3>4, <3>5 DEF InFlight
    <2>2. CASE UNCHANGED <<txNext, xmit>>
      BY <1>1, <2>2 DEF InFlight, Distance
    <2> QED
      BY <1>1, <2>1, <2>2
  <1> QED
    BY <1>1, <1>2 DEF Boundary, LinkSent, LinkWaiting, FramesAfter, SentCount

LEMMA InitOnTop == Init => OnTop
  <1> SUFFICES ASSUME Init PROVE OnTop
    OBVIOUS
  <1>1. InFlight = 0 /\ txrqst = {} /\ Mask(txEcho) \in Nat
    BY MaskFacts, NumAssumption, WidthAssumption
    DEF Init, TxInit, InFlight, Distance, Slots
  <1>2. Boundary(0)
    BY <1>1 DEF Boundary
  <1> QED
    BY <1>2 DEF OnTop

LEMMA NextOnTop ==
    ASSUME TypeOK, IInv, TypeOK', IInv', OnTop, [Next]_vars
    PROVE  OnTop' /\ [Link!Next]_(Link!vars)
  <1>1. FlightOK /\ FlightOK'
    <2>1. (TypeOK /\ IInv => FlightOK)'
      BY FlightFacts, PTL
    <2> QED
      BY <2>1, FlightFacts
  <1>2. PICK k \in Nat : Boundary(k)
    BY DEF OnTop
  <1>3. ASSUME NEW f \in Frames, StartXmit(f)
        PROVE  OnTop' /\ Link!Next
    BY <1>1, <1>2, <1>3, StartXmitLink DEF OnTop, Link!Next
  <1>4. CASE HwTransmit
    <2>1. Boundary(k + 1)' /\ Link!Transmit /\ k + 1 \in Nat
      BY <1>1, <1>2, <1>4, HwTransmitLink
    <2> QED
      BY <2>1 DEF OnTop, Link!Next
  <1>5. CASE EchoOne
    <2>1. OneLap /\ xmit = NoFrame
      BY <1>5 DEF IInv, StopRule, EchoOne, Polling
    <2> QED
      BY <1>1, <1>2, <1>5, <2>1, EchoOneLink DEF OnTop, Link!Next
  <1>6. CASE \/ FinishXmit \/ IsrTx \/ PollTxBegin \/ PollTxEnd
             \/ PollOther \/ HwOther \/ UNCHANGED vars
    <2>1. Boundary(k)' /\ UNCHANGED <<LinkSent, LinkWaiting>>
      BY <1>2, <1>6, OtherLink
    <2>2. UNCHANGED (Link!vars)
      BY <2>1 DEF Link!vars, LinkSent, LinkWaiting
    <2> QED
      BY <2>1, <2>2 DEF OnTop
  <1> QED
    BY <1>3, <1>4, <1>5, <1>6 DEF Next

LEMMA InitLink == Init => Link!Init
  <1> SUFFICES ASSUME Init PROVE Link!Init
    OBVIOUS
  <1>1. InFlight = 0 /\ SentCount = 0
    BY DEF Init, TxInit, InFlight, Distance, SentCount
  <1>2. FramesAfter(0, 0) = <<>>
    BY DEF FramesAfter
  <1> QED
    BY <1>1, <1>2 DEF Link!Init

(* The transmit path is a bounded FIFO of frames: accepted by start_xmit,  *)
(* sent by the controller and confirmed by do_tx in one order, never more  *)
(* than there are transmit objects.                                        *)
THEOREM TransmitIsFifo == Spec => IsFifo
  <1>1. TypeOK /\ IInv /\ OnTop /\ [Next]_vars => OnTop' /\ [Link!Next]_(Link!vars)
    BY NextType, NextInv, NextOnTop
  <1> QED
    BY <1>1, InitType, NextType, InitInv, NextInv, InitOnTop, InitLink, PTL
    DEF Spec, IsFifo, Link!Spec

(***************************************************************************)
(* The ring in the life of the interface: types.                           *)
(***************************************************************************)

(* What the ring, the ISR and the polls do inside the life of the          *)
(* interface are steps of OkiTx.                                           *)
LEMMA RingStep ==
    ASSUME PollRx \/ PollTx \/ Xmit \/ IsrCan \/ HwSends \/ HwTraffic
    PROVE  Next /\ UNCHANGED canVars
  BY DEF PollRx, PollTx, Xmit, IsrCan, HwSends, HwTraffic, Next

LEMMA CanInitType == CanInit => CanTypeOK
  <1> SUFFICES ASSUME CanInit PROVE CanTypeOK
    OBVIOUS
  <1>1. TypeOK
    <2>1. 0 \in 0 .. Width - 1
      BY NumAssumption, WidthAssumption
    <2>2. ram \in [Slots -> Frames \union {NoFrame}]
          /\ echo \in [Slots -> Frames \union {NoFrame}]
      BY DEF CanInit, TxInit
    <2> QED
      BY <2>1, <2>2 DEF CanInit, TxInit, TypeOK, TxTypeOK, IrqTypeOK, NapiStates
  <1> QED
    BY <1>1 DEF CanInit, CanTypeOK, Lives, NapiOff

(* Every action keeps every variable in its range, and NAPI disabled as    *)
(* long as close and open hold it.                                         *)
LEMMA CanNextType == CanTypeOK /\ [CanNext]_allVars => CanTypeOK'
  <1> SUFFICES ASSUME CanTypeOK, [CanNext]_allVars PROVE CanTypeOK'
    OBVIOUS
  <1>1. CASE PollRx \/ PollTx \/ Xmit \/ IsrCan \/ HwSends \/ HwTraffic
    <2>1. TypeOK' /\ UNCHANGED canVars
      BY <1>1, RingStep, NextType DEF CanTypeOK
    <2>2. NapiOff => napi' = "scheduled"
      BY <1>1
      DEF PollRx, PollOther, PollTx, PollTxBegin, EchoOne, PollTxEnd, Xmit,
          StartXmit, FinishXmit, IsrCan, IsrTx, Isr, HwSends, HwTransmit,
          HwTraffic, HwOther, irqVars, CanTypeOK
    <2> QED
      BY <2>1, <2>2 DEF CanTypeOK, canVars, NapiOff
  <1>2. CASE \/ OpenBegin \/ OpenFails \/ OpenConfig \/ OpenDone
             \/ CloseQueue \/ CloseNapi \/ CloseStop \/ CloseEnd
    <2>1. 0 \in 0 .. Width - 1 /\ Status \in Causes
      BY NumAssumption, WidthAssumption DEF Causes
    <2>2. IrqTypeOK'
      BY <1>2, <2>1
      DEF OpenBegin, OpenFails, OpenConfig, OpenDone, CloseQueue, CloseNapi,
          CloseStop, CloseEnd, ConfigChip, StartDone, CanTypeOK, TypeOK,
          IrqTypeOK, NapiStates, irqVars
    <2>3. TxTypeOK'
      BY <1>2, <2>1
      DEF OpenBegin, OpenFails, OpenConfig, OpenDone, CloseQueue, CloseNapi,
          CloseStop, CloseEnd, ConfigChip, StartDone, CanTypeOK, TypeOK,
          TxTypeOK, txVars
    <2> QED
      BY <1>2, <2>2, <2>3
      DEF OpenBegin, OpenFails, OpenConfig, OpenDone, CloseQueue, CloseNapi,
          CloseStop, CloseEnd, ConfigChip, StartDone, CanTypeOK, TypeOK, Lives,
          NapiOff, irqVars
  <1>3. CASE PollStatus \/ SetRestart \/ RestartNow \/ RestartBegin \/ RestartDone
    <2>1. 0 \in 0 .. Width - 1 /\ Status \in Causes
      BY NumAssumption, WidthAssumption DEF Causes
    <2>2. IrqTypeOK'
      BY <1>3, <2>1
      DEF PollStatus, PollComplete, SetRestart, RestartNow, RestartBegin,
          RestartDone, ConfigChip, StartDone, CanTypeOK, TypeOK, IrqTypeOK,
          NapiStates, vars, irqVars
    <2>3. TxTypeOK'
      BY <1>3, <2>1
      DEF PollStatus, SetRestart, RestartNow, RestartBegin, RestartDone,
          ConfigChip, StartDone, CanTypeOK, TypeOK, TxTypeOK, vars, txVars
    <2> QED
      BY <1>3, <2>2, <2>3
      DEF PollStatus, PollComplete, BusOff, Boff, SetRestart, RestartNow,
          RestartBegin, RestartDone, ConfigChip, StartDone, CanTypeOK, TypeOK,
          NapiOff, vars, irqVars
  <1>4. CASE HwBusOff \/ HwRecovered \/ UNCHANGED allVars
    <2>1. Status \in Causes
      BY NumAssumption DEF Causes
    <2> QED
      BY <1>4, <2>1
      DEF HwBusOff, HwRecovered, allVars, canVars, vars, irqVars, txVars,
          CanTypeOK, TypeOK, IrqTypeOK, TxTypeOK, NapiOff
  <1> QED
    BY <1>1, <1>2, <1>3, <1>4 DEF CanNext

(* No history of open and close, bus-off and restart takes a variable out  *)
(* of its range, and NAPI runs only between open and close.                *)
THEOREM CanTypeCorrect == CanSpec => []CanTypeOK
  BY CanInitType, CanNextType, PTL DEF CanSpec

(***************************************************************************)
(* The ring in the life of the interface: the inductive invariant.         *)
(***************************************************************************)

(* No transmit object is requested, or holds an interrupt.                 *)
Silent == txrqst = {} /\ pend \intersect TxObjs = {}

NoEcho == \A s \in Slots : echo[s] = NoFrame

(* c_can_start between its two steps: the objects are cleared, the tx      *)
(* helper pointers are still the old ones.                                 *)
Starting == life = "configured" \/ restart

CanRing ==
    IF Starting
    THEN Silent /\ NoEcho /\ napi # "tx" /\ \A s \in Slots : ram[s] = NoFrame
    ELSE RingInv

(* The queue runs only with a free slot ahead; whoever is in start_xmit    *)
(* has the interface up and no other softirq inside.                       *)
CanStopRule ==
    /\ ~Starting /\ ~stopped => Mask(txNext) # 0 \/ txNext = txEcho
    /\ xmit # NoFrame => ~stopped /\ ~Polling /\ life = "up" /\ ~restart

(* A latched transmit cause that will be polled is a completion.           *)
CanLatched ==
    /\ napi = "scheduled" /\ ~NapiOff /\ irqstatus \in TxObjs => irqstatus \in pend
    /\ napi = "tx" /\ txNext # txEcho /\ Mask(txNext) = 0 /\ Mask(txEcho) = 0 =>
           0 \notin txrqst

(* Close drops the echoes.  Objects of a former life may still be sent     *)
(* until the next open clears them, but then no interrupt tells of it: the *)
(* controller is masked, or a late restart has cleared the objects before. *)
FormerLife ==
    /\ life \in {"down", "opening", "configured"} => NoEcho
    /\ life \in {"stopped", "down", "opening"} =>
           (irqEnabled \/ (life = "opening" /\ napi # "idle") => Silent)

CanInv == CanRing /\ CanStopRule /\ CanLatched /\ FormerLife

LEMMA CanInitInv == CanInit => CanInv
  <1> SUFFICES ASSUME CanInit PROVE CanInv
    OBVIOUS
  <1> USE DEF CanInit, TxInit
  <1>1. Owed = {} /\ Loaded = {} /\ OneLap
    BY DEF Owed, Loaded, OneLap
  <1>2. RingInv
    BY <1>1 DEF RingInv, OldestFirst, Contents
  <1>3. CanRing /\ CanStopRule /\ CanLatched
    BY <1>2 DEF CanRing, Starting, CanStopRule, CanLatched, NapiOff
  <1>4. FormerLife
    BY DEF FormerLife, NoEcho, Silent
  <1> QED
    BY <1>3, <1>4 DEF CanInv

(* Counters made equal, over cleared objects, make an empty ring.          *)
LEMMA EmptyRing ==
    ASSUME Silent', NoEcho', \A s \in Slots : ram'[s] = NoFrame,
           xmit' = NoFrame, txNext' = txEcho'
    PROVE  RingInv'
  <1>1. Owed' = {} /\ Loaded' = {} /\ OneLap'
    BY DEF Owed, Loaded, OneLap
  <1> QED
    BY <1>1, TxObjFacts
    DEF RingInv, OldestFirst, Contents, Silent, NoEcho

(* start_xmit, in an interface that is up.                                 *)
LEMMA CanXmitInv ==
    ASSUME CanTypeOK, CanInv, Xmit
    PROVE  CanInv'
  <1>1. TypeOK /\ UNCHANGED canVars
    BY DEF CanTypeOK, Xmit
  <1>2. CASE life = "up" /\ ~restart /\ \E f \in Frames : StartXmit(f)
    <2>1. PICK f \in Frames : StartXmit(f)
      BY <1>2
    <2>2. RingInv /\ ~Starting /\ ~stopped /\ ~Polling
          /\ (txNext = txEcho \/ Mask(txNext) # 0)
      BY <1>2, <2>1 DEF CanInv, CanRing, CanStopRule, Starting, StartXmit
    <2>3. RingInv' /\ TxObj(Mask(txNext)) \notin pend
      BY <1>1, <2>1, <2>2, StartXmitRing
    <2>4. ~Starting' /\ life' = "up" /\ ~restart'
      BY <1>1, <1>2 DEF Starting, canVars
    <2>5. CanStopRule' /\ CanLatched'
      BY <1>1, <2>1, <2>2, <2>3, <2>4
      DEF StartXmit, WriteObject, CanInv, CanStopRule, CanLatched, Polling,
          NapiOff, canVars
    <2> QED
      BY <2>3, <2>4, <2>5 DEF CanInv, CanRing, FormerLife
  <1>3. CASE FinishXmit
    <2>1. /\ ~stopped /\ ~Polling /\ life = "up" /\ ~restart /\ ~Starting
          /\ (txNext = txEcho \/ Mask(txNext) # 0)
      BY <1>3 DEF CanInv, CanStopRule, FinishXmit, Starting
    <2>2. RingInv' /\ txNext' # txEcho' /\ (stopped' <=> stopped \/ Mask(txNext') = 0)
      BY <1>1, <1>3, <2>1, FinishXmitRing DEF CanInv, CanRing
    <2>3. ~Starting' /\ life' = "up" /\ ~restart'
      BY <1>1, <2>1 DEF Starting, canVars
    <2>4. CanStopRule' /\ CanLatched'
      BY <1>1, <1>3, <2>1, <2>2, <2>3
      DEF FinishXmit, CanInv, CanStopRule, CanLatched, Polling, NapiOff,
          irqVars, canVars
    <2> QED
      BY <2>2, <2>3, <2>4 DEF CanInv, CanRing, FormerLife
  <1> QED
    BY <1>2, <1>3 DEF Xmit

(* do_tx is entered only for a completion, so never with the objects       *)
(* cleared.                                                                *)
LEMMA CanPollTxInv ==
    ASSUME CanTypeOK, CanInv, PollTx
    PROVE  CanInv'
  <1>1. TypeOK /\ UNCHANGED canVars /\ (NapiOff <=> NapiOff') /\ (Starting <=> Starting')
    BY DEF CanTypeOK, PollTx, canVars, NapiOff, Starting
  <1>2. CASE ~NapiOff /\ ~restart /\ PollTxBegin
    <2> USE DEF PollTxBegin, PollBegin, txVars
    <2>1. irqstatus \in TxObjs /\ irqstatus \in pend
      BY <1>2 DEF CanInv, CanLatched
    <2>2. ~Silent
      BY <2>1 DEF Silent
    <2>3. RingInv /\ ~Starting
      BY <2>2 DEF CanInv, CanRing
    <2>4. RingInv'
      BY <1>1, <1>2, <2>3, SameRing
    <2>5. 0 \notin txrqst
      BY <1>1, <2>1, <2>3, CompletionRing
    <2>6. napi' = "tx" /\ napi = "scheduled"
      BY <1>1, <1>2, TxObjFacts DEF TypeOK, IrqTypeOK
    <2>7. CanStopRule' /\ CanLatched'
      BY <1>1, <1>2, <2>5, <2>6 DEF CanInv, CanStopRule, CanLatched
    <2>8. FormerLife'
      BY <1>1, <1>2, <2>6 DEF CanInv, FormerLife, NoEcho, Silent, canVars
    <2> QED
      BY <1>1, <2>3, <2>4, <2>7, <2>8 DEF CanInv, CanRing
  <1>3. CASE EchoOne
    <2>1. napi = "tx" /\ xmit = NoFrame /\ ~Starting /\ RingInv /\ txNext # txEcho
      BY <1>3 DEF EchoOne, CanInv, CanStopRule, CanRing, Polling
    <2>2. RingInv' /\ (txNext' # txEcho' => Mask(txEcho') # 0)
      BY <1>1, <1>3, <2>1, EchoOneRing
    <2>3. CanStopRule' /\ CanLatched'
      BY <1>1, <1>3, <2>1, <2>2
      DEF EchoOne, InvalObject, CanInv, CanStopRule, CanLatched
    <2>4. NoEcho => NoEcho'
      BY <1>1, <1>3 DEF EchoOne, NoEcho, TypeOK, TxTypeOK
    <2>5. FormerLife'
      BY <1>1, <1>3, <2>4
      DEF EchoOne, InvalObject, CanInv, FormerLife, Silent, canVars
    <2> QED
      BY <1>1, <2>1, <2>2, <2>3, <2>5 DEF CanInv, CanRing
  <1>4. CASE PollTxEnd
    <2> USE DEF PollTxEnd, PollComplete, Sent, StillWrapped
    <2>1. napi = "tx" /\ xmit = NoFrame /\ ~Starting /\ RingInv /\ ~NapiOff
      BY <1>4 DEF CanInv, CanStopRule, CanRing, Polling, CanTypeOK
    <2>2. RingInv'
      BY <1>1, <1>4, <2>1, SameRing
    <2>3. stopped /\ ~(Mask(txNext) = 0 /\ Mask(txEcho) # 0) =>
              Mask(txNext) # 0 \/ txNext = txEcho
      BY <1>4, <2>1 DEF CanInv, CanLatched
    <2>4. CanStopRule' /\ CanLatched'
      BY <1>1, <1>4, <2>1, <2>3 DEF CanInv, CanStopRule, CanLatched
    <2>5. FormerLife'
      BY <1>1, <1>4, <2>1
      DEF CanInv, FormerLife, NoEcho, Silent, NapiOff, canVars
    <2> QED
      BY <1>1, <2>1, <2>2, <2>4, <2>5 DEF CanInv, CanRing
  <1> QED
    BY <1>2, <1>3, <1>4 DEF PollTx

(* The controller sends what is requested, in whatever life.               *)
LEMMA CanHwSendsInv ==
    ASSUME CanTypeOK, CanInv, HwSends
    PROVE  CanInv'
  <1> USE DEF HwSends
  <1>1. /\ TypeOK /\ HwTransmit /\ UNCHANGED canVars /\ txrqst # {}
        /\ (NapiOff <=> NapiOff') /\ (Starting <=> Starting')
    BY DEF CanTypeOK, HwTransmit, canVars, NapiOff, Starting
  <1>2. ~Silent
    BY <1>1 DEF Silent
  <1>3. ~Starting /\ RingInv
    BY <1>2 DEF CanInv, CanRing
  <1>4. RingInv' /\ txrqst' \subseteq txrqst /\ pend \subseteq pend'
    BY <1>1, <1>3, HwTransmitRing
  <1>5. CanStopRule' /\ CanLatched'
    BY <1>1, <1>3, <1>4
    DEF HwTransmit, CanInv, CanStopRule, CanLatched, Polling, canVars
  <1>6. FormerLife'
    BY <1>1, <1>2 DEF HwTransmit, CanInv, FormerLife, NoEcho, canVars
  <1> QED
    BY <1>1, <1>3, <1>4, <1>5, <1>6 DEF CanInv, CanRing

(* The ISR latches the most urgent cause; the status and receive polls,    *)
(* and the causes they serve, leave the transmit objects alone.            *)
LEMMA CanIrqInv ==
    ASSUME CanTypeOK, CanInv,
           \/ IsrCan \/ PollRx \/ PollStatus
           \/ HwTraffic \/ HwBusOff \/ HwRecovered
    PROVE  CanInv'
  <1> USE DEF IsrCan, IsrTx, Isr, PollRx, PollOther, PollStatus, PollComplete,
              Quiet, HwTraffic, HwOther, HwBusOff, HwRecovered
  <1>1. TypeOK /\ UNCHANGED <<txVars, life, restart>>
    BY DEF CanTypeOK, canVars
  <1>2. /\ (NapiOff <=> NapiOff') /\ (Starting <=> Starting') /\ (NoEcho <=> NoEcho')
        /\ UNCHANGED <<txNext, txEcho, txrqst, ram, echo, stopped, xmit>>
    BY <1>1 DEF NapiOff, Starting, NoEcho, txVars
  <1>3. Status \notin TxObjs
    BY NumAssumption DEF Status, TxObjs, TxFirst
  <1>4. pend' \intersect TxObjs = pend \intersect TxObjs
    BY <1>3 DEF RxObjs, TxObjs, irqVars
  <1>5. /\ Silent <=> Silent'
        /\ RingInv => RingInv'
    BY <1>1, <1>2, <1>4, SameRing DEF Silent
  <1>6. /\ napi' = "tx" <=> napi = "tx"
        /\ Polling' => Polling
        /\ irqstatus' \in TxObjs /\ napi' = "scheduled" /\ ~NapiOff =>
               \/ irqstatus' \in pend'
               \/ irqstatus' = irqstatus /\ napi = "scheduled"
    BY <1>1, <1>2, <1>3, <1>4 DEF Polling, IntReg, irqVars
  <1>7. CanRing' /\ CanStopRule'
    BY <1>1, <1>2, <1>5, <1>6 DEF CanInv, CanRing, CanStopRule
  <1>8. CanLatched'
    BY <1>1, <1>2, <1>4, <1>6 DEF CanInv, CanLatched
  <1>9. FormerLife'
    <2>1. life \in {"stopped", "down"} => napi = "scheduled" /\ NapiOff
      BY DEF CanTypeOK, NapiOff
    <2>2. irqEnabled' /\ life \in {"stopped", "down"} => irqEnabled
      BY <2>1 DEF irqVars, NapiOff
    <2>3. irqEnabled' \/ napi' # "idle" => irqEnabled \/ napi # "idle"
      BY DEF irqVars
    <2> QED
      BY <1>1, <1>2, <1>5, <2>2, <2>3 DEF CanInv, FormerLife
  <1> QED
    BY <1>7, <1>8, <1>9 DEF CanInv

(* The objects cleared, the tx helper pointers not yet: open and the       *)
(* restart timer between their two steps.                                  *)
LEMMA ConfigChipInv ==
    ASSUME CanTypeOK, CanInv, ConfigChip, Quiet,
           UNCHANGED <<irqstatus, napi, txNext, txEcho, xmit>>,
           Starting', NoEcho',
           napi = "scheduled" /\ ~NapiOff' => irqstatus \notin TxObjs
    PROVE  CanInv'
  <1> USE DEF ConfigChip, Quiet
  <1>1. Silent' /\ \A s \in Slots : ram'[s] = NoFrame
    <2>1. Status \notin TxObjs
      BY NumAssumption DEF Status, TxObjs, TxFirst
    <2> QED
      BY <2>1 DEF Silent
  <1>2. napi' # "tx" /\ xmit' = NoFrame
    BY DEF Polling
  <1>3. CanRing' /\ CanStopRule' /\ CanLatched'
    BY <1>1, <1>2 DEF CanRing, CanStopRule, CanLatched
  <1>4. FormerLife'
    BY <1>1 DEF FormerLife
  <1> QED
    BY <1>3, <1>4 DEF CanInv

(* The tx helper pointers are reset: nothing is in flight.                 *)
LEMMA StartDoneInv ==
    ASSUME CanTypeOK, CanInv, StartDone, Starting, xmit = NoFrame,
           UNCHANGED <<pend, irqstatus, napi, txrqst, ram, echo, xmit>>,
           life' \in {life, "up"}, NapiOff' <=> NapiOff
    PROVE  CanInv'
  <1> USE DEF StartDone
  <1>1. /\ Silent /\ NoEcho /\ napi # "tx"
        /\ \A s \in Slots : ram[s] = NoFrame
    BY DEF CanInv, CanRing
  <1>2. /\ Silent' /\ NoEcho' /\ napi' # "tx" /\ xmit' = NoFrame
        /\ \A s \in Slots : ram'[s] = NoFrame
        /\ txNext' = txEcho'
    BY <1>1 DEF Silent, NoEcho
  <1>3. RingInv'
    BY <1>2, EmptyRing
  <1>4. CanRing' /\ CanStopRule' /\ CanLatched'
    BY <1>2, <1>3 DEF CanRing, CanStopRule, CanInv, CanLatched
  <1>5. FormerLife'
    BY <1>2 DEF FormerLife
  <1> QED
    BY <1>4, <1>5 DEF CanInv

(* c_can_open finds the echoes dropped, and configures the objects unless  *)
(* a completion is latched, which a former life cannot have left.          *)
LEMMA CanOpenInv ==
    ASSUME CanTypeOK, CanInv, OpenBegin \/ OpenFails \/ OpenConfig \/ OpenDone
    PROVE  CanInv'
  <1>1. CASE OpenBegin
    <2>1. /\ TypeOK /\ NapiOff /\ ~NapiOff' /\ napi' = "idle" /\ napi = "scheduled"
          /\ (Silent <=> Silent') /\ (NoEcho <=> NoEcho') /\ (Starting <=> Starting')
      BY <1>1 DEF OpenBegin, txVars, CanTypeOK, NapiOff, Silent, NoEcho, Starting
    <2>2. RingInv => RingInv'
      BY <1>1, <2>1, SameRing DEF OpenBegin, txVars
    <2>3. CanRing'
      BY <1>1, <2>1, <2>2 DEF OpenBegin, CanInv, CanRing, txVars
    <2>4. CanStopRule' /\ CanLatched' /\ FormerLife'
      BY <1>1, <2>1
      DEF OpenBegin, CanInv, CanStopRule, CanLatched, FormerLife, txVars, Polling
    <2> QED
      BY <2>3, <2>4 DEF CanInv
  <1>2. CASE OpenFails
    <2>1. /\ TypeOK /\ NoEcho /\ napi = "scheduled" /\ UNCHANGED <<life, restart>>
          /\ UNCHANGED irqVars /\ UNCHANGED <<txNext, txEcho, txrqst, ram, stopped, xmit>>
      BY <1>2 DEF OpenFails, CanTypeOK, NapiOff, CanInv, FormerLife
    <2>2. echo' = echo
      BY <1>2, <2>1 DEF OpenFails, NoEcho, TypeOK, TxTypeOK
    <2>3. RingInv => RingInv'
      BY <2>1, <2>2, SameRing DEF irqVars
    <2> QED
      BY <2>1, <2>2, <2>3
      DEF irqVars, CanInv, CanRing, CanStopRule, CanLatched, FormerLife, Starting,
          Silent, NoEcho, NapiOff, Polling
  <1>3. CASE OpenConfig
    <2>1. life = "opening" /\ NoEcho /\ ~NapiOff
      BY <1>3 DEF OpenConfig, CanInv, FormerLife, NapiOff
    <2>2. napi = "scheduled" => irqstatus \notin TxObjs
      BY <2>1 DEF CanInv, FormerLife, CanLatched, Silent
    <2>3. Starting' /\ NoEcho'
      BY <1>3, <2>1 DEF OpenConfig, Starting, NoEcho
    <2> QED
      BY <1>3, <2>2, <2>3, ConfigChipInv DEF OpenConfig
  <1>4. CASE OpenDone
    BY <1>4, StartDoneInv DEF OpenDone, Quiet, Starting, NapiOff
  <1> QED
    BY <1>1, <1>2, <1>3, <1>4

(* c_can_close takes the queue, NAPI, the controller and the echoes away   *)
(* in turn; what it leaves in the objects no interrupt can tell.           *)
LEMMA CanCloseInv ==
    ASSUME CanTypeOK, CanInv, CloseQueue \/ CloseNapi \/ CloseStop \/ CloseEnd
    PROVE  CanInv'
  <1> USE DEF CloseQueue, CloseNapi, CloseStop, CloseEnd, Quiet, irqVars, txVars
  <1>1. /\ TypeOK /\ xmit = NoFrame /\ xmit' = NoFrame /\ ~restart /\ ~restart'
        /\ life \in {"up", "queueStopped", "napiDisabled", "stopped"}
        /\ napi # "tx" /\ napi' # "tx"
        /\ UNCHANGED <<pend, txNext, txEcho, txrqst, ram>>
    BY DEF CanTypeOK, Polling
  <1>2. ~Starting /\ ~Starting' /\ RingInv
    BY <1>1 DEF Starting, CanInv, CanRing
  <1>3. echo' = echo \/ (\A s \in Slots : echo'[s] = NoFrame)
    BY <1>1
  <1>4. OneLap' /\ Owed' = Owed /\ Loaded' = Loaded
    BY <1>1, <1>2 DEF RingInv, OneLap, Distance, Owed, Loaded
  <1>5. RingInv'
    BY <1>1, <1>2, <1>3, <1>4 DEF RingInv, OldestFirst, Contents
  <1>6. CanStopRule'
    BY <1>1, <1>2 DEF CanInv, CanStopRule
  <1>7. CanLatched'
    BY <1>1 DEF CanInv, CanLatched, NapiOff
  <1>8. FormerLife'
    BY <1>1 DEF CanInv, FormerLife, Silent, NoEcho
  <1> QED
    BY <1>2, <1>5, <1>6, <1>7, <1>8 DEF CanInv, CanRing

(* The restart timer clears the objects and drops the echoes; a completion *)
(* latched before is what the bound keeps away.                            *)
LEMMA CanRestartInv ==
    ASSUME CalmRestart, CanTypeOK, CanInv,
           SetRestart \/ RestartNow \/ RestartBegin \/ RestartDone
    PROVE  CanInv'
  <1>1. CASE SetRestart \/ RestartNow
    <2>1. UNCHANGED <<vars, life, restart>> /\ TypeOK
      BY <1>1 DEF SetRestart, RestartNow, CanTypeOK
    <2>2. RingInv => RingInv'
      BY <2>1, SameRing DEF vars, irqVars, txVars
    <2> QED
      BY <2>1, <2>2
      DEF vars, irqVars, txVars, CanInv, CanRing, CanStopRule, CanLatched,
          FormerLife, Starting, Silent, NoEcho, NapiOff, Polling
  <1>2. CASE RestartBegin
    <2>1. Starting' /\ NoEcho' /\ (napi = "scheduled" => irqstatus \notin TxObjs)
      BY <1>2 DEF RestartBegin, Starting, NoEcho
    <2> QED
      BY <1>2, <2>1, ConfigChipInv DEF RestartBegin
  <1>3. CASE RestartDone
    <2>1. Starting /\ xmit = NoFrame /\ (NapiOff' <=> NapiOff)
      BY <1>3 DEF RestartDone, Starting, CanInv, CanStopRule, NapiOff
    <2> QED
      BY <1>3, <2>1, StartDoneInv DEF RestartDone
  <1> QED
    BY <1>1, <1>2, <1>3

LEMMA CanNextInv ==
    ASSUME CalmRestart
    PROVE  CanTypeOK /\ CanInv /\ [CanNext]_allVars => CanInv'
  <1> SUFFICES ASSUME CanTypeOK, CanInv, [CanNext]_allVars PROVE CanInv'
    OBVIOUS
  <1>1. CASE UNCHANGED allVars
    <2>1. UNCHANGED <<vars, life, restart>> /\ TypeOK
      BY <1>1 DEF allVars, canVars, CanTypeOK
    <2>2. RingInv => RingInv'
      BY <2>1, SameRing DEF vars, irqVars, txVars
    <2> QED
      BY <2>1, <2>2
      DEF vars, irqVars, txVars, CanInv, CanRing, CanStopRule, CanLatched,
          FormerLife, Starting, Silent, NoEcho, NapiOff, Polling
  <1> QED
    BY <1>1, CanXmitInv, CanPollTxInv, CanHwSendsInv, CanIrqInv, CanOpenInv,
       CanCloseInv, CanRestartInv DEF CanNext

(* As long as no restart overtakes a completion that is latched, the ring  *)
(* is either whole, or cleared and not yet started again, whatever open,   *)
(* close and bus-off did before.                                           *)
THEOREM CanInvariance == CalmRestart => (CanSpec => []CanInv)
  <1> SUFFICES ASSUME CalmRestart PROVE CanSpec => []CanInv
    OBVIOUS
  <1>1. CanTypeOK /\ CanInv /\ [CanNext]_allVars => CanInv'
    BY CanNextInv
  <1> QED
    BY <1>1, CanInitType, CanNextType, CanInitInv, PTL DEF CanSpec

(* A queue that runs has a free next slot, and an echo is what was sent,   *)
(* after any number of bus-offs, restarts and close and open calls.        *)
THEOREM RingAlwaysSurvives == CalmRestart => (CanSpec => []RingSurvives)
  <1> SUFFICES ASSUME CalmRestart PROVE CanSpec => []RingSurvives
    OBVIOUS
  <1>1. CanTypeOK /\ CanInv => NextSlotFree
    <2> SUFFICES ASSUME CanTypeOK, CanInv, ~stopped, xmit = NoFrame
                 PROVE  /\ Mask(txNext) \notin txrqst
                        /\ ram[Mask(txNext)] = NoFrame
                        /\ echo[Mask(txNext)] = NoFrame
      BY DEF NextSlotFree
    <2>1. TypeOK /\ Mask(txNext) \in Slots
      BY OwedSlots DEF CanTypeOK
    <2>2. CASE Starting
      BY <2>1, <2>2 DEF CanInv, CanRing, Silent, NoEcho
    <2>3. CASE ~Starting
      <3>1. \A s \in Owed : s < Mask(txNext)
        BY <2>1, <2>3, NextAbove DEF CanInv, CanRing, CanStopRule, RingInv
      <3>2. Mask(txNext) \notin Owed /\ Loaded = Owed
        BY <2>1, <3>1, NumAssumption DEF Slots, Loaded
      <3> QED
        BY <2>1, <2>3, <3>2 DEF CanInv, CanRing, RingInv, OldestFirst, Contents
    <2> QED
      BY <2>2, <2>3
  <1>2. CanInv => EchoMatches
    BY DEF CanInv, CanRing, RingInv, Contents, NoEcho, EchoMatches
  <1> QED
    BY <1>1, <1>2, CanTypeCorrect, CanInvariance, PTL DEF RingSurvives

-----------------------------------------------------------------------------
(* The receive side (OkiRx)                                                *)

(***************************************************************************)
(* Objects, and the sequence of frames handed over.                        *)
(***************************************************************************)

(* A set of object numbers has a lowest one.  The library's order of the   *)
(* naturals cannot be used here; the order of the subsets of an interval   *)
(* serves as well, n standing for 1 .. n.                                  *)
LEMMA MinFacts ==
    ASSUME NEW N \in Nat, NEW S \in SUBSET (1 .. N), S # {}
    PROVE  Min(S) \in S /\ \A y \in S : Min(S) <= y
  <1> DEFINE T == {1 .. n : n \in S}
  <1>1. IsWellFoundedOn(StrictSubsetOrdering(1 .. N), SUBSET (1 .. N))
    <2>1. IsFiniteSet(1 .. N)
      BY FS_Interval
    <2>2. FiniteSubsetsOf(1 .. N) = SUBSET (1 .. N)
      BY <2>1, FS_FiniteSubsetsOfFinite
    <2> QED
      BY <2>2, FS_StrictSubsetOrderingWellFounded
  <1>2. T \subseteq SUBSET (1 .. N) /\ T # {}
    <2>1. \A n \in S : 1 .. n \in SUBSET (1 .. N)
      OBVIOUS
    <2> QED
      BY <2>1, Zenon
  <1>3. \E x \in T : \A y \in T : ~(<<y, x>> \in StrictSubsetOrdering(1 .. N))
    <2> HIDE DEF T
    <2> QED
      BY <1>1, <1>2, WFMin
  <1>4. PICK n \in S : \A m \in S : ~(<<1 .. m, 1 .. n>> \in StrictSubsetOrdering(1 .. N))
    BY <1>3
  <1>5. ASSUME NEW m \in S, m < n
        PROVE  FALSE
    <2>1. 1 .. m \subseteq 1 .. n /\ n \in 1 .. n /\ n \notin 1 .. m
      BY <1>5
    <2>2. 1 .. m \in SUBSET (1 .. N) /\ 1 .. n \in SUBSET (1 .. N)
      OBVIOUS
    <2> QED
      BY <2>1, <2>2, <1>4 DEF StrictSubsetOrdering
  <1>6. n \in S /\ \A y \in S : n <= y
    BY <1>5
  <1> QED
    BY <1>6 DEF Min

(* The low group is a proper part of the receive objects.                  *)
LEMMA Groups ==
    /\ RxNum \in Nat /\ LowLast \in Nat /\ LowLast < RxNum /\ 1 \in LowGroup
    /\ RxObjs = 1 .. RxNum /\ LowGroup = 1 .. LowLast
    /\ EndOfBuffer \in RxObjs /\ EndOfBuffer \notin LowGroup
    /\ LowGroup \subseteq RxObjs
    /\ RxObjs \subseteq Causes /\ Status \notin RxObjs
  BY NumAssumption, GroupAssumption
  DEF RxObjs, LowGroup, EndOfBuffer, Causes, Status

(* What has been handed over when one more frame is.                       *)
LEMMA OneMore ==
    ASSUME NEW S, NEW s \in Seq(S), NEW x \in S
    PROVE  /\ Append(s, x) \in Seq(S)
           /\ DOMAIN Append(s, x) = DOMAIN s \union {Len(s) + 1}
           /\ \A i \in DOMAIN s : i < Len(s) + 1 /\ Append(s, x)[i] = s[i]
           /\ Append(s, x)[Len(s) + 1] = x
           /\ DOMAIN s \subseteq Nat /\ Len(s) + 1 \in Nat
  OBVIOUS

(***************************************************************************)
(* The inductive invariant.                                                *)
(***************************************************************************)

(* Only the object with EOB is ever overwritten, and so made deaf.         *)
OnlyLastLost == msglst \subseteq {EndOfBuffer} /\ deaf \subseteq {EndOfBuffer}

(* An interrupt of a receive object stands for a frame in it.              *)
PendingHeld == \A o \in RxObjs : o \in pend => o \in newdat

(* From LowLast on an object is freed together with its interrupt.         *)
UpperPending == \A o \in newdat : o >= LowLast => o \in pend

(* What the poll is about to take still waits.                             *)
CopyHeld == val \subseteq pend

(* The low group fills from below: no hole under a stored frame, in the    *)
(* whole group, or in the part of it that is open again.                   *)
LowFilled ==
    \A o, p \in LowGroup :
        o < p /\ p \in newdat /\ (lower = 0 \/ p < lower) => o \in newdat

(* While the group is being reopened, the objects still to come have been  *)
(* read and are closed to the controller, and the poll's copy is above it. *)
LowRead ==
    lower # 0 =>
        \A o \in LowGroup :
            /\ o \notin val
            /\ o >= lower => o \in newdat /\ (o < LowLast => o \notin pend)

(* The copy of the pending register has no holes in the low group.         *)
CopyFilled ==
    \A o, p \in LowGroup : p \in val /\ o < p /\ o \in pend => o \in val

(* The objects of the receive side.                                        *)
ObjInv ==
    /\ OnlyLastLost
    /\ PendingHeld
    /\ UpperPending
    /\ CopyHeld
    /\ LowFilled
    /\ LowRead
    /\ CopyFilled

(* Unread frames of the low group are in the order of their objects, and   *)
(* later than everything handed over from the group.                       *)
LowOrder ==
    /\ \A o, p \in Unread \intersect LowGroup : o < p => data[o] < data[p]
    /\ \A i \in DOMAIN received : \A o \in Unread \intersect LowGroup :
          received[i].obj \in LowGroup => received[i].frame < data[o]

RxIInv ==
    /\ RxTypeOK
    /\ ObjInv
    /\ EachFrameOnce
    /\ LowOrder
    /\ LowGroupInOrder

(* What the poll takes from its copy waits in its object, unread, and is   *)
(* below everything else in the copy.                                      *)
LEMMA TakeFacts ==
    ASSUME RxTypeOK, ObjInv, NEW o, Take(o)
    PROVE  /\ o \in val /\ o \in RxObjs /\ o \in pend /\ o \in newdat /\ o \in Unread
           /\ lower = 0 /\ quota \in 1 .. Weight
           /\ \A p \in val : o <= p
  <1>1. val \in SUBSET (1 .. RxNum) /\ val # {} /\ RxNum \in Nat
    BY Groups DEF RxTypeOK, Take
  <1>2. o \in val /\ \A p \in val : o <= p
    BY <1>1, MinFacts DEF Take
  <1> QED
    BY <1>2, WeightAssumption
    DEF RxTypeOK, IrqTypeOK, ObjInv, CopyHeld, PendingHeld, Take, Unread

(* The object the controller stores a frame in is the lowest free one.     *)
LEMMA StoreFacts ==
    ASSUME RxTypeOK, FreeObjs # {}
    PROVE  \E o \in RxObjs :
              /\ o = Min(FreeObjs) /\ o \notin newdat /\ o \notin deaf
              /\ \A p \in RxObjs : p < o => p \in newdat \/ p \in deaf
  <1>1. FreeObjs \in SUBSET (1 .. RxNum) /\ RxNum \in Nat
    BY Groups DEF FreeObjs
  <1>2. Min(FreeObjs) \in FreeObjs /\ \A p \in FreeObjs : Min(FreeObjs) <= p
    BY <1>1, MinFacts
  <1>3. PICK o \in FreeObjs : o = Min(FreeObjs) /\ \A p \in FreeObjs : o <= p
    BY <1>2
  <1>4. \A p \in RxObjs : p < o => p \notin FreeObjs
    BY <1>1, <1>3, Groups
  <1> QED
    BY <1>3, <1>4 DEF FreeObjs

(* With no object free and the last one not deaf, the last one holds a     *)
(* frame nobody has read.                                                  *)
LEMMA OverwriteFacts ==
    ASSUME RxTypeOK, ObjInv, FreeObjs = {}, EndOfBuffer \notin deaf
    PROVE  EndOfBuffer \in newdat /\ EndOfBuffer \in pend /\ EndOfBuffer \in Unread
  BY Groups DEF RxTypeOK, ObjInv, UpperPending, FreeObjs, Unread, EndOfBuffer

(* A frame that waits has arrived and is nowhere else.                     *)
LEMMA UnreadFacts ==
    ASSUME RxTypeOK, EachFrameOnce, NEW o \in Unread
    PROVE  /\ o \in RxObjs /\ data[o] \in 1 .. arrived /\ data[o] \in FramesRx
           /\ data[o] \notin Handed /\ data[o] \notin dropped /\ data[o] \notin lost
  <1>1. data[o] \in Waiting
    BY DEF Waiting
  <1>2. data[o] \in 1 .. arrived
    BY <1>1 DEF EachFrameOnce
  <1> QED
    BY <1>1, <1>2, WeightAssumption DEF RxTypeOK, EachFrameOnce, Unread, FramesRx

(***************************************************************************)
(* Types.                                                                  *)
(***************************************************************************)

(* Every step keeps the types; a dropped or lost frame was in an object.   *)
LEMMA RxNextType == RxTypeOK /\ ObjInv /\ EachFrameOnce /\ [RxNext]_rxVars => RxTypeOK'
  <1> SUFFICES ASSUME RxTypeOK, ObjInv, EachFrameOnce, [RxNext]_rxVars
               PROVE  RxTypeOK'
    OBVIOUS
  <1> USE DEF RxTypeOK, IrqTypeOK
  <1>1. CASE HwReceive
    <2>0. arrived' \in 0 .. MaxFrames /\ arrived' \in FramesRx
      BY <1>1, WeightAssumption DEF HwReceive, FramesRx
    <2>1. CASE HwStore
      <3>1. Min(FreeObjs) \in RxObjs /\ Min(FreeObjs) \in Causes
        BY <2>1, StoreFacts, Groups DEF HwStore
      <3> QED
        BY <1>1, <2>0, <2>1, <3>1 DEF HwReceive, HwStore, pollVars
    <2>2. CASE HwOverwrite
      <3>1. EndOfBuffer \in RxObjs /\ EndOfBuffer \in Causes
            /\ data[EndOfBuffer] \in FramesRx
        BY <2>2, Groups, OverwriteFacts, UnreadFacts DEF HwOverwrite
      <3> QED
        BY <1>1, <2>0, <2>2, <3>1 DEF HwReceive, HwOverwrite, pollVars
    <2>3. CASE HwReject
      BY <1>1, <2>0, <2>3 DEF HwReceive, HwReject, pollVars
    <2> QED
      BY <1>1, <2>1, <2>2, <2>3 DEF HwReceive
  <1>2. CASE HwNotRx
    BY <1>2 DEF HwNotRx, objVars, pollVars, history
  <1>3. CASE IsrRx
    BY <1>3 DEF IsrRx, Isr, IntReg, NapiStates, objVars, pollVars, history
  <1>4. CASE PollNotRx
    BY <1>4 DEF PollNotRx, PollComplete, NapiStates, objVars, pollVars, history
  <1>5. CASE PollRxBegin
    <2>1. irqstatus # Status /\ Branch(irqstatus) \in NapiStates
      BY <1>5, Groups DEF PollRxBegin, Branch, NapiStates
    <2> QED
      BY <1>5, <2>1, WeightAssumption
      DEF PollRxBegin, PollBegin, Quota, objVars, history
  <1>6. CASE ReadPending
    BY <1>6 DEF ReadPending, irqVars, objVars, history
  <1>7. CASE PollRxEnd
    BY <1>7 DEF PollRxEnd, PollComplete, NapiStates, objVars, history
  <1>8. CASE HandleLost
    <2>1. PICK o \in val : HandleLost!1!(o)
      BY <1>8 DEF HandleLost
    <2>2. o \in RxObjs /\ data[o] \in FramesRx /\ quota - 1 \in 0 .. Weight
      BY <2>1, TakeFacts, UnreadFacts, WeightAssumption
    <2> QED
      BY <1>8, <2>1, <2>2 DEF HandleLost
  <1>9. CASE ReturnAtEob
    BY <1>9 DEF ReturnAtEob, PollComplete, NapiStates, objVars, history
  <1>10. CASE ReadOne
    <2>1. PICK o \in val \ (msglst \union {EndOfBuffer}) : ReadOne!1!(o)
      BY <1>10 DEF ReadOne
    <2>2. o \in RxObjs /\ data[o] \in FramesRx /\ quota - 1 \in 0 .. Weight
      BY <2>1, TakeFacts, UnreadFacts, WeightAssumption
    <2>3. CASE Deliver(o)
      <3>1. [frame |-> data[o], obj |-> o] \in [frame : FramesRx, obj : RxObjs]
        BY <2>2
      <3>2. Append(received, [frame |-> data[o], obj |-> o])
            \in Seq([frame : FramesRx, obj : RxObjs])
        <4> DEFINE S == [frame : FramesRx, obj : RxObjs]
                   x == [frame |-> data[o], obj |-> o]
        <4>1. received \in Seq(S) /\ x \in S
          BY <3>1
        <4> HIDE DEF S, x
        <4>2. Append(received, x) \in Seq(S)
          BY <4>1, OneMore
        <4> QED
          BY <4>2 DEF S, x
      <3>3. received' \in Seq([frame : FramesRx, obj : RxObjs])
            /\ dropped' \in SUBSET FramesRx
        BY <2>2, <2>3, <3>2 DEF Deliver
      <3>4. lower' \in LowGroup \union {0} /\ pend' \in SUBSET Causes
            /\ newdat' \in SUBSET RxObjs
        BY <2>1, Groups DEF MarkRx, ActivateRx
      <3>5. quota' \in 0 .. Weight /\ val' \in SUBSET RxObjs
        BY <2>1, <2>2
      <3> QED
        BY <1>10, <3>3, <3>4, <3>5 DEF ReadOne
    <2>4. CASE o \notin newdat
      BY <2>1, <2>4, TakeFacts
    <2> QED
      BY <2>1, <2>3, <2>4
  <1>11. CASE ActivateLower
    <2>1. lower' \in LowGroup \union {0}
      BY <1>11, Groups DEF ActivateLower
    <2> QED
      BY <1>11, <2>1 DEF ActivateLower, history
  <1>12. CASE UNCHANGED rxVars
    BY <1>12 DEF rxVars, irqVars, objVars, pollVars, history
  <1> QED
    BY <1>1, <1>2, <1>3, <1>4, <1>5, <1>6, <1>7, <1>8, <1>9, <1>10, <1>11, <1>12
    DEF RxNext

(***************************************************************************)
(* How frames move between the places they can be in.                      *)
(***************************************************************************)

(* Steps that move no frame.                                               *)
LEMMA FramesStay ==
    ASSUME EachFrameOnce, LowOrder, LowGroupInOrder,
           Unread' = Unread, data' = data, UNCHANGED history
    PROVE  EachFrameOnce' /\ LowOrder' /\ LowGroupInOrder'
  BY DEF EachFrameOnce, LowOrder, LowGroupInOrder, Handed, Waiting, history

(* A new frame goes to an object that held none.                           *)
LEMMA FrameStored ==
    ASSUME RxTypeOK, EachFrameOnce, LowOrder, LowGroupInOrder,
           NEW o \in RxObjs, o \notin Unread,
           \A p \in Unread \intersect LowGroup : o \in LowGroup => p < o,
           Unread' = Unread \union {o},
           arrived' = arrived + 1, data' = [data EXCEPT ![o] = arrived'],
           UNCHANGED <<received, dropped, lost>>
    PROVE  EachFrameOnce' /\ LowOrder' /\ LowGroupInOrder'
  <1>1. /\ Unread \subseteq RxObjs /\ RxObjs \subseteq Int
        /\ data'[o] = arrived + 1 /\ \A p \in Unread : data'[p] = data[p]
        /\ arrived \in Nat
    <2>1. Unread \subseteq RxObjs /\ RxObjs \subseteq Int /\ arrived \in Nat
      <3>1. newdat \subseteq RxObjs /\ arrived \in Nat
        BY WeightAssumption DEF RxTypeOK
      <3>2. RxObjs \subseteq Int
        BY Groups
      <3> QED
        BY <3>1, <3>2 DEF Unread
    <2>2. data'[o] = arrived + 1 /\ \A p \in RxObjs \ {o} : data'[p] = data[p]
      BY DEF RxTypeOK
    <2> QED
      BY <2>1, <2>2
  <1>2. Handed' = Handed /\ Waiting' = Waiting \union {arrived + 1}
    BY <1>1 DEF Handed, Waiting
  <1>3. /\ Handed \subseteq 1 .. arrived /\ Waiting \subseteq 1 .. arrived
        /\ dropped \subseteq 1 .. arrived /\ lost \subseteq 1 .. arrived
    BY DEF EachFrameOnce
  <1>4. arrived + 1 \notin 1 .. arrived
        /\ 1 .. arrived' = (1 .. arrived) \union {arrived + 1}
    BY <1>1
  <1>5. \A p \in Unread : data[p] \in 1 .. arrived
    BY <1>3 DEF Waiting
  <1>6. \A i \in DOMAIN received : received[i].frame \in 1 .. arrived
    BY <1>3 DEF Handed
  <1>7. EachFrameOnce'
    <2>1. (Handed \union Waiting \union dropped \union lost = 1 .. arrived)'
      BY <1>2, <1>4 DEF EachFrameOnce
    <2>2. (Handed \intersect Waiting = {})' /\ (dropped \intersect lost = {})'
          /\ ((Handed \union Waiting) \intersect (dropped \union lost) = {})'
      BY <1>2, <1>3, <1>4 DEF EachFrameOnce
    <2>3. (\A p, q \in Unread : data[p] = data[q] => p = q)'
      BY <1>1, <1>4, <1>5 DEF EachFrameOnce
    <2> QED
      BY <2>1, <2>2, <2>3 DEF EachFrameOnce
  <1>8. LowOrder'
    BY <1>1, <1>5, <1>6 DEF LowOrder
  <1> QED
    BY <1>7, <1>8 DEF LowGroupInOrder

(* A frame leaves its object, for the stack or for good.                   *)
LEMMA FrameGone ==
    ASSUME RxTypeOK, EachFrameOnce, LowOrder, LowGroupInOrder,
           NEW o \in Unread, Unread' = Unread \ {o},
           UNCHANGED <<data, arrived, received>>,
           \/ dropped' = dropped \union {data[o]} /\ lost' = lost
           \/ lost' = lost \union {data[o]} /\ dropped' = dropped
    PROVE  EachFrameOnce' /\ LowOrder' /\ LowGroupInOrder'
  <1>1. /\ data[o] \in Waiting /\ data[o] \notin Handed
        /\ data[o] \notin dropped /\ data[o] \notin lost
    BY UnreadFacts DEF Waiting
  <1>2. Handed' = Handed /\ Waiting' = Waiting \ {data[o]}
    BY DEF Handed, Waiting, EachFrameOnce
  <1>3. EachFrameOnce'
    BY <1>1, <1>2 DEF EachFrameOnce
  <1> QED
    BY <1>3 DEF LowOrder, LowGroupInOrder

(* A frame is handed to the stack: of the low group, the earliest one.     *)
LEMMA FrameHanded ==
    ASSUME RxTypeOK, EachFrameOnce, LowOrder, LowGroupInOrder,
           NEW o \in Unread, Unread' = Unread \ {o},
           o \in LowGroup => \A p \in Unread \intersect LowGroup : o <= p,
           received' = Append(received, [frame |-> data[o], obj |-> o]),
           UNCHANGED <<data, arrived, dropped, lost>>
    PROVE  EachFrameOnce' /\ LowOrder' /\ LowGroupInOrder'
  <1> DEFINE n == Len(received) + 1
             x == [frame |-> data[o], obj |-> o]
  <1>1. /\ o \in RxObjs /\ RxObjs \subseteq Int /\ Unread \subseteq RxObjs
        /\ data[o] \in Waiting /\ data[o] \notin Handed
    BY UnreadFacts, Groups DEF Waiting, RxTypeOK, Unread
  <1>2. /\ DOMAIN received' = DOMAIN received \union {n}
        /\ \A i \in DOMAIN received : i < n /\ received'[i] = received[i]
        /\ received'[n] = x
        /\ DOMAIN received \subseteq Nat /\ n \in Nat
    <2> DEFINE S == [frame : FramesRx, obj : RxObjs]
    <2>1. received \in Seq(S) /\ x \in S
      BY UnreadFacts DEF RxTypeOK
    <2> HIDE DEF S, x
    <2>2. /\ DOMAIN Append(received, x) = DOMAIN received \union {Len(received) + 1}
          /\ \A i \in DOMAIN received :
                i < Len(received) + 1 /\ Append(received, x)[i] = received[i]
          /\ Append(received, x)[Len(received) + 1] = x
          /\ DOMAIN received \subseteq Nat /\ Len(received) + 1 \in Nat
      BY <2>1, OneMore
    <2>3. received' = Append(received, x)
      BY DEF x
    <2> QED
      BY <2>2, <2>3
  <1>3. received'[n].frame = data[o] /\ received'[n].obj = o
    BY <1>2
  <1> HIDE DEF n, x
  <1>4. Handed' = Handed \union {data[o]}
    BY <1>2, <1>3 DEF Handed
  <1>5. Waiting' = Waiting \ {data[o]}
    BY DEF Waiting, EachFrameOnce
  <1>6. EachFrameOnce'
    <2>1. \A i \in DOMAIN received : received[i].frame # data[o]
      BY <1>1 DEF Handed
    <2>2. (\A i, j \in DOMAIN received : received[i].frame = received[j].frame => i = j)'
      BY <1>2, <1>3, <2>1 DEF EachFrameOnce
    <2>3. (\A p, q \in Unread : data[p] = data[q] => p = q)'
      BY DEF EachFrameOnce
    <2>4. (Handed \union Waiting \union dropped \union lost = 1 .. arrived)'
      BY <1>1, <1>4, <1>5 DEF EachFrameOnce
    <2>5. (Handed \intersect Waiting = {})' /\ (dropped \intersect lost = {})'
          /\ ((Handed \union Waiting) \intersect (dropped \union lost) = {})'
      BY <1>1, <1>4, <1>5 DEF EachFrameOnce
    <2> QED
      BY <2>2, <2>3, <2>4, <2>5 DEF EachFrameOnce
  <1>7. LowOrder'
    <2>1. \A p \in Unread' \intersect LowGroup : o \in LowGroup => data[o] < data[p]
      BY <1>1 DEF LowOrder
    <2> QED
      BY <1>2, <1>3, <2>1 DEF LowOrder
  <1>8. LowGroupInOrder'
    <2> SUFFICES ASSUME NEW i \in DOMAIN received', NEW j \in DOMAIN received',
                        i < j, received'[i].obj \in LowGroup,
                        received'[j].obj \in LowGroup
                 PROVE  received'[i].frame < received'[j].frame
      BY DEF LowGroupInOrder
    <2>1. i \in DOMAIN received
      BY <1>2
    <2>2. CASE j \in DOMAIN received
      BY <1>2, <2>1, <2>2 DEF LowGroupInOrder
    <2>3. CASE j = n
      BY <1>1, <1>2, <1>3, <2>1, <2>3 DEF LowOrder
    <2> QED
      BY <1>2, <2>2, <2>3
  <1> QED
    BY <1>6, <1>7, <1>8

(* A new frame takes the place of one that is lost.                        *)
LEMMA FrameOverwritten ==
    ASSUME RxTypeOK, EachFrameOnce, LowOrder, LowGroupInOrder,
           NEW o \in Unread, o \notin LowGroup, Unread' = Unread,
           arrived' = arrived + 1, data' = [data EXCEPT ![o] = arrived'],
           lost' = lost \union {data[o]}, UNCHANGED <<received, dropped>>
    PROVE  EachFrameOnce' /\ LowOrder' /\ LowGroupInOrder'
  <1>1. Unread \subseteq RxObjs /\ arrived \in Nat
    BY WeightAssumption DEF RxTypeOK, Unread
  <1>2. data'[o] = arrived + 1 /\ \A p \in Unread \ {o} : data'[p] = data[p]
    BY <1>1 DEF RxTypeOK
  <1>3. /\ data[o] \in Waiting /\ data[o] \notin Handed
        /\ data[o] \notin dropped /\ data[o] \notin lost
    BY UnreadFacts DEF Waiting
  <1>4. Handed' = Handed /\ Waiting' = (Waiting \ {data[o]}) \union {arrived + 1}
    BY <1>2 DEF Handed, Waiting, EachFrameOnce
  <1>5. arrived + 1 \notin 1 .. arrived
        /\ 1 .. arrived' = (1 .. arrived) \union {arrived + 1}
    BY <1>1
  <1>6. \A p \in Unread : data[p] \in 1 .. arrived
    BY DEF EachFrameOnce, Waiting
  <1>7. EachFrameOnce'
    <2>1. (Handed \union Waiting \union dropped \union lost = 1 .. arrived)'
      BY <1>3, <1>4, <1>5 DEF EachFrameOnce
    <2>2. (Handed \intersect Waiting = {})' /\ (dropped \intersect lost = {})'
          /\ ((Handed \union Waiting) \intersect (dropped \union lost) = {})'
      BY <1>3, <1>4, <1>5 DEF EachFrameOnce
    <2>3. (\A p, q \in Unread : data[p] = data[q] => p = q)'
      BY <1>2, <1>5, <1>6 DEF EachFrameOnce
    <2> QED
      BY <2>1, <2>2, <2>3 DEF EachFrameOnce
  <1>8. LowOrder'
    BY <1>2 DEF LowOrder
  <1> QED
    BY <1>7, <1>8 DEF LowGroupInOrder

(***************************************************************************)
(* Each step keeps the inductive invariant.                                *)
(***************************************************************************)

(* Steps that change no receive object, and the copy of the pending        *)
(* register only to drop it or to read it anew.                            *)
LEMMA RxQuiet ==
    ASSUME RxIInv, UNCHANGED <<newdat, msglst, deaf, data, lower, history>>,
           pend' \intersect RxObjs = pend \intersect RxObjs,
           val' = val \/ val' = {} \/ (lower = 0 /\ val' = pend \intersect RxObjs)
    PROVE  ObjInv' /\ EachFrameOnce' /\ LowOrder' /\ LowGroupInOrder'
  <1> USE DEF RxIInv, ObjInv
  <1>1. Unread' = Unread
    BY DEF Unread, RxTypeOK
  <1>2. EachFrameOnce' /\ LowOrder' /\ LowGroupInOrder'
    BY <1>1, FramesStay
  <1>3. OnlyLastLost' /\ PendingHeld'
    BY DEF OnlyLastLost, PendingHeld
  <1>4. UpperPending' /\ CopyHeld'
    BY DEF UpperPending, CopyHeld, RxTypeOK
  <1>5. LowFilled' /\ LowRead'
    BY Groups DEF LowFilled, LowRead, CopyHeld
  <1>6. CopyFilled'
    BY Groups DEF CopyFilled
  <1> QED
    BY <1>2, <1>3, <1>4, <1>5, <1>6

(* HwStore: the frame goes above every stored one of the open low group,   *)
(* never into an object activate_all_lower is still to clear.              *)
LEMMA StoreInv ==
    RxIInv /\ HwReceive /\ HwStore =>
        ObjInv' /\ EachFrameOnce' /\ LowOrder' /\ LowGroupInOrder'
  <1> SUFFICES ASSUME RxIInv, HwReceive, HwStore
               PROVE  ObjInv' /\ EachFrameOnce' /\ LowOrder' /\ LowGroupInOrder'
    OBVIOUS
  <1> USE DEF RxIInv, ObjInv
  <1>1. PICK o \in RxObjs :
           /\ o = Min(FreeObjs) /\ o \notin newdat /\ o \notin deaf
           /\ \A p \in RxObjs : p < o => p \in newdat \/ p \in deaf
    BY StoreFacts DEF HwStore
  <1>2. /\ newdat' = newdat \union {o} /\ pend' = pend \union {o}
        /\ data' = [data EXCEPT ![o] = arrived'] /\ arrived' = arrived + 1
        /\ UNCHANGED <<msglst, deaf, val, lower, received, dropped, lost>>
    BY <1>1 DEF HwReceive, HwStore, pollVars
  <1>3. OnlyLastLost' /\ PendingHeld' /\ UpperPending' /\ CopyHeld'
    BY <1>2 DEF OnlyLastLost, PendingHeld, UpperPending, CopyHeld
  <1>4. LowFilled'
    BY <1>1, <1>2, Groups DEF LowFilled, OnlyLastLost
  <1>5. LowRead'
    BY <1>1, <1>2, Groups DEF LowRead
  <1>6. CopyFilled'
    BY <1>1, <1>2, Groups DEF CopyFilled, CopyHeld, PendingHeld, LowRead, LowFilled
  <1>7. Unread' = Unread \union {o} /\ o \notin Unread
    <2>1. lower # 0 => o # LowLast
      BY <1>1, Groups DEF LowRead, RxTypeOK
    <2> QED
      BY <1>1, <1>2, <2>1 DEF Unread
  <1>8. \A p \in Unread \intersect LowGroup : o \in LowGroup => p < o
    BY <1>1, <1>7, Groups DEF Unread, LowFilled, LowRead, RxTypeOK
  <1> QED
    BY <1>2, <1>3, <1>4, <1>5, <1>6, <1>7, <1>8, FrameStored

(* HwOverwrite: the frame that is overwritten was not read.                *)
LEMMA OverwriteInv ==
    RxIInv /\ HwReceive /\ HwOverwrite =>
        ObjInv' /\ EachFrameOnce' /\ LowOrder' /\ LowGroupInOrder'
  <1> SUFFICES ASSUME RxIInv, HwReceive, HwOverwrite
               PROVE  ObjInv' /\ EachFrameOnce' /\ LowOrder' /\ LowGroupInOrder'
    OBVIOUS
  <1> USE DEF RxIInv, ObjInv
  <1>1. EndOfBuffer \in newdat /\ EndOfBuffer \in pend /\ EndOfBuffer \in Unread
    BY OverwriteFacts DEF HwOverwrite
  <1>2. /\ pend' = pend /\ msglst' = msglst \union {EndOfBuffer}
        /\ data' = [data EXCEPT ![EndOfBuffer] = arrived'] /\ arrived' = arrived + 1
        /\ lost' = lost \union {data[EndOfBuffer]}
        /\ UNCHANGED <<newdat, deaf, val, lower, received, dropped>>
    BY <1>1 DEF HwReceive, HwOverwrite, pollVars
  <1>3. ObjInv'
    BY <1>2 DEF OnlyLastLost, PendingHeld, UpperPending, CopyHeld, LowFilled,
                LowRead, CopyFilled
  <1>4. Unread' = Unread
    BY <1>2 DEF Unread
  <1> QED
    BY <1>1, <1>2, <1>3, <1>4, Groups, FrameOverwritten

(* HwReject: the frame itself is lost.                                     *)
LEMMA RejectInv ==
    RxIInv /\ HwReceive /\ HwReject =>
        ObjInv' /\ EachFrameOnce' /\ LowOrder' /\ LowGroupInOrder'
  <1> SUFFICES ASSUME RxIInv, HwReceive, HwReject
               PROVE  ObjInv' /\ EachFrameOnce' /\ LowOrder' /\ LowGroupInOrder'
    OBVIOUS
  <1> USE DEF RxIInv, ObjInv
  <1>1. /\ arrived' = arrived + 1 /\ lost' = lost \union {arrived + 1}
        /\ UNCHANGED <<pend, newdat, msglst, deaf, data, val, lower, received, dropped>>
        /\ arrived \in Nat
    BY WeightAssumption DEF HwReceive, HwReject, pollVars, RxTypeOK
  <1>2. ObjInv'
    BY <1>1 DEF OnlyLastLost, PendingHeld, UpperPending, CopyHeld, LowFilled,
                LowRead, CopyFilled
  <1>3. Unread' = Unread /\ Handed' = Handed /\ Waiting' = Waiting
    BY <1>1 DEF Unread, Handed, Waiting
  <1>4. arrived + 1 \notin 1 .. arrived
        /\ 1 .. arrived' = (1 .. arrived) \union {arrived + 1}
    BY <1>1
  <1>5. EachFrameOnce'
    BY <1>1, <1>3, <1>4 DEF EachFrameOnce
  <1> QED
    BY <1>1, <1>2, <1>3, <1>5 DEF LowOrder, LowGroupInOrder

(* c_can_handle_lost_msg_obj: only ever the last object.                   *)
LEMMA HandleLostInv ==
    RxIInv /\ HandleLost => ObjInv' /\ EachFrameOnce' /\ LowOrder' /\ LowGroupInOrder'
  <1> SUFFICES ASSUME RxIInv, HandleLost
               PROVE  ObjInv' /\ EachFrameOnce' /\ LowOrder' /\ LowGroupInOrder'
    OBVIOUS
  <1> USE DEF RxIInv, ObjInv
  <1>1. PICK o \in val : HandleLost!1!(o)
    BY DEF HandleLost
  <1>2. o = EndOfBuffer /\ o \in Unread /\ o \notin LowGroup
    BY <1>1, TakeFacts, Groups DEF OnlyLastLost
  <1>3. UNCHANGED <<data, lower, arrived, received, dropped>>
    BY DEF HandleLost
  <1>4. OnlyLastLost' /\ PendingHeld' /\ UpperPending' /\ CopyHeld'
    BY <1>1, <1>2, <1>3 DEF OnlyLastLost, PendingHeld, UpperPending, CopyHeld
  <1>5. LowFilled' /\ LowRead' /\ CopyFilled'
    BY <1>1, <1>2, <1>3 DEF LowFilled, LowRead, CopyFilled
  <1>6. Unread' = Unread \ {o}
    BY <1>1, <1>3 DEF Unread
  <1> QED
    BY <1>1, <1>2, <1>3, <1>4, <1>5, <1>6, FrameGone

(* c_can_read_msg_object, and what is done to the object afterwards.       *)
LEMMA ReadOneInv ==
    RxIInv /\ ReadOne => ObjInv' /\ EachFrameOnce' /\ LowOrder' /\ LowGroupInOrder'
  <1> SUFFICES ASSUME RxIInv, ReadOne
               PROVE  ObjInv' /\ EachFrameOnce' /\ LowOrder' /\ LowGroupInOrder'
    OBVIOUS
  <1> USE DEF RxIInv, ObjInv
  <1>1. PICK o \in val \ (msglst \union {EndOfBuffer}) : ReadOne!1!(o)
    BY DEF ReadOne
  <1>2. /\ o \in val /\ o \in RxObjs /\ o \in pend /\ o \in newdat /\ o \in Unread
        /\ lower = 0 /\ \A p \in val : o <= p
    BY <1>1, TakeFacts
  <1>3. val' = val \ {o} /\ UNCHANGED <<msglst, deaf, data, arrived, lost>>
    BY <1>1 DEF ReadOne
  <1>4. \A p \in LowGroup : o \in LowGroup /\ p \in pend => o <= p
    BY <1>2, Groups DEF CopyFilled
  <1>5. OnlyLastLost'
    BY <1>3 DEF OnlyLastLost
  <1>6. ObjInv' /\ Unread' = Unread \ {o}
    <2>1. CASE KeepsNewdat(o) /\ MarkRx(o)
      <3>1. o < LowLast /\ pend' = pend \ {o} /\ UNCHANGED <<newdat, lower>>
        BY <2>1 DEF KeepsNewdat, MarkRx
      <3>2. PendingHeld' /\ UpperPending' /\ CopyHeld'
        BY <1>3, <3>1, <1>2, Groups DEF PendingHeld, UpperPending, CopyHeld
      <3>3. LowFilled' /\ LowRead' /\ CopyFilled'
        BY <1>2, <1>3, <3>1 DEF LowFilled, LowRead, CopyFilled
      <3>4. Unread' = Unread \ {o}
        BY <1>2, <3>1 DEF Unread
      <3> QED
        BY <1>5, <3>2, <3>3, <3>4
    <2>2. CASE o > LowLast /\ ActivateRx(o)
      <3>1. /\ o > LowLast /\ pend' = pend \ {o} /\ newdat' = newdat \ {o}
            /\ lower' = lower
        BY <2>2 DEF ActivateRx
      <3>2. PendingHeld' /\ UpperPending' /\ CopyHeld'
        BY <1>3, <3>1 DEF PendingHeld, UpperPending, CopyHeld
      <3>3. LowFilled' /\ LowRead' /\ CopyFilled'
        BY <1>2, <1>3, <3>1, Groups DEF LowFilled, LowRead, CopyFilled
      <3>4. Unread' = Unread \ {o}
        BY <1>2, <3>1 DEF Unread
      <3> QED
        BY <1>5, <3>2, <3>3, <3>4
    <2>3. CASE /\ ~KeepsNewdat(o) /\ o <= LowLast /\ lower' = 1
               /\ UNCHANGED <<newdat, pend>>
      <3>1. o = LowLast /\ o \in LowGroup
        BY <1>2, <2>3, Groups DEF KeepsNewdat
      <3>2. PendingHeld' /\ UpperPending' /\ CopyHeld'
        BY <1>3, <2>3 DEF PendingHeld, UpperPending, CopyHeld
      <3>3. LowFilled' /\ CopyFilled'
        <4>1. \A p \in LowGroup : p >= 1 /\ p <= o
          BY <3>1, Groups
        <4>2. LowFilled'
          BY <2>3, <4>1, Groups DEF LowFilled
        <4>3. CopyFilled'
          BY <1>2, <1>3, <2>3, <3>1, <4>1, Groups DEF CopyFilled
        <4> QED
          BY <4>2, <4>3
      <3>4. LowRead'
        <4>1. \A p \in LowGroup : p <= LowLast /\ p >= 1
          BY Groups
        <4>2. \A p \in LowGroup : p \notin val'
          <5>1. \A p \in val : p >= LowLast
            BY <1>2, <3>1
          <5>2. \A p \in LowGroup : p >= LowLast => p = LowLast
            BY <4>1, Groups
          <5> QED
            BY <1>3, <3>1, <5>1, <5>2
        <4>3. \A p \in LowGroup : p \in newdat /\ (p < LowLast => p \notin pend)
          BY <1>2, <1>4, <3>1, <4>1, Groups DEF LowFilled
        <4> QED
          BY <2>3, <4>2, <4>3 DEF LowRead
      <3>5. Unread' = Unread \ {o}
        BY <1>2, <2>3, <3>1 DEF Unread
      <3> QED
        BY <1>5, <3>2, <3>3, <3>4, <3>5
    <2> QED
      BY <1>1, <1>2, <2>1, <2>2, <2>3
  <1>7. o \in LowGroup => \A p \in Unread \intersect LowGroup : o <= p
    BY <1>4 DEF Unread
  <1>8. Deliver(o)
    BY <1>1, <1>2
  <1>9. CASE received' = Append(received, [frame |-> data[o], obj |-> o])
             /\ UNCHANGED dropped
    BY <1>2, <1>3, <1>6, <1>7, <1>9, FrameHanded
  <1>10. CASE dropped' = dropped \union {data[o]} /\ UNCHANGED received
    BY <1>2, <1>3, <1>6, <1>10, FrameGone
  <1> QED
    BY <1>6, <1>8, <1>9, <1>10 DEF Deliver

(* activate_all_lower clears only objects that have been read.             *)
LEMMA ActivateLowerInv ==
    RxIInv /\ ActivateLower => ObjInv' /\ EachFrameOnce' /\ LowOrder' /\ LowGroupInOrder'
  <1> SUFFICES ASSUME RxIInv, ActivateLower
               PROVE  ObjInv' /\ EachFrameOnce' /\ LowOrder' /\ LowGroupInOrder'
    OBVIOUS
  <1> USE DEF RxIInv, ObjInv
  <1>1. /\ lower \in LowGroup /\ newdat' = newdat \ {lower} /\ pend' = pend \ {lower}
        /\ lower' = IF lower = LowLast THEN 0 ELSE lower + 1
        /\ UNCHANGED <<msglst, deaf, data, val>> /\ UNCHANGED history
    BY DEF ActivateLower, RxTypeOK
  <1>2. /\ \A o \in LowGroup : o \notin val
        /\ lower \in newdat /\ (lower < LowLast => lower \notin pend)
    BY <1>1, Groups DEF LowRead
  <1>3. OnlyLastLost' /\ PendingHeld' /\ UpperPending' /\ CopyHeld'
    BY <1>1, <1>2 DEF OnlyLastLost, PendingHeld, UpperPending, CopyHeld
  <1>4. LowFilled'
    BY <1>1, Groups DEF LowFilled
  <1>5. LowRead'
    BY <1>1, <1>2, Groups DEF LowRead
  <1>6. CopyFilled'
    BY <1>1, <1>2 DEF CopyFilled
  <1>7. Unread' = Unread
    <2>1. lower \notin Unread /\ LowLast \notin Unread
      BY <1>1, <1>2, Groups DEF Unread
    <2>2. LowLast \in newdat' => lower' # 0
      BY <1>1, Groups
    <2> QED
      BY <1>1, <2>1, <2>2, Groups DEF Unread
  <1> QED
    BY <1>1, <1>3, <1>4, <1>5, <1>6, <1>7, FramesStay

(* Every step of driver and controller keeps the invariant.                *)
LEMMA RxNextInv == RxIInv /\ [RxNext]_rxVars => RxIInv'
  <1> SUFFICES ASSUME RxIInv, [RxNext]_rxVars PROVE RxIInv'
    OBVIOUS
  <1>1. RxTypeOK'
    BY RxNextType DEF RxIInv
  <1> SUFFICES ObjInv' /\ EachFrameOnce' /\ LowOrder' /\ LowGroupInOrder'
    BY <1>1 DEF RxIInv
  <1>2. CASE HwReceive
    BY <1>2, StoreInv, OverwriteInv, RejectInv DEF HwReceive
  <1>3. CASE HwNotRx
    BY <1>3, RxQuiet DEF HwNotRx, objVars, pollVars
  <1>4. CASE IsrRx
    BY <1>4, RxQuiet DEF IsrRx, Isr, objVars, pollVars
  <1>5. CASE PollNotRx
    BY <1>5, RxQuiet DEF PollNotRx, objVars, pollVars
  <1>6. CASE PollRxBegin
    BY <1>6, RxQuiet DEF PollRxBegin, PollBegin, objVars
  <1>7. CASE ReadPending
    BY <1>7, RxQuiet DEF ReadPending, irqVars, objVars
  <1>8. CASE PollRxEnd
    BY <1>8, RxQuiet DEF PollRxEnd, objVars
  <1>9. CASE HandleLost
    BY <1>9, HandleLostInv
  <1>10. CASE ReturnAtEob
    BY <1>10, RxQuiet DEF ReturnAtEob, objVars
  <1>11. CASE ReadOne
    BY <1>11, ReadOneInv
  <1>12. CASE ActivateLower
    BY <1>12, ActivateLowerInv
  <1>13. CASE UNCHANGED rxVars
    BY <1>13, RxQuiet DEF rxVars, irqVars, objVars, pollVars
  <1> QED
    BY <1>2, <1>3, <1>4, <1>5, <1>6, <1>7, <1>8, <1>9, <1>10, <1>11, <1>12, <1>13
    DEF RxNext

(* The receive objects start empty.                                        *)
LEMMA RxInitInv == RxInit => RxIInv
  <1> SUFFICES ASSUME RxInit PROVE RxIInv
    OBVIOUS
  <1>1. RxTypeOK
    BY Groups, WeightAssumption
    DEF RxInit, RxTypeOK, IrqInit, IrqTypeOK, NapiStates, FramesRx
  <1>2. ObjInv
    BY Groups DEF RxInit, IrqInit, ObjInv, OnlyLastLost, PendingHeld, UpperPending,
                  CopyHeld, LowFilled, LowRead, CopyFilled
  <1>3. Unread = {} /\ DOMAIN received = {}
    BY DEF RxInit, Unread
  <1>4. EachFrameOnce
    BY <1>3 DEF RxInit, EachFrameOnce, Handed, Waiting
  <1> QED
    BY <1>1, <1>2, <1>3, <1>4 DEF RxIInv, LowOrder, LowGroupInOrder

(***************************************************************************)
(* Theorems.                                                               *)
(***************************************************************************)

(* The invariant of the receive objects holds whatever the controller      *)
(* stores between two register accesses of the poll.                       *)
THEOREM RxInvariance == RxSpec => []RxIInv
  BY RxInitInv, RxNextInv, PTL DEF RxSpec

(* Every variable of the receive side keeps its type: the quota never goes *)
(* below 0, and activate_all_lower never leaves the low group.             *)
THEOREM RxTypeCorrect == RxSpec => []RxTypeOK
  <1>1. RxIInv => RxTypeOK
    BY DEF RxIInv
  <1> QED
    BY <1>1, RxInvariance, PTL

(* No frame is lost silently or handed over twice: reopening the low group *)
(* never clears a frame that came in meanwhile.                            *)
THEOREM NoFrameTwice == RxSpec => []EachFrameOnce
  <1>1. RxIInv => EachFrameOnce
    BY DEF RxIInv
  <1> QED
    BY <1>1, RxInvariance, PTL

(* Frames of the low group are handed over in order.                       *)
THEOREM LowGroupOrdered == RxSpec => []LowGroupInOrder
  <1>1. RxIInv => LowGroupInOrder
    BY DEF RxIInv
  <1> QED
    BY <1>1, RxInvariance, PTL

=============================================================================
