---------------------------- MODULE SpiAtmelProofs ---------------------------
(***************************************************************************)
(* Proofs about SpiAtmel: a wait ends with its own transfer, the chip      *)
(* meant is selected and no other that nobody asked for, and the speed is  *)
(* the one asked for, for any chips, speeds and lengths of messages.       *)
(***************************************************************************)
EXTENDS SpiAtmel, TLAPS

(* No device is set up during its message.                                 *)
Orderly == SetupIdle

-----------------------------------------------------------------------------
(* Type correctness                                                        *)

(* The rest of a transfer keeps the types.                                 *)
LEMMA EndTyped ==
    ASSUME TypeOK, NEW bad \in BOOLEAN, NEW last \in BOOLEAN,
           EndTransfer(bad, last), done' \in BOOLEAN
    PROVE  TypeOK'
  <1>1. /\ failed' \in BOOLEAN /\ hw' \in {"zero", "run", "stuck"}
        /\ overrun' \in BOOLEAN /\ arrived' \in BOOLEAN /\ status' \in BOOLEAN
        /\ pc' \in Unlocked \union {"next"}
        /\ selected' \in SUBSET Chips /\ held' \in SUBSET Chips
    BY DEF TypeOK, EndTransfer, AfterTransfer, Unlocked, Xfers
  <1> QED
    BY <1>1 DEF TypeOK, EndTransfer, rate

(* A step keeps the types.                                                 *)
LEMMA Typing == TypeOK /\ [Next]_vars => TypeOK'
  <1> SUFFICES ASSUME TypeOK, [Next]_vars PROVE TypeOK'
    OBVIOUS
  <1>1. ASSUME NEW c \in Chips, Setup(c) PROVE TypeOK'
    BY <1>1 DEF TypeOK, Setup, wait, control, message
  <1>2. ASSUME NEW c \in Chips, SetupSpeed(c) PROVE TypeOK'
    BY <1>2 DEF TypeOK, SetupSpeed, wait, control, message, selects
  <1>3. ASSUME NEW c \in Chips, Message(c) PROVE TypeOK'
    BY <1>3, BoundAssumption DEF TypeOK, Message, control, rate
  <1>4. ASSUME NEW x \in Xfers, StartTransfer(x) PROVE TypeOK'
    <2>1. pc' \in Unlocked /\ selected' \in SUBSET Chips /\ count' \in 0 .. MaxXfers
      BY <1>4, BoundAssumption DEF TypeOK, StartTransfer, SelectChip, Unlocked
    <2>2. running' \in 0 .. 2 /\ failed' \in BOOLEAN /\ done' \in BOOLEAN
      <3>1. running' \in {1, 2} /\ failed' = FALSE /\ done' = FALSE
        BY <1>4 DEF StartTransfer, Arm, WaitKinds
      <3>2. running' \in 0 .. 2
        BY <3>1
      <3>3. failed' \in BOOLEAN /\ done' \in BOOLEAN
        BY <3>1, Zenon
      <3> QED
        BY <3>2, <3>3
    <2>3. /\ csr' \in [Chips -> Speeds \union {NoSpeed}]
          /\ speed' \in [Chips -> Speeds \union {NoSpeed}]
          /\ reg' \in [Chips -> Speeds \union {NoSpeed}]
      BY <1>4 DEF TypeOK, StartTransfer, SetSpeed, Xfers
    <2> QED
      BY <1>4, <2>1, <2>2, <2>3 DEF TypeOK, StartTransfer
  <1>5. CASE MapFails
    BY <1>5 DEF TypeOK, MapFails, control, rate, Unlocked
  <1>6. CASE ChooseWait \/ TimeOut
    BY <1>6 DEF TypeOK, ChooseWait, TimeOut, control, rate, message, selects, Unlocked
  <1>7. CASE WakeUp
    BY <1>7, EndTyped DEF TypeOK, WakeUp
  <1>8. CASE BusyEnds
    BY <1>8, EndTyped DEF TypeOK, BusyEnds
  <1>9. CASE GiveUp
    BY <1>9, EndTyped DEF TypeOK, GiveUp
  <1>10. CASE HwEnd \/ HwOverrun
    BY <1>10 DEF TypeOK, HwEnd, HwOverrun, wait, rate, message, selects
  <1>11. CASE Interrupt
    <2>1. running' \in 0 .. 2 /\ done' \in BOOLEAN /\ failed' \in BOOLEAN
          /\ mask' \in SUBSET {"ENDRX", "OVRES"} /\ overrun' \in BOOLEAN
      <3>1. running' = 0 /\ done' = (done \/ running > 1)
        BY <1>11 DEF Interrupt, Notify
      <3>2. /\ overrun' \in {overrun, FALSE} /\ failed' \in {failed, TRUE}
            /\ mask' = {} \/ mask' = mask \ {"ENDRX"}
        BY <1>11 DEF Interrupt
      <3>3. /\ running' \in 0 .. 2
            /\ mask' \in SUBSET {"ENDRX", "OVRES"}
        <4>1. mask \in SUBSET {"ENDRX", "OVRES"}
          BY DEF TypeOK
        <4>2. mask' \in SUBSET {"ENDRX", "OVRES"}
          BY <3>2, <4>1
        <4> QED
          BY <3>1, <4>2
      <3>4. done' \in BOOLEAN
        BY <3>1, Zenon
      <3>5. overrun' \in BOOLEAN /\ failed' \in BOOLEAN
        BY <3>2, Zenon DEF TypeOK
      <3> QED
        BY <3>3, <3>4, <3>5
    <2> QED
      BY <1>11, <2>1 DEF TypeOK, Interrupt, rate, message, selects
  <1>12. CASE UNCHANGED vars
    BY <1>12 DEF TypeOK, vars, wait, control, rate, message, selects
  <1> QED
    BY <1>1, <1>2, <1>3, <1>4, <1>5, <1>6, <1>7, <1>8, <1>9, <1>10, <1>11, <1>12
    DEF Next, Pump

(* The initial state has the types.                                        *)
LEMMA InitTyped == Init => TypeOK
  <1> SUFFICES ASSUME Init PROVE TypeOK
    OBVIOUS
  <1>1. /\ csr \in [Chips -> Speeds \union {NoSpeed}]
        /\ speed \in [Chips -> Speeds \union {NoSpeed}]
        /\ reg \in [Chips -> Speeds \union {NoSpeed}]
    BY DEF Init
  <1>2. count \in 0 .. MaxXfers /\ running \in 0 .. 2
    BY BoundAssumption DEF Init
  <1> QED
    BY <1>1, <1>2 DEF Init, TypeOK, Unlocked

(* Every variable keeps its type, whatever clients do.                     *)
THEOREM SpiTypeCorrect == Spec => []TypeOK
  <1> QED
    BY InitTyped, Typing, PTL DEF Spec

-----------------------------------------------------------------------------
(* The end of a wait                                                       *)

(* An overrun the interrupt has not seen yet has stopped the counters.     *)
Overruns == pc \in UnderWay /\ overrun => hw = "stuck"

WaitInv == TypeOK /\ Overruns /\ EndIsOwn

(* A transfer that has ended is not under way.                             *)
LEMMA EndLeaves ==
    ASSUME NEW bad, NEW last, EndTransfer(bad, last)
    PROVE  pc' \notin UnderWay
  BY DEF EndTransfer, UnderWay

(* Neither the controller nor the driver ends another's wait.              *)
LEMMA WaitKept == WaitInv /\ [Next]_vars => WaitInv'
  <1> SUFFICES ASSUME WaitInv, [Next]_vars PROVE WaitInv'
    OBVIOUS
  <1>0. TypeOK /\ TypeOK'
    BY Typing DEF WaitInv
  <1> USE DEF WaitInv, Overruns, EndIsOwn
  <1>1. ASSUME NEW c \in Chips, Setup(c) \/ SetupSpeed(c) PROVE WaitInv'
    BY <1>0, <1>1 DEF Setup, SetupSpeed, wait, control
  <1>2. ASSUME NEW c \in Chips, Message(c) PROVE WaitInv'
    BY <1>0, <1>2 DEF Message, UnderWay
  <1>3. ASSUME NEW x \in Xfers, StartTransfer(x) PROVE WaitInv'
    <2>1. running' # 0 /\ done' = FALSE /\ overrun' = FALSE
      BY <1>3 DEF StartTransfer, Arm, WaitKinds
    <2> QED
      BY <1>0, <2>1
  <1>4. CASE MapFails
    BY <1>0, <1>4 DEF MapFails, UnderWay
  <1>5. CASE ChooseWait \/ TimeOut
    BY <1>0, <1>5 DEF ChooseWait, TimeOut, control, UnderWay
  <1>6. CASE WakeUp \/ BusyEnds \/ GiveUp
    BY <1>0, <1>6, EndLeaves DEF WakeUp, BusyEnds, GiveUp
  <1>7. CASE HwEnd
    BY <1>0, <1>7 DEF HwEnd, wait
  <1>8. CASE HwOverrun
    BY <1>0, <1>8 DEF HwOverrun, wait
  <1>9. CASE Interrupt
    <2>1. CASE overrun /\ "OVRES" \in mask
      BY <1>0, <1>9, <2>1 DEF Interrupt, UnderWay
    <2>2. CASE ~(overrun /\ "OVRES" \in mask)
      BY <1>0, <1>9, <2>2 DEF Interrupt, UnderWay
    <2> QED
      BY <2>1, <2>2
  <1>10. CASE UNCHANGED vars
    BY <1>0, <1>10 DEF vars, wait, control
  <1> QED
    BY <1>1, <1>2, <1>3, <1>4, <1>5, <1>6, <1>7, <1>8, <1>9, <1>10
    DEF Next, Pump

(* What ends a wait is the end of its own transfer, after time-outs and    *)
(* overruns too, and whatever clients do.                                  *)
THEOREM WaitEndsOwn == Spec => []EndIsOwn
  <1>1. Init => WaitInv
    BY InitTyped DEF Init, WaitInv, Overruns, EndIsOwn, UnderWay
  <1>2. WaitInv => EndIsOwn
    BY DEF WaitInv
  <1> QED
    BY <1>1, <1>2, WaitKept, PTL DEF Spec

-----------------------------------------------------------------------------
(* Chip selects                                                            *)

(* Between transfers only cs_change takes the chip of the message away.    *)
SelectedFor ==
    /\ SelectedAsMeant
    /\ pc = "next" => count = 0 \/ xfer.hint \/ chip \in selected

SelectInv == TypeOK /\ SelectedFor

(* Selecting and deselecting keep to the chip of the message.              *)
LEMMA SelectKept == Orderly /\ SelectInv /\ [Next]_vars => SelectInv'
  <1> SUFFICES ASSUME Orderly, SelectInv, [Next]_vars PROVE SelectInv'
    OBVIOUS
  <1>0. TypeOK /\ TypeOK'
    BY Typing DEF SelectInv
  <1> USE DEF SelectInv, SelectedFor, SelectedAsMeant, selects
  <1>1. ASSUME NEW c \in Chips, Setup(c) PROVE SelectInv'
    BY <1>0, <1>1 DEF Setup, Orderly, wait, message, Unlocked, UnderWay
  <1>2. ASSUME NEW c \in Chips, SetupSpeed(c) PROVE SelectInv'
    BY <1>0, <1>2 DEF SetupSpeed, wait, message
  <1>3. ASSUME NEW c \in Chips, Message(c) PROVE SelectInv'
    BY <1>0, <1>3 DEF Message, Orderly, UnderWay
  <1>4. ASSUME NEW x \in Xfers, StartTransfer(x) PROVE SelectInv'
    <2>1. /\ pc = "next" /\ pc' = "started" /\ chip' = chip /\ held' = held
          /\ SelectChip
      BY <1>4 DEF StartTransfer
    <2>2. selected' = selected \union {chip}
      BY <1>4, <2>1 DEF SelectChip
    <2> QED
      BY <1>0, <2>1, <2>2
  <1>5. CASE MapFails
    BY <1>0, <1>5 DEF MapFails, UnderWay
  <1>6. CASE ChooseWait \/ TimeOut
    BY <1>0, <1>6 DEF ChooseWait, TimeOut, message, UnderWay
  <1>7. ASSUME NEW bad, NEW last \in BOOLEAN, EndTransfer(bad, last), pc \in UnderWay
        PROVE  SelectInv'
    <2>1. chip' = chip /\ xfer' = xfer /\ pc' \notin UnderWay
          /\ pc' = (IF last THEN "idle" ELSE "next")
      BY <1>7, EndLeaves DEF EndTransfer
    <2>2. /\ selected' \subseteq selected /\ held \subseteq held'
          /\ (~last /\ ~xfer.hint => selected' = selected)
          /\ (last /\ chip \in selected' => chip \in held')
      BY <1>0, <1>7 DEF EndTransfer, AfterTransfer, TypeOK, Xfers
    <2> QED
      BY <1>0, <1>7, <2>1, <2>2
  <1>8. CASE WakeUp \/ BusyEnds \/ GiveUp
    BY <1>7, <1>8 DEF WakeUp, BusyEnds, GiveUp, UnderWay
  <1>9. CASE HwEnd \/ HwOverrun \/ Interrupt
    BY <1>0, <1>9 DEF HwEnd, HwOverrun, Interrupt, wait, message
  <1>10. CASE UNCHANGED vars
    BY <1>0, <1>10 DEF vars, wait, message
  <1> QED
    BY <1>1, <1>2, <1>3, <1>4, <1>5, <1>6, <1>8, <1>9, <1>10 DEF Next, Pump

(* A transfer under way has its chip selected, and no other one that its   *)
(* own client did not leave selected.                                      *)
THEOREM ChipAlwaysSelected == Orderly /\ Spec => []SelectedAsMeant
  <1>1. Init => SelectInv
    BY InitTyped DEF Init, SelectInv, SelectedFor, SelectedAsMeant, UnderWay
  <1>2. SelectInv => SelectedAsMeant
    BY DEF SelectInv, SelectedFor
  <1>3. Orderly /\ SelectInv /\ [Next]_vars => SelectInv'
    BY SelectKept
  <1> SUFFICES ASSUME Orderly PROVE Spec => []SelectedAsMeant
    OBVIOUS
  <1> QED
    BY <1>1, <1>2, <1>3, PTL DEF Spec

-----------------------------------------------------------------------------
(* Speeds                                                                  *)

(* Outside spi_setup a valid cached speed is that of the csr.              *)
CacheRight ==
    /\ \A c \in Chips \ half : speed[c] # NoSpeed => csr[c] = speed[c]
    /\ pc # "idle" => chip \notin half

SpeedInv == TypeOK /\ CacheRight /\ SpeedAsAsked

(* The cache is right whenever a transfer looks at it.                     *)
LEMMA SpeedKept == Orderly /\ SpeedInv /\ [Next]_vars => SpeedInv'
  <1> SUFFICES ASSUME Orderly, SpeedInv, [Next]_vars PROVE SpeedInv'
    OBVIOUS
  <1>0. TypeOK /\ TypeOK'
    BY Typing DEF SpeedInv
  <1> USE DEF SpeedInv, CacheRight, SpeedAsAsked
  <1>1. ASSUME NEW c \in Chips, Setup(c) PROVE SpeedInv'
    <2>1. /\ pc' = pc /\ chip' = chip /\ xfer' = xfer /\ reg' = reg /\ speed' = speed
          /\ csr' = [csr EXCEPT ![c] = NoSpeed] /\ half' = half \union {c}
          /\ (pc # "idle" => chip # c)
      BY <1>1 DEF Setup, Orderly, wait, message
    <2> QED
      BY <1>0, <2>1 DEF TypeOK
  <1>2. ASSUME NEW c \in Chips, SetupSpeed(c) PROVE SpeedInv'
    <2>1. /\ pc' = pc /\ chip' = chip /\ xfer' = xfer /\ reg' = reg /\ csr' = csr
          /\ speed' = [speed EXCEPT ![c] = NoSpeed] /\ half' = half \ {c}
      BY <1>2 DEF SetupSpeed, wait, message
    <2> QED
      BY <1>0, <2>1 DEF TypeOK
  <1>3. ASSUME NEW c \in Chips, Message(c) PROVE SpeedInv'
    BY <1>0, <1>3 DEF Message, Orderly, rate, UnderWay
  <1>4. ASSUME NEW x \in Xfers, StartTransfer(x) PROVE SpeedInv'
    <2>1. /\ pc = "next" /\ chip' = chip /\ xfer' = x /\ half' = half
          /\ SetSpeed(chip, x.speed) /\ chip \in Chips \ half
      BY <1>0, <1>4 DEF StartTransfer, TypeOK
    <2>2. CASE x.speed = TooSlow
      BY <1>0, <2>1, <2>2 DEF SetSpeed
    <2>3. CASE x.speed # TooSlow
      <3>1. x.speed \in Speeds /\ x.speed # NoSpeed
        BY <1>4, <2>3, SpeedAssumption DEF Xfers
      <3>2. CASE speed[chip] = x.speed
        <4>1. reg' = [reg EXCEPT ![chip] = csr[chip]] /\ csr' = csr /\ speed' = speed
          BY <2>1, <2>3, <3>2 DEF SetSpeed
        <4> QED
          BY <1>0, <2>1, <3>1, <3>2, <4>1 DEF TypeOK
      <3>3. CASE speed[chip] # x.speed
        <4>1. /\ reg' = [reg EXCEPT ![chip] = x.speed]
              /\ csr' = [csr EXCEPT ![chip] = x.speed]
              /\ speed' = [speed EXCEPT ![chip] = x.speed]
          BY <2>1, <2>3, <3>3 DEF SetSpeed
        <4> QED
          BY <1>0, <2>1, <4>1 DEF TypeOK
      <3> QED
        BY <3>2, <3>3
    <2> QED
      BY <2>2, <2>3
  <1>5. CASE MapFails
    BY <1>0, <1>5 DEF MapFails, rate, UnderWay
  <1>6. CASE ChooseWait \/ TimeOut
    BY <1>0, <1>6 DEF ChooseWait, TimeOut, rate, message, UnderWay
  <1>7. ASSUME NEW bad, NEW last, EndTransfer(bad, last), pc \in UnderWay
        PROVE  SpeedInv'
    <2>1. chip' = chip /\ UNCHANGED rate /\ pc' \notin UnderWay /\ pc # "idle"
      BY <1>7, EndLeaves DEF EndTransfer, UnderWay
    <2> QED
      BY <1>0, <2>1 DEF rate
  <1>8. CASE WakeUp \/ BusyEnds \/ GiveUp
    BY <1>7, <1>8 DEF WakeUp, BusyEnds, GiveUp, UnderWay
  <1>9. CASE HwEnd \/ HwOverrun \/ Interrupt
    BY <1>0, <1>9 DEF HwEnd, HwOverrun, Interrupt, wait, rate, message
  <1>10. CASE UNCHANGED vars
    BY <1>0, <1>10 DEF vars, wait, rate, message
  <1> QED
    BY <1>1, <1>2, <1>3, <1>4, <1>5, <1>6, <1>8, <1>9, <1>10 DEF Next, Pump

(* A transfer runs at the speed it asked for.                              *)
THEOREM SpeedAlwaysAsked == Orderly /\ Spec => []SpeedAsAsked
  <1>1. Init => SpeedInv
    BY InitTyped DEF Init, SpeedInv, CacheRight, SpeedAsAsked, UnderWay
  <1>2. SpeedInv => SpeedAsAsked
    BY DEF SpeedInv
  <1>3. Orderly /\ SpeedInv /\ [Next]_vars => SpeedInv'
    BY SpeedKept
  <1> SUFFICES ASSUME Orderly PROVE Spec => []SpeedAsAsked
    OBVIOUS
  <1> QED
    BY <1>1, <1>2, <1>3, PTL DEF Spec
=============================================================================
