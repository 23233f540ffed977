-------------------------- MODULE ScreenLayerProofs --------------------------
(***************************************************************************)
(* Proofs about ScreenLayer, for any number of client processes: as long   *)
(* as the clients are orderly and no allocation fails, the layers form one *)
(* of the chains the code's comment lists, the half of the frame buffer    *)
(* that is composed is not the one on the screen, and what is panned to is *)
(* the layers as they are, whatever IPU tasks, pans and loads fail.        *)
(***************************************************************************)
EXTENDS ScreenLayer, FiniteSetTheorems, FunctionTheorems, TLAPS

(***************************************************************************)
(* Type correctness.                                                       *)
(***************************************************************************)

LEMMA ZeroedLayer ==
    /\ Zeroed \in Layer
    /\ \A w \in BOOLEAN : [Zeroed EXCEPT !.whole = w] \in Layer
    /\ \A d \in Targets : PrimaryLayer(d) \in Layer
  <1>1. Zeroed \in Layer
    BY DEF Zeroed, Layer, Link, Targets, Halves
  <1>2. \A w \in BOOLEAN : [Zeroed EXCEPT !.whole = w] \in Layer
    BY <1>1 DEF Layer
  <1>3. \A d \in Targets : PrimaryLayer(d) \in Layer
    BY <1>1 DEF PrimaryLayer, Layer
  <1> QED
    BY <1>1, <1>2, <1>3

(* Updates of one field of a layer.                                        *)
LEMMA FieldTypes ==
    ASSUME NEW s \in [Ids -> Layer], NEW i \in Ids
    PROVE  /\ \A j \in Link : [s EXCEPT ![i].next = j] \in [Ids -> Layer]
           /\ \A j \in Link : [s EXCEPT ![i].pre = j] \in [Ids -> Layer]
           /\ \A d \in Targets : [s EXCEPT ![i].disp = d] \in [Ids -> Layer]
           /\ \A h \in Halves : [s EXCEPT ![i].curDispIdx = h] \in [Ids -> Layer]
  BY DEF Layer

LEMMA LastLayerType ==
    ASSUME NEW s \in [Ids -> Layer]
    PROVE  LastLayer(s) \in Ids
  BY DEF LastLayer, Layer, Link, Ids

LEMMA AppendType ==
    ASSUME slot \in [Ids -> Layer], NEW i \in Ids, NEW w \in BOOLEAN
    PROVE  /\ AppendLayer(i, w) \in [Ids -> Layer]
           /\ AppendLayer(i, w)[i].pre \in Ids
  <1> DEFINE s == [slot EXCEPT ![i] = [Zeroed EXCEPT !.whole = w]]
             last == LastLayer(s)
             t == [s EXCEPT ![last].next = i]
  <1>1. s \in [Ids -> Layer]
    BY ZeroedLayer
  <1>2. last \in Ids
    BY <1>1, LastLayerType
  <1>3. AppendLayer(i, w) = [t EXCEPT ![i].pre = last]
    BY DEF AppendLayer
  <1> HIDE DEF s, last
  <1>4. i \in Link /\ last \in Link
    BY <1>2 DEF Link, Ids
  <1>5. t \in [Ids -> Layer]
    BY <1>1, <1>2, <1>4, FieldTypes
  <1> HIDE DEF t
  <1>6. [t EXCEPT ![i].pre = last] \in [Ids -> Layer]
    BY <1>4, <1>5, FieldTypes
  <1>7. [t EXCEPT ![i].pre = last][i].pre = last
    BY <1>2, <1>5 DEF Layer
  <1> QED
    BY <1>2, <1>3, <1>6, <1>7

LEMMA MemAllocType ==
    ASSUME NEW s \in [Ids -> Layer], NEW i \in Ids, s[i].pre \in Ids
    PROVE  MemAllocSL(s, i) \in [Ids -> Layer]
  <1> DEFINE p == s[i].pre
             d == IF p = 1 THEN "null" ELSE "tmp"
             a == [s EXCEPT ![i].disp = s[p].disp]
             b == [a EXCEPT ![i].curDispIdx = s[p].curDispIdx]
             c == [b EXCEPT ![p].disp = d]
  <1>1. s[p].disp \in Targets /\ s[p].curDispIdx \in Halves /\ d \in Targets /\ 0 \in Halves
    BY DEF Layer, Targets, Halves
  <1>2. MemAllocSL(s, i) = [c EXCEPT ![p].curDispIdx = 0]
    BY DEF MemAllocSL
  <1> HIDE DEF p, d
  <1>3. a \in [Ids -> Layer]
    BY <1>1, FieldTypes
  <1> HIDE DEF a
  <1>4. b \in [Ids -> Layer]
    BY <1>1, <1>3, FieldTypes
  <1> HIDE DEF b
  <1>5. c \in [Ids -> Layer]
    BY <1>1, <1>4, FieldTypes DEF p
  <1> HIDE DEF c
  <1> QED
    BY <1>1, <1>2, <1>5, FieldTypes DEF p

LEMMA MemFreeType ==
    ASSUME NEW s \in [Ids -> Layer], NEW i \in Ids
    PROVE  MemFreeSL(s, i) \in [Ids -> Layer]
  <1>1. CASE s[i].pre = 0 \/ s[i].next # 0
    BY <1>1 DEF MemFreeSL
  <1>2. CASE ~(s[i].pre = 0 \/ s[i].next # 0)
    <2> DEFINE p == s[i].pre
               a == [s EXCEPT ![p].disp = s[i].disp]
               b == [a EXCEPT ![p].curDispIdx = s[i].curDispIdx]
    <2>1. p \in Ids /\ s[i].disp \in Targets /\ s[i].curDispIdx \in Halves
      BY <1>2 DEF Layer, Link, Ids
    <2>2. MemFreeSL(s, i) = [b EXCEPT ![i].disp = "null"] /\ "null" \in Targets
      BY <1>2 DEF MemFreeSL, Targets
    <2> HIDE DEF p
    <2>3. a \in [Ids -> Layer]
      BY <2>1, FieldTypes
    <2> HIDE DEF a
    <2>4. b \in [Ids -> Layer]
      BY <2>1, <2>3, FieldTypes
    <2> HIDE DEF b
    <2> QED
      BY <2>2, <2>4, FieldTypes
  <1> QED
    BY <1>1, <1>2

LEMMA UnlinkType ==
    ASSUME NEW s \in [Ids -> Layer], NEW i \in Ids
    PROVE  Unlink(s, i) \in [Ids -> Layer]
  <1> DEFINE p == s[i].pre
             n == s[i].next
             a == [s EXCEPT ![p].next = n]
  <1>1. p \in Link /\ n \in Link
    BY DEF Layer
  <1>2. Unlink(s, i) = IF p = 0 THEN s
                       ELSE IF n = 0 THEN [s EXCEPT ![p].next = 0]
                       ELSE [a EXCEPT ![n].pre = p]
    BY DEF Unlink
  <1> HIDE DEF p, n
  <1>3. ASSUME p # 0 PROVE a \in [Ids -> Layer] /\ [s EXCEPT ![p].next = 0] \in [Ids -> Layer]
    <2>1. p \in Ids /\ 0 \in Link
      BY <1>1, <1>3 DEF Link, Ids
    <2> QED
      BY <1>1, <2>1, FieldTypes
  <1> HIDE DEF a
  <1>4. n # 0 => n \in Ids
    BY <1>1 DEF Link, Ids
  <1> QED
    BY <1>1, <1>2, <1>3, <1>4, FieldTypes

(* Which calls need a layer, and where each call can be.                   *)
CallsOK ==
    \A p \in Procs :
        /\ pc[p] = "idle" <=> op[p] = "none"
        /\ pc[p] = "load" => op[p] = "load"
        /\ pc[p] = "disp" => op[p] \in {"flip", "update"}
        /\ pc[p] \in {"copy", "comb", "pan"} => op[p] = "update"
        /\ op[p] \in {"primary", "overlay"} => hd[p] = 0
        /\ op[p] \in {"destroy", "load", "flip", "set", "update"} => hd[p] # 0

LEMMA InitType == Init => TypeOK /\ CallsOK
  <1> SUFFICES ASSUME Init PROVE TypeOK /\ CallsOK
    OBVIOUS
  <1>1. TypeOK
    BY ZeroedLayer DEF Init, TypeOK, Blank, Ids, Link, Ops, PCs, Halves
  <1>2. CallsOK
    BY DEF Init, CallsOK
  <1> QED
    BY <1>1, <1>2

(* A layer of the shared memory for the process that creates one.          *)
LEMMA CreateType ==
    ASSUME TypeOK, CallsOK, NEW p \in Procs, CreateScreenLayer(p)
    PROVE  TypeOK' /\ CallsOK'
  <1> USE DEF CreateScreenLayer, Return, Go, Changed
  <1>1. FreeSlot \in Ids
    BY DEF FreeSlot, Ids
  <1>2. slot' \in [Ids -> Layer] /\ hd' \in [Procs -> Link] /\ agreed' \in BOOLEAN
        /\ \A q \in Procs : q # p => hd'[q] = hd[q]
    <2>1. CASE CreatePrimary(p)
      <3>1. slot' \in [Ids -> Layer]
        <4>1. PICK d \in Targets :
                 \/ slot' = [i \in Ids |-> Zeroed]
                 \/ slot' = [i \in Ids |-> IF i = 1 THEN PrimaryLayer(d) ELSE Zeroed]
          BY <2>1 DEF CreatePrimary, Targets
        <4> QED
          BY <4>1, ZeroedLayer
      <3>2. hd' \in [Procs -> Link] /\ \A q \in Procs : q # p => hd'[q] = hd[q]
        BY <2>1 DEF CreatePrimary, TypeOK, Link
      <3> QED
        BY <2>1, <3>1, <3>2 DEF CreatePrimary, TypeOK
    <2>2. CASE CreateOverlay(p)
      <3>1. CASE slot' = [slot EXCEPT ![FreeSlot] = Zeroed] /\ UNCHANGED hd
        BY <2>2, <3>1, ZeroedLayer DEF CreateOverlay, TypeOK
      <3>2. ASSUME NEW whole \in BOOLEAN, NEW ok \in Results("alloc"),
                   NEW moved \in {TRUE, ok},
                   slot' = IF moved THEN MemAllocSL(AppendLayer(FreeSlot, whole), FreeSlot)
                           ELSE AppendLayer(FreeSlot, whole),
                   hd' = IF ok THEN [hd EXCEPT ![p] = FreeSlot] ELSE hd
            PROVE  slot' \in [Ids -> Layer] /\ hd' \in [Procs -> Link]
                   /\ \A q \in Procs : q # p => hd'[q] = hd[q]
        <4>1. slot' \in [Ids -> Layer]
          BY <1>1, <3>2, AppendType, MemAllocType DEF TypeOK
        <4>2. FreeSlot \in Link
          BY <1>1 DEF Ids, Link
        <4> QED
          BY <3>2, <4>1, <4>2 DEF TypeOK
      <3> QED
        BY <2>2, <3>1, <3>2 DEF CreateOverlay, TypeOK
    <2> QED
      BY <2>1, <2>2
  <1>3. TypeOK'
    <2>1. PICK S : pic' = [b \in Buffers |-> pic[b] \ S]
      <3>1. CASE CreatePrimary(p)
        BY <3>1, Zenon DEF CreatePrimary
      <3>2. CASE CreateOverlay(p)
        BY <3>2, Zenon DEF CreateOverlay
      <3> QED
        BY <3>1, <3>2
    <2>2. pic' \in [Buffers -> SUBSET Ids]
      BY <2>1 DEF TypeOK
    <2> QED
      BY <1>2, <2>2 DEF TypeOK, Ops, PCs
  <1>4. CallsOK'
    BY <1>2 DEF CallsOK, TypeOK
  <1> QED
    BY <1>3, <1>4

(* The other calls of one step.                                            *)
LEMMA ShortType ==
    ASSUME TypeOK, CallsOK, NEW p \in Procs,
           DestoryScreenLayer(p) \/ SetScreenLayer(p) \/ FlipScreenLayerBuf(p)
    PROVE  TypeOK' /\ CallsOK'
  <1> USE DEF DestoryScreenLayer, SetScreenLayer, FlipScreenLayerBuf, Return, Go, Changed
  <1>1. slot' \in [Ids -> Layer]
    <2>1. CASE DestoryScreenLayer(p)
      <3>1. hd[p] \in Ids
        BY <2>1 DEF CallsOK, TypeOK, Link, Ids
      <3> QED
        BY <2>1, <3>1, MemFreeType, UnlinkType DEF TypeOK
    <2>2. CASE SetScreenLayer(p) \/ FlipScreenLayerBuf(p)
      BY <2>2 DEF TypeOK
    <2> QED
      BY <2>1, <2>2
  <1>2. hd' \in [Procs -> Link] /\ \A q \in Procs : q # p => hd'[q] = hd[q]
    BY DEF TypeOK, Link
  <1>3. TypeOK'
    BY <1>1, <1>2 DEF TypeOK, Ops, PCs
  <1>4. CallsOK'
    BY <1>2 DEF CallsOK, TypeOK
  <1> QED
    BY <1>3, <1>4

LEMMA LockType ==
    ASSUME TypeOK, CallsOK, NEW p \in Procs,
           \/ LoadBegin(p) \/ LoadEnd(p) \/ UpdateMain(p) \/ UpdateScreenLayer(p)
           \/ Call(p)
    PROVE  TypeOK' /\ CallsOK'
  <1> USE DEF LoadBegin, LoadEnd, UpdateMain, UpdateScreenLayer, Return, Go, Changed
  <1>1. CASE Call(p)
    <2>1. PICK o \in Ops \ {"none"} :
             /\ MayCall(p, o)
             /\ op' = [op EXCEPT ![p] = o]
             /\ pc' = [pc EXCEPT ![p] = IF o = "flip" THEN "disp" ELSE "main"]
      BY <1>1 DEF Call
    <2>2. /\ o \in {"primary", "overlay"} => hd[p] = 0
          /\ o \in {"destroy", "load", "flip", "set", "update"} => hd[p] # 0
      BY <2>1 DEF MayCall
    <2>3. TypeOK'
      BY <1>1, <2>1 DEF Call, TypeOK, PCs
    <2>4. CallsOK'
      BY <1>1, <2>1, <2>2 DEF Call, CallsOK, TypeOK
    <2> QED
      BY <2>3, <2>4
  <1>2. CASE LoadBegin(p) \/ LoadEnd(p) \/ UpdateMain(p) \/ UpdateScreenLayer(p)
    <2>1. TypeOK'
      BY <1>2 DEF TypeOK, Ops, PCs, Ids
    <2>2. CallsOK'
      BY <1>2 DEF CallsOK, TypeOK
    <2> QED
      BY <2>1, <2>2
  <1> QED
    BY <1>1, <1>2

LEMMA NextLayerType ==
    ASSUME TypeOK, NEW p \in Procs
    PROVE  NextLayer(p) \in Ids
  BY DEF NextLayer, TypeOK, Layer, Link, Ids

LEMMA UpdateDoneType ==
    ASSUME TypeOK, CallsOK, NEW p \in Procs, UpdateDone(p), UNCHANGED hd,
           slot' \in [Ids -> Layer], shown' \in Halves, agreed' \in BOOLEAN
    PROVE  TypeOK' /\ CallsOK'
  <1> USE DEF UpdateDone, Return, Go
  <1>1. TypeOK'
    BY DEF TypeOK, Ops, PCs, Ids, Blank, Buffers
  <1>2. CallsOK'
    BY DEF CallsOK, TypeOK
  <1> QED
    BY <1>1, <1>2

(* The composition of the chain.                                           *)
LEMMA DrawType ==
    ASSUME TypeOK, CallsOK, NEW p \in Procs,
           CopyScreenLayer(p) \/ CombScreenLayers(p) \/ UpdateFramebuffer(p)
    PROVE  TypeOK' /\ CallsOK'
  <1> DEFINE i == NextLayer(p)
  <1>1. /\ i \in Ids /\ slot[i].curDispIdx \in Halves
        /\ slot[at[p]].curDispIdx \in Halves
        /\ Source(p) \in SUBSET Ids
        /\ Source(p) \union {i} \in SUBSET Ids
    <2>1. \A l \in Layer : Target(l) \in Buffers
      BY DEF Layer, Targets, Halves, Target, Buffers
    <2>2. slot[at[p]] \in Layer /\ slot[i] \in Layer /\ i \in Ids
      BY NextLayerType DEF TypeOK
    <2>3. Source(p) \in SUBSET Ids
      BY <2>1, <2>2 DEF Source, TypeOK, Ids
    <2> QED
      BY <2>2, <2>3 DEF Layer
  <1> HIDE DEF i
  <1>2. CASE CopyScreenLayer(p)
    <2>1. slot' \in [Ids -> Layer]
      <3>1. 1 - slot[i].curDispIdx \in Halves
        BY <1>1 DEF Halves
      <3>2. [slot EXCEPT ![i].curDispIdx = 1 - @] \in [Ids -> Layer]
        BY <1>1, <3>1, FieldTypes DEF TypeOK
      <3> QED
        BY <1>2, <3>2 DEF CopyScreenLayer, Toggled, i, TypeOK
    <2>2. agreed' \in BOOLEAN /\ shown' \in Halves /\ hd' = hd
      BY <1>2 DEF CopyScreenLayer, TypeOK
    <2>3. CASE UpdateDone(p)
      BY <2>1, <2>2, <2>3, UpdateDoneType
    <2>4. CASE /\ pic' = pic \/ \E b : pic' = [pic EXCEPT ![b] = Source(p)]
               /\ Go(p, "pan") \/ Go(p, "comb")
               /\ UNCHANGED <<main, disp, op, at>>
      <3>1. pic' \in [Buffers -> SUBSET Ids]
        BY <1>1, <2>4 DEF TypeOK
      <3>2. TypeOK'
        BY <2>1, <2>2, <2>4, <3>1 DEF TypeOK, Go, PCs
      <3>3. CallsOK'
        BY <1>2, <2>2, <2>4 DEF CallsOK, TypeOK, Go, CopyScreenLayer
      <3> QED
        BY <3>2, <3>3
    <2> QED
      BY <1>2, <2>3, <2>4 DEF CopyScreenLayer
  <1>3. CASE CombScreenLayers(p)
    <2>1. slot' \in [Ids -> Layer] /\ agreed' \in BOOLEAN /\ shown' \in Halves /\ hd' = hd
      BY <1>3 DEF CombScreenLayers, TypeOK
    <2>2. CASE UpdateDone(p)
      BY <2>1, <2>2, UpdateDoneType
    <2>3. CASE /\ pic' = [pic EXCEPT ![Target(slot[i])] = Source(p) \union {i}]
               /\ Go(p, "pan") \/ Go(p, "copy")
               /\ at' = [at EXCEPT ![p] = i]
               /\ UNCHANGED <<main, disp, op>>
      <3>1. pic' \in [Buffers -> SUBSET Ids]
        BY <1>1, <2>3 DEF TypeOK
      <3>2. TypeOK'
        BY <1>1, <2>1, <2>3, <3>1 DEF TypeOK, Go, PCs
      <3>3. CallsOK'
        BY <1>3, <2>1, <2>3 DEF CallsOK, TypeOK, Go, CombScreenLayers
      <3> QED
        BY <3>2, <3>3
    <2> QED
      BY <1>3, <2>2, <2>3 DEF CombScreenLayers, i
  <1>4. CASE UpdateFramebuffer(p)
    <2>1. slot' \in [Ids -> Layer] /\ agreed' \in BOOLEAN /\ shown' \in Halves /\ hd' = hd
      BY <1>1, <1>4 DEF UpdateFramebuffer, TypeOK, Results
    <2> QED
      BY <1>4, <2>1, UpdateDoneType DEF UpdateFramebuffer
  <1> QED
    BY <1>2, <1>3, <1>4

LEMMA NextType == TypeOK /\ CallsOK /\ [Next]_vars => TypeOK' /\ CallsOK'
  <1> SUFFICES ASSUME TypeOK, CallsOK, [Next]_vars PROVE TypeOK' /\ CallsOK'
    OBVIOUS
  <1>1. CASE UNCHANGED vars
    BY <1>1 DEF vars, TypeOK, CallsOK
  <1>2. ASSUME NEW p \in Procs, Call(p) \/ Step(p)
        PROVE  TypeOK' /\ CallsOK'
    BY <1>2, CreateType, ShortType, LockType, DrawType DEF Step
  <1> QED
    BY <1>1, <1>2 DEF Next

(* Whatever clients call and whatever fails, nothing leaves its range, and *)
(* no call goes on without the layer it is for.                            *)
THEOREM TypeCorrect == Spec => [](TypeOK /\ CallsOK)
  BY InitType, NextType, PTL DEF Spec

(***************************************************************************)
(* The inductive invariant.                                                *)
(***************************************************************************)

(* What the clients must keep to, and what must not fail: a layer that has *)
(* no buffer is in the chain with nobody to destroy it.  IPU tasks, pans   *)
(* and loads may fail.                                                     *)
Careful == Orderly /\ "alloc" \notin Failures

(* Who is past a semaphore holds it.                                       *)
Drawing(p) == pc[p] \in {"copy", "comb", "pan"}

Excluded ==
    \A p \in Procs :
        /\ pc[p] = "load" \/ Drawing(p) => main = p
        /\ pc[p] = "disp" /\ op[p] = "update" => main = p
        /\ Drawing(p) => disp = p

(* A layer has one owner.  What orderly clients have called leaves room    *)
(* for what they will get.                                                 *)
Room ==
    /\ \A p, q \in Procs : hd[p] = hd[q] /\ hd[p] # 0 => p = q
    /\ Orders("primary") # {} => Used = {} /\ Orders("overlay") = {}
    /\ \A p, q \in Orders("primary") : p = q
    /\ Orders("overlay") # {} => 1 \in Used
    /\ \A p \in Orders("destroy") : hd[p] = 1 => Used = {1} /\ Orders("overlay") = {}
    /\ 3 \in Used => Orders("overlay") = {}
    /\ 2 \in Used => \A p, q \in Orders("overlay") : p = q
    /\ \A p, q, r \in Orders("overlay") : p = q \/ q = r \/ p = r

(* Layer i lies over pre and below next, and draws into d.                 *)
Lies(i, pre, next, d) ==
    /\ slot[i].pre = pre /\ slot[i].next = next
    /\ slot[i].disp = d
    /\ slot[i].isPrimary <=> i = 1

(* The chains there can be.                                                *)
Alone == Used = {1} /\ Lies(1, 0, 0, "fb")
Two(i) == Used = {1, i} /\ Lies(1, 0, i, "null") /\ Lies(i, 1, 0, "fb")
Three ==
    /\ Used = {1, 2, 3}
    /\ Lies(1, 0, 2, "null") /\ Lies(2, 1, 3, "tmp") /\ Lies(3, 2, 0, "fb")

Shape == Used = {} \/ Alone \/ Two(2) \/ Two(3) \/ Three

Top == LastLayer(slot)

(* The process that composes the top layer, or has.                        *)
AtTop(p) == pc[p] \in {"comb", "pan"} /\ slot[NextLayer(p)].next = 0

(* An update climbs the chain, and draws the layers below into the         *)
(* temporary buffer.                                                       *)
Climbing ==
    \A p \in Procs :
        /\ pc[p] \in {"copy", "comb"} =>
               /\ at[p] \in Used
               /\ at[p] # Top \/ (pc[p] = "copy" /\ Alone)
               /\ at[p] # 1 => at[p] = 2 /\ pic[2] = {1, 2}
        /\ pc[p] = "pan" => at[p] = Top /\ pic[Target(slot[Top])] = Used

(* The index of the half on the screen is the top layer's, until the       *)
(* other half is composed.                                                 *)
Halved ==
    agreed /\ Used # {} =>
        (slot[Top].curDispIdx = shown <=> \A p \in Procs : ~AtTop(p))

IInv == Excluded /\ Room /\ Shape /\ Climbing /\ Halved

(***************************************************************************)
(* Facts about the semaphores and the chain.                               *)
(***************************************************************************)

(* While one of the semaphores of an update is free, nobody draws; and two *)
(* processes never draw at once.                                           *)
LEMMA NobodyDraws ==
    ASSUME Excluded
    PROVE  /\ main = NoOne \/ disp = NoOne => \A p \in Procs : ~Drawing(p)
           /\ \A p, q \in Procs : Drawing(p) /\ Drawing(q) => p = q
           /\ \A p, q \in Procs : pc[p] = "load" => ~Drawing(q)
  BY ProcsAssumption DEF Excluded, Drawing

LEMMA UsedIds == TypeOK => Used \subseteq Ids
  BY DEF TypeOK, Used, Link, Ids

(* A layer more, and a layer less.                                         *)
LEMMA UsedMore ==
    ASSUME TypeOK, NEW p \in Procs, NEW i \in Ids, hd[p] = 0,
           hd' = [hd EXCEPT ![p] = i]
    PROVE  Used' = Used \union {i}
  <1>1. \A q \in Procs : hd'[q] = IF q = p THEN i ELSE hd[q]
    BY DEF TypeOK
  <1>2. i # 0
    BY DEF Ids
  <1> QED
    BY <1>1, <1>2 DEF Used

LEMMA UsedLess ==
    ASSUME TypeOK, Room, NEW p \in Procs, hd[p] # 0,
           hd' = [hd EXCEPT ![p] = 0]
    PROVE  Used' = Used \ {hd[p]} /\ hd[p] \in Used
  <1>1. \A q \in Procs : hd'[q] = IF q = p THEN 0 ELSE hd[q]
    BY DEF TypeOK
  <1>2. \A q \in Procs : hd[q] = hd[p] => q = p
    BY DEF Room
  <1> QED
    BY <1>1, <1>2 DEF Used

(* What every chain has in common.                                         *)
ChainFacts ==
    /\ 1 \in Used /\ Top \in Used
    /\ slot[Top].next = 0 /\ slot[Top].disp = "fb"
    /\ \A i \in Used : /\ slot[i].isPrimary <=> i = 1
                       /\ i # Top => slot[i].next \in Used /\ slot[i].next # 0
                       /\ i = Top <=> slot[i].next = 0

LEMMA ShapeFacts == Shape /\ Used # {} => ChainFacts
  <1> SUFFICES ASSUME Shape, Used # {} PROVE ChainFacts
    OBVIOUS
  <1> USE DEF Lies
  <1>1. CASE Alone
    <2>1. Top = 1
      BY <1>1 DEF Alone, Top, LastLayer
    <2> QED
      BY <1>1, <2>1 DEF Alone, ChainFacts
  <1>2. ASSUME NEW i \in {2, 3}, Two(i) PROVE ChainFacts
    <2>1. Top = i
      BY <1>2 DEF Two, Top, LastLayer
    <2> QED
      BY <1>2, <2>1 DEF Two, ChainFacts
  <1>3. CASE Three
    <2>1. Top = 3
      BY <1>3 DEF Three, Top, LastLayer
    <2> QED
      BY <1>3, <2>1 DEF Three, ChainFacts
  <1> QED
    BY <1>1, <1>2, <1>3 DEF Shape

LEMMA ShapeFactsNext == (Shape /\ Used # {} => ChainFacts)'
  BY ShapeFacts, PTL

(* Sets of at most two elements.                                           *)
LEMMA AtMostTwo ==
    ASSUME NEW S, \A p, q, r \in S : p = q \/ q = r \/ p = r
    PROVE  /\ Cardinality(S) \in Nat
           /\ Cardinality(S) < 2 => \A p, q \in S : p = q
           /\ Cardinality(S) < 1 => S = {}
  <1>1. CASE S = {}
    BY <1>1, FS_EmptySet
  <1>2. ASSUME NEW a \in S, S = {a}
        PROVE  Cardinality(S) = 1
    BY <1>2, FS_Singleton
  <1>3. ASSUME NEW a \in S, NEW b \in S, a # b
        PROVE  Cardinality(S) = 2
    <2>1. S = {a} \union {b}
      BY <1>3
    <2>2. IsFiniteSet({a}) /\ Cardinality({a}) = 1 /\ b \notin {a}
      BY <1>3, FS_Singleton
    <2>3. Cardinality({a} \union {b}) = 1 + 1
      BY <2>2, FS_AddElement
    <2> QED
      BY <2>1, <2>3
  <1>4. S = {} \/ (\E a \in S : S = {a}) \/ (\E a, b \in S : a # b)
    OBVIOUS
  <1> QED
    BY <1>1, <1>2, <1>3, <1>4

LEMMA SmallCardinalities ==
    /\ Cardinality({1}) = 1 /\ Cardinality({1, 2}) = 2
    /\ Cardinality({1, 3}) = 2 /\ Cardinality({1, 2, 3}) = 3
    /\ IsFiniteSet({1}) /\ IsFiniteSet({1, 2}) /\ IsFiniteSet({1, 3})
    /\ IsFiniteSet({1, 2, 3})
  <1>1. IsFiniteSet({1}) /\ Cardinality({1}) = 1
    BY FS_Singleton
  <1>2. IsFiniteSet({1} \union {2}) /\ Cardinality({1} \union {2}) = 1 + 1
    BY <1>1, FS_AddElement
  <1>3. IsFiniteSet({1} \union {3}) /\ Cardinality({1} \union {3}) = 1 + 1
    BY <1>1, FS_AddElement
  <1>4. /\ IsFiniteSet(({1} \union {2}) \union {3})
        /\ Cardinality(({1} \union {2}) \union {3}) = 2 + 1
    BY <1>2, FS_AddElement
  <1>5. /\ {1, 2} = {1} \union {2} /\ {1, 3} = {1} \union {3}
        /\ {1, 2, 3} = ({1} \union {2}) \union {3}
    OBVIOUS
  <1> QED
    BY <1>1, <1>2, <1>3, <1>4, <1>5

(***************************************************************************)
(* Steps that leave the chain as it is.                                    *)
(***************************************************************************)

LEMMA InitInv == Init => IInv
  <1> SUFFICES ASSUME Init PROVE IInv
    OBVIOUS
  <1>1. Used = {} /\ \A o \in {"primary", "overlay", "destroy"} : Orders(o) = {}
    BY DEF Init, Used, Orders
  <1>2. Excluded
    BY DEF Init, Excluded, Drawing
  <1>3. Room
    BY <1>1 DEF Init, Room
  <1>4. Shape /\ Halved
    BY <1>1 DEF Shape, Halved
  <1>5. Climbing
    BY DEF Init, Climbing
  <1> QED
    BY <1>2, <1>3, <1>4, <1>5 DEF IInv

(* Layers, owners and who draws unchanged: only the semaphores and the     *)
(* calls need a look.                                                      *)
LEMMA SameChain ==
    ASSUME IInv, UNCHANGED <<slot, hd, shown, agreed>>,
           \A q \in Procs : pc'[q] # pc[q] =>
               pc'[q] \notin {"copy", "comb", "pan"} /\ ~Drawing(q),
           \A q \in Procs : at'[q] = at[q],
           pic' = pic \/ \A q \in Procs : ~Drawing(q)
    PROVE  Shape' /\ Climbing' /\ Halved'
  <1>1. Used' = Used /\ Top' = Top
    BY DEF Used, Top
  <1>2. Shape' /\ (Alone <=> Alone')
    BY <1>1 DEF IInv, Shape, Alone, Two, Three, Lies
  <1>3. \A q \in Procs : NextLayer(q)' = NextLayer(q)
    BY DEF NextLayer
  <1>4. \A q \in Procs : AtTop(q)' <=> AtTop(q)
    BY <1>3 DEF AtTop, Drawing
  <1>5. Halved'
    BY <1>1, <1>4 DEF IInv, Halved
  <1>6. Climbing'
    <2>1. ASSUME NEW q \in Procs, pc'[q] \in {"copy", "comb", "pan"}
          PROVE  pc'[q] = pc[q] /\ at'[q] = at[q] /\ pic' = pic
      BY <2>1 DEF Drawing
    <2> QED
      BY <1>1, <1>2, <2>1 DEF IInv, Climbing, Target
  <1> QED
    BY <1>2, <1>5, <1>6

(* Setting, flipping, loading, and entering an update.                     *)
LEMMA SameChainInv ==
    ASSUME TypeOK, CallsOK, IInv, NEW p \in Procs,
           \/ SetScreenLayer(p) \/ FlipScreenLayerBuf(p)
           \/ LoadBegin(p) \/ LoadEnd(p) \/ UpdateMain(p)
    PROVE  IInv'
  <1> USE DEF SetScreenLayer, FlipScreenLayerBuf, LoadBegin, LoadEnd, UpdateMain,
              Return, Go
  <1>1. \A q \in Procs : q # p => pc'[q] = pc[q] /\ op'[q] = op[q]
    BY DEF TypeOK
  <1>2. /\ pc'[p] \in {"idle", "load", "disp"} /\ ~Drawing(p)
        /\ op[p] \in {"set", "flip", "load", "update"} /\ op'[p] \in {op[p], "none"}
        /\ UNCHANGED <<slot, hd, at, shown, agreed, disp>>
    BY DEF TypeOK, CallsOK, Drawing
  <1>3. pic' = pic \/ \A q \in Procs : ~Drawing(q)
    BY NobodyDraws DEF IInv
  <1>4. Shape' /\ Climbing' /\ Halved'
    BY <1>1, <1>2, <1>3, SameChain
  <1>5. Excluded'
    BY <1>1, <1>2, ProcsAssumption DEF IInv, Excluded, Drawing, CallsOK, TypeOK
  <1>6. Room'
    <2>1. /\ Orders("primary")' = Orders("primary")
          /\ Orders("overlay")' = Orders("overlay")
          /\ Orders("destroy")' = Orders("destroy")
      BY <1>1, <1>2 DEF Orders
    <2>2. Used' = Used
      BY <1>2 DEF Used
    <2> QED
      BY <1>2, <2>1, <2>2 DEF IInv, Room
  <1> QED
    BY <1>4, <1>5, <1>6 DEF IInv

(* An orderly client calls only what there is room for.                    *)
LEMMA CallInv ==
    ASSUME Careful, TypeOK, CallsOK, IInv, NEW p \in Procs, Call(p)
    PROVE  IInv'
  <1>1. PICK o \in Ops \ {"none"} :
           /\ MayCall(p, o)
           /\ op' = [op EXCEPT ![p] = o]
           /\ pc' = [pc EXCEPT ![p] = IF o = "flip" THEN "disp" ELSE "main"]
    BY DEF Call, Go
  <1>2. /\ pc[p] = "idle" /\ op[p] = "none"
        /\ UNCHANGED <<slot, main, disp, hd, at, pic, shown, agreed>>
    BY DEF Call, CallsOK
  <1>3. /\ \A q \in Procs : q # p => pc'[q] = pc[q] /\ op'[q] = op[q]
        /\ pc'[p] = (IF o = "flip" THEN "disp" ELSE "main") /\ op'[p] = o
    BY <1>1 DEF TypeOK
  <1>4. Shape' /\ Climbing' /\ Halved'
    BY <1>2, <1>3, SameChain DEF Drawing
  <1>5. Excluded'
    BY <1>2, <1>3 DEF IInv, Excluded, Drawing
  <1>6. Used' = Used
    BY <1>2 DEF Used
  <1>7. \A x \in Ops : Orders(x)' = IF x = o THEN Orders(x) \union {p} ELSE Orders(x) \ {p}
    BY <1>3 DEF Orders
  <1>8. \A x \in Ops \ {"none"} : p \notin Orders(x)
    BY <1>2 DEF Orders
  <1>9. /\ Orders("primary")' = IF o = "primary" THEN Orders("primary") \union {p}
                                ELSE Orders("primary")
        /\ Orders("overlay")' = IF o = "overlay" THEN Orders("overlay") \union {p}
                                ELSE Orders("overlay")
        /\ Orders("destroy")' = IF o = "destroy" THEN Orders("destroy") \union {p}
                                ELSE Orders("destroy")
    BY <1>7, <1>8 DEF Ops
  <1>10. o = "primary" => Used = {} /\ Orders("primary") = {} /\ Orders("overlay") = {}
    BY <1>1 DEF MayCall, Careful, IInv, Room
  <1>11. o = "destroy" => /\ hd[p] # 0
                          /\ hd[p] = 1 => Used = {1} /\ Orders("overlay") = {}
    BY <1>1 DEF MayCall, Careful
  <1>12. ASSUME o = "overlay"
         PROVE  /\ 1 \in Used /\ 3 \notin Used
                /\ 2 \in Used => Orders("overlay") = {}
                /\ \A q, r \in Orders("overlay") : q = r
                /\ \A q \in Orders("destroy") : hd[q] # 1
    <2>1. /\ 1 \in Used
          /\ 3 \in Used => 2 \in Used
          /\ Cardinality(Used) + Cardinality(Orders("overlay")) < 3
          /\ \A q \in Orders("destroy") : hd[q] # 1
      BY <1>1, <1>12 DEF MayCall, Careful
    <2>2. /\ Cardinality(Orders("overlay")) \in Nat
          /\ Cardinality(Orders("overlay")) < 2 => \A q, r \in Orders("overlay") : q = r
          /\ Cardinality(Orders("overlay")) < 1 => Orders("overlay") = {}
      BY AtMostTwo DEF IInv, Room
    <2>3. Used \in {{1}, {1, 2}, {1, 3}, {1, 2, 3}}
      <3>1. Used # {} /\ Shape
        BY <2>1 DEF IInv
      <3>2. Used = {1} \/ Used = {1, 2} \/ Used = {1, 3} \/ Used = {1, 2, 3}
        BY <3>1, Zenon DEF Shape, Alone, Two, Three
      <3> QED
        BY <3>2
    <2>4. CASE Used = {1}
      BY <2>1, <2>2, <2>4, SmallCardinalities
    <2>5. CASE Used = {1, 2}
      BY <2>1, <2>2, <2>5, SmallCardinalities
    <2>6. CASE Used = {1, 3}
      BY <2>1, <2>6
    <2>7. CASE Used = {1, 2, 3}
      BY <2>1, <2>2, <2>7, SmallCardinalities
    <2> QED
      BY <2>3, <2>4, <2>5, <2>6, <2>7
  <1>13. hd[p] # 0 => Used # {}
    BY DEF Used
  <1>14. Room'
    <2>1. CASE o = "primary"
      BY <1>2, <1>6, <1>9, <1>10, <2>1 DEF IInv, Room
    <2>2. CASE o = "overlay"
      BY <1>2, <1>6, <1>9, <1>12, <2>2 DEF IInv, Room
    <2>3. CASE o = "destroy"
      BY <1>2, <1>6, <1>9, <1>11, <1>13, <2>3 DEF IInv, Room
    <2>4. CASE o \notin {"primary", "overlay", "destroy"}
      BY <1>2, <1>6, <1>9, <2>4 DEF IInv, Room
    <2> QED
      BY <2>1, <2>2, <2>3, <2>4
  <1> QED
    BY <1>4, <1>5, <1>14 DEF IInv

(***************************************************************************)
(* Layers come and go.                                                     *)
(***************************************************************************)

(* The layers when layer i was cleared.                                    *)
Cleared(i, w) == [slot EXCEPT ![i] = [Zeroed EXCEPT !.whole = w]]

(* Layer i appended to a chain whose last layer is l.                      *)
LEMMA AppendedLayer ==
    ASSUME slot \in [Ids -> Layer], NEW i \in Ids, NEW l \in Ids, i # l, NEW w \in BOOLEAN,
           LastLayer(Cleared(i, w)) = l
    PROVE  LET s == AppendLayer(i, w) IN
           /\ s \in [Ids -> Layer]
           /\ s[i].pre = l /\ s[i].next = 0 /\ ~s[i].isPrimary
           /\ s[l].next = i /\ s[l].pre = slot[l].pre /\ s[l].disp = slot[l].disp
           /\ s[l].curDispIdx = slot[l].curDispIdx
           /\ s[l].isPrimary = slot[l].isPrimary
           /\ \A j \in Ids \ {i, l} : s[j] = slot[j]
  <1> DEFINE z == [Zeroed EXCEPT !.whole = w]
             s == [slot EXCEPT ![i] = z]
             t == [s EXCEPT ![l].next = i]
             u == [t EXCEPT ![i].pre = l]
  <1>1. z \in Layer /\ z.next = 0 /\ ~z.isPrimary
    <2>1. z.next = 0 /\ ~z.isPrimary
      BY DEF Zeroed
    <2> QED
      BY <2>1, ZeroedLayer
  <1>2. AppendLayer(i, w) = u
    BY DEF AppendLayer, Cleared
  <1> HIDE DEF z
  <1>3. /\ s \in [Ids -> Layer] /\ s[i] = z
        /\ \A j \in Ids \ {i} : s[j] = slot[j]
    BY <1>1
  <1> HIDE DEF s
  <1>4. i \in Link /\ l \in Link
    BY DEF Ids, Link
  <1>5. t \in [Ids -> Layer]
    BY <1>3, <1>4, FieldTypes
  <1>6. /\ t[i] = z
        /\ t[l].next = i /\ t[l].pre = slot[l].pre /\ t[l].disp = slot[l].disp
        /\ t[l].curDispIdx = slot[l].curDispIdx
        /\ t[l].isPrimary = slot[l].isPrimary
        /\ \A j \in Ids \ {i, l} : t[j] = slot[j]
    BY <1>3 DEF Layer
  <1> HIDE DEF t
  <1>7. u \in [Ids -> Layer]
    BY <1>4, <1>5, FieldTypes
  <1>8. /\ u[i].pre = l /\ u[i].next = 0 /\ ~u[i].isPrimary
        /\ \A j \in Ids \ {i} : u[j] = t[j]
    BY <1>1, <1>5, <1>6 DEF Layer
  <1> HIDE DEF u
  <1> QED
    BY <1>2, <1>6, <1>7, <1>8

(* The frame buffer moves up from layer l to the new layer i.              *)
LEMMA MovedBuffer ==
    ASSUME NEW s \in [Ids -> Layer], NEW i \in Ids, NEW l \in Ids, i # l, s[i].pre = l
    PROVE  LET t == MemAllocSL(s, i) IN
           /\ t[i].pre = l /\ t[i].next = s[i].next /\ t[i].isPrimary = s[i].isPrimary
           /\ t[i].disp = s[l].disp /\ t[i].curDispIdx = s[l].curDispIdx
           /\ t[l].pre = s[l].pre /\ t[l].next = s[l].next
           /\ t[l].isPrimary = s[l].isPrimary
           /\ t[l].disp = IF l = 1 THEN "null" ELSE "tmp"
           /\ \A j \in Ids \ {i, l} : t[j] = s[j]
  <1> DEFINE d == IF l = 1 THEN "null" ELSE "tmp"
             a == [s EXCEPT ![i].disp = s[l].disp]
             b == [a EXCEPT ![i].curDispIdx = s[l].curDispIdx]
             c == [b EXCEPT ![l].disp = d]
             e == [c EXCEPT ![l].curDispIdx = 0]
  <1>1. s[l].disp \in Targets /\ s[l].curDispIdx \in Halves /\ d \in Targets /\ 0 \in Halves
    BY DEF Layer, Targets, Halves
  <1>2. MemAllocSL(s, i) = e
    BY DEF MemAllocSL
  <1> HIDE DEF d
  <1>3. /\ a \in [Ids -> Layer] /\ a[i].disp = s[l].disp
        /\ a[i].pre = s[i].pre /\ a[i].next = s[i].next /\ a[i].isPrimary = s[i].isPrimary
        /\ \A j \in Ids \ {i} : a[j] = s[j]
    <2>1. a \in [Ids -> Layer]
      BY <1>1, FieldTypes
    <2> QED
      BY <2>1 DEF Layer
  <1> HIDE DEF a
  <1>4. /\ b \in [Ids -> Layer] /\ b[i].disp = s[l].disp
        /\ b[i].curDispIdx = s[l].curDispIdx
        /\ b[i].pre = s[i].pre /\ b[i].next = s[i].next /\ b[i].isPrimary = s[i].isPrimary
        /\ \A j \in Ids \ {i} : b[j] = s[j]
    <2>1. b \in [Ids -> Layer]
      BY <1>1, <1>3, FieldTypes
    <2> QED
      BY <1>3, <2>1 DEF Layer
  <1> HIDE DEF b
  <1>5. /\ c \in [Ids -> Layer] /\ c[i] = b[i] /\ c[l].disp = d
        /\ c[l].pre = s[l].pre /\ c[l].next = s[l].next /\ c[l].isPrimary = s[l].isPrimary
        /\ \A j \in Ids \ {i, l} : c[j] = s[j]
    <2>1. c \in [Ids -> Layer]
      BY <1>1, <1>4, FieldTypes
    <2> QED
      BY <1>4, <2>1 DEF Layer
  <1> HIDE DEF c
  <1>6. /\ e[i] = b[i] /\ e[l].disp = d
        /\ e[l].pre = s[l].pre /\ e[l].next = s[l].next /\ e[l].isPrimary = s[l].isPrimary
        /\ \A j \in Ids \ {i, l} : e[j] = s[j]
    <2>1. e \in [Ids -> Layer]
      BY <1>1, <1>5, FieldTypes
    <2> QED
      BY <1>5, <2>1 DEF Layer
  <1> HIDE DEF e
  <1> QED
    BY <1>2, <1>4, <1>6 DEF d

(* The top layer i gives the frame buffer back to layer l below it, and    *)
(* leaves the chain.                                                       *)
LEMMA TopLeaves ==
    ASSUME slot \in [Ids -> Layer], NEW i \in Ids, NEW l \in Ids, i # l,
           slot[i].pre = l, slot[i].next = 0
    PROVE  LET t == Unlink(MemFreeSL(slot, i), i) IN
           /\ t[l].next = 0 /\ t[l].pre = slot[l].pre /\ t[l].isPrimary = slot[l].isPrimary
           /\ t[l].disp = slot[i].disp /\ t[l].curDispIdx = slot[i].curDispIdx
           /\ \A j \in Ids \ {i, l} : t[j] = slot[j]
  <1> DEFINE a == [slot EXCEPT ![l].disp = slot[i].disp]
             b == [a EXCEPT ![l].curDispIdx = slot[i].curDispIdx]
             c == [b EXCEPT ![i].disp = "null"]
             t == [c EXCEPT ![l].next = 0]
  <1>1. /\ slot[i].disp \in Targets /\ slot[i].curDispIdx \in Halves
        /\ "null" \in Targets /\ 0 \in Link /\ l # 0
    BY DEF Layer, Targets, Halves, Link, Ids
  <1>2. MemFreeSL(slot, i) = c
    BY <1>1 DEF MemFreeSL
  <1>3. /\ a \in [Ids -> Layer] /\ a[l].disp = slot[i].disp
        /\ a[l].pre = slot[l].pre /\ a[l].isPrimary = slot[l].isPrimary
        /\ \A j \in Ids \ {l} : a[j] = slot[j]
    <2>1. a \in [Ids -> Layer]
      BY <1>1, FieldTypes
    <2> QED
      BY <2>1 DEF Layer
  <1> HIDE DEF a
  <1>4. /\ b \in [Ids -> Layer] /\ b[l].disp = slot[i].disp
        /\ b[l].curDispIdx = slot[i].curDispIdx
        /\ b[l].pre = slot[l].pre /\ b[l].isPrimary = slot[l].isPrimary
        /\ \A j \in Ids \ {l} : b[j] = slot[j]
    <2>1. b \in [Ids -> Layer]
      BY <1>1, <1>3, FieldTypes
    <2> QED
      BY <1>3, <2>1 DEF Layer
  <1> HIDE DEF b
  <1>5. /\ c \in [Ids -> Layer] /\ c[l] = b[l]
        /\ c[i].pre = l /\ c[i].next = 0
        /\ \A j \in Ids \ {i, l} : c[j] = slot[j]
    <2>1. c \in [Ids -> Layer]
      BY <1>1, <1>4, FieldTypes
    <2> QED
      BY <1>4, <2>1 DEF Layer
  <1> HIDE DEF c
  <1>6. Unlink(c, i) = t
    BY <1>1, <1>5 DEF Unlink
  <1>7. /\ t[l].next = 0 /\ t[l].pre = slot[l].pre /\ t[l].isPrimary = slot[l].isPrimary
        /\ t[l].disp = slot[i].disp /\ t[l].curDispIdx = slot[i].curDispIdx
        /\ \A j \in Ids \ {i, l} : t[j] = slot[j]
    <2>1. t \in [Ids -> Layer]
      BY <1>1, <1>5, FieldTypes
    <2> QED
      BY <1>4, <1>5, <2>1 DEF Layer
  <1> HIDE DEF t
  <1> QED
    BY <1>2, <1>6, <1>7

(* A middle layer i leaves the chain to the layers next to it.             *)
LEMMA MiddleLeaves ==
    ASSUME slot \in [Ids -> Layer], NEW i \in Ids, NEW l \in Ids, NEW n \in Ids,
           i # l, i # n, l # n, slot[i].pre = l, slot[i].next = n
    PROVE  LET t == Unlink(MemFreeSL(slot, i), i) IN
           /\ t[l].next = n /\ t[l].pre = slot[l].pre /\ t[l].isPrimary = slot[l].isPrimary
           /\ t[l].disp = slot[l].disp
           /\ t[n].pre = l /\ t[n].next = slot[n].next /\ t[n].disp = slot[n].disp
           /\ t[n].isPrimary = slot[n].isPrimary /\ t[n].curDispIdx = slot[n].curDispIdx
  <1> DEFINE a == [slot EXCEPT ![l].next = n]
             t == [a EXCEPT ![n].pre = l]
  <1>1. n # 0 /\ l # 0 /\ n \in Link /\ l \in Link
    BY DEF Ids, Link
  <1>2. Unlink(MemFreeSL(slot, i), i) = t
    BY <1>1 DEF MemFreeSL, Unlink
  <1>3. /\ a \in [Ids -> Layer] /\ a[l].next = n /\ a[l].pre = slot[l].pre
        /\ a[l].isPrimary = slot[l].isPrimary /\ a[l].disp = slot[l].disp
        /\ a[n] = slot[n]
    <2>1. a \in [Ids -> Layer]
      BY <1>1, FieldTypes
    <2> QED
      BY <2>1 DEF Layer
  <1> HIDE DEF a
  <1>4. /\ t[l] = a[l] /\ t[n].pre = l /\ t[n].next = slot[n].next
        /\ t[n].disp = slot[n].disp /\ t[n].isPrimary = slot[n].isPrimary
        /\ t[n].curDispIdx = slot[n].curDispIdx
    <2>1. t \in [Ids -> Layer]
      BY <1>1, <1>3, FieldTypes
    <2> QED
      BY <1>3, <2>1 DEF Layer
  <1> HIDE DEF t
  <1> QED
    BY <1>2, <1>3, <1>4

(* Nobody draws while a layer is created or destroyed.                     *)
LEMMA Undisturbed ==
    ASSUME TypeOK, Excluded, NEW p \in Procs, main = NoOne, Return(p),
           UNCHANGED <<main, disp>>
    PROVE  Excluded' /\ Climbing' /\ \A q \in Procs : ~AtTop(q)'
  <1>1. \A q \in Procs : pc'[q] = (IF q = p THEN "idle" ELSE pc[q])
    BY DEF Return, Go, TypeOK
  <1>2. \A q \in Procs : q # p => op'[q] = op[q]
    BY DEF Return, TypeOK
  <1>3. \A q \in Procs : pc[q] \notin {"copy", "comb", "pan"}
    BY NobodyDraws DEF Drawing
  <1>4. \A q \in Procs : pc'[q] \notin {"copy", "comb", "pan"}
    BY <1>1, <1>3
  <1>5. Excluded'
    BY <1>1, <1>2, <1>4 DEF Excluded, Drawing
  <1>6. Climbing' /\ \A q \in Procs : ~AtTop(q)'
    BY <1>4 DEF Climbing, AtTop
  <1> QED
    BY <1>5, <1>6

(* The half on the screen is the one the top layer's index names as long   *)
(* as nobody draws.                                                        *)
LEMMA HalfShown ==
    ASSUME IInv, main = NoOne, agreed, Used # {}
    PROVE  slot[Top].curDispIdx = shown
  <1>1. \A q \in Procs : ~AtTop(q)
    BY NobodyDraws DEF IInv, AtTop, Drawing
  <1> QED
    BY <1>1 DEF IInv, Halved

(* A primary layer that is refused leaves nobody with a layer, as before.  *)
LEMMA PrimaryRefusedInv ==
    ASSUME TypeOK, CallsOK, IInv, NEW p \in Procs, CreateScreenLayer(p), CreatePrimary(p),
           UNCHANGED hd
    PROVE  IInv'
  <1>1. main = NoOne /\ Return(p) /\ UNCHANGED <<main, disp>> /\ op[p] = "primary"
    BY DEF CreateScreenLayer, CreatePrimary
  <1>2. Excluded' /\ Climbing' /\ \A q \in Procs : ~AtTop(q)'
    BY <1>1, Undisturbed DEF IInv
  <1>3. p \in Orders("primary")
    BY <1>1 DEF Orders
  <1>4. Used' = {} /\ Orders("overlay") = {}
    BY <1>3 DEF IInv, Room, Used
  <1>5. \A o \in {"primary", "overlay", "destroy"} : Orders(o)' \subseteq Orders(o)
    BY <1>1 DEF Orders, Return, TypeOK
  <1>6. Room'
    <2>1. \A q \in Orders("destroy") : q \in Procs /\ hd[q] # 1
      BY <1>4 DEF Used, Orders
    <2> QED
      BY <1>4, <1>5, <2>1 DEF IInv, Room
  <1> QED
    BY <1>2, <1>4, <1>6 DEF IInv, Shape, Halved

LEMMA CreatePrimaryInv ==
    ASSUME Careful, TypeOK, CallsOK, IInv, NEW p \in Procs,
           CreateScreenLayer(p), CreatePrimary(p), ~UNCHANGED hd
    PROVE  IInv'
  <1>0. /\ hd' = [hd EXCEPT ![p] = 1]
        /\ slot' = [i \in Ids |-> IF i = 1 THEN PrimaryLayer("fb") ELSE Zeroed]
    <2>1. \A ok \in Results("alloc") : ok = TRUE
      BY DEF Results, Careful
    <2> QED
      BY <2>1 DEF CreatePrimary
  <1>1. /\ main = NoOne /\ Return(p) /\ UNCHANGED <<main, disp, at, shown>>
        /\ op[p] = "primary" /\ hd[p] = 0 /\ hd' = [hd EXCEPT ![p] = 1]
        /\ agreed' = (shown = 0)
    BY <1>0 DEF CreateScreenLayer, CreatePrimary, CallsOK
  <1>2. Excluded' /\ Climbing' /\ \A q \in Procs : ~AtTop(q)'
    BY <1>1, Undisturbed DEF IInv
  <1>3. /\ Used = {} /\ Orders("overlay") = {}
        /\ \A q \in Orders("primary") : q = p
    <2>1. p \in Orders("primary")
      BY <1>1 DEF Orders
    <2>2. Used = {} /\ Orders("overlay") = {}
      BY <2>1 DEF IInv, Room
    <2>3. \A q, r \in Orders("primary") : q = r
      BY DEF IInv, Room
    <2> QED
      BY <2>1, <2>2, <2>3
  <1>4. Used' = {1}
    <2>1. 1 \in Ids
      BY DEF Ids
    <2>2. Used' = Used \union {1}
      BY <1>1, <2>1, UsedMore
    <2> QED
      BY <1>3, <2>2
  <1>5. /\ \A q \in Procs : op'[q] = IF q = p THEN "none" ELSE op[q]
        /\ \A q \in Procs : hd'[q] = IF q = p THEN 1 ELSE 0
    <2>1. \A q \in Procs : hd[q] = 0
      BY <1>3 DEF Used
    <2> QED
      BY <1>1, <2>1 DEF Return, TypeOK
  <1>6. Room'
    <2>1. Orders("primary")' = {} /\ Orders("overlay")' = {}
      BY <1>3, <1>5 DEF Orders
    <2>2. 1 \in Used' /\ 2 \notin Used' /\ 3 \notin Used'
      BY <1>4
    <2>3. \A q, r \in Procs : hd'[q] = hd'[r] /\ hd'[q] # 0 => q = r
      BY <1>5
    <2> QED
      BY <1>4, <2>1, <2>2, <2>3 DEF Room
  <1>7. /\ slot'[1].pre = 0 /\ slot'[1].next = 0 /\ slot'[1].disp = "fb"
        /\ slot'[1].isPrimary /\ slot'[1].curDispIdx = 0
    <2> DEFINE z == PrimaryLayer("fb")
    <2>1. z.pre = 0 /\ z.next = 0 /\ z.disp = "fb" /\ z.isPrimary /\ z.curDispIdx = 0
      BY DEF Zeroed, PrimaryLayer
    <2> HIDE DEF z
    <2> QED
      BY <1>0, <2>1 DEF Ids, z
  <1>8. Alone' /\ Top' = 1
    BY <1>4, <1>7 DEF Alone, Lies, Top, LastLayer
  <1>9. Halved'
    BY <1>1, <1>2, <1>7, <1>8 DEF Halved
  <1> QED
    BY <1>2, <1>6, <1>8, <1>9 DEF IInv, Shape

(* A refused layer clears a slot that nobody uses.                         *)
LEMMA OverlayRefusedInv ==
    ASSUME TypeOK, CallsOK, IInv, NEW p \in Procs,
           CreateScreenLayer(p), CreateOverlay(p), UNCHANGED hd,
           slot' = [slot EXCEPT ![FreeSlot] = Zeroed]
    PROVE  IInv'
  <1>1. /\ main = NoOne /\ Return(p) /\ UNCHANGED <<main, disp, at, shown, agreed>>
        /\ op[p] = "overlay"
    BY DEF CreateScreenLayer, CreateOverlay
  <1>2. Excluded' /\ Climbing' /\ \A q \in Procs : ~AtTop(q)'
    BY <1>1, Undisturbed DEF IInv
  <1>3. p \in Orders("overlay")
    BY <1>1 DEF Orders
  <1>4. /\ 1 \in Used /\ 3 \notin Used /\ Orders("primary") = {}
        /\ \A q \in Orders("destroy") : hd[q] # 1
    BY <1>3 DEF IInv, Room
  <1>5. Used' = Used
    BY DEF Used
  <1>6. Alone \/ Two(2)
    BY <1>4 DEF IInv, Shape, Two, Three
  <1>7. /\ FreeSlot \in {2, 3} /\ FreeSlot \notin Used
        /\ \A i \in Used : slot'[i] = slot[i]
    <2>1. CASE Alone
      BY <2>1 DEF Alone, Lies, FreeSlot, TypeOK, Ids
    <2>2. CASE Two(2)
      BY <2>2 DEF Two, Lies, FreeSlot, TypeOK, Ids
    <2> QED
      BY <1>6, <2>1, <2>2
  <1>8. Shape' /\ Top' = Top /\ slot'[Top] = slot[Top]
    <2>1. CASE Alone
      BY <1>5, <1>7, <2>1 DEF Alone, Lies, Shape, Top, LastLayer
    <2>2. CASE Two(2)
      BY <1>5, <1>7, <2>2 DEF Two, Lies, Shape, Top, LastLayer
    <2> QED
      BY <1>6, <2>1, <2>2
  <1>9. Halved'
    <2>1. agreed => slot[Top].curDispIdx = shown
      BY <1>1, <1>4, HalfShown
    <2> QED
      BY <1>1, <1>2, <1>8, <2>1 DEF Halved
  <1>10. Room'
    <2>1. /\ Orders("primary")' = Orders("primary")
          /\ Orders("overlay")' \subseteq Orders("overlay")
          /\ Orders("destroy")' = Orders("destroy")
      BY <1>1 DEF Orders, Return, TypeOK
    <2> QED
      BY <1>4, <1>5, <2>1 DEF IInv, Room
  <1> QED
    BY <1>2, <1>8, <1>9, <1>10 DEF IInv

(* A layer over another one.                                               *)
LEMMA CreateOverlayInv ==
    ASSUME Careful, TypeOK, CallsOK, IInv, NEW p \in Procs,
           CreateScreenLayer(p), CreateOverlay(p),
           ~(UNCHANGED hd /\ slot' = [slot EXCEPT ![FreeSlot] = Zeroed])
    PROVE  IInv'
  <1>1. /\ main = NoOne /\ Return(p) /\ UNCHANGED <<main, disp, at, shown, agreed>>
        /\ op[p] = "overlay" /\ hd[p] = 0
    BY DEF CreateScreenLayer, CreateOverlay, CallsOK
  <1>2. Excluded' /\ Climbing' /\ \A q \in Procs : ~AtTop(q)'
    BY <1>1, Undisturbed DEF IInv
  <1>3. p \in Orders("overlay")
    BY <1>1 DEF Orders
  <1>4. /\ 1 \in Used /\ 3 \notin Used /\ Orders("primary") = {}
        /\ \A q \in Orders("destroy") : hd[q] # 1
        /\ 2 \in Used => \A q \in Orders("overlay") : q = p
        /\ \A q, r \in Orders("overlay") : q = p \/ r = p \/ q = r
    BY <1>3 DEF IInv, Room
  <1>5. Alone \/ Two(2)
    BY <1>4 DEF IInv, Shape, Two, Three
  <1>6. slot[1].isPrimary
    BY <1>5 DEF Alone, Two, Lies
  <1>7. PICK w \in BOOLEAN :
           /\ slot' = MemAllocSL(AppendLayer(FreeSlot, w), FreeSlot)
           /\ hd' = [hd EXCEPT ![p] = FreeSlot]
    <2>1. \A ok \in Results("alloc") : ok = TRUE
      BY DEF Results, Careful
    <2>2. PICK w \in BOOLEAN, ok \in Results("alloc") :
             /\ \E moved \in {TRUE, ok} :
                  slot' = IF moved THEN MemAllocSL(AppendLayer(FreeSlot, w), FreeSlot)
                          ELSE AppendLayer(FreeSlot, w)
             /\ hd' = IF ok THEN [hd EXCEPT ![p] = FreeSlot] ELSE hd
      BY <1>6, Zenon DEF CreateOverlay
    <2>3. ok = TRUE
      BY <2>1
    <2> QED
      BY <2>2, <2>3
  <1>8. slot \in [Ids -> Layer]
    BY DEF TypeOK
  (* The layer takes the first free slot, and lies over the top one.       *)
  <1>9. ASSUME NEW j \in {2, 3}, NEW l \in {1, 2}, j # l, FreeSlot = j, Top = l, slot[l].disp = "fb",
               LastLayer(Cleared(j, w)) = l
        PROVE  /\ slot'[j].pre = l /\ slot'[j].next = 0 /\ ~slot'[j].isPrimary
               /\ slot'[j].disp = "fb" /\ slot'[j].curDispIdx = slot[Top].curDispIdx
               /\ slot'[l].pre = slot[l].pre /\ slot'[l].next = j
               /\ slot'[l].isPrimary = slot[l].isPrimary
               /\ slot'[l].disp = IF l = 1 THEN "null" ELSE "tmp"
               /\ \A k \in Ids \ {j, l} : slot'[k] = slot[k]
    <2> DEFINE s == AppendLayer(j, w)
    <2>1. j \in Ids /\ l \in Ids
      BY DEF Ids
    <2>2. /\ s \in [Ids -> Layer]
          /\ s[j].pre = l /\ s[j].next = 0 /\ ~s[j].isPrimary
          /\ s[l].next = j /\ s[l].pre = slot[l].pre /\ s[l].disp = slot[l].disp
          /\ s[l].curDispIdx = slot[l].curDispIdx
          /\ s[l].isPrimary = slot[l].isPrimary
          /\ \A k \in Ids \ {j, l} : s[k] = slot[k]
      BY <1>8, <1>9, <2>1, AppendedLayer
    <2>3. slot' = MemAllocSL(s, j)
      BY <1>7, <1>9
    <2> HIDE DEF s
    <2>4. LET t == MemAllocSL(s, j) IN
          /\ t[j].pre = l /\ t[j].next = s[j].next /\ t[j].isPrimary = s[j].isPrimary
          /\ t[j].disp = s[l].disp /\ t[j].curDispIdx = s[l].curDispIdx
          /\ t[l].pre = s[l].pre /\ t[l].next = s[l].next
          /\ t[l].isPrimary = s[l].isPrimary
          /\ t[l].disp = IF l = 1 THEN "null" ELSE "tmp"
          /\ \A k \in Ids \ {j, l} : t[k] = s[k]
      BY <1>9, <2>1, <2>2, MovedBuffer
    <2> QED
      BY <1>9, <2>2, <2>3, <2>4
  <1> DEFINE i == FreeSlot
             Higher == /\ Shape' /\ slot'[Top'].curDispIdx = slot[Top].curDispIdx
                       /\ i \in {2, 3} /\ i \notin Used
                       /\ Used' = Used \union {i}
                       /\ i = 3 => 2 \in Used
  <1>10. ASSUME Alone PROVE Higher
    <2>1. slot[1].next = 0 /\ slot[1].pre = 0 /\ slot[1].disp = "fb" /\ Used = {1}
      BY <1>10 DEF Alone, Lies
    <2>2. FreeSlot = 2 /\ Top = 1
      BY <2>1 DEF FreeSlot, Top, LastLayer
    <2>3. LastLayer(Cleared(2, w)) = 1
      BY <1>8, <2>1 DEF LastLayer, Cleared, Ids
    <2>4. /\ slot'[2].pre = 1 /\ slot'[2].next = 0 /\ ~slot'[2].isPrimary
          /\ slot'[2].disp = "fb" /\ slot'[2].curDispIdx = slot[Top].curDispIdx
          /\ slot'[1].pre = 0 /\ slot'[1].next = 2 /\ slot'[1].isPrimary
          /\ slot'[1].disp = "null"
      BY <1>6, <1>9, <2>1, <2>2, <2>3
    <2>5. Used' = {1, 2}
      <3>1. 2 \in Ids
        BY DEF Ids
      <3>2. Used' = Used \union {2}
        BY <1>1, <1>7, <2>2, <3>1, UsedMore
      <3> QED
        BY <2>1, <3>2
    <2>6. Two(2)' /\ Top' = 2
      BY <2>4, <2>5 DEF Two, Lies, Top, LastLayer
    <2> QED
      BY <2>1, <2>2, <2>4, <2>5, <2>6 DEF Shape
  <1>11. ASSUME Two(2) PROVE Higher
    <2>1. /\ slot[1].next = 2 /\ slot[1].pre = 0 /\ slot[1].disp = "null"
          /\ slot[2].next = 0 /\ slot[2].pre = 1 /\ slot[2].disp = "fb"
          /\ ~slot[2].isPrimary
          /\ Used = {1, 2}
      BY <1>11 DEF Two, Lies
    <2>2. FreeSlot = 3 /\ Top = 2
      BY <2>1 DEF FreeSlot, Top, LastLayer
    <2>3. LastLayer(Cleared(3, w)) = 2
      BY <1>8, <2>1 DEF LastLayer, Cleared, Ids
    <2>4. /\ slot'[3].pre = 2 /\ slot'[3].next = 0 /\ ~slot'[3].isPrimary
          /\ slot'[3].disp = "fb" /\ slot'[3].curDispIdx = slot[Top].curDispIdx
          /\ slot'[2].pre = 1 /\ slot'[2].next = 3 /\ ~slot'[2].isPrimary
          /\ slot'[2].disp = "tmp"
          /\ slot'[1] = slot[1]
      BY <1>9, <2>1, <2>2, <2>3 DEF Ids
    <2>5. Used' = {1, 2, 3}
      <3>1. 3 \in Ids
        BY DEF Ids
      <3>2. Used' = Used \union {3}
        BY <1>1, <1>7, <2>2, <3>1, UsedMore
      <3> QED
        BY <2>1, <3>2
    <2>6. Three' /\ Top' = 3
      BY <1>6, <2>1, <2>4, <2>5 DEF Three, Lies, Top, LastLayer
    <2> QED
      BY <2>1, <2>2, <2>4, <2>5, <2>6 DEF Shape
  <1>12. Higher
    BY <1>5, <1>10, <1>11
  <1>13. Halved'
    <2>1. agreed => slot[Top].curDispIdx = shown
      BY <1>1, <1>4, HalfShown
    <2> QED
      BY <1>1, <1>2, <1>12, <2>1 DEF Halved
  <1>14. Room'
    <2>1. /\ \A q \in Procs : op'[q] = IF q = p THEN "none" ELSE op[q]
          /\ \A q \in Procs : hd'[q] = IF q = p THEN i ELSE hd[q]
      BY <1>1, <1>7 DEF Return, TypeOK
    <2> HIDE DEF i
    <2>2. /\ Orders("primary")' = {}
          /\ Orders("overlay")' = Orders("overlay") \ {p}
          /\ Orders("destroy")' \subseteq Orders("destroy") \ {p}
      BY <1>4, <2>1 DEF Orders
    <2>3. 1 \in Used' /\ (3 \in Used' => i = 3) /\ (2 \in Used' => 2 \in Used \/ i = 2)
      BY <1>4, <1>12
    <2>4. \A q, r \in Procs : hd'[q] = hd'[r] /\ hd'[q] # 0 => q = r
      <3>1. \A q \in Procs : hd[q] # i
        BY <1>12 DEF Used
      <3>2. \A q, r \in Procs : hd[q] = hd[r] /\ hd[q] # 0 => q = r
        BY DEF IInv, Room
      <3> QED
        BY <2>1, <3>1, <3>2
    <2>5. \A q \in Orders("destroy")' : hd'[q] # 1
      <3>1. \A q \in Orders("destroy") : q \in Procs
        BY DEF Orders
      <3> QED
        BY <1>4, <2>1, <2>2, <3>1
    <2>6. \A q, r \in Orders("overlay")' : q = r
      BY <1>4, <2>2
    <2>7. 3 \in Used' => Orders("overlay")' = {}
      BY <1>4, <1>12, <2>2, <2>3
    <2> QED
      BY <2>2, <2>3, <2>4, <2>5, <2>6, <2>7 DEF Room
  <1> QED
    BY <1>2, <1>12, <1>13, <1>14 DEF IInv

LEMMA DestroyInv ==
    ASSUME TypeOK, CallsOK, IInv, NEW p \in Procs, DestoryScreenLayer(p)
    PROVE  IInv'
  <1> DEFINE h == hd[p]
  <1>1. /\ main = NoOne /\ Return(p) /\ UNCHANGED <<main, disp, at, shown, agreed>>
        /\ op[p] = "destroy" /\ h # 0
        /\ hd' = [hd EXCEPT ![p] = 0]
        /\ slot' = Unlink(MemFreeSL(slot, h), h)
    BY DEF DestoryScreenLayer, CallsOK
  <1>2. Excluded' /\ Climbing' /\ \A q \in Procs : ~AtTop(q)'
    BY <1>1, Undisturbed DEF IInv
  <1>3. h = 1 => Used = {1} /\ Orders("overlay") = {}
    <2>1. p \in Orders("destroy")
      BY <1>1 DEF Orders
    <2> QED
      BY <2>1 DEF IInv, Room
  <1>4. Used' = Used \ {h} /\ h \in Used /\ Orders("primary") = {}
    <2>1. Used' = Used \ {h} /\ h \in Used
      BY <1>1, UsedLess DEF IInv
    <2> QED
      BY <2>1 DEF IInv, Room
  <1>5. slot \in [Ids -> Layer] /\ {1, 2, 3} \subseteq Ids
    BY DEF TypeOK, Ids
  (* The chain is one layer shorter, and the half stays with the top.      *)
  <1> DEFINE Lower == /\ Shape'
                      /\ Used' # {} => slot'[Top'].curDispIdx = slot[Top].curDispIdx
  <1>6. ASSUME h = 1 PROVE Lower /\ Used' = {}
    BY <1>3, <1>4, <1>6 DEF Shape
  <1>7. ASSUME NEW i \in {2, 3}, Two(i), h # 1 PROVE Lower
    <2>1. /\ Used = {1, i} /\ slot[1].pre = 0 /\ slot[1].next = i /\ slot[1].isPrimary
          /\ slot[i].pre = 1 /\ slot[i].next = 0 /\ slot[i].disp = "fb"
      BY <1>7 DEF Two, Lies
    <2>2. h = i
      BY <1>4, <1>7, <2>1
    <2> HIDE DEF h
    <2>3. /\ slot'[1].next = 0 /\ slot'[1].pre = 0 /\ slot'[1].isPrimary
          /\ slot'[1].disp = "fb" /\ slot'[1].curDispIdx = slot[i].curDispIdx
      BY <1>1, <1>5, <2>1, <2>2, TopLeaves
    <2>4. Used' = {1}
      BY <1>4, <2>1, <2>2
    <2>5. Top = i /\ Top' = 1
      BY <2>1, <2>3 DEF Top, LastLayer
    <2>6. Alone'
      BY <2>3, <2>4 DEF Alone, Lies
    <2> QED
      BY <2>3, <2>5, <2>6 DEF Shape
  <1>8. ASSUME Three, h = 3 PROVE Lower
    <2>1. /\ Used = {1, 2, 3} /\ Lies(1, 0, 2, "null")
          /\ slot[1].next = 2
          /\ slot[2].pre = 1 /\ slot[2].next = 3 /\ ~slot[2].isPrimary
          /\ slot[3].pre = 2 /\ slot[3].next = 0 /\ slot[3].disp = "fb"
      BY <1>8 DEF Three, Lies
    <2> HIDE DEF h
    <2>2. slot' = Unlink(MemFreeSL(slot, 3), 3)
      BY <1>1, <1>8
    <2>3. /\ slot'[2].next = 0 /\ slot'[2].pre = 1 /\ ~slot'[2].isPrimary
          /\ slot'[2].disp = "fb" /\ slot'[2].curDispIdx = slot[3].curDispIdx
          /\ \A j \in Ids \ {3, 2} : slot'[j] = slot[j]
      BY <1>5, <2>1, <2>2, TopLeaves
    <2>4. Used' = {1, 2}
      BY <1>4, <1>8, <2>1
    <2>5. slot'[1] = slot[1]
      BY <1>5, <2>3
    <2>6. Top = 3 /\ Top' = 2
      BY <2>1, <2>3, <2>5 DEF Top, LastLayer
    <2>7. Two(2)'
      BY <2>1, <2>3, <2>4, <2>5 DEF Two, Lies
    <2> QED
      BY <2>3, <2>6, <2>7 DEF Shape
  <1>9. ASSUME Three, h = 2 PROVE Lower
    <2>1. /\ Used = {1, 2, 3}
          /\ slot[1].next = 2 /\ slot[1].pre = 0 /\ slot[1].disp = "null"
          /\ slot[1].isPrimary
          /\ slot[2].pre = 1 /\ slot[2].next = 3
          /\ slot[3].pre = 2 /\ slot[3].next = 0 /\ slot[3].disp = "fb"
          /\ ~slot[3].isPrimary
      BY <1>9 DEF Three, Lies
    <2> HIDE DEF h
    <2>2. slot' = Unlink(MemFreeSL(slot, 2), 2)
      BY <1>1, <1>9
    <2>3. /\ slot'[1].next = 3 /\ slot'[1].pre = 0 /\ slot'[1].isPrimary
          /\ slot'[1].disp = "null"
          /\ slot'[3].pre = 1 /\ slot'[3].next = 0 /\ slot'[3].disp = "fb"
          /\ ~slot'[3].isPrimary /\ slot'[3].curDispIdx = slot[3].curDispIdx
      BY <1>5, <2>1, <2>2, MiddleLeaves
    <2>4. Used' = {1, 3}
      BY <1>4, <1>9, <2>1
    <2>5. Top = 3 /\ Top' = 3
      BY <2>1, <2>3 DEF Top, LastLayer
    <2>6. Two(3)'
      BY <2>3, <2>4 DEF Two, Lies
    <2> QED
      BY <2>3, <2>5, <2>6 DEF Shape
  <1>10. Lower
    <2>1. Used # {} /\ Shape
      BY <1>4 DEF IInv
    <2>2. CASE h = 1
      BY <1>6, <2>2
    <2>3. CASE h # 1 /\ Alone
      BY <1>4, <2>3 DEF Alone
    <2>4. CASE h # 1 /\ (Two(2) \/ Two(3))
      BY <1>7, <2>4
    <2>5. CASE h # 1 /\ Three
      <3>1. h = 2 \/ h = 3
        BY <1>4, <2>5 DEF Three
      <3> QED
        BY <1>8, <1>9, <2>5, <3>1
    <2> QED
      BY <2>1, <2>2, <2>3, <2>4, <2>5 DEF Shape
  <1>11. Halved'
    <2>1. agreed => slot[Top].curDispIdx = shown
      BY <1>1, <1>4, HalfShown
    <2> QED
      BY <1>1, <1>2, <1>10, <2>1 DEF Halved
  <1>12. Room'
    <2> HIDE DEF h
    <2>1. /\ \A q \in Procs : op'[q] = IF q = p THEN "none" ELSE op[q]
          /\ \A q \in Procs : hd'[q] = IF q = p THEN 0 ELSE hd[q]
      BY <1>1 DEF Return, TypeOK
    <2>2. /\ Orders("primary")' = {}
          /\ Orders("overlay")' = Orders("overlay")
          /\ Orders("destroy")' = Orders("destroy") \ {p}
      BY <1>1, <1>4, <2>1 DEF Orders
    <2>3. \A q, r \in Procs : hd'[q] = hd'[r] /\ hd'[q] # 0 => q = r
      BY <2>1 DEF IInv, Room
    <2>4. /\ Orders("overlay") # {} => 1 \in Used
          /\ \A q \in Orders("destroy") : hd[q] = 1 => Used = {1}
          /\ 3 \in Used => Orders("overlay") = {}
          /\ 2 \in Used => \A q, r \in Orders("overlay") : q = r
          /\ \A q, r, t \in Orders("overlay") : q = r \/ r = t \/ q = t
      BY DEF IInv, Room
    <2>5. \A q \in Orders("destroy")' : hd'[q] # 1
      <3>1. ASSUME NEW q \in Orders("destroy"), q # p, hd[q] = 1 PROVE FALSE
        <4>1. q \in Procs /\ Used = {1}
          BY <2>4, <3>1 DEF Orders
        <4>2. h = 1
          BY <1>4, <4>1
        <4>3. hd[p] = hd[q] /\ hd[p] # 0
          BY <3>1, <4>2 DEF h
        <4> QED
          BY <3>1, <4>1, <4>3 DEF IInv, Room
      <3>2. \A q \in Orders("destroy") : q \in Procs
        BY DEF Orders
      <3> QED
        BY <2>1, <2>2, <3>1, <3>2
    <2>6. Orders("overlay") # {} => 1 \in Used'
      BY <1>3, <1>4, <2>4
    <2> QED
      BY <1>4, <2>2, <2>3, <2>4, <2>5, <2>6 DEF Room
  <1> QED
    BY <1>2, <1>10, <1>11, <1>12 DEF IInv

(***************************************************************************)
(* Updates.                                                                *)
(***************************************************************************)

(* An update starts at the primary layer.                                  *)
LEMMA UpdateInv ==
    ASSUME TypeOK, CallsOK, IInv, NEW p \in Procs, UpdateScreenLayer(p)
    PROVE  IInv'
  <1>1. /\ pc[p] = "disp" /\ op[p] = "update" /\ disp = NoOne /\ disp' = p
        /\ UNCHANGED <<slot, main, hd, op, pic, shown, agreed>>
        /\ hd[p] # 0 /\ main = p
    BY DEF UpdateScreenLayer, CallsOK, IInv, Excluded
  <1>2. /\ Used # {} /\ hd[p] \in Used /\ Used' = Used /\ Top' = Top
        /\ \A i \in {2, 3} : Two(i)' <=> Two(i)
        /\ (Alone <=> Alone') /\ (Three <=> Three')
    BY <1>1 DEF Used, Top, Alone, Two, Three, Lies
  <1>3. ChainFacts
    BY <1>2, ShapeFacts DEF IInv
  <1>4. slot[1].next = 0 => Alone /\ slot[hd[p]].isPrimary
    <2>1. CASE Alone
      BY <1>2, <1>3, <2>1 DEF Alone, ChainFacts
    <2>2. ASSUME ~Alone PROVE slot[1].next # 0
      BY <1>2, <2>2 DEF IInv, Shape, Two, Three, Lies
    <2> QED
      BY <2>1, <2>2
  <1>5. /\ \A q \in Procs : pc'[q] = IF q = p THEN "copy" ELSE pc[q]
        /\ at'[p] = 1
    BY <1>4 DEF UpdateScreenLayer, Go, TypeOK
  <1>6. \A q \in Procs : pc[q] \notin {"copy", "comb", "pan"}
    BY <1>1, NobodyDraws DEF IInv, Drawing
  <1>7. Excluded'
    BY <1>1, <1>5, <1>6 DEF IInv, Excluded, Drawing
  <1>8. Room'
    <2>1. \A o \in Ops : Orders(o)' = Orders(o)
      BY <1>1 DEF Orders
    <2>2. /\ Orders("primary")' = Orders("primary") /\ Orders("overlay")' = Orders("overlay")
          /\ Orders("destroy")' = Orders("destroy")
      BY <2>1 DEF Ops
    <2> QED
      BY <1>1, <1>2, <2>2 DEF IInv, Room
  <1>9. Shape'
    BY <1>2 DEF IInv, Shape
  <1>10. Climbing'
    BY <1>2, <1>3, <1>4, <1>5, <1>6 DEF Climbing, ChainFacts
  <1>11. Halved'
    <2>1. \A q \in Procs : ~AtTop(q) /\ ~AtTop(q)'
      BY <1>5, <1>6 DEF AtTop
    <2> QED
      BY <1>1, <1>2, <2>1 DEF IInv, Halved
  <1> QED
    BY <1>7, <1>8, <1>9, <1>10, <1>11 DEF IInv

(* What changes while p draws: its place, what the buffers show, and the   *)
(* index of the half the top layer draws into.                             *)
SameLinks ==
    \A i \in Ids : /\ slot'[i].pre = slot[i].pre /\ slot'[i].next = slot[i].next
                   /\ slot'[i].disp = slot[i].disp
                   /\ slot'[i].isPrimary = slot[i].isPrimary

Draws(p) == UNCHANGED <<main, disp, op>> /\ pc'[p] \in {"copy", "comb", "pan"}

LEMMA DrawingFrame ==
    ASSUME TypeOK, CallsOK, IInv, NEW p \in Procs, Drawing(p), SameLinks, hd' = hd,
           \A q \in Procs : q # p => pc'[q] = pc[q],
           Draws(p) \/ UpdateDone(p)
    PROVE  /\ Excluded' /\ Room' /\ Shape'
           /\ Used # {} /\ Used' = Used /\ Top' = Top /\ (Alone => Alone')
           /\ \A q \in Procs : q # p => pc'[q] = pc[q] /\ ~Drawing(q) /\ ~Drawing(q)'
           /\ UpdateDone(p) => \A q \in Procs : ~Drawing(q)'
  <1>1. op[p] = "update" /\ hd[p] # 0 /\ main = p /\ disp = p
    BY DEF CallsOK, Drawing, IInv, Excluded
  <1>2. \A q \in Procs : q # p => pc[q] # "load" /\ ~Drawing(q)
    BY NobodyDraws DEF IInv
  <1>3. /\ \A q \in Procs : q # p => op'[q] = op[q]
        /\ op'[p] \in {"update", "none"}
    BY <1>1 DEF Draws, UpdateDone, Return, TypeOK
  <1>4. /\ Used # {} /\ Used' = Used /\ Top \in Ids /\ Top' = Top
    <2>1. Used # {} /\ Used' = Used
      BY <1>1 DEF Used
    <2>2. Top \in Ids
      BY LastLayerType DEF Top, TypeOK
    <2>3. LastLayer(slot') = LastLayer(slot)
      <3>1. 1 \in Ids /\ slot[1].next \in 0 .. 3
        BY DEF TypeOK, Layer, Link, Ids
      <3>2. slot[1].next # 0 => slot[1].next \in Ids
        BY <3>1 DEF Ids
      <3> QED
        BY <3>1, <3>2 DEF LastLayer, SameLinks
    <2> QED
      BY <2>1, <2>2, <2>3 DEF Top
  <1>5. Excluded'
    <2>1. CASE Draws(p)
      BY <1>1, <1>2, <1>3, <2>1 DEF IInv, Excluded, Drawing, Draws
    <2>2. CASE UpdateDone(p)
      <3>1. pc'[p] = "idle"
        BY <2>2 DEF UpdateDone, Return, Go, TypeOK
      <3>2. \A q \in Procs : ~(pc[q] = "disp" /\ op[q] = "update")
        BY <1>1, CallsOK DEF IInv, Excluded, Drawing
      <3> QED
        BY <1>2, <1>3, <3>1, <3>2 DEF Excluded, Drawing
    <2> QED
      BY <2>1, <2>2
  <1>6. Room'
    <2>1. /\ Orders("primary")' = Orders("primary") /\ Orders("overlay")' = Orders("overlay")
          /\ Orders("destroy")' = Orders("destroy")
      BY <1>1, <1>3 DEF Orders
    <2> QED
      BY <1>4, <2>1 DEF IInv, Room
  <1>7. \A i \in Ids : \A a, b, c : Lies(i, a, b, c) => Lies(i, a, b, c)'
    BY DEF Lies, SameLinks
  <1>8. /\ Alone => Alone'
        /\ \A i \in {2, 3} : Two(i) => Two(i)'
        /\ Three => Three'
    <2>1. 1 \in Ids /\ 2 \in Ids /\ 3 \in Ids
      BY DEF Ids
    <2> QED
      BY <1>4, <1>7, <2>1 DEF Alone, Two, Three
  <1>9. Shape'
    BY <1>4, <1>8 DEF IInv, Shape
  <1>10. \A q \in Procs : q # p => ~Drawing(q) /\ ~Drawing(q)'
    BY <1>2 DEF Drawing
  <1>11. UpdateDone(p) => \A q \in Procs : ~Drawing(q)'
    BY <1>10 DEF UpdateDone, Return, Go, Drawing, TypeOK
  <1> QED
    BY <1>4, <1>5, <1>6, <1>8, <1>9, <1>10, <1>11

(* Where an update is: at layer a, with layer i to be drawn next.  The     *)
(* source of i shows every layer below it.                                 *)
LEMMA Below ==
    ASSUME TypeOK, IInv, Used # {}, NEW p \in Procs, pc[p] \in {"copy", "comb"}
    PROVE  LET a == at[p] i == NextLayer(p) IN
           /\ i \in Used /\ i \in Ids
           /\ i = Top <=> slot[i].next = 0
           /\ i = a <=> Alone
           /\ Alone => pc[p] = "copy" /\ i = Top /\ Source(p) = Used
           /\ ~Alone => a # Top /\ slot[a].next = i
           /\ i = Top => Source(p) \union {i} = Used
           /\ i # Top => a = 1 /\ i = 2 /\ slot[2].disp = "tmp" /\ Source(p) = {1}
           /\ a # 1 => a = 2 /\ i = Top /\ pic[2] = {1, 2}
  <1> DEFINE a == at[p]
             i == NextLayer(p)
  <1>1. ChainFacts
    BY ShapeFacts DEF IInv
  <1>2. /\ a \in Used
        /\ a # Top \/ (pc[p] = "copy" /\ Alone)
        /\ a # 1 => a = 2 /\ pic[2] = {1, 2}
    BY DEF IInv, Climbing
  <1>3. /\ i = IF slot[a].next = 0 THEN a ELSE slot[a].next
        /\ Source(p) = IF slot[a].isPrimary THEN {1} ELSE pic[Target(slot[a])]
    BY DEF NextLayer, Source
  <1> HIDE DEF a, i
  <1>4. CASE Alone
    <2>1. Used = {1} /\ Top = 1 /\ slot[1].next = 0 /\ slot[1].isPrimary
      BY <1>4 DEF Alone, Lies, Top, LastLayer
    <2>2. a = 1 /\ i = 1
      BY <1>2, <1>3, <2>1
    <2> QED
      BY <1>2, <1>3, <1>4, <2>1, <2>2 DEF a, i, Ids
  <1>5. ASSUME NEW j \in {2, 3}, Two(j), ~Alone
        PROVE  a = 1 /\ i = j /\ i = Top /\ Used = {1, i} /\ Source(p) = {1}
    <2>1. Used = {1, j} /\ Top = j /\ slot[1].next = j /\ slot[1].isPrimary
      BY <1>5 DEF Two, Lies, Top, LastLayer
    <2>2. a = 1
      BY <1>2, <1>5, <2>1
    <2> QED
      BY <1>3, <2>1, <2>2
  <1>6. CASE (Two(2) \/ Two(3)) /\ ~Alone
    <2>1. a = 1 /\ i \in {2, 3} /\ i = Top /\ Used = {1, i} /\ Source(p) = {1}
      BY <1>5, <1>6
    <2>2. slot[i].next = 0 /\ slot[a].next = i
      BY <1>1, <1>3, <2>1 DEF ChainFacts
    <2> QED
      BY <1>6, <2>1, <2>2 DEF a, i, Ids
  <1>7. CASE Three
    <2>1. /\ Used = {1, 2, 3} /\ Top = 3
          /\ slot[1].next = 2 /\ slot[1].isPrimary
          /\ slot[2].next = 3 /\ ~slot[2].isPrimary /\ slot[2].disp = "tmp"
          /\ slot[3].next = 0
      BY <1>7 DEF Three, Lies, Top, LastLayer
    <2>2. ~Alone
      BY <2>1 DEF Alone
    <2>3. Target(slot[2]) = 2
      BY <2>1 DEF Target
    <2>4. a = 1 \/ (a = 2 /\ pic[2] = {1, 2})
      BY <1>2
    <2>5. CASE a = 1
      <3>1. i = 2 /\ Source(p) = {1}
        BY <1>3, <2>1, <2>5
      <3> QED
        BY <2>1, <2>2, <2>5, <3>1 DEF a, i, Ids
    <2>6. CASE a = 2 /\ pic[2] = {1, 2}
      <3>1. i = 3 /\ Source(p) = {1, 2}
        BY <1>3, <2>1, <2>3, <2>6
      <3> QED
        BY <2>1, <2>2, <2>6, <3>1 DEF a, i, Ids
    <2> QED
      BY <2>4, <2>5, <2>6
  <1> QED
    BY <1>4, <1>6, <1>7 DEF IInv, Shape

(* The top layer turns to the other half; no other layer changes.          *)
LEMMA TurnedTop ==
    ASSUME TypeOK, IInv, Used # {}, NEW i \in Ids, i = Top <=> slot[i].next = 0,
           slot' = Toggled(i)
    PROVE  /\ SameLinks
           /\ slot' \in [Ids -> Layer]
           /\ i # Top => slot' = slot
           /\ i = Top => slot'[Top].curDispIdx = 1 - slot[Top].curDispIdx
  <1>1. slot \in [Ids -> Layer] /\ 1 - slot[i].curDispIdx \in Halves
    BY DEF TypeOK, Layer, Halves
  <1>2. CASE i # Top
    BY <1>1, <1>2 DEF Toggled, SameLinks
  <1>3. CASE i = Top
    <2>1. slot' = [slot EXCEPT ![i].curDispIdx = 1 - slot[i].curDispIdx]
      BY <1>3 DEF Toggled
    <2>2. slot' \in [Ids -> Layer]
      BY <1>1, <2>1, FieldTypes
    <2>3. /\ slot'[i].curDispIdx = 1 - slot[i].curDispIdx
          /\ slot'[i].pre = slot[i].pre /\ slot'[i].next = slot[i].next
          /\ slot'[i].disp = slot[i].disp /\ slot'[i].isPrimary = slot[i].isPrimary
          /\ \A j \in Ids \ {i} : slot'[j] = slot[j]
      BY <1>1, <2>1 DEF Layer
    <2> QED
      BY <1>3, <2>2, <2>3 DEF SameLinks
  <1> QED
    BY <1>2, <1>3

LEMMA HalvesDiffer == \A x, y \in Halves : 1 - x = y <=> x # y
  BY DEF Halves

LEMMA CopyInv ==
    ASSUME TypeOK, CallsOK, IInv, NEW p \in Procs, CopyScreenLayer(p)
    PROVE  IInv'
  <1> DEFINE a == at[p]
             i == NextLayer(p)
  <1>1. pc[p] = "copy" /\ hd' = hd /\ shown' = shown /\ slot' = Toggled(i)
    BY DEF CopyScreenLayer
  <1>2. Used # {} /\ ChainFacts
    <2>1. op[p] = "update" /\ hd[p] # 0
      BY <1>1 DEF CallsOK
    <2>2. Used # {}
      BY <2>1 DEF Used
    <2> QED
      BY <2>2, ShapeFacts DEF IInv
  <1>3. /\ i \in Used /\ i \in Ids
        /\ i = Top <=> slot[i].next = 0
        /\ i = a <=> Alone
        /\ Alone => i = Top /\ Source(p) = Used
        /\ ~Alone => a # Top /\ slot[a].next = i
        /\ i # Top => a = 1
        /\ a # 1 => a = 2 /\ i = Top /\ pic[2] = {1, 2}
    BY <1>1, <1>2, Below
  <1>4. PICK ok \in BOOLEAN, skip \in BOOLEAN :
           /\ skip => ~Alone
           /\ agreed' = (agreed /\ (ok \/ slot[i].next # 0))
           /\ IF ~ok THEN UpdateDone(p)
              ELSE /\ pic' = IF skip THEN pic ELSE [pic EXCEPT ![Target(slot'[i])] = Source(p)]
                   /\ pc' = [pc EXCEPT ![p] = IF i = a THEN "pan" ELSE "comb"]
                   /\ UNCHANGED <<main, disp, op, at>>
    <2> DEFINE k == i # a /\ slot[i].whole
    <2>1. PICK ok \in IF k THEN {TRUE} ELSE Results("ipu") :
             /\ agreed' = (agreed /\ (ok \/ slot[i].next # 0))
             /\ IF ~ok THEN UpdateDone(p)
                ELSE /\ pic' = IF k THEN pic
                               ELSE [pic EXCEPT ![Target(slot'[i])] = Source(p)]
                     /\ pc' = [pc EXCEPT ![p] = IF i = a THEN "pan" ELSE "comb"]
                     /\ UNCHANGED <<main, disp, op, at>>
      BY Zenon DEF CopyScreenLayer, Go
    <2>2. ok \in BOOLEAN /\ k \in BOOLEAN
      BY <1>3 DEF Results, TypeOK, Layer
    <2>3. k => ~Alone
      BY <1>3
    <2> HIDE DEF k
    <2> QED
      BY <2>1, <2>2, <2>3
  <1> HIDE DEF i, a
  <1>5. /\ SameLinks /\ slot' \in [Ids -> Layer]
        /\ i # Top => slot' = slot
        /\ i = Top => slot'[Top].curDispIdx = 1 - slot[Top].curDispIdx
    BY <1>1, <1>2, <1>3, TurnedTop
  <1>6. \A q \in Procs : q # p => pc'[q] = pc[q]
    BY <1>4 DEF UpdateDone, Return, Go, TypeOK
  <1>7. ok => Draws(p) /\ pc'[p] = (IF i = a THEN "pan" ELSE "comb") /\ at' = at
    BY <1>4 DEF Draws, TypeOK
  <1>8. /\ Excluded' /\ Room' /\ Shape'
        /\ Used' = Used /\ Top' = Top /\ (Alone => Alone')
        /\ \A q \in Procs : q # p => ~Drawing(q) /\ ~Drawing(q)'
        /\ UpdateDone(p) => \A q \in Procs : ~Drawing(q)'
    <2>1. Drawing(p) /\ (Draws(p) \/ UpdateDone(p))
      BY <1>1, <1>4, <1>7 DEF Drawing
    <2> QED
      BY <1>1, <1>5, <1>6, <2>1, DrawingFrame
  <1>9. /\ Top \in Ids /\ slot[Top].curDispIdx \in Halves /\ shown \in Halves
        /\ slot'[Top].curDispIdx \in Halves
        /\ slot'[Top].disp = "fb" /\ slot'[Top].next = 0
    <2>1. Top \in Ids
      BY LastLayerType DEF Top, TypeOK
    <2> QED
      BY <1>2, <1>5, <2>1 DEF TypeOK, Layer, ChainFacts, SameLinks
  <1>10. Target(slot'[Top]) \in {0, 1}
    BY <1>9 DEF Target, Halves
  (* Before the step nobody was at the top.                                *)
  <1>11. agreed => slot[Top].curDispIdx = shown
    <2>1. \A q \in Procs : ~AtTop(q)
      BY <1>1, <1>8 DEF AtTop, Drawing
    <2> QED
      BY <1>2, <2>1 DEF IInv, Halved
  <1>12. CASE ~ok
    <2>1. \A q \in Procs : ~Drawing(q)'
      BY <1>4, <1>8, <1>12
    <2>2. Climbing' /\ \A q \in Procs : ~AtTop(q)'
      BY <2>1 DEF Climbing, Drawing, AtTop
    <2>3. agreed' => agreed /\ i # Top
      BY <1>3, <1>4, <1>12
    <2>4. Halved'
      BY <1>1, <1>5, <1>8, <1>11, <2>2, <2>3 DEF Halved
    <2> QED
      BY <1>8, <2>2, <2>4 DEF IInv
  <1>13. CASE ok
    <2>1. /\ pc'[p] = (IF i = a THEN "pan" ELSE "comb") /\ at'[p] = a
          /\ agreed' = agreed
          /\ pic' = IF skip THEN pic ELSE [pic EXCEPT ![Target(slot'[i])] = Source(p)]
      BY <1>4, <1>7, <1>13 DEF a, TypeOK
    <2>2. Climbing'
      <3>1. CASE Alone
        <4>1. pic' = [pic EXCEPT ![Target(slot'[Top])] = Used]
          BY <1>3, <1>4, <2>1, <3>1
        <4>2. pic'[Target(slot'[Top])] = Used
          BY <1>10, <4>1 DEF TypeOK, Buffers
        <4>3. (Target(slot[Top]))' = Target(slot'[Top'])
          BY DEF Target
        <4> QED
          BY <1>3, <1>8, <2>1, <3>1, <4>2, <4>3 DEF Climbing, Drawing
      <3>2. CASE ~Alone
        <4>1. a # 1 => pic'[2] = {1, 2}
          <5>1. ASSUME a # 1 PROVE pic[2] = {1, 2} /\ Target(slot'[i]) # 2
            BY <1>3, <1>10, <5>1
          <5> QED
            BY <2>1, <5>1 DEF TypeOK, Buffers
        <4>2. a \in Used
          BY <1>1 DEF IInv, Climbing, a
        <4> QED
          BY <1>3, <1>8, <2>1, <3>2, <4>1, <4>2 DEF Climbing, Drawing
      <3> QED
        BY <3>1, <3>2
    <2>3. NextLayer(p)' = i
      <3>1. a \in Ids
        BY DEF TypeOK, a
      <3>2. NextLayer(p)' = IF slot'[a].next = 0 THEN a ELSE slot'[a].next
        BY <2>1 DEF NextLayer
      <3>3. slot'[a].next = slot[a].next
        BY <1>5, <3>1 DEF SameLinks
      <3> QED
        BY <3>2, <3>3 DEF NextLayer, a, i
    <2>4. AtTop(p)' <=> i = Top
      <3>1. slot'[i].next = slot[i].next
        BY <1>3, <1>5 DEF SameLinks
      <3> QED
        BY <1>3, <2>1, <2>3, <3>1 DEF AtTop
    <2>5. \A q \in Procs : q # p => ~AtTop(q)'
      BY <1>8 DEF AtTop, Drawing
    <2>6. Halved'
      <3>1. CASE i = Top
        BY <1>1, <1>5, <1>8, <1>9, <1>11, <2>1, <2>4, <3>1, HalvesDiffer DEF Halved
      <3>2. CASE i # Top
        BY <1>1, <1>5, <1>8, <1>11, <2>1, <2>4, <2>5, <3>2 DEF Halved
      <3> QED
        BY <3>1, <3>2
    <2> QED
      BY <1>8, <2>2, <2>6 DEF IInv
  <1> QED
    BY <1>12, <1>13

LEMMA CombInv ==
    ASSUME TypeOK, CallsOK, IInv, NEW p \in Procs, CombScreenLayers(p)
    PROVE  IInv'
  <1> DEFINE a == at[p]
             i == NextLayer(p)
             top == slot[i].next = 0
  <1>1. pc[p] = "comb" /\ UNCHANGED <<slot, hd, shown>>
    BY DEF CombScreenLayers
  <1>2. Used # {} /\ ChainFacts
    <2>1. op[p] = "update" /\ hd[p] # 0
      BY <1>1 DEF CallsOK
    <2>2. Used # {}
      BY <2>1 DEF Used
    <2> QED
      BY <2>2, ShapeFacts DEF IInv
  <1>3. /\ i \in Used /\ i \in Ids
        /\ i = Top <=> top
        /\ i = Top => Source(p) \union {i} = Used
        /\ i # Top => i = 2 /\ slot[2].disp = "tmp" /\ Source(p) = {1}
    BY <1>1, <1>2, Below
  <1>4. PICK ok \in BOOLEAN :
           /\ agreed' = (agreed /\ (ok \/ ~top))
           /\ IF ~ok THEN UpdateDone(p)
              ELSE /\ pic' = [pic EXCEPT ![Target(slot[i])] = Source(p) \union {i}]
                   /\ pc' = [pc EXCEPT ![p] = IF top THEN "pan" ELSE "copy"]
                   /\ at' = [at EXCEPT ![p] = i]
                   /\ UNCHANGED <<main, disp, op>>
    <2>1. PICK ok \in Results("ipu") :
             /\ agreed' = (agreed /\ (ok \/ ~top))
             /\ IF ~ok THEN UpdateDone(p)
                ELSE /\ pic' = [pic EXCEPT ![Target(slot[i])] = Source(p) \union {i}]
                     /\ pc' = [pc EXCEPT ![p] = IF top THEN "pan" ELSE "copy"]
                     /\ at' = [at EXCEPT ![p] = i]
                     /\ UNCHANGED <<main, disp, op>>
      BY Zenon DEF CombScreenLayers, Go
    <2>2. ok \in BOOLEAN
      BY DEF Results
    <2> QED
      BY <2>1, <2>2
  <1> HIDE DEF i, a, top
  <1>5. SameLinks /\ Top' = Top
    BY <1>1 DEF SameLinks, Top
  <1>6. \A q \in Procs : q # p => pc'[q] = pc[q]
    BY <1>4 DEF UpdateDone, Return, Go, TypeOK
  <1>7. ok => Draws(p) /\ pc'[p] = (IF top THEN "pan" ELSE "copy") /\ at'[p] = i
    BY <1>4 DEF Draws, TypeOK
  <1>8. /\ Excluded' /\ Room' /\ Shape' /\ Used' = Used
        /\ \A q \in Procs : q # p => ~Drawing(q) /\ ~Drawing(q)'
        /\ UpdateDone(p) => \A q \in Procs : ~Drawing(q)'
    <2>1. Drawing(p) /\ (Draws(p) \/ UpdateDone(p))
      BY <1>1, <1>4, <1>7 DEF Drawing
    <2> QED
      BY <1>1, <1>5, <1>6, <2>1, DrawingFrame
  <1>9. Target(slot[i]) \in Buffers /\ (i # Top => Target(slot[i]) = 2)
    <2>1. slot[i].curDispIdx \in {0, 1}
      BY <1>3 DEF TypeOK, Layer, Halves
    <2> QED
      BY <1>3, <2>1 DEF Target, Buffers
  (* Before the step p was at the top when it composed the top layer.      *)
  <1>10. AtTop(p) <=> top
    BY <1>1 DEF AtTop, i, top
  <1>11. \A q \in Procs : q # p => ~AtTop(q) /\ ~AtTop(q)'
    BY <1>8 DEF AtTop, Drawing
  <1>12. CASE ~ok
    <2>1. \A q \in Procs : ~Drawing(q)'
      BY <1>4, <1>8, <1>12
    <2>2. Climbing' /\ \A q \in Procs : ~AtTop(q)'
      BY <2>1 DEF Climbing, Drawing, AtTop
    <2>3. agreed' => agreed /\ ~top
      BY <1>4, <1>12
    <2>4. Halved'
      BY <1>1, <1>5, <1>8, <1>10, <1>11, <2>2, <2>3 DEF IInv, Halved
    <2> QED
      BY <1>8, <2>2, <2>4 DEF IInv
  <1>13. CASE ok
    <2>1. /\ pc'[p] = (IF top THEN "pan" ELSE "copy") /\ at'[p] = i
          /\ agreed' = agreed
          /\ pic' = [pic EXCEPT ![Target(slot[i])] = Source(p) \union {i}]
      BY <1>4, <1>7, <1>13 DEF TypeOK
    <2>2. pic'[Target(slot[i])] = Source(p) \union {i}
      BY <1>9, <2>1 DEF TypeOK
    <2>3. Climbing'
      <3>1. CASE top
        <4>1. (Target(slot[Top]))' = Target(slot[Top])
          BY <1>1, <1>5 DEF Target
        <4> QED
          BY <1>3, <1>5, <1>8, <2>1, <2>2, <3>1, <4>1 DEF Climbing, Drawing
      <3>2. CASE ~top
        <4>1. i = 2 /\ pic'[2] = {1, 2} /\ i # Top /\ i \in Used
          BY <1>3, <1>9, <2>2, <3>2
        <4> QED
          BY <1>5, <1>8, <2>1, <3>2, <4>1 DEF Climbing, Drawing
      <3> QED
        BY <3>1, <3>2
    <2>4. AtTop(p)' <=> top
      <3>1. NextLayer(p)' = IF slot[i].next = 0 THEN i ELSE slot[i].next
        BY <1>1, <2>1 DEF NextLayer
      <3> QED
        BY <1>1, <2>1, <3>1 DEF AtTop, top
    <2>5. Halved'
      BY <1>1, <1>5, <1>8, <1>10, <1>11, <2>1, <2>4 DEF IInv, Halved
    <2> QED
      BY <1>8, <2>3, <2>5 DEF IInv
  <1> QED
    BY <1>12, <1>13

LEMMA PanInv ==
    ASSUME TypeOK, CallsOK, IInv, NEW p \in Procs, UpdateFramebuffer(p)
    PROVE  IInv'
  <1>1. pc[p] = "pan" /\ UNCHANGED <<slot, hd>> /\ UpdateDone(p)
    BY DEF UpdateFramebuffer
  <1>2. at[p] = Top
    BY <1>1 DEF IInv, Climbing
  <1>3. SameLinks /\ Top' = Top
    BY <1>1 DEF SameLinks, Top
  <1>4. \A q \in Procs : q # p => pc'[q] = pc[q]
    BY <1>1 DEF UpdateDone, Return, Go, TypeOK
  <1>5. Excluded' /\ Room' /\ Shape' /\ \A q \in Procs : ~Drawing(q)'
    <2>1. Drawing(p)
      BY <1>1 DEF Drawing
    <2> QED
      BY <1>1, <1>3, <1>4, <2>1, DrawingFrame
  <1>6. Climbing' /\ \A q \in Procs : ~AtTop(q)'
    BY <1>5 DEF Climbing, Drawing, AtTop
  <1>7. agreed' => shown' = slot[Top].curDispIdx
    BY <1>2 DEF UpdateFramebuffer
  <1>8. Halved'
    BY <1>1, <1>3, <1>6, <1>7 DEF Halved
  <1> QED
    BY <1>5, <1>6, <1>8 DEF IInv

(* Every step of orderly clients keeps the invariant.                      *)
LEMMA NextInv ==
    ASSUME Careful, TypeOK, CallsOK, IInv, [Next]_vars
    PROVE  IInv'
  <1>1. CASE UNCHANGED vars
    <2> USE <1>1 DEF vars
    <2>1. /\ Used' = Used /\ Top' = Top /\ (Alone <=> Alone')
          /\ \A o \in {"primary", "overlay", "destroy"} : Orders(o)' = Orders(o)
      BY DEF Used, Top, Alone, Lies, Orders
    <2>2. Excluded' /\ Room'
      BY <2>1 DEF IInv, Excluded, Drawing, Room
    <2>3. Shape'
      BY <2>1 DEF IInv, Shape, Alone, Two, Three, Lies
    <2>4. Climbing' /\ Halved'
      BY <2>1 DEF IInv, Climbing, Target, Halved, AtTop, NextLayer
    <2> QED
      BY <2>2, <2>3, <2>4 DEF IInv
  <1>2. ASSUME NEW p \in Procs, Call(p) PROVE IInv'
    BY <1>2, CallInv
  <1>3. ASSUME NEW p \in Procs, CreateScreenLayer(p) PROVE IInv'
    <2>1. CreatePrimary(p) \/ CreateOverlay(p)
      BY <1>3 DEF CreateScreenLayer
    <2> QED
      BY <1>3, <2>1, PrimaryRefusedInv, CreatePrimaryInv,
         OverlayRefusedInv, CreateOverlayInv
  <1>4. ASSUME NEW p \in Procs, DestoryScreenLayer(p) PROVE IInv'
    BY <1>4, DestroyInv
  <1>5. ASSUME NEW p \in Procs,
               \/ SetScreenLayer(p) \/ FlipScreenLayerBuf(p)
               \/ LoadBegin(p) \/ LoadEnd(p) \/ UpdateMain(p)
        PROVE  IInv'
    BY <1>5, SameChainInv
  <1>6. ASSUME NEW p \in Procs, UpdateScreenLayer(p) PROVE IInv'
    BY <1>6, UpdateInv
  <1>7. ASSUME NEW p \in Procs, CopyScreenLayer(p) PROVE IInv'
    BY <1>7, CopyInv
  <1>8. ASSUME NEW p \in Procs, CombScreenLayers(p) PROVE IInv'
    BY <1>8, CombInv
  <1>9. ASSUME NEW p \in Procs, UpdateFramebuffer(p) PROVE IInv'
    BY <1>9, PanInv
  <1> QED
    BY <1>1, <1>2, <1>3, <1>4, <1>5, <1>6, <1>7, <1>8, <1>9 DEF Next, Step

(* The inductive invariant holds in every state orderly clients reach.     *)
THEOREM Invariance == Careful => (Spec => []IInv)
  <1> SUFFICES ASSUME Careful PROVE Spec => []IInv
    OBVIOUS
  <1>1. TypeOK /\ CallsOK /\ IInv /\ [Next]_vars => IInv'
    BY NextInv
  <1> QED
    BY <1>1, InitInv, TypeCorrect, PTL DEF Spec

(***************************************************************************)
(* What it gives.                                                          *)
(***************************************************************************)

(* One process for each layer in use.                                      *)
LEMMA Owners ==
    ASSUME TypeOK, Room, IsFiniteSet(Used)
    PROVE  Cardinality({p \in Procs : hd[p] # 0}) = Cardinality(Used)
  <1> DEFINE O == {p \in Procs : hd[p] # 0}
             f == [p \in O |-> hd[p]]
  <1>1. f \in [O -> Used]
    BY DEF Used
  <1>2. \A p, q \in O : f[p] = f[q] => p = q
    BY DEF Room
  <1>3. \A u \in Used : \E p \in O : f[p] = u
    BY DEF Used
  <1> HIDE DEF f, O
  <1>4. f \in Bijection(O, Used)
    BY <1>1, <1>2, <1>3, Fun_IsBij
  <1>5. ExistsBijection(Used, O)
    BY <1>4, Fun_ExistsBij, Fun_ExistsBijSymmetric
  <1>6. Cardinality(O) = Cardinality(Used)
    BY <1>5, FS_Bijection
  <1> QED
    BY <1>6 DEF O

LEMMA ShapeIsCase == TypeOK /\ IInv => CasesABC
  <1> SUFFICES ASSUME TypeOK, IInv PROVE CasesABC
    OBVIOUS
  <1>1. ASSUME NEW c, NEW n \in Nat, Chain = c, Len(c) = n,
               {c[k] : k \in 1 .. n} = Used,
               IsFiniteSet(Used), Cardinality(Used) = n,
               \A k \in 1 .. n :
                 /\ slot[c[k]].pre = IF k = 1 THEN 0 ELSE c[k - 1]
                 /\ slot[c[k]].disp = IF k = n THEN "fb" ELSE IF k = 1 THEN "null" ELSE "tmp"
                 /\ k = n => slot[c[k]].next = 0
        PROVE  CasesABC
    <2>1. Cardinality({p \in Procs : hd[p] # 0}) = Cardinality(Used)
      BY <1>1, Owners DEF IInv
    <2> QED
      BY <1>1, <2>1 DEF CasesABC
  <1>2. CASE Used = {}
    <2>1. Chain = <<>>
      BY <1>2 DEF Chain
    <2>2. Len(<<>>) = 0 /\ 1 .. 0 = {} /\ IsFiniteSet(Used) /\ Cardinality(Used) = 0
      BY <1>2, FS_EmptySet
    <2>3. {<<>>[k] : k \in 1 .. 0} = Used
      BY <1>2, <2>2
    <2> QED
      BY <1>1, <2>1, <2>2, <2>3
  <1>3. CASE Alone
    <2>1. /\ Used = {1} /\ slot[1].pre = 0 /\ slot[1].next = 0 /\ slot[1].disp = "fb"
          /\ slot[1].isPrimary
      BY <1>3 DEF Alone, Lies
    <2>2. Chain = <<1>>
      BY <2>1 DEF Chain
    <2> DEFINE c == <<1>>
    <2>3. Len(c) = 1 /\ 1 .. 1 = {1} /\ c[1] = 1
      OBVIOUS
    <2> HIDE DEF c
    <2>4. {c[k] : k \in 1 .. 1} = Used
      BY <2>1, <2>3
    <2>5. IsFiniteSet(Used) /\ Cardinality(Used) = 1
      BY <2>1, SmallCardinalities
    <2>6. \A k \in 1 .. 1 :
            /\ slot[c[k]].pre = IF k = 1 THEN 0 ELSE c[k - 1]
            /\ slot[c[k]].disp = IF k = 1 THEN "fb" ELSE IF k = 1 THEN "null" ELSE "tmp"
            /\ k = 1 => slot[c[k]].next = 0
      BY <2>1, <2>3
    <2> QED
      BY <1>1, <2>2, <2>3, <2>4, <2>5, <2>6 DEF c
  <1>4. ASSUME NEW i \in {2, 3}, Two(i) PROVE CasesABC
    <2>1. /\ Used = {1, i} /\ slot[1].pre = 0 /\ slot[1].next = i /\ slot[1].disp = "null"
          /\ slot[1].isPrimary
          /\ slot[i].pre = 1 /\ slot[i].next = 0 /\ slot[i].disp = "fb"
      BY <1>4 DEF Two, Lies
    <2>2. Chain = <<1, i>>
      BY <2>1 DEF Chain
    <2> DEFINE c == <<1, i>>
    <2>3. Len(c) = 2 /\ 1 .. 2 = {1, 2} /\ c[1] = 1 /\ c[2] = i
      OBVIOUS
    <2> HIDE DEF c
    <2>4. {c[k] : k \in 1 .. 2} = Used
      BY <2>1, <2>3
    <2>5. IsFiniteSet(Used) /\ Cardinality(Used) = 2
      BY <2>1, SmallCardinalities
    <2>6. \A k \in 1 .. 2 :
            /\ slot[c[k]].pre = IF k = 1 THEN 0 ELSE c[k - 1]
            /\ slot[c[k]].disp = IF k = 2 THEN "fb" ELSE IF k = 1 THEN "null" ELSE "tmp"
            /\ k = 2 => slot[c[k]].next = 0
      BY <2>1, <2>3
    <2> QED
      BY <1>1, <2>2, <2>3, <2>4, <2>5, <2>6 DEF c
  <1>5. CASE Three
    <2>1. /\ Used = {1, 2, 3}
          /\ slot[1].pre = 0 /\ slot[1].next = 2 /\ slot[1].disp = "null"
          /\ slot[1].isPrimary
          /\ slot[2].pre = 1 /\ slot[2].next = 3 /\ slot[2].disp = "tmp"
          /\ slot[3].pre = 2 /\ slot[3].next = 0 /\ slot[3].disp = "fb"
      BY <1>5 DEF Three, Lies
    <2>2. Chain = <<1, 2, 3>>
      BY <2>1 DEF Chain
    <2> DEFINE c == <<1, 2, 3>>
    <2>3. Len(c) = 3 /\ 1 .. 3 = {1, 2, 3} /\ c[1] = 1 /\ c[2] = 2 /\ c[3] = 3
      OBVIOUS
    <2> HIDE DEF c
    <2>4. {c[k] : k \in 1 .. 3} = Used
      BY <2>1, <2>3
    <2>5. IsFiniteSet(Used) /\ Cardinality(Used) = 3
      BY <2>1, SmallCardinalities
    <2>6. \A k \in 1 .. 3 :
            /\ slot[c[k]].pre = IF k = 1 THEN 0 ELSE c[k - 1]
            /\ slot[c[k]].disp = IF k = 3 THEN "fb" ELSE IF k = 1 THEN "null" ELSE "tmp"
            /\ k = 3 => slot[c[k]].next = 0
      BY <2>1, <2>3
    <2> QED
      BY <1>1, <2>2, <2>3, <2>4, <2>5, <2>6 DEF c
  <1> QED
    BY <1>2, <1>3, <1>4, <1>5 DEF IInv, Shape

(* The layers in use are a chain in one of the cases the code lists,       *)
(* whatever order processes create and destroy layers in.                  *)
THEOREM ChainsAreCases == Careful => (Spec => []CasesABC)
  BY ShapeIsCase, TypeCorrect, Invariance, PTL

LEMMA HalvesApart == TypeOK /\ CallsOK /\ IInv => NoTearing
  <1> SUFFICES ASSUME TypeOK, CallsOK, IInv, agreed, NEW p \in Procs,
                      pc[p] \in {"copy", "comb", "pan"}, slot[NextLayer(p)].next = 0
               PROVE  slot[NextLayer(p)].curDispIdx = shown <=> pc[p] = "copy"
    BY DEF NoTearing
  <1>1. Used # {}
    <2>1. hd[p] # 0
      BY DEF CallsOK
    <2> QED
      BY <2>1 DEF Used
  <1>2. NextLayer(p) = Top
    <2>1. CASE pc[p] = "pan"
      <3>1. at[p] = Top /\ slot[Top].next = 0
        BY <1>1, <2>1, ShapeFacts DEF IInv, Climbing, ChainFacts
      <3> QED
        BY <3>1 DEF NextLayer
    <2>2. CASE pc[p] \in {"copy", "comb"}
      BY <1>1, <2>2, Below
    <2> QED
      BY <2>1, <2>2
  <1>3. slot[Top].curDispIdx = shown <=> \A q \in Procs : ~AtTop(q)
    BY <1>1 DEF IInv, Halved
  <1>4. \A q \in Procs : AtTop(q) => q = p
    BY NobodyDraws DEF IInv, AtTop, Drawing
  <1>5. AtTop(p) <=> pc[p] # "copy"
    BY DEF AtTop
  <1> QED
    BY <1>2, <1>3, <1>4, <1>5

(* The half that is composed is never the one on the screen, as long as    *)
(* the index is in step with it.                                           *)
THEOREM NeverTears == Careful => (Spec => []NoTearing)
  BY HalvesApart, TypeCorrect, Invariance, PTL

LEMMA PannedIsUsed == IInv => PansSnapshot
  <1> SUFFICES ASSUME IInv, NEW p \in Procs, pc[p] = "pan"
               PROVE  pic[Target(slot[at[p]])] = Used
    BY DEF PansSnapshot
  <1> QED
    BY DEF IInv, Climbing

(* A pan shows all layers of the chain as they are at that moment.         *)
THEOREM PansAreSnapshots == Careful => (Spec => []PansSnapshot)
  BY PannedIsUsed, Invariance, PTL

=============================================================================
