---------------------------- MODULE ScreenLayer ----------------------------
(***************************************************************************)
(* imx-lib's screen layers: up to three layers in shared memory, created   *)
(* and destroyed by different processes, that the IPU composes from the    *)
(* primary layer up into the hidden half of the frame buffer, which is     *)
(* then panned to.  Two of the three semaphores, the chain of layers, the  *)
(* hand-over of the frame buffer between layers, and failing IPU tasks     *)
(* and pans are modelled; pixels are not: for each buffer the model keeps  *)
(* which layers it shows in their present state.                           *)
(***************************************************************************)
EXTENDS Naturals, FiniteSets, Sequences

CONSTANTS
    Procs,     \* client processes, each with at most one layer
    NoOne,     \* a semaphore that is free
    Failures,  \* of "ipu", "pan", "alloc" and "load", what may fail
    Orderly    \* clients keep to what the library does not check

ASSUME ProcsAssumption == NoOne \notin Procs
ASSUME FailuresAssumption == Failures \subseteq {"ipu", "pan", "alloc", "load"}
ASSUME OrderlyAssumption == Orderly \in BOOLEAN

VARIABLES
    slot,    \* vshmSLPriv, the shared ScreenLayerPriv by layerID
    main,    \* who holds semMainID
    disp,    \* who holds semDispID
    hd,      \* the process's layer: ScreenLayer.pPriv
    op,      \* the call the process is in
    pc,      \* where it is in it
    at,      \* pCurSLPriv of the process that updates
    pic,     \* for each buffer, the layers it shows as they are now (kept
             \* during an update, in which a buffer is drawn before it is read)
    shown,   \* the half of the frame buffer on the screen
    agreed   \* history: the top layer's curDispIdx is the half shown

vars == <<slot, main, disp, hd, op, pc, at, pic, shown, agreed>>

Ids == 1 .. 3
Link == 0 .. 3
Halves == {0, 1}
Ops == {"none", "primary", "overlay", "destroy", "load", "flip", "set", "update"}
PCs == {"idle", "main", "disp", "load", "copy", "comb", "pan"}

(* dispPaddr: the two halves of the frame buffer, the temporary buffer, or *)
(* no address.                                                             *)
Targets == {"fb", "tmp", "null"}
Buffers == 0 .. 3   \* the halves, the temporary buffer and address 0
Layer == [isPrimary: BOOLEAN, pre: Link, next: Link, disp: Targets,
          curDispIdx: Halves, whole: BOOLEAN]
(* A slot after memset.                                                    *)
Zeroed == [isPrimary |-> FALSE, pre |-> 0, next |-> 0, disp |-> "null",
           curDispIdx |-> 0, whole |-> FALSE]
PrimaryLayer(d) ==
    [Zeroed EXCEPT !.isPrimary = TRUE, !.disp = d, !.whole = TRUE]

Blank == [b \in Buffers |-> {}]

TypeOK ==
    /\ slot \in [Ids -> Layer]
    /\ main \in Procs \union {NoOne} /\ disp \in Procs \union {NoOne}
    /\ hd \in [Procs -> Link]
    /\ op \in [Procs -> Ops] /\ pc \in [Procs -> PCs]
    /\ at \in [Procs -> Ids]
    /\ pic \in [Buffers -> SUBSET Ids]
    /\ shown \in Halves /\ agreed \in BOOLEAN

Init ==
    /\ slot = [i \in Ids |-> Zeroed]
    /\ main = NoOne /\ disp = NoOne
    /\ hd = [p \in Procs |-> 0]
    /\ op = [p \in Procs |-> "none"] /\ pc = [p \in Procs |-> "idle"]
    /\ at = [p \in Procs |-> 1]
    /\ pic = Blank
    /\ shown = 0 /\ agreed = TRUE

(* How an operation may end: only TRUE when f does not fail.               *)
Results(f) == {TRUE, f \notin Failures}

(* dispPaddr[curDispIdx] of a layer.                                       *)
Target(l) ==
    CASE l.disp = "fb" -> l.curDispIdx [] l.disp = "tmp" -> 2 [] OTHER -> 3

Used == {hd[p] : p \in Procs} \ {0}

Go(p, s) == pc' = [pc EXCEPT ![p] = s]
Return(p) == Go(p, "idle") /\ op' = [op EXCEPT ![p] = "none"]

-----------------------------------------------------------------------------
(* The chain of layers                                                     *)

(* The slot CreateScreenLayer takes for a layer that is not primary.       *)
FreeSlot == IF slot[1].next = 0 THEN 2 ELSE 3

(* The layer at the end of the chain.                                      *)
LastLayer(s) ==
    IF s[1].next = 0 THEN 1 ELSE IF s[s[1].next].next = 0 THEN s[1].next ELSE 3

(* Mutant: the new top starts with the first half of the frame buffer.     *)
MemAllocNoIdx(s, i) ==
    LET pre == s[s[i].pre] IN
    [s EXCEPT ![i].disp = pre.disp,
              ![s[i].pre].disp = IF s[i].pre = 1 THEN "null" ELSE "tmp",
              ![s[i].pre].curDispIdx = 0]

(* _MemAllocSL of layer i on top of another (cases a to b and b to c): it  *)
(* takes over the frame buffer, and the layer below gets nothing or the    *)
(* temporary buffer allocated with i.                                      *)
MemAllocSL(s, i) ==
    LET pre == s[s[i].pre] IN
    [s EXCEPT ![i].disp = pre.disp, ![i].curDispIdx = pre.curDispIdx,
              ![s[i].pre].disp = IF s[i].pre = 1 THEN "null" ELSE "tmp",
              ![s[i].pre].curDispIdx = 0]

(* Mutant: only a layer right above the primary one gives it back.         *)
MemFreeKeeps(s, i) ==
    IF s[i].pre # 1 \/ s[i].next # 0 THEN s
    ELSE [s EXCEPT ![1].disp = s[i].disp, ![1].curDispIdx = s[i].curDispIdx,
                   ![i].disp = "null"]

(* _MemFreeSL of layer i: the top layer gives the frame buffer back to the *)
(* layer below it; a middle layer changes nothing.                         *)
MemFreeSL(s, i) ==
    IF s[i].pre = 0 \/ s[i].next # 0 THEN s
    ELSE [s EXCEPT ![s[i].pre].disp = s[i].disp,
                   ![s[i].pre].curDispIdx = s[i].curDispIdx,
                   ![i].disp = "null"]

(* Layer i is zeroed and appended to the chain.                            *)
AppendLayer(i, whole) ==
    LET s == [slot EXCEPT ![i] = [Zeroed EXCEPT !.whole = whole]]
        last == LastLayer(s)
    IN  [s EXCEPT ![last].next = i, ![i].pre = last]

Unlink(s, i) ==
    LET pre == s[i].pre next == s[i].next IN
    IF pre = 0 THEN s
    ELSE IF next = 0 THEN [s EXCEPT ![pre].next = 0]
    ELSE [s EXCEPT ![pre].next = next, ![next].pre = pre]

(* The layers of S are not shown as they are now any more.                 *)
Changed(S) == pic' = [b \in Buffers |-> pic[b] \ S]

(* The primary layer: all of the shared memory is cleared first.  A layer  *)
(* that asks for local alpha is refused after that; a failed allocation    *)
(* returns an error with the frame buffer found or not.                    *)
CreatePrimary(p) ==
    /\ op[p] = "primary"
    /\ \/ slot' = [i \in Ids |-> Zeroed] /\ UNCHANGED hd
       \/ \E ok \in Results("alloc") :
            /\ \E d \in {"fb", IF ok THEN "fb" ELSE "null"} :
                 slot' = [i \in Ids |-> IF i = 1 THEN PrimaryLayer(d) ELSE Zeroed]
            /\ hd' = IF ok THEN [hd EXCEPT ![p] = 1] ELSE hd
    /\ Changed(Ids)
    /\ agreed' = (shown = 0)

(* A layer over the primary one: refused with its slot cleared when there  *)
(* is no primary layer or the layer reaches beyond it.  A failed           *)
(* allocation returns an error with the layer in the chain and, when it    *)
(* was the last one that failed, with the frame buffer handed over.        *)
CreateOverlay(p) ==
    LET i == FreeSlot IN
    /\ op[p] = "overlay"
    /\ \/ slot' = [slot EXCEPT ![i] = Zeroed] /\ UNCHANGED hd
       \/ /\ slot[1].isPrimary
          /\ \E whole \in BOOLEAN, ok \in Results("alloc") :
               /\ \E moved \in {TRUE, ok} :
                    slot' = IF moved THEN MemAllocSL(AppendLayer(i, whole), i)
                            ELSE AppendLayer(i, whole)
               /\ hd' = IF ok THEN [hd EXCEPT ![p] = i] ELSE hd
    /\ Changed({i})
    /\ UNCHANGED agreed

(* The calls that hold semMainID from end to end run as one step.          *)
CreateScreenLayer(p) ==
    /\ pc[p] = "main" /\ main = NoOne
    /\ CreatePrimary(p) \/ CreateOverlay(p)
    /\ Return(p)
    /\ UNCHANGED <<main, disp, at, shown>>

DestoryScreenLayer(p) ==
    /\ pc[p] = "main" /\ op[p] = "destroy" /\ main = NoOne
    /\ slot' = Unlink(MemFreeSL(slot, hd[p]), hd[p])
    /\ hd' = [hd EXCEPT ![p] = 0]
    /\ Changed({hd[p]})
    /\ Return(p)
    /\ UNCHANGED <<main, disp, at, shown, agreed>>

SetScreenLayer(p) ==
    /\ pc[p] = "main" /\ op[p] = "set" /\ main = NoOne
    /\ Changed({hd[p]})
    /\ Return(p)
    /\ UNCHANGED <<slot, main, disp, hd, at, shown, agreed>>

(* Mutant: the buffer is flipped without semDispID.                        *)
FlipUnlocked(p) ==
    /\ pc[p] = "disp" /\ op[p] = "flip"
    /\ Changed({hd[p]})
    /\ Return(p)
    /\ UNCHANGED <<slot, main, disp, hd, at, shown, agreed>>

FlipScreenLayerBuf(p) ==
    /\ pc[p] = "disp" /\ op[p] = "flip" /\ disp = NoOne
    /\ Changed({hd[p]})
    /\ Return(p)
    /\ UNCHANGED <<slot, main, disp, hd, at, shown, agreed>>

-----------------------------------------------------------------------------
(* LoadScreenLayer: the IPU fills one of the layer's buffers.  semLoadID   *)
(* is only ever taken under semMainID.                                     *)

LoadBegin(p) ==
    /\ pc[p] = "main" /\ op[p] = "load" /\ main = NoOne
    /\ main' = p
    /\ Go(p, "load")
    /\ UNCHANGED <<slot, disp, hd, op, at, pic, shown, agreed>>

(* Mutant: the way out of a bad buffer index or a failed IPU task.         *)
LoadKeepsMain(p) ==
    /\ pc[p] = "load"
    /\ Changed({hd[p]})
    /\ Return(p)
    /\ UNCHANGED <<slot, main, disp, hd, at, shown, agreed>>

(* The error exits return with the semaphores held.                        *)
LoadEnd(p) ==
    /\ pc[p] = "load"
    /\ \E ok \in Results("load") : main' = IF ok THEN NoOne ELSE main
    /\ Changed({hd[p]})
    /\ Return(p)
    /\ UNCHANGED <<slot, disp, hd, at, shown, agreed>>

-----------------------------------------------------------------------------
(* UpdateScreenLayer                                                       *)

UpdateMain(p) ==
    /\ pc[p] = "main" /\ op[p] = "update" /\ main = NoOne
    /\ main' = p
    /\ Go(p, "disp")
    /\ UNCHANGED <<slot, disp, hd, op, at, pic, shown, agreed>>

UpdateScreenLayer(p) ==
    /\ pc[p] = "disp" /\ op[p] = "update" /\ disp = NoOne
    /\ disp' = p
    /\ at' = [at EXCEPT ![p] = 1]
    /\ Go(p, IF slot[1].next # 0 \/ slot[hd[p]].isPrimary THEN "copy" ELSE "pan")
    /\ UNCHANGED <<slot, main, hd, op, pic, shown, agreed>>

UpdateDone(p) ==
    /\ main' = NoOne /\ disp' = NoOne
    /\ Return(p)
    /\ at' = [at EXCEPT ![p] = 1]
    /\ pic' = Blank

(* The layer that is drawn next: the primary one when it is alone.         *)
NextLayer(p) == IF slot[at[p]].next = 0 THEN at[p] ELSE slot[at[p]].next

(* What a layer gives to the one above it: its own buffer when it is the   *)
(* primary layer, else the display buffer it was composed into.            *)
Source(p) ==
    IF slot[at[p]].isPrimary THEN {1} ELSE pic[Target(slot[at[p]])]

Toggled(i) ==
    IF slot[i].next # 0 THEN slot
    ELSE [slot EXCEPT ![i].curDispIdx = 1 - @]

(* _CopyScreenLayer: the top layer turns to the other half; a layer as     *)
(* large as the primary one needs no copy of what is below it.             *)
CopyScreenLayer(p) ==
    LET i == NextLayer(p) alone == i = at[p] skip == ~alone /\ slot[i].whole IN
    /\ pc[p] = "copy"
    /\ slot' = Toggled(i)
    /\ \E ok \in IF skip THEN {TRUE} ELSE Results("ipu") :
         /\ agreed' = (agreed /\ (ok \/ slot[i].next # 0))
         /\ IF ~ok THEN UpdateDone(p)
            ELSE /\ pic' = IF skip THEN pic
                           ELSE [pic EXCEPT ![Target(slot'[i])] = Source(p)]
                 /\ Go(p, IF alone THEN "pan" ELSE "comb")
                 /\ UNCHANGED <<main, disp, op, at>>
    /\ UNCHANGED <<hd, shown>>

(* _CombScreenLayers, and the next turn of the loop.                       *)
CombScreenLayers(p) ==
    LET i == NextLayer(p) top == slot[i].next = 0 IN
    /\ pc[p] = "comb"
    /\ \E ok \in Results("ipu") :
         /\ agreed' = (agreed /\ (ok \/ ~top))
         /\ IF ~ok THEN UpdateDone(p)
            ELSE /\ pic' = [pic EXCEPT ![Target(slot[i])] = Source(p) \union {i}]
                 /\ Go(p, IF top THEN "pan" ELSE "copy")
                 /\ at' = [at EXCEPT ![p] = i]
                 /\ UNCHANGED <<main, disp, op>>
    /\ UNCHANGED <<slot, hd, shown>>

(* _UpdateFramebuffer: pan to the half that was drawn.                     *)
UpdateFramebuffer(p) ==
    /\ pc[p] = "pan"
    /\ \E ok \in Results("pan") :
         /\ shown' = IF ok THEN slot[at[p]].curDispIdx ELSE shown
         /\ agreed' = ok
    /\ UpdateDone(p)
    /\ UNCHANGED <<slot, hd>>

-----------------------------------------------------------------------------
(* The clients                                                             *)

Orders(o) == {q \in Procs : op[q] = o}

(* What an orderly client keeps to by itself: one primary layer, created   *)
(* before the others and destroyed after them, at most three layers, and   *)
(* none created over a middle layer that was destroyed.                    *)
MayCall(p, o) ==
    CASE o = "primary" -> /\ hd[p] = 0
                          /\ Orderly => Used = {} /\ Orders(o) = {}
      [] o = "overlay" -> /\ hd[p] = 0
                          /\ Orderly => /\ 1 \in Used
                                        /\ 3 \in Used => 2 \in Used
                                        /\ Cardinality(Used) + Cardinality(Orders(o)) < 3
                                        /\ \A q \in Orders("destroy") : hd[q] # 1
      [] o = "destroy" -> /\ hd[p] # 0
                          /\ Orderly /\ hd[p] = 1 => Used = {1} /\ Orders("overlay") = {}
      [] OTHER -> hd[p] # 0

Call(p) ==
    /\ pc[p] = "idle"
    /\ \E o \in Ops \ {"none"} :
         /\ MayCall(p, o)
         /\ op' = [op EXCEPT ![p] = o]
         /\ Go(p, IF o = "flip" THEN "disp" ELSE "main")
    /\ UNCHANGED <<slot, main, disp, hd, at, pic, shown, agreed>>

Step(p) ==
    \/ CreateScreenLayer(p) \/ DestoryScreenLayer(p) \/ SetScreenLayer(p)
    \/ FlipScreenLayerBuf(p) \/ LoadBegin(p) \/ LoadEnd(p)
    \/ UpdateMain(p) \/ UpdateScreenLayer(p)
    \/ CopyScreenLayer(p) \/ CombScreenLayers(p) \/ UpdateFramebuffer(p)

Next == \E p \in Procs : Call(p) \/ Step(p)

Spec == Init /\ [][Next]_vars

(* A call that was made goes on; a process that waits for a semaphore gets *)
(* it when it is posted again and again, as a futex wakes its waiters.     *)
FairSpec == Spec /\ \A p \in Procs : SF_vars(Step(p))

-----------------------------------------------------------------------------
(* Properties                                                              *)

(* The chain from the primary layer up.                                    *)
Chain ==
    LET a == slot[1].next b == slot[a].next IN
    IF ~slot[1].isPrimary \/ 1 \notin Used THEN <<>>
    ELSE IF a = 0 THEN <<1>> ELSE IF b = 0 THEN <<1, a>> ELSE <<1, a, b>>

(* Whatever order processes create and destroy layers in, the layers in    *)
(* use form one chain in both directions, and the buffers are those of the *)
(* three cases in _MemAllocSL's comment: the top layer draws into the      *)
(* frame buffer, a middle layer into the temporary buffer, and the primary *)
(* layer below another one into none.                                      *)
CasesABC ==
    LET c == Chain n == Len(c) IN
    /\ {c[k] : k \in 1 .. n} = Used
    /\ Cardinality(Used) = Cardinality({p \in Procs : hd[p] # 0}) /\ Cardinality(Used) = n
    /\ \A k \in 1 .. n :
         /\ slot[c[k]].pre = IF k = 1 THEN 0 ELSE c[k - 1]
         /\ slot[c[k]].disp = IF k = n THEN "fb" ELSE IF k = 1 THEN "null" ELSE "tmp"
         /\ k = n => slot[c[k]].next = 0

(* The half that is composed is never the one on the screen, although the  *)
(* index of the half shown is handed from layer to layer as they come and  *)
(* go: unless an update failed half way, or the primary layer was created  *)
(* while the second half was shown, in which case the next pan puts it     *)
(* right.                                                                  *)
NoTearing ==
    agreed =>
      \A p \in Procs :
        LET i == NextLayer(p) IN
        /\ pc[p] \in {"comb", "pan"} /\ slot[i].next = 0 => slot[i].curDispIdx # shown
        /\ pc[p] = "copy" /\ slot[i].next = 0 => slot[i].curDispIdx = shown

(* What is panned to shows every layer of the chain, and each with the     *)
(* buffer and the settings it has at that moment: no flip, setting,        *)
(* creation or destruction falls between the composition and the pan.      *)
PansSnapshot ==
    \A p \in Procs : pc[p] = "pan" => pic[Target(slot[at[p]])] = Used

(* Every call returns: the two semaphores are posted on each way out of an *)
(* update, and the order they are taken in never locks two processes up.   *)
CallsReturn == \A p \in Procs : pc[p] # "idle" ~> pc[p] = "idle"
=============================================================================
