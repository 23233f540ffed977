--------------------------- MODULE VpuStreamProofs ---------------------------
(***************************************************************************)
(* Proofs about VpuStream, for any instances, buffer sizes and frame       *)
(* buffers: the end of a stream is not forgotten; a decoder whose client   *)
(* releases buffers between its frames has exactly those marked that are   *)
(* on display; and the ring buffers are bounded FIFOs when an encoder's    *)
(* client reads between its frames.                                        *)
(***************************************************************************)
EXTENDS VpuStream, SequenceTheorems, TLAPS

(***************************************************************************)
(* Addresses in a ring buffer of N bytes.                                  *)
(***************************************************************************)

Addr == 0 .. N - 1

LEMMA ModRing ==
    /\ \A x \in Addr : x % N = x
    /\ \A x \in N .. 2 * N - 1 : x % N = x - N
  BY SizeAssumption DEF Addr

(* Distances around the ring, without a remainder.                         *)
LEMMA DistIs ==
    ASSUME NEW a \in Addr, NEW b \in Addr
    PROVE  Dist(a, b) = IF a <= b THEN b - a ELSE b + N - a
  <1>1. CASE a <= b
    <2>1. b + N - a \in N .. 2 * N - 1
      BY <1>1, SizeAssumption DEF Addr
    <2>2. (b + N - a) % N = (b + N - a) - N
      BY <2>1, ModRing
    <2> QED
      BY <1>1, <2>2, SizeAssumption DEF Dist, Addr
  <1>2. CASE b < a
    <2>1. b + N - a \in Addr
      BY <1>2, SizeAssumption DEF Addr
    <2> QED
      BY <1>2, <2>1, ModRing, SizeAssumption DEF Dist, Addr
  <1> QED
    BY <1>1, <1>2 DEF Addr

(* k bytes on from a.                                                      *)
LEMMA PlusIs ==
    ASSUME NEW a \in Addr, NEW k \in 0 .. N
    PROVE  /\ (a + k) % N = IF a + k < N THEN a + k ELSE a + k - N
           /\ (a + k) % N \in Addr
  <1>1. CASE a + k < N
    <2>1. a + k \in Addr
      BY <1>1, SizeAssumption DEF Addr
    <2> QED
      BY <1>1, <2>1, ModRing
  <1>2. CASE ~(a + k < N)
    <2>1. a + k \in N .. 2 * N - 1
      BY <1>2, SizeAssumption DEF Addr
    <2> QED
      BY <1>2, <2>1, ModRing, SizeAssumption DEF Addr
  <1> QED
    BY <1>1, <1>2

LEMMA DistType == \A a, b \in Addr : Dist(a, b) \in 0 .. N - 1
  BY DistIs, SizeAssumption DEF Addr

(* The distance from a grows with the bytes that are put behind b, and     *)
(* shrinks with those that are taken at a.                                 *)
LEMMA DistPut ==
    ASSUME NEW a \in Addr, NEW b \in Addr, NEW k \in Nat, Dist(a, b) + k < N
    PROVE  /\ (b + k) % N \in Addr
           /\ Dist(a, (b + k) % N) = Dist(a, b) + k
  <1>1. k \in 0 .. N
    BY DistType, SizeAssumption
  <1>2. /\ (b + k) % N = IF b + k < N THEN b + k ELSE b + k - N
        /\ (b + k) % N \in Addr
    BY <1>1, PlusIs
  <1> DEFINE c == (b + k) % N
  <1> HIDE DEF c
  <1>3. /\ Dist(a, b) = IF a <= b THEN b - a ELSE b + N - a
        /\ Dist(a, c) = IF a <= c THEN c - a ELSE c + N - a
    BY <1>2, DistIs DEF c
  <1> QED
    BY <1>1, <1>2, <1>3, SizeAssumption DEF Addr, c

LEMMA DistTake ==
    ASSUME NEW a \in Addr, NEW b \in Addr, NEW k \in Nat, k <= Dist(a, b)
    PROVE  /\ (a + k) % N \in Addr
           /\ Dist((a + k) % N, b) = Dist(a, b) - k
  <1>1. k \in 0 .. N
    BY DistType, SizeAssumption
  <1>2. /\ (a + k) % N = IF a + k < N THEN a + k ELSE a + k - N
        /\ (a + k) % N \in Addr
    BY <1>1, PlusIs
  <1> DEFINE c == (a + k) % N
  <1> HIDE DEF c
  <1>3. /\ Dist(a, b) = IF a <= b THEN b - a ELSE b + N - a
        /\ Dist(c, b) = IF c <= b THEN b - c ELSE b + N - c
    BY <1>2, DistIs DEF c
  <1> QED
    BY <1>1, <1>2, <1>3, SizeAssumption DEF Addr, c

LEMMA DistSelf == \A a \in Addr : Dist(a, a) = 0
  BY DistIs, SizeAssumption DEF Addr

LEMMA DistZero == \A a, b \in Addr : Dist(a, b) = 0 => a = b
  BY DistIs, SizeAssumption DEF Addr

(***************************************************************************)
(* The registers of an instance.                                           *)
(***************************************************************************)

LEMMA StartRegs == Start \in Regs /\ Start.rd = 0 /\ Start.wr = 0 /\ ~Start.eos /\ Start.disp = {}
  BY SizeAssumption DEF Start, Regs

LEMMA RegsFields ==
    ASSUME NEW r \in Regs
    PROVE  /\ r.rd \in Addr /\ r.wr \in Addr /\ r.eos \in BOOLEAN /\ r.disp \subseteq Bufs
           /\ \A x \in Addr : [r EXCEPT !.rd = x] \in Regs /\ [r EXCEPT !.wr = x] \in Regs
           /\ \A e \in BOOLEAN : [r EXCEPT !.eos = e] \in Regs
           /\ \A d \in SUBSET Bufs : [r EXCEPT !.disp = d] \in Regs
  BY DEF Regs, Addr

(* One instance's context with new values in its fields.                   *)
LEMMA CtxField ==
    ASSUME NEW c \in [Insts -> Regs], NEW i \in Insts
    PROVE  /\ \A x \in Addr : [c EXCEPT ![i].rd = x] \in [Insts -> Regs]
           /\ \A x \in Addr : [c EXCEPT ![i].wr = x] \in [Insts -> Regs]
           /\ \A e \in BOOLEAN : [c EXCEPT ![i].eos = e] \in [Insts -> Regs]
           /\ \A d \in SUBSET Bufs : [c EXCEPT ![i].disp = d] \in [Insts -> Regs]
  BY DEF Regs, Addr

(* The context of instance i has these values in its fields after a step,  *)
(* and the other contexts are as they were.                                *)
CtxIs(i, rd, wr, eos, dsp) ==
    /\ ctx' \in [Insts -> Regs]
    /\ ctx'[i].rd = rd /\ ctx'[i].wr = wr /\ ctx'[i].eos = eos /\ ctx'[i].disp = dsp
    /\ \A j \in Insts : j # i => ctx'[j] = ctx[j]

(* The steps' updates of one context.                                      *)
LEMMA CtxStream ==
    ASSUME ctx \in [Insts -> Regs], NEW i \in Insts, NEW w \in Addr, NEW e \in BOOLEAN,
           ctx' = [ctx EXCEPT ![i].wr = w, ![i].eos = e]
    PROVE  CtxIs(i, ctx[i].rd, w, e, ctx[i].disp)
  BY DEF Regs, CtxIs, Addr

LEMMA CtxRead ==
    ASSUME ctx \in [Insts -> Regs], NEW i \in Insts, NEW r \in Addr, NEW e \in BOOLEAN,
           ctx' = [ctx EXCEPT ![i].rd = r, ![i].eos = e]
    PROVE  CtxIs(i, r, ctx[i].wr, e, ctx[i].disp)
  BY DEF Regs, CtxIs, Addr

LEMMA CtxBackup ==
    ASSUME ctx \in [Insts -> Regs], NEW i \in Insts, NEW r \in Addr, NEW e \in BOOLEAN,
           NEW d \in SUBSET Bufs,
           ctx' = [ctx EXCEPT ![i].rd = r, ![i].eos = e, ![i].disp = d]
    PROVE  CtxIs(i, r, ctx[i].wr, e, d)
  BY DEF Regs, CtxIs, Addr

LEMMA CtxDisp ==
    ASSUME ctx \in [Insts -> Regs], NEW i \in Insts, NEW d \in SUBSET Bufs,
           ctx' = [ctx EXCEPT ![i].disp = d]
    PROVE  CtxIs(i, ctx[i].rd, ctx[i].wr, ctx[i].eos, d)
  BY DEF Regs, CtxIs, Addr

LEMMA CtxTake ==
    ASSUME ctx \in [Insts -> Regs], NEW i \in Insts, NEW r \in Addr,
           ctx' = [ctx EXCEPT ![i].rd = r]
    PROVE  CtxIs(i, r, ctx[i].wr, ctx[i].eos, ctx[i].disp)
  BY DEF Regs, CtxIs, Addr

(***************************************************************************)
(* Type correctness.                                                       *)
(***************************************************************************)

LEMMA InitType == Init => TypeOK
  <1> SUFFICES ASSUME Init PROVE TypeOK
    OBVIOUS
  <1>1. 0 \in 0 .. N - 1 /\ 0 \in 0 .. N
    BY SizeAssumption
  <1> QED
    BY <1>1, StartRegs DEF Init, TypeOK

(* The addresses the pointers and the room in the ring can take.           *)
LEMMA Pointers ==
    ASSUME TypeOK, NEW i \in Insts
    PROVE  /\ ptr[i] \in Addr /\ View(i) \in Regs
           /\ View(i).rd \in Addr /\ View(i).wr \in Addr
           /\ DecRoom(i) \in Addr /\ EncRoom(i) \in Addr
           /\ DecRoom(i) + Dist(View(i).rd, ptr[i]) = N - 1
           /\ \A n \in 0 .. N - 1 : (ptr[i] + n) % N \in Addr
  <1>1. ptr[i] \in Addr /\ View(i) \in Regs
    BY DEF TypeOK, View, Addr
  <1>2. View(i).rd \in Addr /\ View(i).wr \in Addr
    BY <1>1, RegsFields
  <1>3. Dist(View(i).rd, ptr[i]) \in 0 .. N - 1 /\ EncRoom(i) \in Addr
    BY <1>1, <1>2, DistType DEF EncRoom, Addr
  <1>4. DecRoom(i) \in Addr /\ DecRoom(i) + Dist(View(i).rd, ptr[i]) = N - 1
    BY <1>3, SizeAssumption DEF DecRoom, Addr
  <1>5. \A n \in 0 .. N - 1 : (ptr[i] + n) % N \in Addr
    BY <1>1, PlusIs, SizeAssumption
  <1> QED
    BY <1>1, <1>2, <1>3, <1>4, <1>5

LEMMA NumbersMod == \A x \in Nat : x % Numbers \in 0 .. N
  BY SizeAssumption DEF Numbers

(* The write pointer and the end of a stream in the registers.             *)
LEMMA StreamSet ==
    ASSUME TypeOK, NEW i \in Insts, NEW w \in Addr, NEW e \in BOOLEAN, SetStream(i, w, e)
    PROVE  /\ CtxIs(i, ctx[i].rd, w, e, ctx[i].disp)
           /\ hw' \in Regs
           /\ hw'.rd = hw.rd /\ hw'.disp = hw.disp
           /\ hw'.wr = IF run = i THEN w ELSE hw.wr
           /\ hw'.eos = IF run = i THEN e ELSE hw.eos
  <1>1. CtxIs(i, ctx[i].rd, w, e, ctx[i].disp)
    BY CtxStream DEF SetStream, TypeOK
  <1>2. /\ hw' \in Regs
        /\ hw'.rd = hw.rd /\ hw'.disp = hw.disp
        /\ hw'.wr = IF run = i THEN w ELSE hw.wr
        /\ hw'.eos = IF run = i THEN e ELSE hw.eos
    BY DEF SetStream, TypeOK, Regs, Addr
  <1> QED
    BY <1>1, <1>2

LEMMA NextType == TypeOK /\ [Next]_vars => TypeOK'
  <1> SUFFICES ASSUME TypeOK, [Next]_vars PROVE TypeOK'
    OBVIOUS
  <1> USE DEF regs, vpu, stream
  <1>1. /\ ptr \in [Insts -> Addr] /\ ctx \in [Insts -> Regs] /\ hw \in Regs
        /\ room \in [Insts -> Addr] /\ fed \in [Insts -> 0 .. N]
        /\ mem \in [Insts -> [Addr -> 0 .. N]]
    BY DEF TypeOK, Addr
  <1>2. hw.rd \in Addr /\ hw.wr \in Addr /\ hw.eos \in BOOLEAN /\ hw.disp \in SUBSET Bufs
    BY <1>1, RegsFields
  <1>3. Decs \subseteq Insts /\ Encs \subseteq Insts /\ 0 \in Addr /\ 0 \in 0 .. N
    BY SizeAssumption DEF Insts, Addr
  <1>4. ASSUME NEW i \in Decs, DecGetBitstreamBuffer(i) PROVE TypeOK'
    <2>1. DecRoom(i) \in Addr
      BY <1>3, Pointers
    <2>2. room' \in [Insts -> Addr]
      BY <1>1, <1>4, <2>1 DEF DecGetBitstreamBuffer
    <2> QED
      BY <1>4, <2>2 DEF DecGetBitstreamBuffer, TypeOK, Addr
  <1>5. ASSUME NEW i \in Decs, NEW n \in 1 .. N - 1, DecUpdateBitstreamBuffer(i, n)
        PROVE  TypeOK'
    <2> DEFINE w == (ptr[i] + n) % N
    <2>1. w \in Addr
      BY <1>3, Pointers
    <2>2. SetStream(i, w, FALSE) /\ ptr' = [ptr EXCEPT ![i] = w]
      BY <1>5 DEF DecUpdateBitstreamBuffer
    <2> HIDE DEF w
    <2>3. ctx' \in [Insts -> Regs] /\ hw' \in Regs
      BY <1>3, <2>1, <2>2, StreamSet DEF CtxIs
    <2>4. Filled(i, n) \in [Addr -> 0 .. N]
      <3>1. \A a \in Addr : Dist(ptr[i], a) \in Nat /\ mem[i][a] \in 0 .. N /\ fed[i] \in Nat
        BY <1>1, <1>3, DistType, SizeAssumption
      <3>2. \A a \in Addr : (fed[i] + Dist(ptr[i], a)) % Numbers \in 0 .. N
        BY <3>1, NumbersMod
      <3> QED
        BY <3>1, <3>2 DEF Filled, Addr
    <2>5. mem' \in [Insts -> [Addr -> 0 .. N]] /\ ptr' \in [Insts -> Addr]
      BY <1>1, <1>5, <2>1, <2>2, <2>4 DEF DecUpdateBitstreamBuffer
    <2>6. fed' \in [Insts -> 0 .. N]
      <3>1. fed[i] \in Nat /\ n \in Nat
        BY <1>1, <1>3
      <3>2. (fed[i] + n) % Numbers \in 0 .. N
        BY <3>1, NumbersMod
      <3> QED
        BY <1>1, <1>5, <3>2 DEF DecUpdateBitstreamBuffer
    <2>7. room' \in [Insts -> Addr]
      BY <1>1, <1>3, <1>5 DEF DecUpdateBitstreamBuffer
    <2> QED
      BY <1>5, <2>3, <2>5, <2>6, <2>7 DEF DecUpdateBitstreamBuffer, TypeOK, Addr
  <1>6. ASSUME NEW i \in Decs, DecEndOfStream(i) PROVE TypeOK'
    <2>1. ctx' \in [Insts -> Regs] /\ hw' \in Regs
      <3>1. ptr[i] \in Addr /\ i \in Insts
        BY <1>1, <1>3
      <3> QED
        BY <1>6, <3>1, StreamSet DEF CtxIs, DecEndOfStream
    <2>2. room' \in [Insts -> Addr]
      BY <1>1, <1>3, <1>6 DEF DecEndOfStream
    <2> QED
      BY <1>6, <2>1, <2>2 DEF DecEndOfStream, TypeOK, Addr
  <1>7. ASSUME NEW i \in Decs, NEW b \in Bufs, DecClrDispFlag(i, b) PROVE TypeOK'
    <2>1. ctx' \in [Insts -> Regs]
      <3>1. ctx[i].disp \ {b} \in SUBSET Bufs
        BY <1>1, <1>3, RegsFields
      <3> QED
        BY <1>1, <1>3, <1>7, <3>1, CtxDisp DEF CtxIs, DecClrDispFlag
    <2> QED
      BY <1>3, <1>7, <2>1 DEF DecClrDispFlag, TypeOK
  <1>8. ASSUME NEW i \in Encs, EncGetBitstreamBuffer(i) PROVE TypeOK'
    <2>1. EncRoom(i) \in Addr
      BY <1>3, Pointers
    <2>2. room' \in [Insts -> Addr]
      BY <1>1, <1>8, <2>1 DEF EncGetBitstreamBuffer
    <2> QED
      BY <1>8, <2>2 DEF EncGetBitstreamBuffer, TypeOK, Addr
  <1>9. ASSUME NEW i \in Encs, EncUpdateBitstreamBuffer(i) PROVE TypeOK'
    <2> DEFINE r == (ptr[i] + room[i]) % N
    <2>1. r \in Addr
      <3>1. room[i] \in 0 .. N - 1
        BY <1>1, <1>3 DEF Addr
      <3> QED
        BY <1>3, <3>1, Pointers
    <2>2. /\ ptr' = [ptr EXCEPT ![i] = r]
          /\ hw' = IF run = i THEN [hw EXCEPT !.rd = hw.wr] ELSE hw
          /\ ctx' = [ctx EXCEPT ![i].rd = r]
          /\ room' = [room EXCEPT ![i] = 0]
      BY <1>9 DEF EncUpdateBitstreamBuffer
    <2> HIDE DEF r
    <2>3. hw' \in Regs
      BY <1>1, <1>2, <2>2, RegsFields
    <2>4. ctx' \in [Insts -> Regs] /\ ptr' \in [Insts -> Addr] /\ room' \in [Insts -> Addr]
      BY <1>1, <1>3, <2>1, <2>2, CtxField
    <2> QED
      BY <1>9, <2>3, <2>4 DEF EncUpdateBitstreamBuffer, TypeOK, Addr
  <1>10. ASSUME NEW i \in Insts, NEW c \in {"header", "frame"}, BitIssueCommandEx(i, c)
         PROVE  TypeOK'
    BY <1>10 DEF BitIssueCommandEx, TypeOK
  <1>11. ASSUME NEW i \in Decs, DecInitialInfoReady(i) PROVE TypeOK'
    <2>1. ctx' \in [Insts -> Regs]
      BY <1>1, <1>2, <1>3, <1>11, CtxRead DEF DecInitialInfoReady, CtxIs
    <2>2. header' \in [Insts -> {"no", "yes", "closed"}]
      BY <1>11 DEF DecInitialInfoReady, TypeOK
    <2> QED
      BY <1>11, <2>1, <2>2 DEF DecInitialInfoReady, Unlock, TypeOK
  <1>12. ASSUME NEW i \in Decs, DecClose(i) \/ DecOpen(i) PROVE TypeOK'
    <2>1. CASE DecClose(i)
      BY <1>3, <2>1 DEF DecClose, TypeOK
    <2>2. CASE DecOpen(i)
      <3>1. [Start EXCEPT !.eos = hw.eos] \in Regs
        BY <1>2, StartRegs, RegsFields
      <3>2. hw' \in Regs /\ ctx' \in [Insts -> Regs]
        BY <1>1, <2>2, <3>1, StartRegs DEF DecOpen
      <3>3. ptr' \in [Insts -> Addr] /\ room' \in [Insts -> Addr]
        BY <1>1, <1>3, <2>2 DEF DecOpen
      <3> QED
        BY <2>2, <3>2, <3>3 DEF DecOpen, TypeOK, Addr
    <2> QED
      BY <1>12, <2>1, <2>2
  <1>13. ASSUME NEW i \in Decs, DecGetOutputInfo(i) PROVE TypeOK'
    <2>1. ctx' \in [Insts -> Regs]
      BY <1>1, <1>2, <1>3, <1>13, CtxBackup DEF DecGetOutputInfo, Backup, CtxIs
    <2>2. held' \in [Insts -> SUBSET Bufs]
      BY <1>3, <1>13 DEF DecGetOutputInfo, TypeOK
    <2> QED
      BY <1>13, <2>1, <2>2 DEF DecGetOutputInfo, Unlock, TypeOK
  <1>14. ASSUME NEW i \in Encs, EncGetOutputInfo(i) PROVE TypeOK'
    <2>1. ctx' \in [Insts -> Regs]
      BY <1>1, <1>2, <1>3, <1>14, CtxStream DEF EncGetOutputInfo, CtxIs
    <2> QED
      BY <1>14, <2>1 DEF EncGetOutputInfo, Unlock, TypeOK
  <1>15. CASE VpuRead
    <2>1. (hw.rd + 1) % N \in Addr
      BY <1>2, PlusIs, SizeAssumption
    <2>2. hw' \in Regs
      BY <1>1, <1>15, <2>1, RegsFields DEF VpuRead
    <2> QED
      BY <1>15, <2>2 DEF VpuRead, TypeOK
  <1>16. CASE VpuWrite
    <2>1. cur \in Insts /\ fed[cur] \in 0 .. N
      BY <1>1, <1>3, <1>16 DEF VpuWrite
    <2>2. (hw.wr + 1) % N \in Addr
      BY <1>2, PlusIs, SizeAssumption
    <2>3. hw' \in Regs
      BY <1>1, <1>16, <2>2, RegsFields DEF VpuWrite
    <2>4. mem' \in [Insts -> [Addr -> 0 .. N]]
      BY <1>1, <1>2, <1>16, <2>1 DEF VpuWrite
    <2>5. fed' \in [Insts -> 0 .. N]
      <3>1. fed[cur] + 1 \in Nat
        BY <2>1
      <3>2. (fed[cur] + 1) % Numbers \in 0 .. N
        BY <3>1, NumbersMod
      <3> QED
        BY <1>1, <1>16, <3>2 DEF VpuWrite
    <2> QED
      BY <1>16, <2>3, <2>4, <2>5 DEF VpuWrite, TypeOK, Addr
  <1>17. CASE VpuDone
    <2>1. hw' \in Regs /\ shown' \in Bufs \union {NoBuf}
      <3>1. CASE UNCHANGED <<hw, shown>>
        BY <1>1, <3>1 DEF TypeOK
      <3>2. ASSUME NEW b \in Bufs, hw' = [hw EXCEPT !.disp = @ \union {b}], shown' = b
            PROVE  hw' \in Regs /\ shown' \in Bufs
        <4>1. hw.disp \union {b} \in SUBSET Bufs
          BY <1>2
        <4> QED
          BY <1>1, <3>2, <4>1, RegsFields
      <3> QED
        BY <1>17, <3>1, <3>2 DEF VpuDone
    <2> QED
      BY <1>17, <2>1 DEF VpuDone, TypeOK
  <1>18. CASE UNCHANGED vars
    BY <1>18 DEF vars, TypeOK
  <1> QED
    BY <1>3, <1>4, <1>5, <1>6, <1>7, <1>8, <1>9, <1>10, <1>11, <1>12, <1>13, <1>14, <1>15,
       <1>16, <1>17, <1>18
    DEF Next, Feed, DecGetInitialInfo, DecStartOneFrame, EncStartOneFrame

(* Every state has its type.                                               *)
THEOREM TypeCorrect == Spec => []TypeOK
  BY InitType, NextType, PTL DEF Spec

(***************************************************************************)
(* Who has the VPU.                                                        *)
(***************************************************************************)

(* The instance that holds the API mutex is RUN_INDEX; a decoder's frames  *)
(* begin when its header was found; and no buffer has been given out while *)
(* the VPU works.                                                          *)
Owned ==
    /\ cur # NoInst => run = cur
    /\ busy => cur # NoInst /\ shown = NoBuf
    /\ cur = NoInst <=> call = "none"
    /\ \A i \in Decs : cur = i => header[i] = IF call = "header" THEN "no" ELSE "yes"
    /\ \A i \in Encs : header[i] = "no"

LEMMA NextOwned == TypeOK /\ Owned /\ [Next]_vars => Owned'
  <1> SUFFICES ASSUME TypeOK, Owned, [Next]_vars PROVE Owned'
    OBVIOUS
  <1> USE DEF regs, vpu
  <1>1. Decs \subseteq Insts /\ Encs \subseteq Insts /\ NoInst \notin Insts
        /\ \A i \in Decs : i \notin Encs
    BY InstAssumption DEF Insts
  <1>2. ASSUME UNCHANGED <<run, busy, cur, call, shown, header>> PROVE Owned'
    BY <1>2 DEF Owned
  <1>3. ASSUME NEW i \in Insts, NEW c \in {"header", "frame"}, BitIssueCommandEx(i, c),
               i \in Decs => header[i] = IF c = "header" THEN "no" ELSE "yes"
        PROVE  Owned'
    BY <1>1, <1>3 DEF BitIssueCommandEx, Owned
  <1>4. ASSUME NEW i \in Decs, DecInitialInfoReady(i) PROVE Owned'
    BY <1>1, <1>4 DEF DecInitialInfoReady, Unlock, Owned, TypeOK
  <1>5. ASSUME NEW i \in Decs, DecGetOutputInfo(i) PROVE Owned'
    BY <1>1, <1>5 DEF DecGetOutputInfo, Unlock, Owned
  <1>6. ASSUME NEW i \in Encs, EncGetOutputInfo(i) PROVE Owned'
    BY <1>1, <1>6 DEF EncGetOutputInfo, Unlock, Owned
  <1>7. ASSUME NEW i \in Decs, DecClose(i) PROVE Owned'
    BY <1>1, <1>7 DEF DecClose, Owned, TypeOK
  <1>8. ASSUME NEW i \in Decs, DecOpen(i) PROVE Owned'
    BY <1>1, <1>8 DEF DecOpen, Owned, TypeOK
  <1>9. CASE VpuDone
    BY <1>9 DEF VpuDone, Owned
  <1>10. CASE UNCHANGED vars
    BY <1>2, <1>10 DEF vars
  <1>11. ASSUME NEW i \in Decs, Feed(i) \/ \E b \in Bufs : DecClrDispFlag(i, b) PROVE Owned'
    BY <1>2, <1>11
    DEF Feed, DecGetBitstreamBuffer, DecUpdateBitstreamBuffer, DecEndOfStream, DecClrDispFlag
  <1>12. ASSUME NEW i \in Encs, EncGetBitstreamBuffer(i) \/ EncUpdateBitstreamBuffer(i)
         PROVE  Owned'
    BY <1>2, <1>12 DEF EncGetBitstreamBuffer, EncUpdateBitstreamBuffer
  <1>13. CASE VpuRead \/ VpuWrite
    BY <1>2, <1>13 DEF VpuRead, VpuWrite
  <1>14. ASSUME NEW i \in Decs, DecGetInitialInfo(i) \/ DecStartOneFrame(i) PROVE Owned'
    BY <1>1, <1>3, <1>14 DEF DecGetInitialInfo, DecStartOneFrame
  <1>15. ASSUME NEW i \in Encs, EncStartOneFrame(i) PROVE Owned'
    BY <1>1, <1>3, <1>15 DEF EncStartOneFrame
  <1> QED
    BY <1>4, <1>5, <1>6, <1>7, <1>8, <1>9, <1>10, <1>11, <1>12, <1>13, <1>14, <1>15 DEF Next

LEMMA InitOwned == Init => Owned
  BY InstAssumption DEF Init, Owned, Insts

(***************************************************************************)
(* The end of a stream.                                                    *)
(***************************************************************************)

(* No bytes follow the end, and it stands in ctxRegs and, for RUN_INDEX,   *)
(* in the VPU.                                                             *)
Ended ==
    \A i \in Decs :
        told[i] => /\ room[i] = 0
                   /\ header[i] # "closed" => ctx[i].eos /\ (run = i => hw.eos)

LEMMA InitEnded == Init => Ended
  BY DEF Init, Ended, Insts

LEMMA NextEnded == TypeOK /\ Owned /\ Ended /\ [Next]_vars => Ended'
  <1> SUFFICES ASSUME TypeOK, Owned, Ended, [Next]_vars PROVE Ended'
    OBVIOUS
  <1> USE DEF regs, vpu, stream
  <1>1. Decs \subseteq Insts /\ Encs \subseteq Insts /\ NoInst \notin Insts
        /\ \A i \in Decs : i \notin Encs
    BY InstAssumption DEF Insts
  <1>2. /\ ctx \in [Insts -> Regs] /\ hw \in Regs /\ room \in [Insts -> 0 .. N - 1]
        /\ told \in [Insts -> BOOLEAN] /\ ptr \in [Insts -> Addr]
        /\ hw.rd \in Addr /\ hw.wr \in Addr /\ hw.eos \in BOOLEAN /\ hw.disp \in SUBSET Bufs
    BY RegsFields DEF TypeOK, Addr
  (* Most steps leave the end, the room and the flags as they are.         *)
  <1>3. ASSUME UNCHANGED <<run, header, told>>,
               \A i \in Decs : /\ told[i] => room'[i] = 0
                               /\ ctx'[i].eos = ctx[i].eos
                               /\ run = i => hw'.eos = hw.eos
        PROVE  Ended'
    BY <1>3 DEF Ended
  <1>4. ASSUME NEW i \in Decs, DecGetBitstreamBuffer(i) PROVE Ended'
    <2>1. ~told[i] /\ \A j \in Insts : j # i => room'[j] = room[j]
      BY <1>2, <1>4 DEF DecGetBitstreamBuffer
    <2> QED
      BY <1>1, <1>3, <1>4, <2>1 DEF DecGetBitstreamBuffer, Ended
  <1>5. ASSUME NEW i \in Decs, NEW n \in 1 .. N - 1, DecUpdateBitstreamBuffer(i, n)
        PROVE  Ended'
    <2>1. ~told[i]
      <3>1. room[i] # 0
        BY <1>1, <1>2, <1>5, SizeAssumption DEF DecUpdateBitstreamBuffer
      <3> QED
        BY <3>1 DEF Ended
    <2>2. (ptr[i] + n) % N \in Addr
      BY <1>1, Pointers
    <2>3. /\ \A j \in Insts : j # i => ctx'[j] = ctx[j]
          /\ run # i => hw'.eos = hw.eos
      BY <1>1, <1>5, <2>2, StreamSet DEF DecUpdateBitstreamBuffer, CtxIs
    <2>4. \A j \in Insts : j # i => room'[j] = room[j]
      BY <1>2, <1>5 DEF DecUpdateBitstreamBuffer
    <2> QED
      BY <1>1, <1>5, <2>1, <2>3, <2>4 DEF DecUpdateBitstreamBuffer, Ended
  <1>6. ASSUME NEW i \in Decs, DecEndOfStream(i) PROVE Ended'
    <2>1. /\ CtxIs(i, ctx[i].rd, ptr[i], TRUE, ctx[i].disp)
          /\ hw'.eos = IF run = i THEN TRUE ELSE hw.eos
      BY <1>1, <1>2, <1>6, StreamSet DEF DecEndOfStream
    <2>2. \A j \in Insts : /\ room'[j] = IF j = i THEN 0 ELSE room[j]
                           /\ told'[j] = IF j = i THEN TRUE ELSE told[j]
      BY <1>2, <1>6 DEF DecEndOfStream
    <2> QED
      BY <1>1, <1>6, <2>1, <2>2 DEF DecEndOfStream, Ended, CtxIs
  <1>7. ASSUME NEW i \in Decs, NEW b \in Bufs, DecClrDispFlag(i, b) PROVE Ended'
    <2>1. ctx[i].disp \ {b} \in SUBSET Bufs
      BY <1>1, <1>2, RegsFields
    <2>2. \A j \in Insts : ctx'[j].eos = ctx[j].eos
      BY <1>1, <1>2, <1>7, <2>1, CtxDisp DEF DecClrDispFlag, CtxIs
    <2> QED
      BY <1>1, <1>3, <1>7, <2>2 DEF DecClrDispFlag, Ended
  <1>8. ASSUME NEW i \in Encs, EncGetBitstreamBuffer(i) \/ EncUpdateBitstreamBuffer(i)
        PROVE  Ended'
    <2>1. \A j \in Decs : room'[j] = room[j]
      BY <1>1, <1>2, <1>8 DEF EncGetBitstreamBuffer, EncUpdateBitstreamBuffer
    <2>2. \A j \in Decs : ctx'[j] = ctx[j]
      BY <1>1, <1>2, <1>8 DEF EncGetBitstreamBuffer, EncUpdateBitstreamBuffer
    <2>3. hw'.eos = hw.eos
      BY <1>2, <1>8 DEF EncGetBitstreamBuffer, EncUpdateBitstreamBuffer, Regs
    <2>4. UNCHANGED <<run, header, told>>
      BY <1>8 DEF EncGetBitstreamBuffer, EncUpdateBitstreamBuffer
    <2> QED
      BY <1>3, <2>1, <2>2, <2>3, <2>4 DEF Ended
  <1>9. ASSUME NEW i \in Insts, NEW c \in {"header", "frame"}, BitIssueCommandEx(i, c)
        PROVE  Ended'
    BY <1>9 DEF BitIssueCommandEx, Ended
  <1>10. ASSUME NEW i \in Decs, DecInitialInfoReady(i) PROVE Ended'
    <2>1. run = i /\ UNCHANGED <<hw, run, told, room>>
      BY <1>1, <1>10 DEF DecInitialInfoReady, Unlock, Owned
    <2>2. CASE header' = [header EXCEPT ![i] = "closed"] /\ UNCHANGED ctx
      BY <1>1, <2>1, <2>2 DEF Ended, TypeOK
    <2>3. CASE /\ header' = [header EXCEPT ![i] = "yes"]
               /\ ctx' = [ctx EXCEPT ![i].rd = hw.rd, ![i].eos = hw.eos]
      <3>1. CtxIs(i, hw.rd, ctx[i].wr, hw.eos, ctx[i].disp)
        BY <1>1, <1>2, <2>3, CtxRead DEF CtxIs
      <3>2. header[i] = "no"
        BY <1>10 DEF DecInitialInfoReady, Unlock, Owned
      <3> QED
        BY <1>1, <2>1, <2>3, <3>1, <3>2 DEF Ended, CtxIs, TypeOK
    <2> QED
      BY <1>10, <2>2, <2>3 DEF DecInitialInfoReady
  <1>11. ASSUME NEW i \in Decs, DecClose(i) PROVE Ended'
    BY <1>1, <1>11 DEF DecClose, Ended, TypeOK
  <1>12. ASSUME NEW i \in Decs, DecOpen(i) PROVE Ended'
    <2>1. \A j \in Insts : j # i => /\ room'[j] = room[j] /\ told'[j] = told[j]
                                    /\ header'[j] = header[j] /\ ctx'[j] = ctx[j]
      BY <1>2, <1>12 DEF DecOpen, TypeOK
    <2>2. ~told'[i] /\ UNCHANGED run /\ (run # i => hw' = hw)
      BY <1>1, <1>2, <1>12 DEF DecOpen
    <2> QED
      BY <1>1, <2>1, <2>2 DEF Ended
  <1>13. ASSUME NEW i \in Decs, DecGetOutputInfo(i) PROVE Ended'
    <2>1. run = i /\ UNCHANGED <<hw, run, told, room, header>>
      BY <1>1, <1>13 DEF DecGetOutputInfo, Unlock, Owned
    <2>2. CtxIs(i, hw.rd, ctx[i].wr, hw.eos, hw.disp)
      BY <1>1, <1>2, <1>13 DEF DecGetOutputInfo, Backup, CtxIs, Regs, Addr
    <2> QED
      BY <1>1, <2>1, <2>2 DEF Ended, CtxIs
  <1>14. ASSUME NEW i \in Encs, EncGetOutputInfo(i) PROVE Ended'
    <2>1. CtxIs(i, ctx[i].rd, hw.wr, hw.eos, ctx[i].disp)
      BY <1>1, <1>2, <1>14, CtxStream DEF EncGetOutputInfo, CtxIs
    <2>2. UNCHANGED <<hw, run, told, room, header>>
      BY <1>14 DEF EncGetOutputInfo, Unlock
    <2> QED
      BY <1>1, <1>3, <2>1, <2>2 DEF Ended, CtxIs
  <1>15. CASE VpuRead \/ VpuWrite \/ VpuDone
    <2>1. hw'.eos = hw.eos
      BY <1>2, <1>15 DEF VpuRead, VpuWrite, VpuDone, Regs
    <2>2. UNCHANGED <<run, header, told, room, ctx>>
      BY <1>15 DEF VpuRead, VpuWrite, VpuDone
    <2> QED
      BY <1>3, <2>1, <2>2 DEF Ended
  <1>16. CASE UNCHANGED vars
    BY <1>16 DEF vars, Ended
  <1> QED
    BY <1>1, <1>4, <1>5, <1>6, <1>7, <1>8, <1>9, <1>10, <1>11, <1>12, <1>13, <1>14, <1>15, <1>16
    DEF Next, Feed, DecGetInitialInfo, DecStartOneFrame, EncStartOneFrame

(* The client's word that the stream ends is never lost, whatever commands *)
(* other instances are given, and whoever calls during frames.             *)
THEOREM EndIsKept == Spec => []EndKept
  <1>1. Ended => EndKept
    BY DEF Ended, EndKept, View
  <1> QED
    BY <1>1, InitType, NextType, InitOwned, NextOwned, InitEnded, NextEnded, PTL DEF Spec

(***************************************************************************)
(* The frame buffers on display.                                           *)
(***************************************************************************)

(* Between frames the marks in ctxRegs are the buffers on display; in a    *)
(* frame those of the VPU are, with the one that it gives out.  There are  *)
(* no buffers before the header was found.                                 *)
Marked ==
    \A i \in Decs :
        /\ header[i] # "yes" => held[i] = {}
        /\ header[i] # "closed" /\ ~(cur = i /\ call = "frame") => ctx[i].disp = held[i]
        /\ cur = i /\ call = "frame" => hw.disp = held[i] \union ({shown} \ {NoBuf})

LEMMA InitMarked == Init => Marked
  <1> SUFFICES ASSUME Init, NEW i \in Decs
               PROVE  held[i] = {} /\ ctx[i].disp = {} /\ cur # i
    BY DEF Marked
  <1>1. i \in Insts /\ i # NoInst
    BY InstAssumption DEF Insts
  <1> QED
    BY <1>1, StartRegs DEF Init

LEMMA NextMarked ==
    ASSUME ~ClearAnytime, TypeOK, Owned, Marked, [Next]_vars
    PROVE  Marked'
  <1> USE DEF regs, vpu, stream
  <1>1. Decs \subseteq Insts /\ Encs \subseteq Insts /\ NoInst \notin Insts
        /\ \A i \in Decs : i \notin Encs
    BY InstAssumption DEF Insts
  <1>2. /\ ctx \in [Insts -> Regs] /\ hw \in Regs /\ ptr \in [Insts -> Addr]
        /\ held \in [Insts -> SUBSET Bufs]
        /\ header \in [Insts -> {"no", "yes", "closed"}]
        /\ hw.rd \in Addr /\ hw.wr \in Addr /\ hw.eos \in BOOLEAN /\ hw.disp \in SUBSET Bufs
    BY RegsFields DEF TypeOK, Addr
  (* Most steps leave the marks and the frames as they are.                *)
  <1>3. ASSUME UNCHANGED <<cur, call, shown, header, held>>, hw'.disp = hw.disp,
               \A i \in Decs : ctx'[i].disp = ctx[i].disp
        PROVE  Marked'
    BY <1>3 DEF Marked
  <1>4. ASSUME NEW i \in Decs, DecGetBitstreamBuffer(i) PROVE Marked'
    BY <1>3, <1>4 DEF DecGetBitstreamBuffer
  <1>5. ASSUME NEW i \in Decs, NEW w \in Addr, NEW e \in BOOLEAN, SetStream(i, w, e),
               UNCHANGED <<cur, call, shown, header, held>>
        PROVE  Marked'
    <2>1. CtxIs(i, ctx[i].rd, w, e, ctx[i].disp) /\ hw'.disp = hw.disp
      BY <1>1, <1>5, StreamSet
    <2> QED
      BY <1>1, <1>3, <1>5, <2>1 DEF CtxIs
  <1>6. ASSUME NEW i \in Decs, NEW n \in 1 .. N - 1, DecUpdateBitstreamBuffer(i, n)
        PROVE  Marked'
    <2>1. (ptr[i] + n) % N \in Addr
      BY <1>1, Pointers
    <2> QED
      BY <1>5, <1>6, <2>1 DEF DecUpdateBitstreamBuffer
  <1>7. ASSUME NEW i \in Decs, DecEndOfStream(i) PROVE Marked'
    BY <1>1, <1>2, <1>5, <1>7 DEF DecEndOfStream
  <1>8. ASSUME NEW i \in Decs, NEW b \in Bufs, DecClrDispFlag(i, b) PROVE Marked'
    <2>1. ctx[i].disp \ {b} \in SUBSET Bufs
      BY <1>1, <1>2, RegsFields
    <2>2. CtxIs(i, ctx[i].rd, ctx[i].wr, ctx[i].eos, ctx[i].disp \ {b})
      BY <1>1, <1>2, <1>8, <2>1 DEF DecClrDispFlag, CtxIs, Regs, Addr
    <2>3. \A j \in Insts : held'[j] = IF j = i THEN held[i] \ {b} ELSE held[j]
      BY <1>2, <1>8 DEF DecClrDispFlag
    <2>4. b \in held[i] /\ cur # i /\ UNCHANGED <<cur, call, shown, header, hw>>
      BY <1>8 DEF DecClrDispFlag
    <2> QED
      BY <1>1, <2>2, <2>3, <2>4 DEF Marked, CtxIs
  <1>9. ASSUME NEW i \in Encs, EncGetBitstreamBuffer(i) \/ EncUpdateBitstreamBuffer(i)
        PROVE  Marked'
    <2>1. \A j \in Decs : ctx'[j] = ctx[j]
      BY <1>1, <1>2, <1>9 DEF EncGetBitstreamBuffer, EncUpdateBitstreamBuffer
    <2>2. hw'.disp = hw.disp
      BY <1>2, <1>9 DEF EncGetBitstreamBuffer, EncUpdateBitstreamBuffer, Regs
    <2>3. UNCHANGED <<cur, call, shown, header, held>>
      BY <1>9 DEF EncGetBitstreamBuffer, EncUpdateBitstreamBuffer
    <2> QED
      BY <1>3, <2>1, <2>2, <2>3
  <1>10. ASSUME NEW i \in Insts, NEW c \in {"header", "frame"}, BitIssueCommandEx(i, c),
                i \in Decs => header[i] # "closed"
         PROVE  Marked'
    <2>1. /\ cur = NoInst /\ cur' = i /\ call' = c /\ hw' = ctx[i] /\ shown' = NoBuf
          /\ UNCHANGED <<ctx, header, held>>
      BY <1>10 DEF BitIssueCommandEx
    <2> QED
      BY <1>1, <1>10, <2>1 DEF Marked
  <1>11. ASSUME NEW i \in Decs, DecInitialInfoReady(i) PROVE Marked'
    <2>1. /\ cur = i /\ call = "header" /\ header[i] = "no" /\ cur' = NoInst /\ held' = held
      BY <1>11 DEF DecInitialInfoReady, Unlock, Owned
    <2>2. \A j \in Insts : ctx'[j].disp = ctx[j].disp
      <3>1. CASE ctx' = [ctx EXCEPT ![i].rd = hw.rd, ![i].eos = hw.eos]
        <4>1. CtxIs(i, hw.rd, ctx[i].wr, hw.eos, ctx[i].disp)
          BY <1>1, <1>2, <3>1, CtxRead DEF CtxIs
        <4> QED
          BY <1>1, <4>1 DEF CtxIs
      <3> QED
        BY <1>11, <3>1 DEF DecInitialInfoReady
    <2>3. \A j \in Insts : j # i => header'[j] = header[j]
      BY <1>2, <1>11 DEF DecInitialInfoReady
    <2> QED
      BY <1>1, <2>1, <2>2, <2>3 DEF Marked
  <1>12. ASSUME NEW i \in Decs, DecClose(i) PROVE Marked'
    <2>1. \A j \in Insts : /\ header'[j] = IF j = i THEN "closed" ELSE header[j]
                           /\ held'[j] = IF j = i THEN {} ELSE held[j]
      BY <1>2, <1>12 DEF DecClose
    <2>2. cur = NoInst /\ UNCHANGED <<ctx, cur, call>>
      BY <1>12 DEF DecClose
    <2> QED
      BY <1>1, <2>1, <2>2 DEF Marked
  <1>13. ASSUME NEW i \in Decs, DecOpen(i) PROVE Marked'
    <2>1. \A j \in Insts : /\ header'[j] = IF j = i THEN "no" ELSE header[j]
                           /\ ctx'[j] = IF j = i THEN Start ELSE ctx[j]
      BY <1>2, <1>13 DEF DecOpen
    <2>2. cur = NoInst /\ header[i] = "closed" /\ UNCHANGED <<cur, call, held>>
      BY <1>13 DEF DecOpen
    <2> QED
      BY <1>1, <2>1, <2>2, StartRegs DEF Marked
  <1>14. ASSUME NEW i \in Decs, DecGetOutputInfo(i) PROVE Marked'
    <2>1. /\ cur = i /\ call = "frame" /\ cur' = NoInst /\ call' = "none"
          /\ header[i] = "yes" /\ UNCHANGED <<header, hw>>
      BY <1>14 DEF DecGetOutputInfo, Unlock, Owned
    <2>2. CtxIs(i, hw.rd, ctx[i].wr, hw.eos, hw.disp)
      BY <1>1, <1>2, <1>14 DEF DecGetOutputInfo, Backup, CtxIs, Regs, Addr
    <2>3. \A j \in Insts : held'[j] = IF j = i THEN held[i] \union ({shown} \ {NoBuf})
                                      ELSE held[j]
      BY <1>2, <1>14 DEF DecGetOutputInfo
    <2> QED
      BY <1>1, <2>1, <2>2, <2>3 DEF Marked, CtxIs
  <1>15. ASSUME NEW i \in Encs, EncGetOutputInfo(i) PROVE Marked'
    <2>1. CtxIs(i, ctx[i].rd, hw.wr, hw.eos, ctx[i].disp)
      BY <1>1, <1>2, <1>15, CtxStream DEF EncGetOutputInfo, CtxIs
    <2>2. cur = i /\ cur' = NoInst /\ UNCHANGED <<header, held>>
      BY <1>15 DEF EncGetOutputInfo, Unlock
    <2> QED
      BY <1>1, <2>1, <2>2 DEF Marked, CtxIs
  <1>16. CASE VpuRead \/ VpuWrite
    <2>1. hw'.disp = hw.disp
      BY <1>2, <1>16 DEF VpuRead, VpuWrite, Regs
    <2>2. UNCHANGED <<cur, call, shown, header, held, ctx>>
      BY <1>16 DEF VpuRead, VpuWrite
    <2> QED
      BY <1>3, <2>1, <2>2
  <1>17. CASE VpuDone
    <2>1. busy /\ shown = NoBuf /\ UNCHANGED <<ctx, cur, call, header, held>>
      BY <1>17 DEF VpuDone, Owned
    <2>2. CASE UNCHANGED <<hw, shown>>
      BY <2>1, <2>2 DEF Marked
    <2>3. ASSUME NEW b \in Bufs, hw' = [hw EXCEPT !.disp = @ \union {b}], shown' = b
          PROVE  Marked'
      <3>1. hw'.disp = hw.disp \union {b} /\ b # NoBuf
        BY <1>2, <2>3, BufAssumption DEF Regs
      <3> QED
        BY <2>1, <2>3, <3>1 DEF Marked
    <2> QED
      BY <1>17, <2>2, <2>3 DEF VpuDone
  <1>18. CASE UNCHANGED vars
    BY <1>18 DEF vars, Marked
  <1>19. ASSUME NEW i \in Decs, DecGetInitialInfo(i) \/ DecStartOneFrame(i) PROVE Marked'
    BY <1>1, <1>10, <1>19 DEF DecGetInitialInfo, DecStartOneFrame
  <1>20. ASSUME NEW i \in Encs, EncStartOneFrame(i) PROVE Marked'
    BY <1>1, <1>10, <1>20 DEF EncStartOneFrame
  <1> QED
    BY <1>4, <1>6, <1>7, <1>8, <1>9, <1>11, <1>12, <1>13, <1>14, <1>15, <1>16, <1>17, <1>18,
       <1>19, <1>20
    DEF Next, Feed

(* Between its frames a decoder has exactly the buffers marked that are on *)
(* display, when its client releases buffers between frames only.          *)
THEOREM MarksAreHeld == ~ClearAnytime => (Spec => []BuffersMatch)
  <1> SUFFICES ASSUME ~ClearAnytime PROVE Spec => []BuffersMatch
    OBVIOUS
  <1>1. TypeOK /\ Owned /\ Marked /\ [Next]_vars => Marked'
    BY NextMarked
  <1>2. Marked => BuffersMatch
    BY DEF Marked, BuffersMatch
  <1> QED
    BY <1>1, <1>2, InitType, NextType, InitOwned, NextOwned, InitMarked, PTL DEF Spec

(***************************************************************************)
(* Where the pointers are.                                                 *)
(***************************************************************************)

(* Whoever writes has its write pointer in step, and whoever reads its     *)
(* read pointer; the other pointer is the VPU's while the instance runs,   *)
(* and in step with ctxRegs between its commands.  The client of a decoder *)
(* was promised no more room than there is, and that of an encoder no more *)
(* bytes than there are.                                                   *)
DecPlaced(i) ==
    /\ ctx[i].wr = ptr[i] /\ (run = i => hw.wr = ptr[i])
    /\ header[i] # "closed" =>
           /\ run = i /\ cur # i => hw.rd = ctx[i].rd
           /\ room[i] + Dist(First(i), Last(i)) < N

EncPlaced(i) ==
    /\ ctx[i].rd = ptr[i] /\ (cur = i => hw.rd = ptr[i])
    /\ run = i /\ cur # i => hw.wr = ctx[i].wr
    /\ room[i] <= Dist(First(i), Last(i))

Placed == (\A i \in Decs : DecPlaced(i)) /\ (\A i \in Encs : EncPlaced(i))

(* What a step does to the unread bytes of instance i: nothing, ...        *)
Same(i) ==
    First(i)' = First(i) /\ Last(i)' = Last(i) /\ mem'[i] = mem[i] /\ fed'[i] = fed[i]

Steady(i) ==
    \/ header[i] # "closed" /\ header'[i] # "closed" /\ Same(i)
    \/ header[i] = "closed" /\ header'[i] = "closed" /\ fed'[i] = fed[i]

(* ... n bytes are put behind the last one, ...                            *)
Puts(i, n) ==
    /\ header[i] # "closed" /\ header'[i] # "closed"
    /\ Dist(First(i), Last(i)) + n < N
    /\ First(i)' = First(i) /\ Last(i)' = (Last(i) + n) % N
    /\ \A a \in Addr : Dist(First(i), a) < Dist(First(i), Last(i)) => mem'[i][a] = mem[i][a]
    /\ \A a \in Addr : Dist(Last(i), a) < n =>
           mem'[i][a] = (fed[i] + Dist(Last(i), a)) % Numbers
    /\ fed'[i] = (fed[i] + n) % Numbers

(* ... the n first bytes are taken, or all are given up.                   *)
Takes(i, n) ==
    /\ header[i] # "closed" /\ header'[i] # "closed"
    /\ n <= Dist(First(i), Last(i))
    /\ First(i)' = (First(i) + n) % N /\ Last(i)' = Last(i)
    /\ mem'[i] = mem[i] /\ fed'[i] = fed[i]

Empties(i) ==
    /\ header'[i] = "closed" \/ (header[i] = "closed" /\ First(i)' = Last(i)')
    /\ fed'[i] = fed[i]

Flows ==
    \/ \A j \in Insts : Steady(j)
    \/ \E i \in Insts :
          /\ \A j \in Insts : j # i => Steady(j)
          /\ (\E n \in 1 .. N - 1 : Puts(i, n) \/ Takes(i, n)) \/ Empties(i)

LEMMA InitPlaced == Init => Placed
  <1> SUFFICES ASSUME Init PROVE Placed
    OBVIOUS
  <1>1. Decs \subseteq Insts /\ Encs \subseteq Insts /\ 0 \in Addr
    BY SizeAssumption DEF Insts, Addr
  <1>2. Dist(0, 0) = 0
    BY <1>1, DistSelf
  <1>3. \A i \in Insts : /\ ptr[i] = 0 /\ ctx[i] = Start /\ hw = Start /\ room[i] = 0
                         /\ View(i) = Start
    BY DEF Init, View
  <1> QED
    BY <1>1, <1>2, <1>3, StartRegs, SizeAssumption
    DEF Placed, DecPlaced, EncPlaced, First, Last

(* The first and the last unread byte are addresses.                       *)
LEMMA SpanType ==
    ASSUME TypeOK, NEW i \in Insts
    PROVE  First(i) \in Addr /\ Last(i) \in Addr /\ Dist(First(i), Last(i)) \in 0 .. N - 1
  BY Pointers, DistType DEF First, Last

LEMMA SameView ==
    ASSUME TypeOK, NEW i \in Insts, ptr'[i] = ptr[i],
           i \in Decs => View(i)'.rd = View(i).rd,
           i \notin Decs => View(i)'.wr = View(i).wr
    PROVE  First(i)' = First(i) /\ Last(i)' = Last(i)
  BY DEF First, Last

(* The contexts of other instances, and the VPU's registers while another  *)
(* instance is RUN_INDEX, are no concern of a step of instance i.          *)
LEMMA OtherView ==
    ASSUME TypeOK, NEW i \in Insts, NEW j \in Insts, j # i, run' = run,
           ctx'[j].rd = ctx[j].rd, ctx'[j].wr = ctx[j].wr,
           run # i => hw'.rd = hw.rd /\ hw'.wr = hw.wr
    PROVE  View(j)'.rd = View(j).rd /\ View(j)'.wr = View(j).wr
  BY DEF View

(***************************************************************************)
(* The steps of a decoder's client.                                        *)
(***************************************************************************)

LEMMA DecGetFlow ==
    ASSUME TypeOK, Placed, NEW i \in Decs, DecGetBitstreamBuffer(i)
    PROVE  Placed' /\ Flows
  <1> USE DEF regs, vpu
  <1>1. i \in Insts /\ Decs \subseteq Insts /\ Encs \subseteq Insts
    BY DEF Insts
  <1>2. /\ UNCHANGED <<ctx, hw, run, cur, ptr, mem, fed, header>>
        /\ \A j \in Insts : room'[j] = IF j = i THEN DecRoom(i) ELSE room[j]
    BY DEF DecGetBitstreamBuffer, TypeOK
  <1>3. \A j \in Insts : View(j)' = View(j)
    BY <1>2 DEF View
  <1>4. \A j \in Insts : Same(j)
    BY <1>2, <1>3 DEF Same, First, Last
  <1>5. DecRoom(i) + Dist(First(i), Last(i)) < N
    BY <1>1, Pointers, SizeAssumption DEF First, Last, Addr
  <1>6. \A j \in Decs : j \notin Encs
    BY InstAssumption
  <1>7. Placed'
    BY <1>1, <1>2, <1>4, <1>5, <1>6 DEF Placed, DecPlaced, EncPlaced, Same
  <1> QED
    BY <1>2, <1>4, <1>7 DEF Flows, Steady

(* Setting the write pointer of a decoder leaves the first byte where it   *)
(* is, and every other instance alone.                                     *)
LEMMA StreamSpan ==
    ASSUME TypeOK, Owned, Placed, NEW i \in Decs, NEW w \in Addr, NEW e \in BOOLEAN,
           SetStream(i, w, e), header[i] # "closed",
           ptr' = [ptr EXCEPT ![i] = w], UNCHANGED <<run, cur, header>>,
           room' = [room EXCEPT ![i] = 0],
           Dist(First(i), w) < N
    PROVE  /\ Placed'
           /\ First(i)' = First(i) /\ Last(i)' = w
           /\ \A j \in Insts : j # i => First(j)' = First(j) /\ Last(j)' = Last(j)
  <1>1. i \in Insts /\ Decs \subseteq Insts /\ Encs \subseteq Insts /\ i \notin Encs
    BY InstAssumption DEF Insts
  <1>2. /\ CtxIs(i, ctx[i].rd, w, e, ctx[i].disp) /\ hw'.rd = hw.rd
        /\ hw'.wr = IF run = i THEN w ELSE hw.wr
    BY <1>1, StreamSet
  <1>3. \A j \in Insts : /\ ptr'[j] = IF j = i THEN w ELSE ptr[j]
                         /\ room'[j] = IF j = i THEN 0 ELSE room[j]
    BY DEF TypeOK
  <1>4. First(i)' = First(i) /\ Last(i)' = w
    BY <1>1, <1>2, <1>3 DEF First, Last, View, CtxIs
  <1>5. \A j \in Insts : j # i => First(j)' = First(j) /\ Last(j)' = Last(j)
    <2> SUFFICES ASSUME NEW j \in Insts, j # i
                 PROVE  First(j)' = First(j) /\ Last(j)' = Last(j)
      OBVIOUS
    <2>1. View(j)'.rd = View(j).rd /\ View(j)'.wr = View(j).wr
      BY <1>1, <1>2, OtherView DEF CtxIs
    <2> QED
      BY <1>3, <2>1, SameView
  <1>6. ASSUME NEW j \in Decs PROVE DecPlaced(j)'
    <2>1. CASE j = i
      BY <1>1, <1>2, <1>3, <1>4, <2>1, SpanType, DistType, SizeAssumption
      DEF Placed, DecPlaced, CtxIs, Addr
    <2>2. CASE j # i
      <3>1. /\ First(j)' = First(j) /\ Last(j)' = Last(j) /\ room'[j] = room[j]
            /\ ptr'[j] = ptr[j] /\ ctx'[j] = ctx[j]
            /\ run = j => hw'.rd = hw.rd /\ hw'.wr = hw.wr
        BY <1>1, <1>2, <1>3, <1>5, <2>2 DEF CtxIs
      <3> QED
        BY <3>1 DEF Placed, DecPlaced
    <2> QED
      BY <2>1, <2>2
  <1>7. ASSUME NEW j \in Encs PROVE EncPlaced(j)'
    <2>1. j # i /\ j \in Insts
      BY <1>1
    <2>2. /\ First(j)' = First(j) /\ Last(j)' = Last(j) /\ room'[j] = room[j]
          /\ ptr'[j] = ptr[j] /\ ctx'[j] = ctx[j] /\ hw'.rd = hw.rd
          /\ run = j => hw'.wr = hw.wr
      BY <1>2, <1>3, <1>5, <2>1 DEF CtxIs
    <2> QED
      BY <2>2 DEF Placed, EncPlaced
  <1> QED
    BY <1>4, <1>5, <1>6, <1>7 DEF Placed

(* Whatever lies from a on is in front of the room behind b.               *)
LEMMA Disjoint ==
    ASSUME NEW a \in Addr, NEW b \in Addr, NEW c \in Addr, NEW n \in 0 .. N,
           Dist(a, b) + n < N, Dist(a, c) < Dist(a, b)
    PROVE  Dist(b, c) >= n
  BY DistIs, SizeAssumption DEF Addr

LEMMA DecUpdateFlow ==
    ASSUME TypeOK, Owned, Placed, NEW i \in Decs, NEW n \in 1 .. N - 1,
           DecUpdateBitstreamBuffer(i, n)
    PROVE  Placed' /\ Flows
  <1> USE DEF vpu
  <1> DEFINE w == (ptr[i] + n) % N
  <1>1. i \in Insts /\ Last(i) = ptr[i] /\ header[i] # "closed"
    BY DEF Insts, Last, DecUpdateBitstreamBuffer, Free
  <1>2. /\ SetStream(i, w, FALSE) /\ ptr' = [ptr EXCEPT ![i] = w]
        /\ room' = [room EXCEPT ![i] = 0] /\ UNCHANGED <<run, cur, header>>
        /\ mem' = [mem EXCEPT ![i] = Filled(i, n)]
        /\ fed' = [fed EXCEPT ![i] = (@ + n) % Numbers]
        /\ n <= room[i]
    BY DEF DecUpdateBitstreamBuffer
  <1>3. First(i) \in Addr /\ ptr[i] \in Addr /\ Dist(First(i), ptr[i]) \in 0 .. N - 1
    BY <1>1, SpanType
  <1>4. Dist(First(i), ptr[i]) + n < N
    <2>1. room[i] + Dist(First(i), ptr[i]) < N /\ room[i] \in 0 .. N - 1
      BY <1>1 DEF Placed, DecPlaced, TypeOK
    <2> QED
      BY <1>2, <1>3, <2>1, SizeAssumption
  <1>5. w \in Addr /\ Dist(First(i), w) = Dist(First(i), ptr[i]) + n
    BY <1>3, <1>4, DistPut
  <1> HIDE DEF w
  <1>6. /\ Placed'
        /\ First(i)' = First(i) /\ Last(i)' = w
        /\ \A j \in Insts : j # i => First(j)' = First(j) /\ Last(j)' = Last(j)
    BY <1>1, <1>2, <1>4, <1>5, StreamSpan
  <1>7. /\ mem'[i] = Filled(i, n) /\ fed'[i] = (fed[i] + n) % Numbers
        /\ \A j \in Insts : j # i => mem'[j] = mem[j] /\ fed'[j] = fed[j]
    BY <1>1, <1>2 DEF TypeOK
  <1>8. \A a \in Addr :
          mem'[i][a] = IF Dist(ptr[i], a) < n THEN (fed[i] + Dist(ptr[i], a)) % Numbers
                       ELSE mem[i][a]
    BY <1>7 DEF Filled, Addr
  <1>9. \A a \in Addr : Dist(First(i), a) < Dist(First(i), Last(i)) => mem'[i][a] = mem[i][a]
    <2> SUFFICES ASSUME NEW a \in Addr, Dist(First(i), a) < Dist(First(i), ptr[i])
                 PROVE  mem'[i][a] = mem[i][a]
      BY <1>1
    <2>1. Dist(ptr[i], a) >= n
      <3>1. n \in 0 .. N
        BY SizeAssumption
      <3> QED
        BY <1>3, <1>4, <3>1, Disjoint
    <2>2. Dist(ptr[i], a) \in 0 .. N - 1
      BY <1>3, DistType
    <2> QED
      BY <1>8, <2>1, <2>2
  <1>10. Puts(i, n)
    BY <1>1, <1>2, <1>4, <1>6, <1>7, <1>8, <1>9 DEF Puts, w
  <1>11. \A j \in Insts : j # i => Steady(j)
    BY <1>2, <1>6, <1>7 DEF Steady, Same
  <1> QED
    BY <1>1, <1>6, <1>10, <1>11 DEF Flows

LEMMA DecEndFlow ==
    ASSUME TypeOK, Owned, Placed, NEW i \in Decs, DecEndOfStream(i)
    PROVE  Placed' /\ Flows
  <1> USE DEF vpu
  <1>1. i \in Insts /\ Last(i) = ptr[i] /\ header[i] # "closed"
    BY DEF Insts, Last, DecEndOfStream, Free
  <1>2. /\ SetStream(i, ptr[i], TRUE) /\ room' = [room EXCEPT ![i] = 0]
        /\ UNCHANGED <<run, cur, header, ptr, mem, fed>>
    BY DEF DecEndOfStream
  <1>3. ptr[i] \in Addr /\ Dist(First(i), ptr[i]) \in 0 .. N - 1
    BY <1>1, SpanType
  <1>4. ptr' = [ptr EXCEPT ![i] = ptr[i]]
    BY <1>2 DEF TypeOK
  <1>5. Dist(First(i), ptr[i]) < N
    BY <1>3, SizeAssumption
  <1>6. /\ Placed'
        /\ First(i)' = First(i) /\ Last(i)' = ptr[i]
        /\ \A j \in Insts : j # i => First(j)' = First(j) /\ Last(j)' = Last(j)
    BY <1>1, <1>2, <1>3, <1>4, <1>5, StreamSpan
  <1>7. \A j \in Insts : Steady(j)
    BY <1>1, <1>2, <1>6 DEF Steady, Same
  <1> QED
    BY <1>6, <1>7 DEF Flows

(* A step that moves no pointer.                                           *)
LEMMA StillFlow ==
    ASSUME TypeOK, Placed, UNCHANGED <<run, cur, ptr, room, mem, fed, header>>,
           hw'.rd = hw.rd, hw'.wr = hw.wr,
           \A j \in Insts : ctx'[j].rd = ctx[j].rd /\ ctx'[j].wr = ctx[j].wr
    PROVE  Placed' /\ Flows
  <1>1. Decs \subseteq Insts /\ Encs \subseteq Insts
    BY DEF Insts
  <1>2. \A j \in Insts : Same(j)
    BY DEF Same, First, Last, View
  <1>3. Placed'
    BY <1>1, <1>2 DEF Placed, DecPlaced, EncPlaced, Same
  <1> QED
    BY <1>2, <1>3 DEF Flows, Steady

LEMMA ClearFlow ==
    ASSUME TypeOK, Placed, NEW i \in Decs, NEW b \in Bufs, DecClrDispFlag(i, b)
    PROVE  Placed' /\ Flows
  <1>1. \A j \in Insts : ctx'[j].rd = ctx[j].rd /\ ctx'[j].wr = ctx[j].wr
    BY DEF DecClrDispFlag, TypeOK, Regs, Addr
  <1>2. UNCHANGED <<run, cur, ptr, room, mem, fed, header, hw>>
    BY DEF DecClrDispFlag, vpu, stream
  <1> QED
    BY <1>1, <1>2, StillFlow

(***************************************************************************)
(* The steps of an encoder's client.                                       *)
(***************************************************************************)

LEMMA EncGetFlow ==
    ASSUME TypeOK, Placed, NEW i \in Encs, EncGetBitstreamBuffer(i)
    PROVE  Placed' /\ Flows
  <1> USE DEF regs, vpu
  <1>1. i \in Insts /\ i \notin Decs /\ Decs \subseteq Insts /\ Encs \subseteq Insts
    BY InstAssumption DEF Insts
  <1>2. /\ UNCHANGED <<ctx, hw, run, cur, ptr, mem, fed, header>>
        /\ \A j \in Insts : room'[j] = IF j = i THEN EncRoom(i) ELSE room[j]
    BY DEF EncGetBitstreamBuffer, TypeOK
  <1>3. \A j \in Insts : View(j)' = View(j)
    BY <1>2 DEF View
  <1>4. \A j \in Insts : Same(j)
    BY <1>2, <1>3 DEF Same, First, Last
  <1>5. EncRoom(i) = Dist(First(i), Last(i)) /\ Dist(First(i), Last(i)) \in 0 .. N - 1
    BY <1>1, SpanType DEF First, Last, EncRoom
  <1>6. Placed'
    BY <1>1, <1>2, <1>4, <1>5 DEF Placed, DecPlaced, EncPlaced, Same
  <1> QED
    BY <1>2, <1>4, <1>6 DEF Flows, Steady

LEMMA EncUpdateFlow ==
    ASSUME ~DrainAnytime, TypeOK, Owned, Placed, NEW i \in Encs, EncUpdateBitstreamBuffer(i)
    PROVE  Placed' /\ Flows
  <1> USE DEF vpu
  <1> DEFINE r == (ptr[i] + room[i]) % N
  <1>1. i \in Insts /\ i \notin Decs /\ Decs \subseteq Insts /\ Encs \subseteq Insts
    BY InstAssumption DEF Insts
  <1>2. /\ cur # i /\ header[i] # "closed" /\ room[i] > 0
        /\ ptr' = [ptr EXCEPT ![i] = r] /\ ctx' = [ctx EXCEPT ![i].rd = r]
        /\ hw' = (IF run = i THEN [hw EXCEPT !.rd = hw.wr] ELSE hw)
        /\ room' = [room EXCEPT ![i] = 0]
        /\ UNCHANGED <<run, cur, mem, fed, header>>
    BY DEF EncUpdateBitstreamBuffer, Free
  <1>3. /\ First(i) = ptr[i] /\ First(i) \in Addr /\ Last(i) \in Addr
        /\ room[i] \in 0 .. N - 1 /\ room[i] <= Dist(First(i), Last(i))
    BY <1>1, SpanType DEF First, Placed, EncPlaced, TypeOK
  <1>4. r \in Addr /\ Dist(r, Last(i)) = Dist(First(i), Last(i)) - room[i]
    BY <1>3, DistTake
  <1> HIDE DEF r
  <1>5. /\ CtxIs(i, r, ctx[i].wr, ctx[i].eos, ctx[i].disp)
        /\ hw'.wr = hw.wr /\ (run # i => hw' = hw)
    BY <1>1, <1>2, <1>4, CtxTake DEF CtxIs, TypeOK, Regs
  <1>6. \A j \in Insts : /\ ptr'[j] = IF j = i THEN r ELSE ptr[j]
                         /\ room'[j] = IF j = i THEN 0 ELSE room[j]
    BY <1>2 DEF TypeOK
  <1>7. First(i)' = r /\ Last(i)' = Last(i)
    BY <1>1, <1>2, <1>5, <1>6 DEF First, Last, View, CtxIs
  <1>8. \A j \in Insts : j # i => First(j)' = First(j) /\ Last(j)' = Last(j)
    <2> SUFFICES ASSUME NEW j \in Insts, j # i
                 PROVE  First(j)' = First(j) /\ Last(j)' = Last(j)
      OBVIOUS
    <2>1. View(j)'.rd = View(j).rd /\ View(j)'.wr = View(j).wr
      BY <1>1, <1>2, <1>5, OtherView DEF CtxIs
    <2> QED
      BY <1>6, <2>1, SameView
  <1>9. \A j \in Insts : j # i => Steady(j)
    <2>1. \A j \in Insts : header[j] # "closed" \/ header[j] = "closed"
      OBVIOUS
    <2> QED
      BY <1>2, <1>8 DEF Steady, Same
  <1>10. Takes(i, room[i]) /\ room[i] \in 1 .. N - 1
    BY <1>2, <1>3, <1>7 DEF Takes, r
  <1>11. ASSUME NEW j \in Encs PROVE EncPlaced(j)'
    <2>1. CASE j = i
      <3>1. 0 <= Dist(r, Last(i))
        BY <1>3, <1>4, DistType
      <3> QED
        BY <1>1, <1>2, <1>5, <1>6, <1>7, <2>1, <3>1 DEF Placed, EncPlaced, CtxIs
    <2>2. CASE j # i
      <3>1. /\ First(j)' = First(j) /\ Last(j)' = Last(j) /\ room'[j] = room[j]
            /\ ptr'[j] = ptr[j] /\ ctx'[j] = ctx[j]
        BY <1>1, <1>5, <1>6, <1>8, <2>2 DEF CtxIs
      <3>2. cur = j => run # i
        BY <1>1, <2>2, InstAssumption DEF Owned
      <3> QED
        BY <1>2, <1>5, <2>2, <3>1, <3>2 DEF Placed, EncPlaced
    <2> QED
      BY <2>1, <2>2
  <1>12. ASSUME NEW j \in Decs PROVE DecPlaced(j)'
    <2>1. j \in Insts /\ j # i
      BY <1>1
    <2>2. /\ First(j)' = First(j) /\ Last(j)' = Last(j) /\ room'[j] = room[j]
          /\ ptr'[j] = ptr[j] /\ ctx'[j] = ctx[j]
      BY <1>5, <1>6, <1>8, <2>1 DEF CtxIs
    <2> QED
      BY <1>2, <1>5, <2>1, <2>2 DEF Placed, DecPlaced
  <1> QED
    BY <1>1, <1>9, <1>10, <1>11, <1>12 DEF Placed, Flows

(***************************************************************************)
(* Commands and their ends.                                                *)
(***************************************************************************)

(* The context of i goes to the VPU: the pointers of every instance are    *)
(* where they were.                                                        *)
LEMMA Switched ==
    ASSUME TypeOK, Placed, NEW i \in Insts, cur = NoInst, hw' = ctx[i], run' = i,
           UNCHANGED <<ctx, ptr, mem, fed, room>>,
           \A j \in Insts : j # i => header'[j] = header[j],
           header'[i] \in {header[i], "closed"},
           cur' \in {i, NoInst}
    PROVE  /\ Placed'
           /\ \A j \in Insts : header'[j] = header[j] => Steady(j)
  <1>1. Decs \subseteq Insts /\ Encs \subseteq Insts /\ NoInst \notin Insts
    BY InstAssumption DEF Insts
  <1>2. ASSUME NEW j \in Insts
        PROVE  View(j)' = ctx[j]
    BY DEF View
  <1>3. \A j \in Decs : header[j] # "closed" => View(j).rd = ctx[j].rd
    BY <1>1 DEF Placed, DecPlaced, View
  <1>4. \A j \in Encs : View(j).wr = ctx[j].wr
    BY <1>1 DEF Placed, EncPlaced, View
  <1>5. \A j \in Insts : header[j] # "closed" \/ j \notin Decs => Same(j)
    <2> SUFFICES ASSUME NEW j \in Insts, header[j] # "closed" \/ j \notin Decs PROVE Same(j)
      OBVIOUS
    <2>1. j \notin Decs => j \in Encs
      BY DEF Insts
    <2>2. First(j)' = First(j) /\ Last(j)' = Last(j)
      BY <1>2, <1>3, <1>4, <2>1 DEF First, Last
    <2> QED
      BY <2>2 DEF Same
  <1>6. ASSUME NEW j \in Insts, header'[j] = header[j] PROVE Steady(j)
    BY <1>5, <1>6 DEF Steady
  <1>7. ASSUME NEW j \in Decs PROVE DecPlaced(j)'
    <2>1. header'[j] # "closed" => header[j] # "closed"
      BY <1>1
    <2> QED
      BY <1>1, <1>5, <2>1 DEF Placed, DecPlaced, Same
  <1>8. ASSUME NEW j \in Encs PROVE EncPlaced(j)'
    <2>1. j \in Insts /\ j \notin Decs
      BY <1>1, InstAssumption
    <2>2. First(j)' = First(j) /\ Last(j)' = Last(j)
      BY <1>5, <2>1 DEF Same
    <2> QED
      BY <1>1, <2>1, <2>2 DEF Placed, EncPlaced
  <1> QED
    BY <1>6, <1>7, <1>8 DEF Placed

LEMMA IssueFlow ==
    ASSUME TypeOK, Placed, NEW i \in Insts, NEW c, BitIssueCommandEx(i, c)
    PROVE  Placed' /\ Flows
  <1>1. /\ cur = NoInst /\ hw' = ctx[i] /\ run' = i /\ cur' = i
        /\ UNCHANGED <<ctx, ptr, mem, fed, room, header>>
    BY DEF BitIssueCommandEx, stream
  <1>2. Placed' /\ \A j \in Insts : header'[j] = header[j] => Steady(j)
    BY <1>1, Switched
  <1> QED
    BY <1>1, <1>2 DEF Flows

LEMMA CloseFlow ==
    ASSUME TypeOK, Placed, NEW i \in Decs, DecClose(i)
    PROVE  Placed' /\ Flows
  <1>1. /\ cur = NoInst /\ hw' = ctx[i] /\ run' = i /\ cur' = NoInst
        /\ UNCHANGED <<ctx, ptr, mem, fed, room>> /\ i \in Insts
    BY DEF DecClose, vpu, stream, Insts
  <1>2. \A j \in Insts : header'[j] = IF j = i THEN "closed" ELSE header[j]
    BY DEF DecClose, TypeOK
  <1>3. Placed' /\ \A j \in Insts : header'[j] = header[j] => Steady(j)
    BY <1>1, <1>2, Switched
  <1>4. Empties(i)
    BY <1>1, <1>2 DEF Empties
  <1> QED
    BY <1>1, <1>2, <1>3, <1>4 DEF Flows

LEMMA OpenFlow ==
    ASSUME TypeOK, Placed, NEW i \in Decs, DecOpen(i)
    PROVE  Placed' /\ Flows
  <1> USE DEF vpu
  <1>1. i \in Insts /\ i \notin Encs /\ Decs \subseteq Insts /\ Encs \subseteq Insts
    BY InstAssumption DEF Insts
  <1>2. /\ cur = NoInst /\ header[i] = "closed"
        /\ hw' = (IF run = i THEN [Start EXCEPT !.eos = hw.eos] ELSE hw)
        /\ UNCHANGED <<run, cur, mem, fed>>
    BY DEF DecOpen
  <1>3. \A j \in Insts : /\ ptr'[j] = IF j = i THEN 0 ELSE ptr[j]
                         /\ ctx'[j] = IF j = i THEN Start ELSE ctx[j]
                         /\ header'[j] = IF j = i THEN "no" ELSE header[j]
                         /\ room'[j] = IF j = i THEN 0 ELSE room[j]
    BY DEF DecOpen, TypeOK
  <1>4. run = i => hw'.rd = 0 /\ hw'.wr = 0
    BY <1>2, StartRegs DEF Regs
  <1>5. First(i)' = 0 /\ Last(i)' = 0
    BY <1>1, <1>2, <1>3, <1>4, StartRegs DEF First, Last, View
  <1>6. \A j \in Insts : j # i => First(j)' = First(j) /\ Last(j)' = Last(j)
    <2> SUFFICES ASSUME NEW j \in Insts, j # i
                 PROVE  First(j)' = First(j) /\ Last(j)' = Last(j)
      OBVIOUS
    <2>1. View(j)'.rd = View(j).rd /\ View(j)'.wr = View(j).wr
      BY <1>1, <1>2, <1>3, OtherView
    <2> QED
      BY <1>3, <2>1, SameView
  <1>7. \A j \in Insts : j # i => Steady(j)
    BY <1>2, <1>3, <1>6 DEF Steady, Same
  <1>8. Empties(i)
    BY <1>2, <1>5 DEF Empties
  <1>9. Dist(0, 0) = 0
    <2>1. 0 \in Addr
      BY SizeAssumption DEF Addr
    <2> QED
      BY <2>1, DistSelf
  <1>10. ASSUME NEW j \in Decs PROVE DecPlaced(j)'
    <2>1. CASE j = i
      BY <1>1, <1>2, <1>3, <1>4, <1>5, <1>9, <2>1, StartRegs, SizeAssumption DEF DecPlaced
    <2>2. CASE j # i
      <3>1. /\ First(j)' = First(j) /\ Last(j)' = Last(j) /\ room'[j] = room[j]
            /\ ptr'[j] = ptr[j] /\ ctx'[j] = ctx[j] /\ header'[j] = header[j]
            /\ run = j => hw' = hw
        BY <1>1, <1>2, <1>3, <1>6, <2>2
      <3> QED
        BY <1>2, <3>1 DEF Placed, DecPlaced
    <2> QED
      BY <2>1, <2>2
  <1>11. ASSUME NEW j \in Encs PROVE EncPlaced(j)'
    <2>1. /\ First(j)' = First(j) /\ Last(j)' = Last(j) /\ room'[j] = room[j]
          /\ ptr'[j] = ptr[j] /\ ctx'[j] = ctx[j] /\ j \in Insts
          /\ run = j => hw' = hw
      BY <1>1, <1>2, <1>3, <1>6
    <2> QED
      BY <1>2, <2>1, InstAssumption DEF Placed, EncPlaced
  <1> QED
    BY <1>1, <1>7, <1>8, <1>10, <1>11 DEF Placed, Flows

(* The instance's command is over, and its context is backed up unless it  *)
(* is given up.                                                            *)
LEMMA BackedUp ==
    ASSUME TypeOK, Owned, Placed, NEW i \in Insts, cur = i, cur' = NoInst,
           UNCHANGED <<hw, run, ptr, mem, fed, room>>,
           \A j \in Insts : j # i => ctx'[j] = ctx[j] /\ header'[j] = header[j],
           header[i] # "closed",
           i \in Decs => /\ ctx'[i].wr = ctx[i].wr
                         /\ header'[i] # "closed" => ctx'[i].rd = hw.rd,
           i \in Encs => /\ header'[i] # "closed"
                         /\ ctx'[i].rd = ctx[i].rd /\ ctx'[i].wr = hw.wr
    PROVE  Placed' /\ Flows
  <1>1. Decs \subseteq Insts /\ Encs \subseteq Insts /\ NoInst \notin Insts /\ run = i
        /\ \A j \in Decs : j \notin Encs
    BY InstAssumption DEF Insts, Owned
  <1>2. \A j \in Insts : Same(j)
    BY <1>1 DEF Same, First, Last, View
  <1>3. ASSUME NEW j \in Decs PROVE DecPlaced(j)'
    BY <1>1, <1>2, <1>3 DEF Placed, DecPlaced, Same
  <1>4. ASSUME NEW j \in Encs PROVE EncPlaced(j)'
    BY <1>1, <1>2, <1>4 DEF Placed, EncPlaced, Same
  <1>5. \A j \in Insts : j # i => Steady(j)
    BY <1>2 DEF Steady, Same
  <1>6. CASE header'[i] # "closed"
    BY <1>2, <1>3, <1>4, <1>5, <1>6 DEF Placed, Flows, Steady
  <1>7. CASE header'[i] = "closed"
    <2>1. Empties(i)
      BY <1>7 DEF Empties
    <2> QED
      BY <1>3, <1>4, <1>5, <2>1 DEF Placed, Flows
  <1> QED
    BY <1>6, <1>7

LEMMA ReadyFlow ==
    ASSUME TypeOK, Owned, Placed, NEW i \in Decs, DecInitialInfoReady(i)
    PROVE  Placed' /\ Flows
  <1>1. /\ i \in Insts /\ i \notin Encs
        /\ cur = i /\ cur' = NoInst /\ header[i] = "no"
        /\ UNCHANGED <<hw, run, ptr, mem, fed, room>>
    BY InstAssumption DEF DecInitialInfoReady, Unlock, stream, Owned, Insts
  <1>2. /\ ctx \in [Insts -> Regs] /\ hw.rd \in Addr /\ hw.eos \in BOOLEAN
        /\ header \in [Insts -> {"no", "yes", "closed"}]
    BY RegsFields DEF TypeOK
  <1>3. CASE header' = [header EXCEPT ![i] = "closed"] /\ UNCHANGED ctx
    <2>1. \A j \in Insts : header'[j] = IF j = i THEN "closed" ELSE header[j]
      BY <1>2, <1>3
    <2> QED
      BY <1>1, <1>3, <2>1, BackedUp
  <1>4. CASE /\ header' = [header EXCEPT ![i] = "yes"]
             /\ ctx' = [ctx EXCEPT ![i].rd = hw.rd, ![i].eos = hw.eos]
    <2>1. \A j \in Insts : header'[j] = IF j = i THEN "yes" ELSE header[j]
      BY <1>2, <1>4
    <2>2. CtxIs(i, hw.rd, ctx[i].wr, hw.eos, ctx[i].disp)
      BY <1>1, <1>2, <1>4, CtxRead DEF CtxIs
    <2> QED
      BY <1>1, <2>1, <2>2, BackedUp DEF CtxIs
  <1> QED
    BY <1>3, <1>4 DEF DecInitialInfoReady

LEMMA OutputFlow ==
    ASSUME TypeOK, Owned, Placed, NEW i \in Decs, DecGetOutputInfo(i)
    PROVE  Placed' /\ Flows
  <1>1. /\ i \in Insts /\ i \notin Encs
        /\ cur = i /\ cur' = NoInst /\ header[i] = "yes"
        /\ UNCHANGED <<hw, run, ptr, mem, fed, room, header>>
    BY InstAssumption DEF DecGetOutputInfo, Unlock, stream, Owned, Insts
  <1>2. /\ ctx \in [Insts -> Regs] /\ hw.rd \in Addr /\ hw.eos \in BOOLEAN
        /\ hw.disp \in SUBSET Bufs
    BY RegsFields DEF TypeOK
  <1>3. CtxIs(i, hw.rd, ctx[i].wr, hw.eos, hw.disp)
    BY <1>1, <1>2 DEF DecGetOutputInfo, Backup, CtxIs, Regs, Addr
  <1> QED
    BY <1>1, <1>3, BackedUp DEF CtxIs

LEMMA EncOutputFlow ==
    ASSUME TypeOK, Owned, Placed, NEW i \in Encs, EncGetOutputInfo(i)
    PROVE  Placed' /\ Flows
  <1>1. /\ i \in Insts /\ i \notin Decs
        /\ cur = i /\ cur' = NoInst /\ header[i] = "no"
        /\ UNCHANGED <<hw, run, ptr, mem, fed, room, header>>
    BY InstAssumption DEF EncGetOutputInfo, Unlock, stream, Owned, Insts
  <1>2. ctx \in [Insts -> Regs] /\ hw.wr \in Addr /\ hw.eos \in BOOLEAN
    BY RegsFields DEF TypeOK
  <1>3. CtxIs(i, ctx[i].rd, hw.wr, hw.eos, ctx[i].disp)
    BY <1>1, <1>2, CtxStream DEF EncGetOutputInfo, CtxIs
  <1> QED
    BY <1>1, <1>3, BackedUp DEF CtxIs

(***************************************************************************)
(* The VPU.                                                                *)
(***************************************************************************)

LEMMA ReadFlow ==
    ASSUME TypeOK, Owned, Placed, VpuRead
    PROVE  Placed' /\ Flows
  <1> SUFFICES ASSUME NEW i \in Decs, cur = i PROVE Placed' /\ Flows
    BY DEF VpuRead
  <1> DEFINE x == (hw.rd + 1) % N
  <1>1. /\ i \in Insts /\ i \notin Encs /\ run = i /\ hw.rd # hw.wr
        /\ hw' = [hw EXCEPT !.rd = x]
        /\ UNCHANGED <<ctx, run, cur, ptr, mem, fed, room, header>>
        /\ header[i] # "closed"
    BY InstAssumption DEF VpuRead, Owned, stream, Insts
  <1>2. Decs \subseteq Insts /\ Encs \subseteq Insts
    BY DEF Insts
  <1>3. First(i) = hw.rd /\ Last(i) = hw.wr
    BY <1>1 DEF First, Last, View, Placed, DecPlaced
  <1>4. First(i) \in Addr /\ Last(i) \in Addr /\ Dist(First(i), Last(i)) \in 0 .. N - 1
    BY <1>1, SpanType
  <1>5. 1 <= Dist(First(i), Last(i))
    <2>1. Dist(First(i), Last(i)) # 0
      BY <1>1, <1>3, <1>4, DistZero
    <2> QED
      BY <1>4, <2>1, SizeAssumption
  <1>6. x \in Addr /\ Dist(x, Last(i)) = Dist(First(i), Last(i)) - 1
    BY <1>3, <1>4, <1>5, DistTake
  <1> HIDE DEF x
  <1>7. hw'.rd = x /\ hw'.wr = hw.wr
    BY <1>1 DEF TypeOK, Regs
  <1>8. First(i)' = x /\ Last(i)' = Last(i)
    <2>1. cur' = cur
      BY <1>1
    <2> QED
      BY <1>1, <1>7, <2>1 DEF First, Last, View
  <1>9. \A j \in Insts : j # i => Same(j)
    BY <1>1 DEF Same, First, Last, View
  <1>10. ASSUME NEW j \in Decs PROVE DecPlaced(j)'
    <2>1. CASE j = i
      <3>1. room[i] + Dist(First(i), Last(i)) < N /\ room[i] \in 0 .. N - 1
        <4>1. DecPlaced(i) /\ room[i] \in 0 .. N - 1
          BY <1>1 DEF Placed, TypeOK
        <4> QED
          BY <1>1, <4>1 DEF DecPlaced
      <3>2. room[i] + Dist(x, Last(i)) < N
        BY <1>4, <1>6, <3>1, SizeAssumption
      <3>3. First(j)' = x /\ Last(j)' = Last(i)
        BY <1>8, <2>1
      <3> QED
        BY <1>1, <1>7, <2>1, <3>2, <3>3 DEF Placed, DecPlaced
    <2>2. CASE j # i
      BY <1>1, <1>2, <1>9, <2>2 DEF Placed, DecPlaced, Same
    <2> QED
      BY <2>1, <2>2
  <1>11. ASSUME NEW j \in Encs PROVE EncPlaced(j)'
    BY <1>1, <1>2, <1>9, <1>11 DEF Placed, EncPlaced, Same
  <1>12. Takes(i, 1)
    <2>1. mem'[i] = mem[i] /\ fed'[i] = fed[i] /\ header'[i] = header[i]
      BY <1>1
    <2> QED
      BY <1>1, <1>3, <1>5, <1>8, <2>1 DEF Takes, x
  <1>13. \A j \in Insts : j # i => Steady(j)
    BY <1>1, <1>9 DEF Steady, Same
  <1>14. 1 \in 1 .. N - 1
    BY SizeAssumption
  <1> QED
    BY <1>1, <1>10, <1>11, <1>12, <1>13, <1>14 DEF Placed, Flows

LEMMA WriteFlow ==
    ASSUME TypeOK, Owned, Placed, VpuWrite
    PROVE  Placed' /\ Flows
  <1> SUFFICES ASSUME NEW i \in Encs, cur = i PROVE Placed' /\ Flows
    BY DEF VpuWrite
  <1> DEFINE x == (hw.wr + 1) % N
  <1>1. /\ i \in Insts /\ i \notin Decs /\ run = i
        /\ Dist(hw.rd, hw.wr) < N - 1
        /\ mem' = [mem EXCEPT ![i][hw.wr] = fed[i]]
        /\ fed' = [fed EXCEPT ![i] = (@ + 1) % Numbers]
        /\ hw' = [hw EXCEPT !.wr = x]
        /\ UNCHANGED <<ctx, run, cur, ptr, room, header>>
        /\ header[i] # "closed"
    BY InstAssumption DEF VpuWrite, Owned, Insts
  <1>2. Decs \subseteq Insts /\ Encs \subseteq Insts
    BY DEF Insts
  <1>3. First(i) = hw.rd /\ Last(i) = hw.wr
    BY <1>1 DEF First, Last, View, Placed, EncPlaced
  <1>4. First(i) \in Addr /\ Last(i) \in Addr /\ Dist(First(i), Last(i)) \in 0 .. N - 1
    BY <1>1, SpanType
  <1>5. Dist(First(i), Last(i)) + 1 < N
    BY <1>1, <1>3, <1>4, SizeAssumption
  <1>6. x \in Addr /\ Dist(First(i), x) = Dist(First(i), Last(i)) + 1
    BY <1>3, <1>4, <1>5, DistPut
  <1>7. x = (Last(i) + 1) % N
    BY <1>3
  <1> HIDE DEF x
  <1>8. hw'.wr = x /\ hw'.rd = hw.rd
    BY <1>1 DEF TypeOK, Regs
  <1>9. First(i)' = First(i) /\ Last(i)' = x
    <2>1. cur' = cur
      BY <1>1
    <2> QED
      BY <1>1, <1>8, <2>1 DEF First, Last, View
  <1>10. \A j \in Insts : j # i => mem'[j] = mem[j] /\ fed'[j] = fed[j]
    BY <1>1 DEF TypeOK
  <1>11. \A j \in Insts : j # i => Same(j)
    BY <1>1, <1>10 DEF Same, First, Last, View
  <1>12. /\ fed'[i] = (fed[i] + 1) % Numbers
         /\ mem'[i] = [mem[i] EXCEPT ![hw.wr] = fed[i]]
         /\ fed[i] \in 0 .. N /\ mem[i] \in [Addr -> 0 .. N]
    BY <1>1 DEF TypeOK, Addr
  <1>13. \A a \in Addr : mem'[i][a] = IF a = Last(i) THEN fed[i] ELSE mem[i][a]
    BY <1>3, <1>12
  <1>14. \A a \in Addr : Dist(First(i), a) < Dist(First(i), Last(i)) => mem'[i][a] = mem[i][a]
    <2> SUFFICES ASSUME NEW a \in Addr, Dist(First(i), a) < Dist(First(i), Last(i))
                 PROVE  mem'[i][a] = mem[i][a]
      OBVIOUS
    <2>1. Dist(First(i), a) # Dist(First(i), Last(i))
      BY <1>4, DistType
    <2>2. a # Last(i)
      BY <2>1
    <2> QED
      BY <1>13, <2>2
  <1>15. \A a \in Addr : Dist(Last(i), a) < 1 => mem'[i][a] = (fed[i] + Dist(Last(i), a)) % Numbers
    <2> SUFFICES ASSUME NEW a \in Addr, Dist(Last(i), a) < 1
                 PROVE  mem'[i][a] = (fed[i] + Dist(Last(i), a)) % Numbers
      OBVIOUS
    <2>1. Dist(Last(i), a) = 0
      BY <1>4, DistType, SizeAssumption
    <2>2. a = Last(i)
      BY <1>4, <2>1, DistZero
    <2>3. fed[i] % Numbers = fed[i] /\ fed[i] + 0 = fed[i]
      BY <1>12, SizeAssumption DEF Numbers
    <2> QED
      BY <1>13, <2>1, <2>2, <2>3
  <1>16. Puts(i, 1)
    <2>1. header'[i] = header[i]
      BY <1>1
    <2> QED
      BY <1>1, <1>5, <1>7, <1>9, <1>12, <1>14, <1>15, <2>1 DEF Puts
  <1>17. \A j \in Insts : j # i => Steady(j)
    BY <1>1, <1>11 DEF Steady, Same
  <1>18. ASSUME NEW j \in Encs PROVE EncPlaced(j)'
    <2>1. CASE j = i
      <3>1. EncPlaced(i) /\ room[i] \in 0 .. N - 1
        BY <1>1 DEF Placed, TypeOK
      <3>2. room[i] <= Dist(First(i), x)
        BY <1>4, <1>6, <3>1 DEF EncPlaced
      <3>3. First(j)' = First(i) /\ Last(j)' = x
        BY <1>9, <2>1
      <3> QED
        BY <1>1, <1>8, <2>1, <3>1, <3>2, <3>3 DEF EncPlaced
    <2>2. CASE j # i
      BY <1>1, <1>2, <1>11, <2>2 DEF Placed, EncPlaced, Same
    <2> QED
      BY <2>1, <2>2
  <1>19. ASSUME NEW j \in Decs PROVE DecPlaced(j)'
    BY <1>1, <1>2, <1>11, <1>19 DEF Placed, DecPlaced, Same
  <1>20. 1 \in 1 .. N - 1
    BY SizeAssumption
  <1> QED
    BY <1>1, <1>16, <1>17, <1>18, <1>19, <1>20 DEF Placed, Flows

LEMMA DoneFlow ==
    ASSUME TypeOK, Placed, VpuDone
    PROVE  Placed' /\ Flows
  <1>1. UNCHANGED <<run, cur, ptr, room, mem, fed, header, ctx>>
    BY DEF VpuDone, stream
  <1>2. hw'.rd = hw.rd /\ hw'.wr = hw.wr
    BY DEF VpuDone, TypeOK, Regs
  <1> QED
    BY <1>1, <1>2, StillFlow

(***************************************************************************)
(* Every step.                                                             *)
(***************************************************************************)

LEMMA NextFlow ==
    ASSUME ~DrainAnytime, TypeOK, Owned, Placed, [Next]_vars
    PROVE  Placed' /\ Flows
  <1>1. ASSUME NEW i \in Decs, Feed(i) PROVE Placed' /\ Flows
    BY <1>1, DecGetFlow, DecEndFlow, DecUpdateFlow DEF Feed
  <1>2. ASSUME NEW i \in Decs, NEW b \in Bufs, DecClrDispFlag(i, b) PROVE Placed' /\ Flows
    BY <1>2, ClearFlow
  <1>3. ASSUME NEW i \in Decs,
               \/ DecGetInitialInfo(i) \/ DecInitialInfoReady(i) \/ DecClose(i) \/ DecOpen(i)
               \/ DecStartOneFrame(i) \/ DecGetOutputInfo(i)
        PROVE  Placed' /\ Flows
    <2>1. i \in Insts
      BY DEF Insts
    <2>2. CASE DecGetInitialInfo(i)
      BY <2>1, <2>2, IssueFlow DEF DecGetInitialInfo
    <2>3. CASE DecStartOneFrame(i)
      BY <2>1, <2>3, IssueFlow DEF DecStartOneFrame
    <2> QED
      BY <1>3, <2>2, <2>3, ReadyFlow, CloseFlow, OpenFlow, OutputFlow
  <1>4. ASSUME NEW i \in Encs,
               \/ EncGetBitstreamBuffer(i) \/ EncUpdateBitstreamBuffer(i)
               \/ EncStartOneFrame(i) \/ EncGetOutputInfo(i)
        PROVE  Placed' /\ Flows
    <2>1. i \in Insts
      BY DEF Insts
    <2>2. CASE EncStartOneFrame(i)
      BY <2>1, <2>2, IssueFlow DEF EncStartOneFrame
    <2> QED
      BY <1>4, <2>2, EncGetFlow, EncUpdateFlow, EncOutputFlow
  <1>5. CASE UNCHANGED vars
    <2>1. UNCHANGED <<run, cur, ptr, room, mem, fed, header, hw, ctx>>
      BY <1>5 DEF vars, regs, vpu, stream
    <2> QED
      BY <2>1, StillFlow
  <1> QED
    BY <1>1, <1>2, <1>3, <1>4, <1>5, ReadFlow, WriteFlow, DoneFlow DEF Next

LEMMA AllPlaced == ~DrainAnytime => (Spec => [](TypeOK /\ Owned /\ Placed))
  <1> SUFFICES ASSUME ~DrainAnytime PROVE Spec => [](TypeOK /\ Owned /\ Placed)
    OBVIOUS
  <1>1. TypeOK /\ Owned /\ Placed /\ [Next]_vars => Placed'
    BY NextFlow
  <1> QED
    BY <1>1, InitPlaced, InitType, NextType, InitOwned, NextOwned, PTL DEF Spec

(***************************************************************************)
(* The unread bytes as a sequence.                                         *)
(***************************************************************************)

(* A function on 1 .. n is a sequence of length n.                         *)
LEMMA BuiltSeq ==
    ASSUME NEW S, NEW n \in Nat, NEW f \in [1 .. n -> S]
    PROVE  f \in Seq(S) /\ Len(f) = n
  OBVIOUS

(* A function without its first n arguments.                               *)
LEMMA BuiltDrop ==
    ASSUME NEW S, NEW m \in Nat, NEW n \in 0 .. m, NEW f \in [1 .. m -> S],
           NEW g \in [1 .. m - n -> S],
           \A k \in 1 .. m - n : g[k] = f[n + k]
    PROVE  g = SubSeq(f, n + 1, Len(f))
  <1>1. f \in Seq(S) /\ Len(f) = m
    BY BuiltSeq
  <1>2. m - n \in Nat /\ n + 1 \in 1 .. m + 1
    OBVIOUS
  <1>3. g \in Seq(S) /\ Len(g) = m - n
    BY <1>2, BuiltSeq
  <1>4. /\ SubSeq(f, n + 1, m) \in Seq(S) /\ Len(SubSeq(f, n + 1, m)) = m - n
        /\ \A k \in 1 .. m - n : SubSeq(f, n + 1, m)[k] = f[n + k]
    OBVIOUS
  <1> QED
    BY <1>1, <1>3, <1>4, SeqEqual

(* Distances from a that are as great belong to the same address, and they *)
(* add up.                                                                 *)
LEMMA DistSame ==
    ASSUME NEW a \in Addr, NEW b \in Addr, NEW c \in Addr, Dist(a, b) = Dist(a, c)
    PROVE  b = c
  BY DistIs, SizeAssumption DEF Addr

LEMMA DistBeyond ==
    ASSUME NEW a \in Addr, NEW b \in Addr, NEW c \in Addr, Dist(a, b) <= Dist(a, c)
    PROVE  Dist(b, c) = Dist(a, c) - Dist(a, b)
  BY DistIs, SizeAssumption DEF Addr

(* What is in a ring buffer.                                              *)
ByteNo == 0 .. N

(* The k-th address from a on.                                             *)
Nth(a, k) == (a + k - 1) % N

LEMMA Kth ==
    ASSUME NEW a \in Addr, NEW k \in 1 .. N
    PROVE  Nth(a, k) \in Addr /\ Dist(a, Nth(a, k)) = k - 1
  <1>1. Dist(a, a) = 0
    BY DistSelf
  <1>2. k - 1 \in Nat /\ Dist(a, a) + (k - 1) < N /\ Dist(a, a) + (k - 1) = k - 1
    BY <1>1, SizeAssumption
  <1>3. (a + (k - 1)) % N \in Addr /\ Dist(a, (a + (k - 1)) % N) = k - 1
    BY <1>2, DistPut
  <1>4. a + (k - 1) = a + k - 1
    BY DEF Addr
  <1> QED
    BY <1>3, <1>4 DEF Nth

Spans(i) ==
    /\ First(i) \in Addr
    /\ Unread(i) \in [1 .. Dist(First(i), Last(i)) -> ByteNo]
    /\ \A k \in 1 .. Dist(First(i), Last(i)) :
           Unread(i)[k] = mem[i][Nth(First(i), k)]
    /\ Dist(First(i), Last(i)) \in 0 .. N - 1

AllSpan == \A i \in Insts : Spans(i)

LEMMA UnreadSpans == TypeOK => AllSpan
  <1> SUFFICES ASSUME TypeOK, NEW i \in Insts PROVE Spans(i)
    BY DEF AllSpan
  <1>1. First(i) \in Addr /\ Dist(First(i), Last(i)) \in 0 .. N - 1
    BY SpanType
  <1>2. mem[i] \in [Addr -> ByteNo]
    BY DEF TypeOK, Addr, ByteNo
  <1>3. \A k \in 1 .. Dist(First(i), Last(i)) : Nth(First(i), k) \in Addr
    BY <1>1, Kth, SizeAssumption
  <1> QED
    BY <1>1, <1>2, <1>3 DEF Unread, Spans, Nth

LEMMA PutSeq ==
    ASSUME TypeOK, TypeOK', NEW i \in Insts, NEW n \in 1 .. N - 1, Puts(i, n)
    PROVE  Unread(i)' = Unread(i) \o [k \in 1 .. n |-> (fed[i] + k - 1) % Numbers]
  <1> SUFFICES ASSUME NEW m \in 0 .. N - 1, m = Dist(First(i), Last(i)) PROVE
               Unread(i)' = Unread(i) \o [k \in 1 .. n |-> (fed[i] + k - 1) % Numbers]
    BY SpanType
  <1> DEFINE g == [k \in 1 .. n |-> (fed[i] + k - 1) % Numbers]
  <1>1. First(i) \in Addr /\ Last(i) \in Addr /\ m \in 0 .. N - 1 /\ n \in Nat
    BY SpanType
  <1>2. m + n < N /\ First(i)' = First(i) /\ Last(i)' = (Last(i) + n) % N
    BY DEF Puts
  <1>3. Dist(First(i), Last(i))' = m + n
    <2>1. Dist(First(i), (Last(i) + n) % N) = m + n
      BY <1>1, <1>2, DistPut
    <2>2. Dist(First(i), Last(i))' = Dist(First(i)', Last(i)')
      BY DEF Dist
    <2> QED
      BY <1>2, <2>1, <2>2
  <1>4. /\ Unread(i) \in [1 .. m -> ByteNo]
        /\ \A k \in 1 .. m : Unread(i)[k] = mem[i][Nth(First(i), k)]
    BY UnreadSpans DEF AllSpan, Spans
  <1>5. /\ Unread(i)' \in [1 .. m + n -> ByteNo]
        /\ \A k \in 1 .. m + n : Unread(i)'[k] = mem'[i][Nth(First(i), k)]
    <2>1. AllSpan'
      BY UnreadSpans, PTL
    <2>2. /\ Unread(i)' \in [1 .. Dist(First(i), Last(i))' -> ByteNo]
          /\ \A k \in 1 .. Dist(First(i), Last(i))' :
                 Unread(i)'[k] = mem'[i][Nth(First(i)', k)]
      BY <2>1 DEF AllSpan, Spans
    <2> QED
      BY <1>2, <1>3, <2>2
  <1>6. g \in [1 .. n -> ByteNo]
    <2>1. fed[i] \in 0 .. N
      BY DEF TypeOK
    <2>2. \A k \in 1 .. n : fed[i] + k - 1 \in Nat
      BY <1>1, <2>1, SizeAssumption
    <2> QED
      BY <2>2, NumbersMod DEF ByteNo
  <1>7. \A k \in 1 .. m + n : Nth(First(i), k) \in Addr /\ Dist(First(i), Nth(First(i), k)) = k - 1
    BY <1>1, <1>2, Kth, SizeAssumption
  <1>8. ASSUME NEW k \in 1 .. m PROVE Unread(i)'[k] = Unread(i)[k]
    <2>1. k \in 1 .. m + n /\ k - 1 < m
      BY <1>1
    <2>2. mem'[i][Nth(First(i), k)] = mem[i][Nth(First(i), k)]
      BY <1>7, <2>1 DEF Puts
    <2> QED
      BY <1>4, <1>5, <2>1, <2>2
  <1>9. ASSUME NEW k \in 1 .. n PROVE Unread(i)'[m + k] = g[k]
    <2>1. m + k \in 1 .. m + n /\ m <= m + k - 1 /\ m + k - 1 - m = k - 1 /\ k - 1 < n
      BY <1>1, SizeAssumption
    <2>2. Nth(First(i), m + k) \in Addr /\ Dist(First(i), Nth(First(i), m + k)) = m + k - 1
      BY <1>1, <1>7, <2>1
    <2>3. Dist(Last(i), Nth(First(i), m + k)) = k - 1
      <3>1. Dist(Last(i), Nth(First(i), m + k)) = Dist(First(i), Nth(First(i), m + k)) - m
        <4>1. Dist(First(i), Last(i)) = m
          OBVIOUS
        <4>2. Dist(First(i), Last(i)) <= Dist(First(i), Nth(First(i), m + k))
          BY <2>1, <2>2, <4>1
        <4> QED
          BY <1>1, <2>2, <4>1, <4>2, DistBeyond
      <3> QED
        BY <1>1, <2>1, <2>2, <3>1
    <2>4. mem'[i][Nth(First(i), m + k)] = (fed[i] + (k - 1)) % Numbers
      BY <2>1, <2>2, <2>3 DEF Puts
    <2>5. fed[i] + (k - 1) = fed[i] + k - 1
      BY <1>1 DEF TypeOK
    <2> QED
      BY <1>5, <2>1, <2>4, <2>5
  <1>10. m \in Nat /\ n \in Nat /\ Unread(i) \in [1 .. m -> ByteNo] /\ g \in [1 .. n -> ByteNo]
    BY <1>1, <1>4, <1>6
  <1> HIDE DEF g
  <1> DEFINE u == Unread(i)'
  <1>11. u \in [1 .. m + n -> ByteNo] /\ (\A k \in 1 .. m : u[k] = Unread(i)[k])
         /\ \A k \in 1 .. n : u[m + k] = g[k]
    BY <1>5, <1>8, <1>9
  <1> HIDE DEF u
  <1>12. u = Unread(i) \o g
    <2> DEFINE v == Unread(i) \o g
    <2>1. /\ v \in Seq(ByteNo) /\ Len(v) = m + n
          /\ \A k \in 1 .. m + n : v[k] = IF k <= m THEN Unread(i)[k] ELSE g[k - m]
      <3>1. Unread(i) \in Seq(ByteNo) /\ Len(Unread(i)) = m
        BY <1>10, BuiltSeq
      <3>2. g \in Seq(ByteNo) /\ Len(g) = n
        BY <1>10, BuiltSeq
      <3>3. /\ v \in Seq(ByteNo) /\ Len(v) = Len(Unread(i)) + Len(g)
            /\ \A k \in 1 .. Len(Unread(i)) + Len(g) :
                   v[k] = IF k <= Len(Unread(i)) THEN Unread(i)[k] ELSE g[k - Len(Unread(i))]
        BY <3>1, <3>2, ConcatProperties
      <3> HIDE DEF v
      <3> QED
        BY <3>1, <3>2, <3>3
    <2> HIDE DEF v
    <2>2. u \in Seq(ByteNo) /\ Len(u) = m + n
      <3>1. m + n \in Nat
        BY <1>10
      <3> QED
        BY <1>11, <3>1, BuiltSeq
    <2>3. ASSUME NEW k \in 1 .. m + n PROVE u[k] = v[k]
      <3>1. CASE k \in 1 .. m
        BY <1>10, <1>11, <2>1, <3>1
      <3>2. CASE k \notin 1 .. m
        <4>1. k - m \in 1 .. n /\ m + (k - m) = k
          BY <1>10, <3>2
        <4>2. u[m + (k - m)] = g[k - m] /\ v[k] = g[k - m]
          BY <1>10, <1>11, <2>1, <3>2, <4>1
        <4> QED
          BY <4>1, <4>2
      <3> QED
        BY <3>1, <3>2
    <2>4. u = v
      BY <2>1, <2>2, <2>3, SeqEqual
    <2> QED
      BY <2>4 DEF v
  <1> QED
    BY <1>12 DEF u, g

LEMMA TakeSeq ==
    ASSUME TypeOK, TypeOK', NEW i \in Insts, NEW n \in 1 .. N - 1, Takes(i, n)
    PROVE  Unread(i)' = SubSeq(Unread(i), n + 1, Len(Unread(i)))
  <1> SUFFICES ASSUME NEW m \in 0 .. N - 1, m = Dist(First(i), Last(i))
               PROVE  Unread(i)' = SubSeq(Unread(i), n + 1, Len(Unread(i)))
    BY SpanType
  <1> DEFINE r == (First(i) + n) % N
  <1>1. First(i) \in Addr /\ Last(i) \in Addr /\ m \in 0 .. N - 1 /\ n \in Nat
    BY SpanType
  <1>2. n <= m /\ First(i)' = r /\ Last(i)' = Last(i) /\ mem'[i] = mem[i]
    BY DEF Takes
  <1>3. Dist(First(i), Last(i))' = m - n /\ r \in Addr
    <2>1. r \in Addr /\ Dist(r, Last(i)) = m - n
      BY <1>1, <1>2, DistTake
    <2>2. Dist(First(i), Last(i))' = Dist(First(i)', Last(i)')
      BY DEF Dist
    <2> QED
      BY <1>2, <2>1, <2>2
  <1>4. /\ Unread(i) \in [1 .. m -> ByteNo]
        /\ \A k \in 1 .. m : Unread(i)[k] = mem[i][Nth(First(i), k)]
    BY UnreadSpans DEF AllSpan, Spans
  <1>5. /\ Unread(i)' \in [1 .. m - n -> ByteNo]
        /\ \A k \in 1 .. m - n : Unread(i)'[k] = mem[i][Nth(r, k)]
    <2>1. AllSpan'
      BY UnreadSpans, PTL
    <2>2. /\ Unread(i)' \in [1 .. Dist(First(i), Last(i))' -> ByteNo]
          /\ \A k \in 1 .. Dist(First(i), Last(i))' :
                 Unread(i)'[k] = mem'[i][Nth(First(i)', k)]
      BY <2>1 DEF AllSpan, Spans
    <2> QED
      BY <1>2, <1>3, <2>2
  <1>6. Dist(First(i), r) = n
    <2>1. Dist(First(i), First(i)) = 0
      BY <1>1, DistSelf
    <2> QED
      BY <1>1, <1>2, <2>1, DistPut, SizeAssumption
  <1>7. \A k \in 1 .. m : Nth(First(i), k) \in Addr /\ Dist(First(i), Nth(First(i), k)) = k - 1
    BY <1>1, Kth, SizeAssumption
  <1>8. \A k \in 1 .. m : Nth(r, k) \in Addr /\ Dist(r, Nth(r, k)) = k - 1
    BY <1>1, <1>3, Kth, SizeAssumption
  <1>9. ASSUME NEW k \in 1 .. m - n PROVE Nth(r, k) = Nth(First(i), n + k)
    <2>1. k \in 1 .. m /\ n + k \in 1 .. m /\ k - 1 \in Nat /\ n + (k - 1) < N
      BY <1>1, <1>2, SizeAssumption
    <2>2. Dist(First(i), (r + (k - 1)) % N) = n + (k - 1)
      BY <1>1, <1>3, <1>6, <2>1, DistPut
    <2>3. Nth(r, k) = (r + (k - 1)) % N /\ n + (k - 1) = n + k - 1
      BY <1>1, <1>3 DEF Addr, Nth
    <2>4. /\ Dist(First(i), Nth(First(i), n + k)) = n + k - 1
          /\ Nth(First(i), n + k) \in Addr /\ Nth(r, k) \in Addr
      BY <1>7, <1>8, <2>1
    <2> QED
      BY <1>1, <2>2, <2>3, <2>4, DistSame
  <1> HIDE DEF r
  <1>10. \A k \in 1 .. m - n : Unread(i)'[k] = Unread(i)[n + k]
    BY <1>1, <1>2, <1>4, <1>5, <1>9
  <1>11. m \in Nat /\ n \in 0 .. m /\ Unread(i) \in [1 .. m -> ByteNo]
    BY <1>1, <1>2, <1>4
  <1> DEFINE u == Unread(i)'
  <1>12. u \in [1 .. m - n -> ByteNo] /\ \A k \in 1 .. m - n : u[k] = Unread(i)[n + k]
    BY <1>5, <1>10
  <1> HIDE DEF u
  <1>13. u = SubSeq(Unread(i), n + 1, Len(Unread(i)))
    BY <1>11, <1>12, BuiltDrop
  <1> QED
    BY <1>13 DEF u

(***************************************************************************)
(* The ring buffers as FIFOs.                                              *)
(***************************************************************************)

Bytes(i) == IF header[i] = "closed" THEN << >> ELSE Unread(i)
Queues == [i \in Insts |-> Bytes(i)]

LEMMA QueuesFact ==
    /\ \A i \in Insts : Queues[i] = Bytes(i) /\ Queues'[i] = Bytes(i)'
    /\ DOMAIN Queues = Insts /\ DOMAIN Queues' = Insts
    /\ Queues = [i \in Insts |-> Queues[i]] /\ Queues' = [i \in Insts |-> Queues'[i]]
  BY DEF Queues

(* The queue of one instance becomes b, and the others stay.               *)
LEMMA QueueChanges ==
    ASSUME NEW i \in Insts, NEW b, Bytes(i)' = b,
           \A j \in Insts : j # i => Bytes(j)' = Bytes(j)
    PROVE  Queues' = [Queues EXCEPT ![i] = b]
  <1>1. \A j \in Insts : Queues'[j] = IF j = i THEN b ELSE Queues[j]
    BY QueuesFact
  <1> QED
    BY <1>1, QueuesFact

LEMMA SteadyBytes ==
    ASSUME NEW i \in Insts, Steady(i)
    PROVE  Bytes(i)' = Bytes(i) /\ fed'[i] = fed[i]
  <1>1. CASE header[i] # "closed" /\ header'[i] # "closed" /\ Same(i)
    <2>1. First(i)' = First(i) /\ Last(i)' = Last(i) /\ mem'[i] = mem[i] /\ fed'[i] = fed[i]
      BY <1>1 DEF Same
    <2>2. Dist(First(i), Last(i))' = Dist(First(i), Last(i))
      BY <2>1 DEF Dist
    <2>3. Unread(i)' = Unread(i)
      BY <2>1, <2>2 DEF Unread
    <2> QED
      BY <1>1, <2>1, <2>3 DEF Bytes
  <1>2. CASE header[i] = "closed" /\ header'[i] = "closed" /\ fed'[i] = fed[i]
    BY <1>2 DEF Bytes
  <1> QED
    BY <1>1, <1>2 DEF Steady

LEMMA FedFact ==
    ASSUME TypeOK, TypeOK', NEW i \in Insts, NEW f, fed'[i] = f,
           \A j \in Insts : j # i => fed'[j] = fed[j]
    PROVE  fed' = [fed EXCEPT ![i] = f]
  BY DEF TypeOK

LEMMA PutStep ==
    ASSUME TypeOK, TypeOK', NEW i \in Insts, NEW n \in 1 .. N - 1, Puts(i, n),
           \A j \in Insts : j # i => Steady(j)
    PROVE  Fifo!Put(i, n)
  <1>1. \A j \in Insts : j # i => Bytes(j)' = Bytes(j) /\ fed'[j] = fed[j]
    BY SteadyBytes
  <1>2. Bytes(i) = Unread(i) /\ Bytes(i)' = Unread(i)'
    BY DEF Puts, Bytes
  <1>3. Queues' = [Queues EXCEPT ![i] =
                       Queues[i] \o [k \in 1 .. n |-> (fed[i] + k - 1) % Numbers]]
    <2>1. Bytes(i)' = Queues[i] \o [k \in 1 .. n |-> (fed[i] + k - 1) % Numbers]
      BY <1>2, PutSeq, QueuesFact
    <2> QED
      BY <1>1, <2>1, QueueChanges
  <1>4. fed' = [fed EXCEPT ![i] = (fed[i] + n) % Numbers]
    BY <1>1, FedFact DEF Puts
  <1>5. Len(Queues[i]) + n <= N - 1
    <2>1. Queues[i] = Unread(i)
      BY <1>2, QueuesFact
    <2>2. /\ Unread(i) \in [1 .. Dist(First(i), Last(i)) -> ByteNo]
          /\ Dist(First(i), Last(i)) \in 0 .. N - 1
      BY UnreadSpans DEF AllSpan, Spans, ByteNo
    <2>3. Dist(First(i), Last(i)) \in Nat
      BY <2>2
    <2>4. Len(Queues[i]) = Dist(First(i), Last(i))
      BY <2>1, <2>2, <2>3, BuiltSeq
    <2>5. Dist(First(i), Last(i)) + n < N
      BY DEF Puts
    <2> QED
      BY <2>3, <2>4, <2>5, SizeAssumption
  <1> QED
    BY <1>3, <1>4, <1>5 DEF Fifo!Put, Queues, Bytes

LEMMA TakeStep ==
    ASSUME TypeOK, TypeOK', NEW i \in Insts, NEW n \in 1 .. N - 1, Takes(i, n),
           \A j \in Insts : j # i => Steady(j)
    PROVE  Fifo!Take(i, n)
  <1>1. \A j \in Insts : j # i => Bytes(j)' = Bytes(j) /\ fed'[j] = fed[j]
    BY SteadyBytes
  <1>2. Bytes(i) = Unread(i) /\ Bytes(i)' = Unread(i)'
    BY DEF Takes, Bytes
  <1>3. Queues' = [Queues EXCEPT ![i] = SubSeq(Queues[i], n + 1, Len(Queues[i]))]
    <2>1. Bytes(i)' = SubSeq(Queues[i], n + 1, Len(Queues[i]))
      BY <1>2, TakeSeq, QueuesFact
    <2> QED
      BY <1>1, <2>1, QueueChanges
  <1>4. fed' = fed
    BY <1>1 DEF Takes, TypeOK
  <1>5. n <= Len(Queues[i])
    <2>1. Queues[i] = Unread(i)
      BY <1>2, QueuesFact
    <2>2. /\ Unread(i) \in [1 .. Dist(First(i), Last(i)) -> ByteNo]
          /\ Dist(First(i), Last(i)) \in 0 .. N - 1
      BY UnreadSpans DEF AllSpan, Spans, ByteNo
    <2>3. Dist(First(i), Last(i)) \in Nat
      BY <2>2
    <2>4. Len(Queues[i]) = Dist(First(i), Last(i))
      BY <2>1, <2>2, <2>3, BuiltSeq
    <2> QED
      BY <2>4 DEF Takes
  <1> QED
    BY <1>3, <1>4, <1>5 DEF Fifo!Take, Queues, Bytes

LEMMA ClearStep ==
    ASSUME TypeOK, TypeOK', NEW i \in Insts, Empties(i),
           \A j \in Insts : j # i => Steady(j)
    PROVE  Fifo!Clear(i)
  <1>1. \A j \in Insts : j # i => Bytes(j)' = Bytes(j) /\ fed'[j] = fed[j]
    BY SteadyBytes
  <1>2. Bytes(i)' = << >>
    <2>1. CASE header'[i] = "closed"
      BY <2>1 DEF Bytes
    <2>2. CASE First(i)' = Last(i)'
      <3>1. First(i)' \in Addr
        <4>1. AllSpan'
          BY UnreadSpans, PTL
        <4> QED
          BY <4>1 DEF AllSpan, Spans
      <3>2. Dist(First(i), Last(i))' = 0
        BY <2>2, <3>1, DistSelf DEF Dist
      <3>3. Unread(i)' = << >>
        BY <3>2 DEF Unread
      <3> QED
        BY <3>3 DEF Bytes
    <2> QED
      BY <2>1, <2>2 DEF Empties
  <1>3. Queues' = [Queues EXCEPT ![i] = << >>]
    BY <1>1, <1>2, QueueChanges
  <1>4. fed' = fed
    BY <1>1 DEF Empties, TypeOK
  <1> QED
    BY <1>3, <1>4 DEF Fifo!Clear, Queues, Bytes

LEMMA FlowsFifo ==
    ASSUME TypeOK, TypeOK', Flows
    PROVE  [Fifo!Next]_<<fed, Queues>>
  <1>1. CASE \A j \in Insts : Steady(j)
    <2>1. \A j \in Insts : Queues'[j] = Queues[j] /\ fed'[j] = fed[j]
      BY <1>1, SteadyBytes, QueuesFact
    <2>2. Queues' = Queues
      BY <2>1, QueuesFact
    <2>3. fed' = fed
      BY <2>1 DEF TypeOK
    <2> QED
      BY <2>2, <2>3
  <1>2. ASSUME NEW i \in Insts, \A j \in Insts : j # i => Steady(j),
               (\E n \in 1 .. N - 1 : Puts(i, n) \/ Takes(i, n)) \/ Empties(i)
        PROVE  Fifo!Next
    <2>1. ASSUME NEW n \in 1 .. N - 1, Puts(i, n) \/ Takes(i, n)
          PROVE  Fifo!Put(i, n) \/ Fifo!Take(i, n)
      BY <1>2, <2>1, PutStep, TakeStep
    <2>2. CASE Empties(i)
      BY <1>2, <2>2, ClearStep DEF Fifo!Next
    <2> QED
      BY <1>2, <2>1, <2>2 DEF Fifo!Next
  <1> QED
    BY <1>1, <1>2 DEF Flows

LEMMA InitFifo == Init => Fifo!Init
  <1> SUFFICES ASSUME Init PROVE Fifo!Init
    OBVIOUS
  <1>1. TypeOK
    BY InitType
  <1>2. fed \in [Insts -> 0 .. Numbers - 1]
    BY <1>1, SizeAssumption DEF TypeOK, Numbers
  <1>3. ASSUME NEW i \in Insts PROVE Unread(i) = << >>
    <2>1. First(i) = 0 /\ Last(i) = 0
      BY <1>3, StartRegs DEF Init, First, Last, View
    <2>2. Dist(First(i), Last(i)) = 0
      BY <2>1, DistSelf, SizeAssumption DEF Addr
    <2> QED
      BY <2>2 DEF Unread
  <1> QED
    BY <1>2, <1>3 DEF Fifo!Init

(* Each ring buffer is a bounded queue, if an encoder's client reads       *)
(* between its frames only: no byte is overwritten before it was read,     *)
(* read twice or skipped, wherever the pointers are at the time            *)
(* (DecUpdateBitstreamBuffer, BitIssueCommandEx, DecGetOutputInfo).        *)
THEOREM StreamsAreFifos == ~DrainAnytime => (Spec => IsFifo)
  <1> SUFFICES ASSUME ~DrainAnytime PROVE Spec => IsFifo
    OBVIOUS
  <1> DEFINE q == [i \in Insts |-> IF header[i] = "closed" THEN << >> ELSE Unread(i)]
  <1>1. TypeOK /\ TypeOK' /\ Owned /\ Placed /\ [Next]_vars => [Fifo!Next]_<<fed, q>>
    <2>1. TypeOK /\ TypeOK' /\ Owned /\ Placed /\ [Next]_vars => [Fifo!Next]_<<fed, Queues>>
      BY NextFlow, FlowsFifo
    <2> QED
      BY <2>1 DEF Queues, Bytes
  <1> QED
    BY <1>1, AllPlaced, InitFifo, PTL DEF Spec, IsFifo, Fifo!Spec

=============================================================================
