------------------------------ MODULE VpuStream -----------------------------
(***************************************************************************)
(* The bit streams of the vpu library: the ring buffer of each codec       *)
(* instance, its read and write pointers, end-of-stream flag and display   *)
(* flags, which live in the registers of the one VPU while the instance    *)
(* is the last that was given a command (RUN_INDEX), and in its ctxRegs    *)
(* otherwise.  A decoder's client writes and the VPU reads; an encoder's   *)
(* client reads and the VPU writes.  The API mutex is that of VpuLib: here *)
(* cur is the instance whose call or frame holds it, and each access under *)
(* the register mutex is one step.                                         *)
(***************************************************************************)
EXTENDS Naturals, Sequences

CONSTANTS
    Decs, Encs,  \* decoder and encoder instances
    NoInst,      \* no instance
    N,           \* bytes in a ring buffer
    Bufs, NoBuf, \* a decoder's frame buffers
    ClearAnytime,\* a display thread releases buffers during frames too
    DrainAnytime \* an encoder's client reads during frames too

Insts == Decs \union Encs

ASSUME InstAssumption == Decs \intersect Encs = {} /\ NoInst \notin Insts
ASSUME SizeAssumption == N \in Nat /\ N > 1
ASSUME BufAssumption == NoBuf \notin Bufs
ASSUME ClientAssumption == ClearAnytime \in BOOLEAN /\ DrainAnytime \in BOOLEAN

VARIABLES
    ptr,   \* streamWrPtr of a decoder, streamRdPtr of an encoder
    ctx,   \* ctxRegs
    hw,    \* BIT_RD_PTR, BIT_WR_PTR, BIT_BIT_STREAM_PARAM, BIT_FRM_DIS_FLG
    run,   \* BIT_RUN_INDEX
    busy,  \* BIT_BUSY_FLAG
    cur,   \* the instance that holds the API mutex
    call,  \* ... for its header or for a frame
    took,  \* the VPU has moved a byte for this command
    shown, \* the buffer the VPU gives out with this frame
    header,\* initialInfoObtained; "closed" without an instance
    room,  \* the size the client got from GetBitstreamBuffer
    mem,   \* the numbers of the bytes in the ring buffer
    fed,   \* the number of the next byte
    told,  \* the client has said that the stream ends
    held   \* the frame buffers on display

regs == <<ctx, hw, run>>
vpu == <<busy, cur, call, took, shown>>
stream == <<ptr, room, mem, fed, told>>
vars == <<regs, vpu, stream, header, held>>

Regs == [rd: 0 .. N - 1, wr: 0 .. N - 1, eos: BOOLEAN, disp: SUBSET Bufs]
Start == [rd |-> 0, wr |-> 0, eos |-> FALSE, disp |-> {}]
Numbers == N + 1

TypeOK ==
    /\ ptr \in [Insts -> 0 .. N - 1]
    /\ ctx \in [Insts -> Regs]
    /\ hw \in Regs
    /\ run \in Insts
    /\ busy \in BOOLEAN
    /\ cur \in Insts \union {NoInst}
    /\ call \in {"none", "header", "frame"}
    /\ took \in BOOLEAN
    /\ shown \in Bufs \union {NoBuf}
    /\ header \in [Insts -> {"no", "yes", "closed"}]
    /\ room \in [Insts -> 0 .. N - 1]
    /\ mem \in [Insts -> [0 .. N - 1 -> 0 .. N]]
    /\ fed \in [Insts -> 0 .. N]
    /\ told \in [Insts -> BOOLEAN]
    /\ held \in [Insts -> SUBSET Bufs]

(* Every instance has been opened, one of them as RUN_INDEX.               *)
Init ==
    /\ ptr = [i \in Insts |-> 0]
    /\ ctx = [i \in Insts |-> Start] /\ hw = Start /\ run \in Insts
    /\ busy = FALSE /\ cur = NoInst /\ call = "none" /\ took = FALSE /\ shown = NoBuf
    /\ header = [i \in Insts |-> "no"]
    /\ room = [i \in Insts |-> 0]
    /\ mem = [i \in Insts |-> [a \in 0 .. N - 1 |-> 0]]
    /\ fed = [i \in Insts |-> 0]
    /\ told = [i \in Insts |-> FALSE]
    /\ held = [i \in Insts |-> {}]

-----------------------------------------------------------------------------
(* Pointers                                                                *)

(* Bytes from address a up to address b of a ring.                         *)
Dist(a, b) == (b + N - a) % N

(* The registers of an instance: the VPU's if it is RUN_INDEX.             *)
View(i) == IF run = i THEN hw ELSE ctx[i]

(* Mutant: one byte more, a full buffer looks empty.                       *)
WholeRoom(i) == N - Dist(View(i).rd, ptr[i])

(* Room for a decoder's client, one byte short of the buffer.              *)
DecRoom(i) == N - 1 - Dist(View(i).rd, ptr[i])

(* Bytes an encoder's client can read.                                     *)
EncRoom(i) == Dist(ptr[i], View(i).wr)

(* A client calls when its own thread is in no call: between calls, or     *)
(* polling vpu_IsBusy during its frame.                                    *)
Free(i) == header[i] # "closed" /\ (cur = i => call = "frame")

-----------------------------------------------------------------------------
(* The client of a decoder                                                 *)

DecGetBitstreamBuffer(i) ==
    /\ Free(i) /\ room[i] = 0 /\ ~told[i] /\ DecRoom(i) > 0
    /\ room' = [room EXCEPT ![i] = DecRoom(i)]
    /\ UNCHANGED <<regs, vpu, ptr, mem, fed, told, header, held>>

(* Numbers of the n next bytes, in the buffer from the write pointer on.   *)
Filled(i, n) ==
    [a \in 0 .. N - 1 |->
        IF Dist(ptr[i], a) < n THEN (fed[i] + Dist(ptr[i], a)) % Numbers ELSE mem[i][a]]

(* Mutant: only ctxRegs is told of the end, until the next command.        *)
SetContext(i, w, e) ==
    /\ ctx' = [ctx EXCEPT ![i].wr = w, ![i].eos = e]
    /\ hw' = IF run = i THEN [hw EXCEPT !.wr = w] ELSE hw

(* Write pointer and end flag go to ctxRegs, and to the VPU if the         *)
(* instance is RUN_INDEX.                                                  *)
SetStream(i, w, e) ==
    /\ ctx' = [ctx EXCEPT ![i].wr = w, ![i].eos = e]
    /\ hw' = IF run = i THEN [hw EXCEPT !.wr = w, !.eos = e] ELSE hw

(* vpu_DecUpdateBitstreamBuffer of n bytes, no more than there was room    *)
(* for.                                                                    *)
DecUpdateBitstreamBuffer(i, n) ==
    /\ Free(i) /\ n <= room[i]
    /\ LET w == (ptr[i] + n) % N IN
          /\ ptr' = [ptr EXCEPT ![i] = w]
          /\ SetStream(i, w, FALSE)
    /\ mem' = [mem EXCEPT ![i] = Filled(i, n)]
    /\ fed' = [fed EXCEPT ![i] = (@ + n) % Numbers]
    /\ room' = [room EXCEPT ![i] = 0]
    /\ UNCHANGED <<run, vpu, told, header, held>>

(* ... and of no byte: the stream ends here.                               *)
DecEndOfStream(i) ==
    /\ Free(i) /\ room[i] > 0
    /\ SetStream(i, ptr[i], TRUE)
    /\ told' = [told EXCEPT ![i] = TRUE]
    /\ room' = [room EXCEPT ![i] = 0]
    /\ UNCHANGED <<run, vpu, ptr, mem, fed, header, held>>

(* vpu_DecClrDispFlag, without any lock: the client, or its display        *)
(* thread, has done with a frame buffer.                                   *)
DecClrDispFlag(i, b) ==
    /\ b \in held[i]
    /\ ClearAnytime \/ cur # i
    /\ ctx' = [ctx EXCEPT ![i].disp = @ \ {b}]
    /\ held' = [held EXCEPT ![i] = @ \ {b}]
    /\ UNCHANGED <<hw, run, vpu, stream, header>>

-----------------------------------------------------------------------------
(* The client of an encoder                                                *)

EncGetBitstreamBuffer(i) ==
    /\ Free(i) /\ room[i] = 0 /\ EncRoom(i) > 0
    /\ DrainAnytime \/ cur # i
    /\ room' = [room EXCEPT ![i] = EncRoom(i)]
    /\ UNCHANGED <<regs, vpu, ptr, mem, fed, told, header, held>>

(* vpu_EncUpdateBitstreamBuffer after all of it has been read: ctxRegs     *)
(* gets the new read pointer, the VPU the write pointer.                   *)
EncUpdateBitstreamBuffer(i) ==
    /\ Free(i) /\ room[i] > 0
    /\ DrainAnytime \/ cur # i
    /\ LET r == (ptr[i] + room[i]) % N IN
          /\ ptr' = [ptr EXCEPT ![i] = r]
          /\ hw' = IF run = i THEN [hw EXCEPT !.rd = hw.wr] ELSE hw
          /\ ctx' = [ctx EXCEPT ![i].rd = r]
    /\ room' = [room EXCEPT ![i] = 0]
    /\ UNCHANGED <<run, vpu, mem, fed, told, header, held>>

-----------------------------------------------------------------------------
(* Calls and frames, under the API mutex                                   *)

(* BitIssueCommandEx: the context goes to the VPU, which starts.           *)
BitIssueCommandEx(i, c) ==
    /\ cur = NoInst
    /\ hw' = ctx[i] /\ run' = i
    /\ busy' = TRUE /\ took' = FALSE /\ shown' = NoBuf
    /\ cur' = i /\ call' = c
    /\ UNCHANGED <<ctx, stream, header, held>>

(* DecBitstreamBufEmpty: the call is refused with an empty buffer.         *)
DecBitstreamBufEmpty(i) == View(i).rd = View(i).wr

DecGetInitialInfo(i) ==
    /\ header[i] = "no" /\ ~DecBitstreamBufEmpty(i)
    /\ BitIssueCommandEx(i, "header")

(* Mutant: the display flags are not backed up.                            *)
BackupPointers(i) == ctx' = [ctx EXCEPT ![i].rd = hw.rd, ![i].eos = hw.eos]

(* vpu_DecGetOutputInfo's "Backup context regs".                           *)
Backup(i) == ctx' = [ctx EXCEPT ![i].rd = hw.rd, ![i].eos = hw.eos, ![i].disp = hw.disp]

Unlock(i) ==
    /\ cur = i /\ ~busy
    /\ cur' = NoInst /\ call' = "none" /\ took' = FALSE /\ shown' = NoBuf
    /\ UNCHANGED <<hw, run, busy, stream>>

(* The header was found, or not: then nothing is backed up, and the client *)
(* closes the instance.                                                    *)
DecInitialInfoReady(i) ==
    /\ Unlock(i) /\ call = "header"
    /\ \/ /\ took
          /\ header' = [header EXCEPT ![i] = "yes"]
          /\ ctx' = [ctx EXCEPT ![i].rd = hw.rd, ![i].eos = hw.eos]
       \/ /\ header' = [header EXCEPT ![i] = "closed"]
          /\ UNCHANGED ctx
    /\ UNCHANGED held

(* vpu_DecClose gives SEQ_END, and leaves the context in the VPU.          *)
DecClose(i) ==
    /\ header[i] = "yes" /\ cur = NoInst
    /\ hw' = ctx[i] /\ run' = i
    /\ header' = [header EXCEPT ![i] = "closed"]
    /\ held' = [held EXCEPT ![i] = {}]
    /\ UNCHANGED <<ctx, vpu, stream>>

(* vpu_DecOpen takes the same instance for another stream: it sets the     *)
(* pointers of ctxRegs, and the VPU's if the instance is RUN_INDEX.        *)
DecOpen(i) ==
    /\ header[i] = "closed" /\ cur = NoInst
    /\ ptr' = [ptr EXCEPT ![i] = 0]
    /\ ctx' = [ctx EXCEPT ![i] = Start]
    /\ hw' = IF run = i THEN [Start EXCEPT !.eos = hw.eos] ELSE hw
    /\ header' = [header EXCEPT ![i] = "no"]
    /\ room' = [room EXCEPT ![i] = 0]
    /\ told' = [told EXCEPT ![i] = FALSE]
    /\ UNCHANGED <<run, vpu, mem, fed, held>>

DecStartOneFrame(i) == header[i] = "yes" /\ BitIssueCommandEx(i, "frame")

EncStartOneFrame(i) == BitIssueCommandEx(i, "frame")

DecGetOutputInfo(i) ==
    /\ Unlock(i) /\ call = "frame"
    /\ Backup(i)
    /\ held' = [held EXCEPT ![i] = @ \union ({shown} \ {NoBuf})]
    /\ UNCHANGED header

EncGetOutputInfo(i) ==
    /\ Unlock(i)
    /\ ctx' = [ctx EXCEPT ![i].wr = hw.wr, ![i].eos = hw.eos]
    /\ UNCHANGED <<header, held>>

-----------------------------------------------------------------------------
(* The VPU                                                                 *)

(* A decoder's command takes a byte.                                       *)
VpuRead ==
    /\ busy /\ cur \in Decs /\ hw.rd # hw.wr
    /\ hw' = [hw EXCEPT !.rd = (@ + 1) % N]
    /\ took' = TRUE
    /\ UNCHANGED <<ctx, run, busy, cur, call, shown, stream, header, held>>

(* An encoder's command makes one.                                         *)
VpuWrite ==
    /\ busy /\ cur \in Encs /\ Dist(hw.rd, hw.wr) < N - 1
    /\ mem' = [mem EXCEPT ![cur][hw.wr] = fed[cur]]
    /\ fed' = [fed EXCEPT ![cur] = (@ + 1) % Numbers]
    /\ hw' = [hw EXCEPT !.wr = (@ + 1) % N]
    /\ took' = TRUE
    /\ UNCHANGED <<ctx, run, busy, cur, call, shown, ptr, room, told, header, held>>

(* It has what it needs: a picture, the end of the stream or a full buffer.*)
Enough ==
    \/ took \/ call = "header"
    \/ cur \in Decs /\ hw.eos /\ hw.rd = hw.wr
    \/ cur \in Encs /\ Dist(hw.rd, hw.wr) = N - 1

(* It ends, and may give out a frame buffer that is not on display.        *)
VpuDone ==
    /\ busy /\ Enough
    /\ busy' = FALSE
    /\ \/ UNCHANGED <<hw, shown>>
       \/ /\ cur \in Decs /\ call = "frame"
          /\ \E b \in Bufs \ hw.disp :
                hw' = [hw EXCEPT !.disp = @ \union {b}] /\ shown' = b
    /\ UNCHANGED <<ctx, run, cur, call, took, stream, header, held>>

(* The thread that feeds a decoder.                                        *)
Feed(i) ==
    \/ DecGetBitstreamBuffer(i) \/ DecEndOfStream(i)
    \/ \E n \in 1 .. N - 1 : DecUpdateBitstreamBuffer(i, n)

Next ==
    \/ \E i \in Decs :
          \/ Feed(i)
          \/ \E b \in Bufs : DecClrDispFlag(i, b)
          \/ DecGetInitialInfo(i) \/ DecInitialInfoReady(i) \/ DecClose(i) \/ DecOpen(i)
          \/ DecStartOneFrame(i) \/ DecGetOutputInfo(i)
    \/ \E i \in Encs :
          \/ EncGetBitstreamBuffer(i) \/ EncUpdateBitstreamBuffer(i)
          \/ EncStartOneFrame(i) \/ EncGetOutputInfo(i)
    \/ VpuRead \/ VpuWrite \/ VpuDone

Spec == Init /\ [][Next]_vars

(* The VPU works as long as it can, and a client that polls for the end of *)
(* its frame goes on feeding it and collects the output.                   *)
FairSpec ==
    /\ Spec
    /\ WF_vars(VpuRead) /\ WF_vars(VpuWrite) /\ WF_vars(VpuDone)
    /\ \A i \in Decs :
          /\ WF_vars(cur = i /\ Feed(i))
          /\ WF_vars(DecInitialInfoReady(i)) /\ WF_vars(DecGetOutputInfo(i))
    /\ \A i \in Encs : WF_vars(EncGetOutputInfo(i))

-----------------------------------------------------------------------------
(* Properties                                                              *)

(* The unread bytes, as the pointers have them.                            *)
First(i) == IF i \in Decs THEN View(i).rd ELSE ptr[i]
Last(i) == IF i \in Decs THEN ptr[i] ELSE View(i).wr
Unread(i) ==
    [k \in 1 .. Dist(First(i), Last(i)) |-> mem[i][(First(i) + k - 1) % N]]

Fifo == INSTANCE BitFifo WITH
    Streams <- Insts, Capacity <- N - 1, Numbers <- Numbers,
    next <- fed, q <- [i \in Insts |-> IF header[i] = "closed" THEN << >> ELSE Unread(i)]

(* Each ring buffer is a bounded queue: no byte is overwritten before it   *)
(* was read, read twice or skipped, although its pointers move between     *)
(* ctxRegs and the VPU whenever another instance gets a command            *)
(* (DecGetBitstreamBuffer, BitIssueCommandEx, DecGetOutputInfo).           *)
IsFifo == Fifo!Spec

(* The client's word that a stream has ended reaches the VPU, and stays    *)
(* with the instance through the commands of other instances               *)
(* (DecUpdateBitstreamBuffer with no byte).                                *)
EndKept == \A i \in Decs : told[i] /\ header[i] # "closed" => View(i).eos

(* Between its frames an instance has exactly the buffers marked that are  *)
(* on display: none is decoded into while it is seen, and none is lost     *)
(* once it is released (DecClrDispFlag, DecGetOutputInfo).                 *)
BuffersMatch == \A i \in Decs : cur # i /\ header[i] # "closed" => ctx[i].disp = held[i]

(* Every frame that is started ends, and gives the API mutex back: a       *)
(* decoder that has run out of bytes gets more, or the end of the stream.  *)
FramesEnd == \A i \in Insts : cur = i ~> cur # i

(* "vpu_DecClrDispFlag is used to control framebuffer whether can be used  *)
(* for decoder again": a buffer that was released is not kept from the     *)
(* decoder by the frame that ran meanwhile.                                *)
ReleasedReturns == \A i \in Decs : cur # i /\ header[i] # "closed" => ctx[i].disp \subseteq held[i]

=============================================================================
