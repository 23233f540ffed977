------------------------------- MODULE VpuLib -------------------------------
(***************************************************************************)
(* The sharing of the one video processor (VPU) between processes in       *)
(* imx-lib's vpu library, on the i.MX5x: the API mutex and the codec       *)
(* instances in shared memory, the calls that take the mutex, issue a      *)
(* command and wait for it, the frame that keeps the mutex from            *)
(* StartOneFrame to GetOutputInfo, the reset, and processes that time out  *)
(* or die.  Bit streams are the subject of VpuStream.                      *)
(***************************************************************************)
EXTENDS Naturals

CONSTANTS
    Procs,        \* the client processes, one thread and one instance each
    Insts,        \* codecInstPool
    NoOne,        \* the mutex is free
    Dead,         \* a process that died
    NoInst,       \* a null instance pointer
    ParaSets,     \* DEC_SET_xPS_RBSP commands the clients give: "sps", "pps"
    TrustRefusal, \* clients answer a refused close as mxc_vpu_test does
    ColdRace,     \* two processes may open fresh shared memory at once
    MaxActive,    \* bound on vpu_active_num
    MaxCrashes    \* bound on processes killed

ASSUME OwnerAssumption == NoOne \notin Procs /\ Dead \notin Procs /\ NoOne # Dead
ASSUME InstAssumption == NoInst \notin Insts
ASSUME FlagAssumption ==
    ParaSets \subseteq {"sps", "pps"} /\ TrustRefusal \in BOOLEAN /\ ColdRace \in BOOLEAN
ASSUME BoundAssumption == MaxActive \in Nat \ {0} /\ MaxCrashes \in Nat

VARIABLES
    ready,    \* semaphore_t.is_initialized
    lock,     \* the holder of api_lock
    inst,     \* codecInstPool: in use, encoder or decoder, header known,
              \* frame buffers registered
    pending,  \* pendingInst
    loaded,   \* the firmware runs
    busy,     \* BIT_BUSY_FLAG
    by,       \* who waits for that command
    pc,       \* where each process is
    op,       \* the call it is in
    hd,       \* its handle
    fd,       \* vpu_fd > 0
    active,   \* vpu_active_num
    crashes,  \* processes killed so far
    stray     \* history: vpu_SWReset has unlocked for a process without the mutex

shm == <<ready, lock, inst, pending>>
hw == <<loaded, busy, by>>
client == <<pc, op, hd, fd, active, crashes>>
vars == <<shm, hw, client, stray>>

Kinds == {"dec", "enc"}
(* A "plain" command is one whose end changes nothing kept here.           *)
Ops == {"none", "plain", "info", "pps", "close"}
(* Where a process waits for the mutex.                                    *)
Waiting == {"ioInit", "init", "uninit", "open1", "open2", "call", "reset", "free"}
PCs == Waiting \union {"out", "semInit", "ready", "cmd", "frame", "stale", "refused"}

Instance == [used: BOOLEAN, kind: Kinds, info: BOOLEAN, bufs: BOOLEAN]
Fresh(k) == [used |-> TRUE, kind |-> k, info |-> FALSE, bufs |-> FALSE]
(* An instance not in use; what it held is cleared when it is taken again. *)
Unused == [Fresh("dec") EXCEPT !.used = FALSE]

TypeOK ==
    /\ ready \in BOOLEAN /\ loaded \in BOOLEAN /\ busy \in BOOLEAN
    /\ lock \in Procs \union {NoOne, Dead}
    /\ inst \in [Insts -> Instance]
    /\ pending \in Insts \union {NoInst}
    /\ by \in Procs \union {NoOne, Dead}
    /\ pc \in [Procs -> PCs]
    /\ op \in [Procs -> Ops]
    /\ hd \in [Procs -> Insts \union {NoInst}]
    /\ fd \in [Procs -> BOOLEAN]
    /\ active \in [Procs -> 0 .. MaxActive]
    /\ crashes \in 0 .. MaxCrashes
    /\ stray \in BOOLEAN

Init ==
    /\ ready = FALSE /\ lock = NoOne
    /\ inst = [i \in Insts |-> Unused]
    /\ pending = NoInst
    /\ loaded = FALSE /\ busy = FALSE /\ by = NoOne
    /\ pc = [p \in Procs |-> "out"] /\ op = [p \in Procs |-> "none"]
    /\ hd = [p \in Procs |-> NoInst]
    /\ fd = [p \in Procs |-> FALSE] /\ active = [p \in Procs |-> 0]
    /\ crashes = 0 /\ stray = FALSE

Go(p, s) == pc' = [pc EXCEPT ![p] = s]

(* A call returns.                                                         *)
NoCall(p) == op' = [op EXCEPT ![p] = "none"]

-----------------------------------------------------------------------------
(* The mutex                                                               *)

(* Mutant: the result of the wait is ignored, as LockVpuReg's is.          *)
LockIgnored(p) == lock' = p

(* LockVpu succeeds: the mutex is not recursive and not robust.            *)
LockVpu(p) == lock = NoOne /\ lock' = p

(* UnlockVpu: a default pthread mutex does not ask who unlocks it.         *)
UnlockVpu == lock' = NoOne

(* A section of LockVpu and UnlockVpu that gives the VPU nothing to do.    *)
BriefLock == lock = NoOne /\ UNCHANGED lock

(* IOSystemShutdown of process p: the last user in it needs the mutex.     *)
IOSystemShutdown(p) ==
    IF fd[p] /\ active[p] = 1
    THEN Go(p, "uninit") /\ UNCHANGED active
    ELSE /\ Go(p, "out")
         /\ active' = [active EXCEPT ![p] = IF @ > 1 THEN @ - 1 ELSE @]

(* Mutant: the Android branch, pthread_mutex_lock.                         *)
WaitForEver(p) == FALSE

(* semaphore_wait returns false: its time is up while another process, a   *)
(* dead one or the process itself holds the mutex.  RETCODE_FAILURE_TIMEOUT*)
(* leaves an instance that DecOpen or EncOpen has taken in use, and a      *)
(* process that wanted to reset the VPU with a frame it has let go of.     *)
TimeOut(p) ==
    /\ pc[p] \in Waiting
    /\ lock # NoOne
    /\ CASE pc[p] = "ioInit" -> Go(p, "out") /\ UNCHANGED active
         [] pc[p] = "init"   -> IOSystemShutdown(p)
         [] pc[p] = "uninit" -> Go(p, "out") /\ UNCHANGED active
         [] pc[p] \in {"reset", "free"} -> Go(p, "stale") /\ UNCHANGED active
         [] OTHER            -> Go(p, "ready") /\ UNCHANGED active
    /\ fd' = [fd EXCEPT ![p] = @ /\ pc[p] # "ioInit"]
    /\ hd' = [hd EXCEPT ![p] = IF pc[p] = "open2" THEN NoInst ELSE @]
    /\ NoCall(p)
    /\ UNCHANGED <<shm, hw, crashes, stray>>

-----------------------------------------------------------------------------
(* vpu_Init and vpu_UnInit                                                 *)

(* IOSystemInit: the device is opened, unless it is open already.          *)
IOSystemInit(p) ==
    /\ pc[p] = "out" /\ active[p] < MaxActive
    /\ IF fd[p]
       THEN /\ active' = [active EXCEPT ![p] = @ + 1]
            /\ Go(p, "init")
            /\ UNCHANGED fd
       ELSE /\ fd' = [fd EXCEPT ![p] = TRUE]
            /\ Go(p, IF ready THEN "ioInit" ELSE "semInit")
            /\ ColdRace \/ ready \/ \A q \in Procs : pc[q] # "semInit"
            /\ UNCHANGED active
    /\ UNCHANGED <<shm, hw, op, hd, crashes, stray>>

(* vpu_semaphore_open found is_initialized clear: it makes the mutex and   *)
(* the pool anew.                                                          *)
SemaphoreInit(p) ==
    /\ pc[p] = "semInit"
    /\ lock' = NoOne
    /\ inst' = [i \in Insts |-> Unused]
    /\ ready' = TRUE
    /\ Go(p, "ioInit")
    /\ UNCHANGED <<pending, hw, op, hd, fd, active, crashes, stray>>

(* The rest of IOSystemInit, under the mutex: the registers cannot be      *)
(* mapped, or the work buffer is not to be had, or all is well.            *)
IOSystemInitMap(p) ==
    /\ pc[p] = "ioInit" /\ BriefLock
    /\ \/ Go(p, "out") /\ fd' = [fd EXCEPT ![p] = FALSE] /\ UNCHANGED active
       \/ \E s \in {"uninit", "init"} :
             Go(p, s) /\ active' = [active EXCEPT ![p] = @ + 1] /\ UNCHANGED fd
    /\ UNCHANGED <<ready, inst, pending, hw, op, hd, crashes, stray>>

(* vpu_Init loads the firmware if it does not run; without the firmware    *)
(* file it fails, and the device stays open and counted.                   *)
VpuInit(p) ==
    /\ pc[p] = "init" /\ BriefLock
    /\ \/ loaded' = TRUE /\ Go(p, "ready")
       \/ ~loaded /\ active[p] < MaxActive /\ Go(p, "out") /\ UNCHANGED loaded
    /\ UNCHANGED <<ready, inst, pending, busy, by, op, hd, fd, active, crashes, stray>>

VpuUnInit(p) ==
    /\ pc[p] = "ready" /\ hd[p] = NoInst
    /\ IOSystemShutdown(p)
    /\ UNCHANGED <<shm, hw, op, hd, fd, crashes, stray>>

(* The rest of IOSystemShutdown.                                           *)
ShutdownUnmap(p) ==
    /\ pc[p] = "uninit" /\ BriefLock
    /\ active' = [active EXCEPT ![p] = @ - 1]
    /\ fd' = [fd EXCEPT ![p] = FALSE]
    /\ Go(p, "out")
    /\ UNCHANGED <<ready, inst, pending, hw, op, hd, crashes, stray>>

-----------------------------------------------------------------------------
(* vpu_DecOpen and vpu_EncOpen: two sections, with no lock in between      *)

Open(p) ==
    /\ pc[p] = "ready" /\ hd[p] = NoInst /\ loaded
    /\ Go(p, "open1")
    /\ UNCHANGED <<shm, hw, op, hd, fd, active, crashes, stray>>

(* Mutant: the loop does not look at inUse.                                *)
AnyInstance(i) == TRUE

(* GetCodecInstance takes an instance that is not in use.                  *)
FreeInstance(i) == ~inst[i].used

(* The first section: an instance, or RETCODE_FAILURE if there is none.    *)
OpenFirst(p, k) ==
    /\ pc[p] = "open1" /\ BriefLock
    /\ \/ \E i \in Insts :
             /\ FreeInstance(i)
             /\ inst' = [inst EXCEPT ![i] = Fresh(k)]
             /\ hd' = [hd EXCEPT ![p] = i]
             /\ Go(p, "open2")
       \/ /\ \A i \in Insts : ~FreeInstance(i)
          /\ Go(p, "ready")
          /\ UNCHANGED <<inst, hd>>
    /\ UNCHANGED <<ready, pending, hw, op, fd, active, crashes, stray>>

(* Between the sections there may be no memory for the context buffer: the *)
(* call fails, and the instance stays in use.                              *)
OpenNoMemory(p) ==
    /\ pc[p] = "open2"
    /\ hd' = [hd EXCEPT ![p] = NoInst]
    /\ Go(p, "ready")
    /\ UNCHANGED <<shm, hw, op, fd, active, crashes, stray>>

(* The second section sets the context registers up.                       *)
OpenSecond(p) ==
    /\ pc[p] = "open2" /\ BriefLock
    /\ Go(p, "ready")
    /\ UNCHANGED <<ready, inst, pending, hw, op, hd, fd, active, crashes, stray>>

DecOpen(p) == OpenFirst(p, "dec")
EncOpen(p) == OpenFirst(p, "enc")

-----------------------------------------------------------------------------
(* Calls that give the VPU one command and wait for it                     *)

(* A process between calls with a handle to an instance of kind k in use:  *)
(* CheckDecInstanceValidity, CheckEncInstanceValidity.                     *)
Holds(p, k) ==
    /\ pc[p] = "ready" /\ hd[p] # NoInst
    /\ inst[hd[p]].used /\ inst[hd[p]].kind = k

Call(p, o) ==
    /\ op' = [op EXCEPT ![p] = o]
    /\ Go(p, "call")
    /\ UNCHANGED <<ready, lock, pending, hw, hd, fd, active, crashes, stray>>

GetVersionInfo(p) == pc[p] = "ready" /\ loaded /\ Call(p, "plain") /\ UNCHANGED inst

GetInitialInfo(p, k) ==
    Holds(p, k) /\ ~inst[hd[p]].info /\ Call(p, "info") /\ UNCHANGED inst
DecGetInitialInfo(p) == GetInitialInfo(p, "dec")
EncGetInitialInfo(p) == GetInitialInfo(p, "enc")

(* The buffers count as registered before the mutex is taken, and stay so  *)
(* if it is not had in time.  A motion-JPEG decoder needs no more.         *)
RegisterFrameBuffer(p, k) ==
    /\ Holds(p, k) /\ inst[hd[p]].info /\ ~inst[hd[p]].bufs
    /\ inst' = [inst EXCEPT ![hd[p]].bufs = TRUE]
    /\ \/ Call(p, "plain")
       \/ k = "dec" /\ UNCHANGED <<ready, lock, pending, hw, client, stray>>
DecRegisterFrameBuffer(p) == RegisterFrameBuffer(p, "dec")
EncRegisterFrameBuffer(p) == RegisterFrameBuffer(p, "enc")

DecBitBufferFlush(p) ==
    Holds(p, "dec") /\ inst[hd[p]].bufs /\ Call(p, "plain") /\ UNCHANGED inst

(* The header and parameter commands of the encoder, and DEC_SET_SPS_RBSP  *)
(* of the decoder, take the mutex.                                         *)
EncGiveCommand(p) == Holds(p, "enc") /\ Call(p, "plain") /\ UNCHANGED inst
DecGiveCommand(p) ==
    \E o \in ParaSets :
        Holds(p, "dec") /\ Call(p, IF o = "pps" THEN "pps" ELSE "plain") /\ UNCHANGED inst

(* A close is refused while the pending frame is the instance's.           *)
Close(p, k) ==
    /\ Holds(p, k)
    /\ IF pending = hd[p]
       THEN Go(p, "refused") /\ UNCHANGED <<shm, hw, op, hd, fd, active, crashes, stray>>
       ELSE Call(p, "close") /\ UNCHANGED inst
DecClose(p) == Close(p, "dec")
EncClose(p) == Close(p, "enc")

(* BitIssueCommand and BitIssueCommandEx.                                  *)
BitIssueCommand(p) == busy' = TRUE /\ by' = p

(* A close of an instance that never got its header gives no command, and  *)
(* DecGetInitialInfo gives none for an empty bit stream.                   *)
NeedsCommand(p) == op[p] = "close" => inst[hd[p]].info

(* The mutex is taken, except for DEC_SET_PPS_RBSP, and the command given. *)
Issue(p) ==
    /\ pc[p] = "call" /\ NeedsCommand(p)
    /\ IF op[p] = "pps" THEN UNCHANGED lock ELSE LockVpu(p)
    /\ BitIssueCommand(p)
    /\ Go(p, "cmd")
    /\ UNCHANGED <<ready, inst, pending, loaded, op, hd, fd, active, crashes, stray>>

DecInfoEmpty(p) ==
    /\ pc[p] = "call" /\ op[p] = "info" /\ inst[hd[p]].kind = "dec" /\ BriefLock
    /\ Go(p, "ready") /\ NoCall(p)
    /\ UNCHANGED <<ready, inst, pending, hw, hd, fd, active, crashes, stray>>

(* FreeCodecInstance, and the handle is no more.                           *)
FreeCodecInstance(p) ==
    /\ inst' = [inst EXCEPT ![hd[p]] = Unused]
    /\ hd' = [hd EXCEPT ![p] = NoInst]

CloseQuietly(p) ==
    /\ pc[p] = "call" /\ ~NeedsCommand(p) /\ BriefLock
    /\ FreeCodecInstance(p)
    /\ Go(p, "ready") /\ NoCall(p)
    /\ UNCHANGED <<ready, pending, hw, fd, active, crashes, stray>>

(* while (VpuReadReg(BIT_BUSY_FLAG)) ends, and the call with it.           *)
Finish(p) ==
    /\ pc[p] = "cmd" /\ ~busy
    /\ CASE op[p] = "close" -> FreeCodecInstance(p)
         [] op[p] = "info"  -> /\ \E ok \in BOOLEAN :
                                     inst' = [inst EXCEPT ![hd[p]].info = ok]
                               /\ UNCHANGED hd
         [] OTHER           -> UNCHANGED <<inst, hd>>
    /\ IF op[p] = "pps" THEN UNCHANGED lock ELSE UnlockVpu
    /\ Go(p, "ready") /\ NoCall(p)
    /\ UNCHANGED <<ready, pending, hw, fd, active, crashes, stray>>

-----------------------------------------------------------------------------
(* Frames                                                                  *)

(* Mutant: UnlockVpu at the end, as in every other call.                   *)
StartAndUnlock(p) ==
    /\ lock = NoOne /\ UNCHANGED lock
    /\ BitIssueCommand(p)
    /\ pending' = hd[p]
    /\ Go(p, "frame")

(* The mutex is kept for GetOutputInfo to release.                         *)
StartPicRun(p) ==
    /\ LockVpu(p)
    /\ BitIssueCommand(p)
    /\ pending' = hd[p]
    /\ Go(p, "frame")

(* Without memory for its reports the decoder unlocks and fails ...        *)
DecStartOneFrame(p) ==
    /\ Holds(p, "dec") /\ inst[hd[p]].bufs
    /\ StartPicRun(p)
    /\ UNCHANGED <<ready, inst, loaded, op, hd, fd, active, crashes, stray>>

(* ... and the encoder fails with the mutex locked.                        *)
EncStartOneFrame(p) ==
    /\ Holds(p, "enc") /\ inst[hd[p]].bufs
    /\ \/ StartPicRun(p)
       \/ LockVpu(p) /\ UNCHANGED <<busy, by, pending, pc>>
    /\ UNCHANGED <<ready, inst, loaded, op, hd, fd, active, crashes, stray>>

(* The client has seen the VPU idle.  mxc_vpu_test also asks for output    *)
(* after a refused close.                                                  *)
GetOutputInfo(p, k) ==
    /\ pc[p] = "frame" \/ (TrustRefusal /\ pc[p] = "refused")
    /\ inst[hd[p]].kind = k /\ inst[hd[p]].used
    /\ ~busy
    /\ pending = hd[p]
    /\ pending' = NoInst
    /\ UnlockVpu
    /\ Go(p, "ready")
    /\ UNCHANGED <<ready, inst, hw, op, hd, fd, active, crashes, stray>>
DecGetOutputInfo(p) == GetOutputInfo(p, "dec")
EncGetOutputInfo(p) == GetOutputInfo(p, "enc")

(* vpu_SWReset of a handle, by a client tired of waiting for its frame or  *)
(* by any other with a good handle: unless somebody else's frame is        *)
(* pending, first the mutex is unlocked, whoever has it ...  (Even a free  *)
(* mutex may be another's here: a brief section is one step.)              *)
SWResetUnlock(p) ==
    /\ pc[p] \in {"ready", "frame", "refused"}
    /\ hd[p] # NoInst /\ inst[hd[p]].used
    /\ pending \in {NoInst, hd[p]}
    /\ UnlockVpu
    /\ stray' = (stray \/ lock # p)
    /\ by' = IF by = p THEN NoOne ELSE by
    /\ Go(p, "reset")
    /\ UNCHANGED <<ready, inst, pending, loaded, busy, op, hd, fd, active, crashes>>

(* ... then locked again for the reset.  pendingInst is not touched.       *)
SWReset(p) ==
    /\ pc[p] = "reset" /\ BriefLock
    /\ busy' = FALSE /\ by' = NoOne
    /\ Go(p, "stale")
    /\ UNCHANGED <<ready, inst, pending, loaded, op, hd, fd, active, crashes, stray>>

(* "The handle cannot be used after restore": the client cleans the        *)
(* instance by its index, vpu_SWReset(NULL, index).                        *)
SWResetIndex(p) ==
    /\ pc[p] = "stale"
    /\ Go(p, "free")
    /\ UNCHANGED <<shm, hw, op, hd, fd, active, crashes, stray>>

SWResetFree(p) ==
    /\ pc[p] = "free" /\ BriefLock
    /\ FreeCodecInstance(p)
    /\ Go(p, "ready")
    /\ UNCHANGED <<ready, pending, hw, op, fd, active, crashes, stray>>

(* A client that does not ask for output gives a refused handle up.        *)
GiveUp(p) ==
    /\ pc[p] = "refused"
    /\ Go(p, "stale")
    /\ UNCHANGED <<shm, hw, op, hd, fd, active, crashes, stray>>

-----------------------------------------------------------------------------
(* The environment                                                         *)

(* The VPU ends its command.                                               *)
Done ==
    /\ busy
    /\ busy' = FALSE /\ by' = NoOne
    /\ UNCHANGED <<shm, loaded, client, stray>>

(* A process is killed; another one takes its name.                        *)
Crash(p) ==
    /\ pc[p] # "out" /\ crashes < MaxCrashes
    /\ crashes' = crashes + 1
    /\ lock' = IF lock = p THEN Dead ELSE lock
    /\ by' = IF by = p THEN Dead ELSE by
    /\ Go(p, "out") /\ NoCall(p)
    /\ hd' = [hd EXCEPT ![p] = NoInst]
    /\ fd' = [fd EXCEPT ![p] = FALSE]
    /\ active' = [active EXCEPT ![p] = 0]
    /\ UNCHANGED <<ready, inst, pending, loaded, busy, stray>>

(* What ends a call that waits.                                            *)
Proceed(p) ==
    \/ TimeOut(p) \/ SemaphoreInit(p) \/ IOSystemInitMap(p) \/ VpuInit(p) \/ ShutdownUnmap(p)
    \/ DecOpen(p) \/ EncOpen(p) \/ OpenSecond(p)
    \/ Issue(p) \/ CloseQuietly(p) \/ Finish(p)
    \/ SWReset(p) \/ SWResetFree(p)

(* What a client may ask for.                                              *)
Ask(p) ==
    \/ IOSystemInit(p) \/ VpuUnInit(p) \/ Open(p) \/ GetVersionInfo(p)
    \/ DecGetInitialInfo(p) \/ EncGetInitialInfo(p)
    \/ DecRegisterFrameBuffer(p) \/ EncRegisterFrameBuffer(p) \/ DecBitBufferFlush(p)
    \/ DecGiveCommand(p) \/ EncGiveCommand(p) \/ DecClose(p) \/ EncClose(p)
    \/ DecStartOneFrame(p) \/ EncStartOneFrame(p)
    \/ DecGetOutputInfo(p) \/ EncGetOutputInfo(p)
    \/ SWResetUnlock(p) \/ SWResetIndex(p) \/ GiveUp(p)

Next ==
    \/ \E p \in Procs : Proceed(p) \/ Ask(p) \/ OpenNoMemory(p) \/ DecInfoEmpty(p) \/ Crash(p)
    \/ Done

Spec == Init /\ [][Next]_vars

(* Processes are scheduled, the timed wait ends, and the VPU finishes what *)
(* it was given.  Nobody has to call anything.                             *)
FairSpec == Spec /\ WF_vars(Done) /\ \A p \in Procs : WF_vars(Proceed(p))

-----------------------------------------------------------------------------
(* Properties                                                              *)

(* "Need to unlock VPU since mutex is locked when StartOneFrame": whoever  *)
(* waits for a command, or has a frame in the VPU, holds the mutex, and no *)
(* reset takes it away (vpu_SWReset).                                      *)
MutexKept == \A p \in Procs : pc[p] \in {"cmd", "frame"} => lock = p

(* Whoever waits for a command under the mutex, or has a frame in the VPU, *)
(* holds the mutex: nobody else's unlock, time-out or death takes it away, *)
(* and no reset until a process without the mutex asks for one (LockVpu,   *)
(* vpu_SWReset).                                                           *)
HolderInside == ~stray => MutexKept

(* No two processes have the same instance, and a handle stays good until  *)
(* its owner closes it, whatever calls fail or time out on the way         *)
(* (GetCodecInstance, FreeCodecInstance), as long as no reset frees the    *)
(* mutex of a process that is looking for an instance.                     *)
HandlesDistinct ==
    ~stray =>
        \A p \in Procs : hd[p] # NoInst =>
            /\ inst[hd[p]].used
            /\ \A q \in Procs \ {p} : hd[q] # hd[p]

(* While the VPU works at a command, the process that waits for it holds   *)
(* the mutex, or has died with it: no command ever overruns another, but   *)
(* for that of a process which has let go of its frame in vpu_SWReset      *)
(* (BitIssueCommandEx, LockVpu), as long as only the holder resets.        *)
CommandOwner == ~stray /\ busy /\ by # NoOne => lock = by

(* The output of a frame can be fetched, which alone gives the mutex back: *)
(* pendingInst still names the instance, whatever other processes do       *)
(* meanwhile (DecStartOneFrame, DecGetOutputInfo), short of a reset by one *)
(* that does not hold the mutex.                                           *)
FramePending == ~stray => \A p \in Procs : pc[p] = "frame" => pending = hd[p]

(* Every call that waits for the mutex or the VPU comes back, even if a    *)
(* process has died with the mutex (semaphore_wait with its time-out).     *)
(* Once a reset has let another process at the VPU, that one's commands    *)
(* can hide the end of this one's.                                         *)
CallsReturn ==
    \A p \in Procs :
        pc[p] \in Waiting \union {"semInit", "cmd"} ~>
            \/ pc[p] \in {"out", "ready", "frame", "stale"}
            \/ pc[p] = "cmd" /\ stray

(* vpu_DecClose and vpu_EncClose: "RETCODE_FRAME_NOT_COMPLETE A frame has  *)
(* not been finished."                                                     *)
RefusedOnlyRunning == \A p \in Procs : pc[p] = "refused" => busy \/ lock = p

=============================================================================
