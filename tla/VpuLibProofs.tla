---------------------------- MODULE VpuLibProofs ----------------------------
(***************************************************************************)
(* Proofs about VpuLib, for any processes, instances and bounds: with      *)
(* clients that wait for the end of a frame and use no unlocked command,   *)
(* and one process at a time that opens fresh shared memory, the mutex is  *)
(* with whoever uses the VPU, whatever calls time out or processes die.    *)
(***************************************************************************)
EXTENDS VpuLib, TLAPS

(* What the clients and the start of the system must keep to.              *)
Careful == ~TrustRefusal /\ ~ColdRace /\ "pps" \notin ParaSets

(* The call counter is within its bounds where it is changed next.         *)
Counted ==
    \A p \in Procs :
        /\ pc[p] \in {"semInit", "ioInit"} => active[p] < MaxActive
        /\ pc[p] = "uninit" => active[p] > 0

(* Before the shared memory is ready, nobody has got beyond making it.     *)
Cold ==
    /\ ready => \A p \in Procs : pc[p] # "semInit"
    /\ ~ready =>
         /\ ~busy
         /\ \A p \in Procs :
              /\ pc[p] \in {"out", "semInit"} /\ hd[p] = NoInst
              /\ pc[p] = "out" => ~fd[p]
         /\ \A p, q \in Procs : pc[p] = "semInit" /\ pc[q] = "semInit" => p = q

Locked == \A p \in Procs : op[p] # "pps"

(* The inductive invariant.                                                *)
IInv ==
    /\ TypeOK /\ Counted /\ Cold /\ Locked
    /\ HolderInside /\ HandlesDistinct /\ CommandOwner /\ FramePending

-----------------------------------------------------------------------------
(* Facts about the pieces the actions are made of                          *)

LEMMA InstanceFresh ==
  ASSUME NEW k \in Kinds PROVE Fresh(k) \in Instance /\ Fresh(k).used
  BY DEF Fresh, Instance

LEMMA InstanceUnused == Unused \in Instance /\ ~Unused.used
  BY DEF Unused, Fresh, Instance, Kinds

(* Updates of one field of an instance keep the others.                    *)
LEMMA InstanceInfo ==
  ASSUME NEW f \in [Insts -> Instance], NEW i, NEW b \in BOOLEAN
  PROVE  /\ [f EXCEPT ![i].info = b] \in [Insts -> Instance]
         /\ \A j \in Insts : [f EXCEPT ![i].info = b][j].used = f[j].used
  BY DEF Instance

LEMMA InstanceBufs ==
  ASSUME NEW f \in [Insts -> Instance], NEW i
  PROVE  /\ [f EXCEPT ![i].bufs = TRUE] \in [Insts -> Instance]
         /\ \A j \in Insts : [f EXCEPT ![i].bufs = TRUE][j].used = f[j].used
  BY DEF Instance

-----------------------------------------------------------------------------
LEMMA InitIInv == Init => IInv
  <1> SUFFICES ASSUME Init PROVE IInv
    OBVIOUS
  <1> USE OwnerAssumption, InstAssumption, BoundAssumption DEF Init
  <1>1. inst \in [Insts -> Instance]
    BY InstanceUnused
  <1>2. active \in [Procs -> 0 .. MaxActive] /\ crashes \in 0 .. MaxCrashes
    OBVIOUS
  <1>3. pc \in [Procs -> PCs] /\ op \in [Procs -> Ops]
    BY DEF PCs, Waiting, Ops
  <1>4. TypeOK
    BY <1>1, <1>2, <1>3 DEF TypeOK
  <1>5. Counted
    BY DEF Counted
  <1>6. Cold /\ Locked
    BY DEF Cold, Locked
  <1>7. HolderInside /\ HandlesDistinct /\ CommandOwner /\ FramePending
    BY DEF HolderInside, MutexKept, HandlesDistinct, CommandOwner, FramePending
  <1> QED
    BY <1>4, <1>5, <1>6, <1>7 DEF IInv

-----------------------------------------------------------------------------
(* One lemma per part of the invariant; in each, a step per group of       *)
(* actions that treat it alike.                                            *)

(* The flags of the shared memory and the VPU stay flags, and a stray      *)
(* unlock is not forgotten.                                                *)
LEMMA FlagsStep ==
  ASSUME TypeOK, Next
  PROVE  /\ ready' \in BOOLEAN /\ loaded' \in BOOLEAN /\ busy' \in BOOLEAN
         /\ stray' \in BOOLEAN /\ (~stray' => ~stray)
  <1> USE OwnerAssumption, InstAssumption DEF TypeOK, Go
  <1> SUFFICES ASSUME NEW p \in Procs,
                      \/ Proceed(p) \/ Ask(p)
                      \/ OpenNoMemory(p) \/ DecInfoEmpty(p) \/ Crash(p)
               PROVE  /\ ready' \in BOOLEAN /\ loaded' \in BOOLEAN /\ busy' \in BOOLEAN
                      /\ stray' \in BOOLEAN /\ (~stray' => ~stray)
    BY DEF Next, Done, shm, client
  <1>1. CASE TimeOut(p)
    BY <1>1
    DEF TimeOut, IOSystemShutdown, Waiting, shm, hw, NoCall
  <1>2. CASE SemaphoreInit(p)
    BY <1>2
    DEF SemaphoreInit, hw
  <1>3. CASE IOSystemInitMap(p) \/ VpuInit(p) \/ ShutdownUnmap(p)
           \/ DecOpen(p) \/ EncOpen(p) \/ OpenSecond(p) \/ OpenNoMemory(p)
           \/ CloseQuietly(p) \/ SWReset(p) \/ SWResetFree(p)
    BY <1>3
    DEF IOSystemInitMap, VpuInit, ShutdownUnmap, BriefLock, hw, DecOpen,
        EncOpen, OpenFirst, OpenSecond, OpenNoMemory, FreeInstance, shm,
        CloseQuietly, SWReset, SWResetFree, FreeCodecInstance, NoCall
  <1>4. CASE Issue(p) \/ Finish(p)
    BY <1>4
    DEF Issue, LockVpu, BitIssueCommand, Finish, UnlockVpu,
        FreeCodecInstance, NoCall, hw
  <1>5. CASE IOSystemInit(p) \/ VpuUnInit(p) \/ Open(p)
           \/ SWResetIndex(p) \/ GiveUp(p) \/ GetVersionInfo(p)
           \/ DecGetInitialInfo(p) \/ EncGetInitialInfo(p)
           \/ DecBitBufferFlush(p) \/ DecGiveCommand(p)
           \/ EncGiveCommand(p) \/ DecRegisterFrameBuffer(p)
           \/ EncRegisterFrameBuffer(p) \/ DecClose(p) \/ EncClose(p)
           \/ DecInfoEmpty(p)
    BY <1>5
    DEF IOSystemInit, VpuUnInit, IOSystemShutdown, Open, SWResetIndex,
        GiveUp, shm, hw, GetVersionInfo, DecGetInitialInfo,
        EncGetInitialInfo, GetInitialInfo, DecBitBufferFlush,
        DecGiveCommand, EncGiveCommand, Call, Holds,
        DecRegisterFrameBuffer, EncRegisterFrameBuffer,
        RegisterFrameBuffer, client, DecClose, EncClose, Close,
        DecInfoEmpty, BriefLock, NoCall
  <1>6. CASE DecStartOneFrame(p) \/ EncStartOneFrame(p)
           \/ DecGetOutputInfo(p) \/ EncGetOutputInfo(p)
           \/ SWResetUnlock(p)
    BY <1>6
    DEF DecStartOneFrame, EncStartOneFrame, StartPicRun, LockVpu,
        BitIssueCommand, Holds, DecGetOutputInfo, EncGetOutputInfo,
        GetOutputInfo, UnlockVpu, hw, SWResetUnlock
  <1>7. CASE Crash(p)
    BY <1>7
    DEF Crash, NoCall
  <1> QED
    BY <1>1, <1>2, <1>3, <1>4, <1>5, <1>6, <1>7
    DEF Proceed, Ask

(* The owners of mutex, command and frame stay what they may be.           *)
LEMMA OwnersStep ==
  ASSUME TypeOK, Next
  PROVE  /\ lock' \in Procs \union {NoOne, Dead} /\ by' \in Procs \union {NoOne, Dead}
         /\ pending' \in Insts \union {NoInst}
  <1> USE OwnerAssumption, InstAssumption DEF TypeOK, Go
  <1> SUFFICES ASSUME NEW p \in Procs,
                      \/ Proceed(p) \/ Ask(p)
                      \/ OpenNoMemory(p) \/ DecInfoEmpty(p) \/ Crash(p)
               PROVE  /\ lock' \in Procs \union {NoOne, Dead} /\ by' \in Procs \union {NoOne, Dead}
         /\ pending' \in Insts \union {NoInst}
    BY DEF Next, Done, shm, client
  <1>1. CASE TimeOut(p)
    BY <1>1
    DEF TimeOut, IOSystemShutdown, Waiting, shm, hw, NoCall
  <1>2. CASE SemaphoreInit(p)
    BY <1>2
    DEF SemaphoreInit, hw
  <1>3. CASE IOSystemInitMap(p) \/ VpuInit(p) \/ ShutdownUnmap(p)
           \/ DecOpen(p) \/ EncOpen(p) \/ OpenSecond(p) \/ OpenNoMemory(p)
           \/ CloseQuietly(p) \/ SWReset(p) \/ SWResetFree(p)
    BY <1>3
    DEF IOSystemInitMap, VpuInit, ShutdownUnmap, BriefLock, hw, DecOpen,
        EncOpen, OpenFirst, OpenSecond, OpenNoMemory, FreeInstance, shm,
        CloseQuietly, SWReset, SWResetFree, FreeCodecInstance, NoCall
  <1>4. CASE Issue(p) \/ Finish(p)
    BY <1>4
    DEF Issue, LockVpu, BitIssueCommand, Finish, UnlockVpu,
        FreeCodecInstance, NoCall, hw
  <1>5. CASE IOSystemInit(p) \/ VpuUnInit(p) \/ Open(p)
           \/ SWResetIndex(p) \/ GiveUp(p) \/ GetVersionInfo(p)
           \/ DecGetInitialInfo(p) \/ EncGetInitialInfo(p)
           \/ DecBitBufferFlush(p) \/ DecGiveCommand(p)
           \/ EncGiveCommand(p) \/ DecRegisterFrameBuffer(p)
           \/ EncRegisterFrameBuffer(p) \/ DecClose(p) \/ EncClose(p)
           \/ DecInfoEmpty(p)
    BY <1>5
    DEF IOSystemInit, VpuUnInit, IOSystemShutdown, Open, SWResetIndex,
        GiveUp, shm, hw, GetVersionInfo, DecGetInitialInfo,
        EncGetInitialInfo, GetInitialInfo, DecBitBufferFlush,
        DecGiveCommand, EncGiveCommand, Call, Holds,
        DecRegisterFrameBuffer, EncRegisterFrameBuffer,
        RegisterFrameBuffer, client, DecClose, EncClose, Close,
        DecInfoEmpty, BriefLock, NoCall
  <1>6. CASE DecStartOneFrame(p) \/ EncStartOneFrame(p)
           \/ DecGetOutputInfo(p) \/ EncGetOutputInfo(p)
           \/ SWResetUnlock(p)
    BY <1>6
    DEF DecStartOneFrame, EncStartOneFrame, StartPicRun, LockVpu,
        BitIssueCommand, Holds, DecGetOutputInfo, EncGetOutputInfo,
        GetOutputInfo, UnlockVpu, hw, SWResetUnlock
  <1>7. CASE Crash(p)
    BY <1>7
    DEF Crash, NoCall
  <1> QED
    BY <1>1, <1>2, <1>3, <1>4, <1>5, <1>6, <1>7
    DEF Proceed, Ask

(* The pool stays one of instances.                                        *)
LEMMA InstStep ==
  ASSUME TypeOK, Next
  PROVE  inst' \in [Insts -> Instance]
  <1> USE OwnerAssumption, InstAssumption DEF TypeOK, Go
  <1> SUFFICES ASSUME NEW p \in Procs,
                      \/ Proceed(p) \/ Ask(p)
                      \/ OpenNoMemory(p) \/ DecInfoEmpty(p) \/ Crash(p)
               PROVE  inst' \in [Insts -> Instance]
    BY DEF Next, Done, shm, client
  <1>1. CASE TimeOut(p)
    BY <1>1
    DEF TimeOut, IOSystemShutdown, Waiting, shm, hw, NoCall
  <1>2. CASE SemaphoreInit(p)
    BY <1>2, InstanceUnused
    DEF SemaphoreInit, hw
  <1>3. CASE IOSystemInitMap(p) \/ VpuInit(p) \/ ShutdownUnmap(p)
    BY <1>3
    DEF IOSystemInitMap, VpuInit, ShutdownUnmap, BriefLock, hw
  <1>4. CASE DecOpen(p) \/ EncOpen(p) \/ OpenSecond(p) \/ OpenNoMemory(p)
    <2>1. ASSUME NEW k \in Kinds, OpenFirst(p, k)
          PROVE  inst' \in [Insts -> Instance]
      BY <2>1, InstanceFresh DEF OpenFirst
    <2>2. CASE OpenSecond(p) \/ OpenNoMemory(p)
      BY <2>2 DEF OpenSecond, OpenNoMemory, shm
    <2> QED
      BY <1>4, <2>1, <2>2 DEF DecOpen, EncOpen, Kinds
  <1>5. CASE CloseQuietly(p) \/ SWReset(p) \/ SWResetFree(p)
    BY <1>5, InstanceUnused
    DEF CloseQuietly, SWReset, SWResetFree, FreeCodecInstance, BriefLock,
        NoCall, hw
  <1>6. CASE Issue(p)
    BY <1>6
    DEF Issue, LockVpu, BitIssueCommand
  <1>7. CASE Finish(p)
    <2>1. CASE op[p] = "close"
      BY <1>7, <2>1, InstanceUnused DEF Finish, FreeCodecInstance
    <2>2. CASE op[p] = "info"
      <3>1. PICK ok \in BOOLEAN : inst' = [inst EXCEPT ![hd[p]].info = ok]
        BY <1>7, <2>2 DEF Finish
      <3> QED
        BY <3>1, InstanceInfo
    <2>3. CASE op[p] \notin {"close", "info"}
      BY <1>7, <2>3 DEF Finish
    <2> QED
      BY <2>1, <2>2, <2>3
  <1>8. CASE IOSystemInit(p) \/ VpuUnInit(p) \/ Open(p)
           \/ SWResetIndex(p) \/ GiveUp(p) \/ GetVersionInfo(p)
           \/ DecGetInitialInfo(p) \/ EncGetInitialInfo(p)
           \/ DecBitBufferFlush(p) \/ DecGiveCommand(p)
           \/ EncGiveCommand(p) \/ DecClose(p) \/ EncClose(p)
           \/ DecInfoEmpty(p)
    BY <1>8
    DEF IOSystemInit, VpuUnInit, IOSystemShutdown, Open, SWResetIndex,
        GiveUp, shm, hw, GetVersionInfo, DecGetInitialInfo,
        EncGetInitialInfo, GetInitialInfo, DecBitBufferFlush,
        DecGiveCommand, EncGiveCommand, Call, Holds, DecClose, EncClose,
        Close, DecInfoEmpty, BriefLock, NoCall
  <1>9. CASE DecRegisterFrameBuffer(p) \/ EncRegisterFrameBuffer(p)
    <2>1. inst' = [inst EXCEPT ![hd[p]].bufs = TRUE]
      BY <1>9 DEF DecRegisterFrameBuffer, EncRegisterFrameBuffer, RegisterFrameBuffer
    <2> QED
      BY <2>1, InstanceBufs
  <1>10. CASE DecStartOneFrame(p) \/ EncStartOneFrame(p)
           \/ DecGetOutputInfo(p) \/ EncGetOutputInfo(p)
           \/ SWResetUnlock(p)
    BY <1>10
    DEF DecStartOneFrame, EncStartOneFrame, StartPicRun, LockVpu,
        BitIssueCommand, Holds, DecGetOutputInfo, EncGetOutputInfo,
        GetOutputInfo, UnlockVpu, hw, SWResetUnlock
  <1>11. CASE Crash(p)
    BY <1>11
    DEF Crash, NoCall
  <1> QED
    BY <1>1, <1>2, <1>3, <1>4, <1>5, <1>6, <1>7, <1>8, <1>9, <1>10, <1>11
    DEF Proceed, Ask

(* A process stays in a place and a call that exist.                       *)
LEMMA PlacesStep ==
  ASSUME TypeOK, Careful, Next
  PROVE  pc' \in [Procs -> PCs] /\ op' \in [Procs -> Ops]
  <1> USE OwnerAssumption, InstAssumption DEF TypeOK, Careful, PCs, Waiting, Ops, Go
  <1> SUFFICES ASSUME NEW p \in Procs,
                      \/ Proceed(p) \/ Ask(p)
                      \/ OpenNoMemory(p) \/ DecInfoEmpty(p) \/ Crash(p)
               PROVE  pc' \in [Procs -> PCs] /\ op' \in [Procs -> Ops]
    BY DEF Next, Done, shm, client
  <1>1. CASE TimeOut(p)
    BY <1>1
    DEF TimeOut, IOSystemShutdown, Waiting, shm, hw, NoCall
  <1>2. CASE SemaphoreInit(p)
    BY <1>2
    DEF SemaphoreInit, hw
  <1>3. CASE IOSystemInitMap(p) \/ VpuInit(p) \/ ShutdownUnmap(p)
           \/ DecOpen(p) \/ EncOpen(p) \/ OpenSecond(p) \/ OpenNoMemory(p)
           \/ CloseQuietly(p) \/ SWReset(p) \/ SWResetFree(p)
    BY <1>3
    DEF IOSystemInitMap, VpuInit, ShutdownUnmap, BriefLock, hw, DecOpen,
        EncOpen, OpenFirst, OpenSecond, OpenNoMemory, FreeInstance, shm,
        CloseQuietly, SWReset, SWResetFree, FreeCodecInstance, NoCall
  <1>4. CASE Issue(p) \/ Finish(p)
    BY <1>4
    DEF Issue, LockVpu, BitIssueCommand, Finish, UnlockVpu,
        FreeCodecInstance, NoCall, hw
  <1>5. CASE IOSystemInit(p) \/ VpuUnInit(p) \/ Open(p)
           \/ SWResetIndex(p) \/ GiveUp(p) \/ DecRegisterFrameBuffer(p)
           \/ EncRegisterFrameBuffer(p) \/ DecClose(p) \/ EncClose(p)
           \/ DecInfoEmpty(p)
    BY <1>5
    DEF IOSystemInit, VpuUnInit, IOSystemShutdown, Open, SWResetIndex,
        GiveUp, shm, hw, DecRegisterFrameBuffer, EncRegisterFrameBuffer,
        RegisterFrameBuffer, Call, Holds, client, DecClose, EncClose,
        Close, DecInfoEmpty, BriefLock, NoCall
  <1>6. CASE GetVersionInfo(p) \/ DecGetInitialInfo(p)
           \/ EncGetInitialInfo(p) \/ DecBitBufferFlush(p)
           \/ DecGiveCommand(p) \/ EncGiveCommand(p)
    BY <1>6, FlagAssumption
    DEF GetVersionInfo, DecGetInitialInfo, EncGetInitialInfo,
        GetInitialInfo, DecBitBufferFlush, DecGiveCommand, EncGiveCommand,
        Call, Holds, hw
  <1>7. CASE DecStartOneFrame(p) \/ EncStartOneFrame(p)
           \/ DecGetOutputInfo(p) \/ EncGetOutputInfo(p)
           \/ SWResetUnlock(p)
    BY <1>7
    DEF DecStartOneFrame, EncStartOneFrame, StartPicRun, LockVpu,
        BitIssueCommand, Holds, DecGetOutputInfo, EncGetOutputInfo,
        GetOutputInfo, UnlockVpu, hw, SWResetUnlock
  <1>8. CASE Crash(p)
    BY <1>8
    DEF Crash, NoCall
  <1> QED
    BY <1>1, <1>2, <1>3, <1>4, <1>5, <1>6, <1>7, <1>8
    DEF Proceed, Ask

(* Handles and file descriptors keep their types.                          *)
LEMMA HandleStep ==
  ASSUME TypeOK, Next
  PROVE  hd' \in [Procs -> Insts \union {NoInst}] /\ fd' \in [Procs -> BOOLEAN]
  <1> USE OwnerAssumption, InstAssumption DEF TypeOK, Go
  <1> SUFFICES ASSUME NEW p \in Procs,
                      \/ Proceed(p) \/ Ask(p)
                      \/ OpenNoMemory(p) \/ DecInfoEmpty(p) \/ Crash(p)
               PROVE  hd' \in [Procs -> Insts \union {NoInst}] /\ fd' \in [Procs -> BOOLEAN]
    BY DEF Next, Done, shm, client
  <1>1. CASE TimeOut(p)
    BY <1>1
    DEF TimeOut, IOSystemShutdown, Waiting, shm, hw, NoCall
  <1>2. CASE SemaphoreInit(p)
    BY <1>2
    DEF SemaphoreInit, hw
  <1>3. CASE IOSystemInitMap(p) \/ VpuInit(p) \/ ShutdownUnmap(p)
           \/ DecOpen(p) \/ EncOpen(p) \/ OpenSecond(p) \/ OpenNoMemory(p)
           \/ CloseQuietly(p) \/ SWReset(p) \/ SWResetFree(p)
    BY <1>3
    DEF IOSystemInitMap, VpuInit, ShutdownUnmap, BriefLock, hw, DecOpen,
        EncOpen, OpenFirst, OpenSecond, OpenNoMemory, FreeInstance, shm,
        CloseQuietly, SWReset, SWResetFree, FreeCodecInstance, NoCall
  <1>4. CASE Issue(p) \/ Finish(p)
    BY <1>4
    DEF Issue, LockVpu, BitIssueCommand, Finish, UnlockVpu,
        FreeCodecInstance, NoCall, hw
  <1>5. CASE IOSystemInit(p) \/ VpuUnInit(p) \/ Open(p)
           \/ SWResetIndex(p) \/ GiveUp(p) \/ GetVersionInfo(p)
           \/ DecGetInitialInfo(p) \/ EncGetInitialInfo(p)
           \/ DecBitBufferFlush(p) \/ DecGiveCommand(p)
           \/ EncGiveCommand(p) \/ DecRegisterFrameBuffer(p)
           \/ EncRegisterFrameBuffer(p) \/ DecClose(p) \/ EncClose(p)
           \/ DecInfoEmpty(p)
    BY <1>5
    DEF IOSystemInit, VpuUnInit, IOSystemShutdown, Open, SWResetIndex,
        GiveUp, shm, hw, GetVersionInfo, DecGetInitialInfo,
        EncGetInitialInfo, GetInitialInfo, DecBitBufferFlush,
        DecGiveCommand, EncGiveCommand, Call, Holds,
        DecRegisterFrameBuffer, EncRegisterFrameBuffer,
        RegisterFrameBuffer, client, DecClose, EncClose, Close,
        DecInfoEmpty, BriefLock, NoCall
  <1>6. CASE DecStartOneFrame(p) \/ EncStartOneFrame(p)
           \/ DecGetOutputInfo(p) \/ EncGetOutputInfo(p)
           \/ SWResetUnlock(p)
    BY <1>6
    DEF DecStartOneFrame, EncStartOneFrame, StartPicRun, LockVpu,
        BitIssueCommand, Holds, DecGetOutputInfo, EncGetOutputInfo,
        GetOutputInfo, UnlockVpu, hw, SWResetUnlock
  <1>7. CASE Crash(p)
    BY <1>7
    DEF Crash, NoCall
  <1> QED
    BY <1>1, <1>2, <1>3, <1>4, <1>5, <1>6, <1>7
    DEF Proceed, Ask

(* The counters keep within their bounds.                                  *)
LEMMA CountedStep ==
  ASSUME TypeOK, Counted, Next
  PROVE  /\ active' \in [Procs -> 0 .. MaxActive] /\ crashes' \in 0 .. MaxCrashes
         /\ Counted'
  <1> USE OwnerAssumption, InstAssumption DEF TypeOK, Counted, Go
  <1> SUFFICES ASSUME NEW p \in Procs,
                      \/ Proceed(p) \/ Ask(p)
                      \/ OpenNoMemory(p) \/ DecInfoEmpty(p) \/ Crash(p)
               PROVE  /\ active' \in [Procs -> 0 .. MaxActive] /\ crashes' \in 0 .. MaxCrashes
         /\ Counted'
    BY DEF Next, Done, shm, client
  <1>1. CASE TimeOut(p)
    BY <1>1, BoundAssumption
    DEF TimeOut, IOSystemShutdown, Waiting, shm, hw, NoCall
  <1>2. CASE SemaphoreInit(p)
    BY <1>2
    DEF SemaphoreInit, hw
  <1>3. CASE DecOpen(p) \/ EncOpen(p) \/ OpenSecond(p) \/ OpenNoMemory(p)
           \/ CloseQuietly(p) \/ SWReset(p) \/ SWResetFree(p)
    BY <1>3
    DEF DecOpen, EncOpen, OpenFirst, OpenSecond, OpenNoMemory, BriefLock,
        FreeInstance, shm, hw, CloseQuietly, SWReset, SWResetFree,
        FreeCodecInstance, NoCall
  <1>4. CASE IOSystemInitMap(p) \/ VpuInit(p) \/ ShutdownUnmap(p)
    BY <1>4, BoundAssumption
    DEF IOSystemInitMap, VpuInit, ShutdownUnmap, BriefLock, hw
  <1>5. CASE Issue(p) \/ Finish(p)
    BY <1>5
    DEF Issue, LockVpu, BitIssueCommand, Finish, UnlockVpu,
        FreeCodecInstance, NoCall, hw
  <1>6. CASE GetVersionInfo(p) \/ DecGetInitialInfo(p)
           \/ EncGetInitialInfo(p) \/ DecBitBufferFlush(p)
           \/ DecGiveCommand(p) \/ EncGiveCommand(p)
           \/ DecRegisterFrameBuffer(p) \/ EncRegisterFrameBuffer(p)
           \/ DecClose(p) \/ EncClose(p) \/ DecInfoEmpty(p)
    BY <1>6
    DEF GetVersionInfo, DecGetInitialInfo, EncGetInitialInfo,
        GetInitialInfo, DecBitBufferFlush, DecGiveCommand, EncGiveCommand,
        Call, Holds, hw, DecRegisterFrameBuffer, EncRegisterFrameBuffer,
        RegisterFrameBuffer, client, DecClose, EncClose, Close,
        DecInfoEmpty, BriefLock, NoCall, shm
  <1>7. CASE IOSystemInit(p) \/ VpuUnInit(p) \/ Open(p)
           \/ SWResetIndex(p) \/ GiveUp(p)
    BY <1>7, BoundAssumption
    DEF IOSystemInit, VpuUnInit, IOSystemShutdown, Open, SWResetIndex,
        GiveUp, shm, hw
  <1>8. CASE DecStartOneFrame(p) \/ EncStartOneFrame(p)
           \/ DecGetOutputInfo(p) \/ EncGetOutputInfo(p)
           \/ SWResetUnlock(p)
    BY <1>8
    DEF DecStartOneFrame, EncStartOneFrame, StartPicRun, LockVpu,
        BitIssueCommand, Holds, DecGetOutputInfo, EncGetOutputInfo,
        GetOutputInfo, UnlockVpu, hw, SWResetUnlock
  <1>9. CASE Crash(p)
    BY <1>9, BoundAssumption
    DEF Crash, NoCall
  <1> QED
    BY <1>1, <1>2, <1>3, <1>4, <1>5, <1>6, <1>7, <1>8, <1>9
    DEF Proceed, Ask

(* One process makes the shared memory, before all others get to it.       *)
LEMMA ColdStep ==
  ASSUME TypeOK, Cold, Careful, Next
  PROVE  Cold'
  <1> USE OwnerAssumption, InstAssumption DEF TypeOK, Cold, Careful, Go
  <1> SUFFICES ASSUME NEW p \in Procs,
                      \/ Proceed(p) \/ Ask(p)
                      \/ OpenNoMemory(p) \/ DecInfoEmpty(p) \/ Crash(p)
               PROVE  Cold'
    BY DEF Next, Done, shm, client
  <1>1. CASE TimeOut(p)
    BY <1>1
    DEF TimeOut, IOSystemShutdown, Waiting, shm, hw, NoCall
  <1>2. CASE SemaphoreInit(p)
    BY <1>2
    DEF SemaphoreInit, hw
  <1>3. CASE IOSystemInitMap(p) \/ VpuInit(p) \/ ShutdownUnmap(p)
           \/ DecOpen(p) \/ EncOpen(p) \/ OpenSecond(p) \/ OpenNoMemory(p)
           \/ CloseQuietly(p) \/ SWReset(p) \/ SWResetFree(p)
    BY <1>3
    DEF IOSystemInitMap, VpuInit, ShutdownUnmap, BriefLock, hw, DecOpen,
        EncOpen, OpenFirst, OpenSecond, OpenNoMemory, FreeInstance, shm,
        CloseQuietly, SWReset, SWResetFree, FreeCodecInstance, NoCall
  <1>4. CASE Issue(p) \/ Finish(p)
    BY <1>4
    DEF Issue, LockVpu, BitIssueCommand, Finish, UnlockVpu,
        FreeCodecInstance, NoCall, hw
  <1>5. CASE IOSystemInit(p) \/ VpuUnInit(p) \/ Open(p)
           \/ SWResetIndex(p) \/ GiveUp(p) \/ GetVersionInfo(p)
           \/ DecGetInitialInfo(p) \/ EncGetInitialInfo(p)
           \/ DecBitBufferFlush(p) \/ DecGiveCommand(p)
           \/ EncGiveCommand(p) \/ DecRegisterFrameBuffer(p)
           \/ EncRegisterFrameBuffer(p) \/ DecClose(p) \/ EncClose(p)
           \/ DecInfoEmpty(p)
    BY <1>5
    DEF IOSystemInit, VpuUnInit, IOSystemShutdown, Open, SWResetIndex,
        GiveUp, shm, hw, GetVersionInfo, DecGetInitialInfo,
        EncGetInitialInfo, GetInitialInfo, DecBitBufferFlush,
        DecGiveCommand, EncGiveCommand, Call, Holds,
        DecRegisterFrameBuffer, EncRegisterFrameBuffer,
        RegisterFrameBuffer, client, DecClose, EncClose, Close,
        DecInfoEmpty, BriefLock, NoCall
  <1>6. CASE DecStartOneFrame(p) \/ EncStartOneFrame(p)
           \/ DecGetOutputInfo(p) \/ EncGetOutputInfo(p)
           \/ SWResetUnlock(p)
    BY <1>6
    DEF DecStartOneFrame, EncStartOneFrame, StartPicRun, LockVpu,
        BitIssueCommand, Holds, DecGetOutputInfo, EncGetOutputInfo,
        GetOutputInfo, UnlockVpu, hw, SWResetUnlock
  <1>7. CASE Crash(p)
    BY <1>7
    DEF Crash, NoCall
  <1> QED
    BY <1>1, <1>2, <1>3, <1>4, <1>5, <1>6, <1>7
    DEF Proceed, Ask

(* No call does without the mutex.                                         *)
LEMMA LockedStep ==
  ASSUME TypeOK, Locked, Careful, Next
  PROVE  Locked'
  <1> USE OwnerAssumption, InstAssumption DEF TypeOK, Locked, Careful, Go
  <1> SUFFICES ASSUME NEW p \in Procs,
                      \/ Proceed(p) \/ Ask(p)
                      \/ OpenNoMemory(p) \/ DecInfoEmpty(p) \/ Crash(p)
               PROVE  Locked'
    BY DEF Next, Done, shm, client
  <1>1. CASE TimeOut(p)
    BY <1>1
    DEF TimeOut, IOSystemShutdown, Waiting, shm, hw, NoCall
  <1>2. CASE SemaphoreInit(p)
    BY <1>2
    DEF SemaphoreInit, hw
  <1>3. CASE IOSystemInitMap(p) \/ VpuInit(p) \/ ShutdownUnmap(p)
           \/ DecOpen(p) \/ EncOpen(p) \/ OpenSecond(p) \/ OpenNoMemory(p)
           \/ CloseQuietly(p) \/ SWReset(p) \/ SWResetFree(p)
    BY <1>3
    DEF IOSystemInitMap, VpuInit, ShutdownUnmap, BriefLock, hw, DecOpen,
        EncOpen, OpenFirst, OpenSecond, OpenNoMemory, FreeInstance, shm,
        CloseQuietly, SWReset, SWResetFree, FreeCodecInstance, NoCall
  <1>4. CASE Issue(p) \/ Finish(p)
    BY <1>4
    DEF Issue, LockVpu, BitIssueCommand, Finish, UnlockVpu,
        FreeCodecInstance, NoCall, hw
  <1>5. CASE IOSystemInit(p) \/ VpuUnInit(p) \/ Open(p)
           \/ SWResetIndex(p) \/ GiveUp(p) \/ GetVersionInfo(p)
           \/ DecGetInitialInfo(p) \/ EncGetInitialInfo(p)
           \/ DecBitBufferFlush(p) \/ DecGiveCommand(p)
           \/ EncGiveCommand(p) \/ DecRegisterFrameBuffer(p)
           \/ EncRegisterFrameBuffer(p) \/ DecClose(p) \/ EncClose(p)
           \/ DecInfoEmpty(p)
    BY <1>5
    DEF IOSystemInit, VpuUnInit, IOSystemShutdown, Open, SWResetIndex,
        GiveUp, shm, hw, GetVersionInfo, DecGetInitialInfo,
        EncGetInitialInfo, GetInitialInfo, DecBitBufferFlush,
        DecGiveCommand, EncGiveCommand, Call, Holds,
        DecRegisterFrameBuffer, EncRegisterFrameBuffer,
        RegisterFrameBuffer, client, DecClose, EncClose, Close,
        DecInfoEmpty, BriefLock, NoCall
  <1>6. CASE DecStartOneFrame(p) \/ EncStartOneFrame(p)
           \/ DecGetOutputInfo(p) \/ EncGetOutputInfo(p)
           \/ SWResetUnlock(p)
    BY <1>6
    DEF DecStartOneFrame, EncStartOneFrame, StartPicRun, LockVpu,
        BitIssueCommand, Holds, DecGetOutputInfo, EncGetOutputInfo,
        GetOutputInfo, UnlockVpu, hw, SWResetUnlock
  <1>7. CASE Crash(p)
    BY <1>7
    DEF Crash, NoCall
  <1> QED
    BY <1>1, <1>2, <1>3, <1>4, <1>5, <1>6, <1>7
    DEF Proceed, Ask

(* Whoever uses the VPU keeps the mutex.                                   *)
LEMMA HolderStep ==
  ASSUME TypeOK, Cold, Locked, HolderInside, Careful, Next
  PROVE  HolderInside'
  <1>0. ~stray' => ~stray
    BY FlagsStep
  <1> USE <1>0, OwnerAssumption, InstAssumption DEF TypeOK, Cold, Locked, HolderInside, MutexKept, Careful, Go
  <1> SUFFICES ASSUME NEW p \in Procs,
                      \/ Proceed(p) \/ Ask(p)
                      \/ OpenNoMemory(p) \/ DecInfoEmpty(p) \/ Crash(p)
               PROVE  HolderInside'
    BY DEF Next, Done, shm, client
  <1>1. CASE TimeOut(p)
    BY <1>1
    DEF TimeOut, IOSystemShutdown, Waiting, shm, hw, NoCall
  <1>2. CASE SemaphoreInit(p)
    BY <1>2
    DEF SemaphoreInit, hw
  <1>3. CASE IOSystemInitMap(p) \/ VpuInit(p) \/ ShutdownUnmap(p)
           \/ DecOpen(p) \/ EncOpen(p) \/ OpenSecond(p) \/ OpenNoMemory(p)
           \/ CloseQuietly(p) \/ SWReset(p) \/ SWResetFree(p)
    BY <1>3
    DEF IOSystemInitMap, VpuInit, ShutdownUnmap, BriefLock, hw, DecOpen,
        EncOpen, OpenFirst, OpenSecond, OpenNoMemory, FreeInstance, shm,
        CloseQuietly, SWReset, SWResetFree, FreeCodecInstance, NoCall
  <1>4. CASE Issue(p) \/ Finish(p)
    BY <1>4
    DEF Issue, LockVpu, BitIssueCommand, Finish, UnlockVpu,
        FreeCodecInstance, NoCall, hw
  <1>5. CASE IOSystemInit(p) \/ VpuUnInit(p) \/ Open(p)
           \/ SWResetIndex(p) \/ GiveUp(p) \/ GetVersionInfo(p)
           \/ DecGetInitialInfo(p) \/ EncGetInitialInfo(p)
           \/ DecBitBufferFlush(p) \/ DecGiveCommand(p)
           \/ EncGiveCommand(p) \/ DecRegisterFrameBuffer(p)
           \/ EncRegisterFrameBuffer(p) \/ DecClose(p) \/ EncClose(p)
           \/ DecInfoEmpty(p)
    BY <1>5
    DEF IOSystemInit, VpuUnInit, IOSystemShutdown, Open, SWResetIndex,
        GiveUp, shm, hw, GetVersionInfo, DecGetInitialInfo,
        EncGetInitialInfo, GetInitialInfo, DecBitBufferFlush,
        DecGiveCommand, EncGiveCommand, Call, Holds,
        DecRegisterFrameBuffer, EncRegisterFrameBuffer,
        RegisterFrameBuffer, client, DecClose, EncClose, Close,
        DecInfoEmpty, BriefLock, NoCall
  <1>6. CASE DecStartOneFrame(p) \/ EncStartOneFrame(p)
           \/ DecGetOutputInfo(p) \/ EncGetOutputInfo(p)
           \/ SWResetUnlock(p)
    BY <1>6
    DEF DecStartOneFrame, EncStartOneFrame, StartPicRun, LockVpu,
        BitIssueCommand, Holds, DecGetOutputInfo, EncGetOutputInfo,
        GetOutputInfo, UnlockVpu, hw, SWResetUnlock
  <1>7. CASE Crash(p)
    BY <1>7
    DEF Crash, NoCall
  <1> QED
    BY <1>1, <1>2, <1>3, <1>4, <1>5, <1>6, <1>7
    DEF Proceed, Ask

(* Handles stay distinct and good.                                         *)
LEMMA HandlesStep ==
  ASSUME TypeOK, Cold, HandlesDistinct, Next
  PROVE  HandlesDistinct'
  <1>0. ~stray' => ~stray
    BY FlagsStep
  <1> USE <1>0, OwnerAssumption, InstAssumption DEF TypeOK, Cold, HandlesDistinct, Go
  <1> SUFFICES ASSUME NEW p \in Procs,
                      \/ Proceed(p) \/ Ask(p)
                      \/ OpenNoMemory(p) \/ DecInfoEmpty(p) \/ Crash(p)
               PROVE  HandlesDistinct'
    BY DEF Next, Done, shm, client
  <1>1. CASE TimeOut(p)
    BY <1>1
    DEF TimeOut, IOSystemShutdown, Waiting, shm, hw, NoCall
  <1>2. CASE SemaphoreInit(p)
    BY <1>2
    DEF SemaphoreInit, hw
  <1>3. CASE IOSystemInitMap(p) \/ VpuInit(p) \/ ShutdownUnmap(p)
           \/ CloseQuietly(p) \/ SWReset(p) \/ SWResetFree(p)
    BY <1>3
    DEF IOSystemInitMap, VpuInit, ShutdownUnmap, BriefLock, hw,
        CloseQuietly, SWReset, SWResetFree, FreeCodecInstance, NoCall
  <1>4. CASE DecOpen(p) \/ EncOpen(p) \/ OpenSecond(p) \/ OpenNoMemory(p)
    <2>1. ASSUME NEW k \in Kinds, OpenFirst(p, k)
          PROVE  HandlesDistinct'
      BY <2>1, InstanceFresh DEF OpenFirst, BriefLock, FreeInstance, hw
    <2>2. CASE OpenSecond(p) \/ OpenNoMemory(p)
      BY <2>2 DEF OpenSecond, OpenNoMemory, BriefLock, shm, hw
    <2> QED
      BY <1>4, <2>1, <2>2 DEF DecOpen, EncOpen, Kinds
  <1>5. CASE Issue(p)
    BY <1>5
    DEF Issue, LockVpu, BitIssueCommand
  <1>6. CASE Finish(p)
    <2>1. hd' = hd \/ hd' = [hd EXCEPT ![p] = NoInst]
      BY <1>6 DEF Finish, FreeCodecInstance
    <2>2. CASE op[p] = "close"
      BY <1>6, <2>2 DEF Finish, FreeCodecInstance
    <2>3. CASE op[p] = "info"
      <3>1. PICK ok \in BOOLEAN : inst' = [inst EXCEPT ![hd[p]].info = ok]
        BY <1>6, <2>3 DEF Finish
      <3>2. hd' = hd
        BY <1>6, <2>3 DEF Finish
      <3>3. \A j \in Insts : inst'[j].used = inst[j].used
        BY <3>1, InstanceInfo
      <3> QED
        BY <3>2, <3>3
    <2>4. CASE op[p] \notin {"close", "info"}
      BY <1>6, <2>4 DEF Finish
    <2> QED
      BY <2>2, <2>3, <2>4
  <1>7. CASE IOSystemInit(p) \/ VpuUnInit(p) \/ Open(p)
           \/ SWResetIndex(p) \/ GiveUp(p) \/ GetVersionInfo(p)
           \/ DecGetInitialInfo(p) \/ EncGetInitialInfo(p)
           \/ DecBitBufferFlush(p) \/ DecGiveCommand(p)
           \/ EncGiveCommand(p) \/ DecClose(p) \/ EncClose(p)
           \/ DecInfoEmpty(p)
    BY <1>7
    DEF IOSystemInit, VpuUnInit, IOSystemShutdown, Open, SWResetIndex,
        GiveUp, shm, hw, GetVersionInfo, DecGetInitialInfo,
        EncGetInitialInfo, GetInitialInfo, DecBitBufferFlush,
        DecGiveCommand, EncGiveCommand, Call, Holds, DecClose, EncClose,
        Close, DecInfoEmpty, BriefLock, NoCall
  <1>8. CASE DecRegisterFrameBuffer(p) \/ EncRegisterFrameBuffer(p)
    <2>1. inst' = [inst EXCEPT ![hd[p]].bufs = TRUE] /\ hd' = hd
      BY <1>8 DEF DecRegisterFrameBuffer, EncRegisterFrameBuffer,
              RegisterFrameBuffer, Call, client
    <2>2. \A j \in Insts : inst'[j].used = inst[j].used
      BY <2>1, InstanceBufs
    <2> QED
      BY <2>1, <2>2
  <1>9. CASE DecStartOneFrame(p) \/ EncStartOneFrame(p)
           \/ DecGetOutputInfo(p) \/ EncGetOutputInfo(p)
           \/ SWResetUnlock(p)
    BY <1>9
    DEF DecStartOneFrame, EncStartOneFrame, StartPicRun, LockVpu,
        BitIssueCommand, Holds, DecGetOutputInfo, EncGetOutputInfo,
        GetOutputInfo, UnlockVpu, hw, SWResetUnlock
  <1>10. CASE Crash(p)
    BY <1>10
    DEF Crash, NoCall
  <1> QED
    BY <1>1, <1>2, <1>3, <1>4, <1>5, <1>6, <1>7, <1>8, <1>9, <1>10
    DEF Proceed, Ask

(* The command in the VPU stays that of the mutex's holder.                *)
LEMMA CommandStep ==
  ASSUME TypeOK, Cold, Locked, HolderInside, CommandOwner, Careful, Next
  PROVE  CommandOwner'
  <1>0. ~stray' => ~stray
    BY FlagsStep
  <1> USE <1>0, OwnerAssumption, InstAssumption DEF TypeOK, Cold, Locked, HolderInside, MutexKept, CommandOwner, Careful, Go
  <1> SUFFICES ASSUME NEW p \in Procs,
                      \/ Proceed(p) \/ Ask(p)
                      \/ OpenNoMemory(p) \/ DecInfoEmpty(p) \/ Crash(p)
               PROVE  CommandOwner'
    BY DEF Next, Done, shm, client
  <1>1. CASE TimeOut(p)
    BY <1>1
    DEF TimeOut, IOSystemShutdown, Waiting, shm, hw, NoCall
  <1>2. CASE SemaphoreInit(p)
    BY <1>2
    DEF SemaphoreInit, hw
  <1>3. CASE IOSystemInitMap(p) \/ VpuInit(p) \/ ShutdownUnmap(p)
           \/ DecOpen(p) \/ EncOpen(p) \/ OpenSecond(p) \/ OpenNoMemory(p)
           \/ CloseQuietly(p) \/ SWReset(p) \/ SWResetFree(p)
    BY <1>3
    DEF IOSystemInitMap, VpuInit, ShutdownUnmap, BriefLock, hw, DecOpen,
        EncOpen, OpenFirst, OpenSecond, OpenNoMemory, FreeInstance, shm,
        CloseQuietly, SWReset, SWResetFree, FreeCodecInstance, NoCall
  <1>4. CASE Issue(p) \/ Finish(p)
    BY <1>4
    DEF Issue, LockVpu, BitIssueCommand, Finish, UnlockVpu,
        FreeCodecInstance, NoCall, hw
  <1>5. CASE IOSystemInit(p) \/ VpuUnInit(p) \/ Open(p)
           \/ SWResetIndex(p) \/ GiveUp(p) \/ GetVersionInfo(p)
           \/ DecGetInitialInfo(p) \/ EncGetInitialInfo(p)
           \/ DecBitBufferFlush(p) \/ DecGiveCommand(p)
           \/ EncGiveCommand(p) \/ DecRegisterFrameBuffer(p)
           \/ EncRegisterFrameBuffer(p) \/ DecClose(p) \/ EncClose(p)
           \/ DecInfoEmpty(p)
    BY <1>5
    DEF IOSystemInit, VpuUnInit, IOSystemShutdown, Open, SWResetIndex,
        GiveUp, shm, hw, GetVersionInfo, DecGetInitialInfo,
        EncGetInitialInfo, GetInitialInfo, DecBitBufferFlush,
        DecGiveCommand, EncGiveCommand, Call, Holds,
        DecRegisterFrameBuffer, EncRegisterFrameBuffer,
        RegisterFrameBuffer, client, DecClose, EncClose, Close,
        DecInfoEmpty, BriefLock, NoCall
  <1>6. CASE DecGetOutputInfo(p) \/ EncGetOutputInfo(p)
           \/ SWResetUnlock(p)
    BY <1>6
    DEF DecGetOutputInfo, EncGetOutputInfo, GetOutputInfo, UnlockVpu, hw,
        SWResetUnlock
  <1>7. CASE DecStartOneFrame(p) \/ EncStartOneFrame(p)
    <2>1. CASE StartPicRun(p)
      BY <2>1 DEF StartPicRun, LockVpu, BitIssueCommand
    <2>2. CASE LockVpu(p) /\ UNCHANGED <<busy, by>>
      BY <2>2 DEF LockVpu
    <2> QED
      BY <1>7, <2>1, <2>2 DEF DecStartOneFrame, EncStartOneFrame
  <1>8. CASE Crash(p)
    BY <1>8
    DEF Crash, NoCall
  <1> QED
    BY <1>1, <1>2, <1>3, <1>4, <1>5, <1>6, <1>7, <1>8
    DEF Proceed, Ask

(* The pending frame stays that of the process that waits for it.          *)
LEMMA PendingStep ==
  ASSUME TypeOK, HolderInside, FramePending, Careful, Next
  PROVE  FramePending'
  <1>0. ~stray' => ~stray
    BY FlagsStep
  <1> USE <1>0, OwnerAssumption, InstAssumption DEF TypeOK, HolderInside, MutexKept, FramePending, Careful, Go
  <1> SUFFICES ASSUME NEW p \in Procs,
                      \/ Proceed(p) \/ Ask(p)
                      \/ OpenNoMemory(p) \/ DecInfoEmpty(p) \/ Crash(p)
               PROVE  FramePending'
    BY DEF Next, Done, shm, client
  <1>1. CASE TimeOut(p)
    BY <1>1
    DEF TimeOut, IOSystemShutdown, Waiting, shm, hw, NoCall
  <1>2. CASE SemaphoreInit(p)
    BY <1>2
    DEF SemaphoreInit, hw
  <1>3. CASE IOSystemInitMap(p) \/ VpuInit(p) \/ ShutdownUnmap(p)
           \/ DecOpen(p) \/ EncOpen(p) \/ OpenSecond(p) \/ OpenNoMemory(p)
           \/ CloseQuietly(p) \/ SWReset(p) \/ SWResetFree(p)
    BY <1>3
    DEF IOSystemInitMap, VpuInit, ShutdownUnmap, BriefLock, hw, DecOpen,
        EncOpen, OpenFirst, OpenSecond, OpenNoMemory, FreeInstance, shm,
        CloseQuietly, SWReset, SWResetFree, FreeCodecInstance, NoCall
  <1>4. CASE Issue(p) \/ Finish(p)
    BY <1>4
    DEF Issue, LockVpu, BitIssueCommand, Finish, UnlockVpu,
        FreeCodecInstance, NoCall, hw
  <1>5. CASE IOSystemInit(p) \/ VpuUnInit(p) \/ Open(p)
           \/ SWResetIndex(p) \/ GiveUp(p) \/ GetVersionInfo(p)
           \/ DecGetInitialInfo(p) \/ EncGetInitialInfo(p)
           \/ DecBitBufferFlush(p) \/ DecGiveCommand(p)
           \/ EncGiveCommand(p) \/ DecRegisterFrameBuffer(p)
           \/ EncRegisterFrameBuffer(p) \/ DecClose(p) \/ EncClose(p)
           \/ DecInfoEmpty(p)
    BY <1>5
    DEF IOSystemInit, VpuUnInit, IOSystemShutdown, Open, SWResetIndex,
        GiveUp, shm, hw, GetVersionInfo, DecGetInitialInfo,
        EncGetInitialInfo, GetInitialInfo, DecBitBufferFlush,
        DecGiveCommand, EncGiveCommand, Call, Holds,
        DecRegisterFrameBuffer, EncRegisterFrameBuffer,
        RegisterFrameBuffer, client, DecClose, EncClose, Close,
        DecInfoEmpty, BriefLock, NoCall
  <1>6. CASE DecStartOneFrame(p) \/ EncStartOneFrame(p)
           \/ DecGetOutputInfo(p) \/ EncGetOutputInfo(p)
           \/ SWResetUnlock(p)
    BY <1>6
    DEF DecStartOneFrame, EncStartOneFrame, StartPicRun, LockVpu,
        BitIssueCommand, Holds, DecGetOutputInfo, EncGetOutputInfo,
        GetOutputInfo, UnlockVpu, hw, SWResetUnlock
  <1>7. CASE Crash(p)
    BY <1>7
    DEF Crash, NoCall
  <1> QED
    BY <1>1, <1>2, <1>3, <1>4, <1>5, <1>6, <1>7
    DEF Proceed, Ask

-----------------------------------------------------------------------------
(* Every step keeps the invariant.                                         *)
LEMMA NextIInv == ASSUME IInv, Careful, [Next]_vars PROVE IInv'
  <1>1. CASE Next
    <2> USE <1>1 DEF IInv
    <2>1. inst' \in [Insts -> Instance]
      BY InstStep
    <2>2. TypeOK'
      <3>1. /\ ready' \in BOOLEAN /\ loaded' \in BOOLEAN /\ busy' \in BOOLEAN
            /\ stray' \in BOOLEAN
        BY FlagsStep
      <3>2. /\ lock' \in Procs \union {NoOne, Dead} /\ by' \in Procs \union {NoOne, Dead}
            /\ pending' \in Insts \union {NoInst}
        BY OwnersStep
      <3>3. pc' \in [Procs -> PCs] /\ op' \in [Procs -> Ops]
        BY PlacesStep
      <3>4. hd' \in [Procs -> Insts \union {NoInst}] /\ fd' \in [Procs -> BOOLEAN]
        BY HandleStep
      <3>5. active' \in [Procs -> 0 .. MaxActive] /\ crashes' \in 0 .. MaxCrashes
        BY CountedStep
      <3> QED
        BY <2>1, <3>1, <3>2, <3>3, <3>4, <3>5 DEF TypeOK
    <2>3. Counted' /\ Cold' /\ Locked'
      BY CountedStep, ColdStep, LockedStep
    <2>4. HolderInside' /\ HandlesDistinct'
      BY HolderStep, HandlesStep
    <2>5. CommandOwner' /\ FramePending'
      BY CommandStep, PendingStep
    <2> QED
      BY <2>2, <2>3, <2>4, <2>5
  <1>2. CASE UNCHANGED vars
    BY <1>2 DEF vars, shm, hw, client, IInv, TypeOK, Counted, Cold, Locked,
                HolderInside, MutexKept, HandlesDistinct, CommandOwner, FramePending
  <1> QED
    BY <1>1, <1>2

(* The inductive invariant holds in every behaviour of careful clients.    *)
THEOREM Invariance == ASSUME Careful PROVE Spec => []IInv
  <1>1. Init => IInv
    BY InitIInv
  <1>2. IInv /\ [Next]_vars => IInv'
    BY NextIInv
  <1> QED
    BY <1>1, <1>2, PTL DEF Spec

(* The variables keep their types, for any processes, instances and bounds.*)
THEOREM VpuTypeCorrect == ASSUME Careful PROVE Spec => []TypeOK
  <1>1. IInv => TypeOK
    BY DEF IInv
  <1> QED
    BY <1>1, Invariance, PTL

(* Whoever waits for a command or has a frame in the VPU has the mutex,    *)
(* whoever times out or dies (LockVpu, semaphore_wait, vpu_SWReset).       *)
THEOREM HolderAlwaysInside == ASSUME Careful PROVE Spec => []HolderInside
  <1>1. IInv => HolderInside
    BY DEF IInv
  <1> QED
    BY <1>1, Invariance, PTL

(* No two processes ever share a codec instance, and no handle outlives    *)
(* its instance (GetCodecInstance, FreeCodecInstance).                     *)
THEOREM HandlesAlwaysDistinct == ASSUME Careful PROVE Spec => []HandlesDistinct
  <1>1. IInv => HandlesDistinct
    BY DEF IInv
  <1> QED
    BY <1>1, Invariance, PTL

(* No command of a caller under the mutex is overrun by another's          *)
(* (BitIssueCommandEx).                                                    *)
THEOREM CommandAlwaysOwned == ASSUME Careful PROVE Spec => []CommandOwner
  <1>1. IInv => CommandOwner
    BY DEF IInv
  <1> QED
    BY <1>1, Invariance, PTL

(* A frame in the VPU is always the pending one, so that its output can be *)
(* fetched and the mutex given back (DecStartOneFrame, DecGetOutputInfo).  *)
THEOREM FrameAlwaysPending == ASSUME Careful PROVE Spec => []FramePending
  <1>1. IInv => FramePending
    BY DEF IInv
  <1> QED
    BY <1>1, Invariance, PTL
=============================================================================
