---------------------------- MODULE GpioPwmProofs ----------------------------
(***************************************************************************)
(* Proofs about GpioPwm: type correctness, and that a finished stop is     *)
(* final, for every interleaving of callbacks, work items and signals.     *)
(***************************************************************************)
EXTENDS GpioPwm, TLAPS

-----------------------------------------------------------------------------
(* The word of flags                                                       *)

SetPolarityTo(w, p) == [w EXCEPT !.polarity = p]

(* The words a change of w can give.                                       *)
Changes(w) ==
    {SetStop(w), ClearStop(w), ClearActive(w), SetRunning(w), ClearRunning(w)}
    \union {SetPolarityTo(w, p) : p \in BOOLEAN}

(* A change of a word is a word, and only two changes touch "running".     *)
LEMMA ChangesAreWords ==
    ASSUME NEW w \in Words, NEW v \in Changes(w)
    PROVE  /\ v \in Words
           /\ v \notin {SetRunning(w), ClearRunning(w)} => v.running = w.running
  <1>1. SetStop(w) \in Words /\ SetStop(w).running = w.running
    BY DEF Words, SetStop
  <1>2. ClearStop(w) \in Words /\ ClearStop(w).running = w.running
    BY DEF Words, ClearStop
  <1>3. ClearActive(w) \in Words /\ ClearActive(w).running = w.running
    BY DEF Words, ClearActive
  <1>4. SetRunning(w) \in Words /\ ClearRunning(w) \in Words
    BY DEF Words, SetRunning, ClearRunning
  <1>5. ASSUME NEW p \in BOOLEAN
        PROVE  SetPolarityTo(w, p) \in Words /\ SetPolarityTo(w, p).running = w.running
    BY DEF Words, SetPolarityTo
  <1> QED
    BY <1>1, <1>2, <1>3, <1>4, <1>5 DEF Changes

(* The two changes of "running" do what they say.                          *)
LEMMA RunningChanges ==
    ASSUME NEW w \in Words
    PROVE  SetRunning(w).running = TRUE /\ ClearRunning(w).running = FALSE
  BY DEF Words, SetRunning, ClearRunning

(* Storing a word makes it the flags.                                      *)
LEMMA StoreTyped ==
    ASSUME NEW w \in Words, Store(w)
    PROVE  Word' \in Words /\ running' = w.running
  <1>1. /\ w.active \in 0 .. 1 /\ w.stop \in BOOLEAN
        /\ w.running \in BOOLEAN /\ w.polarity \in BOOLEAN
    BY DEF Words
  <1>2. /\ active' \in 0 .. 1 /\ stop' \in BOOLEAN
        /\ running' \in BOOLEAN /\ polarity' \in BOOLEAN
    BY <1>1 DEF Store
  <1>3. Word' \in Words
    BY <1>2 DEF Words, Word
  <1> QED
    BY <1>3 DEF Store

(* One of the two steps of a change to v.                                  *)
Modified(v) ==
    \/ held = None /\ held' = Word /\ UNCHANGED flags
    \/ held # None /\ Store(v) /\ held' = None

(* A word in the process's hands or in the chip stays a word.              *)
WordsTyped == Word \in Words /\ held \in Words \union {None}

(* Neither step of a change makes anything else of it.                     *)
LEMMA ModifiedTyped ==
    ASSUME WordsTyped, NEW v, held # None => v \in Changes(held), Modified(v)
    PROVE  WordsTyped'
  <1>1. CASE held = None
    BY <1>1 DEF Modified, WordsTyped, Word, flags
  <1>2. CASE held # None
    BY <1>2, ChangesAreWords, StoreTyped DEF Modified, WordsTyped
  <1> QED
    BY <1>1, <1>2

-----------------------------------------------------------------------------
(* Type correctness                                                        *)

(* A step that changes a flag and no more keeps the types.                 *)
LEMMA ModifyTyped ==
    ASSUME TypeOK, NEW v \in Changes(held), Modified(v),
           UNCHANGED <<duty, clock, hardware, core>>,
           pc' \in {pc, "show", "passive", "arm", "idle", "begin", "wait", "gone"}
    PROVE  TypeOK'
  <1>1. WordsTyped'
    BY ModifiedTyped DEF TypeOK, WordsTyped
  <1> QED
    BY <1>1 DEF TypeOK, WordsTyped, clock, hardware, core

(* The places where the process changes a flag.                      *)
Changing(v) ==
    \/ Modify("enable", ClearStop, "passive") /\ v = ClearStop(held)
    \/ Modify("passive", ClearActive, "arm") /\ v = ClearActive(held)
    \/ Modify("run", SetRunning, "idle") /\ v = SetRunning(held)
    \/ Modify("disable", SetStop, "begin") /\ v = SetStop(held)
    \/ Modify("set", SetStop, "wait") /\ v = SetStop(held)
    \/ StopEnd /\ v = ClearRunning(held)
    \/ \E p \in BOOLEAN :
          /\ Modify("polarity", LAMBDA w : [w EXCEPT !.polarity = p], "show")
          /\ v = SetPolarityTo(held, p)

(* What they have in common.                                               *)
LEMMA ChangingSteps ==
    ASSUME NEW v, Changing(v)
    PROVE  /\ v \in Changes(held)
           /\ Modified(v)
           /\ UNCHANGED <<duty, clock, hardware, core>>
           /\ pc' \in {pc, "show", "passive", "arm", "idle", "begin", "wait", "gone"}
           /\ ~again
  <1>1. CASE Modify("enable", ClearStop, "passive") /\ v = ClearStop(held)
    BY <1>1 DEF Modify, Modified, Changes, At, Goto, flags
  <1>2. CASE Modify("passive", ClearActive, "arm") /\ v = ClearActive(held)
    BY <1>2 DEF Modify, Modified, Changes, At, Goto, flags
  <1>3. CASE Modify("run", SetRunning, "idle") /\ v = SetRunning(held)
    BY <1>3 DEF Modify, Modified, Changes, At, Goto, flags
  <1>4. CASE Modify("disable", SetStop, "begin") /\ v = SetStop(held)
    BY <1>4 DEF Modify, Modified, Changes, At, Goto, flags
  <1>5. CASE Modify("set", SetStop, "wait") /\ v = SetStop(held)
    BY <1>5 DEF Modify, Modified, Changes, At, Goto, flags
  <1>6. CASE StopEnd /\ v = ClearRunning(held)
    BY <1>6 DEF StopEnd, Modify, Modified, Changes, At, Goto, flags
  <1>7. ASSUME NEW p \in BOOLEAN,
               Modify("polarity", LAMBDA w : [w EXCEPT !.polarity = p], "show"),
               v = SetPolarityTo(held, p)
        PROVE  /\ v \in Changes(held)
               /\ Modified(v)
               /\ UNCHANGED <<duty, clock, hardware, core>>
               /\ pc' \in {pc, "show"}
               /\ ~again
    BY <1>7 DEF Modify, Modified, Changes, SetPolarityTo, At, Goto, flags
  <1> QED
    BY <1>1, <1>2, <1>3, <1>4, <1>5, <1>6, <1>7 DEF Changing

(* A step of the process that stores nothing leaves the flags and the      *)
(* loaded word.                                                            *)
LEMMA OtherSteps ==
    ASSUME TypeOK, Next, ~ \E v : Changing(v), ~Timeout
    PROVE  TypeOK' /\ UNCHANGED <<flags, held>>
  <1> DEFINE PCs == {"idle", "config", "polarity", "show",
                     "enable", "passive", "arm", "run",
                     "disable", "begin", "init", "set", "wait", "test",
                     "cancel", "flush", "stopped", "gone"}
  <1>1. ASSUME UNCHANGED <<flags, held>>,
               duty' \in {"zero", "part", "full"},
               timer' \in BOOLEAN, again' \in BOOLEAN, done' \in BOOLEAN,
               work' \in BOOLEAN, writing' \in BOOLEAN \union {None},
               pin' \in BOOLEAN, sleeps' \in BOOLEAN, enabled' \in BOOLEAN,
               removing' \in BOOLEAN, pc' \in PCs
        PROVE  TypeOK' /\ UNCHANGED <<flags, held>>
    BY <1>1 DEF TypeOK, Word, flags
  <1>2. CASE Config
    BY <1>1, <1>2 DEF Config, TypeOK, Goto, clock, hardware, core
  <1>3. CASE SetPolarity
    <2>1. /\ UNCHANGED <<flags, held, duty, clock, work, writing, core>>
          /\ pin' \in BOOLEAN
          /\ pc' \in {"polarity", "idle"}
      BY <1>3 DEF SetPolarity, Changing, TypeOK, Level, hardware, Goto
    <2> QED
      BY <1>1, <2>1 DEF PCs, TypeOK, clock, core
  <1>4. CASE Enable \/ Disable \/ Remove
    <2>1. /\ UNCHANGED <<flags, held, duty, again, done, hardware, sleeps>>
          /\ timer' \in BOOLEAN
          /\ enabled' \in BOOLEAN
          /\ removing' \in BOOLEAN
          /\ pc' \in {"enable", "run", "disable", "begin"}
      BY <1>4 DEF Enable, Disable, Remove, Changing, TypeOK, Goto, clock, core
    <2> QED
      BY <1>1, <2>1 DEF PCs, TypeOK, hardware
  <1>5. CASE StopSync \/ StopSignal
    <2>1. /\ UNCHANGED <<flags, held, duty, again, writing, pin, core>>
          /\ timer' \in BOOLEAN
          /\ done' \in BOOLEAN
          /\ work' \in BOOLEAN
          /\ pc' \in PCs
      BY <1>5 DEF PCs, TypeOK, StopSync, StopSignal, StopBegin, StopRequest, StopWait, StopTest,
                  StopCancel, Cancelled, StopFlush, Changing, Goto, clock, hardware
    <2> QED
      BY <1>1, <2>1 DEF PCs, TypeOK, core
  <1>6. CASE WorkBegin \/ WorkEnd
    <2>1. /\ UNCHANGED <<flags, held, duty, clock, core, pc>>
          /\ work' \in BOOLEAN
          /\ writing' \in BOOLEAN \union {None}
          /\ pin' \in BOOLEAN
      BY <1>6 DEF WorkBegin, WorkEnd, TypeOK, Level
    <2> QED
      BY <1>1, <2>1 DEF PCs, TypeOK, clock, core
  <1> QED
    BY <1>2, <1>3, <1>4, <1>5, <1>6 DEF Next

(* A callback stores flags of their types.                                 *)
LEMMA TimeoutTyped ==
    ASSUME TypeOK, Timeout
    PROVE  TypeOK'
  <1>1. active \in 0 .. 1 /\ stop \in BOOLEAN /\ running \in BOOLEAN
          /\ polarity \in BOOLEAN
    BY DEF TypeOK, Word, Words
  <1>2. active' \in 0 .. 1 /\ stop' = FALSE /\ UNCHANGED <<running, polarity>>
    BY <1>1 DEF Timeout, Toggled
  <1>3. Word' \in Words
    BY <1>1, <1>2 DEF Word, Words
  <1>4. work' \in BOOLEAN /\ pin' \in BOOLEAN
    BY DEF Timeout, TypeOK, Level
  <1>5. timer' \in BOOLEAN /\ again' \in BOOLEAN /\ done' \in BOOLEAN
    BY <1>1 DEF Timeout, TypeOK, TimerAfter
  <1>6. UNCHANGED <<held, duty, writing, core, pc>>
    BY DEF Timeout
  <1> QED
    BY <1>3, <1>4, <1>5, <1>6 DEF TypeOK, core

(* Every variable keeps its type.                                          *)
THEOREM TypeCorrect == Spec => []TypeOK
  <1>1. Init => TypeOK
    <2>1. Init => active \in 0 .. 1
      BY DEF Init
    <2>2. Init => stop \in BOOLEAN /\ running \in BOOLEAN /\ polarity \in BOOLEAN
      BY DEF Init
    <2>3. Init => Word \in Words
      BY <2>1, <2>2 DEF Word, Words
    <2> QED
      BY <2>3 DEF Init, TypeOK
  <1>2. ASSUME TypeOK, [Next]_vars PROVE TypeOK'
    <2>1. CASE UNCHANGED vars
      BY <1>2, <2>1 DEF vars, TypeOK, Word, flags, clock, hardware, core
    <2>2. CASE Timeout
      BY <1>2, <2>2, TimeoutTyped
    <2>3. ASSUME NEW v, Changing(v) PROVE TypeOK'
      BY <1>2, <2>3, ChangingSteps, ModifyTyped
    <2> QED
      BY <1>2, <2>1, <2>2, <2>3, OtherSteps
  <1> QED
    BY <1>1, <1>2, PTL DEF Spec

-----------------------------------------------------------------------------
(* A finished stop is final                                                *)

(* What a change does to "running", and where.                             *)
LEMMA RunningInPlace ==
    ASSUME NEW v, Changing(v), held \in Words
    PROVE  \/ v.running = TRUE
           \/ v.running = FALSE /\ pc = "stopped"
           \/ v.running = held.running /\ pc # "run"
  <1>1. CASE Modify("enable", ClearStop, "passive") /\ v = ClearStop(held)
    BY <1>1 DEF Modify, At, ClearStop, Words
  <1>2. CASE Modify("passive", ClearActive, "arm") /\ v = ClearActive(held)
    BY <1>2 DEF Modify, At, ClearActive, Words
  <1>3. CASE Modify("run", SetRunning, "idle") /\ v = SetRunning(held)
    BY <1>3, RunningChanges
  <1>4. CASE Modify("disable", SetStop, "begin") /\ v = SetStop(held)
    BY <1>4 DEF Modify, At, SetStop, Words
  <1>5. CASE Modify("set", SetStop, "wait") /\ v = SetStop(held)
    BY <1>5 DEF Modify, At, SetStop, Words
  <1>6. CASE StopEnd /\ v = ClearRunning(held)
    BY <1>6, RunningChanges DEF StopEnd, Modify, At
  <1>7. ASSUME NEW p \in BOOLEAN,
               Modify("polarity", LAMBDA w : [w EXCEPT !.polarity = p], "show"),
               v = SetPolarityTo(held, p)
        PROVE  v.running = held.running /\ pc # "run"
    BY <1>7 DEF Modify, At, SetPolarityTo, Words
  <1> QED
    BY <1>1, <1>2, <1>3, <1>4, <1>5, <1>6, <1>7 DEF Changing

(* Until the word is stored the process stays where it is.                 *)
LEMMA LoadStays ==
    ASSUME NEW v, Changing(v), held = None
    PROVE  pc' = pc /\ UNCHANGED flags /\ held' = Word
  BY DEF Changing, StopEnd, Modify, flags

(* A change to the flags: the invariant holds because what was loaded of   *)
(* "running" is what is stored, but for the two changes that mean it.      *)
LEMMA ChangingKeepsIInv ==
    ASSUME TypeOK, IInv, NEW v, Changing(v)
    PROVE  IInv'
  <1>1. /\ v \in Changes(held)
        /\ Modified(v)
        /\ UNCHANGED <<timer, again, work, writing>>
        /\ pc' \in {pc, "show", "passive", "arm", "idle", "begin", "wait", "gone"}
    BY ChangingSteps DEF clock, hardware
  <1>2. Quiet' <=> Quiet
    BY <1>1 DEF Quiet
  <1>3. CASE held = None
    <2>1. pc' = pc /\ running' = running /\ held' = Word
      BY <1>3, LoadStays DEF flags
    <2>2. Word.running = running
      BY DEF TypeOK, Word, Words
    <2> QED
      BY <1>1, <1>2, <2>1, <2>2 DEF IInv
  <1>4. CASE held # None
    <2>1. held \in Words /\ held' = None
      BY <1>1, <1>4 DEF TypeOK, Modified
    <2>2. running' = v.running
      BY <1>1, <1>4, <2>1, ChangesAreWords, StoreTyped DEF Modified
    <2>3. ~running' /\ pc' # "run" => Quiet'
      BY <1>2, <1>4, <2>1, <2>2, RunningInPlace DEF IInv
    <2> QED
      BY <1>1, <1>2, <2>1, <2>3 DEF IInv
  <1> QED
    BY <1>3, <1>4

(* A callback finds the timer running, and leaves it so.                   *)
LEMMA TimeoutKeepsIInv ==
    ASSUME TypeOK, IInv, Timeout
    PROVE  IInv'
  <1>1. timer /\ timer' /\ UNCHANGED <<running, held, pc>>
    BY DEF Timeout, TimerAfter
  <1>2. pc \notin {"flush", "stopped"} /\ (running \/ pc = "run")
    BY <1>1 DEF IInv, Quiet
  <1> QED
    BY <1>1, <1>2 DEF IInv

(* The other steps, one by one.                                            *)
LEMMA OtherStepsKeepIInv ==
    ASSUME TypeOK, IInv, Next, ~ \E v : Changing(v), ~Timeout
    PROVE  IInv'
  <1>1. UNCHANGED <<running, held>>
    BY OtherSteps DEF flags
  <1>2. CASE Config \/ SetPolarity \/ Disable \/ Remove \/ StopSignal
    <2>1. UNCHANGED <<timer, again, work, writing>>
      BY <1>2 DEF Config, SetPolarity, Disable, Remove, StopSignal, Changing,
                  clock, hardware
    <2>2. pc # "run" /\ pc' \notin {"flush", "stopped", "run"}
      BY <1>2 DEF Config, SetPolarity, Disable, Remove, StopSignal, Changing, At, Goto
    <2> QED
      BY <1>1, <2>1, <2>2 DEF IInv, Quiet
  <1>3. CASE Enable
    <2>1. UNCHANGED <<again, work, writing>>
      BY <1>3 DEF Enable, Changing, clock, hardware
    <2>2. \/ pc # "run" /\ pc' = "enable" /\ timer' = timer
          \/ pc' = "run" /\ timer' = TRUE
      BY <1>3 DEF Enable, Changing, At, Goto, clock
    <2> QED
      BY <1>1, <2>1, <2>2 DEF IInv, Quiet
  <1>4. CASE StopBegin \/ StopRequest \/ StopWait \/ StopTest
    <2>1. UNCHANGED <<timer, again, work, writing>>
      BY <1>4 DEF StopBegin, StopRequest, StopWait, StopTest, Changing,
                  clock, hardware
    <2>2. pc # "run" /\ pc' \notin {"flush", "stopped", "run"}
      BY <1>4 DEF StopBegin, StopRequest, StopWait, StopTest, Changing, At, Goto
    <2> QED
      BY <1>1, <2>1, <2>2 DEF IInv, Quiet
  <1>5. CASE StopCancel
    BY <1>1, <1>5 DEF StopCancel, Cancelled, IInv, Quiet, At, Goto, hardware
  <1>6. CASE StopFlush
    BY <1>1, <1>6 DEF StopFlush, IInv, Quiet, At, Goto, clock
  <1>7. CASE WorkBegin \/ WorkEnd
    <2>1. UNCHANGED <<timer, again, pc>> /\ ~Quiet
      BY <1>7 DEF WorkBegin, WorkEnd, Quiet, clock
    <2> QED
      BY <1>1, <2>1 DEF IInv
  <1>8. ~StopEnd
    BY DEF Changing
  <1> QED
    BY <1>2, <1>3, <1>4, <1>5, <1>6, <1>7, <1>8 DEF Next, StopSync

(* The inductive invariant.                                                *)
THEOREM Invariance == Spec => []IInv
  <1>1. Init => IInv
    BY DEF Init, IInv, Quiet
  <1>2. ASSUME TypeOK, IInv, [Next]_vars PROVE IInv'
    <2>1. CASE UNCHANGED vars
      BY <1>2, <2>1 DEF vars, flags, clock, hardware, IInv, Quiet
    <2>2. CASE Timeout
      BY <1>2, <2>2, TimeoutKeepsIInv
    <2>3. ASSUME NEW v, Changing(v) PROVE IInv'
      BY <1>2, <2>3, ChangingKeepsIInv
    <2> QED
      BY <1>2, <2>1, <2>2, <2>3, OtherStepsKeepIInv
  <1> QED
    BY <1>1, <1>2, TypeCorrect, PTL DEF Spec

(* Once gpio_pwm_stop_sync has run to its end, no callback and no work     *)
(* item touches the pin or the chip, whatever races came before.           *)
THEOREM StoppedForGood == Spec => []StopIsFinal
  <1>1. IInv => StopIsFinal
    BY DEF IInv, StopIsFinal
  <1> QED
    BY <1>1, Invariance, PTL

=============================================================================
