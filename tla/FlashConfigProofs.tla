-------------------------- MODULE FlashConfigProofs --------------------------
(***************************************************************************)
(* For any set of configurations and any bound on the generation: while    *)
(* one session of xconfig runs at a time, no interruption and no failed    *)
(* write costs the newest configuration.                                   *)
(***************************************************************************)
EXTENDS FlashConfig, TLAPS

(* There are two copies, and the target is one of them.                    *)
LEMMA CopyFacts ==
    /\ Copies = {1, 2}
    /\ Other(1) = 2 /\ Other(2) = 1
    /\ \A bs : Target(bs) \in {1, 2}
  BY DEF Copies, Other, Target

(* What a write leaves on the target, and what it leaves alone.            *)
LEMMA GarbageBlock ==
    ASSUME flash \in [Copies -> Blocks], NEW t \in Copies, NEW k \in Garbage
    PROVE  LET g == [flash EXCEPT ![t].kind = k]
           IN  /\ g \in [Copies -> Blocks]
               /\ g[t].kind = k /\ ~Good(g[t])
               /\ g[Other(t)] = flash[Other(t)]
  BY CopyFacts DEF Blocks, Garbage, Good

(***************************************************************************)
(* The inductive invariant, action by action, for the one session P.       *)
(***************************************************************************)

LEMMA InitInv ==
    ASSUME Init PROVE TypeOK /\ IInv
  <1>1. flash \in [Copies -> Blocks]
    BY ConfigAssumption DEF Init, Blocks
  <1>2. \A c \in Copies : Good(flash[c])
    BY DEF Init, Good
  <1>3. TypeOK
    BY <1>1, ConfigAssumption DEF Init, TypeOK, TreeGens
  <1>4. SeenIsCurrent
    BY ConfigAssumption DEF Init, SeenIsCurrent
  <1> QED
    BY <1>2, <1>3, <1>4 DEF Init, IInv, AlwaysOneGood, Copies

(* Reading: what has been read is what the partitions hold.                *)
LEMMA ReadInv ==
    ASSUME NEW P, Procs = {P}, TypeOK, IInv,
           Start(P) \/ ReadCopy(P) \/ Load(P) \/ Quit(P)
    PROVE  TypeOK' /\ IInv'
  <1> USE DEF TypeOK, SeenIsCurrent
  <1>1. flash' = flash /\ edit' = edit /\ tree' = tree
    BY DEF Start, ReadCopy, Load, Quit
  <1>2. CASE Start(P)
    <2>1. pc'[P] = "scan" /\ seen'[P] = <<>> /\ pc[P] \in {"idle", "refused"}
      BY <1>2 DEF Start
    <2>2. TypeOK'
      BY <1>1, <1>2 DEF Start
    <2>3. SeenIsCurrent'
      BY <1>1, <2>1 DEF IInv
    <2> QED
      BY <1>1, <2>2, <2>3 DEF IInv, AlwaysOneGood
  <1>3. CASE ReadCopy(P)
    <2> DEFINE n == Len(seen[P]) + 1
    <2>1. n \in Copies /\ seen[P] \in Seq(Blocks) /\ flash[n] \in Blocks
      BY <1>3 DEF ReadCopy, Copies
    <2>2. seen'[P] = Append(seen[P], flash[n]) /\ pc[P] = "scan"
          /\ seen' \in [Procs -> Seq(Blocks)]
      BY <1>3, <2>1 DEF ReadCopy
    <2>3. pc'[P] \in {"scan", "refused"} /\ pc' \in [Procs -> {"idle", "scan", "loaded", "writing", "refused"}]
      BY <1>3 DEF ReadCopy
    <2>4. Len(seen'[P]) = n /\ \A i \in 1 .. n : seen'[P][i] = flash[i]
      BY <2>1, <2>2 DEF IInv
    <2>5. TypeOK'
      BY <1>1, <2>2, <2>3
    <2>6. SeenIsCurrent'
      BY <1>1, <2>1, <2>2, <2>3, <2>4 DEF IInv, Copies
    <2> QED
      BY <1>1, <2>5, <2>6 DEF IInv, AlwaysOneGood
  <1>4. CASE Load(P)
    <2>1. /\ pc[P] = "scan" /\ Len(seen[P]) = 2 /\ seen' = seen
          /\ \/ pc'[P] = "refused"
             \/ pc'[P] = "loaded" /\ Good(seen[P][1]) /\ Good(seen[P][2])
      <3>1. CASE Usable(seen[P])
        BY <1>4, <3>1 DEF Load, Usable
      <3>2. CASE ~Usable(seen[P])
        BY <1>4, <3>2 DEF Load
      <3> QED
        BY <3>1, <3>2
    <2>2. seen[P][1] = flash[1] /\ seen[P][2] = flash[2]
      <3>1. \A i \in 1 .. 2 : seen[P][i] = flash[i]
        BY <2>1 DEF IInv
      <3> QED
        BY <3>1
    <2>3. TypeOK'
      BY <1>1, <1>4 DEF Load
    <2>4. SeenIsCurrent'
      BY <1>1, <2>1, <2>2 DEF IInv
    <2> QED
      BY <1>1, <2>3, <2>4 DEF IInv, AlwaysOneGood
  <1>5. CASE Quit(P)
    <2>1. pc[P] = "loaded" /\ pc'[P] = "idle" /\ seen' = seen
      BY <1>5 DEF Quit
    <2>2. TypeOK'
      BY <1>1, <1>5 DEF Quit
    <2>3. SeenIsCurrent'
      BY <1>1, <2>1 DEF IInv
    <2> QED
      BY <1>1, <2>2, <2>3 DEF IInv, AlwaysOneGood
  <1> QED
    BY <1>2, <1>3, <1>4, <1>5

(* Writing: the copy that is not the target stays as the session read it,  *)
(* good, and not older than the target was.                                *)
LEMMA WriteInv ==
    ASSUME NEW P, Procs = {P}, TypeOK, IInv,
           WriteBegin(P) \/ WriteEnd(P) \/ WriteFail(P)
    PROVE  TypeOK' /\ IInv'
  <1> DEFINE t == Target(seen[P])
             o == Other(t)
  <1> USE DEF TypeOK
  <1>1. /\ t \in Copies /\ o \in Copies /\ o # t /\ Other(o) = t /\ Copies = {t, o}
        /\ pc[P] \in {"loaded", "writing"} /\ seen' = seen
        /\ Len(seen[P]) = 2 /\ Good(seen[P][1]) /\ Good(seen[P][2])
    BY CopyFacts DEF WriteBegin, Edits, WriteEnd, WriteFail, IInv, SeenIsCurrent
  <1>2. seen[P][o] = flash[o] /\ Good(flash[o]) /\ flash[o] \in Blocks
    BY <1>1, CopyFacts DEF IInv, SeenIsCurrent, WriteBegin, Edits, WriteEnd, WriteFail
  <1>3. tree[P] \in 0 .. MaxGen - 1 /\ tree' \in [Procs -> TreeGens]
    BY ConfigAssumption DEF WriteBegin, EditedGens, WriteEnd, WriteFail, TreeGens
  <1>4. CASE WriteBegin(P)
    <2>1. PICK k \in Garbage : flash' = [flash EXCEPT ![t].kind = k]
      BY <1>4 DEF WriteBegin, Edits
    <2>2. flash' \in [Copies -> Blocks] /\ flash'[t].kind = k /\ ~Good(flash'[t])
          /\ flash'[o] = flash[o]
      BY <1>1, <2>1, GarbageBlock
    <2>3. pc'[P] = "writing" /\ edit'[P] \in Configs
      BY <1>4 DEF WriteBegin, Edits
    <2>4. TypeOK'
      BY <1>1, <1>3, <1>4, <2>2 DEF WriteBegin, Edits
    <2>5. SeenIsCurrent'
      BY <1>1, <1>2, <2>1, <2>2, <2>3 DEF SeenIsCurrent
    <2> QED
      BY <1>1, <1>2, <2>2, <2>4, <2>5, CopyFacts DEF IInv, AlwaysOneGood
  <1>5. CASE WriteEnd(P)
    <2> DEFINE b(k) == [kind |-> k, gen |-> NewGen(tree[P]), cfg |-> edit[P]]
    <2>1. PICK k \in {"good", "untagged"} : flash' = [flash EXCEPT ![t] = b(k)]
      BY <1>5 DEF WriteEnd
    <2>2. edit[P] \in Configs
      BY <1>5 DEF WriteEnd, IInv, SeenIsCurrent
    <2>3. NewGen(tree[P]) \in 0 .. MaxGen
      BY <1>3, ConfigAssumption DEF NewGen
    <2>4. b(k) \in Blocks
      BY <2>2, <2>3 DEF Blocks
    <2>5. flash' \in [Copies -> Blocks] /\ flash'[t] = b(k) /\ flash'[o] = flash[o]
      BY <1>1, <2>1, <2>4
    <2>6. pc'[P] = "idle" /\ edit'[P] = NoConfig /\ NoConfig \notin Configs
      BY <1>5, ConfigAssumption DEF WriteEnd
    <2>7. TypeOK'
      BY <1>1, <1>3, <1>5, <2>5 DEF WriteEnd
    <2>8. SeenIsCurrent'
      BY <1>1, <2>6 DEF SeenIsCurrent
    <2> QED
      BY <1>1, <1>2, <2>5, <2>7, <2>8 DEF IInv, AlwaysOneGood
  <1>6. CASE WriteFail(P)
    <2>1. PICK k \in Garbage : flash' = [flash EXCEPT ![t].kind = k]
      BY <1>6 DEF WriteFail
    <2>2. flash' \in [Copies -> Blocks] /\ ~Good(flash'[t]) /\ flash'[o] = flash[o]
      BY <1>1, <2>1, GarbageBlock
    <2>3. pc'[P] = "idle" /\ edit'[P] = NoConfig /\ NoConfig \notin Configs
      BY <1>6, ConfigAssumption DEF WriteFail
    <2>4. TypeOK'
      BY <1>1, <1>3, <1>6, <2>2 DEF WriteFail
    <2>5. SeenIsCurrent'
      BY <1>1, <2>3 DEF SeenIsCurrent
    <2> QED
      BY <1>1, <1>2, <2>2, <2>4, <2>5, CopyFacts DEF IInv, AlwaysOneGood
  <1> QED
    BY <1>4, <1>5, <1>6

LEMMA NextInv ==
    ASSUME NEW P, Procs = {P}, TypeOK, IInv, [Next]_vars
    PROVE  TypeOK' /\ IInv'
  <1>1. CASE \E p \in Procs : Session(p)
    BY <1>1, ReadInv, WriteInv DEF Session
  <1>2. CASE PowerLoss
    <2>1. flash' = flash /\ pc'[P] = "idle" /\ edit'[P] = NoConfig /\ NoConfig \notin Configs
      BY <1>2, ConfigAssumption DEF PowerLoss
    <2>2. TypeOK'
      BY <1>2, ConfigAssumption DEF PowerLoss, TypeOK, TreeGens
    <2>3. SeenIsCurrent'
      BY <2>1 DEF SeenIsCurrent
    <2> QED
      BY <2>1, <2>2, <2>3 DEF IInv, AlwaysOneGood
  <1>3. CASE UNCHANGED vars
    BY <1>3 DEF vars, TypeOK, IInv, SeenIsCurrent, AlwaysOneGood
  <1> QED
    BY <1>1, <1>2, <1>3 DEF Next

(* With one session at a time, what a session has read stays true until it *)
(* has written, whatever generation it writes, and one copy is good.       *)
THEOREM Invariance ==
    ASSUME NEW P, Procs = {P}
    PROVE  Spec => [](TypeOK /\ IInv)
  <1>1. Init => TypeOK /\ IInv
    BY InitInv
  <1>2. TypeOK /\ IInv /\ [Next]_vars => (TypeOK /\ IInv)'
    BY NextInv
  <1> QED
    BY <1>1, <1>2, PTL DEF Spec

(***************************************************************************)
(* What the redundancy promises.                                           *)
(***************************************************************************)

(* Whatever is interrupted, and whatever write fails, a good copy is left. *)
THEOREM NeverWithoutCopy ==
    ASSUME NEW P, Procs = {P}
    PROVE  Spec => []AlwaysOneGood
  <1>1. IInv => AlwaysOneGood
    BY DEF IInv
  <1> QED
    BY <1>1, Invariance, PTL

(* A good copy is only ever given up for a write while the other one is    *)
(* good and at least as new.                                               *)
LEMMA EraseStep ==
    ASSUME NEW P, Procs = {P}, TypeOK, IInv, [Next]_vars,
           NEW c \in Copies, Good(flash[c]), ~Good(flash'[c])
    PROVE  Good(flash[Other(c)]) /\ flash[Other(c)].gen >= flash[c].gen
  <1> DEFINE t == Target(seen[P])
  <1>1. t \in Copies /\ Other(t) \in Copies /\ Copies = {t, Other(t)} /\ flash \in [Copies -> Blocks]
    BY CopyFacts DEF TypeOK
  <1>2. CASE WriteBegin(P)
    <2>1. seen[P][1] = flash[1] /\ seen[P][2] = flash[2] /\ Good(flash[1]) /\ Good(flash[2])
      BY <1>2 DEF WriteBegin, Edits, IInv, SeenIsCurrent
    <2>2. flash'[Other(t)] = flash[Other(t)]
      BY <1>1, <1>2, CopyFacts DEF WriteBegin, Edits
    <2>3. c = t
      BY <1>1, <2>1, <2>2
    <2>4. flash[1].gen \in Nat /\ flash[2].gen \in Nat
      BY <1>1, CopyFacts, ConfigAssumption DEF Blocks
    <2> QED
      BY <2>1, <2>3, <2>4, CopyFacts DEF Target
  <1>3. CASE WriteEnd(P) \/ WriteFail(P)
    <2>1. ~Good(flash[t])
      BY <1>3 DEF WriteEnd, WriteFail, IInv, SeenIsCurrent, Good, Garbage
    <2>2. flash'[Other(t)] = flash[Other(t)]
      <3>1. CASE WriteEnd(P)
        BY <1>1, <3>1, CopyFacts DEF WriteEnd
      <3>2. CASE WriteFail(P)
        BY <1>1, <3>2, CopyFacts DEF WriteFail
      <3> QED
        BY <1>3, <3>1, <3>2
    <2> QED
      BY <1>1, <2>1, <2>2
  <1>4. CASE UNCHANGED flash
    BY <1>4
  <1> QED
    BY <1>2, <1>3, <1>4
    DEF Next, Session, Start, ReadCopy, Load, Quit, PowerLoss, vars

THEOREM NewestIsKept ==
    ASSUME NEW P, Procs = {P}
    PROVE  Spec => NeverErasesNewest
  <1>1. TypeOK /\ IInv /\ [Next]_vars =>
            [\A c \in Copies :
                Good(flash[c]) /\ ~Good(flash'[c]) =>
                    Good(flash[Other(c)]) /\ flash[Other(c)].gen >= flash[c].gen]_vars
    BY EraseStep
  <1> QED
    BY <1>1, Invariance, PTL DEF Spec, NeverErasesNewest

(***************************************************************************)
(* The two copies implement an atomic register.                            *)
(***************************************************************************)

LEMMA OnePending ==
    ASSUME NEW P, Procs = {P}
    PROVE  Pending = edit[P] /\ Pending' = edit'[P]
  BY DEF Pending

(* The copy that becomes good has a higher generation than the other one,  *)
(* unless the command has set it back; then what was in force stays.       *)
LEMMA SavedStep ==
    ASSUME NEW P, Procs = {P}, TypeOK, IInv, [Next]_vars,
           NEW c \in Copies, ~Good(flash[c]), Good(flash'[c])
    PROVE  /\ pc[P] = "writing" /\ edit[P] \in Configs
           /\ tree[P] >= flash[Other(c)].gen => InForce' = edit[P]
           /\ InForce' \in {edit[P], InForce}
  <1> DEFINE t == Target(seen[P])
             o == Other(t)
  <1>1. /\ P \in Procs /\ t \in Copies /\ o \in Copies /\ o # t /\ Copies = {t, o}
        /\ Other(o) = t /\ flash \in [Copies -> Blocks]
    BY CopyFacts DEF TypeOK
  <1>2. CASE WriteBegin(P) \/ WriteFail(P)
    <2>1. PICK k \in Garbage : flash' = [flash EXCEPT ![t].kind = k]
      BY <1>2 DEF WriteBegin, Edits, WriteFail
    <2>2. ~Good(flash'[t]) /\ flash'[o] = flash[o]
      BY <1>1, <2>1, GarbageBlock
    <2> QED
      BY <1>1, <2>2
  <1>3. CASE WriteEnd(P)
    <2>1. /\ pc[P] = "writing" /\ edit[P] \in Configs
          /\ seen[P][o] = flash[o] /\ Good(flash[o])
      <3>1. pc[P] = "writing"
        BY <1>3 DEF WriteEnd
      <3> QED
        BY <1>1, <3>1, CopyFacts DEF IInv, SeenIsCurrent
    <2>2. PICK k \in {"good", "untagged"} :
             flash' = [flash EXCEPT ![t] =
                          [kind |-> k, gen |-> NewGen(tree[P]), cfg |-> edit[P]]]
      BY <1>3 DEF WriteEnd
    <2>3. /\ flash'[t] = [kind |-> k, gen |-> NewGen(tree[P]), cfg |-> edit[P]]
          /\ flash'[o] = flash[o]
      BY <1>1, <2>2
    <2>4. c = t
      BY <1>1, <2>3
    <2>5. Newest = o
      BY <1>1, <2>1, <2>4, CopyFacts DEF Newest
    <2>6. InForce' \in {edit[P], InForce}
      <3>1. Newest' \in {t, o}
        BY <1>1, CopyFacts DEF Newest
      <3> QED
        BY <2>3, <2>5, <3>1 DEF InForce
    <2>7. ASSUME tree[P] >= flash[o].gen PROVE InForce' = edit[P]
      <3>1. tree[P] \in Nat /\ flash[o].gen \in Nat
        BY <1>1, ConfigAssumption DEF TypeOK, TreeGens, Blocks
      <3>2. flash'[t].gen > flash'[o].gen /\ ~(flash'[o].gen > flash'[t].gen)
        BY <2>3, <2>7, <3>1 DEF NewGen
      <3>3. Newest' = t
        BY <1>1, <2>1, <2>3, <2>4, <3>2, CopyFacts DEF Newest
      <3> QED
        BY <2>3, <3>3 DEF InForce
    <2> QED
      BY <1>1, <2>1, <2>4, <2>6, <2>7
  <1>4. CASE UNCHANGED flash
    BY <1>4
  <1> QED
    BY <1>2, <1>3, <1>4
    DEF Next, Session, Start, ReadCopy, Load, Quit, PowerLoss, vars

LEMMA StepRefines ==
    ASSUME NEW P, Procs = {P}, TypeOK, IInv, TypeOK', IInv', [Next]_vars
    PROVE  [Store!Next]_(Store!vars)
  <1> DEFINE t == Target(seen[P])
             o == Other(t)
  <1> USE DEF Store!Next, Store!vars, Store!Propose, Store!Commit, Store!Abandon
  <1>1. /\ P \in Procs /\ t \in Copies /\ o \in Copies /\ o # t
        /\ flash \in [Copies -> Blocks] /\ flash' \in [Copies -> Blocks]
        /\ Pending = edit[P] /\ Pending' = edit'[P]
    BY CopyFacts, OnePending DEF TypeOK
  <1>2. edit[P] \in Configs \union {NoConfig} /\ (edit[P] \in Configs <=> pc[P] = "writing")
    BY <1>1 DEF TypeOK, IInv, SeenIsCurrent
  <1>3. ASSUME UNCHANGED flash PROVE InForce' = InForce
    BY <1>3 DEF InForce, Newest
  <1>4. CASE Start(P) \/ ReadCopy(P) \/ Load(P) \/ Quit(P) \/ UNCHANGED vars
    <2>1. flash' = flash /\ edit' = edit
      BY <1>4 DEF Start, ReadCopy, Load, Quit, vars
    <2> QED
      BY <1>1, <1>3, <2>1
  <1>5. CASE WriteBegin(P)
    <2>1. /\ pc[P] = "loaded" /\ seen[P][1] = flash[1] /\ seen[P][2] = flash[2]
          /\ Good(flash[1]) /\ Good(flash[2])
      BY <1>1, <1>5 DEF WriteBegin, Edits, IInv, SeenIsCurrent
    <2>2. Newest = o
      BY <2>1, CopyFacts DEF Newest, Target
    <2>3. PICK k \in Garbage : flash' = [flash EXCEPT ![t].kind = k]
      BY <1>5 DEF WriteBegin, Edits
    <2>4. ~Good(flash'[t]) /\ flash'[o] = flash[o]
      BY <1>1, <2>3, GarbageBlock
    <2>5. Newest' = o
      BY <1>1, <2>1, <2>4, CopyFacts DEF Newest
    <2>6. InForce' = InForce
      BY <2>2, <2>4, <2>5 DEF InForce
    <2>7. edit[P] = NoConfig /\ edit'[P] \in Configs
      BY <1>1, <1>2, <1>5, <2>1 DEF WriteBegin, Edits, TypeOK
    <2> QED
      BY <1>1, <2>6, <2>7
  <1>6. CASE WriteEnd(P) \/ WriteFail(P)
    <2>1. /\ pc[P] = "writing" /\ seen[P][o] = flash[o] /\ Good(flash[o]) /\ ~Good(flash[t])
      <3>1. pc[P] = "writing"
        BY <1>6 DEF WriteEnd, WriteFail
      <3>2. seen[P][o] = flash[o] /\ flash[t].kind \in Garbage
        BY <1>1, <3>1 DEF IInv, SeenIsCurrent
      <3>3. Good(seen[P][o])
        BY <1>1, <3>1, CopyFacts DEF IInv, SeenIsCurrent
      <3>4. ~Good(flash[t])
        BY <3>2 DEF Good, Garbage
      <3> QED
        BY <3>1, <3>2, <3>3, <3>4
    <2>2. edit[P] # NoConfig /\ edit'[P] = NoConfig
      BY <1>1, <1>2, <1>6, <2>1, ConfigAssumption DEF WriteEnd, WriteFail, TypeOK
    <2>3. Newest = o
      BY <2>1, CopyFacts DEF Newest
    <2>4. ASSUME ~Good(flash'[t]), flash'[o] = flash[o]
          PROVE  InForce' = InForce
      <3>1. Newest' = o
        BY <2>1, <2>4, CopyFacts DEF Newest
      <3> QED
        BY <2>3, <2>4, <3>1 DEF InForce
    <2>5. CASE WriteFail(P)
      <3>1. PICK k \in Garbage : flash' = [flash EXCEPT ![t].kind = k]
        BY <2>5 DEF WriteFail
      <3>2. ~Good(flash'[t]) /\ flash'[o] = flash[o]
        BY <1>1, <3>1, GarbageBlock
      <3> QED
        BY <1>1, <2>2, <2>4, <3>2
    <2>6. CASE WriteEnd(P)
      <3> DEFINE b(k) == [kind |-> k, gen |-> NewGen(tree[P]), cfg |-> edit[P]]
      <3>1. PICK k \in {"good", "untagged"} : flash' = [flash EXCEPT ![t] = b(k)]
        BY <2>6 DEF WriteEnd
      <3>2. flash'[t] = b(k) /\ flash'[o] = flash[o]
        BY <1>1, <3>1
      <3>3. CASE k = "untagged"
        <4>1. ~Good(flash'[t])
          BY <3>2, <3>3 DEF Good
        <4> QED
          BY <1>1, <2>2, <2>4, <3>2, <4>1
      <3>4. CASE k = "good"
        <4>1. Good(flash'[t])
          BY <3>2, <3>4 DEF Good
        <4>2. InForce' \in {edit[P], InForce}
          BY <1>1, <2>1, <4>1, SavedStep
        <4> QED
          BY <1>1, <2>2, <4>2
      <3> QED
        BY <3>1, <3>3, <3>4
    <2> QED
      BY <1>6, <2>5, <2>6
  <1>7. CASE PowerLoss
    <2>1. flash' = flash /\ edit'[P] = NoConfig
      BY <1>1, <1>7 DEF PowerLoss
    <2> QED
      BY <1>1, <1>3, <2>1
  <1> QED
    BY <1>4, <1>5, <1>6, <1>7 DEF Next, Session

(* Used by one session at a time, the pair of copies is an atomic          *)
(* register: an update replaces the configuration in force as a whole, or  *)
(* leaves it, wherever it is cut short.                                    *)
THEOREM UpdatesAreAtomic ==
    ASSUME NEW P, Procs = {P}
    PROVE  Spec => IsAtomic
  <1>1. Init => Store!Init
    <2> SUFFICES ASSUME Init PROVE InForce \in Configs /\ Pending = NoConfig
      BY DEF Store!Init
    <2>1. \A c \in Copies : flash[c].cfg \in Configs
      BY DEF Init
    <2> QED
      BY <2>1, CopyFacts, OnePending DEF Init, InForce, Newest
  <1>2. TypeOK /\ IInv /\ (TypeOK /\ IInv)' /\ [Next]_vars => [Store!Next]_(Store!vars)
    BY StepRefines
  <1> QED
    BY <1>1, <1>2, Invariance, PTL DEF Spec, IsAtomic, Store!Spec

(* An update whose last byte is on the flash is the configuration in force *)
(* from then on, unless its command set the generation back, for every set *)
(* of configurations.                                                      *)
THEOREM UpdateIsNotLost ==
    ASSUME NEW P, Procs = {P}
    PROVE  Spec => SavedIsInForce
  <1>1. TypeOK /\ IInv /\ [Next]_vars =>
            [\A c \in Copies :
                ~Good(flash[c]) /\ Good(flash'[c]) =>
                    \E p \in Procs :
                        /\ pc[p] = "writing"
                        /\ tree[p] >= flash[Other(c)].gen => InForce' = edit[p]]_vars
    BY SavedStep
  <1> QED
    BY <1>1, Invariance, PTL DEF Spec, SavedIsInForce

=============================================================================
