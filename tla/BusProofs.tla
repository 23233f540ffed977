------------------------------ MODULE BusProofs ------------------------------
(***************************************************************************)
(* The two buses to a peripheral.                                          *)
(* The capacitive keyboard as an I2C slave: for every register map, a      *)
(* touch the host was not told of keeps the CHANGE line low (CapKeyboard). *)
(* libmdb as the master of a Multi-Drop Bus: for every sequence of events, *)
(* every buffer size and every way to spoil or lose one byte of a reply,   *)
(* the client is handed each event in order, again only when its ACK was   *)
(* not sent, and no good reply is refused, unless it starts a transaction  *)
(* while the reply to one that it gave up is still coming (Mdb).           *)
(***************************************************************************)
EXTENDS CapKeyboard, Mdb, FiniteSetTheorems, WellFoundedInduction, SequenceTheorems, TLAPS

-----------------------------------------------------------------------------
(* The keyboard                                                            *)

LEMMA StatusInMap ==
  /\ StatusBytes \subseteq Addrs
  /\ Status1 \in StatusBytes
  /\ Gpo \in Addrs
  BY MapAssumption DEF StatusBytes, Addrs

LEMMA NextAddrType ==
  ASSUME NEW a \in 0 .. AddrWidth - 1
  PROVE  NextAddr(a) \in 0 .. AddrWidth - 1
  <1>1. AddrWidth \in Nat /\ AddrWidth > 0 /\ a + 1 \in Nat
    BY MapAssumption
  <1>2. (a + 1) % AddrWidth \in 0 .. AddrWidth - 1
    BY <1>1
  <1> QED
    BY <1>2 DEF NextAddr

LEMMA NothingSentType == NothingSent \in [StatusBytes -> Bytes]
  BY ByteAssumption DEF NothingSent

(* What is remembered after a byte of the status: what was sent, with it,  *)
(* or nothing.                                                             *)
SentWith(a) == IF a \in StatusBytes THEN [sent EXCEPT ![a] = map[a]] ELSE sent

LEMMA SentWithType ==
  ASSUME KeyTypeOK, NEW a \in Addrs
  PROVE  /\ SentWith(a) \in [StatusBytes -> Bytes]
         /\ SentAfter(SentWith(a)) \in [StatusBytes -> Bytes]
  <1>1. SentWith(a) \in [StatusBytes -> Bytes]
    BY DEF SentWith, KeyTypeOK
  <1> QED
    BY <1>1, NothingSentType DEF SentAfter

(* Every variable of the firmware stays in its range, whatever the host    *)
(* reads and writes and whenever the two interrupts come.                  *)
THEOREM KeyTypeCorrect == KeySpec => []KeyTypeOK
  <1>1. KeyInit => KeyTypeOK
    <2> SUFFICES ASSUME KeyInit PROVE KeyTypeOK
      OBVIOUS
    <2>1. map \in [Addrs -> Bytes]
      BY ByteAssumption DEF KeyInit
    <2>2. addr \in 0 .. AddrWidth - 1
      BY MapAssumption DEF KeyInit
    <2> QED
      BY <2>1, <2>2, ByteAssumption, NothingSentType DEF KeyInit, KeyTypeOK
  <1>2. KeyTypeOK /\ [KeyNext]_keyVars => KeyTypeOK'
    <2> SUFFICES ASSUME KeyTypeOK, [KeyNext]_keyVars PROVE KeyTypeOK'
      OBVIOUS
    <2>1. CASE Touch
      BY <2>1 DEF Touch, KeyTypeOK, slaveVars, mainVars
    <2>2. CASE TimerIsr
      BY <2>2 DEF TimerIsr, KeyTypeOK, slaveVars
    <2>3. CASE Main
      BY <2>3, StatusInMap DEF Main, KeyTypeOK, slaveVars, mainVars, MeasureBegin,
         MeasureAgain, MeasureDone, Signal, Drive, Check, Spin, Enable, Free
    <2>4. CASE SendByte
      <3>1. addr' \in 0 .. AddrWidth - 1
        BY <2>4, NextAddrType DEF SendByte, KeyTypeOK
      <3>2. sent' \in [StatusBytes -> Bytes]
        BY <2>4, SentWithType DEF SendByte, SentWith, KeyTypeOK
      <3>3. change' \in BOOLEAN
        BY <2>4 DEF SendByte, KeyTypeOK
      <3>4. told' \in Bytes
        BY <2>4 DEF SendByte, KeyTypeOK
      <3> QED
        BY <2>4, <3>1, <3>2, <3>3, <3>4 DEF SendByte, KeyTypeOK, mainVars
    <2>5. CASE SendNack \/ ReceiveBegin \/ ReceiveStop \/ BusError
      BY <2>5 DEF SendNack, ReceiveBegin, ReceiveStop, BusError, KeyTypeOK, mainVars
    <2>6. CASE ReceiveAddress
      BY <2>6 DEF ReceiveAddress, KeyTypeOK, mainVars
    <2>7. CASE ReceiveData
      <3>1. addr' \in 0 .. AddrWidth - 1
        BY <2>7, NextAddrType DEF ReceiveData, KeyTypeOK
      <3> QED
        BY <2>7, <3>1 DEF ReceiveData, KeyTypeOK, mainVars
    <2>8. CASE UNCHANGED keyVars
      BY <2>8 DEF keyVars, slaveVars, mainVars, KeyTypeOK
    <2> QED
      BY <2>1, <2>2, <2>3, <2>4, <2>5, <2>6, <2>7, <2>8 DEF KeyNext, TwiIsr
  <1> QED
    BY <1>1, <1>2, PTL DEF KeySpec

(* A touch that is remembered as sent is the one the host was told last:   *)
(* SentAfter forgets the others.                                           *)
SentIsTold == sent[Status1] # 0 => told = sent[Status1]

KeyInv == KeyTypeOK /\ SentIsTold /\ TouchKeepsChange

LEMMA SendKeeps ==
  ASSUME KeyInv, SendByte
  PROVE  SentIsTold' /\ TouchKeepsChange'
  <1>1. CASE addr \notin Addrs
    <2>1. addr # Status1
      BY <1>1, StatusInMap
    <2> QED
      BY <1>1 DEF KeyInv, SendByte, SentIsTold, TouchKeepsChange, mainVars
  <1>2. CASE addr \in Addrs
    <2> DEFINE s == SentWith(addr)
    <2>1. /\ sent' = SentAfter(s)
          /\ change' = (change /\ ~Match(s))
          /\ told' = IF addr = Status1 THEN map[addr] ELSE told
          /\ UNCHANGED <<map, at>>
      BY <1>2 DEF SendByte, SentWith, mainVars
    <2>2. s \in [StatusBytes -> Bytes]
      BY <1>2, SentWithType DEF KeyInv
    <2>3. s[Status1] # 0 => told' = s[Status1]
      <3>1. CASE addr = Status1
        BY <3>1, <2>1, StatusInMap DEF SentWith, KeyInv, KeyTypeOK
      <3>2. CASE addr # Status1
        <4>1. s[Status1] = sent[Status1]
          BY <3>2, StatusInMap DEF SentWith, KeyInv, KeyTypeOK
        <4> QED
          BY <3>2, <4>1, <2>1 DEF KeyInv, SentIsTold
      <3> QED
        BY <3>1, <3>2
    <2>4. NothingSent[Status1] = 0
      BY StatusInMap DEF NothingSent
    <2>5. SentIsTold'
      BY <2>1, <2>3, <2>4 DEF SentIsTold, SentAfter
    <2>6. Match(s) => s[Status1] = map[Status1]
      BY StatusInMap DEF Match
    <2>7. TouchKeepsChange'
      <3>1. CASE Match(s)
        BY <3>1, <2>1, <2>3, <2>6 DEF TouchKeepsChange
      <3>2. CASE ~Match(s)
        <4>1. told' = told \/ told' = map[Status1]
          BY <2>1
        <4> QED
          BY <3>2, <4>1, <2>1 DEF TouchKeepsChange, KeyInv
      <3> QED
        BY <3>1, <3>2
    <2> QED
      BY <2>5, <2>7
  <1> QED
    BY <1>1, <1>2

LEMMA KeyInvNext ==
  ASSUME Status1 \notin Writes, KeyInv, [KeyNext]_keyVars
  PROVE  SentIsTold' /\ TouchKeepsChange'
  <1>1. CASE Touch \/ TimerIsr
    BY <1>1 DEF Touch, TimerIsr, KeyInv, SentIsTold, TouchKeepsChange, slaveVars,
       mainVars
  <1>2. CASE MeasureDone
    BY <1>2, StatusInMap DEF MeasureDone, KeyInv, SentIsTold, TouchKeepsChange,
       slaveVars, KeyTypeOK
  <1>3. CASE Signal
    BY <1>3 DEF Signal, KeyInv, SentIsTold, TouchKeepsChange, slaveVars
  <1>4. CASE MeasureBegin \/ MeasureAgain \/ Drive \/ Check \/ Spin \/ Enable \/ Free
    BY <1>4 DEF MeasureBegin, MeasureAgain, Drive, Check, Spin, Enable, Free,
       KeyInv, SentIsTold, TouchKeepsChange, slaveVars
  <1>5. CASE SendByte
    BY <1>5, SendKeeps
  <1>6. CASE SendNack \/ ReceiveBegin \/ ReceiveAddress \/ ReceiveStop \/ BusError
    BY <1>6 DEF SendNack, ReceiveBegin, ReceiveAddress, ReceiveStop, BusError,
       KeyInv, SentIsTold, TouchKeepsChange, mainVars
  <1>7. CASE ReceiveData
    <2>1. map'[Status1] = map[Status1]
      BY <1>7, StatusInMap DEF ReceiveData, KeyInv, KeyTypeOK
    <2> QED
      BY <1>7, <2>1 DEF ReceiveData, KeyInv, SentIsTold, TouchKeepsChange, mainVars
  <1>8. CASE UNCHANGED keyVars
    BY <1>8 DEF keyVars, slaveVars, mainVars, KeyInv, SentIsTold, TouchKeepsChange
  <1> QED
    BY <1>1, <1>2, <1>3, <1>4, <1>5, <1>6, <1>7, <1>8 DEF KeyNext, Main, TwiIsr

(* A touch the host has not been sent keeps CHANGE low, however reads,     *)
(* writes and bus errors interleave with the main loop, for every register *)
(* map, if the host leaves the first status byte alone.                    *)
THEOREM TouchIsKept ==
  ASSUME Status1 \notin Writes
  PROVE  KeySpec => []TouchKeepsChange
  <1>1. KeyInit => SentIsTold /\ TouchKeepsChange
    <2> SUFFICES ASSUME KeyInit PROVE SentIsTold /\ TouchKeepsChange
      OBVIOUS
    <2>1. map[Status1] = 0 /\ sent[Status1] = 0
      BY StatusInMap DEF KeyInit, NothingSent
    <2> QED
      BY <2>1 DEF SentIsTold, TouchKeepsChange
  <1>2. KeyTypeOK /\ KeyTypeOK' /\ (SentIsTold /\ TouchKeepsChange) /\ [KeyNext]_keyVars
          => SentIsTold' /\ TouchKeepsChange'
    BY KeyInvNext DEF KeyInv
  <1> QED
    BY <1>1, <1>2, KeyTypeCorrect, PTL DEF KeySpec

-----------------------------------------------------------------------------
(* libmdb                                                                  *)

(* The least member of a set of numbers up to N.                           *)
LEMMA MinFacts ==
    ASSUME NEW N \in Nat, NEW S \in SUBSET (1 .. N), S # {}
    PROVE  Min(S) \in S /\ \A y \in S : Min(S) <= y
  <1> DEFINE T == {1 .. n : n \in S}
  <1>1. IsWellFoundedOn(StrictSubsetOrdering(1 .. N), SUBSET (1 .. N))
    <2>1. IsFiniteSet(1 .. N)
      BY FS_Interval
    <2>2. FiniteSubsetsOf(1 .. N) = SUBSET (1 .. N)
      BY <2>1, FS_FiniteSubsetsOfFinite
    <2> QED
      BY <2>2, FS_StrictSubsetOrderingWellFounded
  <1>2. T \subseteq SUBSET (1 .. N) /\ T # {}
    <2>1. \A n \in S : 1 .. n \in SUBSET (1 .. N)
      OBVIOUS
    <2> QED
      BY <2>1, Zenon
  <1>3. \E x \in T : \A y \in T : ~(<<y, x>> \in StrictSubsetOrdering(1 .. N))
    <2> HIDE DEF T
    <2> QED
      BY <1>1, <1>2, WFMin
  <1>4. PICK n \in S : \A m \in S : ~(<<1 .. m, 1 .. n>> \in StrictSubsetOrdering(1 .. N))
    BY <1>3
  <1>5. ASSUME NEW m \in S, m < n
        PROVE  FALSE
    <2>1. 1 .. m \subseteq 1 .. n /\ n \in 1 .. n /\ n \notin 1 .. m
      BY <1>5
    <2>2. 1 .. m \in SUBSET (1 .. N) /\ 1 .. n \in SUBSET (1 .. N)
      OBVIOUS
    <2> QED
      BY <2>1, <2>2, <1>4 DEF StrictSubsetOrdering
  <1>6. n \in S /\ \A y \in S : n <= y
    BY <1>5
  <1> QED
    BY <1>6 DEF Min

-----------------------------------------------------------------------------
(* The checksum                                                            *)

LEMMA ByteFacts == \A b \in Byte : b \in Nat /\ b < 256
  BY DEF Byte

LEMMA ModByte ==
    ASSUME NEW a \in Byte, NEW b \in Byte
    PROVE  /\ (a + b) % 256 = IF a + b < 256 THEN a + b ELSE a + b - 256
           /\ (a + b) % 256 \in Byte
  <1> SUFFICES ASSUME NEW n \in Nat, n = a + b, n < 511
               PROVE  n % 256 = (IF n < 256 THEN n ELSE n - 256) /\ n % 256 \in 0 .. 255
    BY DEF Byte
  <1> QED
    OBVIOUS

(* The sum of the first m bytes can be told, and so on up to the last one. *)
PartSum(s, m, f) ==
    f = [n \in 0 .. m |-> IF n = 0 THEN 0 ELSE (f[n - 1] + s[n]) % 256]

HasSum(s, m) == \E f \in [0 .. m -> Byte] : PartSum(s, m, f)

LEMMA SumStart ==
    ASSUME NEW s
    PROVE  HasSum(s, 0)
  <1> DEFINE f == [n \in 0 .. 0 |-> 0]
  <1>1. PartSum(s, 0, f) /\ f \in [0 .. 0 -> Byte]
    BY DEF PartSum, Byte
  <1> QED
    BY <1>1 DEF HasSum

LEMMA SumStep ==
    ASSUME NEW s \in Seq(Byte), NEW m \in Nat, m < Len(s), HasSum(s, m)
    PROVE  HasSum(s, m + 1)
  <1>1. PICK f \in [0 .. m -> Byte] : PartSum(s, m, f)
    BY DEF HasSum
  <1>2. \A n \in 0 .. m : f[n] = IF n = 0 THEN 0 ELSE (f[n - 1] + s[n]) % 256
    BY <1>1 DEF PartSum
  <1> DEFINE h(n) == IF n <= m THEN f[n] ELSE (f[m] + s[m + 1]) % 256
             g == [n \in 0 .. m + 1 |-> h(n)]
             r(n) == IF n = 0 THEN 0 ELSE (g[n - 1] + s[n]) % 256
  <1>3. ASSUME NEW n \in 0 .. m + 1
        PROVE  h(n) = r(n)
    <2>1. CASE n = 0
      BY <2>1, <1>2
    <2>2. CASE n \in 1 .. m
      <3>1. n - 1 \in 0 .. m + 1 /\ n - 1 <= m
        BY <2>2
      <3>2. g[n - 1] = f[n - 1]
        BY <3>1
      <3> QED
        BY <2>2, <3>2, <1>2
    <2>3. CASE n = m + 1
      <3>1. g[m] = f[m]
        OBVIOUS
      <3> QED
        BY <2>3, <3>1
    <2> QED
      BY <2>1, <2>2, <2>3
  <1>4. g = [n \in 0 .. m + 1 |-> r(n)]
    BY <1>3
  <1>5. PartSum(s, m + 1, g)
    BY <1>4 DEF PartSum
  <1>6. g \in [0 .. m + 1 -> Byte]
    <2>1. s[m + 1] \in Byte /\ f[m] \in Byte
      OBVIOUS
    <2>2. (f[m] + s[m + 1]) % 256 \in Byte
      BY <2>1, ModByte
    <2>3. \A n \in 0 .. m + 1 : h(n) \in Byte
      BY <2>2
    <2> QED
      BY <2>3
  <1> QED
    BY <1>5, <1>6 DEF HasSum

LEMMA SumExists ==
    ASSUME NEW s \in Seq(Byte), NEW N \in 0 .. Len(s)
    PROVE  HasSum(s, N)
  <1> DEFINE Bad == {m \in 1 .. N : ~HasSum(s, m)}
  <1>1. ASSUME Bad # {}
        PROVE  FALSE
    <2>1. PICK m \in Bad : \A y \in Bad : m <= y
      <3> HIDE DEF Bad
      <3>1. Bad \in SUBSET (1 .. N) /\ N \in Nat
        BY DEF Bad
      <3> QED
        BY <1>1, <3>1, MinFacts
    <2>2. m - 1 \in Nat /\ m - 1 + 1 = m /\ ~(m <= m - 1) /\ m - 1 <= N
      OBVIOUS
    <2>3. m - 1 = 0 \/ m - 1 \in 1 .. N
      BY <2>2
    <2>4. HasSum(s, m - 1)
      BY <2>1, <2>2, <2>3, SumStart
    <2>5. HasSum(s, m - 1 + 1)
      <3>1. m - 1 < Len(s)
        BY <2>2
      <3> QED
        BY <3>1, <2>2, <2>4, SumStep
    <2> QED
      BY <2>2, <2>5
  <1>2. N = 0 \/ N \in 1 .. N
    OBVIOUS
  <1> QED
    BY <1>1, <1>2, SumStart

(* Two sums of the same bytes are the same.                                *)
LEMMA SumUnique ==
    ASSUME NEW s, NEW t, NEW M \in Nat, NEW N \in Nat, NEW K \in 0 .. M, K <= N,
           \A i \in 1 .. K : s[i] = t[i],
           NEW f, NEW g, PartSum(s, M, f), PartSum(t, N, g)
    PROVE  f[K] = g[K]
  <1> DEFINE Bad == {m \in 1 .. K : f[m] # g[m]}
  <1>0. /\ \A n \in 0 .. K : f[n] = IF n = 0 THEN 0 ELSE (f[n - 1] + s[n]) % 256
        /\ \A n \in 0 .. K : g[n] = IF n = 0 THEN 0 ELSE (g[n - 1] + t[n]) % 256
    <2>1. \A n \in 0 .. K : n \in 0 .. M /\ n \in 0 .. N
      OBVIOUS
    <2> QED
      BY <2>1 DEF PartSum
  <1>1. ASSUME Bad # {}
        PROVE  FALSE
    <2>1. PICK m \in Bad : \A y \in Bad : m <= y
      <3> HIDE DEF Bad
      <3>1. Bad \in SUBSET (1 .. K) /\ K \in Nat
        BY DEF Bad
      <3> QED
        BY <1>1, <3>1, MinFacts
    <2>2. m - 1 \in 0 .. K /\ m \in 0 .. K /\ m # 0 /\ ~(m <= m - 1)
      OBVIOUS
    <2>3. f[m - 1] = g[m - 1]
      <3>1. CASE m - 1 = 0
        BY <3>1, <1>0, <2>2
      <3>2. CASE m - 1 # 0
        <4>1. m - 1 \in 1 .. K
          BY <3>2, <2>2
        <4> QED
          BY <4>1, <2>1, <2>2
      <3> QED
        BY <3>1, <3>2
    <2>4. f[m] = (f[m - 1] + s[m]) % 256 /\ g[m] = (g[m - 1] + t[m]) % 256
      BY <2>2, <1>0
    <2> QED
      BY <2>3, <2>4
  <1>2. K = 0 \/ K \in 1 .. K
    OBVIOUS
  <1>3. CASE K = 0
    BY <1>3, <1>0
  <1> QED
    BY <1>1, <1>2, <1>3

LEMMA ChkSum ==
    ASSUME NEW s \in Seq(Byte)
    PROVE  \E f \in [0 .. Len(s) -> Byte] : PartSum(s, Len(s), f) /\ Chk(s) = f[Len(s)]
  <1> DEFINE g == CHOOSE f : PartSum(s, Len(s), f)
  <1>1. PICK f \in [0 .. Len(s) -> Byte] : PartSum(s, Len(s), f)
    BY SumExists DEF HasSum
  <1>2. PartSum(s, Len(s), g)
    BY <1>1
  <1>3. Chk(s) = g[Len(s)]
    BY DEF Chk, PartSum
  <1>4. f[Len(s)] = g[Len(s)]
    <2> HIDE DEF g
    <2> DEFINE n == Len(s)
    <2>1. n \in Nat /\ n \in 0 .. n
      OBVIOUS
    <2>2. PartSum(s, n, f) /\ PartSum(s, n, g)
      BY <1>1, <1>2
    <2> HIDE DEF n
    <2>3. f[n] = g[n]
      BY <2>1, <2>2, SumUnique
    <2> QED
      BY <2>3 DEF n
  <1> QED
    BY <1>1, <1>3, <1>4

LEMMA ChkType ==
    ASSUME NEW s \in Seq(Byte)
    PROVE  Chk(s) \in Byte
  <1>1. PICK f \in [0 .. Len(s) -> Byte] : Chk(s) = f[Len(s)]
    BY ChkSum
  <1> QED
    BY <1>1

LEMMA ChkEmpty == Chk(<<>>) = 0
  <1>1. Len(<<>>) = 0 /\ <<>> \in Seq(Byte)
    OBVIOUS
  <1>2. PICK f : PartSum(<<>>, 0, f) /\ Chk(<<>>) = f[0]
    BY <1>1, ChkSum
  <1> QED
    BY <1>2 DEF PartSum

(* One more byte is added to the sum.                                      *)
LEMMA ChkAppend ==
    ASSUME NEW s \in Seq(Byte), NEW b \in Byte
    PROVE  Chk(Append(s, b)) = (Chk(s) + b) % 256
  <1> DEFINE t == Append(s, b)
             n == Len(s)
  <1>1. /\ t \in Seq(Byte) /\ n \in Nat /\ Len(t) = n + 1 /\ t[n + 1] = b
        /\ \A i \in 1 .. n : t[i] = s[i]
    BY AppendProperties
  <1> HIDE DEF t, n
  <1>2. PICK f : PartSum(s, n, f) /\ Chk(s) = f[n]
    <2>1. \E f : PartSum(s, Len(s), f) /\ Chk(s) = f[Len(s)]
      BY ChkSum
    <2> QED
      BY <2>1 DEF n
  <1>3. PICK g : PartSum(t, n + 1, g) /\ Chk(t) = g[n + 1]
    BY <1>1, ChkSum
  <1>4. g[n] = f[n]
    <2>1. n \in 0 .. n /\ n <= n + 1 /\ n + 1 \in Nat /\ \A i \in 1 .. n : s[i] = t[i]
      BY <1>1
    <2> QED
      BY <2>1, <1>1, <1>2, <1>3, SumUnique
  <1>5. g[n + 1] = (g[n + 1 - 1] + t[n + 1]) % 256
    BY <1>1, <1>3 DEF PartSum
  <1> QED
    BY <1>1, <1>2, <1>3, <1>4, <1>5 DEF t

-----------------------------------------------------------------------------
(* Type correctness                                                        *)

Symbol == [byte : Byte, nine : BOOLEAN]

LEMMA EventFacts ==
    ASSUME NEW i \in 1 .. Len(Events)
    PROVE  Events[i] \in Seq(Byte) /\ Events[i] # <<>> /\ Len(Events) \in Nat
  BY EventsAssumption

LEMMA SymbolFacts ==
    /\ \A b \in Byte : Marked(b) \in Symbol /\ Plain(b) \in Symbol
    /\ \A b \in Byte : Marked(b).byte = b /\ Marked(b).nine /\ Plain(b).byte = b /\ ~Plain(b).nine
    /\ 0 \in Byte /\ 255 \in Byte /\ ACK \in Byte /\ LF \in Byte
  BY DEF Symbol, Marked, Plain, Byte, ACK, LF

(* One or two or three bytes as a sequence.                                *)
LEMMA Short1 == \A b \in Byte : <<b>> \in Seq(Byte)
  OBVIOUS

LEMMA ConvertedType ==
    ASSUME NEW b \in Symbol
    PROVE  Converted(b) \in Seq(Byte)
  <1>1. b.byte \in Byte
    BY DEF Symbol
  <1> QED
    BY <1>1, SymbolFacts DEF Converted

(* The scan for the end byte.                                              *)
LEMMA EndsFacts ==
    ASSUME NEW s \in Seq(Byte), Ends(s) # {}
    PROVE  /\ Min(Ends(s)) \in Ends(s)
           /\ \A i \in Ends(s) : Min(Ends(s)) <= i
           /\ Min(Ends(s)) \in 1 .. Len(s)
  <1>1. Ends(s) \in SUBSET (1 .. Len(s)) /\ Len(s) \in Nat
    BY DEF Ends
  <1> QED
    BY <1>1, MinFacts

LEMMA PrefixType ==
    ASSUME NEW s \in Seq(Byte), NEW k \in 0 .. Len(s)
    PROVE  /\ SubSeq(s, 1, k) \in Seq(Byte)
           /\ Len(SubSeq(s, 1, k)) = k
           /\ \A i \in 1 .. k : SubSeq(s, 1, k)[i] = s[i]
  <1>1. \A i \in 1 .. k : s[i] \in Byte
    OBVIOUS
  <1> QED
    BY <1>1, SubSeqProperties

Answers == {<<>>, <<"ack">>, <<"nack">>}

LEMMA CheckedType ==
    ASSUME NEW s \in Seq(Byte)
    PROVE  /\ Checked(s).res \in Results
           /\ Checked(s).data \in Seq(Byte)
           /\ Checked(s).answer \in Answers
  <1>1. CASE Ends(s) = {}
    BY <1>1 DEF Checked, Results, Answers
  <1>2. CASE Ends(s) # {}
    <2>1. PICK e \in 1 .. Len(s) : e = Min(Ends(s))
      BY <1>2, EndsFacts
    <2>2. SubSeq(s, 1, e - 1) \in Seq(Byte)
      BY PrefixType
    <2> QED
      BY <1>2, <2>1, <2>2 DEF Checked, Results, Answers
  <1> QED
    BY <1>1, <1>2

LEMMA EvaluateType ==
    ASSUME NEW s \in Seq(Byte)
    PROVE  /\ Evaluate(s).res \in Results
           /\ Evaluate(s).data \in Seq(Byte)
           /\ Evaluate(s).answer \in Answers
  BY CheckedType DEF Evaluate, Results, Answers

(* What the peripheral sends is an event, and is there while it sends.     *)
SendOK ==
    /\ per \in {"send", "await"} => next <= Len(Events)
    /\ per \in {"send", "nod"} => send # <<>>

(* An ACK in the queue is that for the last event handed over.             *)
AckOK == "ack" \in ToSet(out) => got # <<>>

TypeInv == TypeOK /\ SendOK /\ AckOK

LEMMA ReportType ==
    ASSUME NEW e \in Seq(Byte)
    PROVE  LET s == [i \in 1 .. Len(e) |-> Plain(e[i])] \o <<Marked(Chk(e))>> IN
           /\ s \in Seq(Symbol)
           /\ Len(s) = Len(e) + 1
           /\ \A i \in 1 .. Len(e) + 1 :
                s[i] = IF i <= Len(e) THEN Plain(e[i]) ELSE Marked(Chk(e))
  <1> DEFINE p == [i \in 1 .. Len(e) |-> Plain(e[i])]
             m == <<Marked(Chk(e))>>
             s == p \o m
  <1>1. p \in Seq(Symbol) /\ Len(p) = Len(e) /\ \A i \in 1 .. Len(e) : p[i] = Plain(e[i])
    <2>1. \A i \in 1 .. Len(e) : Plain(e[i]) \in Symbol
      BY SymbolFacts
    <2> QED
      BY <2>1
  <1>2. Marked(Chk(e)) \in Symbol
    BY ChkType, SymbolFacts
  <1>3. m \in Seq(Symbol) /\ Len(m) = 1 /\ m[1] = Marked(Chk(e))
    BY <1>2
  <1> HIDE DEF p, m
  <1>4. /\ s \in Seq(Symbol)
        /\ Len(s) = Len(p) + Len(m)
        /\ \A i \in 1 .. Len(p) + Len(m) : s[i] = IF i <= Len(p) THEN p[i] ELSE m[i - Len(p)]
    BY <1>1, <1>3, ConcatProperties, ZenonT(60)
  <1>5. \A i \in 1 .. Len(e) + 1 :
          s[i] = IF i <= Len(e) THEN Plain(e[i]) ELSE Marked(Chk(e))
    <2> SUFFICES ASSUME NEW i \in 1 .. Len(e) + 1
                 PROVE  s[i] = IF i <= Len(e) THEN Plain(e[i]) ELSE Marked(Chk(e))
      OBVIOUS
    <2>1. s[i] = IF i <= Len(e) THEN p[i] ELSE m[i - Len(e)]
      BY <1>1, <1>3, <1>4
    <2>2. i <= Len(e) \/ i - Len(e) = 1
      OBVIOUS
    <2> QED
      BY <2>1, <2>2, <1>1, <1>3
  <1> HIDE DEF s
  <1>6. s \in Seq(Symbol) /\ Len(s) = Len(e) + 1
    BY <1>1, <1>3, <1>4
  <1> QED
    BY <1>5, <1>6 DEF s, p, m

OutSet == {"adr", "rest", "ack", "nack"}

(* Type correctness in parts: the queues, the rest of the master, the bus. *)
QueueType ==
    /\ out \in Seq(OutSet)
    /\ in \in Seq(Byte) /\ buf \in Seq(Byte) /\ Len(buf) <= BufSize

MasterType ==
    /\ pc \in {"idle", "first", "wait"} /\ parodd \in BOOLEAN
    /\ res \in Results
    /\ got \in Seq(Seq(Byte)) /\ again \subseteq Seq(Byte)

LineType == line \in [bytes : Seq(Symbol), spoilt : BOOLEAN]

BusType ==
    /\ per \in {"idle", "cmd", "answer", "send", "nod", "await"}
    /\ send \in Seq(Symbol)
    /\ next \in 1 .. Len(Events) + 1

LEMMA TypeParts ==
    /\ TypeOK <=> QueueType /\ MasterType /\ LineType /\ BusType
    /\ TypeOK' <=> QueueType' /\ MasterType' /\ LineType' /\ BusType'
  BY DEF TypeOK, QueueType, MasterType, LineType, BusType, Symbol, OutSet

LEMMA NoReplyType == NoReply \in [bytes : Seq(Symbol), spoilt : BOOLEAN]
  BY DEF NoReply

LEMMA ToSetFacts ==
    /\ \A x : x \notin ToSet(<<>>)
    /\ \A x, y : x \in ToSet(<<y>>) <=> x = y
  BY DEF ToSet

LEMMA InitType == Init => TypeInv
  <1> SUFFICES ASSUME Init PROVE TypeInv
    OBVIOUS
  <1>1. QueueType
    <2>1. <<>> \in Seq(OutSet) /\ <<>> \in Seq(Byte) /\ Len(<<>>) = 0
      OBVIOUS
    <2>2. BufSize \in Nat /\ 0 <= BufSize
      BY BufAssumption
    <2>3. out = <<>> /\ in = <<>> /\ buf = <<>>
      BY DEF Init
    <2>4. Len(buf) <= BufSize
      BY <2>1, <2>2, <2>3
    <2>5. out \in Seq(OutSet) /\ in \in Seq(Byte) /\ buf \in Seq(Byte)
      BY <2>1, <2>3, Zenon
    <2> QED
      BY <2>4, <2>5 DEF QueueType
  <1>2. MasterType
    <2>1. <<>> \in Seq(Seq(Byte))
      BY EmptySeq
    <2>2. got \in Seq(Seq(Byte))
      BY <2>1, Zenon DEF Init
    <2> QED
      BY <2>2 DEF Init, MasterType, Results
  <1>3. LineType
    BY NoReplyType DEF Init, LineType
  <1>4. BusType /\ SendOK /\ AckOK
    BY EventsAssumption, ToSetFacts DEF Init, BusType, SendOK, AckOK
  <1> QED
    BY <1>1, <1>2, <1>3, <1>4, TypeParts DEF TypeInv

LEMMA ArrivesType ==
    ASSUME QueueType, LineType, NEW s \in Seq(Symbol), Len(s) <= 1, NEW bad \in BOOLEAN,
           Arrives(s, bad)
    PROVE  in' \in Seq(Byte) /\ LineType'
  <1>1. (IF s = <<>> THEN <<>> ELSE Converted(s[1])) \in Seq(Byte)
    <2>1. CASE s = <<>>
      BY <2>1
    <2>2. CASE s # <<>>
      <3>1. s[1] \in Symbol
        BY <2>2
      <3> QED
        BY <2>2, <3>1, ConvertedType
    <2> QED
      BY <2>1, <2>2
  <1>2. in' \in Seq(Byte)
    BY <1>1, ConcatProperties DEF Arrives, QueueType
  <1>3. line.bytes \in Seq(Symbol)
    BY DEF LineType
  <1>4. line.bytes \o s \in Seq(Symbol)
    BY <1>3, ConcatProperties
  <1> QED
    BY <1>2, <1>4 DEF Arrives, LineType

(* A byte is delivered, spoilt or lost.                                    *)
LEMMA DeliverCases ==
    ASSUME TypeInv, Deliver
    PROVE  LET b == Head(send) IN
           /\ b \in Symbol
           /\ \/ Arrives(<<b>>, line.spoilt)
              \/ ~line.spoilt /\ Arrives(<<>>, TRUE)
              \/ ~line.spoilt /\ \E v \in Byte \ {b.byte} :
                   Arrives(<<[byte |-> v, nine |-> b.nine]>>, TRUE)
  <1> DEFINE b == Head(send)
  <1>1. send \in Seq(Symbol) /\ send # <<>>
    BY TypeParts DEF TypeInv, SendOK, Deliver, BusType
  <1>2. b \in Symbol
    BY <1>1, HeadTailProperties
  <1> HIDE DEF b
  <1>3. \A v \in Byte : [b EXCEPT !.byte = v] = [byte |-> v, nine |-> b.nine]
    BY <1>2 DEF Symbol
  <1>4. \/ Arrives(<<b>>, line.spoilt)
        \/ ~line.spoilt /\ Spoil(b)
    BY DEF Deliver, b
  <1>5. ASSUME Spoil(b)
        PROVE  \/ Arrives(<<>>, TRUE)
               \/ \E v \in Byte \ {b.byte} :
                   Arrives(<<[byte |-> v, nine |-> b.nine]>>, TRUE)
    <2>1. CASE Arrives(<<>>, TRUE)
      BY <2>1
    <2>2. ASSUME NEW v \in Spoilt \ {b.byte}, Arrives(<<[b EXCEPT !.byte = v]>>, TRUE)
          PROVE  \E u \in Byte \ {b.byte} :
                   Arrives(<<[byte |-> u, nine |-> b.nine]>>, TRUE)
      <3>1. v \in Byte \ {b.byte}
        BY SpoiltAssumption
      <3> QED
        BY <2>2, <3>1, <1>3
    <2> QED
      BY <1>5, <2>1, <2>2 DEF Spoil
  <1>6. \/ Arrives(<<b>>, line.spoilt)
        \/ ~line.spoilt /\ Arrives(<<>>, TRUE)
        \/ ~line.spoilt /\ \E v \in Byte \ {b.byte} :
             Arrives(<<[byte |-> v, nine |-> b.nine]>>, TRUE)
    BY <1>4, <1>5
  <1> QED
    BY <1>2, <1>6 DEF b

LEMMA DeliverType ==
    ASSUME TypeInv, Deliver
    PROVE  TypeInv'
  <1>0. QueueType /\ MasterType /\ LineType /\ BusType /\ SendOK
    BY TypeParts DEF TypeInv
  <1>1. PICK b \in Symbol :
           \/ Arrives(<<b>>, line.spoilt)
           \/ ~line.spoilt /\ Arrives(<<>>, TRUE)
           \/ ~line.spoilt /\ \E v \in Byte \ {b.byte} :
                Arrives(<<[byte |-> v, nine |-> b.nine]>>, TRUE)
    BY DeliverCases
  <1>2. PICK s \in Seq(Symbol), bad \in BOOLEAN : Arrives(s, bad) /\ Len(s) <= 1
    <2>1. CASE Arrives(<<b>>, line.spoilt)
      <3>1. <<b>> \in Seq(Symbol) /\ line.spoilt \in BOOLEAN /\ Len(<<b>>) <= 1
        BY <1>0 DEF LineType
      <3> QED
        BY <2>1, <3>1
    <2>2. CASE Arrives(<<>>, TRUE)
      <3>1. <<>> \in Seq(Symbol) /\ Len(<<>>) <= 1
        OBVIOUS
      <3> QED
        BY <2>2, <3>1
    <2>3. ASSUME NEW v \in Byte, Arrives(<<[byte |-> v, nine |-> b.nine]>>, TRUE)
          PROVE  \E s \in Seq(Symbol), bad \in BOOLEAN : Arrives(s, bad) /\ Len(s) <= 1
      <3>1. [byte |-> v, nine |-> b.nine] \in Symbol
        BY DEF Symbol
      <3>2. /\ <<[byte |-> v, nine |-> b.nine]>> \in Seq(Symbol)
            /\ Len(<<[byte |-> v, nine |-> b.nine]>>) <= 1
        BY <3>1
      <3> QED
        BY <2>3, <3>2
    <2> QED
      BY <1>1, <2>1, <2>2, <2>3
  <1>3. in' \in Seq(Byte) /\ LineType'
    BY <1>0, <1>2, ArrivesType
  <1>4. UNCHANGED <<pc, parodd, buf, res, got, again, out, next>>
    BY DEF Deliver, master, history
  <1>5. send # <<>> /\ send' \in Seq(Symbol) /\ Len(send') = Len(send) - 1
    <2>1. send \in Seq(Symbol) /\ send # <<>>
      BY <1>0 DEF BusType, SendOK, Deliver
    <2> QED
      BY <2>1, HeadTailProperties DEF Deliver
  <1>6. /\ per' \in {"send", "await", "nod", "idle"}
        /\ per' \in {"send", "nod"} => Len(send) > 1
        /\ per' \in {"send", "await"} => per = "send"
    BY DEF Deliver
  <1>7. per' \in {"send", "nod"} => send' # <<>>
    BY <1>0, <1>5, <1>6 DEF BusType
  <1>8. BusType' /\ SendOK' /\ AckOK'
    BY <1>0, <1>4, <1>5, <1>6, <1>7 DEF BusType, SendOK, TypeInv, AckOK
  <1> QED
    BY <1>0, <1>3, <1>4, <1>8, TypeParts DEF QueueType, MasterType, TypeInv

LEMMA TransmitType ==
    ASSUME TypeInv, Transmit
    PROVE  TypeInv'
  <1>0. QueueType /\ MasterType /\ LineType /\ BusType /\ SendOK
    BY TypeParts DEF TypeInv
  <1>1. UNCHANGED <<pc, parodd, buf, res, got, again, in, line>>
    BY DEF Transmit, master, history
  <1>2. out' \in Seq(OutSet) /\ AckOK'
    <2>1. out \in Seq(OutSet) /\ out # <<>> /\ out' = Tail(out)
      BY <1>0 DEF Transmit, QueueType
    <2>2. Tail(out) \in Seq(OutSet) /\ ToSet(Tail(out)) \subseteq ToSet(out)
      BY <2>1, HeadTailProperties DEF ToSet
    <2> QED
      BY <1>1, <2>1, <2>2 DEF TypeInv, AckOK
  <1>3. send' \in Seq(Symbol)
    <2>1. <<>> \in Seq(Symbol)
      OBVIOUS
    <2> QED
      BY <1>0, <2>1 DEF Transmit, BusType
  <1>4. /\ per' \in {"idle", "cmd", "answer", per}
        /\ per' \in {"send", "nod", "await"} => ~parodd /\ per' = per
        /\ per' = "await" => next' = next
        /\ next' = next \/ (next' = next + 1 /\ ~parodd /\ per = "await" /\ per' = "idle")
    <2>1. /\ per' = CASE parodd /\ Head(out) = "adr" -> "cmd"
                      [] parodd /\ Head(out) # "adr" -> "idle"
                      [] ~parodd /\ per = "cmd" -> "answer"
                      [] ~parodd /\ per = "await" -> "idle"
                      [] OTHER -> per
          /\ next' = IF ~parodd /\ per = "await" /\ Head(out) = "ack" THEN next + 1 ELSE next
      BY DEF Transmit
    <2>2. CASE parodd
      BY <2>1, <2>2
    <2>3. CASE ~parodd /\ per = "cmd"
      BY <2>1, <2>3
    <2>4. CASE ~parodd /\ per = "await"
      BY <2>1, <2>4
    <2>5. CASE ~parodd /\ per # "cmd" /\ per # "await"
      BY <2>1, <2>5
    <2> QED
      BY <2>2, <2>3, <2>4, <2>5
  <1>5. next' \in 1 .. Len(Events) + 1
    <2>1. Len(Events) \in Nat
      BY EventsAssumption
    <2> QED
      BY <1>0, <1>4, <2>1 DEF BusType, SendOK
  <1>6. BusType'
    BY <1>0, <1>3, <1>4, <1>5 DEF BusType
  <1>7. SendOK'
    <2>1. per' \in {"send", "nod"} => send' = send
      BY <1>4 DEF Transmit
    <2>2. per' \in {"send", "await"} => next' = next
      BY <1>4
    <2> QED
      BY <1>0, <1>4, <2>1, <2>2 DEF SendOK
  <1> QED
    BY <1>0, <1>1, <1>2, <1>6, <1>7, TypeParts DEF QueueType, MasterType, LineType, TypeInv

LEMMA AnswerType ==
    ASSUME TypeInv, Answer
    PROVE  TypeInv'
  <1>0. QueueType /\ MasterType /\ LineType /\ BusType /\ SendOK
    BY TypeParts DEF TypeInv
  <1>1. UNCHANGED <<pc, parodd, buf, res, got, again, in, out, next>>
    BY DEF Answer, master, history
  <1>2. LineType'
    BY NoReplyType DEF Answer, LineType
  <1>3. BusType' /\ SendOK'
    <2>1. CASE Report
      <3>1. next \in 1 .. Len(Events)
        BY <1>0, <2>1, EventsAssumption DEF Report, BusType
      <3>2. Events[next] \in Seq(Byte)
        BY <3>1, EventFacts
      <3>3. send' \in Seq(Symbol) /\ Len(send') = Len(Events[next]) + 1 /\ per' = "send"
        BY <2>1, <3>2, ReportType DEF Report
      <3>4. send' # <<>>
        BY <3>2, <3>3
      <3> QED
        BY <1>0, <1>1, <3>1, <3>3, <3>4 DEF BusType, SendOK
    <2>2. CASE Acknowledge
      <3>1. Marked(ACK) \in Symbol
        BY SymbolFacts
      <3>2. send' \in Seq(Symbol) /\ send' # <<>> /\ per' = "nod"
        BY <2>2, <3>1 DEF Acknowledge
      <3> QED
        BY <1>0, <1>1, <3>2 DEF BusType, SendOK
    <2>3. CASE Silent
      BY <1>0, <1>1, <2>3 DEF Silent, BusType, SendOK
    <2> QED
      BY <2>1, <2>2, <2>3 DEF Answer
  <1> QED
    BY <1>0, <1>1, <1>2, <1>3, TypeParts DEF QueueType, MasterType, TypeInv, AckOK

LEMMA FrontLast ==
    ASSUME NEW S, NEW s \in Seq(S), s # <<>>
    PROVE  /\ Front(s) \in Seq(S) /\ Last(s) \in S /\ Last(s) = s[Len(s)]
           /\ Len(Front(s)) = Len(s) - 1 /\ Len(s) - 1 \in Nat
           /\ \A i \in 1 .. Len(s) - 1 : Front(s)[i] = s[i]
  <1>1. PICK n \in Nat : n = Len(s)
    OBVIOUS
  <1>2. n # 0 /\ \A i \in 1 .. n : s[i] \in S
    BY <1>1, EmptySeq
  <1>3. 1 \in Int /\ n - 1 \in Int /\ \A i \in 1 .. n - 1 : s[i] \in S
    BY <1>2
  <1>4. Front(s) = SubSeq(s, 1, n - 1)
    BY <1>1 DEF Front
  <1>5. /\ SubSeq(s, 1, n - 1) \in Seq(S)
        /\ Len(SubSeq(s, 1, n - 1)) = IF 1 <= n - 1 THEN n - 1 - 1 + 1 ELSE 0
        /\ \A i \in 1 .. n - 1 - 1 + 1 : SubSeq(s, 1, n - 1)[i] = s[1 + i - 1]
    BY <1>3, SubSeqProperties
  <1> QED
    BY <1>1, <1>2, <1>4, <1>5 DEF Last

LEMMA MinTwo ==
    ASSUME NEW a \in Nat, NEW b \in Nat
    PROVE  Min({a, b}) = IF a <= b THEN a ELSE b
  <1>1. PICK m \in {a, b} : \A y \in {a, b} : m <= y
    OBVIOUS
  <1>2. Min({a, b}) \in {a, b} /\ \A y \in {a, b} : Min({a, b}) <= y
    BY <1>1 DEF Min
  <1> QED
    BY <1>2

LEMMA MasterStepType ==
    ASSUME TypeInv, SendFirst \/ SendRest \/ ReadReply \/ Fail \/ EndOfReply \/ Reset
    PROVE  TypeInv'
  <1>0. QueueType /\ MasterType /\ LineType /\ BusType /\ SendOK
    BY TypeParts DEF TypeInv
  <1>b. BufSize \in Nat /\ <<>> \in Seq(Byte) /\ Len(<<>>) = 0 /\ <<>> \in Seq(OutSet)
        /\ <<"adr">> \in Seq(OutSet) /\ <<"rest">> \in Seq(OutSet)
    <2>1. "adr" \in OutSet /\ "rest" \in OutSet
      BY DEF OutSet
    <2>2. \A q \in OutSet : <<q>> \in Seq(OutSet)
      OBVIOUS
    <2> QED
      BY <2>1, <2>2, BufAssumption
  <1>1. CASE SendFirst
    <2>1. QueueType'
      <3>1. Len(buf') <= BufSize
        BY <1>1, <1>b DEF SendFirst
      <3>2. out' \in Seq(OutSet)
        BY <1>1, <1>b DEF SendFirst
      <3>3. in' = <<>> /\ buf' = <<>>
        BY <1>1 DEF SendFirst
      <3> QED
        BY <1>b, <3>1, <3>2, <3>3, Zenon DEF QueueType
    <2>2. MasterType'
      <3>1. got' \in Seq(Seq(Byte)) /\ again' \subseteq Seq(Byte)
        <4>1. CASE "ack" \notin ToSet(out)
          BY <1>0, <1>1, <4>1 DEF SendFirst, Unsaid, history, MasterType
        <4>2. CASE "ack" \in ToSet(out)
          <5>1. got # <<>> /\ got \in Seq(Seq(Byte))
            BY <1>0, <4>2 DEF TypeInv, AckOK, MasterType
          <5>2. Front(got) \in Seq(Seq(Byte)) /\ Last(got) \in Seq(Byte)
            BY <5>1, FrontLast
          <5>3. got' = Front(got) /\ again' = again \union {Last(got)}
            BY <1>1, <4>2 DEF SendFirst, Unsaid
          <5> QED
            BY <1>0, <5>2, <5>3 DEF MasterType
        <4> QED
          BY <4>1, <4>2
      <3>2. pc' \in {"first", "idle"} /\ parodd' = TRUE /\ res' \in Results
        BY <1>0, <1>1 DEF SendFirst, Return, MasterType, Results
      <3> QED
        BY <3>1, <3>2 DEF MasterType
    <2>3. LineType'
      BY <1>1, NoReplyType DEF SendFirst, LineType
    <2>4. BusType' /\ SendOK' /\ AckOK'
      <3>1. out' = <<>> \/ out' = <<"adr">>
        BY <1>1 DEF SendFirst
      <3> QED
        BY <1>0, <1>1, <3>1, ToSetFacts DEF SendFirst, BusType, SendOK, AckOK
    <2> QED
      BY <2>1, <2>2, <2>3, <2>4, TypeParts DEF TypeInv
  <1>2. CASE SendRest
    <2>1. QueueType'
      BY <1>0, <1>2, <1>b DEF SendRest, QueueType
    <2>2. MasterType'
      BY <1>0, <1>2 DEF SendRest, Return, MasterType, Results, history
    <2>3. LineType' /\ BusType' /\ SendOK' /\ AckOK'
      <3>1. out' = <<>> \/ out' = <<"rest">>
        BY <1>2 DEF SendRest
      <3> QED
        BY <1>0, <1>2, <3>1, ToSetFacts
           DEF SendRest, BusType, SendOK, LineType, AckOK, bus
    <2> QED
      BY <2>1, <2>2, <2>3, TypeParts DEF TypeInv
  <1>3. CASE ReadReply
    <2>1. PICK n : /\ n = Min({Len(in), BufSize - Len(buf)})
                   /\ buf' = buf \o SubSeq(in, 1, n)
                   /\ in' = SubSeq(in, n + 1, Len(in))
      BY <1>3 DEF ReadReply
    <2>2. n \in 0 .. Len(in) /\ n <= BufSize - Len(buf)
      <3>1. Len(in) \in Nat /\ BufSize - Len(buf) \in Nat
        BY <1>0, <1>b DEF QueueType
      <3>2. n = IF Len(in) <= BufSize - Len(buf) THEN Len(in) ELSE BufSize - Len(buf)
        BY <2>1, <3>1, MinTwo
      <3> QED
        BY <3>1, <3>2
    <2>3. SubSeq(in, 1, n) \in Seq(Byte) /\ Len(SubSeq(in, 1, n)) = n
      BY <1>0, <2>2, PrefixType DEF QueueType
    <2>4. SubSeq(in, n + 1, Len(in)) \in Seq(Byte)
      <3>1. n + 1 \in Int /\ Len(in) \in Int /\ \A i \in n + 1 .. Len(in) : in[i] \in Byte
        BY <1>0, <2>2 DEF QueueType
      <3> QED
        BY <3>1, SubSeqProperties
    <2>5. buf' \in Seq(Byte) /\ Len(buf') = Len(buf) + n
      BY <1>0, <2>1, <2>3, ConcatProperties, ZenonT(60) DEF QueueType
    <2>6. Len(buf') <= BufSize
      BY <1>0, <1>b, <2>2, <2>5 DEF QueueType
    <2>7. QueueType'
      BY <1>0, <1>3, <2>1, <2>4, <2>5, <2>6 DEF ReadReply, QueueType
    <2>8. MasterType' /\ LineType' /\ BusType' /\ SendOK' /\ AckOK'
      BY <1>0, <1>3 DEF ReadReply, MasterType, BusType, SendOK, LineType, TypeInv, AckOK,
         history, bus
    <2> QED
      BY <2>7, <2>8, TypeParts DEF TypeInv
  <1>4. CASE EndOfReply
    <2> DEFINE e == Evaluate(buf)
    <2>2. e.res \in Results /\ e.data \in Seq(Byte) /\ e.answer \in Answers
      BY <1>0, EvaluateType DEF QueueType
    <2>3. /\ pc' = "idle" /\ res' = e.res
          /\ UNCHANGED <<parodd, in, buf, per, send, next, line>>
      BY <1>4, Zenon DEF EndOfReply, Return, bus
    <2>1. PICK ok \in BOOLEAN :
             /\ out' = IF ok THEN out \o e.answer ELSE out
             /\ IF e.answer = <<"ack">> THEN Hand(e.data, ok) ELSE UNCHANGED history
      BY <1>4, Zenon DEF EndOfReply
    <2> HIDE DEF e
    <2>4. e.answer \in Seq(OutSet)
      <3>1. "ack" \in OutSet /\ "nack" \in OutSet
        BY DEF OutSet
      <3>2. \A q \in OutSet : <<q>> \in Seq(OutSet)
        OBVIOUS
      <3> QED
        BY <2>2, <3>1, <3>2, <1>b DEF Answers
    <2>5. out' \in Seq(OutSet)
      BY <1>0, <2>1, <2>4, ConcatProperties DEF QueueType
    <2>6. QueueType'
      BY <1>0, <2>3, <2>5 DEF QueueType
    <2>7. got' \in Seq(Seq(Byte)) /\ again' \subseteq Seq(Byte) /\ (got # <<>> => got' # <<>>)
      <3>1. \/ got' = got \/ got' = Append(got, e.data)
        BY <2>1 DEF Hand, history
      <3>2. again' \subseteq again \union {e.data}
        BY <2>1 DEF Hand, history
      <3>3. Append(got, e.data) \in Seq(Seq(Byte)) /\ Append(got, e.data) # <<>>
        BY <1>0, <2>2, AppendProperties DEF MasterType
      <3> QED
        BY <1>0, <2>2, <3>1, <3>2, <3>3 DEF MasterType
    <2>8. MasterType'
      BY <1>0, <2>2, <2>3, <2>7 DEF MasterType
    <2>9. LineType' /\ BusType' /\ SendOK'
      BY <1>0, <2>3 DEF BusType, SendOK, LineType
    <2>10. AckOK'
      <3>1. CASE e.answer = <<"ack">>
        <4>1. CASE ok
          <5>1. got' = Append(got, e.data)
            BY <2>1, <3>1, <4>1 DEF Hand
          <5>2. Append(got, e.data) # <<>>
            BY <1>0, <2>2, AppendProperties DEF MasterType
          <5> QED
            BY <5>1, <5>2 DEF AckOK
        <4>2. CASE ~ok
          BY <2>1, <3>1, <4>2 DEF Hand, TypeInv, AckOK
        <4> QED
          BY <4>1, <4>2
      <3>2. CASE e.answer # <<"ack">>
        <4>1. ToSet(out') \subseteq ToSet(out) \union ToSet(e.answer)
          <5>1. out \in Seq(OutSet)
            BY <1>0 DEF QueueType
          <5>2. /\ Len(out \o e.answer) = Len(out) + Len(e.answer)
                /\ out \o e.answer \in Seq(OutSet)
                /\ \A i \in 1 .. Len(out) + Len(e.answer) :
                     (out \o e.answer)[i] =
                       IF i <= Len(out) THEN out[i] ELSE e.answer[i - Len(out)]
            BY <2>4, <5>1, ConcatProperties
          <5>3. PICK m \in Nat, n \in Nat : m = Len(out) /\ n = Len(e.answer)
            BY <2>4, <5>1
          <5>4. ASSUME NEW i \in 1 .. m + n
                PROVE  (out \o e.answer)[i] \in ToSet(out) \union ToSet(e.answer)
            <6>1. CASE i <= m
              BY <5>1, <5>2, <5>3, <6>1 DEF ToSet
            <6>2. CASE ~(i <= m)
              <7>1. i - m \in 1 .. n /\ (out \o e.answer)[i] = e.answer[i - m]
                BY <5>2, <5>3, <6>2
              <7> QED
                BY <2>4, <5>3, <7>1 DEF ToSet
            <6> QED
              BY <6>1, <6>2
          <5>5. DOMAIN (out \o e.answer) = 1 .. m + n
            BY <5>2, <5>3
          <5>6. ToSet(out \o e.answer) \subseteq ToSet(out) \union ToSet(e.answer)
            BY <5>4, <5>5 DEF ToSet
          <5> QED
            BY <2>1, <5>6
        <4>2. "ack" \notin ToSet(e.answer)
          BY <2>2, <3>2, ToSetFacts DEF Answers
        <4>3. got' = got
          BY <2>1, <3>2 DEF history
        <4> QED
          BY <4>1, <4>2, <4>3 DEF TypeInv, AckOK
      <3> QED
        BY <3>1, <3>2
    <2> QED
      BY <2>6, <2>8, <2>9, <2>10, TypeParts DEF TypeInv
  <1>5. CASE Reset
    <2>1. UNCHANGED <<pc, parodd, buf, res, got, again, in, out, next, line>>
      BY <1>5 DEF Reset, master, history
    <2>2. BusType' /\ SendOK'
      <3>1. <<>> \in Seq(Symbol)
        OBVIOUS
      <3> QED
        BY <1>0, <1>5, <2>1, <3>1 DEF Reset, BusType, SendOK
    <2> QED
      BY <1>0, <2>1, <2>2, TypeParts DEF QueueType, MasterType, LineType, TypeInv, AckOK
  <1>6. CASE Fail
    BY <1>0, <1>6, TypeParts DEF Fail, Return, history, bus, QueueType, MasterType, LineType,
       BusType, SendOK, AckOK, TypeInv, Results
  <1> QED
    BY <1>1, <1>2, <1>3, <1>4, <1>5, <1>6

LEMMA NextType ==
    ASSUME TypeInv, [Next]_vars
    PROVE  TypeInv'
  <1>1. CASE UNCHANGED vars
    BY <1>1, TypeParts DEF TypeInv, vars, master, history, bus, QueueType, MasterType, LineType,
       BusType, SendOK, AckOK
  <1> QED
    BY <1>1, MasterStepType, TransmitType, AnswerType, DeliverType DEF Next

(* Every variable of the transaction, the line and the peripheral stays in *)
(* its range: the buffer never holds more than BufSize bytes, however long *)
(* the reply and whatever the line makes of it.                            *)
THEOREM TypeCorrect == Spec => []TypeOK
  <1>1. TypeInv /\ [Next]_vars => TypeInv'
    BY NextType
  <1>2. TypeInv => TypeOK
    BY DEF TypeInv
  <1> QED
    BY <1>1, <1>2, InitType, PTL DEF Spec
-----------------------------------------------------------------------------
(* What one byte does to the sum and to the scan                           *)

LEMMA ModFacts ==
    ASSUME NEW x \in Byte, NEW y \in Byte, NEW b \in Byte, NEW c \in Byte
    PROVE  /\ x # y => (x + b) % 256 # (y + b) % 256
           /\ b # c => (y + b) % 256 # (y + c) % 256
           /\ b # 0 => (y + b) % 256 # y
           /\ c = 255 /\ b # 254 => (((y + c) % 256) + c) % 256 # (y + b) % 256
  <1>1. x \in 0 .. 255 /\ y \in 0 .. 255 /\ b \in 0 .. 255 /\ c \in 0 .. 255
    BY DEF Byte
  <1>3. /\ (x + b) % 256 = IF x + b < 256 THEN x + b ELSE x + b - 256
        /\ (y + b) % 256 = IF y + b < 256 THEN y + b ELSE y + b - 256
        /\ (y + c) % 256 = IF y + c < 256 THEN y + c ELSE y + c - 256
    BY ModByte
  <1>4. PICK z \in Byte : z = (y + c) % 256
    BY ModByte
  <1>5. (z + c) % 256 = IF z + c < 256 THEN z + c ELSE z + c - 256
    BY ModByte
  <1>6. z \in 0 .. 255
    BY DEF Byte
  <1>7. c = 255 /\ b # 254 => (z + c) % 256 # (y + b) % 256
    BY <1>1, <1>3, <1>4, <1>5, <1>6
  <1>8. c = 255 /\ b # 254 => (((y + c) % 256) + c) % 256 # (y + b) % 256
    BY <1>4, <1>7, Zenon
  <1> QED
    BY <1>1, <1>3, <1>8

LEMMA ModTwice ==
    ASSUME NEW y \in Byte, NEW b \in Byte, NEW c \in Byte, c = 255, b # 254
    PROVE  (((y + c) % 256) + c) % 256 # (y + b) % 256
  BY ModFacts

(* s with one byte more.                                                   *)
Put(s, b) == s \o <<b>>

LEMMA OneMore ==
    ASSUME NEW s \in Seq(Byte), NEW b \in Byte
    PROVE  /\ Put(s, b) \in Seq(Byte)
           /\ Len(Put(s, b)) = Len(s) + 1
           /\ \A i \in 1 .. Len(s) : Put(s, b)[i] = s[i]
           /\ Put(s, b)[Len(s) + 1] = b
           /\ Chk(Put(s, b)) = (Chk(s) + b) % 256
  <1>1. Put(s, b) = Append(s, b)
    BY AppendIsConcat DEF Put
  <1>2. /\ Append(s, b) \in Seq(Byte)
        /\ Len(Append(s, b)) = Len(s) + 1
        /\ \A i \in 1 .. Len(s) : Append(s, b)[i] = s[i]
        /\ Append(s, b)[Len(s) + 1] = b
    BY AppendProperties
  <1>3. Chk(Append(s, b)) = (Chk(s) + b) % 256
    BY ChkAppend
  <1> QED
    BY <1>1, <1>2, <1>3, Zenon

LEMMA PutType ==
    ASSUME NEW s \in Seq(Byte), NEW b \in Byte
    PROVE  Put(s, b) \in Seq(Byte) /\ Len(Put(s, b)) = Len(s) + 1
  BY OneMore, Zenon

LEMMA PutOld ==
    ASSUME NEW s \in Seq(Byte), NEW b \in Byte, NEW i \in 1 .. Len(s)
    PROVE  Put(s, b)[i] = s[i]
  BY OneMore, Zenon

LEMMA PutLast ==
    ASSUME NEW s \in Seq(Byte), NEW b \in Byte
    PROVE  Put(s, b)[Len(s) + 1] = b
  BY OneMore, Zenon

LEMMA PutChk ==
    ASSUME NEW s \in Seq(Byte), NEW b \in Byte
    PROVE  Chk(Put(s, b)) = (Chk(s) + b) % 256
  BY OneMore, Zenon

LEMMA TwoMore ==
    ASSUME NEW s \in Seq(Byte), NEW b \in Byte, NEW c \in Byte
    PROVE  s \o <<b, c>> = Put(Put(s, b), c)
  <1>1. <<b>> \in Seq(Byte) /\ <<c>> \in Seq(Byte) /\ <<b, c>> \in Seq(Byte)
    OBVIOUS
  <1>2. <<b, c>> = Append(<<b>>, c)
    OBVIOUS
  <1>3. Append(<<b>>, c) = <<b>> \o <<c>>
    BY <1>1, AppendIsConcat
  <1>4. s \o (<<b>> \o <<c>>) = (s \o <<b>>) \o <<c>>
    BY <1>1, ConcatAssociative
  <1> QED
    BY <1>2, <1>3, <1>4, Zenon DEF Put

(* FF 00, where the scan would find a byte with its 9th bit set.           *)
HasEnd(s) == \E i \in 1 .. Len(s) - 1 : s[i] = 255 /\ s[i + 1] = 0

HasFF(s) == \E i \in 1 .. Len(s) : s[i] = 255

LEMMA NoEndOne ==
    ASSUME NEW s \in Seq(Byte), NEW b \in Byte, ~HasEnd(s), b # 0 \/ ~HasFF(s)
    PROVE  ~HasEnd(Put(s, b))
  <1> SUFFICES ASSUME NEW i \in 1 .. Len(Put(s, b)) - 1,
                      Put(s, b)[i] = 255, Put(s, b)[i + 1] = 0
               PROVE  FALSE
    BY DEF HasEnd
  <1>a. Len(Put(s, b)) = Len(s) + 1
    BY PutType, Zenon
  <1>b. Len(s) \in Nat
    OBVIOUS
  <1>1. Len(s) \in Nat /\ i \in 1 .. Len(s)
    <2>1. i \in 1 .. Len(s) + 1 - 1
      BY <1>a
    <2> QED
      BY <1>b, <2>1
  <1>2. s[i] = 255
    BY <1>1, PutOld
  <1>3. CASE i = Len(s)
    BY <1>1, <1>2, <1>3, PutLast DEF HasFF
  <1>4. CASE i # Len(s)
    <2>1. i + 1 \in 1 .. Len(s) /\ i \in 1 .. Len(s) - 1
      BY <1>1, <1>4
    <2>2. s[i + 1] = 0
      BY <2>1, PutOld
    <2> QED
      BY <1>2, <2>1, <2>2 DEF HasEnd
  <1> QED
    BY <1>3, <1>4

-----------------------------------------------------------------------------
(* The reply, byte by byte                                                 *)

First(e, k) == SubSeq(e, 1, k)

LEMMA FirstMore ==
    ASSUME NEW e \in Seq(Byte), NEW k \in Nat, k < Len(e)
    PROVE  First(e, k + 1) = Put(First(e, k), e[k + 1])
  <1>1. k \in 0 .. Len(e) /\ k + 1 \in 0 .. Len(e) /\ k + 1 \in 1 .. Len(e) /\ e[k + 1] \in Byte
    OBVIOUS
  <1>2. /\ First(e, k) \in Seq(Byte) /\ Len(First(e, k)) = k
        /\ \A i \in 1 .. k : First(e, k)[i] = e[i]
    BY <1>1, PrefixType DEF First
  <1>3. /\ First(e, k + 1) \in Seq(Byte) /\ Len(First(e, k + 1)) = k + 1
        /\ \A i \in 1 .. k + 1 : First(e, k + 1)[i] = e[i]
    BY <1>1, PrefixType DEF First
  <1> DEFINE t == Put(First(e, k), e[k + 1])
  <1>4. /\ t \in Seq(Byte) /\ Len(t) = k + 1
        /\ \A i \in 1 .. k : t[i] = e[i]
        /\ t[k + 1] = e[k + 1]
    <2>1. PICK f \in Seq(Byte) : f = First(e, k)
      BY <1>2
    <2>2. /\ Put(f, e[k + 1]) \in Seq(Byte)
          /\ Len(Put(f, e[k + 1])) = Len(f) + 1
          /\ \A i \in 1 .. Len(f) : Put(f, e[k + 1])[i] = f[i]
          /\ Put(f, e[k + 1])[Len(f) + 1] = e[k + 1]
      BY <1>1, OneMore, Zenon
    <2>3. Len(f) = k /\ \A i \in 1 .. k : f[i] = e[i]
      BY <1>2, <2>1
    <2> QED
      BY <2>1, <2>2, <2>3
  <1> HIDE DEF t
  <1>5. \A i \in 1 .. k + 1 : t[i] = First(e, k + 1)[i]
    <2> SUFFICES ASSUME NEW i \in 1 .. k + 1
                 PROVE  t[i] = First(e, k + 1)[i]
      OBVIOUS
    <2>1. i \in 1 .. k \/ i = k + 1
      OBVIOUS
    <2> QED
      BY <2>1, <1>3, <1>4
  <1>6. t = First(e, k + 1)
    BY <1>3, <1>4, <1>5, SeqEqual
  <1> QED
    BY <1>6 DEF t

(* An event whose bytes the sum can tell from what the line makes of them. *)
Clean(e) ==
    /\ e \in Seq(Byte)
    /\ \A i \in 1 .. Len(e) : e[i] \notin {0, CR, 254, 255}

LEMMA CleanFirst ==
    ASSUME NEW e, Clean(e), NEW k \in 0 .. Len(e)
    PROVE  First(e, k) \in Seq(Byte) /\ Len(First(e, k)) = k /\ ~HasFF(First(e, k))
  <1>1. /\ First(e, k) \in Seq(Byte) /\ Len(First(e, k)) = k
        /\ \A i \in 1 .. k : First(e, k)[i] = e[i]
    BY PrefixType DEF Clean, First
  <1> QED
    BY <1>1 DEF HasFF, Clean

LEMMA NoFFNoEnd == \A s \in Seq(Byte) : ~HasFF(s) => ~HasEnd(s)
  BY DEF HasFF, HasEnd

(* k bytes of the event e were sent; raw is what the terminal made of what *)
(* arrived and bs what the line delivered.                                 *)
Follows(e, k, raw, bs, bad) ==
    /\ ~HasEnd(raw)
    /\ Len(raw) <= k + 1
    /\ ~bad => raw = First(e, k) /\ bs = First(e, k)
    /\ bad => /\ raw = First(e, k) \/ Chk(raw) # Chk(First(e, k))
              /\ Chk(bs) # Chk(First(e, k))

(* What the terminal makes of a byte whose 9th bit is clear.               *)
PlainConv(v) == IF v = 255 THEN <<255, 255>> ELSE IF v = CR THEN <<LF>> ELSE <<v>>

LEMMA FollowsStart ==
    ASSUME NEW e, Clean(e)
    PROVE  Follows(e, 0, <<>>, <<>>, FALSE)
  <1>1. First(e, 0) = <<>>
    BY SubSeqEmpty DEF First
  <1>2. ~HasEnd(<<>>) /\ Len(<<>>) = 0
    BY DEF HasEnd
  <1> QED
    BY <1>1, <1>2 DEF Follows

LEMMA FollowsSame ==
    ASSUME NEW e, Clean(e), NEW k \in Nat, k < Len(e),
           NEW raw \in Seq(Byte), NEW bs \in Seq(Byte), NEW bad,
           Follows(e, k, raw, bs, bad)
    PROVE  /\ Follows(e, k + 1, Put(raw, e[k + 1]), Put(bs, e[k + 1]), bad)
           /\ PlainConv(e[k + 1]) = <<e[k + 1]>>
  <1>1. e \in Seq(Byte) /\ k \in 0 .. Len(e) /\ k + 1 \in 1 .. Len(e)
    BY DEF Clean
  <1>2. PICK b \in Byte : b = e[k + 1] /\ b \notin {0, CR, 254, 255}
    BY <1>1 DEF Clean
  <1>3. PICK f \in Seq(Byte) : f = First(e, k)
    BY CleanFirst, <1>1
  <1>4. First(e, k + 1) = Put(f, b)
    BY <1>1, <1>2, <1>3, FirstMore
  <1>5. ~HasEnd(Put(raw, b))
    BY <1>2, NoEndOne DEF Follows
  <1>6. Len(Put(raw, b)) <= k + 1 + 1
    <2>1. Len(Put(raw, b)) = Len(raw) + 1 /\ Len(raw) \in Nat /\ Len(raw) <= k + 1
      BY PutType, PutOld, PutLast, PutChk DEF Follows
    <2> QED
      BY <2>1
  <1>7. /\ Chk(Put(raw, b)) = (Chk(raw) + b) % 256
        /\ Chk(Put(bs, b)) = (Chk(bs) + b) % 256
        /\ Chk(Put(f, b)) = (Chk(f) + b) % 256
        /\ Chk(raw) \in Byte /\ Chk(bs) \in Byte /\ Chk(f) \in Byte
    BY PutType, PutOld, PutLast, PutChk, ChkType
  <1>8. /\ Chk(raw) # Chk(f) => Chk(Put(raw, b)) # Chk(Put(f, b))
        /\ Chk(bs) # Chk(f) => Chk(Put(bs, b)) # Chk(Put(f, b))
    BY <1>7, ModFacts
  <1>9. Follows(e, k + 1, Put(raw, b), Put(bs, b), bad)
    BY <1>3, <1>4, <1>5, <1>6, <1>8 DEF Follows
  <1> QED
    BY <1>2, <1>9 DEF PlainConv

LEMMA FollowsLost ==
    ASSUME NEW e, Clean(e), NEW k \in Nat, k < Len(e),
           NEW raw \in Seq(Byte), NEW bs \in Seq(Byte),
           Follows(e, k, raw, bs, FALSE)
    PROVE  Follows(e, k + 1, raw, bs, TRUE)
  <1>1. e \in Seq(Byte) /\ k \in 0 .. Len(e) /\ k + 1 \in 1 .. Len(e)
    BY DEF Clean
  <1>2. PICK b \in Byte : b = e[k + 1] /\ b \notin {0, CR, 254, 255}
    BY <1>1 DEF Clean
  <1>3. PICK f \in Seq(Byte) : f = First(e, k)
    BY CleanFirst, <1>1
  <1>4. First(e, k + 1) = Put(f, b)
    BY <1>1, <1>2, <1>3, FirstMore
  <1>5. Chk(Put(f, b)) = (Chk(f) + b) % 256 /\ Chk(f) \in Byte
    BY PutType, PutOld, PutLast, PutChk, ChkType
  <1>6. Chk(Put(f, b)) # Chk(f)
    BY <1>2, <1>5, ModFacts
  <1>7. raw = f /\ bs = f /\ ~HasEnd(raw) /\ Len(raw) <= k + 1 /\ Len(raw) \in Nat
    BY <1>3 DEF Follows
  <1> QED
    BY <1>4, <1>6, <1>7 DEF Follows

LEMMA FollowsSpoilt ==
    ASSUME NEW e, Clean(e), NEW k \in Nat, k < Len(e),
           NEW raw \in Seq(Byte), NEW bs \in Seq(Byte),
           Follows(e, k, raw, bs, FALSE),
           NEW v \in Byte, v # e[k + 1]
    PROVE  Follows(e, k + 1, raw \o PlainConv(v), Put(bs, v), TRUE)
  <1>1. e \in Seq(Byte) /\ k \in 0 .. Len(e) /\ k + 1 \in 1 .. Len(e)
    BY DEF Clean
  <1>2. PICK b \in Byte : b = e[k + 1] /\ b \notin {0, CR, 254, 255}
    BY <1>1 DEF Clean
  <1>3. PICK f \in Seq(Byte) : f = First(e, k) /\ Len(f) = k /\ ~HasFF(f)
    BY CleanFirst, <1>1
  <1>4. First(e, k + 1) = Put(f, b)
    BY <1>1, <1>2, <1>3, FirstMore
  <1>5. raw = f /\ bs = f /\ ~HasEnd(f)
    BY <1>3, NoFFNoEnd DEF Follows
  <1>6. \A c \in Byte : Chk(Put(f, c)) = (Chk(f) + c) % 256
    BY PutType, PutOld, PutLast, PutChk
  <1>7. Chk(f) \in Byte
    BY ChkType
  <1>8. Chk(Put(f, v)) # Chk(Put(f, b))
    BY <1>2, <1>6, <1>7, ModFacts
  <1>9. CASE v = 255
    <2>0. PlainConv(v) = <<v, v>>
      BY <1>9 DEF PlainConv
    <2>1. Put(f, v) \in Seq(Byte) /\ Len(Put(f, v)) = Len(f) + 1
      BY PutType, Zenon
    <2>2. f \o <<v, v>> = Put(Put(f, v), v)
      BY TwoMore, Zenon
    <2>3. v # 0
      BY <1>9
    <2>4. ~HasEnd(Put(f, v))
      BY <1>5, <2>3, NoEndOne, Zenon
    <2>5. ~HasEnd(Put(Put(f, v), v))
      BY <2>1, <2>3, <2>4, NoEndOne, Zenon
    <2>6. Len(Put(Put(f, v), v)) = Len(Put(f, v)) + 1
      BY <2>1, PutType, Zenon
    <2>7. Len(Put(Put(f, v), v)) = k + 1 + 1
      BY <1>3, <2>1, <2>6
    <2>8. Chk(Put(Put(f, v), v)) # Chk(Put(f, b))
      <3>1. Chk(Put(Put(f, v), v)) = (Chk(Put(f, v)) + v) % 256
        BY <2>1, PutChk, Zenon
      <3>2. Chk(Put(f, v)) = (Chk(f) + v) % 256
        BY <1>6
      <3>3. b # 254
        BY <1>2
      <3>4. (((Chk(f) + v) % 256) + v) % 256 # (Chk(f) + b) % 256
        <4>1. \A y \in Byte : (((y + v) % 256) + v) % 256 # (y + b) % 256
          BY <1>9, <3>3, ModTwice
        <4> QED
          BY <1>7, <4>1, Zenon
      <3>5. Chk(Put(f, b)) = (Chk(f) + b) % 256
        BY <1>6
      <3> QED
        BY <3>1, <3>2, <3>4, <3>5, Zenon
    <2>9. raw \o PlainConv(v) = Put(Put(f, v), v)
      BY <1>5, <2>0, <2>2, Zenon
    <2>10. Put(bs, v) = Put(f, v)
      BY <1>5
    <2> QED
      BY <1>4, <1>8, <2>5, <2>7, <2>8, <2>9, <2>10 DEF Follows
  <1>10. ASSUME v # 255
         PROVE  Follows(e, k + 1, raw \o PlainConv(v), Put(bs, v), TRUE)
    <2>1. PICK c \in Byte : PlainConv(v) = <<c>>
      BY <1>10, SymbolFacts DEF PlainConv
    <2>2. ~HasEnd(Put(f, c)) /\ Len(Put(f, c)) = k + 1
      <3>1. Len(Put(f, c)) = Len(f) + 1
        BY PutType, Zenon
      <3>2. ~HasEnd(Put(f, c))
        BY <1>3, <1>5, NoEndOne, Zenon
      <3> QED
        BY <1>3, <3>1, <3>2
    <2>3. c = b \/ Chk(Put(f, c)) # Chk(Put(f, b))
      BY <1>6, <1>7, ModFacts
    <2>4. raw \o PlainConv(v) = Put(f, c)
      BY <1>5, <2>1, Zenon DEF Put
    <2>5. Put(bs, v) = Put(f, v)
      BY <1>5
    <2>6. Len(Put(f, c)) <= k + 1 + 1
      BY <2>2
    <2> QED
      BY <1>4, <1>8, <2>2, <2>3, <2>4, <2>5, <2>6 DEF Follows
  <1> QED
    BY <1>9, <1>10

-----------------------------------------------------------------------------
(* What the reply is evaluated to                                          *)

LEMMA NoEnds ==
    ASSUME NEW s \in Seq(Byte), ~HasEnd(s)
    PROVE  Ends(s) = {}
  <1> SUFFICES ASSUME NEW i \in 1 .. Len(s), i + 2 <= Len(s), s[i] = 255, s[i + 1] = 0
               PROVE  FALSE
    BY DEF Ends
  <1>1. i \in 1 .. Len(s) - 1
    OBVIOUS
  <1> QED
    BY <1>1 DEF HasEnd

LEMMA EvaluateNone ==
    ASSUME NEW s \in Seq(Byte), Ends(s) = {}
    PROVE  /\ Evaluate(s).answer = <<>>
           /\ Evaluate(s).data = <<>>
  BY DEF Evaluate, Checked

(* d, then what the terminal makes of a byte v with its 9th bit set.       *)
Tailed(d, v) == d \o <<255, 0, v>>

(* t is a reply of n bytes d and an end byte v.                            *)
IsTailed(t, d, v, n) ==
    /\ Len(t) = n + 3
    /\ \A i \in 1 .. n : t[i] = d[i]
    /\ t[n + 1] = 255 /\ t[n + 2] = 0 /\ t[n + 3] = v

LEMMA EndType ==
    ASSUME NEW v \in Byte
    PROVE  <<255, 0, v>> \in Seq(Byte)
  <1>1. PICK x \in Byte, y \in Byte : x = 255 /\ y = 0
    BY SymbolFacts
  <1>2. <<x, y, v>> \in Seq(Byte)
    OBVIOUS
  <1> QED
    BY <1>1, <1>2

LEMMA TailedFacts ==
    ASSUME NEW d \in Seq(Byte), NEW v \in Byte, NEW n \in Nat, n = Len(d)
    PROVE  Tailed(d, v) \in Seq(Byte) /\ IsTailed(Tailed(d, v), d, v, n)
  <1>0. PICK m : m = <<255, 0, v>>
    OBVIOUS
  <1>1. m \in Seq(Byte)
    BY <1>0, EndType
  <1>a. Len(m) = 3 /\ m[1] = 255 /\ m[2] = 0 /\ m[3] = v
    BY <1>0
  <1>2. /\ d \o m \in Seq(Byte)
        /\ Len(d \o m) = Len(d) + Len(m)
        /\ \A i \in 1 .. Len(d) + Len(m) : (d \o m)[i] = IF i <= Len(d) THEN d[i] ELSE m[i - Len(d)]
    BY <1>1, ConcatProperties, Zenon
  <1>3. PICK t : t = d \o m
    OBVIOUS
  <1>5. \A i \in 1 .. n + 3 : t[i] = IF i <= n THEN d[i] ELSE m[i - n]
    BY <1>a, <1>2, <1>3, Zenon
  <1>6. /\ \A i \in 1 .. n : t[i] = d[i]
        /\ t[n + 1] = 255 /\ t[n + 2] = 0 /\ t[n + 3] = v
    <2>1. \A i \in 1 .. n : t[i] = d[i]
      BY <1>5
    <2>2. t[n + 1] = m[n + 1 - n] /\ t[n + 2] = m[n + 2 - n] /\ t[n + 3] = m[n + 3 - n]
      BY <1>5
    <2>3. n + 1 - n = 1 /\ n + 2 - n = 2 /\ n + 3 - n = 3
      OBVIOUS
    <2> QED
      BY <1>a, <2>1, <2>2, <2>3
  <1>7. t \in Seq(Byte) /\ Len(t) = n + 3
    BY <1>a, <1>2, <1>3, Zenon
  <1>8. Tailed(d, v) = t
    BY <1>0, <1>3, Zenon DEF Tailed
  <1>9. IsTailed(t, d, v, n)
    BY <1>6, <1>7 DEF IsTailed
  <1> QED
    BY <1>7, <1>8, <1>9, Zenon

(* The end byte is found, unless a part of it is missing.                  *)
LEMMA TailedEnds ==
    ASSUME NEW d \in Seq(Byte), NEW v \in Byte, ~HasEnd(d),
           NEW s \in Seq(Byte), Len(s) <= Len(d) + 3,
           \A i \in 1 .. Len(s) : s[i] = Tailed(d, v)[i]
    PROVE  Ends(s) = IF Len(s) = Len(d) + 3 THEN {Len(d) + 1} ELSE {}
  <1>2. PICK n \in Nat : n = Len(d)
    OBVIOUS
  <1>1. PICK t \in Seq(Byte) : t = Tailed(d, v) /\ IsTailed(t, d, v, n)
    BY <1>2, TailedFacts, Zenon
  <1>3. PICK l \in Nat : l = Len(s) /\ l <= n + 3
    BY <1>2
  <1>4. /\ \A i \in 1 .. n : t[i] = d[i]
        /\ t[n + 1] = 255 /\ t[n + 2] = 0
    BY <1>1 DEF IsTailed
  <1>5. \A i \in 1 .. l : s[i] = t[i]
    BY <1>1, <1>3
  <1>6. \A i \in 1 .. n - 1 : ~(d[i] = 255 /\ d[i + 1] = 0)
    BY <1>2 DEF HasEnd
  <1>7. ASSUME NEW i \in 1 .. l, i + 2 <= l, s[i] = 255, s[i + 1] = 0
        PROVE  i = n + 1 /\ l = n + 3
    <2>1. t[i] = 255 /\ t[i + 1] = 0 /\ i \in 1 .. n + 1
      <3>1. i + 1 \in 1 .. l /\ i \in 1 .. n + 1
        BY <1>3, <1>7
      <3> QED
        BY <3>1, <1>5, <1>7
    <2>2. CASE i < n
      <3>1. i \in 1 .. n - 1 /\ i \in 1 .. n /\ i + 1 \in 1 .. n
        BY <2>2
      <3>2. t[i] = d[i] /\ t[i + 1] = d[i + 1]
        BY <3>1, <1>4
      <3>3. d[i] = 255 /\ d[i + 1] = 0
        BY <3>2, <2>1, Zenon
      <3> QED
        BY <3>1, <3>3, <1>6, Zenon
    <2>3. CASE i = n
      BY <2>1, <2>3, <1>4
    <2>4. CASE i = n + 1
      BY <2>4, <1>3, <1>7
    <2> QED
      BY <2>1, <2>2, <2>3, <2>4
  <1>8. CASE l = n + 3
    <2>1. n + 1 \in 1 .. l /\ n + 2 \in 1 .. l /\ n + 1 + 1 = n + 2 /\ n + 1 + 2 <= l
      BY <1>8
    <2>2. s[n + 1] = 255 /\ s[n + 1 + 1] = 0
      BY <2>1, <1>4, <1>5
    <2>3. Ends(s) = {n + 1}
      BY <2>1, <2>2, <1>3, <1>7 DEF Ends
    <2> QED
      BY <1>2, <1>3, <1>8, <2>3
  <1>9. CASE l # n + 3
    <2>1. Ends(s) = {}
      BY <1>3, <1>7, <1>9 DEF Ends
    <2> QED
      BY <1>2, <1>3, <1>9, <2>1
  <1> QED
    BY <1>8, <1>9

LEMMA MinOne == \A n \in Nat : Min({n}) = n
  BY DEF Min

(* A whole reply is taken when its last byte is the sum of the others.     *)
LEMMA EvaluateWhole ==
    ASSUME NEW d \in Seq(Byte), d # <<>>, NEW v \in Byte, ~HasEnd(d)
    PROVE  Evaluate(Tailed(d, v)) =
             IF v = Chk(d) THEN [res |-> "ok", data |-> d, answer |-> <<"ack">>]
             ELSE [res |-> "ECOMM", data |-> <<>>, answer |-> <<"nack">>]
  <1>2. PICK n \in Nat : n = Len(d) /\ n # 0
    OBVIOUS
  <1>1. PICK t \in Seq(Byte) : t = Tailed(d, v) /\ IsTailed(t, d, v, n)
    BY <1>2, TailedFacts, Zenon
  <1>3. /\ Len(t) = n + 3 /\ t[n + 3] = v
        /\ \A i \in 1 .. n : t[i] = d[i]
    BY <1>1 DEF IsTailed
  <1>4. Ends(t) = {n + 1}
    <2>1. Len(t) = Len(d) + 3
      BY <1>2, <1>3
    <2>2. Len(t) <= Len(d) + 3
      BY <2>1
    <2>3. Ends(t) = IF Len(t) = Len(d) + 3 THEN {Len(d) + 1} ELSE {}
      BY <1>1, <2>2, TailedEnds, Zenon
    <2> QED
      BY <1>2, <2>1, <2>3
  <1>5. Min(Ends(t)) = n + 1
    BY <1>4, MinOne
  <1>6. SubSeq(t, 1, n) = d
    <2>1. n \in 0 .. Len(t)
      BY <1>3
    <2>2. SubSeq(t, 1, n) \in Seq(Byte) /\ Len(SubSeq(t, 1, n)) = n
          /\ \A i \in 1 .. n : SubSeq(t, 1, n)[i] = t[i]
      BY <2>1, PrefixType
    <2>3. \A i \in 1 .. n : SubSeq(t, 1, n)[i] = d[i]
      BY <2>2, <1>3
    <2> QED
      BY <1>2, <2>2, <2>3, SeqEqual
  <1>7. n + 1 - 1 = n /\ n + 1 + 2 = n + 3
    OBVIOUS
  <1>8. Checked(t) = IF v = Chk(d) THEN [res |-> "ok", data |-> d, answer |-> <<"ack">>]
                     ELSE [res |-> "ECOMM", data |-> <<>>, answer |-> <<"nack">>]
    <2>1. Checked(t) = IF t[n + 1 + 2] = Chk(SubSeq(t, 1, n + 1 - 1))
                       THEN [res |-> "ok", data |-> SubSeq(t, 1, n + 1 - 1), answer |-> <<"ack">>]
                       ELSE [res |-> "ECOMM", data |-> <<>>, answer |-> <<"nack">>]
      <3>1. Ends(t) # {}
        BY <1>4
      <3> QED
        BY <1>5, <3>1 DEF Checked
    <2>2. t[n + 1 + 2] = v /\ SubSeq(t, 1, n + 1 - 1) = d
      BY <1>3, <1>6, <1>7, Zenon
    <2> QED
      BY <2>1, <2>2, Zenon
  <1>9. t # <<>> /\ Len(t) # 3
    BY <1>2, <1>3
  <1>10. Evaluate(t) = Checked(t)
    BY <1>9, Zenon DEF Evaluate
  <1> QED
    BY <1>1, <1>8, <1>10, Zenon

(* A byte with its 9th bit set and no other.                               *)
LEMMA EvaluateByte ==
    ASSUME NEW v \in Byte
    PROVE  /\ Evaluate(Tailed(<<>>, v)).answer = <<>>
           /\ Evaluate(Tailed(<<>>, v)).data = <<>>
           /\ Evaluate(Tailed(<<>>, v)).res \in {"ok", "EIO"}
  <1>0. <<>> \in Seq(Byte) /\ Len(<<>>) = 0
    BY EmptySeq
  <1>1. PICK d \in Seq(Byte) : d = <<>> /\ Len(d) = 0
    BY <1>0, Zenon
  <1>2. PICK n \in Nat : n = Len(d) /\ n = 0
    BY <1>1
  <1>3. PICK t \in Seq(Byte) : t = Tailed(d, v) /\ IsTailed(t, d, v, n)
    BY <1>2, TailedFacts, Zenon
  <1>4. Len(t) = 3 /\ t[1] = 255 /\ t[2] = 0 /\ t # <<>>
    <2>1. Len(t) = 0 + 3 /\ t[0 + 1] = 255 /\ t[0 + 2] = 0
      BY <1>2, <1>3 DEF IsTailed
    <2>2. 0 + 1 = 1 /\ 0 + 2 = 2 /\ 0 + 3 = 3
      OBVIOUS
    <2>3. Len(t) = 3 /\ t[1] = 255 /\ t[2] = 0
      BY <2>1, <2>2
    <2>4. t # d
      <3>1. Len(t) # Len(d)
        <4>1. Len(t) = 3 /\ n = 0 /\ n = Len(d)
          BY <1>2, <2>3
        <4> QED
          BY <4>1
      <3> QED
        BY <3>1, Zenon
    <2>5. t # <<>>
      BY <1>1, <2>4, Zenon
    <2> QED
      BY <2>3, <2>5
  <1>5. Evaluate(t) = [res |-> IF t[3] \in {ACK, NACK} THEN "ok" ELSE "EIO",
                       data |-> <<>>, answer |-> <<>>]
    BY <1>4, Zenon DEF Evaluate
  <1> QED
    BY <1>1, <1>3, <1>5

LEMMA EvaluateEmpty ==
    /\ Evaluate(<<>>).answer = <<>>
    /\ Evaluate(<<>>).data = <<>>
    /\ Evaluate(<<>>).res = "ETIMEDOUT"
  BY DEF Evaluate

-----------------------------------------------------------------------------
(* The reply on the line, and what is left of it                           *)

BytesOf(l) == [i \in 1 .. Len(l) |-> l[i].byte]
AllPlain(l) == \A i \in 1 .. Len(l) : ~l[i].nine

(* ReplyGood, of a reply l.                                                *)
IsGood(l) ==
    LET n == Len(l) IN
    /\ n > 0
    /\ \A i \in 1 .. n : l[i].nine <=> i = n
    /\ l[n].byte = Chk([i \in 1 .. n - 1 |-> l[i].byte])

LEMMA GoodIsGood == ReplyGood <=> IsGood(line.bytes)
  BY DEF ReplyGood, IsGood

PutS(l, x) == l \o <<x>>

LEMMA PutSFacts ==
    ASSUME NEW l \in Seq(Symbol), NEW x \in Symbol
    PROVE  /\ PutS(l, x) \in Seq(Symbol)
           /\ Len(PutS(l, x)) = Len(l) + 1
           /\ \A i \in 1 .. Len(l) : PutS(l, x)[i] = l[i]
           /\ PutS(l, x)[Len(l) + 1] = x
  <1>1. PutS(l, x) = Append(l, x)
    BY AppendIsConcat DEF PutS
  <1>2. /\ Append(l, x) \in Seq(Symbol)
        /\ Len(Append(l, x)) = Len(l) + 1
        /\ \A i \in 1 .. Len(l) : Append(l, x)[i] = l[i]
        /\ Append(l, x)[Len(l) + 1] = x
    BY AppendProperties
  <1> QED
    BY <1>1, <1>2, Zenon

LEMMA BytesType ==
    ASSUME NEW l \in Seq(Symbol)
    PROVE  /\ BytesOf(l) \in Seq(Byte)
           /\ Len(BytesOf(l)) = Len(l)
           /\ \A i \in 1 .. Len(l) : BytesOf(l)[i] = l[i].byte
  <1>1. \A i \in 1 .. Len(l) : l[i].byte \in Byte
    <2>1. \A i \in 1 .. Len(l) : l[i] \in Symbol
      OBVIOUS
    <2>2. \A x \in Symbol : x.byte \in Byte
      BY DEF Symbol
    <2> QED
      BY <2>1, <2>2
  <1>2. PICK n \in Nat : n = Len(l)
    OBVIOUS
  <1>3. PICK f : f = [i \in 1 .. n |-> l[i].byte]
    OBVIOUS
  <1>4. f \in [1 .. n -> Byte]
    BY <1>1, <1>2, <1>3
  <1>5. f \in Seq(Byte) /\ Len(f) = n
    BY <1>4
  <1>6. \A i \in 1 .. n : f[i] = l[i].byte
    BY <1>3
  <1>7. BytesOf(l) = f
    BY <1>2, <1>3 DEF BytesOf
  <1> QED
    BY <1>2, <1>5, <1>6, <1>7, Zenon

LEMMA BytesMore ==
    ASSUME NEW l \in Seq(Symbol), NEW x \in Symbol
    PROVE  BytesOf(PutS(l, x)) = Put(BytesOf(l), x.byte)
  <1>1. x.byte \in Byte
    BY DEF Symbol
  <1>2. PICK n \in Nat : n = Len(l)
    OBVIOUS
  <1>3. PICK m \in Seq(Symbol) : m = PutS(l, x)
    BY PutSFacts
  <1>4. /\ Len(m) = n + 1 /\ m[n + 1] = x
        /\ \A i \in 1 .. n : m[i] = l[i]
    BY <1>2, <1>3, PutSFacts, Zenon
  <1>5. /\ BytesOf(m) \in Seq(Byte) /\ Len(BytesOf(m)) = n + 1
        /\ \A i \in 1 .. n + 1 : BytesOf(m)[i] = m[i].byte
    <2>1. /\ BytesOf(m) \in Seq(Byte) /\ Len(BytesOf(m)) = Len(m)
          /\ \A i \in 1 .. Len(m) : BytesOf(m)[i] = m[i].byte
      BY BytesType, Zenon
    <2> QED
      BY <1>4, <2>1, Zenon
  <1>6. PICK s \in Seq(Byte) : s = BytesOf(l) /\ Len(s) = n /\ \A i \in 1 .. n : s[i] = l[i].byte
    BY <1>2, BytesType, Zenon
  <1>7. /\ Put(s, x.byte) \in Seq(Byte) /\ Len(Put(s, x.byte)) = n + 1
        /\ \A i \in 1 .. n : Put(s, x.byte)[i] = s[i]
        /\ Put(s, x.byte)[n + 1] = x.byte
    BY <1>1, <1>6, OneMore, Zenon
  <1>8. \A i \in 1 .. n + 1 : BytesOf(m)[i] = Put(s, x.byte)[i]
    <2> SUFFICES ASSUME NEW i \in 1 .. n + 1
                 PROVE  BytesOf(m)[i] = Put(s, x.byte)[i]
      OBVIOUS
    <2>1. CASE i = n + 1
      BY <2>1, <1>4, <1>5, <1>7, Zenon
    <2>2. CASE i # n + 1
      <3>1. i \in 1 .. n
        BY <2>2
      <3>2. BytesOf(m)[i] = m[i].byte
        BY <1>5
      <3>3. m[i] = l[i]
        BY <3>1, <1>4, Zenon
      <3>4. s[i] = l[i].byte
        BY <3>1, <1>6, Zenon
      <3>5. Put(s, x.byte)[i] = s[i]
        BY <3>1, <1>7, Zenon
      <3> QED
        BY <3>2, <3>3, <3>4, <3>5, Zenon
    <2> QED
      BY <2>1, <2>2
  <1>9. BytesOf(m) = Put(s, x.byte)
    BY <1>5, <1>7, <1>8, SeqEqual, Zenon
  <1> QED
    BY <1>3, <1>6, <1>9, Zenon

LEMMA PlainMore ==
    ASSUME NEW l \in Seq(Symbol), NEW x \in Symbol, AllPlain(l), ~x.nine
    PROVE  AllPlain(PutS(l, x))
  <1> SUFFICES ASSUME NEW i \in 1 .. Len(PutS(l, x))
               PROVE  ~PutS(l, x)[i].nine
    BY DEF AllPlain
  <1>1. PICK n \in Nat : n = Len(l)
    OBVIOUS
  <1>2. /\ Len(PutS(l, x)) = n + 1 /\ PutS(l, x)[n + 1] = x
        /\ \A j \in 1 .. n : PutS(l, x)[j] = l[j]
    BY <1>1, PutSFacts, Zenon
  <1>3. i \in 1 .. n \/ i = n + 1
    BY <1>2
  <1>4. \A j \in 1 .. n : ~l[j].nine
    BY <1>1 DEF AllPlain
  <1> QED
    BY <1>2, <1>3, <1>4, Zenon

LEMMA PlainNotGood ==
    ASSUME NEW l \in Seq(Symbol), AllPlain(l)
    PROVE  ~IsGood(l)
  BY DEF AllPlain, IsGood

LEMMA GoodEnd ==
    ASSUME NEW l \in Seq(Symbol), NEW x \in Symbol, IsGood(PutS(l, x))
    PROVE  x.byte = Chk(BytesOf(l))
  <1>1. PICK n \in Nat : n = Len(l)
    OBVIOUS
  <1>2. PICK m : m = PutS(l, x)
    OBVIOUS
  <1>3. /\ Len(m) = n + 1 /\ m[n + 1] = x
        /\ \A j \in 1 .. n : m[j] = l[j]
    BY <1>1, <1>2, PutSFacts, Zenon
  <1>4. PICK q \in Nat : q = n + 1 /\ q - 1 = n
    OBVIOUS
  <1>5. m[q].byte = Chk([i \in 1 .. q - 1 |-> m[i].byte])
    <2>1. IsGood(m) /\ q = Len(m)
      BY <1>2, <1>3, <1>4
    <2> QED
      BY <2>1 DEF IsGood
  <1>6. [i \in 1 .. q - 1 |-> m[i].byte] = BytesOf(l)
    <2>1. [i \in 1 .. n |-> m[i].byte] = [i \in 1 .. n |-> l[i].byte]
      BY <1>3
    <2>2. BytesOf(l) = [i \in 1 .. n |-> l[i].byte]
      BY <1>1, Zenon DEF BytesOf
    <2> QED
      BY <1>4, <2>1, <2>2, Zenon
  <1> QED
    BY <1>3, <1>4, <1>5, <1>6, Zenon

(* s is what is left of the reply with the event e after k bytes of it.    *)
Left(e, k, s) ==
    /\ Len(s) = Len(e) + 1 - k
    /\ \A i \in 1 .. Len(s) :
         s[i] = IF k + i <= Len(e) THEN Plain(e[k + i]) ELSE Marked(Chk(e))

LEMMA LeftStep ==
    ASSUME NEW e \in Seq(Byte), NEW k \in 0 .. Len(e), NEW s \in Seq(Symbol), Left(e, k, s)
    PROVE  /\ s # <<>>
           /\ k < Len(e) => /\ Len(s) > 1
                            /\ Head(s) = Plain(e[k + 1])
                            /\ Left(e, k + 1, Tail(s))
           /\ k = Len(e) => Len(s) = 1 /\ Head(s) = Marked(Chk(e))
  <1>1. PICK n \in Nat : n = Len(e) /\ k \in 0 .. n
    OBVIOUS
  <1>2. /\ Len(s) = n + 1 - k
        /\ \A i \in 1 .. n + 1 - k :
             s[i] = IF k + i <= n THEN Plain(e[k + i]) ELSE Marked(Chk(e))
    BY <1>1 DEF Left
  <1>3. s # <<>> /\ Len(s) \in Nat
    BY <1>1, <1>2
  <1>4. Head(s) = s[1]
    BY <1>3
  <1>5. 1 \in 1 .. n + 1 - k
    BY <1>1
  <1>6. /\ Len(Tail(s)) = n + 1 - (k + 1)
        /\ \A i \in 1 .. Len(Tail(s)) : Tail(s)[i] = s[i + 1]
    <2>1. Len(Tail(s)) = Len(s) - 1 /\ \A i \in 1 .. Len(Tail(s)) : Tail(s)[i] = s[i + 1]
      BY <1>3, HeadTailProperties
    <2> QED
      BY <1>1, <1>2, <2>1
  <1>7. \A i \in 1 .. Len(Tail(s)) :
          Tail(s)[i] = IF k + 1 + i <= n THEN Plain(e[k + 1 + i]) ELSE Marked(Chk(e))
    <2> SUFFICES ASSUME NEW i \in 1 .. n - k
                 PROVE  s[i + 1] = IF k + 1 + i <= n THEN Plain(e[k + 1 + i]) ELSE Marked(Chk(e))
      BY <1>1, <1>6
    <2>1. i + 1 \in 1 .. n + 1 - k /\ k + (i + 1) = k + 1 + i
      BY <1>1
    <2>2. s[i + 1] = IF k + (i + 1) <= n THEN Plain(e[k + (i + 1)]) ELSE Marked(Chk(e))
      BY <1>2, <2>1, Zenon
    <2> QED
      BY <2>1, <2>2, Zenon
  <1>8. Left(e, k + 1, Tail(s))
    BY <1>1, <1>6, <1>7 DEF Left
  <1>9. ASSUME k < n
        PROVE  Len(s) > 1 /\ Head(s) = Plain(e[k + 1])
    BY <1>1, <1>2, <1>4, <1>5, <1>9
  <1>10. ASSUME k = n
         PROVE  Len(s) = 1 /\ Head(s) = Marked(Chk(e))
    BY <1>1, <1>2, <1>4, <1>5, <1>10
  <1> QED
    BY <1>1, <1>3, <1>8, <1>9, <1>10

-----------------------------------------------------------------------------
(* The inductive invariant                                                 *)

(* What has arrived of the reply, read or not.                             *)
Raw == buf \o in

Event == Events[next]

(* k bytes of the event were sent.                                         *)
Sending(k) ==
    /\ Left(Event, k, send)
    /\ AllPlain(line.bytes)
    /\ Follows(Event, k, Raw, BytesOf(line.bytes), line.spoilt)

EndedBy(d, v) ==
    /\ Raw = Tailed(d, v)
    /\ ~HasEnd(d)
    /\ d = Event \/ Chk(d) # v
    /\ IsGood(line.bytes) => d = Event /\ v = Chk(Event)

(* All of the event was sent, the end byte was lost or not.                *)
Ended ==
    \/ AllPlain(line.bytes) /\ ~HasEnd(Raw)
    \/ \E d \in Seq(Byte) : \E v \in Byte : EndedBy(d, v)

(* The peripheral was silent, or has sent one byte.                        *)
OneByte == Raw = <<>> \/ \E v \in Byte : Raw = Tailed(<<>>, v)

(* The transaction was given up: before its command was sent, or before    *)
(* its reply was all there.                                                *)
GivenUp ==
    /\ res = "EIO" /\ Len(got) = next - 1
    /\ \/ out = <<"adr">> /\ per \in {"idle", "cmd", "await"} /\ parodd
       \/ out = <<"rest">> /\ per = "cmd" /\ ~parodd
       \/ out = <<>> /\ per \in {"answer", "send", "nod"}

InIdle ==
    \/ out = <<>> /\ Len(got) = next - 1 /\ per \in {"idle", "cmd", "await"}
    \/ out = <<"ack">> /\ Len(got) = next /\ per = "await" /\ ~parodd
    \/ out = <<"nack">> /\ Len(got) = next - 1 /\ per = "await" /\ ~parodd
    \/ GivenUp

InFirst ==
    /\ parodd /\ Raw = <<>> /\ line = NoReply /\ Len(got) = next - 1
    /\ \/ out = <<"adr">> /\ per \in {"idle", "cmd", "await"}
       \/ out = <<>> /\ per = "cmd"

Commanding == out = <<"rest">> /\ per = "cmd" /\ Raw = <<>>
Answering == out = <<>> /\ per = "answer" /\ Raw = <<>>
Reporting == out = <<>> /\ per = "send" /\ \E k \in 0 .. Len(Event) : Sending(k)
Nodding == out = <<>> /\ per = "nod" /\ Raw = <<>> /\ send = <<Marked(ACK)>>
Awaiting == out = <<>> /\ per = "await" /\ Ended
Resting == out = <<>> /\ per = "idle" /\ OneByte

InWait ==
    /\ ~parodd /\ Len(got) = next - 1
    /\ Commanding \/ Answering \/ Reporting \/ Nodding \/ Awaiting \/ Resting

Phase ==
    /\ pc = "idle" => InIdle
    /\ pc = "first" => InFirst
    /\ pc = "wait" => InWait

(* What the client was handed are the events, in order; without an ACK,    *)
(* the one that is still to be reported.                                   *)
Handed ==
    /\ \A i \in 1 .. Len(got) : i <= Len(Events) /\ got[i] = Events[i]
    /\ \A x \in again : Len(got) = next - 1 /\ next <= Len(Events) /\ x = Event

Kept == Phase /\ Handed /\ RefusedOnlyBad

(* The events fit the buffer and are made of bytes that the sum tells from *)
(* what the line makes of them: not 0, which may be lost unnoticed; not    *)
(* 254, which spoilt to 255 is doubled by the terminal and adds the same;  *)
(* not 255 and 13, which the terminal converts.                            *)
SafeEvents ==
    \A i \in 1 .. Len(Events) : Clean(Events[i]) /\ Len(Events[i]) + 3 <= BufSize

LEMMA RawType ==
    ASSUME QueueType
    PROVE  Raw \in Seq(Byte) /\ buf \in Seq(Byte) /\ in \in Seq(Byte)
  BY ConcatProperties DEF QueueType, Raw

LEMMA EventType ==
    ASSUME TypeInv, per \in {"send", "await"}
    PROVE  next \in 1 .. Len(Events) /\ Event \in Seq(Byte) /\ Event # <<>>
  <1>1. next \in 1 .. Len(Events) + 1 /\ next <= Len(Events)
    BY TypeParts DEF TypeInv, SendOK, BusType
  <1>2. Len(Events) \in Nat
    BY EventsAssumption
  <1>3. next \in 1 .. Len(Events)
    BY <1>1, <1>2
  <1> QED
    BY <1>3, EventFacts DEF Event

(* A byte arrives.                                                         *)
LEMMA RawArrives ==
    ASSUME QueueType, LineType, parodd = FALSE, buf' = buf, NEW x \in Symbol, NEW bad,
           Arrives(<<x>>, bad)
    PROVE  /\ Raw' = Raw \o (IF x.nine THEN <<255, 0, x.byte>> ELSE PlainConv(x.byte))
           /\ line'.bytes = PutS(line.bytes, x)
           /\ line'.spoilt = bad
  <1>1. x.byte \in Byte /\ x.nine \in BOOLEAN
    BY DEF Symbol
  <1>2. Converted(x) = IF x.nine THEN <<255, 0, x.byte>> ELSE PlainConv(x.byte)
    <2>1. CASE x.nine = TRUE
      BY <2>1 DEF Converted
    <2>2. CASE x.nine = FALSE
      BY <2>2 DEF Converted, PlainConv
    <2> QED
      BY <1>1, <2>1, <2>2
  <1>3. PICK c \in Seq(Byte) : c = Converted(x)
    BY ConvertedType
  <1>4. <<x>> # <<>> /\ <<x>>[1] = x
    OBVIOUS
  <1>5. in' = in \o c /\ line' = [bytes |-> line.bytes \o <<x>>, spoilt |-> bad]
    BY <1>3, <1>4 DEF Arrives
  <1>6. buf \in Seq(Byte) /\ in \in Seq(Byte)
    BY DEF QueueType
  <1>7. buf \o (in \o c) = (buf \o in) \o c
    BY <1>6, ConcatAssociative
  <1>8. Raw' = Raw \o c
    BY <1>5, <1>7 DEF Raw
  <1> QED
    BY <1>2, <1>3, <1>5, <1>8 DEF PutS

LEMMA RawLost ==
    ASSUME QueueType, LineType, buf' = buf, Arrives(<<>>, TRUE)
    PROVE  Raw' = Raw /\ line'.bytes = line.bytes /\ line'.spoilt = TRUE
  <1>1. in \in Seq(Byte) /\ line.bytes \in Seq(Symbol)
    BY DEF QueueType, LineType
  <1>2. in \o <<>> = in /\ line.bytes \o <<>> = line.bytes
    BY <1>1, ConcatEmptySeq
  <1>3. in' = in \o <<>> /\ line' = [bytes |-> line.bytes \o <<>>, spoilt |-> TRUE]
    BY DEF Arrives
  <1> QED
    BY <1>2, <1>3 DEF Raw

LEMMA ConcatBytes ==
    ASSUME NEW x \in Seq(Byte), NEW y \in Seq(Byte), NEW z \in Seq(Byte)
    PROVE  (x \o y) \o z = x \o (y \o z)
  BY ConcatAssociative

LEMMA SubSeqBytes ==
    ASSUME NEW s \in Seq(Byte), NEW m \in Int, NEW n \in Int, \A i \in m .. n : s[i] \in Byte
    PROVE  /\ SubSeq(s, m, n) \in Seq(Byte)
           /\ Len(SubSeq(s, m, n)) = IF m <= n THEN n - m + 1 ELSE 0
           /\ \A i \in 1 .. n - m + 1 : SubSeq(s, m, n)[i] = s[m + i - 1]
  BY SubSeqProperties

(* Reading moves bytes from the terminal to the buffer.                    *)
LEMMA RawRead ==
    ASSUME TypeInv, ReadReply
    PROVE  Raw' = Raw
  <1>1. PICK n : /\ n = Min({Len(in), BufSize - Len(buf)})
                 /\ buf' = buf \o SubSeq(in, 1, n)
                 /\ in' = SubSeq(in, n + 1, Len(in))
    BY DEF ReadReply
  <1>0. QueueType
    BY TypeParts DEF TypeInv
  <1>2. n \in 0 .. Len(in)
    <2>1. Len(in) \in Nat /\ BufSize - Len(buf) \in Nat
      BY <1>0, BufAssumption DEF QueueType
    <2>2. n = IF Len(in) <= BufSize - Len(buf) THEN Len(in) ELSE BufSize - Len(buf)
      BY <1>1, <2>1, MinTwo
    <2> QED
      BY <2>1, <2>2
  <1>3. in \in Seq(Byte) /\ buf \in Seq(Byte)
    BY <1>0 DEF QueueType
  <1>4. PICK a : a = SubSeq(in, 1, n)
    OBVIOUS
  <1>5. PICK b : b = SubSeq(in, n + 1, Len(in))
    OBVIOUS
  <1>6. a \in Seq(Byte) /\ b \in Seq(Byte) /\ a \o b = in
    <2>1. PICK l \in Nat : l = Len(in) /\ n \in 0 .. l /\ n \in Int /\ l \in Int /\ n + 1 \in Int
      BY <1>2, <1>3
    <2>2. /\ a \in Seq(Byte) /\ Len(a) = n
          /\ \A i \in 1 .. n : a[i] = in[i]
      BY <1>2, <1>3, <1>4, PrefixType
    <2>3. \A i \in n + 1 .. l : in[i] \in Byte
      BY <1>3, <2>1
    <2>4. /\ b \in Seq(Byte)
          /\ Len(b) = IF n + 1 <= l THEN l - (n + 1) + 1 ELSE 0
          /\ \A i \in 1 .. l - (n + 1) + 1 : b[i] = in[n + 1 + i - 1]
      <3>1. PICK m \in Int : m = n + 1
        BY <2>1
      <3>2. \A i \in m .. l : in[i] \in Byte
        BY <2>3, <3>1, Zenon
      <3>3. /\ SubSeq(in, m, l) \in Seq(Byte)
            /\ Len(SubSeq(in, m, l)) = IF m <= l THEN l - m + 1 ELSE 0
            /\ \A i \in 1 .. l - m + 1 : SubSeq(in, m, l)[i] = in[m + i - 1]
        BY <1>3, <2>1, <3>1, <3>2, SubSeqBytes, Zenon
      <3>4. b = SubSeq(in, m, l)
        BY <1>5, <2>1, <3>1, Zenon
      <3> QED
        BY <3>1, <3>3, <3>4, Zenon
    <2>5. Len(b) = l - n /\ \A i \in 1 .. l - n : b[i] = in[n + i]
      <3>1. l - (n + 1) + 1 = l - n /\ \A i \in 1 .. l - n : n + 1 + i - 1 = n + i
        BY <2>1
      <3> QED
        BY <2>1, <2>4, <3>1
    <2>6. /\ a \o b \in Seq(Byte) /\ Len(a \o b) = Len(a) + Len(b)
          /\ \A i \in 1 .. Len(a) + Len(b) : (a \o b)[i] = IF i <= Len(a) THEN a[i] ELSE b[i - Len(a)]
      BY <2>2, <2>4, ConcatProperties, Zenon
    <2>7. PICK t \in Seq(Byte) : t = a \o b
      BY <2>6
    <2>8. Len(t) = l /\ \A i \in 1 .. l : t[i] = IF i <= n THEN a[i] ELSE b[i - n]
      <3>1. n + (l - n) = l
        BY <2>1
      <3> QED
        BY <2>2, <2>5, <2>6, <2>7, <3>1, Zenon
    <2>9. \A i \in 1 .. l : t[i] = in[i]
      <3> SUFFICES ASSUME NEW i \in 1 .. l
                   PROVE  t[i] = in[i]
        OBVIOUS
      <3>1. CASE i <= n
        BY <3>1, <2>1, <2>2, <2>8
      <3>2. CASE ~(i <= n)
        <4>1. i - n \in 1 .. l - n /\ n + (i - n) = i
          BY <3>2, <2>1
        <4> QED
          BY <3>2, <4>1, <2>5, <2>8
      <3> QED
        BY <3>1, <3>2
    <2>10. t = in
      BY <1>3, <2>1, <2>8, <2>9, SeqEqual
    <2> QED
      BY <2>2, <2>4, <2>7, <2>10
  <1>7. buf \o (a \o b) = (buf \o a) \o b
    <2>1. PICK x \in Seq(Byte), y \in Seq(Byte), z \in Seq(Byte) : x = buf /\ y = a /\ z = b
      BY <1>3, <1>6
    <2>2. (x \o y) \o z = x \o (y \o z)
      BY ConcatBytes, Zenon
    <2> QED
      BY <2>1, <2>2, Zenon
  <1>8. buf' = buf \o a /\ in' = b
    BY <1>1, <1>4, <1>5, Zenon
  <1>9. Raw' = (buf \o a) \o b
    BY <1>8, Zenon DEF Raw
  <1>10. Raw = buf \o (a \o b)
    BY <1>6, Zenon DEF Raw
  <1> QED
    BY <1>7, <1>9, <1>10, Zenon


LEMMA EventClean ==
    ASSUME TypeInv, SafeEvents, per \in {"send", "await"}
    PROVE  /\ next \in 1 .. Len(Events) /\ Event \in Seq(Byte) /\ Event # <<>>
           /\ Clean(Event) /\ Len(Event) + 3 <= BufSize
  BY EventType DEF SafeEvents, Event

-----------------------------------------------------------------------------
(* A byte of the reply                                                     *)

LEMMA MakeSymbol ==
    ASSUME NEW v \in Byte, NEW n \in BOOLEAN
    PROVE  \E y \in Symbol : y = [byte |-> v, nine |-> n] /\ y.byte = v /\ y.nine = n
  <1>1. [byte |-> v, nine |-> n] \in Symbol
    BY DEF Symbol
  <1>2. [byte |-> v, nine |-> n].byte = v /\ [byte |-> v, nine |-> n].nine = n
    OBVIOUS
  <1> QED
    BY <1>1, <1>2, Zenon

LEMMA MakePlain ==
    ASSUME NEW v \in Byte, NEW h, h = Plain(v)
    PROVE  \E y \in Symbol : y = h /\ y.byte = v /\ y.nine = FALSE
  <1>1. FALSE \in BOOLEAN
    OBVIOUS
  <1> QED
    BY <1>1, MakeSymbol, Zenon DEF Plain

LEMMA MakeMarked ==
    ASSUME NEW v \in Byte, NEW h, h = Marked(v)
    PROVE  \E y \in Symbol : y = h /\ y.byte = v /\ y.nine = TRUE
  <1>1. TRUE \in BOOLEAN
    OBVIOUS
  <1> QED
    BY <1>1, MakeSymbol, Zenon DEF Marked

(* One of the event's bytes, which may be spoilt or lost.                  *)
LEMMA DeliverEvent ==
    ASSUME TypeInv, Deliver, parodd = FALSE, per = "send", NEW e, e = Event, Clean(e),
           NEW k \in 0 .. Len(e), k < Len(e), Sending(k)
    PROVE  /\ per' = "send"
           /\ Left(e, k + 1, send')
           /\ AllPlain(line'.bytes)
           /\ Follows(e, k + 1, Raw', BytesOf(line'.bytes), line'.spoilt)
  <1>0. QueueType /\ LineType /\ BusType
    BY TypeParts DEF TypeInv
  <1>1. /\ e \in Seq(Byte) /\ k \in Nat /\ k + 1 \in 1 .. Len(e) /\ e[k + 1] \in Byte
    BY DEF Clean
  <1>2. /\ Left(e, k, send) /\ AllPlain(line.bytes)
        /\ Follows(e, k, Raw, BytesOf(line.bytes), line.spoilt)
    BY DEF Sending
  <1>3. send \in Seq(Symbol) /\ line.bytes \in Seq(Symbol) /\ line.spoilt \in BOOLEAN
    BY <1>0 DEF BusType, LineType
  <1>4. /\ Len(send) > 1 /\ Head(send) = Plain(e[k + 1])
        /\ Left(e, k + 1, Tail(send))
    BY <1>1, <1>2, <1>3, LeftStep, Zenon
  <1>5. buf' = buf /\ send' = Tail(send) /\ per' = "send"
    BY <1>4 DEF Deliver, master, history
  <1>6. PICK x \in Symbol : x = Head(send) /\ x.byte = e[k + 1] /\ x.nine = FALSE
    BY <1>1, <1>4, MakePlain, Zenon
  <1>7. PICK l \in Seq(Symbol) : l = line.bytes
    BY <1>3
  <1>8. PICK r \in Seq(Byte) : r = Raw
    BY <1>0, RawType
  <1>9. PICK s \in Seq(Byte) : s = BytesOf(l)
    BY BytesType
  <1>10. \/ Arrives(<<x>>, line.spoilt)
         \/ ~line.spoilt /\ Arrives(<<>>, TRUE)
         \/ ~line.spoilt /\ \E v \in Byte \ {x.byte} :
              Arrives(<<[byte |-> v, nine |-> x.nine]>>, TRUE)
    BY <1>6, DeliverCases
  <1> DEFINE Goal == /\ AllPlain(line'.bytes)
                     /\ Follows(e, k + 1, Raw', BytesOf(line'.bytes), line'.spoilt)
  <1>11. ASSUME Arrives(<<x>>, line.spoilt) PROVE Goal
    <2>1. Raw' = r \o PlainConv(x.byte) /\ line'.bytes = PutS(l, x) /\ line'.spoilt = line.spoilt
      BY <1>0, <1>5, <1>6, <1>7, <1>8, <1>11, RawArrives
    <2>2. AllPlain(PutS(l, x))
      BY <1>2, <1>6, <1>7, PlainMore
    <2>3. BytesOf(PutS(l, x)) = Put(s, x.byte)
      BY <1>9, BytesMore, Zenon
    <2>4. Follows(e, k, r, s, line.spoilt)
      BY <1>2, <1>7, <1>8, <1>9, Zenon
    <2>5. /\ Follows(e, k + 1, Put(r, e[k + 1]), Put(s, e[k + 1]), line.spoilt)
          /\ PlainConv(e[k + 1]) = <<e[k + 1]>>
      BY <1>1, <2>4, FollowsSame, Zenon
    <2>6. Raw' = Put(r, e[k + 1])
      BY <1>6, <2>1, <2>5, Zenon DEF Put
    <2> QED
      BY <1>6, <2>1, <2>2, <2>3, <2>5, <2>6, Zenon
  <1>12. ASSUME ~line.spoilt /\ Arrives(<<>>, TRUE) PROVE Goal
    <2>1. Raw' = r /\ line'.bytes = l /\ line'.spoilt = TRUE
      BY <1>0, <1>5, <1>7, <1>8, <1>12, RawLost
    <2>2. line.spoilt = FALSE
      BY <1>3, <1>12
    <2>3. Follows(e, k, r, s, FALSE)
      BY <1>2, <1>7, <1>8, <1>9, <2>2, Zenon
    <2>4. Follows(e, k + 1, r, s, TRUE)
      BY <1>1, <2>3, FollowsLost, Zenon
    <2> QED
      BY <1>2, <1>7, <1>9, <2>1, <2>4, Zenon
  <1>13. ASSUME ~line.spoilt, NEW v \in Byte \ {x.byte},
                Arrives(<<[byte |-> v, nine |-> x.nine]>>, TRUE)
         PROVE  Goal
    <2>0. PICK y \in Symbol : y = [byte |-> v, nine |-> x.nine] /\ y.byte = v /\ y.nine = FALSE
      <3>1. v \in Byte /\ x.nine \in BOOLEAN
        BY <1>6
      <3>2. PICK y \in Symbol : y = [byte |-> v, nine |-> x.nine] /\ y.byte = v /\ y.nine = x.nine
        BY <3>1, MakeSymbol, Zenon
      <3> QED
        BY <1>6, <3>2, Zenon
    <2>1. Raw' = r \o PlainConv(v) /\ line'.bytes = PutS(l, y) /\ line'.spoilt = TRUE
      BY <1>0, <1>5, <1>7, <1>8, <1>13, <2>0, RawArrives
    <2>2. AllPlain(PutS(l, y))
      BY <1>2, <1>7, <2>0, PlainMore
    <2>3. BytesOf(PutS(l, y)) = Put(s, v)
      BY <1>9, <2>0, BytesMore, Zenon
    <2>4. line.spoilt = FALSE
      BY <1>3, <1>13
    <2>5. Follows(e, k, r, s, FALSE)
      BY <1>2, <1>7, <1>8, <1>9, <2>4, Zenon
    <2>6. Follows(e, k + 1, r \o PlainConv(v), Put(s, v), TRUE)
      <3>1. v \in Byte /\ v # e[k + 1]
        BY <1>6, <1>13
      <3> QED
        BY <1>1, <2>5, <3>1, FollowsSpoilt, Zenon
    <2> QED
      BY <2>1, <2>2, <2>3, <2>6, Zenon
  <1>14. Goal
    BY <1>10, <1>11, <1>12, <1>13
  <1> QED
    BY <1>4, <1>5, <1>14, Zenon

LEMMA FirstAll ==
    ASSUME NEW e \in Seq(Byte), NEW k, k = Len(e)
    PROVE  First(e, k) = e
  BY SubSeqFull DEF First

(* The end byte.                                                           *)
LEMMA DeliverEnd ==
    ASSUME TypeInv, Deliver, parodd = FALSE, per = "send", NEW e, e = Event, Clean(e),
           NEW k \in 0 .. Len(e), k = Len(e), Sending(k)
    PROVE  /\ per' = "await"
           /\ \/ AllPlain(line'.bytes) /\ ~HasEnd(Raw')
              \/ \E d \in Seq(Byte) : \E v \in Byte :
                   /\ Raw' = Tailed(d, v)
                   /\ ~HasEnd(d)
                   /\ d = e \/ Chk(d) # v
                   /\ IsGood(line'.bytes) => d = e /\ v = Chk(e)
  <1>0. QueueType /\ LineType /\ BusType
    BY TypeParts DEF TypeInv
  <1>1. e \in Seq(Byte) /\ Chk(e) \in Byte
    BY ChkType DEF Clean
  <1>2. /\ Left(e, k, send) /\ AllPlain(line.bytes)
        /\ Follows(e, k, Raw, BytesOf(line.bytes), line.spoilt)
    BY DEF Sending
  <1>3. send \in Seq(Symbol) /\ line.bytes \in Seq(Symbol) /\ line.spoilt \in BOOLEAN
    BY <1>0 DEF BusType, LineType
  <1>4. Len(send) = 1 /\ Head(send) = Marked(Chk(e))
    BY <1>1, <1>2, <1>3, LeftStep, Zenon
  <1>5. buf' = buf /\ per' = "await"
    BY <1>4 DEF Deliver, master, history
  <1>6. PICK x \in Symbol : x = Head(send) /\ x.byte = Chk(e) /\ x.nine = TRUE
    BY <1>1, <1>4, MakeMarked, Zenon
  <1>7. PICK l \in Seq(Symbol) : l = line.bytes
    BY <1>3
  <1>8. PICK r \in Seq(Byte) : r = Raw
    BY <1>0, RawType
  <1>9. PICK s \in Seq(Byte) : s = BytesOf(l)
    BY BytesType
  <1>10. First(e, k) = e
    BY <1>1, FirstAll
  <1>11. /\ ~HasEnd(r)
         /\ ~line.spoilt => r = e /\ s = e
         /\ line.spoilt => (r = e \/ Chk(r) # Chk(e)) /\ Chk(s) # Chk(e)
    BY <1>2, <1>7, <1>8, <1>9, <1>10 DEF Follows
  <1>12. \/ Arrives(<<x>>, line.spoilt)
         \/ ~line.spoilt /\ Arrives(<<>>, TRUE)
         \/ ~line.spoilt /\ \E v \in Byte \ {x.byte} :
              Arrives(<<[byte |-> v, nine |-> x.nine]>>, TRUE)
    BY <1>6, DeliverCases
  <1> DEFINE Bad == AllPlain(line'.bytes) /\ ~HasEnd(Raw')
             Goal == \E d \in Seq(Byte) : \E v \in Byte :
                       /\ Raw' = Tailed(d, v)
                       /\ ~HasEnd(d)
                       /\ d = e \/ Chk(d) # v
                       /\ IsGood(line'.bytes) => d = e /\ v = Chk(e)
  <1>13. ASSUME Arrives(<<x>>, line.spoilt) PROVE Goal
    <2>1. Raw' = Tailed(r, x.byte) /\ line'.bytes = PutS(l, x)
      BY <1>0, <1>5, <1>6, <1>7, <1>8, <1>13, RawArrives DEF Tailed
    <2>2. r = e \/ Chk(r) # x.byte
      BY <1>6, <1>11
    <2>3. IsGood(line'.bytes) => r = e
      <3>1. IsGood(PutS(l, x)) => x.byte = Chk(s)
        BY <1>9, GoodEnd, Zenon
      <3> QED
        BY <1>6, <1>11, <2>1, <3>1, Zenon
    <2>4. x.byte \in Byte
      BY <1>1, <1>6
    <2> QED
      BY <1>6, <1>11, <2>1, <2>2, <2>3, <2>4, Zenon
  <1>14. ASSUME ~line.spoilt /\ Arrives(<<>>, TRUE) PROVE Bad
    <2>1. Raw' = r /\ line'.bytes = l
      BY <1>0, <1>5, <1>7, <1>8, <1>14, RawLost
    <2> QED
      BY <1>2, <1>7, <1>11, <2>1, Zenon
  <1>15. ASSUME ~line.spoilt, NEW v \in Byte \ {x.byte},
                Arrives(<<[byte |-> v, nine |-> x.nine]>>, TRUE)
         PROVE  Goal
    <2>0. PICK y \in Symbol : y = [byte |-> v, nine |-> x.nine] /\ y.byte = v /\ y.nine = TRUE
      BY <1>6, MakeSymbol
    <2>1. Raw' = Tailed(r, v) /\ line'.bytes = PutS(l, y)
      BY <1>0, <1>5, <1>7, <1>8, <1>15, <2>0, RawArrives DEF Tailed
    <2>2. r = e /\ s = e
      BY <1>11, <1>15
    <2>3. v \in Byte /\ v # Chk(e)
      BY <1>6, <1>15
    <2>4. ~IsGood(line'.bytes)
      <3>1. IsGood(PutS(l, y)) => y.byte = Chk(s)
        BY <1>9, GoodEnd, Zenon
      <3> QED
        BY <2>0, <2>1, <2>2, <2>3, <3>1, Zenon
    <2> QED
      BY <1>11, <2>1, <2>2, <2>3, <2>4, Zenon
  <1>16. Bad \/ Goal
    BY <1>12, <1>13, <1>14, <1>15
  <1> QED
    BY <1>5, <1>16, Zenon

(* The peripheral's ACK of the command.                                    *)
LEMMA DeliverNod ==
    ASSUME TypeInv, Deliver, parodd = FALSE, per = "nod", Raw = <<>>, send = <<Marked(ACK)>>
    PROVE  /\ per' = "idle"
           /\ Raw' = <<>> \/ \E v \in Byte : Raw' = Tailed(<<>>, v)
  <1>0. QueueType /\ LineType
    BY TypeParts DEF TypeInv
  <1>1. Len(send) = 1 /\ Head(send) = Marked(ACK)
    OBVIOUS
  <1>2. buf' = buf /\ per' = "idle"
    BY <1>1 DEF Deliver, master, history
  <1>3. PICK x \in Symbol : x = Head(send) /\ x.nine = TRUE
    BY <1>1, SymbolFacts
  <1>4. \/ Arrives(<<x>>, line.spoilt)
        \/ ~line.spoilt /\ Arrives(<<>>, TRUE)
        \/ ~line.spoilt /\ \E v \in Byte \ {x.byte} :
             Arrives(<<[byte |-> v, nine |-> x.nine]>>, TRUE)
    BY <1>3, DeliverCases
  <1>5. ASSUME NEW y \in Symbol, y.nine = TRUE, NEW bad, Arrives(<<y>>, bad)
        PROVE  \E v \in Byte : Raw' = Tailed(<<>>, v)
    <2>1. Raw' = Raw \o <<255, 0, y.byte>>
      BY <1>0, <1>2, <1>5, RawArrives
    <2>2. y.byte \in Byte
      BY DEF Symbol
    <2>3. Raw' = Tailed(<<>>, y.byte)
      BY <2>1, Zenon DEF Tailed
    <2> QED
      BY <2>2, <2>3, Zenon
  <1>6. ASSUME NEW v \in Byte \ {x.byte}, Arrives(<<[byte |-> v, nine |-> x.nine]>>, TRUE)
        PROVE  \E u \in Byte : Raw' = Tailed(<<>>, u)
    <2>1. PICK y \in Symbol : y = [byte |-> v, nine |-> x.nine] /\ y.nine = TRUE
      BY <1>3, MakeSymbol
    <2>2. Arrives(<<y>>, TRUE)
      BY <1>6, <2>1, Zenon
    <2> QED
      BY <1>5, <2>1, <2>2
  <1>7. ASSUME Arrives(<<>>, TRUE) PROVE Raw' = <<>>
    BY <1>0, <1>2, <1>7, RawLost
  <1>8. ASSUME Arrives(<<x>>, line.spoilt) PROVE \E v \in Byte : Raw' = Tailed(<<>>, v)
    BY <1>3, <1>5, <1>8
  <1>9. Raw' = <<>> \/ \E v \in Byte : Raw' = Tailed(<<>>, v)
    BY <1>4, <1>6, <1>7, <1>8
  <1> QED
    BY <1>2, <1>9, Zenon

-----------------------------------------------------------------------------
(* The end of the reply                                                    *)

LEMMA BufFacts ==
    ASSUME QueueType
    PROVE  /\ Len(Raw) = Len(buf) + Len(in) /\ Len(buf) \in Nat /\ Len(in) \in Nat
           /\ \A i \in 1 .. Len(buf) : buf[i] = Raw[i]
           /\ in = <<>> => buf = Raw
           /\ in # <<>> => Len(in) > 0
           /\ Raw = <<>> => buf = <<>> /\ Len(buf) = 0
  <1>1. buf \in Seq(Byte) /\ in \in Seq(Byte)
    BY DEF QueueType
  <1>2. /\ Len(buf \o in) = Len(buf) + Len(in)
        /\ \A i \in 1 .. Len(buf) + Len(in) :
             (buf \o in)[i] = IF i <= Len(buf) THEN buf[i] ELSE in[i - Len(buf)]
    BY <1>1, ConcatProperties
  <1>3. PICK l \in Nat : l = Len(buf)
    BY <1>1
  <1>4. PICK n \in Nat : n = Len(in)
    BY <1>1
  <1>5. PICK r : r = buf \o in
    OBVIOUS
  <1>6. \A i \in 1 .. l + n : r[i] = IF i <= l THEN buf[i] ELSE in[i - l]
    BY <1>2, <1>3, <1>4, <1>5, Zenon
  <1>7. \A i \in 1 .. l : buf[i] = r[i]
    BY <1>6
  <1>8. in = <<>> => buf = r
    BY <1>1, <1>5, ConcatEmptySeq
  <1>9. in # <<>> => n > 0
    BY <1>1, <1>4
  <1>10. Len(r) = l + n
    BY <1>2, <1>3, <1>4, <1>5, Zenon
  <1>11. r = <<>> => buf = <<>> /\ l = 0
    <2>1. r = <<>> => Len(r) = 0
      OBVIOUS
    <2>2. l = 0 => buf = <<>>
      BY <1>1, <1>3, EmptySeq
    <2> QED
      BY <1>10, <2>1, <2>2
  <1>12. Raw = r
    BY <1>5, Zenon DEF Raw
  <1> QED
    BY <1>3, <1>4, <1>7, <1>8, <1>9, <1>10, <1>11, <1>12, Zenon

LEMMA TailedLen ==
    ASSUME NEW d \in Seq(Byte), NEW v \in Byte
    PROVE  Len(Tailed(d, v)) = Len(d) + 3 /\ Len(d) \in Nat
  <1>1. PICK n \in Nat : n = Len(d)
    OBVIOUS
  <1>2. IsTailed(Tailed(d, v), d, v, n)
    BY <1>1, TailedFacts, Zenon
  <1> QED
    BY <1>1, <1>2 DEF IsTailed

(* No more of the reply is to come.                                        *)
Complete ==
    \/ Len(buf) = BufSize
    \/ in = <<>> /\ out = <<>> /\ per \notin {"answer", "send", "nod"}

(* What the reply may be evaluated to.                                     *)
Outcome(e) ==
    \/ e.answer = <<>> /\ e.data = <<>> /\ (IsGood(line.bytes) => e.res \notin {"ECOMM", "EPROTO"})
    \/ per = "await" /\ e.answer = <<"ack">> /\ e.data = Event /\ e.res = "ok"
    \/ per = "await" /\ e.answer = <<"nack">> /\ e.data = <<>> /\ ~IsGood(line.bytes)

LEMMA OutcomeResting ==
    ASSUME TypeInv, Complete, OneByte
    PROVE  Outcome(Evaluate(buf))
  <1>0. QueueType
    BY TypeParts DEF TypeInv
  <1>1. CASE Raw = <<>>
    <2>1. buf = <<>>
      BY <1>0, <1>1, BufFacts
    <2> QED
      BY <2>1, EvaluateEmpty DEF Outcome
  <1>2. ASSUME NEW v \in Byte, Raw = Tailed(<<>>, v)
        PROVE  Outcome(Evaluate(buf))
    <2>1. PICK d \in Seq(Byte) : d = <<>> /\ Len(d) = 0
      <3>1. <<>> \in Seq(Byte) /\ Len(<<>>) = 0
        BY EmptySeq
      <3> QED
        BY <3>1, Zenon
    <2>2. Len(Raw) = 3
      <3>1. Len(Tailed(d, v)) = Len(d) + 3
        BY TailedLen, Zenon
      <3>2. Len(Raw) = Len(d) + 3
        BY <1>2, <2>1, <3>1, Zenon
      <3> QED
        BY <2>1, <3>2
    <2>3. /\ Len(Raw) = Len(buf) + Len(in) /\ Len(buf) \in Nat /\ Len(in) \in Nat
          /\ in = <<>> => buf = Raw
          /\ in # <<>> => Len(in) > 0
      BY <1>0, BufFacts, Zenon
    <2>4. in = <<>>
      <3>1. PICK l \in Nat, n \in Nat : l = Len(buf) /\ n = Len(in)
        BY <2>3
      <3>2. 3 = l + n /\ (in # <<>> => n > 0)
        BY <2>2, <2>3, <3>1, Zenon
      <3>3. BufSize \in Nat /\ BufSize > 2
        BY BufAssumption
      <3>4. l = BufSize \/ in = <<>>
        BY <3>1 DEF Complete
      <3> QED
        BY <3>2, <3>3, <3>4
    <2>5. buf = Tailed(<<>>, v)
      BY <1>2, <2>3, <2>4, Zenon
    <2>6. /\ Evaluate(buf).answer = <<>>
          /\ Evaluate(buf).data = <<>>
          /\ Evaluate(buf).res \in {"ok", "EIO"}
      BY <2>5, EvaluateByte, Zenon
    <2> QED
      BY <2>6 DEF Outcome
  <1> QED
    BY <1>1, <1>2 DEF OneByte

LEMMA OutcomeAwaiting ==
    ASSUME TypeInv, SafeEvents, Complete, per = "await", Ended
    PROVE  Outcome(Evaluate(buf))
  <1>0. QueueType /\ LineType
    BY TypeParts DEF TypeInv
  <1>a. line.bytes \in Seq(Symbol)
    BY <1>0 DEF LineType
  <1>b. PICK s \in Seq(Byte) : s = buf
    BY <1>0, RawType
  <1>c. PICK r \in Seq(Byte) : r = Raw
    BY <1>0, RawType
  <1>d. PICK l \in Nat, n \in Nat : l = Len(s) /\ n = Len(in)
    BY <1>0 DEF QueueType
  <1>f. /\ Len(r) = l + n
        /\ \A i \in 1 .. l : s[i] = r[i]
        /\ in = <<>> => s = r
        /\ in # <<>> => n > 0
    BY <1>0, <1>b, <1>c, <1>d, BufFacts, Zenon
  <1>g. Event \in Seq(Byte) /\ Event # <<>> /\ Len(Event) + 3 <= BufSize /\ BufSize \in Nat
    BY EventClean, BufAssumption
  <1>1. CASE AllPlain(line.bytes) /\ ~HasEnd(Raw)
    <2>1. ~HasEnd(s)
      <3> SUFFICES ASSUME NEW i \in 1 .. l - 1, s[i] = 255, s[i + 1] = 0
                   PROVE  FALSE
        BY <1>d DEF HasEnd
      <3>1. i \in 1 .. l /\ i + 1 \in 1 .. l /\ i \in 1 .. Len(r) - 1
        BY <1>d, <1>f
      <3>2. r[i] = 255 /\ r[i + 1] = 0
        BY <1>f, <3>1
      <3> QED
        BY <1>1, <1>c, <3>1, <3>2 DEF HasEnd
    <2>2. Evaluate(s).answer = <<>> /\ Evaluate(s).data = <<>>
      BY <2>1, NoEnds, EvaluateNone
    <2>3. ~IsGood(line.bytes)
      BY <1>1, <1>a, PlainNotGood
    <2> QED
      BY <1>b, <2>2, <2>3 DEF Outcome
  <1>2. ASSUME NEW d \in Seq(Byte), NEW v \in Byte, EndedBy(d, v)
        PROVE  Outcome(Evaluate(buf))
    <2>1. /\ r = Tailed(d, v) /\ ~HasEnd(d)
          /\ d = Event \/ Chk(d) # v
          /\ IsGood(line.bytes) => d = Event /\ v = Chk(Event)
      BY <1>2, <1>c DEF EndedBy
    <2>2. PICK m \in Nat : m = Len(d) /\ Len(r) = m + 3
      BY <2>1, TailedLen
    <2>3. CASE in = <<>> /\ d = <<>>
      <3>1. buf = Tailed(<<>>, v)
        BY <1>b, <1>f, <2>1, <2>3, Zenon
      <3>2. /\ Evaluate(buf).answer = <<>>
            /\ Evaluate(buf).data = <<>>
            /\ Evaluate(buf).res \in {"ok", "EIO"}
        BY <3>1, EvaluateByte, Zenon
      <3> QED
        BY <3>2 DEF Outcome
    <2>4. CASE in = <<>> /\ d # <<>>
      <3>1. buf = Tailed(d, v)
        BY <1>b, <1>f, <2>1, <2>4, Zenon
      <3>2. Evaluate(buf) =
              IF v = Chk(d) THEN [res |-> "ok", data |-> d, answer |-> <<"ack">>]
              ELSE [res |-> "ECOMM", data |-> <<>>, answer |-> <<"nack">>]
        BY <2>1, <2>4, <3>1, EvaluateWhole, Zenon
      <3>3. CASE v = Chk(d)
        <4>1. Evaluate(buf) = [res |-> "ok", data |-> d, answer |-> <<"ack">>] /\ d = Event
          BY <2>1, <3>2, <3>3
        <4> QED
          BY <4>1 DEF Outcome
      <3>4. CASE v # Chk(d)
        <4>1. Evaluate(buf) = [res |-> "ECOMM", data |-> <<>>, answer |-> <<"nack">>]
          BY <3>2, <3>4
        <4>2. ~IsGood(line.bytes)
          BY <2>1, <3>4
        <4> QED
          BY <4>1, <4>2 DEF Outcome
      <3> QED
        BY <3>3, <3>4
    <2>5. CASE in # <<>>
      <3>1. l = BufSize /\ l < m + 3
        BY <2>2, <2>5, <1>b, <1>d, <1>f DEF Complete
      <3>2. Ends(s) = {}
        <4>1. Len(s) <= Len(d) + 3 /\ Len(s) # Len(d) + 3
          BY <3>1, <2>2, <1>d
        <4>2. \A i \in 1 .. Len(s) : s[i] = Tailed(d, v)[i]
          BY <1>d, <1>f, <2>1, Zenon
        <4>3. Ends(s) = IF Len(s) = Len(d) + 3 THEN {Len(d) + 1} ELSE {}
          BY <2>1, <4>1, <4>2, TailedEnds, Zenon
        <4> QED
          BY <4>1, <4>3, Zenon
      <3>3. Evaluate(s).answer = <<>> /\ Evaluate(s).data = <<>>
        BY <3>2, EvaluateNone
      <3>4. ~IsGood(line.bytes)
        <4>1. d # Event
          BY <1>g, <3>1, <2>2
        <4> QED
          BY <2>1, <4>1
      <3> QED
        BY <1>b, <3>3, <3>4 DEF Outcome
    <2> QED
      BY <2>3, <2>4, <2>5
  <1> QED
    BY <1>1, <1>2 DEF Ended

(* The buffer fills up, or the time-out comes, only after all of the reply. *)
LEMMA CompleteWhen ==
    ASSUME TypeInv, SafeEvents, InWait, Complete
    PROVE  Awaiting \/ Resting
  <1>0. QueueType
    BY TypeParts DEF TypeInv
  <1>1. PICK l \in Nat, n \in Nat : l = Len(buf) /\ n = Len(in) /\ Len(Raw) = l + n
    BY <1>0, BufFacts
  <1>2. Raw # <<>> \/ l = 0
    BY <1>0, <1>1, BufFacts
  <1>3. BufSize \in Nat /\ BufSize > 2
    BY BufAssumption
  <1>4. ASSUME Commanding
        PROVE  FALSE
    <2>1. l = 0 /\ out # <<>>
      BY <1>2, <1>4 DEF Commanding
    <2> QED
      BY <1>1, <1>3, <2>1 DEF Complete
  <1>5. ASSUME Answering \/ Nodding
        PROVE  FALSE
    <2>1. l = 0 /\ per \in {"answer", "nod"}
      BY <1>2, <1>5 DEF Answering, Nodding
    <2> QED
      BY <1>1, <1>3, <2>1 DEF Complete
  <1>6. ASSUME Reporting
        PROVE  FALSE
    <2>1. per = "send"
      BY <1>6 DEF Reporting
    <2>2. Event \in Seq(Byte) /\ Len(Event) + 3 <= BufSize
      BY <2>1, EventClean
    <2>3. PICK q \in Nat : q = Len(Event)
      BY <2>2
    <2>4. PICK k \in 0 .. q : Len(Raw) <= k + 1
      BY <1>6, <2>3 DEF Reporting, Sending, Follows
    <2> QED
      BY <1>1, <1>3, <2>1, <2>2, <2>3, <2>4 DEF Complete
  <1> QED
    BY <1>4, <1>5, <1>6 DEF InWait

-----------------------------------------------------------------------------
(* The invariant is kept                                                   *)

LEMMA ShortOut ==
    /\ \A x : <<x>> # <<>>
    /\ \A x : Head(<<x>>) = x /\ Tail(<<x>>) = <<>>
    /\ <<"ack">> # <<"nack">>
  OBVIOUS

LEMMA EndOfReplyKeeps ==
    ASSUME TypeInv, SafeEvents, Kept, EndOfReply
    PROVE  Kept'
  <1>0. QueueType /\ MasterType /\ BusType
    BY TypeParts DEF TypeInv
  <1>1. pc = "wait" /\ InWait /\ Complete
    BY DEF EndOfReply, Complete, Kept, Phase
  <1>2. Awaiting \/ Resting
    BY <1>1, CompleteWhen
  <1>3. PICK e : e = Evaluate(buf)
    OBVIOUS
  <1>4. Outcome(e)
    BY <1>1, <1>2, <1>3, OutcomeAwaiting, OutcomeResting DEF Awaiting, Resting
  <1>5. e.answer \in Seq(OutSet)
    <2>1. e.answer \in Answers
      BY <1>0, <1>3, EvaluateType DEF QueueType
    <2>2. \A q \in OutSet : <<q>> \in Seq(OutSet)
      OBVIOUS
    <2>3. "ack" \in OutSet /\ "nack" \in OutSet
      BY DEF OutSet
    <2>4. <<>> \in Seq(OutSet)
      BY EmptySeq
    <2> QED
      BY <2>1, <2>2, <2>3, <2>4 DEF Answers
  <1>6. /\ out = <<>> /\ per \in {"await", "idle"} /\ parodd = FALSE
        /\ Len(got) = next - 1
    BY <1>0, <1>1, <1>2 DEF Awaiting, Resting, InWait, MasterType
  <1>7. PICK ok \in BOOLEAN :
           /\ pc' = "idle" /\ res' = e.res
           /\ out' = IF ok THEN e.answer ELSE <<>>
           /\ IF e.answer = <<"ack">> THEN Hand(e.data, ok) ELSE got' = got /\ again' = again
           /\ UNCHANGED <<parodd, in, buf, per, send, next, line>>
    <2>1. <<>> \o e.answer = e.answer
      BY <1>5, ConcatEmptySeq
    <2>2. /\ pc' = "idle" /\ res' = e.res
          /\ UNCHANGED <<parodd, in, buf, per, send, next, line>>
      BY <1>3, Zenon DEF EndOfReply, Return, bus
    <2>3. PICK ok \in BOOLEAN :
             /\ out' = IF ok THEN out \o e.answer ELSE out
             /\ IF e.answer = <<"ack">> THEN Hand(e.data, ok) ELSE UNCHANGED history
      BY <1>3, Zenon DEF EndOfReply
    <2>4. UNCHANGED history => got' = got /\ again' = again
      BY DEF history
    <2> QED
      BY <1>6, <2>1, <2>2, <2>3, <2>4
  <1>8. CASE /\ e.answer = <<>> /\ e.data = <<>>
             /\ IsGood(line.bytes) => e.res \notin {"ECOMM", "EPROTO"}
    <2>1. out' = <<>> /\ got' = got /\ again' = again
      BY <1>7, <1>8, ShortOut
    <2>2. InIdle'
      BY <1>6, <1>7, <2>1 DEF InIdle
    <2>3. Handed'
      BY <1>7, <2>1 DEF Kept, Handed, Event
    <2>4. RefusedOnlyBad'
      <3>1. ReplyGood' <=> IsGood(line.bytes)
        BY <1>7, Zenon DEF ReplyGood, IsGood
      <3>2. "nack" \notin ToSet(out')
        BY <2>1, ToSetFacts, Zenon
      <3> QED
        BY <1>7, <1>8, <3>1, <3>2 DEF RefusedOnlyBad
    <2> QED
      BY <1>7, <2>2, <2>3, <2>4 DEF Kept, Phase
  <1>9. CASE per = "await" /\ e.answer = <<"ack">> /\ e.data = Event /\ e.res = "ok"
    <2>0. next \in 1 .. Len(Events) /\ Event # <<>> /\ got \in Seq(Seq(Byte)) /\ Event \in Seq(Byte)
      BY <1>0, <1>9, EventClean DEF MasterType
    <2>a. ASSUME ~ok PROVE Kept'
      <3>1. out' = <<>> /\ got' = got /\ again' = again \union {Event}
        BY <1>7, <1>9, <2>a DEF Hand
      <3>2. InIdle'
        BY <1>6, <1>7, <3>1 DEF InIdle
      <3>3. Handed'
        BY <1>6, <1>7, <2>0, <3>1 DEF Kept, Handed, Event
      <3>4. RefusedOnlyBad'
        BY <1>7, <1>9, <3>1, ToSetFacts DEF RefusedOnlyBad
      <3> QED
        BY <1>7, <3>2, <3>3, <3>4 DEF Kept, Phase
    <2> SUFFICES ASSUME ok PROVE Kept'
      BY <2>a
    <2>1. out' = <<"ack">> /\ got' = Append(got, Event) /\ again' = {}
      BY <1>7, <1>9, <2>0 DEF Hand
    <2>2. Len(got') = next /\ got'[next] = Event /\ \A i \in 1 .. next - 1 : got'[i] = got[i]
      <3>1. /\ Len(Append(got, Event)) = Len(got) + 1
            /\ \A i \in 1 .. Len(got) : Append(got, Event)[i] = got[i]
            /\ Append(got, Event)[Len(got) + 1] = Event
        BY <2>0, AppendProperties
      <3>2. next - 1 + 1 = next
        BY <2>0
      <3> QED
        BY <1>6, <2>1, <3>1, <3>2, Zenon
    <2>3. InIdle'
      BY <1>6, <1>7, <1>9, <2>1, <2>2 DEF InIdle
    <2>4. Handed'
      <3> SUFFICES ASSUME NEW i \in 1 .. next
                   PROVE  i <= Len(Events) /\ got'[i] = Events[i]
        BY <2>1, <2>2 DEF Handed
      <3>1. CASE i = next
        BY <3>1, <2>0, <2>2 DEF Event
      <3>2. CASE i # next
        <4>1. i \in 1 .. next - 1
          BY <3>2, <2>0
        <4> QED
          BY <4>1, <1>6, <2>2 DEF Kept, Handed
      <3> QED
        BY <3>1, <3>2
    <2>5. RefusedOnlyBad'
      <3>1. "nack" \notin ToSet(out')
        BY <2>1, ToSetFacts
      <3> QED
        BY <1>7, <1>9, <3>1 DEF RefusedOnlyBad
    <2> QED
      BY <1>7, <2>3, <2>4, <2>5 DEF Kept, Phase
  <1>10. CASE per = "await" /\ e.answer = <<"nack">> /\ e.data = <<>> /\ ~IsGood(line.bytes)
    <2>1. (out' = <<"nack">> \/ out' = <<>>) /\ got' = got /\ again' = again
      BY <1>7, <1>10, ShortOut
    <2>2. InIdle'
      BY <1>6, <1>7, <1>10, <2>1 DEF InIdle
    <2>3. Handed'
      BY <1>7, <2>1 DEF Kept, Handed, Event
    <2>4. RefusedOnlyBad'
      <3>1. ReplyGood' <=> IsGood(line.bytes)
        BY <1>7, Zenon DEF ReplyGood, IsGood
      <3> QED
        BY <1>10, <3>1 DEF RefusedOnlyBad
    <2> QED
      BY <1>7, <2>2, <2>3, <2>4 DEF Kept, Phase
  <1> QED
    BY <1>4, <1>8, <1>9, <1>10 DEF Outcome

(* The beginning of a transaction, and a reset.                            *)
LEMMA StartKeeps ==
    ASSUME TypeInv, Kept, ~Hurried, SendFirst \/ SendRest \/ Reset
    PROVE  Kept'
  <1>0. QueueType /\ MasterType /\ BusType
    BY TypeParts DEF TypeInv
  <1>1. CASE SendFirst
    <2>1. per \notin {"answer", "send", "nod"} /\ pc = "idle" /\ InIdle
      BY <1>1 DEF SendFirst, Kept, Phase
    <2>a. /\ parodd' = TRUE /\ in' = <<>> /\ buf' = <<>> /\ line' = NoReply
          /\ UNCHANGED <<per, send, next>>
          /\ Unsaid
          /\ \/ out' = <<"adr">> /\ pc' = "first" /\ res' = res
             \/ out' = <<>> /\ pc' = "idle"
      BY <1>1 DEF SendFirst, Return
    <2>2. Len(got') = next' - 1 /\ per \in {"idle", "cmd", "await"} /\ Handed'
      <3>1. per \in {"idle", "cmd", "await"}
        BY <2>1 DEF InIdle, GivenUp
      <3>2. CASE out = <<"ack">>
        <4>1. Len(got) = next /\ next \in Nat \ {0} /\ got \in Seq(Seq(Byte))
          BY <1>0, <2>1, <3>2, ShortOut, EventsAssumption DEF InIdle, GivenUp, BusType, MasterType
        <4>2. got # <<>>
          BY <4>1
        <4>3. "ack" \in ToSet(out)
          BY <3>2, ToSetFacts
        <4>4. got' = Front(got) /\ again' = again \union {Last(got)}
          BY <2>a, <4>3 DEF Unsaid
        <4>5. again = {}
          BY <4>1 DEF Kept, Handed
        <4>6. /\ Len(got') = next - 1 /\ Last(got) = got[next]
              /\ \A i \in 1 .. next - 1 : got'[i] = got[i]
          BY <4>1, <4>2, <4>4, FrontLast
        <4>7. next <= Len(Events) /\ got[next] = Events[next]
          BY <4>1 DEF Kept, Handed
        <4>8. \A i \in 1 .. next - 1 : i <= Len(Events) /\ got[i] = Events[i]
          BY <4>1 DEF Kept, Handed
        <4>9. Handed'
          BY <2>a, <4>4, <4>5, <4>6, <4>7, <4>8 DEF Handed, Event
        <4> QED
          BY <2>a, <3>1, <4>6, <4>9
      <3>3. CASE out # <<"ack">>
        <4>1. Len(got) = next - 1 /\ "ack" \notin ToSet(out)
          BY <2>1, <3>3, ToSetFacts DEF InIdle, GivenUp
        <4>2. got' = got /\ again' = again
          BY <2>a, <4>1 DEF Unsaid, history
        <4> QED
          BY <2>a, <3>1, <4>1, <4>2 DEF Kept, Handed, Event
      <3> QED
        BY <3>2, <3>3
    <2>3. /\ parodd' = TRUE /\ in' = <<>> /\ buf' = <<>> /\ line' = NoReply
          /\ UNCHANGED <<per, send, next>>
          /\ \/ out' = <<"adr">> /\ pc' = "first" /\ res' = res
             \/ out' = <<>> /\ pc' = "idle"
      BY <2>a
    <2>4. Raw' = <<>>
      <3>1. <<>> \o <<>> = <<>>
        BY EmptySeq, ConcatEmptySeq
      <3> QED
        BY <2>3, <3>1, Zenon DEF Raw
    <2>5. pc' = "first" => InFirst'
      BY <2>2, <2>3, <2>4 DEF InFirst
    <2>6. pc' = "idle" => InIdle'
      BY <2>2, <2>3 DEF InIdle
    <2>7. Handed'
      BY <2>2
    <2>8. RefusedOnlyBad'
      BY <2>3 DEF RefusedOnlyBad, NoReply
    <2>9. pc' # "wait"
      BY <2>3
    <2> QED
      BY <2>5, <2>6, <2>7, <2>8, <2>9 DEF Kept, Phase
  <1>2. CASE SendRest
    <2>1. out = <<>> /\ pc = "first" /\ InFirst
      BY <1>2 DEF SendRest, Kept, Phase
    <2>2. Len(got) = next - 1 /\ per = "cmd" /\ Raw = <<>> /\ line = NoReply
      BY <2>1, ShortOut DEF InFirst
    <2>3. /\ parodd' = FALSE
          /\ UNCHANGED <<in, buf, got, again, per, send, next, line>>
          /\ \/ out' = <<"rest">> /\ pc' = "wait"
             \/ out' = out /\ pc' = "idle"
      BY <1>2 DEF SendRest, Return, history, bus
    <2>4. Raw' = <<>>
      BY <2>2, <2>3, Zenon DEF Raw
    <2>5. pc' = "wait" => InWait'
      BY <2>2, <2>3, <2>4 DEF InWait, Commanding
    <2>6. pc' = "idle" => InIdle'
      BY <2>1, <2>2, <2>3 DEF InIdle
    <2>7. Handed'
      BY <2>3 DEF Kept, Handed, Event
    <2>8. RefusedOnlyBad'
      BY <2>2, <2>3 DEF RefusedOnlyBad, NoReply
    <2>9. pc' # "first"
      BY <2>3
    <2> QED
      BY <2>5, <2>6, <2>7, <2>8, <2>9 DEF Kept, Phase
  <1>3. CASE Reset
    <2>1. out = <<>> /\ pc = "idle" /\ InIdle
      BY <1>3 DEF Reset, Kept, Phase
    <2>2. Len(got) = next - 1
      BY <2>1, ShortOut DEF InIdle, GivenUp
    <2>3. per' = "idle" /\ UNCHANGED <<pc, parodd, buf, res, got, again, out, in, next, line>>
      BY <1>3 DEF Reset, master, history
    <2>4. InIdle'
      BY <2>1, <2>2, <2>3 DEF InIdle
    <2>5. Handed'
      BY <2>3 DEF Kept, Handed, Event
    <2>6. RefusedOnlyBad'
      BY <2>3 DEF Kept, RefusedOnlyBad, ReplyGood
    <2> QED
      BY <2>1, <2>3, <2>4, <2>5, <2>6 DEF Kept, Phase
  <1> QED
    BY <1>1, <1>2, <1>3

(* A transaction that fails where it is.                                   *)
LEMMA FailKeeps ==
    ASSUME TypeInv, Kept, Fail
    PROVE  Kept'
  <1>0. QueueType /\ MasterType /\ BusType
    BY TypeParts DEF TypeInv
  <1>1. /\ pc' = "idle" /\ res' = "EIO"
        /\ UNCHANGED <<parodd, out, in, buf, got, again, per, send, next, line>>
    BY DEF Fail, Return, history, bus
  <1>2. InIdle'
    <2>1. CASE pc = "idle"
      BY <1>1, <2>1 DEF Kept, Phase, InIdle, GivenUp
    <2>2. CASE pc = "first"
      BY <1>1, <2>2 DEF Kept, Phase, InFirst, InIdle, GivenUp
    <2>3. CASE pc = "wait"
      <3>1. InWait
        BY <2>3 DEF Kept, Phase
      <3> QED
        BY <1>1, <3>1 DEF InWait, Commanding, Answering, Reporting, Nodding, Awaiting,
           Resting, InIdle, GivenUp
    <2> QED
      BY <1>0, <2>1, <2>2, <2>3 DEF MasterType
  <1>3. Handed'
    BY <1>1 DEF Kept, Handed, Event
  <1>4. RefusedOnlyBad'
    <2>1. "nack" \in ToSet(out) => pc = "idle"
      <3>1. pc \in {"idle", "first", "wait"}
        BY <1>0 DEF MasterType
      <3>2. pc # "idle" => out \in {<<>>, <<"adr">>, <<"rest">>}
        BY <3>1 DEF Kept, Phase, InFirst, InWait, Commanding, Answering, Reporting, Nodding,
           Awaiting, Resting
      <3> QED
        BY <3>2, ToSetFacts
    <2> QED
      BY <1>1, <2>1 DEF Kept, RefusedOnlyBad, ReplyGood
  <1> QED
    BY <1>1, <1>2, <1>3, <1>4 DEF Kept, Phase

(* A turn of the loop of read and select.                                  *)
LEMMA ReadKeeps ==
    ASSUME TypeInv, Kept, ReadReply
    PROVE  Kept'
  <1>1. Raw' = Raw
    BY RawRead
  <1>2. pc = "wait" /\ UNCHANGED <<pc, parodd, res, got, again, out, per, send, next, line>>
    BY DEF ReadReply, history, bus
  <1>3. InWait
    BY <1>2 DEF Kept, Phase
  <1>4. Event' = Event
    BY <1>2 DEF Event
  <1>5. /\ Commanding => Commanding'
        /\ Answering => Answering'
        /\ Nodding => Nodding'
        /\ Resting => Resting'
    BY <1>1, <1>2 DEF Commanding, Answering, Nodding, Resting, OneByte
  <1>6. Awaiting => Awaiting'
    BY <1>1, <1>2, <1>4 DEF Awaiting, Ended, EndedBy
  <1>7. Reporting => Reporting'
    BY <1>1, <1>2, <1>4 DEF Reporting, Sending
  <1>8. InWait'
    BY <1>2, <1>3, <1>5, <1>6, <1>7 DEF InWait
  <1>9. Handed'
    BY <1>2 DEF Kept, Handed, Event
  <1>10. RefusedOnlyBad'
    BY <1>2 DEF RefusedOnlyBad
  <1> QED
    BY <1>2, <1>8, <1>9, <1>10 DEF Kept, Phase

(* A byte of the master leaves.                                            *)
LEMMA TransmitKeeps ==
    ASSUME TypeInv, Kept, Transmit
    PROVE  Kept'
  <1>0. QueueType /\ MasterType /\ BusType
    BY TypeParts DEF TypeInv
  <1>1. /\ out # <<>> /\ out' = Tail(out)
        /\ UNCHANGED <<pc, parodd, buf, res, got, again, in, line>>
        /\ per' = CASE parodd /\ Head(out) = "adr" -> "cmd"
                    [] parodd /\ Head(out) # "adr" -> "idle"
                    [] ~parodd /\ per = "cmd" -> "answer"
                    [] ~parodd /\ per = "await" -> "idle"
                    [] OTHER -> per
        /\ next' = IF ~parodd /\ per = "await" /\ Head(out) = "ack" THEN next + 1 ELSE next
    BY DEF Transmit, master, history
  <1>2. Raw' = Raw
    BY <1>1, Zenon DEF Raw
  <1>3. (next' = next \/ Len(got) # next - 1) => Handed'
    BY <1>1 DEF Kept, Handed, Event
  <1>4. Len(got) \in Nat /\ next \in Nat
    BY <1>0, EventsAssumption DEF MasterType, BusType
  <1>5. CASE pc = "idle"
    <2>1. \/ /\ per = "await" /\ parodd = FALSE
             /\ \/ out = <<"ack">> /\ Len(got) = next
                \/ out = <<"nack">> /\ Len(got) = next - 1
          \/ GivenUp /\ (out = <<"adr">> \/ out = <<"rest">>)
      BY <1>0, <1>1, <1>5 DEF Kept, Phase, InIdle, GivenUp, MasterType
    <2>2. out' = <<>>
      BY <1>1, <2>1
    <2>3. InIdle' /\ Handed'
      <3>1. CASE per = "await" /\ parodd = FALSE /\ out = <<"ack">> /\ Len(got) = next
        <4>1. next' = next + 1 /\ per' = "idle"
          BY <1>1, <3>1
        <4>2. Len(got') = next' - 1 /\ Len(got) # next - 1
          BY <1>1, <1>4, <3>1, <4>1
        <4> QED
          BY <1>3, <2>2, <4>1, <4>2 DEF InIdle
      <3>2. CASE per = "await" /\ parodd = FALSE /\ out = <<"nack">> /\ Len(got) = next - 1
        <4>1. next' = next /\ per' = "idle"
          BY <1>1, <3>2
        <4> QED
          BY <1>1, <1>3, <2>2, <3>2, <4>1 DEF InIdle
      <3>3. CASE GivenUp /\ out = <<"adr">>
        <4>1. next' = next /\ per' = "cmd" /\ Len(got) = next - 1
          BY <1>1, <3>3, ShortOut DEF GivenUp
        <4> QED
          BY <1>1, <1>3, <2>2, <4>1 DEF InIdle
      <3>4. CASE GivenUp /\ out = <<"rest">>
        <4>1. /\ next' = next /\ per' = "answer" /\ Len(got) = next - 1 /\ res = "EIO"
              /\ ~parodd
          BY <1>1, <3>4, ShortOut DEF GivenUp
        <4> QED
          BY <1>1, <1>3, <2>2, <4>1 DEF InIdle, GivenUp
      <3> QED
        BY <2>1, <3>1, <3>2, <3>3, <3>4
    <2>5. RefusedOnlyBad'
      <3>1. "nack" \notin ToSet(out')
        BY <2>2, ToSetFacts, Zenon
      <3> QED
        BY <1>1, <3>1 DEF Kept, RefusedOnlyBad, ReplyGood
    <2> QED
      BY <1>1, <1>5, <2>3, <2>5 DEF Kept, Phase
  <1>6. CASE pc = "first"
    <2>1. /\ parodd /\ Raw = <<>> /\ line = NoReply /\ Len(got) = next - 1
          /\ out = <<"adr">>
      BY <1>1, <1>6 DEF Kept, Phase, InFirst
    <2>2. out' = <<>> /\ per' = "cmd" /\ next' = next
      BY <1>1, <2>1
    <2>3. InFirst'
      BY <1>1, <1>2, <2>1, <2>2 DEF InFirst
    <2>4. RefusedOnlyBad'
      BY <1>1, <1>6 DEF RefusedOnlyBad
    <2>5. Handed'
      BY <1>3, <2>2
    <2> QED
      BY <1>1, <1>6, <2>3, <2>4, <2>5 DEF Kept, Phase
  <1>7. CASE pc = "wait"
    <2>1. /\ parodd = FALSE /\ Len(got) = next - 1
          /\ out = <<"rest">> /\ per = "cmd" /\ Raw = <<>>
      BY <1>0, <1>1, <1>7 DEF Kept, Phase, InWait, Commanding, Answering, Reporting,
         Nodding, Awaiting, Resting, MasterType
    <2>2. out' = <<>> /\ per' = "answer" /\ next' = next
      BY <1>1, <2>1
    <2>3. InWait'
      BY <1>1, <1>2, <2>1, <2>2 DEF InWait, Answering
    <2>4. RefusedOnlyBad'
      BY <1>1, <1>7 DEF RefusedOnlyBad
    <2>5. Handed'
      BY <1>3, <2>2
    <2> QED
      BY <1>1, <1>7, <2>3, <2>4, <2>5 DEF Kept, Phase
  <1> QED
    BY <1>0, <1>5, <1>6, <1>7 DEF MasterType

(* The reply to a transaction that was given up.                           *)
LEMMA LateReplyKeeps ==
    ASSUME TypeInv, Kept, Answer \/ Deliver, pc = "idle"
    PROVE  Kept'
  <1>1. /\ per \in {"answer", "send", "nod"} /\ InIdle
        /\ UNCHANGED <<pc, parodd, buf, res, got, again, out, next>>
    BY DEF Answer, Deliver, master, history, Kept, Phase
  <1>2. GivenUp /\ out = <<>>
    BY <1>1 DEF InIdle, GivenUp
  <1>3. per' \in {"idle", "send", "nod", "await"}
    BY DEF Answer, Report, Acknowledge, Silent, Deliver
  <1>4. InIdle'
    BY <1>1, <1>2, <1>3 DEF InIdle, GivenUp
  <1>5. Handed'
    BY <1>1 DEF Kept, Handed, Event
  <1>6. RefusedOnlyBad'
    BY <1>1, <1>2, ToSetFacts DEF RefusedOnlyBad, GivenUp
  <1> QED
    BY <1>1, <1>4, <1>5, <1>6 DEF Kept, Phase

(* The peripheral answers the command.                                     *)
LEMMA AnswerKeeps ==
    ASSUME TypeInv, SafeEvents, Kept, Answer, pc # "idle"
    PROVE  Kept'
  <1>0. QueueType /\ MasterType /\ BusType
    BY TypeParts DEF TypeInv
  <1>1. /\ per = "answer" /\ line' = NoReply
        /\ UNCHANGED <<pc, parodd, buf, res, got, again, in, out, next>>
    BY DEF Answer, master, history
  <1>2. pc = "wait" /\ InWait /\ Answering
    BY <1>0, <1>1 DEF Kept, Phase, InIdle, InFirst, InWait, Commanding, Answering, Reporting,
       Nodding, Awaiting, Resting, MasterType
  <1>3. out' = <<>> /\ Raw' = <<>> /\ ~parodd' /\ Len(got') = next' - 1
    <2>1. Raw' = Raw
      BY <1>1, Zenon DEF Raw
    <2> QED
      BY <1>1, <1>2, <2>1 DEF InWait, Answering
  <1>4. Handed'
    BY <1>1 DEF Kept, Handed, Event
  <1>5. RefusedOnlyBad'
    BY <1>1, <1>2 DEF RefusedOnlyBad
  <1>6. CASE Report
    <2>1. next \in 1 .. Len(Events)
      BY <1>0, <1>6, EventsAssumption DEF Report, BusType
    <2>2. PICK e \in Seq(Byte) : e = Event /\ Clean(e)
      BY <2>1, EventFacts DEF Event, SafeEvents
    <2>3. send' = [i \in 1 .. Len(e) |-> Plain(e[i])] \o <<Marked(Chk(e))>> /\ per' = "send"
      BY <1>6, <2>2, Zenon DEF Report, Event
    <2>4. PICK q \in Nat : q = Len(e)
      BY <2>2
    <2>5. PICK s : s = send'
      OBVIOUS
    <2>6. /\ Len(s) = q + 1
          /\ \A i \in 1 .. q + 1 : s[i] = IF i <= q THEN Plain(e[i]) ELSE Marked(Chk(e))
      BY <2>3, <2>4, <2>5, ReportType, Zenon
    <2>7. Left(e, 0, s)
      <3>1. Len(s) = q + 1 - 0
        BY <2>6
      <3>2. ASSUME NEW i \in 1 .. Len(s)
            PROVE  s[i] = IF 0 + i <= Len(e) THEN Plain(e[0 + i]) ELSE Marked(Chk(e))
        <4>1. i \in 1 .. q + 1 /\ 0 + i = i
          BY <2>6, <3>2
        <4> QED
          BY <2>4, <2>6, <4>1, Zenon
      <3> QED
        BY <2>4, <3>1, <3>2 DEF Left
    <2>8. BytesOf(<<>>) = <<>> /\ AllPlain(<<>>)
      BY DEF BytesOf, AllPlain
    <2>9. Follows(e, 0, <<>>, <<>>, FALSE)
      BY <2>2, FollowsStart
    <2>10. Event' = e /\ line'.bytes = <<>> /\ line'.spoilt = FALSE
      BY <1>1, <2>2 DEF Event, NoReply
    <2>11. Sending(0)'
      BY <1>3, <2>5, <2>7, <2>8, <2>9, <2>10, Zenon DEF Sending
    <2>12. 0 \in 0 .. Len(Event')
      BY <2>4, <2>10
    <2>13. Reporting'
      BY <1>3, <2>3, <2>11, <2>12 DEF Reporting
    <2> QED
      BY <1>1, <1>2, <1>3, <1>4, <1>5, <2>13 DEF Kept, Phase, InWait
  <1>7. CASE Acknowledge
    <2>1. Nodding'
      BY <1>3, <1>7 DEF Acknowledge, Nodding
    <2> QED
      BY <1>1, <1>2, <1>3, <1>4, <1>5, <2>1 DEF Kept, Phase, InWait
  <1>8. CASE Silent
    <2>1. Resting'
      BY <1>3, <1>8 DEF Silent, Resting, OneByte
    <2> QED
      BY <1>1, <1>2, <1>3, <1>4, <1>5, <2>1 DEF Kept, Phase, InWait
  <1> QED
    BY <1>6, <1>7, <1>8 DEF Answer

(* A byte of the reply reaches the port, spoilt or not, or is lost.        *)
LEMMA DeliverKeeps ==
    ASSUME TypeInv, SafeEvents, Kept, Deliver, pc # "idle"
    PROVE  Kept'
  <1>0. QueueType /\ MasterType /\ BusType
    BY TypeParts DEF TypeInv
  <1>1. per \in {"send", "nod"} /\ UNCHANGED <<pc, parodd, buf, res, got, again, out, next>>
    BY DEF Deliver, master, history
  <1>2. pc = "wait" /\ InWait /\ (Reporting \/ Nodding)
    BY <1>0, <1>1 DEF Kept, Phase, InIdle, InFirst, InWait, Commanding, Answering, Reporting,
       Nodding, Awaiting, Resting, MasterType
  <1>3. out = <<>> /\ out' = <<>> /\ parodd = FALSE /\ ~parodd' /\ Len(got') = next' - 1
    BY <1>0, <1>1, <1>2 DEF InWait, Reporting, Nodding, MasterType
  <1>4. Handed'
    BY <1>1 DEF Kept, Handed, Event
  <1>5. RefusedOnlyBad'
    BY <1>1, <1>2 DEF RefusedOnlyBad
  <1>6. ASSUME Reporting
        PROVE  Reporting' \/ Awaiting'
    <2>1. per = "send"
      BY <1>6 DEF Reporting
    <2>2. PICK e : e = Event /\ Clean(e) /\ e \in Seq(Byte)
      BY <2>1, EventClean
    <2>3. Event' = e
      BY <1>1, <2>2 DEF Event
    <2>4. PICK q \in Nat : q = Len(e)
      BY <2>2
    <2>5. PICK k \in 0 .. Len(e) : Sending(k)
      BY <1>6, <2>2 DEF Reporting
    <2>6. CASE k < Len(e)
      <3>1. /\ per' = "send"
            /\ Left(e, k + 1, send')
            /\ AllPlain(line'.bytes)
            /\ Follows(e, k + 1, Raw', BytesOf(line'.bytes), line'.spoilt)
        BY <1>3, <2>1, <2>2, <2>5, <2>6, DeliverEvent, Zenon
      <3>2. k + 1 \in 0 .. Len(e)
        BY <2>4, <2>6
      <3>3. PICK j \in 0 .. Len(e) : j = k + 1
        BY <3>2
      <3>4. Sending(j)'
        BY <2>3, <3>1, <3>3, Zenon DEF Sending
      <3> QED
        BY <1>3, <2>3, <3>1, <3>4 DEF Reporting
    <2>7. CASE ~(k < Len(e))
      <3>1. k = Len(e)
        BY <2>4, <2>7
      <3>2. /\ per' = "await"
            /\ \/ AllPlain(line'.bytes) /\ ~HasEnd(Raw')
               \/ \E d \in Seq(Byte) : \E v \in Byte :
                    /\ Raw' = Tailed(d, v)
                    /\ ~HasEnd(d)
                    /\ d = e \/ Chk(d) # v
                    /\ IsGood(line'.bytes) => d = e /\ v = Chk(e)
        BY <1>3, <2>1, <2>2, <2>5, <3>1, DeliverEnd, Zenon
      <3>3. Ended'
        BY <2>3, <3>2, Zenon DEF Ended, EndedBy
      <3> QED
        BY <1>3, <3>2, <3>3 DEF Awaiting
    <2> QED
      BY <2>6, <2>7
  <1>7. ASSUME Nodding
        PROVE  Resting'
    <2>1. per = "nod" /\ Raw = <<>> /\ send = <<Marked(ACK)>>
      BY <1>7 DEF Nodding
    <2>2. /\ per' = "idle"
          /\ Raw' = <<>> \/ \E v \in Byte : Raw' = Tailed(<<>>, v)
      BY <1>3, <2>1, DeliverNod, Zenon
    <2> QED
      BY <1>3, <2>2, Zenon DEF Resting, OneByte
  <1>8. InWait'
    BY <1>2, <1>3, <1>6, <1>7 DEF InWait
  <1> QED
    BY <1>1, <1>2, <1>4, <1>5, <1>8 DEF Kept, Phase

LEMMA InitKept == Init => Kept
  <1> SUFFICES ASSUME Init PROVE Kept
    OBVIOUS
  <1>1. Len(got) = 0
    BY DEF Init
  <1>2. InIdle
    BY <1>1 DEF Init, InIdle
  <1>3. Handed
    BY <1>1 DEF Handed, Init
  <1>4. RefusedOnlyBad
    BY DEF Init, RefusedOnlyBad, NoReply
  <1> QED
    BY <1>2, <1>3, <1>4 DEF Kept, Phase, Init

LEMMA NextKeeps ==
    ASSUME TypeInv, SafeEvents, ~Hurried, Kept, [Next]_vars
    PROVE  Kept'
  <1>1. CASE UNCHANGED vars
    <2>1. UNCHANGED <<pc, parodd, res, got, again, out, in, buf, per, send, next, line>>
      BY <1>1 DEF vars, master, history, bus
    <2>2. Raw' = Raw /\ Event' = Event
      BY <2>1, Zenon DEF Raw, Event
    <2>3. InIdle => InIdle'
      BY <2>1 DEF InIdle, GivenUp
    <2>4. InFirst => InFirst'
      BY <2>1, <2>2 DEF InFirst
    <2>5. Reporting => Reporting'
      BY <2>1, <2>2 DEF Reporting, Sending
    <2>6. Awaiting => Awaiting'
      BY <2>1, <2>2 DEF Awaiting, Ended, EndedBy
    <2>7. InWait => InWait'
      BY <2>1, <2>2, <2>5, <2>6 DEF InWait, Commanding, Answering, Nodding, Resting, OneByte
    <2>8. Handed' /\ RefusedOnlyBad'
      BY <2>1 DEF Kept, Handed, Event, RefusedOnlyBad, ReplyGood
    <2> QED
      BY <2>1, <2>3, <2>4, <2>7, <2>8 DEF Kept, Phase
  <1> QED
    BY <1>1, StartKeeps, ReadKeeps, FailKeeps, EndOfReplyKeeps, TransmitKeeps,
       LateReplyKeeps, AnswerKeeps, DeliverKeeps
       DEF Next

LEMMA KeptInvariant ==
    ASSUME SafeEvents, ~Hurried
    PROVE  Spec => [](TypeInv /\ Kept)
  <1>1. Init => TypeInv /\ Kept
    BY InitType, InitKept
  <1>2. TypeInv /\ Kept /\ [Next]_vars => (TypeInv /\ Kept)'
    <2> SUFFICES ASSUME TypeInv, Kept, [Next]_vars PROVE TypeInv' /\ Kept'
      OBVIOUS
    <2>1. TypeInv'
      BY NextType
    <2> QED
      BY <2>1, NextKeeps
  <1> QED
    BY <1>1, <1>2, PTL DEF Spec

LEMMA KeptEvents == TypeInv /\ Kept => EachEventOnce
  <1> SUFFICES ASSUME TypeInv, Kept PROVE EachEventOnce
    OBVIOUS
  <1>1. MasterType /\ BusType
    BY TypeParts DEF TypeInv
  <1>a. \A x \in again : Len(got) < Len(Events) /\ x = Events[Len(got) + 1]
    <2>1. next \in Nat /\ Len(Events) \in Nat
      BY <1>1, EventsAssumption DEF BusType
    <2> QED
      BY <2>1 DEF Kept, Handed, Event
  <1>2. CASE pc = "idle"
    <2>1. \/ Len(got) = next - 1
          \/ out = <<"ack">> /\ Len(got) = next /\ per = "await"
      BY <1>2 DEF Kept, Phase, InIdle, GivenUp
    <2>2. next \in Nat
      BY <1>1, EventsAssumption DEF BusType
    <2>3. next - 1 # next
      BY <2>2
    <2>4. out = <<"ack">> => "ack" \in ToSet(out)
      BY ToSetFacts
    <2> QED
      BY <1>a, <2>1, <2>3, <2>4 DEF EachEventOnce, Kept, Handed
  <1>3. CASE pc # "idle"
    <2>1. Len(got) = next - 1
      BY <1>1, <1>3 DEF MasterType, Kept, Phase, InFirst, InWait
    <2>2. next \in Nat
      BY <1>1, EventsAssumption DEF BusType
    <2>3. next - 1 # next
      BY <2>2
    <2> QED
      BY <1>a, <2>1, <2>3 DEF EachEventOnce, Kept, Handed
  <1> QED
    BY <1>2, <1>3

(* Each event is handed to the client in order and unharmed, and again     *)
(* only when its ACK was not sent, whatever transactions fail, are given   *)
(* up and repeated, for every sequence of such events, every buffer that   *)
(* holds them and every byte the line may turn another into: as long as    *)
(* the client lets the reply to a transaction that it gave up run out.     *)
THEOREM EventsOnce ==
    ASSUME SafeEvents, ~Hurried
    PROVE  Spec => []EachEventOnce
  BY KeptInvariant, KeptEvents, PTL

(* A reply is refused with NACK, ECOMM or EPROTO only when the line harmed *)
(* it, for the same events and such a client.                              *)
THEOREM Refusals ==
    ASSUME SafeEvents, ~Hurried
    PROVE  Spec => []RefusedOnlyBad
  <1>1. Kept => RefusedOnlyBad
    BY DEF Kept
  <1> QED
    BY <1>1, KeptInvariant, PTL

=============================================================================
