-------------------------------- MODULE Mdb --------------------------------
(***************************************************************************)
(* libmdb: the master of a Multi-Drop Bus on a serial port, whose 9th bit  *)
(* is made of MARK and SPACE parity.  A transaction sends a command, reads *)
(* the reply through the terminal's conversions until a time-out, checks   *)
(* it and answers ACK or NACK.  The peripheral and the line are outside    *)
(* the repository: the peripheral reports its events one by one and goes   *)
(* on to the next one when it gets an ACK; the line spoils at most one     *)
(* byte of a reply.                                                        *)
(***************************************************************************)
EXTENDS Naturals, Sequences, SequencesExt, FiniteSetsExt

CONSTANTS
    Events,   \* what the peripheral reports, in order: sequences of bytes
    Spoilt,   \* what a byte may turn into on the line
    BufSize,  \* sizeof(buffer) in mdb_transaction
    Hurried   \* the client starts a transaction while the reply to one
              \* that it gave up is still coming

Byte == 0 .. 255

ASSUME EventsAssumption == Events \in Seq(Seq(Byte) \ {<<>>})
ASSUME SpoiltAssumption == Spoilt \subseteq Byte
ASSUME BufAssumption == BufSize \in Nat \ (0 .. 2)
ASSUME HurriedAssumption == Hurried \in BOOLEAN

VARIABLES
    pc,      \* where mdb_transaction is
    parodd,  \* the port's parity: MARK, else SPACE
    out,     \* the terminal's output queue
    in,      \* the terminal's input queue
    buf,     \* buffer, the part received
    res,     \* what the last transaction returned
    got,     \* history: the events handed to the client, of which the
             \* ACK was queued and not thrown away
    again,   \* history: those handed to it since without such an ACK
    per,     \* what the peripheral does
    send,    \* the bytes it has still to send, with their 9th bits
    next,    \* the event it will report
    line     \* history: the reply as the line delivered it, and if spoilt

history == <<got, again>>
master == <<pc, parodd, buf, res, history>>
bus == <<per, send, next, line>>
vars == <<master, out, in, bus>>

ACK == 0
NACK == 255
CR == 13
LF == 10

Results == {"ok", "EIO", "ETIMEDOUT", "ECOMM", "EPROTO"}

Marked(b) == [byte |-> b, nine |-> TRUE]
Plain(b) == [byte |-> b, nine |-> FALSE]

TypeOK ==
    /\ pc \in {"idle", "first", "wait"} /\ parodd \in BOOLEAN
    /\ out \in Seq({"adr", "rest", "ack", "nack"})
    /\ in \in Seq(Byte) /\ buf \in Seq(Byte) /\ Len(buf) <= BufSize
    /\ res \in Results
    /\ got \in Seq(Seq(Byte)) /\ again \subseteq Seq(Byte)
    /\ per \in {"idle", "cmd", "answer", "send", "nod", "await"}
    /\ send \in Seq([byte : Byte, nine : BOOLEAN])
    /\ next \in 1 .. Len(Events) + 1
    /\ line \in [bytes : Seq([byte : Byte, nine : BOOLEAN]), spoilt : BOOLEAN]

NoReply == [bytes |-> <<>>, spoilt |-> FALSE]

Init ==
    /\ pc = "idle" /\ parodd = FALSE /\ res = "ok"
    /\ out = <<>> /\ in = <<>> /\ buf = <<>> /\ got = <<>> /\ again = {}
    /\ per = "idle" /\ send = <<>> /\ next = 1 /\ line = NoReply

-----------------------------------------------------------------------------
(* The reply, as bytes                                                     *)

(* chk: the bytes' sum in an unsigned char.                                *)
Chk(s) ==
    LET sum[n \in 0 .. Len(s)] ==
            IF n = 0 THEN 0 ELSE (sum[n - 1] + s[n]) % 256
    IN  sum[Len(s)]

(* What mdb_open's INPCK, PARMRK and ICRNL make of a received byte: a byte *)
(* with the wrong parity is preceded by FF 00, another FF is doubled, and  *)
(* another CR becomes LF.                                                  *)
Converted(b) ==
    IF b.nine # parodd THEN <<255, 0, b.byte>>
    ELSE IF b.byte = 255 THEN <<255, 255>>
    ELSE IF b.byte = CR THEN <<LF>> ELSE <<b.byte>>

(* Where the scan of the reply finds a byte with its 9th bit set.          *)
Ends(s) == {i \in 1 .. Len(s) : i + 2 <= Len(s) /\ s[i] = 255 /\ s[i + 1] = 0}

(* Mutant: the end byte is not compared with chk.                          *)
Unchecked(s) ==
    IF Ends(s) = {} THEN [res |-> "EPROTO", data |-> <<>>, answer |-> <<>>]
    ELSE [res |-> "ok", data |-> SubSeq(s, 1, Min(Ends(s)) - 1), answer |-> <<"ack">>]

(* Mutant: chk is not reset, and starts from that of the command 10 02.    *)
StaleChk(s) ==
    IF Ends(s) = {} THEN [res |-> "EPROTO", data |-> <<>>, answer |-> <<>>]
    ELSE LET e == Min(Ends(s)) data == SubSeq(s, 1, e - 1) IN
         IF s[e + 2] = (Chk(data) + 18) % 256
         THEN [res |-> "ok", data |-> data, answer |-> <<"ack">>]
         ELSE [res |-> "ECOMM", data |-> <<>>, answer |-> <<"nack">>]

(* A reply of several bytes: the first byte with its 9th bit set is taken  *)
(* as its checksum.                                                        *)
Checked(s) ==
    IF Ends(s) = {} THEN [res |-> "EPROTO", data |-> <<>>, answer |-> <<>>]
    ELSE LET e == Min(Ends(s)) data == SubSeq(s, 1, e - 1) IN
         IF s[e + 2] = Chk(data)
         THEN [res |-> "ok", data |-> data, answer |-> <<"ack">>]
         ELSE [res |-> "ECOMM", data |-> <<>>, answer |-> <<"nack">>]

(* Evaluate reply: what mdb_transaction returns, the data, and what it     *)
(* answers.  An ACK or NACK from the peripheral is not an event.           *)
Evaluate(s) ==
    IF s = <<>> THEN [res |-> "ETIMEDOUT", data |-> <<>>, answer |-> <<>>]
    ELSE IF Len(s) = 3 /\ s[1] = 255 /\ s[2] = 0
    THEN [res |-> IF s[3] \in {ACK, NACK} THEN "ok" ELSE "EIO",
          data |-> <<>>, answer |-> <<>>]
    ELSE Checked(s)

-----------------------------------------------------------------------------
(* mdb_transaction                                                         *)

Return(r) == pc' = "idle" /\ res' = r

(* The data is handed to the client, with an ACK for the peripheral or     *)
(* without one.                                                            *)
Hand(data, acked) ==
    IF acked THEN got' = Append(got, data) /\ again' = {}
    ELSE again' = again \union {data} /\ UNCHANGED got

(* What becomes of an ACK in the output queue that is emptied.             *)
Unsaid ==
    IF "ack" \notin ToSet(out) THEN UNCHANGED history
    ELSE got' = Front(got) /\ again' = again \union {Last(got)}

(* MARK parity, tcflush(TCIOFLUSH) and the first byte.  An ACK or NACK     *)
(* that is still queued is thrown away, and so is the rest of a command.   *)
SendFirst ==
    /\ pc = "idle" /\ (Hurried \/ per \notin {"answer", "send", "nod"})
    /\ parodd' = TRUE
    /\ Unsaid
    /\ in' = <<>> /\ buf' = <<>>
    /\ \E ok \in BOOLEAN :
         IF ok THEN out' = <<"adr">> /\ pc' = "first" /\ UNCHANGED res
         ELSE out' = <<>> /\ Return("EIO")
    /\ line' = NoReply
    /\ UNCHANGED <<per, send, next>>

(* SPACE parity and the other bytes, as one.  The serial drivers wait for  *)
(* an empty transmitter before they change the parity.                     *)
SendRest ==
    /\ pc = "first" /\ out = <<>>
    /\ parodd' = FALSE
    /\ \E ok \in BOOLEAN :
         IF ok THEN out' = <<"rest">> /\ pc' = "wait" /\ UNCHANGED res
         ELSE Return("EIO") /\ UNCHANGED out
    /\ UNCHANGED <<in, buf, history, bus>>

(* A turn of the loop of read and select.                                  *)
ReadReply ==
    /\ pc = "wait" /\ in # <<>> /\ Len(buf) < BufSize
    /\ LET n == Min({Len(in), BufSize - Len(buf)}) IN
         /\ buf' = buf \o SubSeq(in, 1, n)
         /\ in' = SubSeq(in, n + 1, Len(in))
    /\ UNCHANGED <<pc, parodd, res, history, out, bus>>

(* tcsetattr, select or read fails, as by a signal: the transaction ends   *)
(* where it is, with whatever is queued and whatever is still to come.     *)
Fail ==
    /\ Return("EIO")
    /\ UNCHANGED <<parodd, out, in, buf, history, bus>>

(* select times out, or the buffer is full: the reply is evaluated.  The   *)
(* time-outs outlast the queue, the command and the peripheral.  Whether   *)
(* the answer could be written is not looked at.                           *)
EndOfReply ==
    /\ pc = "wait"
    /\ \/ Len(buf) = BufSize
       \/ in = <<>> /\ out = <<>> /\ per \notin {"answer", "send", "nod"}
    /\ LET e == Evaluate(buf) IN
         /\ Return(e.res)
         /\ \E ok \in BOOLEAN :
              /\ out' = IF ok THEN out \o e.answer ELSE out
              /\ IF e.answer = <<"ack">> THEN Hand(e.data, ok) ELSE UNCHANGED history
    /\ UNCHANGED <<parodd, in, buf, bus>>

(* mdb_reset: a break, for which the driver lets the output queue run      *)
(* empty, resets the peripheral.                                           *)
Reset ==
    /\ pc = "idle" /\ out = <<>>
    /\ per' = "idle" /\ send' = <<>>
    /\ UNCHANGED <<master, out, in, next, line>>

-----------------------------------------------------------------------------
(* The line and the peripheral                                             *)

(* A byte leaves the port with the parity of that moment.  One with its    *)
(* 9th bit set starts a command, or is none of the peripheral's business.  *)
Transmit ==
    /\ out # <<>>
    /\ out' = Tail(out)
    /\ per' = CASE parodd /\ Head(out) = "adr" -> "cmd"
                [] parodd /\ Head(out) # "adr" -> "idle"
                [] ~parodd /\ per = "cmd" -> "answer"
                [] ~parodd /\ per = "await" -> "idle"
                [] OTHER -> per
    /\ next' = IF ~parodd /\ per = "await" /\ Head(out) = "ack" THEN next + 1 ELSE next
    /\ send' = IF parodd THEN <<>> ELSE send
    /\ UNCHANGED <<master, in, line>>

(* The peripheral reports an event, acknowledges the command, or is silent.*)
Report ==
    /\ next <= Len(Events)
    /\ LET e == Events[next] IN
         send' = [i \in 1 .. Len(e) |-> Plain(e[i])] \o <<Marked(Chk(e))>>
    /\ per' = "send"

Acknowledge == send' = <<Marked(ACK)>> /\ per' = "nod"

Silent == per' = "idle" /\ UNCHANGED send

Answer ==
    /\ per = "answer"
    /\ Report \/ Acknowledge \/ Silent
    /\ line' = NoReply
    /\ UNCHANGED <<master, in, out, next>>

Arrives(s, bad) ==
    /\ in' = in \o (IF s = <<>> THEN <<>> ELSE Converted(s[1]))
    /\ line' = [bytes |-> line.bytes \o s, spoilt |-> bad]

(* A byte of the reply is spoilt or lost.                                  *)
Spoil(b) ==
    \/ Arrives(<<>>, TRUE)
    \/ \E v \in Spoilt \ {b.byte} : Arrives(<<[b EXCEPT !.byte = v]>>, TRUE)

Deliver ==
    /\ per \in {"send", "nod"}
    /\ \/ Arrives(<<Head(send)>>, line.spoilt)
       \/ ~line.spoilt /\ Spoil(Head(send))
    /\ send' = Tail(send)
    /\ per' = IF Len(send) > 1 THEN per ELSE IF per = "send" THEN "await" ELSE "idle"
    /\ UNCHANGED <<master, out, next>>

Next ==
    \/ SendFirst \/ SendRest \/ ReadReply \/ Fail \/ EndOfReply \/ Reset
    \/ Transmit \/ Answer \/ Deliver

Spec == Init /\ [][Next]_vars

-----------------------------------------------------------------------------
(* Properties                                                              *)

(* The client is handed every event in order and unharmed, whatever        *)
(* transactions fail, are given up and repeated: the peripheral is told    *)
(* ACK only for events that were handed over, so that it forgets none that *)
(* was not, and an event is handed over again only when its ACK could not  *)
(* be written or was thrown away by the next transaction.                  *)
EachEventOnce ==
    /\ Len(got) \in {next - 1, next}
    /\ Len(got) = next => per = "await" /\ "ack" \in ToSet(out)
    /\ \A i \in 1 .. Len(got) : i <= Len(Events) /\ got[i] = Events[i]
    /\ \A x \in again : Len(got) < Len(Events) /\ x = Events[Len(got) + 1]

(* The reply that the line delivered was whole.                            *)
ReplyGood ==
    LET n == Len(line.bytes) IN
    /\ n > 0
    /\ \A i \in 1 .. n : line.bytes[i].nine <=> i = n
    /\ line.bytes[n].byte = Chk([i \in 1 .. n - 1 |-> line.bytes[i].byte])

(* A reply is refused only when the line harmed it: a NACK goes out, and   *)
(* ECOMM or EPROTO is returned, only when its CHK does not match or its    *)
(* end byte is missing.                                                    *)
RefusedOnlyBad ==
    pc = "idle" /\ line.bytes # <<>> /\ ReplyGood =>
        "nack" \notin ToSet(out) /\ res \notin {"ECOMM", "EPROTO"}
=============================================================================
