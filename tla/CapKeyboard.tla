----------------------------- MODULE CapKeyboard -----------------------------
(***************************************************************************)
(* The firmware of the capacitive keyboard (AVR): the main loop measures   *)
(* the keys at each tick, puts their state into the register map and pulls *)
(* the CHANGE line; the TWI interrupt serves the I2C host, which reads and *)
(* writes the map byte by byte, and releases the line.                     *)
(*                                                                         *)
(* An interrupt runs between any two statements of the main loop and is    *)
(* not interrupted itself.  The bus waits for the handler (the clock is    *)
(* stretched), so an event on the bus and its handler are one step.  The   *)
(* one instruction of the main loop that the AVR may run between two       *)
(* interrupts is left out.                                                 *)
(***************************************************************************)
EXTENDS Naturals

CONSTANTS
    Bytes,       \* values of a register, 0 for all keys released
    Status1,     \* HOSTREG_KEY_STATUS_1; the status bytes are it and the next
    Gpo,         \* HOSTREG_GPIO_GPO_DRIVE_1
    LastAddr,    \* I2C_MAP_LAST_WRITE_ADDRESS
    AddrWidth,   \* 2^8: address_pointer is an unsigned char
    Writes       \* bound: the registers the host writes to

ASSUME ByteAssumption == 0 \in Bytes
ASSUME MapAssumption ==
    /\ Status1 \in Nat /\ Gpo \in Nat /\ LastAddr \in Nat /\ AddrWidth \in Nat
    /\ Status1 + 1 <= LastAddr /\ Gpo <= LastAddr /\ LastAddr + 1 < AddrWidth

VARIABLES
    map,       \* memory_map
    sent,      \* sent_status_out
    addr,      \* address_pointer
    writing,   \* i2c_com
    busy,      \* i2c_busy
    enabled,   \* TWEN and TWIE: the transceiver is on
    transfer,  \* the transfer the host has begun with this slave
    change,    \* the CHANGE line is pulled low
    told,      \* the value of Status1 the host was last sent
    keys,      \* the keys that are touched
    tick,      \* time_to_measure_touch
    portb,     \* PORTB: the LEDs
    at,        \* where the main loop is
    reloads    \* the build reads i2c_busy anew in each round of a wait

slaveVars == <<sent, addr, writing, busy, enabled, transfer, told>>
mainVars == <<tick, portb, at>>
keyVars == <<map, slaveVars, change, keys, mainVars, reloads>>

-----------------------------------------------------------------------------

Addrs == 0 .. LastAddr
StatusBytes == {Status1, Status1 + 1}

NothingSent == [a \in StatusBytes |-> 0]

KeyTypeOK ==
    /\ map \in [Addrs -> Bytes]
    /\ sent \in [StatusBytes -> Bytes]
    /\ addr \in 0 .. AddrWidth - 1
    /\ writing \in BOOLEAN
    /\ busy \in BOOLEAN
    /\ enabled \in BOOLEAN
    /\ transfer \in {"idle", "read", "write"}
    /\ change \in BOOLEAN
    /\ told \in Bytes
    /\ keys \in Bytes
    /\ tick \in BOOLEAN
    /\ portb \in Bytes
    /\ at \in {"wait", "measure", "signal", "drive", "check", "spin", "stuck",
               "enable", "free"}
    /\ reloads \in BOOLEAN

(* At sei, with the transceiver to be started.  The other registers hold   *)
(* identifiers, which nothing here depends on.                             *)
KeyInit ==
    /\ map = [a \in Addrs |-> 0]
    /\ sent = NothingSent
    /\ addr = 0
    /\ writing = FALSE
    /\ busy = FALSE
    /\ enabled = FALSE
    /\ transfer = "idle"
    /\ change = FALSE
    /\ told = 0
    /\ keys = 0
    /\ tick = FALSE
    /\ portb = 0
    /\ at = "spin"
    /\ reloads \in BOOLEAN

-----------------------------------------------------------------------------
(* The environment of the main loop                                        *)

Touch ==
    /\ keys' \in Bytes
    /\ UNCHANGED <<map, slaveVars, change, mainVars, reloads>>

(* TIMER1_COMPA_vect                                                       *)
TimerIsr ==
    /\ tick' = TRUE
    /\ UNCHANGED <<map, slaveVars, change, keys, portb, at, reloads>>

-----------------------------------------------------------------------------
(* The main loop                                                           *)

MeasureBegin ==
    /\ at = "wait"
    /\ tick
    /\ tick' = FALSE
    /\ at' = "measure"
    /\ UNCHANGED <<map, slaveVars, change, keys, portb, reloads>>

(* The touch library wants another burst before it decides.                *)
MeasureAgain ==
    /\ at = "measure"
    /\ at' = "drive"
    /\ UNCHANGED <<map, slaveVars, change, keys, tick, portb, reloads>>

(* Mutant: only touches are reported.                                      *)
ReportsTouch(state) == state # 0 /\ map[Status1] # state

(* A key state that differs from the one in the map is reported.           *)
Reports(state) == map[Status1] # state

MeasureDone ==
    /\ at = "measure"
    /\ \/ /\ Reports(keys)
          /\ map' = [map EXCEPT ![Status1] = keys]
          /\ at' = "signal"
       \/ /\ ~Reports(keys)
          /\ at' = "drive"
          /\ UNCHANGED map
    /\ UNCHANGED <<slaveVars, change, keys, tick, portb, reloads>>

Signal ==
    /\ at = "signal"
    /\ change' = TRUE
    /\ at' = "drive"
    /\ UNCHANGED <<map, slaveVars, keys, tick, portb, reloads>>

Drive ==
    /\ at = "drive"
    /\ portb' = map[Gpo]
    /\ at' = "check"
    /\ UNCHANGED <<map, slaveVars, change, keys, tick, reloads>>

(* Mutant: the transceiver is started only once it is on.                  *)
MayStartOn == ~busy /\ enabled

(* !i2c_slave_transceiver_busy()                                           *)
MayStart == ~busy

Check ==
    /\ at = "check"
    /\ at' = IF MayStart THEN "spin" ELSE "wait"
    /\ UNCHANGED <<map, slaveVars, change, keys, tick, portb, reloads>>

(* i2c_slave_start_transceiver waits for i2c_busy, which is not volatile:  *)
(* a build that loads it once never leaves a wait it has to begin.         *)
Spin ==
    /\ at = "spin"
    /\ \/ ~busy /\ at' = "enable"
       \/ busy /\ ~reloads /\ at' = "stuck"
    /\ UNCHANGED <<map, slaveVars, change, keys, tick, portb, reloads>>

Enable ==
    /\ at = "enable"
    /\ enabled' = TRUE
    /\ at' = "free"
    /\ UNCHANGED <<map, sent, addr, writing, busy, transfer, told,
                   change, keys, tick, portb, reloads>>

Free ==
    /\ at = "free"
    /\ busy' = FALSE
    /\ at' = "wait"
    /\ UNCHANGED <<map, sent, addr, writing, enabled, transfer, told,
                   change, keys, tick, portb, reloads>>

-----------------------------------------------------------------------------
(* TWI_vect: one action for each state of the bus                          *)

NextAddr(a) == (a + 1) % AddrWidth

(* Mutant: one status byte that matches is enough.                         *)
MatchOne(s) == \E a \in StatusBytes : s[a] = map[a]

(* comms_match                                                             *)
Match(s) == \A a \in StatusBytes : s[a] = map[a]

(* Mutant: what was sent is forgotten after every byte.                    *)
SentAfterAlways(s) == NothingSent

(* What is remembered as sent once the byte is loaded.                     *)
SentAfter(s) == IF Match(s) THEN NothingSent ELSE s

(* A byte goes to the host.  If the status bytes sent are then those in    *)
(* the map, CHANGE is released and what was sent is forgotten.             *)
SendByte ==
    /\ enabled
    /\ transfer \in {"idle", "read"}
    /\ transfer' = "read"
    /\ \/ /\ addr \in Addrs
          /\ LET s == IF addr \in StatusBytes
                      THEN [sent EXCEPT ![addr] = map[addr]] ELSE sent
             IN  /\ sent' = SentAfter(s)
                 /\ change' = (change /\ ~Match(s))
          /\ told' = IF addr = Status1 THEN map[addr] ELSE told
       \/ /\ addr \notin Addrs
          /\ UNCHANGED <<sent, change, told>>
    /\ addr' = NextAddr(addr)
    /\ writing' = FALSE
    /\ busy' = TRUE
    /\ UNCHANGED <<map, enabled, keys, mainVars, reloads>>

(* The host does not acknowledge the last byte it reads.                   *)
SendNack ==
    /\ enabled
    /\ transfer = "read"
    /\ transfer' = "idle"
    /\ busy' = FALSE
    /\ UNCHANGED <<map, sent, addr, writing, enabled, told,
                   change, keys, mainVars, reloads>>

ReceiveBegin ==
    /\ enabled
    /\ transfer = "idle"
    /\ transfer' = "write"
    /\ busy' = TRUE
    /\ writing' = FALSE
    /\ UNCHANGED <<map, sent, addr, enabled, told, change, keys, mainVars,
                   reloads>>

(* The first byte of a transfer is the address, the others are data.       *)
ReceiveAddress ==
    /\ enabled
    /\ transfer = "write"
    /\ ~writing
    /\ addr' \in 0 .. AddrWidth - 1
    /\ writing' = TRUE
    /\ busy' = TRUE
    /\ UNCHANGED <<map, sent, enabled, transfer, told, change, keys, mainVars,
                   reloads>>

ReceiveData ==
    /\ enabled
    /\ transfer = "write"
    /\ writing
    /\ \/ /\ addr \in Addrs \intersect Writes
          /\ \E b \in Bytes : map' = [map EXCEPT ![addr] = b]
       \/ /\ addr \notin Addrs
          /\ UNCHANGED map
    /\ addr' = NextAddr(addr)
    /\ busy' = TRUE
    /\ UNCHANGED <<sent, writing, enabled, transfer, told, change, keys,
                   mainVars, reloads>>

(* A stop or a repeated start ends a write.                                *)
ReceiveStop ==
    /\ enabled
    /\ transfer = "write"
    /\ transfer' = "idle"
    /\ busy' = FALSE
    /\ UNCHANGED <<map, sent, addr, writing, enabled, told,
                   change, keys, mainVars, reloads>>

(* I2C_BUS_ERROR: the control register is written without TWEN and TWIE,   *)
(* which takes the slave off the bus; i2c_busy stays as it is.             *)
BusError ==
    /\ enabled
    /\ enabled' = FALSE
    /\ transfer' = "idle"
    /\ UNCHANGED <<map, sent, addr, writing, busy, told,
                   change, keys, mainVars, reloads>>

-----------------------------------------------------------------------------

Main ==
    \/ MeasureBegin \/ MeasureAgain \/ MeasureDone
    \/ Signal \/ Drive \/ Check \/ Spin \/ Enable \/ Free

TwiIsr ==
    \/ SendByte \/ SendNack
    \/ ReceiveBegin \/ ReceiveAddress \/ ReceiveData \/ ReceiveStop
    \/ BusError

KeyNext == Touch \/ TimerIsr \/ Main \/ TwiIsr

(* The timer ticks, the main loop runs, a transfer goes on, and the touch  *)
(* library decides after a few bursts.                                     *)
KeyFairness ==
    /\ WF_keyVars(TimerIsr)
    /\ WF_keyVars(Main)
    /\ SF_keyVars(MeasureDone)

KeySpec == KeyInit /\ [][KeyNext]_keyVars

KeyFairSpec == KeySpec /\ KeyFairness

-----------------------------------------------------------------------------
(* Properties                                                              *)

(* A touch the host has not been sent keeps CHANGE low: the line is never  *)
(* released over it, however reads, reports and errors interleave.         *)
TouchKeepsChange ==
    map[Status1] # 0 /\ told # map[Status1] => change \/ at = "signal"

(* The comment in TWI_vect: CHANGE is released when "all status bytes are  *)
(* read".  So while it is released the host has the state in the map.      *)
ReleasedWhenRead ==
    ~change /\ at # "signal" => told = map[Status1]

(* What the host and the main loop have to do for anything to get through. *)
Polls(a) == []<><<SendByte /\ addr = a>>_keyVars
MainRuns == []<>(at = "wait")

(* A host that goes on reading the status byte ends up with the keys as    *)
(* they are, touched or not.                                               *)
HostCatchesUp ==
    Polls(Status1) /\ MainRuns =>
        \A k \in Bytes : <>[](keys = k) => <>[](told = k)

(* Once nothing changes any more, a host that reads both status bytes sees *)
(* CHANGE released for good: it does not poll for ever.                    *)
ChangeSettles ==
    (\A a \in StatusBytes : Polls(a)) /\ MainRuns /\ <>[][map' = map]_keyVars =>
        <>[]~change

(* A bus error outside a transfer is repaired by the main loop.            *)
IdleErrorRepaired ==
    MainRuns => (~enabled /\ ~busy ~> enabled)

(* The comment in TWI_vect: the handler is to "recover from TWI_BUS_ERROR".*)
(* So the slave answers again.                                             *)
ErrorRecovers == MainRuns => (~enabled ~> enabled)

=============================================================================
