------------------------------- MODULE GpioPwm -------------------------------
(***************************************************************************)
(* The GPIO PWM: an hrtimer callback switches a pin, directly or through a *)
(* work item when the pin may sleep, while the PWM core enables, disables, *)
(* configures and removes the chip.  Stopping is a handshake: the process  *)
(* sets "stop" and waits until the callback has acknowledged it in the     *)
(* passive phase; then it cancels timer and work.                          *)
(*                                                                         *)
(* One core: the callback runs in hard IRQ context between any two steps   *)
(* of the process.  The four flags are bits of one word, so the process    *)
(* loads the word, changes a bit and stores the word, and what the         *)
(* callback did in between is lost.  When the timer expires is left open.  *)
(***************************************************************************)
EXTENDS Naturals

CONSTANT None   \* no word, no level

ASSUME NoneAssumption == None \notin BOOLEAN

VARIABLES
    active, stop, running, polarity,   \* the four flags
    held,      \* the word the process has loaded and not yet stored
    duty,      \* duty_cycle against period: none of it, part, or all
    timer,     \* hrtimer_active
    again,     \* the callback left its expiry in the past, and runs again
    done,      \* gp->complete
    work,      \* the work item is pending
    writing,   \* the level the running work item writes
    pin,       \* the level of the pin
    sleeps,    \* gpio_cansleep
    enabled,   \* PWMF_ENABLED, the core's flag
    removing,  \* the chip is on its way out
    pc         \* where the process is

clock == <<timer, again, done>>
flags == <<active, stop, running, polarity>>
hardware == <<work, writing, pin>>
core == <<sleeps, enabled, removing>>
vars == <<flags, held, duty, clock, hardware, core, pc>>

-----------------------------------------------------------------------------

Words ==
    [active : 0 .. 1, stop : BOOLEAN, running : BOOLEAN, polarity : BOOLEAN]

Word ==
    [active |-> active, stop |-> stop, running |-> running, polarity |-> polarity]

Store(w) ==
    /\ active' = w.active
    /\ stop' = w.stop
    /\ running' = w.running
    /\ polarity' = w.polarity

TypeOK ==
    /\ Word \in Words
    /\ held \in Words \union {None}
    /\ duty \in {"zero", "part", "full"}
    /\ timer \in BOOLEAN
    /\ again \in BOOLEAN
    /\ done \in BOOLEAN
    /\ work \in BOOLEAN
    /\ writing \in BOOLEAN \union {None}
    /\ pin \in BOOLEAN
    /\ sleeps \in BOOLEAN
    /\ enabled \in BOOLEAN
    /\ removing \in BOOLEAN
    /\ pc \in {"idle", "config", "polarity", "show",
               "enable", "passive", "arm", "run",
               "disable", "begin", "init", "set", "wait", "test",
               "cancel", "flush", "stopped", "gone"}

(* gpio_pwm_probe                                                          *)
Init ==
    /\ active = 0
    /\ stop = FALSE
    /\ running = FALSE
    /\ polarity = TRUE
    /\ held = None
    /\ duty = "zero"
    /\ timer = FALSE
    /\ again = FALSE
    /\ done = FALSE
    /\ work = FALSE
    /\ writing = None
    /\ pin = FALSE
    /\ sleeps \in BOOLEAN
    /\ enabled = FALSE
    /\ removing = FALSE
    /\ pc = "idle"

-----------------------------------------------------------------------------
(* The pin                                                                 *)

(* !(!!polarity ^ !!active)                                                *)
Level(p, a) == p <=> a = 1

(* gpio_pwm_work as a work item: it takes the level, and writes it over a  *)
(* bus that may sleep.                                                     *)
WorkBegin ==
    /\ ~again
    /\ work
    /\ writing = None
    /\ work' = FALSE
    /\ writing' = Level(polarity, active)
    /\ UNCHANGED <<flags, held, duty, clock, pin, core, pc>>

WorkEnd ==
    /\ ~again
    /\ writing # None
    /\ pin' = writing
    /\ writing' = None
    /\ UNCHANGED <<flags, held, duty, clock, work, core, pc>>

-----------------------------------------------------------------------------
(* gpio_pwm_timeout                                                        *)

(* Mutant: the acknowledgement ends the timer.                             *)
TimerAfterEnds(acked) == ~acked

(* The callback always returns HRTIMER_RESTART.                            *)
TimerAfter(acked) == TRUE

Toggled(a) == (a + 1) % 2

Timeout ==
    /\ timer
    /\ LET on == IF stop \/ duty = "zero" THEN 0
                 ELSE IF duty = "full" THEN 1 ELSE Toggled(active)
           acked == stop
       IN  /\ active' = on
           /\ \/ sleeps /\ work' = TRUE /\ UNCHANGED pin
              \/ ~sleeps /\ pin' = Level(polarity, on) /\ UNCHANGED work
           /\ stop' = FALSE
           /\ done' = (done \/ acked)
           /\ timer' = TimerAfter(acked)
           /\ again' = (acked /\ TimerAfter(acked))
    /\ UNCHANGED <<running, polarity, held, duty, writing, core, pc>>

-----------------------------------------------------------------------------
(* The process                                                             *)

At(here) == pc = here /\ ~again

Goto(there) == pc' = there

(* The process changes the flags to those of change(word), load and store  *)
(* one step each.                                                          *)
Modify(here, change(_), there) ==
    /\ At(here)
    /\ \/ /\ held = None
          /\ held' = Word
          /\ UNCHANGED <<flags, pc>>
       \/ /\ held # None
          /\ Store(change(held))
          /\ held' = None
          /\ Goto(there)
    /\ UNCHANGED <<duty, clock, hardware, core>>

SetStop(w) == [w EXCEPT !.stop = TRUE]
ClearStop(w) == [w EXCEPT !.stop = FALSE]
ClearActive(w) == [w EXCEPT !.active = 0]
SetRunning(w) == [w EXCEPT !.running = TRUE]
ClearRunning(w) == [w EXCEPT !.running = FALSE]

(* gpio_pwm_config writes the period and then the duty cycle.              *)
Config ==
    \/ /\ At("idle")
       /\ duty' \in IF duty = "zero" THEN {"zero"} ELSE {"part", "full"}
       /\ Goto("config")
       /\ UNCHANGED <<flags, held, clock, hardware, core>>
    \/ /\ At("config")
       /\ duty' \in {"zero", "part", "full"}
       /\ Goto("idle")
       /\ UNCHANGED <<flags, held, clock, hardware, core>>

ShownByTimer == running

(* gpio_pwm_set_polarity, which the core calls only on a disabled PWM; the *)
(* pin is written at once unless the timer will do it.                     *)
SetPolarity ==
    \/ At("idle") /\ ~enabled /\ Goto("polarity")
       /\ UNCHANGED <<flags, held, duty, clock, hardware, core>>
    \/ \E p \in BOOLEAN :
          Modify("polarity", LAMBDA w : [w EXCEPT !.polarity = p], "show")
    \/ /\ At("show")
       /\ pin' = IF ShownByTimer THEN pin ELSE Level(polarity, active)
       /\ Goto("idle")
       /\ UNCHANGED <<flags, held, duty, clock, work, writing, core>>

(* gpio_pwm_enable and gpio_pwm_start                                      *)
Enable ==
    \/ At("idle") /\ ~enabled /\ enabled' = TRUE /\ Goto("enable")
       /\ UNCHANGED <<flags, held, duty, clock, hardware, sleeps, removing>>
    \/ Modify("enable", ClearStop, "passive")
    \/ Modify("passive", ClearActive, "arm")
    \/ At("arm") /\ timer' = TRUE /\ Goto("run")
       /\ UNCHANGED <<flags, held, duty, again, done, hardware, core>>
    \/ Modify("run", SetRunning, "idle")

(* gpio_pwm_disable sets stop before gpio_pwm_stop_sync does.              *)
Disable ==
    \/ At("idle") /\ enabled /\ enabled' = FALSE /\ Goto("disable")
       /\ UNCHANGED <<flags, held, duty, clock, hardware, sleeps, removing>>
    \/ Modify("disable", SetStop, "begin")

(* gpio_pwm_remove, and gpio_pwm_stop_sync from there.                     *)
Remove ==
    /\ At("idle")
    /\ removing' = TRUE
    /\ Goto("begin")
    /\ UNCHANGED <<flags, held, duty, clock, hardware, sleeps, enabled>>

-----------------------------------------------------------------------------
(* gpio_pwm_stop_sync                                                      *)

StopBegin ==
    /\ At("begin")
    /\ Goto(IF timer THEN "init" ELSE "cancel")
    /\ UNCHANGED <<flags, held, duty, clock, hardware, core>>

(* init_completion, then stop is set (again).                              *)
StopRequest ==
    \/ At("init") /\ done' = FALSE /\ Goto("set")
       /\ UNCHANGED <<flags, held, duty, timer, again, hardware, core>>
    \/ Modify("set", SetStop, "wait")

(* wait_for_completion_interruptible                                       *)
StopWait ==
    /\ At("wait")
    /\ done
    /\ Goto("test")
    /\ UNCHANGED <<flags, held, duty, clock, hardware, core>>

(* A signal ends the wait and the stop; a removal goes on regardless.      *)
StopSignal ==
    /\ At("wait")
    /\ Goto(IF removing THEN "gone" ELSE "idle")
    /\ UNCHANGED <<flags, held, duty, clock, hardware, core>>

StopTest ==
    /\ At("test")
    /\ Goto(IF stop THEN "init" ELSE "cancel")
    /\ UNCHANGED <<flags, held, duty, clock, hardware, core>>

(* Mutant: hrtimer_cancel is left out, since the stop was acknowledged.    *)
CancelledNot == timer

(* hrtimer_cancel                                                          *)
Cancelled == FALSE

StopCancel ==
    /\ At("cancel")
    /\ timer' = Cancelled
    /\ Goto("flush")
    /\ UNCHANGED <<flags, held, duty, again, done, hardware, core>>

(* cancel_work_sync waits for a work item that runs, and drops one that is *)
(* pending.                                                                *)
StopFlush ==
    /\ At("flush")
    /\ writing = None
    /\ work' = FALSE
    /\ Goto("stopped")
    /\ UNCHANGED <<flags, held, duty, clock, writing, pin, core>>

StopEnd == Modify("stopped", ClearRunning, IF removing THEN "gone" ELSE "idle")

-----------------------------------------------------------------------------

StopSync ==
    \/ StopBegin \/ StopRequest \/ StopWait \/ StopTest
    \/ StopCancel \/ StopFlush \/ StopEnd

Next ==
    \/ Config \/ SetPolarity \/ Enable \/ Disable \/ Remove
    \/ StopSync \/ StopSignal
    \/ Timeout \/ WorkBegin \/ WorkEnd

(* The timer expires, work items run, and a process that stops the PWM     *)
(* goes on.                                                                *)
Fairness ==
    /\ WF_vars(Timeout)
    /\ WF_vars(WorkBegin \/ WorkEnd)
    /\ WF_vars(Disable /\ ~At("idle"))
    /\ SF_vars(StopSync)

Spec == Init /\ [][Next]_vars

FairSpec == Spec /\ Fairness

-----------------------------------------------------------------------------
(* Properties                                                              *)

Quiet == ~timer /\ ~again /\ ~work /\ writing = None

(* A stop that has run to its end is final: neither the timer nor the work *)
(* item will touch the pin or the chip any more, whatever races came       *)
(* before, an earlier stop cut short by a signal included.                 *)
StopIsFinal ==
    ~running /\ pc \in {"idle", "gone"} => Quiet

(* Why: what the process holds of "running" is current, since only it      *)
(* writes the flag; a stop at its last steps has silenced the timer first  *)
(* and then the work item; and only "run" has the timer on with the flag   *)
(* not yet set.                                                            *)
IInv ==
    /\ held # None => held.running = running
    /\ again => timer
    /\ pc = "flush" => ~timer
    /\ pc = "stopped" => Quiet
    /\ ~running /\ pc # "run" => Quiet

(* A callback between init_completion and the store of stop acknowledges   *)
(* an earlier request, and the stop asks again.  It does not hit this gap  *)
(* for ever.                                                               *)
GapMissed == <>[][Timeout => pc # "set"]_vars

(* A stop ends, although the acknowledgement may come before, between or   *)
(* after its steps, or be undone and asked for again.                      *)
StopEnds ==
    GapMissed =>
        (pc \in {"disable", "begin", "init", "wait"} ~> pc \in {"idle", "gone"})

=============================================================================
