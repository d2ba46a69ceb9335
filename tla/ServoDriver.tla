----------------------------- MODULE ServoDriver -----------------------------
(***************************************************************************)
(* The door servo: board_driver/servo/servo_driver.c with its hardware     *)
(* timer pwm_timer.c, called through hal/servo.c. A delayed work sends one *)
(* pulse every 20 ms by raising the pin and spinning on the timer's        *)
(* counter; open, ioctl and release of any process run beside it without a *)
(* lock. One minor, one struct: every client shares the same state.        *)
(*                                                                         *)
(* The gap between two pulses is not measured. Preemption makes the spin   *)
(* look at the counter at most Late ticks after the width was reached.     *)
(* Assumed of the hardware: setting the start bit loads the counter, which *)
(* start_pwm_timer (pwm_timer.c:97-100) sets without the manual update of  *)
(* init_pwm_timer. ArmFollows and ReleaseReturns rest on it.               *)
(***************************************************************************)
EXTENDS Integers

CONSTANTS
  Clients,   \* processes that may open /dev/servo
  Angles,    \* angles hal_servo_angle may be called with
  Degrees,   \* 180, the widest angle
  MinHigh,   \* T500US
  MaxHigh,   \* T2500US
  Step,      \* (T2500US - T500US) / 180, ticks per degree
  Late

ASSUME ServoAssumption ==
  /\ Angles \subseteq Int /\ Degrees \in Nat /\ Step \in Nat /\ Late \in Nat
  /\ MinHigh \in Nat \ {0} /\ MaxHigh \in Nat /\ MinHigh + Step * Degrees <= MaxHigh

VARIABLES
  fd,        \* where each client is between open and the end of release
  mapped,    \* servo_dev->pwm.base is a mapping in use
  owner,     \* who holds the pin: "free", "servo", or "auto" for the kernel's ?auto?
  running,   \* servo_dev->running
  high,      \* servo_dev->high_level_time
  pending,   \* the delayed work is queued
  work,      \* where dev_work is
  timer,     \* the start bit of TCON
  elapsed,   \* ticks the counter is below what dev_work read from it
  pin,
  pulse,     \* width of the last pulse, 0 before the first
  oops,      \* the driver touched an unmapped register
  lo, hi,    \* history: the least and the greatest width asked for during the pulse
  shared,    \* history: a client opened before another had let go
  undercut   \* history: since the pin was last granted, it was freed under a pulse, or a pulse
             \* began after it was freed

overlaps == <<shared, undercut>>
client == <<fd, owner, running, overlaps>>
pwm == <<mapped, timer>>
wave == <<elapsed, pulse>>
vars == <<client, pwm, wave, high, pending, work, pin, oops, lo, hi>>

To(c, l) == fd' = [fd EXCEPT ![c] = l]
Lesser(a, b) == IF a < b THEN a ELSE b
Greater(a, b) == IF a < b THEN b ELSE a
Touch == oops' = ~mapped  \* an access to the timer's registers
InitTimer == timer' = FALSE /\ elapsed' = 0  \* stopped and loaded; of registers just mapped
StartTimer == timer' = TRUE /\ Touch
StopTimer == timer' = FALSE /\ Touch

(* gpio_module_init *)
Init ==
  /\ fd = [c \in Clients |-> "none"] /\ owner = "free" /\ running = FALSE
  /\ shared = FALSE /\ undercut = FALSE
  /\ mapped = FALSE /\ timer = FALSE /\ high = 0 /\ pending = FALSE /\ work = "idle"
  /\ elapsed = 0 /\ pin = "low" /\ pulse = 0 /\ oops = FALSE /\ lo = 0 /\ hi = 0

-----------------------------------------------------------------------------
(* hal_servo_angle clamps the angle, SET_ANGLE turns it into a width that  *)
(* the pulse under way already sees.                                       *)
Clamp(a) == IF a < 0 THEN 0 ELSE IF a > Degrees THEN Degrees ELSE a
Width(a) == MinHigh + Step * Clamp(a)

SetHigh(h) == high' = h /\ lo' = Lesser(lo, h) /\ hi' = Greater(hi, h)

Ask(c, a) ==
  /\ fd[c] = "open"
  /\ SetHigh(Width(a))
  /\ UNCHANGED <<client, pwm, wave, pending, work, pin, oops>>

(* dev_open, one at a time under misc_open's mutex: the registers are      *)
(* mapped and the timer is initialised, which stops it and loads its       *)
(* counter, before gpio_request tells whether the pin can be had.          *)
OpenSetup(c) ==
  /\ fd[c] = "none" /\ \A d \in Clients : fd[d] # "setup"
  /\ To(c, "setup")
  /\ mapped' = TRUE /\ InitTimer
  /\ SetHigh(MinHigh)
  /\ shared' = (shared \/ \E d \in Clients \ {c} : fd[d] # "none")
  /\ UNCHANGED <<owner, running, undercut, pulse, pending, work, pin, oops>>

OpenAnyway(c) ==  \* fault: the result of gpio_request is ignored
  /\ fd[c] = "setup" /\ To(c, "open") /\ owner' = "servo" /\ pin' = "low" /\ running' = TRUE
  /\ pending' = TRUE /\ UNCHANGED <<overlaps, pwm, wave, high, work, oops, lo, hi>>
OpenGranted(c) ==
  /\ fd[c] = "setup" /\ owner = "free"
  /\ To(c, "open") /\ owner' = "servo" /\ pin' = "low"
  /\ running' = TRUE /\ pending' = TRUE /\ undercut' = FALSE
  /\ UNCHANGED <<shared, pwm, wave, high, work, oops, lo, hi>>

(* -EBUSY: nothing that was done before is undone. *)
OpenRefused(c) ==
  /\ fd[c] = "setup" /\ owner # "free"
  /\ To(c, "none")
  /\ UNCHANGED <<owner, running, overlaps, pwm, wave, high, pending, work, pin, oops, lo, hi>>

-----------------------------------------------------------------------------
(* dev_release: the pin is given back before the work is stopped. *)
ReleaseFree(c) ==
  /\ fd[c] = "open"
  /\ To(c, "freed") /\ owner' = "free" /\ pin' = "low"
  /\ undercut' = (undercut \/ work # "idle")
  /\ UNCHANGED <<running, shared, pwm, wave, high, pending, work, oops, lo, hi>>

ReleaseStop(c) ==
  /\ fd[c] = "freed"
  /\ To(c, "stopped") /\ running' = FALSE
  /\ UNCHANGED <<owner, overlaps, pwm, wave, high, pending, work, pin, oops, lo, hi>>

(* cancel_delayed_work_sync waits for dev_work, then stop_pwm_timer. *)
ReleaseAsync(c) ==  \* fault: cancel_delayed_work, which does not wait
  /\ fd[c] = "stopped" /\ To(c, "cancelled") /\ pending' = FALSE /\ StopTimer
  /\ UNCHANGED <<owner, running, overlaps, mapped, wave, high, work, pin, lo, hi>>
ReleaseTimerFirst(c) ==  \* fault: the timer is stopped before the work is waited for
  /\ fd[c] = "stopped" /\ StopTimer
  /\ To(c, IF work = "idle" THEN "cancelled" ELSE "stopped")
  /\ pending' = (pending /\ work # "idle")
  /\ UNCHANGED <<owner, running, overlaps, mapped, wave, high, work, pin, lo, hi>>
ReleaseCancel(c) ==
  /\ fd[c] = "stopped" /\ work = "idle"
  /\ To(c, "cancelled") /\ pending' = FALSE /\ StopTimer
  /\ UNCHANGED <<owner, running, overlaps, mapped, wave, high, work, pin, lo, hi>>

ReleaseUnmap(c) ==
  /\ fd[c] = "cancelled"
  /\ To(c, "none") /\ mapped' = FALSE
  /\ UNCHANGED <<owner, running, overlaps, timer, wave, high, pending, work, pin, oops, lo, hi>>

Release(c) == ReleaseStop(c) \/ ReleaseCancel(c) \/ ReleaseUnmap(c)
Call(c) ==
  OpenSetup(c) \/ OpenGranted(c) \/ OpenRefused(c) \/ ReleaseFree(c) \/ \E a \in Angles : Ask(c, a)

-----------------------------------------------------------------------------
(* dev_work. A pin nobody requested is requested by gpiolib as ?auto?.     *)
Drive(l) == pin' = l /\ owner' = IF owner = "free" THEN "auto" ELSE owner

WorkQuit ==
  /\ pending /\ work = "idle" /\ ~running
  /\ pending' = FALSE
  /\ UNCHANGED <<client, pwm, wave, high, work, pin, oops, lo, hi>>

WorkStart ==
  /\ pending /\ work = "idle" /\ running
  /\ pending' = FALSE /\ work' = "mark" /\ StartTimer
  /\ undercut' = (undercut \/ owner # "servo")
  /\ UNCHANGED <<fd, owner, running, shared, mapped, wave, high, pin, lo, hi>>

WorkOn ==
  /\ work = "mark"
  /\ work' = "spin" /\ elapsed' = 0 /\ lo' = high /\ hi' = high
  /\ Drive("high") /\ Touch
  /\ UNCHANGED <<fd, running, overlaps, pwm, pulse, high, pending>>

(* The counter runs down by itself; it is loaded again by every start and  *)
(* one second long, so no pulse meets its end.                             *)
Tick ==
  /\ work = "spin" /\ timer /\ elapsed < high + Late
  /\ elapsed' = elapsed + 1 /\ Touch
  /\ UNCHANGED <<client, pwm, pulse, high, pending, work, pin, lo, hi>>

WidthReachedEarly == elapsed >= high  \* fault: >= for >
WidthReached == elapsed > high

WorkOff ==
  /\ work = "spin" /\ WidthReached
  /\ work' = "off" /\ pulse' = elapsed
  /\ Drive("low") /\ Touch
  /\ UNCHANGED <<fd, running, overlaps, pwm, elapsed, high, pending, lo, hi>>

WorkOnce ==  \* fault: the work is not scheduled again
  /\ work = "off" /\ work' = "idle" /\ StopTimer
  /\ UNCHANGED <<client, mapped, wave, high, pending, pin, lo, hi>>
WorkAgain ==
  /\ work = "off"
  /\ work' = "idle" /\ StopTimer /\ pending' = TRUE
  /\ UNCHANGED <<client, mapped, wave, high, pin, lo, hi>>

Work == WorkQuit \/ WorkStart \/ WorkOn \/ WorkOff \/ WorkAgain

Next ==
  /\ ~oops
  /\ \/ Work \/ Tick
     \/ \E c \in Clients : Call(c) \/ Release(c)

Spec == Init /\ [][Next]_vars

(* The work queue and the hardware counter run; a release is finished, and *)
(* its cancel takes the work away from a work that queues itself again.    *)
FairSpec ==
  /\ Spec /\ WF_vars(~oops /\ Work) /\ WF_vars(~oops /\ Tick)
  /\ \A c \in Clients : SF_vars(~oops /\ Release(c))

-----------------------------------------------------------------------------
Stages == {"none", "setup", "open", "freed", "stopped", "cancelled"}

(* Type invariant. *)
TypeOK ==
  /\ fd \in [Clients -> Stages]
  /\ owner \in {"free", "servo", "auto"} /\ work \in {"idle", "mark", "spin", "off"}
  /\ running \in BOOLEAN /\ mapped \in BOOLEAN /\ timer \in BOOLEAN /\ pending \in BOOLEAN
  /\ oops \in BOOLEAN /\ shared \in BOOLEAN /\ undercut \in BOOLEAN /\ pin \in {"low", "high"}
  /\ high \in {0} \cup MinHigh..MaxHigh /\ lo \in 0..MaxHigh /\ hi \in 0..MaxHigh
  /\ elapsed \in 0..(MaxHigh + Late) /\ pulse \in 0..(MaxHigh + Late)

(* A pulse is longer than the least and at most Late longer than the       *)
(* greatest width asked for while it was sent, whatever callers, opens and *)
(* releases do beside the spinning work (servo_driver.c:148).              *)
PulseBetween ==
  work = "off" => pulse > lo /\ pulse <= hi + Late /\ pulse > MinHigh

(* An open handle holds the pin and is the only one that does, although a  *)
(* second open runs most of dev_open before it is refused.                 *)
OneHolder ==
  \A c \in Clients : fd[c] = "open" =>
    owner = "servo" /\ \A d \in Clients : fd[d] = "open" => d = c

(* When the last client has let go nothing moves any more: no queued work, *)
(* no pulse under way, the pin low and the timer stopped. The pin is free  *)
(* for the next open, as servo_driver.c:138-142 and 235-236 promise, but   *)
(* only if no pulse was under way when gpio_free came and none began       *)
(* between it and running = 0: such a pulse takes the pin back as ?auto?.  *)
ClosedIsStill ==
  (\A c \in Clients : fd[c] = "none") =>
    /\ ~pending /\ ~running /\ work = "idle" /\ pin = "low" /\ ~timer
    /\ owner = "free" \/ undercut

(* The registers are mapped whenever the work or a release touches them,   *)
(* as long as no client opens before another has let go.                   *)
NoFault == oops => shared

(* While a client keeps the device open, alone, the pulses go on, and when *)
(* it leaves the angle alone they settle at the width of that angle.       *)
ArmFollows ==
  \A c \in Clients, a \in Angles :
    <>[](fd[c] = "open" /\ ~shared /\ high = Width(a)) =>
      /\ []<>(pin = "high") /\ []<>(pin = "low")
      /\ <>[](pulse > Width(a) /\ pulse <= Width(a) + Late)

(* A release that nobody interferes with returns: the wait for the pulse   *)
(* under way ends.                                                         *)
ReleaseReturns == \A c \in Clients : fd[c] = "freed" ~> fd[c] = "none" \/ shared
=============================================================================
