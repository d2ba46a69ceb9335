------------------------------ MODULE BeepDriver ------------------------------
(***************************************************************************)
(* The buzzer driver board_driver/beep_driver/beep_driver.c: unlocked      *)
(* ioctls of several threads against a self-rearming kernel timer that     *)
(* toggles the pin. TaxiTerminal takes BEEP_ON, BEEP_OFF and the release   *)
(* at exit as atomic; this module is what they are made of.                *)
(*                                                                         *)
(* The handler runs on another CPU than the ioctls.                        *)
(***************************************************************************)
EXTENDS Integers, FiniteSets

CONSTANTS
  Callers,      \* threads of the process that may be inside an ioctl
  Periods,      \* half periods SET_FREQUENCY may be called with
  MinPeriod,    \* DELAY_MIN_MS
  MaxPeriod,    \* DELAY_MAX_MS
  FirstPeriod   \* DELAY_DEFAULT_MS

ASSUME DriverAssumption ==
  /\ Callers # {}
  /\ Periods \subseteq Int
  /\ MinPeriod \in Nat \ {0} /\ MaxPeriod \in Int /\ MinPeriod <= MaxPeriod
  /\ FirstPeriod \in MinPeriod..MaxPeriod

VARIABLES
  dev,      \* "closed", "open", or "stopped" half-way through dev_release
  pc,       \* where each caller is in dev_ioctl
  running,  \* beep->running
  delay,    \* beep->delay, the half period
  armed,    \* the kernel timer is pending
  hand,     \* where timer_handler is, "idle" when it is not running
  seen,     \* the level timer_handler read
  level,    \* the pin
  oops,     \* add_timer met a pending timer: BUG_ON in the kernel
  clean,    \* history: callers whose BEEP_OFF began with no call under way that may add the
            \* timer, while none has begun since
  quiet,    \* history: such a BEEP_OFF has returned
  retuned,  \* history: a reload has hit the handler between its start and its add_timer
  crossed   \* history: since the open, a caller passed its test of running while another, past
            \* its own, was about to change what it had tested

history == <<clean, quiet, retuned, crossed>>
vars == <<dev, pc, running, delay, armed, hand, seen, level, oops, history>>

Idle(c) == pc[c] = "idle"
Goto(c, l) == pc' = [pc EXCEPT ![c] = l]
Flip(l) == IF l = "low" THEN "high" ELSE "low"

(* Past the test of running: about to add the timer, about to delete it.   *)
Turning(c) == pc[c] \in {"arm", "mark", "reload"}
Stopping(c) == pc[c] \in {"stop", "unmark"}

(* gpio_module_init *)
Init ==
  /\ dev = "closed" /\ pc = [c \in Callers |-> "idle"]
  /\ delay = FirstPeriod
  /\ running = FALSE /\ armed = FALSE /\ hand = "idle" /\ seen = "low" /\ level = "low"
  /\ oops = FALSE /\ clean = {} /\ quiet = FALSE /\ retuned = FALSE /\ crossed = FALSE

-----------------------------------------------------------------------------
(* dev_open: pin low, timer stopped. A second open fails in gpio_request.  *)
Open ==
  /\ dev = "closed" /\ hand = "idle"
  /\ dev' = "open" /\ level' = "low" /\ armed' = FALSE /\ running' = FALSE
  /\ crossed' = FALSE
  /\ UNCHANGED <<pc, delay, hand, seen, oops, clean, quiet, retuned>>

(* dev_release, when the last ioctl has returned: stop, then pin low. *)
ReleaseStop ==
  /\ dev = "open" /\ \A c \in Callers : Idle(c)
  /\ hand = "idle"
  /\ dev' = "stopped" /\ armed' = FALSE /\ running' = FALSE
  /\ UNCHANGED <<pc, delay, hand, seen, level, oops, history>>

ReleaseLowDropped == dev = "stopped" /\ dev' = "closed"  \* fault: the pin keeps its level
                     /\ UNCHANGED <<pc, delay, running, armed, hand, seen, level, oops, history>>
ReleaseLow ==
  /\ dev = "stopped"
  /\ dev' = "closed" /\ level' = "low"
  /\ UNCHANGED <<pc, delay, running, armed, hand, seen, oops, history>>

-----------------------------------------------------------------------------
(* add_timer, which must not find the timer pending. *)
AddTimer == oops' = armed /\ armed' = TRUE

(* BEEP_ON: test running, add the timer, set running. *)
OnStart(c) ==
  /\ dev = "open" /\ Idle(c)
  /\ Goto(c, IF running THEN "idle" ELSE "arm")
  /\ clean' = {} /\ quiet' = FALSE
  /\ crossed' = (crossed \/ (~running /\ \E d \in Callers : Turning(d) \/ Stopping(d)))
  /\ UNCHANGED <<dev, delay, running, armed, hand, seen, level, oops, retuned>>

OnArm(c) ==
  /\ pc[c] = "arm"
  /\ AddTimer
  /\ Goto(c, "mark")
  /\ UNCHANGED <<dev, delay, running, hand, seen, level, history>>

OnMarkDropped(c) ==  \* fault: running is not set
  /\ pc[c] = "mark" /\ Goto(c, "idle")
  /\ UNCHANGED <<dev, delay, running, armed, hand, seen, level, oops, history>>

OnMark(c) ==
  /\ pc[c] = "mark"
  /\ running' = TRUE
  /\ Goto(c, "idle")
  /\ UNCHANGED <<dev, delay, armed, hand, seen, level, oops, history>>

(* BEEP_OFF: test running, del_timer_sync, clear running, pin low. *)
OffStart(c) ==
  /\ dev = "open" /\ Idle(c)
  /\ Goto(c, IF running THEN "stop" ELSE "low")
  /\ clean' = IF \E d \in Callers : Turning(d) THEN clean ELSE clean \cup {c}
  /\ crossed' = (crossed \/ (running /\ \E d \in Callers : pc[d] = "reload"))
  /\ UNCHANGED <<dev, delay, running, armed, hand, seen, level, oops, quiet, retuned>>

OffStopAsync(c) ==  \* fault: del_timer for del_timer_sync
  /\ pc[c] = "stop" /\ armed' = FALSE /\ Goto(c, "unmark")
  /\ UNCHANGED <<dev, delay, running, hand, seen, level, oops, history>>

OffStop(c) ==
  /\ pc[c] = "stop"
  /\ hand = "idle"
  /\ armed' = FALSE
  /\ Goto(c, "unmark")
  /\ UNCHANGED <<dev, delay, running, hand, seen, level, oops, history>>

OffUnmark(c) ==
  /\ pc[c] = "unmark"
  /\ running' = FALSE
  /\ Goto(c, "low")
  /\ UNCHANGED <<dev, delay, armed, hand, seen, level, oops, history>>

OffLow(c) ==
  /\ pc[c] = "low"
  /\ level' = "low"
  /\ Goto(c, "idle")
  /\ quiet' = (quiet \/ c \in clean)
  /\ UNCHANGED <<dev, delay, running, armed, hand, seen, oops, clean, retuned, crossed>>

(* SET_FREQUENCY: clamp the period, then reload a running timer. *)
Unclamped(n) == n  \* fault: 0 accepted
Clamp(n) == IF n < MinPeriod THEN MinPeriod ELSE IF n > MaxPeriod THEN MaxPeriod ELSE n

TuneStart(c, n) ==
  /\ dev = "open" /\ Idle(c)
  /\ delay' = Clamp(n)
  /\ Goto(c, IF running THEN "reload" ELSE "idle")
  /\ clean' = (IF running THEN {} ELSE clean) /\ quiet' = (quiet /\ ~running)
  /\ crossed' = (crossed \/ (running /\ \E d \in Callers : Stopping(d)))
  /\ UNCHANGED <<dev, running, armed, hand, seen, level, oops, retuned>>

TuneReload(c) ==
  /\ pc[c] = "reload"
  /\ armed' = TRUE
  /\ Goto(c, "idle")
  /\ retuned' = (retuned \/ hand # "idle")
  /\ UNCHANGED <<dev, running, delay, hand, seen, level, oops, clean, quiet, crossed>>

Ioctl(c) == OnStart(c) \/ OffStart(c) \/ \E n \in Periods : TuneStart(c, n)
Inside(c) == TuneReload(c) \/ OnArm(c) \/ OnMark(c) \/ OffStop(c) \/ OffUnmark(c) \/ OffLow(c)

-----------------------------------------------------------------------------
(* timer_handler, on another CPU: read the pin, write its opposite, rearm. *)
Fire ==
  /\ armed /\ hand = "idle"
  /\ armed' = FALSE /\ hand' = "read"
  /\ UNCHANGED <<dev, delay, pc, running, seen, level, oops, history>>

HandRead ==
  /\ hand = "read"
  /\ seen' = level /\ hand' = "write"
  /\ UNCHANGED <<dev, delay, pc, running, armed, level, oops, history>>

HandWrite ==
  /\ hand = "write"
  /\ level' = Flip(seen) /\ hand' = "arm"
  /\ UNCHANGED <<dev, delay, pc, running, armed, seen, oops, history>>

HandDone == hand = "arm" /\ hand' = "idle"  \* fault: one shot
            /\ UNCHANGED <<dev, delay, pc, running, armed, seen, level, oops, history>>
HandArm ==
  /\ hand = "arm"
  /\ AddTimer
  /\ hand' = "idle"
  /\ UNCHANGED <<dev, delay, pc, running, seen, level, history>>

Timer == Fire \/ HandRead \/ HandWrite \/ HandArm

Next ==
  /\ ~oops
  /\ \/ Open \/ ReleaseStop \/ ReleaseLow \/ Timer
     \/ \E c \in Callers : Ioctl(c) \/ Inside(c)

Spec == Init /\ [][Next]_vars

(* The timer runs when it is due and an ioctl that is inside the driver is *)
(* scheduled again; del_timer_sync gets its turn between two handlers.     *)
FairSpec ==
  /\ Spec /\ WF_vars(~oops /\ Timer)
  /\ \A c \in Callers : SF_vars(~oops /\ Inside(c))

-----------------------------------------------------------------------------
(* Type invariant. The period is never 0, which would make the timer spin. *)
TypeOK ==
  /\ delay \in MinPeriod..MaxPeriod
  /\ dev \in {"closed", "open", "stopped"}
  /\ pc \in [Callers -> {"idle", "arm", "mark", "stop", "unmark", "low", "reload"}]
  /\ running \in BOOLEAN /\ armed \in BOOLEAN
  /\ hand \in {"idle", "read", "write", "arm"}
  /\ seen \in {"low", "high"} /\ level \in {"low", "high"}
  /\ oops \in BOOLEAN /\ clean \in SUBSET Callers
  /\ quiet \in BOOLEAN /\ retuned \in BOOLEAN /\ crossed \in BOOLEAN

Quiescent == \A c \in Callers : Idle(c)
Silent == ~armed /\ hand = "idle" /\ level = "low"

(* Threads call the driver without a lock, yet neither an ioctl nor the    *)
(* handler adds a timer that is already pending unless two calls crossed:  *)
(* BEEP_ON passed its test (beep_driver.c:178) inside another BEEP_ON or a *)
(* BEEP_OFF that had passed its own, or a reload and a BEEP_OFF did so. A  *)
(* reload may also hit the handler before it rearms (retuned). Two         *)
(* BEEP_OFFs, and a BEEP_OFF that begins within a BEEP_ON, do no harm.     *)
NoDoubleArm == oops => crossed \/ retuned

(* A BEEP_OFF that began after the last BEEP_ON or reload had returned     *)
(* leaves the pin low for good, however many other BEEP_OFFs overlap it    *)
(* and whatever handler is in flight, unless calls crossed before.         *)
OffIsSilent == quiet => Silent \/ crossed

(* A closed device is silent, however many threads were calling before.    *)
ReleasedIsSilent == dev = "closed" => Silent

(* While running is set and nobody calls, the pin keeps toggling: the      *)
(* timer is alive whenever running says so, unless calls have crossed.     *)
ToneSounds ==
  <>[](running /\ Quiescent /\ ~oops /\ ~crossed) => []<>(level = "high") /\ []<>(level = "low")
=============================================================================
