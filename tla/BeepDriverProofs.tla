--------------------------- MODULE BeepDriverProofs ---------------------------
(***************************************************************************)
(* What the buzzer driver guarantees for any number of threads that call   *)
(* it without a lock: silence once it is closed; silence after BEEP_OFF    *)
(* and no timer added twice, until two calls cross.                        *)
(***************************************************************************)
EXTENDS BeepDriver, TLAPS

Labels == {"idle", "arm", "mark", "stop", "unmark", "low", "reload"}

(* Nobody is inside a device that is not open, and its timer is gone.      *)
ShutInv ==
  /\ pc \in [Callers -> Labels]
  /\ dev # "open" => Quiescent /\ ~armed /\ hand = "idle"
  /\ dev = "closed" => level = "low"

(* ShutInv is inductive: an ioctl and the timer need an open device, and   *)
(* dev_release needs the last ioctl to have returned.                      *)
LEMMA ShutInvKept ==
  ASSUME ShutInv, [Next]_vars
  PROVE  ShutInv'
<1> USE DEF ShutInv, Quiescent, Idle, Labels
<1>1. CASE Open \/ ReleaseStop \/ ReleaseLow
  BY <1>1 DEF Open, ReleaseStop, ReleaseLow
<1>2. CASE Timer
  BY <1>2 DEF Timer, Fire, HandRead, HandWrite, HandArm, AddTimer
<1>3. ASSUME NEW c \in Callers, OnStart(c) \/ OffStart(c) PROVE ShutInv'
  BY <1>3 DEF OnStart, OffStart, Goto
<1>4. ASSUME NEW c \in Callers, NEW n \in Periods, TuneStart(c, n) PROVE ShutInv'
  BY <1>4 DEF TuneStart, Goto
<1>5. ASSUME NEW c \in Callers, TuneReload(c) \/ OnArm(c) \/ OnMark(c) PROVE ShutInv'
  BY <1>5 DEF TuneReload, OnArm, OnMark, AddTimer, Goto
<1>6. ASSUME NEW c \in Callers, OffStop(c) \/ OffUnmark(c) \/ OffLow(c) PROVE ShutInv'
  BY <1>6 DEF OffStop, OffUnmark, OffLow, Goto
<1>7. CASE UNCHANGED vars
  BY <1>7 DEF vars
<1>8. QED
  BY <1>1, <1>2, <1>3, <1>4, <1>5, <1>6, <1>7 DEF Next, Ioctl, Inside

(* dev_release leaves the buzzer silent whatever the threads of the dead   *)
(* process were doing: the fact TaxiTerminal's Exit rests on.              *)
THEOREM ClosedDeviceIsSilent == Spec => []ReleasedIsSilent
<1>1. Init => ShutInv
  BY DEF Init, ShutInv, Quiescent, Idle, Labels
<1>2. ShutInv => ReleasedIsSilent
  BY DEF ShutInv, ReleasedIsSilent, Silent
<1>3. QED
  BY <1>1, <1>2, ShutInvKept, PTL DEF Spec

-----------------------------------------------------------------------------
(* Until calls cross, a BEEP_ON past its test of running is alone among    *)
(* the calls that change the timer, a reload meets no BEEP_OFF past its    *)
(* test, and running says whether the timer lives, except between the two  *)
(* assignments of the call that is changing both.                          *)
Lives == armed \/ hand # "idle"
TurningOn(c) == pc[c] \in {"arm", "mark"}

Apart ==
  \A c, d \in Callers :
    /\ TurningOn(c) /\ (Turning(d) \/ Stopping(d)) => c = d
    /\ pc[c] = "reload" => ~Stopping(d)

TimerFollows ==
  /\ Lives => running \/ \E c \in Callers : pc[c] = "mark"
  /\ running => Lives \/ \E c \in Callers : pc[c] = "unmark"
  /\ \A c \in Callers :
       /\ pc[c] = "arm" => ~running /\ ~Lives
       /\ pc[c] = "mark" => ~running /\ Lives
       /\ pc[c] = "reload" => running /\ Lives
       /\ pc[c] = "unmark" => ~Lives

(* A clean BEEP_OFF past its del_timer_sync finds no timer, nor does       *)
(* anything after it bring one back.                                       *)
OffHolds ==
  /\ clean # {} => \A c \in Callers : ~Turning(c)
  /\ \A c \in clean : pc[c] \in {"unmark", "low"} => ~Lives
  /\ quiet => ~Lives /\ level = "low" /\ \A c \in Callers : ~Turning(c)

InOrder ==
  /\ ShutInv /\ clean \subseteq Callers
  /\ hand \in {"idle", "read", "write", "arm"}
  /\ running \in BOOLEAN /\ armed \in BOOLEAN /\ quiet \in BOOLEAN
  /\ oops \in BOOLEAN /\ crossed \in BOOLEAN /\ retuned \in BOOLEAN
  /\ ~crossed => /\ Apart /\ TimerFollows /\ OffHolds
                 /\ (oops \/ (armed /\ hand # "idle")) => retuned

LEMMA InOrderKept ==
  ASSUME InOrder, [Next]_vars
  PROVE  InOrder'
<1>0. ShutInv'
  BY ShutInvKept DEF InOrder
<1> USE <1>0 DEF InOrder, ShutInv, Labels, Lives, TurningOn, Turning, Stopping, history,
                 Apart, TimerFollows, OffHolds
<1>1. CASE Open
  <2>1. ~oops
    BY <1>1, Zenon DEF Open, Next, vars
  <2>2. Quiescent /\ ~armed /\ hand = "idle"
    BY <1>1 DEF Open
  <2>3. QED
    BY <1>1, <2>1, <2>2 DEF Open, Quiescent, Idle
<1>2. CASE ReleaseStop
  BY <1>2 DEF ReleaseStop, Quiescent, Idle
<1>3. CASE ReleaseLow
  BY <1>3 DEF ReleaseLow, Quiescent, Idle
<1>4. CASE Fire
  BY <1>4 DEF Fire
<1>5. CASE HandRead
  BY <1>5 DEF HandRead
<1>6. CASE HandWrite
  BY <1>6 DEF HandWrite
<1>7. CASE HandArm
  BY <1>7 DEF HandArm, AddTimer
<1>8. ASSUME NEW c \in Callers, OnStart(c) PROVE InOrder'
  BY <1>8 DEF OnStart, Goto, Idle
<1>9. ASSUME NEW c \in Callers, OffStart(c) PROVE InOrder'
  BY <1>9 DEF OffStart, Goto, Idle
<1>10. ASSUME NEW c \in Callers, NEW n \in Periods, TuneStart(c, n) PROVE InOrder'
  BY <1>10 DEF TuneStart, Goto, Idle
<1>11. ASSUME NEW c \in Callers, TuneReload(c) PROVE InOrder'
  BY <1>11 DEF TuneReload, Goto
<1>12. ASSUME NEW c \in Callers, OnArm(c) PROVE InOrder'
  BY <1>12 DEF OnArm, AddTimer, Goto
<1>13. ASSUME NEW c \in Callers, OnMark(c) PROVE InOrder'
  BY <1>13 DEF OnMark, Goto
<1>14. ASSUME NEW c \in Callers, OffStop(c) PROVE InOrder'
  BY <1>14 DEF OffStop, Goto
<1>15. ASSUME NEW c \in Callers, OffUnmark(c) PROVE InOrder'
  BY <1>15 DEF OffUnmark, Goto
<1>16. ASSUME NEW c \in Callers, OffLow(c) PROVE InOrder'
  BY <1>16 DEF OffLow, Goto
<1>17. CASE UNCHANGED vars
  BY <1>17 DEF vars
<1>18. QED
  BY <1>1, <1>2, <1>3, <1>4, <1>5, <1>6, <1>7, <1>8, <1>9, <1>10, <1>11, <1>12, <1>13, <1>14,
     <1>15, <1>16, <1>17 DEF Next, Ioctl, Inside, Timer

LEMMA InOrderAlways == Spec => []InOrder
<1>1. Init => InOrder
  BY DEF Init, InOrder, ShutInv, Quiescent, Idle, Labels, Lives, TurningOn, Turning, Stopping,
     Apart, TimerFollows, OffHolds
<1>2. QED
  BY <1>1, InOrderKept, PTL DEF Spec

(* For any number of threads that call without a lock: after a BEEP_OFF    *)
(* the pin stays low until somebody asks for a tone, unless calls crossed. *)
THEOREM OffIsFinal == Spec => []OffIsSilent
<1>1. InOrder => OffIsSilent
  BY DEF InOrder, OffHolds, Lives, OffIsSilent, Silent
<1>2. QED
  BY <1>1, InOrderAlways, PTL

(* For any number of threads: only calls that cross, or a reload beside    *)
(* the handler, make the kernel meet a timer that is already pending.      *)
THEOREM TimerAddedOnce == Spec => []NoDoubleArm
<1>1. InOrder => NoDoubleArm
  BY DEF InOrder, NoDoubleArm
<1>2. QED
  BY <1>1, InOrderAlways, PTL

-----------------------------------------------------------------------------
(* Every variable stays in its type for any callers; above all the half    *)
(* period stays within its limits, so that the timer cannot fire in its    *)
(* own tick for ever.                                                      *)
THEOREM TypeCorrect == Spec => []TypeOK
<1> USE DriverAssumption
<1>1. Init => TypeOK
  BY DEF Init, TypeOK
<1>2. TypeOK /\ [Next]_vars => TypeOK'
  <2> SUFFICES ASSUME TypeOK, [Next]_vars PROVE TypeOK'
    OBVIOUS
  <2> USE DEF TypeOK, Goto, history
  <2>1. CASE Open \/ ReleaseStop \/ ReleaseLow
    BY <2>1 DEF Open, ReleaseStop, ReleaseLow
  <2>2. CASE Timer
    BY <2>2 DEF Timer, Fire, HandRead, HandWrite, HandArm, AddTimer, Flip
  <2>3. ASSUME NEW c \in Callers, OnStart(c) \/ OffStart(c) PROVE TypeOK'
    BY <2>3 DEF OnStart, OffStart
  <2>4. ASSUME NEW c \in Callers, NEW n \in Periods, TuneStart(c, n) PROVE TypeOK'
    BY <2>4 DEF TuneStart, Clamp
  <2>5. ASSUME NEW c \in Callers, TuneReload(c) \/ OnArm(c) \/ OnMark(c) PROVE TypeOK'
    <3>1. CASE TuneReload(c)
      BY <2>5, <3>1 DEF TuneReload
    <3>2. CASE OnArm(c)
      BY <2>5, <3>2, Zenon DEF OnArm, AddTimer
    <3>3. CASE OnMark(c)
      BY <2>5, <3>3 DEF OnMark
    <3>4. QED
      BY <2>5, <3>1, <3>2, <3>3
  <2>6. ASSUME NEW c \in Callers, OffStop(c) \/ OffUnmark(c) \/ OffLow(c) PROVE TypeOK'
    <3>1. CASE OffStop(c) \/ OffUnmark(c)
      BY <3>1 DEF OffStop, OffUnmark
    <3>2. CASE OffLow(c)
      BY <3>2, Zenon DEF OffLow
    <3>3. QED
      BY <2>6, <3>1, <3>2
  <2>7. CASE UNCHANGED vars
    BY <2>7 DEF vars
  <2>8. QED
    BY <2>1, <2>2, <2>3, <2>4, <2>5, <2>6, <2>7 DEF Next, Ioctl, Inside
<1>3. QED
  BY <1>1, <1>2, PTL DEF Spec
=============================================================================
