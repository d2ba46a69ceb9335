-------------------------- MODULE ServoDriverProofs --------------------------
(***************************************************************************)
(* Proofs about ServoDriver, for any number of clients and any angles.     *)
(* Each invariant is proved with the strengthening named before it.        *)
(***************************************************************************)
EXTENDS ServoDriver, TLAPS

USE DEF vars, client, overlaps, pwm, wave, To, Touch, InitTimer, StartTimer, StopTimer, SetHigh,
    Lesser, Greater, Drive

(* Every width asked for is one the arm can take: the clamp and the        *)
(* rounded step together.                                                  *)
LEMMA WidthRange ==
  ASSUME NEW a \in Angles
  PROVE  Width(a) \in MinHigh..MaxHigh
<1>1. Clamp(a) \in 0..Degrees  BY ServoAssumption DEF Clamp
<1>2. Step * Clamp(a) \in Nat /\ Step * Clamp(a) <= Step * Degrees
  <2>1. \A s, m, n \in Nat : m <= n => s * m \in Nat /\ s * m <= s * n  BY SMT
  <2> QED  BY <1>1, <2>1, ServoAssumption
<1>3. Step * Degrees \in Nat  BY ServoAssumption, SMT
<1> QED  BY <1>2, <1>3, ServoAssumption DEF Width

LEMMA Bounds ==
  /\ MinHigh \in 1..MaxHigh /\ MaxHigh \in Nat /\ MaxHigh + Late \in Nat
<1>1. Step * Degrees \in Nat  BY ServoAssumption, SMT
<1> QED  BY <1>1, ServoAssumption

(* Every variable keeps its type: no width beyond the range of the arm is  *)
(* ever written, and no pulse outlasts the widest by more than Late.       *)
THEOREM TypeCorrect == Spec => []TypeOK
<1>1. Init => TypeOK
  <2> SUFFICES ASSUME Init PROVE TypeOK  OBVIOUS
  <2>1. fd \in [Clients -> Stages]  BY DEF Init, Stages
  <2>2. {elapsed, pulse, lo, hi, high} = {0}  BY DEF Init
  <2>3. 0 \in 0..MaxHigh /\ 0 \in 0..(MaxHigh + Late)  BY Bounds
  <2> QED  BY <2>1, <2>2, <2>3, Zenon DEF Init, TypeOK
<1>2. TypeOK /\ [Next]_vars => TypeOK'
  <2> SUFFICES ASSUME TypeOK, [Next]_vars PROVE TypeOK'  OBVIOUS
  <2> USE DEF TypeOK
  <2>1. CASE UNCHANGED vars  BY <2>1
  <2>2. ASSUME NEW c \in Clients, NEW a \in Angles, Ask(c, a) PROVE TypeOK'
        BY <2>2, WidthRange, Bounds DEF Ask
  <2>3. ASSUME NEW c \in Clients, OpenSetup(c) PROVE TypeOK'
    <3>1. fd' \in [Clients -> Stages]  BY <2>3 DEF Stages, OpenSetup
    <3>2. shared' \in BOOLEAN  BY <2>3, Zenon DEF OpenSetup
    <3>3. high' \in {0} \cup MinHigh..MaxHigh /\ lo' \in 0..MaxHigh /\ hi' \in 0..MaxHigh
          BY <2>3, Bounds DEF OpenSetup
    <3>4. UNCHANGED <<owner, running, undercut, pulse, pending, work, pin, oops>>
          /\ mapped' = TRUE /\ timer' = FALSE /\ elapsed' = 0
          BY <2>3 DEF OpenSetup
    <3>5. elapsed' \in 0..(MaxHigh + Late)  BY <3>4, Bounds
    <3> QED  BY <3>1, <3>2, <3>3, <3>4, <3>5
  <2>4. ASSUME NEW c \in Clients, OpenGranted(c) \/ OpenRefused(c) \/ ReleaseFree(c) PROVE TypeOK'
    <3>1. fd' \in [Clients -> Stages]
          BY <2>4 DEF Stages, OpenGranted, OpenRefused, ReleaseFree
    <3>2. CASE OpenGranted(c)  BY <3>1, <3>2 DEF OpenGranted
    <3>3. CASE OpenRefused(c)  BY <3>1, <3>3 DEF OpenRefused
    <3>4. CASE ReleaseFree(c)
      <4>1. undercut' \in BOOLEAN  BY <3>4, Zenon DEF ReleaseFree
      <4> QED  BY <3>1, <3>4, <4>1 DEF ReleaseFree
    <3> QED  BY <2>4, <3>2, <3>3, <3>4
  <2>5. ASSUME NEW c \in Clients, Release(c) PROVE TypeOK'
    <3>1. fd' \in [Clients -> Stages]
          BY <2>5 DEF Stages, Release, ReleaseStop, ReleaseCancel, ReleaseUnmap
    <3>2. CASE ReleaseStop(c)  BY <3>1, <3>2 DEF ReleaseStop
    <3>3. CASE ReleaseCancel(c)  BY <3>1, <3>3 DEF ReleaseCancel
    <3>4. CASE ReleaseUnmap(c)  BY <3>1, <3>4 DEF ReleaseUnmap
    <3> QED  BY <2>5, <3>2, <3>3, <3>4 DEF Release
  <2>6. CASE Tick  BY <2>6, ServoAssumption DEF Tick
  <2>7. CASE WorkOn  BY <2>7, ServoAssumption DEF WorkOn
  <2>8. CASE WorkOff  BY <2>8, ServoAssumption DEF WorkOff
  <2>9. CASE WorkQuit \/ WorkStart \/ WorkAgain  BY <2>9 DEF WorkQuit, WorkStart, WorkAgain
  <2> QED  BY <2>1, <2>2, <2>3, <2>4, <2>5, <2>6, <2>7, <2>8, <2>9 DEF Next, Work, Call
<1> QED  BY <1>1, <1>2, PTL DEF Spec

-----------------------------------------------------------------------------
(* An open handle holds the pin, and no second one does, although the      *)
(* mutex of misc_open is given up before the work runs.                    *)
THEOREM PinHasOneHolder == Spec => []OneHolder
<1>1. Init => OneHolder  BY DEF Init, OneHolder
<1>2. TypeOK /\ OneHolder /\ [Next]_vars => OneHolder'
  <2> SUFFICES ASSUME TypeOK, OneHolder, [Next]_vars PROVE OneHolder'  OBVIOUS
  <2> USE DEF TypeOK, OneHolder
  <2>1. CASE UNCHANGED vars  BY <2>1
  <2>2. ASSUME NEW c \in Clients, Call(c) PROVE OneHolder'
        BY <2>2 DEF Call, Ask, OpenSetup, OpenGranted, OpenRefused, ReleaseFree
  <2>3. ASSUME NEW c \in Clients, Release(c) PROVE OneHolder'
        BY <2>3 DEF Release, ReleaseStop, ReleaseCancel, ReleaseUnmap
  <2>4. CASE Work \/ Tick
        BY <2>4 DEF Work, Tick, WorkQuit, WorkStart, WorkOn, WorkOff, WorkAgain
  <2> QED  BY <2>1, <2>2, <2>3, <2>4 DEF Next
<1> QED  BY <1>1, <1>2, TypeCorrect, PTL DEF Spec

-----------------------------------------------------------------------------
(* Who will still stop what moves: a client before its cancel.             *)
Undertaker == \E c \in Clients : fd[c] \in {"open", "freed", "stopped"}

Attended ==
  /\ pending \/ work # "idle" => Undertaker
  /\ running => \E c \in Clients : fd[c] \in {"open", "freed"}
  /\ pin = "high" => work = "spin"
  /\ timer => work # "idle"

LEMMA AttendedInv == Spec => []Attended
<1>1. Init => Attended  BY DEF Init, Attended
<1>2. TypeOK /\ Attended /\ [Next]_vars => Attended'
  <2> SUFFICES ASSUME TypeOK, Attended, [Next]_vars PROVE Attended'  OBVIOUS
  <2> USE DEF TypeOK, Attended, Undertaker
  <2>1. CASE UNCHANGED vars  BY <2>1
  <2>2. ASSUME NEW c \in Clients, Call(c) PROVE Attended'
    <3>1. CASE \E a \in Angles : Ask(c, a)  BY <3>1 DEF Ask
    <3>2. CASE OpenSetup(c)  BY <3>2 DEF OpenSetup
    <3>3. CASE OpenGranted(c)  BY <3>3 DEF OpenGranted
    <3>4. CASE OpenRefused(c)  BY <3>4 DEF OpenRefused
    <3>5. CASE ReleaseFree(c)  BY <3>5 DEF ReleaseFree
    <3> QED  BY <2>2, <3>1, <3>2, <3>3, <3>4, <3>5 DEF Call
  <2>3. ASSUME NEW c \in Clients, Release(c) PROVE Attended'
    <3>1. CASE ReleaseStop(c)  BY <3>1 DEF ReleaseStop
    <3>2. CASE ReleaseCancel(c)  BY <3>2 DEF ReleaseCancel
    <3>3. CASE ReleaseUnmap(c)  BY <3>3 DEF ReleaseUnmap
    <3> QED  BY <2>3, <3>1, <3>2, <3>3 DEF Release
  <2>4. CASE Work \/ Tick
        BY <2>4 DEF Work, Tick, WorkQuit, WorkStart, WorkOn, WorkOff, WorkAgain
  <2> QED  BY <2>1, <2>2, <2>3, <2>4 DEF Next
<1> QED  BY <1>1, <1>2, TypeCorrect, PTL DEF Spec

(* The pin is held by an open handle or by nobody, but for the pulses that *)
(* run where no handle holds it: those alone end it with ?auto?.           *)
PinGivenBack ==
  /\ owner = "servo" => \E c \in Clients : fd[c] = "open"
  /\ owner = "auto" => undercut
  /\ owner = "free" /\ work # "idle" => undercut

LEMMA PinGivenBackInv == Spec => []PinGivenBack
<1>1. Init => PinGivenBack  BY DEF Init, PinGivenBack
<1>2. TypeOK /\ PinGivenBack /\ [Next]_vars => PinGivenBack'
  <2> SUFFICES ASSUME TypeOK, PinGivenBack, [Next]_vars PROVE PinGivenBack'  OBVIOUS
  <2> USE DEF TypeOK, PinGivenBack
  <2>1. CASE UNCHANGED vars  BY <2>1
  <2>2. ASSUME NEW c \in Clients, Call(c) PROVE PinGivenBack'
    <3>1. CASE \E a \in Angles : Ask(c, a)  BY <3>1 DEF Ask
    <3>2. CASE OpenSetup(c)  BY <3>2 DEF OpenSetup
    <3>3. CASE OpenGranted(c)  BY <3>3 DEF OpenGranted
    <3>4. CASE OpenRefused(c)  BY <3>4 DEF OpenRefused
    <3>5. CASE ReleaseFree(c)  BY <3>5 DEF ReleaseFree
    <3> QED  BY <2>2, <3>1, <3>2, <3>3, <3>4, <3>5 DEF Call
  <2>3. ASSUME NEW c \in Clients, Release(c) PROVE PinGivenBack'
        BY <2>3 DEF Release, ReleaseStop, ReleaseCancel, ReleaseUnmap
  <2>4. CASE WorkStart  BY <2>4 DEF WorkStart
  <2>5. CASE WorkOn \/ WorkOff  BY <2>5 DEF WorkOn, WorkOff
  <2>6. CASE Tick \/ WorkQuit \/ WorkAgain  BY <2>6 DEF Tick, WorkQuit, WorkAgain
  <2> QED  BY <2>1, <2>2, <2>3, <2>4, <2>5, <2>6 DEF Next, Work
<1> QED  BY <1>1, <1>2, TypeCorrect, PTL DEF Spec

(* When the last client has let go nothing is queued, nothing runs, the    *)
(* pin is low and the timer stopped, however the clients overlapped, and   *)
(* the next open gets the pin unless a pulse ran past gpio_free.           *)
THEOREM ClosedDeviceIsStill == Spec => []ClosedIsStill
<1>1. TypeOK /\ Attended /\ PinGivenBack => ClosedIsStill
      BY DEF TypeOK, Attended, Undertaker, PinGivenBack, ClosedIsStill
<1> QED  BY <1>1, TypeCorrect, AttendedInv, PinGivenBackInv, PTL

-----------------------------------------------------------------------------
(* The width register is within the hull of the widths asked for since the *)
(* pulse began, and the spin never runs Late beyond it.                    *)
InHull ==
  /\ high = 0 => \A c \in Clients : fd[c] = "none"
  /\ work \in {"spin", "off"} => lo <= high /\ high <= hi
  /\ work = "spin" => elapsed <= hi + Late
  /\ PulseBetween

(* A pulse is as long as one of the widths asked for while it was sent, to *)
(* within Late, whoever asks and opens beside the spinning work.           *)
THEOREM PulseFollowsWidth == Spec => []PulseBetween
<1>1. Init => InHull  BY DEF Init, InHull, PulseBetween
<1>2. TypeOK /\ Attended /\ InHull /\ [Next]_vars => InHull'
  <2> SUFFICES ASSUME TypeOK, Attended, InHull, [Next]_vars PROVE InHull'  OBVIOUS
  <2> USE DEF TypeOK, InHull, PulseBetween
  <2>1. CASE UNCHANGED vars  BY <2>1
  <2>2. ASSUME NEW c \in Clients, Call(c) PROVE InHull'
    <3>1. ASSUME NEW a \in Angles, Ask(c, a) PROVE InHull'
          BY <3>1, WidthRange, ServoAssumption DEF Ask
    <3>2. CASE OpenSetup(c)  BY <3>2, ServoAssumption DEF OpenSetup
    <3>3. CASE OpenGranted(c) \/ OpenRefused(c) \/ ReleaseFree(c)
          BY <3>3 DEF OpenGranted, OpenRefused, ReleaseFree
    <3> QED  BY <2>2, <3>1, <3>2, <3>3 DEF Call
  <2>3. ASSUME NEW c \in Clients, Release(c) PROVE InHull'
        BY <2>3 DEF Release, ReleaseStop, ReleaseCancel, ReleaseUnmap
  <2>4. CASE Tick  BY <2>4, ServoAssumption DEF Tick
  <2>5. CASE WorkOn  BY <2>5, ServoAssumption DEF WorkOn
  <2>6. CASE WorkOff
    <3>1. high # 0  BY <2>6 DEF WorkOff, Attended, Undertaker
    <3> QED  BY <2>6, <3>1, ServoAssumption DEF WorkOff, WidthReached
  <2>7. CASE WorkQuit \/ WorkStart \/ WorkAgain  BY <2>7 DEF WorkQuit, WorkStart, WorkAgain
  <2> QED  BY <2>1, <2>2, <2>3, <2>4, <2>5, <2>6, <2>7 DEF Next, Work
<1>3. InHull => PulseBetween  BY DEF InHull
<1> QED  BY <1>1, <1>2, <1>3, TypeCorrect, AttendedInv, PTL DEF Spec

-----------------------------------------------------------------------------
(* Clients that never overlapped: at most one holds a handle in any stage, *)
(* and the registers are mapped while it does.                             *)
Mapped ==
  /\ NoFault
  /\ ~shared => \A c, d \in Clients : fd[c] # "none" => mapped /\ (fd[d] # "none" => d = c)

(* The work and the releases touch mapped registers only, unless a client  *)
(* opened before another had let go.                                       *)
THEOREM AloneNeverFaults == Spec => []NoFault
<1>1. Init => Mapped  BY DEF Init, Mapped, NoFault
<1>2. TypeOK /\ Attended /\ Mapped /\ [Next]_vars => Mapped'
  <2> SUFFICES ASSUME TypeOK, Attended, Mapped, [Next]_vars PROVE Mapped'  OBVIOUS
  <2> USE DEF TypeOK, Mapped, NoFault
  <2>1. CASE UNCHANGED vars  BY <2>1
  <2>2. ASSUME NEW c \in Clients, Call(c) PROVE Mapped'
        BY <2>2 DEF Call, Ask, OpenSetup, OpenGranted, OpenRefused, ReleaseFree
  <2>3. ASSUME NEW c \in Clients, Release(c) PROVE Mapped'
        BY <2>3 DEF Release, ReleaseStop, ReleaseCancel, ReleaseUnmap
  <2>4. CASE Work \/ Tick
    <3>1. pending \/ work # "idle" => shared \/ mapped  BY DEF Attended, Undertaker
    <3> QED  BY <2>4, <3>1 DEF Work, Tick, WorkQuit, WorkStart, WorkOn, WorkOff, WorkAgain
  <2> QED  BY <2>1, <2>2, <2>3, <2>4 DEF Next
<1>3. Mapped => NoFault  BY DEF Mapped
<1> QED  BY <1>1, <1>2, <1>3, TypeCorrect, AttendedInv, PTL DEF Spec
=============================================================================
