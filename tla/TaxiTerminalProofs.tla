------------------------- MODULE TaxiTerminalProofs -------------------------
(***************************************************************************)
(* What holds of the terminal process for every set of cards, every number *)
(* of digits, every threshold and any subset of keys, messages and threads.*)
(***************************************************************************)
EXTENDS TaxiTerminal, TLAPS

(* The buzzer's two variables and the two calls that change them.          *)
USE DEF beepVars, Sound, Mute

-----------------------------------------------------------------------------
(* The parts of the type invariant that a step leaves alone.               *)

(* A step that leaves the card and password variables alone keeps their    *)
(* types: most steps outside taxi_key_thread and taxi_rfid_thread.         *)
LEMMA CardFrame == TypeCard /\ UNCHANGED cardVars => TypeCard'
  BY DEF TypeCard, cardVars

(* The same for the door flag, the fatigue clock and the servo.            *)
LEMMA DoorFrame == TypeDoor /\ UNCHANGED doorVars => TypeDoor'
  BY DEF TypeDoor, doorVars

(* The same for the alarm flags and the smoke thread's counters.           *)
LEMMA AlarmFrame == TypeAlarm /\ UNCHANGED alarmVars => TypeAlarm'
  BY DEF TypeAlarm, alarmVars

(* The same for the connection and the reports.                            *)
LEMMA UpFrame == TypeUp /\ UNCHANGED upVars => TypeUp'
  BY DEF TypeUp, upVars

-----------------------------------------------------------------------------
(* Steps of taxi_report_location preserve the type invariant.              *)
LEMMA ReportType ==
  ASSUME TypeOK, NEW t \in Active, ReportLocation(t)
  PROVE  TypeOK'
<1>1. t \in Threads
  BY ConstantsAssumption
<1>2. TypeCard' /\ TypeDoor' /\ TypeAlarm'
  BY CardFrame, DoorFrame, AlarmFrame DEF TypeOK, ReportLocation, LocAlarms, LocDoor, LocSend
<1>3. TypeProc'
  BY <1>1 DEF TypeOK, ReportLocation, LocAlarms, LocDoor, LocSend, TypeProc, Goto, procVars, Labels
<1>4. /\ net_ok' \in BOOLEAN /\ late_tone' \in BOOLEAN
      /\ beep' \in {"silent", "alarm", "chirp", "platform"}
  BY DEF TypeOK, TypeUp, ReportLocation, LocAlarms, LocDoor, LocSend
<1>5. body' \in [Threads -> Body] /\ view' \in Body
  <2>1. CASE LocAlarms(t)
    BY <1>1, <2>1 DEF TypeOK, TypeUp, TypeAlarm, LocAlarms, Body
  <2>2. CASE LocDoor(t)
    BY <1>1, <2>2 DEF TypeOK, TypeUp, TypeDoor, LocDoor, Body
  <2>3. CASE LocSend(t)
    BY <1>1, <2>3 DEF TypeOK, TypeUp, LocSend, Body, EmptyBody
  <2>4. QED
    BY <2>1, <2>2, <2>3 DEF ReportLocation
<1>6. QED
  BY <1>2, <1>3, <1>4, <1>5 DEF TypeOK, TypeUp

(* Key presses and the key thread's own steps preserve the type invariant: *)
(* in particular a digit stored from a stale copy of auth_len stays inside *)
(* auth_buf.                                                               *)
LEMMA KeyType ==
  ASSUME TypeOK, KeyPress \/ KeyRun
  PROVE  TypeOK'
<1> USE ConstantsAssumption
<1>1. "key" \in Threads
  BY DEF Threads
<1>2. CASE KeyDigit
  BY <1>1, <1>2, DoorFrame, AlarmFrame, UpFrame
     DEF TypeOK, TypeProc, TypeCard, KeyDigit, KeyPressed, RoomForDigit, Goto, Labels
<1>3. CASE KeyDigitStore
  BY <1>1, <1>3, DoorFrame, AlarmFrame, UpFrame
     DEF TypeOK, TypeProc, TypeCard, KeyDigitStore, Goto, Labels
<1>4. CASE KeyConfirmNoCard
  BY <1>4, DoorFrame, AlarmFrame, UpFrame
     DEF TypeOK, TypeProc, TypeCard, KeyConfirmNoCard, procVars
<1>5. CASE KeyConfirm
  BY <1>1, <1>5, CardFrame, DoorFrame, AlarmFrame, UpFrame
     DEF TypeOK, TypeProc, KeyConfirm, Goto, Labels
<1>6. CASE KeyConfirmCopy
  <2>1. st_auth' \in [1..auth_len -> Tag] /\ auth_len \in 0..MaxDigits
    BY <1>6 DEF TypeOK, TypeCard, KeyConfirmCopy
  <2>2. st_auth' \in Password
    BY <2>1 DEF Password
  <2>3. QED
    BY <1>1, <1>6, <2>2, DoorFrame, AlarmFrame, UpFrame
       DEF TypeOK, TypeProc, TypeCard, KeyConfirmCopy, Goto, Labels
<1>7. CASE KeyClose
  BY <1>1, <1>7, CardFrame, AlarmFrame, UpFrame
     DEF TypeOK, TypeProc, TypeDoor, KeyClose, Goto, Labels, procVars
<1>8. CASE KeyDismiss
  <2>1. TypeProc'
    BY <1>1, <1>8 DEF TypeOK, TypeProc, KeyDismiss, Goto, Labels, procVars
  <2>2. TypeDoor'
    BY <1>8, 0 \in 0..DriveLimit DEF TypeOK, TypeDoor, KeyDismiss, ClockAfterDismiss
  <2>3. TypeAlarm'
    BY <1>8 DEF TypeOK, TypeAlarm, KeyDismiss
  <2>4. TypeCard' /\ TypeUp'
    BY <1>8, CardFrame, UpFrame DEF TypeOK, KeyDismiss
  <2>5. QED
    BY <1>8, <2>1, <2>2, <2>3, <2>4 DEF TypeOK, KeyDismiss
<1>9. CASE AuthTime
  BY <1>1, <1>9, CardFrame, DoorFrame, AlarmFrame, UpFrame
     DEF TypeOK, TypeProc, AuthTime, Goto, Labels, procVars
<1>10. CASE AuthCard
  BY <1>1, <1>10, DoorFrame, AlarmFrame, UpFrame
     DEF TypeOK, TypeProc, TypeCard, AuthCard, Goto, Labels, procVars
<1>11. CASE AuthSend
  <2>1. \A c \in ReadCard :
          [card |-> c, code |-> st_auth] \in [card : Tag \cup {TornCard}, code : Password]
    BY DEF TypeOK, TypeCard, ReadCard
  <2>2. auth_sent' \in SUBSET [card : Tag \cup {TornCard}, code : Password]
    BY <1>11, <2>1 DEF TypeOK, TypeCard, AuthSend
  <2>3. NoCard \in Tag
    BY DEF Tag
  <2>4. QED
    BY <1>1, <1>11, <2>2, <2>3, DoorFrame, AlarmFrame, UpFrame
       DEF TypeOK, TypeProc, TypeCard, AuthSend, Goto, Labels, procVars
<1>12. QED
  BY <1>2, <1>3, <1>4, <1>5, <1>6, <1>7, <1>8, <1>9, <1>10, <1>11 DEF KeyPress, KeyRun

(* A swipe and the unlocked reset of auth_len after it preserve the type   *)
(* invariant: the reset may fall between the load and the store of a digit.*)
LEMMA RfidType ==
  ASSUME TypeOK, SwipeReset \/ \E c \in Cards : Swipe(c)
  PROVE  TypeOK'
<1> USE ConstantsAssumption
<1>1. "rfid" \in Threads
  BY DEF Threads
<1>2. CASE SwipeReset
  BY <1>1, <1>2, DoorFrame, AlarmFrame, UpFrame
     DEF TypeOK, TypeProc, TypeCard, SwipeReset, Goto, Labels, procVars
<1>3. ASSUME NEW c \in Cards, Swipe(c) PROVE TypeOK'
  BY <1>1, <1>3, DoorFrame, AlarmFrame, UpFrame
     DEF TypeOK, TypeProc, TypeCard, Tag, Swipe, Goto, Labels, procVars
<1>4. QED
  BY <1>2, <1>3

-----------------------------------------------------------------------------
(* Connecting, losing the connection and every downlink message preserve   *)
(* the type invariant.                                                     *)
LEMMA NetType ==
  ASSUME TypeOK, Connect \/ Disconnect \/ Receive \/ NetRun
  PROVE  TypeOK'
<1> USE ConstantsAssumption
<1>1. "net" \in Threads
  BY DEF Threads
<1>2. CASE Connect
  BY <1>1, <1>2, CardFrame, DoorFrame, AlarmFrame
     DEF TypeOK, TypeProc, TypeUp, Connect, Goto, Labels, procVars
<1>3. CASE Disconnect
  BY <1>1, <1>3, CardFrame, DoorFrame, AlarmFrame
     DEF TypeOK, TypeProc, TypeUp, Disconnect, Goto, Labels, procVars
<1>4. CASE AuthPass
  BY <1>1, <1>4, CardFrame, AlarmFrame, UpFrame, 0 \in 0..DriveLimit
     DEF TypeOK, TypeProc, TypeDoor, AuthPass, Goto, Labels, procVars
<1>5. CASE AuthFail
  BY <1>1, <1>5, CardFrame, DoorFrame, AlarmFrame, UpFrame
     DEF TypeOK, TypeProc, AuthFail, Goto, Labels, procVars
<1>6. ASSUME NEW m \in Downlink, BeepControl(m) PROVE TypeOK'
  BY <1>6, CardFrame, DoorFrame, AlarmFrame, UpFrame
     DEF TypeOK, TypeProc, BeepControl, procVars
<1>7. ASSUME NEW m \in Downlink, FatigueControl(m) PROVE TypeOK'
  BY <1>1, <1>7, CardFrame, DoorFrame, UpFrame
     DEF TypeOK, TypeProc, TypeAlarm, FatigueControl, Goto, Labels, procVars
<1>8. CASE PassServo
  BY <1>1, <1>8, CardFrame, AlarmFrame, UpFrame
     DEF TypeOK, TypeProc, TypeDoor, PassServo, Goto, Labels, procVars
<1>9. CASE ChirpOn
  BY <1>1, <1>9, CardFrame, DoorFrame, AlarmFrame, UpFrame
     DEF TypeOK, TypeProc, ChirpOn, Goto, Labels, procVars
<1>10. CASE ChirpOff
  BY <1>1, <1>10, CardFrame, DoorFrame, AlarmFrame, UpFrame
     DEF TypeOK, TypeProc, ChirpOff, Goto, Labels, procVars
<1>11. QED
  BY <1>2, <1>3, <1>4, <1>5, <1>6, <1>7, <1>8, <1>9, <1>10 DEF Receive, NetRun

(* The rounds of the beep thread preserve the type invariant.              *)
LEMMA BeepType ==
  ASSUME TypeOK, BeepRun
  PROVE  TypeOK'
<1>1. "beep" \in Threads
  BY DEF Threads
<1>2. CASE BeepFlags
  BY <1>1, <1>2, CardFrame, DoorFrame, AlarmFrame, UpFrame
     DEF TypeOK, TypeProc, BeepFlags, Goto, Labels, procVars
<1>3. CASE BeepOn
  BY <1>1, <1>3, CardFrame, DoorFrame, AlarmFrame, UpFrame
     DEF TypeOK, TypeProc, BeepOn, Goto, Labels, procVars
<1>4. CASE BeepOff
  BY <1>1, <1>4, CardFrame, DoorFrame, AlarmFrame, UpFrame
     DEF TypeOK, TypeProc, BeepOff, Goto, Labels, procVars
<1>5. CASE BeepDrive
  <2>1. fatigue' \in BOOLEAN
    BY <1>5 DEF BeepDrive
  <2>2. TypeAlarm'
    BY <1>5, <2>1 DEF TypeOK, TypeAlarm, BeepDrive
  <2>3. TypeProc'
    BY <1>1, <1>5 DEF TypeOK, TypeProc, BeepDrive, Goto, Labels, procVars
  <2>4. QED
    BY <1>5, <2>2, <2>3, CardFrame, DoorFrame, UpFrame DEF TypeOK, BeepDrive
<1>6. QED
  BY <1>2, <1>3, <1>4, <1>5 DEF BeepRun

(* Sampling smoke and writing the alarm flag preserve the type invariant.  *)
LEMMA SmokeType ==
  ASSUME TypeOK, SmokeSample \/ SmokeSet
  PROVE  TypeOK'
<1> USE ConstantsAssumption
<1>1. "smoke" \in Threads
  BY DEF Threads
<1>2. CASE SmokeSample
  <2>1. TypeProc'
    BY <1>1, <1>2 DEF TypeOK, TypeProc, SmokeSample, Goto, Labels, procVars
  <2>2. hi' \in 0..SmokeConsec /\ lo' \in 0..SmokeConsec
    BY <1>2 DEF TypeOK, TypeAlarm, SmokeSample, HighCount, Count
  <2>3. TypeAlarm'
    BY <1>2, <2>2 DEF TypeOK, TypeAlarm, SmokeSample
  <2>4. QED
    BY <1>2, <2>1, <2>3, CardFrame, DoorFrame, UpFrame DEF TypeOK, SmokeSample
<1>3. CASE SmokeSet
  <2>1. TypeProc'
    BY <1>1, <1>3 DEF TypeOK, TypeProc, SmokeSet, Goto, Labels, procVars
  <2>2. TypeAlarm'
    BY <1>3 DEF TypeOK, TypeAlarm, SmokeSet
  <2>3. QED
    BY <1>3, <2>1, <2>2, CardFrame, DoorFrame, UpFrame DEF TypeOK, SmokeSet
<1>4. QED
  BY <1>2, <1>3

-----------------------------------------------------------------------------
(* A signal, the end of the process and its next start preserve the type   *)
(* invariant.                                                              *)
LEMMA ExitType ==
  ASSUME TypeOK, Signal \/ Exit \/ Restart
  PROVE  TypeOK'
<1> USE ConstantsAssumption
<1>1. CASE Signal
  BY <1>1, CardFrame, DoorFrame, AlarmFrame, UpFrame DEF TypeOK, TypeProc, Signal
<1>2. CASE Exit
  BY <1>2, CardFrame, DoorFrame, AlarmFrame
     DEF TypeOK, TypeProc, TypeUp, Exit, ToneAfterExit, Labels
<1>3. CASE Restart
  <2>1. TypeProc'
    BY <1>3 DEF TypeOK, TypeProc, Restart, FirstPc, Labels, procVars
  <2>2. TypeCard'
    <3>1. <<>> \in Password
      BY DEF Password
    <3>2. QED
      BY <1>3, <3>1 DEF TypeOK, TypeCard, Restart, NoDigits, Tag
  <2>3. TypeDoor'
    BY <1>3 DEF TypeDoor, Restart
  <2>6. TypeAlarm'
    BY <1>3, 0 \in 0..SmokeConsec DEF TypeOK, TypeAlarm, Restart
  <2>4. TypeUp'
    BY <1>3 DEF TypeOK, TypeUp, Restart, NoBodies, EmptyBody, Body
  <2>5. QED
    BY <1>3, <2>1, <2>2, <2>3, <2>6, <2>4 DEF TypeOK, Restart
<1>4. QED
  BY <1>1, <1>2, <1>3

(* The passing of time and a change of the air preserve the type           *)
(* invariant: both ages stop at the bound they are compared with.          *)
LEMMA WorldType ==
  ASSUME TypeOK, Tick \/ AirChanges
  PROVE  TypeOK'
<1> USE ConstantsAssumption
<1>1. CASE Tick
  <2>1. TypeCard'
    BY <1>1 DEF TypeOK, TypeCard, Tick
  <2>2. TypeDoor'
    BY <1>1 DEF TypeOK, TypeDoor, Tick, NotDriving
  <2>3. QED
    BY <1>1, <2>1, <2>2, AlarmFrame, UpFrame DEF TypeOK, TypeProc, Tick, procVars
<1>2. CASE AirChanges
  BY <1>2, CardFrame, DoorFrame, UpFrame DEF TypeOK, TypeProc, TypeAlarm, AirChanges, procVars
<1>3. QED
  BY <1>1, <1>2

(* The heartbeat thread's step preserves the type invariant.               *)
LEMMA HeartbeatType ==
  ASSUME TypeOK, Heartbeat
  PROVE  TypeOK'
BY CardFrame, DoorFrame, AlarmFrame, UpFrame
   DEF TypeOK, TypeProc, Heartbeat, Threads, Goto, Labels, procVars

(* A state in which nothing changes keeps its type.                        *)
LEMMA StutterType ==
  ASSUME TypeOK, UNCHANGED vars
  PROVE  TypeOK'
BY CardFrame, DoorFrame, AlarmFrame, UpFrame DEF TypeOK, TypeProc, vars, procVars

(* The state after main and taxi_init is well typed.                       *)
LEMMA InitType == Init => TypeOK
<1> SUFFICES ASSUME Init PROVE TypeOK
  OBVIOUS
<1> USE ConstantsAssumption
<1>1. TypeProc
  BY DEF Init, TypeProc, FirstPc, Labels
<1>2. TypeCard
  <2>1. <<>> \in Password
    BY DEF Password
  <2>2. QED
    BY <2>1 DEF Init, TypeCard, NoDigits, Tag
<1>3. TypeDoor
  BY DEF Init, TypeDoor
<1>4. TypeAlarm
  BY 0 \in 0..SmokeConsec DEF Init, TypeAlarm
<1>5. TypeUp
  BY DEF Init, TypeUp, NoBodies, EmptyBody, Body
<1>6. QED
  BY <1>1, <1>2, <1>3, <1>4, <1>5 DEF Init, TypeOK

(* Every step preserves the type invariant.                                *)
LEMMA StepType ==
  ASSUME TypeOK, [Next]_vars
  PROVE  TypeOK'
<1>1. ASSUME NEW t \in Active, Run(t) PROVE TypeOK'
  BY <1>1, ReportType, KeyType, RfidType, NetType, BeepType, SmokeType, HeartbeatType DEF Run
<1>2. CASE Input
  BY <1>2, KeyType, RfidType, NetType, ExitType, WorldType DEF Input
<1>3. CASE Tick
  BY <1>3, WorldType
<1>4. CASE UNCHANGED vars
  BY <1>4, StutterType
<1>5. QED
  BY <1>1, <1>2, <1>3, <1>4 DEF Next

(* The type invariant, and with it the bound on auth_len and on every      *)
(* index into auth_buf, holds in every reachable state although the key    *)
(* thread and the RFID thread write auth_len under no common lock.         *)
THEOREM TypeCorrect == Spec => []TypeOK
<1>1. TypeOK /\ [Next]_vars => TypeOK'
  BY StepType
<1>2. QED
  BY <1>1, InitType, PTL DEF Spec

-----------------------------------------------------------------------------
(* The safety invariants. A process lives or is dead as a whole: _exit     *)
(* takes every thread at once, which is what makes a dead state stay put.  *)
LivesAsOne == Running \/ \A t \in Threads : pc[t] = "dead"

(* A step at which the driver, the platform or a thread does something     *)
(* other than end or start the process leaves a running process running.   *)
LEMMA StaysRunning ==
  ASSUME TypeOK, Running, [Next]_vars, ~Exit, ~Restart
  PROVE  Running'
<1> USE ConstantsAssumption DEF Running, TypeOK, TypeProc, Goto
<1>1. ASSUME NEW t \in Active, Run(t) PROVE Running'
  <2>1. CASE ReportLocation(t)
    BY <2>1 DEF ReportLocation, LocAlarms, LocDoor, LocSend
  <2>2. CASE t = "key" /\ KeyRun
    BY <2>2 DEF KeyRun, KeyDigitStore, KeyConfirmCopy, AuthTime, AuthCard, AuthSend
  <2>3. CASE t = "rfid" /\ SwipeReset
    BY <2>3 DEF SwipeReset
  <2>4. CASE t = "net" /\ NetRun
    BY <2>4 DEF NetRun, PassServo, ChirpOn, ChirpOff
  <2>5. CASE t = "beep" /\ BeepRun
    BY <2>5 DEF BeepRun, BeepFlags, BeepOn, BeepOff, BeepDrive
  <2>6. CASE t = "smoke" /\ (SmokeSample \/ SmokeSet)
    BY <2>6 DEF SmokeSample, SmokeSet
  <2>7. CASE t = "hb" /\ Heartbeat
    BY <2>7 DEF Heartbeat
  <2>8. QED
    BY <1>1, <2>1, <2>2, <2>3, <2>4, <2>5, <2>6, <2>7 DEF Run
<1>2. CASE Input
  <2>1. CASE KeyPress
    BY <2>1 DEF KeyPress, KeyDigit, KeyConfirmNoCard, KeyConfirm, KeyClose, KeyDismiss
  <2>2. ASSUME NEW c \in Cards, Swipe(c) PROVE Running'
    BY <2>2 DEF Swipe
  <2>3. CASE Connect \/ Disconnect
    BY <2>3 DEF Connect, Disconnect
  <2>4. CASE Receive
    BY <2>4 DEF Receive, AuthPass, AuthFail, BeepControl, FatigueControl
  <2>5. CASE Signal \/ AirChanges
    BY <2>5 DEF Signal, AirChanges
  <2>6. QED
    BY <1>2, <2>1, <2>2, <2>3, <2>4, <2>5 DEF Input
<1>3. CASE Tick \/ UNCHANGED vars
  BY <1>3 DEF Tick, vars
<1>4. QED
  BY <1>1, <1>2, <1>3 DEF Next

(* In a dead process nothing happens but its next start: no thread is at a *)
(* label at which it could act, so the buzzer stays as it was left.        *)
LEMMA StaysDead ==
  ASSUME TypeOK, \A t \in Threads : pc[t] = "dead", [Next]_vars, ~Exit, ~Restart
  PROVE  UNCHANGED <<pc, beep, late_tone>>
<1> USE ConstantsAssumption DEF At
<1>1. ASSUME NEW t \in Active, Run(t) PROVE FALSE
  BY <1>1 DEF Run, ReportLocation, LocAlarms, LocDoor, LocSend,
     KeyRun, KeyDigitStore, KeyConfirmCopy, AuthTime, AuthCard, AuthSend, SwipeReset,
     NetRun, PassServo, ChirpOn, ChirpOff, BeepRun, BeepFlags, BeepOn, BeepOff, BeepDrive,
     SmokeSample, SmokeSet, Heartbeat
<1>2. CASE Input
  <2>1. ~KeyPress
    BY DEF KeyPress, KeyDigit, KeyConfirmNoCard, KeyConfirm, KeyClose, KeyDismiss, KeyPressed
  <2>2. ~\E c \in Cards : Swipe(c)
    BY DEF Swipe
  <2>3. ~Connect /\ ~Disconnect /\ ~Receive
    BY DEF Connect, Disconnect, Receive, Received, AuthPass, AuthFail, BeepControl, FatigueControl
  <2>4. ~Signal
    BY DEF Signal, Threads
  <2>5. QED
    BY <1>2, <2>1, <2>2, <2>3, <2>4 DEF Input, AirChanges
<1>3. CASE Tick \/ UNCHANGED vars
  BY <1>3 DEF Tick, vars
<1>4. QED
  BY <1>1, <1>2, <1>3 DEF Next

(* Hence a process lives or is dead as a whole after every step.           *)
LEMMA LivesAsOneKept ==
  ASSUME TypeOK, LivesAsOne, [Next]_vars
  PROVE  LivesAsOne'
<1>1. CASE Exit
  BY <1>1 DEF Exit, LivesAsOne
<1>2. CASE Restart
  BY <1>2 DEF Restart, FirstPc, LivesAsOne, Running
<1>3. CASE ~Exit /\ ~Restart
  BY <1>3, StaysRunning, StaysDead DEF LivesAsOne
<1>4. QED
  BY <1>1, <1>2, <1>3

(* The steps that touch the door, its clock or its servo, or move the net  *)
(* thread out of the PASS handler, are seven; every other step is a frame. *)
DoorFixed == UNCHANGED doorVars /\ (pc["net"] = "pass_servo" <=> pc'["net"] = "pass_servo")

LEMMA DoorSteps ==
  ASSUME TypeOK, [Next]_vars,
         ~AuthPass, ~PassServo, ~KeyClose, ~KeyDismiss, ~Tick, ~Exit, ~Restart
  PROVE  DoorFixed
<1> USE ConstantsAssumption DEF TypeOK, TypeProc, Goto, At, DoorFixed, Threads
<1>1. ASSUME NEW t \in Active, Run(t) PROVE DoorFixed
  <2>1. CASE ReportLocation(t)
    BY <2>1 DEF ReportLocation, LocAlarms, LocDoor, LocSend
  <2>2. CASE t = "key" /\ KeyRun
    BY <2>2 DEF KeyRun, KeyDigitStore, KeyConfirmCopy, AuthTime, AuthCard, AuthSend
  <2>3. CASE t = "rfid" /\ SwipeReset
    BY <2>3 DEF SwipeReset
  <2>4. CASE t = "net" /\ NetRun
    BY <2>4 DEF NetRun, ChirpOn, ChirpOff
  <2>5. CASE t = "beep" /\ BeepRun
    BY <2>5 DEF BeepRun, BeepFlags, BeepOn, BeepOff, BeepDrive
  <2>6. CASE t = "smoke" /\ (SmokeSample \/ SmokeSet)
    BY <2>6 DEF SmokeSample, SmokeSet
  <2>7. CASE t = "hb" /\ Heartbeat
    BY <2>7 DEF Heartbeat
  <2>8. QED
    BY <1>1, <2>1, <2>2, <2>3, <2>4, <2>5, <2>6, <2>7 DEF Run
<1>2. CASE Input
  <2>1. CASE KeyPress
    BY <2>1 DEF KeyPress, KeyDigit, KeyConfirmNoCard, KeyConfirm
  <2>2. ASSUME NEW c \in Cards, Swipe(c) PROVE DoorFixed
    BY <2>2 DEF Swipe
  <2>3. CASE Connect \/ Disconnect
    BY <2>3 DEF Connect, Disconnect
  <2>4. CASE Receive
    BY <2>4 DEF Receive, Received, AuthFail, BeepControl, FatigueControl
  <2>5. CASE Signal \/ AirChanges
    BY <2>5 DEF Signal, AirChanges
  <2>6. QED
    BY <1>2, <2>1, <2>2, <2>3, <2>4, <2>5 DEF Input
<1>3. CASE UNCHANGED vars
  BY <1>3 DEF vars
<1>4. QED
  BY <1>1, <1>2, <1>3 DEF Next

(* The fatigue clock and the door flag change together.                    *)
LEMMA DriveTimerKept ==
  ASSUME TypeOK, DriveTimerIffDoorOpen, [Next]_vars
  PROVE  DriveTimerIffDoorOpen'
<1> USE DEF DriveTimerIffDoorOpen, NotDriving
<1>1. CASE AuthPass
  BY <1>1 DEF AuthPass
<1>2. CASE PassServo
  BY <1>2 DEF PassServo
<1>3. CASE KeyClose
  BY <1>3 DEF KeyClose
<1>4. CASE KeyDismiss
  BY <1>4 DEF KeyDismiss, ClockAfterDismiss
<1>5. CASE Tick
  BY <1>5, ConstantsAssumption DEF Tick
<1>6. CASE Exit
  BY <1>6 DEF Exit, doorVars
<1>7. CASE Restart
  BY <1>7 DEF Restart
<1>8. QED
  BY <1>1, <1>2, <1>3, <1>4, <1>5, <1>6, <1>7, DoorSteps DEF DoorFixed, doorVars

(* The servo follows a door flag that was set, through every interleaving  *)
(* of CLOSE keys and verdicts.                                             *)
LEMMA OpenDoorKept ==
  ASSUME TypeOK, LivesAsOne, OpenDoorReachesServo, [Next]_vars
  PROVE  OpenDoorReachesServo'
<1> USE DEF OpenDoorReachesServo
<1>1. CASE AuthPass
  BY <1>1 DEF AuthPass, TypeOK, TypeProc, Goto, Threads
<1>2. CASE PassServo
  BY <1>2 DEF PassServo
<1>3. CASE KeyClose
  BY <1>3 DEF KeyClose
<1>4. CASE Exit
  BY <1>4 DEF Exit, Running, Threads
<1>5. CASE Restart
  BY <1>5 DEF Restart
<1>6. ASSUME ~AuthPass, ~PassServo, ~KeyClose, ~Exit, ~Restart
      PROVE  OpenDoorReachesServo'
  <2>1. Running' => Running
    <3>1. ~Running => ~Running'
      BY <1>6, StaysDead DEF LivesAsOne, Running, Threads
    <3>2. QED
      BY <3>1
  <2>2. UNCHANGED <<door_open, servo>> /\ (pc["net"] = "pass_servo" => pc'["net"] = "pass_servo")
    <3>1. CASE KeyDismiss
      BY <3>1 DEF KeyDismiss, TypeOK, TypeProc, Goto, Threads
    <3>2. CASE Tick
      BY <3>2 DEF Tick
    <3>3. CASE ~KeyDismiss /\ ~Tick
      BY <1>6, <3>3, DoorSteps DEF DoorFixed, doorVars
    <3>4. QED
      BY <3>1, <3>2, <3>3
  <2>3. QED
    BY <2>1, <2>2
<1>7. QED
  BY <1>1, <1>2, <1>3, <1>4, <1>5, <1>6

(* While the PASS handler is about to move the servo, the flag it set      *)
(* stands or a CLOSE has overtaken it.                                     *)
PassPending == pc["net"] = "pass_servo" => door_open \/ overtaken

(* Hence a servo that opens against a closed flag was overtaken.           *)
LEMMA ClosedDoorKept ==
  ASSUME TypeOK, LivesAsOne, PassPending, ClosedDoorIsShut, [Next]_vars
  PROVE  PassPending' /\ ClosedDoorIsShut'
<1> USE DEF PassPending, ClosedDoorIsShut, TypeOK, TypeProc, Goto, Threads
<1>1. CASE AuthPass
  BY <1>1 DEF AuthPass
<1>2. CASE PassServo
  BY <1>2, ConstantsAssumption DEF PassServo, At
<1>3. CASE KeyClose
  BY <1>3 DEF KeyClose
<1>4. CASE Exit
  BY <1>4 DEF Exit, Running
<1>5. CASE Restart
  BY <1>5 DEF Restart, FirstPc
<1>6. CASE KeyDismiss
  BY <1>6, StaysDead DEF KeyDismiss, LivesAsOne, Running, KeyPressed, At
<1>7. CASE Tick
  BY <1>7 DEF Tick, Running
<1>8. ASSUME ~AuthPass, ~PassServo, ~KeyClose, ~KeyDismiss, ~Tick, ~Exit, ~Restart
      PROVE  PassPending' /\ ClosedDoorIsShut'
  <2>1. ~Running => ~Running'
    BY <1>8, StaysDead DEF LivesAsOne, Running
  <2>2. UNCHANGED doorVars /\ (pc'["net"] = "pass_servo" => pc["net"] = "pass_servo")
    BY <1>8, DoorSteps DEF DoorFixed
  <2>3. QED
    BY <2>1, <2>2 DEF doorVars
<1>9. QED
  BY <1>1, <1>2, <1>3, <1>4, <1>5, <1>6, <1>7, <1>8

-----------------------------------------------------------------------------
(* The steps that switch the buzzer, or move its owners on, are eight;     *)
(* every other step is a frame.                                            *)
BuzzerFixed ==
  /\ UNCHANGED <<beep, late_tone, signalled>>
  /\ pc["beep"] = "silence" => pc'["beep"] = "silence"
  /\ pc["net"] \in {"pass_quiet", "fail_quiet"} => pc'["net"] = pc["net"]

LEMMA BuzzerSteps ==
  ASSUME TypeOK, [Next]_vars,
         ~KeyDismiss, ~ChirpOn, ~ChirpOff, ~BeepOn, ~BeepOff, ~Signal, ~Exit, ~Restart,
         \A m \in Downlink : ~BeepControl(m)
  PROVE  BuzzerFixed
<1> USE ConstantsAssumption DEF TypeOK, TypeProc, Goto, At, BuzzerFixed, Threads, procVars
<1>1. ASSUME NEW t \in Active, Run(t) PROVE BuzzerFixed
  <2>1. CASE ReportLocation(t)
    BY <2>1 DEF ReportLocation, LocAlarms, LocDoor, LocSend
  <2>2. CASE t = "key" /\ KeyRun
    BY <2>2 DEF KeyRun, KeyDigitStore, KeyConfirmCopy, AuthTime, AuthCard, AuthSend
  <2>3. CASE t = "rfid" /\ SwipeReset
    BY <2>3 DEF SwipeReset
  <2>4. CASE t = "net" /\ NetRun
    BY <2>4 DEF NetRun, PassServo
  <2>5. CASE t = "beep" /\ BeepRun
    BY <2>5 DEF BeepRun, BeepFlags, BeepDrive
  <2>6. CASE t = "smoke" /\ (SmokeSample \/ SmokeSet)
    BY <2>6 DEF SmokeSample, SmokeSet
  <2>7. CASE t = "hb" /\ Heartbeat
    BY <2>7 DEF Heartbeat
  <2>8. QED
    BY <1>1, <2>1, <2>2, <2>3, <2>4, <2>5, <2>6, <2>7 DEF Run
<1>2. CASE Input
  <2>1. CASE KeyPress
    BY <2>1 DEF KeyPress, KeyDigit, KeyConfirmNoCard, KeyConfirm, KeyClose
  <2>2. ASSUME NEW c \in Cards, Swipe(c) PROVE BuzzerFixed
    BY <2>2 DEF Swipe
  <2>3. CASE Connect \/ Disconnect
    BY <2>3 DEF Connect, Disconnect
  <2>4. CASE Receive
    BY <2>4 DEF Receive, Received, AuthPass, AuthFail, FatigueControl
  <2>5. CASE AirChanges
    BY <2>5 DEF AirChanges
  <2>6. QED
    BY <1>2, <2>1, <2>2, <2>3, <2>4, <2>5 DEF Input
<1>3. CASE Tick \/ UNCHANGED vars
  BY <1>3 DEF Tick, vars
<1>4. QED
  BY <1>1, <1>2, <1>3 DEF Next

(* Every step keeps each tone with the thread that will end it.            *)
LEMMA BuzzerOwnedKept ==
  ASSUME TypeOK, LivesAsOne, BuzzerOwned, [Next]_vars
  PROVE  BuzzerOwned'
<1> USE DEF BuzzerOwned, TypeOK, TypeProc, Threads, Goto, At
<1>1. CASE KeyDismiss
  BY <1>1 DEF KeyDismiss
<1>2. CASE ChirpOn
  BY <1>2 DEF ChirpOn
<1>3. CASE ChirpOff
  BY <1>3 DEF ChirpOff
<1>4. CASE BeepOn
  BY <1>4 DEF BeepOn
<1>5. CASE BeepOff
  BY <1>5 DEF BeepOff
<1>6. ASSUME NEW m \in Downlink, BeepControl(m) PROVE BuzzerOwned'
  BY <1>6 DEF BeepControl
<1>7. CASE Signal
  BY <1>7 DEF Signal
<1>8. CASE Exit
  BY <1>8 DEF Exit, Running
<1>9. CASE Restart
  BY <1>9 DEF Restart
<1>10. ASSUME ~KeyDismiss, ~ChirpOn, ~ChirpOff, ~BeepOn, ~BeepOff, ~Signal, ~Exit, ~Restart,
              \A m \in Downlink : ~BeepControl(m)
       PROVE  BuzzerOwned'
  <2>1. ~Running => ~Running'
    BY <1>10, StaysDead DEF LivesAsOne, Running
  <2>2. QED
    BY <1>10, <2>1, BuzzerSteps DEF BuzzerFixed
<1>11. QED
  BY <1>1, <1>2, <1>3, <1>4, <1>5, <1>6, <1>7, <1>8, <1>9, <1>10

(* Between on_signal's off and _exit the buzzer stays silent unless a      *)
(* thread switches a tone on, and nothing sounds it once all are dead.     *)
MutedBySignal == signalled => beep = "silent" \/ late_tone

LEMMA MutedKept ==
  ASSUME TypeOK, MutedBySignal, [Next]_vars
  PROVE  MutedBySignal'
<1> USE DEF MutedBySignal
<1>1. CASE Signal \/ Exit \/ Restart
  BY <1>1 DEF Signal, Exit, Restart
<1>2. CASE KeyDismiss \/ ChirpOff \/ BeepOff
  BY <1>2 DEF KeyDismiss, ChirpOff, BeepOff, procVars
<1>3. CASE ChirpOn \/ BeepOn
  BY <1>3 DEF ChirpOn, BeepOn, procVars
<1>4. ASSUME NEW m \in Downlink, BeepControl(m) PROVE MutedBySignal'
  BY <1>4 DEF BeepControl, procVars
<1>5. ASSUME ~KeyDismiss, ~ChirpOn, ~ChirpOff, ~BeepOn, ~BeepOff, ~Signal, ~Exit, ~Restart,
              \A m \in Downlink : ~BeepControl(m)
      PROVE  MutedBySignal'
  BY <1>5, BuzzerSteps DEF BuzzerFixed
<1>6. QED
  BY <1>1, <1>2, <1>3, <1>4, <1>5

LEMMA SilentKept ==
  ASSUME TypeOK, LivesAsOne, MutedBySignal, SilentAfterExit, [Next]_vars
  PROVE  SilentAfterExit'
<1> USE DEF SilentAfterExit, LeftOn
<1>1. CASE Exit
  BY <1>1, ConstantsAssumption DEF Exit, ToneAfterExit, MutedBySignal
<1>2. CASE Restart
  BY <1>2 DEF Restart
<1>3. CASE ~Exit /\ ~Restart /\ Running
  BY <1>3, StaysRunning
<1>4. CASE ~Exit /\ ~Restart /\ ~Running
  BY <1>4, StaysDead DEF LivesAsOne, Running
<1>5. QED
  BY <1>1, <1>2, <1>3, <1>4

-----------------------------------------------------------------------------
(* The inductive invariant: each property needs the type invariant, and    *)
(* the three about a running process need that it dies as a whole.         *)
Inv ==
  /\ TypeOK /\ LivesAsOne
  /\ DriveTimerIffDoorOpen /\ OpenDoorReachesServo /\ BuzzerOwned
  /\ PassPending /\ ClosedDoorIsShut
  /\ MutedBySignal /\ SilentAfterExit

(* Inv holds in every reachable state.                                     *)
THEOREM Invariant == Spec => []Inv
<1>1. Init => Inv
  <2> SUFFICES ASSUME Init PROVE Inv
    OBVIOUS
  <2>1. Running
    BY DEF Init, FirstPc, Running
  <2>2. QED
    BY <2>1, InitType DEF Init, Inv, LivesAsOne, DriveTimerIffDoorOpen, OpenDoorReachesServo,
       PassPending, ClosedDoorIsShut, BuzzerOwned, MutedBySignal, SilentAfterExit,
       FirstPc, Threads
<1>2. Inv /\ [Next]_vars => Inv'
  BY StepType, LivesAsOneKept, DriveTimerKept, OpenDoorKept, ClosedDoorKept, BuzzerOwnedKept,
     MutedKept, SilentKept DEF Inv
<1>3. QED
  BY <1>1, <1>2, PTL DEF Spec

(* The fatigue clock runs exactly while the door is open.                  *)
THEOREM DriveTimerFollowsDoor == Spec => []DriveTimerIffDoorOpen
  BY Invariant, PTL DEF Inv

(* An opened door has been given to the servo, or is just about to be.     *)
THEOREM DoorIsServed == Spec => []OpenDoorReachesServo
  BY Invariant, PTL DEF Inv

(* A door reported closed is shut unless a CLOSE overtook the PASS handler.*)
THEOREM ClosedIsShut == Spec => []ClosedDoorIsShut
  BY Invariant, PTL DEF Inv

(* No alarm tone and no chirp is without the thread that ends it.          *)
THEOREM TonesAreOwned == Spec => []BuzzerOwned
  BY Invariant, PTL DEF Inv

(* With either device the buzzer is silent once the process is gone,       *)
(* whatever thread was between on and off when the signal came; only a     *)
(* tone switched on behind on_signal's back, on /dev/pwm, survives.        *)
THEOREM ExitSilences == Spec => []SilentAfterExit
  BY Invariant, PTL DEF Inv

-----------------------------------------------------------------------------
(* The lock is held across steps only between the load and the store of    *)
(* auth_len, by the key thread, whose next step gives it back: no path of  *)
(* any thread leaves with st->lock taken, and an exit in between does not  *)
(* leave the next process without it.                                      *)
Holding == {"digit_store", "confirm_copy"}
LockReturned == lock = "key" <=> pc["key"] \in Holding

LockFixed == lock' = lock /\ (pc["key"] \in Holding <=> pc'["key"] \in Holding)

LEMMA LockSteps ==
  ASSUME TypeOK, [Next]_vars,
         ~KeyDigit, ~KeyDigitStore, ~KeyConfirm, ~KeyConfirmCopy, ~Exit, ~Restart
  PROVE  LockFixed
<1> USE ConstantsAssumption
    DEF TypeOK, TypeProc, Goto, At, LockFixed, Holding, Threads, procVars
<1>1. ASSUME NEW t \in Active, Run(t) PROVE LockFixed
  <2>1. CASE ReportLocation(t)
    BY <2>1 DEF ReportLocation, LocAlarms, LocDoor, LocSend
  <2>2. CASE t = "key" /\ KeyRun
    BY <2>2 DEF KeyRun, AuthTime, AuthCard, AuthSend
  <2>3. CASE t = "rfid" /\ SwipeReset
    BY <2>3 DEF SwipeReset
  <2>4. CASE t = "net" /\ NetRun
    BY <2>4 DEF NetRun, PassServo, ChirpOn, ChirpOff
  <2>5. CASE t = "beep" /\ BeepRun
    BY <2>5 DEF BeepRun, BeepFlags, BeepOn, BeepOff, BeepDrive
  <2>6. CASE t = "smoke" /\ (SmokeSample \/ SmokeSet)
    BY <2>6 DEF SmokeSample, SmokeSet
  <2>7. CASE t = "hb" /\ Heartbeat
    BY <2>7 DEF Heartbeat
  <2>8. QED
    BY <1>1, <2>1, <2>2, <2>3, <2>4, <2>5, <2>6, <2>7 DEF Run
<1>2. CASE Input
  <2>1. CASE KeyPress
    BY <2>1 DEF KeyPress, KeyPressed, KeyConfirmNoCard, KeyClose, KeyDismiss
  <2>2. ASSUME NEW c \in Cards, Swipe(c) PROVE LockFixed
    BY <2>2 DEF Swipe
  <2>3. CASE Connect \/ Disconnect
    BY <2>3 DEF Connect, Disconnect
  <2>4. CASE Receive
    BY <2>4 DEF Receive, Received, AuthPass, AuthFail, BeepControl, FatigueControl
  <2>5. CASE Signal \/ AirChanges
    BY <2>5 DEF Signal, AirChanges
  <2>6. QED
    BY <1>2, <2>1, <2>2, <2>3, <2>4, <2>5 DEF Input
<1>3. CASE Tick \/ UNCHANGED vars
  BY <1>3 DEF Tick, vars
<1>4. QED
  BY <1>1, <1>2, <1>3 DEF Next

LEMMA LockReturnedKept ==
  ASSUME TypeOK, LockReturned, [Next]_vars
  PROVE  LockReturned'
<1> USE DEF LockReturned, Holding, TypeOK, TypeProc, Threads
<1>1. CASE KeyDigit
  BY <1>1 DEF KeyDigit, Goto
<1>2. CASE KeyDigitStore
  BY <1>2 DEF KeyDigitStore, Goto
<1>3. CASE KeyConfirm
  BY <1>3 DEF KeyConfirm, Goto
<1>4. CASE KeyConfirmCopy
  BY <1>4 DEF KeyConfirmCopy, Goto
<1>5. CASE Exit
  BY <1>5 DEF Exit
<1>6. CASE Restart
  BY <1>6 DEF Restart, FirstPc, procVars
<1>7. CASE ~(KeyDigit \/ KeyDigitStore \/ KeyConfirm \/ KeyConfirmCopy \/ Exit \/ Restart)
  BY <1>7, LockSteps DEF LockFixed
<1>8. QED
  BY <1>1, <1>2, <1>3, <1>4, <1>5, <1>6, <1>7

(* Whoever waits for st->lock waits for a thread that is about to give it  *)
(* back: no thread keeps it over a call, a loop or its end.                *)
THEOREM LockComesBack == Spec => []LockReturned
<1>1. Init => LockReturned
  BY DEF Init, LockReturned, Holding, FirstPc, Threads
<1>2. TypeOK /\ LockReturned /\ [Next]_vars => LockReturned'
  BY LockReturnedKept
<1>3. QED
  BY <1>1, <1>2, TypeCorrect, PTL DEF Spec

-----------------------------------------------------------------------------
(* The smoke thread decides on what it saw in one critical section         *)
(* (taxi.c:446-449) and acts on it in another (taxi.c:453-461); the count  *)
(* it decided on still stands then.                                        *)
Decided ==
  /\ pc["smoke"] = "raise" => hi >= SmokeConsec
  /\ pc["smoke"] = "clear" => lo >= SmokeConsec

SmokeFixed ==
  UNCHANGED <<smoke_alarm, hi, lo>> /\ (pc'["smoke"] \in {"raise", "clear"} => pc'["smoke"] = pc["smoke"])

LEMMA SmokeSteps ==
  ASSUME TypeOK, [Next]_vars, ~SmokeSample, ~SmokeSet, ~KeyDismiss, ~Restart
  PROVE  SmokeFixed
<1> USE ConstantsAssumption
    DEF TypeOK, TypeProc, Goto, At, SmokeFixed, Threads, alarmVars
<1>1. ASSUME NEW t \in Active, Run(t) PROVE SmokeFixed
  <2>1. CASE ReportLocation(t)
    BY <2>1 DEF ReportLocation, LocAlarms, LocDoor, LocSend
  <2>2. CASE t = "key" /\ KeyRun
    BY <2>2 DEF KeyRun, KeyDigitStore, KeyConfirmCopy, AuthTime, AuthCard, AuthSend
  <2>3. CASE t = "rfid" /\ SwipeReset
    BY <2>3 DEF SwipeReset
  <2>4. CASE t = "net" /\ NetRun
    BY <2>4 DEF NetRun, PassServo, ChirpOn, ChirpOff
  <2>5. CASE t = "beep" /\ BeepRun
    BY <2>5 DEF BeepRun, BeepFlags, BeepOn, BeepOff, BeepDrive
  <2>6. CASE t = "hb" /\ Heartbeat
    BY <2>6 DEF Heartbeat
  <2>7. QED
    BY <1>1, <2>1, <2>2, <2>3, <2>4, <2>5, <2>6 DEF Run
<1>2. CASE Input
  <2>1. CASE KeyPress
    BY <2>1 DEF KeyPress, KeyDigit, KeyConfirmNoCard, KeyConfirm, KeyClose
  <2>2. ASSUME NEW c \in Cards, Swipe(c) PROVE SmokeFixed
    BY <2>2 DEF Swipe
  <2>3. CASE Connect \/ Disconnect
    BY <2>3 DEF Connect, Disconnect
  <2>4. CASE Receive
    BY <2>4 DEF Receive, Received, AuthPass, AuthFail, BeepControl, FatigueControl
  <2>5. CASE Signal \/ Exit \/ AirChanges
    BY <2>5 DEF Signal, Exit, AirChanges
  <2>6. QED
    BY <1>2, <2>1, <2>2, <2>3, <2>4, <2>5 DEF Input
<1>3. CASE Tick \/ UNCHANGED vars
  BY <1>3 DEF Tick, vars
<1>4. QED
  BY <1>1, <1>2, <1>3 DEF Next

(* The smoke alarm is raised only on SMOKE_CONSEC readings in a row above  *)
(* the upper threshold. It ends only on as many below the lower one, by    *)
(* the driver's key or with the process.                                   *)
AlarmIsEarned ==
  [][/\ ~smoke_alarm /\ smoke_alarm' => hi >= SmokeConsec
     /\ smoke_alarm /\ ~smoke_alarm' => lo >= SmokeConsec \/ KeyDismiss \/ Restart]_vars

LEMMA SmokeKept ==
  ASSUME TypeOK, Decided, [Next]_vars
  PROVE  /\ Decided'
         /\ ~smoke_alarm /\ smoke_alarm' => hi >= SmokeConsec
         /\ smoke_alarm /\ ~smoke_alarm' => lo >= SmokeConsec \/ KeyDismiss \/ Restart
<1> USE DEF TypeOK, TypeProc, TypeAlarm, Threads, Decided
<1>1. CASE SmokeSample
  <2>1. smoke_alarm' = smoke_alarm
    BY <1>1 DEF SmokeSample
  <2>2. pc'["smoke"] = IF Raise(hi') THEN "raise"
                       ELSE IF smoke_alarm /\ lo' >= SmokeConsec THEN "clear" ELSE "idle"
    BY <1>1 DEF SmokeSample, Goto
  <2>3. QED
    BY <2>1, <2>2 DEF Raise
<1>2. CASE SmokeSet
  <2>1. pc["smoke"] \in {"raise", "clear"} /\ smoke_alarm' = (pc["smoke"] = "raise")
    BY <1>2 DEF SmokeSet, At
  <2>2. pc'["smoke"] = "loc_alarms"
    BY <1>2 DEF SmokeSet, Goto
  <2>3. QED
    BY <2>1, <2>2
<1>3. CASE KeyDismiss
  BY <1>3 DEF KeyDismiss, Goto
<1>4. CASE Restart
  BY <1>4 DEF Restart, FirstPc
<1>5. CASE ~(SmokeSample \/ SmokeSet \/ KeyDismiss \/ Restart)
  BY <1>5, SmokeSteps DEF SmokeFixed
<1>6. QED
  BY <1>1, <1>2, <1>3, <1>4, <1>5

(* Whatever the other threads do between the decision and the write.       *)
THEOREM SmokeAlarmIsEarned == Spec => AlarmIsEarned
<1> DEFINE Earned == /\ ~smoke_alarm /\ smoke_alarm' => hi >= SmokeConsec
                     /\ smoke_alarm /\ ~smoke_alarm' => lo >= SmokeConsec \/ KeyDismiss \/ Restart
<1>1. Init => Decided
  BY DEF Init, Decided, FirstPc, Threads
<1>2. TypeOK /\ Decided /\ [Next]_vars => Decided' /\ [Earned]_vars
  BY SmokeKept
<1>3. QED
  BY <1>1, <1>2, TypeCorrect, PTL DEF Spec, AlarmIsEarned
=============================================================================
