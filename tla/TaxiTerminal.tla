---------------------------- MODULE TaxiTerminal ----------------------------
(***************************************************************************)
(* The terminal process: the threads of terminal/src/biz/taxi.c that share *)
(* app_state under st->lock, with the two actuators they drive (buzzer,    *)
(* door servo) and the two things the platform sees (the last 0x0210       *)
(* request and the last 0x0200 report).                                    *)
(*                                                                         *)
(* A critical section is one action that needs the lock free, except where *)
(* it touches auth_len, which the RFID thread resets without the lock:     *)
(* those are split at the load and the store and hold the lock in between. *)
(* Times are ages: an age counts Ticks since the instant the code stored   *)
(* and stops at the threshold the code compares it with.                   *)
(***************************************************************************)
EXTENDS Integers, FiniteSets

CONSTANTS
  Cards,        \* card numbers that can be swiped
  NoCard,       \* "0000000000" in a request; no card in st->card
  TornCard,     \* a number mixed from the bytes of two cards
  MaxDigits,    \* capacity of auth_buf (6)
  CardValid,    \* CARD_VALID_SEC
  DriveLimit,   \* DRIVE_FATIGUE_MIN
  SmokeConsec,  \* SMOKE_CONSEC
  Keys,         \* keys the driver may press
  Downlink,     \* messages the platform may send
  Air,          \* what the smoke ADC can read: low, mid, high or fail
  Active,       \* threads that run in this instance
  MayExit,      \* whether SIGINT or SIGTERM may arrive
  BeepNode      \* TRUE: /dev/beep, whose release mutes; FALSE: /dev/pwm

Threads == {"key", "rfid", "net", "beep", "smoke", "hb"}
AllKeys == {"digit", "confirm", "close", "dismiss"}
AllDownlink == {"pass", "fail", "beep_on", "beep_off", "fatigue_on", "fatigue_off"}
Levels == {"low", "mid", "high", "fail"}

ASSUME ConstantsAssumption ==
  /\ NoCard \notin Cards /\ TornCard \notin Cards /\ NoCard # TornCard
  /\ MaxDigits \in Nat \ {0}
  /\ CardValid \in Nat
  /\ DriveLimit \in Nat \ {0}
  /\ SmokeConsec \in Nat \ {0}
  /\ Keys \subseteq AllKeys
  /\ Downlink \subseteq AllDownlink
  /\ Air \subseteq Levels /\ Air # {}
  /\ Active \subseteq Threads
  /\ MayExit \in BOOLEAN
  /\ BeepNode \in BOOLEAN

VARIABLES
  lock,         \* holder of st->lock across steps, "free" otherwise
  pc,           \* where each thread is
  signalled,    \* on_signal has silenced the buzzer and is about to _exit
  card,         \* st->card, NoCard while has_card is 0
  card_age,     \* now - st->card_time, CardValid + 1 when longer or never
  auth_buf,     \* auth_buf: each digit stands for the card st->card held when it was typed
  auth_len,     \* auth_len
  key_n,        \* the key thread's register copy of auth_len in auth_len++
  st_auth,      \* st->auth_buf up to st->auth_len
  key_card,     \* the card number taxi_report_auth has begun to read
  auth_sent,    \* the last 0x0210 the platform received, as a set of at most one
  door_open,    \* st->door_open
  drive_start,  \* now - st->drive_start, NotDriving when it is 0
  servo,        \* angle last commanded to the door servo
  overtaken,    \* history: the latest CLOSE fell between the flag and the servo of a PASS
  fatigue,      \* st->fatigue
  smoke_alarm,  \* st->smoke_alarm
  hi, lo,       \* the smoke thread's counters
  air,          \* what the next ADC read returns
  beep,         \* "silent", or which call switched the buzzer on last
  late_tone,    \* history: a thread has switched a tone on after on_signal's off
  net_ok,       \* st->net_ok, and net_fd >= 0
  body,         \* the 0x0200 body each thread is building
  view          \* the last 0x0200 body the platform received

NotDriving == -1
Tag == Cards \cup {NoCard}
Password == UNION {[1..n -> Tag] : n \in 0..MaxDigits}
Body == [door_open : BOOLEAN, fatigue : BOOLEAN, smoke_alarm : BOOLEAN]
EmptyBody == [door_open |-> FALSE, fatigue |-> FALSE, smoke_alarm |-> FALSE]

cardVars == <<card, card_age, auth_buf, auth_len, key_n, st_auth, key_card, auth_sent>>
doorVars == <<door_open, drive_start, servo, overtaken>>
alarmVars == <<fatigue, smoke_alarm, hi, lo, air>>
upVars == <<net_ok, body, view>>
procVars == <<lock, signalled>>
beepVars == <<beep, late_tone>>
vars == <<procVars, pc, cardVars, doorVars, alarmVars, beepVars, upVars>>

At(t, l) == t \in Active /\ pc[t] = l
Goto(t, l) == pc' = [pc EXCEPT ![t] = l]
LockFree == lock = "free"

(* main, taxi_init: memory zeroed, servo closed, net_fd = -1. *)
FirstPc == [t \in Threads |-> IF t = "net" THEN "down" ELSE "idle"]
NoDigits == [i \in 1..MaxDigits |-> NoCard]
NoBodies == [t \in Threads |-> EmptyBody]

Init ==
  /\ lock = "free" /\ signalled = FALSE /\ pc = FirstPc
  /\ card = NoCard /\ card_age = CardValid + 1
  /\ auth_buf = NoDigits /\ auth_len = 0 /\ key_n = 0
  /\ st_auth = <<>> /\ key_card = NoCard /\ auth_sent = {}
  /\ door_open = FALSE /\ drive_start = NotDriving /\ servo = "closed" /\ overtaken = FALSE
  /\ fatigue = FALSE /\ smoke_alarm = FALSE /\ hi = 0 /\ lo = 0 /\ air \in Air
  /\ beep = "silent" /\ late_tone = FALSE
  /\ net_ok = FALSE /\ body = NoBodies /\ view = EmptyBody

(* hal_beep_on and hal_beep_off. *)
Sound(tone) == beep' = tone /\ late_tone' = (late_tone \/ signalled)
Mute == beep' = "silent" /\ UNCHANGED late_tone

-----------------------------------------------------------------------------
(* taxi_report_location, called by any thread: alarm bits read without the *)
(* lock, door bit under it, then the frame sent if there is a connection.  *)
LocAlarms(t) ==
  /\ At(t, "loc_alarms")
  /\ body' = [body EXCEPT ![t].fatigue = fatigue, ![t].smoke_alarm = smoke_alarm]
  /\ Goto(t, "loc_door")
  /\ UNCHANGED <<procVars, cardVars, doorVars, alarmVars, beepVars, net_ok, view>>

LocDoor(t) ==
  /\ At(t, "loc_door") /\ LockFree
  /\ body' = [body EXCEPT ![t].door_open = door_open]
  /\ Goto(t, "loc_send")
  /\ UNCHANGED <<procVars, cardVars, doorVars, alarmVars, beepVars, net_ok, view>>

LocSend(t) ==
  /\ At(t, "loc_send")
  /\ view' = IF net_ok THEN body[t] ELSE view
  /\ body' = [body EXCEPT ![t] = EmptyBody]
  /\ Goto(t, "idle")
  /\ UNCHANGED <<procVars, cardVars, doorVars, alarmVars, beepVars, net_ok>>

ReportLocation(t) == LocAlarms(t) \/ LocDoor(t) \/ LocSend(t)

-----------------------------------------------------------------------------
(* taxi_key_thread. *)
KeyPressed(k) == k \in Keys /\ At("key", "idle") /\ LockFree

RoomForever == TRUE  \* fault: no limit on the digits
RoomForDigit == auth_len < MaxDigits

KeyDigit ==
  /\ KeyPressed("digit") /\ RoomForDigit
  /\ key_n' = auth_len /\ lock' = "key"
  /\ Goto("key", "digit_store")
  /\ UNCHANGED <<signalled, card, card_age, auth_buf, auth_len, st_auth, key_card, auth_sent,
                 doorVars, alarmVars, beepVars, upVars>>

KeyDigitStore ==
  /\ At("key", "digit_store")
  /\ auth_buf' = [auth_buf EXCEPT ![key_n + 1] = card]
  /\ auth_len' = key_n + 1
  /\ key_n' = 0 /\ lock' = "free"
  /\ Goto("key", "idle")
  /\ UNCHANGED <<signalled, card, card_age, st_auth, key_card, auth_sent,
                 doorVars, alarmVars, beepVars, upVars>>

KeyConfirmNoCard ==
  /\ KeyPressed("confirm") /\ card = NoCard
  /\ auth_len' = 0
  /\ UNCHANGED <<procVars, pc, card, card_age, auth_buf, key_n, st_auth, key_card, auth_sent,
                 doorVars, alarmVars, beepVars, upVars>>

KeyConfirm ==
  /\ KeyPressed("confirm") /\ card # NoCard /\ auth_len # 0
  /\ lock' = "key" /\ Goto("key", "confirm_copy")
  /\ UNCHANGED <<signalled, cardVars, doorVars, alarmVars, beepVars, upVars>>

KeyConfirmCopy ==
  /\ At("key", "confirm_copy")
  /\ st_auth' = [i \in 1..auth_len |-> auth_buf[i]]
  /\ auth_len' = 0 /\ lock' = "free"
  /\ Goto("key", "auth_time")
  /\ UNCHANGED <<signalled, card, card_age, auth_buf, key_n, key_card, auth_sent,
                 doorVars, alarmVars, beepVars, upVars>>

KeyCloseFlag ==  \* fault: the servo is left to the platform's next verdict
  /\ KeyPressed("close")
  /\ door_open' = FALSE /\ drive_start' = NotDriving /\ overtaken' = (pc["net"] = "pass_servo")
  /\ Goto("key", "loc_alarms")
  /\ UNCHANGED <<procVars, cardVars, servo, alarmVars, beepVars, upVars>>

KeyClose ==
  /\ KeyPressed("close")
  /\ door_open' = FALSE /\ drive_start' = NotDriving /\ servo' = "closed"
  /\ overtaken' = (pc["net"] = "pass_servo")
  /\ Goto("key", "loc_alarms")
  /\ UNCHANGED <<procVars, cardVars, alarmVars, beepVars, upVars>>

ClockStarted == 0  \* fault: DISMISS starts a clock that was not running
ClockAfterDismiss == IF drive_start = NotDriving THEN NotDriving ELSE 0

KeyDismiss ==
  /\ KeyPressed("dismiss")
  /\ Mute
  /\ fatigue' = FALSE /\ smoke_alarm' = FALSE
  /\ drive_start' = ClockAfterDismiss
  /\ Goto("key", "loc_alarms")
  /\ UNCHANGED <<procVars, cardVars, door_open, servo, overtaken, hi, lo, air, upVars>>

(* taxi_report_auth: card_time and card are read without the lock, the     *)
(* card byte by byte, so a swipe in between mixes two cards.               *)
AuthTime ==
  /\ At("key", "auth_time")
  /\ Goto("key", IF card_age > CardValid THEN "auth_send" ELSE "auth_card")
  /\ UNCHANGED <<procVars, cardVars, doorVars, alarmVars, beepVars, upVars>>

AuthCard ==
  /\ At("key", "auth_card")
  /\ key_card' = card
  /\ Goto("key", "auth_send")
  /\ UNCHANGED <<procVars, card, card_age, auth_buf, auth_len, key_n, st_auth, auth_sent,
                 doorVars, alarmVars, beepVars, upVars>>

ReadCard == {key_card} \cup (IF key_card \in {NoCard, card} THEN {} ELSE {TornCard})

AuthSend ==
  /\ At("key", "auth_send")
  /\ \E c \in ReadCard :
       auth_sent' = IF net_ok THEN {[card |-> c, code |-> st_auth]} ELSE auth_sent
  /\ key_card' = NoCard
  /\ Goto("key", "idle")
  /\ UNCHANGED <<procVars, card, card_age, auth_buf, auth_len, key_n, st_auth,
                 doorVars, alarmVars, beepVars, upVars>>

KeyPress == KeyDigit \/ KeyConfirmNoCard \/ KeyConfirm \/ KeyClose \/ KeyDismiss
KeyRun == KeyDigitStore \/ KeyConfirmCopy \/ AuthTime \/ AuthCard \/ AuthSend

-----------------------------------------------------------------------------
(* taxi_rfid_thread: auth_len is cleared after the lock is released. *)
Swipe(c) ==
  /\ At("rfid", "idle") /\ LockFree
  /\ card' = c /\ card_age' = 0
  /\ Goto("rfid", "reset")
  /\ UNCHANGED <<procVars, auth_buf, auth_len, key_n, st_auth, key_card, auth_sent,
                 doorVars, alarmVars, beepVars, upVars>>

SwipeReset ==
  /\ At("rfid", "reset")
  /\ auth_len' = 0
  /\ Goto("rfid", "idle")
  /\ UNCHANGED <<procVars, card, card_age, auth_buf, key_n, st_auth, key_card, auth_sent,
                 doorVars, alarmVars, beepVars, upVars>>

-----------------------------------------------------------------------------
(* net_task_run and the handlers it dispatches to. *)
Connect ==
  /\ At("net", "down") /\ LockFree
  /\ net_ok' = TRUE
  /\ Goto("net", "loc_alarms")
  /\ UNCHANGED <<procVars, cardVars, doorVars, alarmVars, beepVars, body, view>>

Disconnect ==
  /\ At("net", "idle") /\ LockFree
  /\ net_ok' = FALSE
  /\ Goto("net", "down")
  /\ UNCHANGED <<procVars, cardVars, doorVars, alarmVars, beepVars, body, view>>

Received(m) == m \in Downlink /\ At("net", "idle")

(* taxi_handle_auth_resp: the flags under the lock, then servo, chirp and  *)
(* report without it.                                                      *)
AuthPass ==
  /\ Received("pass") /\ LockFree
  /\ door_open' = TRUE /\ drive_start' = 0 /\ overtaken' = FALSE
  /\ Goto("net", "pass_servo")
  /\ UNCHANGED <<procVars, cardVars, servo, alarmVars, beepVars, upVars>>

AuthFail ==
  /\ Received("fail") /\ LockFree
  /\ Goto("net", "fail_chirp")
  /\ UNCHANGED <<procVars, cardVars, doorVars, alarmVars, beepVars, upVars>>

PassServoSkipped ==  \* fault: the flag is set and the servo left alone
  /\ At("net", "pass_servo") /\ Goto("net", "pass_chirp")
  /\ UNCHANGED <<procVars, cardVars, doorVars, alarmVars, beepVars, upVars>>

PassServo ==
  /\ At("net", "pass_servo")
  /\ servo' = "open"
  /\ Goto("net", "pass_chirp")
  /\ UNCHANGED <<procVars, cardVars, door_open, drive_start, overtaken, alarmVars, beepVars, upVars>>

ChirpOn ==
  /\ At("net", "pass_chirp") \/ At("net", "fail_chirp")
  /\ Sound("chirp")
  /\ Goto("net", IF pc["net"] = "pass_chirp" THEN "pass_quiet" ELSE "fail_quiet")
  /\ UNCHANGED <<procVars, cardVars, doorVars, alarmVars, upVars>>

ChirpOff ==
  /\ At("net", "pass_quiet") \/ At("net", "fail_quiet")
  /\ Mute
  /\ Goto("net", IF pc["net"] = "pass_quiet" THEN "loc_alarms" ELSE "idle")
  /\ UNCHANGED <<procVars, cardVars, doorVars, alarmVars, upVars>>

(* taxi_handle_buzzer *)
BeepControl(m) ==
  /\ m \in {"beep_on", "beep_off"} /\ Received(m)
  /\ IF m = "beep_on" THEN Sound("platform") ELSE Mute
  /\ UNCHANGED <<procVars, pc, cardVars, doorVars, alarmVars, upVars>>

(* taxi_handle_fatigue *)
FatigueControl(m) ==
  /\ m \in {"fatigue_on", "fatigue_off"} /\ Received(m) /\ LockFree
  /\ fatigue' = (m = "fatigue_on")
  /\ Goto("net", "loc_alarms")
  /\ UNCHANGED <<procVars, cardVars, doorVars, smoke_alarm, hi, lo, air, beepVars, upVars>>

Receive == \/ AuthPass \/ AuthFail
           \/ \E m \in Downlink : BeepControl(m) \/ FatigueControl(m)
NetRun == PassServo \/ ChirpOn \/ ChirpOff

-----------------------------------------------------------------------------
(* taxi_beep_thread *)
AlarmIfFatigue == fatigue  \* fault: smoke forgotten
AlarmOn == fatigue \/ smoke_alarm

BeepFlags ==
  /\ At("beep", "idle") /\ LockFree
  /\ Goto("beep", IF AlarmOn THEN "sound" ELSE "drive")
  /\ UNCHANGED <<procVars, cardVars, doorVars, alarmVars, beepVars, upVars>>

BeepOn ==
  /\ At("beep", "sound")
  /\ Sound("alarm")
  /\ Goto("beep", "silence")
  /\ UNCHANGED <<procVars, cardVars, doorVars, alarmVars, upVars>>

BeepOffDropped ==  \* fault: the off call is missing
  /\ At("beep", "silence") /\ Goto("beep", "idle")
  /\ UNCHANGED <<procVars, cardVars, doorVars, alarmVars, beepVars, upVars>>

BeepOff ==
  /\ At("beep", "silence")
  /\ Mute
  /\ Goto("beep", "idle")
  /\ UNCHANGED <<procVars, cardVars, doorVars, alarmVars, upVars>>

DriveTooLongOnline == drive_start >= DriveLimit /\ ~fatigue /\ net_ok  \* fault: left to the platform
DriveTooLong == drive_start >= DriveLimit /\ ~fatigue

BeepDrive ==
  /\ At("beep", "drive") /\ LockFree
  /\ fatigue' = (fatigue \/ DriveTooLong)
  /\ Goto("beep", IF DriveTooLong THEN "loc_alarms" ELSE "idle")
  /\ UNCHANGED <<procVars, cardVars, doorVars, smoke_alarm, hi, lo, air, beepVars, upVars>>

BeepRun == BeepFlags \/ BeepOn \/ BeepOff \/ BeepDrive

-----------------------------------------------------------------------------
(* taxi_smoke_thread: the alarm flag is read in one critical section and   *)
(* written in another. The counters stop at the count they are tested for. *)
Count(n, match) == IF ~match THEN 0 ELSE IF n < SmokeConsec THEN n + 1 ELSE n

HighCountWide == Count(hi, air \in {"mid", "high"})  \* fault: no hysteresis
HighCount == Count(hi, air = "high")

RaiseOnce(h) == ~smoke_alarm /\ h # hi /\ h = SmokeConsec  \* fault: == for >=
Raise(h) == ~smoke_alarm /\ h >= SmokeConsec

SmokeSample ==
  /\ At("smoke", "idle") /\ LockFree /\ air # "fail"
  /\ hi' = HighCount /\ lo' = Count(lo, air = "low")
  /\ Goto("smoke", IF Raise(hi') THEN "raise"
                   ELSE IF smoke_alarm /\ lo' >= SmokeConsec THEN "clear" ELSE "idle")
  /\ UNCHANGED <<procVars, cardVars, doorVars, fatigue, smoke_alarm, air, beepVars, upVars>>

SmokeSet ==
  /\ At("smoke", "raise") \/ At("smoke", "clear")
  /\ LockFree
  /\ smoke_alarm' = (pc["smoke"] = "raise")
  /\ Goto("smoke", "loc_alarms")
  /\ UNCHANGED <<procVars, cardVars, doorVars, fatigue, hi, lo, air, beepVars, upVars>>

(* taxi_heartbeat_thread *)
HeartbeatMissing == FALSE  \* fault: the thread is not started
Heartbeat ==
  /\ At("hb", "idle")
  /\ Goto("hb", "loc_alarms")
  /\ UNCHANGED <<procVars, cardVars, doorVars, alarmVars, beepVars, upVars>>

-----------------------------------------------------------------------------
(* main.c on_signal, _exit and the next start of the program. *)
SignalKeepsTone ==  \* fault: no handler, the process just ends
  /\ MayExit /\ ~signalled /\ \A t \in Threads : pc[t] # "dead"
  /\ late_tone' = FALSE /\ signalled' = TRUE
  /\ UNCHANGED <<lock, pc, cardVars, doorVars, alarmVars, beep, upVars>>

Signal ==
  /\ MayExit /\ ~signalled /\ \A t \in Threads : pc[t] # "dead"
  /\ beep' = "silent" /\ late_tone' = FALSE /\ signalled' = TRUE
  /\ UNCHANGED <<lock, pc, cardVars, doorVars, alarmVars, upVars>>

ToneAfterExit == IF BeepNode THEN "silent" ELSE beep

Exit ==
  /\ signalled
  /\ signalled' = FALSE /\ lock' = "free"
  /\ pc' = [t \in Threads |-> "dead"]
  /\ beep' = ToneAfterExit
  /\ net_ok' = FALSE
  /\ UNCHANGED <<cardVars, doorVars, alarmVars, late_tone, body, view>>

Restart ==
  /\ \A t \in Threads : pc[t] = "dead"
  /\ pc' = FirstPc
  /\ card' = NoCard /\ card_age' = CardValid + 1
  /\ auth_buf' = NoDigits /\ auth_len' = 0 /\ key_n' = 0
  /\ st_auth' = <<>> /\ key_card' = NoCard
  /\ door_open' = FALSE /\ drive_start' = NotDriving /\ servo' = "closed" /\ overtaken' = FALSE
  /\ fatigue' = FALSE /\ smoke_alarm' = FALSE /\ hi' = 0 /\ lo' = 0
  /\ beep' = "silent" /\ late_tone' = FALSE /\ body' = NoBodies
  /\ UNCHANGED <<procVars, auth_sent, net_ok, view, air>>

(* The passing of time and the air in the cab. *)
Tick ==
  /\ card_age <= CardValid \/ drive_start \in 0..(DriveLimit - 1)
  /\ card_age' = IF card_age <= CardValid THEN card_age + 1 ELSE card_age
  /\ drive_start' = IF drive_start \in 0..(DriveLimit - 1) THEN drive_start + 1 ELSE drive_start
  /\ UNCHANGED <<procVars, pc, card, auth_buf, auth_len, key_n, st_auth, key_card, auth_sent,
                 door_open, servo, overtaken, alarmVars, beepVars, upVars>>

AirChanges ==
  /\ air' \in Air \ {air}
  /\ UNCHANGED <<procVars, pc, cardVars, doorVars, fatigue, smoke_alarm, hi, lo, beepVars, upVars>>

-----------------------------------------------------------------------------
(* Run(t): the steps thread t takes on its own; Input: those that wait for *)
(* the driver, the platform, a signal or the world.                        *)
Run(t) ==
  \/ ReportLocation(t)
  \/ t = "key" /\ KeyRun
  \/ t = "rfid" /\ SwipeReset
  \/ t = "net" /\ NetRun
  \/ t = "beep" /\ BeepRun
  \/ t = "smoke" /\ (SmokeSample \/ SmokeSet)
  \/ t = "hb" /\ Heartbeat

Input ==
  \/ KeyPress \/ (\E c \in Cards : Swipe(c)) \/ Connect \/ Disconnect \/ Receive
  \/ Signal \/ Exit \/ Restart \/ AirChanges

Next == (\E t \in Active : Run(t)) \/ Input \/ Tick

Spec == Init /\ [][Next]_vars

(* Every thread is scheduled again and in the end gets st->lock, which is  *)
(* never held while its holder waits for input; the clock advances.        *)
(* Nothing is assumed of the driver, the platform, the link or the air.    *)
FairSpec == Spec /\ (\A t \in Active : SF_vars(Run(t))) /\ WF_vars(Tick)

-----------------------------------------------------------------------------
Labels == {"idle", "dead", "loc_alarms", "loc_door", "loc_send",
           "digit_store", "confirm_copy", "auth_time", "auth_card", "auth_send", "reset",
           "down", "pass_servo", "pass_chirp", "pass_quiet", "fail_chirp", "fail_quiet",
           "sound", "silence", "drive", "raise", "clear"}

TypeProc == lock \in {"free", "key"} /\ signalled \in BOOLEAN /\ pc \in [Threads -> Labels]

TypeCard ==
  /\ card \in Tag /\ card_age \in 0..(CardValid + 1)
  /\ auth_buf \in [1..MaxDigits -> Tag] /\ auth_len \in 0..MaxDigits
  /\ key_n \in 0..(MaxDigits - 1) /\ st_auth \in Password /\ key_card \in Tag
  /\ auth_sent \in SUBSET [card : Tag \cup {TornCard}, code : Password]

TypeDoor ==
  /\ door_open \in BOOLEAN /\ drive_start \in {NotDriving} \cup 0..DriveLimit
  /\ servo \in {"open", "closed"} /\ overtaken \in BOOLEAN

TypeAlarm ==
  /\ fatigue \in BOOLEAN /\ smoke_alarm \in BOOLEAN
  /\ hi \in 0..SmokeConsec /\ lo \in 0..SmokeConsec /\ air \in Air

TypeUp == net_ok \in BOOLEAN /\ body \in [Threads -> Body] /\ view \in Body

(* Type invariant. It carries one bound that a lost update could break:    *)
(* the RFID thread and the key thread write auth_len without a common lock *)
(* and yet it stays in 0..MaxDigits, so auth_buf is never indexed outside. *)
TypeOK ==
  /\ TypeProc /\ TypeCard /\ TypeDoor /\ TypeAlarm /\ TypeUp
  /\ beep \in {"silent", "alarm", "chirp", "platform"} /\ late_tone \in BOOLEAN

Running == \A t \in Threads : pc[t] # "dead"

(* The fatigue clock runs exactly while the door is open: PASS, CLOSE,     *)
(* DISMISS and a restart are the only writers, in two threads.             *)
DriveTimerIffDoorOpen == door_open <=> drive_start # NotDriving

(* A door opened in software is opened by the servo: the only time st->    *)
(* door_open is set and the servo closed is inside the PASS handler that   *)
(* is about to move it, whatever CLOSE keys and repeated verdicts come.    *)
OpenDoorReachesServo ==
  Running /\ door_open /\ servo = "closed" => pc["net"] = "pass_servo"

(* The converse: a door reported closed is shut, but for a CLOSE between   *)
(* the unlock of the PASS handler and its servo call (taxi.c:254). After   *)
(* that the door stands open until the next CLOSE, whatever is reported.   *)
ClosedDoorIsShut ==
  Running /\ ~door_open /\ ~overtaken => servo = "closed"

(* Every tone has a thread that will end it: an alarm tone the beep thread *)
(* in its on-phase, a chirp the verdict handler. Only what the platform    *)
(* switched on may last.                                                   *)
BuzzerOwned ==
  Running => /\ beep = "alarm" => pc["beep"] = "silence"
             /\ beep = "chirp" => pc["net"] \in {"pass_quiet", "fail_quiet"}

(* main.c line 17: on_signal sees to it that the buzzer does not sound on  *)
(* once the process is gone. It does with /dev/beep, whose release mutes;  *)
(* with the /dev/pwm fallback unless a thread switched a tone on between   *)
(* the handler's off and _exit: the other threads run on in between.       *)
LeftOn == ~Running /\ ~BeepNode /\ late_tone
SilentAfterExit == ~Running => beep = "silent" \/ LeftOn

(* taxi.c line 363: a new card resets the digits. A request that names a   *)
(* card carries only digits typed while that card was the one swiped.      *)
CodeTypedForCard ==
  \A r \in auth_sent : r.card \in Cards => \A i \in DOMAIN r.code : r.code[i] = r.card

(* A raised alarm is heard unless it is dismissed first. *)
AlarmHeard ==
  (fatigue \/ smoke_alarm) ~> (beep = "alarm" \/ ~(fatigue \/ smoke_alarm) \/ ~Running)

(* No tone the terminal started lasts for ever, but for one left on so.    *)
TonesEnd == []<>(beep \in {"silent", "platform"} \/ LeftOn)

(* Once the door and the alarms stop changing and the link stays up, the   *)
(* last report the platform has is the true one, for good, however the     *)
(* reports of five threads overtook each other before.                     *)
PlatformConverges ==
  \A b \in Body :
    <>[](net_ok /\ b = [door_open |-> door_open, fatigue |-> fatigue, smoke_alarm |-> smoke_alarm])
      => <>[](view = b)

(* Driving on to the limit raises the fatigue alarm, as long as no smoke   *)
(* alarm keeps the beep thread in its other branch.                        *)
OverdriveRaises ==
  (drive_start = DriveLimit) ~> (fatigue \/ drive_start # DriveLimit \/ smoke_alarm)

(* Lasting smoke raises the alarm again after every dismissal, and lasting *)
(* clean air ends it.                                                      *)
SmokeFollowsAir ==
  /\ <>[](air = "high" /\ Running) => []<>smoke_alarm
  /\ <>[](air = "low" /\ Running) => <>[]~smoke_alarm

(* Between the two thresholds the alarm settles: hysteresis. *)
NoChatter == <>[](air = "mid" /\ Running) => <>[]smoke_alarm \/ <>[]~smoke_alarm
=============================================================================
