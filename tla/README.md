# taxi_terminal: TLA+ models, checks and proofs

The repository is a taxi terminal: a multi-threaded C program on an ARM board
(`terminal/`), the kernel drivers of its devices (`board_driver/`), a framing
library shared with the platform (`shared/`) and a reference platform in Python
(`platform/`). A driver swipes a card, types a password and confirms; the
terminal asks the platform (0x0210); a PASS (0x8110) opens the door and starts
the fatigue clock. Keys close the door and dismiss alarms; a smoke sensor and
the clock raise alarms that sound the buzzer; every change is reported (0x0200).

Paths below are relative to the repository; `taxi.c` is
`terminal/src/biz/taxi.c`.

## 1. Inventory

| component | state | operations | interacts through |
|---|---|---|---|
| business threads, `taxi.c`, `app.h` | `app_state` under `st->lock`; `auth_buf`/`auth_len` (file static, no lock) | key thread (DIGIT, CONFIRM, CLOSE, DISMISS, PREV/NEXT), rfid thread, beep thread, smoke thread, heartbeat, gps, display; `taxi_report_auth`, `taxi_report_location`; handlers of 0x8110, 0x8811, 0x8210 | `st->lock`, `g_send_lock`, the device files |
| process, `main.c` | signal handler, `_exit` | start, SIGINT/SIGTERM | closes every device |
| link, `net_task.c`, `dispatch.c`, `hal/net.c` | `net_fd`, `net_ok`, the stream decoder | connect, receive, dispatch, acknowledge, reconnect after 2 s | calls the handlers in the net thread |
| frame codec, `shared/jt808.c` | decoder buffer, `in_frame`, `esc`; serial | `jt808_build`, `jt808_decode` | used by link and console; mirrored in Python |
| console, `svc/cmdline.c` | none of its own | help, info, uppath (sends reports), servo (an angle, or a sweep) | bypasses `g_send_lock`; drives the servo |
| keymap, cfg | tables, text file | lookup, load | read at start or per key |
| buzzer driver | `running`, `delay`, a kernel timer, the pin | open, release, BEEP_ON, BEEP_OFF, SET_FREQUENCY, `timer_handler` | called by the key, net, beep and signal contexts without a lock |
| servo driver, `pwm_timer.c` | width of the pulse (`high_level_time`), `running`, delayed work, a mapping of the timer's registers, the pin | SET_ANGLE, work (one pulse every 20 ms), open, release | called by key, net and console |
| keyboard and display, `key-zlg72128.c`, `hal/key.c`, `hal/display.c` | `keyStatus`, `functionKey`, delayed work; the chip's registers | polling work, DISP_NUM, DISPBUF_SET | input events to the key thread; display written by the key, net, rfid and cycle threads |
| ADC driver | `flag_irq`, a wait queue, a mapping, the converter's channel | open, release, interrupt, read, SET_CHANNEL | smoke thread, `adc_test` |
| RFID driver, GPS, LED, display manager | device I/O and formatting | read, show | threads of `taxi.c` |
| reference platform | `clients`, `tx_serial`, a decoder per client | receive, verdict, console broadcast | TCP |

What is hard: seven threads, two mutexes and some state outside both; handlers
that drop the lock before they act on what they decided under it; actuators
(servo, buzzer) shared by threads that do not know of each other; reports that
overtake each other; a process that may be killed in any of these; a driver
whose ioctls race its own timer on another CPU.

What makes each component correct:

* business threads: the digits sent belong to the card sent; the door flag, the
  fatigue clock and the servo agree; alarms are raised, heard, dismissed and
  reported; every tone ends; the platform's picture converges to the truth;
* link and codec: every frame built is decoded to itself wherever the stream is
  cut; a damaged stream costs a bounded number of frames; every downlink message
  is acknowledged with its own serial; serials of one connection are distinct;
* buzzer driver: off is off, closed is silent, on sounds, the timer is never
  added twice; servo driver: pulses settle at the last angle asked for, one client
  holds the pin, nothing moves after release; keyboard: a press is never taken for
  a release and polling does not stop by itself; display: a text written alone is
  shown whole; ADC: a value returned is new and of the channel asked for.

The hazards behind these properties, each at its line, are in `PROJECT.json`.

## 2. Modules

| module | models | lines of code it stands for |
|---|---|---|
| `TaxiTerminal` | the threads of the process that share `app_state`, the buzzer and the servo; signal, exit, restart | `taxi.c`, `main.c`, `net_task.c`, `dispatch.c` |
| `TaxiTerminalProofs` | its inductive invariant and theorems | |
| `BeepDriver` | the buzzer kernel driver | `beep_driver.c` |
| `BeepDriverProofs` | its inductive invariants and theorems | |
| `Downlink` | frames from the platform, the stream decoder, handler and acknowledgement, across connections | `shared/jt808.c`, `net_task.c`, `fake_platform.py` (sending) |
| `DownlinkProofs` | its inductive invariants, theorems and refinement | |
| `Delivery` | abstract: what a message sent down a connection may expect | |
| `Jt808`, `MCJt808` | the codec on bytes: build, both stream decoders, frames cut into each other | `shared/jt808.c`, `net.c:21-29`, `fake_platform.py:52-147` |
| `Jt808Proofs` | its inductive invariants and theorems | |
| `Uplink` | `send_frame`, serials and descriptor, `uppath`, connect and reconnect, sockets that die | `taxi.c:82-104`, `net_task.c`, `hal/net.c`, `cmdline.c`, `jt808.c:32-34` |
| `UplinkProofs` | its invariants and theorems | |
| `ServoDriver`, `MCServo` | the servo's driver, its hardware timer and HAL | `servo_driver.c`, `pwm_timer.c`, `hal/servo.c` |
| `ServoDriverProofs` | its invariants and theorems | |
| `Panel`, `MCPanel` | keyboard polling, the row of digits and the threads that use both | `key-zlg72128.c`, `hal/key.c`, `hal/display.c`, `display_mgr.c`, parts of `taxi.c` |
| `PanelProofs` | its invariants and theorems | |
| `AdcDriver` | the ADC driver | `adc_driver.c`, `hal/adc.c` |
| `AdcDriverProofs` | its invariants and theorems | |

`TaxiTerminal` is the composition: its `Receive` takes whole messages, which
`Downlink` says arrive once and in order, and it switches the buzzer in one step,
which `BeepDriver` takes apart. `ServoDriver` tells what becomes of the angle it
commands, `AdcDriver` where its smoke samples come from, `Panel` where its keys
come from and what the driver of the taxi sees, and `Uplink` what becomes of the
reports it sends. `Downlink` and `Uplink` take frames as whole or as fields;
`Jt808` goes down to the byte.

### TaxiTerminal

One action per critical section or per call between two of them. `pc[t]` says
where a thread stands; `"idle"` is the top of its loop.

| code | action |
|---|---|
| `taxi_report_location` (any thread): alarm bits without lock, door bit under it, send | `LocAlarms`, `LocDoor`, `LocSend` |
| key thread: a digit (`auth_len++` is a load and a store) | `KeyDigit`, `KeyDigitStore` |
| CONFIRM: no card; test of `auth_len`; copy of `auth_len` bytes and reset | `KeyConfirmNoCard`; `KeyConfirm`; `KeyConfirmCopy` |
| CLOSE, DISMISS | `KeyClose`, `KeyDismiss` |
| `taxi_report_auth`: age of the swipe, the card, send | `AuthTime`, `AuthCard`, `AuthSend` |
| rfid thread: publish the card, then reset the digits | `Swipe`, `SwipeReset` |
| `net_task_run` | `Connect`, `Disconnect` |
| 0x8110: flags under the lock, servo, chirp, report | `AuthPass` / `AuthFail`, `PassServo`, `ChirpOn`, `ChirpOff` |
| 0x8811, 0x8210 | `BeepControl`, `FatigueControl` |
| beep thread | `BeepFlags`, `BeepOn`, `BeepOff`, `BeepDrive` |
| smoke thread | `SmokeSample`, `SmokeSet` |
| heartbeat thread | `Heartbeat` |
| `on_signal`, `_exit`, next start | `Signal`, `Exit`, `Restart` |
| wall clock, air in the cab | `Tick`, `AirChanges` |

Decisions a reader should know:

* `auth_buf` and `auth_len` are file statics (`taxi.c:277-278`), written by the
  key thread under `st->lock` and by the rfid thread without it. Sections that
  touch `auth_len` are split at load and store and hold `lock` in between; the
  others are one action. The program is built without optimisation
  (`terminal/src/Makefile:2`), so each access in the source is one access.
* A digit in `auth_buf` is represented by the card in `st->card` when it was
  typed: what matters is whose password it belongs to. `auth_sent` is the last
  request the platform got. `TornCard` is a number read half before and half
  after a swipe.
* `card_age` and `drive_start` are ages that stop at the threshold the code
  compares them with, so `Tick` is bounded without losing behaviour. `hi` and
  `lo` stop at `SMOKE_CONSEC` for the same reason: the code compares with `>=`.
* `air` is what the next ADC read returns: at or above `SMOKE_TH_ON`, at or
  below `SMOKE_TH_OFF`, between them, or an error. `AirChanges` may change it at
  any time.
* A report sent while there is a connection arrives; one sent while the
  connection is dying may or may not have arrived, and since the next connect
  reports afresh the model lets it arrive. Acknowledgements and serials change
  nothing that is modelled here and belong to `Downlink` and `Uplink`.
* The three alarm and door bits are all of a report that is kept; position, time
  and speed are payload.
* Fixed-length delays (chirp, beep phases, poll intervals) are not modelled:
  a thread may take its next step at any time.
* `PREV`/`NEXT`, `disp_idx` and `verified` are left out: nothing that is modelled
  reads them. The display and the idle clock `last_key` are in `Panel`. The servo is
  assumed open (`servo_fd >= 0`).
* The console's `servo` command (`cmdline.c:138-158`) is a sweep for the
  workshop that moves the arm whatever the door flag says. It is not part of the
  model, and `OpenDoorReachesServo` and `ClosedDoorIsShut` are about the other
  threads.
* A buzzer ioctl is one step here (`Sound`, `Mute`), which `BeepDriver` shows to be
  right as long as no two calls have passed each other's test of `running`. What
  becomes of calls that have is not in this model.
* `BeepNode` says which device `hal_beep_open` got: `/dev/beep`, whose release mutes, or
  the fallback `/dev/pwm`, whose release does not, so that only `on_signal` ends a
  tone. The other threads run on between it and `_exit`; `late_tone` is a history
  variable that says one of them has switched a tone on there.
* `overtaken` is a history variable: the latest CLOSE fell between the PASS
  handler's unlock (`taxi.c:244-250`) and its servo call (`taxi.c:254`). This is
  the one way in which the arm is left open behind a door flag that says closed;
  no step reads it.

### BeepDriver

`dev_ioctl` takes no lock, so each test and each assignment is a step of its
own (`OnStart`, `OnArm`, `OnMark`, `OffStart`, `OffStop`, `OffUnmark`, `OffLow`,
`TuneStart`, `TuneReload`). `timer_handler` runs on another CPU: `Fire` takes the
pending timer, `HandRead` and `HandWrite` toggle the pin, `HandArm` adds the
timer again. `del_timer_sync` waits for the handler (`hand = "idle"` in
`OffStop`, `ReleaseStop`, `Open`). `add_timer` on a pending timer is a BUG_ON:
`oops`, after which nothing happens. `release` is called by the kernel when no
ioctl is in progress. A second `open` fails in `gpio_request` and changes
nothing. Any number of threads may be inside; the terminal has three that call
(key, net, beep). `clean`, `quiet`, `retuned` and `crossed` are history variables that the
properties need and no action reads in a guard. `crossed` is the one thing that goes
wrong between callers without a lock: a caller passes its test of `running` while another, past its own,
has yet to change the timer or `running` (two BEEP_ONs, a BEEP_ON inside a BEEP_OFF, a reload
and a BEEP_OFF). The other overlaps, such as two BEEP_OFFs, do no harm, and the
properties hold through them.

### Downlink and Delivery

The platform writes frames (`Send`), the connection may end at any byte (`Cut`,
then `Close` at the byte where the terminal's `recv` fails), and the network
thread feeds one byte at a time to `jt808_decode`: `Skip`, `Open`, `Unescape`,
`Escape`, `Plain` and, at a delimiter, `Short` (fewer than 23 bytes: wait for
more), `Done` (length and checksum right) or `Bad`, each with what it does to
`in_frame`, `esc`, `buf` and `len`. After `Done` the message is handled and
acknowledged (`Answer`) before the next byte is looked at. How `recv` cuts the
stream into chunks cannot matter, since every byte is passed alone
(`net_task.c:63-66`); that is why the model has no chunks.

A frame is cut where the decoder can tell the difference: delimiters, one escaped
body byte with its mark, and the fields between them with their sizes. The
checksum's job is abstracted to its effect: `buf` is good exactly when it holds
the fields of one message. `torn` and `dirty` are history variables.

`Delivery` is the abstract specification, `Implements` the refinement, fairness
included. It says in particular what the decoder that is kept across connections
costs: at most the first message of a connection whose predecessor ended inside
a message, and that message itself may be handled late, on the new connection.

### Jt808

| code | operator or action |
|---|---|
| `jt808_build`; `build` | `Content`, `Checksum`, `Escaped`, `Build`; `Start`, `Beyond`, `ByteAt`, `Ends` walk along it |
| `jt808_decode`, `jt808_process`, `jt808_decoder_init` on -1 | `TerminalNext`, `Taken`; `Fed`, `Stored`, `Full` |
| `Decoder.feed`, `_unpack` | `PlatformNext`, `Taken`; `Fed`, `Stored` |
| `hal_net_send`, `sendall`, a byte at a time | `Begin`, `GoOn` |
| a connection ends, the next begins | `Reconnect` |

No lock is held over a send on either side (the platform's `clients_lock` keeps
two broadcasts apart, not an answer from a broadcast), and TCP may take a part of a
frame and let another thread in before it takes the rest. Which bytes follow which
on the wire is then all that matters to the reader, so the model has no
pipe: a byte is decoded when it is sent. `side` chooses the direction. Bytes have
three bits: the delimiter, the escape mark, the two codes behind it and four others, with
an exclusive or, taken bit by bit as the parity of the bytes that have the bit, under
which the checksum itself may need an escape. The header is an id and a length
instead of 22 bytes, so a body has at most the seven bytes a three-bit length can
tell (`Jt808Assumption`); that a frame's content is shorter than the buffer is what
1046 bytes are to 2048. A frame under way is a message and a place in it (`msg`,
`pos`): the piece (a delimiter, or what one byte of the content is written as) and
the byte of the piece. `alone`, `calm` and `odd` are history variables.

What the run shows: the terminal's decoder, which keeps a frame too short for a
header open, is in step after any one whole frame, whatever came before. The platform's,
which leaves the frame at every delimiter, is in step exactly when the number of
delimiters it took for data is even (`Parity`). A frame cut between its escape mark and
the code behind it, with another thread's delimiter put there, makes it odd; from then on
it closes where it should open and takes nothing until the connection ends or the
accident happens again.

### Uplink

| code | action |
|---|---|
| `send_frame`: lock, `jt808_build` with its `(*serial)++`, copy of `net_fd`, unlock | `Lock` (with `Load`), `Unlock` (with `Store`, `CopyFd`) |
| `uppath_upload`: build without the lock, test of `net_fd`, second read of it, send | `Uppath`, `UppathBuilt`, `UppathTest`, `UppathCopy` |
| `hal_net_send` | `SendNowhere`, `SendTaken`, `SendError`, `SendKills` |
| `net_task_run`: connect, publish, first report, receive and acknowledge, end, withdraw, close | `Connect`, `Publish`, `Lock`, `Recv`, `RecvEnd`, `Withdraw`, `Close` |
| heartbeat | `Beat` |
| platform and TCP (external) | `Message`, `Taken`, `PeerCloses`, `Vanishes`, `PeerResets`, `LateReset`, `Timeout` |

The descriptor is shared, the send is not under the lock: `fd[t]` is a thread's
copy, `"now"` for the socket there is, `"old"` for a number whose socket has been
closed since and which the next connection may get again. What the kernel does is
taken from TCP: a frame to a peer that closed draws a reset, after which the next
send fails with EPIPE and SIGPIPE; a reset or a timeout is reported once
(`err`), to whichever call comes first. The serial's two bytes are read by one
load and written by one store. A frame is taken whole or waits for room: partial
sends are in `Jt808`. `raced` is a history variable.

### ServoDriver

| code | action |
|---|---|
| `dev_open` up to `gpio_request`; its two outcomes | `OpenSetup`; `OpenGranted`, `OpenRefused` |
| `dev_release`: pin, `running`, work and timer, mapping | `ReleaseFree`, `ReleaseStop`, `ReleaseCancel`, `ReleaseUnmap` |
| SET_ANGLE, with the clamp of `hal_servo_angle` | `Ask` |
| `dev_work`: return; timer and pin up; spin; pin down; timer off and queue again | `WorkQuit`; `WorkStart`, `WorkOn`; `Tick`; `WorkOff`; `WorkAgain` |

Open calls are serialised by the kernel's `misc_open`, which holds its mutex
over the driver's `open`; releases and ioctls are not. `pin` and `owner` belong
to gpiolib: a write to a pin nobody requested requests it as `"auto"`, which is
what the comment at `servo_driver.c:136-139` tells of, and what the next
`gpio_request` then trips over. `oops` is an access to a mapping that is gone.
`lo`, `hi`, `shared` and `undercut` are history variables. `undercut`: a pulse was under
way when `gpio_free` came, or began between it and `running = 0`. The counter is loaded by
`init_pwm_timer`, through its manual update bit, and taken to be loaded by each
`start_pwm_timer` too, although that sets only the start bit (`pwm_timer.c:97-100`);
`ArmFollows` and `ReleaseReturns` rest on it. The period between two pulses is not measured.

### Panel

| code | action |
|---|---|
| `keyboard_work_handle`: a common key; none; one function key changed or none; several changed; a failed transfer | `PollCommon`; `PollNone`; `PollFunc`; `PollChord`; `PollError` |
| `hal_key_read` | `Report`, `queue` |
| `hal_display_string`, `hal_display_clear` | `Seg`, `Show`, `ShowString` |
| DISPBUF_SET, one transfer per digit; DISP_NUM | `WriteDigit`; `PushDigit` |
| key thread under `st->lock`; net and rfid thread; cycle thread: clear, test of the idle clock, item | `KeyShow`, `KeySilent`; `OtherShow`; `CycleClear`, `CycleTest`, `CycleShow` |
| `last_key` becomes 10 s old | `Rest` |
| keypad (external) | `PressCommon`, `MoveFunc` |

`last` is `functionKey` as the set of keys pressed, `status` the keys whose
`keyStatus` is 1; `functionKey = 0` is `last = FuncKeys`. The keypad wires only
four of the eight function inputs (`Wired`), the digits 1, 2, 3 and A.
`whole` chooses between the driver with DISPBUF_SET and the older one, whose
`DISP_NUM` of nine transfers is one step here. `idle` is the idle clock
(`taxi.c:480`): every key clears it, silent ones too (`taxi.c:337`), a card and a PASS do,
a FAIL does not; `Rest` sets it again after any time, or never. The cycle thread tests it under the lock and shows an item
after it, so a key may come in between. The return of the polling for
a common key that is not in the driver's list (`key-zlg72128.c:311-315`) is left out: the
keypad has only keys that are. Failed transfers of display writes
are not modelled (`zlg72128_ioctl` does not look at them), nor is removal of the driver.
`since`, `chord`, `failed` and `alone` are history variables.

### AdcDriver

| code | action |
|---|---|
| `dev_open`: wait queue and mapping, `request_irq` and its two outcomes, flag, `dev_init` | `OpenSetup`, `OpenGranted` / `OpenRefused`, `OpenClear`, `OpenInit` |
| `dev_release` | `FreeIrq`, `Unmap` |
| SET_CHANNEL | `SetChannel` |
| `dev_read`: start, wait, fetch, clear the flag | `Start`, `Wait` / `Interrupted`, `Fetch`, `ClearFlag` |
| `adc_irq_handler` | `IrqFlag`, `IrqWake` |
| the converter (external) | `Convert` |

A sample is its channel and whether it was converted since the read began.
`free_irq` waits for the handler. Two assumptions: a read does not begin while
the handler of the conversion before is still running (callers sleep for half a
second between reads), and setting ADEN again does not restart a conversion that is under
way. `broken` (a signal ended a wait) and `shared` are history variables.

## 3. Properties and runs

Passing runs:

| run | module, cfg | checks | instance |
|---|---|---|---|
| `door` | `TaxiTerminal`, `Door.cfg` | `TypeOK`, `DriveTimerIffDoorOpen`, `OpenDoorReachesServo`, `ClosedDoorIsShut` | key, rfid and net threads; all keys, all downlink messages; 1.1 million states |
| `report` | `TaxiTerminal`, `Report.cfg` | `BuzzerOwned`, `PlatformConverges`, `OverdriveRaises` | key (CLOSE), net (PASS, FAIL), beep and heartbeat threads; link lost and regained |
| `smoke` | `TaxiTerminal`, `Smoke.cfg` | `SilentAfterExit`, `AlarmHeard`, `TonesEnd`, `SmokeFollowsAir`, `NoChatter` | key (DISMISS), net (FAIL), beep and smoke threads, two samples to raise or end the alarm, failed reads, signals, restarts, on `/dev/pwm`; 129 thousand states |
| `beep` | `BeepDriver`, `Beep.cfg` | `TypeOK`, `NoDoubleArm`, `OffIsSilent`, `ReleasedIsSilent`, `ToneSounds` | three callers, periods 0, 2 and 101 against limits 1 and 100; 121 thousand states |
| `codec` | `MCJt808`, `Jt808.cfg` | `TypeOK`, `Parity`, `TakesWhatWasSent` | two threads, three messages with all special bytes, three frames and two cuts on a connection, any number of connections, a buffer of 8 bytes for frames of up to 5; 143 thousand states |
| `servo` | `MCServo`, `Servo.cfg` | `PulseBetween`, `OneHolder`, `ClosedIsStill`, `NoFault`, `ArmFollows`, `ReleaseReturns` | two clients; angles below, at both ends of and above a range of two degrees; spins up to one tick late; 12 thousand states |
| `panel` | `MCPanel`, `Panel.cfg` | `TypeOK`, `StatusFollows`, `DiesOfChordOrFault`, `ShownWhole`, `FuncKeySeen`, `RowHeals` | two wired function keys of three, three writing threads, two digits, both drivers, the idle clock; 589 thousand states |
| `adc` | `AdcDriver`, `Adc.cfg` | `TrueSample`, `NoFault`, `ReadReturns` | two clients; two channels and a number that is none; 72 thousand states |
| `uplink` | `Uplink`, `Uplink.cfg` | `SerialCountsFrames`, `FdIsLive`, `Reconnects` | heartbeat, net thread and console; three serials, a socket buffer of two frames, two unread messages; 177 thousand states |
| `downlink` | `Downlink`, `Downlink.cfg` | `InSync`, `Implements` | five messages over any number of connections, buffer of 60 bytes |

The type invariants of `ServoDriver`, `AdcDriver`, `Uplink` and `Downlink` are
proved (section 4) and no run repeats them.

Why the bounds are enough. One card in `door` already makes the rfid thread race
the key thread (a swipe of the same card resets the digits); two cards are used
where the card's identity matters (`old_digits`). One digit reaches both limits
of the buffer, full and empty. A validity and a drive limit of one tick make
"before", "at" and "after" distinct states. Two samples instead of the code's three
(`SMOKE_CONSEC`) have a count below the threshold, at it, and held at it by
more samples, which is all `SmokeSample` and `SmokeSet` tell apart; the theorem about the counters
(`SmokeAlarmIsEarned`) is for every threshold. The PWM fallback is the harder case of the two buzzer devices, since
with `/dev/beep` the exit itself mutes. Reports in `report` come from four
threads at once, so a report can be overtaken by three others. Five messages
in `downlink` allow three connections that end inside a frame, whose fragments
pile up in the decoder, and two messages after them; the buffer is small so that
they reach its limit (2048 bytes would take ninety such connections). The properties
proved in section 4 hold for every value of these constants.

Two clients of a driver are enough for every overlap of an open, a release and a
use: `open` is serialised, so that a third could only repeat what the second
does. Three callers of the buzzer are the terminal's, and the theorems are for any
number. In `panel`, two wired keys make a chord, an unwired third keeps "all held"
apart from it as on the board, and two digits tell a whole row from a torn
one. In `uplink`, the serial wraps after three frames, so that a lost or a
doubled one shows wherever it happens; the buffer of two frames lets a sender wait for room and the queue
hold one frame more than the one that meets the reset. In `codec`, three frames
are two that are mixed and one after them; the decoder the terminal keeps meets more on
the next connection. The small buffer is filled by such mixtures as 2048 bytes would be by
many more of them.

Deadlock is checked except where the model's machine really stops: a BUG_ON or an
unmapped access (`Beep.cfg`, `Servo.cfg`, `Adc.cfg`) and a process killed by
SIGPIPE (`Uplink.cfg`, `Sigpipe.cfg`).

Several properties name the circumstance in which they no longer hold, instead of
leaving it out of the model: `NoDoubleArm` (`crossed`, `retuned`), `OffIsSilent` and
`ToneSounds` (`crossed`), `SilentAfterExit` and `TonesEnd` (`late_tone` on `/dev/pwm`),
`ClosedIsStill` (`undercut`, for the pin's owner alone), `RowHeals` (`idle`), `OverdriveRaises` (a
standing smoke alarm keeps the beep thread from the drive clock), `NoFault`,
`ArmFollows`, `ReleaseReturns` and `ReadReturns` (`shared`), `TrueSample`
(`broken`), `SerialCountsFrames` (`raced`), `DiesOfChordOrFault` (`chord`,
`failed`), `Reconnects` (`killed`), `ClosedDoorIsShut` (`overtaken`),
`TakesWhatWasSent` (`calm`, `odd`). Each of these is brought about by steps the
runs take.

Runs that end in a violation, each the disagreement of a comment or document
with what the code does (details under "findings" in `PROJECT.json`):

| run | property | what the trace shows |
|---|---|---|
| `old_digits` | `CodeTypedForCard` | CONFIRM between the swipe of a second card and the reset of the digits |
| `sigpipe` | `RestartUnnoticed` | the platform closes, the next frame draws a reset, the frame after it a SIGPIPE: the terminal ends instead of reconnecting |

### Fairness

`TaxiTerminal!FairSpec`: strong fairness of `Run(t)` for each thread `t`. Every
thread is an endless loop that only sleeps for fixed times, and `st->lock` is
held for a few statements and never across a wait for input; strong rather than
weak fairness says that a thread waiting for the mutex gets it in the end although
others take it in between. Weak fairness of `Tick`: the clock advances. Nothing is
assumed of the driver's keys, cards, the platform, the link, the signal or the
air; where a property needs them to settle, it says so (`<>[]...` on its left).

`BeepDriver!FairSpec`: a pending timer fires and its handler goes on, and a
caller inside the driver is scheduled again; strong fairness because
`del_timer_sync` must find a moment between two handlers.

`Downlink!FairSpec`: the network thread goes on while it has something to read,
to answer or to close.

`ServoDriver!FairSpec`: the work queue and the hardware counter run (weak); a
release goes on (strong, because `cancel_delayed_work_sync` must find a moment in
which the work, which queues itself again, is not running).

`Panel!FairSpec`: weak fairness of the polling, of the cycle thread and of each
thread that is in the middle of a write. Whether a thread holding `st->lock` gets
out is part of the last; the key thread is not assumed to run. Nothing is assumed of the
idle clock either: keys that come faster than every 10 s keep the cycle thread from showing
anything, and a torn row with it.

`AdcDriver!FairSpec`: weak fairness of the converter, of its interrupt and of a
reader that is awake. A sleeping reader is woken by `IrqWake` or not at all.

`Uplink!FairSpec`: strong fairness of each thread that takes `g_send_lock`, which
is held for microseconds and whose users sleep between frames, and weak fairness of
TCP, which acknowledges or gives up. `Connect` being one of the net thread's steps, the
platform is assumed to come back. Nothing is assumed of the platform's messages.

## 4. Proofs

All checked by TLAPS, for every value of the constants that satisfies
the named assumption of its module: any set of cards, any limits, any
subset of active threads, any set of concurrent callers, clients, keys and
reporters.

| module | theorems |
|---|---|
| `TaxiTerminalProofs` | `TypeCorrect` (`TypeOK`), `DriveTimerFollowsDoor` (`DriveTimerIffDoorOpen`), `DoorIsServed` (`OpenDoorReachesServo`), `ClosedIsShut` (`ClosedDoorIsShut`), `TonesAreOwned` (`BuzzerOwned`), `ExitSilences` (`SilentAfterExit`), `LockComesBack`, `SmokeAlarmIsEarned` |
| `BeepDriverProofs` | `TypeCorrect` (`TypeOK`), `ClosedDeviceIsSilent` (`ReleasedIsSilent`), `OffIsFinal` (`OffIsSilent`), `TimerAddedOnce` (`NoDoubleArm`) |
| `ServoDriverProofs` | `TypeCorrect` (`TypeOK`), `PinHasOneHolder` (`OneHolder`), `ClosedDeviceIsStill` (`ClosedIsStill`), `PulseFollowsWidth` (`PulseBetween`), `AloneNeverFaults` (`NoFault`) |
| `PanelProofs` | `TypeCorrect` (`TypeOK`), `StatusInStep` (`StatusFollows`), `DiesOnlyOfThese` (`DiesOfChordOrFault`), `TextsAreShown` (`ShownWhole`) |
| `AdcDriverProofs` | `TypeCorrect` (`TypeOK`), `AloneNeverFaults` (`NoFault`), `SamplesAreTrue` (`TrueSample`) |
| `DownlinkProofs` | `TypeCorrect` (`TypeOK`, with the bound of the decoder's buffer), `StaysInSync` (`InSync`), `ImplementsDelivery` (the safety part of `Implements`), `AnswersClimb` |
| `Jt808Proofs` | `TypeCorrect` (`TypeOK`), `ParityHolds` (`Parity`), `TakesEachFrame` (`TakesWhatWasSent`) |
| `UplinkProofs` | `TypeCorrect` (`TypeOK`), `FdAlwaysLive` (`FdIsLive`), `SerialsNeverRepeat` (`SerialCountsFrames`) |

Each says `Spec => []P` for the property in brackets, which a run checks on a small
instance, or `Spec => P` where the property is about steps (`TakesWhatWasSent`).
Four say something no run checks. `LockComesBack`: `st->lock` is held across
steps only by the key thread, between the load and the store of `auth_len`.
`SmokeAlarmIsEarned`: each step that raises the smoke alarm has `SMOKE_CONSEC`
high readings in a row behind it, each that ends it as many low ones, unless it is
the driver's key or a restart. `AnswersClimb`: the acknowledgements on a
connection carry ascending serials, none twice. `ImplementsDelivery`:
`Spec => Promise!Spec`.

`TaxiTerminalProofs`. The inductive invariant is `Inv`: the type invariant, the
four properties, and `LivesAsOne` (either every thread is dead or none is: the
process dies as one). `TypeOK` is not inductive by itself in the digit buffer:
`KeyDigitStore` writes at `key_n + 1`, so the type invariant bounds `key_n` by
`MaxDigits - 1`, which the guard of `KeyDigit` establishes and the rfid thread,
which only ever writes 0 to `auth_len`, cannot disturb. `OpenDoorReachesServo`
and `BuzzerOwned` speak only of a running process; `LivesAsOne` is what carries
them through an exit and the restart that re-establishes them. `ClosedIsShut` needs one
fact more (`PassPending`): the net thread is about to move the servo only while the
door flag is set or a CLOSE has overtaken it. `ExitSilences` needs `MutedBySignal`: from the
signal on the buzzer is silent unless `late_tone`, whichever thread was about to make the next
buzzer call; the exit then leaves what it finds on `/dev/pwm` and mutes `/dev/beep`. Each conjunct has
a lemma with one step per action, and each action leaf names the one fact that
keeps the conjunct. `LockComesBack` is inductive with the type invariant.
`SmokeAlarmIsEarned` needs `Decided`: the smoke thread compares in one critical section and
writes in another, and nobody else changes its counters in between.

`BeepDriverProofs`. `ClosedDeviceIsSilent` holds for any callers because the
release runs alone: while the device is not open nobody is inside an ioctl, and
from `ReleaseStop` on the timer is off and no handler runs, so the pin written by
`ReleaseLow` stays. The other two rest on `InOrder`, which says what is true for any callers until
two of them cross. `Apart`: a BEEP_ON past its test is alone among the calls that
change the timer, and a reload meets no BEEP_OFF past its test; this needs that
`OnStart`, which finds `running` clear, and `OffStart` and `TuneStart`, which find it set, read
what the call under way has not changed yet, and is where `crossed` comes in.
`TimerFollows`: the timer or its handler is alive exactly while `running` is set, except
between the two assignments of the call that is changing both. `OffHolds`: a BEEP_OFF that began
with no tone being switched on finds no timer after its `del_timer_sync`, nor does anything
after it bring one back. When calls do cross all three fail: an ON that tested
`running` early adds the timer between the `del_timer_sync` and the `running = 0` of
another thread's OFF, and the next OFF leaves the timer alone.

`ServoDriverProofs`. `Attended` says that whatever still moves (a queued or
running work, the timer, a pin that is high) has a client that has yet to pass its
cancel; the cancel, which waits for the work, ends all of it at once. `PinGivenBack` follows
the pin's owner through the same stages: after `gpio_free` it is free unless a pulse was
under way or has begun since.
`InHull` keeps the width and the spin between the least and the greatest width
asked for since the pulse began, which `Ask` and `OpenSetup` widen in the same step
that changes the width. `Mapped` holds while no clients overlapped: there is at most one,
and the registers are mapped in every stage in which it or the work touches them.

`PanelProofs`. `InStep`: the keys held are wired ones, so never all, so that the
mask 0 never stands for a real state after the first look; and the toggled status
equals the levels remembered. For the end of the polling, a look finds changed
only keys that moved since the look before it, and without a chord that is at most one key.
`TextsAreShown` rests on what `Seg` computes: `Nth(S, n)` is the n-th least of the places
with a digit (`LeastOf`, `NthIs`), so that the texts the row is given are found in it again
(`SegIs`). `RowInv` then says of a thread that has written alone so far that
the row holds the part of its text already written.

`AdcDriverProofs`. `Held` ties the holder of the interrupt to the only client past
its open. `Attended`: from a start to the end of its interrupt one reader waits,
it is woken or sees the flag only after its own conversion is in DAT, and the
flag is down whenever the next read may start. It breaks where a signal ends a wait.

`DownlinkProofs`. The decoder tests the bound of an escaped byte before it stores it and
that of a plain byte together with it, so the length stays within the buffer only if what
follows an escape mark is one byte. That is true although connections end anywhere: the
pipe always holds the rest of a frame and whole frames behind it (`Ordered`), so that after
the mark comes its body byte or, on the next connection, a delimiter.

`StaysInSync` and the refinement share `SyncInv`, which says of the buffer, for every
place of the byte to be read next: nothing is kept outside a frame (`Tidy`); inside one
the buffer ends with what was read of the message under way, whatever stands in front of
it (`EndsWell`); its last entry is of that message or of the one the last connection lost
(`Owned`); and unless a lost connection left something it holds exactly that part
(`Exact`). The refinement mapping gives `Delivery` the messages whose
frames are wholly on the wire (`Whole`). A byte that does not end a frame is then a stutter; the delimiter
that ends one takes the first of these messages, handled or lost (`DecodeRefines`);
writing a frame, cutting one and closing map to steps of the same name
(`StepRefines`). `AnswersClimb` needs that whatever is still to be answered is later than
what has been (`AckInv`), also where the message waiting came in over a connection that is
gone.

`Jt808Proofs`. `ContentIs`, `BuildIs` and `SendsOf` say what a frame under way sends next, for every
message. `TakenIs` is the round trip: a buffer that holds a message's content passes the
checks, and what is cut out of it is the message. For `TypeCorrect`,
every place of a thread is a place in its frame (`Placed`). `ParityHolds` needs
the count generalised to the middle of frames (`Flags`): the platform's decoder is inside a frame
or an odd number of delimiters was taken for data, not both, exactly if an odd number of
frames is under way, since a frame has two delimiters and each flips one or
the other. `TakesEachFrame` rests on `FollowInv`: a frame that started alone has no
other beside it (`Single`, `CalmAlone`); between frames no escape is pending and the
terminal's buffer is empty (`Between`); and while one thread sends alone the decoder has
as many bytes as are out, the very bytes where the promise is made (`Follows`). The attempt to prove it showed that the
decoder had been written as a `CASE` whose arms overlapped for a delimiter in a full
buffer; it is an `IF` now, in the order of the code.

`UplinkProofs`. `Published` ties the net thread's place to the socket and to
`net_fd`. `Exclusive` (one builder under the lock) and `Counted` (what the builder has loaded
is the serial, and the serial counts the frames) carry the serials through the load
and the store.

Only model-checked: the liveness properties (`PlatformConverges`,
`OverdriveRaises`, `AlarmHeard`, `TonesEnd`, `SmokeFollowsAir`, `NoChatter`,
`ToneSounds`, `ArmFollows`, `ReleaseReturns`, `FuncKeySeen`, `RowHeals`,
`ReadReturns`, `Reconnects`) and the fairness of `Implements`, since the prover does
not handle fairness and ENABLED. Every invariant of the passing runs, and every property
of theirs that is about steps, is a theorem.

## 5. Not modelled

* GPS parsing, LEDs, formatting of texts, configuration text, the key table: pure
  functions or output that nothing else reads.
* RFID: `rfid_driver.c` hands the bytes of one I2C read to its caller and keeps
  nothing but the buffer of that read; the result is the input of `Swipe`.
* Loading, probing and removal of the drivers, and their failure paths: they run
  once, with no client.
* Partial sends in `Uplink` (they are in `Jt808`), and `jt808_build` into a buffer too
  small, which no caller has.
* The sizes of payloads. `net_task.c:64` has 512 bytes for a body, while the length field that
  `jt808_process` checks has ten bits and its copy (`jt808.c:81`) no bound of its own; the
  three messages of the reference platform have a few bytes.
* Timing in milliseconds, and scheduling of CPUs beyond fairness.
* The documents, deployment scripts, prebuilt modules and test programs.

## 6. Plan

Each module is written to be proved about (constants with named assumptions, one
action per operation, no recursive operators).

1. An abstract `Taxi` (door, alarms, and what the platform believes, each changed
   in one step) implemented by `TaxiTerminal`, with the refinement proved.
2. The safety cores of the liveness properties that are only checked: that a tone under way
   is always one step nearer to its end (`TonesEnd`), that a sleeping reader has a
   conversion or a wake-up before it (`ReadReturns`), and that what the platform does
   not know yet has a report on its way (`PlatformConverges`).
3. The door and alarm invariants in one statement about `app_state`, the devices and
   the latest report that `Taxi` can take over.
