-------------------------------- MODULE Panel --------------------------------
(***************************************************************************)
(* The ZLG72128 chip with its keys and its row of digits: the driver       *)
(* board_driver/zlg72128/key-zlg72128.c, which polls the keys from a       *)
(* delayed work and writes the digits from ioctls, and what the terminal   *)
(* does with both (hal/key.c, hal/display.c, display_mgr.c, the key and    *)
(* the cycle thread of taxi.c).                                            *)
(*                                                                         *)
(* One I2C transfer is one step, and nothing but the bus is locked. The    *)
(* chip latches the latest common key until it is read; of the function    *)
(* keys it only gives the present levels. Keys whose meaning does not      *)
(* matter here are alike; so are glyphs other than Blank.                  *)
(***************************************************************************)
EXTENDS Integers, Sequences, FiniteSets

CONSTANTS
  FuncKeys,   \* the keys the driver reads as levels: F1..F8
  Wired,      \* those the keypad has: the digits 1, 2, 3 and A
  Others,     \* threads beside the key and the cycle thread that show a text
  Typed,      \* what the key thread may show: the digits typed, an item, OK
  Items,      \* what the others may show
  Glyphs,     \* characters seg_code knows
  Digits,     \* 8, the number of digits
  MaxQueue    \* key events evdev keeps for a reader that is late

Blank == "blank"  \* segment code 0
ASSUME PanelAssumption ==
  /\ Wired \subseteq FuncKeys /\ Wired # FuncKeys /\ IsFiniteSet(FuncKeys)
  /\ Typed \cup Items \subseteq Seq(STRING) /\ Blank \notin Glyphs
  /\ Digits \in Nat \ {0} /\ MaxQueue \in Nat \ {0}

VARIABLES
  latch,    \* a common key waits in the chip
  held,     \* function keys pressed at this moment
  last,     \* zdev->functionKey, as the set of pressed keys
  status,   \* keys[].keyStatus of the function keys
  poll,     \* keyboard_work_handle: "queued", "func" between its reads, "dead"
  queue,    \* presses the key thread has not read
  cycle,    \* taxi_cycle_thread: "boot", "clear", then "rest", or "go" once it has found idle
  idle,     \* the last operation (last_key) was 10 s ago
  whole,    \* the driver has DISPBUF_SET
  regs,     \* DISPBUF0.., the digits from the left
  text,     \* each thread: the segment codes it is writing
  at,       \* each thread: the digit it writes next, 0 when it is not writing
  failed,   \* history: a transfer of the polling has failed
  since,    \* history: the function key moved since they were last polled
  chord,    \* history: two different ones have been
  alone     \* history: the latest text, if nothing was written beside it, as a set

keyboard == <<latch, held, last, status, since, chord>>
display == <<regs, text, at, alone>>
carousel == <<cycle, idle>>
vars == <<keyboard, display, poll, queue, carousel, whole, failed>>

Threads == {"key", "cycle"} \cup Others
Writing(w) == at[w] # 0

(* zlg72128_probe; functionKey is 0, which reads as all keys held. *)
Init ==
  /\ latch = FALSE /\ held = {} /\ last = FuncKeys /\ status = {} /\ since = {} /\ chord = FALSE
  /\ poll = "queued" /\ queue = 0 /\ cycle = "boot" /\ idle = FALSE /\ failed = FALSE
  /\ whole \in BOOLEAN /\ regs \in [1..Digits -> {Blank} \cup Glyphs]
  /\ text = [w \in Threads |-> <<>>] /\ at = [w \in Threads |-> 0] /\ alone = {}

-----------------------------------------------------------------------------
(* The driver at the keypad, as long as it is looked at. *)
PressCommon ==
  /\ poll # "dead" /\ latch' = TRUE
  /\ UNCHANGED <<held, last, status, since, chord, display, poll, queue, carousel, whole, failed>>

MoveFunc(k) ==
  /\ poll # "dead" /\ held' = IF k \in held THEN held \ {k} ELSE held \cup {k}
  /\ chord' = (chord \/ since \ {k} # {})
  /\ since' = IF chord' THEN {} ELSE {k}
  /\ UNCHANGED <<latch, last, status, display, poll, queue, carousel, whole, failed>>

(* input_report_key with value 1, the only one hal_key_read returns for. *)
Report == queue' = IF queue < MaxQueue THEN queue + 1 ELSE queue

-----------------------------------------------------------------------------
(* keyboard_work_handle: the common key first, the function keys only if   *)
(* there was none. It queues itself again at its end. The return for a     *)
(* common key that is not in the list (key-zlg72128.c:311-315) is left     *)
(* out: the chip knows no key that the driver does not register.           *)
PollCommon ==
  /\ poll = "queued" /\ latch
  /\ latch' = FALSE /\ Report
  /\ UNCHANGED <<held, last, status, since, chord, display, poll, carousel, whole, failed>>

PollNone ==
  /\ poll = "queued" /\ ~latch
  /\ poll' = "func"
  /\ UNCHANGED <<keyboard, display, queue, carousel, whole, failed>>

(* The levels before, where 0 (all held) stands for none. *)
BeforeAsRead == last  \* fault: no test for 0
Before == IF last = FuncKeys THEN {} ELSE last
Changed == (held \ Before) \cup (Before \ held)

Remember == last' = held

ToggleSame == last' = held /\ status' = status \cup Changed  \* fault: keyStatus is never cleared
Toggle == Remember /\ status' = (status \ Changed) \cup (Changed \ status)

PollFuncOnce ==  \* fault: not queued again
  /\ poll = "func" /\ Cardinality(Changed) <= 1 /\ Remember /\ poll' = "waits" /\ since' = {}
  /\ UNCHANGED <<latch, held, status, chord, queue, display, carousel, whole, failed>>
PollFunc ==
  /\ poll = "func" /\ Cardinality(Changed) <= 1
  /\ Toggle /\ poll' = "queued" /\ since' = {}
  /\ IF Changed \subseteq status THEN UNCHANGED queue ELSE Report
  /\ UNCHANGED <<latch, held, chord, display, carousel, whole, failed>>

(* A mask of several keys is no key of the list: "unuse", and return. *)
PollChord ==
  /\ poll = "func" /\ Cardinality(Changed) > 1
  /\ Remember /\ poll' = "dead" /\ since' = {}
  /\ UNCHANGED <<latch, held, status, chord, display, queue, carousel, whole, failed>>

PollError ==
  /\ poll \in {"queued", "func"}
  /\ poll' = "dead" /\ failed' = TRUE
  /\ UNCHANGED <<keyboard, display, queue, carousel, whole>>

Poll == PollCommon \/ PollNone \/ PollFunc \/ PollChord

-----------------------------------------------------------------------------
(* hal_display_string: the characters with a glyph, at most Digits of them.*)
Known(s) == {i \in DOMAIN s : s[i] \in Glyphs}
Nth(S, k) == CHOOSE i \in S : Cardinality({j \in S : j < i}) = k - 1
FirstKnown(s, n) == [k \in 1..n |-> s[Nth(Known(s), k)]]

SegAll(s) == FirstKnown(s, Cardinality(Known(s)))  \* fault: no test n < 8
Seg(s) ==
  LET n == Cardinality(Known(s)) IN FirstKnown(s, IF n < Digits THEN n ELSE Digits)

(* The whole row with DISPBUF_SET from the left, or, when the driver does  *)
(* not know that ioctl, n pushes from the last character to the first.     *)
Show(w, t, n) ==
  /\ ~Writing(w)
  /\ text' = [text EXCEPT ![w] = t]
  /\ at' = [at EXCEPT ![w] = IF whole THEN 1 ELSE n]
  /\ alone' = IF \E v \in Threads : Writing(v) THEN {} ELSE {t}
  /\ UNCHANGED regs
ShowString(w, s) == Show(w, Seg(s), Len(Seg(s)))

Glyph(w) == IF at[w] <= Len(text[w]) THEN text[w][at[w]] ELSE Blank

PutGlyphOnly(w) ==  \* fault: the digits to the right are not blanked
  regs' = IF at[w] <= Len(text[w]) THEN [regs EXCEPT ![at[w]] = Glyph(w)] ELSE regs
Put(w) == regs' = [regs EXCEPT ![at[w]] = Glyph(w)]

(* zlg72128_digitron_disp_num: a blank first digit is overwritten, else    *)
(* the row is shifted. The older driver's transfers are taken as one step. *)
Push(w) ==
  regs' = [i \in 1..Digits |-> IF i = 1 THEN Glyph(w)
                               ELSE IF regs[1] = Blank THEN regs[i] ELSE regs[i - 1]]

Advance(w) ==
  /\ Writing(w)
  /\ at' = [at EXCEPT ![w] = IF ~whole THEN @ - 1 ELSE IF @ = Digits THEN 0 ELSE @ + 1]
  /\ text' = [text EXCEPT ![w] = IF at'[w] = 0 THEN <<>> ELSE @]
  /\ UNCHANGED <<alone, keyboard, poll, queue, carousel, whole, failed>>

WriteDigit(w) == Advance(w) /\ whole /\ Put(w)
PushDigit(w) == Advance(w) /\ ~whole /\ Push(w)

Write(w) == WriteDigit(w) \/ PushDigit(w)

-----------------------------------------------------------------------------
(* st->lock: the key thread shows what a key does, the cycle thread clears *)
(* the row at the start. Every key sets last_key before it unlocks.        *)
Locked == Writing("key") \/ (cycle = "clear" /\ Writing("cycle"))

KeyShow(s) ==
  /\ queue > 0 /\ ~Locked
  /\ ShowString("key", s)
  /\ queue' = queue - 1 /\ idle' = FALSE
  /\ UNCHANGED <<keyboard, poll, cycle, whole, failed>>

KeySilent ==
  /\ queue > 0 /\ ~Locked
  /\ queue' = queue - 1 /\ idle' = FALSE
  /\ UNCHANGED <<keyboard, display, poll, cycle, whole, failed>>

(* The verdict and the card number, shown without the lock: an operation,  *)
(* except for a verdict that fails.                                        *)
OtherShow(w, s) ==
  /\ ShowString(w, s) /\ idle' \in {idle, FALSE}
  /\ UNCHANGED <<keyboard, poll, queue, cycle, whole, failed>>

(* Ten seconds have passed since. *)
Rest ==
  /\ ~idle /\ ~Writing("key") /\ idle' = TRUE
  /\ UNCHANGED <<keyboard, display, poll, queue, cycle, whole, failed>>

(* taxi_cycle_thread: hal_display_clear once, then the idle clock is read  *)
(* under the lock and an item is shown after it, whatever comes between.   *)
CycleClear ==
  /\ cycle = "boot" /\ ~Locked
  /\ cycle' = "clear" /\ Show("cycle", <<>>, Digits)
  /\ UNCHANGED <<keyboard, poll, queue, idle, whole, failed>>

CycleTest ==
  /\ cycle \in {"clear", "rest"} /\ ~Writing("cycle") /\ ~Locked /\ idle
  /\ cycle' = "go"
  /\ UNCHANGED <<keyboard, display, poll, queue, idle, whole, failed>>

CycleShowOnce(s) ==  \* fault: the thread ends with the first item
  /\ cycle = "go" /\ ShowString("cycle", s) /\ cycle' = "ended"
  /\ UNCHANGED <<keyboard, poll, queue, idle, whole, failed>>
CycleShow(s) ==
  /\ cycle = "go"
  /\ cycle' = "rest" /\ ShowString("cycle", s)
  /\ UNCHANGED <<keyboard, poll, queue, idle, whole, failed>>

KeyThread == KeySilent \/ \E s \in Typed : KeyShow(s)
CycleThread == CycleClear \/ CycleTest \/ \E s \in Items : CycleShow(s)

Next ==
  \/ PressCommon \/ \E k \in Wired : MoveFunc(k)
  \/ Poll \/ PollError
  \/ KeyThread \/ CycleThread \/ Rest
  \/ \E w \in Others, s \in Items : OtherShow(w, s)
  \/ \E w \in Threads : Write(w)

Spec == Init /\ [][Next]_vars

(* The work queue runs, a thread that is writing goes on, and the cycle    *)
(* thread gets the lock when nobody else wants it. Nothing is assumed of   *)
(* the clock: keys may come too fast for it to reach 10 s.                 *)
FairSpec ==
  /\ Spec /\ WF_vars(Poll) /\ WF_vars(CycleThread)
  /\ \A w \in Threads : WF_vars(Write(w))

-----------------------------------------------------------------------------
(* Type invariant. No text is longer than the row. *)
TypeOK ==
  /\ held \subseteq Wired /\ last \subseteq FuncKeys /\ status \subseteq FuncKeys
  /\ since \subseteq Wired /\ chord \in BOOLEAN /\ latch \in BOOLEAN
  /\ poll \in {"queued", "func", "dead"} /\ cycle \in {"boot", "clear", "rest", "go"}
  /\ idle \in BOOLEAN
  /\ queue \in 0..MaxQueue /\ failed \in BOOLEAN /\ whole \in BOOLEAN
  /\ regs \in [1..Digits -> {Blank} \cup Glyphs] /\ at \in [Threads -> 0..Digits]
  /\ text \in [Threads -> Seq(Glyphs)] /\ \A w \in Threads : Len(text[w]) <= Digits

(* keyStatus, which only toggles, stays in step with the levels last read: *)
(* no press is taken for a release, from the first poll on.                *)
StatusFollows == poll # "dead" => status = Before

(* The polling stops for ever only when a transfer failed or two function  *)
(* keys were moved between two looks at them, never on its own.            *)
DiesOfChordOrFault == poll = "dead" => chord \/ failed

(* What the row shows once a text that nothing was written beside is out:  *)
(* all of it from the left, and blanks behind it if the driver can set the *)
(* whole row (display.c:20-21).                                            *)
Shows(t) ==
  /\ \A i \in 1..Len(t) : regs[i] = t[i]
  /\ whole => \A i \in Len(t) + 1..Digits : regs[i] = Blank
ShownWhole == (\A w \in Threads : ~Writing(w)) => \A t \in alone : Shows(t)

(* A function key that stays pressed is seen, if the polling goes on and   *)
(* no common key comes before it in every poll.                            *)
FuncKeySeen ==
  \A k \in Wired : <>[](k \in held /\ ~latch /\ poll # "dead") => <>[](k \in status)

(* A row left torn by two threads writing at once does not stay so: once   *)
(* the terminal is left alone, no key, card or verdict having come for the *)
(* 10 s of taxi.c:480 and nobody else writing, it shows some whole item    *)
(* again and again. Keys that come faster may keep a torn row for ever.    *)
RowHeals ==
  <>[](idle /\ \A w \in Threads \ {"cycle"} : ~Writing(w))
    => []<>(\E s \in Items : Shows(Seg(s)))
=============================================================================
