----------------------------- MODULE PanelProofs -----------------------------
(***************************************************************************)
(* Proofs about Panel, for any number of function keys, wired in any way   *)
(* that leaves at least one of them out, any number of threads that show a *)
(* text, any texts and a row of any length.                                *)
(***************************************************************************)
EXTENDS Panel, SequenceTheorems, FiniteSetTheorems, WellFoundedInduction, TLAPS

(* Everything but the keyboard's own steps leaves its variables alone.     *)
Keys == <<held, last, status, since, chord>>

LEMMA Elsewhere ==
  ASSUME \/ PressCommon \/ PollCommon \/ PollNone \/ KeyThread \/ CycleThread \/ Rest
         \/ \E w \in Others, s \in Items : OtherShow(w, s)
         \/ \E w \in Threads : Write(w)
  PROVE  UNCHANGED <<Keys, failed>> /\ (poll' = "dead" <=> poll = "dead")
<1> USE DEF Keys, keyboard
<1>1. CASE PressCommon \/ PollCommon \/ PollNone
      BY <1>1 DEF PressCommon, PollCommon, PollNone
<1>2. CASE KeyThread \/ \E w \in Others, s \in Items : OtherShow(w, s)
      BY <1>2 DEF KeyThread, KeyShow, KeySilent, OtherShow
<1>3. CASE CycleThread \/ Rest
      BY <1>3 DEF CycleThread, CycleClear, CycleTest, CycleShow, Rest
<1>4. CASE \E w \in Threads : Write(w)  BY <1>4 DEF Write, WriteDigit, PushDigit, Advance
<1> QED  BY <1>1, <1>2, <1>3, <1>4

-----------------------------------------------------------------------------
(* The keys that are held are wired, so they never are all of FuncKeys,    *)
(* which last stands for only until the first look at the function keys.   *)
InStep ==
  /\ held \subseteq Wired
  /\ StatusFollows

LEMMA HeldNotAll ==
  ASSUME held \subseteq Wired  PROVE  held # FuncKeys
BY PanelAssumption

LEMMA InStepInv == Spec => []InStep
<1>1. Init => InStep  BY DEF Init, InStep, StatusFollows, Before
<1>2. InStep /\ [Next]_vars => InStep'
  <2> SUFFICES ASSUME InStep, [Next]_vars PROVE InStep'  OBVIOUS
  <2> USE DEF InStep, StatusFollows, Before
  <2>1. CASE UNCHANGED vars  BY <2>1 DEF vars, keyboard
  <2>2. ASSUME NEW k \in Wired, MoveFunc(k) PROVE InStep'  BY <2>2 DEF MoveFunc
  <2>3. CASE PollFunc
    <3>1. status' = held  BY <2>3 DEF PollFunc, Toggle, Changed
    <3>2. last' = held /\ held' = held  BY <2>3 DEF PollFunc, Toggle, Remember
    <3> QED  BY <3>1, <3>2, HeldNotAll
  <2>4. CASE PollChord \/ PollError
        BY <2>4 DEF PollChord, PollError, keyboard
  <2> QED  BY <2>1, <2>2, <2>3, <2>4, Elsewhere DEF Next, Poll, Keys
<1> QED  BY <1>1, <1>2, PTL DEF Spec

(* keyStatus, which each report toggles, never gets out of step with the   *)
(* levels the driver remembers, as long as it polls.                       *)
THEOREM StatusInStep == Spec => []StatusFollows
<1>1. InStep => StatusFollows  BY DEF InStep
<1> QED  BY <1>1, InStepInv, PTL

-----------------------------------------------------------------------------
(* As long as no two function keys moved between two looks, what a look    *)
(* finds changed is at most the one key that moved.                        *)
OneMoved ==
  /\ DiesOfChordOrFault
  /\ poll # "dead" /\ ~chord => /\ Changed \subseteq since
                                /\ since = {} \/ \E k \in Wired : since = {k}

LEMMA OneOrNone ==
  ASSUME NEW S, NEW k, S \subseteq {k}  PROVE  Cardinality(S) \in {0, 1}
<1>1. CASE S = {}  BY <1>1, FS_EmptySet
<1>2. CASE S = {k}  BY <1>2, FS_Singleton
<1> QED  BY <1>1, <1>2

(* The polling ends for ever only by a failed transfer or by two function  *)
(* keys moved between two looks at them.                                   *)
THEOREM DiesOnlyOfThese == Spec => []DiesOfChordOrFault
<1>1. Init => OneMoved
      BY DEF Init, OneMoved, DiesOfChordOrFault, Changed, Before
<1>2. InStep /\ OneMoved /\ [Next]_vars => OneMoved'
  <2> SUFFICES ASSUME InStep, OneMoved, [Next]_vars PROVE OneMoved'  OBVIOUS
  <2> USE DEF OneMoved, DiesOfChordOrFault
  <2>1. CASE UNCHANGED vars  BY <2>1 DEF vars, keyboard, Changed, Before
  <2>2. ASSUME NEW k \in Wired, MoveFunc(k) PROVE OneMoved'
        BY <2>2 DEF MoveFunc, Changed, Before
  <2>3. CASE PollFunc
    <3>1. last' = held /\ held' = held /\ held # FuncKeys
          BY <2>3, HeldNotAll DEF PollFunc, Toggle, Remember, InStep
    <3>2. Changed' = {}  BY <3>1 DEF Changed, Before
    <3> QED  BY <2>3, <3>2 DEF PollFunc
  <2>4. CASE PollChord
    <3>1. chord \/ Cardinality(Changed) \in {0, 1}
      <4> SUFFICES ASSUME ~chord PROVE Cardinality(Changed) \in {0, 1}  OBVIOUS
      <4>1. \E k : Changed \subseteq {k}  BY <2>4 DEF PollChord
      <4> QED  BY <4>1, OneOrNone
    <3>2. chord  BY <2>4, <3>1 DEF PollChord
    <3> QED  BY <2>4, <3>2 DEF PollChord
  <2>5. CASE PollError  BY <2>5 DEF PollError
  <2>6. ASSUME UNCHANGED <<Keys, failed>>, poll' = "dead" <=> poll = "dead" PROVE OneMoved'
        BY <2>6 DEF Keys, Changed, Before
  <2> QED  BY <2>1, <2>2, <2>3, <2>4, <2>5, <2>6, Elsewhere DEF Next, Poll
<1>3. OneMoved => DiesOfChordOrFault  BY DEF OneMoved
<1> QED  BY <1>1, <1>2, <1>3, InStepInv, PTL DEF Spec

-----------------------------------------------------------------------------
(* What hal_display_string makes of a text: characters with a glyph, at    *)
(* most as many as there are digits.                                       *)
LEMMA LeastOf ==
  ASSUME NEW S \in SUBSET Nat, S # {}
  PROVE  \E n \in S : \A m \in S : n <= m
<1> DEFINE R == StrictSubsetOrdering(Nat)
           T == {1..n : n \in S}
<1>1. IsWellFoundedOn(R, FiniteSubsetsOf(Nat))  BY FS_StrictSubsetOrderingWellFounded
<1>2. T \subseteq FiniteSubsetsOf(Nat) /\ T # {}
  <2>1. \A n \in S : IsFiniteSet(1..n) /\ 1..n \subseteq Nat  BY FS_Interval
  <2> QED  BY <2>1 DEF FiniteSubsetsOf
<1>3. PICK x \in T : \A y \in T : <<y, x>> \notin R
  <2> HIDE DEF R, T
  <2> QED  BY <1>1, <1>2, WFMin
<1>4. PICK n \in S : x = 1..n  OBVIOUS
<1>5. ASSUME NEW m \in S  PROVE n <= m
  <2> DEFINE a == 1..m
             b == 1..n
  <2>1. a \in T /\ b = x  BY <1>4
  <2>2. <<a, b>> \notin R
    <3> HIDE DEF a, b, R, T
    <3> QED  BY <1>3, <2>1
  <2>3. m < n => a \subseteq b /\ n \in b /\ n \notin a  OBVIOUS
  <2>4. a \in SUBSET Nat /\ b \in SUBSET Nat  OBVIOUS
  <2> HIDE DEF a, b
  <2>5. ~(a \subseteq b /\ a # b)  BY <2>2, <2>4 DEF StrictSubsetOrdering
  <2> QED  BY <2>3, <2>5
<1> QED  BY <1>5

LEMMA FiniteIn ==
  ASSUME NEW b \in Nat, NEW S \in SUBSET (1..b)
  PROVE  IsFiniteSet(S) /\ Cardinality(S) \in Nat
<1>1. IsFiniteSet(1..b)  BY FS_Interval
<1>2. IsFiniteSet(S)  BY <1>1, FS_Subset
<1> QED  BY <1>2, FS_CardinalityType

LEMMA NthIs ==
  ASSUME NEW b \in Nat, NEW S \in SUBSET (1..b), NEW k \in 1..Cardinality(S)
  PROVE  Nth(S, k) \in S
<1> DEFINE Below(n) == {j \in S : j < n}
           Enough == {n \in Nat : Cardinality(Below(n)) >= k}
<1>1. IsFiniteSet(S) /\ Cardinality(S) \in Nat  BY FiniteIn
<1>2. \A n \in Nat : IsFiniteSet(Below(n)) /\ Cardinality(Below(n)) \in Nat
      BY <1>1, FS_Subset, FS_CardinalityType
<1>3. PICK n \in Enough : \A m \in Enough : n <= m
  <2>1. Below(b + 1) = S
    <3>1. \A j \in S : j < b + 1  OBVIOUS
    <3> QED  BY <3>1
  <2>2. b + 1 \in Enough  BY <1>1, <2>1
  <2> HIDE DEF Enough
  <2>3. Enough \in SUBSET Nat  BY DEF Enough
  <2> QED  BY <2>2, <2>3, LeastOf
<1>4. n # 0
  <2>1. Below(0) = {}
    <3>1. \A j \in S : ~(j < 0)  OBVIOUS
    <3> QED  BY <3>1
  <2>2. Cardinality(Below(0)) = 0  BY <2>1, FS_EmptySet
  <2> QED  BY <1>3, <2>2
<1>5. n - 1 \in Nat /\ ~(Cardinality(Below(n - 1)) >= k)  BY <1>3, <1>4
<1>6. n - 1 \in S /\ Cardinality(Below(n - 1)) = k - 1
  <2>1. Below(n) = IF n - 1 \in S THEN Below(n - 1) \cup {n - 1} ELSE Below(n - 1)
    <3>1. \A j \in S : j \in Int  OBVIOUS
    <3>2. \A j \in S : j < n <=> j < n - 1 \/ j = n - 1  BY <1>3, <3>1
    <3>3. ~(n - 1 < n - 1)  BY <1>5
    <3> HIDE DEF Enough
    <3> QED  BY <3>2, <3>3
  <2>2. n - 1 \notin Below(n - 1)  OBVIOUS
  <2>3. Cardinality(Below(n - 1) \cup {n - 1}) = Cardinality(Below(n - 1)) + 1
        BY <1>2, <1>5, <2>2, FS_AddElement
  <2>4. Cardinality(Below(n)) >= k  BY <1>3
  <2> HIDE DEF Below, Enough
  <2>5. Cardinality(Below(n - 1)) \in Nat  BY <1>2, <1>5
  <2>6. n - 1 \in S  BY <1>5, <2>1, <2>4
  <2> QED  BY <1>5, <2>1, <2>3, <2>4, <2>5, <2>6
<1> QED  BY <1>6 DEF Nth

LEMMA SegIs ==
  ASSUME NEW s \in Seq(STRING)
  PROVE  Seg(s) \in Seq(Glyphs) /\ Len(Seg(s)) <= Digits
<1> DEFINE c == Cardinality(Known(s))
           n == IF c < Digits THEN c ELSE Digits
<1>1. Known(s) \in SUBSET (1..Len(s)) /\ Len(s) \in Nat  BY DEF Known
<1>2. c \in Nat  BY <1>1, FiniteIn
<1>3. n \in Nat /\ n <= Digits /\ n <= c  BY <1>2, PanelAssumption
<1> HIDE DEF n
<1>4. \A k \in 1..n : s[Nth(Known(s), k)] \in Glyphs
  <2> SUFFICES ASSUME NEW k \in 1..n PROVE s[Nth(Known(s), k)] \in Glyphs  OBVIOUS
  <2>1. k \in 1..c  BY <1>2, <1>3
  <2>2. Nth(Known(s), k) \in Known(s)  BY <1>1, <2>1, NthIs
  <2> QED  BY <2>2 DEF Known
<1>5. Seg(s) = [k \in 1..n |-> s[Nth(Known(s), k)]]  BY DEF Seg, FirstKnown, n
<1>6. Seg(s) \in [1..n -> Glyphs]  BY <1>4, <1>5
<1>7. Seg(s) \in Seq(Glyphs) /\ Len(Seg(s)) = n  BY <1>3, <1>6
<1> QED  BY <1>3, <1>7

-----------------------------------------------------------------------------
(* A step shows a text, writes a digit, or leaves the row and its writers  *)
(* alone; what is shown is a text of hal_display_string or the empty one   *)
(* that hal_display_clear pushes Digits blanks for.                        *)
Texts == {t \in Seq(Glyphs) : Len(t) <= Digits}
Shown(w, t, n) == Show(w, t, n) /\ (n = Len(t) \/ (t = <<>> /\ n = Digits))

LEMMA NoText == <<>> \in Texts /\ Len(<<>>) = 0
BY EmptySeq, PanelAssumption DEF Texts

LEMMA DisplaySteps ==
  ASSUME [Next]_vars
  PROVE  /\ whole' = whole
         /\ \/ UNCHANGED display
            \/ \E w \in Threads, t \in Texts, n \in 0..Digits : Shown(w, t, n)
            \/ \E w \in Threads : Write(w)
<1> USE DEF display
<1>1. ASSUME NEW w \in Threads, NEW s \in Seq(STRING), ShowString(w, s)
      PROVE  \E t \in Texts, n \in 0..Digits : Shown(w, t, n)
  <2>1. Seg(s) \in Texts /\ Len(Seg(s)) \in 0..Digits
        BY SegIs, PanelAssumption DEF Texts
  <2>2. Show(w, Seg(s), Len(Seg(s)))  BY <1>1 DEF ShowString
  <2>3. Shown(w, Seg(s), Len(Seg(s)))  BY <2>2 DEF Shown
  <2> QED  BY <2>1, <2>3
<1>2. Typed \subseteq Seq(STRING) /\ Items \subseteq Seq(STRING)
      /\ "key" \in Threads /\ "cycle" \in Threads /\ Others \subseteq Threads
      BY PanelAssumption DEF Threads
<1>3. CASE UNCHANGED vars  BY <1>3 DEF vars
<1>4. CASE PressCommon \/ (\E k \in Wired : MoveFunc(k)) \/ Poll \/ PollError
      BY <1>4 DEF PressCommon, MoveFunc, Poll, PollCommon, PollNone, PollFunc, PollChord, PollError
<1>5. CASE KeyThread  BY <1>1, <1>2, <1>5 DEF KeyThread, KeySilent, KeyShow
<1>6. CASE CycleThread
  <2>1. CASE CycleClear
    <3>1. Show("cycle", <<>>, Digits) /\ whole' = whole  BY <2>1 DEF CycleClear
    <3>2. Digits \in 0..Digits  BY PanelAssumption
    <3> QED  BY <1>2, <3>1, <3>2, NoText DEF Shown
  <2>2. CASE \E s \in Items : CycleShow(s)  BY <1>1, <1>2, <2>2 DEF CycleShow
  <2>3. CASE CycleTest  BY <2>3 DEF CycleTest
  <2> QED  BY <1>6, <2>1, <2>2, <2>3 DEF CycleThread
<1>7. CASE \E w \in Others, s \in Items : OtherShow(w, s)
      BY <1>1, <1>2, <1>7 DEF OtherShow
<1>8. CASE \E w \in Threads : Write(w)  BY <1>8 DEF Write, WriteDigit, PushDigit, Advance
<1>9. CASE Rest  BY <1>9 DEF Rest
<1> QED  BY <1>3, <1>4, <1>5, <1>6, <1>7, <1>8, <1>9 DEF Next

RowType ==
  /\ whole \in BOOLEAN /\ regs \in [1..Digits -> {Blank} \cup Glyphs]
  /\ at \in [Threads -> 0..Digits] /\ text \in [Threads -> Texts]

(* What one digit's transfer does to the row.                              *)
LEMMA Moves ==
  ASSUME RowType, NEW w \in Threads, Write(w)
  PROVE  /\ at[w] \in 1..Digits /\ alone' = alone
         /\ at' = [at EXCEPT ![w] = IF ~whole THEN at[w] - 1
                                    ELSE IF at[w] = Digits THEN 0 ELSE at[w] + 1]
         /\ text' = [text EXCEPT ![w] = IF at'[w] = 0 THEN <<>> ELSE text[w]]
         /\ Glyph(w) = IF at[w] <= Len(text[w]) THEN text[w][at[w]] ELSE Blank
         /\ Glyph(w) \in {Blank} \cup Glyphs
         /\ IF whole THEN Put(w) ELSE Push(w)
<1> USE DEF RowType
<1>1. at[w] \in 1..Digits  BY PanelAssumption DEF Write, WriteDigit, PushDigit, Advance, Writing
<1>2. /\ alone' = alone
      /\ at' = [at EXCEPT ![w] = IF ~whole THEN at[w] - 1
                                 ELSE IF at[w] = Digits THEN 0 ELSE at[w] + 1]
      /\ text' = [text EXCEPT ![w] = IF at'[w] = 0 THEN <<>> ELSE text[w]]
      BY DEF Write, WriteDigit, PushDigit, Advance
<1>3. Glyph(w) = IF at[w] <= Len(text[w]) THEN text[w][at[w]] ELSE Blank  BY DEF Glyph
<1>4. Glyph(w) \in {Blank} \cup Glyphs
  <2>1. text[w] \in Seq(Glyphs)  BY DEF Texts
  <2>2. at[w] <= Len(text[w]) => at[w] \in 1..Len(text[w])  BY <1>1, <2>1
  <2> QED  BY <1>3, <2>1, <2>2
<1>5. IF whole THEN Put(w) ELSE Push(w)  BY DEF Write, WriteDigit, PushDigit
<1> QED  BY <1>1, <1>2, <1>3, <1>4, <1>5

LEMMA RowTypeInv == Spec => []RowType
<1>1. Init => RowType  BY NoText, PanelAssumption DEF Init, RowType
<1>2. RowType /\ [Next]_vars => RowType'
  <2> SUFFICES ASSUME RowType, [Next]_vars PROVE RowType'  OBVIOUS
  <2>1. whole' = whole  BY DisplaySteps
  <2>2. CASE UNCHANGED display  BY <2>1, <2>2 DEF RowType, display
  <2>3. ASSUME NEW w \in Threads, NEW t \in Texts, NEW n \in 0..Digits, Shown(w, t, n)
        PROVE  RowType'
    <3>1. (IF whole THEN 1 ELSE n) \in 0..Digits  BY PanelAssumption
    <3> QED  BY <2>1, <2>3, <3>1 DEF RowType, Shown, Show
  <2>4. ASSUME NEW w \in Threads, Write(w) PROVE RowType'
    <3>1. at[w] \in 1..Digits /\ Glyph(w) \in {Blank} \cup Glyphs  BY <2>4, Moves
    <3>2. (IF ~whole THEN at[w] - 1 ELSE IF at[w] = Digits THEN 0 ELSE at[w] + 1) \in 0..Digits
          BY <3>1, PanelAssumption
    <3>3. at' \in [Threads -> 0..Digits]  BY <2>4, <3>2, Moves DEF RowType
    <3>4. text' \in [Threads -> Texts]  BY <2>4, Moves, NoText DEF RowType
    <3>5. regs' \in [1..Digits -> {Blank} \cup Glyphs]
      <4>1. CASE whole  BY <2>4, <3>1, <4>1, Moves DEF RowType, Put
      <4>2. CASE ~whole
        <5>1. Push(w)  BY <2>4, <4>2, Moves
        <5>2. \A i \in 1..Digits : i # 1 => i - 1 \in 1..Digits  BY PanelAssumption
        <5>3. \A i \in 1..Digits : (IF i = 1 THEN Glyph(w)
                                    ELSE IF regs[1] = Blank THEN regs[i] ELSE regs[i - 1])
                                   \in {Blank} \cup Glyphs
              BY <3>1, <5>2 DEF RowType
        <5> QED  BY <5>1, <5>3 DEF Push
      <4> QED  BY <4>1, <4>2
    <3> QED  BY <2>1, <3>3, <3>4, <3>5 DEF RowType
  <2> QED  BY <2>2, <2>3, <2>4, DisplaySteps
<1> QED  BY <1>1, <1>2, PTL DEF Spec

(* Everything keeps its type; above all no text a thread writes is longer  *)
(* than the row, whatever it was made from.                                *)
KeysType ==
  /\ held \subseteq Wired /\ last \subseteq FuncKeys /\ status \subseteq FuncKeys
  /\ since \subseteq Wired /\ chord \in BOOLEAN /\ latch \in BOOLEAN
  /\ poll \in {"queued", "func", "dead"} /\ cycle \in {"boot", "clear", "rest", "go"}
  /\ idle \in BOOLEAN
  /\ queue \in 0..MaxQueue /\ failed \in BOOLEAN

THEOREM TypeCorrect == Spec => []TypeOK
<1>1. Init => KeysType
  <2>1. 0 \in 0..MaxQueue  BY PanelAssumption
  <2> QED  BY <2>1 DEF Init, KeysType
<1>2. KeysType /\ [Next]_vars => KeysType'
  <2> SUFFICES ASSUME KeysType, [Next]_vars PROVE KeysType'  OBVIOUS
  <2> USE PanelAssumption DEF KeysType, keyboard, carousel
  <2>1. CASE UNCHANGED vars  BY <2>1 DEF vars
  <2>2. CASE PressCommon \/ PollError  BY <2>2 DEF PressCommon, PollError
  <2>3. ASSUME NEW k \in Wired, MoveFunc(k) PROVE KeysType'  BY <2>3 DEF MoveFunc
  <2>4. CASE PollCommon \/ PollNone
    <3>1. queue' \in 0..MaxQueue  BY <2>4 DEF PollCommon, PollNone, Report
    <3> QED  BY <2>4, <3>1 DEF PollCommon, PollNone
  <2>5. CASE PollFunc
    <3>1. Changed \subseteq FuncKeys  BY DEF Changed, Before
    <3>2. queue' \in 0..MaxQueue  BY <2>5 DEF PollFunc, Report
    <3> QED  BY <2>5, <3>1, <3>2 DEF PollFunc, Toggle, Remember
  <2>6. CASE PollChord  BY <2>6 DEF PollChord, Remember
  <2>7. CASE KeyThread
    <3>1. queue' \in 0..MaxQueue  BY <2>7 DEF KeyThread, KeyShow, KeySilent
    <3>2. /\ idle' = FALSE /\ UNCHANGED <<keyboard, poll, cycle, failed>>
          BY <2>7, Zenon DEF KeyThread, KeyShow, KeySilent
    <3> QED  BY <3>1, <3>2
  <2>8. CASE CycleThread \/ Rest
        BY <2>8 DEF CycleThread, CycleClear, CycleTest, CycleShow, Rest
  <2>9. ASSUME NEW w \in Others, NEW s \in Items, OtherShow(w, s) PROVE KeysType'
    <3>1. idle' \in {idle, FALSE} /\ UNCHANGED <<keyboard, poll, queue, cycle, failed>>
          BY <2>9 DEF OtherShow
    <3>2. idle' \in BOOLEAN  BY <3>1, Zenon
    <3> QED  BY <3>1, <3>2
  <2>10. CASE \E w \in Threads : Write(w)
         BY <2>10 DEF Write, WriteDigit, PushDigit, Advance
  <2> QED  BY <2>1, <2>2, <2>3, <2>4, <2>5, <2>6, <2>7, <2>8, <2>9, <2>10 DEF Next, Poll
<1>3. KeysType /\ RowType => TypeOK
  <2> SUFFICES ASSUME KeysType, RowType PROVE TypeOK  OBVIOUS
  <2>1. text \in [Threads -> Seq(Glyphs)] /\ \A w \in Threads : Len(text[w]) <= Digits
        BY DEF RowType, Texts
  <2> QED  BY <2>1 DEF KeysType, RowType, TypeOK
<1> QED  BY <1>1, <1>2, <1>3, RowTypeInv, PTL DEF Spec

-----------------------------------------------------------------------------
(* A text that nothing is written beside is out, or one thread is writing  *)
(* it and its part that is out stands where it will be in the end: from    *)
(* the left with DISPBUF_SET, its last characters with pushes.             *)
NoneWriting == \A w \in Threads : ~Writing(w)

Partial(t, n) ==
  IF whole
  THEN \A i \in 1..n - 1 : regs[i] = IF i <= Len(t) THEN t[i] ELSE Blank
  ELSE (n <= Len(t) \/ t = <<>>) /\ \A i \in 1..Len(t) - n : regs[i] = t[n + i]

WrittenBy(w, t) ==
  /\ Writing(w) /\ \A v \in Threads \ {w} : ~Writing(v)
  /\ text[w] = t /\ Partial(t, at[w])

RowInv ==
  \A t \in alone : /\ t \in Texts
                   /\ (NoneWriting /\ Shows(t)) \/ \E w \in Threads : WrittenBy(w, t)

(* A digit more of a text that is written alone, or its last one.          *)
LEMMA WriteOn ==
  ASSUME RowType, NEW w \in Threads, NEW t \in Texts, WrittenBy(w, t), Write(w), whole' = whole
  PROVE  (NoneWriting /\ Shows(t))' \/ WrittenBy(w, t)'
<1>1. /\ at[w] \in 1..Digits /\ text[w] = t /\ at \in [Threads -> 0..Digits]
      /\ at' = [at EXCEPT ![w] = IF ~whole THEN at[w] - 1
                                 ELSE IF at[w] = Digits THEN 0 ELSE at[w] + 1]
      /\ text' = [text EXCEPT ![w] = IF at'[w] = 0 THEN <<>> ELSE text[w]]
      /\ Glyph(w) = IF at[w] <= Len(t) THEN t[at[w]] ELSE Blank
      /\ IF whole THEN Put(w) ELSE Push(w)
      BY Moves DEF WrittenBy, RowType
<1>2. /\ Digits \in Nat \ {0} /\ Blank \notin Glyphs
      /\ t \in Seq(Glyphs) /\ Len(t) \in Nat /\ Len(t) <= Digits
      BY PanelAssumption DEF Texts
<1>3. regs \in [1..Digits -> {Blank} \cup Glyphs] /\ whole \in BOOLEAN
      /\ text \in [Threads -> Texts]
      BY DEF RowType
<1>4. \A v \in Threads \ {w} : ~Writing(v) /\ ~Writing(v)'
  <2>1. \A v \in Threads \ {w} : at'[v] = at[v]  BY <1>1
  <2> QED  BY <2>1 DEF WrittenBy, Writing
<1>5. at'[w] # 0 => Writing(w)' /\ text'[w] = t  BY <1>1, <1>3 DEF Writing
<1>6. at'[w] = 0 => NoneWriting'  BY <1>4 DEF NoneWriting, Writing
<1>7. CASE whole
  <2>1. regs' = [regs EXCEPT ![at[w]] = IF at[w] <= Len(t) THEN t[at[w]] ELSE Blank]
        BY <1>1, <1>7 DEF Put
  <2>2. \A i \in 1..at[w] - 1 : regs[i] = IF i <= Len(t) THEN t[i] ELSE Blank
        BY <1>1, <1>7 DEF WrittenBy, Partial
  <2>3. \A i \in 1..at[w] : regs'[i] = IF i <= Len(t) THEN t[i] ELSE Blank
        BY <1>1, <1>3, <2>1, <2>2
  <2>4. CASE at[w] = Digits
    <3>1. at'[w] = 0  BY <1>1, <1>7, <2>4
    <3>2. Shows(t)'  BY <1>2, <2>3, <2>4 DEF Shows
    <3> QED  BY <1>6, <3>1, <3>2
  <2>5. CASE at[w] # Digits
    <3>1. at'[w] = at[w] + 1  BY <1>1, <1>7, <2>5
    <3>2. at'[w] # 0 /\ at'[w] - 1 = at[w]  BY <1>1, <3>1
    <3>3. Partial(t, at[w])'  BY <1>7, <2>3, <3>2 DEF Partial
    <3> QED  BY <1>4, <1>5, <3>2, <3>3 DEF WrittenBy
  <2> QED  BY <2>4, <2>5
<1>8. CASE ~whole
  <2>1. at'[w] = at[w] - 1 /\ at'[w] \in Nat  BY <1>1, <1>8
  <2>2. /\ at[w] <= Len(t) \/ t = <<>>
        /\ \A i \in 1..Len(t) - at[w] : regs[i] = t[at[w] + i]
        BY <1>1, <1>8 DEF WrittenBy, Partial
  <2>3. \A i \in 1..Len(t) - (at[w] - 1) : regs'[i] = t[at[w] - 1 + i]
    <3>1. CASE t = <<>>
      <4>1. Len(t) = 0  BY <3>1, EmptySeq
      <4> QED  BY <1>1, <4>1
    <3>2. CASE at[w] <= Len(t)
      <4>1. regs' = [i \in 1..Digits |-> IF i = 1 THEN t[at[w]]
                       ELSE IF regs[1] = Blank THEN regs[i] ELSE regs[i - 1]]
            BY <1>1, <1>8, <3>2 DEF Push
      <4>2. at[w] < Len(t) => regs[1] # Blank
        <5> SUFFICES ASSUME at[w] < Len(t) PROVE regs[1] # Blank  OBVIOUS
        <5>1. 1 \in 1..Len(t) - at[w] /\ at[w] + 1 \in 1..Len(t)  BY <1>1, <1>2
        <5>2. regs[1] = t[at[w] + 1]  BY <2>2, <5>1
        <5> QED  BY <1>2, <5>1, <5>2
      <4> SUFFICES ASSUME NEW i \in 1..Len(t) - (at[w] - 1)
                   PROVE  regs'[i] = t[at[w] - 1 + i]
          OBVIOUS
      <4>3. i \in 1..Digits  BY <1>1, <1>2
      <4>4. CASE i = 1
        <5>1. at[w] - 1 + i = at[w]  BY <1>1, <4>4
        <5> QED  BY <4>1, <4>3, <4>4, <5>1
      <4>5. CASE i # 1
        <5>1. /\ at[w] < Len(t) /\ i - 1 \in 1..Len(t) - at[w]
              /\ at[w] + (i - 1) = at[w] - 1 + i
              BY <1>1, <1>2, <4>5
        <5>2. regs'[i] = regs[i - 1]  BY <4>1, <4>2, <4>3, <4>5, <5>1
        <5> QED  BY <2>2, <5>1, <5>2
      <4> QED  BY <4>4, <4>5
    <3> QED  BY <2>2, <3>1, <3>2
  <2>4. at[w] - 1 <= Len(t) \/ t = <<>>  BY <1>1, <1>2, <2>2
  <2>5. CASE at'[w] = 0
    <3>1. \A i \in 1..Len(t) : regs'[i] = t[i]
      <4>1. at[w] = 1  BY <1>1, <2>1, <2>5
      <4>2. \A i \in 1..Len(t) : i \in 1..Len(t) - (at[w] - 1) /\ at[w] - 1 + i = i
            BY <1>2, <4>1
      <4> QED  BY <2>3, <4>2
    <3>2. Shows(t)'  BY <1>8, <3>1 DEF Shows
    <3> QED  BY <1>6, <2>5, <3>2
  <2>6. CASE at'[w] # 0
    <3>1. Partial(t, at[w])'  BY <1>8, <2>1, <2>3, <2>4 DEF Partial
    <3> QED  BY <1>4, <1>5, <2>6, <3>1 DEF WrittenBy
  <2> QED  BY <2>5, <2>6
<1> QED  BY <1>3, <1>7, <1>8

(* The first state of a text that is written alone.                        *)
LEMMA BeginsAlone ==
  ASSUME RowType, NoneWriting, NEW w \in Threads, NEW t \in Texts, NEW n \in 0..Digits,
         Shown(w, t, n), whole' = whole
  PROVE  (NoneWriting /\ Shows(t))' \/ WrittenBy(w, t)'
<1>1. /\ text'[w] = t /\ regs' = regs
      /\ at' = [at EXCEPT ![w] = IF whole THEN 1 ELSE n] /\ at \in [Threads -> 0..Digits]
      /\ n = Len(t) \/ (t = <<>> /\ n = Digits)
      BY DEF RowType, Shown, Show
<1>2. \A v \in Threads \ {w} : ~Writing(v)'  BY <1>1 DEF NoneWriting, Writing
<1>3. Len(t) \in Nat /\ (t = <<>> => Len(t) = 0) /\ (Len(t) = 0 => t = <<>>)
      /\ Digits \in Nat \ {0}
      BY PanelAssumption, EmptySeq DEF Texts
<1>4. CASE whole
  <2>1. at'[w] = 1 /\ Writing(w)'  BY <1>1, <1>4 DEF Writing
  <2>2. Partial(t, at[w])'  BY <1>4, <2>1 DEF Partial
  <2> QED  BY <1>1, <1>2, <2>1, <2>2 DEF WrittenBy
<1>5. CASE ~whole /\ n # 0
  <2>1. at'[w] = n /\ Writing(w)'  BY <1>1, <1>5 DEF Writing
  <2>2. Len(t) - n <= 0 /\ (n <= Len(t) \/ t = <<>>)  BY <1>1, <1>3
  <2>3. 1..Len(t) - n = {}  BY <1>3, <2>2
  <2>4. Partial(t, at[w])'  BY <1>5, <2>1, <2>2, <2>3 DEF Partial
  <2> QED  BY <1>1, <1>2, <2>1, <2>4 DEF WrittenBy
<1>6. CASE ~whole /\ n = 0
  <2>1. at'[w] = 0 /\ Len(t) = 0  BY <1>1, <1>3, <1>6
  <2>2. NoneWriting'  BY <1>2, <2>1 DEF NoneWriting, Writing
  <2>3. Shows(t)'  BY <1>6, <2>1 DEF Shows
  <2> QED  BY <2>2, <2>3
<1> QED  BY <1>4, <1>5, <1>6 DEF RowType

(* Whatever number of threads show texts, one that nothing was written     *)
(* beside stands in the row whole: from the left, and with blanks behind   *)
(* it if the driver can set the whole row.                                 *)
THEOREM TextsAreShown == Spec => []ShownWhole
<1>1. Init => RowInv  BY DEF Init, RowInv
<1>2. RowType /\ RowInv /\ [Next]_vars => RowInv'
  <2> SUFFICES ASSUME RowType, RowInv, [Next]_vars PROVE RowInv'  OBVIOUS
  <2>1. whole' = whole  BY DisplaySteps
  <2>2. CASE UNCHANGED display
        BY <2>1, <2>2 DEF display, RowInv, NoneWriting, Shows, WrittenBy, Partial, Writing
  <2>3. ASSUME NEW w \in Threads, NEW t \in Texts, NEW n \in 0..Digits, Shown(w, t, n)
        PROVE  RowInv'
    <3>1. CASE NoneWriting
      <4>1. alone' = {t}  BY <2>3, <3>1 DEF Shown, Show, NoneWriting
      <4> QED  BY <2>1, <2>3, <3>1, <4>1, BeginsAlone DEF RowInv
    <3>2. CASE ~NoneWriting
      <4>1. alone' = {}  BY <2>3, <3>2 DEF Shown, Show, NoneWriting
      <4> QED  BY <4>1 DEF RowInv
    <3> QED  BY <3>1, <3>2
  <2>4. ASSUME NEW w \in Threads, Write(w) PROVE RowInv'
    <3>1. alone' = alone /\ Writing(w)  BY <2>4 DEF Write, WriteDigit, PushDigit, Advance
    <3> SUFFICES ASSUME NEW t \in alone
                 PROVE  t \in Texts /\ ((NoneWriting /\ Shows(t))' \/ \E v \in Threads : WrittenBy(v, t)')
        BY <3>1 DEF RowInv
    <3>2. t \in Texts /\ WrittenBy(w, t)  BY <3>1 DEF RowInv, NoneWriting, WrittenBy
    <3> QED  BY <2>1, <2>4, <3>2, WriteOn
  <2> QED  BY <2>2, <2>3, <2>4, DisplaySteps
<1>3. RowInv => ShownWhole
  <2> SUFFICES ASSUME RowInv, NoneWriting, NEW t \in alone PROVE Shows(t)  BY DEF ShownWhole, NoneWriting
  <2> QED  BY DEF RowInv, NoneWriting, WrittenBy
<1> QED  BY <1>1, <1>2, <1>3, RowTypeInv, PTL DEF Spec
=============================================================================
