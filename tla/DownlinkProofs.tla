---------------------------- MODULE DownlinkProofs ----------------------------
(***************************************************************************)
(* Proofs about Downlink, for any number of messages and any buffer.       *)
(***************************************************************************)
EXTENDS Downlink, SequenceTheorems, TLAPS

Positions == First..Last

LEMMA FrameIs ==
  /\ Last = 7 /\ First = 1
  /\ \A i \in Positions : Frame[i] = "7D" <=> i = 4
  /\ \A i \in Positions : Frame[i] \notin Marks => Size[Frame[i]] \in Nat
  /\ \A t \in Tokens : Stored(t) \in Nat /\ (t[2] \in {1, 5} => Stored(t) = 1)
BY DEF Positions, First, Last, Frame, Marks, Size, Stored, Tokens

-----------------------------------------------------------------------------
(* What the pipe holds is the rest of a frame and whole frames after it,   *)
(* with consecutive serials up to the latest sent, and none above it.      *)
Follows(s, t) == t = IF s[2] = Last THEN <<s[1] + 1, First>> ELSE <<s[1], s[2] + 1>>

Ordered(p, m) ==
  /\ p \in Seq(Tokens)
  /\ \A i \in 1..Len(p) : i < Len(p) => Follows(p[i], p[i + 1])
  /\ p # <<>> => p[Len(p)] = <<m, Last>>
  /\ \A i \in 1..Len(p) : p[i][1] <= m

WholeFrame(m) == [i \in First..Last |-> <<m, i>>]

LEMMA FrameOrdered ==
  ASSUME NEW m \in Messages
  PROVE  /\ Ordered(WholeFrame(m), m) /\ Len(WholeFrame(m)) = 7
         /\ WholeFrame(m)[1] = <<m, First>>
<1> DEFINE w == WholeFrame(m)
<1>1. \A i \in 1..7 : w[i] = <<m, i>>  BY FrameIs DEF WholeFrame
<1>2. w \in Seq(Tokens)  BY FrameIs DEF WholeFrame, Tokens
<1>3. Len(w) = 7  BY FrameIs, <1>2 DEF WholeFrame
<1>4. \A i \in 1..Len(w) : i < Len(w) => Follows(w[i], w[i + 1])
  <2> SUFFICES ASSUME NEW i \in 1..6 PROVE Follows(w[i], w[i + 1])  BY <1>3
  <2>1. w[i] = <<m, i>> /\ w[i + 1] = <<m, i + 1>>  BY <1>1
  <2> QED  BY <2>1, FrameIs DEF Follows
<1>5. w[Len(w)] = <<m, Last>> /\ w[1] = <<m, First>>  BY <1>1, <1>3, FrameIs
<1>6. \A i \in 1..Len(w) : w[i][1] <= m  BY <1>1, <1>3 DEF Messages
<1> QED  BY <1>2, <1>3, <1>4, <1>5, <1>6 DEF Ordered

LEMMA OrderedAppend ==
  ASSUME NEW m \in Nat, NEW p, Ordered(p, m),
         NEW w, Ordered(w, m + 1), w # <<>>, w[1] = <<m + 1, First>>
  PROVE  Ordered(p \o w, m + 1)
<1> DEFINE q == p \o w
<1>1. p \in Seq(Tokens) /\ w \in Seq(Tokens) /\ Len(w) > 0  BY DEF Ordered
<1>2. q \in Seq(Tokens) /\ Len(q) = Len(p) + Len(w)  BY <1>1
<1>3. \A i \in 1..Len(q) : q[i] = IF i <= Len(p) THEN p[i] ELSE w[i - Len(p)]  BY <1>1
<1>4. ASSUME NEW i \in 1..Len(q), i < Len(q)  PROVE Follows(q[i], q[i + 1])
  <2>1. CASE i < Len(p)  BY <1>1, <1>2, <1>3, <2>1 DEF Ordered
  <2>2. CASE i = Len(p)
    <3>1. p[i] = <<m, Last>>  BY <1>1, <2>2 DEF Ordered
    <3>2. q[i] = p[i] /\ q[i + 1] = w[1]  BY <1>1, <1>2, <1>3, <2>2
    <3> QED  BY <3>1, <3>2 DEF Follows
  <2>3. CASE i > Len(p)
    <3>1. q[i] = w[i - Len(p)] /\ q[i + 1] = w[i - Len(p) + 1]  BY <1>1, <1>2, <1>3, <1>4, <2>3
    <3>2. i - Len(p) \in 1..Len(w) /\ i - Len(p) < Len(w)  BY <1>1, <1>2, <1>4, <2>3
    <3> QED  BY <3>1, <3>2 DEF Ordered
  <2>4. i < Len(p) \/ i = Len(p) \/ i > Len(p)  BY <1>1, <1>2
  <2> QED  BY <2>1, <2>2, <2>3, <2>4
<1>5. q[Len(q)] = w[Len(w)]
  <2>1. Len(q) \in 1..Len(q) /\ ~(Len(q) <= Len(p)) /\ Len(q) - Len(p) = Len(w)  BY <1>1, <1>2
  <2> QED  BY <1>3, <2>1
<1>6. q[Len(q)] = <<m + 1, Last>>  BY <1>1, <1>5 DEF Ordered
<1>7. ASSUME NEW i \in 1..Len(q)  PROVE q[i][1] <= m + 1
  <2>1. CASE i <= Len(p)
    <3>1. p[i] \in Tokens /\ p[i][1] <= m /\ q[i] = p[i]  BY <1>1, <1>3, <2>1 DEF Ordered
    <3>2. p[i][1] \in Nat  BY <3>1 DEF Tokens, Messages
    <3> QED  BY <3>1, <3>2
  <2>2. CASE ~(i <= Len(p))
    <3>1. i - Len(p) \in 1..Len(w) /\ q[i] = w[i - Len(p)]  BY <1>1, <1>2, <1>3, <2>2
    <3> QED  BY <3>1 DEF Ordered
  <2> QED  BY <2>1, <2>2
<1> QED  BY <1>2, <1>4, <1>6, <1>7 DEF Ordered

LEMMA OrderedTail ==
  ASSUME NEW m, NEW p, Ordered(p, m), p # <<>>
  PROVE  /\ Ordered(Tail(p), m) /\ Head(p) \in Tokens
         /\ Tail(p) # <<>> => Follows(Head(p), Head(Tail(p)))
         /\ Tail(p) = <<>> => Head(p) = <<m, Last>>
<1>1. p \in Seq(Tokens) /\ Len(p) > 0  BY DEF Ordered
<1>2. /\ Tail(p) \in Seq(Tokens) /\ Len(Tail(p)) = Len(p) - 1
      /\ \A i \in 1..Len(Tail(p)) : Tail(p)[i] = p[i + 1]
      BY <1>1
<1>3. Head(p) = p[1] /\ Head(p) \in Tokens  BY <1>1
<1>4. Tail(p) # <<>> => Len(Tail(p)) > 0 /\ Head(Tail(p)) = p[2]  BY <1>1, <1>2
<1>5. Tail(p) # <<>> => Tail(p)[Len(Tail(p))] = <<m, Last>>
      BY <1>1, <1>2, <1>4 DEF Ordered
<1>6. \A i \in 1..Len(Tail(p)) : i < Len(Tail(p)) => Follows(Tail(p)[i], Tail(p)[i + 1])
      BY <1>1, <1>2 DEF Ordered
<1>7. Tail(p) # <<>> => Follows(p[1], p[2])  BY <1>1, <1>2, <1>4 DEF Ordered
<1>8. Tail(p) = <<>> => p[1] = <<m, Last>>
  <2> SUFFICES ASSUME Tail(p) = <<>> PROVE p[1] = <<m, Last>>  OBVIOUS
  <2>1. Len(Tail(p)) = 0  BY EmptySeq, Zenon
  <2>2. Len(p) = 1  BY <1>1, <1>2, <2>1
  <2> QED  BY <1>1, <2>2 DEF Ordered
<1>9. \A i \in 1..Len(Tail(p)) : Tail(p)[i][1] <= m  BY <1>1, <1>2 DEF Ordered
<1> QED  BY <1>2, <1>3, <1>5, <1>6, <1>7, <1>8, <1>9, <1>4 DEF Ordered

-----------------------------------------------------------------------------
(* The piece that is read next; before a frame when there is none.         *)
Pos == IF pipe = <<>> THEN First ELSE Head(pipe)[2]
Msg == IF pipe = <<>> THEN None ELSE Head(pipe)[1]

(* Behind an escape mark comes its body byte, or, on the next connection,  *)
(* a delimiter: one byte, so that the bound tested before it is stored is  *)
(* never passed by more.                                                   *)
BoundInv ==
  /\ TypeOK
  /\ Ordered(pipe, serial)
  /\ esc => in_frame
  /\ esc => Pos \in {1, 5}

(* Reading moves one piece on.                                             *)
LEMMA ReadMoves ==
  ASSUME BoundInv, pipe # <<>>, pipe' = Tail(pipe), serial' = serial
  PROVE  /\ Pos \in 1..7 /\ Msg \in Messages /\ Head(pipe) = <<Msg, Pos>>
         /\ Pos' = IF Pos = 7 THEN 1 ELSE Pos + 1
         /\ Pos # 7 => Msg' = Msg /\ pipe' # <<>>
         /\ Pos = 7 => IF pipe' = <<>> THEN Msg = serial ELSE Msg' = Msg + 1
         /\ Ordered(pipe', serial')
<1> DEFINE h == Head(pipe)
<1>1. /\ h \in Tokens /\ Ordered(Tail(pipe), serial)
      /\ Tail(pipe) # <<>> => Follows(h, Head(Tail(pipe)))
      /\ Tail(pipe) = <<>> => h = <<serial, Last>>
      BY OrderedTail DEF BoundInv
<1>2. PICK m \in Messages, i \in 1..7 : h = <<m, i>>
      BY <1>1, FrameIs DEF Tokens, Positions
<1>3. Pos = i /\ Msg = m  BY <1>2 DEF Pos, Msg
<1>4. CASE Tail(pipe) = <<>>
  <2>1. i = 7 /\ m = serial  BY <1>1, <1>2, <1>4, FrameIs
  <2>2. Pos' = 1  BY <1>4, FrameIs DEF Pos
  <2> QED  BY <1>1, <1>2, <1>3, <1>4, <2>1, <2>2
<1>5. CASE Tail(pipe) # <<>>
  <2>1. Head(Tail(pipe)) = IF i = 7 THEN <<m + 1, 1>> ELSE <<m, i + 1>>
        BY <1>1, <1>2, <1>5, FrameIs DEF Follows
  <2>2. Pos' = Head(Tail(pipe))[2] /\ Msg' = Head(Tail(pipe))[1]  BY <1>5 DEF Pos, Msg
  <2> QED  BY <1>1, <1>2, <1>3, <1>5, <2>1, <2>2
<1> QED  BY <1>4, <1>5

LEMMA StoreFits ==
  ASSUME BoundInv, pipe # <<>>, len + Stored(Head(pipe)) <= BufSize, Store
  PROVE  buf' \in Seq(Tokens) /\ len' \in 0..BufSize
<1>1. Head(pipe) \in Tokens  BY OrderedTail DEF BoundInv
<1>2. Stored(Head(pipe)) \in Nat  BY <1>1, FrameIs
<1> QED  BY <1>1, <1>2, BoundAssumption DEF BoundInv, TypeOK, Store

LEMMA ResetFits ==
  ASSUME Reset
  PROVE  in_frame' = FALSE /\ esc' = FALSE /\ buf' \in Seq(Tokens) /\ len' \in 0..BufSize
BY BoundAssumption, EmptySeq DEF Reset

(* What each branch of the decoder does to its types.                      *)
LEMMA DecodeType ==
  ASSUME BoundInv, Decode
  PROVE  /\ in_frame' \in BOOLEAN /\ esc' \in BOOLEAN
         /\ buf' \in Seq(Tokens) /\ len' \in 0..BufSize
         /\ busy' \in Messages \cup {None}
         /\ pipe # <<>> /\ pipe' = Tail(pipe) /\ UNCHANGED <<link, serial, answers>>
         /\ esc' => in_frame' /\ Next7D
<1> USE BoundAssumption DEF Read
<1>1. pipe # <<>> /\ pipe' = Tail(pipe) /\ UNCHANGED <<link, serial, answers>>
      BY DEF Decode, Skip, Open, Unescape, Escape, Plain, Short, Bad, Done, Delimiter
<1>2. Head(pipe) \in Tokens /\ Stored(Head(pipe)) \in Nat
      BY <1>1, OrderedTail, FrameIs DEF BoundInv
<1>3. CASE Skip \/ Short
  BY <1>1, <1>3 DEF Skip, Short, Delimiter, decoder, BoundInv, TypeOK
<1>4. CASE Open \/ Bad \/ \E m \in Messages : Done(m)
  <2>1. CASE Open
    <3>1. in_frame' = TRUE /\ esc' = FALSE /\ buf' = <<>> /\ len' = 0 /\ busy' = busy
          BY <2>1 DEF Open
    <3>2. buf' \in Seq(Tokens) /\ len' \in 0..BufSize  BY <3>1, EmptySeq
    <3> QED  BY <1>1, <3>1, <3>2 DEF BoundInv, TypeOK
  <2>2. CASE Bad  BY <1>1, <2>2, ResetFits DEF Bad, BoundInv, TypeOK
  <2>3. ASSUME NEW m \in Messages, Done(m)
        PROVE  /\ in_frame' = FALSE /\ esc' = FALSE /\ busy' \in Messages
               /\ buf' \in Seq(Tokens) /\ len' \in 0..BufSize
        BY <2>3, ResetFits DEF Done
  <2> QED  BY <1>1, <1>4, <2>1, <2>2, <2>3
<1>5. CASE Escape  BY <1>1, <1>5 DEF Escape, BoundInv, TypeOK
<1>6. CASE Plain
  <2>1. CASE Full  BY <1>1, <1>6, <2>1, ResetFits DEF Plain, BoundInv, TypeOK
  <2>2. CASE ~Full
    BY <1>1, <1>2, <1>6, <2>2, StoreFits DEF Plain, Full, BoundInv, TypeOK
  <2> QED  BY <2>1, <2>2
<1>7. CASE Unescape
  <2>1. Stored(Head(pipe)) = 1
    <3>1. Pos \in {1, 5} /\ Head(pipe) = <<Msg, Pos>>  BY <1>1, <1>7, ReadMoves DEF Unescape, BoundInv
    <3> QED  BY <1>2, <3>1, FrameIs
  <2>2. CASE len >= BufSize  BY <1>1, <1>7, <2>2, ResetFits DEF Unescape, BoundInv, TypeOK
  <2>3. CASE ~(len >= BufSize)
    <3>1. Store /\ esc' = FALSE /\ in_frame' = in_frame /\ busy' = busy
          BY <1>7, <2>3 DEF Unescape
    <3>2. len + Stored(Head(pipe)) <= BufSize  BY <2>1, <2>3 DEF BoundInv, TypeOK
    <3>3. buf' \in Seq(Tokens) /\ len' \in 0..BufSize  BY <1>1, <3>1, <3>2, StoreFits
    <3> QED  BY <1>1, <3>1, <3>3 DEF BoundInv, TypeOK
  <2> QED  BY <2>2, <2>3
<1> QED  BY <1>3, <1>4, <1>5, <1>6, <1>7 DEF Decode

LEMMA DecodeKeeps ==
  ASSUME BoundInv, Decode
  PROVE  BoundInv'
<1>1. pipe # <<>> /\ pipe' = Tail(pipe) /\ serial' = serial  BY DecodeType
<1>2. Ordered(pipe', serial')  BY <1>1, ReadMoves
<1>3. esc' => Pos' \in {1, 5}
  <2> SUFFICES ASSUME esc' PROVE Pos' \in {1, 5}  OBVIOUS
  <2>1. Next7D  BY DecodeType
  <2>2. Pos = 4  BY <1>1, <2>1, ReadMoves, FrameIs DEF Next7D, Positions
  <2> QED  BY <1>1, <2>2, ReadMoves
<1>4. torn' \in Messages \cup {None} /\ dirty' \in BOOLEAN
      BY DEF Decode, Remember, BoundInv, TypeOK
<1>5. pipe' \in Seq(Tokens)  BY <1>2 DEF Ordered
<1> QED  BY <1>2, <1>3, <1>4, <1>5, DecodeType DEF BoundInv, TypeOK

(* A frame is put behind what is there, and what is read next stays.       *)
LEMMA SendMoves ==
  ASSUME BoundInv, Send
  PROVE  /\ serial + 1 \in Messages /\ serial' = serial + 1
         /\ Ordered(pipe', serial') /\ pipe' # <<>>
         /\ Pos' = Pos /\ Msg' = IF pipe = <<>> THEN serial + 1 ELSE Msg
<1> DEFINE w == WholeFrame(serial + 1)
<1>1. serial \in Nat /\ serial + 1 \in Messages /\ serial' = serial + 1
      BY BoundAssumption DEF Send, Messages, BoundInv, TypeOK
<1>2. pipe' = pipe \o w  BY DEF Send, WholeFrame
<1>3. Ordered(w, serial + 1) /\ w # <<>> /\ w[1] = <<serial + 1, First>> /\ w \in Seq(Tokens)
      BY <1>1, FrameOrdered DEF Ordered
<1>4. Ordered(pipe', serial')  BY <1>1, <1>2, <1>3, OrderedAppend DEF BoundInv
<1>5. pipe \in Seq(Tokens)  BY DEF BoundInv, TypeOK
<1>6. CASE pipe = <<>>
  <2>1. pipe' = w /\ Head(w) = w[1]  BY <1>2, <1>3, <1>6
  <2> QED  BY <1>1, <1>3, <1>4, <1>6, <2>1 DEF Pos, Msg
<1>7. CASE pipe # <<>>
  <2>1. pipe' # <<>> /\ Head(pipe') = Head(pipe)  BY <1>2, <1>3, <1>5, <1>7
  <2> QED  BY <1>1, <1>4, <1>7, <2>1 DEF Pos, Msg
<1> QED  BY <1>6, <1>7

LEMMA BoundInit == Init => BoundInv
<1>1. <<>> \in Seq(Tokens) /\ <<>> \in Seq(Messages) /\ Len(<<>>) = 0  BY EmptySeq
<1>2. Ordered(<<>>, 0)  BY <1>1 DEF Ordered
<1>3. Init => pipe \in Seq(Tokens) /\ buf \in Seq(Tokens) /\ answers \in Seq(Messages)
      BY <1>1 DEF Init
<1>4. Init => serial \in 0..MaxSerial /\ len \in 0..BufSize  BY BoundAssumption DEF Init
<1>5. Init => TypeOK  BY <1>3, <1>4 DEF Init, TypeOK
<1> QED  BY <1>2, <1>5 DEF Init, BoundInv

LEMMA BoundKept == BoundInv /\ [Next]_vars => BoundInv'
<1> SUFFICES ASSUME BoundInv, [Next]_vars PROVE BoundInv'  OBVIOUS
<1> USE DEF BoundInv, TypeOK, decoder, history
<1>1. CASE UNCHANGED vars  BY <1>1 DEF vars, Pos
<1>2. CASE Connect \/ Cut
  <2>1. link' \in {"up", "cut"} /\ answers' \in Seq(Messages)
        BY <1>2, EmptySeq DEF Connect, Cut
  <2>2. UNCHANGED <<pipe, serial, in_frame, esc, buf, len, busy, torn, dirty>>
        BY <1>2 DEF Connect, Cut
  <2> QED  BY <2>1, <2>2 DEF Pos
<1>3. CASE Send
  <2>1. Ordered(pipe', serial') /\ Pos' = Pos /\ serial' \in 0..MaxSerial
        BY <1>3, SendMoves DEF Messages
  <2>2. pipe' \in Seq(Tokens)  BY <2>1 DEF Ordered
  <2>3. UNCHANGED <<link, in_frame, esc, buf, len, busy, answers, torn, dirty>>
        BY <1>3 DEF Send
  <2> QED  BY <2>1, <2>2, <2>3
<1>4. CASE Decode  BY <1>4, DecodeKeeps
<1>5. CASE Answer
  <2>1. busy \in Messages /\ busy' = None  BY <1>5 DEF Answer
  <2>2. answers' \in Seq(Messages)  BY <1>5, <2>1 DEF Answer
  <2>3. UNCHANGED <<link, pipe, serial, in_frame, esc, buf, len, torn, dirty>>
        BY <1>5 DEF Answer
  <2> QED  BY <2>1, <2>2, <2>3 DEF Pos
<1>6. CASE Close
  <2>1. buf # <<>> => buf[Len(buf)] \in Tokens  OBVIOUS
  <2>2. torn' \in Messages \cup {None}  BY <1>6, <2>1 DEF Close, Tokens
  <2>3. /\ link' = "down" /\ pipe' = <<>> /\ dirty' \in BOOLEAN
        /\ UNCHANGED <<serial, in_frame, esc, buf, len, busy, answers>>
        BY <1>6 DEF Close
  <2>4. Ordered(pipe', serial') /\ pipe' \in Seq(Tokens)  BY <2>3, EmptySeq DEF Ordered
  <2>5. Pos' = 1  BY <2>3, FrameIs DEF Pos
  <2> QED  BY <2>2, <2>3, <2>4, <2>5
<1> QED  BY <1>1, <1>2, <1>3, <1>4, <1>5, <1>6 DEF Next, NetTask

(* The bound of the decoder's buffer, which fragments of lost connections  *)
(* pile up in, and the types of the rest.                                  *)
THEOREM TypeCorrect == Spec => []TypeOK
<1>1. BoundInv => TypeOK  BY DEF BoundInv
<1> QED  BY <1>1, BoundInit, BoundKept, PTL DEF Spec

-----------------------------------------------------------------------------
(* How many fields, and how many bytes of a frame, lie before each of its  *)
(* pieces, and before what comes after it.                                 *)
Kept == <<0, 0, 1, 2, 2, 3, 4, 4>>
Weight == <<0, 0, 4, 22, 22, 23, 24>>

LEMMA Tables ==
  /\ Kept[1] = 0 /\ Kept[2] = 0 /\ Kept[3] = 1 /\ Kept[4] = 2
  /\ Kept[5] = 2 /\ Kept[6] = 3 /\ Kept[7] = 4 /\ Kept[8] = 4
  /\ Weight[1] = 0 /\ Weight[2] = 0 /\ Weight[3] = 4 /\ Weight[4] = 22
  /\ Weight[5] = 22 /\ Weight[6] = 23 /\ Weight[7] = 24
  /\ Fields[1] = 2 /\ Fields[2] = 3 /\ Fields[3] = 5 /\ Fields[4] = 6
  /\ DOMAIN Fields = 1..4
BY DEF Kept, Weight, Fields

LEMMA TableRange ==
  ASSUME NEW i \in 1..7
  PROVE  Kept[i] \in 0..4 /\ Weight[i] \in 0..24
<1>1. i = 1 \/ i = 2 \/ i = 3 \/ i = 4 \/ i = 5 \/ i = 6 \/ i = 7  OBVIOUS
<1> QED  BY <1>1, Tables

LEMMA KeptStep ==
  ASSUME NEW i \in {2, 3, 5, 6}
  PROVE  Kept[i] \in 0..4 /\ Kept[i + 1] = Kept[i] + 1 /\ Fields[Kept[i] + 1] = i
BY Tables

LEMMA WeightStep ==
  ASSUME NEW m, NEW i \in {2, 3, 5, 6}
  PROVE  /\ Weight[i + 1] = Weight[i] + Stored(<<m, i>>)
         /\ Weight[i] \in 0..24 /\ Weight[i + 1] \in 0..24 /\ Stored(<<m, i>>) \in Nat
<1>1. /\ Stored(<<m, 2>>) = 4 /\ Stored(<<m, 3>>) = 18
      /\ Stored(<<m, 5>>) = 1 /\ Stored(<<m, 6>>) = 1
      BY DEF Stored, Frame, Marks, Size
<1> QED  BY <1>1, Tables

(* A buffer is the content of a frame's beginning if it has its fields.    *)
LEMMA ContentIs ==
  ASSUME NEW m, NEW k \in 0..7, NEW b \in Seq(Tokens)
  PROVE  b = Content(m, k) <=>
           Len(b) = Kept[k + 1] /\ \A j \in 1..Kept[k + 1] : b[j] = <<m, Fields[j]>>
<1> DEFINE c == Content(m, k)
           n == Kept[k + 1]
<1>1. {j \in DOMAIN Fields : Fields[j] <= k} = 1..n
  <2>1. k = 0 \/ k = 1 \/ k = 2 \/ k = 3 \/ k = 4 \/ k = 5 \/ k = 6 \/ k = 7  OBVIOUS
  <2> QED  BY <2>1, Tables
<1>2. c = [j \in 1..n |-> <<m, Fields[j]>>]  BY <1>1 DEF Content
<1>3. n \in Nat
  <2>1. k + 1 \in 1..7 \/ k + 1 = 8  OBVIOUS
  <2> QED  BY <2>1, TableRange, Tables
<1> HIDE DEF c, n
<1>4. DOMAIN b = 1..Len(b) /\ Len(b) \in Nat /\ b = [j \in 1..Len(b) |-> b[j]]  OBVIOUS
<1>5. ASSUME b = c  PROVE Len(b) = n /\ \A j \in 1..n : b[j] = <<m, Fields[j]>>
  <2>1. 1..Len(b) = 1..n  BY <1>2, <1>4, <1>5
  <2>2. Len(b) = n  BY <1>3, <1>4, <2>1
  <2> QED  BY <1>2, <1>5, <2>2
<1>6. ASSUME Len(b) = n, \A j \in 1..n : b[j] = <<m, Fields[j]>>
      PROVE  b = c
      BY <1>2, <1>4, <1>6
<1> QED  BY <1>5, <1>6 DEF c, n

-----------------------------------------------------------------------------
(* Inside a frame the buffer ends with what was kept of the message being  *)
(* read, whatever an earlier connection left in front of it; what was left *)
(* belongs to torn; and nothing is in front of it once a message of this   *)
(* connection has been read to its end.                                    *)
Tidy ==
  /\ ~in_frame => buf = <<>>
  /\ buf = <<>> => len = 0 /\ ~esc
  /\ torn # None => dirty

EndsWell ==
  in_frame /\ Pos # 1 =>
    /\ len >= Weight[Pos] /\ Len(buf) >= Kept[Pos]
    /\ \A j \in 1..Kept[Pos] : buf[Len(buf) - Kept[Pos] + j] = <<Msg, Fields[j]>>

Owned == buf # <<>> => buf[Len(buf)][1] = torn \/ (Pos # 1 /\ buf[Len(buf)][1] = Msg)

Exact ==
  ~dirty => /\ Len(buf) = Kept[Pos] /\ len = Weight[Pos]
            /\ esc <=> Pos = 5
            /\ Pos # 1 => in_frame

SyncInv == BoundInv /\ Tidy /\ EndsWell /\ Owned /\ Exact

(* The facts about reading one piece that every branch of the decoder uses.*)
LEMMA Reads ==
  ASSUME BoundInv, Decode
  PROVE  /\ Pos \in 1..7 /\ Msg \in Messages /\ Head(pipe) = <<Msg, Pos>>
         /\ Next7E <=> Pos \in {1, 7}
         /\ Next7D <=> Pos = 4
         /\ Pos' = (IF Pos = 7 THEN 1 ELSE Pos + 1) /\ (Pos # 7 => Msg' = Msg)
         /\ dirty' = (dirty /\ Pos # 7)
         /\ torn' = IF dirty' /\ busy' = None THEN torn ELSE None
<1>1. pipe # <<>> /\ pipe' = Tail(pipe) /\ serial' = serial  BY DecodeType
<1>2. /\ Pos \in 1..7 /\ Msg \in Messages /\ Head(pipe) = <<Msg, Pos>>
      /\ Pos' = (IF Pos = 7 THEN 1 ELSE Pos + 1) /\ (Pos # 7 => Msg' = Msg)
      BY <1>1, ReadMoves
<1>3. \A i \in 1..7 : (Frame[i] = "7E" <=> i \in {1, 7}) /\ (Frame[i] = "7D" <=> i = 4)
      BY DEF Frame
<1>4. (Next7E <=> Pos \in {1, 7}) /\ (Next7D <=> Pos = 4)
      BY <1>2, <1>3 DEF Next7E, Next7D
<1>5. dirty' = (dirty /\ Pos # 7) /\ torn' = IF dirty' /\ busy' = None THEN torn ELSE None
      BY <1>2, FrameIs DEF Decode, Remember
<1> QED  BY <1>2, <1>4, <1>5

(* A field stored behind its predecessors makes one more of them.          *)
LEMMA StoreEnds ==
  ASSUME NEW m \in Messages, NEW i \in {2, 3, 5, 6}, NEW b \in Seq(Tokens),
         Len(b) >= Kept[i],
         \A j \in 1..Kept[i] : b[Len(b) - Kept[i] + j] = <<m, Fields[j]>>
  PROVE  LET c == Append(b, <<m, i>>) IN
         /\ Len(c) = Len(b) + 1 /\ Len(c) >= Kept[i + 1]
         /\ \A j \in 1..Kept[i + 1] : c[Len(c) - Kept[i + 1] + j] = <<m, Fields[j]>>
         /\ c[Len(c)] = <<m, i>>
<1> DEFINE c == Append(b, <<m, i>>)
<1>1. /\ Kept[i] \in Nat /\ Kept[i + 1] = Kept[i] + 1 /\ Fields[Kept[i] + 1] = i
      /\ Kept[i + 1] \in Nat
      BY KeptStep
<1>2. /\ Len(b) \in Nat /\ Len(c) = Len(b) + 1 /\ c[Len(c)] = <<m, i>>
      /\ \A j \in 1..Len(b) : c[j] = b[j]
      OBVIOUS
<1>3. ASSUME NEW j \in 1..Kept[i + 1]
      PROVE  c[Len(c) - Kept[i + 1] + j] = <<m, Fields[j]>>
  <2>1. Len(c) - Kept[i + 1] + j = Len(b) - Kept[i] + j  BY <1>1, <1>2
  <2>2. CASE j = Kept[i] + 1
    <3>1. Len(b) - Kept[i] + j = Len(c)  BY <1>1, <1>2, <2>2
    <3> QED  BY <1>1, <1>2, <2>1, <2>2, <3>1
  <2>3. CASE j # Kept[i] + 1
    <3>1. j \in 1..Kept[i]  BY <1>1, <2>3
    <3>2. Len(b) - Kept[i] + j \in 1..Len(b)  BY <1>1, <1>2, <3>1
    <3> QED  BY <1>2, <2>1, <3>1, <3>2
  <2> QED  BY <2>2, <2>3
<1>4. Len(c) >= Kept[i + 1]  BY <1>1, <1>2
<1> HIDE DEF c
<1>5. /\ Len(c) = Len(b) + 1 /\ Len(c) >= Kept[i + 1] /\ c[Len(c)] = <<m, i>>
      /\ \A j \in 1..Kept[i + 1] : c[Len(c) - Kept[i + 1] + j] = <<m, Fields[j]>>
      BY <1>2, <1>3, <1>4
<1> QED  BY <1>5 DEF c

LEMMA StoreField ==
  ASSUME BoundInv, SyncInv, Decode, in_frame, Pos \in {2, 3, 5, 6},
         Store, esc' = FALSE, in_frame' = TRUE, busy' = None
  PROVE  SyncInv'
<1> USE DEF SyncInv
<1>1. BoundInv'  BY DecodeKeeps
<1>2. /\ Pos' = Pos + 1 /\ Pos' \in {3, 4, 6, 7} /\ Msg' = Msg /\ Msg \in Messages
      /\ Head(pipe) = <<Msg, Pos>> /\ dirty' = dirty
      BY Reads DEF BoundInv, TypeOK
<1>3. torn' = torn  BY Reads, <1>2 DEF Tidy, BoundInv, TypeOK
<1>4. buf \in Seq(Tokens) /\ len \in Nat  BY DEF BoundInv, TypeOK
<1>5. buf' = Append(buf, <<Msg, Pos>>) /\ len' = len + Stored(<<Msg, Pos>>)
      BY <1>2 DEF Store
<1>6. /\ Weight[Pos'] = Weight[Pos] + Stored(<<Msg, Pos>>) /\ Kept[Pos'] = Kept[Pos] + 1
      /\ Weight[Pos] \in Nat /\ Kept[Pos] \in Nat /\ Stored(<<Msg, Pos>>) \in Nat
  <2>1. Pos \in {2, 3, 5, 6} /\ Pos' = Pos + 1  BY <1>2
  <2>2. /\ Weight[Pos + 1] = Weight[Pos] + Stored(<<Msg, Pos>>)
        /\ Weight[Pos] \in 0..24 /\ Weight[Pos + 1] \in 0..24 /\ Stored(<<Msg, Pos>>) \in Nat
        BY <2>1, WeightStep, Zenon
  <2>3. Kept[Pos] \in 0..4 /\ Kept[Pos + 1] = Kept[Pos] + 1  BY <2>1, KeptStep, Zenon
  <2> QED  BY <2>1, <2>2, <2>3
<1>7. /\ len >= Weight[Pos] /\ Len(buf) >= Kept[Pos]
      /\ \A j \in 1..Kept[Pos] : buf[Len(buf) - Kept[Pos] + j] = <<Msg, Fields[j]>>
      BY DEF EndsWell
<1>8. /\ Len(buf') = Len(buf) + 1 /\ Len(buf') >= Kept[Pos']
      /\ \A j \in 1..Kept[Pos'] : buf'[Len(buf') - Kept[Pos'] + j] = <<Msg, Fields[j]>>
      /\ buf'[Len(buf')] = <<Msg, Pos>>
      BY <1>2, <1>4, <1>5, <1>7, StoreEnds
<1>9. Tidy'
  <2>1. buf' # <<>>  BY <1>4, <1>5
  <2> QED  BY <1>2, <1>3, <2>1 DEF Tidy
<1>10. EndsWell'
  <2>1. len' >= Weight[Pos']  BY <1>4, <1>5, <1>6, <1>7
  <2> QED  BY <1>2, <1>8, <2>1 DEF EndsWell
<1>11. Owned'  BY <1>2, <1>8 DEF Owned
<1>12. Exact'  BY <1>2, <1>4, <1>5, <1>6, <1>8 DEF Exact
<1> QED  BY <1>1, <1>9, <1>10, <1>11, <1>12

(* Every branch that leaves a frame, or enters one, starts with nothing.   *)
LEMMA StartsAnew ==
  ASSUME BoundInv, Decode, buf' = <<>>, len' = 0, esc' = FALSE,
         in_frame' => Pos' \in {1, 2}, ~dirty' => Pos' \in {1, 2} /\ (Pos' = 2 => in_frame')
  PROVE  SyncInv'
<1>1. BoundInv'  BY DecodeKeeps
<1>2. Len(buf') = 0  BY EmptySeq, Zenon
<1>3. Tidy'  BY Reads DEF Tidy
<1>4. EndsWell'  BY <1>2, Tables DEF EndsWell
<1>5. Owned'  BY DEF Owned
<1>6. Exact'  BY <1>2, Tables DEF Exact
<1> QED  BY <1>1, <1>3, <1>4, <1>5, <1>6 DEF SyncInv

LEMMA DecodeSync ==
  ASSUME SyncInv, Decode
  PROVE  SyncInv'
<1> USE DEF SyncInv, Delimiter, Read
<1>1. BoundInv' /\ pipe # <<>> /\ pipe' = Tail(pipe)  BY DecodeKeeps, DecodeType
<1>2. /\ Pos \in 1..7 /\ Msg \in Messages /\ Head(pipe) = <<Msg, Pos>>
      /\ (Next7E <=> Pos \in {1, 7}) /\ (Next7D <=> Pos = 4)
      /\ Pos' = (IF Pos = 7 THEN 1 ELSE Pos + 1) /\ (Pos # 7 => Msg' = Msg)
      /\ dirty' = (dirty /\ Pos # 7) /\ (Pos # 7 => dirty' = dirty)
      /\ (dirty /\ Pos # 7 => dirty')
      BY Reads DEF BoundInv, TypeOK
<1>3. Pos # 7 /\ busy' = None => torn' = torn
      BY Reads DEF Tidy, BoundInv, TypeOK
<1>4. /\ buf \in Seq(Tokens) /\ len \in Nat /\ esc \in BOOLEAN /\ in_frame \in BOOLEAN
      /\ dirty \in BOOLEAN /\ (esc => in_frame /\ Pos \in {1, 5})
      BY DEF BoundInv, TypeOK
<1>5. ~dirty => (in_frame \/ Pos = 1) /\ len = Weight[Pos] /\ (esc <=> Pos = 5)
      BY DEF Exact
<1>6. Pos \in {2, 3, 4, 5, 6, 7} \/ Pos = 1  BY <1>2
<1>7. CASE Skip
  <2>1. Pos # 7 /\ Pos # 1 /\ dirty  BY <1>2, <1>5, <1>7 DEF Skip
  <2>2. UNCHANGED <<in_frame, esc, buf, len, dirty>> /\ ~in_frame
        BY <1>2, <1>7, <2>1 DEF Skip, decoder
  <2>3. buf = <<>> /\ len = 0 /\ ~esc  BY <2>2 DEF Tidy
  <2>4. buf' = <<>> /\ len' = 0 /\ esc' = FALSE /\ ~in_frame' /\ dirty'
        BY <1>4, <2>1, <2>2, <2>3
  <2> QED  BY <2>4, StartsAnew
<1>8. CASE Open
  <2>1. Pos' \in {1, 2} /\ in_frame' = TRUE /\ esc' = FALSE /\ buf' = <<>> /\ len' = 0
        BY <1>2, <1>8 DEF Open
  <2> QED  BY <1>8, <2>1, StartsAnew
<1>9. CASE Unescape
  <2>1. Pos \in {1, 5} /\ busy' = None /\ in_frame  BY <1>4, <1>9 DEF Unescape
  <2>2. CASE len >= BufSize
    <3>1. Weight[5] = 22 /\ BufSize > 30 /\ BufSize \in Nat  BY Tables, BoundAssumption
    <3>2. dirty  BY <1>4, <1>5, <1>9, <2>1, <2>2, <3>1 DEF Unescape
    <3>3. Reset /\ dirty'
      <4>1. Reset  BY <1>9, <2>2 DEF Unescape
      <4>2. Pos # 7  BY <2>1
      <4> QED  BY <1>2, <3>2, <4>1, <4>2, Zenon
    <3> QED  BY <3>3, StartsAnew DEF Reset
  <2>3. CASE ~(len >= BufSize)
    <3>1. Store /\ esc' = FALSE /\ in_frame' = TRUE  BY <1>9, <2>1, <2>3 DEF Unescape
    <3>2. CASE Pos = 5  BY <1>9, <2>1, <3>1, <3>2, StoreField DEF Unescape
    <3>3. CASE Pos = 1
      <4>1. dirty /\ dirty' /\ Pos' = 2 /\ Msg' = Msg  BY <1>2, <1>5, <1>9, <3>3 DEF Unescape
      <4>2. buf' = Append(buf, <<Msg, 1>>)  BY <1>2, <3>1, <3>3 DEF Store
      <4>3. Len(buf') \in Nat /\ Len(buf') > 0 /\ buf'[Len(buf')] = <<Msg, 1>> /\ buf' # <<>>
            BY <1>4, <4>2
      <4>4. len' \in Nat  BY <1>1 DEF BoundInv, TypeOK
      <4>5. Tidy'  BY <3>1, <4>1, <4>3 DEF Tidy
      <4>6. EndsWell'  BY <4>1, <4>3, <4>4, Tables DEF EndsWell
      <4>7. Owned'  BY <4>1, <4>3 DEF Owned
      <4>8. Exact'  BY <4>1 DEF Exact
      <4> QED  BY <1>1, <4>5, <4>6, <4>7, <4>8
    <3> QED  BY <2>1, <3>2, <3>3
  <2> QED  BY <2>2, <2>3
<1>10. CASE Escape
  <2>1. Pos = 4 /\ Pos' = 5 /\ Msg' = Msg /\ dirty' = dirty /\ torn' = torn /\ in_frame
        BY <1>2, <1>3, <1>10 DEF Escape
  <2>2. esc' = TRUE /\ UNCHANGED <<in_frame, buf, len>>  BY <1>10 DEF Escape
  <2>3. /\ Kept[4] = 2 /\ Kept[5] = 2 /\ Weight[4] = 22 /\ Weight[5] = 22
        BY Tables
  <2>4. EndsWell'  BY <2>1, <2>2, <2>3 DEF EndsWell
  <2>5. buf # <<>>
    <3>1. Len(buf) >= 2  BY <2>1, <2>3 DEF EndsWell
    <3>2. Len(<<>>) = 0  BY EmptySeq
    <3> QED  BY <3>1, <3>2
  <2>6. Tidy'  BY <2>1, <2>2, <2>5 DEF Tidy
  <2>7. Owned'  BY <2>1, <2>2 DEF Owned
  <2>8. Exact'  BY <2>1, <2>2, <2>3 DEF Exact
  <2> QED  BY <1>1, <2>4, <2>6, <2>7, <2>8
<1>11. CASE Plain
  <2>1. Pos \in {2, 3, 5, 6} /\ busy' = None /\ in_frame /\ ~esc
        BY <1>2, <1>6, <1>11 DEF Plain
  <2>2. CASE Full
    <3>1. /\ Weight[Pos + 1] = Weight[Pos] + Stored(<<Msg, Pos>>)
          /\ Weight[Pos + 1] \in 0..24 /\ Stored(<<Msg, Pos>>) \in Nat
          BY <2>1, WeightStep, Zenon
    <3>2. BufSize > 30 /\ BufSize \in Nat  BY BoundAssumption
    <3>3. dirty
      <4> SUFFICES ASSUME ~dirty PROVE FALSE  OBVIOUS
      <4>1. len = Weight[Pos]  BY <1>5
      <4>2. len + Stored(<<Msg, Pos>>) = Weight[Pos + 1]  BY <3>1, <4>1
      <4>3. len + Stored(<<Msg, Pos>>) >= BufSize  BY <1>2, <2>2 DEF Full
      <4> QED  BY <3>1, <3>2, <4>2, <4>3
    <3>4. Reset /\ dirty' /\ Pos # 7  BY <1>2, <1>11, <2>1, <2>2, <3>3 DEF Plain
    <3> QED  BY <3>4, StartsAnew DEF Reset
  <2>3. CASE ~Full
    <3>1. Store /\ esc' = FALSE /\ in_frame' = TRUE  BY <1>4, <1>11, <2>1, <2>3 DEF Plain
    <3> QED  BY <2>1, <3>1, StoreField
  <2> QED  BY <2>2, <2>3
<1>12. CASE Short
  <2>1. in_frame /\ ~esc /\ len < 23 /\ busy' = None /\ UNCHANGED <<in_frame, esc, buf, len>>
        BY <1>12 DEF Short, MinLen, decoder
  <2>2. Pos = 1
    <3>1. Weight[7] = 24  BY Tables
    <3>2. Pos \in {1, 7}  BY <1>2, <1>12 DEF Short
    <3> QED  BY <1>4, <2>1, <3>1, <3>2 DEF EndsWell
  <2>3. Pos' = 2 /\ Msg' = Msg /\ dirty' = dirty /\ torn' = torn  BY <1>2, <1>3, <2>1, <2>2
  <2>4. Kept[1] = 0 /\ Kept[2] = 0 /\ Weight[1] = 0 /\ Weight[2] = 0  BY Tables
  <2>5. Tidy'  BY <2>1, <2>3 DEF Tidy
  <2>6. EndsWell'  BY <1>4, <2>1, <2>3, <2>4 DEF EndsWell
  <2>7. Owned'  BY <2>1, <2>2, <2>3 DEF Owned
  <2>8. Exact'  BY <2>1, <2>2, <2>3, <2>4 DEF Exact
  <2> QED  BY <1>1, <2>5, <2>6, <2>7, <2>8
<1>13. CASE Bad \/ \E m \in Messages : Done(m)
  <2>1. Reset /\ len >= 23 /\ Next7E  BY <1>13 DEF Bad, Done, MinLen
  <2>2. Pos = 1 => dirty
    <3>1. Weight[1] = 0  BY Tables
    <3> QED  BY <1>4, <1>5, <2>1, <3>1
  <2>3. Pos \in {1, 7} /\ (~dirty' => Pos' = 1)  BY <1>2, <2>1, <2>2
  <2>4. in_frame' = FALSE /\ esc' = FALSE /\ buf' = <<>> /\ len' = 0  BY <2>1 DEF Reset
  <2>5. ~in_frame' /\ (~dirty' => Pos' \in {1, 2} /\ (Pos' = 2 => in_frame'))
        BY <2>3, <2>4
  <2> QED  BY <2>4, <2>5, StartsAnew, Zenon
<1> QED  BY <1>7, <1>8, <1>9, <1>10, <1>11, <1>12, <1>13 DEF Decode

LEMMA SyncInit == Init => SyncInv
<1> SUFFICES ASSUME Init PROVE SyncInv  OBVIOUS
<1>1. Pos = 1 /\ Len(buf) = 0  BY EmptySeq, FrameIs, Zenon DEF Init, Pos
<1> QED  BY <1>1, BoundInit, Tables DEF Init, SyncInv, Tidy, EndsWell, Owned, Exact

LEMMA SyncKept == SyncInv /\ [Next]_vars => SyncInv'
<1> SUFFICES ASSUME SyncInv, [Next]_vars PROVE SyncInv'  OBVIOUS
<1>1. BoundInv'  BY BoundKept DEF SyncInv
<1>2. ASSUME UNCHANGED <<in_frame, esc, buf, len, torn, dirty>>,
             Pos' = Pos, Pos # 1 => Msg' = Msg
      PROVE  SyncInv'
      BY <1>1, <1>2 DEF SyncInv, Tidy, EndsWell, Owned, Exact
<1>3. CASE UNCHANGED vars \/ Connect \/ Cut \/ Answer
      BY <1>2, <1>3 DEF vars, Connect, Cut, Answer, decoder, history, Pos, Msg
<1>4. CASE Send
  <2>1. Pos' = Pos /\ Msg' = IF pipe = <<>> THEN serial + 1 ELSE Msg
        BY <1>4, SendMoves DEF SyncInv
  <2>2. pipe = <<>> => Pos = 1  BY FrameIs DEF Pos
  <2>3. UNCHANGED <<in_frame, esc, buf, len, torn, dirty>>  BY <1>4 DEF Send, decoder, history
  <2> QED  BY <1>2, <2>1, <2>2, <2>3
<1>5. CASE Decode  BY <1>5, DecodeSync
<1>6. CASE Close
  <2>1. /\ Pos' = 1 /\ UNCHANGED <<in_frame, esc, buf, len>>
        /\ dirty' = (buf # <<>>) /\ torn' = IF buf = <<>> THEN None ELSE buf[Len(buf)][1]
        BY <1>6, FrameIs DEF Close, decoder, Pos
  <2>2. Tidy'  BY <2>1 DEF SyncInv, Tidy
  <2>3. EndsWell'  BY <2>1 DEF EndsWell
  <2>4. Owned'  BY <2>1 DEF Owned
  <2>5. Exact'
    <3>1. buf = <<>> => len = 0 /\ ~esc  BY DEF SyncInv, Tidy
    <3>2. Len(<<>>) = 0 /\ Kept[1] = 0 /\ Weight[1] = 0  BY EmptySeq, Tables
    <3>3. ~dirty' => buf' = <<>> /\ len' = 0 /\ ~esc'  BY <2>1, <3>1
    <3> QED  BY <2>1, <3>2, <3>3 DEF Exact
  <2> QED  BY <1>1, <2>2, <2>3, <2>4, <2>5 DEF SyncInv
<1> QED  BY <1>3, <1>4, <1>5, <1>6 DEF Next, NetTask

LEMMA SyncAlways == Spec => []SyncInv
BY SyncInit, SyncKept, PTL DEF Spec

(* Once a message of the connection has been read to its end, the decoder  *)
(* holds exactly what it has read of the current one, whatever came before.*)
THEOREM StaysInSync == Spec => []InSync
<1>1. ASSUME SyncInv PROVE InSync
  <2> SUFFICES ASSUME ~dirty, pipe # <<>>
               PROVE  /\ buf = Content(Msg, Pos - 1)
                      /\ esc <=> Pos > First /\ Frame[Pos - 1] = "7D"
                      /\ Pos > First => in_frame
        BY DEF InSync, Pos, Msg
  <2>1. /\ Len(buf) = Kept[Pos] /\ (esc <=> Pos = 5) /\ (Pos # 1 => in_frame)
        BY <1>1 DEF SyncInv, Exact
  <2>2. Pos \in 1..7 /\ buf \in Seq(Tokens)
    <3>1. Head(pipe) \in Tokens  BY <1>1, OrderedTail DEF SyncInv, BoundInv
    <3> QED  BY <1>1, <3>1, FrameIs DEF SyncInv, BoundInv, TypeOK, Pos, Tokens
  <2>3. Kept[Pos] \in 0..4 /\ Kept[1] = 0  BY <2>2, TableRange, Tables
  <2>4. \A j \in 1..Kept[Pos] : buf[j] = <<Msg, Fields[j]>>
    <3>1. CASE Pos = 1  BY <2>3, <3>1
    <3>2. CASE Pos # 1
      <4>1. \A j \in 1..Kept[Pos] : buf[Len(buf) - Kept[Pos] + j] = <<Msg, Fields[j]>>
            BY <1>1, <2>1, <3>2 DEF SyncInv, EndsWell
      <4>2. \A j \in 1..Kept[Pos] : Len(buf) - Kept[Pos] + j = j  BY <2>1, <2>3
      <4> QED  BY <4>1, <4>2
    <3> QED  BY <3>1, <3>2
  <2>5. buf = Content(Msg, Pos - 1)  BY <2>1, <2>2, <2>4, ContentIs
  <2>6. Pos > First => Pos - 1 \in 1..7 /\ (Frame[Pos - 1] = "7D" <=> Pos = 5)
        BY <2>2, FrameIs DEF Positions
  <2>7. Pos > First <=> Pos # 1  BY <2>2, FrameIs
  <2> QED  BY <2>1, <2>5, <2>6, <2>7
<1> QED  BY <1>1, SyncAlways, PTL

-----------------------------------------------------------------------------
(* A run of consecutive serials, as Whole is one.                          *)
Run(a, b) == [k \in 1..b - a + 1 |-> a + k - 1]

LEMMA RunSteps ==
  ASSUME NEW a \in Nat, NEW b \in Nat, a <= b
  PROVE  /\ Run(a, b) # <<>> /\ Head(Run(a, b)) = a
         /\ Tail(Run(a, b)) = IF a = b THEN <<>> ELSE Run(a + 1, b)
         /\ Append(Run(a, b), b + 1) = Run(a, b + 1)
         /\ Append(<<>>, b) = Run(b, b)
<1> DEFINE r == Run(a, b)
<1>1. /\ r \in Seq(Nat) /\ Len(r) = b - a + 1 /\ \A k \in 1..Len(r) : r[k] = a + k - 1
      BY DEF Run
<1>2. r # <<>> /\ Head(r) = a  BY <1>1, EmptySeq
<1>3. /\ Tail(r) \in Seq(Nat) /\ Len(Tail(r)) = b - a
      /\ \A k \in 1..b - a : Tail(r)[k] = a + k
      BY <1>1, <1>2
<1>4. Tail(r) = IF a = b THEN <<>> ELSE Run(a + 1, b)
  <2>1. CASE a = b
    <3>1. Len(Tail(r)) = 0 /\ Tail(r) \in Seq(Nat)  BY <1>3, <2>1
    <3>2. Tail(r) = <<>>  BY <3>1, EmptySeq, Zenon
    <3> QED  BY <2>1, <3>2
  <2>2. CASE a # b
    <3>1. Tail(r) = [k \in 1..b - a |-> Tail(r)[k]]
      <4> DEFINE t == Tail(r)
      <4>1. t \in Seq(Nat) /\ Len(t) = b - a  BY <1>3
      <4> HIDE DEF t
      <4>2. t = [k \in 1..b - a |-> t[k]]  BY <4>1
      <4> QED  BY <4>2 DEF t
    <3>2. 1..b - a = 1..b - (a + 1) + 1 /\ \A k \in 1..b - a : a + k = a + 1 + k - 1
          OBVIOUS
    <3> QED  BY <1>3, <2>2, <3>1, <3>2 DEF Run
  <2> QED  BY <2>1, <2>2
<1>5. Append(r, b + 1) = Run(a, b + 1)
  <2> DEFINE s == Append(r, b + 1)
  <2>1. /\ s \in Seq(Nat) /\ Len(s) = b - a + 2
        /\ \A k \in 1..b - a + 2 : s[k] = a + k - 1
        BY <1>1
  <2>2. s = [k \in 1..b - a + 2 |-> s[k]]  BY <2>1
  <2>3. 1..b - a + 2 = 1..b + 1 - a + 1  OBVIOUS
  <2> QED  BY <2>1, <2>2, <2>3 DEF Run
<1>6. Append(<<>>, b) = Run(b, b)
  <2> DEFINE s == Append(<<>>, b)
  <2>1. s \in Seq(Nat) /\ Len(s) = 1 /\ s[1] = b  OBVIOUS
  <2>2. s = [k \in 1..1 |-> s[k]]  BY <2>1
  <2>3. \A k \in 1..1 : s[k] = b + k - 1  BY <2>1
  <2>4. 1..1 = 1..b - b + 1  OBVIOUS
  <2> QED  BY <2>2, <2>3, <2>4 DEF Run
<1> QED  BY <1>2, <1>4, <1>5, <1>6

(* The pipe seen as the messages that wait in it.                          *)
WholeRun ==
  /\ pipe = <<>> => Whole = <<>>
  /\ pipe # <<>> => /\ Msg \in Messages /\ Msg <= serial /\ serial \in Nat
                    /\ Whole = Run(Msg, serial)
                    /\ Whole # <<>> /\ Head(Whole) = Msg

LEMMA WholeIs == BoundInv => WholeRun
<1> SUFFICES ASSUME BoundInv PROVE WholeRun  OBVIOUS
<1>1. pipe = <<>> => Whole = <<>>  BY DEF Whole
<1>2. ASSUME pipe # <<>>
      PROVE  /\ Msg \in Messages /\ Msg <= serial /\ serial \in Nat
             /\ Whole = Run(Msg, serial) /\ Whole # <<>> /\ Head(Whole) = Msg
  <2>1. pipe \in Seq(Tokens) /\ serial \in Nat  BY BoundAssumption DEF BoundInv, TypeOK
  <2>2. Head(pipe) = pipe[1] /\ 1 \in 1..Len(pipe) /\ Head(pipe) \in Tokens
        BY <1>2, <2>1
  <2>3. Msg = Head(pipe)[1]  BY <1>2 DEF Msg
  <2>4. Msg \in Messages /\ Msg <= serial
        BY <2>2, <2>3 DEF Tokens, BoundInv, Ordered
  <2>5. Whole = Run(Msg, serial)  BY <1>2, <2>3 DEF Whole, Run
  <2> QED  BY <2>1, <2>4, <2>5, RunSteps DEF Messages
<1> QED  BY <1>1, <1>2 DEF WholeRun

LEMMA WholeNext == BoundInv' => WholeRun'
BY WholeIs, PTL

LEMMA SendWhole ==
  ASSUME BoundInv, Send
  PROVE  Whole' = Append(Whole, serial + 1)
<1>1. BoundInv'  BY BoundKept DEF Next
<1>2. /\ serial' = serial + 1 /\ serial \in Nat /\ pipe' # <<>>
      /\ Msg' = IF pipe = <<>> THEN serial + 1 ELSE Msg
      BY SendMoves, BoundAssumption DEF BoundInv, TypeOK
<1>3. Whole' = Run(Msg', serial + 1)  BY <1>1, <1>2, WholeNext DEF WholeRun
<1>4. CASE pipe = <<>>
  <2>1. Append(<<>>, serial + 1) = Run(serial + 1, serial + 1)  BY <1>2, RunSteps
  <2> QED  BY <1>2, <1>3, <1>4, <2>1, WholeIs DEF WholeRun
<1>5. CASE pipe # <<>>
  <2>1. Msg \in Nat /\ Msg <= serial /\ Whole = Run(Msg, serial)
        BY <1>5, WholeIs DEF WholeRun, Messages
  <2>2. Append(Run(Msg, serial), serial + 1) = Run(Msg, serial + 1)  BY <1>2, <2>1, RunSteps
  <2> QED  BY <1>2, <1>3, <1>5, <2>1, <2>2
<1> QED  BY <1>4, <1>5

LEMMA DecodeWhole ==
  ASSUME BoundInv, Decode
  PROVE  /\ Pos \in 1..7 /\ Whole # <<>> /\ Head(Whole) = Msg /\ Msg \in Messages
         /\ Whole' = IF Pos = 7 THEN Tail(Whole) ELSE Whole
<1>1. BoundInv'  BY DecodeKeeps
<1>2. pipe # <<>> /\ pipe' = Tail(pipe) /\ serial' = serial  BY DecodeType
<1>3. /\ Pos \in 1..7
      /\ Pos # 7 => Msg' = Msg /\ pipe' # <<>>
      /\ Pos = 7 => IF pipe' = <<>> THEN Msg = serial ELSE Msg' = Msg + 1
      BY <1>2, ReadMoves
<1>4. /\ Msg \in Messages /\ Msg \in Nat /\ Msg <= serial /\ serial \in Nat
      /\ Whole = Run(Msg, serial) /\ Whole # <<>> /\ Head(Whole) = Msg
      BY <1>2, WholeIs DEF WholeRun, Messages
<1>5. /\ pipe' = <<>> => Whole' = <<>>
      /\ pipe' # <<>> => Whole' = Run(Msg', serial') /\ Msg' <= serial' /\ Msg' \in Messages
      BY <1>1, WholeNext DEF WholeRun
<1>6. Tail(Whole) = IF Msg = serial THEN <<>> ELSE Run(Msg + 1, serial)  BY <1>4, RunSteps
<1>7. CASE Pos = 7
  <2>1. CASE pipe' = <<>>  BY <1>3, <1>4, <1>5, <1>6, <1>7, <2>1
  <2>2. CASE pipe' # <<>>
    <3>1. Msg' = Msg + 1 /\ Msg + 1 <= serial  BY <1>2, <1>3, <1>5, <1>7, <2>2
    <3>2. Msg # serial  BY <1>4, <3>1
    <3> QED  BY <1>2, <1>3, <1>4, <1>5, <1>6, <1>7, <2>2, <3>1, <3>2
  <2> QED  BY <1>3, <1>4, <2>1, <2>2
<1>8. CASE Pos # 7  BY <1>2, <1>3, <1>4, <1>5, <1>8
<1> QED  BY <1>3, <1>4, <1>7, <1>8

(* Which message a frame that passes the tests is.                         *)
LEMMA DoneIs ==
  ASSUME SyncInv, Decode, NEW m \in Messages, Done(m)
  PROVE  /\ Pos \in {1, 7} /\ busy' = m /\ busy = None
         /\ Pos = 7 => m = Msg
         /\ Pos = 1 => m = torn /\ dirty
<1> USE DEF SyncInv
<1>1. /\ in_frame /\ ~esc /\ len >= 23 /\ busy' = m /\ busy = None
      /\ buf = Content(m, 7) /\ Pos \in {1, 7}
      BY Reads, FrameIs DEF Done, Delimiter, Read, MinLen, Good
<1>2. buf \in Seq(Tokens) /\ len \in Nat /\ dirty \in BOOLEAN  BY DEF BoundInv, TypeOK
<1>3. Len(buf) = 4 /\ buf[4] = <<m, 6>>
  <2>1. 7 \in 0..7 /\ Kept[7 + 1] = 4 /\ Fields[4] = 6  BY Tables
  <2>2. Len(buf) = Kept[7 + 1] /\ \A j \in 1..Kept[7 + 1] : buf[j] = <<m, Fields[j]>>
        BY <1>1, <1>2, <2>1, ContentIs, Zenon
  <2> QED  BY <2>1, <2>2
<1>4. Pos = 7 => m = Msg
  <2>1. Kept[7] = 4 /\ Fields[4] = 6  BY Tables
  <2>2. Pos = 7 => buf[Len(buf) - 4 + 4] = <<Msg, 6>>  BY <1>1, <2>1 DEF EndsWell
  <2> QED  BY <1>3, <2>2
<1>5. Pos = 1 => m = torn
  <2>1. buf # <<>>
    <3>1. Len(<<>>) = 0  BY EmptySeq
    <3> QED  BY <1>3, <3>1
  <2> QED  BY <1>3, <2>1 DEF Owned
<1>6. Pos = 1 => dirty  BY <1>1, <1>2, Tables DEF Exact
<1> QED  BY <1>1, <1>4, <1>5, <1>6

(* In step, the delimiter that ends a frame ends the message in it.        *)
LEMMA InStepIsDone ==
  ASSUME SyncInv, Decode, ~dirty, Pos = 7
  PROVE  \E m \in Messages : Done(m)
<1> USE DEF SyncInv
<1>1. /\ Msg \in Messages /\ Next7E /\ ~Next7D
      BY Reads
<1>2. in_frame /\ ~esc /\ len = 24 /\ Len(buf) = 4
      BY Tables DEF Exact
<1>3. buf = Content(Msg, 7)
  <2>1. Kept[7] = 4 /\ Kept[7 + 1] = 4 /\ 7 \in 0..7 /\ buf \in Seq(Tokens)
        BY Tables DEF BoundInv, TypeOK
  <2>2. \A j \in 1..4 : buf[Len(buf) - 4 + j] = <<Msg, Fields[j]>>
        BY <1>2, <2>1 DEF EndsWell
  <2>3. \A j \in 1..4 : Len(buf) - 4 + j = j  BY <1>2
  <2>4. Len(buf) = Kept[7 + 1] /\ \A j \in 1..Kept[7 + 1] : buf[j] = <<Msg, Fields[j]>>
        BY <1>2, <2>1, <2>2, <2>3
  <2> QED  BY <2>1, <2>4, ContentIs, Zenon
<1>4. Good(Msg)  BY <1>3, FrameIs DEF Good
<1>5. ~Skip /\ ~Open /\ ~Unescape /\ ~Escape /\ ~Plain
      BY <1>1, <1>2 DEF Skip, Open, Unescape, Escape, Plain
<1>6. ~Short  BY <1>2 DEF Short, MinLen
<1>7. ~Bad  BY <1>1, <1>4 DEF Bad
<1> QED  BY <1>5, <1>6, <1>7 DEF Decode

LEMMA DecodeRefines ==
  ASSUME SyncInv, Decode
  PROVE  [Promise!Next]_(Promise!vars)
<1>1. UNCHANGED <<link, answers>>  BY DecodeType DEF SyncInv
<1>2. /\ Pos \in 1..7 /\ Whole # <<>> /\ Head(Whole) = Msg /\ Msg \in Messages
      /\ Whole' = IF Pos = 7 THEN Tail(Whole) ELSE Whole
      BY DecodeWhole DEF SyncInv
<1>3. /\ dirty' = (dirty /\ Pos # 7) /\ torn' = IF dirty' /\ busy' = None THEN torn ELSE None
      /\ dirty \in BOOLEAN /\ (torn # None => dirty)
      BY Reads DEF SyncInv, BoundInv, TypeOK, Tidy
<1>4. None \notin Messages  BY DEF None, Messages
<1>5. CASE \E m \in Messages : Done(m)
  <2>1. PICK m \in Messages : Done(m)  BY <1>5
  <2>2. /\ Pos \in {1, 7} /\ busy' = m /\ busy = None
        /\ Pos = 7 => m = Msg
        /\ Pos = 1 => m = torn /\ dirty
        BY <2>1, DoneIs
  <2>3. torn' = None  BY <1>3, <1>4, <2>2
  <2>4. CASE Pos = 7
    <3>1. Promise!Handle  BY <1>1, <1>2, <1>3, <2>2, <2>3, <2>4 DEF Promise!Handle, Promise!Taken
    <3> QED  BY <3>1 DEF Promise!Next
  <2>5. CASE Pos = 1
    <3>1. dirty' = dirty
      <4>1. dirty /\ Pos # 7  BY <2>2, <2>5
      <4> QED  BY <1>3, <4>1
    <3>2. torn # None /\ busy' = torn  BY <1>4, <2>2, <2>5
    <3>3. Promise!Late  BY <1>1, <1>2, <2>2, <2>3, <2>5, <3>1, <3>2 DEF Promise!Late
    <3> QED  BY <3>3 DEF Promise!Next
  <2> QED  BY <2>2, <2>4, <2>5
<1>6. CASE ~\E m \in Messages : Done(m)
  <2>1. busy = None /\ busy' = None
        BY <1>6 DEF Decode, Skip, Open, Unescape, Escape, Plain, Short, Bad, Delimiter, Read
  <2>2. CASE Pos = 7
    <3>1. dirty /\ dirty' = FALSE /\ torn' = None  BY <1>3, <1>6, <2>2, InStepIsDone
    <3>2. Promise!Miss  BY <1>1, <1>2, <2>1, <2>2, <3>1 DEF Promise!Miss, Promise!Taken
    <3> QED  BY <3>2 DEF Promise!Next
  <2>3. CASE Pos # 7
    <3>1. dirty' = dirty /\ torn' = torn  BY <1>3, <2>1, <2>3
    <3> QED  BY <1>1, <1>2, <2>1, <2>3, <3>1 DEF Promise!vars
  <2> QED  BY <2>2, <2>3
<1> QED  BY <1>5, <1>6

(* Every step of the program is a step of Delivery or invisible there.     *)
LEMMA StepRefines == SyncInv /\ [Next]_vars => [Promise!Next]_(Promise!vars)
<1> SUFFICES ASSUME SyncInv, [Next]_vars PROVE [Promise!Next]_(Promise!vars)  OBVIOUS
<1>1. CASE UNCHANGED vars  BY <1>1 DEF vars, history, Whole, Promise!vars
<1>2. CASE Connect
  <2>1. Promise!Connect  BY <1>2 DEF Connect, history, Whole, Promise!Connect
  <2> QED  BY <2>1 DEF Promise!Next
<1>3. CASE Send
  <2>1. Whole' = Append(Whole, serial + 1) /\ serial + 1 \in Messages
        BY <1>3, SendWhole, SendMoves DEF SyncInv
  <2>2. Promise!Send(serial + 1)  BY <1>3, <2>1 DEF Send, history, Promise!Send
  <2> QED  BY <2>1, <2>2 DEF Promise!Next
<1>4. CASE Cut
  <2>1. Promise!Cut  BY <1>4 DEF Cut, history, Whole, Promise!Cut
  <2> QED  BY <2>1 DEF Promise!Next
<1>5. CASE Decode  BY <1>5, DecodeRefines
<1>6. CASE Answer
  <2>1. Promise!Answer  BY <1>6 DEF Answer, history, Whole, Promise!Answer
  <2> QED  BY <2>1 DEF Promise!Next
<1>7. CASE Close
  <2>1. /\ link = "cut" /\ busy = None /\ link' = "down" /\ pipe' = <<>>
        /\ dirty' = (buf # <<>>) /\ torn' = IF buf = <<>> THEN None ELSE buf[Len(buf)][1]
        /\ UNCHANGED <<busy, answers>>
        BY <1>7 DEF Close
  <2>2. Whole' = <<>>  BY <2>1 DEF Whole
  <2>3. buf # <<>> => torn' = torn \/ (Whole # <<>> /\ torn' = Head(Whole))
    <3>1. Pos # 1 => pipe # <<>>  BY FrameIs DEF Pos
    <3> QED  BY <2>1, <3>1, WholeIs DEF SyncInv, Owned, WholeRun
  <2>4. buf # <<>> => torn' # None
    <3>1. buf # <<>> => buf[Len(buf)] \in Tokens  BY DEF SyncInv, BoundInv, TypeOK
    <3> QED  BY <2>1, <3>1 DEF Tokens, Messages, None
  <2>5. dirty' = (torn' # None)  BY <2>1, <2>4
  <2>6. torn' \in {None, torn} \cup (IF Whole = <<>> THEN {} ELSE {Head(Whole)})
        BY <2>1, <2>3
  <2>7. Promise!Close  BY <2>1, <2>2, <2>5, <2>6 DEF Promise!Close
  <2> QED  BY <2>7 DEF Promise!Next
<1> QED  BY <1>1, <1>2, <1>3, <1>4, <1>5, <1>6, <1>7 DEF Next, NetTask

(* The decoder, the handler and the acknowledgement implement Delivery: a  *)
(* message is missed or handled late only across a lost connection, all    *)
(* others are handled and answered once and in order. (The fairness of     *)
(* Implements is beyond this.)                                             *)
THEOREM ImplementsDelivery == Spec => Promise!Spec
<1>1. Init => Promise!Init  BY DEF Init, Whole, Promise!Init
<1> QED  BY <1>1, StepRefines, SyncAlways, PTL DEF Spec, Promise!Spec

-----------------------------------------------------------------------------
(* What a connection has been answered lies below what is being handled,   *)
(* below what an earlier connection left, and below what is yet to read.   *)
Climbs(a) == \A i, j \in 1..Len(a) : i < j => a[i] < a[j]
Below(n) == \A i \in 1..Len(answers) : answers[i] < n

AckInv ==
  /\ Climbs(answers) /\ Below(serial + 1)
  /\ busy # None => Below(busy) /\ torn = None /\ busy <= serial
  /\ torn # None => Below(torn) /\ torn <= serial
  /\ pipe # <<>> => Below(Msg) /\ busy < Msg /\ torn < Msg

LEMMA AckTypes ==
  ASSUME BoundInv
  PROVE  /\ answers \in Seq(Messages) /\ Messages \subseteq Nat /\ None = 0 /\ None \notin Messages
         /\ serial \in Nat /\ busy \in Nat /\ torn \in Nat
         /\ \A i \in 1..Len(answers) : answers[i] \in Nat /\ 0 < answers[i]
         /\ pipe # <<>> => Msg \in Messages /\ Msg \in Nat /\ 0 < Msg /\ Msg <= serial
<1>1. /\ answers \in Seq(Messages) /\ serial \in 0..MaxSerial
      /\ busy \in Messages \cup {None} /\ torn \in Messages \cup {None} /\ MaxSerial \in Nat
      BY BoundAssumption DEF BoundInv, TypeOK
<1>2. (\A m \in Messages : m \in Nat /\ 0 < m) /\ None = 0
      BY <1>1 DEF Messages, None
<1>3. \A i \in 1..Len(answers) : answers[i] \in Messages  BY <1>1
<1>4. pipe # <<>> => Msg \in Messages /\ Msg <= serial  BY WholeIs DEF WholeRun
<1> QED  BY <1>1, <1>2, <1>3, <1>4

LEMMA DecodeAcks ==
  ASSUME SyncInv, AckInv, Decode
  PROVE  AckInv'
<1>1. /\ pipe # <<>> /\ pipe' = Tail(pipe) /\ serial' = serial /\ answers' = answers
      BY DecodeType DEF SyncInv
<1>2. /\ Pos \in 1..7 /\ Msg \in Messages
      /\ dirty' = (dirty /\ Pos # 7)
      /\ torn' = IF dirty' /\ busy' = None THEN torn ELSE None
      BY Reads DEF SyncInv
<1>3. pipe' # <<>> => Msg' = IF Pos = 7 THEN Msg + 1 ELSE Msg
      BY <1>1, ReadMoves DEF SyncInv
<1>4. /\ serial \in Nat /\ torn \in Nat /\ Msg \in Nat /\ 0 < Msg /\ Msg <= serial
      /\ None = 0 /\ None \notin Messages
      /\ \A i \in 1..Len(answers) : answers[i] \in Nat
      BY <1>1, AckTypes DEF SyncInv
<1>5. \A n : Below(n)' <=> Below(n)  BY <1>1 DEF Below
<1>6. /\ Climbs(answers) /\ Below(serial + 1) /\ Below(Msg) /\ torn < Msg
      /\ torn # None => Below(torn) /\ torn <= serial
      BY <1>1 DEF AckInv
<1>7. Below(Msg + 1)  BY <1>4, <1>6 DEF Below
<1>8. CASE \E m \in Messages : Done(m)
  <2>1. PICK m \in Messages : Done(m)  BY <1>8
  <2>2. /\ Pos \in {1, 7} /\ busy' = m
        /\ Pos = 7 => m = Msg
        /\ Pos = 1 => m = torn
        BY <2>1, DoneIs
  <2>3. torn' = None  BY <1>2, <1>4, <2>2
  <2>4. Below(m) /\ m <= serial /\ (pipe' # <<>> => Below(Msg') /\ m < Msg' /\ 0 < Msg')
    <3>1. CASE Pos = 7  BY <1>3, <1>4, <1>6, <1>7, <2>2, <3>1
    <3>2. CASE Pos = 1  BY <1>3, <1>4, <1>6, <2>2, <3>2
    <3> QED  BY <2>2, <3>1, <3>2
  <2>5. Below(busy)' /\ Below(serial + 1)' /\ (pipe' # <<>> => Below(Msg)')
        BY <1>1, <1>6, <2>2, <2>4 DEF Below
  <2> QED  BY <1>1, <1>4, <1>6, <2>2, <2>3, <2>4, <2>5 DEF AckInv, Below
<1>9. CASE ~\E m \in Messages : Done(m)
  <2>1. busy' = None
        BY <1>9 DEF Decode, Skip, Open, Unescape, Escape, Plain, Short, Bad, Delimiter, Read
  <2>2. torn' \in {torn, None} /\ (Pos = 7 => torn' = None)  BY <1>2
  <2>3. pipe' # <<>> => Below(Msg') /\ 0 < Msg' /\ torn' < Msg'
        BY <1>2, <1>3, <1>4, <1>6, <1>7, <2>2
  <2>4. torn' # None => Below(torn') /\ torn' <= serial  BY <1>6, <2>2
  <2>5. Below(serial + 1)' /\ (torn' # None => Below(torn)') /\ (pipe' # <<>> => Below(Msg)')
        BY <1>1, <1>6, <2>3, <2>4 DEF Below
  <2> QED  BY <1>1, <1>4, <1>6, <2>1, <2>3, <2>4, <2>5 DEF AckInv
<1> QED  BY <1>8, <1>9

LEMMA AnswerAcks ==
  ASSUME BoundInv, AckInv, Answer
  PROVE  AckInv'
<1>1. /\ busy # None /\ busy' = None /\ UNCHANGED <<pipe, serial, torn>> /\ Msg' = Msg
      /\ answers' \in {answers, Append(answers, busy)}
      BY DEF Answer, history, Msg
<1>2. /\ answers \in Seq(Messages) /\ Len(answers) \in Nat /\ busy \in Nat /\ serial \in Nat
      /\ None = 0 /\ (\A i \in 1..Len(answers) : answers[i] \in Nat)
      /\ pipe # <<>> => Msg \in Nat /\ 0 < Msg
      BY AckTypes
<1>3. /\ Climbs(answers) /\ Below(serial + 1) /\ Below(busy) /\ torn = None /\ busy <= serial
      /\ pipe # <<>> => Below(Msg) /\ busy < Msg
      BY <1>1 DEF AckInv
<1>4. CASE answers' = answers
      BY <1>1, <1>2, <1>3, <1>4 DEF AckInv, Below
<1>5. CASE answers' = Append(answers, busy)
  <2>1. /\ Len(answers') = Len(answers) + 1
        /\ \A i \in 1..Len(answers) + 1 :
             answers'[i] = IF i <= Len(answers) THEN answers[i] ELSE busy
        BY <1>2, <1>5
  <2>2. \A n \in Nat : Below(n) /\ busy < n => \A i \in 1..Len(answers') : answers'[i] < n
        BY <1>2, <2>1 DEF Below
  <2>3. Climbs(answers')
    <3> SUFFICES ASSUME NEW i \in 1..Len(answers) + 1, NEW j \in 1..Len(answers) + 1, i < j
                 PROVE  answers'[i] < answers'[j]
        BY <2>1 DEF Climbs
    <3>1. i \in 1..Len(answers) /\ answers'[i] = answers[i]  BY <1>2, <2>1
    <3>2. CASE j <= Len(answers)  BY <1>2, <1>3, <2>1, <3>1, <3>2 DEF Climbs
    <3>3. CASE ~(j <= Len(answers))  BY <1>2, <1>3, <2>1, <3>1, <3>3 DEF Below
    <3> QED  BY <3>2, <3>3
  <2>4. Below(serial + 1)'
    <3>1. serial + 1 \in Nat /\ busy < serial + 1  BY <1>2, <1>3
    <3> QED  BY <1>1, <1>3, <2>2, <3>1 DEF Below
  <2>5. pipe # <<>> => Below(Msg)'  BY <1>1, <1>2, <1>3, <2>2 DEF Below
  <2> QED  BY <1>1, <1>2, <1>3, <2>3, <2>4, <2>5 DEF AckInv
<1> QED  BY <1>1, <1>4, <1>5

LEMMA AckKept == SyncInv /\ AckInv /\ [Next]_vars => AckInv'
<1> SUFFICES ASSUME SyncInv, AckInv, [Next]_vars PROVE AckInv'  OBVIOUS
<1>0. /\ serial \in Nat /\ busy \in Nat /\ torn \in Nat /\ None = 0
      /\ (\A i \in 1..Len(answers) : answers[i] \in Nat)
      /\ pipe # <<>> => Msg \in Nat /\ 0 < Msg /\ Msg <= serial
      BY AckTypes DEF SyncInv
<1>1. CASE UNCHANGED vars  BY <1>1 DEF vars, history, AckInv, Below, Msg
<1>2. CASE Connect
  <2>1. answers' = <<>> /\ UNCHANGED <<pipe, serial, busy, torn>> /\ Msg' = Msg
        BY <1>2 DEF Connect, history, Msg
  <2>2. 1..Len(answers') = {}
    <3>1. Len(answers') = 0 /\ 1..0 = {}  BY <2>1, EmptySeq
    <3> QED  BY <3>1
  <2> QED  BY <2>1, <2>2 DEF AckInv, Below, Climbs
<1>3. CASE Send
  <2>1. serial' = serial + 1 /\ Msg' = (IF pipe = <<>> THEN serial + 1 ELSE Msg)
        /\ UNCHANGED <<busy, torn, answers>>
        BY <1>3, SendMoves DEF SyncInv, Send, history
  <2>2. Below(serial + 1) /\ Climbs(answers)  BY DEF AckInv
  <2>3. busy < serial + 1 /\ torn < serial + 1  BY <1>0 DEF AckInv
  <2>4. Below(Msg') /\ busy < Msg' /\ torn < Msg'
        BY <2>1, <2>2, <2>3 DEF AckInv
  <2>5. Below(Msg)' /\ (\A n : Below(n)' <=> Below(n))
        BY <2>1, <2>2, <2>4 DEF Below
  <2>6. Below(serial + 1)'  BY <1>0, <2>1, <2>2 DEF Below
  <2> QED  BY <1>0, <2>1, <2>2, <2>4, <2>5, <2>6 DEF AckInv, Below
<1>4. CASE Cut  BY <1>4 DEF Cut, history, AckInv, Below, Msg
<1>5. CASE Decode  BY <1>5, DecodeAcks
<1>6. CASE Answer  BY <1>6, AnswerAcks DEF SyncInv
<1>7. CASE Close
  <2>1. /\ pipe' = <<>> /\ torn' = (IF buf = <<>> THEN None ELSE buf[Len(buf)][1])
        /\ busy = None /\ UNCHANGED <<busy, serial, answers>>
        BY <1>7 DEF Close
  <2>2. torn' \in {None, torn} \/ (pipe # <<>> /\ torn' = Msg)
    <3>1. Pos # 1 => pipe # <<>>  BY FrameIs DEF Pos
    <3> QED  BY <2>1, <3>1 DEF SyncInv, Owned
  <2>3. torn' # None => Below(torn') /\ torn' <= serial  BY <1>0, <2>2 DEF AckInv
  <2>4. torn' # None => Below(torn)'  BY <2>1, <2>3 DEF Below
  <2>5. Below(serial + 1)'  BY <2>1 DEF AckInv, Below
  <2> QED  BY <2>1, <2>3, <2>4, <2>5 DEF AckInv
<1> QED  BY <1>1, <1>2, <1>3, <1>4, <1>5, <1>6, <1>7 DEF Next, NetTask

(* A connection is answered in the order of the platform's serials and no  *)
(* message twice (taxi.c:93-104), although the decoder, kept over          *)
(* connections, may bring a message of an earlier one late.                *)
AnsweredInOrder == Climbs(answers)

THEOREM AnswersClimb == Spec => []AnsweredInOrder
<1>1. Init => AckInv
  <2> SUFFICES ASSUME Init PROVE AckInv  OBVIOUS
  <2>1. answers = <<>> /\ pipe = <<>> /\ busy = None /\ torn = None  BY DEF Init
  <2>2. 1..Len(answers) = {}
    <3>1. Len(answers) = 0 /\ 1..0 = {}  BY <2>1, EmptySeq
    <3> QED  BY <3>1
  <2> QED  BY <2>1, <2>2 DEF AckInv, Below, Climbs
<1>2. AckInv => AnsweredInOrder  BY DEF AckInv, AnsweredInOrder
<1> QED  BY <1>1, <1>2, AckKept, SyncAlways, PTL DEF Spec
=============================================================================
