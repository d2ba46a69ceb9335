----------------------------- MODULE Jt808Proofs -----------------------------
(***************************************************************************)
(* Proofs about Jt808, for any number of threads, any messages with a body *)
(* of up to seven bytes and any buffer that holds them.                    *)
(***************************************************************************)
EXTENDS Jt808, SequenceTheorems, FiniteSetTheorems, TLAPS

LEMMA Constants ==
  /\ Flag = 6 /\ Esc = 5 /\ Overhead = 3 /\ None = <<>> /\ Byte = 0..7
  /\ Outside = [in |-> FALSE, esc |-> FALSE, buf |-> <<>>]
  /\ Opened = [in |-> TRUE, esc |-> FALSE, buf |-> <<>>]
  /\ <<>> \in Seq(Byte) /\ Len(<<>>) = 0
<1>1. <<>> \in Seq(Byte) /\ Len(<<>>) = 0  BY EmptySeq
<1>2. Outside = [in |-> FALSE, esc |-> FALSE, buf |-> <<>>]  BY DEF Outside
<1>3. Opened = [in |-> TRUE, esc |-> FALSE, buf |-> <<>>]  BY DEF Opened
<1>4. Flag = 6 /\ Esc = 5 /\ Overhead = 3 /\ None = <<>> /\ Byte = 0..7
      BY DEF Flag, Esc, Overhead, None, Byte
<1> QED  BY <1>1, <1>2, <1>3, <1>4

(* The frame of a message, and what an escape does to a byte.              *)
LEMMA ChecksumType ==
  ASSUME NEW s \in Seq(Byte)
  PROVE  Checksum(s) \in Byte
<1> DEFINE Ones(w) == {i \in DOMAIN s : (s[i] \div w) % 2 = 1}
<1>1. \A w \in {1, 2, 4} : Cardinality(Ones(w)) \in Nat
  <2> SUFFICES ASSUME NEW w \in {1, 2, 4} PROVE Cardinality(Ones(w)) \in Nat  OBVIOUS
  <2>1. IsFiniteSet(1..Len(s)) /\ Ones(w) \subseteq 1..Len(s)
    <3>1. 1 \in Int /\ Len(s) \in Int  OBVIOUS
    <3>2. IsFiniteSet(1..Len(s))  BY <3>1, FS_Interval
    <3> QED  BY <3>2
  <2> HIDE DEF Ones
  <2>2. IsFiniteSet(Ones(w))  BY <2>1, FS_Subset
  <2> QED  BY <2>2, FS_CardinalityType
<1>2. \A n \in Nat : n % 2 \in {0, 1}  OBVIOUS
<1>3. Checksum(s) = 1 * (Cardinality(Ones(1)) % 2) + 2 * (Cardinality(Ones(2)) % 2)
                    + 4 * (Cardinality(Ones(4)) % 2)
      BY DEF Checksum
<1> HIDE DEF Ones
<1>4. /\ Cardinality(Ones(1)) % 2 \in {0, 1} /\ Cardinality(Ones(2)) % 2 \in {0, 1}
      /\ Cardinality(Ones(4)) % 2 \in {0, 1}
      BY <1>1, <1>2
<1> QED  BY <1>3, <1>4 DEF Byte

LEMMA MessageIs ==
  ASSUME NEW m \in Messages
  PROVE  /\ m \in Seq(Byte) /\ Len(m) \in 1..8 /\ m # None /\ Len(m) + 2 < Cap
         /\ \A k \in 1..Len(m) : m[k] \in Byte
<1>1. m \in Seq(Byte) /\ Len(m) \in 1..8 /\ Len(m) + 2 < Cap  BY Jt808Assumption
<1>2. m # None
  <2> SUFFICES ASSUME m = None PROVE FALSE  OBVIOUS
  <2>1. Len(m) = 0  BY EmptySeq, Zenon DEF None
  <2> QED  BY <1>1, <2>1
<1>3. \A k \in 1..Len(m) : m[k] \in Byte  BY <1>1
<1> QED  BY <1>1, <1>2, <1>3

LEMMA ContentIs ==
  ASSUME NEW m \in Messages
  PROVE  LET c == Content(m) IN
         /\ c \in Seq(Byte) /\ Len(c) = Len(m) + 2
         /\ c[1] = m[1] /\ c[2] = Len(m) - 1
         /\ \A k \in 3..Len(m) + 1 : c[k] = m[k - 1]
         /\ Checksum(SubSeq(c, 1, Len(c) - 1)) = c[Len(c)]
<1> DEFINE h == <<Head(m), Len(m) - 1>>
           t == Tail(m)
           s == h \o t
           c == Append(s, Checksum(s))
<1>1. /\ m \in Seq(Byte) /\ Len(m) \in 1..8 /\ m # <<>> /\ Head(m) = m[1] /\ m[1] \in Byte
      /\ t \in Seq(Byte) /\ Len(t) = Len(m) - 1
      /\ \A k \in 1..Len(m) - 1 : t[k] = m[k + 1]
      BY MessageIs, Constants
<1>2. Len(m) - 1 \in Byte
  <2>1. \A n \in 1..8 : n - 1 \in Byte  BY DEF Byte
  <2> QED  BY <1>1, <2>1
<1>3. h \in Seq(Byte) /\ Len(h) = 2 /\ h[1] = m[1] /\ h[2] = Len(m) - 1
      BY <1>1, <1>2
<1> HIDE DEF h, t
<1>4. /\ s \in Seq(Byte) /\ Len(s) = Len(m) + 1
      /\ s[1] = m[1] /\ s[2] = Len(m) - 1
      /\ \A k \in 3..Len(m) + 1 : s[k] = m[k - 1]
  <2>1. /\ s \in Seq(Byte) /\ Len(s) = Len(h) + Len(t)
        /\ \A i \in 1..Len(h) + Len(t) : s[i] = IF i <= Len(h) THEN h[i] ELSE t[i - Len(h)]
        BY <1>1, <1>3, ConcatProperties
  <2> HIDE DEF s
  <2>2. Len(s) = Len(m) + 1 /\ s[1] = m[1] /\ s[2] = Len(m) - 1  BY <1>1, <1>3, <2>1
  <2>3. ASSUME NEW k \in 3..Len(m) + 1  PROVE s[k] = m[k - 1]
    <3>1. s[k] = t[k - 2]  BY <1>1, <1>3, <2>1
    <3>2. k - 2 \in 1..Len(m) - 1 /\ k - 2 + 1 = k - 1  BY <1>1
    <3> QED  BY <1>1, <3>1, <3>2
  <2> QED  BY <2>1, <2>2, <2>3
<1> HIDE DEF s
<1>5. Checksum(s) \in Byte  BY <1>4, ChecksumType
<1>6. /\ c \in Seq(Byte) /\ Len(c) = Len(m) + 2 /\ c[Len(c)] = Checksum(s)
      /\ \A k \in 1..Len(m) + 1 : c[k] = s[k]
      BY <1>1, <1>4, <1>5
<1>7. SubSeq(c, 1, Len(c) - 1) = s
  <2> DEFINE f == SubSeq(c, 1, Len(m) + 1)
  <2> HIDE DEF c
  <2>1. f \in Seq(Byte) /\ Len(f) = Len(m) + 1 /\ \A k \in 1..Len(m) + 1 : f[k] = c[k]
        BY <1>1, <1>6
  <2>2. f = s
    <3> HIDE DEF f
    <3>1. Len(f) = Len(s) /\ \A k \in 1..Len(f) : f[k] = s[k]  BY <1>1, <1>4, <1>6, <2>1
    <3> QED  BY <1>4, <2>1, <3>1, SeqEqual, Zenon
  <2>3. Len(c) - 1 = Len(m) + 1  BY <1>1, <1>6
  <2> QED  BY <2>2, <2>3
<1>8. Content(m) = c  BY DEF Content, c, s, h, t
<1> HIDE DEF c
<1>9. c[1] = m[1] /\ c[2] = Len(m) - 1 /\ \A k \in 3..Len(m) + 1 : c[k] = m[k - 1]
      BY <1>1, <1>4, <1>6
<1> QED  BY <1>6, <1>7, <1>8, <1>9

LEMMA BuildIs ==
  ASSUME NEW m \in Messages
  PROVE  /\ Len(Build(m)) = Len(m) + 4
         /\ Build(m)[1] = <<Flag>> /\ Build(m)[Len(m) + 4] = <<Flag>>
         /\ \A k \in 2..Len(m) + 3 : Build(m)[k] = Escaped(Content(m)[k - 1])
<1> DEFINE S == Seq(Int)
           e == [i \in DOMAIN Content(m) |-> Escaped(Content(m)[i])]
           f == <<<<Flag>>>>
<1>1. Len(m) \in 1..8 /\ DOMAIN Content(m) = 1..Len(m) + 2
      /\ \A i \in 1..Len(m) + 2 : Content(m)[i] \in Byte
      BY MessageIs, ContentIs
<1>2. \A b \in Byte : Escaped(b) \in S  BY DEF Escaped, Byte, Esc, Flag
<1>3. e \in Seq(S) /\ Len(e) = Len(m) + 2
      /\ \A i \in 1..Len(m) + 2 : e[i] = Escaped(Content(m)[i])
  <2>1. e \in [1..Len(m) + 2 -> S]  BY <1>1, <1>2
  <2> HIDE DEF S
  <2> QED  BY <1>1, <2>1
<1>4. f \in Seq(S) /\ Len(f) = 1 /\ f[1] = <<Flag>>
  <2>1. <<Flag>> \in S  BY DEF Flag
  <2> QED  BY <2>1
<1>5. Build(m) = f \o e \o f  BY DEF Build
<1> HIDE DEF e, f, S
<1> DEFINE g == f \o e
<1>6. g \in Seq(S) /\ Len(g) = Len(m) + 3
      /\ g[1] = <<Flag>> /\ \A k \in 2..Len(m) + 3 : g[k] = e[k - 1]
  <2>1. /\ g \in Seq(S) /\ Len(g) = Len(f) + Len(e)
        /\ \A i \in 1..Len(f) + Len(e) : g[i] = IF i <= Len(f) THEN f[i] ELSE e[i - Len(f)]
        BY <1>3, <1>4, ConcatProperties
  <2> HIDE DEF g
  <2> QED  BY <1>1, <1>3, <1>4, <2>1
<1>7. Len(Build(m)) = Len(m) + 4 /\ Build(m)[Len(m) + 4] = <<Flag>>
      /\ \A k \in 1..Len(m) + 3 : Build(m)[k] = g[k]
  <2> DEFINE b == g \o f
  <2> HIDE DEF g
  <2>1. /\ b \in Seq(S) /\ Len(b) = Len(g) + Len(f)
        /\ \A i \in 1..Len(g) + Len(f) : b[i] = IF i <= Len(g) THEN g[i] ELSE f[i - Len(g)]
        BY <1>4, <1>6, ConcatProperties
  <2> HIDE DEF b
  <2>2. Len(b) = Len(m) + 4 /\ b[Len(m) + 4] = f[1] /\ \A k \in 1..Len(m) + 3 : b[k] = g[k]
        BY <1>1, <1>4, <1>6, <2>1
  <2> QED  BY <1>4, <1>5, <2>2 DEF b, g
<1> HIDE DEF g
<1>8. \A k \in 2..Len(m) + 3 : Build(m)[k] = Escaped(Content(m)[k - 1])
  <2> SUFFICES ASSUME NEW k \in 2..Len(m) + 3 PROVE Build(m)[k] = Escaped(Content(m)[k - 1])
      OBVIOUS
  <2>1. k - 1 \in 1..Len(m) + 2 /\ k \in 1..Len(m) + 3  BY <1>1
  <2> QED  BY <1>3, <1>6, <1>7, <2>1
<1> QED  BY <1>1, <1>6, <1>7, <1>8

LEMMA BodyIs ==
  ASSUME NEW b \in Seq(Byte), Len(b) >= 3
  PROVE  LET t == SubSeq(b, 3, Len(b) - 1) IN
         t \in Seq(Byte) /\ Len(t) = Len(b) - 3 /\ \A k \in 1..Len(b) - 3 : t[k] = b[k + 2]
<1> DEFINE t == SubSeq(b, 3, Len(b) - 1)
           n == Len(b) - 3
<1>1. Len(b) \in Nat /\ n \in Nat /\ \A k \in 1..Len(b) : b[k] \in Byte  OBVIOUS
<1>2. t = [k \in 1..n |-> b[k + 2]]
  <2>1. t = [k \in 1..Len(b) - 1 - 3 + 1 |-> b[3 + k - 1]]  BY <1>1
  <2>2. Len(b) - 1 - 3 + 1 = n /\ \A k \in 1..n : 3 + k - 1 = k + 2  BY <1>1
  <2> QED  BY <2>1, <2>2
<1>3. \A k \in 1..n : b[k + 2] \in Byte
  <2>1. \A k \in 1..n : k + 2 \in 1..Len(b)  BY <1>1
  <2> QED  BY <1>1, <2>1
<1> HIDE DEF t, n
<1>4. t \in [1..n -> Byte]  BY <1>2, <1>3
<1>5. t \in Seq(Byte) /\ Len(t) = n  BY <1>1, <1>4
<1> QED  BY <1>2, <1>5 DEF t, n

(* A decoder that holds the content of a message takes it for the message. *)
LEMMA TakenIs ==
  ASSUME NEW m \in Messages, NEW d, NEW c, AtEnd(d, c), d.buf = Content(m)
  PROVE  Taken(d, c) = m
<1> DEFINE b == Content(m)
           t == SubSeq(b, 3, Len(b) - 1)
           h == <<b[1]>>
<1>1. /\ b \in Seq(Byte) /\ Len(b) = Len(m) + 2 /\ b[1] = m[1] /\ b[2] = Len(m) - 1
      /\ \A k \in 3..Len(m) + 1 : b[k] = m[k - 1]
      /\ Checksum(SubSeq(b, 1, Len(b) - 1)) = b[Len(b)]
      BY ContentIs
<1>2. m \in Seq(Byte) /\ Len(m) \in 1..8 /\ m[1] \in Byte  BY MessageIs
<1> HIDE DEF b
<1>3. Sound(b) /\ Len(b) >= Overhead  BY <1>1, <1>2 DEF Sound, Overhead
<1>4. t \in Seq(Byte) /\ Len(t) = Len(m) - 1 /\ \A k \in 1..Len(m) - 1 : t[k] = m[k + 1]
  <2>1. Len(b) >= 3 /\ Len(b) - 3 = Len(m) - 1  BY <1>1, <1>2
  <2>2. t \in Seq(Byte) /\ Len(t) = Len(b) - 3 /\ \A k \in 1..Len(b) - 3 : t[k] = b[k + 2]
        BY <1>1, <2>1, BodyIs
  <2>3. t \in Seq(Byte) /\ Len(t) = Len(m) - 1 /\ \A k \in 1..Len(m) - 1 : t[k] = b[k + 2]
        BY <2>1, <2>2
  <2>4. ASSUME NEW k \in 1..Len(m) - 1  PROVE t[k] = m[k + 1]
    <3>1. t[k] = b[k + 2]  BY <2>3
    <3>2. k + 2 \in 3..Len(m) + 1 /\ k + 2 - 1 = k + 1  BY <1>2
    <3> QED  BY <1>1, <3>1, <3>2
  <2> QED  BY <2>3, <2>4
<1>5. h \in Seq(Byte) /\ Len(h) = 1 /\ h[1] = m[1]  BY <1>1, <1>2
<1> HIDE DEF t, h
<1>6. Message(b) = m
  <2> DEFINE g == h \o t
  <2>1. /\ g \in Seq(Byte) /\ Len(g) = Len(h) + Len(t)
        /\ \A i \in 1..Len(h) + Len(t) : g[i] = IF i <= Len(h) THEN h[i] ELSE t[i - Len(h)]
        BY <1>4, <1>5, ConcatProperties
  <2>2. Message(b) = g  BY DEF Message, g, h, t
  <2> HIDE DEF g
  <2>3. Len(g) = Len(m)  BY <1>2, <1>4, <1>5, <2>1
  <2>4. ASSUME NEW i \in 1..Len(g)  PROVE g[i] = m[i]
    <3>1. CASE i = 1  BY <1>2, <1>4, <1>5, <2>1, <2>3, <3>1
    <3>2. CASE i # 1
      <4>1. i - 1 \in 1..Len(m) - 1 /\ i - 1 + 1 = i /\ ~(i <= 1)  BY <1>2, <2>3, <3>2
      <4> QED  BY <1>2, <1>4, <1>5, <2>1, <2>3, <4>1
    <3> QED  BY <3>1, <3>2
  <2>5. g = m  BY <1>2, <2>1, <2>3, <2>4, SeqEqual
  <2> QED  BY <2>2, <2>5
<1>7. d.buf = b  BY DEF b
<1> QED  BY <1>3, <1>6, <1>7 DEF Taken

LEMMA TakenType ==
  ASSUME NEW d, d.buf \in Seq(Byte), NEW c
  PROVE  Taken(d, c) \in Seq(Byte)
<1> DEFINE b == d.buf
           t == SubSeq(b, 3, Len(b) - 1)
           h == <<b[1]>>
<1>1. b \in Seq(Byte)  OBVIOUS
<1> HIDE DEF b
<1>2. CASE Len(b) >= 3
  <2>1. Len(b) \in Nat /\ \A k \in 1..Len(b) : b[k] \in Byte  BY <1>1
  <2>2. h \in Seq(Byte)
    <3>1. b[1] \in Byte  BY <1>2, <2>1
    <3> QED  BY <3>1
  <2>3. t \in Seq(Byte)  BY <1>1, <1>2, BodyIs
  <2>4. h \o t \in Seq(Byte)
    <3> HIDE DEF h, t
    <3> QED  BY <2>2, <2>3, ConcatProperties
  <2>5. Message(b) \in Seq(Byte)  BY <2>4 DEF Message
  <2>6. Message(d.buf) \in Seq(Byte)  BY <2>5 DEF b
  <2> QED  BY <2>6, Constants DEF Taken
<1>3. CASE ~(Len(b) >= 3)
  <2>1. ~(Len(d.buf) >= 3)  BY <1>3 DEF b
  <2> QED  BY <2>1, Constants DEF Taken
<1> QED  BY <1>2, <1>3

-----------------------------------------------------------------------------
(* Where in its frame a sender is: Sent bytes of the content are out, and  *)
(* Half of the next one when its escape mark is.                           *)
Sent(s) == pos[s].piece - 2
Half(s) == pos[s].byte = 2
Special == {Flag, Esc}

InFrame(m, p) ==
  /\ p \in [piece : 2..Len(m) + 4, byte : {1, 2}]
  /\ p.byte = 2 => p.piece # Len(m) + 4 /\ Content(m)[p.piece - 1] \in Special

(* The byte that is sent from there, and where that leads.                 *)
LEMMA SendsOf ==
  ASSUME NEW m \in Messages, NEW p, InFrame(m, p), p.piece # Len(m) + 4
  PROVE  LET x == Content(m)[p.piece - 1]
             c == ByteAt(m, p)
             q == Beyond(m, p)
         IN /\ x \in Byte /\ c \in Byte /\ c # Flag /\ InFrame(m, q)
            /\ p.piece # Len(Build(m))
            /\ p.byte = 1 /\ x \in Special => c = Esc /\ q.byte = 2 /\ q.piece = p.piece
            /\ p.byte = 1 /\ x \notin Special => c = x /\ q.byte = 1 /\ q.piece = p.piece + 1
            /\ p.byte = 2 => Unescaped(c) = x /\ c # Esc /\ q.byte = 1 /\ q.piece = p.piece + 1
<1> DEFINE x == Content(m)[p.piece - 1]
           c == ByteAt(m, p)
           q == Beyond(m, p)
           e == Build(m)[p.piece]
<1>1. Len(m) \in 1..8 /\ p.piece \in 2..Len(m) + 3 /\ p.byte \in {1, 2}
  <2>1. Len(m) \in 1..8  BY MessageIs
  <2>2. p.piece \in 2..Len(m) + 4 /\ p.byte \in {1, 2}  BY DEF InFrame
  <2> QED  BY <2>1, <2>2
<1>2. x \in Byte
  <2>1. p.piece - 1 \in 1..Len(m) + 2  BY <1>1
  <2>2. Content(m) \in Seq(Byte) /\ Len(Content(m)) = Len(m) + 2  BY ContentIs
  <2> QED  BY <2>1, <2>2
<1>3. e = Escaped(x) /\ Len(Build(m)) = Len(m) + 4  BY <1>1, BuildIs
<1>4. p.byte = 2 => x \in Special  BY DEF InFrame
<1> HIDE DEF x
<1>5. /\ x = Flag => e = <<5, 2>>
      /\ x = Esc => e = <<5, 1>>
      /\ x \notin Special => e = <<x>>
      BY <1>3 DEF Escaped, Special, Flag, Esc
<1> HIDE DEF e
<1>6. c = e[p.byte]  BY DEF ByteAt, e
<1>7. q = IF p.byte < Len(e) THEN [p EXCEPT !.byte = p.byte + 1]
          ELSE [piece |-> p.piece + 1, byte |-> 1]
      BY DEF Beyond, e
<1>8. p.piece + 1 \in 2..Len(m) + 4 /\ p.piece \in 2..Len(m) + 4  BY <1>1
<1>9. p \in [piece : 2..Len(m) + 4, byte : {1, 2}]  BY DEF InFrame
<1> HIDE DEF c
<1>10. CASE p.byte = 1 /\ x \in Special
  <2>1. Len(e) = 2 /\ e[1] = 5  BY <1>5, <1>10 DEF Special
  <2>2. c = 5 /\ q = [p EXCEPT !.byte = 2]  BY <1>6, <1>7, <1>10, <2>1
  <2> HIDE DEF q
  <2>3. q \in [piece : 2..Len(m) + 4, byte : {1, 2}] /\ q.byte = 2 /\ q.piece = p.piece
        BY <1>9, <2>2
  <2>4. InFrame(m, q)  BY <1>10, <2>3 DEF InFrame, x
  <2> QED  BY <1>2, <1>3, <1>10, <2>2, <2>3, <2>4 DEF x, c, q, Flag, Esc, Byte
<1>11. CASE p.byte = 1 /\ x \notin Special
  <2>1. Len(e) = 1 /\ e[1] = x  BY <1>5, <1>11
  <2>2. c = x /\ q = [piece |-> p.piece + 1, byte |-> 1]  BY <1>6, <1>7, <1>11, <2>1
  <2> HIDE DEF q
  <2>3. q \in [piece : 2..Len(m) + 4, byte : {1, 2}] /\ q.byte = 1 /\ q.piece = p.piece + 1
        BY <1>8, <2>2
  <2>4. InFrame(m, q)  BY <2>3 DEF InFrame
  <2>5. c # Flag  BY <1>11, <2>2 DEF Special
  <2> QED  BY <1>2, <1>3, <1>11, <2>2, <2>3, <2>4, <2>5 DEF x, c, q
<1>12. CASE p.byte = 2
  <2>1. x \in Special /\ Len(e) = 2 /\ (x = Flag => e[2] = 2) /\ (x = Esc => e[2] = 1)
        BY <1>4, <1>5, <1>12 DEF Special
  <2>2. /\ x = Flag => c = 2
        /\ x = Esc => c = 1
        /\ q = [piece |-> p.piece + 1, byte |-> 1]
        BY <1>6, <1>7, <1>12, <2>1
  <2> HIDE DEF q
  <2>3. q \in [piece : 2..Len(m) + 4, byte : {1, 2}] /\ q.byte = 1 /\ q.piece = p.piece + 1
        BY <1>8, <2>2
  <2>4. InFrame(m, q)  BY <2>3 DEF InFrame
  <2>5. Unescaped(c) = x /\ c # Flag /\ c # Esc /\ c \in Byte
        BY <2>1, <2>2 DEF Special, Unescaped, Flag, Esc, Byte
  <2> QED  BY <1>2, <1>3, <1>12, <2>3, <2>4, <2>5 DEF x, c, q
<1> QED  BY <1>1, <1>10, <1>11, <1>12

LEMMA SendsLast ==
  ASSUME NEW m \in Messages, NEW p, InFrame(m, p), p.piece = Len(m) + 4
  PROVE  ByteAt(m, p) = Flag /\ p.piece = Len(Build(m)) /\ p.byte = 1
<1>1. p.byte \in {1, 2} /\ p.byte # 2  BY DEF InFrame
<1>2. Build(m)[p.piece] = <<Flag>> /\ Len(Build(m)) = Len(m) + 4  BY BuildIs
<1> QED  BY <1>1, <1>2 DEF ByteAt

LEMMA SendsFirst ==
  ASSUME NEW m \in Messages
  PROVE  /\ ByteAt(m, Start) = Flag /\ InFrame(m, Beyond(m, Start))
         /\ Beyond(m, Start).piece = 2 /\ Beyond(m, Start).byte = 1
<1>1. Build(m)[1] = <<Flag>> /\ Len(m) \in 1..8  BY BuildIs, MessageIs
<1>2. ByteAt(m, Start) = Flag  BY <1>1 DEF ByteAt, Start
<1>3. Beyond(m, Start) = [piece |-> 2, byte |-> 1]
  <2>1. Start.byte = 1 /\ Start.piece = 1  BY DEF Start
  <2>2. Len(Build(m)[1]) = 1  BY <1>1
  <2> QED  BY <2>1, <2>2 DEF Beyond
<1>4. 2 \in 2..Len(m) + 4  BY <1>1
<1> QED  BY <1>2, <1>3, <1>4 DEF InFrame

-----------------------------------------------------------------------------
(* What a decoder holds, and one byte of either decoder. *)
DecType ==
  /\ side \in {"terminal", "platform"}
  /\ dec \in [in : BOOLEAN, esc : BOOLEAN, buf : Seq(Byte)] /\ (~dec.in => dec = Outside)
  /\ side = "terminal" => Len(dec.buf) <= Cap
  /\ odd \in BOOLEAN

Plain(d, c) == d.in /\ ~AtEnd(d, c) /\ (d.esc \/ c # Esc)
Holds(d, c) == IF d.esc THEN Unescaped(c) ELSE c

LEMMA UnescapedType == \A c \in Byte : Unescaped(c) \in Byte
BY DEF Unescaped, Byte, Flag, Esc

LEMMA FedIs ==
  ASSUME NEW d \in [in : BOOLEAN, esc : BOOLEAN, buf : Seq(Byte)], ~d.in => d = Outside,
         NEW c \in Byte, ~AtEnd(d, c)
  PROVE  LET e == Fed(d, c) IN
         /\ e \in [in : BOOLEAN, esc : BOOLEAN, buf : Seq(Byte)] /\ (~e.in => e = Outside)
         /\ ~d.in => e.buf = <<>> /\ ~e.esc /\ (e.in <=> c = Flag)
         /\ d.in /\ ~Plain(d, c) => e.in /\ e.esc /\ e.buf = d.buf
         /\ Plain(d, c) => /\ e.in /\ ~e.esc /\ e.buf = Append(d.buf, Holds(d, c))
                           /\ Len(e.buf) = Len(d.buf) + 1
<1> DEFINE e == Fed(d, c)
           R == [in : BOOLEAN, esc : BOOLEAN, buf : Seq(Byte)]
<1>1. CASE ~d.in
  <2>1. e = IF c = Flag THEN Opened ELSE Outside  BY <1>1 DEF Fed
  <2>2. Opened \in R /\ Outside \in R  BY Constants
  <2>3. Opened.in /\ ~Opened.esc /\ Opened.buf = <<>>  BY DEF Opened
  <2>4. ~Outside.in /\ ~Outside.esc /\ Outside.buf = <<>>  BY DEF Outside
  <2> QED  BY <1>1, <2>1, <2>2, <2>3, <2>4 DEF Plain
<1>2. CASE d.in /\ ~Plain(d, c)
  <2>1. ~d.esc /\ c = Esc  BY <1>2 DEF Plain
  <2>2. e = [d EXCEPT !.esc = TRUE]  BY <1>2, <2>1 DEF Fed
  <2>3. e \in R /\ e.in = d.in /\ e.esc = TRUE /\ e.buf = d.buf  BY <2>2
  <2> QED  BY <1>2, <2>3
<1>3. CASE Plain(d, c)
  <2> DEFINE b == Append(d.buf, Holds(d, c))
  <2>1. Holds(d, c) \in Byte  BY UnescapedType DEF Holds
  <2>2. d.buf \in Seq(Byte)  OBVIOUS
  <2>3. b \in Seq(Byte) /\ Len(b) = Len(d.buf) + 1  BY <2>1, <2>2
  <2>4. e = Stored(d, c)  BY <1>3 DEF Fed, Plain
  <2>5. e = [d EXCEPT !.esc = FALSE, !.buf = b]  BY <2>4 DEF Stored, Holds
  <2> HIDE DEF b, e
  <2>6. e \in R /\ e.in = d.in /\ e.esc = FALSE /\ e.buf = b  BY <2>3, <2>5
  <2>7. d.in  BY <1>3 DEF Plain
  <2> QED  BY <1>3, <2>3, <2>6, <2>7 DEF b, e
<1> QED  BY <1>1, <1>2, <1>3 DEF Plain

LEMMA DecodeIs ==
  ASSUME DecType, NEW c \in Byte, Decode(c), side' = side
  PROVE  /\ DecType' /\ took' \in Seq(Byte)
         /\ ~AtEnd(dec, c) => took' = None
         /\ AtEnd(dec, c) /\ (side = "platform" \/ Len(dec.buf) >= Overhead) => dec' = Outside
         /\ AtEnd(dec, c) => dec' \in {dec, Outside}
         /\ ~dec.in => dec'.buf = <<>> /\ ~dec'.esc /\ (dec'.in <=> c = Flag)
         /\ dec.in /\ ~AtEnd(dec, c) /\ ~Plain(dec, c) =>
              dec'.in /\ dec'.esc /\ dec'.buf = dec.buf
         /\ Plain(dec, c) /\ (side = "platform" \/ ~Full(dec)) =>
              /\ dec'.in /\ ~dec'.esc /\ dec'.buf = Append(dec.buf, Holds(dec, c))
              /\ Len(dec'.buf) = Len(dec.buf) + 1
         /\ Plain(dec, c) /\ side = "terminal" /\ Full(dec) => dec' = Outside
         /\ odd' = (odd # (dec.in /\ dec.esc /\ c = Flag))
<1> DEFINE R == [in : BOOLEAN, esc : BOOLEAN, buf : Seq(Byte)]
           e == Fed(dec, c)
<1>1. dec \in R /\ (~dec.in => dec = Outside) /\ dec.buf \in Seq(Byte) /\ Len(dec.buf) \in Nat
      BY DEF DecType
<1>2. took' = Taken(dec, c) /\ odd' = (odd # (dec.in /\ dec.esc /\ c = Flag))
      BY DEF Decode
<1>3. took' \in Seq(Byte)  BY <1>1, <1>2, TakenType
<1>4. ~AtEnd(dec, c) => took' = None  BY <1>2 DEF Taken
<1>5. odd' \in BOOLEAN  BY <1>2
<1>6. Outside \in R /\ Len(Outside.buf) = 0 /\ ~Outside.in /\ Cap \in Nat
      BY Constants, Jt808Assumption
<1>7. CASE AtEnd(dec, c)
  <2>1. dec' = IF side = "terminal" /\ Len(dec.buf) < Overhead THEN dec ELSE Outside
    <3>1. CASE side = "terminal"  BY <1>7, <3>1 DEF Decode, TerminalNext
    <3>2. CASE side # "terminal"  BY <1>7, <3>2 DEF Decode, PlatformNext
    <3> QED  BY <3>1, <3>2
  <2>2. dec.in /\ ~Plain(dec, c)  BY <1>7 DEF AtEnd, Plain
  <2>3. DecType'  BY <1>1, <1>5, <1>6, <2>1 DEF DecType
  <2>4. side = "platform" \/ Len(dec.buf) >= Overhead => dec' = Outside
    <3>1. Overhead = 3  BY DEF Overhead
    <3> QED  BY <1>1, <2>1, <3>1
  <2> QED  BY <1>2, <1>3, <1>7, <2>1, <2>2, <2>3, <2>4
<1>8. CASE ~AtEnd(dec, c) /\ Plain(dec, c) /\ side = "terminal" /\ Full(dec)
  <2>1. dec' = Outside  BY <1>8 DEF Decode, TerminalNext, Plain
  <2>2. DecType'  BY <1>5, <1>6, <2>1 DEF DecType
  <2> QED  BY <1>2, <1>3, <1>4, <1>8, <2>1, <2>2 DEF Plain
<1>9. CASE ~AtEnd(dec, c) /\ ~(Plain(dec, c) /\ side = "terminal" /\ Full(dec))
  <2>1. dec' = e
    <3>1. CASE side = "terminal"  BY <1>9, <3>1 DEF Decode, TerminalNext, Plain
    <3>2. CASE side # "terminal"  BY <1>9, <3>2 DEF Decode, PlatformNext
    <3> QED  BY <3>1, <3>2
  <2>2. /\ e \in R /\ (~e.in => e = Outside)
        /\ ~dec.in => e.buf = <<>> /\ ~e.esc /\ (e.in <=> c = Flag)
        /\ dec.in /\ ~Plain(dec, c) => e.in /\ e.esc /\ e.buf = dec.buf
        /\ Plain(dec, c) => /\ e.in /\ ~e.esc /\ e.buf = Append(dec.buf, Holds(dec, c))
                            /\ Len(e.buf) = Len(dec.buf) + 1
        BY <1>1, <1>9, FedIs
  <2> HIDE DEF e
  <2>3. side = "terminal" => Len(dec'.buf) <= Cap
    <3> SUFFICES ASSUME side = "terminal" PROVE Len(dec'.buf) <= Cap  OBVIOUS
    <3>1. Len(dec.buf) <= Cap  BY DEF DecType
    <3>2. CASE Plain(dec, c)
      <4>1. ~Full(dec)  BY <1>9, <3>2
      <4>2. Len(dec.buf) < Cap  BY <1>1, <1>6, <4>1 DEF Full
      <4> QED  BY <1>1, <1>6, <2>1, <2>2, <3>2, <4>2
    <3>3. CASE ~Plain(dec, c)
      <4>1. dec'.buf \in {dec.buf, <<>>}  BY <2>1, <2>2, <3>3
      <4>2. Len(<<>>) = 0  BY Constants
      <4> QED  BY <1>6, <3>1, <4>1, <4>2
    <3> QED  BY <3>2, <3>3
  <2>4. DecType'  BY <1>5, <2>1, <2>2, <2>3 DEF DecType
  <2> QED  BY <1>2, <1>3, <1>4, <1>9, <2>1, <2>2, <2>4
<1> QED  BY <1>7, <1>8, <1>9

-----------------------------------------------------------------------------
(* Every sender stands in the frame of its message, the others at a start. *)
Placed == \A s \in Senders : IF Sending(s) THEN InFrame(msg[s], pos[s]) ELSE pos[s] = Start

LEMMA TypeGives ==
  ASSUME TypeOK
  PROVE  /\ DecType /\ msg \in [Senders -> Messages \cup {None}]
         /\ alone \in BOOLEAN /\ calm \in BOOLEAN /\ odd \in BOOLEAN
         /\ \A s \in Senders : Sending(s) => msg[s] \in Messages
BY DEF TypeOK, DecType, Sending

LEMMA InFrameType ==
  ASSUME NEW m \in Messages, NEW p, InFrame(m, p)
  PROVE  p \in [piece : 1..12, byte : 1..2]
<1>1. Len(m) \in 1..8  BY MessageIs
<1>2. p \in [piece : 2..Len(m) + 4, byte : {1, 2}]  BY DEF InFrame
<1>3. \A k \in 2..Len(m) + 4 : k \in 1..12
  <2>1. \A n \in 1..8 : \A k \in 2..n + 4 : k \in 1..12  OBVIOUS
  <2> QED  BY <1>1, <2>1, Zenon
<1>4. \A k \in {1, 2} : k \in 1..2  OBVIOUS
<1> QED  BY <1>2, <1>3, <1>4

(* What a step of a sender does to its place, and the byte it sends.       *)
LEMMA BeginIs ==
  ASSUME TypeOK, Placed, NEW s \in Senders, NEW m \in Messages, Begin(s, m)
  PROVE  /\ Decode(Flag) /\ side' = side /\ ended' = None
         /\ ~Sending(s) /\ Sending(s)' /\ \A t \in Senders \ {s} : Sending(t)' <=> Sending(t)
         /\ \A t \in Senders \ {s} : msg'[t] = msg[t] /\ pos'[t] = pos[t]
         /\ msg'[s] = m /\ InFrame(m, pos'[s]) /\ pos'[s].piece = 2 /\ pos'[s].byte = 1
<1>1. msg' = [msg EXCEPT ![s] = m] /\ pos' = [pos EXCEPT ![s] = Beyond(m, Start)]
      BY DEF Begin
<1>2. msg \in [Senders -> Messages \cup {None}] /\ pos \in [Senders -> [piece : 1..12, byte : 1..2]]
      BY DEF TypeOK
<1>3. ByteAt(m, Start) = Flag /\ InFrame(m, Beyond(m, Start))
      /\ Beyond(m, Start).piece = 2 /\ Beyond(m, Start).byte = 1
      BY SendsFirst
<1>4. m # None  BY MessageIs
<1>5. /\ msg'[s] = m /\ pos'[s] = Beyond(m, Start)
      /\ \A t \in Senders \ {s} : msg'[t] = msg[t] /\ pos'[t] = pos[t]
      BY <1>1, <1>2
<1>6. Decode(Flag) /\ side' = side /\ ended' = None /\ ~Sending(s)  BY <1>3 DEF Begin
<1> QED  BY <1>3, <1>4, <1>5, <1>6 DEF Sending

LEMMA GoOnIs ==
  ASSUME TypeOK, Placed, NEW s \in Senders, GoOn(s)
  PROVE  LET m == msg[s]
             c == ByteAt(m, pos[s])
         IN /\ Decode(c) /\ side' = side /\ Sending(s) /\ m \in Messages /\ InFrame(m, pos[s])
            /\ \A t \in Senders \ {s} : msg'[t] = msg[t] /\ pos'[t] = pos[t]
            /\ \A t \in Senders \ {s} : Sending(t)' <=> Sending(t)
            /\ Ends(s) => /\ c = Flag /\ pos[s].piece = Len(m) + 4 /\ pos[s].byte = 1
                          /\ ~Sending(s)' /\ msg'[s] = None /\ pos'[s] = Start /\ ended' = m
            /\ ~Ends(s) => /\ c # Flag /\ c \in Byte /\ pos[s].piece # Len(m) + 4
                           /\ Sending(s)' /\ msg'[s] = m /\ pos'[s] = Beyond(m, pos[s])
                           /\ ended' = None /\ InFrame(m, pos'[s])
<1> DEFINE m == msg[s]
           p == pos[s]
           c == ByteAt(m, p)
<1>1. /\ msg' = [msg EXCEPT ![s] = IF Ends(s) THEN None ELSE m]
      /\ pos' = [pos EXCEPT ![s] = IF Ends(s) THEN Start ELSE Beyond(m, p)]
      BY DEF GoOn
<1>2. msg \in [Senders -> Messages \cup {None}] /\ pos \in [Senders -> [piece : 1..12, byte : 1..2]]
      BY DEF TypeOK
<1>3. /\ msg'[s] = IF Ends(s) THEN None ELSE m
      /\ pos'[s] = IF Ends(s) THEN Start ELSE Beyond(m, p)
      /\ \A t \in Senders \ {s} : msg'[t] = msg[t] /\ pos'[t] = pos[t]
      BY <1>1, <1>2
<1>4. Decode(c) /\ side' = side /\ Sending(s) /\ ended' = IF Ends(s) THEN m ELSE None
      BY DEF GoOn
<1>5. m \in Messages /\ m # None /\ InFrame(m, p)
      BY <1>4, TypeGives DEF Placed, Sending
<1>6. \A t \in Senders \ {s} : Sending(t)' <=> Sending(t)  BY <1>3 DEF Sending
<1> HIDE DEF m, p, c
<1>7. Len(Build(m)) = Len(m) + 4 /\ (Ends(s) <=> p.piece = Len(m) + 4)
      BY <1>5, BuildIs DEF Ends, m, p
<1>8. CASE Ends(s)
  <2>1. c = Flag /\ p.byte = 1  BY <1>5, <1>7, <1>8, SendsLast DEF c
  <2>2. ~Sending(s)' /\ msg'[s] = None  BY <1>3, <1>8 DEF Sending
  <2> QED  BY <1>3, <1>4, <1>5, <1>6, <1>7, <1>8, <2>1, <2>2 DEF m, p, c
<1>9. CASE ~Ends(s)
  <2>1. c # Flag /\ c \in Byte /\ InFrame(m, Beyond(m, p))
        BY <1>5, <1>7, <1>9, SendsOf DEF c
  <2>2. Sending(s)' /\ msg'[s] = m  BY <1>3, <1>5, <1>9 DEF Sending
  <2> QED  BY <1>3, <1>4, <1>5, <1>6, <1>7, <1>9, <2>1, <2>2 DEF m, p, c
<1> QED  BY <1>8, <1>9

LEMMA TypeStep ==
  ASSUME TypeOK, Placed, [Next]_vars
  PROVE  TypeOK' /\ Placed'
<1> DEFINE P == [piece : 1..12, byte : 1..2]
<1>0. /\ msg \in [Senders -> Messages \cup {None}] /\ pos \in [Senders -> P]
      /\ frames \in 0..MaxFrames /\ cuts \in 0..MaxCuts /\ MaxFrames \in Nat /\ MaxCuts \in Nat
      /\ alone \in BOOLEAN /\ calm \in BOOLEAN /\ odd \in BOOLEAN /\ DecType
      BY TypeGives, Jt808Assumption DEF TypeOK
<1>1. ASSUME NEW s \in Senders, Switch(s)
      PROVE  cuts' \in 0..MaxCuts /\ turn' \in Senders
  <2>1. cuts' \in {cuts, cuts + 1} /\ cuts' <= MaxCuts /\ turn' = s  BY <1>1 DEF Switch
  <2>2. cuts \in Nat /\ cuts + 1 \in Nat  BY <1>0
  <2> QED  BY <1>0, <2>1, <2>2
<1>2. ASSUME NEW s \in Senders, NEW m \in Messages, Begin(s, m)
      PROVE  TypeOK' /\ Placed'
  <2>1. /\ Decode(Flag) /\ side' = side /\ ended' = None /\ Sending(s)'
        /\ \A t \in Senders \ {s} : Sending(t)' <=> Sending(t)
        /\ \A t \in Senders \ {s} : msg'[t] = msg[t] /\ pos'[t] = pos[t]
        /\ msg'[s] = m /\ InFrame(m, pos'[s])
        BY <1>2, BeginIs
  <2>2. Placed'  BY <2>1 DEF Placed
  <2>3. msg' \in [Senders -> Messages \cup {None}] /\ pos' \in [Senders -> P]
    <3>1. Beyond(m, Start) \in P  BY SendsFirst, InFrameType
    <3> QED  BY <1>0, <1>2, <3>1 DEF Begin
  <2>4. DecType' /\ took' \in Seq(Byte)
    <3>1. Flag \in Byte  BY DEF Flag, Byte
    <3> QED  BY <1>0, <2>1, <3>1, DecodeIs
  <2>5. frames' \in 0..MaxFrames
    <3>1. frames' = frames + 1 /\ frames < MaxFrames  BY <1>2 DEF Begin
    <3> QED  BY <1>0, <3>1
  <2>6. cuts' \in 0..MaxCuts /\ turn' \in Senders  BY <1>1, <1>2 DEF Begin
  <2>7. alone' \in BOOLEAN /\ calm' \in BOOLEAN  BY <1>2 DEF Begin, Quiet
  <2> QED  BY <2>1, <2>2, <2>3, <2>4, <2>5, <2>6, <2>7 DEF TypeOK, DecType
<1>3. ASSUME NEW s \in Senders, GoOn(s)
      PROVE  TypeOK' /\ Placed'
  <2> DEFINE m == msg[s]
             c == ByteAt(m, pos[s])
  <2>1. /\ Decode(c) /\ side' = side /\ m \in Messages
        /\ \A t \in Senders \ {s} : msg'[t] = msg[t] /\ pos'[t] = pos[t]
        /\ \A t \in Senders \ {s} : Sending(t)' <=> Sending(t)
        /\ Ends(s) => c = Flag /\ ~Sending(s)' /\ msg'[s] = None /\ pos'[s] = Start /\ ended' = m
        /\ ~Ends(s) => /\ c \in Byte /\ Sending(s)' /\ msg'[s] = m
                       /\ pos'[s] = Beyond(m, pos[s]) /\ ended' = None /\ InFrame(m, pos'[s])
        BY <1>3, GoOnIs
  <2> HIDE DEF m, c
  <2>2. Placed'
    <3>1. IF Sending(s)' THEN InFrame(msg'[s], pos'[s]) ELSE pos'[s] = Start  BY <2>1
    <3>2. ASSUME NEW t \in Senders \ {s}
          PROVE  IF Sending(t)' THEN InFrame(msg'[t], pos'[t]) ELSE pos'[t] = Start
          BY <2>1 DEF Placed
    <3> QED  BY <3>1, <3>2 DEF Placed
  <2>3. msg' \in [Senders -> Messages \cup {None}] /\ pos' \in [Senders -> P]
    <3>1. Start \in P  BY DEF Start
    <3>2. ~Ends(s) => Beyond(m, pos[s]) \in P  BY <2>1, InFrameType
    <3>3. msg' = [msg EXCEPT ![s] = IF Ends(s) THEN None ELSE m]
          /\ pos' = [pos EXCEPT ![s] = IF Ends(s) THEN Start ELSE Beyond(m, pos[s])]
          BY <1>3 DEF GoOn, m
    <3> QED  BY <1>0, <2>1, <3>1, <3>2, <3>3
  <2>4. DecType' /\ took' \in Seq(Byte)
    <3>1. c \in Byte  BY <2>1 DEF Flag, Byte
    <3> QED  BY <1>0, <2>1, <3>1, DecodeIs
  <2>5. cuts' \in 0..MaxCuts /\ turn' \in Senders  BY <1>1, <1>3 DEF GoOn
  <2>6. frames' = frames /\ alone' = alone /\ calm' \in BOOLEAN  BY <1>3 DEF GoOn
  <2>7. ended' \in Messages \cup {None}  BY <2>1
  <2> QED  BY <1>0, <2>1, <2>2, <2>3, <2>4, <2>5, <2>6, <2>7 DEF TypeOK, DecType
<1>4. CASE Reconnect
  <2>1. /\ msg' = [s \in Senders |-> None] /\ pos' = [s \in Senders |-> Start]
        /\ dec' = IF side = "platform" THEN Outside ELSE dec
        /\ took' = None /\ ended' = None /\ frames' = 0 /\ cuts' = 0 /\ odd' = FALSE
        /\ side' = side /\ turn' = turn /\ alone' = alone /\ calm' \in BOOLEAN
        BY <1>4 DEF Reconnect
  <2>2. Start \in P  BY DEF Start
  <2>3. Placed'  BY <2>1 DEF Placed, Sending
  <2>4. DecType' /\ took' \in Seq(Byte)
    <3>1. /\ Outside \in [in : BOOLEAN, esc : BOOLEAN, buf : Seq(Byte)]
          /\ Outside.buf = <<>> /\ Len(<<>>) = 0 /\ None \in Seq(Byte) /\ Cap \in Nat
          BY Constants, Jt808Assumption
    <3> QED  BY <1>0, <2>1, <3>1 DEF DecType
  <2>5. msg' \in [Senders -> Messages \cup {None}] /\ pos' \in [Senders -> P]  BY <2>1, <2>2
  <2>6. frames' \in 0..MaxFrames /\ cuts' \in 0..MaxCuts /\ turn' \in Senders
        BY <1>0, <2>1 DEF TypeOK
  <2> QED  BY <1>0, <2>1, <2>3, <2>4, <2>5, <2>6 DEF TypeOK, DecType
<1>5. CASE UNCHANGED vars
      BY <1>5 DEF vars, TypeOK, Placed, Sending
<1> QED  BY <1>2, <1>3, <1>4, <1>5 DEF Next

LEMMA InitTypes ==
  ASSUME Init
  PROVE  TypeOK /\ Placed
<1>1. /\ Outside \in [in : BOOLEAN, esc : BOOLEAN, buf : Seq(Byte)]
      /\ Outside.buf = <<>> /\ Len(<<>>) = 0 /\ None \in Seq(Byte)
      /\ Cap \in Nat /\ MaxFrames \in Nat /\ MaxCuts \in Nat
      BY Constants, Jt808Assumption
<1>2. Start \in [piece : 1..12, byte : 1..2]  BY DEF Start
<1>3. Placed  BY DEF Init, Placed, Sending
<1>4. /\ msg \in [Senders -> Messages \cup {None}] /\ pos \in [Senders -> [piece : 1..12, byte : 1..2]]
      BY <1>2 DEF Init
<1>5. /\ dec = Outside /\ side \in {"terminal", "platform"} /\ turn \in Senders
      /\ took = None /\ ended = None /\ frames = 0 /\ cuts = 0
      /\ alone = TRUE /\ calm = TRUE /\ odd = FALSE
      BY DEF Init
<1>6. frames \in 0..MaxFrames /\ cuts \in 0..MaxCuts /\ Len(dec.buf) <= Cap  BY <1>1, <1>5
<1>7. {alone, calm, odd} \subseteq BOOLEAN  BY <1>5
<1> QED  BY <1>1, <1>3, <1>4, <1>5, <1>6, <1>7 DEF TypeOK

(* The decoders never hold an escape outside a frame, and the terminal's   *)
(* buffer is at most full, whatever threads write and however their frames *)
(* are cut: jt808_decode stores a byte only where one is left.             *)
THEOREM TypeCorrect == Spec => []TypeOK
<1>1. Init => TypeOK /\ Placed  BY InitTypes
<1>2. (TypeOK /\ Placed) /\ [Next]_vars => (TypeOK /\ Placed)'  BY TypeStep
<1> QED  BY <1>1, <1>2, PTL DEF Spec

-----------------------------------------------------------------------------
(* A delimiter moves the platform's decoder in or out of a frame or is     *)
(* taken for data. Each frame has one at its start and one at its end, so  *)
(* that their number is odd exactly if that of the open frames is.         *)
Active == {s \in Senders : Sending(s)}
Odds(n) == n % 2 = 1
Flags == side = "platform" => ((dec.in # odd) <=> Odds(Cardinality(Active)))

LEMMA OddsFlip == \A n \in Nat : Odds(n + 1) <=> ~Odds(n)
<1>1. \A n \in Nat : (n + 1) % 2 = 1 - (n % 2) /\ n % 2 \in {0, 1}  OBVIOUS
<1>2. \A n \in Nat : (n + 1) % 2 = 1 <=> ~(n % 2 = 1)
  <2> SUFFICES ASSUME NEW n \in Nat PROVE (n + 1) % 2 = 1 <=> ~(n % 2 = 1)  OBVIOUS
  <2>1. (n + 1) % 2 = 1 - (n % 2) /\ n % 2 \in {0, 1}  BY <1>1
  <2> QED  BY <2>1
<1> QED  BY <1>2 DEF Odds

LEMMA ActiveFinite == IsFiniteSet(Active) /\ Cardinality(Active) \in Nat
<1>1. IsFiniteSet(Active)  BY Jt808Assumption, FS_Subset DEF Active
<1> QED  BY <1>1, FS_CardinalityType

LEMMA Flip ==
  ASSUME DecType, NEW c \in Byte, Decode(c), side' = side, side = "platform"
  PROVE  /\ c = Flag => ((dec.in # odd)' <=> ~(dec.in # odd))
         /\ c # Flag => ((dec.in # odd)' <=> (dec.in # odd))
<1>1. dec.in \in BOOLEAN /\ dec.esc \in BOOLEAN /\ odd \in BOOLEAN  BY DEF DecType
<1>2. /\ DecType'
      /\ AtEnd(dec, c) => dec' = Outside
      /\ ~dec.in => (dec'.in <=> c = Flag)
      /\ dec.in /\ ~AtEnd(dec, c) => dec'.in
      /\ odd' = (odd # (dec.in /\ dec.esc /\ c = Flag))
  <2>1. dec.in /\ ~AtEnd(dec, c) => dec'.in
    <3>1. Plain(dec, c) => dec'.in  BY DecodeIs
    <3>2. dec.in /\ ~AtEnd(dec, c) /\ ~Plain(dec, c) => dec'.in  BY DecodeIs
    <3> QED  BY <3>1, <3>2
  <2>2. DecType' /\ (~dec.in => (dec'.in <=> c = Flag))  BY DecodeIs
  <2>3. AtEnd(dec, c) => dec' = Outside  BY DecodeIs
  <2>4. odd' = (odd # (dec.in /\ dec.esc /\ c = Flag))  BY DecodeIs
  <2> QED  BY <2>1, <2>2, <2>3, <2>4
<1>3. dec'.in \in BOOLEAN /\ odd' \in BOOLEAN
  <2>1. DecType'  BY <1>2
  <2>2. dec' \in [in : BOOLEAN, esc : BOOLEAN, buf : Seq(Byte)] /\ odd' \in BOOLEAN
        BY <2>1 DEF DecType
  <2> QED  BY <2>2
<1>4. ~Outside.in  BY DEF Outside
<1>5. CASE c # Flag
  <2>1. odd' = odd  BY <1>1, <1>2, <1>5
  <2>2. dec'.in = dec.in  BY <1>1, <1>2, <1>3, <1>5 DEF AtEnd
  <2> QED  BY <1>5, <2>1, <2>2
<1>6. CASE c = Flag /\ dec.in /\ dec.esc
  <2>1. odd' = ~odd /\ dec'.in  BY <1>1, <1>2, <1>6 DEF AtEnd
  <2> QED  BY <1>1, <1>3, <1>6, <2>1
<1>7. CASE c = Flag /\ ~(dec.in /\ dec.esc)
  <2>1. odd' = odd  BY <1>1, <1>2, <1>7
  <2>2. dec.in => ~dec'.in
    <3>1. dec.in => AtEnd(dec, c)  BY <1>1, <1>7 DEF AtEnd
    <3> QED  BY <1>2, <1>4, <3>1
  <2>3. ~dec.in => dec'.in  BY <1>2, <1>7
  <2> QED  BY <1>1, <1>3, <1>7, <2>1, <2>2, <2>3
<1> QED  BY <1>5, <1>6, <1>7

LEMMA FlagsStep ==
  ASSUME TypeOK, Placed, Flags, [Next]_vars
  PROVE  Flags'
<1>0. DecType /\ IsFiniteSet(Active) /\ Cardinality(Active) \in Nat /\ Flag \in Byte
      BY TypeGives, ActiveFinite DEF Flag, Byte
<1>1. ASSUME NEW s \in Senders, NEW m \in Messages, Begin(s, m)
      PROVE  Flags'
  <2>1. Decode(Flag) /\ side' = side /\ ~Sending(s) /\ Sending(s)'
        /\ \A t \in Senders \ {s} : Sending(t)' <=> Sending(t)
        BY <1>1, BeginIs
  <2>2. Active' = Active \cup {s} /\ s \notin Active  BY <2>1 DEF Active
  <2>3. Cardinality(Active') = Cardinality(Active) + 1  BY <1>0, <2>2, FS_AddElement
  <2>4. Odds(Cardinality(Active')) <=> ~Odds(Cardinality(Active))  BY <1>0, <2>3, OddsFlip
  <2>5. side = "platform" => ((dec.in # odd)' <=> ~(dec.in # odd))  BY <1>0, <2>1, Flip
  <2>6. Flags' <=> (side' = "platform" => ((dec.in # odd)' <=> Odds(Cardinality(Active'))))
        BY DEF Flags
  <2> QED  BY <2>1, <2>4, <2>5, <2>6 DEF Flags
<1>2. ASSUME NEW s \in Senders, GoOn(s)
      PROVE  Flags'
  <2> DEFINE c == ByteAt(msg[s], pos[s])
  <2>1. /\ Decode(c) /\ side' = side /\ Sending(s)
        /\ \A t \in Senders \ {s} : Sending(t)' <=> Sending(t)
        /\ Ends(s) => c = Flag /\ ~Sending(s)'
        /\ ~Ends(s) => c # Flag /\ c \in Byte /\ Sending(s)'
        BY <1>2, GoOnIs
  <2> HIDE DEF c
  <2>2. c \in Byte  BY <1>0, <2>1
  <2>3. side = "platform" => /\ c = Flag => ((dec.in # odd)' <=> ~(dec.in # odd))
                             /\ c # Flag => ((dec.in # odd)' <=> (dec.in # odd))
        BY <1>0, <2>1, <2>2, Flip
  <2>4. Flags' <=> (side' = "platform" => ((dec.in # odd)' <=> Odds(Cardinality(Active'))))
        BY DEF Flags
  <2>5. CASE Ends(s)
    <3>1. Active = Active' \cup {s} /\ s \notin Active'  BY <2>1, <2>5 DEF Active
    <3>2. IsFiniteSet(Active')
      <4>1. Active' \subseteq Active  BY <3>1
      <4> QED  BY <1>0, <4>1, FS_Subset
    <3>3. Cardinality(Active) = Cardinality(Active') + 1  BY <3>1, <3>2, FS_AddElement
    <3>4. Cardinality(Active') \in Nat  BY <3>2, FS_CardinalityType
    <3>5. Odds(Cardinality(Active)) <=> ~Odds(Cardinality(Active'))  BY <3>3, <3>4, OddsFlip
    <3> QED  BY <2>1, <2>3, <2>4, <2>5, <3>5 DEF Flags
  <2>6. CASE ~Ends(s)
    <3>1. Active' = Active  BY <2>1, <2>6 DEF Active
    <3> QED  BY <2>1, <2>3, <2>4, <2>6, <3>1 DEF Flags
  <2> QED  BY <2>5, <2>6
<1>3. CASE Reconnect
  <2>1. side' = side /\ odd' = FALSE /\ (side = "platform" => dec' = Outside)
        /\ msg' = [s \in Senders |-> None]
        BY <1>3 DEF Reconnect
  <2>2. Active' = {}  BY <2>1 DEF Active, Sending
  <2>3. ~Odds(Cardinality(Active'))  BY <2>2, FS_EmptySet DEF Odds
  <2>4. ~Outside.in  BY DEF Outside
  <2>5. Flags' <=> (side' = "platform" => ((dec.in # odd)' <=> Odds(Cardinality(Active'))))
        BY DEF Flags
  <2>6. side = "platform" => ~(dec.in # odd)'
    <3>1. DecType'  BY TypeStep, TypeGives DEF DecType, TypeOK
    <3> QED  BY <2>1, <2>4, <3>1 DEF DecType
  <2> QED  BY <2>1, <2>3, <2>5, <2>6
<1>4. CASE UNCHANGED vars
  <2>1. Active' = Active  BY <1>4 DEF vars, Active, Sending
  <2> QED  BY <1>4, <2>1 DEF vars, Flags
<1> QED  BY <1>1, <1>2, <1>3, <1>4 DEF Next

LEMMA InitFlags ==
  ASSUME Init
  PROVE  Flags
<1>1. Active = {}  BY DEF Init, Active, Sending
<1>2. ~Odds(Cardinality(Active))  BY <1>1, FS_EmptySet DEF Odds
<1>3. ~dec.in /\ odd = FALSE  BY DEF Init, Outside
<1>4. dec.in = FALSE  BY DEF Init, Outside
<1> QED  BY <1>2, <1>3, <1>4 DEF Flags

(* Between frames the platform's decoder is out of step exactly if an odd  *)
(* number of delimiters was taken for data since the connection began:     *)
(* Decoder.feed drops nothing else and never looks for a frame's start.    *)
THEOREM ParityHolds == Spec => []Parity
<1>1. Init => TypeOK /\ Placed /\ Flags  BY InitTypes, InitFlags
<1>2. (TypeOK /\ Placed /\ Flags) /\ [Next]_vars => (TypeOK /\ Placed /\ Flags)'
      BY TypeStep, FlagsStep
<1>3. TypeOK /\ Flags => Parity
  <2> SUFFICES ASSUME TypeOK, Flags, side = "platform", Quiet PROVE dec.in <=> odd
      BY DEF Parity
  <2>1. Active = {}  BY DEF Quiet, Active
  <2>2. ~Odds(Cardinality(Active))  BY <2>1, FS_EmptySet DEF Odds
  <2>3. dec.in \in BOOLEAN /\ odd \in BOOLEAN  BY TypeGives DEF DecType
  <2> QED  BY <2>2, <2>3 DEF Flags
<1> QED  BY <1>1, <1>2, <1>3, PTL DEF Spec

-----------------------------------------------------------------------------
(* How the decoder follows a frame that is sent alone. Clear is what the   *)
(* promise of TakesWhatWasSent depends on.                                 *)
Clear == IF side = "terminal" THEN calm ELSE ~odd

(* The decoder holds what is out of the frame of s, escape mark included.  *)
InStep(s) ==
  /\ dec.in /\ (dec.esc <=> Half(s))
  /\ Len(dec.buf) = Sent(s)
  /\ \A i \in 1..Sent(s) : dec.buf[i] = Content(msg[s])[i]

(* What holds of the decoder while s sends alone: an escape is pending     *)
(* only where s is in one; the terminal's decoder, if it is in a frame,    *)
(* has kept every byte, whatever it held before; it is in step if Clear.   *)
Follows(s) ==
  /\ dec.esc => Half(s)
  /\ side = "terminal" /\ dec.in => Len(dec.buf) >= Sent(s)
  /\ Clear => InStep(s)

Single == \A s, t \in Senders : alone /\ Sending(s) /\ Sending(t) => s = t
CalmAlone == calm /\ ~Quiet => alone
Between ==
  Quiet /\ (side = "terminal" => calm) =>
    /\ ~dec.esc
    /\ side = "terminal" => dec.buf = <<>>
FollowInv ==
  /\ Single /\ CalmAlone /\ Between
  /\ alone => \A s \in Senders : Sending(s) => Follows(s)

(* A delimiter leaves no escape pending.                                   *)
LEMMA FlagClears ==
  ASSUME DecType, Decode(Flag), side' = side
  PROVE  ~dec'.esc
<1>1. Flag \in Byte /\ Flag # Esc /\ ~Outside.esc  BY DEF Flag, Byte, Esc, Outside
<1>2. CASE ~dec.in  BY <1>1, <1>2, DecodeIs
<1>3. CASE AtEnd(dec, Flag)
  <2>1. dec' \in {dec, Outside} /\ ~dec.esc  BY <1>1, <1>3, DecodeIs DEF AtEnd
  <2> QED  BY <1>1, <2>1
<1>4. CASE dec.in /\ ~AtEnd(dec, Flag)
  <2>1. Plain(dec, Flag)  BY <1>1, <1>4 DEF Plain
  <2>2. CASE side = "platform" \/ ~Full(dec)  BY <1>1, <2>1, <2>2, DecodeIs
  <2>3. CASE ~(side = "platform" \/ ~Full(dec))
    <3>1. dec' = Outside  BY <1>1, <2>1, <2>3, DecodeIs DEF DecType
    <3> QED  BY <1>1, <3>1
  <2> QED  BY <2>2, <2>3
<1> QED  BY <1>2, <1>3, <1>4

(* Where a delimiter opens a frame: outside of one or, at the terminal,    *)
(* in one that holds nothing yet.                                          *)
LEMMA FlagOpens ==
  ASSUME DecType, Decode(Flag), side' = side, ~dec.esc,
         dec.in => side = "terminal" /\ dec.buf = <<>>
  PROVE  dec'.in /\ ~dec'.esc /\ dec'.buf = <<>> /\ took' = None /\ odd' = odd
<1>1. Flag \in Byte /\ Len(<<>>) = 0 /\ Overhead = 3  BY Constants DEF Flag, Byte
<1>2. odd' = odd
  <2>1. odd' = (odd # (dec.in /\ dec.esc /\ Flag = Flag)) /\ odd \in BOOLEAN
        BY <1>1, DecodeIs DEF DecType
  <2> QED  BY <2>1
<1>3. CASE ~dec.in
  <2>1. dec'.buf = <<>> /\ ~dec'.esc /\ (dec'.in <=> Flag = Flag)  BY <1>1, <1>3, DecodeIs
  <2>2. took' = None
    <3>1. ~AtEnd(dec, Flag)  BY <1>3 DEF AtEnd
    <3> QED  BY <1>1, <3>1, DecodeIs
  <2> QED  BY <1>2, <2>1, <2>2
<1>4. CASE dec.in
  <2>1. AtEnd(dec, Flag) /\ side = "terminal" /\ dec.buf = <<>>  BY <1>4 DEF AtEnd
  <2>2. dec' = dec  BY <1>1, <2>1 DEF Decode, TerminalNext
  <2>3. took' = None  BY <1>1, <2>1 DEF Decode, Taken
  <2> QED  BY <1>2, <1>4, <2>1, <2>2, <2>3
<1> QED  BY <1>3, <1>4

LEMMA BeginFollows ==
  ASSUME TypeOK, Placed, Flags, FollowInv, NEW s \in Senders, NEW m \in Messages, Begin(s, m)
  PROVE  /\ FollowInv'
         /\ alone' /\ (IF side = "terminal" THEN calm ELSE ~odd') => took' = ended'
<1> DEFINE Kept == IF side = "terminal" THEN calm ELSE ~odd'
<1>1. /\ Decode(Flag) /\ side' = side /\ ended' = None /\ ~Sending(s) /\ Sending(s)'
      /\ \A t \in Senders \ {s} : Sending(t)' <=> Sending(t)
      /\ pos'[s].piece = 2 /\ pos'[s].byte = 1
      BY BeginIs
<1>2. alone' = Quiet /\ calm' = (calm /\ Quiet)  BY DEF Begin
<1>3. /\ DecType /\ Flag \in Byte /\ dec.in \in BOOLEAN /\ dec.esc \in BOOLEAN
      /\ odd \in BOOLEAN /\ calm \in BOOLEAN
      BY TypeGives DEF Flag, Byte, DecType
<1>4. side \in {"terminal", "platform"}  BY DEF TypeOK
<1>5. ASSUME Quiet, Kept
      PROVE  dec'.in /\ ~dec'.esc /\ dec'.buf = <<>> /\ took' = None
  <2>1. ~dec.esc /\ (side = "terminal" => dec.buf = <<>>)
        BY <1>5 DEF FollowInv, Between
  <2>2. side = "platform" => ~dec.in
    <3> SUFFICES ASSUME side = "platform" PROVE ~dec.in  OBVIOUS
    <3>1. odd' = (odd # (dec.in /\ dec.esc /\ Flag = Flag))  BY <1>1, <1>3, DecodeIs
    <3>2. ~odd  BY <1>3, <1>5, <2>1, <3>1
    <3>3. Active = {}  BY <1>5 DEF Quiet, Active
    <3>4. ~Odds(Cardinality(Active))  BY <3>3, FS_EmptySet DEF Odds
    <3> QED  BY <1>3, <3>2, <3>4 DEF Flags
  <2> QED  BY <1>1, <1>3, <1>4, <2>1, <2>2, FlagOpens
<1>6. alone' /\ Kept => took' = ended'  BY <1>1, <1>2, <1>5
<1>7. Single'
  <2>1. \A t \in Senders : alone' /\ Sending(t)' => t = s  BY <1>1, <1>2 DEF Quiet
  <2> QED  BY <2>1 DEF Single
<1>8. CalmAlone'  BY <1>2 DEF CalmAlone
<1>9. Between'
  <2>1. ~Quiet'  BY <1>1 DEF Quiet
  <2> QED  BY <2>1 DEF Between
<1>10. ASSUME alone', NEW t \in Senders, Sending(t)'
       PROVE  Follows(t)'
  <2>1. t = s  BY <1>1, <1>2, <1>10 DEF Quiet
  <2>2. ~dec'.esc  BY <1>1, <1>3, FlagClears
  <2>3. Sent(s)' = 0 /\ ~Half(s)'  BY <1>1 DEF Sent, Half
  <2>4. Len(dec'.buf) \in Nat
    <3>1. DecType'  BY <1>1, <1>3, DecodeIs
    <3>2. dec'.buf \in Seq(Byte)  BY <3>1 DEF DecType
    <3> QED  BY <3>2
  <2>5. Clear' => InStep(s)'
    <3> SUFFICES ASSUME Clear' PROVE InStep(s)'  OBVIOUS
    <3>1. Kept  BY <1>1, <1>2, <1>3, <1>4 DEF Clear
    <3>2. dec'.in /\ ~dec'.esc /\ dec'.buf = <<>>  BY <1>2, <1>5, <1>10, <3>1
    <3>3. Len(dec'.buf) = 0  BY <3>2, Constants
    <3>4. 1..0 = {}  OBVIOUS
    <3>5. 1..Sent(s)' = {}  BY <2>3, <3>4
    <3> QED  BY <2>3, <3>2, <3>3, <3>5 DEF InStep
  <2>6. Len(dec'.buf) >= Sent(s)'  BY <2>3, <2>4
  <2>7. Follows(s)'  BY <2>2, <2>5, <2>6 DEF Follows
  <2> QED  BY <2>1, <2>7
<1> QED  BY <1>6, <1>7, <1>8, <1>9, <1>10 DEF FollowInv

(* Between its delimiters a frame keeps the decoder in step.               *)
LEMMA FollowStep ==
  ASSUME TypeOK, Placed, NEW s \in Senders, GoOn(s), ~Ends(s), Follows(s)
  PROVE  Follows(s)'
<1> DEFINE m == msg[s]
           p == pos[s]
           q == pos'[s]
           c == ByteAt(m, p)
           x == Content(m)[p.piece - 1]
<1>1. /\ Decode(c) /\ side' = side /\ m \in Messages /\ InFrame(m, p)
      /\ c # Flag /\ c \in Byte /\ p.piece # Len(m) + 4 /\ msg'[s] = m /\ q = Beyond(m, p)
      BY GoOnIs
<1>2. /\ x \in Byte
      /\ p.byte = 1 /\ x \in Special => c = Esc /\ q.byte = 2 /\ q.piece = p.piece
      /\ p.byte = 1 /\ x \notin Special => c = x /\ q.byte = 1 /\ q.piece = p.piece + 1
      /\ p.byte = 2 => Unescaped(c) = x /\ c # Esc /\ q.byte = 1 /\ q.piece = p.piece + 1
      BY <1>1, SendsOf
<1>3. p.byte \in {1, 2} /\ p.piece \in 2..Len(m) + 3 /\ Len(m) \in 1..8 /\ Len(m) + 2 < Cap
      /\ Cap \in Nat
  <2>1. Len(m) \in 1..8 /\ Len(m) + 2 < Cap /\ Cap \in Nat  BY <1>1, MessageIs, Jt808Assumption
  <2>2. p.byte \in {1, 2} /\ p.piece \in 2..Len(m) + 4  BY <1>1 DEF InFrame
  <2> QED  BY <1>1, <2>1, <2>2
<1>4. /\ Sent(s) = p.piece - 2 /\ Sent(s)' = q.piece - 2
      /\ (Half(s) <=> p.byte = 2) /\ (Half(s)' <=> q.byte = 2)
      BY DEF Sent, Half
<1>5. DecType /\ dec.buf \in Seq(Byte) /\ Len(dec.buf) \in Nat
      /\ dec.in \in BOOLEAN /\ dec.esc \in BOOLEAN /\ odd \in BOOLEAN
      /\ side \in {"terminal", "platform"}
      BY TypeGives DEF DecType
<1>6. Clear' => Clear
  <2>1. odd' = (odd # (dec.in /\ dec.esc /\ c = Flag))  BY <1>1, <1>5, DecodeIs
  <2>2. calm' => calm  BY DEF GoOn
  <2> QED  BY <1>1, <1>5, <2>1, <2>2 DEF Clear
<1> HIDE DEF m, p, q, c, x
<1>7. /\ dec.esc => Half(s)
      /\ side = "terminal" /\ dec.in => Len(dec.buf) >= Sent(s)
      /\ Clear => InStep(s)
      BY DEF Follows
<1>8. CASE ~dec.in
  <2>1. ~dec'.in /\ ~dec'.esc  BY <1>1, <1>5, <1>8, DecodeIs
  <2>2. ~Clear  BY <1>7, <1>8 DEF InStep
  <2> QED  BY <1>6, <2>1, <2>2 DEF Follows
<1>9. CASE dec.in /\ ~Plain(dec, c)
  <2>1. ~AtEnd(dec, c)  BY <1>1 DEF AtEnd
  <2>2. c = Esc /\ ~dec.esc  BY <1>9, <2>1 DEF Plain
  <2>3. dec'.in /\ dec'.esc /\ dec'.buf = dec.buf  BY <1>1, <1>5, <1>9, <2>1, DecodeIs
  <2>4. p.byte = 1 /\ q.byte = 2 /\ q.piece = p.piece
    <3>1. p.byte = 1  BY <1>2, <1>3, <2>2
    <3>2. x \in Special  BY <1>2, <2>2, <3>1 DEF Special
    <3> QED  BY <1>2, <3>1, <3>2
  <2>5. Sent(s)' = Sent(s) /\ Half(s)'  BY <1>4, <2>4
  <2>6. Clear' => InStep(s)'
    <3> SUFFICES ASSUME Clear' PROVE InStep(s)'  OBVIOUS
    <3>1. Len(dec.buf) = Sent(s) /\ \A i \in 1..Sent(s) : dec.buf[i] = Content(m)[i]
          BY <1>6, <1>7 DEF InStep, m
    <3>2. msg'[s] = m  BY <1>1
    <3> QED  BY <2>3, <2>5, <3>1, <3>2 DEF InStep
  <2>7. side = "terminal" => Len(dec'.buf) >= Sent(s)'  BY <1>7, <1>9, <2>3, <2>5
  <2> QED  BY <1>1, <2>5, <2>6, <2>7 DEF Follows
<1>10. CASE Plain(dec, c)
  <2>1. dec.in /\ (dec.esc \/ c # Esc)  BY <1>10 DEF Plain
  <2>2. q.byte = 1 /\ q.piece = p.piece + 1 /\ ((dec.esc <=> p.byte = 2) => Holds(dec, c) = x)
    <3>1. CASE p.byte = 2  BY <1>2, <3>1 DEF Holds
    <3>2. CASE p.byte = 1
      <4>1. ~dec.esc  BY <1>4, <1>7, <3>2
      <4>2. x \notin Special  BY <1>2, <2>1, <3>2, <4>1
      <4> QED  BY <1>2, <3>2, <4>1, <4>2 DEF Holds
    <3> QED  BY <1>3, <3>1, <3>2
  <2>3. Sent(s)' = Sent(s) + 1 /\ ~Half(s)' /\ Sent(s) \in 0..Len(m) + 1
        /\ x = Content(m)[Sent(s) + 1]
    <3>1. x = Content(m)[p.piece - 1]  BY DEF x
    <3>2. p.piece - 1 = Sent(s) + 1  BY <1>3, <1>4
    <3> QED  BY <1>3, <1>4, <2>2, <3>1, <3>2
  <2>4. CASE side = "platform" \/ ~Full(dec)
    <3>1. dec'.in /\ ~dec'.esc /\ dec'.buf = Append(dec.buf, Holds(dec, c))
          /\ Len(dec'.buf) = Len(dec.buf) + 1
          BY <1>1, <1>5, <1>10, <2>4, DecodeIs
    <3>2. side = "terminal" => Len(dec'.buf) >= Sent(s)'  BY <1>5, <1>7, <2>1, <2>3, <3>1
    <3>3. Clear' => InStep(s)'
      <4> SUFFICES ASSUME Clear' PROVE InStep(s)'  OBVIOUS
      <4>1. /\ Len(dec.buf) = Sent(s) /\ (dec.esc <=> Half(s))
            /\ \A i \in 1..Sent(s) : dec.buf[i] = Content(m)[i]
            BY <1>6, <1>7 DEF InStep, m
      <4>2. Holds(dec, c) = x  BY <1>4, <2>2, <4>1
      <4>3. Len(dec'.buf) = Sent(s)'  BY <2>3, <3>1, <4>1
      <4>4. ASSUME NEW i \in 1..Sent(s) + 1  PROVE dec'.buf[i] = Content(m)[i]
        <5>1. dec'.buf[i] = IF i <= Len(dec.buf) THEN dec.buf[i] ELSE x
              BY <1>5, <2>3, <3>1, <4>1, <4>2
        <5>2. CASE i <= Sent(s)  BY <2>3, <4>1, <5>1, <5>2
        <5>3. CASE ~(i <= Sent(s))
          <6>1. i = Sent(s) + 1  BY <2>3, <5>3
          <6> QED  BY <2>3, <4>1, <5>1, <5>3, <6>1
        <5> QED  BY <5>2, <5>3
      <4>5. msg'[s] = m  BY <1>1
      <4> QED  BY <2>3, <3>1, <4>3, <4>4, <4>5 DEF InStep
    <3> QED  BY <1>1, <3>1, <3>2, <3>3 DEF Follows
  <2>5. CASE side = "terminal" /\ Full(dec)
    <3>1. dec' = Outside  BY <1>1, <1>5, <1>10, <2>5, DecodeIs
    <3>2. ~dec'.in /\ ~dec'.esc  BY <3>1 DEF Outside
    <3>3. ~Clear
      <4> SUFFICES ASSUME Clear PROVE FALSE  OBVIOUS
      <4>1. Len(dec.buf) = Sent(s)  BY <1>7 DEF InStep
      <4>2. Len(dec.buf) >= Cap - 1
        <5>1. Len(dec.buf) >= IF dec.esc THEN Cap ELSE Cap - 1  BY <2>5 DEF Full
        <5> QED  BY <1>3, <1>5, <5>1
      <4> QED  BY <1>3, <2>3, <4>1, <4>2
    <3> QED  BY <1>6, <3>2, <3>3 DEF Follows
  <2> QED  BY <1>5, <2>4, <2>5
<1> QED  BY <1>8, <1>9, <1>10 DEF Plain

(* With its last byte the frame is taken, or the terminal starts afresh.   *)
LEMMA LastIs ==
  ASSUME TypeOK, Placed, NEW s \in Senders, GoOn(s), Ends(s), Follows(s)
  PROVE  /\ ~dec'.esc /\ (side = "terminal" => dec'.buf = <<>>)
         /\ (IF side = "terminal" THEN calm ELSE ~odd') => took' = ended'
<1> DEFINE m == msg[s]
           p == pos[s]
           Kept == IF side = "terminal" THEN calm ELSE ~odd'
<1>1. /\ Decode(Flag) /\ side' = side /\ m \in Messages /\ ended' = m
      /\ p.piece = Len(m) + 4 /\ p.byte = 1
      BY GoOnIs
<1>2. Len(m) \in 1..8  BY <1>1, MessageIs
<1>3. /\ DecType /\ Flag \in Byte /\ dec.buf \in Seq(Byte) /\ Len(dec.buf) \in Nat
      /\ dec.in \in BOOLEAN /\ dec.esc \in BOOLEAN /\ odd \in BOOLEAN
      /\ side \in {"terminal", "platform"} /\ Overhead = 3
      BY TypeGives, Constants DEF Flag, Byte, DecType
<1>4. Sent(s) = Len(m) + 2 /\ ~Half(s)
  <2>1. Sent(s) = Len(m) + 4 - 2 /\ ~Half(s)  BY <1>1 DEF Sent, Half
  <2> QED  BY <1>2, <2>1
<1> HIDE DEF m, p
<1>5. ~dec.esc /\ ~dec'.esc  BY <1>1, <1>3, <1>4, FlagClears DEF Follows
<1>6. side = "terminal" => dec'.buf = <<>>
  <2> SUFFICES ASSUME side = "terminal" PROVE dec'.buf = <<>>  OBVIOUS
  <2>1. CASE ~dec.in  BY <1>1, <1>3, <2>1, DecodeIs
  <2>2. CASE dec.in
    <3>1. AtEnd(dec, Flag)  BY <1>5, <2>2 DEF AtEnd
    <3>2. Len(dec.buf) >= Sent(s)  BY <2>2 DEF Follows
    <3>3. Len(dec.buf) >= Overhead
      <4>1. Len(m) + 2 >= 3  BY <1>2
      <4> QED  BY <1>2, <1>3, <1>4, <3>2, <4>1
    <3>4. dec' = Outside  BY <1>1, <1>3, <3>1, <3>3, DecodeIs
    <3> QED  BY <3>4 DEF Outside
  <2> QED  BY <1>3, <2>1, <2>2
<1>7. ASSUME Kept  PROVE took' = ended'
  <2>1. Clear
    <3>1. odd' = (odd # (dec.in /\ dec.esc /\ Flag = Flag))  BY <1>1, <1>3, DecodeIs
    <3> QED  BY <1>3, <1>5, <1>7, <3>1 DEF Clear
  <2>2. /\ dec.in /\ Len(dec.buf) = Sent(s)
        /\ \A i \in 1..Sent(s) : dec.buf[i] = Content(m)[i]
        BY <2>1 DEF Follows, InStep, m
  <2>3. Content(m) \in Seq(Byte) /\ Len(Content(m)) = Len(m) + 2  BY <1>1, ContentIs
  <2>4. dec.buf = Content(m)
    <3>1. Len(dec.buf) = Len(Content(m))  BY <1>4, <2>2, <2>3
    <3>2. \A i \in 1..Len(dec.buf) : dec.buf[i] = Content(m)[i]  BY <2>2
    <3> QED  BY <1>3, <2>3, <3>1, <3>2, SeqEqual
  <2>5. AtEnd(dec, Flag)  BY <1>5, <2>2 DEF AtEnd
  <2>6. Taken(dec, Flag) = m  BY <1>1, <2>4, <2>5, TakenIs
  <2> QED  BY <1>1, <2>6 DEF Decode
<1> QED  BY <1>5, <1>6, <1>7

LEMMA GoOnFollows ==
  ASSUME TypeOK, Placed, FollowInv, NEW s \in Senders, GoOn(s)
  PROVE  /\ FollowInv'
         /\ alone' /\ (IF side = "terminal" THEN calm ELSE ~odd') => took' = ended'
<1>1. /\ Decode(ByteAt(msg[s], pos[s])) /\ side' = side /\ Sending(s)
      /\ \A t \in Senders \ {s} : Sending(t)' <=> Sending(t)
      /\ Ends(s) => ~Sending(s)'
      /\ ~Ends(s) => /\ Sending(s)' /\ ended' = None /\ ByteAt(msg[s], pos[s]) # Flag
                     /\ ByteAt(msg[s], pos[s]) \in Byte
      BY GoOnIs
<1>2. alone' = alone /\ calm' = (calm \/ (alone /\ Ends(s))) /\ calm \in BOOLEAN
      BY TypeGives DEF GoOn
<1>3. ~Quiet /\ (calm => alone)  BY <1>1 DEF Quiet, FollowInv, CalmAlone
<1>4. \A t \in Senders : Sending(t)' => Sending(t)  BY <1>1
<1>5. Single'  BY <1>2, <1>4 DEF FollowInv, Single
<1>6. CalmAlone'  BY <1>2, <1>3 DEF CalmAlone
<1>7. \A t \in Senders : alone /\ Sending(t) => t = s  BY <1>1 DEF FollowInv, Single
<1>8. alone => Follows(s)  BY <1>1 DEF FollowInv
<1>9. CASE Ends(s)
  <2>1. alone => /\ ~dec'.esc /\ (side = "terminal" => dec'.buf = <<>>)
                 /\ (IF side = "terminal" THEN calm ELSE ~odd') => took' = ended'
        BY <1>8, <1>9, LastIs
  <2>2. Between'
    <3>1. ASSUME ~alone  PROVE ~calm'  BY <1>2, <1>3, <3>1
    <3>2. side = "platform" => ~dec'.esc
      <4> SUFFICES ASSUME side = "platform" PROVE ~dec'.esc  OBVIOUS
      <4>1. ByteAt(msg[s], pos[s]) = Flag  BY <1>9, GoOnIs
      <4>2. DecType  BY TypeGives
      <4> QED  BY <1>1, <4>1, <4>2, FlagClears
    <3>3. side \in {"terminal", "platform"}  BY DEF TypeOK
    <3> QED  BY <1>1, <2>1, <3>1, <3>2, <3>3 DEF Between
  <2>3. alone' => \A t \in Senders : ~Sending(t)'  BY <1>1, <1>2, <1>4, <1>7, <1>9
  <2> QED  BY <1>2, <1>5, <1>6, <2>1, <2>2, <2>3 DEF FollowInv
<1>10. CASE ~Ends(s)
  <2>1. took' = None
    <3>1. ~AtEnd(dec, ByteAt(msg[s], pos[s]))  BY <1>1, <1>10 DEF AtEnd
    <3> QED  BY <1>1, <3>1 DEF Decode, Taken
  <2>2. Between'
    <3>1. ~Quiet'  BY <1>1, <1>10 DEF Quiet
    <3> QED  BY <3>1 DEF Between
  <2>3. ASSUME alone', NEW t \in Senders, Sending(t)'
        PROVE  Follows(t)'
    <3>1. t = s /\ Follows(s)  BY <1>2, <1>4, <1>7, <1>8, <2>3
    <3>2. Follows(s)'  BY <1>10, <3>1, FollowStep
    <3> QED  BY <3>1, <3>2
  <2> QED  BY <1>1, <1>5, <1>6, <1>10, <2>1, <2>2, <2>3 DEF FollowInv
<1> QED  BY <1>9, <1>10

LEMMA ReconnectFollows ==
  ASSUME TypeOK, Placed, FollowInv, Reconnect
  PROVE  FollowInv' /\ took' = ended'
<1>1. /\ msg' = [s \in Senders |-> None] /\ took' = None /\ ended' = None
      /\ dec' = IF side = "platform" THEN Outside ELSE dec
      /\ calm' = (calm /\ Quiet) /\ side' = side /\ alone' = alone
      BY DEF Reconnect
<1>2. \A s \in Senders : ~Sending(s)'  BY <1>1 DEF Sending
<1>3. Single' /\ CalmAlone'  BY <1>2 DEF Single, CalmAlone, Quiet
<1>4. Between'
  <2>1. ~Outside.esc  BY DEF Outside
  <2>2. side \in {"terminal", "platform"}  BY DEF TypeOK
  <2>3. CASE side = "platform"  BY <1>1, <2>1, <2>3 DEF Between
  <2>4. CASE side = "terminal"
    <3>1. dec' = dec /\ (calm' => calm /\ Quiet)  BY <1>1, <2>4
    <3> QED  BY <1>1, <2>4, <3>1 DEF Between, FollowInv
  <2> QED  BY <2>2, <2>3, <2>4
<1> QED  BY <1>1, <1>2, <1>3, <1>4 DEF FollowInv

LEMMA InitFollows ==
  ASSUME Init
  PROVE  FollowInv
<1>1. /\ \A s \in Senders : ~Sending(s)
      /\ ~dec.esc /\ dec.buf = <<>>
      BY DEF Init, Sending, Outside
<1> QED  BY <1>1 DEF FollowInv, Single, CalmAlone, Between, Quiet

FrameInv == TypeOK /\ Placed /\ Flags /\ FollowInv

(* While threads take turns frame by frame each message is taken, as it    *)
(* was sent, at its last byte, and nothing else is: by the terminal's      *)
(* decoder since the latest frame sent alone, whatever jt808_decode was    *)
(* fed before it; by the platform's as long as no delimiter was taken for  *)
(* data. The messages are any that jt808_build frames and buf holds.       *)
THEOREM TakesEachFrame == Spec => TakesWhatWasSent
<1> DEFINE Good == alone' /\ (IF side = "terminal" THEN calm ELSE ~odd') => took' = ended'
<1>1. Init => FrameInv  BY InitTypes, InitFlags, InitFollows DEF FrameInv
<1>2. ASSUME FrameInv, [Next]_vars  PROVE FrameInv' /\ (Next => Good)
  <2>1. TypeOK' /\ Placed' /\ Flags'  BY <1>2, TypeStep, FlagsStep DEF FrameInv
  <2>2. ASSUME NEW s \in Senders, NEW m \in Messages, Begin(s, m)
        PROVE  FollowInv' /\ Good
        BY <1>2, <2>2, BeginFollows DEF FrameInv
  <2>3. ASSUME NEW s \in Senders, GoOn(s)
        PROVE  FollowInv' /\ Good
        BY <1>2, <2>3, GoOnFollows DEF FrameInv
  <2>4. ASSUME Reconnect
        PROVE  FollowInv' /\ Good
        BY <1>2, <2>4, ReconnectFollows DEF FrameInv
  <2>5. UNCHANGED vars => FollowInv'
        BY <1>2 DEF vars, FrameInv, FollowInv, Single, CalmAlone, Between, Quiet, Sending,
           Follows, InStep, Clear, Half, Sent
  <2> HIDE DEF Good
  <2>6. Next => FollowInv' /\ Good  BY <2>2, <2>3, <2>4 DEF Next
  <2> QED  BY <1>2, <2>1, <2>5, <2>6 DEF FrameInv
<1>3. FrameInv /\ [Next]_vars => FrameInv' /\ [Good]_vars  BY <1>2
<1> QED  BY <1>1, <1>3, PTL DEF Spec, TakesWhatWasSent

=============================================================================
