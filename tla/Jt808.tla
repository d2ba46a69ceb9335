-------------------------------- MODULE Jt808 --------------------------------
(***************************************************************************)
(* The frame codec on bytes: jt808_build, the terminal's stream decoder    *)
(* (shared/jt808.c) and the platform's (fake_platform.py), and what they   *)
(* make of a stream several threads write. hal_net_send and sendall hand a *)
(* frame to TCP in parts and no lock is held meanwhile, so that with a     *)
(* full socket buffer the frames of two threads are cut into each other.   *)
(*                                                                         *)
(* Bytes have three bits, enough for the four values the codec knows; a    *)
(* header is one id and one length. What order the bytes get on the wire   *)
(* is all that matters, so a byte is decoded as it is sent.                *)
(***************************************************************************)
EXTENDS Integers, Sequences, FiniteSets

CONSTANTS
  Senders,    \* threads that write the socket
  Messages,   \* what they send: an id and the body
  Cap,        \* sizeof(buf) of the terminal's decoder
  MaxFrames,  \* bound: frames sent on one connection
  MaxCuts     \* bound: how often on one connection a thread goes on while a frame is cut

Byte == 0..7
Flag == 6  \* 0x7E
Esc == 5   \* 0x7D

ASSUME Jt808Assumption ==
  /\ IsFiniteSet(Senders) /\ Cap \in Nat /\ MaxFrames \in Nat /\ MaxCuts \in Nat
  /\ Messages \subseteq Seq(Byte)
  /\ \A m \in Messages : Len(m) \in 1..8 /\ Len(m) + 2 < Cap  \* 1046 < 2048

None == <<>>   \* no message
Overhead == 3  \* 23: header and checksum

VARIABLES
  side,    \* whose decoder reads: "terminal" or "platform"
  msg,     \* each thread: the message whose frame it is sending, or None
  pos,     \* each thread: the piece of that frame, and the byte in it, that come next
  turn,    \* the thread that sent the latest byte
  dec,     \* the decoder
  took,    \* what the decoder returned for the latest byte
  ended,   \* the message that byte was the last of
  frames, cuts,  \* counts for the bounds
  alone,   \* history: the frame under way started with no other one under way
  calm,    \* history: a frame sent alone was the latest that ended, or none has been cut
  odd      \* history: delimiters taken for data on this connection, modulo 2

vars == <<side, msg, pos, turn, dec, took, ended, frames, cuts, alone, calm, odd>>

-----------------------------------------------------------------------------
(* jt808_build; build of the platform differs in payload only. *)
(* A bit of the exclusive or is set if an odd number of the bytes has it.  *)
Checksum(s) ==
  LET Bit(w) == w * (Cardinality({i \in DOMAIN s : (s[i] \div w) % 2 = 1}) % 2)
  IN  Bit(1) + Bit(2) + Bit(4)

Escaped(c) == CASE c = Flag -> <<Esc, 2>> [] c = Esc -> <<Esc, 1>> [] OTHER -> <<c>>
Content(m) ==
  LET s == <<Head(m), Len(m) - 1>> \o Tail(m) IN Append(s, Checksum(s))

(* The frame in pieces: delimiters, and what each byte is written as.      *)
Build(m) == <<<<Flag>>>> \o [i \in DOMAIN Content(m) |-> Escaped(Content(m)[i])] \o <<<<Flag>>>>
Start == [piece |-> 1, byte |-> 1]
Beyond(m, p) ==
  IF p.byte < Len(Build(m)[p.piece]) THEN [p EXCEPT !.byte = @ + 1]
  ELSE [piece |-> p.piece + 1, byte |-> 1]
ByteAt(m, p) == Build(m)[p.piece][p.byte]

(* The checks both decoders make before they take a frame. *)
Sound(buf) ==
  /\ buf[2] = Len(buf) - Overhead
  /\ Checksum(SubSeq(buf, 1, Len(buf) - 1)) = buf[Len(buf)]
Message(buf) == <<buf[1]>> \o SubSeq(buf, 3, Len(buf) - 1)

-----------------------------------------------------------------------------
(* A decoder outside a frame, and at its start. *)
Outside == [in |-> FALSE, esc |-> FALSE, buf |-> <<>>]
Opened == [in |-> TRUE, esc |-> FALSE, buf |-> <<>>]

(* What a byte does in both decoders, but for a delimiter inside a frame:  *)
(* it is skipped, opens a frame, is the escape mark or is stored.          *)
Unescaped(c) == CASE c = 2 -> Flag [] c = 1 -> Esc [] OTHER -> c
Stored(d, c) == [d EXCEPT !.esc = FALSE, !.buf = Append(@, IF d.esc THEN Unescaped(c) ELSE c)]

Fed(d, c) ==
  CASE ~d.in -> IF c = Flag THEN Opened ELSE d
    [] d.in /\ ~d.esc /\ c = Esc -> [d EXCEPT !.esc = TRUE]
    [] OTHER -> Stored(d, c)

AtEnd(d, c) == d.in /\ ~d.esc /\ c = Flag

(* jt808_decode, and jt808_decoder_init when it returns -1. A frame too    *)
(* short for a header stays open, its bytes are kept. A plain byte after   *)
(* an escaped one that filled buf is written behind it, where len is, and  *)
(* leaves len at Cap or more: the reset is the same.                       *)
ShortEnds(d, c) == IF AtEnd(d, c) THEN Outside ELSE Fed(d, c)  \* fault: as the platform does
NeverFull(d) == FALSE  \* fault: no test of the buffer's size
Full(d) == Len(d.buf) >= IF d.esc THEN Cap ELSE Cap - 1
TerminalNext(d, c) ==
  IF AtEnd(d, c) THEN IF Len(d.buf) < Overhead THEN d ELSE Outside
  ELSE IF d.in /\ (d.esc \/ c # Esc) /\ Full(d) THEN Outside
  ELSE Fed(d, c)

(* Decoder.feed: a delimiter always ends the frame. *)
EndsIfSound(d, c) ==  \* fault: only a sound frame is left
  IF AtEnd(d, c) THEN IF Len(d.buf) >= Overhead /\ Sound(d.buf) THEN Outside ELSE d ELSE Fed(d, c)
PlatformNext(d, c) == IF AtEnd(d, c) THEN Outside ELSE Fed(d, c)

Taken(d, c) ==
  IF AtEnd(d, c) /\ Len(d.buf) >= Overhead /\ Sound(d.buf) THEN Message(d.buf) ELSE None

Decode(c) ==
  /\ dec' = IF side = "terminal" THEN TerminalNext(dec, c) ELSE PlatformNext(dec, c)
  /\ took' = Taken(dec, c)
  /\ odd' = (odd # (dec.in /\ dec.esc /\ c = Flag))

-----------------------------------------------------------------------------
Sending(s) == msg[s] # None
Quiet == \A s \in Senders : ~Sending(s)

Init ==
  /\ side \in {"terminal", "platform"}
  /\ msg = [s \in Senders |-> None] /\ pos = [s \in Senders |-> Start] /\ turn \in Senders
  /\ dec = Outside /\ took = None /\ ended = None /\ frames = 0 /\ cuts = 0
  /\ alone = TRUE /\ calm = TRUE /\ odd = FALSE

(* A thread other than the latest goes on: a cut, if that one is not done. *)
Switch(s) ==
  /\ cuts' = IF s # turn /\ Sending(turn) THEN cuts + 1 ELSE cuts
  /\ cuts' <= MaxCuts
  /\ turn' = s

Begin(s, m) ==
  /\ ~Sending(s) /\ frames < MaxFrames
  /\ Switch(s)
  /\ frames' = frames + 1
  /\ msg' = [msg EXCEPT ![s] = m]
  /\ pos' = [pos EXCEPT ![s] = Beyond(m, Start)]
  /\ Decode(ByteAt(m, Start))
  /\ ended' = None
  /\ alone' = Quiet /\ calm' = (calm /\ Quiet)
  /\ UNCHANGED side

Ends(s) == pos[s].piece = Len(Build(msg[s]))
GoOn(s) ==
  /\ Sending(s)
  /\ Switch(s)
  /\ msg' = [msg EXCEPT ![s] = IF Ends(s) THEN None ELSE @]
  /\ pos' = [pos EXCEPT ![s] = IF Ends(s) THEN Start ELSE Beyond(msg[s], @)]
  /\ Decode(ByteAt(msg[s], pos[s]))
  /\ ended' = IF Ends(s) THEN msg[s] ELSE None
  /\ calm' = (calm \/ (alone /\ Ends(s)))
  /\ UNCHANGED <<side, frames, alone>>

(* The connection is lost: the sends under way fail. The platform has a    *)
(* decoder for each connection, the terminal one for all.                  *)
Reconnect ==
  /\ msg' = [s \in Senders |-> None] /\ pos' = [s \in Senders |-> Start]
  /\ dec' = IF side = "platform" THEN Outside ELSE dec
  /\ took' = None /\ ended' = None
  /\ frames' = 0 /\ cuts' = 0
  /\ calm' = (calm /\ Quiet) /\ odd' = FALSE
  /\ UNCHANGED <<side, turn, alone>>

Next == Reconnect \/ \E s \in Senders : GoOn(s) \/ \E m \in Messages : Begin(s, m)

Spec == Init /\ [][Next]_vars

-----------------------------------------------------------------------------
(* Type invariant. Outside a frame no escape is pending, and the           *)
(* terminal's buffer is not left overfull, whatever the stream.            *)
TypeOK ==
  /\ side \in {"terminal", "platform"} /\ turn \in Senders
  /\ frames \in 0..MaxFrames /\ cuts \in 0..MaxCuts
  /\ msg \in [Senders -> Messages \cup {None}] /\ pos \in [Senders -> [piece : 1..12, byte : 1..2]]
  /\ dec \in [in : BOOLEAN, esc : BOOLEAN, buf : Seq(Byte)] /\ (~dec.in => dec = Outside)
  /\ side = "terminal" => Len(dec.buf) <= Cap
  /\ took \in Seq(Byte) /\ ended \in Messages \cup {None}
  /\ {alone, calm, odd} \subseteq BOOLEAN

(* Each message is taken as it was sent, at its last byte, and nothing     *)
(* else is, while threads take turns frame by frame. However frames were   *)
(* cut and mixed or connections lost before, the terminal needs one frame  *)
(* sent alone to get back to that (test_jt808_stream.c). The platform      *)
(* needs none, but does not get back by itself where a frame was cut       *)
(* behind its escape mark and the delimiter of another taken for data.     *)
TakesWhatWasSent ==
  [][alone' /\ (IF side = "terminal" THEN calm ELSE ~odd') => took' = ended']_vars

(* In step means: outside a frame between frames. It depends on nothing    *)
(* but the number of delimiters taken for data since the connection began. *)
Parity == side = "platform" /\ Quiet => (dec.in <=> odd)
=============================================================================
