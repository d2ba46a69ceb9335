------------------------------- MODULE Downlink -------------------------------
(***************************************************************************)
(* The way of a platform message into the terminal: the frames on the      *)
(* connection, the stream decoder of shared/jt808.c that net_task_run      *)
(* feeds byte by byte, the handler and the acknowledgement. The decoder is *)
(* set up once for the thread and not for each connection.                 *)
(*                                                                         *)
(* A frame is cut where the decoder can tell the difference: delimiters,   *)
(* the escape mark, and the bytes between them in four fields. A field     *)
(* arrives whole; fields of different messages never pass the length and   *)
(* checksum tests together.                                                *)
(***************************************************************************)
EXTENDS Integers, Sequences

CONSTANTS
  MaxSerial,   \* bound: messages the platform sends in all
  BufSize      \* sizeof(buf): more than any frame

ASSUME BoundAssumption == MaxSerial \in Nat \ {0} /\ BufSize \in Nat /\ BufSize > 30

Messages == 1..MaxSerial
None == 0

(* jt808_build: delimiter, id and length, the rest of the header, one body *)
(* byte that needs an escape, the checksum, delimiter.                     *)
Frame == <<"7E", "id", "header", "7D", "body", "sum", "7E">>
Fields == <<2, 3, 5, 6>>  \* where the bytes are that a decoder keeps
Size == [id |-> 4, header |-> 18, body |-> 1, sum |-> 1]
MinLen == 23    \* the length below which jt808_process waits for more
First == 1
Last == Len(Frame)
Marks == {"7E", "7D"}

VARIABLES
  link,     \* the socket: "down", "up", or "cut" by the other side
  pipe,     \* what was sent and not yet read: <<serial, position in Frame>>
  serial,   \* tx_serial of the platform, the last one used
  in_frame, esc, buf, len,   \* jt808_decoder_t; buf holds what was stored
  busy,     \* the message being handled, None outside
  answers,  \* the acknowledgements the platform has of this connection
  torn,     \* history: the message whose bytes an earlier connection left in buf, or None
  dirty     \* history: it left some, and no message has been read to its end since

decoder == <<in_frame, esc, buf, len>>
history == <<torn, dirty>>
vars == <<link, pipe, serial, decoder, busy, answers, history>>

Init ==
  /\ link = "down" /\ pipe = <<>> /\ serial = 0
  /\ in_frame = FALSE /\ esc = FALSE /\ buf = <<>> /\ len = 0
  /\ busy = None /\ answers = <<>> /\ torn = None /\ dirty = FALSE

-----------------------------------------------------------------------------
(* The platform and the connection. *)
Connect ==
  /\ link = "down" /\ link' = "up"
  /\ answers' = <<>>
  /\ UNCHANGED <<pipe, serial, decoder, busy, history>>

Send ==
  /\ link = "up" /\ serial < MaxSerial
  /\ serial' = serial + 1
  /\ pipe' = pipe \o [i \in First..Last |-> <<serial + 1, i>>]
  /\ UNCHANGED <<link, decoder, busy, answers, history>>

(* The connection ends; Close decides how much of the pipe has arrived. *)
Cut ==
  /\ link = "up" /\ link' = "cut"
  /\ UNCHANGED <<pipe, serial, decoder, busy, answers, history>>

-----------------------------------------------------------------------------
(* jt808_decode on the next byte. *)
Next7E == Frame[Head(pipe)[2]] = "7E"
Next7D == Frame[Head(pipe)[2]] = "7D"
Stored(t) == IF Frame[t[2]] \in Marks THEN 1 ELSE Size[Frame[t[2]]]

Read ==
  /\ busy = None /\ pipe # <<>>
  /\ pipe' = Tail(pipe)
  /\ UNCHANGED <<link, serial, answers>>

Reset == in_frame' = FALSE /\ esc' = FALSE /\ buf' = <<>> /\ len' = 0

Store == buf' = Append(buf, Head(pipe)) /\ len' = len + Stored(Head(pipe))

(* Outside a frame everything but a delimiter is skipped. *)
Skip == Read /\ ~in_frame /\ ~Next7E /\ UNCHANGED <<decoder, busy>>

Open ==
  /\ Read /\ ~in_frame /\ Next7E
  /\ in_frame' = TRUE /\ esc' = FALSE /\ buf' = <<>> /\ len' = 0
  /\ UNCHANGED busy

(* The byte after an escape mark, a delimiter included, is data. *)
Unescape ==
  /\ Read /\ in_frame /\ esc
  /\ IF len >= BufSize THEN Reset ELSE Store /\ esc' = FALSE /\ UNCHANGED in_frame
  /\ UNCHANGED busy

Escape == Read /\ in_frame /\ ~esc /\ Next7D /\ esc' = TRUE /\ UNCHANGED <<in_frame, buf, len, busy>>

Full == len + Stored(Head(pipe)) >= BufSize

Plain ==
  /\ Read /\ in_frame /\ ~esc /\ ~Next7E /\ ~Next7D
  /\ IF Full THEN Reset ELSE Store /\ UNCHANGED <<in_frame, esc>>
  /\ UNCHANGED busy

(* jt808_process at a delimiter: too short, good, or neither. *)
Delimiter == Read /\ in_frame /\ ~esc /\ Next7E

(* What is kept of the first k pieces of a frame. *)
Content(m, k) == [j \in {j \in DOMAIN Fields : Fields[j] <= k} |-> <<m, Fields[j]>>]
Good(m) == buf = Content(m, Last)

ShortLeavesFrame == Delimiter /\ len < MinLen  \* fault: what the platform's decoder does
                    /\ Reset /\ UNCHANGED busy
Short == Delimiter /\ len < MinLen /\ UNCHANGED <<decoder, busy>>

Done(m) == Delimiter /\ len >= MinLen /\ Good(m) /\ Reset /\ busy' = m

BadKeepsBytes == Delimiter /\ len >= MinLen /\ (\A m \in Messages : ~Good(m))  \* fault: no reset
                 /\ UNCHANGED <<decoder, busy>>
Bad == Delimiter /\ len >= MinLen /\ (\A m \in Messages : ~Good(m)) /\ Reset /\ UNCHANGED busy

Remember ==
  /\ dirty' = (dirty /\ Head(pipe)[2] # Last)
  /\ torn' = IF dirty' /\ busy' = None THEN torn ELSE None

Decode ==
  /\ \/ Skip \/ Open \/ Unescape \/ Escape \/ Plain
     \/ Short \/ Bad \/ \E m \in Messages : Done(m)
  /\ Remember

(* dispatch_handle, then taxi_send_term_ack with the message's serial. *)
Answer ==
  /\ busy # None
  /\ busy' = None
  /\ answers' = IF link = "up" THEN Append(answers, busy) ELSE answers
  /\ UNCHANGED <<link, pipe, serial, decoder, history>>

(* recv returns 0 or an error, after all or a part of what was sent: the   *)
(* socket is closed, the rest lost, the decoder kept.                      *)
Close ==
  /\ link = "cut" /\ busy = None
  /\ link' = "down" /\ pipe' = <<>>
  /\ dirty' = (buf # <<>>)
  /\ torn' = IF buf = <<>> THEN None ELSE buf[Len(buf)][1]
  /\ UNCHANGED <<serial, decoder, busy, answers>>

NetTask == Decode \/ Answer \/ Close
Next == NetTask \/ Connect \/ Send \/ Cut

Spec == Init /\ [][Next]_vars

(* The network thread goes on as long as there is something to read, to    *)
(* answer or to close. The platform and the link owe nothing.              *)
FairSpec == Spec /\ WF_vars(NetTask)

-----------------------------------------------------------------------------
Tokens == Messages \X (First..Last)

(* Type invariant, with the bound on the decoder's buffer: fragments that  *)
(* end in an escape mark swallow the next delimiter and pile up in it.     *)
TypeOK ==
  /\ link \in {"down", "up", "cut"} /\ pipe \in Seq(Tokens) /\ serial \in 0..MaxSerial
  /\ in_frame \in BOOLEAN /\ esc \in BOOLEAN /\ buf \in Seq(Tokens)
  /\ len \in 0..BufSize
  /\ busy \in Messages \cup {None} /\ answers \in Seq(Messages)
  /\ torn \in Messages \cup {None} /\ dirty \in BOOLEAN

(* Once a message of the connection has been read to its end, whatever its *)
(* fate and whatever an earlier connection left behind, the decoder holds  *)
(* exactly what it has read of the current message.                        *)
InSync ==
  ~dirty /\ pipe # <<>> =>
    LET m == Head(pipe)[1]
        i == Head(pipe)[2] IN
    /\ buf = Content(m, i - 1)
    /\ esc <=> i > First /\ Frame[i - 1] = "7D"
    /\ i > First => in_frame

(* The messages in the pipe, all of which are there to their end: from the *)
(* one at its head to the latest sent.                                     *)
Whole ==
  IF pipe = <<>> THEN <<>>
  ELSE LET m == Head(pipe)[1] IN [k \in 1..serial - m + 1 |-> m + k - 1]

Promise == INSTANCE Delivery WITH waiting <- Whole

(* The decoder, the handler and the acknowledgement implement Delivery: at *)
(* most the first message of a connection is missed, and that only after a *)
(* connection that ended inside one; only that one can be handled late;    *)
(* all others are handled and answered, once and in order.                 *)
Implements == Promise!FairSpec
=============================================================================
