------------------------------- MODULE Delivery -------------------------------
(***************************************************************************)
(* What the downlink promises: the messages of one connection are handled  *)
(* one at a time in the order they were sent, and each is answered after   *)
(* it was handled and before the next. After a connection that ended       *)
(* inside a message, the next one may begin badly: that message may be     *)
(* handled late, and the first message of the new connection missed.       *)
(***************************************************************************)
EXTENDS Naturals, Sequences

CONSTANTS Messages, None

VARIABLES
  link,      \* "down", "up", or "cut" until the terminal has noticed
  waiting,   \* sent on this connection and neither handled nor missed
  busy,      \* the message being handled, or None
  answers,   \* what the platform has been answered on this connection
  torn,      \* a message an earlier connection ended in, or None
  dirty      \* the first message of this connection may be missed

vars == <<link, waiting, busy, answers, torn, dirty>>

Init ==
  /\ link = "down" /\ waiting = <<>> /\ busy = None /\ answers = <<>>
  /\ torn = None /\ dirty = FALSE

Connect ==
  /\ link = "down" /\ link' = "up"
  /\ answers' = <<>>
  /\ UNCHANGED <<waiting, busy, torn, dirty>>

Send(m) ==
  /\ link = "up" /\ waiting' = Append(waiting, m)
  /\ UNCHANGED <<link, busy, answers, torn, dirty>>

Taken == busy = None /\ waiting # <<>> /\ waiting' = Tail(waiting)

Handle ==
  /\ Taken
  /\ busy' = Head(waiting)
  /\ torn' = None /\ dirty' = FALSE
  /\ UNCHANGED <<link, answers>>

Miss ==
  /\ Taken /\ dirty
  /\ torn' = None /\ dirty' = FALSE
  /\ UNCHANGED <<link, busy, answers>>

Late ==
  /\ busy = None /\ torn # None
  /\ busy' = torn /\ torn' = None
  /\ UNCHANGED <<link, waiting, answers, dirty>>

Answer ==
  /\ busy # None
  /\ busy' = None
  /\ answers' = IF link = "up" THEN Append(answers, busy) ELSE answers
  /\ UNCHANGED <<link, waiting, torn, dirty>>

Cut ==
  /\ link = "up" /\ link' = "cut"
  /\ UNCHANGED <<waiting, busy, answers, torn, dirty>>

Close ==
  /\ link = "cut" /\ busy = None
  /\ link' = "down" /\ waiting' = <<>>
  /\ torn' \in {None, torn} \cup (IF waiting = <<>> THEN {} ELSE {Head(waiting)})
  /\ dirty' = (torn' # None)
  /\ UNCHANGED <<busy, answers>>

Next == Connect \/ (\E m \in Messages : Send(m)) \/ Handle \/ Miss \/ Late \/ Answer \/ Cut \/ Close

Spec == Init /\ [][Next]_vars

(* Whatever the platform does, the terminal goes on. *)
FairSpec == Spec /\ WF_vars(Handle \/ Miss) /\ WF_vars(Answer) /\ WF_vars(Close)
=============================================================================
