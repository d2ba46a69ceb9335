-------------------------------- MODULE Uplink --------------------------------
(***************************************************************************)
(* The terminal's frames on their way to the platform: send_frame of       *)
(* taxi.c, the uppath command of cmdline.c, the connection that            *)
(* net_task_run makes and gives up, and the socket under hal/net.c.        *)
(*                                                                         *)
(* Several threads build frames with one serial number and send them on    *)
(* one descriptor. A frame is its serial; what it says is not modelled.    *)
(* The socket is the kernel's: what a call on it returns after the peer    *)
(* closed, crashed or vanished is taken from the rules of TCP. A closed    *)
(* descriptor's number may be that of the next connection.                 *)
(***************************************************************************)
EXTENDS Integers

CONSTANTS
  Reporters,   \* threads that call send_frame besides the net thread; the heartbeat is one
  Heartbeat,
  Net,
  Console,
  Width,       \* 2^16, the serials there are
  SendBuf,     \* frames the socket takes before send blocks
  MaxInbox     \* bound: platform messages not yet read

ASSUME UplinkAssumption ==
  /\ Heartbeat \in Reporters /\ Net \notin Reporters /\ Console \notin Reporters \cup {Net}
  /\ Width \in Nat \ {0} /\ SendBuf \in Nat \ {0} /\ MaxInbox \in Nat

Lockers == Reporters \cup {Net}
Threads == Lockers \cup {Console}

VARIABLES
  pc,
  serial,   \* st->serial
  loaded,   \* the serial a thread has read and not yet written back
  net_fd,   \* st->net_fd >= 0
  fd,       \* each thread's copy: none, of the socket there is now, or of an earlier one
  link,     \* the socket: none, up, closed by the peer, silent, or dead
  err,      \* sk_err, reported once by a dead socket
  queue,    \* frames sent and not acknowledged by the peer's TCP
  inbox,    \* platform messages to be read
  killed,   \* SIGPIPE ended the process
  builds,   \* history: frames built, modulo Width
  raced     \* history: uppath built a frame while another thread did

counter == <<serial, loaded, builds, raced>>
socket == <<link, err, queue, inbox>>
vars == <<pc, counter, net_fd, fd, socket, killed>>

To(t, l) == pc' = [pc EXCEPT ![t] = l]
Building == {"build", "uppath"}
Rest(t) == IF t = Net THEN "recv" ELSE "idle"

(* main and net_task_run *)
Init ==
  /\ pc = [t \in Threads |-> IF t = Net THEN "connect" ELSE "idle"]
  /\ serial = 1 % Width /\ loaded = [t \in Threads |-> 0] /\ builds = 0 /\ raced = FALSE
  /\ net_fd = FALSE /\ fd = [t \in Threads |-> "none"]
  /\ link = "none" /\ err = FALSE /\ queue = 0 /\ inbox = 0 /\ killed = FALSE

-----------------------------------------------------------------------------
(* send_frame: jt808_build and the copy of net_fd under g_send_lock, the   *)
(* send outside of it.                                                     *)
Load(t) == loaded' = [loaded EXCEPT ![t] = serial] /\ builds' = (builds + 1) % Width
Store(t) == serial' = (loaded[t] + 1) % Width /\ loaded' = [loaded EXCEPT ![t] = 0]
CopyFd(t) == fd' = [fd EXCEPT ![t] = IF net_fd THEN "now" ELSE "none"]

Unlocked == TRUE  \* fault: no g_send_lock
SendLockFree == \A t \in Lockers : pc[t] # "build"

Lock(t) ==
  /\ pc[t] \in {"idle", "report", "ack"} /\ SendLockFree
  /\ To(t, "build") /\ Load(t) /\ raced' = (raced \/ pc[Console] = "uppath")
  /\ UNCHANGED <<serial, net_fd, fd, socket, killed>>

Unlock(t) ==
  /\ pc[t] = "build"
  /\ To(t, "send") /\ Store(t) /\ CopyFd(t)
  /\ UNCHANGED <<builds, raced, net_fd, socket, killed>>

(* uppath_upload builds without the lock, tests st->net_fd and reads it    *)
(* again for the send.                                                     *)
Uppath ==
  /\ pc[Console] = "idle"
  /\ To(Console, "uppath") /\ Load(Console) /\ raced' = (raced \/ ~SendLockFree)
  /\ UNCHANGED <<serial, net_fd, fd, socket, killed>>

UppathBuilt ==
  /\ pc[Console] = "uppath"
  /\ To(Console, "test") /\ Store(Console)
  /\ UNCHANGED <<builds, raced, net_fd, fd, socket, killed>>

UppathTest ==
  /\ pc[Console] = "test"
  /\ To(Console, IF net_fd THEN "copy" ELSE "idle")
  /\ UNCHANGED <<counter, net_fd, fd, socket, killed>>

UppathCopy ==
  /\ pc[Console] = "copy"
  /\ To(Console, "send") /\ CopyFd(Console)
  /\ UNCHANGED <<counter, net_fd, socket, killed>>

-----------------------------------------------------------------------------
(* hal_net_send *)
Sent(t) ==
  /\ pc[t] = "send" /\ To(t, Rest(t)) /\ fd' = [fd EXCEPT ![t] = "none"]
  /\ UNCHANGED <<counter, net_fd, inbox>>

(* No descriptor, or one that is closed or something else by now. *)
SendNowhere(t) == fd[t] # "now" /\ Sent(t) /\ UNCHANGED <<link, err, queue, killed>>

Reaches(t) == fd[t] = "now" \/ (fd[t] = "old" /\ link # "none")

SendTaken(t) ==
  /\ Reaches(t) /\ link # "dead" /\ queue < SendBuf
  /\ Sent(t) /\ queue' = queue + 1
  /\ UNCHANGED <<link, err, killed>>

SendError(t) ==
  /\ Reaches(t) /\ link = "dead" /\ err
  /\ Sent(t) /\ err' = FALSE
  /\ UNCHANGED <<link, queue, killed>>

(* Without MSG_NOSIGNAL, and with SIGPIPE left at its default. *)
SendKills(t) ==
  /\ Reaches(t) /\ link = "dead" /\ ~err
  /\ Sent(t) /\ killed' = TRUE
  /\ UNCHANGED <<link, err, queue>>

Send(t) == SendNowhere(t) \/ SendTaken(t) \/ SendError(t) \/ SendKills(t)

-----------------------------------------------------------------------------
(* net_task_run. A connect that fails is tried again. *)
Connect ==
  /\ pc[Net] = "connect"
  /\ To(Net, "connected") /\ link' = "up"
  /\ UNCHANGED <<counter, net_fd, fd, err, queue, inbox, killed>>

ReportFirst ==  \* fault: the first report goes out before net_fd is set
  /\ pc[Net] = "connected" /\ To(Net, "report")
  /\ UNCHANGED <<counter, net_fd, fd, socket, killed>>
Publish ==
  /\ pc[Net] = "connected"
  /\ To(Net, "report") /\ net_fd' = TRUE
  /\ UNCHANGED <<counter, fd, socket, killed>>

(* A message is handled and acknowledged before the next is read. *)
Recv ==
  /\ pc[Net] = "recv" /\ inbox > 0
  /\ To(Net, "ack") /\ inbox' = inbox - 1
  /\ UNCHANGED <<counter, net_fd, fd, link, err, queue, killed>>

RecvEnd ==
  /\ pc[Net] = "recv" /\ inbox = 0 /\ link \in {"closed", "dead"}
  /\ To(Net, "lost") /\ err' = FALSE
  /\ UNCHANGED <<counter, net_fd, fd, link, queue, inbox, killed>>

Withdraw ==
  /\ pc[Net] = "lost"
  /\ To(Net, "close") /\ net_fd' = FALSE
  /\ UNCHANGED <<counter, fd, socket, killed>>

Close ==
  /\ pc[Net] = "close"
  /\ To(Net, "connect")
  /\ link' = "none" /\ err' = FALSE /\ queue' = 0 /\ inbox' = 0
  /\ fd' = [t \in Threads |-> IF fd[t] = "now" THEN "old" ELSE fd[t]]
  /\ UNCHANGED <<counter, net_fd, killed>>

NetStep == Connect \/ Publish \/ Recv \/ RecvEnd \/ Withdraw \/ Close

(* taxi_heartbeat_thread, which does not look whether there is a connection. *)
BeatIfPlatformTalks ==  \* fault: a heartbeat only in answer to the platform
  inbox > 0 /\ Lock(Heartbeat)
Beat == Lock(Heartbeat)

-----------------------------------------------------------------------------
(* The platform and the network. *)
Outside(l, e, q, i) ==
  /\ link' = l /\ err' = e /\ queue' = q /\ inbox' = i
  /\ UNCHANGED <<pc, counter, net_fd, fd, killed>>

Message == link = "up" /\ inbox < MaxInbox /\ Outside(link, err, queue, inbox + 1)
Taken == link = "up" /\ queue > 0 /\ Outside(link, err, 0, inbox)
PeerCloses == link = "up" /\ Outside("closed", err, queue, inbox)
Vanishes == link = "up" /\ Outside("silent", err, queue, inbox)
PeerResets == link \in {"up", "silent"} /\ Outside("dead", TRUE, queue, inbox)

(* The answer to a frame that met a closed peer is a reset, which the next *)
(* send learns as EPIPE; a frame that met nobody times out.                *)
LateReset == link = "closed" /\ queue > 0 /\ Outside("dead", FALSE, queue, inbox)
Timeout == link = "silent" /\ queue > 0 /\ Outside("dead", TRUE, queue, inbox)

(* A thread goes on by itself; what makes a reporter report is outside.    *)
ThreadStep(t) ==
  \/ Unlock(t) \/ Send(t)
  \/ t = Heartbeat /\ Beat
  \/ t = Net /\ (NetStep \/ Lock(t))

Tcp == Taken \/ LateReset \/ Timeout
Outsiders == Message \/ PeerCloses \/ Vanishes \/ PeerResets \/ Tcp

Next ==
  /\ ~killed
  /\ \/ \E t \in Lockers : ThreadStep(t)
     \/ \E t \in Reporters : Lock(t)
     \/ Uppath \/ UppathBuilt \/ UppathTest \/ UppathCopy \/ Send(Console)
     \/ Outsiders

Spec == Init /\ [][Next]_vars

(* Threads run and the platform comes back; TCP acknowledges or gives up.  *)
(* The lock is held for microseconds and its users sleep between frames,   *)
(* so that a thread waiting for it gets it, as does one waiting for room.  *)
FairSpec ==
  /\ Spec /\ WF_vars(~killed /\ Tcp)
  /\ \A t \in Lockers : SF_vars(~killed /\ ThreadStep(t))

-----------------------------------------------------------------------------
Stages(t) ==
  IF t = Net THEN {"connect", "connected", "report", "build", "send", "recv", "ack", "lost", "close"}
  ELSE IF t = Console THEN {"idle", "uppath", "test", "copy", "send"}
  ELSE {"idle", "build", "send"}

Labels == UNION {Stages(t) : t \in Threads}

(* Type invariant. *)
TypeOK ==
  /\ pc \in [Threads -> Labels] /\ \A t \in Threads : pc[t] \in Stages(t)
  /\ serial \in 0..(Width - 1) /\ loaded \in [Threads -> 0..(Width - 1)]
  /\ builds \in 0..(Width - 1) /\ fd \in [Threads -> {"none", "now", "old"}]
  /\ link \in {"none", "up", "closed", "silent", "dead"} /\ queue \in 0..SendBuf
  /\ inbox \in 0..MaxInbox /\ net_fd \in BOOLEAN /\ err \in BOOLEAN /\ killed \in BOOLEAN
  /\ raced \in BOOLEAN

(* No serial is given to two frames and none is left out, whichever        *)
(* threads send, until uppath builds a frame while another thread does.    *)
SerialCountsFrames ==
  ~raced /\ (\A t \in Threads : pc[t] \notin Building) => serial = (1 + builds) % Width

(* The descriptor the threads share is that of an open socket, and the net *)
(* thread's own frames, first report and acknowledgements, go out on the   *)
(* connection they are about.                                              *)
FdIsLive ==
  /\ net_fd => link # "none"
  /\ pc[Net] = "send" => fd[Net] = "now"

(* A connection that the peer closes, resets or silently leaves is given   *)
(* up and made anew, unless SIGPIPE ends the process: recv has no timeout, *)
(* and it is the heartbeat's frames that make TCP notice the silence.      *)
Reconnects == link # "up" ~> link = "up" \/ killed

(* doc 2026-09-22, line 12: the terminal reconnects by itself whenever the *)
(* connection breaks, the platform may restart without telling it.         *)
RestartUnnoticed == link # "up" ~> link = "up"
=============================================================================
