----------------------------- MODULE UplinkProofs -----------------------------
(***************************************************************************)
(* What Uplink promises for every set of reporters, serial width and       *)
(* buffer size.                                                            *)
(***************************************************************************)
EXTENDS Uplink, TLAPS

USE UplinkAssumption

(* Next, one case for each action. *)
LEMMA Cases ==
  ASSUME [Next]_vars, NEW G,
         UNCHANGED vars => G,
         ASSUME NEW t \in Lockers, Lock(t) PROVE G,
         ASSUME NEW t \in Lockers, Unlock(t) PROVE G,
         ASSUME Uppath \/ UppathTest \/ UppathCopy PROVE G,
         UppathBuilt => G,
         ASSUME NEW t \in Threads, Send(t) PROVE G,
         NetStep => G,
         Outsiders => G
  PROVE  G
BY DEF Next, ThreadStep, Beat, Threads, Lockers

LEMMA NetIsOther == Net \in Threads /\ Console \in Threads /\ Net # Console /\ Net \notin Reporters
BY DEF Threads, Lockers

PcTyped == pc \in [Threads -> Labels] /\ \A t \in Threads : pc[t] \in Stages(t)
CounterTyped ==
  /\ serial \in 0..(Width - 1) /\ loaded \in [Threads -> 0..(Width - 1)]
  /\ builds \in 0..(Width - 1) /\ raced \in BOOLEAN
FdTyped == fd \in [Threads -> {"none", "now", "old"}] /\ net_fd \in BOOLEAN
SocketTyped ==
  /\ link \in {"none", "up", "closed", "silent", "dead"} /\ queue \in 0..SendBuf
  /\ inbox \in 0..MaxInbox /\ err \in BOOLEAN /\ killed \in BOOLEAN

LEMMA Parts == TypeOK <=> PcTyped /\ CounterTyped /\ FdTyped /\ SocketTyped
BY DEF TypeOK, PcTyped, CounterTyped, FdTyped, SocketTyped

LEMMA InitTyped == Init => TypeOK
<1> SUFFICES ASSUME Init PROVE TypeOK  OBVIOUS
<1>1. \A t \in Threads : pc[t] \in Stages(t)  BY NetIsOther DEF Init, Stages
<1>2. pc = [t \in Threads |-> pc[t]]  BY DEF Init
<1>3. PcTyped  BY <1>1, <1>2 DEF Labels, PcTyped
<1>4. 1 % Width \in 0..(Width - 1) /\ 0 \in 0..(Width - 1)  OBVIOUS
<1>5. CounterTyped  BY <1>4 DEF Init, CounterTyped
<1>6. FdTyped  BY DEF Init, FdTyped
<1>7. SocketTyped
  <2>1. queue \in 0..SendBuf /\ inbox \in 0..MaxInbox  BY DEF Init
  <2> QED  BY <2>1, Zenon DEF Init, SocketTyped
<1> QED  BY <1>3, <1>5, <1>6, <1>7, Parts

LEMMA PcStep == PcTyped /\ [Next]_vars => PcTyped'
<1> SUFFICES ASSUME PcTyped, [Next]_vars PROVE PcTyped'  OBVIOUS
<1>0. ASSUME NEW t \in Threads, NEW l \in Stages(t), To(t, l) PROVE PcTyped'
      BY <1>0 DEF To, Labels, PcTyped
<1>1. CASE UNCHANGED pc  BY <1>1 DEF PcTyped
<1>2. ASSUME NEW t \in Lockers, Lock(t) PROVE PcTyped'
  <2>1. "build" \in Stages(t) /\ t \in Threads  BY DEF Stages, Lockers, Threads
  <2> QED  BY <1>0, <1>2, <2>1 DEF Lock
<1>3. ASSUME NEW t \in Lockers, Unlock(t) PROVE PcTyped'
  <2>1. "send" \in Stages(t) /\ t \in Threads  BY DEF Stages, Lockers, Threads
  <2> QED  BY <1>0, <1>3, <2>1 DEF Unlock
<1>4. CASE Uppath \/ UppathBuilt \/ UppathTest \/ UppathCopy
  <2>1. {"uppath", "test", "idle", "copy", "send"} \subseteq Stages(Console)
        BY NetIsOther DEF Stages
  <2> QED  BY <1>0, <1>4, <2>1, NetIsOther DEF Uppath, UppathBuilt, UppathTest, UppathCopy
<1>5. ASSUME NEW t \in Threads, Send(t) PROVE PcTyped'
  <2>1. Rest(t) \in Stages(t)  BY NetIsOther DEF Stages, Rest
  <2>2. To(t, Rest(t))  BY <1>5 DEF Send, SendNowhere, SendTaken, SendError, SendKills, Sent
  <2> QED  BY <1>0, <2>1, <2>2
<1>6. CASE NetStep
  <2>1. {"connect", "connected", "report", "recv", "ack", "lost", "close"} \subseteq Stages(Net)
        BY DEF Stages
  <2> QED  BY <1>0, <1>6, <2>1, NetIsOther
           DEF NetStep, Connect, Publish, Recv, RecvEnd, Withdraw, Close
<1>7. CASE Outsiders
  <2>1. UNCHANGED pc
        BY <1>7 DEF Outsiders, Tcp, Message, Taken, PeerCloses, Vanishes, PeerResets, LateReset,
                    Timeout, Outside
  <2> QED  BY <2>1, <1>1
<1>8. CASE UNCHANGED vars  BY <1>8, <1>1 DEF vars
<1> QED  BY <1>2, <1>3, <1>4, <1>5, <1>6, <1>7, <1>8, Cases

LEMMA CounterStep == CounterTyped /\ [Next]_vars => CounterTyped'
<1> SUFFICES ASSUME CounterTyped, [Next]_vars PROVE CounterTyped'  OBVIOUS
<1>0. CASE UNCHANGED counter  BY <1>0 DEF CounterTyped, counter
<1>1. ASSUME NEW t \in Threads, Load(t), serial' = serial, raced' \in BOOLEAN PROVE CounterTyped'
      BY <1>1 DEF Load, CounterTyped
<1>2. ASSUME NEW t \in Threads, Store(t), builds' = builds, raced' = raced PROVE CounterTyped'
      BY <1>2 DEF Store, CounterTyped
<1>3. ASSUME NEW t \in Lockers, Lock(t) PROVE CounterTyped'
  <2>1. raced' \in BOOLEAN  BY <1>3 DEF Lock, CounterTyped
  <2> QED  BY <1>3, <1>1, <2>1 DEF Lock, Threads
<1>4. ASSUME NEW t \in Lockers, Unlock(t) PROVE CounterTyped'
      BY <1>4, <1>2 DEF Unlock, Threads
<1>5. CASE Uppath
  <2>1. raced' \in BOOLEAN  BY <1>5 DEF Uppath, CounterTyped
  <2> QED  BY <1>5, <1>1, <2>1, NetIsOther DEF Uppath
<1>6. CASE UppathBuilt  BY <1>6, <1>2, NetIsOther DEF UppathBuilt
<1>7. CASE UppathTest \/ UppathCopy \/ UNCHANGED vars
      BY <1>7, <1>0 DEF UppathTest, UppathCopy, vars
<1>8. ASSUME NEW t \in Threads, Send(t) PROVE CounterTyped'
      BY <1>8, <1>0 DEF Send, SendNowhere, SendTaken, SendError, SendKills, Sent
<1>9. CASE NetStep
      BY <1>9, <1>0 DEF NetStep, Connect, Publish, Recv, RecvEnd, Withdraw, Close
<1>10. CASE Outsiders
       BY <1>10, <1>0 DEF Outsiders, Tcp, Message, Taken, PeerCloses, Vanishes, PeerResets,
                          LateReset, Timeout, Outside
<1> QED  BY <1>3, <1>4, <1>5, <1>6, <1>7, <1>8, <1>9, <1>10, Cases

LEMMA FdStep == FdTyped /\ [Next]_vars => FdTyped'
<1> SUFFICES ASSUME FdTyped, [Next]_vars PROVE FdTyped'  OBVIOUS
<1> USE DEF FdTyped
<1>1. CASE UNCHANGED vars  BY <1>1 DEF vars
<1>2. ASSUME NEW t \in Lockers, Lock(t) PROVE FdTyped'  BY <1>2 DEF Lock
<1>3. ASSUME NEW t \in Lockers, Unlock(t) PROVE FdTyped'  BY <1>3 DEF Unlock, CopyFd, Threads
<1>4. CASE Uppath \/ UppathBuilt \/ UppathTest  BY <1>4 DEF Uppath, UppathBuilt, UppathTest
<1>5. CASE UppathCopy  BY <1>5, NetIsOther DEF UppathCopy, CopyFd
<1>6. ASSUME NEW t \in Threads, Send(t) PROVE FdTyped'
      BY <1>6 DEF Send, SendNowhere, SendTaken, SendError, SendKills, Sent
<1>7. CASE NetStep  BY <1>7 DEF NetStep, Connect, Publish, Recv, RecvEnd, Withdraw, Close
<1>8. CASE Outsiders
      BY <1>8 DEF Outsiders, Tcp, Message, Taken, PeerCloses, Vanishes, PeerResets, LateReset,
                  Timeout, Outside
<1> QED  BY <1>1, <1>2, <1>3, <1>4, <1>5, <1>6, <1>7, <1>8, Cases

LEMMA SocketStep == SocketTyped /\ [Next]_vars => SocketTyped'
<1> SUFFICES ASSUME SocketTyped, [Next]_vars PROVE SocketTyped'  OBVIOUS
<1> USE DEF SocketTyped
<1>1. CASE UNCHANGED <<socket, killed>>  BY <1>1 DEF socket
<1>2. ASSUME NEW t \in Lockers, Lock(t) \/ Unlock(t) PROVE SocketTyped'
      BY <1>2, <1>1 DEF Lock, Unlock
<1>3. CASE Uppath \/ UppathBuilt \/ UppathTest \/ UppathCopy \/ UNCHANGED vars
      BY <1>3, <1>1 DEF Uppath, UppathBuilt, UppathTest, UppathCopy, vars
<1>4. ASSUME NEW t \in Threads, Send(t) PROVE SocketTyped'
  <2>1. CASE SendNowhere(t) \/ SendError(t)  BY <2>1 DEF SendNowhere, SendError, Sent
  <2>2. CASE SendTaken(t)
    <3>1. queue' \in 0..SendBuf  BY <2>2 DEF SendTaken
    <3> QED  BY <2>2, <3>1 DEF SendTaken, Sent
  <2>3. CASE SendKills(t)  BY <2>3 DEF SendKills, Sent
  <2> QED  BY <1>4, <2>1, <2>2, <2>3 DEF Send
<1>5. CASE NetStep
  <2>1. CASE Publish \/ Withdraw  BY <2>1, <1>1 DEF Publish, Withdraw
  <2>2. CASE Connect  BY <2>2 DEF Connect
  <2>3. CASE Recv
    <3>1. inbox' \in 0..MaxInbox  BY <2>3 DEF Recv
    <3> QED  BY <2>3, <3>1 DEF Recv
  <2>4. CASE RecvEnd  BY <2>4 DEF RecvEnd
  <2>5. CASE Close
    <3>1. queue' \in 0..SendBuf /\ inbox' \in 0..MaxInbox  BY <2>5 DEF Close
    <3> QED  BY <2>5, <3>1, Zenon DEF Close
  <2> QED  BY <1>5, <2>1, <2>2, <2>3, <2>4, <2>5 DEF NetStep
<1>6. CASE Outsiders
  <2>1. CASE Message
    <3>1. inbox' \in 0..MaxInbox  BY <2>1 DEF Message, Outside
    <3> QED  BY <2>1, <3>1 DEF Message, Outside
  <2>2. CASE Taken  BY <2>2 DEF Taken, Outside
  <2>3. CASE PeerCloses \/ Vanishes  BY <2>3 DEF PeerCloses, Vanishes, Outside
  <2>4. CASE PeerResets \/ LateReset \/ Timeout
        BY <2>4 DEF PeerResets, LateReset, Timeout, Outside
  <2> QED  BY <1>6, <2>1, <2>2, <2>3, <2>4 DEF Outsiders, Tcp
<1> QED  BY <1>2, <1>3, <1>4, <1>5, <1>6, Cases

LEMMA Types == Spec => []TypeOK
<1>1. TypeOK /\ [Next]_vars => TypeOK'
      BY Parts, PcStep, CounterStep, FdStep, SocketStep DEF TypeOK, PcTyped, CounterTyped, FdTyped, SocketTyped
<1> QED  BY InitTyped, <1>1, PTL DEF Spec

(* Every variable stays in its type, for any threads and sizes. *)
THEOREM TypeCorrect == Spec => []TypeOK
BY Types, PTL

-----------------------------------------------------------------------------
(* Where the net thread is tells whether there is a socket and whether its *)
(* descriptor is published.                                                *)
Published ==
  /\ pc[Net] \in {"connect", "connected", "close"} <=> ~net_fd
  /\ pc[Net] = "connect" <=> link = "none"
  /\ pc[Net] = "send" => fd[Net] = "now"

LEMMA PublishedStep == TypeOK /\ Published /\ [Next]_vars => Published'
<1> SUFFICES ASSUME TypeOK, Published, [Next]_vars PROVE Published'  OBVIOUS
<1> USE NetIsOther DEF Published, FdTyped, PcTyped, To
<1>0. PcTyped /\ FdTyped  BY Parts
<1>1. CASE UNCHANGED vars  BY <1>1 DEF vars, socket
<1>2. ASSUME NEW t \in Lockers, Lock(t) PROVE Published'
      BY <1>0, <1>2 DEF Lock, socket, Lockers, Threads, Stages
<1>3. ASSUME NEW t \in Lockers, Unlock(t) PROVE Published'
      BY <1>0, <1>3 DEF Unlock, CopyFd, socket, Lockers, Threads, Stages
<1>4. CASE Uppath \/ UppathTest \/ UppathCopy
      BY <1>0, <1>4 DEF Uppath, UppathTest, UppathCopy, CopyFd, socket
<1>5. CASE UppathBuilt  BY <1>0, <1>5 DEF UppathBuilt, socket
<1>6. ASSUME NEW t \in Threads, Send(t) PROVE Published'
  <2>1. link' = link  BY <1>6 DEF Send, SendNowhere, SendTaken, SendError, SendKills
  <2>2. Sent(t)  BY <1>6 DEF Send, SendNowhere, SendTaken, SendError, SendKills
  <2> QED  BY <1>0, <2>1, <2>2 DEF Sent, Rest
<1>7. CASE NetStep
      BY <1>0, <1>7 DEF NetStep, Connect, Publish, Recv, RecvEnd, Withdraw, Close, socket
<1>8. CASE Outsiders
      BY <1>8 DEF Outsiders, Tcp, Message, Taken, PeerCloses, Vanishes, PeerResets, LateReset,
                  Timeout, Outside
<1> QED  BY <1>1, <1>2, <1>3, <1>4, <1>5, <1>6, <1>7, <1>8, Cases

(* The shared descriptor is that of an open socket, and the net thread's   *)
(* frames go out on the connection they are about.                         *)
THEOREM FdAlwaysLive == Spec => []FdIsLive
<1>1. Init => Published  BY NetIsOther DEF Init, Published
<1>2. TypeOK /\ Published => FdIsLive  BY DEF Published, FdIsLive
<1> QED  BY <1>1, <1>2, PublishedStep, Types, PTL DEF Spec

-----------------------------------------------------------------------------
(* One locker at a time builds, and the serial a builder has read is that  *)
(* of the frame being built.                                               *)
Exclusive == \A t \in Lockers, u \in Lockers : pc[t] = "build" /\ pc[u] = "build" => t = u
Counted ==
  ~raced =>
    /\ \A t \in Lockers : ~(pc[t] = "build" /\ pc[Console] = "uppath")
    /\ \A t \in Threads : pc[t] \in Building => loaded[t] = builds /\ serial = builds
    /\ (\A t \in Threads : pc[t] \notin Building) => serial = (1 + builds) % Width

LEMMA ExclusiveStep == TypeOK /\ Exclusive /\ [Next]_vars => Exclusive'
<1> SUFFICES ASSUME TypeOK, Exclusive, [Next]_vars PROVE Exclusive'  OBVIOUS
<1> USE NetIsOther DEF Exclusive, PcTyped, Lockers, Threads
<1>0. PcTyped  BY Parts
<1>1. ASSUME NEW t \in Threads, NEW l \in Labels, To(t, l), l # "build" PROVE Exclusive'
      BY <1>0, <1>1 DEF To
<1>2. CASE UNCHANGED pc  BY <1>2
<1>3. ASSUME NEW t \in Lockers, Lock(t) PROVE Exclusive'
      BY <1>0, <1>3 DEF Lock, To, SendLockFree
<1>4. ASSUME NEW t \in Lockers, Unlock(t) PROVE Exclusive'  BY <1>0, <1>4 DEF Unlock, To
<1>5. CASE Uppath \/ UppathBuilt \/ UppathTest \/ UppathCopy
      BY <1>0, <1>5 DEF Uppath, UppathBuilt, UppathTest, UppathCopy, To
<1>6. ASSUME NEW t \in Threads, Send(t) PROVE Exclusive'
  <2>1. Sent(t)  BY <1>6 DEF Send, SendNowhere, SendTaken, SendError, SendKills
  <2> QED  BY <1>0, <2>1 DEF Sent, Rest, To
<1>7. CASE NetStep
      BY <1>0, <1>7 DEF NetStep, Connect, Publish, Recv, RecvEnd, Withdraw, Close, To
<1>8. CASE Outsiders \/ UNCHANGED vars
      BY <1>8, <1>2 DEF Outsiders, Tcp, Message, Taken, PeerCloses, Vanishes, PeerResets,
                        LateReset, Timeout, Outside, vars
<1> QED  BY <1>3, <1>4, <1>5, <1>6, <1>7, <1>8, Cases

LEMMA CountedStep == TypeOK /\ Exclusive /\ Counted /\ [Next]_vars => Counted'
<1> SUFFICES ASSUME TypeOK, Exclusive, Counted, [Next]_vars, ~raced' PROVE Counted'
    BY DEF Counted
<1> USE NetIsOther DEF Counted, Building
<1>0. PcTyped /\ CounterTyped  BY Parts
<1>a. \A t \in Threads : t = Console \/ t \in Lockers  BY DEF Threads, Lockers
<1>b. \A t \in Lockers : t # Console /\ t \in Threads /\ pc[t] # "uppath"
      BY <1>0 DEF Threads, Lockers, PcTyped, Stages
<1>c. pc[Console] # "build"  BY <1>0 DEF PcTyped, Stages
<1>1. ASSUME UNCHANGED counter, NEW t \in Threads, NEW l, To(t, l), pc[t] \notin Building,
             l \notin Building
      PROVE  Counted'
      BY <1>0, <1>1 DEF counter, To, PcTyped
<1>2. CASE UNCHANGED <<pc, counter>>  BY <1>2 DEF counter
<1>3. ASSUME NEW t \in Lockers, Lock(t) PROVE Counted'
  <2>1. ~raced /\ pc[Console] # "uppath"  BY <1>3 DEF Lock
  <2>2. \A u \in Threads : pc[u] \notin Building  BY <1>3, <2>1, <1>a, <1>b, <1>c DEF Lock, SendLockFree
  <2>3. builds' = serial /\ serial' = serial  BY <1>3, <2>1, <2>2, <1>0 DEF Lock, Load, CounterTyped
  <2>4. loaded'[t] = serial  BY <1>3, <1>0, <1>b DEF Lock, Load, CounterTyped
  <2>5. \A u \in Threads : pc'[u] = IF u = t THEN "build" ELSE pc[u]
        BY <1>3, <1>0 DEF Lock, To, PcTyped
  <2> QED  BY <2>1, <2>2, <2>3, <2>4, <2>5, <1>b
<1>4. CASE Uppath
  <2>1. ~raced /\ SendLockFree  BY <1>4 DEF Uppath
  <2>2. \A u \in Threads : pc[u] \notin Building  BY <1>4, <2>1, <1>a, <1>b, <1>c DEF Uppath, SendLockFree
  <2>3. builds' = serial /\ serial' = serial  BY <1>4, <2>1, <2>2, <1>0 DEF Uppath, Load, CounterTyped
  <2>4. loaded'[Console] = serial  BY <1>4, <1>0 DEF Uppath, Load, CounterTyped
  <2>5. \A u \in Threads : pc'[u] = IF u = Console THEN "uppath" ELSE pc[u]
        BY <1>4, <1>0 DEF Uppath, To, PcTyped
  <2> QED  BY <2>1, <2>2, <2>3, <2>4, <2>5, <1>b
<1>5. ASSUME NEW t \in Threads, NEW l, To(t, l), l \notin Building, pc[t] \in Building, Store(t),
             UNCHANGED <<builds, raced>>
      PROVE  Counted'
  <2>1. \A u \in Threads : pc[u] \in Building => u = t
        BY <1>5, <1>a, <1>b, <1>c DEF Exclusive
  <2>2. \A u \in Threads : pc'[u] \notin Building
        BY <1>5, <1>0, <2>1 DEF To, PcTyped
  <2>3. serial' = (builds + 1) % Width  BY <1>5 DEF Store
  <2>4. (builds + 1) % Width = (1 + builds) % Width  BY <1>0 DEF CounterTyped
  <2> QED  BY <1>5, <2>2, <2>3, <2>4, <1>b
<1>6. ASSUME NEW t \in Lockers, Unlock(t) PROVE Counted'  BY <1>6, <1>5, <1>b DEF Unlock
<1>7. CASE UppathBuilt  BY <1>7, <1>5 DEF UppathBuilt
<1>8. CASE UppathTest \/ UppathCopy  BY <1>8, <1>1 DEF UppathTest, UppathCopy
<1>9. ASSUME NEW t \in Threads, Send(t) PROVE Counted'
  <2>1. Sent(t)  BY <1>9 DEF Send, SendNowhere, SendTaken, SendError, SendKills
  <2> QED  BY <2>1, <1>1 DEF Sent, Rest
<1>10. CASE NetStep
       BY <1>10, <1>1 DEF NetStep, Connect, Publish, Recv, RecvEnd, Withdraw, Close
<1>11. CASE Outsiders \/ UNCHANGED vars
       BY <1>11, <1>2 DEF Outsiders, Tcp, Message, Taken, PeerCloses, Vanishes, PeerResets,
                          LateReset, Timeout, Outside, vars
<1>12. ASSUME UppathTest \/ UppathCopy \/ Uppath PROVE Counted'  BY <1>12, <1>4, <1>8
<1> QED  BY <1>3, <1>6, <1>12, <1>7, <1>9, <1>10, <1>11, Cases

(* Without a race with uppath every frame has the serial after the one     *)
(* before it, modulo the width.                                            *)
THEOREM SerialsNeverRepeat == Spec => []SerialCountsFrames
<1>1. Init => Exclusive /\ Counted
  <2> SUFFICES ASSUME Init PROVE Exclusive /\ Counted  OBVIOUS
  <2>1. \A t \in Threads : pc[t] \notin Building /\ pc[t] # "build"  BY DEF Init, Building
  <2>2. serial = (1 + builds) % Width  BY DEF Init
  <2> QED  BY <2>1, <2>2, NetIsOther DEF Exclusive, Counted, Threads, Lockers
<1>2. Counted => SerialCountsFrames  BY DEF Counted, SerialCountsFrames
<1> QED  BY <1>1, <1>2, ExclusiveStep, CountedStep, Types, PTL DEF Spec
=============================================================================
