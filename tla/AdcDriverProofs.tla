--------------------------- MODULE AdcDriverProofs ---------------------------
(***************************************************************************)
(* Proofs about AdcDriver for any set of clients and channel numbers.      *)
(***************************************************************************)
EXTENDS AdcDriver, TLAPS

USE AdcAssumption

LEMMA Cases ==
  ASSUME [Next]_vars, NEW G,
         UNCHANGED vars => G,
         ASSUME NEW c \in Clients, OpenSetup(c) PROVE G,
         ASSUME NEW c \in Clients, OpenGranted(c) PROVE G,
         ASSUME NEW c \in Clients, OpenRefused(c) PROVE G,
         ASSUME NEW c \in Clients, OpenClear(c) PROVE G,
         ASSUME NEW c \in Clients, OpenInit(c) PROVE G,
         ASSUME NEW c \in Clients, NEW n \in Numbers, SetChannel(c, n) PROVE G,
         ASSUME NEW c \in Clients, FreeIrq(c) PROVE G,
         ASSUME NEW c \in Clients, Unmap(c) PROVE G,
         ASSUME NEW c \in Clients, Start(c) PROVE G,
         ASSUME NEW c \in Clients, Wait(c) PROVE G,
         ASSUME NEW c \in Clients, Interrupted(c) PROVE G,
         ASSUME NEW c \in Clients, Fetch(c) PROVE G,
         ASSUME NEW c \in Clients, ClearFlag(c) PROVE G,
         Convert => G, IrqFlag => G, IrqWake => G
  PROVE  G
BY DEF Next, Call, ReadStep, Irq

Holding == {"granted", "cleared", "open", "wait", "asleep", "fetch", "clear"}

(* What every step rests on: the types, who holds the interrupt, and that  *)
(* only sleepers are in the wait queue.                                    *)
Held ==
  /\ pc \in [Clients -> Stages] /\ asked \in [Clients -> Channels]
  /\ channel \in Channels /\ dat \in Samples
  /\ irqOwner \in Clients \cup {None} /\ waitq \subseteq Clients
  /\ \A c \in Clients : pc[c] \in Holding <=> irqOwner = c
  /\ irqOwner = None => ~handler
  /\ \A c \in waitq : pc[c] = "asleep"

(* A step of one client, seen from all of them. *)
LEMMA Moves ==
  ASSUME pc \in [Clients -> Stages], NEW c \in Clients, NEW l \in Stages, To(c, l)
  PROVE  /\ pc' \in [Clients -> Stages]
         /\ \A d \in Clients : pc'[d] = IF d = c THEN l ELSE pc[d]
BY DEF To

LEMMA HeldStep == Held /\ [Next]_vars => Held'
<1> SUFFICES ASSUME Held, [Next]_vars PROVE Held'  OBVIOUS
<1> USE Moves DEF Held, Holding, driver, hardware, history
<1>0. Stages = Holding \cup {"none", "setup", "freed"}  BY DEF Stages, Holding
<1>1. CASE UNCHANGED vars  BY <1>1 DEF vars
<1>2. ASSUME NEW c \in Clients, OpenSetup(c) PROVE Held'  BY <1>0, <1>2 DEF OpenSetup
<1>3. ASSUME NEW c \in Clients, OpenGranted(c) PROVE Held'  BY <1>0, <1>3 DEF OpenGranted
<1>4. ASSUME NEW c \in Clients, OpenRefused(c) PROVE Held'  BY <1>0, <1>4 DEF OpenRefused
<1>5. ASSUME NEW c \in Clients, OpenClear(c) PROVE Held'  BY <1>0, <1>5 DEF OpenClear
<1>6. ASSUME NEW c \in Clients, OpenInit(c) PROVE Held'
  <2>1. 0 \in Channels  BY DEF Channels
  <2> QED  BY <1>0, <1>6, <2>1 DEF OpenInit
<1>7. ASSUME NEW c \in Clients, NEW n \in Numbers, SetChannel(c, n) PROVE Held'
      BY <1>7 DEF SetChannel, Selects
<1>8. ASSUME NEW c \in Clients, FreeIrq(c) PROVE Held'  BY <1>0, <1>8 DEF FreeIrq
<1>9. ASSUME NEW c \in Clients, Unmap(c) PROVE Held'  BY <1>0, <1>9 DEF Unmap
<1>10. ASSUME NEW c \in Clients, Start(c) PROVE Held'  BY <1>0, <1>10 DEF Start, Samples
<1>11. ASSUME NEW c \in Clients, Wait(c) PROVE Held'  BY <1>0, <1>11 DEF Wait
<1>12. ASSUME NEW c \in Clients, Interrupted(c) PROVE Held'  BY <1>0, <1>12 DEF Interrupted
<1>13. ASSUME NEW c \in Clients, Fetch(c) PROVE Held'  BY <1>0, <1>13 DEF Fetch
<1>14. ASSUME NEW c \in Clients, ClearFlag(c) PROVE Held'  BY <1>0, <1>14 DEF ClearFlag
<1>15. CASE Convert  BY <1>15 DEF Convert, Samples
<1>16. CASE IrqFlag  BY <1>16 DEF IrqFlag
<1>17. CASE IrqWake
  <2>1. "wait" \in Stages  BY <1>0
  <2>2. pc' \in [Clients -> Stages]  BY <1>17, <2>1 DEF IrqWake
  <2> QED  BY <1>17, <2>2 DEF IrqWake
<1> QED  BY <1>1, <1>2, <1>3, <1>4, <1>5, <1>6, <1>7, <1>8, <1>9, <1>10, <1>11, <1>12, <1>13,
            <1>14, <1>15, <1>16, <1>17, Cases

LEMMA HeldInit == Init => Held
BY DEF Init, Held, Holding, Stages, Channels, Samples, Untaken

LEMMA HeldAlways == Spec => []Held
BY HeldInit, HeldStep, PTL DEF Spec

-----------------------------------------------------------------------------
Flags ==
  /\ mapped \in BOOLEAN /\ flag \in BOOLEAN /\ handler \in BOOLEAN /\ converting \in BOOLEAN
  /\ int \in BOOLEAN /\ sample \in Samples /\ oops \in BOOLEAN
  /\ broken \in BOOLEAN /\ shared \in BOOLEAN

(* Every variable stays in its type: in particular no channel number that  *)
(* the register field cannot hold is written.                              *)
THEOREM TypeCorrect == Spec => []TypeOK
<1>1. Init => Flags
  <2>1. Untaken \in Samples  BY DEF Samples, Untaken, Channels
  <2> QED  BY <2>1, Zenon DEF Init, Flags
<1>2. Held /\ Flags /\ [Next]_vars => Flags'
  <2> SUFFICES ASSUME Held, Flags, [Next]_vars PROVE Flags'  OBVIOUS
  <2> USE DEF Flags, driver, hardware, history, Touch
  <2>1. dat \in Samples  BY DEF Held
  <2>2. CASE UNCHANGED vars  BY <2>2 DEF vars
  <2>3. ASSUME NEW c \in Clients, OpenSetup(c) PROVE Flags'  BY <2>3 DEF OpenSetup
  <2>4. ASSUME NEW c \in Clients, OpenGranted(c) PROVE Flags'  BY <2>4 DEF OpenGranted
  <2>5. ASSUME NEW c \in Clients, OpenRefused(c) PROVE Flags'  BY <2>5 DEF OpenRefused
  <2>6. ASSUME NEW c \in Clients, OpenClear(c) PROVE Flags'  BY <2>6 DEF OpenClear
  <2>7. ASSUME NEW c \in Clients, OpenInit(c) PROVE Flags'  BY <2>7 DEF OpenInit
  <2>8. ASSUME NEW c \in Clients, NEW n \in Numbers, SetChannel(c, n) PROVE Flags'
        BY <2>8 DEF SetChannel
  <2>9. ASSUME NEW c \in Clients, FreeIrq(c) PROVE Flags'  BY <2>9 DEF FreeIrq
  <2>10. ASSUME NEW c \in Clients, Unmap(c) PROVE Flags'  BY <2>10 DEF Unmap
  <2>11. ASSUME NEW c \in Clients, Start(c) PROVE Flags'  BY <2>11 DEF Start
  <2>12. ASSUME NEW c \in Clients, Wait(c) PROVE Flags'  BY <2>12 DEF Wait
  <2>13. ASSUME NEW c \in Clients, Interrupted(c) PROVE Flags'  BY <2>13 DEF Interrupted
  <2>14. ASSUME NEW c \in Clients, Fetch(c) PROVE Flags'  BY <2>1, <2>14 DEF Fetch
  <2>15. ASSUME NEW c \in Clients, ClearFlag(c) PROVE Flags'  BY <2>15 DEF ClearFlag
  <2>16. CASE Convert  BY <2>16 DEF Convert
  <2>17. CASE IrqFlag \/ IrqWake
    <3>1. CASE IrqFlag  BY <3>1 DEF IrqFlag
    <3>2. CASE IrqWake  BY <3>2, Zenon DEF IrqWake
    <3> QED  BY <2>17, <3>1, <3>2
  <2> QED  BY <2>2, <2>3, <2>4, <2>5, <2>6, <2>7, <2>8, <2>9, <2>10, <2>11, <2>12, <2>13, <2>14,
              <2>15, <2>16, <2>17, Cases
<1>3. Held /\ Flags => TypeOK  BY DEF Held, Flags, TypeOK
<1> QED  BY <1>1, <1>2, <1>3, HeldAlways, PTL DEF Spec

-----------------------------------------------------------------------------
(* Where nobody has opened beside another there is one client at most, and *)
(* the mapping lasts from before its interrupt to after it.                *)
Alone ==
  ~shared =>
    /\ ~oops
    /\ \A c, d \in Clients : pc[c] # "none" /\ pc[d] # "none" => c = d
    /\ \A c \in Clients : pc[c] # "none" => mapped

(* No unmapped register is touched as long as no client opens before       *)
(* another has let go.                                                     *)
THEOREM AloneNeverFaults == Spec => []NoFault
<1>1. Init => Alone  BY DEF Init, Alone
<1>2. Held /\ Alone /\ [Next]_vars => Alone'
  <2> SUFFICES ASSUME Held, Alone, [Next]_vars, ~shared' PROVE Alone'  BY DEF Alone
  <2> USE Moves DEF Alone, Held, driver, hardware, history, Touch
  <2>0. Stages = Holding \cup {"none", "setup", "freed"}  BY DEF Stages, Holding
  <2>a. "none" \notin Holding  BY DEF Holding
  <2>1. CASE UNCHANGED vars  BY <2>1 DEF vars
  <2>2. ASSUME NEW c \in Clients, OpenSetup(c) PROVE Alone'  BY <2>0, <2>2 DEF OpenSetup
  <2>3. ASSUME NEW c \in Clients, OpenGranted(c) PROVE Alone'
        BY <2>3, <2>0 DEF OpenGranted, Holding
  <2>4. ASSUME NEW c \in Clients, OpenRefused(c) PROVE Alone'  BY <2>0, <2>4 DEF OpenRefused
  <2>5. ASSUME NEW c \in Clients, OpenClear(c) PROVE Alone'  BY <2>0, <2>5 DEF OpenClear, Holding
  <2>6. ASSUME NEW c \in Clients, OpenInit(c) PROVE Alone'  BY <2>0, <2>6 DEF OpenInit, Holding
  <2>7. ASSUME NEW c \in Clients, NEW n \in Numbers, SetChannel(c, n) PROVE Alone'
        BY <2>7 DEF SetChannel
  <2>8. ASSUME NEW c \in Clients, FreeIrq(c) PROVE Alone'  BY <2>0, <2>8 DEF FreeIrq
  <2>9. ASSUME NEW c \in Clients, Unmap(c) PROVE Alone'  BY <2>0, <2>9 DEF Unmap
  <2>10. ASSUME NEW c \in Clients, Start(c) PROVE Alone'  BY <2>0, <2>10 DEF Start, Holding
  <2>11. ASSUME NEW c \in Clients, Wait(c) PROVE Alone'  BY <2>0, <2>11 DEF Wait, Holding
  <2>12. ASSUME NEW c \in Clients, Interrupted(c) PROVE Alone'
         BY <2>0, <2>12 DEF Interrupted, Holding
  <2>13. ASSUME NEW c \in Clients, Fetch(c) PROVE Alone'  BY <2>0, <2>13 DEF Fetch, Holding
  <2>14. ASSUME NEW c \in Clients, ClearFlag(c) PROVE Alone'  BY <2>0, <2>14 DEF ClearFlag, Holding
  <2>15. CASE Convert \/ IrqFlag  BY <2>15 DEF Convert, IrqFlag
  <2>16. CASE IrqWake
    <3>1. mapped  BY <2>16, <2>a DEF IrqWake
    <3>2. \A c \in Clients : pc'[c] # "none" => pc[c] # "none"  BY <2>16 DEF IrqWake
    <3> QED  BY <2>16, <3>1, <3>2 DEF IrqWake
  <2> QED  BY <2>1, <2>2, <2>3, <2>4, <2>5, <2>6, <2>7, <2>8, <2>9, <2>10, <2>11, <2>12, <2>13,
              <2>14, <2>15, <2>16, Cases
<1>3. Alone => NoFault  BY DEF Alone, NoFault
<1> QED  BY <1>1, <1>2, <1>3, HeldAlways, PTL DEF Spec

-----------------------------------------------------------------------------
(* Between the start of a conversion and the end of its interrupt there is *)
(* always one reader that waits for it, and it does not get past the wait  *)
(* before its own conversion is in DAT.                                    *)
Waiting == {"wait", "asleep"}
Past == {"fetch", "clear", "open", "granted", "cleared"}
Attended ==
  ~broken =>
    /\ handler => int
    /\ converting => ~int /\ ~flag
    /\ int /\ ~handler => ~flag
    /\ irqOwner = None => ~converting /\ ~int /\ ~flag
    /\ \A c \in Clients :
         /\ pc[c] \in Past => ~converting /\ (int => handler)
         /\ pc[c] \in {"open", "granted", "cleared"} => ~flag
         /\ pc[c] \in {"granted", "cleared"} => ~int
         /\ pc[c] \in Waiting /\ (int \/ flag) => dat = [channel |-> asked[c], now |-> TRUE]
         /\ pc[c] \in {"fetch", "clear"} => dat = [channel |-> asked[c], now |-> TRUE]
         /\ pc[c] = "clear" => sample = dat
         /\ pc[c] \in Waiting \cup {"fetch", "clear", "open"} => channel = asked[c]

LEMMA AttendedStep == Held /\ Attended /\ [Next]_vars => Attended'
<1> SUFFICES ASSUME Held, Attended, [Next]_vars, ~broken' PROVE Attended'  BY DEF Attended
<1> USE Moves DEF Attended, Held, driver, hardware, history, Waiting, Past
<1>0. Stages = Holding \cup {"none", "setup", "freed"}  BY DEF Stages, Holding
<1>1. CASE UNCHANGED vars  BY <1>1 DEF vars
<1>2. ASSUME NEW c \in Clients, OpenSetup(c) PROVE Attended'  BY <1>0, <1>2 DEF OpenSetup
<1>3. ASSUME NEW c \in Clients, OpenGranted(c) PROVE Attended'
      BY <1>0, <1>3 DEF OpenGranted, Holding
<1>4. ASSUME NEW c \in Clients, OpenRefused(c) PROVE Attended'  BY <1>0, <1>4 DEF OpenRefused
<1>5. ASSUME NEW c \in Clients, OpenClear(c) PROVE Attended'
      BY <1>0, <1>5 DEF OpenClear, Holding
<1>6. ASSUME NEW c \in Clients, OpenInit(c) PROVE Attended'
  <2>1. pc[c] = "cleared" /\ irqOwner = c  BY <1>6 DEF OpenInit, Holding
  <2>2. ~int' /\ UNCHANGED <<handler, flag, irqOwner, broken>>  BY <1>6 DEF OpenInit
  <2>3. ~int /\ ~handler /\ ~flag /\ ~converting  BY <2>1, <2>2
  <2>4. ~converting'  BY <2>3, <1>6, Zenon DEF OpenInit
  <2>5. "open" \in Stages /\ To(c, "open")  BY <1>0, <1>6 DEF OpenInit, Holding
  <2>6. \A d \in Clients : pc'[d] \in Holding => d = c /\ pc'[d] = "open"
        BY <2>1, <2>5
  <2>7. channel' = asked'[c]  BY <1>6 DEF OpenInit
  <2> QED  BY <2>1, <2>2, <2>3, <2>4, <2>6, <2>7 DEF Holding
<1>7. ASSUME NEW c \in Clients, NEW n \in Numbers, SetChannel(c, n) PROVE Attended'
      BY <1>0, <1>7 DEF SetChannel, Holding
<1>8. ASSUME NEW c \in Clients, FreeIrq(c) PROVE Attended'  BY <1>0, <1>8 DEF FreeIrq, Holding
<1>9. ASSUME NEW c \in Clients, Unmap(c) PROVE Attended'  BY <1>0, <1>9 DEF Unmap
<1>10. ASSUME NEW c \in Clients, Start(c) PROVE Attended'  BY <1>0, <1>10 DEF Start, Holding
<1>11. ASSUME NEW c \in Clients, Wait(c) PROVE Attended'  BY <1>0, <1>11 DEF Wait, Holding
<1>12. ASSUME NEW c \in Clients, Interrupted(c) PROVE Attended'  BY <1>12 DEF Interrupted
<1>13. ASSUME NEW c \in Clients, Fetch(c) PROVE Attended'  BY <1>0, <1>13 DEF Fetch, Holding
<1>14. ASSUME NEW c \in Clients, ClearFlag(c) PROVE Attended'
       BY <1>0, <1>14 DEF ClearFlag, Holding
<1>15. CASE Convert  BY <1>0, <1>15 DEF Convert, Holding
<1>16. CASE IrqFlag  BY <1>0, <1>16 DEF IrqFlag, Holding
<1>17. CASE IrqWake  BY <1>0, <1>17 DEF IrqWake, Holding
<1> QED  BY <1>1, <1>2, <1>3, <1>4, <1>5, <1>6, <1>7, <1>8, <1>9, <1>10, <1>11, <1>12, <1>13,
            <1>14, <1>15, <1>16, <1>17, Cases

(* Until a signal ends a wait, every read returns a sample taken after it  *)
(* began, from the channel its client selected.                            *)
THEOREM SamplesAreTrue == Spec => []TrueSample
<1>1. Init => Attended  BY DEF Init, Attended, Waiting, Past
<1>2. Attended => TrueSample  BY DEF Attended, TrueSample
<1> QED  BY <1>1, <1>2, AttendedStep, HeldAlways, PTL DEF Spec
=============================================================================
