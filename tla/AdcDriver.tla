------------------------------ MODULE AdcDriver ------------------------------
(***************************************************************************)
(* The converter behind the smoke sensor: board_driver/adc/adc_driver.c as *)
(* hal/adc.c of the terminal and adc_test.c call it. A read starts a       *)
(* conversion and sleeps on a wait queue until the interrupt has set a     *)
(* flag. One struct serves every client; opens are serialised by           *)
(* misc_open, releases and reads are not.                                  *)
(*                                                                         *)
(* A sample is its channel and whether it was taken since the read began.  *)
(* Both callers sleep between two reads, far longer than the interrupt     *)
(* handler runs: a read does not begin inside the handler.                 *)
(***************************************************************************)
EXTENDS Integers

CONSTANTS
  Clients,    \* processes that may open /dev/adc
  Numbers,    \* channel numbers they may ask for
  None        \* no client

ASSUME AdcAssumption == Numbers \subseteq Int /\ None \notin Clients

Channels == 0..7

VARIABLES
  pc,          \* where each client is
  asked,       \* the channel each client selected last
  irqOwner,    \* whose request_irq is in force
  mapped,      \* base_addr is a mapping in use
  flag,        \* flag_irq
  waitq,       \* the sleepers that wake_up_interruptible reaches
  handler,     \* adc_irq_handler has set the flag and not returned
  channel,     \* ASEL of the register CON
  converting,  \* ADEN: a conversion is under way
  int,         \* the interrupt of a finished conversion stands
  dat,         \* the register DAT
  sample,      \* what the last read returned
  oops,        \* the driver touched an unmapped register
  broken,      \* history: a signal ended a wait
  shared       \* history: a client opened before another had let go

hardware == <<channel, converting, int, dat>>
driver == <<irqOwner, mapped, flag, waitq, handler>>
history == <<broken, shared>>
vars == <<pc, asked, driver, hardware, sample, oops, history>>

To(c, l) == pc' = [pc EXCEPT ![c] = l]
Touch == oops' = ~mapped
Untaken == [channel |-> 0, now |-> FALSE]

(* adc_probe leaves a zeroed struct. *)
Init ==
  /\ pc = [c \in Clients |-> "none"] /\ asked = [c \in Clients |-> 0]
  /\ irqOwner = None /\ mapped = FALSE /\ flag = FALSE /\ waitq = {} /\ handler = FALSE
  /\ channel = 0 /\ converting = FALSE /\ int = FALSE /\ dat = Untaken /\ sample = Untaken
  /\ oops = FALSE /\ broken = FALSE /\ shared = FALSE

-----------------------------------------------------------------------------
(* dev_open: the wait queue and the mapping are set up before request_irq  *)
(* tells whether the device is free; a refusal undoes neither.             *)
OpenSetup(c) ==
  /\ pc[c] = "none" /\ \A d \in Clients : pc[d] \notin {"setup", "granted", "cleared"}
  /\ To(c, "setup") /\ waitq' = {} /\ mapped' = TRUE
  /\ shared' = (shared \/ \E d \in Clients \ {c} : pc[d] # "none")
  /\ UNCHANGED <<asked, irqOwner, flag, handler, hardware, sample, oops, broken>>

OpenGranted(c) ==
  /\ pc[c] = "setup" /\ irqOwner = None
  /\ To(c, "granted") /\ irqOwner' = c
  /\ UNCHANGED <<asked, mapped, flag, waitq, handler, hardware, sample, oops, history>>

RefusedReset(c) ==  \* fault: dev_init before request_irq
  /\ pc[c] = "setup" /\ irqOwner # None /\ To(c, "none") /\ channel' = 0
  /\ UNCHANGED <<asked, driver, converting, int, dat, sample, oops, history>>
OpenRefused(c) ==
  /\ pc[c] = "setup" /\ irqOwner # None
  /\ To(c, "none")
  /\ UNCHANGED <<asked, driver, hardware, sample, oops, history>>

OpenClear(c) ==
  /\ pc[c] = "granted"
  /\ To(c, "cleared") /\ flag' = FALSE
  /\ UNCHANGED <<asked, irqOwner, mapped, waitq, handler, hardware, sample, oops, history>>

(* dev_init writes ADEN as 0; a conversion under way may end all the same. *)
OpenInit(c) ==
  /\ pc[c] = "cleared"
  /\ To(c, "open") /\ channel' = 0 /\ int' = FALSE /\ converting' \in {FALSE, converting} /\ Touch
  /\ asked' = [asked EXCEPT ![c] = 0]
  /\ UNCHANGED <<driver, dat, sample, history>>

(* ioctl SET_CHANNEL *)
Selects(n) == n \in Channels

SetChannel(c, n) ==
  /\ pc[c] = "open" /\ Selects(n)
  /\ channel' = n /\ asked' = [asked EXCEPT ![c] = n] /\ Touch
  /\ UNCHANGED <<pc, driver, converting, int, dat, sample, history>>

(* dev_release: free_irq waits for the handler, then the mapping goes,     *)
(* whichever it is by now.                                                 *)
FreeIrqNow(c) ==  \* fault: the handler is not waited for
  /\ pc[c] = "open" /\ To(c, "freed") /\ irqOwner' = None
  /\ UNCHANGED <<asked, mapped, flag, waitq, handler, hardware, sample, oops, history>>
FreeIrq(c) ==
  /\ pc[c] = "open" /\ ~handler
  /\ To(c, "freed") /\ irqOwner' = None
  /\ UNCHANGED <<asked, mapped, flag, waitq, handler, hardware, sample, oops, history>>

Unmap(c) ==
  /\ pc[c] = "freed"
  /\ To(c, "none") /\ mapped' = FALSE
  /\ UNCHANGED <<asked, irqOwner, flag, waitq, handler, hardware, sample, oops, history>>

-----------------------------------------------------------------------------
(* dev_read. Setting ADEN again does not restart a conversion. *)
Start(c) ==
  /\ pc[c] = "open" /\ ~handler
  /\ To(c, "wait") /\ converting' = TRUE /\ dat' = [dat EXCEPT !.now = FALSE] /\ Touch
  /\ UNCHANGED <<asked, driver, channel, int, sample, history>>

(* wait_event_interruptible joins the queue before it looks at the flag. *)
Wait(c) ==
  /\ pc[c] = "wait"
  /\ IF flag THEN To(c, "fetch") /\ UNCHANGED waitq
             ELSE To(c, "asleep") /\ waitq' = waitq \cup {c}
  /\ UNCHANGED <<asked, irqOwner, mapped, flag, handler, hardware, sample, oops, history>>

(* A signal, a stop or a debugger ends the wait; its result is not read. *)
Interrupted(c) ==
  /\ pc[c] = "asleep"
  /\ To(c, "fetch") /\ waitq' = waitq \ {c} /\ broken' = TRUE
  /\ UNCHANGED <<asked, irqOwner, mapped, flag, handler, hardware, sample, oops, shared>>

Fetch(c) ==
  /\ pc[c] = "fetch"
  /\ To(c, "clear") /\ sample' = dat /\ Touch
  /\ UNCHANGED <<asked, driver, hardware, history>>

ClearFlag(c) ==
  /\ pc[c] = "clear"
  /\ To(c, "open") /\ flag' = FALSE
  /\ UNCHANGED <<asked, irqOwner, mapped, waitq, handler, hardware, sample, oops, history>>

ReadStep(c) == Wait(c) \/ Fetch(c) \/ ClearFlag(c)
Call(c) ==
  \/ OpenSetup(c) \/ OpenGranted(c) \/ OpenRefused(c) \/ OpenClear(c) \/ OpenInit(c)
  \/ FreeIrq(c) \/ Unmap(c) \/ Start(c) \/ Interrupted(c)
  \/ \E n \in Numbers : SetChannel(c, n)

-----------------------------------------------------------------------------
(* The hardware finishes a conversion. *)
Convert ==
  /\ converting
  /\ converting' = FALSE /\ int' = TRUE /\ dat' = [channel |-> channel, now |-> TRUE]
  /\ UNCHANGED <<pc, asked, driver, channel, sample, oops, history>>

(* adc_irq_handler *)
IrqFlag ==
  /\ int /\ irqOwner # None /\ ~handler
  /\ handler' = TRUE /\ flag' = TRUE
  /\ UNCHANGED <<pc, asked, irqOwner, mapped, waitq, hardware, sample, oops, history>>

IrqNoWake ==  \* fault: no wake_up
  /\ handler /\ handler' = FALSE /\ int' = FALSE /\ Touch
  /\ UNCHANGED <<pc, asked, irqOwner, mapped, flag, waitq, channel, converting, dat, sample, history>>
IrqWake ==
  /\ handler
  /\ handler' = FALSE /\ int' = FALSE /\ Touch
  /\ pc' = [c \in Clients |-> IF c \in waitq THEN "wait" ELSE pc[c]] /\ waitq' = {}
  /\ UNCHANGED <<asked, irqOwner, mapped, flag, channel, converting, dat, sample, history>>

Irq == IrqFlag \/ IrqWake

Next ==
  /\ ~oops
  /\ \/ Convert \/ Irq
     \/ \E c \in Clients : Call(c) \/ ReadStep(c)

Spec == Init /\ [][Next]_vars

(* The hardware and its interrupt go on, and a reader that is awake runs. *)
FairSpec ==
  /\ Spec /\ WF_vars(~oops /\ Convert) /\ WF_vars(~oops /\ Irq)
  /\ \A c \in Clients : WF_vars(~oops /\ ReadStep(c))

-----------------------------------------------------------------------------
Stages == {"none", "setup", "granted", "cleared", "open", "freed", "wait", "asleep", "fetch", "clear"}
Reading == {"wait", "asleep", "fetch", "clear"}
Samples == [channel : Channels, now : BOOLEAN]

(* Type invariant. *)
TypeOK ==
  /\ pc \in [Clients -> Stages] /\ asked \in [Clients -> Channels]
  /\ irqOwner \in Clients \cup {None} /\ waitq \subseteq Clients /\ channel \in Channels
  /\ mapped \in BOOLEAN /\ flag \in BOOLEAN /\ handler \in BOOLEAN /\ converting \in BOOLEAN
  /\ int \in BOOLEAN /\ dat \in Samples /\ sample \in Samples /\ oops \in BOOLEAN
  /\ broken \in BOOLEAN /\ shared \in BOOLEAN

(* A read returns a sample taken after it began, from the channel its      *)
(* client selected, whatever other clients try meanwhile: until a signal   *)
(* has ended some wait. From then on the flag of the conversion that was   *)
(* not waited for may end the next wait too early (adc_driver.c:115, 124). *)
TrueSample ==
  \A c \in Clients : pc[c] = "clear" /\ ~broken => sample = [channel |-> asked[c], now |-> TRUE]

(* The registers are mapped whenever a call or the handler touches them,   *)
(* as long as no client opens before another has let go.                   *)
NoFault == oops => shared

(* A read comes to its end, unless the open of another client has set up   *)
(* the wait queue anew under the sleeper (adc_driver.c:162).               *)
ReadReturns == \A c \in Clients : pc[c] \in Reading ~> pc[c] = "open" \/ shared
=============================================================================
