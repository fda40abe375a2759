------------------------------ MODULE EthDriver ------------------------------
(***************************************************************************)
(* The LAN9115 Ethernet driver of the TLL6219 board: the interrupt handler *)
(* ethISR, the receive task ethTask, the list-tasks task _print that the   *)
(* handler wakes, and the hardware they share (receive FIFO, INT_STS,      *)
(* INT_EN, the PHY and the push button on PF16).                           *)
(*                                                                         *)
(* There is one CPU.  The handler runs with interrupts masked, so no task  *)
(* step happens while isr # "off"; the hardware may change between any two *)
(* of its register accesses.  A task may be interrupted between any two of *)
(* its own accesses, which is where ethTask's read-modify-write of INT_EN  *)
(* and its FIFO test are exposed.                                          *)
(***************************************************************************)
EXTENDS Naturals, Integers, Sequences

CONSTANTS
  Sizes,      \* frame lengths in bytes, as RX_STS reports them
  FifoDepth,  \* frames the receive status FIFO holds
  LinkBounces \* TRUE: the link may drop while an earlier change is serviced

ASSUME SizesAssumption == \A n \in Sizes : n \in Nat /\ n > 12
ASSUME DepthAssumption == FifoDepth \in Nat \ {0}
ASSUME BounceAssumption == LinkBounces \in BOOLEAN

VARIABLES
  fifo,    \* RX status FIFO: frames received and not yet popped
  skew,    \* words read from the RX data FIFO beyond the frames popped
  intSts,  \* INT_STS: the latched interrupt sources "rx" and "phy"
  intEn,   \* INT_EN: the enabled sources
  link,    \* the PHY has an active link
  lowSeen, \* the link-status bit of BMSR latched a drop nobody has read
  phySrc,  \* PHY register 29: an unread link event
  button,  \* PF16 latched a rising edge in PTF_ISR
  owed,    \* history: a press no listing has started after
  rxLock,  \* count of the binary semaphore ethTask waits for
  pLock,   \* count of the semaphore _print waits for
  linkUp,  \* NETIF_FLAG_LINK_UP of netif.flags
  up,      \* NETIF_FLAG_UP of netif.flags
  isr,     \* where ethISR is; "off" when no handler runs
  status,  \* ethISR's local copy of INT_STS
  pc,      \* where ethTask is
  frame,   \* ethTask's local copy of RX_STS
  ien,     \* ethTask's copy of INT_EN inside the read-modify-write
  print    \* where _print is

rxVars   == <<fifo, skew>>
phyVars  == <<link, lowSeen, phySrc>>
flagVars == <<linkUp, up>>
btnVars  == <<button, owed>>
isrVars  == <<isr, status>>
taskVars == <<pc, frame, ien>>
vars == <<rxVars, intSts, intEn, phyVars, btnVars, rxLock, pLock, flagVars,
          isrVars, taskVars, print>>

Frames == [size : Sizes, err : BOOLEAN]
Sources == {"rx", "phy"}

(* The local copies are out of scope between uses: they hold this then.    *)
NoFrame == [size |-> 0, err |-> FALSE]

(* RX_FIFO_INF's used count is non-zero. *)
FifoUsed == fifo # <<>>

(* Words a frame of n bytes occupies in the data FIFO. *)
Words(n) == (n + 3) \div 4

(* The state ethInit leaves: both sources enabled, the semaphore given by  *)
(* vSemaphoreCreateBinary, the negotiation it started not yet complete.    *)
Init ==
  /\ fifo = <<>> /\ skew = 0
  /\ intSts = {} /\ intEn = Sources
  /\ link = FALSE /\ lowSeen = FALSE /\ phySrc = FALSE
  /\ button = FALSE /\ owed = FALSE
  /\ rxLock = 1 /\ pLock = 0
  /\ linkUp = FALSE /\ up = FALSE
  /\ isr = "off" /\ status = {}
  /\ pc = "take" /\ ien = {}
  /\ frame = NoFrame
  /\ print = "take"

-----------------------------------------------------------------------------
(* Hardware.                                                               *)

(* Writing `bits' to INT_STS clears them, but the FIFO-level and PHY       *)
(* sources are levels: a bit whose cause persists is set again.            *)
Acknowledge(bits) ==
  intSts' = (intSts \ bits) \cup (IF FifoUsed THEN {"rx"} ELSE {})
                            \cup (IF phySrc THEN {"phy"} ELSE {})

(* A frame arrives; one that finds the FIFO full is dropped by the chip.   *)
Arrive(f) ==
  /\ Len(fifo) < FifoDepth
  /\ fifo' = Append(fifo, f)
  /\ intSts' = intSts \cup {"rx"}
  /\ UNCHANGED <<skew, intEn, phyVars, btnVars, rxLock, pLock, flagVars,
                 isrVars, taskVars, print>>

(* The PHY's unmasked events: autonegotiation completes, the link drops.   *)
(* Negotiation takes seconds, so an earlier event has been serviced by     *)
(* then; a drop can follow a new link within the handler's own run.        *)
LinkEvent(b) ==
  /\ b # link
  /\ \/ ~phySrc /\ isr \notin {"bmsr", "ack29"}
     \/ LinkBounces /\ ~b
  /\ link' = b
  /\ lowSeen' = (lowSeen \/ ~b)
  /\ phySrc' = TRUE
  /\ intSts' = intSts \cup {"phy"}
  /\ UNCHANGED <<rxVars, intEn, btnVars, rxLock, pLock, flagVars, isrVars,
                 taskVars, print>>

Press ==
  /\ button' = TRUE /\ owed' = TRUE
  /\ UNCHANGED <<rxVars, intSts, intEn, phyVars, rxLock, pLock, flagVars,
                 isrVars, taskVars, print>>

-----------------------------------------------------------------------------
(* ethISR.                                                                 *)

(* PF0 is a level: the chip asserts it while an enabled source is set.     *)
Irq == button \/ intSts \cap intEn # {}

IsrEnter ==
  /\ isr = "off" /\ Irq
  /\ status' = intSts
  /\ isr' = "button"
  /\ UNCHANGED <<rxVars, intSts, intEn, phyVars, btnVars, rxLock, pLock,
                 flagVars, taskVars, print>>

(* Mutant: the handler clears the button's bit and forgets the semaphore.  *)
IsrButtonNoGive ==
  /\ isr = "button"
  /\ button' = FALSE
  /\ isr' = IF "phy" \in status THEN "bmsr" ELSE "rx"
  /\ UNCHANGED <<rxVars, intSts, intEn, phyVars, owed, rxLock, pLock, flagVars,
                 status, taskVars, print>>

(* xSemaphoreGiveFromISR(pLock): pLock counts to 1, a full one stays.      *)
IsrButton ==
  /\ isr = "button"
  /\ button' = FALSE
  /\ pLock' = IF button THEN 1 ELSE pLock
  /\ isr' = IF "phy" \in status THEN "bmsr" ELSE "rx"
  /\ UNCHANGED <<rxVars, intSts, intEn, phyVars, owed, rxLock, flagVars,
                 status, taskVars, print>>

(* Mutant: a lost link clears NETIF_FLAG_LINK_UP only.                     *)
IsrReadLinkKeepsUp ==
  /\ isr = "bmsr"
  /\ linkUp' = (link /\ ~lowSeen)
  /\ up' = (up \/ (link /\ ~lowSeen))
  /\ lowSeen' = FALSE
  /\ isr' = "ack29"
  /\ UNCHANGED <<rxVars, intSts, intEn, link, phySrc, btnVars, rxLock, pLock,
                 status, taskVars, print>>

(* Reading BMSR returns the latched-low link bit and re-arms the latch.    *)
IsrReadLink ==
  /\ isr = "bmsr"
  /\ linkUp' = (link /\ ~lowSeen)
  /\ up' = (link /\ ~lowSeen)
  /\ lowSeen' = FALSE
  /\ isr' = "ack29"
  /\ UNCHANGED <<rxVars, intSts, intEn, link, phySrc, btnVars, rxLock, pLock,
                 status, taskVars, print>>

(* After the printf, reading PHY register 29 clears every PHY event.       *)
IsrAckPhy ==
  /\ isr = "ack29"
  /\ phySrc' = FALSE
  /\ isr' = "rx"
  /\ UNCHANGED <<rxVars, intSts, intEn, link, lowSeen, btnVars, rxLock, pLock,
                 flagVars, status, taskVars, print>>

(* Mutants: the give counts instead of saturating; the source is masked    *)
(* and the give forgotten.                                                 *)
IsrRxCounting ==
  /\ isr = "rx"
  /\ IF FifoUsed
     THEN rxLock' = rxLock + 1 /\ intEn' = intEn \ {"rx"}
     ELSE UNCHANGED <<rxLock, intEn>>
  /\ isr' = "ack"
  /\ UNCHANGED <<rxVars, intSts, phyVars, btnVars, pLock, flagVars, status,
                 taskVars, print>>
IsrRxNoGive ==
  /\ isr = "rx"
  /\ intEn' = IF FifoUsed THEN intEn \ {"rx"} ELSE intEn
  /\ isr' = "ack"
  /\ UNCHANGED <<rxVars, intSts, phyVars, btnVars, rxLock, pLock, flagVars,
                 status, taskVars, print>>

(* Wake ethTask and mask the receive source until it has drained the FIFO. *)
IsrRx ==
  /\ isr = "rx"
  /\ IF FifoUsed
     THEN rxLock' = 1 /\ intEn' = intEn \ {"rx"}
     ELSE UNCHANGED <<rxLock, intEn>>
  /\ isr' = "ack"
  /\ UNCHANGED <<rxVars, intSts, phyVars, btnVars, pLock, flagVars, status,
                 taskVars, print>>

(* Mutant: the button's bit is cleared at the end of the handler too.      *)
IsrExitClearsButton ==
  /\ isr = "ack"
  /\ Acknowledge(status)
  /\ isr' = "off" /\ status' = {}
  /\ button' = FALSE
  /\ UNCHANGED <<rxVars, intEn, phyVars, owed, rxLock, pLock, flagVars,
                 taskVars, print>>

IsrExit ==
  /\ isr = "ack"
  /\ Acknowledge(status)
  /\ isr' = "off" /\ status' = {}
  /\ UNCHANGED <<rxVars, intEn, phyVars, btnVars, rxLock, pLock, flagVars,
                 taskVars, print>>

EthISR == IsrEnter \/ IsrButton \/ IsrReadLink \/ IsrAckPhy \/ IsrRx \/ IsrExit

-----------------------------------------------------------------------------
(* ethTask.                                                                *)

At(l) == isr = "off" /\ pc = l

(* xSemaphoreTake(rxLock): blocks while the count is zero.                 *)
TakeRxLock ==
  /\ At("take") /\ rxLock = 1
  /\ rxLock' = 0
  /\ pc' = "check"
  /\ UNCHANGED <<rxVars, intSts, intEn, phyVars, btnVars, pLock, flagVars,
                 isrVars, frame, ien, print>>

(* The test of RX_FIFO_INF and, when it is used, the read of RX_STS.       *)
CheckFifo ==
  /\ At("check")
  /\ IF FifoUsed
     THEN /\ frame' = Head(fifo)
          /\ fifo' = Tail(fifo)
          /\ pc' = "frame"
     ELSE pc' = "clear" /\ UNCHANGED <<fifo, frame>>
  /\ UNCHANGED <<skew, intSts, intEn, phyVars, btnVars, rxLock, pLock,
                 flagVars, isrVars, ien, print>>

(* Mutant: the length is not rounded up to whole words.                    *)
WordsReadTruncated(f) == IF f.err THEN 4 ELSE f.size \div 4

(* The words the PIO loops read: four for a short bad frame, the length    *)
(* rounded up to whole words for a good one.                               *)
WordsRead(f) ==
  IF f.err THEN 4
  ELSE (IF f.size % 4 = 0 THEN f.size ELSE f.size + (4 - (f.size % 4))) \div 4

(* A frame read by PIO: a bad one under 16 bytes is thrown away, a good    *)
(* one is copied into a pbuf and handed to netif.input.                    *)
ReadFrame ==
  /\ At("frame")
  /\ frame.err => frame.size < 16
  /\ skew' = skew + WordsRead(frame) - Words(frame.size)
  /\ pc' = "check" /\ frame' = NoFrame
  /\ UNCHANGED <<fifo, intSts, intEn, phyVars, btnVars, rxLock, pLock,
                 flagVars, isrVars, ien, print>>

(* RX_DP_CTRL makes the chip skip the rest of a bad frame; the task yields *)
(* until the chip is done.                                                 *)
FastForward ==
  /\ At("frame")
  /\ frame.err /\ frame.size >= 16
  /\ pc' = "skip"
  /\ UNCHANGED <<rxVars, intSts, intEn, phyVars, btnVars, rxLock, pLock,
                 flagVars, isrVars, frame, ien, print>>

FastForwardDone ==
  /\ At("skip")
  /\ pc' = "check" /\ frame' = NoFrame
  /\ UNCHANGED <<rxVars, intSts, intEn, phyVars, btnVars, rxLock, pLock,
                 flagVars, isrVars, ien, print>>

ClearRx ==
  /\ At("clear")
  /\ Acknowledge({"rx"})
  /\ pc' = "load"
  /\ UNCHANGED <<rxVars, intEn, phyVars, btnVars, rxLock, pLock, flagVars,
                 isrVars, frame, ien, print>>

(* INT_EN |= 8 is a load and a store with the handler allowed in between.  *)
LoadIntEn ==
  /\ At("load")
  /\ ien' = intEn
  /\ pc' = "store"
  /\ UNCHANGED <<rxVars, intSts, intEn, phyVars, btnVars, rxLock, pLock,
                 flagVars, isrVars, frame, print>>

(* Mutant: the receive source is not enabled again.                        *)
StoreIntEnStaysMasked ==
  /\ At("store")
  /\ intEn' = ien
  /\ pc' = "take" /\ ien' = {}
  /\ UNCHANGED <<rxVars, intSts, phyVars, btnVars, rxLock, pLock, flagVars,
                 isrVars, frame, print>>

StoreIntEn ==
  /\ At("store")
  /\ intEn' = ien \cup {"rx"}
  /\ pc' = "take" /\ ien' = {}
  /\ UNCHANGED <<rxVars, intSts, phyVars, btnVars, rxLock, pLock, flagVars,
                 isrVars, frame, print>>

EthTask ==
  TakeRxLock \/ CheckFifo \/ ReadFrame \/ FastForward \/ FastForwardDone
  \/ ClearRx \/ LoadIntEn \/ StoreIntEn

-----------------------------------------------------------------------------
(* _print: take pLock, list the tasks, repeat.                             *)

PrintTake ==
  /\ isr = "off" /\ print = "take" /\ pLock = 1
  /\ pLock' = 0 /\ owed' = button
  /\ print' = "list"
  /\ UNCHANGED <<rxVars, intSts, intEn, phyVars, button, rxLock, flagVars,
                 isrVars, taskVars>>

PrintList ==
  /\ isr = "off" /\ print = "list"
  /\ print' = "take"
  /\ UNCHANGED <<rxVars, intSts, intEn, phyVars, btnVars, rxLock, pLock,
                 flagVars, isrVars, taskVars>>

PrintTask == PrintTake \/ PrintList

-----------------------------------------------------------------------------
Hardware == (\E f \in Frames : Arrive(f)) \/ (\E b \in BOOLEAN : LinkEvent(b))
            \/ Press

Next == Hardware \/ EthISR \/ EthTask \/ PrintTask

(* The handler always runs to its end.  The round-robin time slice gives   *)
(* both tasks, which have the same priority, the CPU again and again,      *)
(* however often interrupts take it away: strong fairness.                 *)
Fairness == WF_vars(EthISR) /\ SF_vars(EthTask) /\ SF_vars(PrintTask)

Spec == Init /\ [][Next]_vars /\ Fairness

-----------------------------------------------------------------------------
(* Properties.                                                             *)

TypeOK ==
  /\ fifo \in Seq(Frames) /\ Len(fifo) <= FifoDepth
  /\ skew \in Int
  /\ intSts \subseteq Sources /\ intEn \subseteq Sources
  /\ link \in BOOLEAN /\ lowSeen \in BOOLEAN /\ phySrc \in BOOLEAN
  /\ button \in BOOLEAN /\ owed \in BOOLEAN
  /\ rxLock \in 0..1 /\ pLock \in 0..1
  /\ linkUp \in BOOLEAN /\ up \in BOOLEAN
  /\ isr \in {"off", "button", "bmsr", "ack29", "rx", "ack"}
  /\ status \subseteq Sources
  /\ pc \in {"take", "check", "frame", "skip", "clear", "load", "store"}
  /\ frame \in Frames \cup {NoFrame}
  /\ ien \subseteq Sources
  /\ print \in {"take", "list"}

(* No lost wake-up: whenever ethTask is about to block on rxLock with a    *)
(* frame in the FIFO, either the semaphore has been given or the receive   *)
(* interrupt is both pending and enabled, so ethISR will give it.  The     *)
(* FIFO test, the acknowledge and the re-enable are three separate         *)
(* accesses that frames and the handler may slip between.                  *)
NoLostWakeup ==
  pc = "take" /\ FifoUsed => rxLock = 1 \/ "rx" \in intSts \cap intEn

(* Every button press not yet followed by a task listing is still recorded *)
(* somewhere: latched in PTF_ISR or as the count of pLock, whatever else   *)
(* the shared handler was busy with.                                       *)
PressRecorded == owed => button \/ pLock = 1

(* Between frames the data FIFO stands at a frame boundary: the words read *)
(* or skipped for a frame are exactly the words it occupies.               *)
FifoAligned == skew = 0

(* While no PHY event is pending or in service, the netif's link flags     *)
(* tell the state of the link.                                             *)
LinkFlagsTrue ==
  isr \notin {"bmsr", "ack29"} /\ ~phySrc => linkUp = link /\ up = link

(* A frame waiting in the FIFO is eventually popped by ethTask.            *)
FramesDrain == FifoUsed ~> pc = "frame"

(* A press is eventually followed by a listing of the tasks that starts    *)
(* after it, not merely by one already under way.                          *)
PressListed == owed /\ print = "take" ~> print = "list"
=============================================================================
