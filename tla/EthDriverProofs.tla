-------------------------- MODULE EthDriverProofs --------------------------
(* Theorems about the Ethernet driver, for every FIFO depth and every set  *)
(* of frame lengths.                                                       *)
EXTENDS EthDriver, TLAPS

(* The inductive invariant behind NoLostWakeup.  The FIFO bit of INT_STS   *)
(* is set while a frame waits, because it is a level source; and whenever  *)
(* ethTask is back at its semaphore, the receive source is enabled or the  *)
(* semaphore has been given since ethISR masked it.                        *)
LevelLatched == FifoUsed => "rx" \in intSts
MaskedOnlyIfGiven == pc = "take" => rxLock = 1 \/ "rx" \in intEn
WakeInv == LevelLatched /\ MaskedOnlyIfGiven

(* The inductive invariant behind FifoAligned: what the task read from     *)
(* RX_STS is a frame of the FIFO.                                          *)
AlignInv == skew = 0 /\ (pc = "frame" => frame \in Frames)

(* The inductive invariant behind LinkFlagsTrue when the link does not     *)
(* bounce: an unread drop is still pending and the link still down, and    *)
(* between the two PHY reads of ethISR the flags are already right.        *)
LinkInv ==
  /\ lowSeen => phySrc /\ ~link
  /\ isr = "ack29" => ~lowSeen /\ linkUp = link /\ up = link
  /\ LinkFlagsTrue

-----------------------------------------------------------------------------
(* A frame taken by PIO costs exactly the words it occupies, provided no   *)
(* frame is shorter than 13 bytes.                                         *)
LEMMA WordsExact ==
  ASSUME NEW f \in Frames, f.err => f.size < 16
  PROVE  WordsRead(f) = Words(f.size)
<1>1. f.size \in Nat /\ f.size > 12
  BY SizesAssumption DEF Frames
<1>2. CASE f.err
  BY <1>1, <1>2 DEF WordsRead, Words
<1>3. CASE ~f.err
  BY <1>1, <1>3 DEF WordsRead, Words
<1>4. QED BY <1>2, <1>3

(* Type correctness: every variable keeps to its type; in particular the   *)
(* two semaphores never count past one and the FIFO past its depth.        *)
THEOREM TypeCorrect == Spec => []TypeOK
<1>1. Init => TypeOK
  <2> SUFFICES ASSUME Init PROVE TypeOK
    OBVIOUS
  <2>1. fifo \in Seq(Frames) /\ Len(fifo) <= FifoDepth
    BY DepthAssumption DEF Init
  <2>2. frame \in Frames \cup {NoFrame}
    BY DEF Init
  <2>3. /\ link \in BOOLEAN /\ lowSeen \in BOOLEAN /\ phySrc \in BOOLEAN
        /\ button \in BOOLEAN /\ owed \in BOOLEAN
        /\ linkUp \in BOOLEAN /\ up \in BOOLEAN
    BY DEF Init
  <2>4. /\ skew \in Int /\ rxLock \in 0..1 /\ pLock \in 0..1
        /\ intSts \subseteq Sources /\ intEn \subseteq Sources
        /\ status \subseteq Sources /\ ien \subseteq Sources
    BY DEF Init
  <2>5. QED
    BY <2>1, <2>2, <2>3, <2>4 DEF Init, TypeOK
<1>2. TypeOK /\ [Next]_vars => TypeOK'
  <2> SUFFICES ASSUME TypeOK, [Next]_vars PROVE TypeOK'
    OBVIOUS
  <2> USE DEF TypeOK, rxVars, phyVars, flagVars, btnVars, isrVars, taskVars
  <2>0. "rx" \in Sources /\ "phy" \in Sources
    BY DEF Sources
  <2>1. ASSUME NEW f \in Frames, Arrive(f) PROVE TypeOK'
    BY <2>0, <2>1, DepthAssumption DEF Arrive
  <2>2. ASSUME NEW b \in BOOLEAN, LinkEvent(b) PROVE TypeOK'
    BY <2>0, <2>2 DEF LinkEvent
  <2>3. CASE Press
    BY <2>3 DEF Press
  <2>4. CASE IsrEnter
    BY <2>4 DEF IsrEnter
  <2>5. CASE IsrButton
    <3>1. pLock' \in 0..1
      BY <2>5 DEF IsrButton
    <3>2. isr' \in {"bmsr", "rx"}
      BY <2>5 DEF IsrButton
    <3>3. /\ button' \in BOOLEAN
          /\ UNCHANGED <<rxVars, intSts, intEn, phyVars, owed, rxLock,
                         flagVars, status, taskVars, print>>
      BY <2>5 DEF IsrButton
    <3>4. QED BY <3>1, <3>2, <3>3
  <2>6. CASE IsrReadLink
    <3>1. linkUp' \in BOOLEAN /\ up' \in BOOLEAN /\ lowSeen' \in BOOLEAN
      BY <2>6, Zenon DEF IsrReadLink
    <3>2. /\ isr' = "ack29"
          /\ UNCHANGED <<rxVars, intSts, intEn, link, phySrc, btnVars, rxLock,
                         pLock, status, taskVars, print>>
      BY <2>6 DEF IsrReadLink
    <3>3. QED BY <3>1, <3>2
  <2>7. CASE IsrAckPhy
    BY <2>7 DEF IsrAckPhy
  <2>8. CASE IsrRx
    <3>1. CASE FifoUsed
      BY <2>8, <3>1 DEF IsrRx
    <3>2. CASE ~FifoUsed
      BY <2>8, <3>2 DEF IsrRx
    <3>3. QED BY <3>1, <3>2
  <2>9. CASE IsrExit
    BY <2>0, <2>9 DEF IsrExit, Acknowledge
  <2>10. CASE CheckFifo
    <3>1. CASE FifoUsed
      BY <2>10, <3>1, DepthAssumption DEF CheckFifo, FifoUsed
    <3>2. CASE ~FifoUsed
      BY <2>10, <3>2 DEF CheckFifo
    <3>3. QED BY <3>1, <3>2
  <2>11. CASE ReadFrame
    <3>1. frame.size \in Nat
      BY SizesAssumption DEF Frames, NoFrame
    <3>2. WordsRead(frame) \in Int /\ Words(frame.size) \in Int
      BY <3>1 DEF WordsRead, Words
    <3>3. QED BY <2>11, <3>2 DEF ReadFrame
  <2>12. CASE TakeRxLock
    BY <2>12 DEF TakeRxLock, At
  <2>13. CASE FastForward
    BY <2>13 DEF FastForward
  <2>14. CASE FastForwardDone
    BY <2>14 DEF FastForwardDone
  <2>15. CASE ClearRx
    BY <2>0, <2>15 DEF ClearRx, Acknowledge
  <2>16. CASE LoadIntEn
    BY <2>16 DEF LoadIntEn
  <2>17. CASE StoreIntEn
    BY <2>0, <2>17 DEF StoreIntEn
  <2>18. CASE PrintTake
    BY <2>18 DEF PrintTake
  <2>19. CASE PrintList
    BY <2>19 DEF PrintList
  <2>20. CASE UNCHANGED vars
    BY <2>20 DEF vars
  <2>21. QED
    BY <2>1, <2>2, <2>3, <2>4, <2>5, <2>6, <2>7, <2>8, <2>9, <2>10, <2>11,
       <2>12, <2>13, <2>14, <2>15, <2>16, <2>17, <2>18, <2>19, <2>20
       DEF Next, Hardware, EthISR, EthTask, PrintTask
<1>3. QED BY <1>1, <1>2, PTL DEF Spec
-----------------------------------------------------------------------------
(* No receive wake-up is lost: ethTask never blocks on rxLock over a       *)
(* non-empty FIFO unless ethISR is certain to run and give it, for every   *)
(* interleaving of ethTask, ethISR and the chip.                           *)
THEOREM WakeupNeverLost == Spec => []NoLostWakeup
<1>1. Init => WakeInv
  BY DEF Init, WakeInv, LevelLatched, MaskedOnlyIfGiven, FifoUsed
<1>2. WakeInv /\ [Next]_vars => WakeInv'
  <2> SUFFICES ASSUME WakeInv, [Next]_vars PROVE WakeInv'
    OBVIOUS
  <2> USE DEF WakeInv, LevelLatched, MaskedOnlyIfGiven, FifoUsed, rxVars, taskVars
  <2>1. CASE Hardware
    BY <2>1 DEF Hardware, Arrive, LinkEvent, Press
  <2>2. CASE IsrEnter \/ IsrButton \/ IsrReadLink \/ IsrAckPhy
    BY <2>2 DEF IsrEnter, IsrButton, IsrReadLink, IsrAckPhy
  <2>3. CASE IsrRx
    BY <2>3 DEF IsrRx
  <2>4. CASE IsrExit
    BY <2>4 DEF IsrExit, Acknowledge
  <2>5. CASE TakeRxLock \/ CheckFifo
    BY <2>5 DEF TakeRxLock, CheckFifo
  <2>6. CASE ReadFrame \/ FastForward \/ FastForwardDone
    BY <2>6 DEF ReadFrame, FastForward, FastForwardDone
  <2>7. CASE ClearRx
    BY <2>7 DEF ClearRx, Acknowledge
  <2>8. CASE LoadIntEn \/ StoreIntEn
    BY <2>8 DEF LoadIntEn, StoreIntEn
  <2>9. CASE PrintTask
    BY <2>9 DEF PrintTask, PrintTake, PrintList
  <2>10. CASE UNCHANGED vars
    BY <2>10 DEF vars
  <2>11. QED
    BY <2>1, <2>2, <2>3, <2>4, <2>5, <2>6, <2>7, <2>8, <2>9, <2>10
       DEF Next, EthISR, EthTask
<1>3. WakeInv => NoLostWakeup
  BY DEF WakeInv, LevelLatched, MaskedOnlyIfGiven, NoLostWakeup
<1>4. QED BY <1>1, <1>2, <1>3, PTL DEF Spec

(* The data FIFO is at a frame boundary whenever ethTask turns to the next *)
(* frame, for every set of lengths above twelve bytes.                     *)
THEOREM DataFifoAligned == Spec => []FifoAligned
<1>1. Init => AlignInv
  BY DEF Init, AlignInv
<1>2. TypeOK /\ AlignInv /\ [Next]_vars => AlignInv'
  <2> SUFFICES ASSUME TypeOK, AlignInv, [Next]_vars PROVE AlignInv'
    OBVIOUS
  <2> USE DEF AlignInv, rxVars, taskVars
  <2>1. CASE Hardware
    BY <2>1 DEF Hardware, Arrive, LinkEvent, Press
  <2>2. CASE EthISR
    BY <2>2 DEF EthISR, IsrEnter, IsrButton, IsrReadLink, IsrAckPhy, IsrRx,
                IsrExit
  <2>3. CASE CheckFifo
    <3>1. FifoUsed => Head(fifo) \in Frames
      BY DEF TypeOK, FifoUsed
    <3>2. QED BY <2>3, <3>1 DEF CheckFifo
  <2>4. CASE ReadFrame
    <3>1. frame \in Frames /\ (frame.err => frame.size < 16)
      BY <2>4 DEF ReadFrame, At
    <3>2. WordsRead(frame) = Words(frame.size)
      BY <3>1, WordsExact
    <3>3. Words(frame.size) \in Int
      BY <3>1, SizesAssumption DEF Words, Frames
    <3>4. QED BY <2>4, <3>2, <3>3 DEF ReadFrame
  <2>5. CASE TakeRxLock \/ FastForward \/ FastForwardDone
    BY <2>5 DEF TakeRxLock, FastForward, FastForwardDone
  <2>6. CASE ClearRx \/ LoadIntEn \/ StoreIntEn
    BY <2>6 DEF ClearRx, LoadIntEn, StoreIntEn
  <2>7. CASE PrintTask
    BY <2>7 DEF PrintTask, PrintTake, PrintList
  <2>8. CASE UNCHANGED vars
    BY <2>8 DEF vars
  <2>9. QED
    BY <2>1, <2>2, <2>3, <2>4, <2>5, <2>6, <2>7, <2>8 DEF Next, EthTask
<1>3. AlignInv => FifoAligned
  BY DEF AlignInv, FifoAligned
<1>4. QED BY <1>1, <1>2, <1>3, TypeCorrect, PTL DEF Spec

(* No button press is lost between the latch, the handler and the          *)
(* semaphore.  Only three steps touch what holds a press: the button       *)
(* latches it, ethISR moves it to pLock, and _print takes it from there.   *)
THEOREM PressNeverLost == Spec => []PressRecorded
<1>1. Init => PressRecorded
  BY DEF Init, PressRecorded
<1>2. ASSUME PressRecorded, [Next]_vars
      PROVE  PressRecorded'
  <2> DEFINE Untouched == UNCHANGED <<button, owed, pLock>>
  <2>1. Press => PressRecorded'
    BY DEF Press, PressRecorded
  <2>2. IsrButton => PressRecorded'
    BY <1>2 DEF IsrButton, PressRecorded
  <2>3. PrintTake => PressRecorded'
    BY DEF PrintTake, PressRecorded
  <2>4. Untouched => PressRecorded'
    BY <1>2 DEF PressRecorded
  <2>5. (\E f \in Frames : Arrive(f)) \/ (\E b \in BOOLEAN : LinkEvent(b)) => Untouched
    BY DEF Arrive, LinkEvent, btnVars
  <2>6. IsrEnter \/ IsrReadLink \/ IsrAckPhy \/ IsrRx \/ IsrExit => Untouched
    BY DEF IsrEnter, IsrReadLink, IsrAckPhy, IsrRx, IsrExit, btnVars
  <2>7. EthTask => Untouched
    BY DEF EthTask, TakeRxLock, CheckFifo, ReadFrame, FastForward, FastForwardDone,
           ClearRx, LoadIntEn, StoreIntEn, btnVars
  <2>8. PrintList \/ vars' = vars => Untouched
    BY DEF PrintList, vars, btnVars
  <2> QED
    BY <1>2, <2>1, <2>2, <2>3, <2>4, <2>5, <2>6, <2>7, <2>8
       DEF Next, Hardware, EthISR, PrintTask
<1> QED BY <1>1, <1>2, PTL DEF Spec

(* As long as every link change is serviced before the next, the netif's   *)
(* flags are the link's state whenever no PHY event is outstanding.        *)
THEOREM LinkFlagsFollow ==
  ASSUME ~LinkBounces
  PROVE  Spec => []LinkFlagsTrue
<1>1. Init => LinkInv
  BY DEF Init, LinkInv, LinkFlagsTrue
<1>2. TypeOK /\ LinkInv /\ [Next]_vars => LinkInv'
  <2> SUFFICES ASSUME TypeOK, LinkInv, [Next]_vars PROVE LinkInv'
    OBVIOUS
  <2> USE DEF LinkInv, LinkFlagsTrue, phyVars, flagVars, isrVars
  <2>1. CASE Hardware
    <3>1. ASSUME NEW b \in BOOLEAN, LinkEvent(b) PROVE LinkInv'
      BY <3>1 DEF LinkEvent
    <3>2. ASSUME NEW f \in Frames, Arrive(f) PROVE LinkInv'
      BY <3>2 DEF Arrive
    <3>3. CASE Press
      BY <3>3 DEF Press
    <3>4. QED BY <2>1, <3>1, <3>2, <3>3 DEF Hardware
  <2>2. CASE IsrEnter \/ IsrButton
    BY <2>2 DEF IsrEnter, IsrButton
  <2>3. CASE IsrReadLink
    BY <2>3 DEF IsrReadLink, TypeOK
  <2>4. CASE IsrAckPhy \/ IsrRx \/ IsrExit
    BY <2>4 DEF IsrAckPhy, IsrRx, IsrExit
  <2>5. CASE EthTask
    BY <2>5 DEF EthTask, TakeRxLock, CheckFifo, ReadFrame, FastForward,
                FastForwardDone, ClearRx, LoadIntEn, StoreIntEn
  <2>6. CASE PrintTask
    BY <2>6 DEF PrintTask, PrintTake, PrintList
  <2>7. CASE UNCHANGED vars
    BY <2>7 DEF vars
  <2>8. QED
    BY <2>1, <2>2, <2>3, <2>4, <2>5, <2>6, <2>7 DEF Next, EthISR
<1>3. LinkInv => LinkFlagsTrue
  BY DEF LinkInv
<1>4. QED BY <1>1, <1>2, <1>3, TypeCorrect, PTL DEF Spec
=============================================================================
