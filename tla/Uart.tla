-------------------------------- MODULE Uart --------------------------------
(***************************************************************************)
(* The console (uart.c and its callers in libc_glue.c and port.c): a task  *)
(* that prints holds txLock for each character and sleeps while the        *)
(* transmit FIFO is full; a handler prints without the lock and polls.     *)
(* Testing the FIFO and writing to it are two steps of a task.  A newline  *)
(* is printed as two characters, each with a lock of its own.              *)
(***************************************************************************)
EXTENDS Naturals

CONSTANTS Task,       \* the tasks that print
          Nobody,     \* the holder of a free lock
          Depth       \* cells of the transmit FIFO

VARIABLES
  fifo,       \* how many characters the transmit FIFO holds
  txLock,     \* the holder of txLock
  tpc,        \* where a task is in uartTx
  dropped,    \* the character just written found the FIFO full
  intruded    \* a handler printed since the last test by a task

vars == <<fifo, txLock, tpc, dropped, intruded>>

Init ==
  /\ fifo = 0 /\ dropped = FALSE /\ intruded = FALSE
  /\ txLock = Nobody
  /\ tpc = [t \in Task |-> "idle"]

-----------------------------------------------------------------------------
(* Mutant: a write to a full FIFO counts.                                  *)
WriteOver ==
  /\ fifo' = fifo + 1
  /\ dropped' = (fifo = Depth)

(* UTXD: a write to a full FIFO is ignored.                                *)
Write ==
  /\ fifo' = IF fifo < Depth THEN fifo + 1 ELSE fifo
  /\ dropped' = (fifo = Depth)

(* Mutant: the character is printed without the lock.                      *)
TakeNothing(t) ==
  /\ tpc[t] = "idle"
  /\ tpc' = [tpc EXCEPT ![t] = "test"]
  /\ UNCHANGED <<fifo, txLock, dropped, intruded>>

(* uartTx in a task: xSemaphoreTake(txLock), again if it fails.            *)
Take(t) ==
  /\ tpc[t] = "idle"
  /\ txLock = Nobody
  /\ txLock' = t
  /\ tpc' = [tpc EXCEPT ![t] = "test"]
  /\ UNCHANGED <<fifo, dropped, intruded>>

(* The test of UTS; while the FIFO is full the task sleeps and tests again.*)
Test(t) ==
  /\ tpc[t] = "test"
  /\ fifo < Depth
  /\ tpc' = [tpc EXCEPT ![t] = "write"]
  /\ intruded' = FALSE
  /\ UNCHANGED <<fifo, txLock, dropped>>

Put(t) ==
  /\ tpc[t] = "write"
  /\ Write
  /\ tpc' = [tpc EXCEPT ![t] = "give"]
  /\ UNCHANGED <<txLock, intruded>>

Give(t) ==
  /\ tpc[t] = "give"
  /\ txLock' = Nobody
  /\ tpc' = [tpc EXCEPT ![t] = "idle"]
  /\ dropped' = FALSE
  /\ UNCHANGED <<fifo, intruded>>

(* uartTx in a handler: it holds the processor until there is room, so its *)
(* test and write are one step for the tasks; the line goes on meanwhile.  *)
IsrPut ==
  /\ fifo < Depth
  /\ Write
  /\ intruded' = TRUE
  /\ UNCHANGED <<txLock, tpc>>

(* The UART sends the oldest character.                                    *)
Transmit ==
  /\ fifo > 0
  /\ fifo' = fifo - 1
  /\ UNCHANGED <<txLock, tpc, dropped, intruded>>

Next ==
  \/ \E t \in Task : Take(t) \/ Test(t) \/ Put(t) \/ Give(t)
  \/ IsrPut \/ Transmit

Spec == Init /\ [][Next]_vars

-----------------------------------------------------------------------------
TypeOK ==
  /\ fifo \in 0..Depth
  /\ txLock \in Task \union {Nobody}
  /\ tpc \in [Task -> {"idle", "test", "write", "give"}]
  /\ dropped \in BOOLEAN /\ intruded \in BOOLEAN

(* Two tasks cannot spoil each other's test for room, however they are     *)
(* switched: a character is dropped only when a handler printed between a  *)
(* task's test and its write (uart.c:124), and never a handler's own.      *)
LostOnlyToHandler ==
  dropped => intruded /\ \E t \in Task : tpc[t] = "give" /\ txLock = t
=============================================================================
