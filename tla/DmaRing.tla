------------------------------ MODULE DmaRing ------------------------------
(***************************************************************************)
(* The receive side of demos/USART/UART_DMA (the BLE_Serial and            *)
(* Wifi_ESP8266 demos have the same code under other names): a DMA channel *)
(* in circular mode writes RxBuffer, the program reads it behind the DMA's *)
(* back.  Nothing tells the DMA how far the program is, and no interrupt   *)
(* tells the program about the DMA: the two meet in the channel's counter. *)
(*                                                                         *)
(* dmapos is RXBUF_SIZE - DMA_GetCurrDataCounter.  The specification at    *)
(* the end lets a program call the functions in any order; SerialPrograms  *)
(* has the programs of the demos.                                          *)
(***************************************************************************)
EXTENDS Integers, Sequences, SequencesExt

CONSTANTS
  RXBUF_SIZE,  \* 1024 in the demos
  Bytes,       \* what can arrive; 0 is what the buffer holds at start
  MaxBytes     \* bound: bytes that arrive

ASSUME RingAssumption ==
  /\ RXBUF_SIZE \in Nat /\ RXBUF_SIZE >= 2
  /\ Bytes \subseteq Nat
  /\ MaxBytes \in Nat

VARIABLES
  RxBuffer,
  dmapos,           \* where the DMA writes next
  rxBufferReadPos,
  reading,          \* uartRead is in its loop
  rxBufferEnd,      \* its local: dmapos when it was called
  left,             \* its num - i
  received,         \* history: the bytes that arrived
  consumed,         \* history: the bytes that were read
  overrun           \* history: RXBUF_SIZE bytes have been unread at once

ringvars == <<RxBuffer, dmapos, rxBufferReadPos, reading, rxBufferEnd, left,
              received, consumed, overrun>>

Slots == 0..(RXBUF_SIZE - 1)

RingInit ==
  /\ RxBuffer = [p \in Slots |-> 0]
  /\ dmapos = 0
  /\ rxBufferReadPos = 0
  /\ reading = FALSE /\ rxBufferEnd = 0 /\ left = 0
  /\ received = <<>> /\ consumed = <<>> /\ overrun = FALSE

\* Mutants: the wrap comes one slot early, and one slot late.
AdvanceEarly(pos) == IF pos + 2 >= RXBUF_SIZE THEN 0 ELSE pos + 1
AdvanceLate(pos)  == IF pos + 1 > RXBUF_SIZE THEN 0 ELSE pos + 1

Advance(pos) == IF pos + 1 >= RXBUF_SIZE THEN 0 ELSE pos + 1

Unread == Len(received) - Len(consumed)

\* The DMA, at any moment.
DmaNext(pos) == IF pos = RXBUF_SIZE - 1 THEN 0 ELSE pos + 1

Receive(b) ==
  /\ Len(received) < MaxBytes
  /\ RxBuffer' = [RxBuffer EXCEPT ![dmapos] = b]
  /\ dmapos' = DmaNext(dmapos)
  /\ received' = Append(received, b)
  /\ overrun' = (overrun \/ Unread >= RXBUF_SIZE - 1)
  /\ UNCHANGED <<rxBufferReadPos, reading, rxBufferEnd, left, consumed>>

\* Mutant: the case of a DMA that has wrapped is forgotten.
AvailableUnwrapped ==
  IF rxBufferReadPos <= dmapos
  THEN dmapos - rxBufferReadPos
  ELSE RXBUF_SIZE - rxBufferReadPos

uartAvailable ==
  IF rxBufferReadPos <= dmapos
  THEN dmapos - rxBufferReadPos
  ELSE dmapos + RXBUF_SIZE - rxBufferReadPos

\* One byte out of the buffer.
Take ==
  /\ consumed' = Append(consumed, RxBuffer[rxBufferReadPos])
  /\ rxBufferReadPos' = Advance(rxBufferReadPos)
  /\ UNCHANGED <<RxBuffer, dmapos, received, overrun>>

\* uartReadByte returns 0, the same as a byte 0, when there is none.
ByteRead == IF rxBufferReadPos = dmapos THEN 0 ELSE RxBuffer[rxBufferReadPos]

uartReadByte ==
  /\ ~reading
  /\ IF rxBufferReadPos = dmapos
     THEN UNCHANGED <<RxBuffer, dmapos, rxBufferReadPos, received, consumed, overrun>>
     ELSE Take
  /\ UNCHANGED <<reading, rxBufferEnd, left>>

\* uartRead: the end is read once, then the loop copies byte after byte while
\* the DMA goes on.
uartRead(num) ==
  /\ ~reading
  /\ reading' = TRUE
  /\ rxBufferEnd' = dmapos
  /\ left' = num
  /\ UNCHANGED <<RxBuffer, dmapos, rxBufferReadPos, received, consumed, overrun>>

\* Mutant: the loop stops one short of the count.
ReadLoopShort == rxBufferReadPos # rxBufferEnd /\ left > 1

ReadLoop == rxBufferReadPos # rxBufferEnd /\ left > 0

uartReadStep ==
  /\ reading /\ ReadLoop
  /\ Take
  /\ left' = left - 1
  /\ UNCHANGED <<reading, rxBufferEnd>>

uartReadReturn ==
  /\ reading /\ ~ReadLoop
  /\ reading' = FALSE
  /\ UNCHANGED <<RxBuffer, dmapos, rxBufferReadPos, rxBufferEnd, left, received,
                 consumed, overrun>>

RingNext ==
  \/ \E b \in Bytes : Receive(b)
  \/ uartReadByte
  \/ \E num \in 1..RXBUF_SIZE : uartRead(num)
  \/ uartReadStep
  \/ uartReadReturn

RingSpec == RingInit /\ [][RingNext]_ringvars

----------------------------------------------------------------------------
\* Types of the variables.
RingTypeOK ==
  /\ RxBuffer \in [Slots -> Bytes \union {0}]
  /\ dmapos \in Slots
  /\ rxBufferReadPos \in Slots
  /\ reading \in BOOLEAN
  /\ rxBufferEnd \in Slots
  /\ left \in 0..RXBUF_SIZE
  /\ received \in Seq(Bytes)
  /\ consumed \in Seq(Bytes \union {0})
  /\ overrun \in BOOLEAN

\* The buffer has no record of having overrun: what uartAvailable returns is
\* the number of unread bytes only modulo the size, at all times and between
\* any two bytes of a read.  So a buffer that is exactly full counts as empty,
\* and the count is always less than the size, which is what the 1024-byte
\* buffers of the callers rely on.
AvailableModulo == uartAvailable = Unread % RXBUF_SIZE

\* As long as the sender has never got RXBUF_SIZE bytes ahead, every byte is
\* read once and in order, also while the DMA writes during a read.
Fifo == INSTANCE ByteFifo WITH
  put <- received, got <- consumed, Capacity <- RXBUF_SIZE - 1

FifoUntilOverrun ==
  Fifo!FifoInit /\ [][overrun' \/ Fifo!FifoNext]_<<received, consumed>>

============================================================================
