--------------------------- MODULE DmaRing_proofs ---------------------------
(***************************************************************************)
(* The receive ring for every size, every number of bytes and every order  *)
(* of calls: until the sender gets RXBUF_SIZE bytes ahead it is a FIFO,    *)
(* although neither side ever learns where the other one is.               *)
(***************************************************************************)
EXTENDS DmaRing, SequenceTheorems, TLAPS

\* The slot i places after the first, for i < 2 * RXBUF_SIZE.
Wrap(i) == IF i >= RXBUF_SIZE THEN i - RXBUF_SIZE ELSE i

\* The DMA is Unread slots ahead of the reader, never a whole round.
DmaAhead ==
  /\ Unread \in 0..(RXBUF_SIZE - 1)
  /\ dmapos = Wrap(rxBufferReadPos + Unread)

\* The slots between them hold the unread bytes.
SlotsHoldUnread ==
  \A k \in 0..(Unread - 1) :
    RxBuffer[Wrap(rxBufferReadPos + k)] = received[Len(consumed) + 1 + k]

\* The end that a read was given is between the reader and the DMA.
EndAhead ==
  reading => \E w \in 0..Unread : rxBufferEnd = Wrap(rxBufferReadPos + w)

Intact == RingTypeOK /\ DmaAhead /\ SlotsHoldUnread /\ EndAhead

\* All of this is lost for ever with the first overrun.
IInv == RingTypeOK /\ (~overrun => Intact)

----------------------------------------------------------------------------
\* The reader's and the DMA's wrap are the same function, and stay in the ring.
LEMMA AdvanceSlot ==
  ASSUME NEW pos \in Slots
  PROVE  /\ Advance(pos) \in Slots
         /\ DmaNext(pos) = Advance(pos)
         /\ Advance(pos) = Wrap(pos + 1)
BY RingAssumption DEF Advance, DmaNext, Wrap, Slots

\* Appending adds one element and leaves the others.
LEMMA Appended ==
  ASSUME NEW S, NEW s \in Seq(S), NEW e \in S
  PROVE  /\ Append(s, e) \in Seq(S)
         /\ Len(Append(s, e)) = Len(s) + 1
         /\ \A i \in 1..Len(s) : Append(s, e)[i] = s[i]
         /\ Append(s, e)[Len(s) + 1] = e
BY AppendProperties

----------------------------------------------------------------------------
LEMMA InitInv == RingInit => IInv
<1> SUFFICES ASSUME RingInit PROVE IInv
  OBVIOUS
<1> USE DEF RingInit
<1>1. RingTypeOK
  <2>1. 0 \in Slots /\ 0 \in 0..RXBUF_SIZE
    BY RingAssumption DEF Slots
  <2>2. received \in Seq(Bytes) /\ consumed \in Seq(Bytes \union {0})
    OBVIOUS
  <2>3. RxBuffer \in [Slots -> Bytes \union {0}]
    OBVIOUS
  <2> QED
    BY <2>1, <2>2, <2>3, Zenon DEF RingTypeOK
<1>2. Unread = 0
  BY DEF Unread
<1> QED
  BY <1>1, <1>2, RingAssumption
     DEF IInv, Intact, DmaAhead, SlotsHoldUnread, EndAhead, Wrap

\* Each action keeps the types, paced or not.
LEMMA TypeStep == RingTypeOK /\ [RingNext]_ringvars => RingTypeOK'
<1> SUFFICES ASSUME RingTypeOK, [RingNext]_ringvars PROVE RingTypeOK'
  OBVIOUS
<1> USE RingAssumption DEF RingTypeOK
<1>1. ASSUME NEW b \in Bytes, Receive(b) PROVE RingTypeOK'
  <2>1. dmapos' \in Slots /\ RxBuffer' \in [Slots -> Bytes \union {0}]
    BY <1>1, AdvanceSlot DEF Receive
  <2>2. received' \in Seq(Bytes)
    BY <1>1, Appended DEF Receive
  <2> QED
    BY <1>1, <2>1, <2>2 DEF Receive
<1>2. ASSUME Take PROVE /\ consumed' \in Seq(Bytes \union {0})
                        /\ rxBufferReadPos' \in Slots
                        /\ UNCHANGED <<RxBuffer, dmapos, received, overrun>>
  <2>1. RxBuffer[rxBufferReadPos] \in Bytes \union {0}
    OBVIOUS
  <2> QED
    BY <1>2, <2>1, Appended, AdvanceSlot DEF Take
<1>3. CASE uartReadByte
  BY <1>2, <1>3 DEF uartReadByte
<1>4. ASSUME NEW num \in 1..RXBUF_SIZE, uartRead(num) PROVE RingTypeOK'
  BY <1>4 DEF uartRead
<1>5. CASE uartReadStep
  <2>1. left' \in 0..RXBUF_SIZE
    BY <1>5 DEF uartReadStep, ReadLoop
  <2> QED
    BY <1>2, <1>5, <2>1 DEF uartReadStep
<1>6. CASE uartReadReturn
  BY <1>6 DEF uartReadReturn
<1>7. CASE UNCHANGED ringvars
  BY <1>7 DEF ringvars
<1> QED
  BY <1>1, <1>3, <1>4, <1>5, <1>6, <1>7 DEF RingNext

\* The type invariant holds for every ring and every sender.
THEOREM RingTypes == RingSpec => []RingTypeOK
<1>1. RingInit => RingTypeOK
  BY InitInv DEF IInv
<1> QED
  BY <1>1, TypeStep, PTL DEF RingSpec

----------------------------------------------------------------------------
\* What is left when one byte is taken out of a ring that is not empty: it was
\* the oldest unread one.
LEMMA TakeStep ==
  ASSUME Intact, Take, Unread > 0
  PROVE  /\ RxBuffer[rxBufferReadPos] = received[Len(consumed) + 1]
         /\ Unread' = Unread - 1
         /\ DmaAhead'
         /\ SlotsHoldUnread'
<1> USE RingAssumption
<1>1. /\ rxBufferReadPos \in Slots /\ rxBufferReadPos' \in Slots
      /\ rxBufferReadPos' = Wrap(rxBufferReadPos + 1)
      /\ dmapos' = dmapos /\ RxBuffer' = RxBuffer /\ received' = received
      /\ Unread \in 0..(RXBUF_SIZE - 1)
  BY AdvanceSlot DEF Intact, RingTypeOK, Take, DmaAhead
<1>2. /\ Len(consumed) \in Nat /\ Len(received) \in Nat
      /\ Len(consumed') = Len(consumed) + 1
  <2>1. RxBuffer[rxBufferReadPos] \in Bytes \union {0}
    BY DEF Intact, RingTypeOK
  <2> QED
    BY <2>1, Appended, LenProperties DEF Intact, RingTypeOK, Take
<1>3. Unread' = Unread - 1
  BY <1>1, <1>2 DEF Unread
<1>4. RxBuffer[rxBufferReadPos] = received[Len(consumed) + 1]
  <2>1. 0 \in 0..(Unread - 1)
    BY <1>1
  <2>2. RxBuffer[Wrap(rxBufferReadPos + 0)] = received[Len(consumed) + 1 + 0]
    BY <2>1 DEF Intact, SlotsHoldUnread
  <2>3. Wrap(rxBufferReadPos + 0) = rxBufferReadPos
    BY <1>1 DEF Wrap, Slots
  <2> QED
    BY <1>2, <2>2, <2>3
<1>5. \A k \in 0..(Unread - 2) :
        Wrap(rxBufferReadPos' + k) = Wrap(rxBufferReadPos + (k + 1))
  BY <1>1 DEF Wrap, Slots
<1>6. DmaAhead'
  BY <1>1, <1>3 DEF Intact, DmaAhead, Wrap, Slots
<1>7. SlotsHoldUnread'
  <2> SUFFICES ASSUME NEW k \in 0..(Unread' - 1)
               PROVE  RxBuffer'[Wrap(rxBufferReadPos' + k)]
                        = received'[Len(consumed') + 1 + k]
    BY DEF SlotsHoldUnread, Wrap
  <2>1. k \in 0..(Unread - 2) /\ k + 1 \in 0..(Unread - 1)
    BY <1>1, <1>3
  <2>2. RxBuffer[Wrap(rxBufferReadPos + (k + 1))] = received[Len(consumed) + 1 + (k + 1)]
    BY <2>1 DEF Intact, SlotsHoldUnread
  <2>3. Len(consumed) + 1 + (k + 1) = Len(consumed') + 1 + k
    BY <1>2, <2>1
  <2> QED
    BY <1>1, <1>5, <2>1, <2>2, <2>3
<1> QED
  BY <1>3, <1>4, <1>6, <1>7

\* A step that touches neither position keeps the ring.
LEMMA StillStep ==
  ASSUME Intact, UNCHANGED <<RxBuffer, dmapos, rxBufferReadPos, received, consumed>>
  PROVE  DmaAhead' /\ SlotsHoldUnread' /\ Unread' = Unread
BY DEF Intact, DmaAhead, SlotsHoldUnread, Unread, Wrap

LEMMA ReceiveStep ==
  ASSUME Intact, NEW b \in Bytes, Receive(b), Unread < RXBUF_SIZE - 1
  PROVE  DmaAhead' /\ SlotsHoldUnread' /\ EndAhead'
<1> USE RingAssumption
<1>1. /\ rxBufferReadPos \in Slots /\ dmapos \in Slots
      /\ dmapos' = Wrap(dmapos + 1)
      /\ rxBufferReadPos' = rxBufferReadPos /\ consumed' = consumed
      /\ reading' = reading /\ rxBufferEnd' = rxBufferEnd
      /\ RxBuffer \in [Slots -> Bytes \union {0}]
      /\ RxBuffer' = [RxBuffer EXCEPT ![dmapos] = b]
      /\ Unread \in 0..(RXBUF_SIZE - 2)
      /\ dmapos = Wrap(rxBufferReadPos + Unread)
  BY AdvanceSlot DEF Intact, RingTypeOK, Receive, DmaAhead, Unread
<1>2. /\ Len(consumed) \in Nat /\ Len(received) \in Nat
      /\ Len(received') = Len(received) + 1
      /\ \A i \in 1..Len(received) : received'[i] = received[i]
      /\ received'[Len(received) + 1] = b
  BY Appended, LenProperties DEF Intact, RingTypeOK, Receive
<1>3. Unread' = Unread + 1
  BY <1>1, <1>2 DEF Unread
<1>4. DmaAhead'
  BY <1>1, <1>3 DEF DmaAhead, Wrap, Slots
<1>5. SlotsHoldUnread'
  <2> SUFFICES ASSUME NEW k \in 0..(Unread' - 1)
               PROVE  RxBuffer'[Wrap(rxBufferReadPos' + k)]
                        = received'[Len(consumed') + 1 + k]
    BY DEF SlotsHoldUnread, Wrap
  <2>1. Wrap(rxBufferReadPos + k) \in Slots
    BY <1>1, <1>3 DEF Wrap, Slots
  <2>2. CASE k = Unread
    <3>1. RxBuffer'[dmapos] = b
      BY <1>1
    <3>2. Len(consumed) + 1 + k = Len(received) + 1
      BY <1>2, <2>2 DEF Unread
    <3> QED
      BY <1>1, <1>2, <2>2, <3>1, <3>2
  <2>3. CASE k # Unread
    <3>1. k \in 0..(Unread - 1)
      BY <1>1, <1>3, <2>3
    <3>2. Wrap(rxBufferReadPos + k) # dmapos
      BY <1>1, <3>1 DEF Wrap, Slots
    <3>3. RxBuffer'[Wrap(rxBufferReadPos + k)] = RxBuffer[Wrap(rxBufferReadPos + k)]
      BY <1>1, <2>1, <3>2
    <3>4. Len(consumed) + 1 + k \in 1..Len(received)
      BY <1>2, <3>1 DEF Unread
    <3> QED
      BY <1>1, <1>2, <3>1, <3>3, <3>4 DEF Intact, SlotsHoldUnread
  <2> QED
    BY <2>2, <2>3
<1>6. EndAhead'
  <2> SUFFICES ASSUME reading'
               PROVE  \E w \in 0..Unread' : rxBufferEnd' = Wrap(rxBufferReadPos' + w)
    BY DEF EndAhead, Wrap
  <2>1. PICK w \in 0..Unread : rxBufferEnd = Wrap(rxBufferReadPos + w)
    BY <1>1 DEF Intact, EndAhead
  <2>2. w \in 0..Unread'
    BY <1>1, <1>3
  <2> QED
    BY <1>1, <2>1, <2>2
<1> QED
  BY <1>4, <1>5, <1>6

\* A byte is available exactly when the positions differ, and a read that has
\* not reached its end has one to take.
LEMMA SomethingUnread ==
  ASSUME Intact
  PROVE  /\ rxBufferReadPos # dmapos => Unread > 0
         /\ reading /\ rxBufferReadPos # rxBufferEnd => Unread > 0
BY RingAssumption DEF Intact, DmaAhead, EndAhead, RingTypeOK, Wrap, Slots

\* Only the DMA overruns, and only a ring with one free slot left.
LEMMA NotOverrun ==
  ASSUME RingTypeOK, [RingNext]_ringvars, ~overrun'
  PROVE  /\ ~overrun
         /\ \A b \in Bytes : Receive(b) => Unread < RXBUF_SIZE - 1
<1>1. overrun \in BOOLEAN
  BY DEF RingTypeOK
<1>2. Unread \in Int
  BY LenProperties DEF RingTypeOK, Unread
<1>3. ASSUME NEW b \in Bytes, Receive(b)
      PROVE  ~overrun /\ ~(Unread >= RXBUF_SIZE - 1)
  BY <1>3, Zenon DEF Receive
<1>4. ASSUME overrun' = overrun PROVE ~overrun
  BY <1>4, Zenon
<1>5. CASE ~\E b \in Bytes : Receive(b)
  <2>1. overrun' = overrun
    BY <1>5 DEF RingNext, uartReadByte, Take, uartRead, uartReadStep,
                uartReadReturn, ringvars
  <2> QED
    BY <1>4, <1>5, <2>1
<1> QED
  BY <1>2, <1>3, <1>5, RingAssumption

LEMMA NextIntact ==
  ASSUME Intact, [RingNext]_ringvars,
         \A b \in Bytes : Receive(b) => Unread < RXBUF_SIZE - 1
  PROVE  Intact'
<1> USE RingAssumption
<1>1. RingTypeOK'
  BY TypeStep DEF Intact
<1>2. ASSUME NEW b \in Bytes, Receive(b) PROVE Intact'
  BY <1>1, <1>2, ReceiveStep DEF Intact
<1>3. CASE uartReadByte
  <2>1. ~reading'
    BY <1>3 DEF uartReadByte
  <2>2. CASE rxBufferReadPos = dmapos
    BY <1>1, <1>3, <2>1, <2>2, StillStep DEF uartReadByte, Intact, EndAhead
  <2>3. CASE rxBufferReadPos # dmapos
    BY <1>1, <1>3, <2>1, <2>3, TakeStep, SomethingUnread DEF uartReadByte, Intact, EndAhead
  <2> QED
    BY <2>2, <2>3
<1>4. ASSUME NEW num \in 1..RXBUF_SIZE, uartRead(num) PROVE Intact'
  <2>1. DmaAhead' /\ SlotsHoldUnread' /\ Unread' = Unread
    BY <1>4, StillStep DEF uartRead
  <2>2. EndAhead'
    <3>1. Unread \in 0..Unread' /\ rxBufferEnd' = Wrap(rxBufferReadPos' + Unread)
      BY <1>4, <2>1 DEF uartRead, Intact, DmaAhead
    <3> QED
      BY <3>1 DEF EndAhead, Wrap
  <2> QED
    BY <1>1, <2>1, <2>2 DEF Intact
<1>5. CASE uartReadStep
  <2>1. Unread > 0 /\ Take /\ reading /\ rxBufferReadPos # rxBufferEnd
        /\ rxBufferEnd' = rxBufferEnd
    BY <1>5, SomethingUnread DEF uartReadStep, ReadLoop
  <2>2. DmaAhead' /\ SlotsHoldUnread' /\ Unread' = Unread - 1
    BY <2>1, TakeStep
  <2>3. EndAhead'
    <3>1. PICK w \in 0..Unread : rxBufferEnd = Wrap(rxBufferReadPos + w)
      BY <2>1 DEF Intact, EndAhead
    <3>2. rxBufferReadPos \in Slots /\ rxBufferReadPos' = Wrap(rxBufferReadPos + 1)
          /\ Unread \in 0..(RXBUF_SIZE - 1)
      BY <2>1, AdvanceSlot DEF Intact, RingTypeOK, Take, DmaAhead
    <3>3. w # 0
      BY <2>1, <3>1, <3>2 DEF Wrap, Slots
    <3>4. w - 1 \in 0..Unread'
      BY <2>2, <3>1, <3>2, <3>3
    <3>5. rxBufferEnd' = Wrap(rxBufferReadPos' + (w - 1))
      BY <2>1, <3>1, <3>2, <3>3 DEF Wrap, Slots
    <3> QED
      BY <3>4, <3>5 DEF EndAhead, Wrap
  <2> QED
    BY <1>1, <2>2, <2>3 DEF Intact
<1>6. CASE uartReadReturn
  BY <1>1, <1>6, StillStep DEF uartReadReturn, Intact, EndAhead
<1>7. CASE UNCHANGED ringvars
  BY <1>1, <1>7, StillStep DEF ringvars, Intact, EndAhead, Wrap
<1> QED
  BY <1>2, <1>3, <1>4, <1>5, <1>6, <1>7 DEF RingNext

LEMMA NextInv == IInv /\ [RingNext]_ringvars => IInv'
<1> SUFFICES ASSUME IInv, [RingNext]_ringvars PROVE IInv'
  OBVIOUS
<1>1. RingTypeOK'
  BY TypeStep DEF IInv
<1>2. ASSUME ~overrun' PROVE Intact'
  BY <1>2, NotOverrun, NextIntact DEF IInv
<1> QED
  BY <1>1, <1>2 DEF IInv

----------------------------------------------------------------------------
\* Every step that does not overrun is a step of the FIFO or changes nothing
\* in it.
LEMMA FifoStep ==
  IInv /\ [RingNext]_ringvars => [overrun' \/ Fifo!FifoNext]_<<received, consumed>>
<1> SUFFICES ASSUME IInv, [RingNext]_ringvars, ~overrun'
             PROVE  Fifo!FifoNext \/ UNCHANGED <<received, consumed>>
  OBVIOUS
<1>0. /\ Intact
      /\ \A b \in Bytes : Receive(b) => Unread < RXBUF_SIZE - 1
  BY NotOverrun DEF IInv
<1>1. ASSUME NEW b \in Bytes, Receive(b) PROVE Fifo!Put
  BY <1>0, <1>1 DEF Receive, Fifo!Put, Fifo!Waiting, Unread
<1>2. ASSUME Take, Unread > 0 PROVE Fifo!Get
  BY <1>0, <1>2, TakeStep DEF Take, Fifo!Get, Fifo!Waiting, Unread
<1>3. CASE uartReadByte
  BY <1>0, <1>2, <1>3, SomethingUnread DEF uartReadByte, Fifo!FifoNext
<1>4. CASE \E num \in 1..RXBUF_SIZE : uartRead(num)
  BY <1>4 DEF uartRead
<1>5. CASE uartReadStep
  BY <1>0, <1>2, <1>5, SomethingUnread DEF uartReadStep, ReadLoop, Fifo!FifoNext
<1>6. CASE uartReadReturn \/ UNCHANGED ringvars
  BY <1>6 DEF uartReadReturn, ringvars
<1> QED
  BY <1>1, <1>3, <1>4, <1>5, <1>6 DEF RingNext, Fifo!FifoNext

\* Until the sender gets RXBUF_SIZE bytes ahead every byte is read once and in
\* order, for every size of the ring and every interleaving of the DMA with the
\* reading functions.
THEOREM RingFifoUntilOverrun == RingSpec => FifoUntilOverrun
<1>1. RingInit => Fifo!FifoInit
  BY DEF RingInit, Fifo!FifoInit
<1> QED
  BY <1>1, InitInv, NextInv, FifoStep, PTL DEF RingSpec, FifoUntilOverrun

----------------------------------------------------------------------------
(* The count modulo the size needs no sender that keeps its distance.        *)


Mod(a) == a % RXBUF_SIZE

\* What % means for a size n.
LEMMA DivMod ==
  ASSUME NEW n \in Nat, n >= 2, NEW a \in Nat
  PROVE  a = n * (a \div n) + (a % n) /\ a % n \in 0..(n - 1) /\ a \div n \in Nat
BY SMT

\* A multiple of n that is less than n away from zero is zero.
LEMMA SmallMultiple ==
  ASSUME NEW n \in Nat, n >= 2, NEW d \in Int, n * d \in (1 - n)..(n - 1)
  PROVE  d = 0
<1>1. CASE d >= 1
  <2>1. n * d >= n
    BY <1>1
  <2> QED
    BY <2>1
<1>2. CASE d <= -1
  <2>1. n * d <= -n
    BY <1>2
  <2> QED
    BY <2>1
<1> QED
  BY <1>1, <1>2

LEMMA ModParts ==
  ASSUME NEW a \in Nat
  PROVE  Mod(a) \in Slots /\ \E q \in Nat : a = RXBUF_SIZE * q + Mod(a)
BY DivMod, RingAssumption DEF Mod, Slots

LEMMA ModOf ==
  ASSUME NEW q \in Nat, NEW r \in Slots
  PROVE  Mod(RXBUF_SIZE * q + r) = r
<1>1. PICK n \in Nat : n = RXBUF_SIZE /\ n >= 2
  BY RingAssumption
<1>2. PICK a \in Nat : a = n * q + r
  BY <1>1 DEF Slots
<1>3. PICK p \in Nat : a = n * p + Mod(a)
  BY <1>1, ModParts
<1>4. PICK m \in 0..(n - 1) : m = Mod(a)
  BY <1>1, ModParts DEF Slots
<1>5. n * (p - q) = r - m /\ r \in 0..(n - 1)
  BY <1>1, <1>2, <1>3, <1>4 DEF Slots
<1>6. p - q = 0
  BY <1>1, <1>5, SmallMultiple
<1>7. m = r
  BY <1>1, <1>5, <1>6
<1> QED
  BY <1>1, <1>2, <1>4, <1>7, Zenon

\* Going one on and going round leave the remainder one on and unchanged.
LEMMA ModSteps ==
  ASSUME NEW a \in Nat
  PROVE  /\ Mod(a + 1) = DmaNext(Mod(a))
         /\ Mod(a + RXBUF_SIZE) = Mod(a)
         /\ a < RXBUF_SIZE => Mod(a) = a
<1> USE RingAssumption
<1>1. PICK q \in Nat : a = RXBUF_SIZE * q + Mod(a)
  BY ModParts
<1>2. PICK r \in Slots : r = Mod(a)
  BY ModParts
<1>3. PICK p \in Nat : p = q + 1
  OBVIOUS
<1>4. a + RXBUF_SIZE = RXBUF_SIZE * p + r
  BY <1>1, <1>2, <1>3 DEF Slots
<1>5. a < RXBUF_SIZE => a \in Slots /\ a = RXBUF_SIZE * 0 + a
  BY DEF Slots
<1>6. Mod(a + 1) = DmaNext(r)
  <2>1. DmaNext(r) \in Slots
    BY DEF DmaNext, Slots
  <2>2. a + 1 = RXBUF_SIZE * q + DmaNext(r) \/ a + 1 = RXBUF_SIZE * p + DmaNext(r)
    BY <1>1, <1>2, <1>3 DEF DmaNext, Slots
  <2> QED
    BY <2>1, <2>2, ModOf
<1>7. Mod(a + RXBUF_SIZE) = r
  BY <1>4, ModOf
<1>8. a < RXBUF_SIZE => Mod(a) = a
  BY <1>5, ModOf
<1> QED
  BY <1>2, <1>6, <1>7, <1>8

\* Going u places on round the ring: the distance is u modulo its size.
LEMMA Distance ==
  ASSUME NEW from \in Slots, NEW u \in Nat, NEW to, to = Mod(from + u)
  PROVE  /\ to \in Slots
         /\ Mod(u) = IF from <= to THEN to - from ELSE to + RXBUF_SIZE - from
         /\ from # to => u # 0
<1> USE RingAssumption DEF Slots
<1>1. PICK k \in Nat : u = RXBUF_SIZE * k + Mod(u)
  BY ModParts
<1>2. PICK m \in Slots : m = Mod(u)
  BY ModParts
<1>3. from < RXBUF_SIZE /\ from \in Nat
  OBVIOUS
<1>4. u = 0 => to = from
  BY <1>3, ModSteps
<1>5. PICK q \in Nat : q = k + 1
  OBVIOUS
<1>6. CASE from + m < RXBUF_SIZE
  <2>1. PICK r \in Slots : r = from + m
    BY <1>3, <1>6
  <2>2. from + u = RXBUF_SIZE * k + r
    BY <1>1, <1>2, <1>3, <2>1
  <2>3. to = r
    BY <2>2, ModOf
  <2> QED
    BY <1>2, <1>3, <1>4, <2>1, <2>3
<1>7. CASE ~(from + m < RXBUF_SIZE)
  <2>1. PICK r \in Slots : r = from + m - RXBUF_SIZE
    BY <1>3, <1>7
  <2>2. from + u = RXBUF_SIZE * q + r
    BY <1>1, <1>2, <1>3, <1>5, <2>1
  <2>3. to = r
    BY <2>2, ModOf
  <2> QED
    BY <1>2, <1>3, <1>4, <2>1, <2>3
<1> QED
  BY <1>6, <1>7

\* The DMA, and the end of a read, are ahead of the reader modulo the size.
ModInv ==
  /\ RingTypeOK
  /\ Unread \in Nat
  /\ dmapos = Mod(rxBufferReadPos + Unread)
  /\ reading => \E w \in 0..Unread : rxBufferEnd = Mod(rxBufferReadPos + w)

\* A step of the reader, and one of the DMA, in this arithmetic.
LEMMA AdvanceModulo ==
  ASSUME NEW pos \in Slots, NEW w \in Nat
  PROVE  /\ w # 0 => Mod(Advance(pos) + (w - 1)) = Mod(pos + w)
         /\ DmaNext(Mod(pos + w)) = Mod(pos + (w + 1))
<1>1. RXBUF_SIZE \in Nat /\ RXBUF_SIZE >= 2 /\ pos \in 0..(RXBUF_SIZE - 1)
  BY RingAssumption DEF Slots
<1>2. PICK a \in Nat : a = pos + w
  BY <1>1
<1>3. DmaNext(Mod(a)) = Mod(a + 1) /\ pos + (w + 1) = a + 1
  BY <1>1, <1>2, ModSteps
<1>4. ASSUME w # 0
      PROVE  Mod(Advance(pos) + (w - 1)) = Mod(pos + w)
  <2>1. PICK b \in Nat : b = Advance(pos) + (w - 1)
    BY <1>1, <1>4 DEF Advance
  <2>2. a = b \/ a = b + RXBUF_SIZE
    BY <1>1, <1>2, <2>1 DEF Advance
  <2> QED
    BY <1>2, <2>1, <2>2, ModSteps
<1> QED
  BY <1>2, <1>3, <1>4, Zenon

LEMMA ModInit == RingInit => ModInv
<1> SUFFICES ASSUME RingInit PROVE ModInv
  OBVIOUS
<1>1. RingTypeOK
  BY InitInv DEF IInv
<1>2. Unread = 0 /\ dmapos = 0 /\ rxBufferReadPos = 0 /\ reading = FALSE
  BY DEF RingInit, Unread
<1>3. Mod(0) = 0 /\ 0 + 0 = 0
  BY RingAssumption, ModSteps
<1> QED
  BY <1>1, <1>2, <1>3 DEF ModInv

\* One byte taken out when there is one: the positions keep their distance.
LEMMA ModTake ==
  ASSUME ModInv, Take, Unread # 0
  PROVE  /\ Unread' = Unread - 1
         /\ dmapos' = Mod(rxBufferReadPos' + Unread')
         /\ \A w \in Nat \ {0} : Mod(rxBufferReadPos + w)
                                  = Mod(rxBufferReadPos' + (w - 1))
<1>1. RxBuffer[rxBufferReadPos] \in Bytes \union {0} /\ rxBufferReadPos \in Slots
  BY DEF ModInv, RingTypeOK
<1>2. Len(consumed') = Len(consumed) + 1 /\ received' = received
      /\ Len(consumed) \in Nat /\ Len(received) \in Nat
  BY <1>1, Appended, LenProperties DEF ModInv, RingTypeOK, Take
<1>3. Unread' = Unread - 1
  BY <1>2 DEF Unread
<1>4. \A w \in Nat \ {0} : Mod(rxBufferReadPos + w)
                            = Mod(rxBufferReadPos' + (w - 1))
  BY <1>1, AdvanceModulo DEF Take
<1>5. Unread \in Nat \ {0} /\ dmapos' = Mod(rxBufferReadPos + Unread)
  BY DEF ModInv, Take
<1> QED
  BY <1>3, <1>4, <1>5

LEMMA ModStep == ModInv /\ [RingNext]_ringvars => ModInv'
<1> SUFFICES ASSUME ModInv, [RingNext]_ringvars PROVE ModInv'
  OBVIOUS
<1> USE RingAssumption
<1>1. RingTypeOK'
  BY TypeStep DEF ModInv
<1>2. rxBufferReadPos \in Slots /\ Unread \in Nat
      /\ dmapos = Mod(rxBufferReadPos + Unread)
  BY DEF ModInv, RingTypeOK
<1>3. rxBufferReadPos # dmapos => Unread # 0
  BY <1>2, Distance
<1>4. ASSUME NEW b \in Bytes, Receive(b) PROVE ModInv'
  <2>1. Len(received') = Len(received) + 1 /\ consumed' = consumed
        /\ Len(consumed) \in Nat /\ Len(received) \in Nat
    BY <1>4, Appended, LenProperties DEF ModInv, RingTypeOK, Receive
  <2>2. Unread' = Unread + 1
    BY <2>1 DEF Unread
  <2>3. dmapos' = Mod(rxBufferReadPos' + Unread')
    BY <1>2, <1>4, <2>2, AdvanceModulo DEF Receive
  <2>4. 0..Unread \subseteq 0..Unread'
    BY <1>2, <2>2
  <2> QED
    BY <1>1, <1>2, <1>4, <2>2, <2>3, <2>4 DEF ModInv, Receive
<1>5. ASSUME UNCHANGED <<dmapos, rxBufferReadPos, received, consumed>>
      PROVE  Unread' = Unread /\ Unread' \in Nat
             /\ dmapos' = Mod(rxBufferReadPos' + Unread')
  BY <1>2, <1>5 DEF Unread
<1>6. CASE uartReadByte
  <2>1. CASE rxBufferReadPos = dmapos
    BY <1>1, <1>5, <1>6, <2>1 DEF uartReadByte, ModInv
  <2>2. CASE rxBufferReadPos # dmapos
    <3>1. Take /\ ~reading'
      BY <1>6, <2>2 DEF uartReadByte
    <3> QED
      BY <1>1, <1>2, <1>3, <2>2, <3>1, ModTake DEF ModInv
  <2> QED
    BY <2>1, <2>2
<1>7. ASSUME NEW num \in 1..RXBUF_SIZE, uartRead(num) PROVE ModInv'
  <2>1. UNCHANGED <<dmapos, rxBufferReadPos, received, consumed>> /\ rxBufferEnd' = dmapos
    BY <1>7 DEF uartRead
  <2>2. Unread \in 0..Unread'
    BY <1>2, <1>5, <2>1
  <2> QED
    BY <1>1, <1>2, <1>5, <2>1, <2>2 DEF ModInv
<1>8. CASE uartReadStep
  <2>1. Take /\ reading /\ rxBufferReadPos # rxBufferEnd /\ rxBufferEnd' = rxBufferEnd
    BY <1>8 DEF uartReadStep, ReadLoop
  <2>2. PICK w \in 0..Unread : rxBufferEnd = Mod(rxBufferReadPos + w)
    BY <2>1 DEF ModInv
  <2>3. w # 0
    BY <1>2, <2>1, <2>2, Distance
  <2>4. Unread # 0 /\ w \in Nat \ {0}
    BY <1>2, <2>2, <2>3
  <2>5. rxBufferEnd' = Mod(rxBufferReadPos' + (w - 1))
        /\ Unread' = Unread - 1 /\ dmapos' = Mod(rxBufferReadPos' + Unread')
    BY <2>1, <2>2, <2>4, ModTake
  <2>6. w - 1 \in 0..Unread' /\ Unread' \in Nat
    BY <1>2, <2>2, <2>4, <2>5
  <2> QED
    BY <1>1, <2>5, <2>6 DEF ModInv
<1>9. CASE uartReadReturn
  BY <1>1, <1>5, <1>9 DEF uartReadReturn, ModInv
<1>10. CASE UNCHANGED ringvars
  BY <1>1, <1>5, <1>10 DEF ringvars, ModInv
<1> QED
  BY <1>4, <1>6, <1>7, <1>8, <1>9, <1>10 DEF RingNext

\* What uartAvailable returns is the number of unread bytes modulo the size of
\* the ring, for every size and every sender, overrun or not.
THEOREM RingAvailableModulo == RingSpec => []AvailableModulo
<1>1. ModInv => AvailableModulo
  BY Distance DEF ModInv, RingTypeOK, AvailableModulo, uartAvailable, Mod
<1> QED
  BY <1>1, ModInit, ModStep, PTL DEF RingSpec

=============================================================================
