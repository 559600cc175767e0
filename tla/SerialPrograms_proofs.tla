------------------------ MODULE SerialPrograms_proofs ------------------------
(***************************************************************************)
(* Theorems about SerialPrograms, for every size of the ring, every sender *)
(* and every speed of the line.  The programs use the receive ring as      *)
(* RingSpec says, so that what DmaRing_proofs proves of it holds of each;  *)
(* and what they hand to the transmitter, which copies nothing, is what is *)
(* on the line.                                                            *)
(***************************************************************************)
EXTENDS SerialPrograms, DmaRing_proofs

Sent == Nat \union (Nat \X Nat)

\* Types, and the loop of uartRead is entered from a drain only.
MainTypes ==
  /\ program \in Programs /\ pc \in 1..(Len(Script) + 1)
  /\ num \in Slots /\ c \in Nat /\ buffer \in [1..RXBUF_SIZE -> Nat]
  /\ txfrom \in DOMAIN Script /\ txnum \in Nat /\ txleft \in 0..txnum
  /\ out \in Seq(Sent) /\ handed \in Seq(Sent)
  /\ reading => At({Drain})

\* What is still to be fetched is where the channel looks for it.
TxInv ==
  /\ Len(handed) = Len(out) + txleft
  /\ \A i \in 1..Len(out) : out[i] = handed[i]
  /\ \A k \in 1..txleft : handed[Len(out) + k] = Memory(txfrom)[txnum - txleft + k]
  /\ program = "echo" /\ txleft > 0 => <<txfrom, pc>> \in {<<3, 4>>, <<7, 1>>, <<7, 2>>, <<7, 3>>}

\* The bytes between the reader and the end that uartRead has noted.
Gap ==
  IF rxBufferReadPos <= rxBufferEnd
  THEN rxBufferEnd - rxBufferReadPos
  ELSE rxBufferEnd + RXBUF_SIZE - rxBufferReadPos

CountInv ==
  ~overrun =>
    /\ At({Drain}) /\ ~reading => num <= Unread
    /\ reading => left <= Gap
    /\ At({SendBuffer}) => left = 0

\* The program is between the command that was handed over last and the next.
SinceLast ==
  IF handed = <<>> THEN \A k \in 1..(pc - 1) : ~IsCommand(k)
  ELSE LET p == handed[Len(handed)][1]
       IN  /\ IsCommand(p)
           /\ \/ p < pc /\ \A k \in (p + 1)..(pc - 1) : ~IsCommand(k)
              \/ /\ pc <= p /\ program = "ble"
                 /\ \A k \in DOMAIN Script : k < pc \/ k > p => ~IsCommand(k)

LineInv ==
  program # "echo" =>
    /\ Len(handed) % 2 = 0
    /\ InScriptOrder(handed)
    /\ SinceLast
    /\ program = "wifi" /\ At({TakeNum, Drain, WriteInverted}) => txleft = 0

-----------------------------------------------------------------------------
\* The scripts: what stands before a drain, what follows a command.
LEMMA KindsDiffer ==
  /\ SendByte \notin {SendBuffer, Write, WriteInverted, Delay, Await, ReadByte, TakeNum, Drain}
  /\ SendBuffer \notin {Write, WriteInverted, Delay, Await, ReadByte, TakeNum, Drain}
  /\ Write \notin {WriteInverted, Delay, Await, ReadByte, TakeNum, Drain}
  /\ WriteInverted \notin {Delay, Await, ReadByte, TakeNum, Drain}
  /\ Delay \notin {Await, ReadByte, TakeNum, Drain}
  /\ Await \notin {ReadByte, TakeNum, Drain}
  /\ ReadByte \notin {TakeNum, Drain}
  /\ TakeNum # Drain
BY DEF SendByte, SendBuffer, Write, WriteInverted, Delay, Await, ReadByte, TakeNum, Drain

LEMMA WifiIs == 
  /\ Len(WifiScript) = 41 /\ DOMAIN WifiScript = 1..41
  /\ \A k \in 1..41 :
       /\ WifiScript[k] \in {Delay, Write, WriteInverted, TakeNum, Drain, Await}
       /\ WifiScript[k] \in {Write, WriteInverted} => k < 41 /\ WifiScript[k + 1] \in {Delay, Write}
       /\ WifiScript[k] = Drain => k > 1 /\ WifiScript[k - 1] = TakeNum
       /\ WifiScript[k] = Await => k < 41 /\ WifiScript[k + 1] = Delay
BY KindsDiffer DEF WifiScript
LEMMA BleIs == 
  /\ Len(BleScript) = 10 /\ DOMAIN BleScript = 1..10 /\ BleScript[2] = Write
  /\ \A k \in 1..10 :
       /\ BleScript[k] \in {Delay, Write, TakeNum, Drain}
       /\ BleScript[k] = Drain => k > 1 /\ BleScript[k - 1] = TakeNum
BY KindsDiffer DEF BleScript
LEMMA EchoIs ==
  /\ Len(EchoScript) = 7 /\ DOMAIN EchoScript = 1..7
  /\ EchoScript[1] = Await /\ EchoScript[2] = ReadByte /\ EchoScript[3] = SendByte
  /\ EchoScript[4] = Delay /\ EchoScript[5] = TakeNum /\ EchoScript[6] = Drain
  /\ EchoScript[7] = SendBuffer
BY DEF EchoScript

\* The same for the program that runs.
LEMMA ScriptIs ==
  ASSUME program \in Programs
  PROVE  /\ program \in {"echo", "wifi", "ble"}
         /\ Len(Script) \in Nat /\ Len(Script) >= 7 /\ DOMAIN Script = 1..Len(Script)
         /\ \A k \in DOMAIN Script :
              /\ Script[k] = Drain => k > 1 /\ Script[k - 1] = TakeNum
              /\ Script[k] = SendBuffer => program = "echo" /\ k = 7 /\ Script[k - 1] = Drain
              /\ Script[k] = SendByte => program = "echo" /\ k = 3
              /\ Script[k] = ReadByte => program = "echo" /\ k = 2
              /\ program = "echo" => (k = 4 <=> Script[k] = Delay) /\ (k = 6 <=> Script[k] = Drain)
              /\ program = "echo" => Script[k] \notin {Write, WriteInverted}
         /\ Script[1] \notin {Drain, SendBuffer}
<1>1. program \in {"echo", "wifi", "ble"}
  BY ProgramsAssumption
<1>2. CASE program = "echo"
  <2>1. Script = EchoScript /\ program # "wifi"
    BY <1>2 DEF Script
  <2>2. Len(Script) = 7 /\ DOMAIN Script = 1..7
    BY <2>1, EchoIs
  <2>3. \A k \in 1..7 : k = 1 \/ k = 2 \/ k = 3 \/ k = 4 \/ k = 5 \/ k = 6 \/ k = 7
    OBVIOUS
  <2> QED
    BY <1>1, <1>2, <2>1, <2>2, <2>3, EchoIs, KindsDiffer
<1>3. CASE program = "wifi"
  <2>1. Script = WifiScript /\ program # "echo"
    BY <1>3 DEF Script
  <2> QED
    BY <1>1, <2>1, WifiIs, KindsDiffer
<1>4. CASE program = "ble"
  <2>1. Script = BleScript /\ program # "echo"
    BY <1>4 DEF Script
  <2> QED
    BY <1>1, <2>1, BleIs, KindsDiffer
<1> QED
  BY <1>1, <1>2, <1>3, <1>4

\* Where a step of the program leads.
LEMMA StepIs ==
  ASSUME MainTypes, pc \in DOMAIN Script, Step
  PROVE  /\ pc' \in 1..(Len(Script) + 1)
         /\ \/ pc' = pc + 1
            \/ pc' = 1 /\ pc = Len(Script) /\ program # "wifi"
<1>1. Len(Script) \in Nat /\ DOMAIN Script = 1..Len(Script) /\ Len(Script) >= 7
  BY ScriptIs DEF MainTypes
<1> QED
  BY <1>1 DEF Step, Onward

\* A drain is reached from the count alone, the sending of the buffer from a drain.
LEMMA ReachedFrom ==
  ASSUME MainTypes, pc \in DOMAIN Script, program' = program,
         pc' \in 1..(Len(Script) + 1), pc' = pc + 1 \/ pc' = 1
  PROVE  /\ At({Drain})' => Script[pc] = TakeNum
         /\ At({SendBuffer})' => Script[pc] = Drain
<1>1. Script' = Script /\ DOMAIN Script = 1..Len(Script)
  BY ScriptIs DEF Script, MainTypes
<1>2. /\ \A k \in DOMAIN Script :
           /\ Script[k] = Drain => k > 1 /\ Script[k - 1] = TakeNum
           /\ Script[k] = SendBuffer => k > 1 /\ Script[k - 1] = Drain
      /\ pc \in Nat
  BY <1>1, ScriptIs DEF MainTypes
<1>3. CASE pc' = 1
  BY <1>1, <1>3, ScriptIs DEF At, MainTypes
<1>4. CASE pc' = pc + 1
  <2>1. pc' - 1 = pc
    BY <1>2, <1>4
  <2> QED
    BY <1>1, <1>2, <2>1 DEF At
<1> QED
  BY <1>3, <1>4

-----------------------------------------------------------------------------
\* Every step is one of the ring's, or leaves it alone.
LEMMA ProgramStep == MainTypes /\ [Next]_vars => [RingNext]_ringvars
<1> SUFFICES ASSUME MainTypes, [Next]_vars
             PROVE  RingNext \/ UNCHANGED ringvars
  OBVIOUS
<1>1. CASE Arrive
  BY <1>1 DEF Arrive, RingNext
<1>2. CASE Fetch
  BY <1>2 DEF Fetch
<1>3. CASE uartWriteBlocking \/ WriteCommand \/ WriteCommandInverted
  BY <1>3 DEF uartWriteBlocking, WriteCommand, WriteCommandInverted, Transmit, Busy
<1>4. CASE DelayStep \/ AwaitByte \/ TakeAvailable \/ DrainNothing
  BY <1>4 DEF DelayStep, AwaitByte, TakeAvailable, DrainNothing
<1>5. CASE ReadC
  BY <1>5 DEF ReadC, RingNext
<1>6. CASE DrainStart
  <2>1. uartRead(num) /\ num \in 1..RXBUF_SIZE
    BY <1>6, RingAssumption DEF DrainStart, MainTypes, Slots
  <2> QED
    BY <2>1 DEF RingNext
<1>7. CASE DrainStep \/ DrainReturn
  BY <1>7 DEF DrainStep, DrainReturn, RingNext
<1>8. CASE UNCHANGED vars
  BY <1>8 DEF vars
<1> QED
  BY <1>1, <1>2, <1>3, <1>4, <1>5, <1>6, <1>7, <1>8 DEF Next, Main

-----------------------------------------------------------------------------
\* The memory a call sends from is as long as the call says.
LEMMA MemoryIs ==
  ASSUME MainTypes, pc \in DOMAIN Script
  PROVE  Memory(pc) \in Seq(Sent) /\ Count \in Nat /\ Count <= Len(Memory(pc))
<1>1. pc \in Nat /\ c \in Nat /\ num \in Nat /\ num < RXBUF_SIZE /\ RXBUF_SIZE \in Nat
  BY RingAssumption DEF MainTypes, Slots
<1>2. CASE Script[pc] = SendByte
  BY <1>1, <1>2 DEF Memory, Count, Sent
<1>3. CASE Script[pc] # SendByte /\ Script[pc] = SendBuffer
  <2>1. Memory(pc) = buffer /\ Count = num
    BY <1>3, Zenon DEF Memory, Count
  <2>2. buffer \in [1..RXBUF_SIZE -> Sent]
    BY DEF MainTypes, Sent
  <2>3. buffer \in Seq(Sent) /\ Len(buffer) = RXBUF_SIZE
    BY <1>1, <2>2, SeqDef, LenProperties
  <2> QED
    BY <1>1, <2>1, <2>3
<1>4. CASE Script[pc] # SendByte /\ Script[pc] # SendBuffer
  <2>1. Memory(pc) = <<<<pc, 1>>, <<pc, 2>>>> /\ Count = 2
    BY <1>4, Zenon DEF Memory, Count
  <2>2. <<pc, 1>> \in Sent /\ <<pc, 2>> \in Sent
    BY <1>1 DEF Sent
  <2> QED
    BY <2>1, <2>2
<1> QED
  BY <1>2, <1>3, <1>4

LEMMA Joined ==
  ASSUME NEW S, NEW s \in Seq(S), NEW t \in Seq(S), NEW n \in Nat, Len(t) = n
  PROVE  /\ s \o t \in Seq(S) /\ Len(s \o t) = Len(s) + n
         /\ \A i \in 1..Len(s) : (s \o t)[i] = s[i]
         /\ \A k \in 1..n : (s \o t)[Len(s) + k] = t[k]
<1>1. /\ s \o t \in Seq(S) /\ Len(s \o t) = Len(s) + Len(t)
      /\ \A i \in 1..(Len(s) + Len(t)) : (s \o t)[i] = IF i <= Len(s) THEN s[i] ELSE t[i - Len(s)]
  BY ConcatProperties
<1>2. Len(s) \in Nat
  OBVIOUS
<1>3. ASSUME NEW i \in 1..Len(s) PROVE (s \o t)[i] = s[i]
  <2>1. i \in 1..(Len(s) + Len(t)) /\ i <= Len(s)
    BY <1>2
  <2> QED
    BY <1>1, <2>1, Zenon
<1>4. ASSUME NEW k \in 1..n PROVE (s \o t)[Len(s) + k] = t[k]
  <2>1. Len(s) + k \in 1..(Len(s) + Len(t)) /\ ~(Len(s) + k <= Len(s)) /\ (Len(s) + k) - Len(s) = k
    BY <1>2
  <2> QED
    BY <1>1, <2>1, Zenon
<1> QED
  BY <1>1, <1>3, <1>4

LEMMA SlotIs == RingTypeOK => RxBuffer[rxBufferReadPos] \in Nat
<1>1. Bytes \union {0} \subseteq Nat
  BY RingAssumption
<1> QED
  BY <1>1 DEF RingTypeOK

\* What the history of the calls is after one more.
LEMMA HandedIs ==
  ASSUME MainTypes, pc \in DOMAIN Script, Transmit
  PROVE  /\ handed' \in Seq(Sent) /\ Len(handed') = Len(handed) + Count
         /\ \A i \in 1..Len(handed) : handed'[i] = handed[i]
         /\ \A k \in 1..Count : handed'[Len(handed) + k] = Memory(pc)[k]
<1> DEFINE s == SubSeq(Memory(pc), 1, Count)
<1>1. Memory(pc) \in Seq(Sent) /\ Count \in Nat /\ Count <= Len(Memory(pc)) /\ handed \in Seq(Sent)
  BY MemoryIs DEF MainTypes
<1>2. s \in Seq(Sent) /\ Len(s) = Count /\ \A k \in 1..Count : s[k] = Memory(pc)[k]
  <2>1. \A k \in 1..Count : Memory(pc)[k] \in Sent
    BY <1>1
  <2> QED
    BY <1>1, <2>1, SubSeqProperties
<1>3. handed' = handed \o s
  BY DEF Transmit
<1> HIDE DEF s
<1>4. /\ handed \o s \in Seq(Sent) /\ Len(handed \o s) = Len(handed) + Count
      /\ \A i \in 1..Len(handed) : (handed \o s)[i] = handed[i]
      /\ \A k \in 1..Count : (handed \o s)[Len(handed) + k] = s[k]
  BY <1>1, <1>2, Joined
<1> QED
  BY <1>2, <1>3, <1>4

LEMMA TypesStep == RingTypeOK /\ MainTypes /\ TxInv /\ [Next]_vars => MainTypes'
<1> SUFFICES ASSUME RingTypeOK, MainTypes, TxInv, [Next]_vars PROVE MainTypes'
  OBVIOUS
<1>0. /\ program \in Programs /\ pc \in 1..(Len(Script) + 1) /\ num \in Slots /\ c \in Nat
      /\ buffer \in [1..RXBUF_SIZE -> Nat] /\ txfrom \in DOMAIN Script /\ txnum \in Nat
      /\ txleft \in 0..txnum /\ out \in Seq(Sent) /\ handed \in Seq(Sent)
      /\ reading => At({Drain})
  BY DEF MainTypes
<1>1. program' = program => Script' = Script
  BY DEF Script
<1>2. Len(Script) \in Nat /\ DOMAIN Script = 1..Len(Script)
  BY ScriptIs, <1>0
<1>3. CASE Arrive
  <2>1. UNCHANGED <<main, pc, round, tx, reading>>
    BY <1>3 DEF Arrive, Receive
  <2> QED
    BY <1>0, <1>1, <2>1 DEF MainTypes, main, tx, At
<1>4. CASE Fetch
  <2>1. /\ UNCHANGED <<main, pc, reading, txfrom, txnum, handed>>
        /\ out' = Append(out, Memory(txfrom)[txnum - txleft + 1])
        /\ txleft' = txleft - 1 /\ txleft > 0
    BY <1>4 DEF Fetch, ringvars
  <2>2. Memory(txfrom)[txnum - txleft + 1] \in Sent
    <3>1. 1 \in 1..txleft /\ Len(out) + 1 \in 1..Len(handed)
      BY <1>0, <2>1 DEF TxInv
    <3> QED
      BY <1>0, <3>1 DEF TxInv
  <2>3. out' \in Seq(Sent) /\ txleft' \in 0..txnum
    BY <1>0, <2>1, <2>2
  <2> QED
    BY <1>0, <1>1, <2>1, <2>3 DEF MainTypes, main, At
<1>5. CASE uartWriteBlocking \/ WriteCommand \/ WriteCommandInverted
  <2>1. /\ pc \in DOMAIN Script /\ Step /\ Script[pc] # Drain
        /\ Transmit \/ Busy
        /\ UNCHANGED <<reading, main>>
    BY <1>5, KindsDiffer
       DEF uartWriteBlocking, WriteCommand, WriteCommandInverted, Transmit, Busy, ringvars, At
  <2>2. ~reading
    BY <1>0, <2>1 DEF At
  <2>3. pc' \in 1..(Len(Script) + 1)
    BY <2>1, StepIs
  <2>4. CASE Busy
    BY <1>0, <1>1, <2>1, <2>2, <2>3, <2>4 DEF MainTypes, main, tx, Busy
  <2>5. CASE Transmit
    <3>1. txfrom' = pc /\ txnum' = Count /\ txleft' = Count /\ out' = out
      BY <2>5 DEF Transmit
    <3>2. Count \in Nat /\ handed' \in Seq(Sent)
      BY <2>1, <2>5, MemoryIs, HandedIs
    <3> QED
      BY <1>0, <1>1, <2>1, <2>2, <2>3, <3>1, <3>2 DEF MainTypes, main
  <2> QED
    BY <2>1, <2>4, <2>5
<1>6. CASE DelayStep \/ AwaitByte
  <2>1. pc \in DOMAIN Script /\ Step /\ Script[pc] # Drain /\ UNCHANGED <<reading, main, tx>>
    BY <1>6, KindsDiffer DEF DelayStep, AwaitByte, ringvars, At
  <2> QED
    BY <1>0, <1>1, <2>1, StepIs DEF MainTypes, main, tx, At
<1>7. CASE ReadC
  <2>1. /\ pc \in DOMAIN Script /\ Step /\ Script[pc] # Drain /\ c' = ByteRead
        /\ UNCHANGED <<reading, program, num, buffer, tx>>
    BY <1>7, KindsDiffer DEF ReadC, uartReadByte, At
  <2>2. ByteRead \in Nat
    BY SlotIs DEF ByteRead
  <2> QED
    BY <1>0, <1>1, <2>1, <2>2, StepIs DEF MainTypes, tx, At
<1>8. CASE TakeAvailable
  <2>1. /\ pc \in DOMAIN Script /\ Step /\ Script[pc] # Drain /\ num' = uartAvailable
        /\ UNCHANGED <<reading, program, c, buffer, tx>>
    BY <1>8, KindsDiffer DEF TakeAvailable, ringvars, At
  <2>2. uartAvailable \in Slots
    BY RingAssumption DEF uartAvailable, RingTypeOK, Slots
  <2> QED
    BY <1>0, <1>1, <2>1, <2>2, StepIs DEF MainTypes, tx, At
<1>9. CASE DrainNothing
  <2>1. /\ pc \in DOMAIN Script /\ Script[pc] = Drain /\ ~reading
        /\ Onward(IF program = "echo" THEN 2 ELSE 1)
        /\ UNCHANGED <<reading, main, tx>>
    BY <1>9 DEF DrainNothing, ringvars, At
  <2>2. pc' \in 1..(Len(Script) + 1)
    <3>1. CASE program # "echo"
      BY <2>1, <3>1, StepIs DEF Step
    <3>2. CASE program = "echo"
      <4>1. pc = 6 /\ Len(Script) = 7
        BY <1>0, <2>1, <3>2, ScriptIs, EchoIs DEF Script
      <4> QED
        BY <2>1, <3>2, <4>1 DEF Onward
    <3> QED
      BY <3>1, <3>2
  <2> QED
    BY <1>0, <1>1, <2>1, <2>2 DEF MainTypes, main, tx
<1>10. CASE DrainStart
  <2>1. At({Drain}) /\ UNCHANGED <<main, pc, tx>>
    BY <1>10 DEF DrainStart
  <2> QED
    BY <1>0, <1>1, <2>1 DEF MainTypes, main, tx, At
<1>11. CASE DrainStep
  <2>1. /\ At({Drain}) /\ UNCHANGED <<program, pc, num, c, tx>>
        /\ buffer' = [buffer EXCEPT ![num - left + 1] = RxBuffer[rxBufferReadPos]]
    BY <1>11 DEF DrainStep
  <2>2. RxBuffer[rxBufferReadPos] \in Nat
    BY SlotIs
  <2>3. buffer' \in [1..RXBUF_SIZE -> Nat]
    BY <1>0, <2>1, <2>2
  <2> QED
    BY <1>0, <1>1, <2>1, <2>3 DEF MainTypes, tx, At
<1>12. CASE DrainReturn
  <2>1. pc \in DOMAIN Script /\ Step /\ reading' = FALSE /\ UNCHANGED <<main, tx>>
    BY <1>12 DEF DrainReturn, uartReadReturn, At
  <2> QED
    BY <1>0, <1>1, <2>1, StepIs DEF MainTypes, main, tx
<1>13. CASE UNCHANGED vars
  BY <1>0, <1>1, <1>13 DEF MainTypes, vars, ringvars, main, tx, At
<1> QED
  BY <1>3, <1>4, <1>5, <1>6, <1>7, <1>8, <1>9, <1>10, <1>11, <1>12, <1>13 DEF Next, Main

-----------------------------------------------------------------------------
\* The memory a transfer reads stays what it was, for the echo program because
\* of where the program can be while the transfer lasts.
LEMMA MemoryStays ==
  ASSUME MainTypes, TxInv, [Next]_vars, UNCHANGED <<program, tx>>, txleft > 0
  PROVE  /\ Memory(txfrom)' = Memory(txfrom)
         /\ program = "echo" => <<txfrom, pc'>> \in {<<3, 4>>, <<7, 1>>, <<7, 2>>, <<7, 3>>}
<1>0. /\ program \in Programs /\ txfrom \in DOMAIN Script /\ txfrom' = txfrom
      /\ Script' = Script
  BY DEF MainTypes, tx, Script
<1>1. CASE program # "echo"
  <2>1. Script[txfrom] \notin {SendByte, SendBuffer}
    BY <1>0, <1>1, ScriptIs
  <2> QED
    BY <1>0, <1>1, <2>1, Zenon DEF Memory
<1>2. CASE program = "echo"
  <2>1. Script = EchoScript
    BY <1>2 DEF Script
  <2>2. <<txfrom, pc>> \in {<<3, 4>>, <<7, 1>>, <<7, 2>>, <<7, 3>>}
    BY <1>2 DEF TxInv
  <2>3. UNCHANGED <<c, buffer>> => Memory(txfrom)' = Memory(txfrom)
    BY <1>0 DEF Memory
  <2>4. CASE UNCHANGED <<c, buffer, pc>>
    BY <2>2, <2>3, <2>4
  <2>5. CASE AwaitByte
    <3>1. Script[pc] = Await /\ Step /\ UNCHANGED <<c, buffer>>
      BY <2>5, KindsDiffer DEF AwaitByte, At, main
    <3>2. pc = 1 /\ txfrom = 7
      BY <2>1, <2>2, <3>1, EchoIs, KindsDiffer
    <3>3. pc' = 2
      BY <2>1, <3>1, <3>2, EchoIs DEF Step, Onward
    <3> QED
      BY <2>3, <3>1, <3>2, <3>3
  <2>6. CASE ReadC
    <3>1. Script[pc] = ReadByte /\ Step /\ buffer' = buffer
      BY <2>6, KindsDiffer DEF ReadC, At
    <3>2. pc = 2 /\ txfrom = 7
      BY <2>1, <2>2, <3>1, EchoIs, KindsDiffer
    <3>3. pc' = 3
      BY <2>1, <3>1, <3>2, EchoIs DEF Step, Onward
    <3>4. Memory(txfrom)' = Memory(txfrom)
      <4>1. Script[txfrom] = SendBuffer /\ SendBuffer # SendByte
        BY <2>1, <3>2, EchoIs, KindsDiffer
      <4> QED
        BY <1>0, <3>1, <4>1, Zenon DEF Memory
    <3> QED
      BY <3>2, <3>3, <3>4
  <2>7. Script[pc] \notin {TakeNum, Drain, Write, WriteInverted}
    BY <2>1, <2>2, EchoIs, KindsDiffer
  <2>8. ~(WriteCommand \/ WriteCommandInverted \/ TakeAvailable \/ DrainNothing \/ DrainStart
            \/ DrainStep \/ DrainReturn)
    BY <2>7 DEF WriteCommand, WriteCommandInverted, TakeAvailable, DrainNothing, DrainStart,
                DrainStep, DrainReturn, At
  <2>9. ~(uartWriteBlocking \/ DelayStep \/ Fetch)
    BY DEF uartWriteBlocking, DelayStep, Fetch, tx, MainTypes
  <2>10. CASE Arrive \/ UNCHANGED vars
    BY <2>4, <2>10 DEF Arrive, vars, main
  <2> QED
    BY <2>5, <2>6, <2>8, <2>9, <2>10 DEF Next, Main
<1> QED
  BY <1>1, <1>2

LEMMA TxStep == RingTypeOK /\ MainTypes /\ TxInv /\ [Next]_vars => TxInv'
<1> SUFFICES ASSUME RingTypeOK, MainTypes, TxInv, [Next]_vars PROVE TxInv'
  OBVIOUS
<1>0. /\ txnum \in Nat /\ txleft \in 0..txnum /\ out \in Seq(Sent) /\ handed \in Seq(Sent)
      /\ Len(handed) = Len(out) + txleft /\ Len(out) \in Nat
      /\ \A i \in 1..Len(out) : out[i] = handed[i]
      /\ \A k \in 1..txleft : handed[Len(out) + k] = Memory(txfrom)[txnum - txleft + k]
  BY DEF MainTypes, TxInv
<1>1. CASE Fetch
  <2>1. /\ UNCHANGED <<main, pc, txfrom, txnum, handed>> /\ txleft > 0 /\ txleft' = txleft - 1
        /\ out' = Append(out, Memory(txfrom)[txnum - txleft + 1])
    BY <1>1 DEF Fetch
  <2>2. Memory(txfrom)' = Memory(txfrom)
    BY <2>1 DEF Memory, Script, main
  <2>3. Memory(txfrom)[txnum - txleft + 1] = handed[Len(out) + 1] /\ handed[Len(out) + 1] \in Sent
    <3>1. 1 \in 1..txleft /\ Len(out) + 1 \in 1..Len(handed)
      BY <1>0, <2>1
    <3> QED
      BY <1>0, <3>1
  <2>4. /\ Len(out') = Len(out) + 1 /\ out'[Len(out) + 1] = handed[Len(out) + 1]
        /\ \A i \in 1..Len(out) : out'[i] = out[i]
    BY <1>0, <2>1, <2>3, AppendProperties
  <2>5. Len(handed') = Len(out') + txleft'
    <3>1. handed' = handed /\ txleft' = txleft - 1
      BY <2>1
    <3>2. Len(out') = Len(out) + 1 /\ Len(handed) = Len(out) + txleft /\ txleft \in Int /\ Len(out) \in Int
      BY <1>0, <2>4
    <3> QED
      BY <3>1, <3>2
  <2>6. ASSUME NEW i \in 1..Len(out') PROVE out'[i] = handed'[i]
    BY <1>0, <2>1, <2>4
  <2>7. ASSUME NEW k \in 1..txleft'
        PROVE  handed'[Len(out') + k] = Memory(txfrom)'[txnum' - txleft' + k]
    <3>1. /\ k + 1 \in 1..txleft /\ Len(out') + k = Len(out) + (k + 1)
          /\ txnum' - txleft' + k = txnum - txleft + (k + 1)
      BY <1>0, <2>1, <2>4
    <3> QED
      BY <1>0, <2>1, <2>2, <3>1
  <2>8. program' = "echo" /\ txleft' > 0 =>
          <<txfrom', pc'>> \in {<<3, 4>>, <<7, 1>>, <<7, 2>>, <<7, 3>>}
    BY <2>1 DEF TxInv, main
  <2> QED
    BY <2>5, <2>6, <2>7, <2>8 DEF TxInv
<1>2. CASE (uartWriteBlocking \/ WriteCommand \/ WriteCommandInverted) /\ txleft = 0
  <2>0. /\ pc \in DOMAIN Script /\ Step /\ txleft = 0 /\ Transmit
        /\ Script[pc] \in {SendByte, SendBuffer, Write, WriteInverted}
    <3>1. ~Busy
      BY <1>2 DEF Busy
    <3> QED
      BY <1>2, <3>1, Zenon DEF uartWriteBlocking, WriteCommand, WriteCommandInverted, At
  <2>1. /\ pc \in DOMAIN Script /\ Step /\ txleft = 0
        /\ Script[pc] \in {SendByte, SendBuffer, Write, WriteInverted}
        /\ txfrom' = pc /\ txnum' = Count /\ txleft' = Count /\ UNCHANGED <<main, out>>
    BY <2>0 DEF Transmit
  <2>2. Memory(txfrom)' = Memory(pc)
    BY <2>1 DEF Memory, Script, main
  <2>3. /\ Len(handed') = Len(handed) + Count /\ Count \in Nat
        /\ \A i \in 1..Len(handed) : handed'[i] = handed[i]
        /\ \A k \in 1..Count : handed'[Len(handed) + k] = Memory(pc)[k]
    BY <2>0, HandedIs, MemoryIs
  <2>4. Len(handed) = Len(out) /\ Len(handed') = Len(out') + txleft'
    BY <1>0, <2>1, <2>3
  <2>5. \A i \in 1..Len(out') : out'[i] = handed'[i]
    BY <1>0, <2>1, <2>3, <2>4
  <2>6. ASSUME NEW k \in 1..txleft'
        PROVE  handed'[Len(out') + k] = Memory(txfrom)'[txnum' - txleft' + k]
    <3>1. txnum' - txleft' + k = k
      BY <2>1, <2>3
    <3> QED
      BY <2>1, <2>2, <2>3, <2>4, <3>1
  <2>7. ASSUME program = "echo"
        PROVE  <<pc, pc'>> \in {<<3, 4>>, <<7, 1>>}
    <3>1. Script = EchoScript
      BY <2>7 DEF Script
    <3>2. pc = 3 \/ pc = 7
      BY <2>1, <2>7, ScriptIs DEF MainTypes
    <3> QED
      BY <2>1, <2>7, <3>1, <3>2, EchoIs DEF Step, Onward
  <2> QED
    BY <2>1, <2>4, <2>5, <2>6, <2>7 DEF TxInv, main
<1>3. CASE UNCHANGED <<program, tx>>
  <2>1. UNCHANGED <<program, txfrom, txnum, txleft, out, handed>>
    BY <1>3 DEF tx
  <2>2. txleft > 0 =>
          /\ Memory(txfrom)' = Memory(txfrom)
          /\ program = "echo" => <<txfrom, pc'>> \in {<<3, 4>>, <<7, 1>>, <<7, 2>>, <<7, 3>>}
    BY <1>3, MemoryStays
  <2>3. \A k \in 1..txleft' : handed'[Len(out') + k] = Memory(txfrom)'[txnum' - txleft' + k]
    BY <1>0, <2>1, <2>2
  <2> QED
    BY <1>0, <2>1, <2>2, <2>3 DEF TxInv
<1>4. (~Fetch /\ ~((uartWriteBlocking \/ WriteCommand \/ WriteCommandInverted) /\ txleft = 0))
        => UNCHANGED <<program, tx>>
  BY DEF Next, Main, Arrive, uartWriteBlocking, WriteCommand, WriteCommandInverted, Busy, DelayStep,
         AwaitByte, ReadC, TakeAvailable, DrainNothing, DrainStart, DrainStep, DrainReturn, vars, main
<1> QED
  BY <1>1, <1>2, <1>3, <1>4

-----------------------------------------------------------------------------
\* Until an overrun the count is the number of unread bytes.
LEMMA AvailableIs == Intact => uartAvailable = Unread
BY RingAssumption DEF Intact, RingTypeOK, DmaAhead, uartAvailable, Wrap, Slots

\* A read that goes on takes a byte of the gap, one that returns has copied all
\* it was asked for.
LEMMA GapStep ==
  ASSUME RingTypeOK, reading, left <= Gap
  PROVE  /\ uartReadStep => left' <= Gap' /\ reading'
         /\ uartReadReturn => left' = 0 /\ ~reading'
<1>1. /\ rxBufferReadPos \in 0..(RXBUF_SIZE - 1) /\ rxBufferEnd \in 0..(RXBUF_SIZE - 1)
      /\ left \in Nat /\ RXBUF_SIZE \in Nat
  BY RingAssumption DEF RingTypeOK, Slots
<1>2. ASSUME uartReadStep PROVE left' <= Gap' /\ reading'
  <2>1. /\ rxBufferReadPos # rxBufferEnd /\ rxBufferReadPos' = Advance(rxBufferReadPos)
        /\ left' = left - 1 /\ rxBufferEnd' = rxBufferEnd /\ reading' = reading
    BY <1>2 DEF uartReadStep, ReadLoop, Take
  <2>2. Gap' = Gap - 1 /\ Gap \in Int
    BY <1>1, <2>1 DEF Gap, Advance
  <2> QED
    BY <1>1, <2>1, <2>2
<1>3. ASSUME uartReadReturn PROVE left' = 0 /\ ~reading'
  <2>1. (rxBufferReadPos = rxBufferEnd \/ ~(left > 0)) /\ left' = left /\ reading' = FALSE
    BY <1>3 DEF uartReadReturn, ReadLoop
  <2>2. rxBufferReadPos = rxBufferEnd => Gap = 0
    BY <1>1 DEF Gap
  <2> QED
    BY <1>1, <2>1, <2>2
<1> QED
  BY <1>2, <1>3

LEMMA CountStep == IInv /\ MainTypes /\ CountInv /\ [Next]_vars => CountInv'
<1> SUFFICES ASSUME IInv, MainTypes, CountInv, [Next]_vars, ~overrun'
             PROVE  /\ At({Drain})' /\ ~reading' => num' <= Unread'
                    /\ reading' => left' <= Gap'
                    /\ At({SendBuffer})' => left' = 0
  BY DEF CountInv
<1>1. [RingNext]_ringvars /\ RingTypeOK
  BY ProgramStep DEF IInv
<1>2. /\ ~overrun /\ Intact
      /\ \A b \in Bytes : Receive(b) => Unread < RXBUF_SIZE - 1
  BY <1>1, NotOverrun DEF IInv
<1>3. /\ At({Drain}) /\ ~reading => num <= Unread
      /\ reading => left <= Gap
      /\ At({SendBuffer}) => left = 0
  BY <1>2 DEF CountInv
<1>4. /\ program \in Programs /\ pc \in 1..(Len(Script) + 1) /\ num \in Nat
      /\ reading => At({Drain})
  BY RingAssumption DEF MainTypes, Slots
<1>5. Unread \in Nat /\ left \in Nat
  BY <1>2, RingAssumption DEF Intact, DmaAhead, RingTypeOK
\* A step of the program that leaves the ring alone, from elsewhere.
<1>6. ASSUME UNCHANGED <<program, reading>>, Script[pc] \notin {TakeNum, Drain},
             pc \in DOMAIN Script, Step
      PROVE  ~At({Drain})' /\ ~At({SendBuffer})' /\ ~reading'
  <2>1. ~reading
    BY <1>4, <1>6 DEF At
  <2>2. pc' \in 1..(Len(Script) + 1) /\ (pc' = pc + 1 \/ pc' = 1)
    BY <1>6, StepIs
  <2> QED
    BY <1>6, <2>1, <2>2, ReachedFrom
<1>7. CASE Arrive
  <2>1. PICK b \in Bytes : Receive(b)
    BY <1>7 DEF Arrive
  <2>2. /\ UNCHANGED <<program, pc, num, reading, left, rxBufferReadPos, rxBufferEnd, consumed>>
        /\ received' = Append(received, b)
    BY <1>7, <2>1 DEF Arrive, Receive, main
  <2>3. Unread' = Unread + 1
    BY <1>1, <2>1, <2>2 DEF Unread, RingTypeOK
  <2>4. UNCHANGED <<Script, Gap>>
    BY <2>2 DEF Script, Gap
  <2> QED
    BY <1>3, <1>4, <1>5, <2>2, <2>3, <2>4 DEF At
<1>8. CASE Fetch \/ UNCHANGED vars
  <2>1. UNCHANGED <<program, pc, num, reading, left, rxBufferReadPos, rxBufferEnd, consumed, received>>
    BY <1>8 DEF Fetch, vars, main, ringvars
  <2>2. UNCHANGED <<Script, Gap, Unread>>
    BY <2>1 DEF Script, Gap, Unread
  <2> QED
    BY <1>3, <2>1, <2>2 DEF At
<1>9. CASE uartWriteBlocking \/ WriteCommand \/ WriteCommandInverted
  <2>1. /\ Script[pc] \notin {TakeNum, Drain} /\ pc \in DOMAIN Script /\ Step
        /\ UNCHANGED <<program, reading>>
    BY <1>9, KindsDiffer
       DEF uartWriteBlocking, WriteCommand, WriteCommandInverted, Transmit, Busy, ringvars, main, At
  <2> QED
    BY <1>6, <2>1
<1>10. CASE DelayStep \/ AwaitByte
  <2>1. /\ Script[pc] \notin {TakeNum, Drain} /\ pc \in DOMAIN Script /\ Step
        /\ UNCHANGED <<program, reading>>
    BY <1>10, KindsDiffer DEF DelayStep, AwaitByte, ringvars, main, At
  <2> QED
    BY <1>6, <2>1
<1>11. CASE ReadC
  <2>1. /\ Script[pc] \notin {TakeNum, Drain} /\ pc \in DOMAIN Script /\ Step
        /\ UNCHANGED <<program, reading>>
    BY <1>11, KindsDiffer DEF ReadC, uartReadByte, At
  <2> QED
    BY <1>6, <2>1
<1>12. CASE TakeAvailable
  <2>1. /\ Script[pc] = TakeNum /\ pc \in DOMAIN Script /\ Step /\ num' = uartAvailable
        /\ UNCHANGED <<program, reading, received, consumed>>
    BY <1>12 DEF TakeAvailable, ringvars, At
  <2>2. ~reading
    BY <1>4, <2>1, KindsDiffer DEF At
  <2>3. ~At({SendBuffer})'
    BY <2>1, StepIs, ReachedFrom, KindsDiffer
  <2>4. num' = Unread' /\ Unread' = Unread
    BY <1>2, <2>1, AvailableIs DEF Unread
  <2> QED
    BY <1>5, <2>1, <2>2, <2>3, <2>4
<1>13. CASE DrainNothing
  <2>1. /\ Script[pc] = Drain /\ pc \in DOMAIN Script /\ ~reading
        /\ Onward(IF program = "echo" THEN 2 ELSE 1)
        /\ UNCHANGED <<program, reading>>
    BY <1>13 DEF DrainNothing, ringvars, main, At
  <2>2. CASE program = "echo"
    <3>1. Script' = Script /\ pc' = 1
      <4>1. pc = 6 /\ Len(Script) = 7
        BY <1>4, <2>1, <2>2, ScriptIs, EchoIs DEF Script
      <4>2. pc' = 1
        BY <2>1, <2>2, <4>1 DEF Onward
      <4> QED
        BY <2>1, <4>2 DEF Script
    <3>2. Script[1] \notin {Drain, SendBuffer}
      BY <1>4, ScriptIs
    <3> QED
      BY <2>1, <3>1, <3>2 DEF At
  <2>3. CASE program # "echo"
    <3>1. Step
      BY <2>1, <2>3 DEF Step
    <3>2. ~At({Drain})'
      BY <2>1, <3>1, StepIs, ReachedFrom, KindsDiffer
    <3>3. ~At({SendBuffer})'
      <4>1. Script' = Script
        BY <2>1 DEF Script
      <4> QED
        BY <1>4, <2>3, <4>1, ScriptIs DEF At
    <3> QED
      BY <2>1, <3>2, <3>3
  <2> QED
    BY <2>2, <2>3
<1>14. CASE DrainStart
  <2>1. /\ At({Drain}) /\ ~reading /\ reading' = TRUE /\ left' = num /\ rxBufferEnd' = dmapos
        /\ UNCHANGED <<program, pc, rxBufferReadPos>>
    BY <1>14 DEF DrainStart, uartRead, main
  <2>2. Gap' = uartAvailable /\ num <= Unread
    BY <1>3, <2>1 DEF Gap, uartAvailable
  <2>3. ~At({SendBuffer})'
    BY <2>1, KindsDiffer DEF At, Script
  <2> QED
    BY <1>2, <2>1, <2>2, <2>3, AvailableIs
<1>15. CASE DrainStep
  <2>1. /\ At({Drain}) /\ uartReadStep /\ reading /\ UNCHANGED <<program, pc>>
    BY <1>15 DEF DrainStep, uartReadStep
  <2>2. left' <= Gap' /\ reading'
    BY <1>1, <1>3, <2>1, GapStep
  <2>3. ~At({SendBuffer})'
    BY <2>1, KindsDiffer DEF At, Script
  <2> QED
    BY <2>2, <2>3
<1>16. CASE DrainReturn
  <2>1. /\ Script[pc] = Drain /\ pc \in DOMAIN Script /\ Step /\ uartReadReturn /\ reading
        /\ program' = program
    BY <1>16 DEF DrainReturn, uartReadReturn, main, At
  <2>2. left' = 0 /\ ~reading'
    BY <1>1, <1>3, <2>1, GapStep
  <2>3. ~At({Drain})'
    BY <2>1, StepIs, ReachedFrom, KindsDiffer
  <2> QED
    BY <2>2, <2>3
<1> QED
  BY <1>7, <1>8, <1>9, <1>10, <1>11, <1>12, <1>13, <1>14, <1>15, <1>16 DEF Next, Main

-----------------------------------------------------------------------------
\* The scripts of the two AT programs: what follows a command or a wait.
LEMMA CommandScripts ==
  ASSUME program \in Programs, program # "echo"
  PROVE  /\ program \in {"wifi", "ble"}
         /\ \A k \in DOMAIN Script :
              /\ Script[k] \in {Delay, Write, WriteInverted, TakeNum, Drain, Await}
              /\ Script[k] = WriteInverted => program = "wifi"
              /\ program = "wifi" /\ Script[k] \in {Write, WriteInverted} =>
                   Script[k + 1] \in {Delay, Write}
              /\ program = "wifi" /\ Script[k] = Await => Script[k + 1] = Delay
<1>1. program \in {"wifi", "ble"}
  BY ProgramsAssumption
<1>2. CASE program = "wifi"
  <2>1. Script = WifiScript
    BY <1>2 DEF Script
  <2> QED
    BY <1>2, <2>1, WifiIs
<1>3. CASE program = "ble"
  <2>1. Script = BleScript
    BY <1>3 DEF Script
  <2> QED
    BY <1>3, <2>1, BleIs, KindsDiffer
<1> QED
  BY <1>1, <1>2, <1>3

\* The program goes past what is no command.
LEMMA PassedBy ==
  ASSUME MainTypes, SinceLast, pc \in DOMAIN Script, Step, ~IsCommand(pc),
         program # "echo", UNCHANGED <<program, handed>>
  PROVE  SinceLast'
<1>1. /\ Script' = Script /\ DOMAIN Script = 1..Len(Script) /\ Len(Script) \in Nat
      /\ pc \in 1..Len(Script)
      /\ \A k : IsCommand(k)' = IsCommand(k)
      /\ \A k : IsCommand(k) => k \in 1..Len(Script)
  BY ScriptIs DEF Script, MainTypes, IsCommand
<1>2. pc' = pc + 1 \/ (pc' = 1 /\ pc = Len(Script) /\ program = "ble")
  BY StepIs, CommandScripts DEF MainTypes
<1>3. CASE handed = <<>>
  <2>1. \A k \in 1..(pc - 1) : ~IsCommand(k)
    BY <1>3 DEF SinceLast
  <2>2. \A k \in 1..(pc' - 1) : ~IsCommand(k)
    BY <1>1, <1>2, <2>1
  <2> QED
    BY <1>1, <1>3, <2>2 DEF SinceLast
<1>4. CASE handed # <<>>
  <2> DEFINE p == handed[Len(handed)][1]
  <2>1. /\ IsCommand(p)
        /\ \/ p < pc /\ \A k \in (p + 1)..(pc - 1) : ~IsCommand(k)
           \/ /\ pc <= p /\ program = "ble"
              /\ \A k \in DOMAIN Script : k < pc \/ k > p => ~IsCommand(k)
    BY <1>4 DEF SinceLast
  <2>2. p' = p
    OBVIOUS
  <2> HIDE DEF p
  <2>3. p \in 1..Len(Script) /\ p # pc
    BY <1>1, <2>1
  <2>4. \/ p < pc' /\ \A k \in (p + 1)..(pc' - 1) : ~IsCommand(k)
        \/ /\ pc' <= p /\ program = "ble"
           /\ \A k \in DOMAIN Script : k < pc' \/ k > p => ~IsCommand(k)
    <3>1. CASE p < pc /\ \A k \in (p + 1)..(pc - 1) : ~IsCommand(k)
      BY <1>1, <1>2, <2>3, <3>1
    <3>2. CASE pc <= p /\ program = "ble" /\ \A k \in DOMAIN Script : k < pc \/ k > p => ~IsCommand(k)
      BY <1>1, <1>2, <2>3, <3>2
    <3> QED
      BY <2>1, <3>1, <3>2
  <2> QED
    BY <1>1, <1>4, <2>1, <2>2, <2>4 DEF SinceLast, p
<1> QED
  BY <1>3, <1>4

\* A command more on the line.
LEMMA OneMore ==
  ASSUME MainTypes, LineInv, IsCommand(pc), program # "echo", Transmit, Step
  PROVE  /\ Len(handed') % 2 = 0
         /\ InScriptOrder(handed)'
         /\ SinceLast'
<1>1. /\ Script' = Script /\ DOMAIN Script = 1..Len(Script) /\ Len(Script) \in Nat
      /\ program' = program /\ pc \in 1..Len(Script)
      /\ \A k : IsCommand(k)' = IsCommand(k)
      /\ \A k : IsCommand(k) => k \in 1..Len(Script)
      /\ \A p, q : IsNextCommand(p, q)' = IsNextCommand(p, q)
  BY ScriptIs DEF Script, MainTypes, IsCommand, IsNextCommand, Transmit, main
<1>2. pc' = pc + 1 \/ (pc' = 1 /\ pc = Len(Script) /\ program = "ble")
  BY <1>1, StepIs, CommandScripts DEF MainTypes
<1>3. Script[pc] \notin {SendByte, SendBuffer}
  BY KindsDiffer DEF IsCommand
<1>4. Count = 2 /\ Memory(pc) = <<<<pc, 1>>, <<pc, 2>>>>
  BY <1>3, Zenon DEF Count, Memory
<1> DEFINE L == Len(handed)
<1>5. /\ handed \in Seq(Sent) /\ L \in Nat /\ L % 2 = 0 /\ InScriptOrder(handed) /\ SinceLast
  BY DEF MainTypes, LineInv
<1>6. /\ handed' \in Seq(Sent) /\ Len(handed') = L + 2
      /\ \A i \in 1..L : handed'[i] = handed[i]
      /\ handed'[L + 1] = <<pc, 1>> /\ handed'[L + 2] = <<pc, 2>>
  <2>1. /\ handed' \in Seq(Sent) /\ Len(handed') = Len(handed) + 2
        /\ \A i \in 1..Len(handed) : handed'[i] = handed[i]
        /\ \A k \in 1..2 : handed'[Len(handed) + k] = Memory(pc)[k]
    BY <1>1, <1>4, HandedIs
  <2>2. 1 \in 1..2 /\ 2 \in 1..2
    OBVIOUS
  <2> QED
    BY <1>4, <2>1, <2>2
<1> DEFINE first(q) == IsCommand(q) /\ \A k \in 1..(q - 1) : ~IsCommand(k)
           good(s, n) == IF n % 2 = 0 THEN s[n] = <<s[n - 1][1], 2>>
                         ELSE /\ s[n] = <<s[n][1], 1>>
                              /\ IF n = 1 THEN first(s[n][1])
                                 ELSE IsNextCommand(s[n - 1][1], s[n][1])
<1>7. /\ \A n \in 1..L : good(handed, n)
      /\ (\A n \in 1..(L + 2) : good(handed', n)) => InScriptOrder(handed)'
  <2>1. DOMAIN handed = 1..L /\ DOMAIN handed' = 1..(L + 2)
    BY <1>5, <1>6
  <2>2. \A n \in 1..L : good(handed, n)
    BY <1>5, <2>1 DEF InScriptOrder
  <2>3. ASSUME \A n \in 1..(L + 2) : good(handed', n)
        PROVE  InScriptOrder(handed)'
    <3>1. \A n \in DOMAIN handed' : good(handed', n)
      BY <2>1, <2>3
    <3> HIDE DEF L
    <3> QED
      BY <1>1, <3>1, Zenon DEF InScriptOrder
  <2> QED
    BY <2>2, <2>3
<1>8. IF handed = <<>> THEN first(pc) ELSE IsNextCommand(handed[L][1], pc)
  BY <1>1, <1>5 DEF SinceLast, IsNextCommand
<1> HIDE DEF L, first
<1>9. ASSUME NEW n \in 1..(L + 2) PROVE good(handed', n)
  <2>1. CASE n \in 1..L
    <3>1. good(handed, n) /\ handed'[n] = handed[n]
      BY <1>6, <1>7, <2>1
    <3>2. CASE n = 1
      BY <3>1, <3>2
    <3>3. CASE n # 1
      <4>1. n - 1 \in 1..L
        BY <1>5, <2>1, <3>3
      <4>2. handed'[n - 1] = handed[n - 1]
        BY <1>6, <4>1
      <4> HIDE DEF good
      <4> QED
        BY <3>1, <3>3, <4>2, Zenon DEF good
    <3> QED
      BY <3>2, <3>3
  <2>2. CASE n = L + 1
    <3>1. n % 2 = 1 /\ n - 1 = L
      BY <1>5, <2>2
    <3>2. handed'[n] = <<pc, 1>> /\ handed'[n][1] = pc
      BY <1>6, <2>2
    <3>3. CASE L = 0
      <4>1. n = 1 /\ handed = <<>>
        BY <1>5, <2>2, <3>3 DEF L
      <4> QED
        BY <1>8, <3>1, <3>2, <4>1
    <3>4. CASE L # 0
      <4>1. n # 1 /\ handed # <<>> /\ L \in 1..L
        BY <1>5, <2>2, <3>4 DEF L
      <4>2. handed'[n - 1] = handed[L]
        BY <1>6, <3>1, <4>1
      <4> QED
        BY <1>8, <3>1, <3>2, <4>1, <4>2
    <3> QED
      BY <3>3, <3>4
  <2>3. CASE n = L + 2
    <3>1. n % 2 = 0 /\ n - 1 = L + 1
      BY <1>5, <2>3
    <3>2. handed'[n] = <<pc, 2>> /\ handed'[n - 1] = <<pc, 1>>
      BY <1>6, <2>3, <3>1
    <3> QED
      BY <3>1, <3>2
  <2> QED
    BY <1>5, <2>1, <2>2, <2>3
<1>10. SinceLast'
  <2>1. handed' # <<>> /\ handed'[Len(handed')][1] = pc
    BY <1>5, <1>6
  <2>2. \/ pc < pc' /\ \A k \in (pc + 1)..(pc' - 1) : ~IsCommand(k)
        \/ /\ pc' <= pc /\ program = "ble"
           /\ \A k \in DOMAIN Script : k < pc' \/ k > pc => ~IsCommand(k)
    <3>1. pc \in 1..Len(Script) /\ DOMAIN Script = 1..Len(Script) /\ Len(Script) \in Nat
      BY <1>1
    <3>2. CASE pc' = pc + 1
      BY <3>1, <3>2
    <3>3. CASE pc' = 1 /\ pc = Len(Script) /\ program = "ble"
      BY <3>1, <3>3
    <3> QED
      BY <1>2, <3>2, <3>3
  <2> QED
    BY <1>1, <2>1, <2>2 DEF SinceLast
<1>11. Len(handed') % 2 = 0
  BY <1>5, <1>6
<1> QED
  BY <1>7, <1>9, <1>10, <1>11

LEMMA LineStep == MainTypes /\ LineInv /\ [Next]_vars => LineInv'
<1> SUFFICES ASSUME MainTypes, LineInv, [Next]_vars, program # "echo" PROVE LineInv'
  <2>1. [Next]_vars => program' = program
    <3>1. Arrive \/ Fetch \/ UNCHANGED vars => program' = program
      BY DEF Arrive, Fetch, vars, main
    <3>2. uartWriteBlocking \/ WriteCommand \/ WriteCommandInverted => program' = program
      BY DEF uartWriteBlocking, WriteCommand, WriteCommandInverted, Transmit, Busy, main
    <3>3. DelayStep \/ AwaitByte \/ ReadC \/ TakeAvailable => program' = program
      BY DEF DelayStep, AwaitByte, ReadC, TakeAvailable, main
    <3>4. DrainNothing \/ DrainStart \/ DrainStep \/ DrainReturn => program' = program
      BY DEF DrainNothing, DrainStart, DrainStep, DrainReturn, main
    <3> QED
      BY <3>1, <3>2, <3>3, <3>4 DEF Next, Main
  <2> QED
    BY <2>1 DEF LineInv
<1>0. /\ program \in Programs /\ Len(Script) \in Nat /\ DOMAIN Script = 1..Len(Script)
      /\ pc \in 1..(Len(Script) + 1) /\ txleft \in Nat
  BY ScriptIs DEF MainTypes
<1>1. /\ Len(handed) % 2 = 0 /\ InScriptOrder(handed) /\ SinceLast
      /\ program = "wifi" /\ At({TakeNum, Drain, WriteInverted}) => txleft = 0
  BY DEF LineInv
<1>2. ASSUME UNCHANGED <<program, pc, handed>>, txleft' = txleft \/ (txleft > 0 /\ txleft' = txleft - 1)
      PROVE  LineInv'
  <2>1. Script' = Script
    BY <1>2 DEF Script
  <2>2. InScriptOrder(handed)' /\ SinceLast'
    BY <1>1, <1>2, <2>1 DEF InScriptOrder, IsCommand, IsNextCommand, SinceLast
  <2>3. At({TakeNum, Drain, WriteInverted})' = At({TakeNum, Drain, WriteInverted})
    BY <1>2, <2>1 DEF At
  <2>4. program' = "wifi" /\ At({TakeNum, Drain, WriteInverted})' => txleft' = 0
    BY <1>0, <1>1, <1>2, <2>3
  <2> QED
    BY <1>1, <1>2, <2>2, <2>4 DEF LineInv
\* The program passes something that is no command.
<1>3. ASSUME UNCHANGED <<program, handed, txleft>>, pc \in DOMAIN Script, Step, ~IsCommand(pc),
             \/ txleft = 0
             \/ (program = "wifi" /\ Script[pc] \in {Await, TakeNum, Drain})
      PROVE  LineInv'
  <2>1. Script' = Script
    BY <1>3 DEF Script
  <2>2. SinceLast'
    BY <1>1, <1>3, PassedBy
  <2>3. InScriptOrder(handed)'
    BY <1>1, <1>3, <2>1 DEF InScriptOrder, IsCommand, IsNextCommand
  <2>4. program' = "wifi" /\ At({TakeNum, Drain, WriteInverted})' => txleft' = 0
    <3>1. CASE Script[pc] = Await /\ program = "wifi"
      <4>1. pc' = pc + 1 /\ Script[pc + 1] = Delay
        BY <1>0, <1>3, <3>1, StepIs, CommandScripts
      <4> QED
        BY <2>1, <4>1, KindsDiffer DEF At
    <3>2. CASE Script[pc] \in {TakeNum, Drain} /\ program = "wifi"
      BY <1>1, <1>3, <3>2 DEF At
    <3> QED
      BY <1>3, <3>1, <3>2
  <2> QED
    BY <1>1, <1>3, <2>2, <2>3, <2>4 DEF LineInv
<1>4. CASE Arrive \/ Fetch \/ UNCHANGED vars
  <2>1. UNCHANGED <<program, pc, handed>>
    BY <1>4 DEF Arrive, Fetch, vars, main, tx
  <2>2. txleft' = txleft \/ (txleft > 0 /\ txleft' = txleft - 1)
    BY <1>4 DEF Arrive, Fetch, vars, tx
  <2> QED
    BY <1>2, <2>1, <2>2
<1>5. CASE uartWriteBlocking \/ WriteCommand \/ WriteCommandInverted
  <2>1. pc \in DOMAIN Script /\ Script[pc] \in {Write, WriteInverted} /\ IsCommand(pc)
    BY <1>0, <1>5, CommandScripts, KindsDiffer
       DEF uartWriteBlocking, WriteCommand, WriteCommandInverted, At, IsCommand
  <2>2. Script[pc] = WriteInverted => ~Busy
    BY <1>0, <1>1, <2>1, CommandScripts DEF Busy, At
  <2>3. Transmit /\ Step
    BY <1>5, <2>1, <2>2, KindsDiffer, Zenon
       DEF uartWriteBlocking, WriteCommand, WriteCommandInverted, At
  <2>4. program' = program /\ Script' = Script
    BY <2>3 DEF Transmit, main, Script
  <2>5. Len(handed') % 2 = 0 /\ InScriptOrder(handed)' /\ SinceLast'
    BY <2>1, <2>3, OneMore
  <2>6. ASSUME program = "wifi" PROVE ~At({TakeNum, Drain, WriteInverted})'
    <3>1. pc' = pc + 1 /\ Script[pc + 1] \in {Delay, Write}
      BY <1>0, <2>1, <2>3, <2>6, StepIs, CommandScripts
    <3> QED
      BY <2>4, <3>1, KindsDiffer DEF At
  <2> QED
    BY <2>4, <2>5, <2>6 DEF LineInv
<1>6. CASE DelayStep \/ AwaitByte
  <2>1. /\ pc \in DOMAIN Script /\ Step /\ UNCHANGED <<program, handed, txleft>>
        /\ ((Script[pc] = Delay /\ txleft = 0) \/ Script[pc] = Await)
    BY <1>6 DEF DelayStep, AwaitByte, At, main, tx
  <2>2. Script[pc] = Await => program = "wifi"
    <3>1. program = "ble" => Script = BleScript /\ Script[pc] # Await
      BY <2>1, BleIs, KindsDiffer DEF Script
    <3> QED
      BY <1>0, <3>1, CommandScripts
  <2> QED
    BY <1>3, <2>1, <2>2, KindsDiffer DEF IsCommand
<1>7. ~ReadC
  BY <1>0, CommandScripts, KindsDiffer DEF ReadC, At
<1>8. CASE TakeAvailable \/ DrainNothing \/ DrainReturn
  <2>1. /\ pc \in DOMAIN Script /\ Step /\ UNCHANGED <<program, handed, txleft>>
        /\ Script[pc] \in {TakeNum, Drain}
    BY <1>8 DEF TakeAvailable, DrainNothing, DrainReturn, Step, At, main, tx
  <2>2. ~IsCommand(pc)
    BY <2>1, KindsDiffer DEF IsCommand
  <2>3. CASE program = "wifi"
    BY <1>3, <2>1, <2>2, <2>3
  <2>4. CASE program # "wifi"
    <3>1. SinceLast' /\ Script' = Script
      BY <1>1, <2>1, <2>2, PassedBy DEF Script
    <3>2. InScriptOrder(handed)'
      BY <1>1, <2>1, <3>1 DEF InScriptOrder, IsCommand, IsNextCommand
    <3> QED
      BY <1>1, <2>1, <2>4, <3>1, <3>2 DEF LineInv
  <2> QED
    BY <2>3, <2>4
<1>9. CASE DrainStart \/ DrainStep
  <2>1. UNCHANGED <<program, pc, handed, txleft>>
    BY <1>9 DEF DrainStart, DrainStep, main, tx
  <2> QED
    BY <1>2, <2>1
<1> QED
  BY <1>4, <1>5, <1>6, <1>7, <1>8, <1>9 DEF Next, Main

-----------------------------------------------------------------------------
\* The inductive invariant of the three programs.
ProgramInv == IInv /\ MainTypes /\ TxInv /\ CountInv /\ LineInv

LEMMA ProgramInit == Init => ProgramInv
<1> SUFFICES ASSUME Init PROVE ProgramInv
  OBVIOUS
<1>1. /\ RingInit /\ program \in Programs /\ pc = 1 /\ num = 0 /\ c = 0
      /\ buffer = [i \in 1..RXBUF_SIZE |-> 0]
      /\ txfrom = 1 /\ txnum = 0 /\ txleft = 0 /\ out = <<>> /\ handed = <<>>
  BY DEF Init
<1>2. /\ Len(Script) \in Nat /\ Len(Script) >= 7 /\ DOMAIN Script = 1..Len(Script)
      /\ Script[1] \notin {Drain, SendBuffer}
  BY <1>1, ScriptIs
<1>3. ~reading
  BY <1>1 DEF RingInit
<1>4. MainTypes
  <2>1. num \in Slots /\ buffer \in [1..RXBUF_SIZE -> Nat]
    BY <1>1, RingAssumption DEF Slots
  <2>2. out \in Seq(Sent) /\ handed \in Seq(Sent)
    BY <1>1
  <2> QED
    BY <1>1, <1>2, <1>3, <2>1, <2>2 DEF MainTypes
<1>5. TxInv
  BY <1>1 DEF TxInv
<1>6. CountInv
  BY <1>1, <1>2, <1>3 DEF CountInv, At
<1>7. LineInv
  BY <1>1 DEF LineInv, InScriptOrder, SinceLast
<1> QED
  BY <1>1, <1>4, <1>5, <1>6, <1>7, InitInv DEF ProgramInv

LEMMA ProgramKeeps == ProgramInv /\ [Next]_vars => ProgramInv'
<1> SUFFICES ASSUME ProgramInv, [Next]_vars PROVE ProgramInv'
  OBVIOUS
<1>1. IInv /\ RingTypeOK /\ MainTypes /\ TxInv /\ CountInv /\ LineInv
  BY DEF ProgramInv, IInv
<1> QED
  BY <1>1, ProgramStep, NextInv, TypesStep, TxStep, CountStep, LineStep DEF ProgramInv

LEMMA ProgramAlways == Spec => []ProgramInv
BY ProgramInit, ProgramKeeps, PTL DEF Spec

\* Each of the three programs uses the receive ring as RingSpec says.
THEOREM ProgramsImplementRing == Spec => RingSpec
<1>1. Init => RingInit
  BY DEF Init
<1>2. ProgramInv /\ [Next]_vars => [RingNext]_ringvars
  BY ProgramStep DEF ProgramInv
<1> QED
  BY <1>1, <1>2, ProgramAlways, PTL DEF Spec, RingSpec

\* So in each of them the count is right modulo the size of the ring, and the
\* ring is a FIFO until the sender gets that size ahead.
THEOREM ProgramsKeepRing == Spec => []RingTypeOK /\ []AvailableModulo /\ FifoUntilOverrun
BY ProgramsImplementRing, RingTypes, RingAvailableModulo, RingFifoUntilOverrun, PTL

\* What is on the line is what the memory held when it was handed over, although
\* the transmitter fetches it later and main fills the memory again.
THEOREM ProgramsSendAsHanded == Spec => []SentAsHanded
<1>1. ProgramInv => SentAsHanded
  <2> SUFFICES ASSUME ProgramInv PROVE SentAsHanded
    OBVIOUS
  <2>1. /\ out \in Seq(Sent) /\ handed \in Seq(Sent) /\ txleft \in Nat
        /\ Len(handed) = Len(out) + txleft
        /\ \A i \in 1..Len(out) : out[i] = handed[i]
    BY DEF ProgramInv, MainTypes, TxInv
  <2>2. Len(out) <= Len(handed) /\ \A i \in DOMAIN out : out[i] = handed[i]
    BY <2>1
  <2> QED
    BY <2>1, <2>2 DEF SentAsHanded, IsPrefix
<1> QED
  BY <1>1, ProgramAlways, PTL

\* A read of the echo program brings all the bytes that were counted before it,
\* whatever arrives in between, unless the sender has lapped it.
THEOREM ProgramsReadWholeCount == Spec => []ReadsWholeCount
<1>1. ProgramInv => ReadsWholeCount
  BY DEF ProgramInv, CountInv, ReadsWholeCount
<1> QED
  BY <1>1, ProgramAlways, PTL

\* The AT programs put their commands on the line one after the other, whole,
\* each once and in the order of the script, whatever the speed of the line.
THEOREM ProgramsFollowScript == Spec => []LineIsScript
<1>1. ProgramInv => LineIsScript
  <2> SUFFICES ASSUME ProgramInv, program # "echo" PROVE InScriptOrder(out)
    BY DEF LineIsScript
  <2>1. /\ out \in Seq(Sent) /\ handed \in Seq(Sent) /\ txleft \in Nat
        /\ Len(handed) = Len(out) + txleft /\ InScriptOrder(handed)
        /\ \A i \in 1..Len(out) : out[i] = handed[i]
    BY DEF ProgramInv, MainTypes, TxInv, LineInv
  <2>2. /\ Len(out) \in Nat /\ DOMAIN out = 1..Len(out) /\ DOMAIN handed = 1..Len(handed)
        /\ Len(out) <= Len(handed)
    BY <2>1
  <2>3. ASSUME NEW n \in DOMAIN out
        PROVE  IF n % 2 = 0 THEN out[n] = <<out[n - 1][1], 2>>
               ELSE /\ out[n] = <<out[n][1], 1>>
                    /\ IF n = 1 THEN IsCommand(out[n][1]) /\ \A k \in 1..(out[n][1] - 1) : ~IsCommand(k)
                       ELSE IsNextCommand(out[n - 1][1], out[n][1])
    <3>1. n \in DOMAIN handed /\ out[n] = handed[n]
      BY <2>1, <2>2
    <3>2. n # 1 => out[n - 1] = handed[n - 1]
      BY <2>1, <2>2
    <3>3. n % 2 = 0 => n # 1
      OBVIOUS
    <3>4. IF n % 2 = 0 THEN handed[n] = <<handed[n - 1][1], 2>>
          ELSE /\ handed[n] = <<handed[n][1], 1>>
               /\ IF n = 1 THEN IsCommand(handed[n][1])
                                 /\ \A k \in 1..(handed[n][1] - 1) : ~IsCommand(k)
                  ELSE IsNextCommand(handed[n - 1][1], handed[n][1])
      BY <2>1, <3>1 DEF InScriptOrder
    <3> QED
      BY <3>1, <3>2, <3>3, <3>4, Zenon
  <2> QED
    BY <2>3, Zenon DEF InScriptOrder
<1> QED
  BY <1>1, ProgramAlways, PTL
=============================================================================
