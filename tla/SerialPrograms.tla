--------------------------- MODULE SerialPrograms ---------------------------
(***************************************************************************)
(* The programs over the DMA receiver of DmaRing.  "echo" is               *)
(* demos/USART/UART_DMA: it waits for a byte and sends it back, lets data  *)
(* gather for half a second and sends that back too.  "wifi" and "ble" are *)
(* Wifi_ESP8266 and BLE_Serial: each walks through AT commands to a radio  *)
(* module, with delays, and prints what has come back.                     *)
(*                                                                         *)
(* Sending copies nothing: the functions point the transmit DMA at the     *)
(* caller's memory and return, while it fetches byte by byte.              *)
(* uartWriteBlocking waits for the transfer before; uartWriteWiFi and      *)
(* uartWriteBLE send nothing while it lasts and return RESET, so that each *)
(* command stands in a loop.  A command is abstracted to two bytes, its    *)
(* position in the program and which of the two it is.                     *)
(***************************************************************************)
EXTENDS DmaRing

CONSTANTS
  Programs,  \* which of "echo", "wifi" and "ble" are looked at
  MaxRounds  \* bound: times round the while(1) of the BLE program

\* uartWriteBlocking(&c, 1);
SendByte == "send byte"
\* uartWriteBlocking(buffer, num);
SendBuffer == "send buffer"
\* while (write(...) == RESET);
Write == "write"
\* while (write(...)); goes round again when the call has sent something
WriteInverted == "write inverted"
Delay == "delay"
\* while (available() == 0);
Await == "await"
\* c = uartReadByte();
ReadByte == "read byte"
\* num = available();
TakeNum == "take num"
\* if (num > 0) { read(buffer, num); ... }
Drain == "drain"

EchoScript == <<Await, ReadByte, SendByte, Delay, TakeNum, Drain, SendBuffer>>

WifiScript ==
  <<Delay, WriteInverted, Delay, Write, Delay, TakeNum, Drain,
    WriteInverted, Delay, Write, Delay, Write, Delay, Write, Delay, Write, Delay,
    Write, Write, Write, Write, Write, Delay, TakeNum, Drain,
    Await, Delay, TakeNum, Drain,
    Write, Delay, Write, Delay, Write, Delay, TakeNum, Drain,
    Write, Delay, TakeNum, Drain>>

BleScript ==
  <<Delay, Write, Delay, Write, Delay, Write, Delay, Write, TakeNum, Drain>>

ASSUME ProgramsAssumption ==
  /\ Programs \subseteq {"echo", "wifi", "ble"}
  /\ MaxRounds \in Nat \ {0}

VARIABLES
  program,    \* which program runs; never changes
  pc,         \* position in Script; one more when the program has ended
  round,      \* times through the script of "ble", from 1
  num,        \* main's num
  c, buffer,  \* main's variables
  txfrom,     \* the position of the call that MADDR was set by
  txnum,      \* the count the transmit DMA was given
  txleft,     \* its counter
  out,        \* history: the bytes on the line
  handed      \* history: what the memory held at the calls

main == <<program, num, c, buffer>>
tx   == <<txfrom, txnum, txleft, out, handed>>
vars == <<ringvars, main, pc, round, tx>>

\* The greeting of the echo program has been sent.
Init ==
  /\ RingInit
  /\ program \in Programs
  /\ pc = 1 /\ round = 1 /\ num = 0
  /\ c = 0 /\ buffer = [i \in 1..RXBUF_SIZE |-> 0]
  /\ txfrom = 1 /\ txnum = 0 /\ txleft = 0
  /\ out = <<>> /\ handed = <<>>

\* All but that of the Wi-Fi program are the body of a while(1).
Script ==
  IF program = "echo" THEN EchoScript
  ELSE IF program = "wifi" THEN WifiScript ELSE BleScript

At(kinds) == pc \in DOMAIN Script /\ Script[pc] \in kinds

Onward(n) ==
  IF pc + n > Len(Script) /\ program # "wifi"
  THEN /\ pc' = 1
       /\ IF program = "ble" THEN round < MaxRounds /\ round' = round + 1
          ELSE UNCHANGED round
  ELSE pc' = pc + n /\ UNCHANGED round

Step == Onward(1)

----------------------------------------------------------------------------
(* The transmitter. *)

\* What lies in the memory the call at position p sends from.
Memory(p) ==
  IF Script[p] = SendByte THEN <<c>>
  ELSE IF Script[p] = SendBuffer THEN buffer
  ELSE <<<<p, 1>>, <<p, 2>>>>

Count ==
  IF Script[pc] = SendByte THEN 1
  ELSE IF Script[pc] = SendBuffer THEN num ELSE 2

Fetch ==
  /\ txleft > 0
  /\ out' = Append(out, Memory(txfrom)[txnum - txleft + 1])
  /\ txleft' = txleft - 1
  /\ UNCHANGED <<ringvars, main, pc, round, txfrom, txnum, handed>>

Transmit ==
  /\ txfrom' = pc /\ txnum' = Count /\ txleft' = Count
  /\ handed' = handed \o SubSeq(Memory(pc), 1, Count)
  /\ UNCHANGED <<ringvars, main, out>>

\* Mutant: the loop that waits for the previous transfer is missing.
uartWriteNow == At({SendByte, SendBuffer}) /\ Transmit /\ Step

uartWriteBlocking == At({SendByte, SendBuffer}) /\ txleft = 0 /\ Transmit /\ Step

\* A call that returns RESET.
Busy == txleft > 0 /\ UNCHANGED <<ringvars, main, tx>>

\* Mutant: the loop round a command is left when the channel was busy.
WriteCommandOnce ==
  /\ At({Write})
  /\ (txleft = 0 /\ Transmit) \/ Busy
  /\ Step

WriteCommand == At({Write}) /\ txleft = 0 /\ Transmit /\ Step

\* The inverted loop leaves at the first RESET: at once if the channel is busy,
\* else at the second call, which comes long before a byte is out.
WriteCommandInverted ==
  /\ At({WriteInverted})
  /\ (txleft = 0 /\ Transmit) \/ Busy
  /\ Step

----------------------------------------------------------------------------
(* Waiting, and the receiver. *)

\* Mutant: a delay that is shorter than a command on the line.
DelayTooShort == At({Delay}) /\ Step /\ UNCHANGED <<ringvars, main, tx>>

\* The delays outlast what is on the line: half a second after one byte (87 us),
\* 100 ms or more after at most five commands (10 ms each).
DelayStep ==
  /\ At({Delay})
  /\ txleft = 0
  /\ Step
  /\ UNCHANGED <<ringvars, main, tx>>

AwaitByte ==
  /\ At({Await})
  /\ uartAvailable # 0
  /\ Step
  /\ UNCHANGED <<ringvars, main, tx>>

ReadC ==
  /\ At({ReadByte})
  /\ uartReadByte
  /\ c' = ByteRead
  /\ Step
  /\ UNCHANGED <<program, num, buffer, tx>>

TakeAvailable ==
  /\ At({TakeNum})
  /\ num' = uartAvailable
  /\ Step
  /\ UNCHANGED <<ringvars, program, c, buffer, tx>>

\* The echo program sends its buffer only if there is something in it.
DrainNothing ==
  /\ At({Drain}) /\ ~reading
  /\ num = 0
  /\ Onward(IF program = "echo" THEN 2 ELSE 1)
  /\ UNCHANGED <<ringvars, main, tx>>

DrainStart ==
  /\ At({Drain})
  /\ num > 0
  /\ uartRead(num)
  /\ UNCHANGED <<main, pc, round, tx>>

DrainStep ==
  /\ At({Drain})
  /\ uartReadStep
  /\ buffer' = [buffer EXCEPT ![num - left + 1] = RxBuffer[rxBufferReadPos]]
  /\ UNCHANGED <<program, pc, round, num, c, tx>>

DrainReturn ==
  /\ At({Drain})
  /\ uartReadReturn
  /\ Step
  /\ UNCHANGED <<main, tx>>

Arrive ==
  /\ \E b \in Bytes : Receive(b)
  /\ UNCHANGED <<main, pc, round, tx>>

Main ==
  \/ uartWriteBlocking \/ WriteCommand \/ WriteCommandInverted
  \/ DelayStep \/ AwaitByte \/ ReadC
  \/ TakeAvailable \/ DrainNothing \/ DrainStart \/ DrainStep \/ DrainReturn

Next == Arrive \/ Fetch \/ Main

\* The processor and the transmit DMA go on; nothing is assumed of the sender.
Spec == Init /\ [][Next]_vars /\ WF_vars(Main) /\ WF_vars(Fetch)

----------------------------------------------------------------------------
\* main fills its variables again while the DMA may still be fetching from one
\* of them, yet what is on the line is what they held when they were sent.
SentAsHanded == IsPrefix(out, handed)

\* uartRead finds the bytes that were counted before it was called, and perhaps
\* more: when it returns, all num bytes of buffer are fresh, although the DMA
\* went on writing. (Its return value is ignored; a sender that laps the reader
\* between the two makes it return early, and the rest of buffer is sent again.)
ReadsWholeCount == At({SendBuffer}) /\ ~overrun => left = 0

\* From a sender that never gets the size of the buffer ahead, everything comes
\* back in order and once, the last byte of a burst too.
Echoed(n) ==
  program = "echo" /\ Len(out) >= n /\ SubSeq(out, 1, n) = SubSeq(received, 1, n)

EchoesAll ==
  []~overrun => \A n \in 1..MaxBytes :
    program = "echo" /\ Len(received) >= n ~> Echoed(n)

IsCommand(p) == p \in DOMAIN Script /\ Script[p] \in {Write, WriteInverted}

\* The program comes from the command at p to that at q without another between
\* them, round its loop if it has one.
IsNextCommand(p, q) ==
  /\ IsCommand(p) /\ IsCommand(q)
  /\ \/ p < q /\ \A k \in (p + 1)..(q - 1) : ~IsCommand(k)
     \/ /\ q <= p /\ program = "ble"
        /\ \A k \in DOMAIN Script : k < q \/ k > p => ~IsCommand(k)

\* s is what the program's commands put on a line.
InScriptOrder(s) ==
  \A n \in DOMAIN s :
    IF n % 2 = 0 THEN s[n] = <<s[n - 1][1], 2>>
    ELSE /\ s[n] = <<s[n][1], 1>>
         /\ IF n = 1 THEN IsCommand(s[n][1]) /\ \A k \in 1..(s[n][1] - 1) : ~IsCommand(k)
            ELSE IsNextCommand(s[n - 1][1], s[n][1])

\* Whatever the speed of the line, the module gets every command once, whole
\* and in the order of the program: the five calls that make up the command
\* with the network's name and password run together, and the two loops that
\* are written the wrong way round neither lose their command nor send it twice.
LineIsScript == program # "echo" => InScriptOrder(out)

\* What the commands of the Wi-Fi program put on the line.
WifiLine ==
  LET commands == SelectSeq([i \in DOMAIN WifiScript |-> i],
                            LAMBDA i : WifiScript[i] \in {Write, WriteInverted})
  IN  [n \in 1..(2 * Len(commands)) |-> <<commands[(n + 1) \div 2], 2 - (n % 2)>>]

\* If the module answers when the Wi-Fi program waits for it, that gets to the
\* end of its script with the whole of it on the line.
Answers == At({Await}) ~> uartAvailable # 0

Finishes ==
  program = "wifi" /\ Answers => <>(program = "wifi" /\ out = WifiLine)

============================================================================
