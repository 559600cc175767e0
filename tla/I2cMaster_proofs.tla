-------------------------- MODULE I2cMaster_proofs --------------------------
(***************************************************************************)
(* The bytes of the I2C calls and the result of AP3216C_Init, for sensors  *)
(* that come up at any time, refuse any bytes and answer with any.         *)
(*                                                                         *)
(* The proof is an outline of every function: what holds of the bus before *)
(* each of its steps.  That a step leads from one to the next is checked   *)
(* for each kind of step, that the bus alone keeps it for each of its own. *)
(***************************************************************************)
EXTENDS I2cMaster, TLAPS

\* What holds before each step of a function, and when it has returned.
OfReadByte ==
  <<"begin", "begin", "start", "address", "asked", "writing", "written",
    "restart", "readdress", "reply", "reading", "reading", "byte", "reading", "begin">>

OfReadLen ==
  <<"begin", "begin", "start", "address", "asked", "writing", "written",
    "restart", "readdress", "reply", "reading", "byte", "reading", "byte", "byte",
    "reading", "begin">>

OfWriteLen ==
  <<"begin", "begin", "start", "address", "asked", "writing", "writing",
    "filling", "filling", "filling", "begin", "begin">>

OfWriteOneByte ==
  <<"begin", "begin", "start", "address", "asked", "writing", "written",
    "filling", "filling", "filling", "begin", "begin">>

OfWriteByte ==
  <<"begin", "begin", "start", "address", "asked", "held", "sent",
    "empty", "empty", "begin", "begin">>

Outline ==
  CASE Now.fn = "IIC2_WriteByte"       -> OfWriteByte
    [] Now.fn = "AP3216C_WriteOneByte" -> OfWriteOneByte
    [] Now.fn = "IIC_WriteLen"         -> OfWriteLen
    [] Now.fn = "IIC_ReadLen"          -> OfReadLen
    [] OTHER                           -> OfReadByte

Phase == Outline[step]

\* Nothing is left to send.
Empty == dr = NoByte /\ shift = NoByte

\* The sensor has been told the register of this call or nothing.
Told == pointer \in {NoByte, Now.reg} /\ shift \in {NoByte, Now.reg}

Started == reqs = {} /\ mode = "started" /\ Empty /\ "ADDR" \notin flags

Requested == "start" \in reqs /\ mode # "started"

Kept == mode \in {"addressing", "transmit"} => dr = NoByte

Begin == "start" \notin reqs /\ mode # "started" /\ Kept
Start1 == Kept /\ (Requested \/ Started)
Asked ==
  /\ reqs = {} /\ Empty /\ target = <<Now.dev, "w">>
  /\ mode \in {"addressing", "transmit", "refused"}
  /\ mode = "transmit" <=> "ADDR" \in flags
  /\ mode = "transmit" => pointer = NoByte
Writing == reqs = {} /\ Empty /\ mode = "transmit" /\ "ADDR" \notin flags /\ pointer = NoByte
Written == reqs = {} /\ dr = NoByte /\ mode \in {"transmit", "nack"} /\ Told
Restart == dr = NoByte /\ Told /\ ((reqs = {"start"} /\ Requested) \/ Started)
Readdress == Started /\ Told
Answered ==
  /\ target = <<Now.dev, "r">> /\ Empty /\ Told /\ reqs = {}
  /\ "RXNE" \in flags =>
       /\ origin = Now.dev
       /\ Now.dev = "ap" /\ pointer = 0 => rx = enable
Reply ==
  /\ Answered
  /\ mode \in {"addressing", "receive", "refused"}
  /\ "ADDR" \in flags => mode = "receive"
Reading == Answered /\ mode = "receive"
Filling == reqs = {} /\ mode \in {"transmit", "nack"}
Held == reqs = {} /\ Empty /\ mode = "transmit" /\ "ADDR" \in flags
Sent ==
  /\ reqs = {} /\ mode \in {"transmit", "nack"}
  /\ \/ "ADDR" \in flags /\ "BTF" \notin flags /\ shift = NoByte /\ mode = "transmit"
     \/ "ADDR" \notin flags /\ dr = NoByte /\ ("BTF" \in flags => shift = NoByte)
Drained == reqs = {} /\ Empty /\ mode \in {"transmit", "nack"} /\ "ADDR" \notin flags

\* What each name in an outline stands for.
Means(name) ==
  /\ name = "begin"     => Begin
  /\ name = "start"     => Start1
  /\ name = "address"   => Started
  /\ name = "asked"     => Asked
  /\ name = "writing"   => Writing
  /\ name = "written"   => Written
  /\ name = "restart"   => Restart
  /\ name = "readdress" => Readdress
  /\ name = "reply"     => Reply
  /\ name = "reading"   => Reading
  /\ name = "byte"      => Reading /\ "RXNE" \in flags
  /\ name = "filling"   => Filling
  /\ name = "held"      => Held
  /\ name = "sent"      => Sent
  /\ name = "empty"     => Drained

PhaseInv == Means(Phase)

LineInv ==
  /\ program \in {"chapter", "demo"}
  /\ line \in IF program = "chapter" THEN 1..4 ELSE 1..9
  /\ step \in 1..(Len(Script) + 1)

\* A 3 that the reading call of AP3216C_Init returns was in the enable register,
\* and nothing is under way that would change it; or the sensor was told nothing.
ValueInv ==
  line = 3 /\ value = 3 =>
    /\ step \in {14, 15}
    /\ Empty /\ mode \in {"receive", "idle"} /\ reqs \subseteq {"stop"}
    /\ pointer = NoByte \/ enable = 3

IInv == LineInv /\ PhaseInv /\ ValueInv

----------------------------------------------------------------------------
(* The outlines. *)

\* A step of this kind, where p holds, leads to q.
Fits(ins, p, q) ==
  LET kind == ins[1]
      arg  == ins[2]
  IN  \/ kind = "ack" /\ p \in {"begin", "reading", "byte"} /\ q = p
      \/ kind = "request" /\ \/ arg = "start" /\ p = "begin" /\ q = "start"
                             \/ arg = "start" /\ p = "written" /\ q = "restart"
                             \/ arg = "stop" /\ p \in {"begin", "reading"} /\ q = "begin"
      \/ kind = "address" /\ \/ arg = "w" /\ p = "address" /\ q = "asked"
                             \/ arg = "r" /\ p = "readdress" /\ q = "reply"
      \/ kind = "send" /\ \/ arg = "reg" /\ p = "writing" /\ q \in {"written", "filling"}
                          \/ arg = "reg" /\ p = "held" /\ q = "sent"
                          \/ arg = "data" /\ p = "filling" /\ q = "filling"
                          \/ arg = "data" /\ p = "empty" /\ q = "begin"
      \/ kind = "take" /\ p = "byte" /\ q = "reading"
      \/ kind \in Waits /\ \/ arg = "SB" /\ p = "start" /\ q = "address"
                           \/ arg = "SB" /\ p = "restart" /\ q = "readdress"
                           \/ arg = "ADDR" /\ p = "asked" /\ q = "writing" /\ kind # "note"
                           \/ arg = "ADDR" /\ p = "reply" /\ q = "reading" /\ kind \in {"forever", "return"}
                           \/ arg = "TXE" /\ p = "asked" /\ q = "held" /\ kind = "forever"
                           \/ arg = "TXE" /\ p = q /\ p \in {"writing", "filling", "empty"} /\ kind = "forever"
                           \/ arg = "TXE" /\ p = "filling" /\ q = "begin" /\ kind = "forever"
                           \/ arg = "BTF" /\ p = "written" /\ q = "filling" /\ kind = "stop"
                           \/ arg = "BTF" /\ p = "sent" /\ q = "empty" /\ kind = "note"
                           \/ arg = "RXNE" /\ p = "reading" /\ q = "byte" /\ kind = "forever"

\* The step that a wait with a limit goes on to when nothing has come.
Sound(script, out) ==
  /\ Len(script) \in 10..16
  /\ \A n \in 1..Len(script) : Fits(script[n], out[n], out[n + 1])
  /\ out[1] = "begin" /\ out[Len(script) + 1] = "begin"
  /\ \A n \in 1..Len(script) : script[n][1] = "stop" => out[Len(script)] = "begin"

LEMMA ReadByteSound == Sound(IIC_ReadByte, OfReadByte) /\ Len(IIC_ReadByte) = 14
BY DEF IIC_ReadByte, OfReadByte, Sound, Fits, Waits, AckOn, AckOff, Start, Stop, Take, Send,
       Address, Forever, OrReturn

LEMMA ReadOneByteSound ==
  Sound(AP3216C_ReadOneByte, OfReadByte) /\ Len(AP3216C_ReadOneByte) = 14
BY DEF AP3216C_ReadOneByte, IIC_ReadByte, OfReadByte, Sound, Fits, Waits, AckOn, AckOff,
       Start, Stop, Take, Send, Address, Forever, OrReturn

LEMMA ReadLenSound == Sound(IIC_ReadLen, OfReadLen)
BY DEF IIC_ReadLen, OfReadLen, Sound, Fits, Waits, AckOn, AckOff, Start, Stop, Take, Send,
       Address, Forever, OrReturn

LEMMA WriteLenSound == Sound(IIC_WriteLen, OfWriteLen)
BY DEF IIC_WriteLen, OfWriteLen, Sound, Fits, Waits, AckOn, Start, Stop, Send, Address,
       Forever, OrReturn

LEMMA WriteOneByteSound == Sound(AP3216C_WriteOneByte, OfWriteOneByte)
BY DEF AP3216C_WriteOneByte, OfWriteOneByte, Sound, Fits, Waits, AckOn, Start, Stop, Send,
       Address, Forever, OrStop

LEMMA WriteByteSound == Sound(IIC2_WriteByte, OfWriteByte)
BY DEF IIC2_WriteByte, OfWriteByte, Sound, Fits, Waits, AckOn, Start, Stop, Send, Address,
       Forever, OrNote

LEMMA ScriptSound == Sound(Script, Outline)
BY ReadByteSound, ReadOneByteSound, ReadLenSound, WriteLenSound, WriteOneByteSound,
   WriteByteSound, Zenon DEF Script, Outline

\* In the call that AP3216C_Init reads back with, a byte is taken at the last step
\* but one.
LEMMA ReadBack ==
  ASSUME LineInv, line = 3
  PROVE  /\ Now.dev = "ap" /\ Now.reg = 0
         /\ Len(Script) = 14 /\ Script[14] = Stop
         /\ \A n \in 1..14 : Script[n][1] = "take" => n = 13
<1>1. Now = ChapterCalls[3] \/ Now = DemoCalls[3]
  BY DEF Now
<1>2. /\ Now.dev = "ap" /\ Now.reg = 0
      /\ Now.fn = "IIC_ReadByte" \/ Now.fn = "AP3216C_ReadOneByte"
  BY <1>1 DEF ChapterCalls, DemoCalls, Call
<1>3. Script = IIC_ReadByte \/ Script = AP3216C_ReadOneByte
  BY <1>2 DEF Script
<1>4. /\ Len(IIC_ReadByte) = 14 /\ IIC_ReadByte[14] = Stop
      /\ \A n \in 1..14 : IIC_ReadByte[n][1] = "take" => n = 13
  BY DEF IIC_ReadByte, AckOn, AckOff, Start, Stop, Take, Send, Address, Forever, OrReturn
<1>5. /\ Len(AP3216C_ReadOneByte) = 14 /\ AP3216C_ReadOneByte[14] = Stop
      /\ \A n \in 1..14 : AP3216C_ReadOneByte[n][1] = "take" => n = 13
  BY DEF AP3216C_ReadOneByte, IIC_ReadByte, AckOn, AckOff, Start, Stop, Take, Send, Address,
         Forever, OrReturn
<1> QED
  BY <1>2, <1>3, <1>4, <1>5

----------------------------------------------------------------------------
(* The bus alone. *)

LEMMA BusKeepsMeaning ==
  ASSUME NEW name, Means(name), Bus \/ Appear, UNCHANGED Now
  PROVE  Means(name)'
<1> USE DEF Means, Begin, Start1, Started, Asked, Writing, Written, Restart, Readdress,
         Answered, Reply, Reading, Filling, Held, Sent, Drained, Empty, Told,
         Requested, Kept, devs, bus
<1>1. CASE BusStart
  BY <1>1 DEF BusStart
<1>2. CASE BusStop
  BY <1>2 DEF BusStop
<1>3. CASE Answer
  BY <1>3 DEF Answer
<1>4. CASE Refuse
  BY <1>4 DEF Refuse
<1>5. CASE ByteOut
  BY <1>5 DEF ByteOut
<1>6. CASE ByteRefused
  BY <1>6 DEF ByteRefused
<1>7. CASE ByteIn
  BY <1>7 DEF ByteIn
<1>8. CASE Appear
  BY <1>8 DEF Appear, bus
<1> QED
  BY <1>1, <1>2, <1>3, <1>4, <1>5, <1>6, <1>7, <1>8 DEF Bus

\* The wire cannot touch what the reading call has returned.
LEMMA BusKeepsValue ==
  ASSUME ValueInv, Bus \/ Appear
  PROVE  ValueInv'
<1> USE DEF ValueInv, Empty, prog, devs, bus, NoByte
<1>1. CASE BusStart
  BY <1>1 DEF BusStart
<1>2. CASE BusStop
  BY <1>2 DEF BusStop
<1>3. CASE Answer
  BY <1>3 DEF Answer
<1>4. CASE Refuse
  BY <1>4 DEF Refuse
<1>5. CASE ByteOut
  BY <1>5 DEF ByteOut
<1>6. CASE ByteRefused
  BY <1>6 DEF ByteRefused
<1>7. CASE ByteIn
  BY <1>7 DEF ByteIn
<1>8. CASE Appear
  BY <1>8 DEF Appear
<1> QED
  BY <1>1, <1>2, <1>3, <1>4, <1>5, <1>6, <1>7, <1>8 DEF Bus

LEMMA BusKeeps == IInv /\ (Bus \/ Appear) => IInv'
<1> SUFFICES ASSUME IInv, Bus \/ Appear PROVE IInv'
  OBVIOUS
<1>1. UNCHANGED <<program, line, step>>
  BY DEF Bus, BusStart, BusStop, Answer, Refuse, ByteOut, ByteRefused, ByteIn, Appear, prog
<1>2. Now' = Now /\ Script' = Script /\ Outline' = Outline
  BY <1>1 DEF Now, Script, Outline
<1>3. LineInv' /\ Phase' = Phase
  BY <1>1, <1>2 DEF IInv, LineInv, Phase
<1>4. \A name : Means(name) => Means(name)'
  BY <1>2, BusKeepsMeaning
<1>5. PhaseInv'
  <2>1. Means(Phase)
    BY DEF IInv, PhaseInv
  <2> QED
    BY <1>3, <1>4, <2>1 DEF PhaseInv
<1> QED
  BY <1>3, <1>5, BusKeepsValue DEF IInv

----------------------------------------------------------------------------
(* The steps of a function. *)

\* The next step of the same call, with what its outline says of it.
LEMMA StepOn ==
  ASSUME LineInv, ~Returned, step' = step + 1, UNCHANGED <<program, line>>
  PROVE  /\ LineInv' /\ Now' = Now /\ Script' = Script
         /\ step \in 1..Len(Script)
         /\ Fits(Script[step], Phase, Phase')
<1>1. Now' = Now /\ Script' = Script /\ Outline' = Outline
  BY DEF Now, Script, Outline
<1>2. Len(Script) \in 10..16
  BY ScriptSound DEF Sound
<1>3. step \in 1..Len(Script) /\ step + 1 \in 1..(Len(Script) + 1)
  BY <1>2 DEF LineInv, Returned
<1>4. LineInv'
  BY <1>1, <1>3 DEF LineInv
<1>5. Phase' = Outline[step + 1]
  BY <1>1 DEF Phase
<1>6. Fits(Script[step], Outline[step], Outline[step + 1])
  BY <1>3, ScriptSound DEF Sound
<1> QED
  BY <1>1, <1>3, <1>4, <1>5, <1>6 DEF Phase

\* Every step but a wait.
LEMMA WorkMeans ==
  ASSUME NEW p, NEW q, Means(p), ~Returned, Fits(Script[step], p, q), UNCHANGED Now,
         Acknowledge \/ Request \/ SendAddress \/ SendByte \/ TakeByte
  PROVE  Means(q)'
<1> DEFINE kind == Script[step][1]
           arg  == Script[step][2]
<1>0. Fits(<<kind, arg>>, p, q)
  BY DEF Fits
<1> USE DEF At, Arg, Means, Begin, Start1, Started, Asked, Writing, Written, Restart, Readdress,
         Answered, Reply, Reading, Filling, Held, Sent, Drained, Empty, Told, Requested, Kept,
         devs, bus
<1>1. CASE Acknowledge
  <2>1. kind = "ack" /\ UNCHANGED <<reqs, mode, target, flags, dr, shift, rx, origin, pointer, enable>>
    BY <1>1 DEF Acknowledge
  <2>2. p = q
    BY <1>0, <2>1 DEF Fits, Waits
  <2> HIDE DEF kind, arg
  <2> QED
    BY <2>1, <2>2
<1>2. CASE Request
  <2>1. /\ kind = "request" /\ reqs' = reqs \union {arg}
        /\ UNCHANGED <<mode, target, flags, dr, shift, rx, origin, pointer, enable>>
    BY <1>2 DEF Request
  <2> HIDE DEF kind, arg
  <2>2. \/ arg = "start" /\ p = "begin" /\ q = "start"
        \/ arg = "start" /\ p = "written" /\ q = "restart"
        \/ arg = "stop" /\ p \in {"begin", "reading"} /\ q = "begin"
    BY <1>0, <2>1 DEF Fits, Waits
  <2> QED
    BY <2>1, <2>2
<1>3. CASE SendAddress
  <2>1. /\ kind = "address" /\ mode' = "addressing" /\ target' = <<Now.dev, arg>>
        /\ flags' = flags \ {"RXNE"}
        /\ UNCHANGED <<reqs, dr, shift, rx, origin, pointer, enable>>
    BY <1>3 DEF SendAddress
  <2> HIDE DEF kind, arg
  <2>2. \/ arg = "w" /\ p = "address" /\ q = "asked"
        \/ arg = "r" /\ p = "readdress" /\ q = "reply"
    BY <1>0, <2>1 DEF Fits, Waits
  <2> QED
    BY <2>1, <2>2
<1>4. CASE SendByte
  <2>1. kind = "send" /\ flags' = flags \ {"BTF"}
        /\ UNCHANGED <<reqs, mode, target, rx, origin, pointer, enable>>
    BY <1>4 DEF SendByte
  <2>2. \/ /\ shift = NoByte /\ "ADDR" \notin flags /\ mode = "transmit"
           /\ shift' = (IF arg = "reg" THEN Now.reg ELSE Now.data) /\ UNCHANGED dr
        \/ /\ ~(shift = NoByte /\ "ADDR" \notin flags /\ mode = "transmit")
           /\ UNCHANGED shift
    BY <1>4 DEF SendByte
  <2> HIDE DEF kind, arg
  <2>3. \/ arg = "reg" /\ p = "writing" /\ q \in {"written", "filling"}
        \/ arg = "reg" /\ p = "held" /\ q = "sent"
        \/ arg = "data" /\ p = "filling" /\ q = "filling"
        \/ arg = "data" /\ p = "empty" /\ q = "begin"
    BY <1>0, <2>1 DEF Fits, Waits
  <2> QED
    BY <2>1, <2>2, <2>3
<1>5. CASE TakeByte
  <2>1. /\ kind = "take" /\ flags' = flags \ {"RXNE"}
        /\ UNCHANGED <<reqs, mode, target, dr, shift, rx, origin, pointer, enable>>
    BY <1>5 DEF TakeByte
  <2> HIDE DEF kind, arg
  <2>2. p = "byte" /\ q = "reading"
    BY <1>0, <2>1 DEF Fits, Waits
  <2> QED
    BY <2>1, <2>2
<1> QED
  BY <1>1, <1>2, <1>3, <1>4, <1>5

\* A wait that goes on, and one that is over.
LEMMA PollMeans ==
  ASSUME NEW p, NEW q, Means(p), ~Returned, Fits(Script[step], p, q), UNCHANGED Now, Poll
  PROVE  IF Flag(Arg) THEN Means(q)' ELSE Means(p)'
<1> DEFINE kind == Script[step][1]
           arg  == Script[step][2]
<1>0. Fits(<<kind, arg>>, p, q)
  BY DEF Fits
<1>1. kind \in Waits /\ UNCHANGED <<reqs, mode, target, rx, origin, pointer, enable>>
  BY DEF Poll, devs
<1>2. \/ /\ arg \in {"SB", "ADDR", "BTF"} /\ "ADDR" \in flags
         /\ flags' = flags \ {"ADDR"} /\ shift' = dr /\ dr' = NoByte
      \/ /\ ~(arg \in {"SB", "ADDR", "BTF"} /\ "ADDR" \in flags)
         /\ Flag(arg) /\ UNCHANGED <<flags, shift, dr>>
  BY DEF Poll, Arg
<1>3. \/ arg = "SB" /\ p = "start" /\ q = "address"
      \/ arg = "SB" /\ p = "restart" /\ q = "readdress"
      \/ arg = "ADDR" /\ p = "asked" /\ q = "writing"
      \/ arg = "ADDR" /\ p = "reply" /\ q = "reading"
      \/ arg = "TXE" /\ p = "asked" /\ q = "held"
      \/ arg = "TXE" /\ p = q /\ p \in {"writing", "filling", "empty"}
      \/ arg = "TXE" /\ p = "filling" /\ q = "begin"
      \/ arg = "BTF" /\ p = "written" /\ q = "filling"
      \/ arg = "BTF" /\ p = "sent" /\ q = "empty"
      \/ arg = "RXNE" /\ p = "reading" /\ q = "byte"
  BY <1>0, <1>1 DEF Fits, Waits
<1> HIDE DEF kind, arg
<1> USE DEF Means, Begin, Start1, Started, Asked, Writing, Written, Restart, Readdress,
         Answered, Reply, Reading, Filling, Held, Sent, Drained, Empty, Told, Requested, Kept,
         devs, bus, Flag
<1>4. ASSUME Flag(arg) PROVE Means(q)'
  <2>1. CASE arg = "SB"
    <3>1. UNCHANGED <<flags, shift, dr>>
      BY <1>2, <1>3, <1>4, <2>1
    <3> QED
      BY <1>1, <1>3, <1>4, <2>1, <3>1
  <2>2. CASE arg = "ADDR"
    <3>1. flags' = flags \ {"ADDR"} /\ shift' = dr /\ dr' = NoByte
      BY <1>2, <1>4, <2>2
    <3> QED
      BY <1>1, <1>3, <1>4, <2>2, <3>1
  <2>3. CASE arg = "TXE"
    BY <1>1, <1>2, <1>3, <1>4, <2>3
  <2>4. CASE arg = "BTF"
    BY <1>1, <1>2, <1>3, <1>4, <2>4
  <2>5. CASE arg = "RXNE"
    BY <1>1, <1>2, <1>3, <1>4, <2>5
  <2> QED
    BY <1>3, <2>1, <2>2, <2>3, <2>4, <2>5
<1>5. ASSUME ~Flag(arg) PROVE Means(p)'
  BY <1>1, <1>2, <1>3, <1>5
<1> QED
  BY <1>4, <1>5 DEF Arg, arg

\* A wait whose limit runs out: a START always comes, and of an address or a byte
\* that was not acknowledged nothing is left under way.
LEMMA TimeoutMeans ==
  ASSUME NEW p, NEW q, Means(p), ~Returned, Fits(Script[step], p, q), UNCHANGED Now, Timeout
  PROVE  IF At("note") THEN Means(q)' ELSE Means("begin")'
<1> DEFINE kind == Script[step][1]
           arg  == Script[step][2]
<1>0. Fits(<<kind, arg>>, p, q)
  BY DEF Fits
<1>1. /\ kind \in {"return", "note", "stop"} /\ ~Flag(arg) /\ Quiet
      /\ UNCHANGED <<reqs, mode, target, flags, dr, shift, rx, origin, pointer, enable>>
  BY DEF Timeout, Waits, Arg, bus, devs
<1>2. \/ arg = "SB" /\ p = "start"
      \/ arg = "SB" /\ p = "restart"
      \/ arg = "ADDR" /\ p = "asked" /\ kind # "note"
      \/ arg = "ADDR" /\ p = "reply" /\ kind # "note"
      \/ arg = "BTF" /\ p = "written" /\ kind = "stop"
      \/ arg = "BTF" /\ p = "sent" /\ q = "empty" /\ kind = "note"
  BY <1>0, <1>1 DEF Fits, Waits
<1>3. At("note") <=> kind = "note"
  BY DEF At
<1> HIDE DEF kind, arg
<1> USE DEF Means, Begin, Start1, Started, Asked, Writing, Written, Restart, Readdress,
         Answered, Reply, Reading, Filling, Held, Sent, Drained, Empty, Told, Requested, Kept,
         devs, bus, Flag, Quiet
<1>4. CASE arg = "SB"
  BY <1>1, <1>2, <1>4
<1>5. CASE arg = "ADDR"
  BY <1>1, <1>2, <1>3, <1>5
<1>6. CASE arg = "BTF"
  BY <1>1, <1>2, <1>3, <1>6
<1> QED
  BY <1>2, <1>4, <1>5, <1>6

\* Where the calls go on.
LEMMA NextCall ==
  ASSUME LineInv
  PROVE  Following \in IF program = "chapter" THEN 1..4 ELSE 1..9
BY DEF LineInv, Following

\* What holds of the next step is what its name in the outline stands for.
LEMMA PhaseNext ==
  ASSUME NEW q, q = Phase', Means(q)'
  PROVE  PhaseInv'
BY DEF PhaseInv, Means

LEMMA ProgramKeepsPlace == IInv /\ Program => LineInv' /\ PhaseInv'
<1> SUFFICES ASSUME IInv, Program PROVE LineInv' /\ PhaseInv'
  OBVIOUS
<1>1. PICK p, q : p = Phase /\ q = Phase'
  OBVIOUS
<1>2. Means(p)
  BY <1>1 DEF IInv, PhaseInv, Means
<1>3. LineInv /\ Len(Script) \in 10..16
  BY ScriptSound DEF IInv, Sound
<1>4. ASSUME UNCHANGED <<program, line>>
      PROVE  Now' = Now /\ Script' = Script /\ Outline' = Outline
  BY <1>4 DEF Now, Script, Outline
<1>5. ASSUME ~Returned, step' = step + 1, UNCHANGED <<program, line>>
      PROVE  LineInv' /\ Now' = Now /\ Fits(Script[step], p, q)
  BY <1>1, <1>3, <1>5, StepOn
<1>6. ASSUME ~Returned, UNCHANGED <<program, line>>
      PROVE  \E r : Fits(Script[step], p, r)
  <2>1. step \in 1..Len(Script)
    BY <1>3, <1>6 DEF LineInv, Returned
  <2> QED
    BY <1>1, <2>1, ScriptSound DEF Sound, Phase
<1>7. CASE Acknowledge \/ Request \/ SendAddress \/ SendByte \/ TakeByte
  <2>1. step' = step + 1 /\ UNCHANGED <<program, line>> /\ ~Returned
    BY <1>7 DEF Acknowledge, Request, SendAddress, SendByte, TakeByte, At
  <2>2. Means(q)'
    BY <1>2, <1>5, <1>7, <2>1, WorkMeans
  <2> QED
    BY <1>1, <1>5, <2>1, <2>2, PhaseNext
<1>8. CASE Poll
  <2>1. UNCHANGED <<program, line>> /\ ~Returned
    BY <1>8 DEF Poll
  <2>2. CASE Flag(Arg)
    <3>1. step' = step + 1
      BY <1>8, <2>2 DEF Poll
    <3>2. Means(q)'
      BY <1>2, <1>5, <1>8, <2>1, <2>2, <3>1, PollMeans
    <3> QED
      BY <1>1, <1>5, <2>1, <3>1, <3>2, PhaseNext
  <2>3. CASE ~Flag(Arg)
    <3>1. step' = step
      BY <1>8, <2>3 DEF Poll
    <3>2. PICK r : Fits(Script[step], p, r)
      BY <1>6, <2>1
    <3>3. Means(p)'
      BY <1>2, <1>4, <1>8, <2>1, <2>3, <3>2, PollMeans
    <3>4. Phase' = p /\ LineInv'
      BY <1>1, <1>3, <1>4, <2>1, <3>1 DEF Phase, LineInv
    <3> QED
      BY <3>3, <3>4, PhaseNext
  <2> QED
    BY <2>2, <2>3
<1>9. CASE Timeout
  <2>1. UNCHANGED <<program, line>> /\ ~Returned
    BY <1>9 DEF Timeout
  <2>2. step \in 1..Len(Script)
    BY <1>3, <2>1 DEF LineInv, Returned
  <2>3. Script[step][1] \in {"return", "note", "stop"}
    BY <1>9 DEF Timeout, Waits
  <2>4. CASE Script[step][1] = "note"
    <3>1. step' = step + 1 /\ At("note")
      BY <1>9, <2>1, <2>4 DEF Timeout, At
    <3>2. Means(q)'
      BY <1>2, <1>5, <1>9, <2>1, <3>1, TimeoutMeans
    <3> QED
      BY <1>1, <1>5, <2>1, <3>1, <3>2, PhaseNext
  <2>5. CASE Script[step][1] \in {"return", "stop"}
    <3>1. ~At("note")
      BY <2>5 DEF At
    <3>2. PICK r : Fits(Script[step], p, r)
      BY <1>6, <2>1
    <3>3. Means("begin")'
      BY <1>2, <1>4, <1>9, <2>1, <3>1, <3>2, TimeoutMeans
    <3>4. \/ Script[step][1] = "return" /\ step' = Len(Script) + 1
          \/ Script[step][1] = "stop" /\ step' = Len(Script)
      BY <1>9, <2>1, <2>5 DEF Timeout, At
    <3>5. Outline[step'] = "begin"
      BY <2>2, <3>4, ScriptSound DEF Sound
    <3>6. Phase' = "begin"
      BY <1>4, <2>1, <3>5 DEF Phase
    <3>7. LineInv'
      BY <1>3, <1>4, <2>1, <3>4 DEF LineInv
    <3> QED
      BY <3>3, <3>6, <3>7, PhaseNext
  <2> QED
    BY <2>3, <2>4, <2>5
<1>10. CASE Return
  <2>1. /\ line' = Following /\ step' = 1 /\ program' = program /\ Returned
        /\ UNCHANGED <<reqs, mode, dr>>
    BY <1>10 DEF Return
  <2>2. Len(Script') \in 10..16
    BY ReadByteSound, ReadOneByteSound, ReadLenSound, WriteLenSound, WriteOneByteSound,
       WriteByteSound DEF Script, Sound
  <2>3. Outline'[1] = "begin"
    BY DEF Outline, OfReadByte, OfReadLen, OfWriteLen, OfWriteOneByte, OfWriteByte
  <2>4. LineInv'
    BY <1>3, <2>1, <2>2, NextCall DEF LineInv
  <2>5. p = "begin"
    <3>1. step = Len(Script) + 1
      BY <1>3, <2>1 DEF LineInv, Returned
    <3> QED
      BY <1>1, <3>1, ScriptSound DEF Sound, Phase
  <2>6. Means("begin")'
    BY <1>2, <2>1, <2>5 DEF Means, Begin, Kept
  <2>7. Phase' = "begin"
    BY <2>1, <2>3 DEF Phase
  <2> QED
    BY <2>4, <2>6, <2>7, PhaseNext
<1> QED
  BY <1>7, <1>8, <1>9, <1>10 DEF Program

\* The only step that can make the value a 3 takes it from the register, and then
\* only the STOP and the end of the call are left.
LEMMA ProgramKeepsValue == IInv /\ Program => ValueInv'
<1> SUFFICES ASSUME IInv, Program, line' = 3, value' = 3
             PROVE  /\ step' \in {14, 15}
                    /\ Empty' /\ mode' \in {"receive", "idle"} /\ reqs' \subseteq {"stop"}
                    /\ (pointer = NoByte)' \/ (enable = 3)'
  BY DEF ValueInv
<1>1. ~Timeout /\ ~Return
  BY DEF Timeout, Return
<1>2. line = 3 /\ LineInv /\ Means(Phase) /\ ValueInv
  BY <1>1 DEF Program, Acknowledge, Request, SendAddress, SendByte, TakeByte, Poll, IInv, PhaseInv
<1>3. /\ Now.dev = "ap" /\ Now.reg = 0 /\ Len(Script) = 14 /\ Script[14] = Stop
      /\ \A n \in 1..14 : Script[n][1] = "take" => n = 13
  BY <1>2, ReadBack
<1>4. step \in 1..15
  BY <1>2, <1>3 DEF LineInv
<1>5. CASE TakeByte
  <2>1. /\ ~Returned /\ step \in 1..14 /\ Script[step][1] = "take" /\ step' = step + 1
        /\ value' = rx /\ UNCHANGED <<dr, shift, mode, reqs, pointer, enable>>
    BY <1>3, <1>4, <1>5 DEF TakeByte, At, Returned, devs
  <2>2. step' = 14
    BY <1>3, <2>1
  <2>3. Phase = "byte"
    <3>1. Fits(Script[step], Outline[step], Outline[step + 1])
      BY <1>3, <2>1, ScriptSound DEF Sound
    <3> QED
      BY <2>1, <3>1 DEF Fits, Phase, Waits
  <2>4. Reading /\ "RXNE" \in flags
    BY <1>2, <2>3 DEF Means
  <2> QED
    BY <1>3, <2>1, <2>2, <2>4 DEF Reading, Answered, Told, Empty
<1>6. CASE ~TakeByte
  <2>1. value = 3 /\ ~Returned
    BY <1>1, <1>6 DEF Program, Acknowledge, Request, SendAddress, SendByte, Poll, At
  <2>2. step = 14
    BY <1>2, <1>3, <1>4, <2>1 DEF ValueInv, Returned
  <2>3. Script[step][1] = "request" /\ Script[step][2] = "stop"
    BY <1>3, <2>2 DEF Stop
  <2>4. Request
    BY <1>1, <1>6, <2>3 DEF Program, Acknowledge, SendAddress, SendByte, Poll, At, Waits
  <2>5. /\ step' = 15 /\ reqs' = reqs \union {"stop"}
        /\ UNCHANGED <<dr, shift, mode, pointer, enable>>
    BY <2>2, <2>3, <2>4 DEF Request, Arg, devs
  <2> QED
    BY <1>2, <2>1, <2>5 DEF ValueInv, Empty
<1> QED
  BY <1>5, <1>6

----------------------------------------------------------------------------
LEMMA StartInv == Init => IInv
<1> SUFFICES ASSUME Init PROVE IInv
  OBVIOUS
<1>1. program \in {"chapter", "demo"} /\ line = 1 /\ step = 1 /\ value = 0
  BY I2cAssumption DEF Init
<1>2. LineInv
  <2>1. Len(Script) \in 10..16
    BY ScriptSound DEF Sound
  <2> QED
    BY <1>1, <2>1 DEF LineInv
<1>3. Phase = "begin"
  BY <1>1, ScriptSound DEF Phase, Sound
<1>4. PhaseInv
  BY <1>3 DEF PhaseInv, Means, Begin, Kept, Init
<1>5. ValueInv
  BY <1>1 DEF ValueInv
<1> QED
  BY <1>2, <1>4, <1>5 DEF IInv

LEMMA StepInv == IInv /\ [Next]_vars => IInv'
<1> SUFFICES ASSUME IInv, [Next]_vars PROVE IInv'
  OBVIOUS
<1>1. CASE Program
  BY <1>1, ProgramKeepsPlace, ProgramKeepsValue DEF IInv
<1>2. CASE Bus \/ Appear
  BY <1>2, BusKeeps
<1>3. CASE UNCHANGED vars
  <2>1. UNCHANGED <<program, line, step, value, reqs, mode, target, flags, dr, shift, rx,
                    origin, pointer, enable>>
    BY <1>3 DEF vars, prog, bus, devs
  <2>2. Now' = Now /\ Script' = Script /\ Outline' = Outline
    BY <2>1 DEF Now, Script, Outline
  <2>3. LineInv' /\ ValueInv'
    BY <2>1, <2>2 DEF IInv, LineInv, ValueInv, Empty
  <2>4. Phase' = Phase
    BY <2>1, <2>2 DEF Phase
  <2>5. PhaseInv'
    BY <2>1, <2>2, <2>4 DEF IInv, PhaseInv, Means, Begin, Start1, Started, Asked, Writing,
         Written, Restart, Readdress, Answered, Reply, Reading, Filling, Held, Sent, Drained,
         Empty, Told, Requested, Kept
  <2> QED
    BY <2>3, <2>5 DEF IInv
<1> QED
  BY <1>1, <1>2, <1>3 DEF Next

\* The outline of every function holds, whatever sensors are there, refuse or send.
THEOREM I2cOutlineHolds == Spec => []IInv
BY StartInv, StepInv, PTL DEF Spec

\* For any sensors and any number of refused bytes: no START or STOP is requested
\* with a byte still to be sent, and every byte read was sent in its call by the
\* sensor that was asked.
THEOREM I2cBytesAreOwn == Spec => []BytesAreOwn
<1>1. IInv => BytesAreOwn
  <2> SUFFICES ASSUME IInv PROVE BytesAreOwn
    OBVIOUS
  <2>1. LineInv /\ Means(Phase) /\ Len(Script) \in 10..16
    BY ScriptSound DEF IInv, PhaseInv, Sound
  <2>2. step \in 1..Len(Script) \/ step = Len(Script) + 1
    BY <2>1 DEF LineInv
  <2>3. ASSUME step \in 1..Len(Script)
        PROVE  \E q : Fits(Script[step], Phase, q)
    BY <2>3, ScriptSound DEF Sound, Phase
  <2>4. step = Len(Script) + 1 => Phase = "begin"
    BY ScriptSound DEF Sound, Phase
  <2>5. ASSUME reqs # {}, mode = "transmit" PROVE dr = NoByte
    <3>1. \E k, q : Fits(k, Phase, q) \/ Phase = "begin"
      BY <2>2, <2>3, <2>4
    <3>2. Phase \in {"begin", "start", "address", "asked", "writing", "written", "restart",
                     "readdress", "reply", "reading", "byte", "filling", "held", "sent", "empty"}
      BY <3>1 DEF Fits
    <3> QED
      BY <2>1, <2>5, <3>2 DEF Means, Begin, Start1, Started, Asked, Writing,
           Written, Restart, Readdress, Answered, Reply, Reading, Filling, Held, Sent, Drained,
           Empty, Kept
  <2>6. ASSUME At("take") PROVE "RXNE" \in flags /\ origin = Now.dev
    <3>1. step \in 1..Len(Script) /\ Script[step][1] = "take"
      BY <2>1, <2>2, <2>6 DEF At, Returned
    <3>2. Phase = "byte"
      BY <2>3, <3>1 DEF Fits, Waits
    <3> QED
      BY <2>1, <3>2 DEF Means, Reading, Answered
  <2> QED
    BY <2>5, <2>6 DEF BytesAreOwn
<1> QED
  BY <1>1, I2cOutlineHolds, PTL

\* AP3216C_Init reports success of an enabled sensor only, or of one that was not
\* told which register to read back, for every result its writes may return.
THEOREM I2cInitTruthful == Spec => InitTruthful
<1>1. IInv /\ [Next]_vars => [line <= 3 /\ line' > 3 => enable = 3 \/ pointer = NoByte]_vars
  <2> SUFFICES ASSUME IInv, Next, line <= 3, line' > 3
               PROVE  enable = 3 \/ pointer = NoByte
    OBVIOUS
  <2>1. LineInv /\ ValueInv
    BY DEF IInv
  <2>2. line' # line
    BY <2>1 DEF LineInv
  <2>3. Return
    BY <2>2 DEF Next, Program, Bus, Acknowledge, Request, SendAddress, SendByte, TakeByte, Poll,
         Timeout, BusStart, BusStop, Answer, Refuse, ByteOut, ByteRefused, ByteIn, Appear, prog
  <2>4. line \in 1..9 /\ Following > 3
    BY <2>1, <2>3 DEF LineInv, Return
  <2>5. line = 3 /\ value = 3
    BY <2>4 DEF Following
  <2> QED
    BY <2>1, <2>5 DEF ValueInv
<1> QED
  BY <1>1, I2cOutlineHolds, PTL DEF Spec, InitTruthful

============================================================================
