----------------------------- MODULE I2cMaster -----------------------------
(***************************************************************************)
(* The I2C master functions of chapter 3_IIC and of demos/IIC_Sensor, and  *)
(* what the two programs do with them: the light sensor AP3216C ("ap") is  *)
(* written until it reads back as enabled; the demo then looks for the     *)
(* compass QMC7983 ("qmc"), which not every board has, and both read in a  *)
(* loop.  A sensor may be absent, come up late, or not acknowledge a byte.  *)
(*                                                                         *)
(* A function is a script of register accesses and waits.  The peripheral  *)
(* works on by itself: requests, data and shift register, flags.  What a   *)
(* wait does when nothing comes differs from line to line of the source:   *)
(* "forever", "return" (the bus stays held), "note" (and go on), "stop".   *)
(***************************************************************************)
EXTENDS Integers, Sequences

CONSTANTS
  Programs,     \* of "chapter" and "demo", those looked at
  Samples,      \* what a register reads as, but for the enable register of "ap"
  Garbage,      \* what an uninitialised byte may hold
  MaxRefusals   \* bound: bytes that a sensor which is there does not acknowledge

ASSUME I2cAssumption ==
  /\ Programs \subseteq {"chapter", "demo"}
  /\ Samples \subseteq 0..255 /\ Samples # {}
  /\ Garbage \subseteq 0..255 /\ Garbage # {}
  /\ MaxRefusals \in Nat

Devices == {"ap", "qmc"}
NoByte  == -1

VARIABLES
  program,  \* which program runs; never changes
  line,     \* the call in Calls it is in
  step,     \* position in the function's script; one more when it returns
  res,      \* the function's res, or the code it returns
  value,    \* the byte a reading function returns
  ack,      \* the ACK bit
  reqs,     \* the START and STOP bits
  mode,     \* "idle", "started" (SB), "addressing", "transmit", "receive"; "refused",
            \* the address was not acknowledged; "nack", a byte after it was not
  target,   \* the address that was sent last, and its direction
  flags,    \* of "ADDR", "BTF", "RXNE", those set
  dr,       \* the data register, written
  shift,    \* the shift register, transmitting
  rx,       \* the data register, read
  more,     \* the sensor has a byte to send
  origin,   \* history: who sent rx in this call
  present,  \* the sensors that are there
  refusals,
  pointer,  \* the register the sensor was told
  enable    \* register 0 of "ap"

prog == <<program, line, step, res, value>>
bus  == <<ack, reqs, mode, target, flags, dr, shift, rx, more, origin>>
devs == <<present, refusals, pointer, enable>>
vars == <<prog, bus, devs>>

----------------------------------------------------------------------------
(* The functions. *)

AckOn  == <<"ack", "on">>
AckOff == <<"ack", "off">>
Start  == <<"request", "start">>
Stop   == <<"request", "stop">>
Take   == <<"take", "RXNE">>
Send(what)   == <<"send", what>>
Address(dir) == <<"address", dir>>
Forever(flag) == <<"forever", flag>>
OrReturn(flag) == <<"return", flag>>
OrNote(flag)   == <<"note", flag>>
OrStop(flag)   == <<"stop", flag>>

\* Mutant: the acknowledge that the byte before switched off stays off.
ReadLenNoAck ==
  <<Start, OrReturn("SB"), Address("w"), OrReturn("ADDR"), Send("reg"),
    Start, OrReturn("SB"), Address("r"), OrReturn("ADDR"),
    Forever("RXNE"), Take, Forever("RXNE"), AckOff, Take, Stop>>

\* For a length of two: the bytes in between repeat the first.
IIC_ReadLen ==
  <<AckOn, Start, OrReturn("SB"), Address("w"), OrReturn("ADDR"), Send("reg"),
    Start, OrReturn("SB"), Address("r"), OrReturn("ADDR"),
    Forever("RXNE"), Take, Forever("RXNE"), AckOff, Take, Stop>>

\* Mutant: the STOP does not wait until the last byte has left the data register.
WriteLenEarlyStop ==
  <<AckOn, Start, OrReturn("SB"), Address("w"), OrReturn("ADDR"), Forever("TXE"),
    Send("reg"), Forever("TXE"), Send("data"), Stop>>

\* For a length of one, as main calls it.
IIC_WriteLen ==
  <<AckOn, Start, OrReturn("SB"), Address("w"), OrReturn("ADDR"), Forever("TXE"),
    Send("reg"), Forever("TXE"), Send("data"), Forever("TXE"), Stop>>

\* IIC2_ReadByte of the chapter, IIC_ReadByte of the demo.
IIC_ReadByte ==
  <<AckOn, Start, Forever("SB"), Address("w"), OrReturn("ADDR"), Send("reg"),
    Start, Forever("SB"), Address("r"), Forever("ADDR"),
    AckOff, Forever("RXNE"), Take, Stop>>

AP3216C_ReadOneByte == [IIC_ReadByte EXCEPT ![3] = OrReturn("SB")]

AP3216C_WriteOneByte ==
  <<AckOn, Start, OrStop("SB"), Address("w"), OrStop("ADDR"), Send("reg"),
    OrStop("BTF"), Forever("TXE"), Send("data"), Forever("TXE"), Stop>>

IIC2_WriteByte ==
  <<AckOn, Start, OrNote("SB"), Address("w"), Forever("TXE"), Send("reg"),
    OrNote("BTF"), Forever("TXE"), Send("data"), Stop>>

----------------------------------------------------------------------------
(* The programs: the calls of main and AP3216C_Init, and where they go on. *)

Call(fn, dev, reg, data) == [fn |-> fn, dev |-> dev, reg |-> reg, data |-> data]

ChapterCalls ==
  <<Call("IIC2_WriteByte", "ap", 0, 4),
    Call("IIC2_WriteByte", "ap", 0, 3),
    Call("IIC_ReadByte", "ap", 0, NoByte),
    Call("IIC_ReadByte", "ap", 10, NoByte)>>

\* The demo.  The IIC_Init that begins each try of AP3216C_Init is left out (the
\* next call sets ACK anyway), and the six reads of the data registers, alike but for
\* the register, are one line.
DemoCalls ==
  <<Call("AP3216C_WriteOneByte", "ap", 0, 4),
    Call("AP3216C_WriteOneByte", "ap", 0, 3),
    Call("AP3216C_ReadOneByte", "ap", 0, NoByte),
    Call("IIC_WriteLen", "qmc", 10, 128),
    Call("IIC_WriteLen", "qmc", 9, 49),
    Call("IIC_ReadByte", "qmc", 13, NoByte),
    Call("IIC_ReadByte", "qmc", 6, NoByte),
    Call("IIC_ReadLen", "qmc", 0, NoByte),
    Call("AP3216C_ReadOneByte", "ap", 10, NoByte)>>

Now == IF program = "chapter" THEN ChapterCalls[line] ELSE DemoCalls[line]

\* Mutant: AP3216C_Init trusts the result of the write and reads nothing back.
FollowingUnread ==
  IF line = 2 THEN IF res = 0 THEN 4 ELSE 1
  ELSE IF line = 3 THEN 4 ELSE IF program = "chapter" THEN line ELSE (line % 9) + 1

Following ==
  IF line < 3 THEN line + 1
  ELSE IF line = 3 THEN IF value = 3 THEN 4 ELSE 1
  ELSE IF program = "chapter" THEN 4
  ELSE CASE line = 4 -> IF res = 0 THEN 5 ELSE 7
         [] line = 7 -> IF value % 2 = 1 THEN 8 ELSE 9
         [] line = 9 -> 7
         [] OTHER    -> line + 1

Script ==
  CASE Now.fn = "IIC2_WriteByte"       -> IIC2_WriteByte
    [] Now.fn = "AP3216C_WriteOneByte" -> AP3216C_WriteOneByte
    [] Now.fn = "AP3216C_ReadOneByte"  -> AP3216C_ReadOneByte
    [] Now.fn = "IIC_WriteLen"         -> IIC_WriteLen
    [] Now.fn = "IIC_ReadLen"          -> IIC_ReadLen
    [] OTHER                           -> IIC_ReadByte

Returned == step > Len(Script)
At(kind) == ~Returned /\ Script[step][1] = kind
Arg      == Script[step][2]

Waits == {"forever", "return", "note", "stop"}

----------------------------------------------------------------------------
(* The peripheral and the sensors. *)

Flag(f) ==
  CASE f = "SB"  -> mode = "started"
    [] f = "TXE" -> mode \in {"transmit", "nack"} /\ dr = NoByte
    [] OTHER     -> f \in flags

Waiting == ~Returned => Script[step][1] \in Waits /\ ~Flag(Arg)

\* A START is generated on a free bus and on one the master holds, in both cases
\* after the byte on the line and a STOP requested before it.
BusStart ==
  /\ reqs = {"start"} /\ shift = NoByte /\ mode # "addressing"
  /\ ~(mode = "receive" /\ more)
  /\ reqs' = {} /\ mode' = "started" /\ flags' = flags \ {"BTF", "ADDR"} /\ dr' = NoByte
  /\ UNCHANGED <<prog, ack, target, shift, rx, more, origin, devs>>

BusStop ==
  /\ "stop" \in reqs /\ shift = NoByte /\ mode # "addressing"
  /\ ~(mode = "receive" /\ more)
  /\ reqs' = reqs \ {"stop"} /\ mode' = "idle" /\ flags' = flags \ {"BTF", "ADDR"}
  /\ dr' = NoByte
  /\ UNCHANGED <<prog, ack, target, shift, rx, more, origin, devs>>

Answer ==
  /\ mode = "addressing" /\ target[1] \in present
  /\ mode' = IF target[2] = "w" THEN "transmit" ELSE "receive"
  /\ flags' = flags \union {"ADDR"}
  /\ more' = (target[2] = "r")
  /\ pointer' = IF target[2] = "w" THEN NoByte ELSE pointer
  /\ UNCHANGED <<prog, ack, reqs, target, dr, shift, rx, origin, present, refusals, enable>>

Refuse ==
  /\ mode = "addressing"
  /\ \/ target[1] \notin present /\ UNCHANGED refusals
     \/ refusals < MaxRefusals /\ refusals' = refusals + 1
  /\ mode' = "refused"
  /\ UNCHANGED <<prog, ack, reqs, target, flags, dr, shift, rx, more, origin,
                 present, pointer, enable>>

\* The first byte after the address is the register, the rest goes into it; a
\* 4 in the enable register of "ap" resets it.
ByteOut ==
  /\ shift # NoByte
  /\ pointer' = IF pointer = NoByte THEN shift ELSE pointer
  /\ enable' = IF target[1] = "ap" /\ pointer = 0 THEN IF shift = 4 THEN 0 ELSE shift
               ELSE enable
  /\ shift' = dr /\ dr' = NoByte
  /\ flags' = IF dr = NoByte THEN flags \union {"BTF"} ELSE flags
  /\ UNCHANGED <<prog, ack, reqs, mode, target, rx, more, origin, present, refusals>>

\* After a byte that was not acknowledged nothing more is shifted out.
ByteRefused ==
  /\ shift # NoByte /\ refusals < MaxRefusals
  /\ refusals' = refusals + 1
  /\ mode' = "nack" /\ shift' = NoByte
  /\ UNCHANGED <<prog, ack, reqs, target, flags, dr, rx, more, origin, present, pointer, enable>>

\* The program is faster than the line: what it does between two waits is done
\* before a byte has come in.
ByteIn ==
  /\ mode = "receive" /\ more /\ "ADDR" \notin flags /\ "RXNE" \notin flags
  /\ Waiting
  /\ \E b \in Samples : rx' = IF target[1] = "ap" /\ pointer = 0 THEN enable ELSE b
  /\ flags' = flags \union {"RXNE"}
  /\ more' = ack
  /\ origin' = target[1]
  /\ UNCHANGED <<prog, ack, reqs, mode, target, dr, shift, devs>>

\* A sensor comes up.
Appear ==
  /\ \E d \in Devices \ present : present' = present \union {d}
  /\ UNCHANGED <<prog, bus, refusals, pointer, enable>>

Bus == BusStart \/ BusStop \/ Answer \/ Refuse \/ ByteOut \/ ByteRefused \/ ByteIn

\* Nothing more will come: the 65535 polls of IIC_WaitEvent outlast any of the
\* steps above.
Quiet ==
  /\ reqs = {} /\ mode # "addressing" /\ shift = NoByte /\ "ADDR" \notin flags
  /\ ~(mode = "receive" /\ more /\ "RXNE" \notin flags)

----------------------------------------------------------------------------
(* The steps of a function. *)

Acknowledge ==
  /\ At("ack")
  /\ ack' = (Arg = "on")
  /\ step' = step + 1
  /\ UNCHANGED <<program, line, res, value, reqs, mode, target, flags, dr, shift, rx,
                 more, origin, devs>>

Request ==
  /\ At("request")
  /\ reqs' = reqs \union {Arg}
  /\ step' = step + 1
  /\ UNCHANGED <<program, line, res, value, ack, mode, target, flags, dr, shift, rx,
                 more, origin, devs>>

\* The address goes through the data register, which ends RXNE as well.
SendAddress ==
  /\ At("address")
  /\ mode' = "addressing" /\ target' = <<Now.dev, Arg>>
  /\ flags' = flags \ {"RXNE"}
  /\ step' = step + 1
  /\ UNCHANGED <<program, line, res, value, ack, reqs, dr, shift, rx, more, origin, devs>>

\* Straight into an idle shift register; the line stands still while ADDR is set.
SendByte ==
  /\ At("send")
  /\ LET b == IF Arg = "reg" THEN Now.reg ELSE Now.data
     IN  IF shift = NoByte /\ "ADDR" \notin flags /\ mode = "transmit"
         THEN shift' = b /\ UNCHANGED dr
         ELSE dr' = b /\ UNCHANGED shift
  /\ flags' = flags \ {"BTF"}
  /\ step' = step + 1
  /\ UNCHANGED <<program, line, res, value, ack, reqs, mode, target, rx, more, origin, devs>>

TakeByte ==
  /\ At("take")
  /\ value' = rx
  /\ flags' = flags \ {"RXNE"}
  /\ step' = step + 1
  /\ UNCHANGED <<program, line, res, ack, reqs, mode, target, dr, shift, rx, more, origin, devs>>

\* I2C_CheckEvent reads both status registers, which clears ADDR and lets the
\* line go on; I2C_GetFlagStatus(TXE or RXNE) reads only the first.
Poll ==
  /\ ~Returned /\ Script[step][1] \in Waits
  /\ IF Arg \in {"SB", "ADDR", "BTF"} /\ "ADDR" \in flags
     THEN /\ flags' = flags \ {"ADDR"}
          /\ shift' = dr /\ dr' = NoByte
     ELSE Flag(Arg) /\ UNCHANGED <<flags, shift, dr>>
  /\ step' = IF Flag(Arg) THEN step + 1 ELSE step
  /\ UNCHANGED <<program, line, res, value, ack, reqs, mode, target, rx, more, origin, devs>>

Timeout ==
  /\ ~Returned /\ Script[step][1] \in Waits \ {"forever"}
  /\ ~Flag(Arg) /\ Quiet
  /\ res' = IF program = "chapter" THEN 2 ELSE 1
  /\ step' = CASE At("return") -> Len(Script) + 1
               [] At("note")   -> step + 1
               [] At("stop")   -> Len(Script)
  /\ value' = IF program = "chapter" THEN 0 ELSE 1
  /\ UNCHANGED <<program, line, bus, devs>>

\* What main does between the calls: nothing that the bus waits for, except that
\* the demo draws for milliseconds after IIC_ReadLen.
Return ==
  /\ Returned
  /\ Now.fn = "IIC_ReadLen" => Quiet \/ mode = "idle"
  /\ line' = Following
  /\ step' = 1
  /\ res' \in IF Following < 3 /\ program = "chapter" THEN Garbage ELSE {0}
  /\ value' = 0
  /\ origin' = "nobody"
  /\ UNCHANGED <<program, ack, reqs, mode, target, flags, dr, shift, rx, more, devs>>

Program ==
  \/ Acknowledge \/ Request \/ SendAddress \/ SendByte \/ TakeByte
  \/ Poll \/ Timeout \/ Return

Init ==
  /\ program \in Programs
  /\ line = 1 /\ step = 1 /\ value = 0
  /\ res \in IF program = "chapter" THEN Garbage ELSE {0}
  /\ ack = TRUE /\ reqs = {} /\ mode = "idle" /\ target = <<"ap", "w">> /\ flags = {}
  /\ dr = NoByte /\ shift = NoByte /\ rx = 0 /\ more = FALSE /\ origin = "nobody"
  /\ present \in SUBSET Devices /\ refusals = 0
  /\ pointer = NoByte /\ enable = 0

Next == Program \/ Bus \/ Appear

\* Program and peripheral go on; no sensor need ever come up.
Spec == Init /\ [][Next]_vars /\ WF_vars(Program) /\ WF_vars(Bus)

----------------------------------------------------------------------------
\* The waits without a limit: the chapter's IIC2_WriteByte when its address is
\* not acknowledged, the functions that read one byte when the second address,
\* for reading, is not, and IIC_WriteLen when its register is not.
Hangs ==
  \/ mode = "refused" /\ Now.fn = "IIC2_WriteByte"
  \/ mode = "refused" /\ target[2] = "r" /\ Now.fn # "IIC_ReadLen"
  \/ mode = "nack" /\ Now.fn = "IIC_WriteLen" /\ dr # NoByte

\* Every other call returns, whatever calls before it that timed out have left on
\* the bus, in the flags or in the ACK bit.
CallsReturn == step = 1 ~> Returned \/ Hangs

\* No byte of a call is lost or taken for another's: while the sensor acknowledges,
\* a START or STOP is requested only when the data register is empty, and a byte
\* that is read was sent in this call by the sensor that was asked.
BytesAreOwn ==
  /\ reqs # {} /\ mode = "transmit" => dr = NoByte
  /\ At("take") => "RXNE" \in flags /\ origin = Now.dev

\* AP3216C_Init reports success only of an enabled sensor, although the result of
\* its writes is ignored and in the chapter uninitialised; or, as it does not learn
\* of it, of a sensor that refused the number of the register to read back, and
\* what that reads as is anything.
InitTruthful == [][line <= 3 /\ line' > 3 => enable = 3 \/ pointer = NoByte]_vars

\* And it reports success in the end if the sensor is there, but for the waits above.
InitReports == InitTruthful /\ (<>("ap" \in present) => <>(line > 3) \/ <>[]Hangs)

\* The description of the chapter's IIC2_WriteByte: it returns 0 or 2, timeout.
WriteByteReturns == Now.fn = "IIC2_WriteByte" /\ step = 1 ~> Returned

============================================================================
