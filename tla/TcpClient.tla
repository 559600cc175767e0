----------------------------- MODULE TcpClient -----------------------------
(***************************************************************************)
(* The TCP client demonstration: it opens a connection to a server and     *)
(* opens it again whenever it ends; what it receives it sends back, looks  *)
(* through for the two commands of a LED, and shows. Everything received   *)
(* goes to the one buffer MyBuf, which is never cleared.                   *)
(*                                                                         *)
(* The commands "led on" and "led off" are a word of two bytes and one of  *)
(* three that begin alike; '\r' and '\n' are one byte, a line end. No byte *)
(* is a '%', which lcd_show_string would take for a format, and a message  *)
(* leaves room in MyBuf for the NUL behind it.                             *)
(***************************************************************************)
EXTENDS Naturals, Sequences, SequencesExt

CONSTANTS
  BUFLEN,   \* RECE_BUF_LEN
  MaxText,  \* bound: the bytes the server sends over one connection
  MaxDrops  \* bound: connections lost and attempts failed

ASSUME BufferAssumption == BUFLEN \in Nat /\ MaxText \in Nat /\ MaxText < BUFLEN

Bytes == {"a", "b", "end"}
On  == <<"a", "a">>
Off == <<"a", "b", "b">>

VARIABLES
  socket,         \* "opening", "open" or "dead", as the library has it
  flags,          \* socket flags raised and not yet taken
  initstat,       \* the snapshot being handled, {} in the main loop
  connectStatus,
  MyBuf,
  led, screen,
  text, read,     \* the server's bytes on this connection, and how many are read
  back,           \* history: the bytes sent back on it
  drops

line == <<text, read, back>>
vars == <<socket, flags, initstat, connectStatus, MyBuf, led, screen, line, drops>>

Unread == SubSeq(text, read + 1, Len(text))

Init ==
  /\ socket = "opening" /\ flags = {} /\ initstat = {} /\ connectStatus = 0
  /\ MyBuf = [n \in 1..BUFLEN |-> "nul"]
  /\ led = "off" /\ screen = <<>>
  /\ text = <<>> /\ read = 0 /\ back = <<>>
  /\ drops = 0

(***************************************************************************)
(* The library in its main task, and the server.                           *)
(***************************************************************************)
LibraryStep == initstat = {} /\ UNCHANGED <<initstat, connectStatus, MyBuf, led, screen>>

ConnectOK ==
  /\ LibraryStep
  /\ socket = "opening"
  /\ socket' = "open"
  /\ flags' = flags \union {"CONNECT"}
  /\ UNCHANGED <<line, drops>>

Lost(before, flag) ==
  /\ LibraryStep
  /\ socket = before /\ drops < MaxDrops
  /\ socket' = "dead"
  /\ flags' = flags \union {flag}
  /\ drops' = drops + 1
  /\ UNCHANGED line

Arrive(byte) ==
  /\ LibraryStep
  /\ socket = "open" /\ Len(text) < MaxText
  /\ text' = Append(text, byte)
  /\ flags' = flags \union {"RECV"}
  /\ UNCHANGED <<socket, read, back, drops>>

(***************************************************************************)
(* The program.                                                            *)
(***************************************************************************)
WCHNET_HandleGlobalInt ==
  /\ initstat = {} /\ flags # {}
  /\ initstat' = flags /\ flags' = {}
  /\ UNCHANGED <<socket, connectStatus, MyBuf, led, screen, line, drops>>

Order == <<"RECV", "CONNECT", "DISCONNECT", "TIM_OUT">>

\* The first flag of the snapshot, and the handler is done with it.
Handled(flag) ==
  /\ flag \in initstat
  /\ flag = SelectSeq(Order, LAMBDA f : f \in initstat)[1]
  /\ initstat' = initstat \ {flag}
  /\ UNCHANGED <<flags, drops>>

\* What is behind the received bytes stays.
Received(bytes) == bytes \o SubSeq(MyBuf, Len(bytes) + 1, BUFLEN)

Says(buf) == IF IsPrefix(On, buf) THEN "on" ELSE IF IsPrefix(Off, buf) THEN "off" ELSE led

Cleared(buf, n) == [buf EXCEPT ![n] = "nul"]

\* Mutant: one line end is taken off.
StrippedOne(buf, len) ==
  IF len = 0 \/ buf[len] # "end" THEN {buf} ELSE {Cleared(buf, len)}

\* The line end at len and the one before it. Before the first byte there is
\* whatever the linker put there, and it may be a line end.
Stripped(buf, len) ==
  IF len = 0 \/ buf[len] # "end" THEN {buf}
  ELSE IF len = 1 THEN {Cleared(buf, len), buf}
  ELSE IF buf[len - 1] = "end" THEN {Cleared(buf, len - 1)}
  ELSE {Cleared(buf, len)}

\* Up to the first NUL.
Shown(buf) == SubSeq(buf, 1, (CHOOSE n \in 1..Len(buf) :
                                buf[n] = "nul" /\ \A m \in 1..(n - 1) : buf[m] # "nul") - 1)

\* Mutant: the line end is taken off first.
RecvEchoLate ==
  /\ Handled("RECV")
  /\ read' = Len(text)
  /\ led' = Says(Received(Unread))
  /\ MyBuf' \in Stripped(Received(Unread), Len(Unread))
  /\ back' = back \o SubSeq(MyBuf', 1, IF socket = "open" THEN Len(Unread) ELSE 0)
  /\ screen' = Shown(MyBuf')
  /\ UNCHANGED <<socket, connectStatus, text>>

\* WCHNET_SocketSend puts into len what it took, and the line end is looked for there.
Recv ==
  /\ Handled("RECV")
  /\ read' = Len(text)
  /\ led' = Says(Received(Unread))
  /\ \E len \in IF socket = "open" THEN 0..Len(Unread) ELSE {0} :
       /\ back' = back \o SubSeq(Unread, 1, len)
       /\ MyBuf' \in Stripped(Received(Unread), len)
  /\ screen' = Shown(MyBuf')
  /\ UNCHANGED <<socket, connectStatus, text>>

Connect ==
  /\ Handled("CONNECT")
  /\ connectStatus' = 1
  /\ UNCHANGED <<socket, MyBuf, led, screen, line>>

\* Mutant: the end of the connection is only reported.
EndReported(flag) ==
  /\ Handled(flag)
  /\ connectStatus' = 0
  /\ UNCHANGED <<socket, MyBuf, led, screen, line>>

\* After a delay WCHNET_CreatTcpSocket opens the next connection.
End(flag) ==
  /\ Handled(flag)
  /\ connectStatus' = 0
  /\ socket' = "opening"
  /\ text' = <<>> /\ read' = 0 /\ back' = <<>>
  /\ UNCHANGED <<MyBuf, led, screen>>

WCHNET_HandleSockInt == Recv \/ Connect \/ End("DISCONNECT") \/ End("TIM_OUT")

Next ==
  \/ ConnectOK \/ Lost("opening", "TIM_OUT") \/ Lost("open", "TIM_OUT") \/ Lost("open", "DISCONNECT")
  \/ \E byte \in Bytes : Arrive(byte)
  \/ WCHNET_HandleGlobalInt \/ WCHNET_HandleSockInt

\* The main loop goes on, and a server that is there answers in the end.
Spec ==
  /\ Init /\ [][Next]_vars
  /\ WF_vars(ConnectOK) /\ WF_vars(WCHNET_HandleGlobalInt) /\ WF_vars(WCHNET_HandleSockInt)

-----------------------------------------------------------------------------
\* s is what is left of t when some members are taken out: at says where it was.
IsSubsequence(s, t) ==
  \E at \in [DOMAIN s -> DOMAIN t] :
    /\ \A i, j \in DOMAIN s : i < j => at[i] < at[j]
    /\ \A i \in DOMAIN s : s[i] = t[at[i]]

\* What the server gets back (main.c:256) is what it sent, in order and unchanged,
\* though the buffer is edited for the display and keeps what earlier messages
\* left; where the library did not take everything, bytes are missing.
EchoInOrder == IsSubsequence(back, SubSeq(text, 1, read))

\* A line of two bytes or more that is sent back whole is shown without its line
\* end, one byte or two (main.c:270-280), and the LED obeys it and it alone,
\* whatever earlier messages and partial echoes have left in MyBuf.
LineTaken ==
  [][LET bytes == Unread
         tail  == IF bytes[Len(bytes) - 1] = "end" THEN 2 ELSE 1
     IN  (read' > read /\ Len(bytes) > 1 /\ Last(bytes) = "end" /\ back' = back \o bytes) =>
           /\ screen' = SubSeq(bytes, 1, Len(bytes) - tail)
           /\ led' = Says(bytes)]_vars

\* However the connection or an attempt at it ends, the program is connected
\* again (main.c:289-302), and its own connectStatus says so.
Reconnects == (socket # "open") ~> (socket = "open" /\ connectStatus = 1)
=============================================================================
