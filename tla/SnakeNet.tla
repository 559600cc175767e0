------------------------------ MODULE SnakeNet ------------------------------
(***************************************************************************)
(* The remote control of the snake: the keypad program of                  *)
(* demos/GreedySnake_Net/GreedySnake_Client, the TCP connection, and the   *)
(* socket handler of GreedySnake_Server down to the global key that        *)
(* SnakeGame reads.                                                        *)
(*                                                                         *)
(* On the client a 20 ms timer interrupt (ClientTick) preempts the main    *)
(* loop between any two of its steps and shares linkstatus and the socket  *)
(* with it.  The main loop's WCHNET_MainTask, a closed library, raises     *)
(* socket flags; the loop then takes a snapshot of them (initstat) and     *)
(* handles them one by one.                                                *)
(*                                                                         *)
(* TCP carries bytes, not words: a word travels as two fragments, a proper *)
(* prefix and the rest, that may be delivered and read together with       *)
(* others or apart.                                                        *)
(***************************************************************************)
EXTENDS SnakeKeys, Naturals, Sequences, SequencesExt, Functions

CONSTANTS
  Pins,      \* the keys that are pressed in the run, a subset of up..sw2
  MaxWords,  \* bound: words the client gets into the connection
  MaxDrops   \* bound: connections lost and connection attempts failed

ASSUME NetAssumption ==
  /\ Pins \subseteq {up, down, left, right, sel, sw1, sw2}
  /\ MaxWords \in Nat
  /\ MaxDrops \in Nat

VARIABLES
  odd,          \* cnt % 2
  scankeyprev,
  getkeyprev,
  linkstatus,   \* the client's; the server's is never read
  socket,       \* "opening", "open" or "dead", as the client's library has it
  flags,        \* socket flags raised and not yet taken
  initstat,     \* the snapshot being handled, {} in the main loop
  wire,         \* fragments accepted from the client, not yet at the server
  rx,           \* the server's receive buffer
  echo,         \* bytes are on their way back
  key,          \* the server's global key
  sent,         \* history: words of which a fragment was accepted
  heard,        \* history: indices in sent of the words that were recognised
  deaf,         \* history: key was last set by comparing no character at all
  reading,      \* history: the last reading of the keypad
  drops

isr    == <<odd, scankeyprev, getkeyprev, reading>>
server == <<key, heard, deaf>>
vars   == <<odd, scankeyprev, getkeyprev, linkstatus, socket, flags, initstat,
            wire, rx, echo, key, sent, heard, deaf, reading, drops>>

\* The two fragments of the word sent[id].
Opening(id) == [id |-> id, part |-> 1]
Ending(id)  == [id |-> id, part |-> 2]

Init ==
  /\ odd = FALSE
  /\ scankeyprev = 0
  /\ getkeyprev = 0
  /\ linkstatus = FALSE
  /\ socket = "opening"
  /\ flags = {} /\ initstat = {}
  /\ wire = <<>> /\ rx = <<>> /\ echo = FALSE
  /\ key = 0
  /\ sent = <<>> /\ heard = <<>> /\ deaf = FALSE
  /\ reading = 0
  /\ drops = 0

----------------------------------------------------------------------------
\* The client's interrupt.

\* Basic_Key_Handle: pressed keys shadow one another in this order.
Priority == <<sw1, sw2, up, down, right, left, sel>>

Basic_Key_Handle(pressed) ==
  LET shadowing == {i \in DOMAIN Priority : Priority[i] \in pressed}
  IN  IF shadowing = {} THEN 0
      ELSE Priority[CHOOSE i \in shadowing : \A j \in shadowing : i <= j]

\* Every other interrupt compares its reading with that of the interrupt before.
\* In the others scankey is 0, so that the comparison finds no key.

\* Mutant: a single reading is enough.
GetkeyUndebounced(read) == IF odd THEN read ELSE 0

Getkey(read) == IF odd /\ read = scankeyprev THEN read ELSE 0

\* WCHNET_SocketSend takes the word, a part of it, or nothing (always nothing
\* when the socket is not open); its result and the length it returns are
\* ignored.
SocketSend(k) ==
  LET id == Len(sent) + 1
  IN  \/ UNCHANGED <<wire, sent>>
      \/ /\ socket = "open" /\ Len(sent) < MaxWords
         /\ sent' = Append(sent, k)
         /\ \/ wire' = wire \o <<Opening(id), Ending(id)>>
            \/ wire' = Append(wire, Opening(id))

SendKey(k) == IF k \in Dirs THEN SocketSend(k) ELSE UNCHANGED <<wire, sent>>

ClientTick(pressed) ==
  LET read   == Basic_Key_Handle(pressed)
      getkey == Getkey(read)
  IN  /\ IF linkstatus /\ getkey # 0 /\ getkeyprev # getkey
         THEN SendKey(getkey) /\ getkeyprev' = getkey
         ELSE UNCHANGED <<wire, sent, getkeyprev>>
      /\ scankeyprev' = IF odd THEN scankeyprev ELSE read
      /\ odd' = ~odd
      /\ reading' = read
      /\ UNCHANGED <<linkstatus, socket, flags, initstat, rx, echo, server, drops>>

----------------------------------------------------------------------------
\* The client's library, in its main task: it is called only between handlers.

LibraryStep == initstat = {} /\ UNCHANGED <<isr, linkstatus, initstat, server, sent>>

\* The handshake takes the server several passes of its main loop, which read
\* what an earlier connection left in the receive buffer.
ConnectOK ==
  /\ LibraryStep
  /\ socket = "opening" /\ rx = <<>>
  /\ socket' = "open"
  /\ flags' = flags \union {"CONNECT"}
  /\ UNCHANGED <<wire, rx, echo, drops>>

ConnectFail ==
  /\ LibraryStep
  /\ socket = "opening" /\ drops < MaxDrops
  /\ socket' = "dead"
  /\ flags' = flags \union {"TIM_OUT"}
  /\ drops' = drops + 1
  /\ UNCHANGED <<wire, rx, echo>>

\* The peer closes, or its acknowledgements stop: what is under way is lost.
Drop(reason) ==
  /\ LibraryStep
  /\ socket = "open" /\ drops < MaxDrops
  /\ socket' = "dead"
  /\ flags' = flags \union {reason}
  /\ drops' = drops + 1
  /\ wire' = <<>> /\ echo' = FALSE
  /\ UNCHANGED rx

EchoArrives ==
  /\ LibraryStep
  /\ echo
  /\ echo' = FALSE
  /\ flags' = flags \union {"RECV"}
  /\ UNCHANGED <<socket, wire, rx, drops>>

----------------------------------------------------------------------------
\* The client's main loop: WCHNET_HandleGlobalInt takes the flags, then
\* WCHNET_HandleSockInt goes through the snapshot in a fixed order.

HandlerStep == UNCHANGED <<isr, wire, rx, echo, server, sent, drops>>

HandleGlobalInt ==
  /\ HandlerStep
  /\ initstat = {} /\ flags # {}
  /\ initstat' = flags
  /\ flags' = {}
  /\ UNCHANGED <<linkstatus, socket>>

\* Mutant: the order of a program that looks at the end of the connection first.
HandleOrderReversed == <<"TIM_OUT", "RESET", "DISCONNECT", "CONNECT", "RECV">>

\* RESET stands for the last assignment of the time-out branch, which follows
\* the delay and the new socket.
HandleOrder == <<"RECV", "CONNECT", "DISCONNECT", "TIM_OUT", "RESET">>

IsNext(flag) ==
  /\ flag \in initstat
  /\ \A i, j \in DOMAIN HandleOrder :
       (HandleOrder[i] = flag /\ j < i) => HandleOrder[j] \notin initstat

\* Receiving and connecting both find the link up.
HandleUp ==
  /\ HandlerStep
  /\ \E flag \in {"RECV", "CONNECT"} : IsNext(flag) /\ initstat' = initstat \ {flag}
  /\ linkstatus' = TRUE
  /\ UNCHANGED <<socket, flags>>

HandleDown ==
  /\ HandlerStep
  /\ \E flag \in {"DISCONNECT", "RESET"} : IsNext(flag) /\ initstat' = initstat \ {flag}
  /\ linkstatus' = FALSE
  /\ UNCHANGED <<socket, flags>>

\* Mutant: the time-out is only reported.
HandleTimOutReported ==
  /\ HandlerStep
  /\ IsNext("TIM_OUT")
  /\ initstat' = (initstat \ {"TIM_OUT"}) \union {"RESET"}
  /\ UNCHANGED <<socket, linkstatus, flags>>

\* Delay_Ms(200), then WCHNET_CreatTcpSocket: a new socket starts to connect
\* while linkstatus still says that there is a link.
HandleTimOut ==
  /\ HandlerStep
  /\ IsNext("TIM_OUT")
  /\ initstat' = (initstat \ {"TIM_OUT"}) \union {"RESET"}
  /\ socket' = "opening"
  /\ UNCHANGED <<linkstatus, flags>>

----------------------------------------------------------------------------
\* The network and the server.

Deliver(n) ==
  /\ n \in 1..Len(wire)
  /\ rx' = rx \o SubSeq(wire, 1, n)
  /\ wire' = SubSeq(wire, n + 1, Len(wire))
  /\ UNCHANGED <<isr, linkstatus, socket, flags, initstat, echo, server, sent, drops>>

\* strncmp(MyBuf, word, len) = 0: a word, or as much of its beginning as there
\* was.  len is not what was read but what SocketSend left in it, the part of the
\* echo that the library took.  That part may end inside a fragment, which is then
\* compared as the whole one is: no two words, nor the rest of one, begin alike.

\* Mutant: strcmp, which a part of a word does not pass.
RecognisedWhole(bytes, id) == bytes = <<Opening(id), Ending(id)>>

Recognised(bytes, id) == IsPrefix(bytes, <<Opening(id), Ending(id)>>)

\* The comparisons with the four words.  With len = 0 the first, with "up", succeeds
\* whatever was received.
SetKey(bytes) ==
  \/ /\ bytes = <<>>
     /\ key' = up /\ deaf' = TRUE
     /\ UNCHANGED heard
  \/ /\ bytes # <<>> /\ Recognised(bytes, bytes[1].id)
     /\ key' = sent[bytes[1].id] /\ deaf' = FALSE
     /\ heard' = Append(heard, bytes[1].id)
  \/ /\ bytes # <<>> /\ ~Recognised(bytes, bytes[1].id)
     /\ UNCHANGED server

\* Everything received is read and sent back, of which the library takes the first
\* n fragments (none when the server's socket is not open or has no room), and
\* these are compared.

\* Mutant: what was read stays in the buffer.
ServerRecvPeek(n) ==
  /\ rx # <<>>
  /\ echo' = (echo \/ (n > 0 /\ socket = "open"))
  /\ SetKey(SubSeq(rx, 1, n))
  /\ UNCHANGED <<isr, linkstatus, socket, flags, initstat, wire, rx, sent, drops>>

ServerRecv(n) ==
  /\ rx # <<>>
  /\ rx' = <<>>
  /\ echo' = (echo \/ (n > 0 /\ socket = "open"))
  /\ SetKey(SubSeq(rx, 1, n))
  /\ UNCHANGED <<isr, linkstatus, socket, flags, initstat, wire, sent, drops>>

----------------------------------------------------------------------------
Library ==
  \/ ConnectOK \/ ConnectFail \/ EchoArrives
  \/ \E reason \in {"DISCONNECT", "TIM_OUT"} : Drop(reason)

Handlers == HandleGlobalInt \/ HandleUp \/ HandleDown \/ HandleTimOut

Next ==
  \/ \E pressed \in SUBSET Pins : ClientTick(pressed)
  \/ Library
  \/ Handlers
  \/ \E n \in 1..Len(wire) : Deliver(n)
  \/ \E n \in 0..Len(rx) : ServerRecv(n)

\* Both main loops run for ever, TCP delivers what it accepted, and a server
\* that listens answers.  Nothing is assumed of the player, of the link or of the echo.
Fairness ==
  /\ WF_vars(Handlers)
  /\ WF_vars(ConnectOK)
  /\ WF_vars(\E n \in 1..Len(wire) : Deliver(n))
  /\ WF_vars(\E n \in 0..Len(rx) : ServerRecv(n))

Spec == Init /\ [][Next]_vars /\ Fairness

----------------------------------------------------------------------------
\* However TCP cuts and joins the words, however little of each the echo takes and
\* whatever is lost with a connection, the server hears each word at most once and
\* in the order of the presses, and its key is the last word it heard, or up
\* once an echo was refused whole: no old press overrides a newer one, and no
\* other direction is made up.
HeardInOrder ==
  /\ \A i, j \in DOMAIN heard : i < j => heard[i] < heard[j]
  /\ key = IF deaf THEN up ELSE IF heard = <<>> THEN 0 ELSE sent[Last(heard)]

\* A word is sent only for a key that two interrupts in a row have read, so a
\* contact that bounces within 20 ms sends nothing.
Debounced ==
  [][sent' # sent => reading = Last(sent') /\ reading' = Last(sent')]_vars

\* linkstatus lags behind the library, but when the main loop has handled every
\* flag it tells whether the socket is open: no order of a late echo, a new
\* connection and its end leaves the interrupt sending into a dead socket, or
\* silent on a live one.
LinkAgrees ==
  initstat = {} /\ flags = {} => (linkstatus <=> socket = "open")

\* A connection that timed out, or never came about, is opened again as soon
\* as the server answers, however often that fails before.
ReopensAfterTimeout == "TIM_OUT" \in flags ~> socket = "open"

\* A player who waits for each word to be heard before pressing the next key has
\* every word acted upon, whole or cut in two, on a link that holds and takes at
\* least the beginning of every echo.
Uncrowded == \A f, g \in Range(wire \o rx) : f.id = g.id

KeyArrives ==
  [](Uncrowded /\ drops = 0 /\ ~deaf) =>
    \A id \in 1..MaxWords : Len(sent) >= id ~> id \in Range(heard)

============================================================================
