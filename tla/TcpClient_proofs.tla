-------------------------- MODULE TcpClient_proofs --------------------------
(***************************************************************************)
(* The echo and the commands for a buffer of any length and texts of any   *)
(* length that leaves room for the NUL, cut and joined in every way, on    *)
(* any number of connections.                                              *)
(***************************************************************************)
EXTENDS TcpClient, SequenceTheorems, TLAPS

\* What a place of MyBuf can hold.
Cell == Bytes \union {"nul"}

Types ==
  /\ text \in Seq(Bytes) /\ Len(text) <= MaxText
  /\ read \in 0..Len(text)
  /\ back \in Seq(Bytes)
  /\ MyBuf \in Seq(Cell) /\ Len(MyBuf) = BUFLEN

\* at says which byte of t each byte of s is, in the order of t and all of them
\* among the first n.
Places(at, s, t, n) ==
  /\ at \in [1..Len(s) -> 1..n]
  /\ \A i, j \in 1..Len(s) : i < j => at[i] < at[j]
  /\ \A i \in 1..Len(s) : s[i] = t[at[i]]

\* What was sent back comes from what has been read, so that what is read later
\* is later in the text as well.
Echoed == \E at : Places(at, back, text, read)

TcpInv == Types /\ Echoed

----------------------------------------------------------------------------
LEMMA Slice ==
  ASSUME NEW S, NEW s \in Seq(S), NEW m \in 1..(Len(s) + 1), NEW n \in 0..Len(s), m <= n + 1
  PROVE  /\ SubSeq(s, m, n) \in Seq(S)
         /\ Len(SubSeq(s, m, n)) = n - m + 1
         /\ \A i \in 1..(n - m + 1) : SubSeq(s, m, n)[i] = s[m + i - 1]
<1>1. Len(s) \in Nat /\ m \in Int /\ n \in Int
  BY LenProperties
<1>2. \A i \in m..n : i \in 1..Len(s)
  BY <1>1
<1>3. \A i \in m..n : s[i] \in S
  BY <1>2, ElementOfSeq
<1>4. /\ SubSeq(s, m, n) \in Seq(S)
      /\ Len(SubSeq(s, m, n)) = IF m <= n THEN n - m + 1 ELSE 0
      /\ \A i \in 1..(n - m + 1) : SubSeq(s, m, n)[i] = s[m + i - 1]
  BY <1>1, <1>3, SubSeqProperties
<1> QED
  BY <1>1, <1>4

LEMMA Joined ==
  ASSUME NEW S, NEW s \in Seq(S), NEW t \in Seq(S)
  PROVE  /\ s \o t \in Seq(S)
         /\ Len(s \o t) = Len(s) + Len(t)
         /\ \A i \in 1..Len(s) : (s \o t)[i] = s[i]
         /\ \A i \in 1..Len(t) : (s \o t)[Len(s) + i] = t[i]
BY ConcatProperties, LenProperties

\* What has arrived and is not read.
LEMMA UnreadIs ==
  ASSUME Types
  PROVE  /\ Unread \in Seq(Bytes)
         /\ Len(Unread) = Len(text) - read
         /\ Len(Unread) \in 0..MaxText
         /\ \A i \in 1..Len(Unread) : Unread[i] = text[read + i]
<1>1. Len(text) \in Nat /\ read \in 0..Len(text) /\ text \in Seq(Bytes)
  BY LenProperties DEF Types
<1> DEFINE m == read + 1
           n == Len(text)
<1>2. m \in 1..(Len(text) + 1) /\ n \in 0..Len(text) /\ m <= n + 1
  BY <1>1
<1> HIDE DEF m, n
<1>3. /\ SubSeq(text, m, n) \in Seq(Bytes)
      /\ Len(SubSeq(text, m, n)) = n - m + 1
      /\ \A i \in 1..(n - m + 1) : SubSeq(text, m, n)[i] = text[m + i - 1]
  BY <1>1, <1>2, Slice
<1>4. Unread = SubSeq(text, m, n)
  BY DEF Unread, m, n
<1>5. Len(Unread) = Len(text) - read
  BY <1>1, <1>3, <1>4 DEF m, n
<1>6. \A i \in 1..Len(Unread) : Unread[i] = text[read + i]
  BY <1>1, <1>3, <1>4, <1>5 DEF m, n
<1>7. Len(Unread) \in 0..MaxText
  BY <1>1, <1>5, BufferAssumption DEF Types
<1> QED
  BY <1>3, <1>4, <1>5, <1>6, <1>7

\* A message at the beginning of the buffer, and what was behind it.
LEMMA ReceivedIs ==
  ASSUME Types, NEW bytes \in Seq(Bytes), Len(bytes) \in 0..MaxText
  PROVE  /\ Received(bytes) \in Seq(Cell)
         /\ Len(Received(bytes)) = BUFLEN
         /\ \A i \in 1..Len(bytes) : Received(bytes)[i] = bytes[i]
<1> DEFINE m == Len(bytes) + 1
           rest == SubSeq(MyBuf, m, BUFLEN)
<1>1. m \in 1..(Len(MyBuf) + 1) /\ BUFLEN \in 0..Len(MyBuf) /\ m <= BUFLEN + 1
      /\ MyBuf \in Seq(Cell)
  BY BufferAssumption DEF Types
<1>2. bytes \in Seq(Cell)
  BY SeqMonotonic DEF Cell
<1>3. m = Len(bytes) + 1
  OBVIOUS
<1> HIDE DEF m
<1>4. rest \in Seq(Cell) /\ Len(rest) = BUFLEN - m + 1
  BY <1>1, Slice
<1>5. Received(bytes) = bytes \o rest
  BY DEF Received, m
<1> HIDE DEF rest
<1>6. Len(bytes) + Len(rest) = BUFLEN
  BY <1>3, <1>4, BufferAssumption
<1>7. /\ bytes \o rest \in Seq(Cell)
      /\ Len(bytes \o rest) = Len(bytes) + Len(rest)
      /\ \A i \in 1..Len(bytes) : (bytes \o rest)[i] = bytes[i]
  BY <1>2, <1>4, Joined
<1> QED
  BY <1>5, <1>6, <1>7

\* Taking a line end off leaves a buffer of the same length.
LEMMA StrippedIs ==
  ASSUME NEW buf \in Seq(Cell), NEW len \in 0..Len(buf), NEW b \in Stripped(buf, len)
  PROVE  b \in Seq(Cell) /\ Len(b) = Len(buf)
<1>1. "nul" \in Cell /\ Len(buf) \in Nat
  BY LenProperties DEF Cell
<1>2. \A n \in 1..Len(buf) : Cleared(buf, n) \in Seq(Cell) /\ Len(Cleared(buf, n)) = Len(buf)
  BY <1>1, ExceptSeq DEF Cleared
<1>3. b = buf \/ (len \in 1..Len(buf) /\ b = Cleared(buf, len))
      \/ (len - 1 \in 1..Len(buf) /\ b = Cleared(buf, len - 1))
  BY <1>1 DEF Stripped
<1> QED
  BY <1>2, <1>3

\* The bytes taken from what is unread come after all that were taken before.
LEMMA Extended ==
  ASSUME NEW s \in Seq(Bytes), NEW t \in Seq(Bytes), NEW n \in 0..Len(t), NEW a \in Seq(Bytes),
         Len(a) <= Len(t) - n, \A i \in 1..Len(a) : a[i] = t[n + i],
         NEW at, Places(at, s, t, n)
  PROVE  \E f : Places(f, s \o a, t, Len(t))
<1> DEFINE l == Len(s)
           k == Len(a)
           f == [i \in 1..(l + k) |-> IF i <= l THEN at[i] ELSE n + (i - l)]
<1>1. l \in Nat /\ k \in Nat /\ Len(t) \in Nat /\ k <= Len(t) - n
  BY LenProperties
<1>2. /\ Len(s \o a) = l + k
      /\ \A i \in 1..l : (s \o a)[i] = s[i]
      /\ \A i \in 1..k : (s \o a)[l + i] = a[i]
  BY Joined
<1>3. /\ \A i \in 1..l : at[i] \in 1..n
      /\ \A i, j \in 1..l : i < j => at[i] < at[j]
      /\ \A i \in 1..l : s[i] = t[at[i]]
  BY DEF Places
<1> DEFINE new(i) == i - l
<1>4. \A i \in 1..(l + k) :
        \/ i \in 1..l /\ f[i] = at[i]
        \/ i > l /\ new(i) \in 1..k /\ i = l + new(i) /\ f[i] = n + new(i)
  BY <1>1
<1>5. DOMAIN f = 1..(l + k) /\ f = [i \in 1..(l + k) |-> f[i]]
  OBVIOUS
<1>6. \A i \in 1..k : a[i] = t[n + i]
  OBVIOUS
<1> HIDE DEF f, l, k
<1> HIDE DEF new
<1>7. ASSUME NEW i \in 1..(l + k) PROVE f[i] \in 1..Len(t)
  <2>1. CASE i \in 1..l /\ f[i] = at[i]
    <3>1. at[i] \in 1..n
      BY <1>3, <2>1
    <3> QED
      BY <1>1, <2>1, <3>1
  <2>2. CASE new(i) \in 1..k /\ f[i] = n + new(i)
    BY <1>1, <2>2
  <2> QED
    BY <1>4, <2>1, <2>2
<1>8. f \in [1..(l + k) -> 1..Len(t)]
  BY <1>5, <1>7
<1>9. ASSUME NEW i \in 1..(l + k), NEW j \in 1..(l + k), i < j
      PROVE  f[i] < f[j]
  <2>1. CASE j \in 1..l /\ f[j] = at[j]
    <3>0. i \in 1..l /\ ~(i > l)
      BY <1>1, <1>9, <2>1
    <3>1. f[i] = at[i]
      BY <1>4, <3>0
    <3> QED
      BY <1>3, <1>9, <2>1, <3>0, <3>1
  <2>2. CASE j > l /\ new(j) \in 1..k /\ j = l + new(j) /\ f[j] = n + new(j)
    <3>1. CASE i \in 1..l /\ f[i] = at[i]
      <4>1. at[i] \in 1..n
        BY <1>3, <3>1
      <4> QED
        BY <1>1, <2>2, <3>1, <4>1
    <3>2. CASE new(i) \in 1..k /\ i = l + new(i) /\ f[i] = n + new(i)
      BY <1>1, <1>9, <2>2, <3>2
    <3> QED
      BY <1>4, <3>1, <3>2
  <2> QED
    BY <1>4, <2>1, <2>2
<1>10. ASSUME NEW i \in 1..(l + k)
       PROVE  (s \o a)[i] = t[f[i]]
  <2>1. CASE i \in 1..l /\ f[i] = at[i]
    BY <1>2, <1>3, <2>1
  <2>2. CASE i > l /\ new(i) \in 1..k /\ i = l + new(i) /\ f[i] = n + new(i)
    <3> DEFINE h == new(i)
    <3>1. h \in 1..k /\ i = l + h /\ f[i] = n + h
      BY <2>2
    <3> HIDE DEF h
    <3>2. (s \o a)[i] = a[h] /\ a[h] = t[n + h]
      BY <1>2, <1>6, <3>1
    <3> QED
      BY <3>1, <3>2
  <2> QED
    BY <1>4, <2>1, <2>2
<1>11. Places(f, s \o a, t, Len(t))
  BY <1>2, <1>8, <1>9, <1>10 DEF Places
<1> QED
  BY <1>11

----------------------------------------------------------------------------
LEMMA TcpStart == Init => TcpInv
<1> SUFFICES ASSUME Init PROVE TcpInv
  OBVIOUS
<1>1. text = <<>> /\ read = 0 /\ back = <<>> /\ MyBuf = [n \in 1..BUFLEN |-> "nul"]
  BY DEF Init, line
<1>2. MyBuf \in Seq(Cell) /\ Len(MyBuf) = BUFLEN
  <2>1. MyBuf \in [1..BUFLEN -> Cell] /\ BUFLEN \in Nat
    BY <1>1, BufferAssumption DEF Cell
  <2>2. MyBuf \in Seq(Cell)
    BY <2>1, SeqDef
  <2> QED
    BY <1>1, <2>1, <2>2, LenProperties
<1>3. Types
  BY <1>1, <1>2, BufferAssumption DEF Types
<1>4. Places(<<>>, back, text, read)
  BY <1>1 DEF Places
<1> QED
  BY <1>3, <1>4 DEF TcpInv, Echoed

\* What a reading does: bytes is what was read, len how many the library took to
\* send back.
LEMMA RecvIs ==
  ASSUME TcpInv, Recv
  PROVE  \E len \in 0..Len(Unread) :
           /\ read' = Len(text) /\ text' = text
           /\ back' = back \o SubSeq(Unread, 1, len)
           /\ MyBuf' \in Stripped(Received(Unread), len)
           /\ led' = Says(Received(Unread))
           /\ screen' = Shown(MyBuf')
<1>1. Len(Unread) \in Nat
  BY UnreadIs, BufferAssumption DEF TcpInv
<1>2. PICK len \in IF socket = "open" THEN 0..Len(Unread) ELSE {0} :
        /\ back' = back \o SubSeq(Unread, 1, len)
        /\ MyBuf' \in Stripped(Received(Unread), len)
  BY DEF Recv
<1>3. len \in 0..Len(Unread)
  BY <1>1
<1> QED
  BY <1>2, <1>3 DEF Recv

LEMMA TcpSteps == TcpInv /\ [Next]_vars => TcpInv'
<1> SUFFICES ASSUME TcpInv, [Next]_vars PROVE TcpInv'
  OBVIOUS
<1>0. /\ text \in Seq(Bytes) /\ Len(text) \in Nat /\ read \in 0..Len(text)
      /\ back \in Seq(Bytes)
  BY LenProperties DEF TcpInv, Types
<1>1. ASSUME UNCHANGED <<text, read, back, MyBuf>> PROVE TcpInv'
  BY <1>1 DEF TcpInv, Types, Echoed, Places
<1>2. CASE ConnectOK \/ Lost("opening", "TIM_OUT") \/ Lost("open", "TIM_OUT")
           \/ Lost("open", "DISCONNECT") \/ WCHNET_HandleGlobalInt
  <2>1. UNCHANGED <<text, read, back, MyBuf>>
    BY <1>2 DEF ConnectOK, Lost, LibraryStep, WCHNET_HandleGlobalInt, line
  <2> QED
    BY <1>1, <2>1
<1>3. ASSUME NEW byte \in Bytes, Arrive(byte) PROVE TcpInv'
  <2>1. /\ text' = Append(text, byte) /\ Len(text) < MaxText
        /\ UNCHANGED <<read, back, MyBuf>>
    BY <1>3 DEF Arrive, LibraryStep
  <2>2. /\ text' \in Seq(Bytes) /\ Len(text') = Len(text) + 1
        /\ \A i \in 1..Len(text) : text'[i] = text[i]
    BY <1>0, <2>1, AppendProperties
  <2>3. Types'
    BY <1>0, <2>1, <2>2, BufferAssumption DEF TcpInv, Types
  <2>4. PICK at : Places(at, back, text, read)
    BY DEF TcpInv, Echoed
  <2>5. \A i \in 1..Len(back) : at[i] \in 1..Len(text)
    BY <1>0, <2>4 DEF Places
  <2>6. Places(at, back', text', read')
    BY <2>1, <2>2, <2>4, <2>5 DEF Places
  <2> QED
    BY <2>3, <2>6 DEF TcpInv, Echoed
<1>4. CASE Recv
  <2>1. PICK len \in 0..Len(Unread) :
          /\ read' = Len(text) /\ text' = text
          /\ back' = back \o SubSeq(Unread, 1, len)
          /\ MyBuf' \in Stripped(Received(Unread), len)
    BY <1>4, RecvIs
  <2>2. /\ Unread \in Seq(Bytes) /\ Len(Unread) = Len(text) - read
        /\ Len(Unread) \in 0..MaxText
        /\ \A i \in 1..Len(Unread) : Unread[i] = text[read + i]
    BY UnreadIs DEF TcpInv
  <2>3. /\ Received(Unread) \in Seq(Cell) /\ Len(Received(Unread)) = BUFLEN
    BY <2>2, ReceivedIs DEF TcpInv
  <2> DEFINE a == SubSeq(Unread, 1, len)
  <2>4. /\ a \in Seq(Bytes) /\ Len(a) = len
        /\ \A i \in 1..len : a[i] = Unread[i]
    <3>1. 1 \in 1..(Len(Unread) + 1) /\ 1 <= len + 1 /\ len - 1 + 1 = len
      BY <2>2, BufferAssumption
    <3>2. /\ SubSeq(Unread, 1, len) \in Seq(Bytes)
          /\ Len(SubSeq(Unread, 1, len)) = len - 1 + 1
          /\ \A i \in 1..(len - 1 + 1) : SubSeq(Unread, 1, len)[i] = Unread[1 + i - 1]
      BY <2>2, <3>1, Slice
    <3> QED
      BY <2>2, <3>1, <3>2
  <2>5. back' = back \o a
    BY <2>1
  <2> HIDE DEF a
  <2>6. MyBuf' \in Seq(Cell) /\ Len(MyBuf') = BUFLEN
    <3>1. len \in 0..Len(Received(Unread))
      BY <2>2, <2>3, BufferAssumption
    <3> QED
      BY <2>1, <2>3, <3>1, StrippedIs
  <2>7. Types'
    BY <1>0, <2>1, <2>4, <2>5, <2>6, Joined DEF TcpInv, Types
  <2>8. PICK at : Places(at, back, text, read)
    BY DEF TcpInv, Echoed
  <2>9. \E f : Places(f, back \o a, text, Len(text))
    <3>1. Len(a) <= Len(text) - read /\ \A i \in 1..Len(a) : a[i] = text[read + i]
      BY <2>2, <2>4, BufferAssumption
    <3> QED
      BY <1>0, <2>4, <2>8, <3>1, Extended
  <2> QED
    BY <2>1, <2>5, <2>7, <2>9 DEF TcpInv, Echoed
<1>5. CASE Connect
  BY <1>1, <1>5 DEF Connect, line
<1>6. ASSUME NEW flag, End(flag) PROVE TcpInv'
  <2>1. text' = <<>> /\ read' = 0 /\ back' = <<>> /\ MyBuf' = MyBuf
    BY <1>6 DEF End
  <2>2. Types'
    BY <2>1, BufferAssumption DEF TcpInv, Types
  <2>3. Places(<<>>, back', text', read')
    BY <2>1 DEF Places
  <2> QED
    BY <2>2, <2>3 DEF TcpInv, Echoed
<1>7. CASE UNCHANGED vars
  BY <1>1, <1>7 DEF vars, line
<1> QED
  BY <1>2, <1>3, <1>4, <1>5, <1>6, <1>7 DEF Next, WCHNET_HandleSockInt

LEMMA TcpAlways == Spec => []TcpInv
BY TcpStart, TcpSteps, PTL DEF Spec

\* For every buffer, every text shorter than it, and every way TCP and the library
\* cut it and its echo: what goes back is in order and unchanged.
THEOREM TcpEchoInOrder == Spec => []EchoInOrder
<1>1. TcpInv => EchoInOrder
  <2> SUFFICES ASSUME TcpInv PROVE EchoInOrder
    OBVIOUS
  <2> DEFINE t == SubSeq(text, 1, read)
  <2>1. /\ text \in Seq(Bytes) /\ Len(text) \in Nat /\ read \in 0..Len(text)
        /\ back \in Seq(Bytes) /\ DOMAIN back = 1..Len(back)
    BY LenProperties DEF TcpInv, Types
  <2>2. t \in Seq(Bytes) /\ Len(t) = read /\ \A i \in 1..read : t[i] = text[i]
    <3>1. 1 \in 1..(Len(text) + 1) /\ 1 <= read + 1 /\ read - 1 + 1 = read
      BY <2>1
    <3>2. /\ SubSeq(text, 1, read) \in Seq(Bytes)
          /\ Len(SubSeq(text, 1, read)) = read - 1 + 1
          /\ \A i \in 1..(read - 1 + 1) : SubSeq(text, 1, read)[i] = text[1 + i - 1]
      BY <2>1, <3>1, Slice
    <3> QED
      BY <2>1, <3>1, <3>2
  <2> HIDE DEF t
  <2>3. DOMAIN t = 1..read
    BY <2>2, LenProperties
  <2>4. PICK at : Places(at, back, text, read)
    BY DEF TcpInv, Echoed
  <2>5. at \in [DOMAIN back -> DOMAIN t] /\ \A i \in DOMAIN back : back[i] = t[at[i]]
    BY <2>1, <2>2, <2>3, <2>4 DEF Places
  <2>6. \A i, j \in DOMAIN back : i < j => at[i] < at[j]
    BY <2>1, <2>4 DEF Places
  <2> QED
    BY <2>5, <2>6 DEF EchoInOrder, IsSubsequence, t
<1> QED
  BY <1>1, TcpAlways, PTL

----------------------------------------------------------------------------
\* A word at the beginning of a buffer, byte by byte.
LEMMA PrefixIs ==
  ASSUME NEW word \in Seq(Cell), NEW buf \in Seq(Cell)
  PROVE  IsPrefix(word, buf) <=>
           Len(word) <= Len(buf) /\ \A i \in 1..Len(word) : buf[i] = word[i]
<1>1. Len(word) \in Nat /\ Len(buf) \in Nat
  BY LenProperties
<1>2. SubSeq(word, 1, Len(word)) = word
  BY SubSeqFull
<1>3. ASSUME Len(word) <= Len(buf)
      PROVE  /\ SubSeq(buf, 1, Len(word)) \in Seq(Cell)
             /\ Len(SubSeq(buf, 1, Len(word))) = Len(word)
             /\ \A i \in 1..Len(word) : SubSeq(buf, 1, Len(word))[i] = buf[i]
  <2> DEFINE n == Len(word)
  <2>1. 1 \in 1..(Len(buf) + 1) /\ n \in 0..Len(buf) /\ 1 <= n + 1 /\ n - 1 + 1 = n
    BY <1>1, <1>3
  <2> HIDE DEF n
  <2>2. /\ SubSeq(buf, 1, n) \in Seq(Cell)
        /\ Len(SubSeq(buf, 1, n)) = n - 1 + 1
        /\ \A i \in 1..(n - 1 + 1) : SubSeq(buf, 1, n)[i] = buf[1 + i - 1]
    BY <2>1, Slice
  <2>3. \A i \in 1..n : 1 + i - 1 = i
    BY <2>1
  <2> QED
    BY <2>1, <2>2, <2>3 DEF n
<1>4. ASSUME Len(word) <= Len(buf), \A i \in 1..Len(word) : buf[i] = word[i]
      PROVE  SubSeq(buf, 1, Len(word)) = word
  BY <1>3, <1>4, SeqEqual
<1> QED
  BY <1>2, <1>3, <1>4 DEF IsPrefix

\* The commands are looked for in all of the buffer, and yet a message that ends
\* its line is taken as if it were alone: neither command holds a line end, and so
\* neither reaches into what older messages have left.
LEMMA SaysOfLine ==
  ASSUME NEW bytes \in Seq(Bytes), Len(bytes) > 1, bytes[Len(bytes)] = "end",
         NEW buf \in Seq(Cell), Len(bytes) <= Len(buf),
         \A i \in 1..Len(bytes) : buf[i] = bytes[i]
  PROVE  Says(buf) = Says(bytes)
<1>1. Len(bytes) \in Nat /\ Len(buf) \in Nat /\ bytes \in Seq(Cell)
  BY LenProperties, SeqMonotonic DEF Cell
<1>2. ASSUME NEW word \in Seq(Cell), \A i \in 1..Len(word) : word[i] # "end"
      PROVE  IsPrefix(word, buf) <=> IsPrefix(word, bytes)
  <2>1. Len(word) \in Nat
    BY LenProperties
  <2>2. ASSUME Len(bytes) < Len(word), Len(word) <= Len(buf),
               \A i \in 1..Len(word) : buf[i] = word[i]
        PROVE  FALSE
    BY <1>1, <1>2, <2>1, <2>2
  <2>3. Len(word) <= Len(bytes) =>
          (\A i \in 1..Len(word) : buf[i] = word[i]) <=> (\A i \in 1..Len(word) : bytes[i] = word[i])
    BY <1>1, <2>1
  <2>4. Len(word) <= Len(bytes) => Len(word) <= Len(buf)
    BY <1>1, <2>1
  <2>5. Len(word) <= Len(bytes) \/ Len(bytes) < Len(word)
    BY <1>1, <2>1
  <2>6. IsPrefix(word, buf) <=> Len(word) <= Len(buf) /\ \A i \in 1..Len(word) : buf[i] = word[i]
    BY PrefixIs
  <2>7. IsPrefix(word, bytes) <=>
          Len(word) <= Len(bytes) /\ \A i \in 1..Len(word) : bytes[i] = word[i]
    BY <1>1, PrefixIs
  <2> QED
    BY <2>2, <2>3, <2>4, <2>5, <2>6, <2>7
<1>3. On \in Seq(Cell) /\ \A i \in 1..Len(On) : On[i] # "end"
  BY DEF On, Cell, Bytes
<1>4. Off \in Seq(Cell) /\ \A i \in 1..Len(Off) : Off[i] # "end"
  BY DEF Off, Cell, Bytes
<1>5. IsPrefix(On, buf) <=> IsPrefix(On, bytes)
  BY <1>2, <1>3
<1>6. IsPrefix(Off, buf) <=> IsPrefix(Off, bytes)
  BY <1>2, <1>4
<1> QED
  BY <1>5, <1>6, Zenon DEF Says

\* The display stops at the first NUL.
LEMMA ShownIs ==
  ASSUME NEW buf \in Seq(Cell), NEW k \in 1..Len(buf), buf[k] = "nul",
         \A m \in 1..(k - 1) : buf[m] # "nul"
  PROVE  Shown(buf) = SubSeq(buf, 1, k - 1)
<1> DEFINE First(n) == buf[n] = "nul" /\ \A m \in 1..(n - 1) : buf[m] # "nul"
<1>1. Len(buf) \in Nat
  BY LenProperties
<1>2. ASSUME NEW n \in 1..Len(buf), First(n) PROVE n = k
  <2>1. n < k => n \in 1..(k - 1)
    BY <1>1
  <2>2. k < n => k \in 1..(n - 1)
    BY <1>1
  <2> QED
    BY <1>1, <1>2, <2>1, <2>2
<1>3. First(k)
  OBVIOUS
<1> HIDE DEF First
<1>4. (CHOOSE n \in 1..Len(buf) : First(n)) = k
  BY <1>2, <1>3
<1>5. Shown(buf) = SubSeq(buf, 1, (CHOOSE n \in 1..Len(buf) : First(n)) - 1)
  BY DEF Shown, First
<1> QED
  BY <1>4, <1>5

\* The two statements about the last bytes: t of them are a line end.
LEMMA LineShown ==
  ASSUME NEW bytes \in Seq(Bytes), Len(bytes) > 1, bytes[Len(bytes)] = "end",
         NEW buf \in Seq(Cell), Len(bytes) <= Len(buf),
         \A i \in 1..Len(bytes) : buf[i] = bytes[i],
         NEW b \in Stripped(buf, Len(bytes)),
         NEW t, t = IF bytes[Len(bytes) - 1] = "end" THEN 2 ELSE 1
  PROVE  Shown(b) = SubSeq(bytes, 1, Len(bytes) - t)
<1> DEFINE l == Len(bytes)
           k == l - t + 1
<1>1. l \in Nat /\ l > 1 /\ Len(buf) \in Nat /\ l <= Len(buf)
  BY LenProperties
<1>2. t \in {1, 2} /\ k \in 1..l /\ k - 1 = l - t /\ k - 1 \in 0..l /\ k \in 1..Len(buf)
  BY <1>1
<1>3. b = Cleared(buf, k)
  <2>1. buf[l] = "end" /\ buf[l - 1] = bytes[l - 1]
    BY <1>1
  <2>2. CASE bytes[l - 1] = "end"
    BY <1>1, <2>1, <2>2 DEF Stripped
  <2>3. CASE bytes[l - 1] # "end"
    BY <1>1, <2>1, <2>3 DEF Stripped
  <2> QED
    BY <2>2, <2>3
<1>4. \A i \in 1..l : bytes[i] \in Bytes
  BY ElementOfSeq
<1>5. \A i \in 1..l : buf[i] = bytes[i]
  OBVIOUS
<1> HIDE DEF l, k
<1>6. /\ b \in Seq(Cell) /\ Len(b) = Len(buf)
      /\ \A j \in 1..Len(buf) : b[j] = IF j = k THEN "nul" ELSE buf[j]
  BY <1>2, <1>3, ExceptSeq DEF Cleared, Cell
<1>7. \A j \in 1..(k - 1) : j \in 1..l /\ j \in 1..Len(buf) /\ j # k
  BY <1>1, <1>2
<1>8. \A j \in 1..(k - 1) : b[j] = bytes[j]
  BY <1>5, <1>6, <1>7
<1>9. \A j \in 1..(k - 1) : b[j] # "nul"
  BY <1>4, <1>7, <1>8 DEF Bytes
<1>10. Shown(b) = SubSeq(b, 1, k - 1)
  BY <1>2, <1>6, <1>9, ShownIs
<1> DEFINE n == k - 1
<1>11. /\ n \in 0..Len(b) /\ n \in 0..Len(bytes) /\ 1 <= n + 1 /\ n - 1 + 1 = n
       /\ 1 \in 1..(Len(b) + 1) /\ 1 \in 1..(Len(bytes) + 1)
       /\ \A i \in 1..n : 1 + i - 1 = i
  BY <1>1, <1>2, <1>6 DEF l
<1>12. \A j \in 1..n : b[j] = bytes[j]
  BY <1>8
<1> HIDE DEF n
<1>13. /\ SubSeq(b, 1, n) \in Seq(Cell) /\ Len(SubSeq(b, 1, n)) = n - 1 + 1
       /\ \A i \in 1..(n - 1 + 1) : SubSeq(b, 1, n)[i] = b[1 + i - 1]
  BY <1>6, <1>11, Slice
<1>14. /\ SubSeq(bytes, 1, n) \in Seq(Bytes) /\ Len(SubSeq(bytes, 1, n)) = n - 1 + 1
       /\ \A i \in 1..(n - 1 + 1) : SubSeq(bytes, 1, n)[i] = bytes[1 + i - 1]
  BY <1>11, Slice
<1>15. SubSeq(bytes, 1, n) \in Seq(Cell)
  BY <1>14, SeqMonotonic DEF Cell
<1>16. SubSeq(b, 1, n) = SubSeq(bytes, 1, n)
  <2>1. \A i \in 1..n : SubSeq(b, 1, n)[i] = SubSeq(bytes, 1, n)[i]
    BY <1>11, <1>12, <1>13, <1>14
  <2> QED
    BY <1>11, <1>13, <1>14, <1>15, <2>1, SeqEqual
<1>17. n = Len(bytes) - t
  BY <1>2 DEF n, l
<1> QED
  BY <1>10, <1>16, <1>17 DEF n

\* A step that reads a line of two bytes or more and has all of it echoed.
LEMMA LineStep ==
  ASSUME TcpInv, [Next]_vars, read' > read, Len(Unread) > 1, Last(Unread) = "end",
         back' = back \o Unread,
         NEW t, t = IF Unread[Len(Unread) - 1] = "end" THEN 2 ELSE 1
  PROVE  screen' = SubSeq(Unread, 1, Len(Unread) - t) /\ led' = Says(Unread)
<1>1. /\ Unread \in Seq(Bytes) /\ Len(Unread) \in 0..MaxText /\ Len(Unread) \in Nat
      /\ back \in Seq(Bytes) /\ read \in Nat
  BY UnreadIs, BufferAssumption DEF TcpInv, Types
<1>2. Recv
  <2>1. CASE ConnectOK \/ Lost("opening", "TIM_OUT") \/ Lost("open", "TIM_OUT")
             \/ Lost("open", "DISCONNECT") \/ WCHNET_HandleGlobalInt \/ Connect
    <3>1. read' = read
      BY <2>1 DEF ConnectOK, Lost, WCHNET_HandleGlobalInt, Connect, line
    <3> QED
      BY <1>1, <3>1
  <2>2. ASSUME NEW byte \in Bytes, Arrive(byte) PROVE FALSE
    <3>1. read' = read
      BY <2>2 DEF Arrive
    <3> QED
      BY <1>1, <3>1
  <2>3. ASSUME NEW flag, End(flag) PROVE FALSE
    <3>1. read' = 0
      BY <2>3 DEF End
    <3> QED
      BY <1>1, <3>1
  <2>4. CASE UNCHANGED vars
    <3>1. read' = read
      BY <2>4 DEF vars, line
    <3> QED
      BY <1>1, <3>1
  <2> QED
    BY <2>1, <2>2, <2>3, <2>4 DEF Next, WCHNET_HandleSockInt
<1>3. PICK len \in 0..Len(Unread) :
        /\ back' = back \o SubSeq(Unread, 1, len)
        /\ MyBuf' \in Stripped(Received(Unread), len)
        /\ led' = Says(Received(Unread))
        /\ screen' = Shown(MyBuf')
  BY <1>2, RecvIs
\* The echo was whole, and so the line end is looked for at the end of the line.
<1>4. len = Len(Unread)
  <2>1. 1 \in 1..(Len(Unread) + 1) /\ 1 <= len + 1 /\ len - 1 + 1 = len
    BY <1>1
  <2>2. /\ SubSeq(Unread, 1, len) \in Seq(Bytes)
        /\ Len(SubSeq(Unread, 1, len)) = len - 1 + 1
    BY <1>1, <2>1, Slice
  <2>3. Len(back \o Unread) = Len(back) + Len(Unread)
    BY <1>1, Joined
  <2>4. Len(back \o SubSeq(Unread, 1, len)) = Len(back) + len
    BY <1>1, <2>1, <2>2, Joined
  <2>5. Len(back) \in Nat
    BY <1>1, LenProperties
  <2> QED
    BY <1>1, <1>3, <2>3, <2>4, <2>5
<1> DEFINE buf == Received(Unread)
<1>5. /\ buf \in Seq(Cell) /\ Len(buf) = BUFLEN
      /\ \A i \in 1..Len(Unread) : buf[i] = Unread[i]
  BY <1>1, ReceivedIs DEF TcpInv
<1>6. MyBuf' \in Stripped(buf, Len(Unread)) /\ led' = Says(buf) /\ screen' = Shown(MyBuf')
  BY <1>3, <1>4
<1> HIDE DEF buf
<1>7. Len(Unread) <= Len(buf) /\ Unread[Len(Unread)] = "end"
  BY <1>1, <1>5, BufferAssumption DEF Last
<1>8. led' = Says(Unread)
  BY <1>1, <1>5, <1>6, <1>7, SaysOfLine
<1>9. screen' = SubSeq(Unread, 1, Len(Unread) - t)
  BY <1>1, <1>5, <1>6, <1>7, LineShown
<1> QED
  BY <1>8, <1>9

\* For every buffer and whatever it holds: a line that is echoed whole is shown
\* without its line end, and the LED obeys that line alone.
THEOREM TcpLineTaken == Spec => LineTaken
<1> DEFINE bytes == Unread
           tail  == IF bytes[Len(bytes) - 1] = "end" THEN 2 ELSE 1
           Taken == (read' > read /\ Len(bytes) > 1 /\ Last(bytes) = "end"
                      /\ back' = back \o bytes) =>
                      /\ screen' = SubSeq(bytes, 1, Len(bytes) - tail)
                      /\ led' = Says(bytes)
<1>1. TcpInv /\ [Next]_vars => [Taken]_vars
  BY LineStep
<1>2. Spec => [][Taken]_vars
  BY <1>1, TcpAlways, PTL DEF Spec
<1> QED
  BY <1>2 DEF LineTaken

============================================================================
