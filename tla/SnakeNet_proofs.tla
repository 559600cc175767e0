-------------------------- MODULE SnakeNet_proofs --------------------------
(***************************************************************************)
(* The order of the words for any number of words, lost connections and    *)
(* pressed keys, for every way TCP cuts and joins them and every part of   *)
(* an echo that is taken.                                                  *)
(***************************************************************************)
EXTENDS SnakeNet, SequenceTheorems, TLAPS

Fragments == [id : 1..Len(sent), part : 1..2]

\* Of two fragments, f was put on the wire before g.
Before(f, g) == f.id < g.id \/ (f.id = g.id /\ f.part < g.part)

\* What the history and the two buffers can hold.
Types ==
  /\ sent \in Seq(Dirs)
  /\ heard \in Seq(1..Len(sent))
  /\ rx \in Seq(Fragments)
  /\ wire \in Seq(Fragments)

\* What is under way, in the server's buffer and on the wire, is in order.
Flight == rx \o wire

FlightInOrder ==
  \A i, j \in 1..Len(Flight) : i < j => Before(Flight[i], Flight[j])

\* Of the words that were heard, only the ends can still be under way, so no
\* word can be heard again and none from before the last one heard.
HeardBefore ==
  \A i \in 1..Len(heard), j \in 1..Len(Flight) :
    Before([id |-> heard[i], part |-> 1], Flight[j])

IInv == Types /\ FlightInOrder /\ HeardBefore /\ HeardInOrder

----------------------------------------------------------------------------
\* The buffer and the wire read as one sequence.
LEMMA Joined ==
  ASSUME NEW S, NEW s \in Seq(S), NEW t \in Seq(S)
  PROVE  /\ s \o t \in Seq(S)
         /\ Len(s \o t) = Len(s) + Len(t)
         /\ \A i \in 1..Len(s) : (s \o t)[i] = s[i]
         /\ \A i \in 1..Len(t) : (s \o t)[Len(s) + i] = t[i]
BY ConcatProperties, LenProperties

LEMMA Appended ==
  ASSUME NEW S, NEW s \in Seq(S), NEW e \in S
  PROVE  /\ Append(s, e) \in Seq(S)
         /\ Len(Append(s, e)) = Len(s) + 1
         /\ \A i \in 1..Len(s) : Append(s, e)[i] = s[i]
         /\ Append(s, e)[Len(s) + 1] = e
BY AppendProperties

\* An index into a sequence that grew by one is an old index or the new one.
LEMMA OldOrNew ==
  ASSUME NEW l \in Nat, NEW i \in 1..(l + 1)
  PROVE  i \in 1..l \/ i = l + 1
OBVIOUS

\* Moving the first n of one sequence to the end of another changes nothing in
\* their concatenation.
LEMMA Moved ==
  ASSUME NEW S, NEW s \in Seq(S), NEW t \in Seq(S), NEW n \in 1..Len(t)
  PROVE  /\ s \o SubSeq(t, 1, n) \in Seq(S)
         /\ SubSeq(t, n + 1, Len(t)) \in Seq(S)
         /\ (s \o SubSeq(t, 1, n)) \o SubSeq(t, n + 1, Len(t)) = s \o t
<1> DEFINE a == SubSeq(t, 1, n)
           b == SubSeq(t, n + 1, Len(t))
<1>1. Len(t) \in Nat /\ n \in 1..Len(t)
  BY LenProperties
<1>2. a \in Seq(S) /\ Len(a) = n /\ \A i \in 1..n : a[i] = t[i]
  <2>1. \A i \in 1..n : t[i] \in S
    BY <1>1, ElementOfSeq
  <2> HIDE DEF a
  <2>2. a \in Seq(S) /\ Len(a) = n - 1 + 1 /\ \A i \in 1..(n - 1 + 1) : a[i] = t[1 + i - 1]
    BY <1>1, <2>1, SubSeqProperties DEF a
  <2> QED
    BY <1>1, <2>2
<1>3. b \in Seq(S) /\ Len(b) = Len(t) - n /\ \A i \in 1..(Len(t) - n) : b[i] = t[n + i]
  <2> DEFINE m == n + 1
             l == Len(t)
  <2>1. \A i \in m..l : t[i] \in S
    BY <1>1, ElementOfSeq
  <2>2. m \in Int /\ l \in Int
    BY <1>1
  <2> HIDE DEF m, l
  <2>3. /\ SubSeq(t, m, l) \in Seq(S)
        /\ Len(SubSeq(t, m, l)) = IF m <= l THEN l - m + 1 ELSE 0
        /\ \A i \in 1..(l - m + 1) : SubSeq(t, m, l)[i] = t[m + i - 1]
    BY <2>1, <2>2, SubSeqProperties
  <2>4. b = SubSeq(t, m, l) /\ m = n + 1 /\ l = Len(t)
    BY DEF m, l
  <2> HIDE DEF b
  <2>5. Len(b) = Len(t) - n
    BY <1>1, <2>3, <2>4
  <2>6. \A i \in 1..(Len(t) - n) : b[i] = t[n + i]
    BY <1>1, <2>3, <2>4
  <2> QED
    BY <2>3, <2>4, <2>5, <2>6
<1> HIDE DEF a, b
<1>4. s \o a \in Seq(S) /\ Len(s \o a) = Len(s) + n
  BY <1>2, Joined
<1>5. (s \o a) \o b \in Seq(S) /\ Len((s \o a) \o b) = Len(s) + Len(t)
  <2>1. (s \o a) \o b \in Seq(S) /\ Len((s \o a) \o b) = Len(s \o a) + Len(b)
    BY <1>3, <1>4, Joined
  <2>2. Len(s) \in Nat
    BY LenProperties
  <2> QED
    BY <1>1, <1>3, <1>4, <2>1, <2>2
<1>6. s \o t \in Seq(S) /\ Len(s \o t) = Len(s) + Len(t)
  BY Joined
<1>7. ASSUME NEW i \in 1..(Len(s) + Len(t))
      PROVE  ((s \o a) \o b)[i] = (s \o t)[i]
  <2>0. Len(s) \in Nat
    BY LenProperties
  <2>1. CASE i <= Len(s)
    <3>1. (s \o a)[i] = s[i] /\ (s \o t)[i] = s[i]
      BY <1>2, <2>0, <2>1, Joined
    <3>2. ((s \o a) \o b)[i] = (s \o a)[i]
      BY <1>1, <1>3, <1>4, <2>0, <2>1, Joined
    <3> QED
      BY <3>1, <3>2
  <2>2. CASE i > Len(s) /\ i <= Len(s) + n
    <3> DEFINE k == i - Len(s)
    <3>1. k \in 1..n /\ k \in 1..Len(t) /\ i = Len(s) + k
      BY <1>1, <2>0, <2>2
    <3> HIDE DEF k
    <3>2. (s \o a)[i] = a[k] /\ (s \o t)[i] = t[k]
      BY <1>2, <3>1, Joined
    <3>3. ((s \o a) \o b)[i] = (s \o a)[i]
      <4>1. i \in 1..Len(s \o a)
        BY <1>1, <1>4, <2>0, <2>2
      <4> QED
        BY <1>3, <1>4, <4>1, Joined
    <3> QED
      BY <1>2, <3>1, <3>2, <3>3
  <2>3. CASE i > Len(s) + n
    <3> DEFINE k == i - Len(s) - n
    <3>1. k \in 1..(Len(t) - n) /\ i = Len(s \o a) + k /\ n + k \in 1..Len(t)
          /\ i = Len(s) + (n + k)
      BY <1>1, <1>4, <2>0, <2>3
    <3> HIDE DEF k
    <3>2. ((s \o a) \o b)[i] = b[k]
      BY <1>3, <1>4, <3>1, Joined
    <3>3. (s \o t)[i] = t[n + k]
      BY <3>1, Joined
    <3> QED
      BY <1>3, <3>1, <3>2, <3>3
  <2>4. i <= Len(s) \/ (i > Len(s) /\ i <= Len(s) + n) \/ i > Len(s) + n
    BY <1>1, <2>0
  <2> QED
    BY <2>1, <2>2, <2>3, <2>4, Zenon
<1>8. (s \o a) \o b = s \o t
  BY <1>5, <1>6, <1>7, SeqEqual
<1> QED
  BY <1>2, <1>3, <1>4, <1>8 DEF a, b

\* A sequence over a set is one over any larger set.
LEMMA Larger ==
  ASSUME NEW S, NEW T, S \subseteq T, NEW s \in Seq(S)
  PROVE  s \in Seq(T)
BY ElementOfSeq, LenProperties, SeqDef

----------------------------------------------------------------------------
LEMMA InitInv == Init => IInv
<1> SUFFICES ASSUME Init PROVE IInv
  OBVIOUS
<1>1. sent = << >> /\ heard = << >> /\ rx = << >> /\ wire = << >> /\ key = 0
  BY DEF Init
<1>2. Types
  BY <1>1 DEF Types
<1>3. Len(Flight) = 0 /\ Len(heard) = 0
  BY <1>1 DEF Flight
<1>4. HeardInOrder
  BY <1>1 DEF HeardInOrder, Init
<1> QED
  BY <1>2, <1>3, <1>4 DEF IInv, FlightInOrder, HeardBefore

\* A step that changes only what is under way, to a part of it in order, keeps
\* the rest: Drop loses the wire, Deliver loses nothing.
LEMMA FlightStep ==
  ASSUME IInv, UNCHANGED <<sent, heard, key, deaf>>,
         rx' \in Seq(Fragments), wire' \in Seq(Fragments),
         Flight' = Flight \/ Flight' = rx
  PROVE  IInv'
<1>1. Types'
  BY DEF IInv, Types, Fragments
<1>2. HeardInOrder'
  BY DEF IInv, HeardInOrder, Last
<1>3. Len(Flight') <= Len(Flight) /\ \A i \in 1..Len(Flight') : Flight'[i] = Flight[i]
  <2>1. /\ rx \in Seq(Fragments) /\ wire \in Seq(Fragments)
        /\ Len(rx) \in Nat /\ Len(wire) \in Nat
    BY LenProperties DEF IInv, Types
  <2>2. /\ Len(Flight) = Len(rx) + Len(wire)
        /\ \A i \in 1..Len(rx) : Flight[i] = rx[i]
    BY <2>1, Joined DEF Flight
  <2>3. CASE Flight' = Flight
    BY <2>1, <2>2, <2>3
  <2>4. CASE Flight' = rx
    BY <2>1, <2>2, <2>4
  <2> QED
    BY <2>3, <2>4
<1>4. Len(Flight) \in Nat /\ Len(Flight') \in Nat
  BY Joined, LenProperties DEF IInv, Types, Flight
<1>5. \A i \in 1..Len(Flight') : i \in 1..Len(Flight)
  BY <1>3, <1>4
<1>6. FlightInOrder'
  BY <1>3, <1>5 DEF IInv, FlightInOrder, Before
<1>7. HeardBefore'
  BY <1>3, <1>5 DEF IInv, HeardBefore, Before
<1> QED
  BY <1>1, <1>2, <1>6, <1>7 DEF IInv

\* A new word goes to the end of what is under way, with a number of its own.
LEMMA SendStep ==
  ASSUME IInv, NEW k \in Dirs, SocketSend(k), UNCHANGED <<rx, heard, key, deaf>>
  PROVE  IInv'
<1> DEFINE id  == Len(sent) + 1
           F   == [id : 1..id, part : 1..2]
<1>0. /\ sent \in Seq(Dirs) /\ heard \in Seq(1..Len(sent))
      /\ rx \in Seq(Fragments) /\ wire \in Seq(Fragments)
      /\ Len(sent) \in Nat
  BY LenProperties DEF IInv, Types
<1>1. CASE UNCHANGED <<wire, sent>>
  <2>1. Flight' = Flight /\ rx' \in Seq(Fragments) /\ wire' \in Seq(Fragments)
    BY <1>0, <1>1 DEF Flight
  <2> QED
    BY <1>1, <2>1, FlightStep
<1>2. CASE /\ sent' = Append(sent, k)
           /\ \/ wire' = wire \o <<Opening(id), Ending(id)>>
              \/ wire' = Append(wire, Opening(id))
  <2>1. sent' \in Seq(Dirs) /\ Len(sent') = id /\ \A i \in 1..Len(sent) : sent'[i] = sent[i]
    BY <1>0, <1>2, Appended
  <2>2. Fragments' = F /\ Fragments \subseteq F /\ 1..Len(sent) \subseteq 1..id
    BY <1>0, <2>1 DEF Fragments
  <2>3. Opening(id) \in F /\ Ending(id) \in F
    BY <1>0 DEF Opening, Ending
  <2> HIDE DEF F
  <2>4. PICK add :
          /\ add \in Seq(F)
          /\ wire' = wire \o add
          /\ add[1] = Opening(id)
          /\ Len(add) = 1 \/ (Len(add) = 2 /\ add[2] = Ending(id))
    <3>1. wire \in Seq(F)
      BY <1>0, <2>2, Larger
    <3>2. CASE wire' = wire \o <<Opening(id), Ending(id)>>
      <4> DEFINE a == <<Opening(id), Ending(id)>>
      <4>1. a \in Seq(F) /\ Len(a) = 2 /\ a[1] = Opening(id) /\ a[2] = Ending(id)
        BY <2>3
      <4> QED
        BY <3>2, <4>1
    <3>3. CASE wire' = Append(wire, Opening(id))
      <4> DEFINE a == <<Opening(id)>>
      <4>1. a \in Seq(F) /\ Len(a) = 1 /\ a[1] = Opening(id)
        BY <2>3
      <4>2. wire' = wire \o a
        BY <2>3, <3>1, <3>3, AppendIsConcat
      <4> QED
        BY <4>1, <4>2
    <3> QED
      BY <1>2, <3>2, <3>3
  <2>5. rx \in Seq(F) /\ wire \in Seq(F) /\ rx' \in Seq(F) /\ wire' \in Seq(F)
    BY <1>0, <2>2, <2>4, Larger, Joined
  <2>6. heard' \in Seq(1..Len(sent'))
    BY <1>0, <2>1, <2>2, Larger
  <2>7. Types'
    BY <2>1, <2>2, <2>5, <2>6 DEF Types
  <2>8. Flight \in Seq(F) /\ Flight \in Seq(Fragments) /\ Flight' = Flight \o add
    <3>1. (rx \o wire) \o add = rx \o (wire \o add)
      BY <2>4, <2>5, ConcatAssociative
    <3>2. Flight' = rx \o (wire \o add)
      BY <2>4 DEF Flight
    <3>3. rx \o wire \in Seq(F) /\ rx \o wire \in Seq(Fragments)
      BY <1>0, <2>5, Joined
    <3> QED
      BY <3>1, <3>2, <3>3 DEF Flight
  <2>9. /\ Len(Flight') = Len(Flight) + Len(add) /\ Len(Flight) \in Nat
        /\ \A i \in 1..Len(Flight) : Flight'[i] = Flight[i]
        /\ \A i \in 1..Len(add) : Flight'[Len(Flight) + i] = add[i]
    BY <2>4, <2>8, Joined, LenProperties
  <2>10. \A i \in 1..Len(Flight) : Flight[i].id \in Nat /\ Flight[i].id < id
    <3>1. \A i \in 1..Len(Flight) : Flight[i] \in Fragments
      BY <2>8, ElementOfSeq
    <3> QED
      BY <1>0, <3>1 DEF Fragments
  <2>11. \A j \in 1..Len(Flight') : j > Len(Flight) =>
           \/ j = Len(Flight) + 1 /\ Flight'[j] = Opening(id)
           \/ j = Len(Flight) + 2 /\ Flight'[j] = Ending(id)
    <3> SUFFICES ASSUME NEW j \in 1..Len(Flight'), j > Len(Flight)
                 PROVE  \/ j = Len(Flight) + 1 /\ Flight'[j] = Opening(id)
                        \/ j = Len(Flight) + 2 /\ Flight'[j] = Ending(id)
      OBVIOUS
    <3> DEFINE l == Len(Flight)
               m == Len(add)
    <3>0. l \in Nat /\ (m = 1 \/ m = 2) /\ j \in 1..(l + m)
      BY <2>4, <2>9
    <3> HIDE DEF l, m
    <3>1. j = Len(Flight) + 1 \/ (j = Len(Flight) + 2 /\ Len(add) = 2)
      <4>1. j = l + 1 \/ (j = l + 2 /\ m = 2)
        <5>1. j > l
          BY DEF l
        <5> QED
          BY <3>0, <5>1
      <4> QED
        BY <4>1 DEF l, m
    <3>2. 1 \in 1..Len(add) /\ Flight'[Len(Flight) + 1] = add[1]
      BY <2>4, <2>9
    <3>3. Len(add) = 2 => Flight'[Len(Flight) + 2] = add[2]
      BY <2>9
    <3> QED
      BY <2>4, <3>1, <3>2, <3>3
  <2>12. FlightInOrder'
    <3> SUFFICES ASSUME NEW i \in 1..Len(Flight'), NEW j \in 1..Len(Flight'), i < j
                 PROVE  Before(Flight'[i], Flight'[j])
      BY DEF FlightInOrder, Before
    <3>1. CASE j <= Len(Flight)
      <4>1. i \in 1..Len(Flight) /\ j \in 1..Len(Flight)
        BY <2>9, <3>1
      <4> QED
        BY <2>9, <4>1 DEF IInv, FlightInOrder
    <3>2. CASE j > Len(Flight) /\ i <= Len(Flight)
      <4>1. i \in 1..Len(Flight) /\ Flight'[i].id < id /\ Flight'[j].id = id
        BY <2>9, <2>10, <2>11, <3>2 DEF Opening, Ending
      <4> QED
        BY <4>1 DEF Before
    <3>3. CASE i > Len(Flight)
      BY <2>9, <2>11, <3>3 DEF Before, Opening, Ending
    <3> QED
      BY <2>9, <3>1, <3>2, <3>3
  <2>13. HeardBefore'
    <3> SUFFICES ASSUME NEW i \in 1..Len(heard), NEW j \in 1..Len(Flight')
                 PROVE  Before([id |-> heard[i], part |-> 1], Flight'[j])
      BY DEF HeardBefore, Before
    <3>1. CASE j <= Len(Flight)
      <4>1. j \in 1..Len(Flight)
        BY <2>9, <3>1
      <4> QED
        BY <2>9, <4>1 DEF IInv, HeardBefore
    <3>2. CASE j > Len(Flight)
      <4>1. heard[i] \in 1..Len(sent)
        BY <1>0, ElementOfSeq
      <4>2. Flight'[j].id = id
        BY <2>11, <3>2 DEF Opening, Ending
      <4> QED
        BY <1>0, <4>1, <4>2 DEF Before
    <3> QED
      BY <2>9, <3>1, <3>2
  <2>14. HeardInOrder'
    <3>1. heard # << >> => sent'[Last(heard)] = sent[Last(heard)]
      <4>1. heard # << >> => Last(heard) \in 1..Len(sent)
        BY <1>0, ElementOfSeq, EmptySeq, LenProperties DEF Last
      <4> QED
        BY <2>1, <4>1
    <3> QED
      BY <3>1 DEF IInv, HeardInOrder, Last
  <2> QED
    BY <2>7, <2>12, <2>13, <2>14 DEF IInv
<1> QED
  BY <1>1, <1>2 DEF SocketSend

\* What the server hears is newer than all it heard and older than all that is
\* still under way; what it does not recognise it forgets.
LEMMA RecvStep ==
  ASSUME IInv, NEW n \in 0..Len(rx), ServerRecv(n)
  PROVE  IInv'
<1>0. /\ sent' = sent /\ wire' = wire /\ rx' = << >> /\ rx # << >>
      /\ sent \in Seq(Dirs) /\ heard \in Seq(1..Len(sent))
      /\ rx \in Seq(Fragments) /\ wire \in Seq(Fragments)
      /\ Len(sent) \in Nat /\ Len(rx) \in Nat /\ Len(wire) \in Nat
  BY LenProperties DEF IInv, Types, ServerRecv
<1>1. 1 \in 1..Len(rx) /\ rx[1] \in Fragments
  <2>1. Len(rx) # 0
    BY <1>0, EmptySeq
  <2> QED
    BY <1>0, <2>1, ElementOfSeq
<1>2. /\ Len(Flight) = Len(rx) + Len(wire)
      /\ Flight[1] = rx[1]
      /\ \A j \in 1..Len(wire) : Flight[Len(rx) + j] = wire[j]
  BY <1>0, <1>1, Joined DEF Flight
<1>3. Flight' = wire
  <2>1. << >> \o wire = wire
    BY <1>0, ConcatEmptySeq
  <2> QED
    BY <1>0, <2>1 DEF Flight
<1>4. \A j \in 1..Len(wire) : /\ Len(rx) + j \in 1..Len(Flight)
                              /\ 1 < Len(rx) + j
                              /\ wire[j] = Flight[Len(rx) + j]
  BY <1>0, <1>1, <1>2
<1>5. FlightInOrder'
  <2> SUFFICES ASSUME NEW i \in 1..Len(wire), NEW j \in 1..Len(wire), i < j
               PROVE  Before(wire[i], wire[j])
    BY <1>3 DEF FlightInOrder, Before
  <2>1. Len(rx) + i < Len(rx) + j
    BY <1>0
  <2> QED
    BY <1>4, <2>1 DEF IInv, FlightInOrder
<1>6. \A i \in 1..Len(heard), j \in 1..Len(wire) :
        Before([id |-> heard[i], part |-> 1], wire[j])
  BY <1>4 DEF IInv, HeardBefore
<1>7. CASE heard' = heard /\ (UNCHANGED <<key, deaf>> \/ (deaf' = TRUE /\ key' = up))
  <2>1. Types'
    BY <1>0, <1>7 DEF Types, Fragments
  <2>2. HeardInOrder'
    <3>1. CASE UNCHANGED <<key, deaf>>
      BY <1>0, <1>7, <3>1 DEF IInv, HeardInOrder, Last
    <3>2. CASE deaf' = TRUE /\ key' = up
      BY <1>0, <1>7, <3>2 DEF IInv, HeardInOrder
    <3> QED
      BY <1>7, <3>1, <3>2
  <2>3. HeardBefore'
    BY <1>3, <1>6, <1>7 DEF HeardBefore, Before
  <2> QED
    BY <1>5, <2>1, <2>2, <2>3 DEF IInv
<1> DEFINE bytes == SubSeq(rx, 1, n)
<1>8. CASE /\ n # 0 /\ Recognised(bytes, bytes[1].id) /\ deaf' = FALSE
           /\ key' = sent[bytes[1].id] /\ heard' = Append(heard, bytes[1].id)
  <2> DEFINE id == rx[1].id
  <2>8. bytes \in Seq(Fragments) /\ bytes # << >> /\ bytes[1] = rx[1]
    <3>1. n \in 1..Len(rx)
      BY <1>0, <1>8
    <3>2. /\ bytes \in Seq(Fragments) /\ Len(bytes) = n /\ bytes[1] = rx[1]
      <4>1. \A i \in 1..n : rx[i] \in Fragments
        BY <1>0, <3>1, ElementOfSeq
      <4>2. /\ SubSeq(rx, 1, n) \in Seq(Fragments)
            /\ Len(SubSeq(rx, 1, n)) = n
            /\ \A i \in 1..n : SubSeq(rx, 1, n)[i] = rx[i]
        BY <3>1, <4>1, SubSeqProperties
      <4> QED
        BY <3>1, <4>2
    <3> QED
      BY <3>1, <3>2, EmptySeq
  <2> HIDE DEF bytes
  <2>0. id \in 1..Len(sent)
    BY <1>1 DEF Fragments
  <2>1. rx[1].part = 1
    <3>1. rx[1] = Opening(id)
      BY <1>1, <1>8, <2>8 DEF Recognised, IsPrefix
    <3> QED
      BY <3>1 DEF Opening
  <2> HIDE DEF id
  <2>2. /\ heard' \in Seq(1..Len(sent)) /\ Len(heard') = Len(heard) + 1
        /\ Len(heard) \in Nat
        /\ \A i \in 1..Len(heard) : heard'[i] = heard[i]
        /\ heard'[Len(heard) + 1] = id
    BY <1>0, <1>8, <2>0, <2>8, Appended, LenProperties DEF id
  <2>3. Types'
    BY <1>0, <2>2 DEF Types, Fragments
  <2>4. \A i \in 1..Len(heard) : heard[i] < id
    <3>1. \A i \in 1..Len(heard) : heard[i] \in 1..Len(sent)
      BY <1>0, ElementOfSeq
    <3>2. 1 \in 1..Len(Flight)
      BY <1>0, <1>1, <1>2
    <3>3. \A i \in 1..Len(heard) : Before([id |-> heard[i], part |-> 1], rx[1])
      BY <1>2, <3>2 DEF IInv, HeardBefore
    <3> QED
      BY <1>0, <2>0, <2>1, <3>1, <3>3 DEF Before, id
  <2>5. \A j \in 1..Len(wire) : Before([id |-> id, part |-> 1], wire[j])
    <3>1. \A j \in 1..Len(wire) : Before(rx[1], wire[j])
      <4>1. 1 \in 1..Len(Flight)
        BY <1>0, <1>1, <1>2
      <4> QED
        BY <1>2, <1>4, <4>1 DEF IInv, FlightInOrder
    <3> QED
      BY <2>1, <3>1 DEF Before, id
  <2>6. HeardBefore'
    <3> SUFFICES ASSUME NEW i \in 1..Len(heard'), NEW j \in 1..Len(wire)
                 PROVE  Before([id |-> heard'[i], part |-> 1], wire[j])
      BY <1>3 DEF HeardBefore, Before
    <3>1. CASE i \in 1..Len(heard)
      BY <1>6, <2>2, <3>1
    <3>2. CASE i = Len(heard) + 1
      BY <2>2, <2>5, <3>2
    <3>3. i \in 1..(Len(heard) + 1) /\ Len(heard) \in Nat
      BY <2>2, Zenon
    <3> QED
      BY <3>1, <3>2, <3>3, OldOrNew, Zenon
  <2>7. HeardInOrder'
    <3>1. DOMAIN heard' = 1..Len(heard') /\ DOMAIN heard = 1..Len(heard)
      BY <1>0, <2>2, LenProperties
    <3>2. \A i, j \in 1..Len(heard') : i < j => heard'[i] < heard'[j]
      <4> SUFFICES ASSUME NEW i \in 1..Len(heard'), NEW j \in 1..Len(heard'), i < j
                   PROVE  heard'[i] < heard'[j]
        OBVIOUS
      <4> DEFINE l == Len(heard)
      <4>0. l \in Nat /\ i \in 1..(l + 1) /\ j \in 1..(l + 1)
        BY <2>2, Zenon
      <4>1. i \in 1..Len(heard)
        <5> HIDE DEF l
        <5>1. i \in 1..l
          BY <4>0
        <5> QED
          BY <5>1 DEF l
      <4>2. CASE j \in 1..Len(heard)
        BY <2>2, <3>1, <4>1, <4>2 DEF IInv, HeardInOrder
      <4>3. CASE j = Len(heard) + 1
        BY <2>2, <2>4, <4>1, <4>3
      <4>4. j \in 1..Len(heard) \/ j = Len(heard) + 1
        BY <4>0, OldOrNew, Zenon
      <4> QED
        BY <4>2, <4>3, <4>4, Zenon
    <3>3. heard' # << >> /\ Last(heard') = id
      BY <1>0, <1>8, <2>0, <2>2, <2>8, AppendProperties DEF Last, id
    <3>4. key' = sent'[id] /\ deaf' = FALSE
      BY <1>0, <1>8, <2>8 DEF id
    <3> QED
      BY <3>1, <3>2, <3>3, <3>4 DEF HeardInOrder
  <2> QED
    BY <1>5, <2>3, <2>6, <2>7 DEF IInv
<1>9. bytes = << >> <=> n = 0
  <2>1. Len(SubSeq(rx, 1, n)) = n
    <3>1. \A i \in 1..n : rx[i] \in Fragments
      BY <1>0, ElementOfSeq
    <3> QED
      BY <1>0, <3>1, SubSeqProperties
  <2>2. n = 0 => SubSeq(rx, 1, n) = << >>
    BY <1>0, <2>1, EmptySeq, SubSeqProperties
  <2> QED
    BY <2>1, <2>2
<1> HIDE DEF bytes
<1>10. SetKey(bytes)
  BY DEF ServerRecv, bytes
<1> QED
  BY <1>7, <1>8, <1>9, <1>10 DEF SetKey, server

----------------------------------------------------------------------------
LEMMA NextInv == IInv /\ [Next]_vars => IInv'
<1> SUFFICES ASSUME IInv, [Next]_vars PROVE IInv'
  OBVIOUS
<1>0. /\ rx \in Seq(Fragments) /\ wire \in Seq(Fragments)
  BY DEF IInv, Types
\* Nothing that the invariant reads changes.
<1> DEFINE Still == UNCHANGED <<wire, rx, key, sent, heard, deaf>>
<1>1. ASSUME Still PROVE IInv'
  BY <1>0, <1>1, FlightStep DEF Flight
<1>2. ASSUME NEW pressed \in SUBSET Pins, ClientTick(pressed) PROVE IInv'
  <2>1. rx' = rx /\ heard' = heard /\ key' = key /\ deaf' = deaf
    BY <1>2 DEF ClientTick, server
  <2>2. UNCHANGED <<wire, sent>> \/ \E k \in Dirs : SocketSend(k)
    BY <1>2 DEF ClientTick, SendKey
  <2> QED
    BY <1>1, <2>1, <2>2, SendStep
<1>3. CASE ConnectOK \/ ConnectFail \/ EchoArrives
  BY <1>1, <1>3 DEF ConnectOK, ConnectFail, EchoArrives, LibraryStep, server
<1>4. ASSUME NEW reason, Drop(reason) PROVE IInv'
  <2>1. rx' = rx /\ wire' = << >> /\ UNCHANGED <<sent, heard, key, deaf>>
    BY <1>4 DEF Drop, LibraryStep, server
  <2>2. Flight' = rx
    <3>1. rx \o << >> = rx
      BY <1>0, ConcatEmptySeq
    <3> QED
      BY <2>1, <3>1 DEF Flight
  <2> QED
    BY <1>0, <2>1, <2>2, FlightStep
<1>5. CASE Handlers
  BY <1>1, <1>5 DEF Handlers, HandleGlobalInt, HandleUp, HandleDown, HandleTimOut,
                    HandlerStep, server
<1>6. ASSUME NEW n \in 1..Len(wire), Deliver(n) PROVE IInv'
  <2>1. /\ rx' \in Seq(Fragments) /\ wire' \in Seq(Fragments)
        /\ rx' \o wire' = rx \o wire
    BY <1>0, <1>6, Moved DEF Deliver
  <2>2. Flight' = Flight /\ UNCHANGED <<sent, heard, key, deaf>>
    BY <1>6, <2>1 DEF Flight, Deliver, server
  <2> QED
    BY <2>1, <2>2, FlightStep
<1>7. ASSUME NEW n \in 0..Len(rx), ServerRecv(n) PROVE IInv'
  BY <1>7, RecvStep
<1>8. CASE UNCHANGED vars
  BY <1>1, <1>8 DEF vars
<1> QED
  BY <1>2, <1>3, <1>4, <1>5, <1>6, <1>7, <1>8 DEF Next, Library

\* For every set of keys, any number of words and any number of lost
\* connections, and whatever the library takes of the echoes, the server hears
\* words in the order of the presses, each at most once, and its key is the last of
\* them, or up after an echo of which nothing was taken.
THEOREM NetHeardInOrder == Spec => []HeardInOrder
<1>1. IInv => HeardInOrder
  BY DEF IInv
<1> QED
  BY <1>1, InitInv, NextInv, PTL DEF Spec

----------------------------------------------------------------------------
Up   == {"RECV", "CONNECT"}
Down == {"DISCONNECT", "TIM_OUT", "RESET"}

\* What linkstatus will be when every flag that is raised or being handled has
\* been: the handler ends with those that take the link down.
Outcome ==
  /\ (initstat \union flags) \intersect Down = {}
  /\ linkstatus \/ (initstat \union flags) \intersect Up # {}

\* The library waits while a snapshot is handled, so that flags are in one of
\* the two sets only; nothing is raised while a socket connects; and an echo is
\* under way only on an open one.
LinkInv ==
  /\ initstat = {} \/ flags = {}
  /\ socket = "opening" => flags = {}
  /\ echo => socket = "open"
  /\ Outcome <=> socket = "open"

LEMMA LinkStart == Init => LinkInv
BY DEF Init, LinkInv, Outcome, Up

LEMMA LinkSteps == LinkInv /\ [Next]_vars => LinkInv'
<1> SUFFICES ASSUME LinkInv, [Next]_vars PROVE LinkInv'
  OBVIOUS
<1>1. ASSUME NEW pressed \in SUBSET Pins, ClientTick(pressed) PROVE LinkInv'
  BY <1>1 DEF ClientTick, LinkInv, Outcome
<1>2. CASE ConnectOK
  <2>1. socket = "opening" /\ flags = {} /\ initstat = {} /\ UNCHANGED <<initstat, linkstatus>>
    BY <1>2 DEF ConnectOK, LibraryStep, LinkInv
  <2>2. socket' = "open" /\ flags' = {"CONNECT"}
    BY <1>2, <2>1 DEF ConnectOK
  <2> QED
    BY <2>1, <2>2 DEF LinkInv, Outcome, Up, Down
<1>3. ASSUME ConnectFail \/ \E reason \in {"DISCONNECT", "TIM_OUT"} : Drop(reason)
      PROVE  LinkInv'
  <2>1. PICK reason \in {"DISCONNECT", "TIM_OUT"} : flags' = flags \union {reason}
    BY <1>3 DEF ConnectFail, Drop
  <2>2. socket' = "dead" /\ initstat = {} /\ initstat' = {} /\ ~echo'
    BY <1>3 DEF ConnectFail, Drop, LibraryStep, LinkInv
  <2> QED
    BY <2>1, <2>2 DEF LinkInv, Outcome, Down
<1>4. CASE EchoArrives
  <2>1. echo /\ socket = "open" /\ socket' = "open" /\ ~echo'
    BY <1>4 DEF EchoArrives, LinkInv
  <2>2. initstat = {} /\ UNCHANGED <<initstat, linkstatus>> /\ flags' = flags \union {"RECV"}
    BY <1>4 DEF EchoArrives, LibraryStep
  <2> QED
    BY <2>1, <2>2 DEF LinkInv, Outcome, Up, Down
<1>5. CASE HandleGlobalInt
  BY <1>5 DEF HandleGlobalInt, HandlerStep, LinkInv, Outcome
<1>6. CASE HandleUp
  <2>1. PICK flag \in {"RECV", "CONNECT"} : flag \in initstat /\ initstat' = initstat \ {flag}
    BY <1>6 DEF HandleUp, IsNext
  <2>2. linkstatus' = TRUE /\ UNCHANGED <<socket, flags, echo>> /\ flags = {}
    BY <1>6, <2>1 DEF HandleUp, HandlerStep, LinkInv
  <2> QED
    BY <2>1, <2>2 DEF LinkInv, Outcome, Up, Down
<1>7. CASE HandleDown
  <2>1. PICK flag \in {"DISCONNECT", "RESET"} : IsNext(flag) /\ initstat' = initstat \ {flag}
    BY <1>7 DEF HandleDown
  <2>2. linkstatus' = FALSE /\ UNCHANGED <<socket, flags, echo>>
    BY <1>7 DEF HandleDown, HandlerStep
  <2>3. flag \in initstat /\ flags = {}
    BY <2>1 DEF IsNext, LinkInv
  <2>4. "RECV" \notin initstat /\ "CONNECT" \notin initstat
    <3>1. /\ DOMAIN HandleOrder = 1..5
          /\ HandleOrder[1] = "RECV" /\ HandleOrder[2] = "CONNECT"
          /\ HandleOrder[3] = "DISCONNECT" /\ HandleOrder[5] = "RESET"
      BY DEF HandleOrder
    <3>2. PICK i \in 3..5 : HandleOrder[i] = flag
      BY <3>1
    <3> HIDE DEF HandleOrder
    <3> QED
      BY <2>1, <3>1, <3>2 DEF IsNext
  <2> QED
    BY <2>1, <2>2, <2>3, <2>4 DEF LinkInv, Outcome, Up, Down
<1>8. CASE HandleTimOut
  <2>1. "TIM_OUT" \in initstat /\ initstat' = (initstat \ {"TIM_OUT"}) \union {"RESET"}
    BY <1>8 DEF HandleTimOut, IsNext
  <2>2. socket' = "opening" /\ UNCHANGED <<flags, echo>> /\ flags = {}
    BY <1>8, <2>1 DEF HandleTimOut, HandlerStep, LinkInv
  <2>3. socket # "open" /\ ~echo
    BY <2>1 DEF LinkInv, Outcome, Down
  <2> QED
    BY <2>1, <2>2, <2>3 DEF LinkInv, Outcome, Down
<1>9. ASSUME NEW n \in 1..Len(wire), Deliver(n) PROVE LinkInv'
  BY <1>9 DEF Deliver, LinkInv, Outcome
<1>10. ASSUME NEW n \in 0..Len(rx), ServerRecv(n) PROVE LinkInv'
  BY <1>10 DEF ServerRecv, LinkInv, Outcome
<1>11. CASE UNCHANGED vars
  BY <1>11 DEF vars, LinkInv, Outcome
<1> QED
  BY <1>1, <1>2, <1>3, <1>4, <1>5, <1>6, <1>7, <1>8, <1>9, <1>10, <1>11
     DEF Next, Library, Handlers

\* For every number of words, losses and failed attempts, and every order of late
\* echoes, connections and their ends, linkstatus is right once the flags are handled.
THEOREM NetLinkAgrees == Spec => []LinkAgrees
<1>1. LinkInv => LinkAgrees
  BY DEF LinkInv, Outcome, LinkAgrees
<1> QED
  BY <1>1, LinkStart, LinkSteps, PTL DEF Spec

----------------------------------------------------------------------------
\* In an interrupt that compares, scankeyprev is what the one before has read.
ReadBefore == odd => scankeyprev = reading

LEMMA ReadBeforeStart == Init => ReadBefore
BY DEF Init, ReadBefore

LEMMA ReadBeforeSteps == ReadBefore /\ [Next]_vars => ReadBefore'
<1> SUFFICES ASSUME ReadBefore, [Next]_vars PROVE ReadBefore'
  OBVIOUS
<1>1. ASSUME NEW pressed \in SUBSET Pins, ClientTick(pressed) PROVE ReadBefore'
  <2> DEFINE read == Basic_Key_Handle(pressed)
  <2>1. /\ scankeyprev' = (IF odd THEN scankeyprev ELSE read)
        /\ odd' = ~odd /\ reading' = read
    BY <1>1 DEF ClientTick
  <2> HIDE DEF read
  <2> QED
    BY <2>1 DEF ReadBefore
<1>2. CASE UNCHANGED isr
  BY <1>2 DEF isr, ReadBefore
<1>3. CASE Library \/ Handlers
  BY <1>2, <1>3 DEF Library, Handlers, ConnectOK, ConnectFail, EchoArrives, Drop, LibraryStep,
                    HandleGlobalInt, HandleUp, HandleDown, HandleTimOut, HandlerStep
<1>4. CASE (\E n \in 1..Len(wire) : Deliver(n)) \/ \E n \in 0..Len(rx) : ServerRecv(n)
  BY <1>2, <1>4 DEF Deliver, ServerRecv
<1>5. CASE UNCHANGED vars
  BY <1>2, <1>5 DEF vars, isr
<1> QED
  BY <1>1, <1>3, <1>4, <1>5 DEF Next

\* For every set of keys: a word goes out only for a key that the interrupt and the
\* one before it have read, whatever the keypad did in between.
THEOREM NetDebounced == Spec => Debounced
<1>1. IInv /\ ReadBefore /\ [Next]_vars
      => [sent' # sent => reading = Last(sent') /\ reading' = Last(sent')]_vars
  <2> SUFFICES ASSUME IInv, ReadBefore, Next, sent' # sent
               PROVE  reading = Last(sent') /\ reading' = Last(sent')
    OBVIOUS
  <2>1. PICK pressed \in SUBSET Pins : ClientTick(pressed)
    BY DEF Next, Library, Handlers, ConnectOK, ConnectFail, EchoArrives, Drop, LibraryStep,
           HandleGlobalInt, HandleUp, HandleDown, HandleTimOut, HandlerStep, Deliver, ServerRecv
  <2> DEFINE read == Basic_Key_Handle(pressed)
             k    == Getkey(read)
  <2>2. k # 0 /\ SendKey(k) /\ reading' = read
    BY <2>1 DEF ClientTick
  <2>3. k = read /\ odd /\ read = scankeyprev
    BY <2>2 DEF Getkey
  <2> HIDE DEF read, k
  <2>4. k \in Dirs /\ sent' = Append(sent, k)
    BY <2>2 DEF SendKey, SocketSend
  <2>5. sent \in Seq(Dirs)
    BY DEF IInv, Types
  <2>6. Last(sent') = k
    <3>1. /\ Len(sent') = Len(sent) + 1 /\ sent'[Len(sent) + 1] = k
      BY <2>4, <2>5, AppendProperties
    <3> QED
      BY <3>1 DEF Last
  <2> QED
    BY <2>2, <2>3, <2>6 DEF ReadBefore
<1>2. Spec => []IInv
  BY InitInv, NextInv, PTL DEF Spec
<1> QED
  BY <1>1, <1>2, ReadBeforeStart, ReadBeforeSteps, PTL DEF Spec, Debounced

============================================================================
