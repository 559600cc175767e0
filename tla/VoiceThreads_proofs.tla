------------------------- MODULE VoiceThreads_proofs -------------------------
(***************************************************************************)
(* Theorems about VoiceThreads, for any mailboxes, templates and retries.  *)
(***************************************************************************)
EXTENDS VoiceThreads, TLAPS

\* Where a recorder has the mutex.
Holding == {"record", "delay", "arm", "noise", "recv", "judge", "send", "release", "save", "rest"}

\* Whatever a priority may be.
Prios == 0..255

MutexType ==
  [value : {0, 1}, owner : Recorders \union {NoThread}, original : Prios,
   waiting : {<<>>} \union {<<t>> : t \in Recorders}]

Types ==
  /\ pc \in [Threads -> Places]
  /\ prio \in [Threads -> Prios]
  /\ V_Data_mutex \in MutexType
  /\ V_Data \in [by : Recorders \union {NoThread}, form : Forms, voice : Voices]

\* The owner is the one recorder between its take and its release, and the other
\* one waits in the queue if it is suspended.
MutexInv ==
  /\ V_Data_mutex.value = 1 <=> V_Data_mutex.owner = NoThread
  /\ \A t \in Recorders :
       /\ pc[t] \in Holding <=> V_Data_mutex.owner = t
       /\ pc[t] = "suspended" <=> V_Data_mutex.waiting = <<t>>
  /\ V_Data_mutex.owner = NoThread => V_Data_mutex.waiting = <<>>

\* What the recorder is at, from the place its owner is in.
RecorderInv ==
  /\ V_Data_mutex.owner = NoThread => dma = "off" /\ voice_rec_mb = 0
  /\ \A t \in Recorders :
       /\ pc[t] \in {"record", "delay", "arm"} => dma = "off" /\ voice_rec_mb = 0
       /\ pc[t] \in {"noise", "recv"} =>
            /\ V_Data.by = t
            /\ \/ dma # "off" /\ voice_rec_mb = 0
               \/ dma = "off" /\ voice_rec_mb = 1 /\ V_Data.form = "mono"
       /\ pc[t] \in {"judge", "send", "release", "save", "rest"} =>
            dma = "off" /\ voice_rec_mb = 0 /\ V_Data.by = t /\ V_Data.form = "mono"

OwnerInv == Types /\ MutexInv /\ RecorderInv

\* The first thread that waits is alone in the queue.
LEMMA QueuedAlone ==
  ASSUME NEW t, NEW p
  PROVE  Queued(<<>>, t, p) = <<t>>
<1>1. Ahead(<<>>, t, p) = 0
  BY DEF Ahead
<1>2. SubSeq(<<>>, 1, 0) = <<>>
  OBVIOUS
<1>3. <<>> \o <<t>> \o <<>> = <<t>>
  OBVIOUS
<1>4. Queued(<<>>, t, p) = SubSeq(<<>>, 1, (0 + 1) - 1) \o <<t>> \o SubSeq(<<>>, 0 + 1, Len(<<>>))
  BY <1>1, Zenon DEF Queued, InsertAt
<1>5. (0 + 1) - 1 = 0 /\ 0 + 1 = 1 /\ Len(<<>>) = 0
  OBVIOUS
<1> QED
  BY <1>2, <1>3, <1>4, <1>5, Zenon

\* The invariant holds at the start.
LEMMA OwnerInit == Init => OwnerInv
<1> SUFFICES ASSUME Init PROVE OwnerInv
  OBVIOUS
<1> USE VoiceAssumption DEF Init
<1>1. Types
  <2>1. pc \in [Threads -> Places]
    BY DEF Places
  <2>2. prio \in [Threads -> Prios]
    BY DEF Base, Prios
  <2>3. Free \in MutexType
    BY DEF Free, MutexType, Prios
  <2>4. V_Data \in [by : Recorders \union {NoThread}, form : Forms, voice : Voices]
    BY DEF Voices, Forms
  <2> QED
    BY <2>1, <2>2, <2>3, <2>4 DEF Types
<1>2. MutexInv
  BY DEF MutexInv, Free, Recorders, Holding
<1>3. RecorderInv
  BY DEF RecorderInv, Free, Recorders
<1> QED
  BY <1>1, <1>2, <1>3 DEF OwnerInv

\* The four fields of a mutex, one at a time.
LEMMA MutexFields ==
  ASSUME NEW value \in {0, 1}, NEW owner \in Recorders \union {NoThread}, NEW original \in Prios,
         NEW waiting \in {<<>>} \union {<<t>> : t \in Recorders}, NEW m \in MutexType
  PROVE  /\ [m EXCEPT !.value = value, !.owner = owner, !.original = original] \in MutexType
         /\ [m EXCEPT !.owner = owner, !.original = original, !.waiting = waiting] \in MutexType
         /\ [m EXCEPT !.waiting = waiting] \in MutexType
BY DEF MutexType

\* A step that moves no recorder and leaves the mutex and the recorder alone.
LEMMA OwnerElsewhere ==
  ASSUME OwnerInv, pc' \in [Threads -> Places], \A t \in Recorders : pc'[t] = pc[t],
         UNCHANGED <<prio, V_Data_mutex, recorder>>
  PROVE  OwnerInv'
BY DEF OwnerInv, Types, MutexInv, RecorderInv, recorder

LEMMA TakeKeeps == ASSUME OwnerInv, NEW t \in Recorders, Take(t) PROVE OwnerInv'
<1> USE VoiceAssumption DEF OwnerInv, Take, At, Goto, recorder, verdict, lottery, training
<1>0. t \in Threads /\ pc[t] = "take" /\ V_Data_mutex.owner # t /\ V_Data_mutex \in MutexType
      /\ prio[t] \in Prios
  BY DEF Running, Ready, Recorders, MutexInv, Holding, Types
<1>1. CASE Available(V_Data_mutex)
  <2>1. /\ V_Data_mutex.value = 1 /\ V_Data_mutex.owner = NoThread
        /\ V_Data_mutex' = [V_Data_mutex EXCEPT !.value = 0, !.owner = t, !.original = prio[t]]
        /\ pc' = [pc EXCEPT ![t] = "record"]
        /\ UNCHANGED <<prio, dma, V_Data, voice_rec_mb>>
    <3>1. V_Data_mutex.value = 1 /\ V_Data_mutex.value - 1 = 0
      BY <1>0, <1>1 DEF Available, MutexType
    <3>2. V_Data_mutex' = [V_Data_mutex EXCEPT !.value = V_Data_mutex.value - 1, !.owner = t,
                                               !.original = prio[t]]
      BY <1>1, Zenon DEF Taken
    <3>3. V_Data_mutex.owner = NoThread
      BY <3>1 DEF MutexInv
    <3> QED
      BY <1>1, <3>1, <3>2, <3>3, Zenon
  <2>2. V_Data_mutex' \in MutexType
    BY <2>1, <1>0, MutexFields
  <2>3. V_Data_mutex'.value = 0 /\ V_Data_mutex'.owner = t /\ V_Data_mutex'.waiting = <<>>
    BY <2>1, <1>0 DEF MutexType, MutexInv
  <2>4. Types'
    BY <2>1, <2>2, <1>0 DEF Types, Places
  <2>5. MutexInv'
    BY <2>1, <2>3, <1>0 DEF Types, MutexInv, Holding, Recorders
  <2>6. RecorderInv'
    BY <2>1, <2>3, <1>0 DEF Types, MutexInv, RecorderInv, Recorders
  <2> QED
    BY <2>4, <2>5, <2>6
<1>2. CASE ~Available(V_Data_mutex)
  <2>1. PICK o \in Recorders : o # t /\ V_Data_mutex.owner = o
    BY <1>0, <1>2 DEF Available, MutexType, MutexInv
  <2>2. V_Data_mutex.waiting = <<>>
    <3>1. pc[o] # "suspended" /\ pc[t] # "suspended"
      BY <1>0, <2>1 DEF MutexInv, Holding
    <3>2. \A u \in Recorders : u = o \/ u = t
      BY <2>1 DEF Recorders
    <3> QED
      BY <1>0, <3>1, <3>2 DEF MutexType, MutexInv
  <2>3. V_Data_mutex' = [V_Data_mutex EXCEPT !.waiting = <<t>>]
    BY <1>2, <2>2, QueuedAlone DEF Suspended
  <2>4. /\ pc' = [pc EXCEPT ![t] = "suspended"]
        /\ UNCHANGED <<dma, V_Data, voice_rec_mb>>
    BY <1>2
  <2>5. prio' \in [Threads -> Prios]
    BY <1>0, <1>2, <2>1 DEF Types, Boosted, Recorders
  <2>6. Types'
    <3>1. V_Data_mutex' \in MutexType
      BY <2>3, <1>0 DEF MutexType
    <3> QED
      BY <3>1, <2>4, <2>5, <1>0 DEF Types, Places
  <2>7. MutexInv'
    <3>1. V_Data_mutex'.value = V_Data_mutex.value /\ V_Data_mutex'.owner = o /\ V_Data_mutex'.waiting = <<t>>
      BY <2>1, <2>3, <1>0 DEF MutexType
    <3> QED
      BY <3>1, <2>1, <2>2, <2>4, <1>0 DEF Types, MutexInv, Holding, Recorders
  <2>8. RecorderInv'
    BY <2>3, <2>4, <1>0 DEF Types, MutexType, MutexInv, RecorderInv, Recorders
  <2> QED
    BY <2>6, <2>7, <2>8
<1> QED
  BY <1>1, <1>2

LEMMA ReleaseKeeps ==
  ASSUME OwnerInv, NEW t \in Recorders, NEW there \in {"idle", "take"}, Release(t, there)
  PROVE  OwnerInv'
<1> USE VoiceAssumption DEF OwnerInv
<1>0. /\ t \in Threads /\ pc[t] = "release" /\ V_Data_mutex.owner = t
      /\ V_Data_mutex \in MutexType /\ V_Data_mutex.value = 0
  <2>1. t \in Threads /\ pc[t] = "release"
    BY DEF Release, At, Running, Ready, Recorders
  <2>2. V_Data_mutex.owner = t
    BY <2>1 DEF MutexInv, Holding
  <2> QED
    BY <2>1, <2>2 DEF Types, MutexType, MutexInv
<1>1. prio' = Restored(V_Data_mutex, prio) /\ prio' \in [Threads -> Prios]
  BY <1>0 DEF Release, Restored, Types, MutexType
<1>2. UNCHANGED <<dma, V_Data, voice_rec_mb>> /\ dma = "off" /\ voice_rec_mb = 0
  BY <1>0 DEF RecorderInv, Release, recorder
<1>3. V_Data_mutex' = Released(V_Data_mutex, prio')
  BY <1>1 DEF Release
<1>4. pc' = [u \in Threads |->
               IF u = t THEN there ELSE IF u = V_Data_mutex'.owner THEN "record" ELSE pc[u]]
  BY <1>1, <1>3 DEF Release
<1>5. there \in Places /\ there \notin Holding /\ there # "suspended" /\ "record" \in Places
  BY DEF Places, Holding
<1>6. pc' \in [Threads -> Places]
  BY <1>4, <1>5 DEF Types
<1>7. pc'[t] = there
  BY <1>0, <1>4
<1>8. \A u \in Recorders : u \in Threads
  BY DEF Recorders
<1>a. CASE V_Data_mutex.waiting = <<>>
  <2>1. V_Data_mutex' = [V_Data_mutex EXCEPT !.value = 1, !.owner = NoThread, !.original = 255]
    BY <1>0, <1>3, <1>a DEF Released
  <2>2. V_Data_mutex' \in MutexType
    <3> \A m \in MutexType :
          [m EXCEPT !.value = 1, !.owner = NoThread, !.original = 255] \in MutexType
      <4>1. 1 \in {0, 1} /\ NoThread \in Recorders \union {NoThread} /\ 255 \in Prios
        BY DEF Prios
      <4> QED
        BY <4>1 DEF MutexType
    <3> QED
      BY <1>0, <2>1, Zenon
  <2>3. V_Data_mutex'.value = 1 /\ V_Data_mutex'.owner = NoThread /\ V_Data_mutex'.waiting = <<>>
    BY <2>1, <1>0, <1>a DEF MutexType
  <2>4. \A u \in Recorders : u # t => pc'[u] = pc[u]
    BY <1>4, <1>8, <2>3
  <2>5. Types'
    BY <2>2, <1>6, <1>1, <1>2 DEF Types
  <2>6. MutexInv'
    BY <2>3, <2>4, <1>0, <1>5, <1>7, <1>8, <1>a DEF MutexInv
  <2>7. \A u \in Recorders : pc'[u] \notin Holding
    BY <2>3, <2>6, <1>8 DEF MutexInv
  <2>8. RecorderInv'
    BY <2>7, <1>2 DEF RecorderInv, Holding
  <2> QED
    BY <2>5, <2>6, <2>8
<1>b. CASE V_Data_mutex.waiting # <<>>
  <2>1. PICK u \in Recorders : V_Data_mutex.waiting = <<u>>
    BY <1>0, <1>b DEF MutexType
  <2>2. u \in Threads /\ u # t /\ pc[u] = "suspended"
    BY <2>1, <1>0, <1>8 DEF MutexInv
  <2>3. Head(V_Data_mutex.waiting) = u /\ Tail(V_Data_mutex.waiting) = <<>>
    BY <2>1
  <2>4. V_Data_mutex' = [V_Data_mutex EXCEPT !.owner = u, !.original = prio'[u], !.waiting = <<>>]
    BY <1>3, <1>b, <2>3 DEF Released
  <2>5. V_Data_mutex' \in MutexType
    <3>1. prio'[u] \in Prios
      BY <1>1, <2>2
    <3>2. \A m \in MutexType, n \in Prios :
            [m EXCEPT !.owner = u, !.original = n, !.waiting = <<>>] \in MutexType
      BY MutexFields
    <3> QED
      BY <1>0, <2>4, <3>1, <3>2, Zenon
  <2>6. V_Data_mutex'.value = 0 /\ V_Data_mutex'.owner = u /\ V_Data_mutex'.waiting = <<>>
    BY <2>4, <1>0 DEF MutexType
  <2>7. pc'[u] = "record" /\ \A v \in Recorders : v = t \/ v = u
    BY <1>4, <2>2, <2>6 DEF Recorders
  <2>8. Types'
    BY <2>5, <1>6, <1>1, <1>2 DEF Types
  <2>9. MutexInv'
    <3>1. <<t>> # <<>> /\ <<u>> # <<>> /\ "record" \in Holding /\ "record" # "suspended"
      BY DEF Holding
    <3>2. u # NoThread
      BY <2>2
    <3> QED
      BY <2>2, <2>6, <2>7, <1>5, <1>7, <3>1, <3>2 DEF MutexInv
  <2>10. RecorderInv'
    BY <2>2, <2>6, <2>7, <1>2, <1>7 DEF RecorderInv
  <2> QED
    BY <2>8, <2>9, <2>10
<1> QED
  BY <1>a, <1>b

\* Where a recorder may go without touching anything it shares.
Before == {"record", "delay", "arm"}
After == {"judge", "send", "release", "save", "rest"}
Moves ==
  (After \X (After \union {"record"})) \union (Before \X Before)
    \union {<<"noise", "recv">>, <<"idle", "take">>}

LEMMA MoveKeeps ==
  ASSUME OwnerInv, NEW t \in Recorders, NEW there, <<pc[t], there>> \in Moves, Goto(t, there),
         UNCHANGED <<prio, V_Data_mutex, dma, V_Data, voice_rec_mb>>
  PROVE  OwnerInv'
<1> USE VoiceAssumption DEF OwnerInv
<1>0. t \in Threads /\ \A u \in Recorders : u \in Threads
  BY DEF Recorders
<1>1. /\ there \in Places /\ pc[t] # "suspended" /\ there # "suspended"
      /\ pc[t] \in Holding <=> there \in Holding
      /\ there \in After => pc[t] \in After
      /\ there \in {"noise", "recv"} => pc[t] = "noise"
      /\ there \in Before => pc[t] \in Before \union After
  BY DEF Moves, Places, Holding, Before, After
<1>2. pc' \in [Threads -> Places] /\ pc'[t] = there /\ \A u \in Recorders : u # t => pc'[u] = pc[u]
  BY <1>0, <1>1 DEF Goto, Types
<1>3. Types'
  BY <1>2 DEF Types
<1>4. MutexInv'
  BY <1>1, <1>2 DEF MutexInv
<1>5. RecorderInv'
  <2>1. V_Data_mutex.owner = NoThread => dma = "off" /\ voice_rec_mb = 0
    BY DEF RecorderInv
  <2>2. ASSUME NEW u \in Recorders, u # t
        PROVE  /\ pc[u] \in Before => dma = "off" /\ voice_rec_mb = 0
               /\ pc[u] \in {"noise", "recv"} =>
                    /\ V_Data.by = u
                    /\ \/ dma # "off" /\ voice_rec_mb = 0
                       \/ dma = "off" /\ voice_rec_mb = 1 /\ V_Data.form = "mono"
               /\ pc[u] \in After =>
                    dma = "off" /\ voice_rec_mb = 0 /\ V_Data.by = u /\ V_Data.form = "mono"
    BY DEF RecorderInv, Before, After
  <2>3. /\ there \in Before => dma = "off" /\ voice_rec_mb = 0
        /\ there \in {"noise", "recv"} =>
             /\ V_Data.by = t
             /\ \/ dma # "off" /\ voice_rec_mb = 0
                \/ dma = "off" /\ voice_rec_mb = 1 /\ V_Data.form = "mono"
        /\ there \in After =>
             dma = "off" /\ voice_rec_mb = 0 /\ V_Data.by = t /\ V_Data.form = "mono"
    BY <1>1 DEF RecorderInv, Before, After
  <2> QED
    BY <1>2, <2>1, <2>2, <2>3 DEF RecorderInv, Before, After
<1> QED
  BY <1>3, <1>4, <1>5

\* The recorder is at work, or has filled its buffer, for the owner of the mutex.
LEMMA OwnerRecords ==
  ASSUME OwnerInv, dma # "off" \/ voice_rec_mb # 0
  PROVE  /\ V_Data_mutex.owner \in Recorders
         /\ pc[V_Data_mutex.owner] \in {"noise", "recv"}
         /\ V_Data.by = V_Data_mutex.owner
         /\ \/ dma # "off" /\ voice_rec_mb = 0
            \/ dma = "off" /\ voice_rec_mb = 1 /\ V_Data.form = "mono"
         /\ \A u \in Recorders : u # V_Data_mutex.owner => pc[u] \notin Holding
<1>1. V_Data_mutex.owner \in Recorders
  BY DEF OwnerInv, Types, MutexType, RecorderInv
<1>2. pc[V_Data_mutex.owner] \in Holding
  BY <1>1 DEF OwnerInv, MutexInv
<1>3. pc[V_Data_mutex.owner] \in {"noise", "recv"}
  BY <1>1, <1>2 DEF OwnerInv, RecorderInv, Holding
<1> QED
  BY <1>1, <1>3 DEF OwnerInv, RecorderInv, MutexInv

LEMMA ArmKeeps == ASSUME OwnerInv, NEW t \in Recorders, Arm(t) PROVE OwnerInv'
<1> USE VoiceAssumption DEF OwnerInv
<1>1. /\ t \in Threads /\ pc[t] = "arm" /\ pc' = [pc EXCEPT ![t] = "noise"]
      /\ V_Data' = [V_Data EXCEPT !.by = t, !.form = "part"] /\ dma' = "channel4"
      /\ UNCHANGED <<prio, V_Data_mutex, voice_rec_mb>>
  BY DEF Arm, At, Goto, Recorders, Running, Ready
<1>2. voice_rec_mb = 0 /\ V_Data_mutex.owner = t /\ V_Data_mutex.owner # NoThread
  BY <1>1 DEF RecorderInv, MutexInv, Holding
<1>3. V_Data' \in [by : Recorders \union {NoThread}, form : Forms, voice : Voices] /\ V_Data'.by = t
  BY <1>1 DEF Types, Forms
<1>4. /\ pc' \in [Threads -> Places] /\ pc'[t] = "noise"
      /\ \A u \in Recorders : u # t => pc'[u] = pc[u] /\ pc[u] \notin Holding
  BY <1>1, <1>2 DEF Types, Places, Recorders, MutexInv
<1>5. Types'
  BY <1>1, <1>3, <1>4 DEF Types
<1>6. MutexInv'
  BY <1>1, <1>2, <1>4 DEF MutexInv, Holding
<1>7. RecorderInv'
  BY <1>1, <1>2, <1>3, <1>4 DEF RecorderInv, Holding
<1> QED
  BY <1>5, <1>6, <1>7

\* The interrupts of the DMA move no thread.
LEMMA Channel4Keeps == ASSUME OwnerInv, DMA1_Channel4_IRQHandler PROVE OwnerInv'
<1> USE DEF OwnerInv
<1>1. /\ dma # "off" /\ dma' # "off" /\ UNCHANGED <<pc, prio, V_Data_mutex, voice_rec_mb>>
      /\ V_Data' \in [by : Recorders \union {NoThread}, form : Forms, voice : Voices]
      /\ V_Data'.by = V_Data.by
  BY DEF DMA1_Channel4_IRQHandler, Types, Forms
<1>2. Types' /\ MutexInv'
  BY <1>1 DEF Types, MutexInv
<1>3. RecorderInv'
  BY <1>1, OwnerRecords, VoiceAssumption DEF RecorderInv, Holding
<1> QED
  BY <1>2, <1>3

LEMMA Channel5Keeps == ASSUME OwnerInv, DMA1_Channel5_IRQHandler PROVE OwnerInv'
<1> USE DEF OwnerInv
<1>1. /\ dma # "off" /\ dma' = "off" /\ UNCHANGED <<pc, prio, V_Data_mutex>>
      /\ voice_rec_mb' = Posted(voice_rec_mb)
      /\ V_Data' \in [by : Recorders \union {NoThread}, form : Forms, voice : Voices]
      /\ V_Data'.by = V_Data.by /\ V_Data'.form = "mono"
  BY DEF DMA1_Channel5_IRQHandler, Types, Forms
<1>2. voice_rec_mb' = 1
  BY <1>1, OwnerRecords, VoiceAssumption DEF Posted
<1>3. Types' /\ MutexInv'
  BY <1>1 DEF Types, MutexInv
<1>4. RecorderInv'
  BY <1>1, <1>2, OwnerRecords, VoiceAssumption DEF RecorderInv, Holding
<1> QED
  BY <1>3, <1>4

LEMMA ReceiveKeeps ==
  ASSUME OwnerInv, NEW t \in Recorders, NEW there \in {"judge", "save"}, Receive(t, there)
  PROVE  OwnerInv'
<1> USE VoiceAssumption DEF OwnerInv
<1>1. /\ t \in Threads /\ pc[t] = "recv" /\ pc' = [pc EXCEPT ![t] = there] /\ voice_rec_mb > 0
      /\ voice_rec_mb' = voice_rec_mb - 1 /\ UNCHANGED <<prio, V_Data_mutex, dma, V_Data>>
  BY DEF Receive, At, Goto, Recorders, Running, Ready, Mail
<1>2. V_Data_mutex.owner = t /\ V_Data_mutex.owner # NoThread
  BY <1>1 DEF MutexInv, Holding
<1>3. dma = "off" /\ voice_rec_mb' = 0 /\ V_Data.by = t /\ V_Data.form = "mono"
  BY <1>1 DEF RecorderInv
<1>4. /\ pc' \in [Threads -> Places] /\ pc'[t] = there
      /\ \A u \in Recorders : u # t => pc'[u] = pc[u] /\ pc[u] \notin Holding
  BY <1>1, <1>2 DEF Types, Places, Recorders, MutexInv
<1>5. Types'
  BY <1>1, <1>4 DEF Types
<1>6. MutexInv'
  BY <1>1, <1>2, <1>4 DEF MutexInv, Holding
<1>7. RecorderInv'
  BY <1>1, <1>2, <1>3, <1>4 DEF RecorderInv, Holding
<1> QED
  BY <1>5, <1>6, <1>7

\* What the recorders do among themselves.
LEMMA RecordersKeep ==
  ASSUME OwnerInv,
         \E t \in Recorders :
           \/ Recorder(t) \/ Wake(t)
           \/ \E there \in {"judge", "save"} : Receive(t, there)
           \/ \E there \in {"idle", "take"} : Release(t, there)
  PROVE  OwnerInv'
<1> PICK t \in Recorders :
           \/ Recorder(t) \/ Wake(t)
           \/ \E there \in {"judge", "save"} : Receive(t, there)
           \/ \E there \in {"idle", "take"} : Release(t, there)
  OBVIOUS
<1>1. CASE Record(t)
  BY <1>1, MoveKeeps DEF Record, At, Moves, Before
<1>2. CASE Wake(t)
  <2> UNCHANGED <<prio, V_Data_mutex, dma, V_Data, voice_rec_mb>>
    BY <1>2 DEF Wake, recorder
  <2>1. CASE pc[t] = "delay"
    BY <1>2, <2>1, MoveKeeps DEF Wake, Moves, Before
  <2>2. CASE pc[t] = "noise"
    BY <1>2, <2>2, MoveKeeps DEF Wake, Moves
  <2> QED
    BY <1>2, <2>1, <2>2 DEF Wake
<1> QED
  BY <1>1, <1>2, TakeKeeps, ArmKeeps, ReceiveKeeps, ReleaseKeeps DEF Recorder

\* What vrcg and practice do by themselves.
LEMMA OwnWorkKeeps ==
  ASSUME OwnerInv, Judge \/ Send \/ SaveDone \/ SaveFailed \/ Rest \/ Practice
  PROVE  OwnerInv'
<1>0. "vrcg" \in Recorders /\ "practice" \in Recorders
  BY DEF Recorders
<1>1. CASE Judge
  BY <1>0, <1>1, MoveKeeps DEF Judge, GiveVerdict, At, Moves, After, recorder
<1>2. CASE Send
  BY <1>0, <1>2, MoveKeeps DEF Send, At, Moves, After, recorder
<1>3. CASE SaveDone
  BY <1>0, <1>3, MoveKeeps DEF SaveDone, At, Moves, After, recorder
<1>4. CASE SaveFailed
  BY <1>0, <1>4, MoveKeeps DEF SaveFailed, At, Moves, After, recorder
<1>5. CASE Rest
  BY <1>0, <1>5, MoveKeeps DEF Rest, At, Moves, After, recorder
<1>6. CASE Practice
  BY <1>0, <1>6, MoveKeeps DEF Practice, Moves, recorder
<1> QED
  BY <1>1, <1>2, <1>3, <1>4, <1>5, <1>6

\* The display and the numbers have no part in a recording.
LEMMA OthersKeep == ASSUME OwnerInv, lcd_display \/ rng \/ Generate PROVE OwnerInv'
<1>1. UNCHANGED <<prio, V_Data_mutex, recorder>>
  BY DEF lcd_display, rng, Generate, DisplayReceive, ReadResult, ReadDir, ReadCommand, Start, Stop,
         Draw, ShowName
<1>2. pc' \in [Threads -> Places] /\ \A t \in Recorders : pc'[t] = pc[t]
  <2>0. pc \in [Threads -> Places] /\ \A t \in Recorders : t # "display" /\ t # "rng" /\ t \in Threads
    BY VoiceAssumption DEF OwnerInv, Types, Recorders
  <2>1. ASSUME NEW t \in {"display", "rng"}, NEW there \in Places, Goto(t, there)
        PROVE  pc' \in [Threads -> Places] /\ \A u \in Recorders : pc'[u] = pc[u]
    BY <2>0, <2>1 DEF Goto
  <2>2. CASE Start
    <3>1. pc' = [[pc EXCEPT !["display"] = "recv"]
                   EXCEPT !["rng"] = IF pc["rng"] = "idle" THEN "draw" ELSE pc["rng"]]
      BY <2>2, <2>0 DEF Start
    <3>2. "rng" \in Threads /\ "recv" \in Places /\ "draw" \in Places /\ pc["rng"] \in Places
      BY <2>0, VoiceAssumption DEF Places
    <3> QED
      BY <2>0, <3>1, <3>2
  <2>3. CASE UNCHANGED pc
    BY <2>0, <2>3
  <2>4. \A here \in {"show", "recv", "move", "enable", "disable", "draw"} : here \in Places
    BY DEF Places
  <2>5. CASE lcd_display
    BY <2>1, <2>2, <2>4, <2>5
       DEF lcd_display, DisplayReceive, ReadResult, ReadDir, ReadCommand, Stop
  <2>6. CASE rng
    BY <2>1, <2>4, <2>6 DEF rng, Draw, ShowName
  <2>7. CASE Generate
    BY <2>3, <2>7 DEF Generate
  <2> QED
    BY <2>5, <2>6, <2>7
<1> QED
  BY <1>1, <1>2, OwnerElsewhere

LEMMA OwnerStep == OwnerInv /\ [Next]_vars => OwnerInv'
<1> SUFFICES ASSUME OwnerInv, [Next]_vars PROVE OwnerInv'
  OBVIOUS
<1>1. CASE UNCHANGED vars
  BY <1>1, OwnerElsewhere DEF vars, OwnerInv, Types
<1>2. CASE DMA1_Channel4_IRQHandler \/ DMA1_Channel5_IRQHandler
  BY <1>2, Channel4Keeps, Channel5Keeps
<1>3. CASE \E t \in Recorders : Wake(t)
  BY <1>3, RecordersKeep
<1>4. CASE voice_recongnition_entry
  BY <1>4, RecordersKeep, OwnWorkKeeps DEF voice_recongnition_entry, Recorders
<1>5. CASE practice
  BY <1>5, RecordersKeep, OwnWorkKeeps DEF practice, Recorders
<1>6. CASE Practice
  BY <1>6, OwnWorkKeeps
<1>7. CASE lcd_display \/ rng \/ Generate
  BY <1>7, OthersKeep
<1> QED
  BY <1>1, <1>2, <1>3, <1>4, <1>5, <1>6, <1>7 DEF Next, Interrupts

\* "Training and normal recording cannot take place at the same time"
\* (main.c:317): whoever works on V_Data finds its own complete recording, and
\* no notice is left over, whatever the number of words, retries and mails.
THEOREM VoiceBufferOwned == Spec => []BufferOwned
<1>1. OwnerInv => BufferOwned
  <2> SUFFICES ASSUME OwnerInv PROVE BufferOwned
    OBVIOUS
  <2>1. ASSUME NEW t \in Recorders, pc[t] \in {"judge", "save"}
        PROVE  dma = "off" /\ voice_rec_mb = 0 /\ V_Data.by = t /\ V_Data.form = "mono"
    BY <2>1 DEF OwnerInv, RecorderInv
  <2>2. ASSUME voice_rec_mb > 0
        PROVE  /\ voice_rec_mb = 1 /\ dma = "off"
               /\ V_Data.by = V_Data_mutex.owner /\ V_Data.form = "mono"
               /\ pc[V_Data.by] \in {"noise", "recv"}
    BY <2>2, OwnerRecords
  <2> QED
    BY <2>1, <2>2 DEF BufferOwned
<1> QED
  BY OwnerInit, OwnerStep, <1>1, PTL DEF Spec

-----------------------------------------------------------------------------
\* The steps of the recorders move neither the display nor the numbers: the thread
\* that is handed the mutex is a recorder.
LEMMA OthersStay ==
  ASSUME OwnerInv, NEW o \in {"display", "rng"},
         Interrupts \/ Generate \/ voice_recongnition_entry \/ practice \/ Practice
  PROVE  pc'[o] = pc[o]
<1> USE VoiceAssumption
<1>0. o \in Threads /\ o \notin Recorders /\ pc \in [Threads -> Places]
      /\ "vrcg" \in Recorders /\ "practice" \in Recorders
  BY DEF Recorders, OwnerInv, Types
<1>1. ASSUME NEW t \in Recorders, NEW there, Goto(t, there)
      PROVE  pc'[o] = pc[o]
  BY <1>0, <1>1 DEF Goto
<1>2. ASSUME NEW t \in Recorders, NEW there, Release(t, there)
      PROVE  pc'[o] = pc[o]
  <2>1. ASSUME NEW p PROVE Released(V_Data_mutex, p).owner # o
    <3>1. o # NoThread /\ V_Data_mutex \in MutexType
      BY <1>0 DEF OwnerInv, Types
    <3>2. CASE V_Data_mutex.waiting = <<>>
      BY <3>1, <3>2 DEF Released, MutexType
    <3>3. CASE V_Data_mutex.waiting # <<>>
      <4>1. PICK u \in Recorders : V_Data_mutex.waiting = <<u>>
        BY <3>1, <3>3 DEF MutexType
      <4>2. Head(V_Data_mutex.waiting) = u /\ u # o
        BY <4>1, <1>0
      <4> QED
        BY <3>1, <3>3, <4>2 DEF Released, MutexType
    <3> QED
      BY <3>2, <3>3
  <2> QED
    BY <1>0, <1>2, <2>1 DEF Release
<1>3. CASE UNCHANGED pc
  BY <1>3
<1>4. ASSUME NEW t \in Recorders, Recorder(t) \/ Wake(t) PROVE pc'[o] = pc[o]
  BY <1>1, <1>4 DEF Recorder, Take, Record, Arm, Wake
<1>5. CASE Interrupts \/ Generate
  BY <1>3, <1>4, <1>5 DEF Interrupts, Generate, DMA1_Channel4_IRQHandler, DMA1_Channel5_IRQHandler
<1>6. CASE voice_recongnition_entry
  BY <1>0, <1>1, <1>2, <1>4, <1>6 DEF voice_recongnition_entry, Receive, Judge, GiveVerdict, Send
<1>7. CASE practice \/ Practice
  BY <1>0, <1>1, <1>2, <1>4, <1>7 DEF practice, Receive, SaveDone, SaveFailed, Rest, Practice
<1> QED
  BY <1>5, <1>6, <1>7

(***************************************************************************)
(* The lottery after Stop.                                                 *)
(***************************************************************************)
Stopped == status = 0 /\ pc["display"] # "disable"

\* The name in hand and the number in the generator are all that can still be
\* shown; a thread that was never started shows nothing.
Remaining == (IF pc["rng"] = "show" THEN 1 ELSE 0) + (IF drdy THEN 1 ELSE 0)

StopInv ==
  /\ OwnerInv
  /\ late \in 0..2 /\ rng_on \in BOOLEAN /\ drdy \in BOOLEAN /\ status \in {0, 1}
  /\ pc["display"] = "enable" => status = 1
  /\ pc["display"] = "disable" => status = 0
  /\ pc["rng"] = "idle" => late = 0
  /\ Stopped => pc["rng"] = "idle" \/ (~rng_on /\ late + Remaining <= 2)

LEMMA StopInit == Init => StopInv
<1> SUFFICES ASSUME Init PROVE StopInv
  OBVIOUS
<1>1. /\ pc["rng"] = "idle" /\ pc["display"] = "recv" /\ status = 0 /\ drdy = FALSE /\ late = 0
      /\ rng_on = (program = "lottery")
  BY VoiceAssumption DEF Init
<1>2. rng_on \in BOOLEAN /\ drdy \in BOOLEAN
  BY <1>1, Zenon
<1>3. late \in 0..2 /\ status \in {0, 1} /\ pc["display"] # "enable" /\ pc["display"] # "disable"
  BY <1>1
<1> QED
  BY <1>1, <1>2, <1>3, OwnerInit, Zenon DEF StopInv

LEMMA StopStep == StopInv /\ [Next]_vars => StopInv'
<1> SUFFICES ASSUME StopInv, [Next]_vars PROVE StopInv'
  OBVIOUS
<1> OwnerInv /\ OwnerInv'
  BY OwnerStep DEF StopInv
<1> USE VoiceAssumption
<1>0. pc \in [Threads -> Places] /\ "display" \in Threads /\ "rng" \in Threads
  BY DEF OwnerInv, Types
<1>1. ASSUME pc'["display"] = pc["display"], pc'["rng"] = pc["rng"], UNCHANGED lottery
      PROVE  StopInv'
  BY <1>1 DEF StopInv, Stopped, Remaining, lottery
<1>2. CASE UNCHANGED vars
  BY <1>1, <1>2 DEF vars
<1>3. CASE Interrupts \/ voice_recongnition_entry \/ practice \/ Practice
  <2>1. UNCHANGED lottery
    BY <1>3 DEF Interrupts, DMA1_Channel4_IRQHandler, DMA1_Channel5_IRQHandler, Wake,
                voice_recongnition_entry, practice, Recorder, Take, Record, Arm, Receive, Release,
                Judge, GiveVerdict, Send, SaveDone, SaveFailed, Rest, Practice
  <2> QED
    BY <1>1, <1>3, <2>1, OthersStay
<1>4. CASE Generate
  <2>1. UNCHANGED <<pc, status, rng_on, late>> /\ rng_on /\ drdy' = TRUE
    BY <1>4 DEF Generate
  <2> QED
    BY <2>1 DEF StopInv, Stopped, Remaining
<1>5. CASE DisplayReceive \/ ReadResult \/ ReadDir
  <2>1. UNCHANGED lottery /\ pc["display"] # "disable" /\ pc'["rng"] = pc["rng"]
        /\ pc'["display"] \in {"show", "move", "recv"}
    BY <1>0, <1>5 DEF DisplayReceive, ReadResult, ReadDir, At, Goto
  <2> QED
    BY <2>1 DEF StopInv, Stopped, Remaining, lottery
<1>6. CASE ReadCommand
  <2>1. /\ UNCHANGED <<rng_on, drdy, late>> /\ pc'["rng"] = pc["rng"]
        /\ \/ status' = 1 /\ pc'["display"] = "enable"
           \/ status' = 0 /\ pc'["display"] = "disable"
    BY <1>0, <1>6 DEF ReadCommand, Goto
  <2> QED
    BY <2>1 DEF StopInv, Stopped, Remaining
<1>7. CASE Start
  <2>1. /\ UNCHANGED <<status, drdy, late>> /\ rng_on' = TRUE /\ pc["display"] = "enable"
        /\ pc'["display"] = "recv" /\ pc'["rng"] # "idle"
    BY <1>0, <1>7 DEF Start, At
  <2>2. ~Stopped'
    BY <2>1 DEF Stopped, StopInv
  <2> QED
    BY <2>1, <2>2 DEF StopInv
<1>8. CASE Stop
  <2>1. /\ UNCHANGED status /\ rng_on' = FALSE /\ drdy' \in BOOLEAN /\ late' = 0
        /\ pc'["display"] = "recv" /\ pc'["rng"] = pc["rng"]
    BY <1>0, <1>8 DEF Stop, Goto, StopInv
  <2>2. Remaining' \in 0..2
    BY DEF Remaining
  <2>3. late' + Remaining' <= 2 /\ late' \in 0..2
    <3>1. \A n \in 0..2 : 0 + n <= 2 /\ 0 \in 0..2
      OBVIOUS
    <3> QED
      BY <2>1, <2>2, <3>1, Zenon
  <2>4. ~rng_on' /\ rng_on' \in BOOLEAN
    BY <2>1, Zenon
  <2>5. pc'["display"] # "enable" /\ pc'["display"] # "disable" /\ status' \in {0, 1}
    BY <2>1 DEF StopInv
  <2> QED
    BY <2>1, <2>3, <2>4, <2>5, Zenon DEF StopInv
<1>9. CASE Draw
  <2>1. /\ UNCHANGED <<status, rng_on, late>> /\ drdy /\ drdy' = FALSE /\ pc["rng"] = "draw"
        /\ pc'["rng"] = "show" /\ pc'["display"] = pc["display"]
    BY <1>0, <1>9 DEF Draw, At, Goto
  <2>2. Remaining' = Remaining /\ Stopped' = Stopped
    BY <2>1 DEF Remaining, Stopped
  <2> QED
    BY <2>1, <2>2 DEF StopInv
<1>10. CASE ShowName
  <2>1. /\ UNCHANGED <<status, rng_on, drdy>> /\ pc["rng"] = "show" /\ pc'["rng"] = "draw"
        /\ pc'["display"] = pc["display"]
        /\ late' = IF Stopped /\ late < LATE THEN late + 1 ELSE late
    BY <1>0, <1>10, Zenon DEF ShowName, At, Goto, Stopped
  <2>2. CASE Stopped
    <3>1. late + 1 + (IF drdy THEN 1 ELSE 0) <= 2 /\ ~rng_on /\ late \in 0..2
      BY <2>1, <2>2 DEF StopInv, Remaining
    <3>2. late' = late + 1 /\ late' \in 0..2
      BY <2>1, <2>2, <3>1 DEF LATE
    <3> QED
      BY <2>1, <3>1, <3>2 DEF StopInv, Stopped, Remaining
  <2>3. CASE ~Stopped
    BY <2>1, <2>3 DEF StopInv, Stopped
  <2> QED
    BY <2>2, <2>3
<1> QED
  BY <1>2, <1>3, <1>4, <1>5, <1>6, <1>7, <1>8, <1>9, <1>10 DEF Next, lcd_display, rng

\* Stop (main.c:275) switches only the generator off, yet at most two more names
\* are shown: the one in hand and the number already drawn.
THEOREM VoiceStopsSoon == Spec => []StopsSoon
<1>1. StopInv => StopsSoon
  BY DEF StopInv, StopsSoon
<1> QED
  BY StopInit, StopStep, <1>1, PTL DEF Spec

(***************************************************************************)
(* The result and the verdict.                                             *)
(***************************************************************************)
Quiet == display_mb = 0 /\ pc["display"] = "recv"

\* When the two seconds of a recording are over the display has done its work, and
\* gets no more until the next verdict is sent.
KeptInv ==
  /\ OwnerInv
  /\ prio["display"] = 10 /\ prio["rng"] = 10 /\ display_mb \in Nat
  /\ pc["display"] \in {"recv", "show", "move", "enable", "disable"}
  /\ dma = "channel5" \/ voice_rec_mb = 1 \/ pc["vrcg"] = "judge" => Quiet

LEMMA KeptInit == Init => KeptInv
BY OwnerInit, VoiceAssumption DEF Init, KeptInv, Base

LEMMA KeptStep == KeptInv /\ [Next]_vars => KeptInv'
<1> SUFFICES ASSUME KeptInv, [Next]_vars PROVE KeptInv'
  OBVIOUS
<1> OwnerInv /\ OwnerInv'
  BY OwnerStep DEF KeptInv
<1> USE VoiceAssumption
<1>0. pc \in [Threads -> Places] /\ prio \in [Threads -> Prios] /\ V_Data_mutex \in MutexType
      /\ {"display", "rng", "vrcg", "practice"} \subseteq Threads
  BY DEF OwnerInv, Types
\* Only what can begin the end of a recording, or wake the display, matters.
<1>1. ASSUME UNCHANGED <<display_mb>>, pc'["display"] = pc["display"],
             prio'["display"] = prio["display"], prio'["rng"] = prio["rng"],
             dma' = "channel5" => dma = "channel5",
             voice_rec_mb' = 1 => voice_rec_mb = 1 \/ dma = "channel5",
             pc'["vrcg"] = "judge" => pc["vrcg"] = "judge" \/ voice_rec_mb = 1
      PROVE  KeptInv'
  BY <1>1 DEF KeptInv, Quiet
<1>2. CASE UNCHANGED vars
  BY <1>1, <1>2 DEF vars, recorder
<1>3. CASE DMA1_Channel4_IRQHandler
  <2>1. ~Starved("display")
    BY DEF Starved, KeptInv
  <2>2. ~Ready("display")
    BY <1>0, <1>3, <2>1 DEF DMA1_Channel4_IRQHandler
  <2>3. Quiet
    BY <2>2 DEF Ready, Mail, KeptInv, Quiet
  <2> QED
    BY <1>3, <2>3 DEF DMA1_Channel4_IRQHandler, KeptInv, Quiet
<1>4. CASE DMA1_Channel5_IRQHandler
  BY <1>1, <1>4 DEF DMA1_Channel5_IRQHandler
<1>5. ASSUME NEW t \in Recorders, Wake(t) \/ Record(t) \/ Arm(t) PROVE KeptInv'
  <2>1. /\ UNCHANGED <<display_mb, prio, voice_rec_mb>>
        /\ dma' = "channel5" => dma = "channel5"
        /\ \E there \in {"delay", "arm", "noise", "recv"} : Goto(t, there)
    BY <1>5 DEF Wake, Record, Arm, recorder
  <2>2. pc'["display"] = pc["display"] /\ (pc'["vrcg"] = "judge" => pc["vrcg"] = "judge")
    BY <1>0, <2>1 DEF Goto, Recorders
  <2> QED
    BY <1>1, <2>1, <2>2
<1>6. ASSUME NEW t \in Recorders, Take(t) PROVE KeptInv'
  <2>1. V_Data_mutex.owner # "display" /\ V_Data_mutex.owner # "rng"
    BY <1>0 DEF MutexType, Recorders
  <2>2. prio'["display"] = prio["display"] /\ prio'["rng"] = prio["rng"]
    BY <1>0, <1>6, <2>1 DEF Take, Boosted
  <2>3. UNCHANGED <<display_mb, recorder>> /\ \E there \in {"record", "suspended"} : Goto(t, there)
    BY <1>6 DEF Take
  <2>4. pc'["display"] = pc["display"] /\ (pc'["vrcg"] = "judge" => pc["vrcg"] = "judge")
    BY <1>0, <2>3 DEF Goto, Recorders
  <2> QED
    BY <1>1, <2>2, <2>3, <2>4 DEF recorder
<1>7. ASSUME NEW t \in Recorders, NEW there \in {"idle", "take"}, Release(t, there),
             pc'["display"] = pc["display"]
      PROVE  KeptInv'
  <2>1. V_Data_mutex.owner # "display" /\ V_Data_mutex.owner # "rng"
    BY <1>0 DEF MutexType, Recorders
  <2>2. prio'["display"] = prio["display"] /\ prio'["rng"] = prio["rng"]
    BY <1>0, <1>7, <2>1 DEF Release, Restored
  <2>3. UNCHANGED <<display_mb, recorder>> /\ (pc'["vrcg"] = "judge" => pc["vrcg"] = "judge")
    BY <1>0, <1>7 DEF Release
  <2> QED
    BY <1>1, <1>7, <2>2, <2>3 DEF recorder
<1>8. ASSUME NEW t \in Recorders, NEW there \in {"judge", "save"}, Receive(t, there) PROVE KeptInv'
  <2>1. /\ UNCHANGED <<display_mb, prio, dma>> /\ voice_rec_mb > 0 /\ voice_rec_mb' = voice_rec_mb - 1
        /\ Goto(t, there)
    BY <1>8 DEF Receive, At, Running, Ready, Mail, Recorders
  <2>2. voice_rec_mb = 1
    BY <2>1, OwnerRecords
  <2>3. pc'["display"] = pc["display"]
    BY <1>0, <2>1 DEF Goto, Recorders
  <2> QED
    BY <1>1, <2>1, <2>2, <2>3
<1>9. CASE Judge \/ SaveDone \/ SaveFailed \/ Rest \/ Practice
  <2>1. /\ UNCHANGED <<display_mb, prio, dma, voice_rec_mb>>
        /\ \E t \in Recorders, there \in {"send", "rest", "record", "release", "take"} : Goto(t, there)
    BY <1>9 DEF Judge, GiveVerdict, SaveDone, SaveFailed, Rest, Practice, recorder, Recorders
  <2>2. pc'["display"] = pc["display"] /\ (pc'["vrcg"] = "judge" => pc["vrcg"] = "judge")
    BY <1>0, <2>1 DEF Goto, Recorders
  <2> QED
    BY <1>1, <2>1, <2>2
<1>10. CASE Send
  <2>1. /\ pc["vrcg"] = "send" /\ Goto("vrcg", "release") /\ display_mb' \in Nat
        /\ UNCHANGED <<prio, dma, voice_rec_mb>>
    BY <1>10 DEF Send, At, recorder, Posted, KeptInv
  <2>2. dma = "off" /\ voice_rec_mb = 0
    BY <2>1 DEF OwnerInv, RecorderInv, Recorders
  <2>3. pc'["vrcg"] = "release" /\ pc'["display"] = pc["display"]
    BY <1>0, <2>1 DEF Goto
  <2> QED
    BY <2>1, <2>2, <2>3 DEF KeptInv
<1>11. CASE lcd_display
  <2>1. ~Quiet /\ display_mb' \in Nat
    <3>1. CASE DisplayReceive
      BY <3>1 DEF DisplayReceive, At, Running, Ready, Mail, Quiet, KeptInv
    <3>2. CASE ReadResult \/ ReadDir \/ ReadCommand \/ Start \/ Stop
      <4>1. pc["display"] # "recv" /\ UNCHANGED display_mb
        BY <3>2 DEF ReadResult, ReadDir, ReadCommand, Start, Stop, At
      <4> QED
        BY <4>1 DEF Quiet, KeptInv
    <3> QED
      BY <1>11, <3>1, <3>2 DEF lcd_display
  <2>2. /\ UNCHANGED <<prio, dma, voice_rec_mb>> /\ pc'["vrcg"] = pc["vrcg"]
        /\ pc'["display"] \in {"recv", "show", "move", "enable", "disable"}
    BY <1>0, <1>11 DEF lcd_display, DisplayReceive, ReadResult, ReadDir, ReadCommand, Start, Stop,
                       Goto, recorder
  <2> QED
    BY <2>1, <2>2 DEF KeptInv
<1>12. CASE rng \/ Generate
  <2>1. /\ UNCHANGED <<prio, dma, voice_rec_mb, display_mb>> /\ pc'["vrcg"] = pc["vrcg"]
        /\ pc'["display"] = pc["display"]
    BY <1>0, <1>12 DEF rng, Generate, Draw, ShowName, Goto, recorder
  <2> QED
    BY <1>1, <2>1
<1>13. CASE Interrupts
  BY <1>3, <1>4, <1>5, <1>13 DEF Interrupts
<1>14. CASE voice_recongnition_entry
  BY <1>5, <1>6, <1>7, <1>8, <1>9, <1>10, <1>14, OthersStay
     DEF voice_recongnition_entry, Recorder, Recorders
<1>15. CASE practice
  BY <1>5, <1>6, <1>7, <1>8, <1>9, <1>15, OthersStay DEF practice, Recorder, Recorders
<1> QED
  BY <1>2, <1>9, <1>11, <1>12, <1>13, <1>14, <1>15 DEF Next

\* Nobody but Judge touches the verdict, and no other step gives one.
LEMMA JudgesAlone ==
  ASSUME OwnerInv, Next
  PROVE  /\ Judge \/ UNCHANGED <<match_dis, judged, rcg_result>>
         /\ Judging => Judge
<1>1. CASE Judge
  BY <1>1
<1>2. CASE Send
  BY <1>2 DEF Send, verdict, Judging, At
<1>3. CASE ~Judge /\ ~Send
  <2>1. UNCHANGED <<match_dis, judged, rcg_result>>
    BY <1>3 DEF Next, Interrupts, DMA1_Channel4_IRQHandler, DMA1_Channel5_IRQHandler, Wake, Generate,
           voice_recongnition_entry, practice, Recorder, Take, Record, Arm, Receive, Release,
           SaveDone, SaveFailed, Rest, Practice, lcd_display, DisplayReceive, ReadResult,
           ReadDir, ReadCommand, Start, Stop, rng, Draw, ShowName, verdict
  <2>2. pc'["vrcg"] = "send" => pc["vrcg"] = "send"
    <3>0. pc \in [Threads -> Places] /\ "vrcg" \in Threads
      BY VoiceAssumption DEF OwnerInv, Types
    <3>1. ASSUME NEW t, NEW there, there # "send", Goto(t, there)
          PROVE  pc'["vrcg"] = "send" => pc["vrcg"] = "send"
      BY <3>0, <3>1 DEF Goto
    <3>2. ASSUME NEW t, NEW there \in {"idle", "take"}, Release(t, there)
          PROVE  pc'["vrcg"] = "send" => pc["vrcg"] = "send"
      BY <3>0, <3>2 DEF Release
    <3>3. CASE Interrupts
      BY <3>1, <3>3 DEF Interrupts, DMA1_Channel4_IRQHandler, DMA1_Channel5_IRQHandler, Wake
    <3>4. ASSUME NEW t, Recorder(t) PROVE pc'["vrcg"] = "send" => pc["vrcg"] = "send"
      BY <3>1, <3>4 DEF Recorder, Take, Record, Arm
    <3>5. CASE voice_recongnition_entry
      BY <1>3, <3>1, <3>2, <3>4, <3>5 DEF voice_recongnition_entry, Receive
    <3>6. CASE practice \/ Practice
      BY <3>1, <3>2, <3>4, <3>6 DEF practice, Receive, SaveDone, SaveFailed, Rest, Practice
    <3>7. CASE lcd_display
      BY <3>0, <3>1, <3>7 DEF lcd_display, DisplayReceive, ReadResult, ReadDir, ReadCommand, Start, Stop
    <3>8. CASE rng \/ Generate
      BY <3>1, <3>8 DEF rng, Draw, ShowName, Generate
    <3> QED
      BY <3>3, <3>5, <3>6, <3>7, <3>8 DEF Next
  <2> QED
    BY <2>1, <2>2 DEF Judging
<1> QED
  BY <1>1, <1>2, <1>3

\* The result the mail points to (main.c:184) is not written again before the
\* display has read it (218, 224), for mailboxes of any size.
THEOREM VoiceResultKept == Spec => ResultKept
<1>1. KeptInv /\ [Next]_vars => [rcg_result' # rcg_result => display_mb = 0 /\ pc["display"] = "recv"]_vars
  <2> SUFFICES ASSUME KeptInv, Next, rcg_result' # rcg_result PROVE Quiet
    BY DEF Quiet
  <2>1. Judge
    BY JudgesAlone DEF KeptInv
  <2> QED
    BY <2>1 DEF Judge, At, KeptInv
<1> QED
  BY KeptInit, KeptStep, <1>1, PTL DEF Spec, ResultKept

MatchInv == match_dis \in {"MATCH_ERR", "other"} /\ (judged => match_dis = "other")

\* From the second verdict on the uninitialised match_dis decides nothing
\* (main.c:127, 172), and a recognised word has a stored template (165-169).
THEOREM VoiceVerdictIsOwn == Spec => VerdictIsOwn
<1>1. Init => OwnerInv /\ MatchInv
  BY OwnerInit DEF Init, MatchInv
<1>2. OwnerInv /\ MatchInv /\ [Next]_vars => (OwnerInv /\ MatchInv)'
  <2>1. MatchInv /\ Judge => MatchInv'
    BY DEF MatchInv, Judge, GiveVerdict
  <2>2. MatchInv /\ UNCHANGED <<match_dis, judged>> => MatchInv'
    BY DEF MatchInv
  <2> QED
    BY <2>1, <2>2, OwnerStep, JudgesAlone DEF vars, verdict
<1>3. OwnerInv /\ MatchInv /\ [Next]_vars =>
        [Judging =>
           /\ judged => (rcg_result'.result = "RCG_EOK" <=> Recognised)
           /\ rcg_result'.result = "RCG_EOK" => \E s \in saved : Word(s) = rcg_result'.dir]_vars
  <2> SUFFICES ASSUME OwnerInv, MatchInv, Next, Judging
               PROVE  /\ judged => (rcg_result'.result = "RCG_EOK" <=> Recognised)
                      /\ rcg_result'.result = "RCG_EOK" =>
                           \E s \in saved : Word(s) = rcg_result'.dir
    OBVIOUS
  <2>1. PICK word \in Nearest :
          GiveVerdict(match_dis = "MATCH_ERR" \/ ~Recognised, "other", word)
    BY JudgesAlone DEF Judge
  <2>2. CASE match_dis = "MATCH_ERR" \/ ~Recognised
    BY <2>1, <2>2 DEF GiveVerdict, MatchInv
  <2>3. CASE ~(match_dis = "MATCH_ERR" \/ ~Recognised)
    BY <2>1, <2>3 DEF GiveVerdict, Nearest
  <2> QED
    BY <2>2, <2>3
<1> QED
  BY <1>1, <1>2, <1>3, PTL DEF Spec, VerdictIsOwn

(***************************************************************************)
(* The priorities.                                                         *)
(***************************************************************************)
\* Only the owner can run at a priority that is not its own, that of the one that
\* waits, and its own is kept in the mutex.
PrioInv ==
  /\ OwnerInv
  /\ \A t \in Threads : t # V_Data_mutex.owner => prio[t] = Base[t]
  /\ V_Data_mutex.owner # NoThread =>
       /\ V_Data_mutex.original = Base[V_Data_mutex.owner]
       /\ \/ prio[V_Data_mutex.owner] = Base[V_Data_mutex.owner]
          \/ \E t \in Recorders :
               V_Data_mutex.waiting = <<t>> /\ prio[t] = prio[V_Data_mutex.owner]

LEMMA PrioInit == Init => PrioInv
BY OwnerInit DEF Init, PrioInv, Free

LEMMA TakeKeepsPrio == ASSUME PrioInv, NEW t \in Recorders, Take(t) PROVE PrioInv'
<1> OwnerInv'
  BY TakeKeeps DEF PrioInv
<1> USE VoiceAssumption DEF PrioInv
<1>0. /\ t \in Threads /\ pc[t] = "take" /\ V_Data_mutex.owner # t /\ t # NoThread
      /\ V_Data_mutex \in MutexType /\ prio \in [Threads -> Prios]
  BY DEF Take, At, Running, Ready, Recorders, OwnerInv, MutexInv, Holding, Types
<1>1. CASE Available(V_Data_mutex)
  <2>1. V_Data_mutex' = Taken(V_Data_mutex, t, prio) /\ UNCHANGED prio
    BY <1>1 DEF Take
  <2>2. V_Data_mutex'.owner = t /\ V_Data_mutex'.original = prio[t]
    BY <1>0, <2>1 DEF Taken, MutexType
  <2>3. V_Data_mutex.owner = NoThread
    BY <1>0, <1>1 DEF Available, OwnerInv, MutexInv, MutexType
  <2> QED
    BY <1>0, <2>1, <2>2, <2>3
<1>2. CASE ~Available(V_Data_mutex)
  <2>1. PICK o \in Recorders : o # t /\ V_Data_mutex.owner = o /\ o \in Threads
    BY <1>0, <1>2 DEF Available, OwnerInv, MutexType, MutexInv, Recorders
  <2>2. V_Data_mutex.waiting = <<>>
    <3>1. pc[o] # "suspended" /\ pc[t] # "suspended"
      BY <1>0, <2>1 DEF OwnerInv, MutexInv, Holding
    <3>2. \A u \in Recorders : u = o \/ u = t
      BY <2>1 DEF Recorders
    <3> QED
      BY <1>0, <3>1, <3>2 DEF MutexType, OwnerInv, MutexInv
  <2>3. V_Data_mutex' = [V_Data_mutex EXCEPT !.waiting = <<t>>] /\ prio' = Boosted(V_Data_mutex, t, prio)
    BY <1>2, <2>2, QueuedAlone DEF Take, Suspended
  <2>4. /\ V_Data_mutex'.owner = o /\ V_Data_mutex'.original = V_Data_mutex.original
        /\ V_Data_mutex'.waiting = <<t>>
    BY <1>0, <2>1, <2>3 DEF MutexType
  <2>5. prio[o] = Base[o]
    BY <2>1, <2>2
  <2>6. CASE prio[t] < prio[o]
    <3>1. prio' = [prio EXCEPT ![o] = prio[t]]
      BY <2>1, <2>3, <2>6 DEF Boosted
    <3> QED
      BY <1>0, <2>1, <2>4, <3>1
  <2>7. CASE ~(prio[t] < prio[o])
    <3>1. prio' = prio
      BY <2>1, <2>3, <2>7 DEF Boosted
    <3> QED
      BY <1>0, <2>1, <2>4, <2>5, <3>1
  <2> QED
    BY <2>6, <2>7
<1> QED
  BY <1>1, <1>2

LEMMA ReleaseKeepsPrio ==
  ASSUME PrioInv, NEW t \in Recorders, NEW there \in {"idle", "take"}, Release(t, there)
  PROVE  PrioInv'
<1> OwnerInv'
  BY ReleaseKeeps DEF PrioInv
<1> USE VoiceAssumption DEF PrioInv
<1>0. /\ t \in Threads /\ t # NoThread /\ V_Data_mutex.owner = t
      /\ V_Data_mutex \in MutexType /\ prio \in [Threads -> Prios]
  BY DEF Release, At, Running, Ready, Recorders, OwnerInv, MutexInv, Holding, Types
<1>1. prio' = [prio EXCEPT ![t] = Base[t]] /\ V_Data_mutex' = Released(V_Data_mutex, prio')
  BY <1>0 DEF Release, Restored
<1>2. \A u \in Threads : prio'[u] = Base[u]
  BY <1>0, <1>1
<1>3. CASE V_Data_mutex.waiting = <<>>
  <2>1. V_Data_mutex'.owner = NoThread
    BY <1>0, <1>1, <1>3 DEF Released, MutexType
  <2> QED
    BY <1>2, <2>1
<1>4. CASE V_Data_mutex.waiting # <<>>
  <2>1. PICK u \in Recorders : V_Data_mutex.waiting = <<u>>
    BY <1>0, <1>4 DEF MutexType
  <2>2. Head(V_Data_mutex.waiting) = u /\ u \in Threads
    BY <2>1 DEF Recorders
  <2>3. V_Data_mutex'.owner = u /\ V_Data_mutex'.original = prio'[u]
    BY <1>0, <1>1, <1>4, <2>2 DEF Released, MutexType
  <2> QED
    BY <1>2, <2>2, <2>3
<1> QED
  BY <1>3, <1>4

LEMMA PrioStep == PrioInv /\ [Next]_vars => PrioInv'
<1> SUFFICES ASSUME PrioInv, [Next]_vars PROVE PrioInv'
  OBVIOUS
<1>1. ASSUME NEW t \in Recorders,
             Take(t) \/ \E there \in {"idle", "take"} : Release(t, there)
      PROVE  PrioInv'
  BY <1>1, TakeKeepsPrio, ReleaseKeepsPrio
<1>2. CASE UNCHANGED <<prio, V_Data_mutex>>
  BY <1>2, OwnerStep DEF PrioInv
<1>3. CASE Interrupts \/ Generate \/ Practice \/ lcd_display \/ rng \/ UNCHANGED vars
  BY <1>2, <1>3 DEF Interrupts, DMA1_Channel4_IRQHandler, DMA1_Channel5_IRQHandler, Wake, Generate,
       Practice, lcd_display, DisplayReceive, ReadResult, ReadDir, ReadCommand, Start, Stop, rng,
       Draw, ShowName, vars
<1>4. CASE voice_recongnition_entry
  BY <1>1, <1>2, <1>4 DEF voice_recongnition_entry, Recorder, Record, Arm, Receive, Judge,
       GiveVerdict, Send, Recorders
<1>5. CASE practice
  BY <1>1, <1>2, <1>5 DEF practice, Recorder, Record, Arm, Receive, SaveDone, SaveFailed, Rest,
       Recorders
<1> QED
  BY <1>3, <1>4, <1>5 DEF Next

\* The kernel lends a priority only to the owner, that of a thread that waits for
\* it, and takes it back with the mutex (ipc.c:978-985, 1119-1125).
THEOREM VoicePriorityLent == Spec => []PriorityLent
<1>1. PrioInv => PriorityLent
  <2> SUFFICES ASSUME PrioInv, NEW t \in Threads, prio[t] # Base[t]
               PROVE  /\ V_Data_mutex.owner = t
                      /\ \E n \in DOMAIN V_Data_mutex.waiting :
                           prio[V_Data_mutex.waiting[n]] = prio[t]
    BY DEF PriorityLent
  <2>1. V_Data_mutex.owner = t /\ t # NoThread
    BY VoiceAssumption DEF PrioInv
  <2>2. PICK u \in Recorders : V_Data_mutex.waiting = <<u>> /\ prio[u] = prio[t]
    BY <2>1 DEF PrioInv
  <2>3. 1 \in DOMAIN <<u>> /\ <<u>>[1] = u
    OBVIOUS
  <2> QED
    BY <2>1, <2>2, <2>3
<1> QED
  BY PrioInit, PrioStep, <1>1, PTL DEF Spec

(***************************************************************************)
(* The types.                                                              *)
(***************************************************************************)
DeviceTypes ==
  dma \in {"off", "channel4", "channel5"} /\ i2s \in BOOLEAN

VerdictTypes ==
  /\ rcg_result \in [result : {"RCG_EOK", "RCG_ERR"}, dir : 0..255]
  /\ match_dis \in {"MATCH_ERR", "other"} /\ min_comm \in 0..(WORDS - 1)

LotteryTypes ==
  /\ program \in Programs /\ status \in {0, 1} /\ rng_on \in BOOLEAN /\ drdy \in BOOLEAN
  /\ late \in 0..LATE

\* A training under way has a slot to fill and failures left.
TrainingInv ==
  /\ i \in 0..(WORDS * PERWORD) /\ retry_cnt \in 0..RETRIES /\ saved \subseteq Slots
  /\ pc["practice"] \notin {"idle", "release"} => i \in Slots /\ retry_cnt < RETRIES

TypeInv ==
  PrioInv /\ DeviceTypes /\ display_mb \in 0..MBSIZE /\ VerdictTypes /\ LotteryTypes /\ TrainingInv

\* The word of a slot is a word, and the word of the round before stays one.
LEMMA WordOfSlot ==
  /\ \A s \in Slots : Word(s) \in 0..(WORDS - 1)
  /\ \A w \in 0..(WORDS - 1) : w \div PERWORD \in 0..(WORDS - 1)
<1>1. ASSUME NEW m \in Nat \ {0}, NEW n \in Nat \ {0}, NEW s \in 0..(m * n - 1)
      PROVE  s \div n \in 0..(m - 1)
  BY SMT
<1>2. ASSUME NEW n \in Nat \ {0}, NEW w \in Nat PROVE w \div n \in 0..w
  BY SMT
<1>3. WORDS \in Nat \ {0} /\ PERWORD \in Nat \ {0}
  BY TemplateAssumption
<1>4. \A s \in Slots : Word(s) \in 0..(WORDS - 1)
  BY <1>1, <1>3 DEF Slots, Word
<1>5. \A w \in 0..(WORDS - 1) : w \div PERWORD \in 0..(WORDS - 1)
  BY <1>2, <1>3
<1> QED
  BY <1>4, <1>5

\* The slots are numbered from 0, and after the last one there is none.
LEMMA SlotRange ==
  /\ WORDS * PERWORD \in Nat \ {0} /\ 0 \in Slots
  /\ \A s \in Slots : s \in 0..(WORDS * PERWORD) /\ s + 1 \in 0..(WORDS * PERWORD)
<1>1. WORDS * PERWORD \in Nat \ {0}
  BY TemplateAssumption, SMT
<1> QED
  BY <1>1 DEF Slots

LEMMA TypeInit == Init => TypeInv
<1> SUFFICES ASSUME Init PROVE TypeInv
  OBVIOUS
<1>1. DeviceTypes
  BY DEF Init, DeviceTypes
<1>5. display_mb \in 0..MBSIZE
  BY VoiceAssumption DEF Init
<1>2. VerdictTypes
  BY TemplateAssumption DEF Init, VerdictTypes
<1>3. LotteryTypes
  <2>1. status \in {0, 1} /\ program \in Programs
    BY Zenon DEF Init
  <2>2. late \in 0..LATE
    BY DEF Init, LATE
  <2>3. rng_on \in BOOLEAN /\ drdy \in BOOLEAN
    BY Zenon DEF Init
  <2> QED
    BY <2>1, <2>2, <2>3, Zenon DEF LotteryTypes
<1>4. TrainingInv
  BY VoiceAssumption, TemplateAssumption, SlotRange DEF Init, TrainingInv
<1> QED
  BY <1>1, <1>2, <1>3, <1>4, <1>5, PrioInit DEF TypeInv

\* Only the interrupts, and the recorder when it starts, touch the DMA.
LEMMA DeviceStep == DeviceTypes /\ [Next]_vars => DeviceTypes'
<1> SUFFICES ASSUME DeviceTypes, [Next]_vars PROVE DeviceTypes'
  OBVIOUS
<1>1. CASE UNCHANGED <<dma, i2s>>
  BY <1>1 DEF DeviceTypes
<1>2. CASE Interrupts
  BY <1>2 DEF Interrupts, DMA1_Channel4_IRQHandler, DMA1_Channel5_IRQHandler, Wake, recorder, DeviceTypes
<1>3. ASSUME NEW t, Recorder(t) PROVE DeviceTypes'
  BY <1>3 DEF Recorder, Take, Record, Arm, recorder, DeviceTypes
<1>4. CASE voice_recongnition_entry
  BY <1>1, <1>3, <1>4 DEF voice_recongnition_entry, Receive, Judge, GiveVerdict, Send, Release, recorder
<1>5. CASE practice \/ Practice
  BY <1>1, <1>3, <1>5 DEF practice, Practice, Receive, SaveDone, SaveFailed, Rest, Release, recorder
<1>6. CASE lcd_display \/ rng \/ Generate \/ UNCHANGED vars
  BY <1>1, <1>6 DEF lcd_display, DisplayReceive, ReadResult, ReadDir, ReadCommand, Start, Stop, rng,
       Draw, ShowName, Generate, recorder, vars
<1> QED
  BY <1>2, <1>4, <1>5, <1>6 DEF Next

\* A mail is sent by Send alone and taken by the display alone.
LEMMA MailStep == display_mb \in 0..MBSIZE /\ [Next]_vars => display_mb' \in 0..MBSIZE
<1> SUFFICES ASSUME display_mb \in 0..MBSIZE, [Next]_vars PROVE display_mb' \in 0..MBSIZE
  OBVIOUS
<1>1. CASE Send
  BY <1>1, VoiceAssumption DEF Send, Posted
<1>2. CASE DisplayReceive
  <2>1. display_mb > 0 /\ display_mb' = display_mb - 1
    BY <1>2 DEF DisplayReceive, At, Running, Ready, Mail
  <2> QED
    BY <2>1, VoiceAssumption
<1>3. CASE ~Send /\ ~DisplayReceive
  <2>1. UNCHANGED display_mb
    BY <1>3 DEF Next, Interrupts, DMA1_Channel4_IRQHandler, DMA1_Channel5_IRQHandler, Wake, Generate,
           voice_recongnition_entry, practice, Recorder, Take, Record, Arm, Receive, Release, Judge,
           GiveVerdict, SaveDone, SaveFailed, Rest, Practice, lcd_display, ReadResult,
           ReadDir, ReadCommand, Start, Stop, rng, Draw, ShowName, vars
  <2> QED
    BY <2>1
<1> QED
  BY <1>1, <1>2, <1>3

\* A verdict names the word of a slot, or the word of the round before or less.
LEMMA VerdictStep ==
  ASSUME OwnerInv, VerdictTypes, saved \subseteq Slots, [Next]_vars PROVE VerdictTypes'
<1>1. CASE Judge
  <2>1. PICK word \in Nearest :
          GiveVerdict(match_dis = "MATCH_ERR" \/ ~Recognised, "other", word)
    BY <1>1 DEF Judge
  <2>2. word \in 0..(WORDS - 1)
    BY WordOfSlot DEF Nearest, VerdictTypes
  <2>3. word \in 0..255
    BY <2>2, TemplateAssumption
  <2>4. match_dis' \in {"MATCH_ERR", "other"} /\ min_comm' \in 0..(WORDS - 1)
    BY <2>1, <2>2 DEF GiveVerdict, VerdictTypes
  <2>5. rcg_result' \in [result : {"RCG_EOK", "RCG_ERR"}, dir : 0..255]
    BY <2>1, <2>3 DEF GiveVerdict
  <2> QED
    BY <2>4, <2>5 DEF VerdictTypes
<1>2. CASE ~Judge
  <2>1. UNCHANGED <<rcg_result, match_dis, min_comm>>
    BY <1>2 DEF Next, Interrupts, DMA1_Channel4_IRQHandler, DMA1_Channel5_IRQHandler, Wake, Generate,
           voice_recongnition_entry, practice, Recorder, Take, Record, Arm, Receive, Release, Send,
           SaveDone, SaveFailed, Rest, Practice, lcd_display, DisplayReceive, ReadResult,
           ReadDir, ReadCommand, Start, Stop, rng, Draw, ShowName, verdict, vars
  <2> QED
    BY <2>1 DEF VerdictTypes
<1> QED
  BY <1>1, <1>2

\* The lottery is the display's and its own thread's.
LEMMA LotteryStep == LotteryTypes /\ [Next]_vars => LotteryTypes'
<1> SUFFICES ASSUME LotteryTypes, [Next]_vars PROVE LotteryTypes'
  OBVIOUS
<1>1. CASE UNCHANGED <<program, status, rng_on, drdy, late>>
  BY <1>1 DEF LotteryTypes
<1>2. CASE Interrupts \/ voice_recongnition_entry \/ practice \/ Practice \/ UNCHANGED vars
  BY <1>1, <1>2 DEF Interrupts, DMA1_Channel4_IRQHandler, DMA1_Channel5_IRQHandler, Wake,
       voice_recongnition_entry, practice, Recorder, Take, Record, Arm, Receive, Release, Judge,
       GiveVerdict, Send, SaveDone, SaveFailed, Rest, Practice, lottery, vars
<1>3. CASE DisplayReceive \/ ReadResult \/ ReadDir
  BY <1>1, <1>3 DEF DisplayReceive, ReadResult, ReadDir, lottery
<1>4. CASE ReadCommand
  BY <1>4 DEF ReadCommand, LotteryTypes
<1>5. CASE Start
  BY <1>5 DEF Start, LotteryTypes
<1>6. CASE Stop
  <2>1. drdy' \in BOOLEAN
    BY <1>6, Zenon DEF Stop, LotteryTypes
  <2>2. late' \in 0..LATE
    BY <1>6 DEF Stop, LATE
  <2>3. rng_on' \in BOOLEAN /\ UNCHANGED <<program, status>>
    BY <1>6, Zenon DEF Stop
  <2> QED
    BY <2>1, <2>2, <2>3, Zenon DEF LotteryTypes
<1>7. CASE Generate \/ Draw
  BY <1>7 DEF Generate, Draw, LotteryTypes
<1>8. CASE ShowName
  <2>1. late' \in 0..LATE
    BY <1>8 DEF ShowName, LotteryTypes, LATE
  <2> QED
    BY <1>8, <2>1 DEF ShowName, LotteryTypes
<1> QED
  BY <1>2, <1>3, <1>4, <1>5, <1>6, <1>7, <1>8 DEF Next, lcd_display, rng

\* Nobody else moves practice into or out of a training; the hand-over of the
\* mutex moves it only on.
LEMMA PracticeStays ==
  ASSUME OwnerInv,
         Interrupts \/ Generate \/ voice_recongnition_entry \/ lcd_display \/ rng
  PROVE  pc'["practice"] \notin {"idle", "release"} => pc["practice"] \notin {"idle", "release"}
<1> USE VoiceAssumption
<1>0. "practice" \in Threads /\ pc \in [Threads -> Places]
  BY DEF OwnerInv, Types
<1>1. ASSUME NEW t, NEW there, Goto(t, there), t # "practice" PROVE pc'["practice"] = pc["practice"]
  BY <1>0, <1>1 DEF Goto
<1>2. CASE Interrupts
  <2>1. CASE \E t \in Recorders : Wake(t)
    <3>1. PICK t \in Recorders : Wake(t)
      BY <2>1
    <3> QED
      BY <1>0, <3>1 DEF Wake, Goto, Recorders
  <2> QED
    BY <1>2, <2>1 DEF Interrupts, DMA1_Channel4_IRQHandler, DMA1_Channel5_IRQHandler
<1>3. CASE Release("vrcg", "take")
  <2>1. V_Data_mutex \in MutexType
    BY DEF OwnerInv, Types
  <2>2. \/ pc'["practice"] = pc["practice"]
        \/ Released(V_Data_mutex, Restored(V_Data_mutex, prio)).owner = "practice"
    BY <1>0, <1>3 DEF Release
  <2>3. ASSUME NEW p, Released(V_Data_mutex, p).owner = "practice" PROVE pc["practice"] = "suspended"
    <3>1. CASE V_Data_mutex.waiting = <<>>
      BY <2>1, <2>3, <3>1, <1>0 DEF Released, MutexType
    <3>2. CASE V_Data_mutex.waiting # <<>>
      <4>1. PICK u \in Recorders : V_Data_mutex.waiting = <<u>>
        BY <2>1, <3>2 DEF MutexType
      <4>2. Head(V_Data_mutex.waiting) = u
        BY <4>1
      <4>3. u = "practice"
        BY <2>1, <2>3, <3>2, <4>2 DEF Released, MutexType
      <4> QED
        BY <4>1, <4>3 DEF OwnerInv, MutexInv
    <3> QED
      BY <3>1, <3>2
  <2> QED
    BY <2>2, <2>3
<1>4. CASE voice_recongnition_entry
  BY <1>1, <1>3, <1>4 DEF voice_recongnition_entry, Recorder, Take, Record, Arm, Receive, Judge,
       GiveVerdict, Send
<1>5. CASE lcd_display
  BY <1>0, <1>1, <1>5 DEF lcd_display, DisplayReceive, ReadResult, ReadDir, ReadCommand, Start, Stop
<1>6. CASE rng \/ Generate
  BY <1>1, <1>6 DEF rng, Draw, ShowName, Generate
<1> QED
  BY <1>2, <1>4, <1>5, <1>6

\* practice gives up at the limit of failures and after the last slot.
LEMMA TrainingStep == OwnerInv /\ TrainingInv /\ [Next]_vars => TrainingInv'
<1> SUFFICES ASSUME OwnerInv, TrainingInv, [Next]_vars PROVE TrainingInv'
  OBVIOUS
<1>0. "practice" \in Threads /\ pc \in [Threads -> Places]
  BY VoiceAssumption DEF OwnerInv, Types
<1>1. ASSUME UNCHANGED training,
             pc'["practice"] \notin {"idle", "release"} => pc["practice"] \notin {"idle", "release"}
      PROVE  TrainingInv'
  BY <1>1 DEF TrainingInv, training
<1>2. CASE Interrupts \/ Generate \/ voice_recongnition_entry \/ lcd_display \/ rng
  <2>1. UNCHANGED training
    BY <1>2 DEF Interrupts, DMA1_Channel4_IRQHandler, DMA1_Channel5_IRQHandler, Wake, Generate,
         voice_recongnition_entry, Recorder, Take, Record, Arm, Receive, Release, Judge, GiveVerdict,
         Send, lcd_display, DisplayReceive, ReadResult, ReadDir, ReadCommand, Start, Stop, rng, Draw,
         ShowName
  <2> QED
    BY <1>1, <1>2, <2>1, PracticeStays
<1>3. CASE Recorder("practice") \/ Receive("practice", "save")
  <2>1. UNCHANGED training /\ pc["practice"] \in {"take", "record", "arm", "recv"}
    BY <1>3 DEF Recorder, Take, Record, Arm, Receive, At
  <2> QED
    BY <1>1, <2>1
<1>4. CASE Release("practice", "idle")
  <2>1. UNCHANGED training /\ pc'["practice"] = "idle"
    BY <1>0, <1>4 DEF Release
  <2> QED
    BY <1>1, <2>1
<1>5. CASE Practice
  BY <1>0, <1>5, SlotRange, TemplateAssumption DEF Practice, TrainingInv
<1>6. CASE SaveDone
  <2>1. /\ UNCHANGED <<i, retry_cnt>> /\ pc["practice"] = "save"
        /\ saved' = saved \union {i}
    BY <1>6 DEF SaveDone, At
  <2> QED
    BY <2>1 DEF TrainingInv
<1>7. CASE SaveFailed
  <2>1. /\ pc["practice"] = "save" /\ retry_cnt' = retry_cnt + 1 /\ UNCHANGED i
        /\ saved' \subseteq saved
        /\ pc'["practice"] = IF retry_cnt' < RETRIES THEN "record" ELSE "release"
    BY <1>0, <1>7 DEF SaveFailed, At, Goto
  <2>2. i \in Slots /\ retry_cnt \in 0..RETRIES /\ retry_cnt < RETRIES
    BY <2>1 DEF TrainingInv
  <2>3. retry_cnt' \in 0..RETRIES
    BY <2>1, <2>2, TemplateAssumption
  <2> QED
    BY <2>1, <2>2, <2>3 DEF TrainingInv
<1>8. CASE Rest
  <2>1. /\ pc["practice"] = "rest" /\ i' = i + 1 /\ UNCHANGED <<retry_cnt, saved>>
        /\ pc'["practice"] = IF i' \in Slots THEN "record" ELSE "release"
    BY <1>0, <1>8 DEF Rest, At, Goto
  <2>2. i \in Slots /\ i' \in 0..(WORDS * PERWORD)
    BY <2>1, SlotRange DEF TrainingInv
  <2> QED
    BY <2>1, <2>2 DEF TrainingInv
<1>9. CASE UNCHANGED vars
  BY <1>1, <1>9 DEF vars
<1> QED
  BY <1>2, <1>3, <1>4, <1>5, <1>6, <1>7, <1>8, <1>9 DEF Next, practice

LEMMA TypeStep == TypeInv /\ [Next]_vars => TypeInv'
BY PrioStep, DeviceStep, MailStep, VerdictStep, LotteryStep, TrainingStep
   DEF TypeInv, PrioInv, TrainingInv

\* A mutex as the kernel keeps it.
LEMMA MutexIs == MutexType \subseteq Mutexes
<1> SUFFICES ASSUME NEW m \in MutexType PROVE m \in Mutexes
  OBVIOUS
<1>1. Recorders \subseteq Threads
  BY VoiceAssumption DEF Recorders
<1>2. m.waiting \in {w \in UNION {[1..n -> Threads] : n \in 0..2} : IsInjective(w)}
  <2>1. CASE m.waiting = <<>>
    <3>1. <<>> \in [1..0 -> Threads] /\ IsInjective(<<>>)
      BY DEF IsInjective
    <3> QED
      BY <2>1, <3>1
  <2>2. CASE m.waiting # <<>>
    <3>1. PICK t \in Recorders : m.waiting = <<t>>
      BY <2>2 DEF MutexType
    <3>2. <<t>> \in [1..1 -> Threads] /\ IsInjective(<<t>>)
      BY <1>1 DEF IsInjective
    <3> QED
      BY <3>1, <3>2
  <2> QED
    BY <2>1, <2>2
<1> QED
  BY <1>1, <1>2 DEF MutexType, Mutexes, Prios

\* The types, for any number of words, templates, retries and mails; the failures
\* of a training never pass the limit, and a verdict is a word (main.c:169, 402).
THEOREM VoiceTypeOK == Spec => []TypeOK
<1>1. TypeInv => TypeOK
  <2> SUFFICES ASSUME TypeInv PROVE TypeOK
    OBVIOUS
  <2>1. pc \in [Threads -> Places] /\ V_Data_mutex \in Mutexes
    BY MutexIs DEF TypeInv, PrioInv, OwnerInv, Types
  <2>2. prio \in [Threads -> {4, 10, 11}]
    <3>1. prio \in [Threads -> Prios] /\ V_Data_mutex.owner \in Recorders \union {NoThread}
      BY DEF TypeInv, PrioInv, OwnerInv, Types, MutexType
    <3>2. \A t \in Threads : Base[t] \in {4, 10, 11}
      BY DEF Base
    <3>3. \A t \in Recorders : V_Data_mutex.waiting = <<t>> =>
                                 t \in Threads /\ t # V_Data_mutex.owner
      BY VoiceAssumption DEF TypeInv, PrioInv, OwnerInv, MutexInv, Holding, Recorders
    <3>4. \A t \in Threads : prio[t] \in {4, 10, 11}
      BY <3>2, <3>3, VoiceAssumption DEF TypeInv, PrioInv
    <3> QED
      BY <3>1, <3>4
  <2>3. V_Data \in [by : Threads \union {NoThread}, form : Forms, voice : Voices]
    BY VoiceAssumption DEF TypeInv, PrioInv, OwnerInv, Types, Recorders
  <2>4. voice_rec_mb \in 0..MBSIZE
    <3>1. voice_rec_mb \in {0, 1}
      BY OwnerRecords DEF TypeInv, PrioInv
    <3> QED
      BY <3>1, VoiceAssumption
  <2>5. /\ display_mb \in 0..MBSIZE
        /\ i \in 0..(WORDS * PERWORD) /\ retry_cnt \in 0..RETRIES /\ saved \subseteq Slots
    BY DEF TypeInv, TrainingInv
  <2>6. DeviceTypes /\ VerdictTypes /\ LotteryTypes
    BY DEF TypeInv
  <2> QED
    BY <2>1, <2>2, <2>3, <2>4, <2>5, <2>6, Zenon
       DEF TypeOK, DeviceTypes, VerdictTypes, LotteryTypes
<1> QED
  BY TypeInit, TypeStep, <1>1, PTL DEF Spec
=============================================================================
