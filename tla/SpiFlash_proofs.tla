--------------------------- MODULE SpiFlash_proofs ---------------------------
(***************************************************************************)
(* Theorems about SpiFlash, for pages, sectors, chips and texts of every   *)
(* size: a write of the driver is what FlashStore promises, one that is    *)
(* cut short or meets a busy chip included.                                *)
(***************************************************************************)
EXTENDS SpiFlash, SequenceTheorems, TLAPS

Byte == SUBSET Bits

Erasing     == {"enable_erase", "wait_erase", "erase", "erasing"}
Programming == {"enable_program", "program", "programming"}
Places      == {"idle", "read"} \union Erasing \union Programming

SectorStart == w.pos * SECTOR

Types ==
  /\ mem \in [Addresses -> Byte] /\ stored \in [Addresses -> Byte]
  /\ wel \in BOOLEAN /\ busy \in {"no", "program", "erase"} /\ missed \in BOOLEAN
  /\ pc \in Places
  /\ w \in [data : Seq(Byte), addr : Nat, pos : Nat, off : 0..(SECTOR - 1), remain : Nat]
  /\ w.remain <= Len(w.data) /\ w.off + w.remain <= SECTOR
  /\ p \in [data : Seq(Byte), addr : Nat, remain : Nat]
  /\ p.remain = SMin(Len(p.data), PAGE - (p.addr % PAGE))
  /\ SPI_FLASH_BUF \in [1..SECTOR -> Byte]
  /\ resets \in Nat

\* Which call is under way, and where an erase of the user's may be.
CallInv ==
  /\ pc = "idle" <=> call = Store!Idle
  /\ pc = "idle" => stored = mem
  /\ pc # "idle" => call.op \in {"write", "erase"}
  /\ call.op = "erase" => pc \in Erasing /\ area = call.area

\* What is left of the text, and the sector and the range that are being worked on.
WriteInv ==
  call.op = "write" =>
    /\ call.addr \in Addresses /\ call.text \in Seq(Byte)
    /\ call.addr + Len(call.text) <= SECTORS * SECTOR
    /\ w.addr >= call.addr /\ w.addr + Len(w.data) = call.addr + Len(call.text)
    /\ \A i \in 1..Len(w.data) : w.data[i] = call.text[w.addr - call.addr + i]
    /\ w.pos < SECTORS /\ w.addr = SectorStart + w.off
    /\ w.remain = SMin(Len(w.data), SECTOR - w.off)
    /\ pc \in Erasing => area = {w.pos} /\ w.remain > 0
    /\ pc \in Programming =>
         /\ SectorStart <= p.addr /\ p.addr + Len(p.data) <= SectorStart + SECTOR
         /\ Len(p.data) > 0 => w.remain > 0

\* Nothing outside the sectors of a call is ever changed, missed commands or not.
Confined ==
  call # Store!Idle => \A a \in Addresses \ Store!Touched(call) : mem[a] = stored[a]

\* The contents when the text has been stored up to the address n.
Goal(n, a) ==
  IF a < n /\ a >= call.addr /\ a < call.addr + Len(call.text)
  THEN call.text[a - call.addr + 1] ELSE stored[a]

Before(a) == Goal(w.addr, a)
After(a)  == Goal(w.addr + w.remain, a)

\* What is still to be programmed.
Done    == IF pc = "programming" THEN p.remain ELSE 0
Left(a) == a >= p.addr + Done /\ a < p.addr + Len(p.data)

\* As long as the chip took every command its contents are known at every step.
CleanErase ==
  /\ pc \in {"wait_erase", "erase", "program"} => busy = "no" /\ wel
  /\ call.op = "erase" =>
       \A a \in Addresses :
         mem[a] = IF pc = "erasing" /\ a \div SECTOR \in area THEN Erased ELSE stored[a]

CleanWrite ==
  call.op = "write" =>
    /\ pc \in {"read", "enable_erase", "wait_erase", "erase"} =>
         \A a \in Addresses : mem[a] = Before(a)
    /\ pc = "erasing" =>
         \A a \in Addresses : mem[a] = IF a \div SECTOR = w.pos THEN Erased ELSE Before(a)
    /\ pc \in Erasing => \A i \in 1..SECTOR : SPI_FLASH_BUF[i] = Before(SectorStart + i - 1)
    /\ pc \in Programming =>
         \A a \in Addresses :
           /\ Left(a) => mem[a] = Erased /\ p.data[a - p.addr + 1] = After(a)
           /\ ~Left(a) => mem[a] = After(a)

Clean == ~missed => CleanErase /\ CleanWrite

FlashInv == Types /\ CallInv /\ WriteInv /\ Confined /\ Clean

-----------------------------------------------------------------------------
\* Division, the two pieces of a sequence, and the smaller of two numbers.
LEMMA DivMod ==
  ASSUME NEW a \in Nat, NEW n \in Nat \ {0}
  PROVE  a \div n \in Nat /\ a % n \in 0..(n - 1) /\ a = n * (a \div n) + (a % n)
BY SMT

LEMMA DivIs ==
  ASSUME NEW n \in Nat \ {0}, NEW q \in Nat, NEW a \in Nat
  PROVE  a \div n = q <=> q * n <= a /\ a < q * n + n
BY SMT

LEMMA LessFactor ==
  ASSUME NEW x \in Nat, NEW y \in Nat, NEW n \in Nat, x * n < y * n
  PROVE  x < y
<1>1. CASE x >= y
  <2>1. PICK k \in Nat : x = y + k
    <3>1. x - y \in Nat /\ x = y + (x - y)
      BY <1>1
    <3> QED
      BY <3>1
  <2>2. y * n \in Nat /\ k * n \in Nat /\ (y + k) * n = y * n + k * n
    BY SMT
  <2> QED
    BY <2>1, <2>2
<1> QED
  BY <1>1

LEMMA RestOf ==
  ASSUME NEW a \in Nat, NEW n \in Nat \ {0}
  PROVE  \E r \in 0..(n - 1) : r = a % n /\ (a + (n - r)) % n = 0
<1>1. PICK q \in Nat, r \in 0..(n - 1) : r = a % n /\ a = n * q + r
  BY DivMod
<1>2. n * q \in Nat /\ n * (q + 1) \in Nat /\ n * (q + 1) = n * q + n
  BY SMT
<1>3. a + (n - r) = n * (q + 1)
  BY <1>1, <1>2
<1>4. (n * (q + 1)) % n = 0
  BY SMT
<1> QED
  BY <1>1, <1>3, <1>4

LEMMA SameQuotient ==
  ASSUME NEW a \in Nat, NEW b \in Nat, NEW n \in Nat \ {0}, a \div n = b \div n
  PROVE  a - b = (a % n) - (b % n) /\ a % n \in 0..(n - 1) /\ b % n \in 0..(n - 1)
<1>1. a = n * (a \div n) + (a % n) /\ b = n * (a \div n) + (b % n)
  BY DivMod
<1>2. n * (a \div n) \in Int
  BY DivMod
<1>3. a % n \in 0..(n - 1) /\ b % n \in 0..(n - 1)
  BY DivMod
<1>4. \A x, y, z \in Int : (x + y) - (x + z) = y - z
  OBVIOUS
<1> QED
  BY <1>1, <1>2, <1>3, <1>4

LEMMA SMinIs ==
  ASSUME NEW a \in Nat, NEW b \in Nat
  PROVE  SMin(a, b) \in Nat /\ SMin(a, b) <= a /\ SMin(a, b) <= b /\ (SMin(a, b) # a => SMin(a, b) = b)
BY DEF SMin

LEMMA Pieces ==
  ASSUME NEW S, NEW s \in Seq(S), NEW n \in 0..Len(s)
  PROVE  /\ SubSeq(s, 1, n) \in Seq(S) /\ Len(SubSeq(s, 1, n)) = n
         /\ \A i \in 1..n : SubSeq(s, 1, n)[i] = s[i]
         /\ SubSeq(s, n + 1, Len(s)) \in Seq(S) /\ Len(SubSeq(s, n + 1, Len(s))) = Len(s) - n
         /\ \A i \in 1..(Len(s) - n) : SubSeq(s, n + 1, Len(s))[i] = s[n + i]
<1>1. Len(s) \in Nat /\ n \in Nat
  OBVIOUS
<1>2. \A i \in 1..n : s[i] \in S
  OBVIOUS
<1>3. \A i \in (n + 1)..Len(s) : s[i] \in S
  OBVIOUS
<1> QED
  BY <1>1, <1>2, <1>3, SubSeqProperties

\* The places i < l after f in the page of f, when l bytes from f on fit in it.
LEMMA InPage ==
  ASSUME NEW a \in Nat, NEW f \in Nat, NEW n \in Nat \ {0}, NEW l \in Nat, (f % n) + l <= n
  PROVE  /\ a \div n = f \div n /\ (a - f) % n < l <=> a >= f /\ a < f + l
         /\ a >= f /\ a < f + l => (a - f) % n = a - f
<1>0. f % n \in 0..(n - 1)
  BY DivMod
<1>1. ASSUME a >= f, a < f + l PROVE a \div n = f \div n /\ (a - f) % n = a - f
  <2>1. PICK k \in Nat : a = f + k /\ k < l
    <3>1. a - f \in Nat /\ a = f + (a - f) /\ a - f < l
      BY <1>1
    <3> QED
      BY <3>1
  <2>2. (f % n) + k < n /\ k < n
    BY <1>0, <2>1
  <2>3. (f + k) \div n = f \div n /\ k % n = k
    BY <2>2
  <2> QED
    BY <2>1, <2>3
<1>2. ASSUME a \div n = f \div n, a < f PROVE ~((a - f) % n < l)
  <2>1. PICK k \in Nat : f = a + k /\ k # 0
    <3>1. f - a \in Nat /\ f = a + (f - a) /\ f - a # 0
      BY <1>2
    <3> QED
      BY <3>1
  <2>2. k <= f % n
    <3>1. f - a = (f % n) - (a % n) /\ a % n \in 0..(n - 1) /\ f % n \in 0..(n - 1)
      BY <1>2, SameQuotient
    <3> QED
      BY <2>1, <3>1
  <2>3. (a - f) % n = n - k
    <3>1. a - f = 0 - k /\ k < n
      BY <1>0, <2>1, <2>2
    <3>2. \A m \in Nat \ {0}, j \in Nat : j # 0 /\ j < m => (0 - j) % m = m - j
      BY SMT
    <3> QED
      BY <2>1, <3>1, <3>2
  <2> QED
    BY <1>0, <2>1, <2>2, <2>3
<1>3. ASSUME a \div n = f \div n, a >= f, (a - f) % n < l PROVE a < f + l
  <2>1. a - f = (a % n) - (f % n) /\ a % n \in 0..(n - 1) /\ f % n \in 0..(n - 1)
    BY <1>3, SameQuotient
  <2>2. a - f \in Nat /\ a - f < n
    BY <1>3, <2>1
  <2>3. (a - f) % n = a - f
    BY <2>2
  <2> QED
    BY <1>3, <2>2, <2>3
<1> QED
  BY <1>1, <1>2, <1>3

\* A page program that stays in its page changes the bytes it is for, and no other.
LEMMA ProgrammedIs ==
  ASSUME NEW first \in Nat, NEW bytes \in Seq(Byte), NEW a \in Addresses,
         (first % PAGE) + Len(bytes) <= PAGE
  PROVE  Programmed(first, bytes)[a] =
           IF a >= first /\ a < first + Len(bytes) THEN mem[a] \cap bytes[a - first + 1] ELSE mem[a]
<1>0. a \in Nat /\ PAGE \in Nat \ {0} /\ Len(bytes) \in Nat
  <2>1. SECTORS * SECTOR \in Nat
    BY FlashAssumption
  <2> QED
    BY <2>1, FlashAssumption DEF Addresses, Store!Addresses
<1>1. Programmed(first, bytes)[a] =
        IF a \div PAGE = first \div PAGE /\ (a - first) % PAGE < Len(bytes)
        THEN mem[a] \cap bytes[((a - first) % PAGE) + 1] ELSE mem[a]
  BY DEF Programmed
<1>2. /\ a \div PAGE = first \div PAGE /\ (a - first) % PAGE < Len(bytes)
           <=> a >= first /\ a < first + Len(bytes)
      /\ a >= first /\ a < first + Len(bytes) => (a - first) % PAGE = a - first
  BY <1>0, InPage
<1> QED
  BY <1>1, <1>2, Zenon

-----------------------------------------------------------------------------
LEMMA Numbers ==
  /\ SECTOR \in Nat \ {0} /\ PAGE \in Nat \ {0} /\ SECTORS \in Nat \ {0} /\ SECTORS * SECTOR \in Nat
  /\ \A a \in Addresses : a \in Nat /\ a < SECTORS * SECTOR
  /\ \A a \in Nat : a < SECTORS * SECTOR => a \in Addresses
<1>1. SECTORS * SECTOR \in Nat
  BY FlashAssumption
<1> QED
  BY <1>1, FlashAssumption DEF Addresses, Store!Addresses

\* Where the sector that is being worked on is.
LEMMA SectorIs ==
  ASSUME Types, WriteInv, call.op = "write"
  PROVE  /\ SectorStart \in Nat /\ SectorStart + SECTOR <= SECTORS * SECTOR
         /\ \A a \in Addresses :
              a \div SECTOR = w.pos <=> SectorStart <= a /\ a < SectorStart + SECTOR
         /\ \A i \in 1..SECTOR : SectorStart + i - 1 \in Addresses
<1>1. w.pos \in Nat /\ w.pos < SECTORS
  BY DEF Types, WriteInv
<1>2. w.pos * SECTOR \in Nat /\ w.pos * SECTOR + SECTOR <= SECTORS * SECTOR
  <2>1. \A s, n, q \in Nat : q < n => q * s \in Nat /\ q * s + s <= n * s
    BY SMT
  <2> QED
    BY <1>1, <2>1, Numbers
<1>3. \A a \in Nat : a \div SECTOR = w.pos <=> w.pos * SECTOR <= a /\ a < w.pos * SECTOR + SECTOR
  BY <1>1, DivIs, Numbers
<1>4. SectorStart = w.pos * SECTOR
  BY DEF SectorStart
<1>5. \A i \in 1..SECTOR : SectorStart + i - 1 \in Addresses
  BY <1>2, <1>4, Numbers
<1> QED
  BY <1>2, <1>3, <1>4, <1>5, Numbers

\* The piece of the text that this sector gets.
LEMMA PieceIs ==
  ASSUME Types, WriteInv, call.op = "write"
  PROVE  /\ w.addr \in Nat /\ w.remain \in Nat /\ Len(w.data) \in Nat /\ w.remain <= Len(w.data)
         /\ SectorStart <= w.addr /\ w.addr + w.remain <= SectorStart + SECTOR
         /\ w.remain # Len(w.data) => w.addr + w.remain = SectorStart + SECTOR
         /\ \A a \in Addresses :
              /\ a < w.addr \/ a >= w.addr + w.remain => After(a) = Before(a)
              /\ a >= w.addr /\ a < w.addr + w.remain => After(a) = w.data[a - w.addr + 1]
<1>1. /\ w.addr \in Nat /\ w.remain \in Nat /\ w.off \in 0..(SECTOR - 1) /\ w.data \in Seq(Byte)
      /\ w.remain <= Len(w.data) /\ Len(w.data) \in Nat
  BY DEF Types
<1>2. /\ call.addr \in Nat /\ Len(call.text) \in Nat /\ w.addr >= call.addr
      /\ w.addr + Len(w.data) = call.addr + Len(call.text)
      /\ \A i \in 1..Len(w.data) : w.data[i] = call.text[w.addr - call.addr + i]
      /\ w.addr = SectorStart + w.off /\ w.remain = SMin(Len(w.data), SECTOR - w.off)
  BY Numbers DEF WriteInv
<1>3. SectorStart \in Nat
  BY SectorIs
<1>4. w.remain <= SECTOR - w.off /\ (w.remain # Len(w.data) => w.remain = SECTOR - w.off)
  BY <1>1, <1>2, Numbers DEF SMin
<1>5. ASSUME NEW a \in Addresses
      PROVE  /\ a < w.addr \/ a >= w.addr + w.remain => After(a) = Before(a)
             /\ a >= w.addr /\ a < w.addr + w.remain => After(a) = w.data[a - w.addr + 1]
  <2>1. a \in Nat
    BY Numbers
  <2>2. ASSUME a < w.addr \/ a >= w.addr + w.remain PROVE After(a) = Before(a)
    <3>1. a < w.addr + w.remain <=> a < w.addr
      BY <1>1, <2>1, <2>2
    <3> QED
      BY <3>1 DEF After, Before, Goal
  <2>3. ASSUME a >= w.addr, a < w.addr + w.remain PROVE After(a) = w.data[a - w.addr + 1]
    <3>1. a - w.addr + 1 \in 1..Len(w.data)
      BY <1>1, <2>1, <2>3
    <3>2. w.addr - call.addr + (a - w.addr + 1) = a - call.addr + 1
      <4>1. \A x, y, z \in Int : x - y + (z - x + 1) = z - y + 1
        OBVIOUS
      <4>2. w.addr \in Int /\ call.addr \in Int /\ a \in Int
        BY <1>1, <1>2, <2>1
      <4> QED
        BY <4>1, <4>2
    <3>3. w.data[a - w.addr + 1] = call.text[a - call.addr + 1]
      BY <1>2, <3>1, <3>2
    <3>4. a >= call.addr /\ a < call.addr + Len(call.text)
      BY <1>1, <1>2, <2>1, <2>3
    <3> QED
      BY <2>3, <3>3, <3>4 DEF After, Goal
  <2> QED
    BY <2>2, <2>3
<1> QED
  BY <1>1, <1>2, <1>3, <1>4, <1>5, Numbers

\* A sector that gets a byte is one of those that the call touches.
LEMMA SectorTouched ==
  ASSUME Types, WriteInv, call.op = "write", w.remain > 0, NEW a \in Addresses,
         SectorStart <= a, a < SectorStart + SECTOR
  PROVE  a \in Store!Touched(call)
<1>0. /\ w.addr \in Nat /\ w.remain \in Nat /\ SectorStart \in Nat /\ SECTOR \in Nat
      /\ SectorStart <= w.addr /\ w.addr + w.remain <= SectorStart + SECTOR
      /\ SectorStart + SECTOR <= SECTORS * SECTOR /\ SECTORS * SECTOR \in Nat
  BY PieceIs, SectorIs, Numbers
<1>1. w.addr < SectorStart + SECTOR /\ w.addr < SECTORS * SECTOR
  BY <1>0
<1>2. w.addr \in Addresses /\ w.addr \div SECTOR = w.pos /\ a \div SECTOR = w.pos
  <2>1. w.addr \in Addresses
    BY <1>0, <1>1, Numbers
  <2>2. \A b \in Addresses :
          b \div SECTOR = w.pos <=> SectorStart <= b /\ b < SectorStart + SECTOR
    BY SectorIs
  <2> QED
    BY <1>0, <1>1, <2>1, <2>2, Zenon
<1>3. w.addr \in Store!Target(call)
  <2>1. w.addr >= call.addr /\ w.addr + Len(w.data) = call.addr + Len(call.text)
    BY DEF WriteInv
  <2>2. call.addr \in Nat /\ call.text \in Seq(Byte)
    BY Numbers DEF WriteInv
  <2>3. Len(call.text) \in Nat /\ Len(w.data) \in Nat /\ Len(w.data) > 0
    BY <1>0, <2>2, PieceIs
  <2>4. w.addr \in call.addr..(call.addr + Len(call.text) - 1)
    <3>1. w.addr \in Nat
      BY <1>0
    <3> QED
      BY <2>1, <2>2, <2>3, <3>1
  <2> QED
    BY <2>4, Zenon DEF Store!Target
<1> QED
  BY <1>2, <1>3 DEF Store!Touched, Addresses

-----------------------------------------------------------------------------
\* The variables of a call that there is none of.
LEMMA EmptyTypes ==
  /\ NoWrite \in [data : Seq(Byte), addr : Nat, pos : Nat, off : 0..(SECTOR - 1), remain : Nat]
  /\ NoWrite.remain <= Len(NoWrite.data) /\ NoWrite.off + NoWrite.remain <= SECTOR
  /\ NoPages \in [data : Seq(Byte), addr : Nat, remain : Nat]
  /\ NoPages.remain = SMin(Len(NoPages.data), PAGE - (NoPages.addr % PAGE))
  /\ Zeroes \in [1..SECTOR -> Byte]
<1>1. NoPages.remain = SMin(Len(NoPages.data), PAGE - (NoPages.addr % PAGE))
  <2>1. 0 % PAGE \in 0..(PAGE - 1) /\ Len(<<>>) = 0
    BY DivMod, Numbers
  <2>2. \A x \in Nat : SMin(0, x) = 0
    BY DEF SMin
  <2> QED
    BY <2>1, <2>2, Numbers DEF NoPages
<1>2. NoPages \in [data : Seq(Byte), addr : Nat, remain : Nat]
  BY DEF NoPages
<1>3. /\ NoWrite \in [data : Seq(Byte), addr : Nat, pos : Nat, off : 0..(SECTOR - 1), remain : Nat]
      /\ NoWrite.remain <= Len(NoWrite.data) /\ NoWrite.off + NoWrite.remain <= SECTOR
  BY Numbers DEF NoWrite
<1>4. Zeroes \in [1..SECTOR -> Byte]
  BY DEF Zeroes, Byte
<1> QED
  BY <1>1, <1>2, <1>3, <1>4

LEMMA FlashInit == Init => FlashInv
<1> SUFFICES ASSUME Init PROVE FlashInv
  OBVIOUS
<1>0. call.op = "none"
  BY DEF Init, Store!Idle
<1>1. Types
  <2>1. mem \in [Addresses -> Byte] /\ stored \in [Addresses -> Byte]
    BY DEF Init, Erased, Store!Erased, Byte
  <2>6. wel \in BOOLEAN /\ missed \in BOOLEAN
    BY Zenon DEF Init
  <2>7. busy \in {"no", "program", "erase"} /\ pc \in Places /\ resets \in Nat
    BY DEF Init, Places
  <2> QED
    BY <2>1, <2>6, <2>7, EmptyTypes, Zenon DEF Init, Types
<1>2. CallInv
  BY <1>0 DEF Init, CallInv
<1>3. WriteInv /\ Confined
  BY <1>0 DEF Init, WriteInv, Confined
<1>4. Clean
  BY <1>0 DEF Init, Clean, CleanErase, CleanWrite
<1> QED
  BY <1>1, <1>2, <1>3, <1>4 DEF FlashInv

\* Steps of the chip's state and of the program's place alone.
LEMMA FrameKeeps ==
  ASSUME FlashInv, UNCHANGED <<mem, driver, call, stored, resets>>,
         wel' \in BOOLEAN, busy' \in {"no", "program", "erase"}, missed' \in BOOLEAN,
         missed => missed',
         \/ pc' = pc
         \/ <<pc, pc'>> \in {<<"enable_erase", "wait_erase">>, <<"wait_erase", "erase">>,
                            <<"enable_program", "program">>},
         ~missed' /\ pc' \in {"wait_erase", "erase", "program"} => busy' = "no" /\ wel'
  PROVE  FlashInv'
<1> USE DEF FlashInv, driver
<1>1. pc' \in Places /\ (pc = "idle" <=> pc' = "idle") /\ (pc = "read" <=> pc' = "read")
      /\ (pc \in Erasing <=> pc' \in Erasing) /\ (pc \in Programming <=> pc' \in Programming)
      /\ (pc = "erasing" <=> pc' = "erasing") /\ (pc = "programming" <=> pc' = "programming")
  BY DEF Types, Places, Erasing, Programming
<1>2. Types'
  BY <1>1, Zenon DEF Types
<1>3. CallInv' /\ WriteInv'
  BY <1>1 DEF CallInv, WriteInv, SectorStart
<1>4. Confined'
  BY DEF Confined
<1>5. ASSUME ~missed' PROVE CleanErase'
  BY <1>1, <1>5 DEF Clean, CleanErase
<1>6. ASSUME ~missed' PROVE CleanWrite'
  <2>1. CleanWrite
    BY <1>6 DEF Clean
  <2>2. \A a : Before(a)' = Before(a) /\ After(a)' = After(a) /\ (Left(a)' <=> Left(a))
    BY <1>1 DEF Before, After, Goal, Left, Done
  <2>3. pc' \in {"read", "enable_erase", "wait_erase", "erase"} =>
          pc \in {"read", "enable_erase", "wait_erase", "erase"}
    BY <1>1
  <2> QED
    BY <1>1, <2>1, <2>2, <2>3 DEF CleanWrite, SectorStart
<1> QED
  BY <1>2, <1>3, <1>4, <1>5, <1>6 DEF Clean

LEMMA FlagsKeep ==
  ASSUME FlashInv, Finish \/ EnableErase \/ WaitErase \/ EnableProgram \/ UNCHANGED vars
  PROVE  FlashInv'
<1>0. wel \in BOOLEAN /\ busy \in {"no", "program", "erase"} /\ missed \in BOOLEAN
  BY DEF FlashInv, Types
<1>1. CASE Finish
  <2>1. ~missed /\ pc \in {"wait_erase", "erase", "program"} => FALSE
    BY <1>1 DEF Finish, FlashInv, Clean, CleanErase
  <2> QED
    BY <1>0, <1>1, <2>1, FrameKeeps DEF Finish, count
<1>2. CASE EnableErase
  BY <1>0, <1>2, FrameKeeps DEF EnableErase, WriteEnable, count
<1>3. CASE WaitErase
  <2>1. ~missed => busy = "no" /\ wel
    BY <1>3 DEF WaitErase, FlashInv, Clean, CleanErase
  <2> QED
    BY <1>0, <1>3, <2>1, FrameKeeps DEF WaitErase, chip, count
<1>4. CASE EnableProgram
  BY <1>0, <1>4, FrameKeeps DEF EnableProgram, WriteEnable, count
<1>5. CASE UNCHANGED vars
  <2>1. ~missed /\ pc \in {"wait_erase", "erase", "program"} => busy = "no" /\ wel
    BY DEF FlashInv, Clean, CleanErase
  <2> QED
    BY <1>0, <1>5, <2>1, FrameKeeps DEF vars, chip, count
<1> QED
  BY <1>1, <1>2, <1>3, <1>4, <1>5

-----------------------------------------------------------------------------
LEMMA EraseKeeps == ASSUME FlashInv, Erase PROVE FlashInv'
<1> USE DEF FlashInv
<1> DEFINE cells == [a \in Addresses |-> IF a \div SECTOR \in area THEN Erased ELSE mem[a]]
<1>0. /\ pc = "erase" /\ pc' = "erasing" /\ call # Store!Idle /\ call.op \in {"write", "erase"}
      /\ UNCHANGED <<driver, call, stored, resets, wel>>
      /\ IF busy = "no" /\ wel THEN mem' = cells /\ busy' = "erase" ELSE UNCHANGED <<mem, busy>>
      /\ missed' = (missed \/ busy # "no")
  BY DEF Erase, Change, CallInv, count
<1>1. mem' \in [Addresses -> Byte] /\ busy' \in {"no", "program", "erase"} /\ pc' \in Places
  <2>1. cells \in [Addresses -> Byte]
    BY DEF Types, Erased, Store!Erased, Byte
  <2> HIDE DEF cells
  <2> QED
    BY <1>0, <2>1 DEF Types, Places, Erasing
<1>2. Types'
  <2>1. missed' \in BOOLEAN
    BY <1>0, Zenon DEF Types
  <2> QED
    BY <1>0, <1>1, <2>1, Zenon DEF Types, driver
<1>3. CallInv'
  BY <1>0 DEF CallInv, driver, Erasing
<1>4. WriteInv'
  BY <1>0 DEF WriteInv, SectorStart, driver, Erasing, Programming
<1>5. Confined'
  <2>1. SUFFICES ASSUME NEW a \in Addresses, a \notin Store!Touched(call), mem' = cells
                 PROVE  a \div SECTOR \notin area
    BY <1>0, Zenon DEF Confined, Store!Touched, Store!Target, Addresses, Store!Addresses
  <2>2. CASE call.op = "write"
    <3>1. area = {w.pos} /\ w.remain > 0
      BY <1>0, <2>2 DEF WriteInv, Erasing
    <3> QED
      BY <2>1, <2>2, <3>1, SectorIs, SectorTouched
  <2>3. CASE call.op = "erase"
    <3>1. area = call.area
      BY <2>3 DEF CallInv
    <3> QED
      BY <2>1, <2>3, <3>1 DEF Store!Touched, Store!Target, Addresses
  <2> QED
    BY <1>0, <2>2, <2>3
<1>6. ASSUME ~missed' PROVE CleanErase' /\ CleanWrite'
  <2>1. mem' = cells /\ CleanErase /\ CleanWrite
    BY <1>0, <1>6 DEF Clean, CleanErase
  <2>2. CleanErase'
    BY <1>0, <2>1 DEF CleanErase, driver
  <2>3. ASSUME call.op = "write" PROVE CleanWrite'
    <3>1. area = {w.pos} /\ pc \in Erasing
      BY <1>0, <2>3 DEF WriteInv, Erasing
    <3>2. \A a : Before(a)' = Before(a)
      BY <1>0 DEF Before, Goal, driver
    <3>3. \A a \in Addresses : mem[a] = Before(a)
      BY <1>0, <2>1, <2>3 DEF CleanWrite
    <3>4. \A a \in Addresses : mem'[a] = IF a \div SECTOR = w.pos THEN Erased ELSE Before(a)
      BY <2>1, <3>1, <3>3
    <3>5. \A i \in 1..SECTOR : SPI_FLASH_BUF[i] = Before(SectorStart + i - 1)
      BY <2>1, <2>3, <3>1 DEF CleanWrite
    <3> QED
      BY <1>0, <3>2, <3>4, <3>5 DEF CleanWrite, SectorStart, driver, Programming
  <2> QED
    BY <1>0, <2>2, <2>3 DEF CleanWrite
<1> QED
  BY <1>2, <1>3, <1>4, <1>5, <1>6 DEF Clean

\* A page program stays in its page, which is in the sector that is worked on.
LEMMA PageIs ==
  ASSUME FlashInv, pc \in Programming
  PROVE  /\ call # Store!Idle /\ call.op = "write"
         /\ p.addr \in Nat /\ p.remain \in Nat /\ p.data \in Seq(Byte) /\ Len(p.data) \in Nat
         /\ p.remain <= Len(p.data) /\ (p.addr % PAGE) + p.remain <= PAGE
         /\ p.remain # Len(p.data) => (p.addr + p.remain) % PAGE = 0
         /\ SectorStart \in Nat /\ SectorStart <= p.addr
         /\ p.addr + Len(p.data) <= SectorStart + SECTOR
         /\ Len(p.data) > 0 => w.remain > 0
<1> USE DEF FlashInv
<1>1. call # Store!Idle /\ call.op = "write"
  BY DEF CallInv, Programming, Erasing
<1>2. p.addr \in Nat /\ p.remain \in Nat /\ p.data \in Seq(Byte) /\ Len(p.data) \in Nat
  BY DEF Types
<1>3. PICK r \in 0..(PAGE - 1) : r = p.addr % PAGE /\ (p.addr + (PAGE - r)) % PAGE = 0
  BY <1>2, RestOf, Numbers
<1>4. p.remain <= Len(p.data) /\ p.remain <= PAGE - r /\ (p.remain # Len(p.data) => p.remain = PAGE - r)
  <2>1. p.remain = SMin(Len(p.data), PAGE - r)
    BY <1>3 DEF Types
  <2> QED
    BY <1>2, <1>3, <2>1, Numbers DEF SMin
<1>5. SectorStart \in Nat
  BY <1>1, SectorIs
<1>6. /\ SectorStart <= p.addr /\ p.addr + Len(p.data) <= SectorStart + SECTOR
      /\ Len(p.data) > 0 => w.remain > 0
  BY <1>1 DEF WriteInv
<1>7. (p.addr % PAGE) + p.remain <= PAGE
  BY <1>2, <1>3, <1>4, Numbers
<1>8. p.remain # Len(p.data) => (p.addr + p.remain) % PAGE = 0
  BY <1>3, <1>4
<1> QED
  BY <1>1, <1>2, <1>4, <1>5, <1>6, <1>7, <1>8

\* What a page program does to the cells: with the chip ready, or not.
LEMMA PageProgrammed ==
  ASSUME FlashInv, pc = "program", NEW n \in 0..p.remain, NEW a \in Addresses
  PROVE  Programmed(p.addr, SubSeq(p.data, 1, n))[a] =
           IF a >= p.addr /\ a < p.addr + n THEN mem[a] \cap p.data[a - p.addr + 1] ELSE mem[a]
<1>1. /\ p.addr \in Nat /\ p.data \in Seq(Byte) /\ n \in 0..Len(p.data) /\ n \in Nat
      /\ (p.addr % PAGE) + n <= PAGE /\ a \in Nat
  <2>1. p.addr % PAGE \in 0..(PAGE - 1)
    BY PageIs, DivMod, Numbers DEF Programming
  <2> QED
    BY <2>1, PageIs, Numbers DEF Programming
<1>2. SubSeq(p.data, 1, n) \in Seq(Byte) /\ Len(SubSeq(p.data, 1, n)) = n
      /\ \A i \in 1..n : SubSeq(p.data, 1, n)[i] = p.data[i]
  BY <1>1, Pieces
<1>3. Programmed(p.addr, SubSeq(p.data, 1, n))[a] =
        IF a >= p.addr /\ a < p.addr + n
        THEN mem[a] \cap SubSeq(p.data, 1, n)[a - p.addr + 1] ELSE mem[a]
  BY <1>1, <1>2, ProgrammedIs, Zenon
<1>4. a >= p.addr /\ a < p.addr + n => a - p.addr + 1 \in 1..n
  BY <1>1
<1> QED
  BY <1>2, <1>3, <1>4, Zenon

LEMMA ProgramKeeps == ASSUME FlashInv, Program PROVE FlashInv'
<1> USE DEF FlashInv
<1> DEFINE cells == Programmed(p.addr, SubSeq(p.data, 1, p.remain))
           range(a) == a >= p.addr /\ a < p.addr + p.remain
<1>0. /\ pc = "program" /\ pc' = "programming"
      /\ UNCHANGED <<driver, call, stored, resets>>
      /\ IF p.remain > 0
         THEN Change(cells, "program")
         ELSE UNCHANGED <<chip, missed>>
  BY DEF Program, count
<1>1. /\ call # Store!Idle /\ call.op = "write"
      /\ p.addr \in Nat /\ p.remain \in Nat /\ p.data \in Seq(Byte) /\ Len(p.data) \in Nat
      /\ p.remain <= Len(p.data) /\ SectorStart <= p.addr
      /\ p.addr + Len(p.data) <= SectorStart + SECTOR /\ SectorStart \in Nat
      /\ Len(p.data) > 0 => w.remain > 0
  BY <1>0, PageIs DEF Programming
<1>2. \A a \in Addresses :
        cells[a] = IF range(a) THEN mem[a] \cap p.data[a - p.addr + 1] ELSE mem[a]
  <2>1. p.remain \in 0..p.remain
    BY <1>1
  <2> QED
    BY <1>0, <2>1, PageProgrammed
<1>3. mem' = cells \/ mem' = mem
  BY <1>0 DEF Change, chip
<1>4. /\ mem' \in [Addresses -> Byte] /\ busy' \in {"no", "program", "erase"}
  <2>1. cells \in [Addresses -> Byte]
    <3>1. cells = [a \in Addresses |-> cells[a]]
      BY DEF Programmed
    <3>2. \A a \in Addresses : cells[a] \in Byte
      BY <1>2, Zenon DEF Types, Byte
    <3> HIDE DEF cells
    <3> QED
      BY <3>1, <3>2
  <2> HIDE DEF cells
  <2> QED
    BY <1>0, <1>3, <2>1 DEF Types, Change, chip
<1> HIDE DEF cells
<1>5. wel' = wel /\ missed' \in BOOLEAN /\ (~missed' => ~missed)
  BY <1>0, Zenon DEF Change, chip, Types
<1>6. Types'
  <2>1. pc' \in Places
    BY <1>0 DEF Places, Programming
  <2> QED
    BY <1>0, <1>4, <1>5, <2>1, Zenon DEF Types, driver
<1>7. CallInv' /\ WriteInv'
  BY <1>0, <1>1 DEF CallInv, WriteInv, SectorStart, driver, Erasing, Programming
<1>8. Confined'
  <2>1. SUFFICES ASSUME NEW a \in Addresses, a \notin Store!Touched(call), range(a)
                 PROVE  FALSE
    BY <1>0, <1>1, <1>2, <1>3, Zenon DEF Confined, Store!Touched, Store!Target, Addresses, Store!Addresses
  <2>2. a \in Nat /\ SectorStart <= a /\ a < SectorStart + SECTOR /\ Len(p.data) > 0
    BY <1>1, <2>1, Numbers
  <2> QED
    BY <1>1, <2>1, <2>2, SectorTouched
<1>9. ASSUME ~missed' PROVE CleanErase' /\ CleanWrite'
  <2>1. CleanErase /\ CleanWrite /\ ~missed
    BY <1>5, <1>9 DEF Clean
  <2>2. p.remain > 0 => mem' = cells
    BY <1>0, <2>1 DEF CleanErase, Change
  <2>3. p.remain = 0 => mem' = mem
    BY <1>0 DEF chip
  <2>4. CleanErase'
    BY <1>0, <1>1 DEF CleanErase
  <2>5. \A a : After(a)' = After(a)
    BY <1>0 DEF After, Goal, driver
  <2>6. ASSUME NEW a \in Addresses
        PROVE  /\ Left(a)' => mem'[a] = Erased /\ p.data[a - p.addr + 1] = After(a)
               /\ ~Left(a)' => mem'[a] = After(a)
    <3>0. a \in Nat
      BY Numbers
    <3>1. Left(a) <=> a >= p.addr /\ a < p.addr + Len(p.data)
      BY <1>0, <1>1 DEF Left, Done
    <3>2. Left(a)' <=> a >= p.addr + p.remain /\ a < p.addr + Len(p.data)
      BY <1>0 DEF Left, Done, driver
    <3>3. /\ Left(a) => mem[a] = Erased /\ p.data[a - p.addr + 1] = After(a)
          /\ ~Left(a) => mem[a] = After(a)
      BY <1>0, <1>1, <2>1 DEF CleanWrite, Programming
    <3>4. CASE range(a)
      <4>1. Left(a) /\ ~Left(a)' /\ p.remain > 0 /\ a - p.addr + 1 \in 1..Len(p.data)
        BY <1>1, <3>0, <3>1, <3>2, <3>4
      <4>2. mem'[a] = Erased \cap p.data[a - p.addr + 1] /\ p.data[a - p.addr + 1] \in Byte
        <5>1. mem' = cells /\ mem[a] = Erased
          BY <2>2, <3>3, <4>1
        <5>2. cells[a] = mem[a] \cap p.data[a - p.addr + 1]
          BY <1>2, <3>4, Zenon
        <5>3. p.data[a - p.addr + 1] \in Byte
          BY <1>1, <4>1
        <5> QED
          BY <5>1, <5>2, <5>3, Zenon
      <4>3. mem'[a] = p.data[a - p.addr + 1]
        BY <4>2 DEF Erased, Store!Erased, Byte
      <4> QED
        BY <3>3, <4>1, <4>3
    <3>5. CASE ~range(a)
      <4>1. Left(a) <=> Left(a)'
        BY <1>1, <3>0, <3>1, <3>2, <3>5
      <4>2. mem'[a] = mem[a]
        <5>1. mem' = cells \/ mem' = mem
          BY <1>3
        <5>2. cells[a] = mem[a]
          BY <1>2, <3>5, Zenon
        <5> QED
          BY <5>1, <5>2, Zenon
      <4> QED
        BY <3>3, <4>1, <4>2
    <3> QED
      BY <3>4, <3>5
  <2>7. CleanWrite'
    BY <1>0, <2>5, <2>6, Zenon DEF CleanWrite, driver, Erasing, Programming
  <2> QED
    BY <2>4, <2>7
<1> QED
  BY <1>6, <1>7, <1>8, <1>9 DEF Clean

\* Steps of the program that leave the chip's cells alone. What such a step has to
\* show is what its place promises.
LEMMA SoftwareKeeps ==
  ASSUME FlashInv, Types', CallInv', WriteInv', pc # "idle",
         UNCHANGED <<mem, wel, call, stored>>, missed => missed',
         pc' \notin {"wait_erase", "erase", "program"}, call.op = "write",
         ~missed' => CleanWrite'
  PROVE  FlashInv'
<1>1. Confined'
  BY DEF FlashInv, CallInv, Confined
<1>2. ~missed' => CleanErase'
  BY DEF CleanErase
<1> QED
  BY <1>1, <1>2 DEF FlashInv, Clean

LEMMA NextPageKeeps == ASSUME FlashInv, NextPage PROVE FlashInv'
<1> DEFINE rest == SubSeq(p.data, p.remain + 1, Len(p.data))
<1>0. /\ pc = "programming" /\ pc' = "enable_program" /\ Len(p.data) # p.remain
      /\ p' = [data |-> rest, addr |-> p.addr + p.remain, remain |-> SMin(Len(rest), PAGE)]
      /\ UNCHANGED <<chip, area, w, SPI_FLASH_BUF, call, stored, missed, resets>>
  BY DEF NextPage, count
<1>1. /\ call # Store!Idle /\ call.op = "write"
      /\ p.addr \in Nat /\ p.remain \in Nat /\ p.data \in Seq(Byte) /\ Len(p.data) \in Nat
      /\ p.remain <= Len(p.data) /\ (p.addr + p.remain) % PAGE = 0
      /\ SectorStart <= p.addr /\ p.addr + Len(p.data) <= SectorStart + SECTOR /\ SectorStart \in Nat
      /\ Len(p.data) > 0 => w.remain > 0
  BY <1>0, PageIs DEF Programming
<1>2. /\ rest \in Seq(Byte) /\ Len(rest) = Len(p.data) - p.remain
      /\ \A i \in 1..(Len(p.data) - p.remain) : rest[i] = p.data[p.remain + i]
  <2>1. p.remain \in 0..Len(p.data)
    BY <1>1
  <2>2. /\ SubSeq(p.data, p.remain + 1, Len(p.data)) \in Seq(Byte)
        /\ Len(SubSeq(p.data, p.remain + 1, Len(p.data))) = Len(p.data) - p.remain
        /\ \A i \in 1..(Len(p.data) - p.remain) :
             SubSeq(p.data, p.remain + 1, Len(p.data))[i] = p.data[p.remain + i]
    <3>1. p.data \in Seq(Byte)
      BY <1>1
    <3> QED
      BY <2>1, <3>1, Pieces
  <2> QED
    BY <2>2
<1> HIDE DEF rest
<1>3. p'.data = rest /\ p'.addr = p.addr + p.remain /\ p'.remain = SMin(Len(rest), PAGE)
  BY <1>0
<1>4. Types'
  <2>1. Len(rest) \in Nat /\ SMin(Len(rest), PAGE) \in Nat
    BY <1>1, <1>2, SMinIs, Numbers
  <2>2. p'.remain = SMin(Len(p'.data), PAGE - (p'.addr % PAGE))
    <3>1. PAGE - 0 = PAGE
      BY Numbers
    <3> QED
      BY <1>1, <1>3, <3>1, Zenon
  <2>3. p' \in [data : Seq(Byte), addr : Nat, remain : Nat]
    BY <1>0, <1>1, <1>2, <2>1
  <2>4. pc' \in Places
    BY <1>0 DEF Places, Programming
  <2> QED
    BY <1>0, <2>2, <2>3, <2>4, Zenon DEF FlashInv, Types, chip
<1>5. CallInv'
  BY <1>0, <1>1 DEF FlashInv, CallInv, chip
<1>6. WriteInv'
  <2>1. /\ SectorStart <= p'.addr /\ p'.addr + Len(p'.data) <= SectorStart + SECTOR
        /\ Len(p'.data) > 0 => w.remain > 0
    BY <1>1, <1>2, <1>3
  <2> QED
    BY <1>0, <1>1, <2>1 DEF FlashInv, WriteInv, SectorStart, Erasing
<1>7. ASSUME ~missed' PROVE CleanWrite'
  <2>1. \A a : After(a)' = After(a)
    BY <1>0 DEF After, Goal
  <2>2. ASSUME NEW a \in Addresses
        PROVE  /\ Left(a)' => mem[a] = Erased /\ p'.data[a - p'.addr + 1] = After(a)
               /\ ~Left(a)' => mem[a] = After(a)
    <3>0. a \in Nat
      BY Numbers
    <3>1. Left(a) <=> a >= p.addr + p.remain /\ a < p.addr + Len(p.data)
      BY <1>0 DEF Left, Done
    <3>2. Left(a)' <=> a >= p.addr + p.remain /\ a < p.addr + Len(p.data)
      BY <1>0, <1>1, <1>2, <1>3, <3>0 DEF Left, Done
    <3>3. /\ Left(a) => mem[a] = Erased /\ p.data[a - p.addr + 1] = After(a)
          /\ ~Left(a) => mem[a] = After(a)
      BY <1>0, <1>1, <1>7 DEF FlashInv, Clean, CleanWrite, Programming
    <3>4. ASSUME Left(a) PROVE p'.data[a - p'.addr + 1] = p.data[a - p.addr + 1]
      <4>1. a - (p.addr + p.remain) + 1 \in 1..(Len(p.data) - p.remain)
            /\ p.remain + (a - (p.addr + p.remain) + 1) = a - p.addr + 1
        BY <1>1, <3>0, <3>1, <3>4
      <4> QED
        BY <1>2, <1>3, <4>1
    <3> QED
      BY <3>1, <3>2, <3>3, <3>4
  <2> QED
    BY <1>0, <2>1, <2>2, Zenon DEF CleanWrite, Erasing, chip
<1> QED
  BY <1>0, <1>1, <1>4, <1>5, <1>6, <1>7, SoftwareKeeps DEF chip

\* A call of SPI_Flash_Write_NoCheck starts with what fits in the first page.
LEMMA NoCheckTypes ==
  ASSUME NEW data \in Seq(Byte), NEW addr \in Nat, WriteNoCheck(data, addr)
  PROVE  /\ p' \in [data : Seq(Byte), addr : Nat, remain : Nat]
         /\ p'.remain = SMin(Len(p'.data), PAGE - (p'.addr % PAGE))
         /\ p'.data = data /\ p'.addr = addr /\ pc' = "enable_program" /\ pc' \in Places
<1>1. p' = [data |-> data, addr |-> addr, remain |-> FirstPage(addr, Len(data))]
      /\ pc' = "enable_program" /\ pc' \in Places
  BY DEF WriteNoCheck, Places, Programming
<1>2. FirstPage(addr, Len(data)) \in Nat
  <2>1. addr % PAGE \in 0..(PAGE - 1) /\ Len(data) \in Nat
    BY DivMod, Numbers
  <2>2. PAGE - (addr % PAGE) \in Nat
    BY <2>1, Numbers
  <2> QED
    BY <2>1, <2>2, SMinIs DEF FirstPage
<1> QED
  BY <1>1, <1>2 DEF FirstPage

LEMMA ReadSectorKeeps == ASSUME FlashInv, ReadSector PROVE FlashInv'
<1>0. /\ pc = "read" /\ missed' = (missed \/ busy # "no")
      /\ UNCHANGED <<chip, w, call, stored, resets>>
  BY DEF ReadSector, count
<1>1. call # Store!Idle /\ call.op = "write"
  BY <1>0 DEF FlashInv, CallInv, Erasing
<1>2. PICK buf \in SectorReads(w.pos) :
        /\ SPI_FLASH_BUF' = buf
        /\ IF Dirty(buf)
           THEN /\ pc' = "enable_erase"
                /\ area' = {w.pos}
                /\ UNCHANGED p
           ELSE /\ WriteNoCheck(SubSeq(w.data, 1, w.remain), w.addr)
                /\ UNCHANGED area
  BY DEF ReadSector
<1>3. /\ \A i \in 1..SECTOR : SectorStart + i - 1 \in Addresses
      /\ SectorStart \in Nat
  BY <1>1, SectorIs DEF FlashInv
<1>4. /\ w.addr \in Nat /\ w.remain \in Nat /\ Len(w.data) \in Nat /\ w.remain <= Len(w.data)
      /\ SectorStart <= w.addr /\ w.addr + w.remain <= SectorStart + SECTOR
      /\ \A a \in Addresses :
           /\ a < w.addr \/ a >= w.addr + w.remain => After(a) = Before(a)
           /\ a >= w.addr /\ a < w.addr + w.remain => After(a) = w.data[a - w.addr + 1]
      /\ w.data \in Seq(Byte) /\ w.addr = SectorStart + w.off /\ w.off \in 0..(SECTOR - 1)
  BY <1>1, PieceIs DEF FlashInv, Types, WriteInv
<1>5. buf \in [1..SECTOR -> Byte]
  <2>1. \A i \in 1..SECTOR : mem[w.pos * SECTOR + i - 1] \in Byte
    BY <1>3 DEF FlashInv, Types, SectorStart
  <2>2. Erased \in Byte /\ {} \in Byte
    BY DEF Erased, Store!Erased, Byte
  <2> QED
    BY <1>2, <2>1, <2>2 DEF SectorReads
<1>6. missed' \in BOOLEAN /\ (~missed' => ~missed /\ busy = "no")
  BY <1>0, Zenon DEF FlashInv, Types
<1>7. ~missed' => /\ \A i \in 1..SECTOR : buf[i] = mem[SectorStart + i - 1]
                  /\ \A a \in Addresses : mem[a] = Before(a)
  BY <1>0, <1>1, <1>2, <1>6 DEF FlashInv, Clean, CleanWrite, SectorReads, SectorStart
<1>8. CASE Dirty(buf)
  <2>1. w.remain > 0
    BY <1>4, <1>8 DEF Dirty
  <2>2. Types'
    <3>1. pc' \in Places
      BY <1>2, <1>8 DEF Places, Erasing
    <3> QED
      BY <1>0, <1>2, <1>5, <1>6, <1>8, <3>1, Zenon DEF FlashInv, Types, chip
  <2>3. CallInv'
    BY <1>0, <1>1, <1>2, <1>8 DEF FlashInv, CallInv, chip
  <2>4. WriteInv'
    BY <1>0, <1>1, <1>2, <1>8, <2>1 DEF FlashInv, WriteInv, SectorStart, Programming
  <2>5. ASSUME ~missed' PROVE CleanWrite'
    <3>1. \A a : Before(a)' = Before(a)
      BY <1>0 DEF Before, Goal
    <3>2. \A i \in 1..SECTOR : buf[i] = Before(SectorStart + i - 1)
      BY <1>3, <1>7, <2>5
    <3>3. pc' = "enable_erase" /\ SPI_FLASH_BUF' = buf
      BY <1>2, <1>8
    <3> QED
      BY <1>0, <1>7, <2>5, <3>1, <3>2, <3>3 DEF CleanWrite, SectorStart, Programming, chip
  <2> QED
    BY <1>0, <1>1, <1>2, <1>6, <1>8, <2>2, <2>3, <2>4, <2>5, SoftwareKeeps DEF chip
<1>9. CASE ~Dirty(buf)
  <2> DEFINE data == SubSeq(w.data, 1, w.remain)
  <2>0. data \in Seq(Byte) /\ Len(data) = w.remain /\ \A i \in 1..w.remain : data[i] = w.data[i]
    <3>1. w.remain \in 0..Len(w.data)
      BY <1>4
    <3> QED
      BY <1>4, <3>1, Pieces
  <2>1. WriteNoCheck(data, w.addr) /\ area' = area
    BY <1>2, <1>9
  <2> HIDE DEF data
  <2>2. /\ p' \in [data : Seq(Byte), addr : Nat, remain : Nat]
        /\ p'.remain = SMin(Len(p'.data), PAGE - (p'.addr % PAGE))
        /\ p'.data = data /\ p'.addr = w.addr /\ pc' = "enable_program" /\ pc' \in Places
    BY <1>4, <2>0, <2>1, NoCheckTypes
  <2>3. Types'
    BY <1>0, <1>2, <1>5, <1>6, <2>2, Zenon DEF FlashInv, Types, chip
  <2>4. CallInv'
    BY <1>0, <1>1, <2>2 DEF FlashInv, CallInv, chip
  <2>5. WriteInv'
    <3>1. Len(data) > 0 => w.remain > 0
      BY <2>0
    <3>2. SectorStart <= p'.addr /\ p'.addr + Len(p'.data) <= SectorStart + SECTOR
      BY <1>4, <2>0, <2>2
    <3> QED
      BY <1>0, <1>1, <2>2, <3>1, <3>2 DEF FlashInv, WriteInv, SectorStart, Erasing
  <2>6. ASSUME ~missed' PROVE CleanWrite'
    <3>1. \A a : After(a)' = After(a)
      BY <1>0 DEF After, Goal
    <3>2. ASSUME NEW a \in Addresses
          PROVE  /\ Left(a)' => mem[a] = Erased /\ p'.data[a - p'.addr + 1] = After(a)
                 /\ ~Left(a)' => mem[a] = After(a)
      <4>0. a \in Nat
        BY Numbers
      <4>1. Left(a)' <=> a >= w.addr /\ a < w.addr + w.remain
        BY <1>4, <2>0, <2>2, <4>0 DEF Left, Done
      <4>2. mem[a] = Before(a)
        BY <1>7, <2>6
      <4>3. CASE a >= w.addr /\ a < w.addr + w.remain
        <5>1. PICK i \in 1..w.remain : i = a - w.addr + 1
          BY <1>4, <4>0, <4>3
        <5>2. p'.data[a - p'.addr + 1] = After(a)
          BY <1>4, <2>0, <2>2, <4>3, <5>1
        <5>3. w.off + i \in 1..SECTOR /\ SectorStart + (w.off + i) - 1 = a
          <6>1. SectorStart \in Nat
            BY <1>3
          <6>2. w.off \in Nat /\ SECTOR \in Nat /\ i \in Nat
            BY <1>4, <5>1, Numbers
          <6>3. /\ w.addr = SectorStart + w.off /\ w.addr + w.remain <= SectorStart + SECTOR
                /\ i \in 1..w.remain /\ i = a - w.addr + 1 /\ w.addr \in Nat /\ w.remain \in Nat
            BY <1>4, <5>1
          <6> QED
            BY <4>0, <6>1, <6>2, <6>3
        <5>4. buf[w.off + i] = Erased
          BY <1>9, <5>1 DEF Dirty
        <5>5. mem[a] = Erased
          BY <1>7, <2>6, <5>3, <5>4
        <5> QED
          BY <4>1, <4>3, <5>2, <5>5
      <4>4. CASE ~(a >= w.addr /\ a < w.addr + w.remain)
        <5>1. a < w.addr \/ a >= w.addr + w.remain
          BY <1>4, <4>0, <4>4
        <5> QED
          BY <1>4, <4>1, <4>2, <4>4, <5>1
      <4> QED
        BY <4>3, <4>4
    <3> QED
      BY <1>0, <2>2, <3>1, <3>2, Zenon DEF CleanWrite, Erasing, chip
  <2> QED
    BY <1>0, <1>1, <1>6, <2>2, <2>3, <2>4, <2>5, <2>6, SoftwareKeeps DEF chip
<1> QED
  BY <1>8, <1>9

\* The byte i of a sector that begins at s, and a piece at the offset o in it.
LEMMA Offsets ==
  ASSUME NEW s \in Nat, NEW o \in Nat, NEW r \in Nat, NEW a \in Nat, NEW i \in Nat, i = a - s + 1
  PROVE  /\ i - o = a - (s + o) + 1
         /\ i - o \in 1..r <=> a >= s + o /\ a < s + o + r
         /\ a < s + o \/ a >= s + o + r \/ i - o \in 1..r
OBVIOUS

LEMMA RewriteKeeps == ASSUME FlashInv, Rewrite PROVE FlashInv'
<1>0. /\ pc = "erasing" /\ call.op = "write" /\ SPI_FLASH_BUF' = Merged
      /\ WriteNoCheck(Merged, w.pos * SECTOR)
      /\ UNCHANGED <<chip, area, w, call, stored, missed, resets>>
  BY DEF Rewrite, count
<1>1. call # Store!Idle /\ w.remain > 0
  BY <1>0 DEF FlashInv, CallInv, WriteInv, Erasing
<1>2. /\ SectorStart \in Nat /\ SectorStart = w.pos * SECTOR
      /\ \A i \in 1..SECTOR : SectorStart + i - 1 \in Addresses
      /\ \A a \in Addresses :
           a \div SECTOR = w.pos <=> SectorStart <= a /\ a < SectorStart + SECTOR
  BY <1>0, SectorIs DEF FlashInv, SectorStart
<1>3. /\ w.addr \in Nat /\ w.remain \in Nat /\ w.remain <= Len(w.data) /\ Len(w.data) \in Nat
      /\ SectorStart <= w.addr /\ w.addr + w.remain <= SectorStart + SECTOR
      /\ w.data \in Seq(Byte) /\ w.addr = SectorStart + w.off /\ w.off \in Nat
  BY <1>0, PieceIs DEF FlashInv, Types, WriteInv
<1>4. \A a \in Addresses :
        /\ a < w.addr \/ a >= w.addr + w.remain => After(a) = Before(a)
        /\ a >= w.addr /\ a < w.addr + w.remain => After(a) = w.data[a - w.addr + 1]
  BY <1>0, PieceIs DEF FlashInv
<1>5. Merged \in [1..SECTOR -> Byte]
  <2>1. ASSUME NEW i \in 1..SECTOR
        PROVE  (IF i - w.off \in 1..w.remain THEN w.data[i - w.off] ELSE SPI_FLASH_BUF[i]) \in Byte
    <3>1. SPI_FLASH_BUF[i] \in Byte
      BY DEF FlashInv, Types
    <3>2. i - w.off \in 1..w.remain => w.data[i - w.off] \in Byte
      BY <1>3
    <3> QED
      BY <3>1, <3>2
  <2> QED
    BY <2>1 DEF Merged
<1>6. Merged \in Seq(Byte) /\ Len(Merged) = SECTOR
  <2>1. SECTOR \in Nat
    BY Numbers
  <2> QED
    BY <1>5, <2>1, SeqDef, LenProperties
<1>7. /\ p' \in [data : Seq(Byte), addr : Nat, remain : Nat]
      /\ p'.remain = SMin(Len(p'.data), PAGE - (p'.addr % PAGE))
      /\ p'.data = Merged /\ p'.addr = SectorStart /\ pc' = "enable_program" /\ pc' \in Places
  BY <1>0, <1>2, <1>6, NoCheckTypes
<1>8. Types'
  BY <1>0, <1>5, <1>7, Zenon DEF FlashInv, Types, chip
<1>9. CallInv'
  BY <1>0, <1>1, <1>7 DEF FlashInv, CallInv, chip
<1>10. WriteInv'
  <2>1. SectorStart <= p'.addr /\ p'.addr + Len(p'.data) <= SectorStart + SECTOR
    BY <1>2, <1>6, <1>7, Numbers
  <2> QED
    BY <1>0, <1>1, <1>7, <2>1 DEF FlashInv, WriteInv, SectorStart, Erasing
<1>11. ASSUME ~missed' PROVE CleanWrite'
  <2>1. \A a : After(a)' = After(a)
    BY <1>0 DEF After, Goal
  <2>2. /\ \A a \in Addresses : mem[a] = IF a \div SECTOR = w.pos THEN Erased ELSE Before(a)
        /\ \A i \in 1..SECTOR : SPI_FLASH_BUF[i] = Before(SectorStart + i - 1)
    BY <1>0, <1>11 DEF FlashInv, Clean, CleanWrite, Erasing
  <2>3. ASSUME NEW a \in Addresses
        PROVE  /\ Left(a)' => mem[a] = Erased /\ p'.data[a - p'.addr + 1] = After(a)
               /\ ~Left(a)' => mem[a] = After(a)
    <3>0. a \in Nat /\ SECTOR \in Nat
      BY Numbers
    <3>1. Left(a)' <=> SectorStart <= a /\ a < SectorStart + SECTOR
      BY <1>2, <1>6, <1>7, <3>0 DEF Left, Done
    <3>2. CASE SectorStart <= a /\ a < SectorStart + SECTOR
      <4>1. mem[a] = Erased
        BY <1>2, <2>2, <3>2
      <4>2. PICK i \in 1..SECTOR : i = a - SectorStart + 1
        BY <1>2, <3>0, <3>2
      <4>3. p'.data[a - p'.addr + 1] =
              IF i - w.off \in 1..w.remain THEN w.data[i - w.off] ELSE SPI_FLASH_BUF[i]
        BY <1>7, <4>2 DEF Merged
      <4>4. /\ i - w.off = a - w.addr + 1
            /\ i - w.off \in 1..w.remain <=> a >= w.addr /\ a < w.addr + w.remain
            /\ a < w.addr \/ a >= w.addr + w.remain \/ i - w.off \in 1..w.remain
        <5>1. /\ SectorStart \in Nat /\ w.off \in Nat /\ w.remain \in Nat /\ a \in Nat /\ i \in Nat
              /\ i = a - SectorStart + 1 /\ w.addr = SectorStart + w.off
          BY <1>2, <1>3, <3>0, <4>2
        <5> QED
          BY <5>1, Offsets
      <4>5. CASE i - w.off \in 1..w.remain
        <5>1. a >= w.addr /\ a < w.addr + w.remain /\ i - w.off = a - w.addr + 1
          BY <4>4, <4>5, Zenon
        <5> QED
          BY <1>4, <3>1, <3>2, <4>1, <4>3, <4>5, <5>1
      <4>6. CASE ~(i - w.off \in 1..w.remain)
        <5>1. a < w.addr \/ a >= w.addr + w.remain
          BY <4>4, <4>6, Zenon
        <5>2. SectorStart + i - 1 = a
          BY <1>2, <3>0, <4>2
        <5>3. SPI_FLASH_BUF[i] = After(a)
          BY <1>4, <2>2, <5>1, <5>2
        <5> QED
          BY <3>1, <3>2, <4>1, <4>3, <4>6, <5>3
      <4> QED
        BY <4>5, <4>6
    <3>3. CASE ~(SectorStart <= a /\ a < SectorStart + SECTOR)
      <4>1. mem[a] = Before(a)
        BY <1>2, <2>2, <3>3
      <4>2. a < w.addr \/ a >= w.addr + w.remain
        <5>1. /\ SectorStart \in Nat /\ w.addr \in Nat /\ w.remain \in Nat
              /\ SectorStart <= w.addr /\ w.addr + w.remain <= SectorStart + SECTOR
          BY <1>2, <1>3
        <5> QED
          BY <3>0, <3>3, <5>1
      <4> QED
        BY <1>4, <3>1, <3>3, <4>1, <4>2
    <3> QED
      BY <3>2, <3>3
  <2> QED
    BY <1>0, <1>7, <2>1, <2>3, Zenon DEF CleanWrite, Erasing, chip
<1> QED
  BY <1>0, <1>1, <1>7, <1>8, <1>9, <1>10, <1>11, SoftwareKeeps DEF chip, FlashInv, CallInv

LEMMA NextSectorKeeps == ASSUME FlashInv, NextSector PROVE FlashInv'
<1> DEFINE rest == SubSeq(w.data, w.remain + 1, Len(w.data))
<1>0. /\ pc = "programming" /\ pc' = "read" /\ Len(p.data) = p.remain /\ Len(w.data) # w.remain
      /\ w' = [data |-> rest, addr |-> w.addr + w.remain, pos |-> w.pos + 1, off |-> 0,
               remain |-> SMin(Len(rest), SECTOR)]
      /\ UNCHANGED <<chip, area, p, SPI_FLASH_BUF, call, stored, missed, resets>>
  BY DEF NextSector, count
<1>1. call # Store!Idle /\ call.op = "write"
  BY <1>0, PageIs DEF Programming
<1>2. /\ w.addr \in Nat /\ w.remain \in Nat /\ w.remain <= Len(w.data) /\ Len(w.data) \in Nat
      /\ w.addr + w.remain = SectorStart + SECTOR /\ w.data \in Seq(Byte) /\ w.pos \in Nat
  BY <1>0, <1>1, PieceIs DEF FlashInv, Types
<1>3. /\ rest \in Seq(Byte) /\ Len(rest) = Len(w.data) - w.remain
      /\ \A i \in 1..(Len(w.data) - w.remain) : rest[i] = w.data[w.remain + i]
  <2>1. w.remain \in 0..Len(w.data) /\ w.data \in Seq(Byte)
    BY <1>2
  <2>2. /\ SubSeq(w.data, w.remain + 1, Len(w.data)) \in Seq(Byte)
        /\ Len(SubSeq(w.data, w.remain + 1, Len(w.data))) = Len(w.data) - w.remain
        /\ \A i \in 1..(Len(w.data) - w.remain) :
             SubSeq(w.data, w.remain + 1, Len(w.data))[i] = w.data[w.remain + i]
    BY <2>1, Pieces
  <2> QED
    BY <2>2
<1> HIDE DEF rest
<1>4. SMin(Len(rest), SECTOR) \in Nat /\ SMin(Len(rest), SECTOR) <= Len(rest)
      /\ SMin(Len(rest), SECTOR) <= SECTOR /\ SECTOR - 0 = SECTOR /\ Len(rest) \in Nat
  <2>1. Len(rest) \in Nat /\ SECTOR \in Nat
    BY <1>3, Numbers
  <2> QED
    BY <2>1, SMinIs
<1>5. /\ w'.data = rest /\ w'.addr = w.addr + w.remain /\ w'.pos = w.pos + 1 /\ w'.off = 0
      /\ w'.remain = SMin(Len(rest), SECTOR)
  BY <1>0
<1>6. Types'
  <2>1. w' \in [data : Seq(Byte), addr : Nat, pos : Nat, off : 0..(SECTOR - 1), remain : Nat]
    <3>1. 0 \in 0..(SECTOR - 1) /\ w.addr + w.remain \in Nat /\ w.pos + 1 \in Nat
      BY <1>2, Numbers
    <3> QED
      BY <1>0, <1>3, <1>4, <3>1
  <2>2. w'.remain <= Len(w'.data) /\ w'.off + w'.remain <= SECTOR
    BY <1>4, <1>5
  <2>3. pc' \in Places
    BY <1>0 DEF Places
  <2> QED
    BY <1>0, <2>1, <2>2, <2>3, Zenon DEF FlashInv, Types, chip
<1>7. CallInv'
  BY <1>0, <1>1 DEF FlashInv, CallInv, chip
<1>8. WriteInv'
  <2>0. /\ call.addr \in Addresses /\ call.text \in Seq(Byte)
        /\ call.addr + Len(call.text) <= SECTORS * SECTOR
        /\ w.addr >= call.addr /\ w.addr + Len(w.data) = call.addr + Len(call.text)
        /\ \A i \in 1..Len(w.data) : w.data[i] = call.text[w.addr - call.addr + i]
        /\ call.addr \in Nat /\ Len(call.text) \in Nat
    BY <1>1, Numbers DEF FlashInv, WriteInv
  <2>1. w'.addr >= call.addr /\ w'.addr + Len(w'.data) = call.addr + Len(call.text)
    BY <1>2, <1>3, <1>5, <2>0
  <2>2. ASSUME NEW i \in 1..Len(w'.data) PROVE w'.data[i] = call.text[w'.addr - call.addr + i]
    <3>1. w.remain + i \in 1..Len(w.data) /\ i \in 1..(Len(w.data) - w.remain)
      BY <1>2, <1>3, <1>5
    <3>2. w.addr - call.addr + (w.remain + i) = w'.addr - call.addr + i
      <4>1. \A x, y, z, v \in Int : x - y + (z + v) = x + z - y + v
        OBVIOUS
      <4>2. w.addr \in Int /\ call.addr \in Int /\ w.remain \in Int /\ i \in Int
        BY <1>2, <2>0, <3>1
      <4> QED
        BY <1>5, <4>1, <4>2
    <3> QED
      BY <1>3, <1>5, <2>0, <3>1, <3>2
  <2>3. w'.addr = w'.pos * SECTOR
    <3>1. \A x, y \in Nat : (x + 1) * y = x * y + y
      BY SMT
    <3> QED
      BY <1>2, <1>5, <3>1, Numbers DEF SectorStart
  <2>4. w'.pos < SECTORS
    <3>1. w'.pos * SECTOR < SECTORS * SECTOR
      <4>1. Len(w'.data) \in Nat /\ Len(w'.data) > 0
        BY <1>0, <1>2, <1>3, <1>5
      <4>2. w'.addr \in Nat /\ call.addr + Len(call.text) \in Nat
        BY <1>2, <1>5, <2>0
      <4>3. w'.addr < call.addr + Len(call.text)
        BY <2>1, <4>1, <4>2
      <4> QED
        BY <2>0, <2>3, <4>2, <4>3, Numbers
    <3>2. w'.pos \in Nat /\ SECTORS \in Nat /\ SECTOR \in Nat
      BY <1>2, <1>5, Numbers
    <3> QED
      BY <3>1, <3>2, LessFactor
  <2>5. w'.addr = SectorStart' + w'.off /\ w'.remain = SMin(Len(w'.data), SECTOR - w'.off)
    <3>1. SectorStart' = w'.addr /\ w'.addr + 0 = w'.addr
      BY <1>2, <1>5, <2>3 DEF SectorStart
    <3> QED
      BY <1>4, <1>5, <3>1, Zenon
  <2> QED
    BY <1>0, <2>0, <2>1, <2>2, <2>4, <2>5 DEF WriteInv, Erasing, Programming
<1>9. ASSUME ~missed' PROVE CleanWrite'
  <2>1. ASSUME NEW a \in Addresses PROVE mem[a] = Before(a)'
    <3>1. ~Left(a)
      BY <1>0, <1>1, PageIs, Numbers DEF Left, Done, Programming
    <3>2. mem[a] = After(a)
      BY <1>0, <1>1, <1>9, <3>1 DEF FlashInv, Clean, CleanWrite, Programming
    <3>3. Before(a)' = After(a)
      BY <1>0, <1>5 DEF Before, After, Goal
    <3> QED
      BY <3>2, <3>3
  <2> QED
    BY <1>0, <2>1 DEF CleanWrite, Erasing, Programming, chip
<1> QED
  BY <1>0, <1>1, <1>6, <1>7, <1>8, <1>9, SoftwareKeeps DEF chip

-----------------------------------------------------------------------------
\* When no call is under way there is nothing to show but the types.
LEMMA IdleKeeps ==
  ASSUME Types', pc' = "idle", call' = Store!Idle, stored' = mem'
  PROVE  FlashInv'
<1>1. call'.op = "none"
  BY DEF Store!Idle
<1>2. CallInv' /\ WriteInv' /\ Confined'
  BY <1>1 DEF CallInv, WriteInv, Confined
<1>3. Clean'
  BY <1>1 DEF Clean, CleanErase, CleanWrite
<1> QED
  BY <1>2, <1>3 DEF FlashInv

LEMMA ReturnKeeps == ASSUME FlashInv, EraseReturn \/ WriteReturn PROVE FlashInv'
<1>1. /\ pc' = "idle" /\ call' = Store!Idle /\ stored' = mem
      /\ UNCHANGED <<chip, driver, missed, count>>
  BY DEF EraseReturn, WriteReturn, Return
<1>2. Types'
  <2>1. pc' \in Places
    BY <1>1 DEF Places
  <2> QED
    BY <1>1, <2>1, Zenon DEF FlashInv, Types, chip, driver, count
<1> QED
  BY <1>1, <1>2, IdleKeeps DEF chip

\* The call of a write: its first sector, and what is left of it.
LEMMA WriteStarts ==
  ASSUME FlashInv, NEW text \in Texts, NEW addr \in Addresses,
         addr + Len(text) <= SECTORS * SECTOR, SPI_Flash_Write(addr, text)
  PROVE  FlashInv'
<1>0. /\ pc = "idle" /\ pc' = "read" /\ missed' = FALSE
      /\ call' = [op |-> "write", addr |-> addr, text |-> text]
      /\ w' = [data |-> text, addr |-> addr, pos |-> addr \div SECTOR, off |-> addr % SECTOR,
               remain |-> FirstSector(addr, Len(text))]
      /\ UNCHANGED <<chip, stored, resets, area, p, SPI_FLASH_BUF>>
  BY DEF SPI_Flash_Write, Called
<1>1. text \in Seq(Byte) /\ Len(text) \in Nat /\ addr \in Nat
  BY FlashAssumption, Numbers DEF Byte
<1>2. PICK q \in Nat, r \in 0..(SECTOR - 1) :
        q = addr \div SECTOR /\ r = addr % SECTOR /\ addr = SECTOR * q + r
  BY <1>1, DivMod, Numbers
<1>3. PICK m \in Nat :
        m = FirstSector(addr, Len(text)) /\ m = SMin(Len(text), SECTOR - r)
        /\ m <= Len(text) /\ m <= SECTOR - r
  <2>1. SECTOR - r \in Nat
    BY <1>2, Numbers
  <2> QED
    BY <1>1, <1>2, <2>1, SMinIs DEF FirstSector
<1>4. w' = [data |-> text, addr |-> addr, pos |-> q, off |-> r, remain |-> m]
  BY <1>0, <1>2, <1>3, Zenon
<1>5. /\ w'.data = text /\ w'.addr = addr /\ w'.pos = q /\ w'.off = r /\ w'.remain = m
      /\ call'.op = "write" /\ call'.addr = addr /\ call'.text = text
  BY <1>0, <1>4
<1>6. Types'
  <2>1. w' \in [data : Seq(Byte), addr : Nat, pos : Nat, off : 0..(SECTOR - 1), remain : Nat]
    BY <1>1, <1>2, <1>3, <1>4
  <2>2. w'.remain <= Len(w'.data) /\ w'.off + w'.remain <= SECTOR
    <3>1. m <= Len(text) /\ r + m <= SECTOR
      <4>1. m \in Nat /\ r \in Nat /\ SECTOR \in Nat /\ m <= SECTOR - r /\ m <= Len(text)
        BY <1>2, <1>3, Numbers
      <4> QED
        BY <4>1
    <3> QED
      BY <1>5, <3>1, Zenon
  <2>3. pc' \in Places /\ missed' \in BOOLEAN
    BY <1>0 DEF Places
  <2> QED
    BY <1>0, <2>1, <2>2, <2>3, Zenon DEF FlashInv, Types, chip
<1>7. CallInv'
  <2>1. call' # Store!Idle
    BY <1>5 DEF Store!Idle
  <2> QED
    BY <1>0, <1>5, <2>1 DEF CallInv
<1>8. stored = mem
  BY <1>0 DEF FlashInv, CallInv
<1>9. WriteInv'
  <2>1. addr = q * SECTOR + r
    <3>1. SECTOR * q = q * SECTOR
      BY SMT, Numbers
    <3> QED
      BY <1>2, <3>1
  <2>2. q < SECTORS
    <3>1. addr < SECTORS * SECTOR /\ q * SECTOR \in Nat /\ q * SECTOR <= addr
      BY <1>2, <2>1, Numbers
    <3>2. q * SECTOR < SECTORS * SECTOR
      BY <1>1, <3>1, Numbers
    <3>3. q \in Nat /\ SECTORS \in Nat /\ SECTOR \in Nat
      BY <1>2, Numbers
    <3> QED
      BY <3>2, <3>3, LessFactor
  <2>3. \A i \in 1..Len(text) : text[i] = text[addr - addr + i]
    BY <1>1
  <2> QED
    BY <1>0, <1>1, <1>3, <1>5, <2>1, <2>2, <2>3 DEF WriteInv, SectorStart, Erasing, Programming
<1>10. Confined'
  BY <1>0, <1>8 DEF Confined, chip
<1>11. Clean'
  <2>1. ASSUME NEW a \in Addresses PROVE Before(a)' = mem[a]
    <3>1. ~(a < addr /\ a >= addr)
      BY <1>1, Numbers
    <3>2. w'.addr = addr /\ call'.addr = addr /\ stored' = mem
      BY <1>0, <1>5, <1>8
    <3> QED
      BY <3>1, <3>2, Zenon DEF Before, Goal
  <2> QED
    BY <1>0, <1>5, <2>1 DEF Clean, CleanErase, CleanWrite, Erasing, Programming, chip
<1> QED
  BY <1>6, <1>7, <1>9, <1>10, <1>11 DEF FlashInv

LEMMA EraseStarts ==
  ASSUME FlashInv, NEW sectors, SPI_Flash_Erase(sectors)
  PROVE  FlashInv'
<1>0. /\ pc = "idle" /\ pc' = "enable_erase" /\ missed' = FALSE /\ area' = sectors
      /\ call' = [op |-> "erase", area |-> sectors]
      /\ UNCHANGED <<chip, stored, resets, w, p, SPI_FLASH_BUF>>
  BY DEF SPI_Flash_Erase, Called
<1>1. call'.op = "erase" /\ call'.area = sectors
  BY <1>0
<1>2. Types'
  <2>1. pc' \in Places /\ missed' \in BOOLEAN
    BY <1>0 DEF Places, Erasing
  <2> QED
    BY <1>0, <2>1, Zenon DEF FlashInv, Types, chip
<1>3. CallInv'
  <2>1. call' # Store!Idle
    BY <1>1 DEF Store!Idle
  <2> QED
    BY <1>0, <1>1, <2>1 DEF CallInv, Erasing
<1>4. stored = mem
  BY <1>0 DEF FlashInv, CallInv
<1>5. WriteInv' /\ Confined'
  BY <1>0, <1>1, <1>4 DEF WriteInv, Confined, chip
<1>6. Clean'
  BY <1>0, <1>1, <1>4 DEF Clean, CleanErase, CleanWrite, chip
<1> QED
  BY <1>2, <1>3, <1>5, <1>6 DEF FlashInv

\* A reset leaves the cells as they are but for the bytes of a program that had
\* been sent, which are in the sectors of the call.
LEMMA ResetIs ==
  ASSUME FlashInv, Reset
  PROVE  /\ mem' \in [Addresses -> Byte]
         /\ call = Store!Idle => mem' = mem
         /\ \A a \in Addresses \ Store!Touched(call) : call # Store!Idle => mem'[a] = mem[a]
         /\ busy' \in {"no", "program", "erase"} /\ wel' \in BOOLEAN
<1>1. PICK sent \in 0..p.remain :
        /\ sent > 0 => pc = "program" /\ busy = "no" /\ wel
        /\ mem' = IF sent = 0 THEN mem ELSE Programmed(p.addr, SubSeq(p.data, 1, sent))
        /\ IF sent > 0 \/ busy = "program"
           THEN busy' = "no" /\ wel' = FALSE
           ELSE UNCHANGED <<busy, wel>>
  BY DEF Reset
<1>2. mem \in [Addresses -> Byte] /\ p.remain \in Nat /\ busy \in {"no", "program", "erase"}
  BY DEF FlashInv, Types
<1>3. busy' \in {"no", "program", "erase"}
  BY <1>1, <1>2, Zenon
<1>4. wel' \in BOOLEAN
  BY <1>1, Zenon DEF FlashInv, Types
<1>5. CASE sent = 0
  BY <1>1, <1>2, <1>3, <1>4, <1>5
<1>6. CASE sent # 0
  <2> DEFINE cells == Programmed(p.addr, SubSeq(p.data, 1, sent))
             range(a) == a >= p.addr /\ a < p.addr + sent
  <2>1. sent > 0 /\ pc = "program" /\ mem' = cells
    BY <1>1, <1>2, <1>6
  <2>2. \A a \in Addresses :
          cells[a] = IF range(a) THEN mem[a] \cap p.data[a - p.addr + 1] ELSE mem[a]
    BY <2>1, PageProgrammed
  <2>3. cells \in [Addresses -> Byte]
    <3>1. cells = [a \in Addresses |-> cells[a]]
      BY DEF Programmed
    <3>2. \A a \in Addresses : cells[a] \in Byte
      BY <1>2, <2>2, Zenon DEF Byte
    <3> HIDE DEF cells
    <3> QED
      BY <3>1, <3>2
  <2> HIDE DEF cells
  <2>4. /\ call # Store!Idle /\ call.op = "write"
        /\ p.addr \in Nat /\ p.remain \in Nat /\ Len(p.data) \in Nat /\ p.remain <= Len(p.data)
        /\ SectorStart \in Nat /\ SectorStart <= p.addr
        /\ p.addr + Len(p.data) <= SectorStart + SECTOR /\ w.remain > 0
    BY <1>2, <2>1, PageIs DEF Programming
  <2>5. ASSUME NEW a \in Addresses, range(a) PROVE a \in Store!Touched(call)
    <3>1. SectorStart <= a /\ a < SectorStart + SECTOR
      BY <2>4, <2>5, Numbers
    <3> QED
      BY <2>4, <3>1, SectorTouched DEF FlashInv
  <2> QED
    BY <1>3, <1>4, <2>1, <2>2, <2>3, <2>4, <2>5, Zenon
<1> QED
  BY <1>5, <1>6

LEMMA ResetKeeps == ASSUME FlashInv, Reset PROVE FlashInv'
<1>0. /\ pc' = "idle" /\ call' = Store!Idle /\ stored' = mem' /\ missed' = FALSE
      /\ w' = NoWrite /\ p' = NoPages /\ SPI_FLASH_BUF' = Zeroes /\ resets' = resets + 1
  BY DEF Reset
<1>1. Types'
  <2>1. /\ w' \in [data : Seq(Byte), addr : Nat, pos : Nat, off : 0..(SECTOR - 1), remain : Nat]
        /\ w'.remain <= Len(w'.data) /\ w'.off + w'.remain <= SECTOR
        /\ p' \in [data : Seq(Byte), addr : Nat, remain : Nat]
        /\ p'.remain = SMin(Len(p'.data), PAGE - (p'.addr % PAGE))
        /\ SPI_FLASH_BUF' \in [1..SECTOR -> Byte]
    BY <1>0, EmptyTypes, Zenon
  <2>2. pc' \in Places /\ resets' \in Nat
    BY <1>0 DEF Places, FlashInv, Types
  <2>3. missed' \in BOOLEAN
    BY <1>0, Zenon
  <2> QED
    BY <1>0, <2>1, <2>2, <2>3, ResetIs, Zenon DEF Types
<1> QED
  BY <1>0, <1>1, IdleKeeps

-----------------------------------------------------------------------------
LEMMA FlashStep == FlashInv /\ [Next]_vars => FlashInv'
<1> SUFFICES ASSUME FlashInv, [Next]_vars PROVE FlashInv'
  OBVIOUS
<1>1. CASE Call
  BY <1>1, WriteStarts, EraseStarts DEF Call
<1>2. CASE Go
  <2>1. CASE EnableErase \/ WaitErase \/ EnableProgram
    BY <2>1, FlagsKeep
  <2>2. CASE Erase
    BY <2>2, EraseKeeps
  <2>3. CASE Rewrite
    BY <2>3, RewriteKeeps
  <2>4. CASE EraseReturn \/ WriteReturn
    BY <2>4, ReturnKeeps
  <2>5. CASE Program
    BY <2>5, ProgramKeeps
  <2>6. CASE NextPage
    BY <2>6, NextPageKeeps
  <2>7. CASE ReadSector
    BY <2>7, ReadSectorKeeps
  <2>8. CASE NextSector
    BY <2>8, NextSectorKeeps
  <2> QED
    BY <1>2, <2>1, <2>2, <2>3, <2>4, <2>5, <2>6, <2>7, <2>8 DEF Go
<1>3. CASE Finish
  BY <1>3, FlagsKeep
<1>4. CASE Reset
  BY <1>4, ResetKeeps
<1>5. CASE UNCHANGED vars
  BY <1>5, FlagsKeep
<1> QED
  BY <1>1, <1>2, <1>3, <1>4, <1>5 DEF Next

\* The inductive invariant: what the cells hold at every step of a call of
\* SPI_Flash_Write, SPI_Flash_Erase_Sector and SPI_Flash_Erase_Chip.
THEOREM FlashInvHolds == Spec => []FlashInv
<1> QED
  BY FlashInit, FlashStep, PTL DEF Spec

\* The variables of the driver have their types, and what is left of a page and of
\* a sector fits in it.
THEOREM FlashTypeOK == Spec => []TypeOK
<1>1. FlashInv => TypeOK
  <2> SUFFICES ASSUME FlashInv PROVE TypeOK
    OBVIOUS
  <2>1. /\ w.remain \in Nat /\ Len(w.data) \in Nat /\ w.off \in Nat
        /\ w.remain <= Len(w.data) /\ w.off + w.remain <= SECTOR
        /\ p.addr \in Nat /\ p.remain \in Nat /\ Len(p.data) \in Nat
    BY Numbers DEF FlashInv, Types
  <2>2. w.remain \in 0..SMin(Len(w.data), SECTOR)
    BY <2>1, Numbers DEF SMin
  <2>3. p.remain \in 0..SMin(Len(p.data), PAGE)
    <3>1. PICK r \in 0..(PAGE - 1) : r = p.addr % PAGE
      BY <2>1, DivMod, Numbers
    <3>2. p.remain = SMin(Len(p.data), PAGE - r)
      BY <3>1 DEF FlashInv, Types
    <3> QED
      BY <2>1, <3>2, Numbers DEF SMin
  <2>4. pc \in {"idle", "read", "enable_erase", "wait_erase", "erase", "erasing",
                "enable_program", "program", "programming"}
    BY DEF FlashInv, Types, Places, Erasing, Programming
  <2> QED
    BY <2>1, <2>2, <2>3, <2>4, Zenon DEF FlashInv, Types, TypeOK, Byte
<1> QED
  BY <1>1, FlashInvHolds, PTL

\* No page program of SPI_Flash_Write_Page runs past the end of its page, where the
\* chip would go on at the beginning.
THEOREM FlashPageFits == Spec => []PageFits
<1>1. FlashInv => PageFits
  BY PageIs DEF PageFits, Programming
<1> QED
  BY <1>1, FlashInvHolds, PTL

\* SPI_Flash_Write programs erased cells only, unless the chip did not take one of
\* the commands of the call.
THEOREM FlashProgramsErased == Spec => []ProgramsErased
<1>1. FlashInv => ProgramsErased
  <2> SUFFICES ASSUME FlashInv, pc = "program", ~missed,
                      NEW a \in p.addr..(p.addr + p.remain - 1)
               PROVE  mem[a] = Erased
    BY DEF ProgramsErased
  <2>1. /\ call.op = "write" /\ p.addr \in Nat /\ p.remain \in Nat /\ Len(p.data) \in Nat
        /\ p.remain <= Len(p.data) /\ SectorStart \in Nat
        /\ p.addr + Len(p.data) <= SectorStart + SECTOR
    BY PageIs DEF Programming
  <2>2. SectorStart + SECTOR <= SECTORS * SECTOR
    BY <2>1, SectorIs DEF FlashInv
  <2>3. a \in Addresses
    <3>1. a \in Nat /\ a < SECTORS * SECTOR
      BY <2>1, <2>2, Numbers
    <3> QED
      BY <3>1, Numbers
  <2>4. Left(a)
    BY <2>1 DEF Left, Done
  <2> QED
    BY <2>1, <2>3, <2>4 DEF FlashInv, Clean, CleanWrite, Programming
<1> QED
  BY <1>1, FlashInvHolds, PTL

-----------------------------------------------------------------------------
\* The steps of the driver as steps of FlashStore: a call begins, ...
LEMMA CallBegins == ASSUME FlashInv, Call PROVE Store!Begin
<1>1. CASE \E text \in Texts, addr \in Addresses :
             addr + Len(text) <= SECTORS * SECTOR /\ SPI_Flash_Write(addr, text)
  <2>1. PICK text \in Texts, addr \in Addresses :
               addr + Len(text) <= SECTORS * SECTOR /\ SPI_Flash_Write(addr, text)
    BY <1>1
  <2>2. /\ pc = "idle" /\ stored' = stored
        /\ call' = [op |-> "write", addr |-> addr, text |-> text]
    BY <2>1 DEF SPI_Flash_Write, Called
  <2>3. call' \in Store!Calls
    BY <2>2 DEF Store!Calls, Addresses
  <2>4. Store!Target(call') \subseteq Store!Addresses
    <3>1. Store!Target(call') = addr..(addr + Len(text) - 1)
      BY <2>2 DEF Store!Target
    <3>2. addr \in Nat /\ Len(text) \in Nat
      BY FlashAssumption, Numbers
    <3> QED
      BY <2>1, <3>1, <3>2, Numbers DEF Store!Addresses
  <2> QED
    BY <2>2, <2>3, <2>4 DEF Store!Begin, FlashInv, CallInv
<1>2. CASE \E sectors \in {{s} : s \in Store!Sectors} \union {Store!Sectors} :
             SPI_Flash_Erase(sectors)
  <2>1. PICK sectors \in {{s} : s \in Store!Sectors} \union {Store!Sectors} :
               SPI_Flash_Erase(sectors)
    BY <1>2
  <2>2. pc = "idle" /\ stored' = stored /\ call' = [op |-> "erase", area |-> sectors]
    BY <2>1 DEF SPI_Flash_Erase, Called
  <2>3. call' \in Store!Calls
    BY <2>2 DEF Store!Calls
  <2>4. Store!Target(call') \subseteq Store!Addresses
    BY <2>2 DEF Store!Target
  <2> QED
    BY <2>2, <2>3, <2>4 DEF Store!Begin, FlashInv, CallInv
<1> QED
  BY <1>1, <1>2 DEF Call

\* ... when it returns it has done all it is for, unless the chip did not take one of
\* its commands, ...
LEMMA ReturnCompletes ==
  ASSUME FlashInv, EraseReturn \/ WriteReturn
  PROVE  (~missed => Store!Complete) /\ (missed => Store!Torn)
<1>1. /\ pc \in {"erasing", "programming"} /\ call # Store!Idle
      /\ stored' = mem /\ call' = Store!Idle /\ mem \in [Addresses -> Byte]
  BY DEF EraseReturn, WriteReturn, Return, FlashInv, CallInv, Types
<1>2. ASSUME missed PROVE Store!Torn
  BY <1>1 DEF FlashInv, Confined, Store!Torn, Addresses, Byte, Store!Byte
<1>3. ASSUME ~missed PROVE Store!Complete
  <2>1. CASE EraseReturn
    <3>1. call.op = "erase" /\ pc = "erasing" /\ area = call.area
      BY <2>1 DEF EraseReturn, FlashInv, CallInv
    <3>2. \A a \in Addresses : mem[a] = IF a \div SECTOR \in call.area THEN Erased ELSE stored[a]
      BY <1>3, <3>1 DEF FlashInv, Clean, CleanErase
    <3>3. \A a \in Addresses : a \in Store!Target(call) <=> a \div SECTOR \in call.area
      BY <3>1 DEF Store!Target, Addresses
    <3>4. ASSUME NEW a \in Addresses PROVE mem[a] = Store!Result(call)[a]
      BY <3>1, <3>2, <3>3 DEF Store!Result, Addresses, Erased
    <3>5. mem = Store!Result(call)
      BY <1>1, <3>4 DEF Store!Result, Addresses
    <3> QED
      BY <1>1, <3>5 DEF Store!Complete
  <2>2. CASE WriteReturn
    <3>1. /\ pc = "programming" /\ Len(p.data) = p.remain /\ Len(w.data) = w.remain
      BY <2>2 DEF WriteReturn
    <3>2. /\ call.op = "write" /\ p.addr \in Nat /\ p.remain \in Nat
      BY <3>1, PageIs DEF Programming
    <3>3. /\ call.addr \in Nat /\ Len(call.text) \in Nat
          /\ w.addr + w.remain = call.addr + Len(call.text)
      BY <3>1, <3>2, Numbers DEF FlashInv, WriteInv
    <3>4. ASSUME NEW a \in Addresses PROVE mem[a] = Store!Result(call)[a]
      <4>1. a \in Nat
        BY Numbers
      <4>2. ~Left(a)
        BY <3>1, <3>2, <4>1 DEF Left, Done
      <4>3. mem[a] = After(a)
        BY <1>3, <3>1, <3>2, <4>2 DEF FlashInv, Clean, CleanWrite, Programming
      <4>4. a \in Store!Target(call) <=> a >= call.addr /\ a < call.addr + Len(call.text)
        <5>1. Store!Target(call) = call.addr..(call.addr + Len(call.text) - 1)
          BY <3>2 DEF Store!Target
        <5> QED
          BY <3>3, <4>1, <5>1
      <4>5. After(a) = IF a \in Store!Target(call) THEN call.text[a - call.addr + 1] ELSE stored[a]
        BY <3>3, <4>4, Zenon DEF After, Goal
      <4> QED
        BY <3>2, <4>3, <4>5 DEF Store!Result, Addresses
    <3>5. mem = Store!Result(call)
      BY <1>1, <3>4 DEF Store!Result, Addresses
    <3> QED
      BY <1>1, <3>5 DEF Store!Complete
  <2> QED
    BY <2>1, <2>2
<1> QED
  BY <1>2, <1>3

\* ... and a reset tears it.
LEMMA ResetTears ==
  ASSUME FlashInv, Reset
  PROVE  (resets' # resets /\ Store!Torn) \/ UNCHANGED <<stored, call>>
<1>1. stored' = mem' /\ call' = Store!Idle /\ resets' # resets
  BY DEF Reset, FlashInv, Types
<1>2. CASE call = Store!Idle
  BY <1>1, <1>2, ResetIs DEF FlashInv, CallInv
<1>3. CASE call # Store!Idle
  <2>1. \A a \in Addresses \ Store!Touched(call) : mem'[a] = stored[a]
    BY <1>3, ResetIs DEF FlashInv, Confined
  <2> QED
    BY <1>1, <1>3, <2>1, ResetIs DEF Store!Torn, Addresses, Byte, Store!Byte
<1> QED
  BY <1>2, <1>3

\* The driver implements FlashStore: each call of SPI_Flash_Write, SPI_Flash_Erase_Sector
\* and SPI_Flash_Erase_Chip takes effect as a whole when it returns, a write at any
\* address and of any length changing its own bytes only; what a reset, or a chip
\* that is still busy, may spoil are the sectors that the call touches.
THEOREM FlashAtomic == Spec => AtomicUnlessReset
<1> DEFINE Step == \/ Store!Begin
                   \/ Store!Complete
                   \/ (resets' # resets \/ missed) /\ Store!Torn
<1>1. Init => Store!StoreInit
  BY DEF Init, Store!StoreInit, Addresses, Erased
<1>2. FlashInv /\ [Next]_vars => [Step]_<<stored, call>>
  <2> SUFFICES ASSUME FlashInv, [Next]_vars PROVE Step \/ UNCHANGED <<stored, call>>
    OBVIOUS
  <2>1. CASE Call
    BY <2>1, CallBegins
  <2>2. CASE EraseReturn \/ WriteReturn
    <3>1. missed \in BOOLEAN
      BY Zenon DEF FlashInv, Types
    <3> QED
      BY <2>2, <3>1, ReturnCompletes, Zenon
  <2>3. CASE Reset
    BY <2>3, ResetTears
  <2>4. CASE EnableErase \/ WaitErase \/ Erase \/ Rewrite \/ EnableProgram \/ Program
    BY <2>4 DEF EnableErase, WaitErase, Erase, Rewrite, EnableProgram, Program
  <2>5. CASE NextPage \/ ReadSector \/ NextSector \/ Finish
    BY <2>5 DEF NextPage, ReadSector, NextSector, Finish
  <2>6. CASE UNCHANGED vars
    BY <2>6 DEF vars
  <2> QED
    BY <2>1, <2>2, <2>3, <2>4, <2>5, <2>6 DEF Next, Go
<1> QED
  BY <1>1, <1>2, FlashInvHolds, PTL DEF Spec, AtomicUnlessReset
=============================================================================
