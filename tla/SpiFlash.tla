------------------------------ MODULE SpiFlash ------------------------------
(***************************************************************************)
(* The driver of demos/SPI_Flash for a 25Qxx flash chip: writes of any     *)
(* length at any address, by way of page programs (which can only clear    *)
(* bits, and wrap inside their page) and sector erases.  The chip works on *)
(* by itself after a command and ignores others while it does; it keeps    *)
(* its power, and goes on, when the processor is reset.                    *)
(*                                                                         *)
(* A command, from chip select low to high, is one step of both.           *)
(***************************************************************************)
EXTENDS Integers, Sequences, SequencesExt

CONSTANTS
  PAGE,      \* bytes in a page: 256
  SECTOR,    \* bytes in a sector: 4096
  SECTORS,   \* sectors of the chip
  Bits,      \* a byte is the set of its bits that are one
  Texts,     \* what is written
  MaxCalls,  \* bound: calls of the driver
  MaxResets  \* bound: resets of the processor

ASSUME FlashAssumption ==
  /\ PAGE \in Nat \ {0} /\ SECTOR \in Nat \ {0} /\ SECTORS \in Nat \ {0}
  /\ SECTOR % PAGE = 0
  /\ Texts \subseteq Seq(SUBSET Bits)
  /\ MaxCalls \in Nat /\ MaxResets \in Nat

VARIABLES
  mem, wel, busy,    \* the chip: its cells, the WEL bit, what it is doing
  pc,
  area,              \* the sectors that the erase in progress is for
  w,                 \* the variables of SPI_Flash_Write; data is pBuffer[0..size-1]
  p,                 \* the variables of SPI_Flash_Write_NoCheck
  SPI_FLASH_BUF,
  call,              \* history: the call under way
  stored,            \* history: mem when it began
  missed,            \* history: the chip was too busy for one of its commands
  calls, resets

chip   == <<mem, wel, busy>>
driver == <<area, w, p, SPI_FLASH_BUF>>
count  == <<calls, resets>>
vars   == <<chip, pc, driver, call, stored, missed, count>>

Store == INSTANCE FlashStore WITH store <- stored

Addresses == Store!Addresses
Erased    == Store!Erased
SMin(a, b) == IF a <= b THEN a ELSE b

NoWrite == [data |-> <<>>, addr |-> 0, pos |-> 0, off |-> 0, remain |-> 0]
NoPages == [data |-> <<>>, addr |-> 0, remain |-> 0]
Zeroes  == [i \in 1..SECTOR |-> {}]

Init ==
  /\ mem = [a \in Addresses |-> Erased]
  /\ wel = FALSE /\ busy = "no"
  /\ pc = "idle"
  /\ area = {} /\ w = NoWrite /\ p = NoPages /\ SPI_FLASH_BUF = Zeroes
  /\ call = Store!Idle /\ stored = mem /\ missed = FALSE
  /\ calls = 0 /\ resets = 0

----------------------------------------------------------------------------
\* The chip.

\* It is through with an erase or a program.
Finish ==
  /\ busy # "no"
  /\ busy' = "no" /\ wel' = FALSE
  /\ UNCHANGED <<mem, pc, driver, call, stored, missed, count>>

\* SPI_FLASH_Write_Enable
WriteEnable ==
  /\ wel' = (wel \/ busy = "no")
  /\ missed' = (missed \/ busy # "no")
  /\ UNCHANGED <<mem, busy>>

\* Programming clears bits, and an address past the end of the page continues
\* at its beginning.
Programmed(first, bytes) ==
  [a \in Addresses |->
     LET i == (a - first) % PAGE
     IN  IF a \div PAGE = first \div PAGE /\ i < Len(bytes)
         THEN mem[a] \cap bytes[i + 1] ELSE mem[a]]

\* A command that changes cells needs the WEL bit and a chip that is free.
Change(cells, doing) ==
  /\ IF busy = "no" /\ wel
     THEN mem' = cells /\ busy' = doing
     ELSE UNCHANGED <<mem, busy>>
  /\ missed' = (missed \/ busy # "no")
  /\ UNCHANGED wel

\* SPI_Flash_Wait_Busy polls the BUSY bit of the status register.

\* Mutant: it polls the WEL bit.
ReadyByWel == ~wel

Ready == busy = "no"

----------------------------------------------------------------------------
\* SPI_Flash_Erase_Sector and SPI_Flash_Erase_Chip.

EnableErase ==
  /\ pc = "enable_erase"
  /\ WriteEnable
  /\ pc' = "wait_erase"
  /\ UNCHANGED <<driver, call, stored, count>>

WaitErase ==
  /\ pc = "wait_erase" /\ Ready
  /\ pc' = "erase"
  /\ UNCHANGED <<chip, driver, call, stored, missed, count>>

Erase ==
  /\ pc = "erase"
  /\ Change([a \in Addresses |-> IF a \div SECTOR \in area THEN Erased ELSE mem[a]], "erase")
  /\ pc' = "erasing"
  /\ UNCHANGED <<driver, call, stored, count>>

----------------------------------------------------------------------------
\* SPI_Flash_Write_NoCheck: page after page.

\* Mutant: the first piece may run past the end of its page.
WholePage(addr, size) == SMin(size, PAGE)

FirstPage(addr, size) == SMin(size, PAGE - (addr % PAGE))

WriteNoCheck(data, addr) ==
  /\ p' = [data |-> data, addr |-> addr, remain |-> FirstPage(addr, Len(data))]
  /\ pc' = "enable_program"

EnableProgram ==
  /\ pc = "enable_program"
  /\ WriteEnable
  /\ pc' = "program"
  /\ UNCHANGED <<driver, call, stored, count>>

\* A page program without a byte is no command.
Program ==
  /\ pc = "program"
  /\ IF p.remain > 0
     THEN Change(Programmed(p.addr, SubSeq(p.data, 1, p.remain)), "program")
     ELSE UNCHANGED <<chip, missed>>
  /\ pc' = "programming"
  /\ UNCHANGED <<driver, call, stored, count>>

NextPage ==
  /\ pc = "programming" /\ Ready
  /\ Len(p.data) # p.remain
  /\ LET rest == SubSeq(p.data, p.remain + 1, Len(p.data))
     IN  p' = [data |-> rest, addr |-> p.addr + p.remain, remain |-> SMin(Len(rest), PAGE)]
  /\ pc' = "enable_program"
  /\ UNCHANGED <<chip, area, w, SPI_FLASH_BUF, call, stored, missed, count>>

\* The call is over.
Return ==
  /\ pc' = "idle"
  /\ stored' = mem
  /\ call' = Store!Idle
  /\ UNCHANGED <<chip, driver, missed, count>>

----------------------------------------------------------------------------
\* SPI_Flash_Write: sector after sector.

\* Mutant: the first piece may run past the end of its sector.
WholeSector(addr, size) == SMin(size, SECTOR)

FirstSector(addr, size) == SMin(size, SECTOR - (addr % SECTOR))

\* What a read of a sector yields; a busy chip does not drive the line.
SectorReads(s) ==
  IF busy = "no" THEN {[i \in 1..SECTOR |-> mem[s * SECTOR + i - 1]]}
  ELSE {[i \in 1..SECTOR |-> level] : level \in {Erased, {}}}

\* Mutant: only the first byte is looked at.
FirstByteDirty(buf) == w.remain > 0 /\ buf[w.off + 1] # Erased

Dirty(buf) == \E i \in 1..w.remain : buf[w.off + i] # Erased

ReadSector ==
  /\ pc = "read"
  /\ \E buf \in SectorReads(w.pos) :
       /\ SPI_FLASH_BUF' = buf
       /\ IF Dirty(buf)
          THEN /\ pc' = "enable_erase"
               /\ area' = {w.pos}
               /\ UNCHANGED p
          ELSE /\ WriteNoCheck(SubSeq(w.data, 1, w.remain), w.addr)
               /\ UNCHANGED area
  /\ missed' = (missed \/ busy # "no")
  /\ UNCHANGED <<chip, w, call, stored, count>>

\* Mutant: the bytes are put at the beginning of the sector.
MergedAtStart ==
  [i \in 1..SECTOR |-> IF i <= w.remain THEN w.data[i] ELSE SPI_FLASH_BUF[i]]

Merged ==
  [i \in 1..SECTOR |->
     IF i - w.off \in 1..w.remain THEN w.data[i - w.off] ELSE SPI_FLASH_BUF[i]]

\* The erase returns, to the caller or to SPI_Flash_Write, which puts the
\* bytes into the copy of the sector and writes it back.
Rewrite ==
  /\ pc = "erasing" /\ Ready
  /\ call.op = "write"
  /\ SPI_FLASH_BUF' = Merged
  /\ WriteNoCheck(Merged, w.pos * SECTOR)
  /\ UNCHANGED <<chip, area, w, call, stored, missed, count>>

EraseReturn == pc = "erasing" /\ Ready /\ call.op = "erase" /\ Return

NextSector ==
  /\ pc = "programming" /\ Ready
  /\ Len(p.data) = p.remain
  /\ Len(w.data) # w.remain
  /\ LET rest == SubSeq(w.data, w.remain + 1, Len(w.data))
     IN  w' = [data |-> rest, addr |-> w.addr + w.remain, pos |-> w.pos + 1, off |-> 0,
               remain |-> SMin(Len(rest), SECTOR)]
  /\ pc' = "read"
  /\ UNCHANGED <<chip, area, p, SPI_FLASH_BUF, call, stored, missed, count>>

WriteReturn ==
  /\ pc = "programming" /\ Ready
  /\ Len(p.data) = p.remain
  /\ Len(w.data) = w.remain
  /\ Return

----------------------------------------------------------------------------
\* The calls of a user of the driver, one at a time.
Called(c) ==
  /\ pc = "idle" /\ calls < MaxCalls
  /\ calls' = calls + 1
  /\ call' = c
  /\ missed' = FALSE
  /\ UNCHANGED <<chip, stored, resets>>

SPI_Flash_Write(addr, text) ==
  /\ Called([op |-> "write", addr |-> addr, text |-> text])
  /\ w' = [data |-> text, addr |-> addr, pos |-> addr \div SECTOR, off |-> addr % SECTOR,
           remain |-> FirstSector(addr, Len(text))]
  /\ pc' = "read"
  /\ UNCHANGED <<area, p, SPI_FLASH_BUF>>

SPI_Flash_Erase(sectors) ==
  /\ Called([op |-> "erase", area |-> sectors])
  /\ area' = sectors
  /\ pc' = "enable_erase"
  /\ UNCHANGED <<w, p, SPI_FLASH_BUF>>

\* The processor is reset.  A page program that is cut short programs the bytes
\* that were sent; a program is over before main calls the driver again (at
\* most 3 ms, and the messages before the first call take 6), an erase may
\* not be (up to 400 ms).
Reset ==
  /\ resets < MaxResets
  /\ resets' = resets + 1
  /\ \E sent \in 0..p.remain :
       /\ sent > 0 => pc = "program" /\ busy = "no" /\ wel
       /\ mem' = IF sent = 0 THEN mem ELSE Programmed(p.addr, SubSeq(p.data, 1, sent))
       /\ IF sent > 0 \/ busy = "program"
          THEN busy' = "no" /\ wel' = FALSE
          ELSE UNCHANGED <<busy, wel>>
  /\ pc' = "idle"
  /\ area' = {} /\ w' = NoWrite /\ p' = NoPages /\ SPI_FLASH_BUF' = Zeroes
  /\ call' = Store!Idle /\ stored' = mem' /\ missed' = FALSE
  /\ UNCHANGED calls

Call ==
  \/ \E text \in Texts, addr \in Addresses :
       addr + Len(text) <= SECTORS * SECTOR /\ SPI_Flash_Write(addr, text)
  \/ \E sectors \in {{s} : s \in Store!Sectors} \union {Store!Sectors} :
       SPI_Flash_Erase(sectors)

Go ==
  \/ EnableErase \/ WaitErase \/ Erase \/ Rewrite \/ EraseReturn
  \/ EnableProgram \/ Program \/ NextPage
  \/ ReadSector \/ NextSector \/ WriteReturn

Next == Call \/ Go \/ Finish \/ Reset

\* The processor goes on, and the chip gets through with what it does; nobody
\* has to call the driver or to reset it.
Spec == Init /\ [][Next]_vars /\ WF_vars(Go) /\ WF_vars(Finish)

----------------------------------------------------------------------------
\* Types of the variables.
TypeOK ==
  /\ mem \in [Addresses -> SUBSET Bits] /\ stored \in [Addresses -> SUBSET Bits]
  /\ wel \in BOOLEAN /\ busy \in {"no", "program", "erase"}
  /\ pc \in {"idle", "read", "enable_erase", "wait_erase", "erase", "erasing",
             "enable_program", "program", "programming"}
  /\ w.remain \in 0..SMin(Len(w.data), SECTOR) /\ w.off + w.remain <= SECTOR
  /\ p.remain \in 0..SMin(Len(p.data), PAGE)
  /\ SPI_FLASH_BUF \in [1..SECTOR -> SUBSET Bits]
  /\ missed \in BOOLEAN

\* No page program runs past the end of its page, where the chip would wrap and
\* clear bits at the beginning of the page.
PageFits == pc = "program" => (p.addr % PAGE) + p.remain <= PAGE

\* The comment on SPI_Flash_Write_NoCheck asks for an erased range: each page
\* that SPI_Flash_Write programs is erased at that moment, so that no bit that
\* should be one has been cleared before.
ProgramsErased ==
  pc = "program" /\ ~missed =>
    \A a \in p.addr..(p.addr + p.remain - 1) : mem[a] = Erased

\* A write of any length at any address changes the bytes it is for and no
\* other, in the rest of the sectors that are erased on the way too; when the
\* processor is reset in the middle, or the chip was still busy with something
\* from before a reset, other sectors than the touched ones keep their contents.
AtomicUnlessReset ==
  /\ Store!StoreInit
  /\ [][\/ Store!Begin
        \/ Store!Complete
        \/ (resets' # resets \/ missed) /\ Store!Torn]_<<stored, call>>

\* Every call returns, whatever the chip is doing when it is made.
Returns == pc # "idle" ~> pc = "idle"

\* The description of SPI_Flash_Erase_Sector: it erases one sector.
ErasesSector ==
  [][EraseReturn => \A a \in Addresses : a \div SECTOR \in area => mem[a] = Erased]_vars

=============================================================================
