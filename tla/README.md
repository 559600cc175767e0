# Verification of the CH32V307 beginner repository

TLA+ models of the programs in this repository that keep state across
interrupts, main loops, threads and boards, the TLC configurations that check
them, and proofs that TLAPS checks.

## 1. The system

The repository is a set of firmware programs for one board: a CH32V307, a single
RISC-V core with DMA, timers, USARTs, SPI, I2C, I2S and an Ethernet MAC. No
program contains the others; each numbered chapter and each directory under
`demos/` is built and flashed on its own. What they share is the shape: a `main`
that sets up peripherals and then loops for ever, interrupt handlers that pre-empt
it at any instruction and run to completion, hardware that changes memory and
registers meanwhile (DMA controllers, a flash chip, sensors, a second board), and,
in the RT-Thread programs, threads with priorities, mailboxes and a mutex. There
is no test suite; what the programs promise is in their comments.

### Inventory

| component | state | operations | who else touches it |
|---|---|---|---|
| snake server `GreedySnake_Server/User/main.c` | linked list, food, `key`, `dir`, `score`, display | `creatsnake`, `printsnake`, `creatfood`, `movesnake`, `eatfood`, `judge`, `TIM7_IRQHandler` | the main loop stores `key` between any two ticks |
| snake client and link `GreedySnake_Client/User/main.c` | debounce variables, `linkstatus`, socket and its flags | the timer interrupt, `WCHNET_HandleSockInt` on both boards, `WCHNET_CreatTcpSocket` | TCP, the closed WCHNET library, the server |
| circular receiver (`UART_DMA`, `Wifi_ESP8266`, `BLE_Serial`) | ring, DMA position, reading position | `uartRead`, `uartReadByte`, `uartAvailable` | the receive DMA writes at any time |
| UART echo `USART/UART_DMA` | `c`, `buffer`, `num`, transmit DMA | `main`, `uartWriteBlocking` | the transmit DMA reads `main`'s variables |
| radio modules `Wifi_ESP8266`, `BLE_Serial` | position in a script, transmit DMA, ring | `main`, `uartWrite*`, `uartRead*` | both DMAs, the module |
| SPI flash `SPI_Flash` | the chip's memory, busy and enable bits, `SPI_FLASH_BUF` | read, write of a page, of pages, of sectors, erase of a sector and of the chip, wait | the chip programs and erases by itself; the processor's reset does not stop it |
| voice recognition `CH32V307_RTT_VC_RC_by_es8388` | `V_Data`, `rcg_result`, two mailboxes, a mutex, templates in flash | three threads, two DMA interrupts | all of them share one core by priority |
| lottery `RTT_RNG_Lottery` | the same, `status`, the random number generator | the same with two words, and the thread `rng` | `rng` polls the generator and never waits |
| RT-Thread's `ipc.c`, `scheduler.c` | owner, waiting list and priorities | mutex take and release, mailbox send and receive | every thread |
| I2C master `3_IIC`, `IIC_Sensor` | the peripheral's requests, flags, ACK bit, data registers | reading and writing functions, `AP3216C_Init`, the loops of both `main`s | sensors that may be absent, late, or refuse a byte |
| TCP client `TcpClient` | `MyBuf`, `connectStatus`, LED, display | `WCHNET_HandleSockInt`, `WCHNET_CreatTcpSocket` | the server and the closed library |
| camera, record and play, LED, button, key test, factory test, LVGL | see section 7 | | |

Interactions: the client's word becomes the server's `key` (composed through the
shared `SnakeKeys`: `SnakeNet` ends where `SnakeGame` begins); the game's list is
what the display shows (`SnakeScreen` extends `SnakeGame`); the echo and the radio
programs are the ring with a `main` and a transmitter (`SerialPrograms` extends
`DmaRing`); the voice threads and the lottery run on the kernel's mutex
(`VoiceThreads` extends `RtMutex`); the two I2C programs call the same functions
over one bus (`I2cMaster`).

What is hard in them, each at its line in the "hazards" of `PROJECT.json`: the
order of painting, keys between two ticks, memory that nobody wrote, a connection
that cuts, joins and loses words, a DMA that writes while the program reads, a
buffer that a DMA still reads while the program fills it, a reset in the middle of
a read-erase-write, a busy chip that ignores a command, threads that hand one
buffer, one result and one mutex to each other, a call that gives up and leaves the
bus to the next, and a buffer that keeps what older messages left.

What makes each correct: the snake is a chain of distinct cells that dies by the rules,
or else for one reason that can be named, and the display shows it; a word is heard in
order and once; the ring is
a FIFO until it is lapped; what was handed to the transmitter is what is on the
line; a flash call is atomic unless the processor was reset; a recording belongs
to the thread that works on it, and every round's verdict is its own; a byte read
from a sensor is from this call and this sensor; a line is obeyed for what it says
and echoed in order.

## 2. Modules

| module | models | state and actions |
|---|---|---|
| `SnakeKeys` | the key codes | constants |
| `SnakeBoard` | cells, directions, the frame, `creatsnake` | constants with `FrameAssumption` |
| `SnakeGame` | the server's game | `snake` is the list from the head; `fresh` marks a last node that `eatfood` appended and `movesnake` has not yet overwritten; `Tick`/`TickOver` are the timer interrupt, `ReceiveKey` the main loop |
| `SnakeScreen` | `SnakeGame` with the colour of every cell | the interrupt's `lcd_fill` calls in their order |
| `IdealSnake` | the abstract game: a body that grows one move after the meal | refined by `SnakeGame` (`ImplementsIdeal`) |
| `SnakeNet` | client, TCP, server's handler | `ClientTick` is the interrupt; flags are raised, taken as one snapshot and handled in the code's order; a word travels in two fragments, and the comparison sees what the echo took of them |
| `DmaRing` | the circular buffer and its readers | `Receive` is the DMA; `uartRead` is entered, copies a byte per step and leaves; `overrun` and `received` are history |
| `ByteFifo` | the abstract bounded FIFO | refined by `DmaRing` until the first overrun (`FifoUntilOverrun`) |
| `SerialPrograms` | the echo, Wi-Fi and BLE programs over `DmaRing` | each `main` is a script of statements, one action per kind of statement; taking the count and reading are separate steps; `Fetch` is the transmit DMA |
| `FlashStore` | what a user of the flash may rely on: `Begin`, `Complete`, `Torn` | refined by `SpiFlash` (`AtomicUnlessReset`) |
| `SpiFlash` | the driver and the chip | `Go` is the driver's next command, `Finish` the end of the chip's own work, `Reset` the processor's |
| `RtMutex` | mutex of `ipc.c`: take, suspension by priority, lending of priority, hand-over | operators on a record |
| `VoiceThreads` | `vrcg`, `display`, `practice`, and in the lottery `rng`; both DMA interrupts, timers, the generator | one action per kernel call or access to shared state, made only by a ready thread of the highest priority |
| `I2cMaster` | the I2C functions, `AP3216C_Init` and the loops of both programs, the peripheral, two sensors | a function is a script of register accesses and waits, each kind of wait with what it does when nothing comes; `Bus` is the peripheral, `Appear` a sensor that comes up |
| `TcpClient` | the socket handler, its buffer, the LED commands, the reconnection | flags as in `SnakeNet`; `Recv` is the whole branch from reading to showing |
| `MCSpiFlash` | definitions for two runs | |
| `*_proofs` | theorems and their lemmas; `SnakeGame_proofs` has those of `SnakeScreen` as well | |

Definitions whose comment begins with "Mutant" are plausible errors in the
definition after them; they are used by no specification and exist to show that a
property depends on the code (section 4).

## 3. Choices of abstraction

*Snake.* Coordinates are the code's pixels. `eatfood` never writes the coordinates of
the node it appends, and `judge` and `movesnake` read them: they are what `malloc`
left. The program is linked with newlib-nano (`.cproject`), whose `_malloc_r` and
`_free_r` `1_LED/obj/1_LED.lst` lists. A move mallocs the new head before it frees
the last node, so that node is the only free chunk and a meal in the same tick gets
it back. Chunks of 20 bytes begin by turns on a multiple of 8 and 4 past one; in the
latter the free list's null link has overwritten `x`, in the former the old cell is
intact. Which it is depends on an address, so `Reused` offers both at every meal.

*Link.* A connection delivers a prefix of what was accepted, in any grouping. The
server's library takes any part of an echo, or nothing, and its count replaces `len`
before the words are compared (main.c:291-304); a part that ends inside a fragment is
compared like one that ends with it, because the words begin with different letters and
no rest of a word begins like one. The
library raises RECV only with bytes to read. The client's `cnt` matters by its
parity, and wraps at an even number. The server's `linkstatus` is never read. The
source ports, addresses and the ARP layer are left out.

*Serial.* The sender is free to send at any moment, to lap the reader, or to stop.
A delay ends only when the transmitter is idle: half a second after one byte
(87 us), 100 ms or more after at most five commands of some 10 ms each. A command
is two bytes, its position in the script and which half it is, which is enough to
see it lost, doubled, cut or out of order. The Wi-Fi program ends, the BLE
program is followed for `MaxRounds`.

*Flash.* A command, from chip select low to high, is one step. The chip takes a
command's effect at its end and is then busy; a busy chip ignores commands other
than the status read, and reads of data yield all ones or all zeros. The chip keeps
its power when the processor is reset: an erase that had begun goes on, a page
program that was being sent programs a prefix. A page program (3 ms) is over before
the restarted `main` makes its first call, an erase (up to 400 ms) need not be.
Addresses stay inside the chip.

*Voice and lottery.* One core. A step belongs to a ready thread of the highest
current priority, two of equal priority taking turns in any order (`rng` and
`display`, by the tick); interrupts and timers take theirs at any time, with one
exception: a recording lasts two seconds (`FS_LEN_T`), and by its end every thread
that was ready has run until it waits, but for `rng`, which never does, and what
it starves. The only longer computation is `practice`'s `Hal_Delay_Ms`, which is
outside any recording. What a recording sounds like is chosen when it ends, from
four kinds that the code's branches tell apart. The mails all carry the same
pointer, so a mailbox is its count. The initial contents of `match_dis` are either
of the two values the code distinguishes. A number that is ready when the generator
is switched off may stay in it. Drawing on the LCD, the name drawn and the nesting
count of the mutex are left out.

*I2C.* Between two waits the program is faster than the line; a limited wait of
65535 polls outlasts any single step of the bus; the start condition (SB) comes;
after a byte that was not acknowledged nothing more is shifted out. `IIC_ReadLen`
acknowledges one byte too many, and the drawing that follows it in the demo
outlasts that byte. Lengths are those `main` uses: 1 for writing, 2 for reading. A
sensor that was not told a register answers with anything (`Samples`). The `IIC_Init`
at the start of each try of the demo's `AP3216C_Init` is left out: whether it ends a
transfer that an earlier call left is the peripheral's affair, and the model keeps what
was left. The demo's six reads of data registers are one. The QMI8658
driver, a copy of the same functions, is left out.

*TCP client.* The LED commands are words of two and three letters that begin alike;
CR and LF are one byte, "end". No byte is a `%`, which the display would take for a
format. A message is shorter than `MyBuf` and than the 100 characters
`lcd_show_string` formats. The library may take any part of an echo, and its count
replaces the received length, as in the code. The byte before `MyBuf`, which a
message of one byte makes the program read, may be a line end or not. `mStopIfError`
only prints. Source ports are left out.

## 4. Runs

Every property of a passing run has a mutant in `PROJECT.json`: a plausible bug in
one definition under which TLC finds the property violated with the same
configuration.

| run | instance | what it shows |
|---|---|---|
| `snake` (`MCSnakeScreen.cfg`) | 4x4 cells, score up to 4; 360,303 states | list, verdict and painting under every order of keys and ticks and both contents of a reused node: `ScreenTypeOK`, `FoodOnlyUnderTail`, `Contiguous`, `BodyDistinct`, `ScreenAgrees`, `LossExplained`, `NeverReverses`, `ImplementsIdeal` |
| `food_hidden` (violation) | as above | food can be put on the tail's cell (main.c:413-421) |
| `food_frame` (violation) | the real board | food can be put in a row that kills (main.c:410) |
| `head_erased` (violation) | as `snake` | a head that enters the cell the tail leaves is erased (main.c:474) |
| `snake_net` | three keys, 2 words, 2 lost connections, echoes refused or cut; 370,600 states | `HeardInOrder`, `LinkAgrees`, `Debounced`, `ReopensAfterTimeout`, `KeyArrives` |
| `serial` | 3 slots, 5 bytes, three programs, 2 rounds of BLE; 143,257 states | `RingTypeOK`, `AvailableModulo`, `SentAsHanded`, `LineIsScript` also with overruns; `ReadsWholeCount`, `FifoUntilOverrun`, `EchoesAll` until one; `Finishes` |
| `spi_flash` | 3 sectors of 2 pages of 2 bytes, 2 calls, 1 reset; 192,599 states | `TypeOK`, `PageFits`, `ProgramsErased`, `AtomicUnlessReset`, `Returns` for texts that stay in a page, fill one, cross pages and cross three sectors |
| `erase_missed` (violation) | 2 sectors, 3 calls | after a reset an erase can be ignored by a chip still erasing (main.c:255) |
| `voice_threads` | 2 words of 2 templates, 5 retries, both programs; 373,662 states | `TypeOK`, `BufferOwned`, `PriorityLent`, `StopsSoon`, `ResultKept`, `VerdictIsOwn`, `PracticeReturns`, `RecognitionGoesOn` |
| `i2c` | both programs, any of the sensors there or not, 2 refused bytes; 11,897 states | `BytesAreOwn`, `CallsReturn`, `InitReports` |
| `i2c_hang` (violation) | the chapter | `IIC2_WriteByte` waits for an absent sensor for ever (3_IIC/User/IIC.c:137) |
| `tcp_client` | a buffer of 5, texts up to 4, 1 lost connection; 547,097 states | `EchoInOrder`, `LineTaken`, `Reconnects` |

Why the bounds are enough. A 4x4 board is the smallest in which a snake of three
turns around, follows its tail and bites itself, and a score of 4 has a meal in
every phase of the appended node (eaten again at once, after a move, after a
stall). Two words and two losses give a word cut by a loss, a joined pair, a late
echo on a new connection and a second failure after the first. Five bytes lap a
ring of three, wrap both positions, and arrive before, during and after a read; two
rounds of BLE go round its loop. Sectors of two pages have a first and a last page,
and a text of nine bytes touches three sectors with a whole one in the middle. Two
words of two templates tell a slot from its word; the number of retries is the
source's. Two refusals hit two different bytes of one call, or a call and the one
that finds what it left. Texts of four hold each LED word with its line end, the
longer with one, the shorter with two, and an older word behind a shorter message.
Every bound is a CONSTANT, named where it is declared: `MaxScore`, `Draws`,
`MaxWords`, `MaxDrops`, `MaxBytes`, `MaxRounds`, `MaxCalls`, `MaxResets`,
`MaxRefusals`, `MaxText`; `LATE` in `VoiceThreads` stops the count of names.

`CHECK_DEADLOCK FALSE` stands where the system may stop: a sender that has sent
its `MaxBytes` leaves the echo program waiting and the Wi-Fi program ends; a flash
user stops after `MaxCalls`; an I2C program waits for a sensor that is not there;
the TCP server has sent its `MaxText` bytes.

The findings. `food_hidden`, `food_frame` and `head_erased` can each be seen in
an ordinary game. `erase_missed` needs a reset during an erase and a first
call that erases another sector; the demo's own `main` is safe because it erases only
sector 0, which the interrupted erase then completes. `i2c_hang` needs only a
board without its sensor: the chapter never prints "AP3216C init fail".

More observations that are no findings, because no line of the repository says
otherwise in so many words.

The unwritten node can end a game in which no rule was broken. Take a snake of four in
a square of two by two cells whose food is the cell of its tail (or the cell it has just
left): the head moves there and eats, the node freed is the one `malloc` returns, and if
its chunk kept the old cell `judge` finds the head on the "tail" at the next tick.
`LossExplained` says that this, a meal on the last node, is the only way, and without its
second disjunct TLC shows that way within seven states. The same node can also wipe the
food or a head from the display when it is erased (main.c:474); `ScreenAgrees` says that
it wipes nothing else.

An echo of which the library takes nothing makes any word an "up": `len` is then 0, and
`strncmp` over 0 characters succeeds with the first word (main.c:291-292).
`HeardInOrder` says that the key is wrong in this way only, and `KeyArrives` assumes
that it does not happen.

A ring that is exactly full counts as empty (UART_DMA main.c:195,
202), which 1024 bytes within the half second bring about; `AvailableModulo` says
"modulo the size" for that reason. A sensor that refuses the number of the register
answers from anywhere, and `AP3216C_Init` may then take it for enabled
(`InitTruthful` excuses this). And a training that has not taken the mutex when
the lottery is started never gets it, because `rng` does not let the shell's
priority run (`PracticeReturns` excuses this).

## 5. Fairness

* `SnakeGame`, `SnakeScreen`: none, only safety is claimed. The timer never stops,
  but the game promises nothing that must happen.
* `SnakeNet`: both main loops run (`Handlers`, `ServerRecv`), TCP delivers what it
  accepted while the connection lives (`Deliver`), a listening server answers
  (`ConnectOK`). No fairness for keys, for losses or for what is taken of an echo.
* `SerialPrograms`: `main` runs and the transmit DMA fetches. None for the sender:
  `EchoesAll` holds for one that stops at any byte, and `Finishes` states the
  module's answer as its hypothesis, so it says nothing of an answer that the draining
  before a command has consumed.
* `SpiFlash`: the driver runs and the chip ends what it began. None for resets.
* `VoiceThreads`: a thread that stays the highest ready one runs, a timer that was
  started ends, a transfer that was started ends. None for the user who asks for a
  training, and none for `rng` and its generator: nothing that is claimed needs them
  to go on, and `display` gets its turn beside `rng` by the tick.
* `I2cMaster`: the program runs and the peripheral goes on. None for sensors that
  come up.
* `TcpClient`: the main loop runs, a server answers in the end. None for what it
  sends.

## 6. Proofs

TLAPS proves, from the named assumptions of the modules (`FrameAssumption`,
`MapAssumption`, `NetAssumption`, `RingAssumption`, `ProgramsAssumption`,
`FlashAssumption`, `VoiceAssumption`, `TemplateAssumption`, `I2cAssumption`,
`BufferAssumption`), which the sizes in the source satisfy, every safety property of
the passing runs, invariants and action properties alike, and the three
refinements. The bounds of the runs are constants without an upper limit in the
theorems.

`SnakeGame_proofs`
: `IInv` adds to the claimed properties the length of the list, that the body is inside
  the frame and that `dir` is the direction of the last move. `FoodOnlyUnderTail`, by which
  the food is never under the head, is why there is at most
  one unwritten node: `eatfood` can append again only after a move, and a move
  writes the node or frees it. The direction is why no key turns the head onto its
  neck. `SnakeInvariant` proves it; `SnakeLength`, `SnakeIsChain`, `SnakeBodyDistinct`,
  `SnakeFoodOnlyUnderTail`, `SnakeNeverReverses`, `SnakeLossExplained` and
  `SnakeImplementsIdeal` follow, all without an assumption on the heap other than
  `Reused`. The refinement maps the body to the written nodes
  and "growing" to `fresh`. `SnakeBodyDistinct` is what a move and `judge` do
  together: a move puts the old head behind the head, and is made only when `judge`
  has passed, that is when the head has met no other node; a reused node reads as the
  one that was freed, which no other node equalled, or has `x` = 0, outside the frame in
  which the others are. `ScreenPlaysGame` carries all of this to the
  display, for which `ScreenInv` says that every node is in the middle of a cell
  (so that a fill covers one cell of the board and no other): `ScreenTypes` and
  `ScreenShowsList` go through the five fills of a tick in their order, the erasing of an
  unwritten node among them.

`SnakeNet_proofs`
: `NetHeardInOrder`: the fragments in flight, receive buffer and wire read as one
  sequence, are in the order of sending and later than everything heard; every way
  to cut, join or lose them keeps that, whatever is taken of the echo. `NetLinkAgrees`: the library waits while a
  snapshot is handled, so flags are pending in one of the two sets only, and
  `Outcome` says what `linkstatus` will be when they are handled in the code's order;
  that is always what the socket is. `NetDebounced`: in an
  interrupt that compares, `scankeyprev` is what the one before has read.

`DmaRing_proofs`, `SerialPrograms_proofs`
: `RingTypes`; `RingAvailableModulo`, for which the DMA and the end of a read are
  ahead of the reader by the number of unread bytes modulo the size, overruns or
  not; `RingFifoUntilOverrun`: until the sender is RXBUF_SIZE bytes ahead the slots
  between the positions hold exactly the bytes not yet read, also while `uartRead`
  is in its loop, hence the ring implements `ByteFifo`. `ProgramsImplementRing`: a
  step of the three programs is one of the ring, so `ProgramsKeepRing` has the
  ring's results for them. `ProgramInv` adds, for the transmitter (`TxInv`), that
  what is handed over but not on the line is what the memory still holds, hence
  `ProgramsSendAsHanded`: while `c` or `buffer` is being fetched the script is in
  statements that do not fill it. For the count (`CountInv`): what was counted has arrived, as
  long as nothing was overrun, and a read only gains bytes, hence
  `ProgramsReadWholeCount`. For the script (`LineInv`): the last command handed over
  is the last one before the position in the script, hence `ProgramsFollowScript`;
  for the inverted loops this needs that the transmitter is idle when one is
  reached.

`SpiFlash_proofs`
: `FlashInv` says which call is under way and what is left of it (`CallInv`,
  `WriteInv`), that only the sectors of the call differ from what was stored
  (`Confined`), and, as long as the chip took every command, what every cell holds
  at every step (`Clean`): old bytes, erased ones, or those of the text, by the
  position of the driver. `FlashInvHolds` proves it for pages, sectors and texts of
  any size; `FlashTypeOK`, `FlashPageFits`, `FlashProgramsErased` follow, and
  `FlashAtomic`, the refinement of `FlashStore`: returning is `Complete`, a reset
  or a missed command is `Torn`, everything else is `Begin` or a stutter.

`VoiceThreads_proofs`
: `OwnerInv`: the owner of the mutex is the recorder between its take and its
  release, and what DMA, buffer and mailbox hold follows from where the owner is;
  hence `VoiceBufferOwned`. `KeptInv`: by the end of a recording the display has
  done its work and gets no more before the next verdict; hence `VoiceResultKept`.
  `MatchInv`: after one verdict `match_dis` is never the error again; hence
  `VoiceVerdictIsOwn`. `StopInv`: names shown since Stop, the name in hand and the
  number in the generator are at most two; hence `VoiceStopsSoon`. `PrioInv`: only
  the owner's priority is not its own, it is that of the thread that waits, and the
  mutex keeps the owner's; hence `VoicePriorityLent`. `TypeInv` adds that a training
  under way has a slot to fill and failures left, and that a verdict is the word of a
  slot; hence `VoiceTypeOK`.

`I2cMaster_proofs`
: A proof outline in the manner of Hoare: for each function, what is known of the
  peripheral before each of its steps (`Phase`, given a meaning by `Means`),
  beginning with what any earlier call that gave up may have left. Each kind of
  step leads from one phase to the next, and the peripheral and the sensors keep
  each (`I2cOutlineHolds`). `I2cBytesAreOwn` follows. `I2cInitTruthful`, the safety
  half of `InitReports`, needs `ValueInv`: a 3 that is being returned was in the
  enable register, and nothing is under way that would change it.

`TcpClient_proofs`
: `TcpInv` keeps the places in the text of the bytes sent back: an increasing
  sequence, all of it among what has been read, so that `TcpEchoInOrder` holds
  after partial echoes too. `TcpLineTaken` needs no history of `MyBuf`: neither LED
  word contains a line end, so no word can reach from the line into the stale bytes
  behind it, and the NUL that replaces the line end stops the display before them.

Only model-checked:

* liveness: `KeyArrives`, `ReopensAfterTimeout`, `EchoesAll`, `Finishes`, `Returns`,
  `PracticeReturns`, `RecognitionGoesOn`, `CallsReturn`, `Reconnects` and the
  second half of `InitReports`. Their proofs need ENABLED and the fairness of
  actions, which these provers do not handle;
* the violations, which are single behaviours.

No module that is proved about declares a RECURSIVE operator. Induction over data
is avoided by stating lemmas about one append, one shift or one concatenation, and
`Paint` and `EchoInOrder` by the last fill of a cell and by the places of the bytes.

## 7. Not modelled, and the plan

| part | why |
|---|---|
| camera | which of the two line buffers the interface has filled is decided by hardware that the repository does not describe, and the comments name the buffer the code does not read |
| record and play | one loop that waits for each transfer before the next; no second actor shares its state |
| drawing of the voice program and the lottery | nothing in the repository says that the display is protected: `vrcg` may draw in the middle of what the display thread draws, which a model would only repeat |
| messages of the TCP client without a line end | shown and obeyed with what an older message left behind them; `LineTaken` is about lines |
| QMI8658, QMC7983 registers and conversions | the same functions over the same bus |
| `SPI_Flash_PowerDown`, `WAKEUP`, `Write_SR`, `Write_Disable`, the chapter's `IIC2_WriteLen`, `IIC2_ReadLen` | called by nobody |
| signal processing of the voice program, WCHNET | libraries without source |
| LED, button, key test, polled UART, factory test, LVGL | no state shared by two steps, or a menu of the programs above |
| peripheral library, kernel beyond `RtMutex`, LVGL, fonts | vendored |

What is left to do: lemmas that make the liveness arguments explicit as far as
they can be stated without fairness (that the measure a loop decreases does
decrease: the script's position, the bytes left of a flash call, the failures of a
training), and the link's and the game's composition as one theorem about the key.
