----------------------------- MODULE SnakeGame -----------------------------
(***************************************************************************)
(* The game of demos/GreedySnake_Net/GreedySnake_Server/User/main.c: the   *)
(* snake's linked list, the food, and the 250 ms timer interrupt that      *)
(* judges, moves and feeds the snake.  The main loop (modelled in SnakeNet *)
(* down to the socket) writes only the global key; the interrupt is the    *)
(* only writer of everything else and runs to completion on the one core,  *)
(* so a tick is one step.                                                  *)
(*                                                                         *)
(* The list is the sequence snake, head first.  A node is [x, y], in       *)
(* pixels as in the code.  What is drawn is left to SnakeScreen.           *)
(***************************************************************************)
EXTENDS SnakeBoard, Sequences

CONSTANTS
  MapCol,    \* map_col: 234 in the source
  MapRow,    \* map_row: 198
  Draws,     \* the bytes RNG_GetRandomNumber can yield (0..255 on the chip)
  MaxScore   \* bound: the model stops feeding the snake at this score

ASSUME MapAssumption ==
  /\ MapCol \in Int /\ MapCol > 4
  /\ MapRow \in Int /\ MapRow > 4
  /\ Draws \in SUBSET (0..255)
  /\ MaxScore \in Nat

VARIABLES
  snake,   \* the list from head to the node whose next is NULL
  food,    \* struct Foods food
  key,     \* last direction word received, 0 before the first
  dir,     \* direction of the last move, 0 before the first
  score,
  over,    \* "GAME OVER" is on the display
  fresh    \* history: the last node's coordinates were never written

vars == <<snake, food, key, dir, score, over, fresh>>

----------------------------------------------------------------------------
\* creatfood: a random byte is reduced to the map and snapped to the centre of
\* a cell; a cell that one of the listed nodes but the last occupies is drawn
\* again.  (On the real board the row of cells below the frame is never covered,
\* so the loop always finds one.)

Snap(v) ==
  IF v % 10 # 0 /\ v < 10 THEN v * 10 + 8 ELSE (v \div 10) * 10 + 8

FoodCells ==
  {At(Snap(r % (MapCol - 4)), Snap(s % (MapRow - 4))) : r \in Draws, s \in Draws}

\* Mutants: the loop excludes nothing, and it stops one node too early.
creatfoodAnywhere(list) == FoodCells

creatfoodShort(list) ==
  {cell \in FoodCells : \A i \in 1..(Len(list) - 2) : list[i] # cell}

creatfood(list) ==
  {cell \in FoodCells : \A i \in 1..(Len(list) - 1) : list[i] # cell}

----------------------------------------------------------------------------
\* creatsnake, then the first food, before the timer is started.

Init ==
  /\ snake = creatsnake
  /\ food \in creatfood(creatsnake)
  /\ key = 0
  /\ dir = 0
  /\ score = 0
  /\ over = FALSE
  /\ fresh = FALSE

----------------------------------------------------------------------------
\* judge: the head is inside the frame and on no other listed node.

\* Mutants: no check of the list, and a frame one cell too small.
judgeFrameOnly == InFrame(snake[1])

judgeTooEarly ==
  /\ InFrame(snake[1]) /\ snake[1].x < XMax - 14
  /\ \A i \in 2..Len(snake) : snake[i] # snake[1]

judge ==
  /\ InFrame(snake[1])
  /\ \A i \in 2..Len(snake) : snake[i] # snake[1]

\* movesnake: a new head in the direction of the key and the last node freed.
\* Nothing happens before the first key and when the key asks for a reversal.

\* Mutant: a reversal is not refused.
MoveAlways == key \in Dirs

MoveAllowed == key \in Dirs /\ dir # Opposite[key]

\* Mutant: the new node is linked behind the head.
ShiftedBehind(list, newhead) ==
  [i \in 1..Len(list) |->
     IF i = 1 THEN list[1] ELSE IF i = 2 THEN newhead ELSE list[i - 1]]

Shifted(list, newhead) ==
  [i \in 1..Len(list) |-> IF i = 1 THEN newhead ELSE list[i - 1]]

movesnake ==
  IF MoveAllowed THEN Shifted(snake, Step(snake[1], key)) ELSE snake

\* malloc and free of newlib-nano, which the program is linked with.  A node is
\* a 20-byte chunk.  A move mallocs its head before it frees the last node t, so t is
\* the only free chunk and the next malloc gets it.  Chunks start by turns on a multiple
\* of 8 and 4 past one; in the latter the link of the free list, NULL here, has
\* overwritten x, in the former t is intact.  (src/1_LED/obj/1_LED.lst lists this
\* library: _free_r at 2485, _malloc_r at 2552.)
Reused(t) == {t, [t EXCEPT !.x = 0]}

\* eatfood, on the list movesnake left: count, put new food, then append a
\* node that nothing initialises.  The head is on the food only after a move, so
\* the node is the one which that move freed.
eatfood(list) ==
  IF list[1] = food
  THEN /\ score < MaxScore
       /\ score' = score + 1
       /\ food' \in creatfood(list)
       /\ \E junk \in Reused(snake[Len(snake)]) : snake' = Append(list, junk)
       /\ fresh' = TRUE
  ELSE /\ snake' = list
       /\ fresh' = (fresh /\ ~MoveAllowed)
       /\ UNCHANGED <<score, food>>

\* TIM7_IRQHandler, the two branches.

Tick ==
  /\ judge
  /\ eatfood(movesnake)
  /\ dir' = IF MoveAllowed THEN key ELSE dir
  /\ UNCHANGED <<key, over>>

TickOver ==
  /\ ~judge
  /\ over' = TRUE
  /\ UNCHANGED <<snake, food, key, dir, score, fresh>>

\* WCHNET_HandleSockInt in the main loop recognises a direction word.

\* Mutant: the key codes of the two programs are off by one.
ReceiveKeyShifted(k) ==
  /\ key' = k + 1
  /\ UNCHANGED <<snake, food, dir, score, over, fresh>>

ReceiveKey(k) ==
  /\ key' = k
  /\ UNCHANGED <<snake, food, dir, score, over, fresh>>

Next ==
  \/ Tick
  \/ TickOver
  \/ \E k \in Dirs : ReceiveKey(k)

Spec == Init /\ [][Next]_vars

----------------------------------------------------------------------------
\* The nodes whose coordinates are known: all but a fresh last one.
Written == IF fresh THEN Len(snake) - 1 ELSE Len(snake)

\* Types of the variables; the list never gets shorter than creatsnake left it.
TypeOK ==
  /\ snake \in Seq(Node)
  /\ food \in Node
  /\ key \in 0..right
  /\ dir \in 0..right
  /\ score \in 0..MaxScore
  /\ over \in BOOLEAN
  /\ fresh \in BOOLEAN

\* A malloc per meal and a malloc/free pair per move: the list has one node
\* more than the starting three for every point of the score, whatever the
\* order of moves, stalls and meals.
LengthFollowsScore == Len(snake) = 3 + score

\* The written nodes form a chain: each is one cell from the next, so a move
\* that frees the unwritten node instead of the tail leaves no gap.
Neighbours(a, b) == \E d \in Dirs : a = Step(b, d)

Contiguous ==
  \A i \in 1..(Written - 1) : Neighbours(snake[i], snake[i + 1])

\* Behind the head no two nodes share a cell, not even with what the unwritten
\* one reads as: the list can bite itself only with its head, the game stops before
\* the bitten body moves, and erasing a reused node wipes no node that stays.
BodyDistinct ==
  \A i, j \in 2..Len(snake) : i # j => snake[i] # snake[j]

\* Every node behind the head is in a cell where a head survived.
BodyInFrame == \A i \in 2..Written : InFrame(snake[i])

\* dir is the direction from the second node to the head, once it has moved.
HeadingIsDir == dir # 0 => snake[1] = Step(snake[2], dir)

\* Two keys received between two ticks cannot turn the snake on the spot: once
\* it has moved, no tick puts the head on the node behind it.
NeverReverses ==
  [][dir # 0 /\ snake'[1] # snake[1] => snake'[1] # snake[2]]_vars

\* judge also reads the node that eatfood left unwritten.  Its contents can end a
\* game in which the player broke no rule, but only at a meal that lay on the last
\* node of the list (the tail, or an unwritten one that reads as the cell the
\* tail had left): every other loss is a head outside the frame or on a written node.
BrokeRule ==
  \/ ~InFrame(snake[1])
  \/ \E i \in 2..Written : snake[i] = snake[1]

LossExplained ==
  [][judge /\ ~judge' => BrokeRule' \/ food = snake[Len(snake)]]_vars

\* creatfood compares the food with every node but the last, once.  That lasts: until
\* it is eaten the food lies under no written node but the last, whatever moves
\* and stalls come between.
FoodOnlyUnderTail == \A i \in 1..(Written - 1) : snake[i] # food

\* The comment on the loop of creatfood says that it excludes the snake: the
\* cell of new food is free of every written node but a head that ate it.
FoodOffSnake == \A i \in 2..Written : snake[i] # food

\* The comment at the drawing of the frame says that the red block moves
\* inside it: food is where a head survives the tick after it ate.
FoodInFrame == InFrame(food)

\* The list without its unwritten node is the body of an IdealSnake.
Ideal == INSTANCE IdealSnake WITH
  body    <- SubSeq(snake, 1, Written),
  growing <- fresh,
  heading <- dir,
  meal    <- food,
  points  <- score

\* The linked list implements the snake a player expects: it grows by the move
\* after a meal although eatfood appends a node without coordinates, and it
\* never moves a snake that broke a rule.
ImplementsIdeal == Ideal!IdealSpec

============================================================================
