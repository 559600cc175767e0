---------------------------- MODULE SnakeScreen ----------------------------
(***************************************************************************)
(* SnakeGame with what the server draws: lcd_fill paints the 9 x 9 pixels  *)
(* around a node, which are one cell of the board, so the screen is a      *)
(* colour per cell.  The texts and the frame are outside the cells.  The   *)
(* fills are made in the order of the code, later ones over earlier ones.  *)
(***************************************************************************)
EXTENDS SnakeGame

VARIABLE screen   \* colour of every cell of the board

screenVars == <<vars, screen>>

Colours == {"WHITE", "RED", "BLUE", "GREEN"}

\* The cells a head can survive on and the row below them that new food can be in.
Board ==
  {At(10 * c - 2, 10 * r - 2) : c \in 1..(XMax \div 10), r \in 1..(YMax \div 10)}

\* lcd_fill, for a list of cell/colour pairs in the order of the calls: a cell
\* keeps the colour of the last of its fills.
Paint(scr, fills) ==
  [cell \in Board |->
     LET on == {n \in DOMAIN fills : fills[n][1] = cell}
     IN  IF on = {} THEN scr[cell]
         ELSE fills[CHOOSE n \in on : \A m \in on : m <= n][2]]

\* printsnake on the white screen, then creatfood.
ScreenInit ==
  /\ Init
  /\ screen = Paint([cell \in Board |-> "WHITE"],
                    << <<snake[1], "RED">>, <<snake[2], "BLUE">>,
                       <<snake[3], "GREEN">>, <<food, "RED">> >>)

\* The fills of movesnake: new head, old head, the node about to be freed, and
\* the node in front of it, which becomes the tail.
\* Mutant: the freed node is not erased.
FillsNotErased(newhead) ==
  << <<newhead, "RED">>, <<snake[1], "BLUE">>,
     <<snake[Len(snake) - 1], "GREEN">> >>

MoveFills(newhead) ==
  << <<newhead, "RED">>,
     <<snake[1], "BLUE">>,
     <<snake[Len(snake)], "WHITE">>,
     <<snake[Len(snake) - 1], "GREEN">> >>

\* The fills of a tick; eating ends with creatfood's fill of the new food.
TickFills ==
  (IF MoveAllowed THEN MoveFills(movesnake[1]) ELSE <<>>)
    \o (IF movesnake[1] = food THEN << <<food', "RED">> >> ELSE <<>>)

ScreenTick == Tick /\ screen' = Paint(screen, TickFills)

ScreenNext ==
  \/ ScreenTick
  \/ TickOver /\ UNCHANGED screen
  \/ \E k \in Dirs : ReceiveKey(k) /\ UNCHANGED screen

ScreenSpec == ScreenInit /\ [][ScreenNext]_screenVars

----------------------------------------------------------------------------
WrittenCells == {snake[i] : i \in 1..Written}

\* Every cell of the board has a colour.
ScreenTypeOK == TypeOK /\ screen \in [Board -> Colours]

\* What movesnake and eatfood paint cell by cell adds up to the list: the body is
\* visible and a coloured cell is a written node or the food.  The node a move erases may
\* be an unwritten one that reads as a cell of the board; it can wipe the food or the
\* new head there, but never a node of the body.
ScreenAgrees ==
  /\ \A i \in 2..Written : screen[snake[i]] # "WHITE"
  /\ \A cell \in Board : screen[cell] # "WHITE" => cell \in WrittenCells \cup {food}

\* The comment on the first fill of movesnake says that it prints the new
\* head: while the game goes on, the head's cell is red.
HeadShown == judge => screen[snake[1]] = "RED"

============================================================================
