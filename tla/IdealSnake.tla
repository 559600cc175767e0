----------------------------- MODULE IdealSnake -----------------------------
(***************************************************************************)
(* What the game promises, without the linked list: a body that advances   *)
(* by one cell, keeps its tail for the one move after a meal, and dies by  *)
(* leaving the frame or biting itself.  SnakeGame implements it although   *)
(* it grows by a node with no coordinates.                                 *)
(***************************************************************************)
EXTENDS SnakeBoard, Sequences

VARIABLES
  body,      \* the cells of the snake, head first
  growing,   \* the last advance ate: the next one keeps the tail
  heading,   \* direction of the last advance, 0 before the first
  meal,      \* the cell of the food
  points

idealVars == <<body, growing, heading, meal, points>>

Alive ==
  /\ InFrame(body[1])
  /\ \A i \in 2..Len(body) : body[i] # body[1]

IdealInit ==
  /\ body = creatsnake
  /\ growing = FALSE
  /\ heading = 0
  /\ meal \in Node \ {body[1]}
  /\ points = 0

Advanced(newhead) ==
  [i \in 1..(IF growing THEN Len(body) + 1 ELSE Len(body)) |->
     IF i = 1 THEN newhead ELSE body[i - 1]]

Eat(cell) ==
  /\ cell = meal
  /\ growing' = TRUE
  /\ points' = points + 1
  /\ meal' \in Node \ {cell}

Pass(cell) ==
  /\ cell # meal
  /\ growing' = FALSE
  /\ UNCHANGED <<points, meal>>

Advance(d) ==
  /\ Alive
  /\ heading # Opposite[d]
  /\ heading' = d
  /\ body' = Advanced(Step(body[1], d))
  /\ Eat(Step(body[1], d)) \/ Pass(Step(body[1], d))

IdealSpec == IdealInit /\ [][\E d \in Dirs : Advance(d)]_idealVars

============================================================================
