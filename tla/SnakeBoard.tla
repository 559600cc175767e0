----------------------------- MODULE SnakeBoard -----------------------------
(***************************************************************************)
(* The plane the snake lives on: nodes in pixels, one step in a direction, *)
(* and the frame inside which a head survives.                             *)
(***************************************************************************)
EXTENDS SnakeKeys

CONSTANTS
  XMax,   \* x_max: 236 in the source
  YMax    \* y_max: 200

ASSUME FrameAssumption ==
  /\ XMax \in Int /\ XMax > 22      \* the starting snake is inside the frame
  /\ YMax \in Int /\ YMax > 42

Node == [x : Int, y : Int]
At(px, py) == [x |-> px, y |-> py]

Opposite == <<down, up, right, left>>
Delta    == <<At(0, -10), At(0, 10), At(-10, 0), At(10, 0)>>

Step(node, d) == At(node.x + Delta[d].x, node.y + Delta[d].y)

InFrame(node) ==
  /\ node.x > 3
  /\ node.y > 3
  /\ node.x < XMax - 4
  /\ node.y < YMax - 4

\* The nodes creatsnake links, head first.
creatsnake == <<At(18, 18), At(18, 28), At(18, 38)>>

============================================================================
