----------------------------- MODULE SnakeKeys -----------------------------
(***************************************************************************)
(* The key codes that both programs of demos/GreedySnake_Net define alike; *)
(* 0 is no key.                                                            *)
(***************************************************************************)
EXTENDS Integers

up    == 1
down  == 2
left  == 3
right == 4
sel   == 5
sw1   == 6
sw2   == 7

\* The keys that steer: only these are sent and only these are recognised.
Dirs == up..right

============================================================================
