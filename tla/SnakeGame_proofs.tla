-------------------------- MODULE SnakeGame_proofs --------------------------
(***************************************************************************)
(* The invariants of SnakeGame for every board, every outcome of the       *)
(* random generator, both contents of a reused node and every score; and,  *)
(* in the second half, the painting of SnakeScreen: what the fills of the  *)
(* ticks leave on the display is the list.                                 *)
(***************************************************************************)
EXTENDS SnakeScreen, SequenceTheorems, TLAPS

\* That food is never under the head is part of FoodOnlyUnderTail.  So a tick that
\* does not move does not eat, and no second unwritten node is appended behind a first.
IInv ==
  /\ TypeOK
  /\ LengthFollowsScore
  /\ FoodOnlyUnderTail
  /\ Contiguous
  /\ BodyDistinct
  /\ BodyInFrame
  /\ HeadingIsDir

----------------------------------------------------------------------------
\* Moving keeps the length, puts the new head first and shifts the rest.
LEMMA ShiftedList ==
  ASSUME NEW list \in Seq(Node), Len(list) >= 1, NEW h \in Node
  PROVE  /\ Shifted(list, h) \in Seq(Node)
         /\ Len(Shifted(list, h)) = Len(list)
         /\ Shifted(list, h)[1] = h
         /\ \A i \in 2..Len(list) : Shifted(list, h)[i] = list[i - 1]
<1> DEFINE n == Len(list)
           s == [i \in 1..n |-> IF i = 1 THEN h ELSE list[i - 1]]
<1>1. n \in Nat /\ n >= 1
  BY LenProperties
<1>2. \A i \in 1..n : list[i] \in Node
  BY ElementOfSeq
<1>3. \A i \in 1..n : s[i] \in Node
  BY <1>1, <1>2
<1>4. s \in Seq(Node)
  BY <1>1, <1>3, SeqDef
<1>5. Len(s) = n
  <2>1. DOMAIN s = 1..Len(s) /\ Len(s) \in Nat
    BY <1>4, LenProperties
  <2>2. DOMAIN s = 1..n
    OBVIOUS
  <2> QED
    BY <1>1, <2>1, <2>2
<1>6. s[1] = h /\ \A i \in 2..n : s[i] = list[i - 1]
  BY <1>1
<1> QED
  BY <1>4, <1>5, <1>6 DEF Shifted

\* A step from a node is a node, one cell away from it.
LEMMA StepNode ==
  ASSUME NEW node \in Node, NEW d \in Dirs
  PROVE  Step(node, d) \in Node /\ Step(node, d) # node
BY DEF Step, Delta, At, Node, Dirs, up, down, left, right

\* Food is put on a cell, whatever the generator yields.
LEMMA FoodCellsAreNodes == FoodCells \subseteq Node
<1>1. ASSUME NEW r \in Draws, NEW s \in Draws
      PROVE  At(Snap(r % (MapCol - 4)), Snap(s % (MapRow - 4))) \in Node
  <2>1. r \in Int /\ s \in Int /\ MapCol - 4 > 0 /\ MapRow - 4 > 0
        /\ MapCol \in Int /\ MapRow \in Int
    BY MapAssumption
  <2>2. r % (MapCol - 4) \in Int /\ s % (MapRow - 4) \in Int
    BY <2>1
  <2>3. \A v \in Int : Snap(v) \in Int
    BY DEF Snap
  <2> QED
    BY <2>2, <2>3 DEF At, Node
<1> QED
  BY <1>1 DEF FoodCells

\* A reused node is a node, and when it does not read as the freed one its x is 0,
\* which is outside every frame.
LEMMA ReusedNode ==
  ASSUME NEW t \in Node, NEW junk \in Reused(t)
  PROVE  junk \in Node /\ (junk = t \/ (junk.x = 0 /\ ~InFrame(junk)))
BY DEF Reused, Node, InFrame

----------------------------------------------------------------------------
LEMMA InitInv == Init => IInv
<1> SUFFICES ASSUME Init PROVE IInv
  OBVIOUS
<1> USE DEF Init, creatsnake, At
<1>1. snake \in Seq(Node) /\ Len(snake) = 3
  BY DEF Node
<1>4. food \in Node /\ snake[1] # food /\ snake[2] # food
  BY <1>1, FoodCellsAreNodes DEF creatfood
<1>5. TypeOK
  <2>1. score \in 0..MaxScore /\ key \in 0..right /\ dir \in 0..right
    BY MapAssumption DEF right
  <2> QED
    BY <1>1, <1>4, <2>1, Zenon DEF TypeOK
<1>6. Written = 3
  BY <1>1 DEF Written
<1>7. snake[1] = At(18, 18) /\ snake[2] = At(18, 28) /\ snake[3] = At(18, 38)
  OBVIOUS
<1>8. Neighbours(snake[1], snake[2]) /\ Neighbours(snake[2], snake[3])
  <2>1. up \in Dirs
    BY DEF Dirs, up, right
  <2>2. snake[1] = Step(snake[2], up) /\ snake[2] = Step(snake[3], up)
    BY <1>7 DEF Step, Delta, up
  <2> QED
    BY <2>1, <2>2 DEF Neighbours
<1>9. Contiguous
  BY <1>6, <1>8 DEF Contiguous
<1>10. BodyDistinct
  BY <1>1, <1>7 DEF BodyDistinct
<1>11. BodyInFrame
  BY <1>6, <1>7, FrameAssumption DEF BodyInFrame, InFrame
<1>12. FoodOnlyUnderTail
  BY <1>4, <1>6 DEF FoodOnlyUnderTail
<1> QED
  BY <1>1, <1>5, <1>9, <1>10, <1>11, <1>12
     DEF IInv, LengthFollowsScore, HeadingIsDir

----------------------------------------------------------------------------
\* What movesnake does to the list when judge let it run: a move leaves as
\* many written nodes as the list has, for an unwritten one is what it frees.
WrittenAfterMove == IF MoveAllowed THEN Len(snake) ELSE Written
DirAfterMove     == IF MoveAllowed THEN key ELSE dir

LEMMA MoveShape ==
  ASSUME IInv, judge, NEW list, list = movesnake
  PROVE  /\ list \in Seq(Node)
         /\ Len(list) = Len(snake)
         /\ \A i \in 1..(WrittenAfterMove - 1) : Neighbours(list[i], list[i + 1])
         /\ \A i, j \in 2..Len(snake) : i # j => list[i] # list[j]
         /\ \A i \in 2..WrittenAfterMove : InFrame(list[i])
         /\ DirAfterMove # 0 => list[1] = Step(list[2], DirAfterMove)
         /\ MoveAllowed => \A i \in 2..Len(snake) : list[i] = snake[i - 1]
         /\ ~MoveAllowed => list = snake
<1> USE DEF IInv
<1>1. snake \in Seq(Node) /\ Len(snake) \in Nat /\ Len(snake) >= 3
  BY LenProperties, MapAssumption DEF TypeOK, LengthFollowsScore
<1>2. CASE ~MoveAllowed
  BY <1>1, <1>2 DEF movesnake, WrittenAfterMove, DirAfterMove, Contiguous,
     BodyDistinct, BodyInFrame, HeadingIsDir
<1>3. CASE MoveAllowed
  <2> DEFINE h == Step(snake[1], key)
             n == Len(snake)
  <2>1. key \in Dirs /\ WrittenAfterMove = n /\ DirAfterMove = key
    BY <1>3 DEF MoveAllowed, WrittenAfterMove, DirAfterMove
  <2>2. snake[1] \in Node
    BY <1>1, ElementOfSeq
  <2>3. h \in Node
    BY <2>1, <2>2, StepNode
  <2>4. list = Shifted(snake, h)
    BY <1>3 DEF movesnake
  <2>5. /\ list \in Seq(Node)
        /\ Len(list) = n
        /\ list[1] = h
        /\ \A i \in 2..n : list[i] = snake[i - 1]
    <3>1. /\ Shifted(snake, h) \in Seq(Node)
          /\ Len(Shifted(snake, h)) = Len(snake)
          /\ Shifted(snake, h)[1] = h
          /\ \A i \in 2..Len(snake) : Shifted(snake, h)[i] = snake[i - 1]
      <4>1. snake \in Seq(Node) /\ Len(snake) >= 1
        BY <1>1
      <4> HIDE DEF h
      <4> QED
        BY <2>3, <4>1, ShiftedList, Zenon
    <3> QED
      BY <2>4, <3>1
  <2>6. Written \in {n - 1, n}
    BY <1>1 DEF Written
  <2>7. Neighbours(list[1], list[2])
    BY <1>1, <2>1, <2>5 DEF Neighbours
  <2>8. \A i \in 1..(n - 1) : Neighbours(list[i], list[i + 1])
    <3> SUFFICES ASSUME NEW i \in 1..(n - 1), i # 1
                 PROVE  Neighbours(list[i], list[i + 1])
      BY <2>7
    <3>1. list[i] = snake[i - 1] /\ list[i + 1] = snake[i]
      BY <1>1, <2>5
    <3>2. i - 1 \in 1..(Written - 1)
      BY <1>1, <2>6
    <3>3. Neighbours(snake[i - 1], snake[(i - 1) + 1])
      BY <3>2 DEF Contiguous
    <3> QED
      BY <3>1, <3>3
  <2>9. \A i, j \in 1..(n - 1) : i # j => snake[i] # snake[j]
    <3>1. \A i \in 2..n : snake[i] # snake[1]
      BY DEF judge
    <3>2. \A i, j \in 2..(n - 1) : i # j => snake[i] # snake[j]
      BY <1>1 DEF BodyDistinct
    <3> QED
      BY <1>1, <3>1, <3>2
  <2>10. \A i, j \in 2..n : i # j => list[i] # list[j]
    <3> SUFFICES ASSUME NEW i \in 2..n, NEW j \in 2..n, i # j
                 PROVE  list[i] # list[j]
      OBVIOUS
    <3>1. i - 1 \in 1..(n - 1) /\ j - 1 \in 1..(n - 1) /\ i - 1 # j - 1
      BY <1>1
    <3> QED
      BY <2>5, <2>9, <3>1
  <2>11. \A i \in 1..(n - 1) : InFrame(snake[i])
    BY <1>1, <2>6 DEF judge, BodyInFrame
  <2>12. \A i \in 2..n : InFrame(list[i])
    BY <1>1, <2>5, <2>11
  <2>13. list[1] = Step(list[2], key)
    BY <1>1, <2>5
  <2> QED
    BY <1>3, <2>1, <2>5, <2>8, <2>10, <2>12, <2>13
<1> QED
  BY <1>2, <1>3

----------------------------------------------------------------------------
\* A tick that eats has moved: only then is the head on the food.
LEMMA HeadOffFood == IInv => snake[1] # food
<1> SUFFICES ASSUME IInv PROVE snake[1] # food
  OBVIOUS
<1>1. Len(snake) \in Nat /\ Len(snake) >= 3
  BY LenProperties, MapAssumption DEF IInv, TypeOK, LengthFollowsScore
<1>2. 1 \in 1..(Written - 1)
  BY <1>1 DEF Written
<1> QED
  BY <1>2 DEF IInv, FoodOnlyUnderTail

LEMMA EatsOnlyAfterMove ==
  ASSUME IInv, judge, movesnake[1] = food
  PROVE  MoveAllowed
BY HeadOffFood DEF movesnake

LEMMA TickKeepsInv ==
  ASSUME IInv, Tick
  PROVE  IInv'
<1> DEFINE list == movesnake
           n == Len(list)
<1>1. judge /\ eatfood(list) /\ dir' = DirAfterMove /\ key' = key /\ over' = over
  BY DEF Tick, DirAfterMove
<1>2. TypeOK /\ Len(snake) = 3 + score /\ score \in Nat
  BY MapAssumption DEF IInv, TypeOK, LengthFollowsScore
<1>3. /\ list \in Seq(Node)
      /\ n = Len(snake)
      /\ \A i \in 1..(WrittenAfterMove - 1) : Neighbours(list[i], list[i + 1])
      /\ \A i, j \in 2..n : i # j => list[i] # list[j]
      /\ \A i \in 2..WrittenAfterMove : InFrame(list[i])
      /\ DirAfterMove # 0 => list[1] = Step(list[2], DirAfterMove)
      /\ MoveAllowed => \A i \in 2..n : list[i] = snake[i - 1]
      /\ ~MoveAllowed => list = snake
  <2> HIDE DEF list
  <2>1. list = movesnake
    BY DEF list
  <2> QED
    BY <1>1, <2>1, MoveShape
<1> HIDE DEF list
<1>4. WrittenAfterMove \in Nat /\ WrittenAfterMove >= 2 /\ WrittenAfterMove <= n
  <2>1. fresh => Len(snake) >= 4 \/ Len(snake) = 3
    BY <1>2
  <2> QED
    BY <1>2, <1>3 DEF WrittenAfterMove, Written
<1>5. DirAfterMove \in 0..right
  BY <1>2 DEF DirAfterMove, MoveAllowed, TypeOK, Dirs, up, right
<1>6. CASE list[1] = food
  <2>1. /\ score < MaxScore
        /\ score' = score + 1
        /\ food' \in creatfood(list)
        /\ fresh' = TRUE
    BY <1>1, <1>6 DEF eatfood
  <2>2. PICK junk \in Reused(snake[n]) : snake' = Append(list, junk)
    BY <1>1, <1>3, <1>6 DEF eatfood
  <2>3. snake[n] \in Node /\ junk \in Node /\ (junk = snake[n] \/ ~InFrame(junk))
    <3>1. snake \in Seq(Node) /\ n \in 1..Len(snake)
      BY <1>2, <1>3 DEF TypeOK
    <3>2. snake[n] \in Node
      BY <3>1, ElementOfSeq
    <3> QED
      BY <3>2, ReusedNode
  <2>4. /\ snake' \in Seq(Node)
        /\ Len(snake') = n + 1
        /\ \A i \in 1..n : snake'[i] = list[i]
    BY <1>3, <2>2, <2>3, AppendProperties
  <2>5. MoveAllowed
    <3>1. list = movesnake
      BY DEF list
    <3> QED
      BY <1>1, <1>6, <3>1, EatsOnlyAfterMove
  <2>6. WrittenAfterMove = n
    BY <1>3, <2>5 DEF WrittenAfterMove
  <2>7. Written' = n
    BY <1>2, <1>3, <2>1, <2>4 DEF Written
  <2>8. TypeOK'
    <3>1. food' \in Node
      BY <2>1, FoodCellsAreNodes DEF creatfood
    <3>2. score' \in 0..MaxScore
      BY <1>2, <2>1, MapAssumption
    <3>3. dir' \in 0..right /\ key' \in 0..right /\ over' \in BOOLEAN
      BY <1>1, <1>2, <1>5, Zenon DEF TypeOK
    <3> QED
      BY <2>1, <2>4, <3>1, <3>2, <3>3, Zenon DEF TypeOK
  <2>9. LengthFollowsScore'
    BY <1>2, <1>3, <2>1, <2>4 DEF LengthFollowsScore
  <2>10. FoodOnlyUnderTail'
    BY <1>2, <1>3, <2>1, <2>4, <2>7 DEF FoodOnlyUnderTail, creatfood
  <2>11. Contiguous'
    <3> SUFFICES ASSUME NEW i \in 1..(n - 1) PROVE Neighbours(snake'[i], snake'[i + 1])
      BY <2>7 DEF Contiguous, Neighbours
    <3>1. i \in 1..n /\ i + 1 \in 1..n
      BY <1>2, <1>3
    <3>2. Neighbours(list[i], list[i + 1])
      BY <1>3, <2>6
    <3> QED
      BY <2>4, <3>1, <3>2
  <2>12. BodyDistinct'
    <3>1. \A i \in 2..n : list[i] # junk
      <4> SUFFICES ASSUME NEW i \in 2..n PROVE list[i] # junk
        OBVIOUS
      <4>1. InFrame(list[i]) /\ list[i] = snake[i - 1]
        BY <1>3, <2>5, <2>6
      <4>2. CASE i = 2
        <5>1. list[i] = snake[1] /\ n \in 2..Len(snake)
          BY <1>2, <1>3, <4>1, <4>2
        <5>2. list[i] # snake[n]
          BY <1>1, <5>1 DEF judge
        <5> QED
          BY <2>3, <4>1, <5>2
      <4>3. CASE i # 2
        <5>1. i - 1 \in 2..Len(snake) /\ n \in 2..Len(snake) /\ i - 1 # n
          BY <1>2, <1>3, <4>3
        <5>2. list[i] # snake[n]
          BY <4>1, <5>1 DEF IInv, BodyDistinct
        <5> QED
          BY <2>3, <4>1, <5>2
      <4> QED
        BY <4>2, <4>3
    <3>2. snake'[n + 1] = junk
      BY <1>3, <2>2, <2>3, AppendProperties
    <3>3. ASSUME NEW i \in 2..Len(snake'), NEW j \in 2..Len(snake'), i # j
          PROVE  snake'[i] # snake'[j]
      <4>1. n \in Nat /\ (i \in 2..n \/ i = n + 1) /\ (j \in 2..n \/ j = n + 1)
        BY <1>2, <1>3, <2>4
      <4>2. \A k \in 2..n : snake'[k] = list[k]
        BY <2>4
      <4>3. CASE i \in 2..n /\ j \in 2..n
        BY <1>3, <3>3, <4>2, <4>3
      <4>4. CASE i = n + 1 /\ j \in 2..n
        BY <3>1, <3>2, <4>2, <4>4
      <4>5. CASE i \in 2..n /\ j = n + 1
        BY <3>1, <3>2, <4>2, <4>5
      <4> QED
        BY <3>3, <4>1, <4>3, <4>4, <4>5
    <3> QED
      BY <3>3 DEF BodyDistinct
  <2>13. BodyInFrame'
    BY <1>2, <1>3, <2>4, <2>6, <2>7 DEF BodyInFrame, InFrame
  <2>14. HeadingIsDir'
    BY <1>1, <1>2, <1>3, <2>4 DEF HeadingIsDir
  <2> QED
    BY <2>8, <2>9, <2>10, <2>11, <2>12, <2>13, <2>14 DEF IInv
<1>7. CASE list[1] # food
  <2>1. /\ snake' = list
        /\ fresh' = (fresh /\ ~MoveAllowed)
        /\ score' = score
        /\ food' = food
    BY <1>1, <1>7 DEF eatfood
  <2>2. Written' = WrittenAfterMove
    BY <1>3, <2>1 DEF Written, WrittenAfterMove
  <2>3. TypeOK'
    <3>1. dir' \in 0..right
      BY <1>1, <1>5
    <3>2. fresh' \in BOOLEAN
      BY <1>2, <2>1, Zenon DEF TypeOK
    <3> QED
      BY <1>1, <1>2, <1>3, <2>1, <3>1, <3>2, Zenon DEF TypeOK
  <2>4. LengthFollowsScore'
    BY <1>2, <1>3, <2>1 DEF LengthFollowsScore
  <2>5. Contiguous' /\ BodyDistinct' /\ BodyInFrame'
    BY <1>3, <2>1, <2>2 DEF Contiguous, Neighbours, BodyDistinct, BodyInFrame, InFrame
  <2>7. FoodOnlyUnderTail'
    <3>1. \A i \in 1..(Written - 1) : snake[i] # food
      BY DEF IInv, FoodOnlyUnderTail
    <3>2. CASE MoveAllowed
      <4> SUFFICES ASSUME NEW i \in 1..(WrittenAfterMove - 1) PROVE list[i] # food
        BY <2>1, <2>2 DEF FoodOnlyUnderTail
      <4>1. CASE i = 1
        BY <1>7, <4>1
      <4>2. CASE i # 1
        <5>1. i \in 2..n /\ i - 1 \in 1..(Written - 1)
          BY <1>2, <1>3, <3>2, <4>2 DEF WrittenAfterMove, Written
        <5> QED
          BY <1>3, <3>1, <3>2, <5>1
      <4> QED
        BY <4>1, <4>2
    <3>3. CASE ~MoveAllowed
      BY <1>3, <2>1, <2>2, <3>1, <3>3 DEF FoodOnlyUnderTail, WrittenAfterMove
    <3> QED
      BY <3>2, <3>3
  <2>6. HeadingIsDir'
    BY <1>1, <1>3, <2>1 DEF HeadingIsDir
  <2> QED
    BY <2>3, <2>4, <2>5, <2>6, <2>7 DEF IInv
<1> QED
  BY <1>6, <1>7

\* Every step keeps the invariant: the tick above; the others leave the list,
\* the food, the direction and the score alone.
LEMMA StepKeepsInv == IInv /\ [Next]_vars => IInv'
<1> SUFFICES ASSUME IInv, [Next]_vars PROVE IInv'
  OBVIOUS
<1>1. CASE Tick
  BY <1>1, TickKeepsInv
<1>2. ASSUME UNCHANGED <<snake, food, dir, score, fresh>>, TypeOK'
      PROVE  IInv'
  BY <1>2 DEF IInv, LengthFollowsScore, FoodOnlyUnderTail, Contiguous, Neighbours,
     BodyDistinct, BodyInFrame, InFrame, HeadingIsDir, Written
<1>3. CASE TickOver
  <2>1. TypeOK'
    BY <1>3, Zenon DEF TickOver, IInv, TypeOK
  <2> QED
    BY <1>2, <1>3, <2>1 DEF TickOver
<1>4. ASSUME NEW k \in Dirs, ReceiveKey(k)
      PROVE  IInv'
  <2>1. k \in 0..right
    BY DEF Dirs, up, right
  <2>2. TypeOK'
    BY <1>4, <2>1, Zenon DEF ReceiveKey, IInv, TypeOK
  <2> QED
    BY <1>2, <1>4, <2>2 DEF ReceiveKey
<1>5. CASE UNCHANGED vars
  <2>1. TypeOK'
    BY <1>5, Zenon DEF vars, IInv, TypeOK
  <2> QED
    BY <1>2, <1>5, <2>1 DEF vars
<1> QED
  BY <1>1, <1>3, <1>4, <1>5 DEF Next

\* The invariant of the list, on every board and however the keys arrive.
THEOREM SnakeInvariant == Spec => []IInv
BY InitInv, StepKeepsInv, PTL DEF Spec

\* The list is always the three starting nodes plus one per point.
THEOREM SnakeLength == Spec => []LengthFollowsScore
<1>1. IInv => LengthFollowsScore
  BY DEF IInv
<1> QED
  BY <1>1, SnakeInvariant, PTL

\* The written nodes are always a chain inside the frame, and no two nodes behind
\* the head are one cell.
THEOREM SnakeIsChain == Spec => [](Contiguous /\ BodyDistinct /\ BodyInFrame)
<1>1. IInv => Contiguous /\ BodyDistinct /\ BodyInFrame
  BY DEF IInv
<1> QED
  BY <1>1, SnakeInvariant, PTL

\* Behind the head no cell holds two nodes, the unwritten one included, whichever
\* chunks the heap hands out.
THEOREM SnakeBodyDistinct == Spec => []BodyDistinct
<1>1. IInv => BodyDistinct
  BY DEF IInv
<1> QED
  BY <1>1, SnakeInvariant, PTL

\* Food lies under no written node but the last, from the draw until it is eaten.
THEOREM SnakeFoodOnlyUnderTail == Spec => []FoodOnlyUnderTail
<1>1. IInv => FoodOnlyUnderTail
  BY DEF IInv
<1> QED
  BY <1>1, SnakeInvariant, PTL

----------------------------------------------------------------------------
\* Two steps in directions that are not opposite never lead back.
LEMMA NoWayBack ==
  ASSUME NEW node \in Node, NEW d \in Dirs, NEW k \in Dirs, d # Opposite[k]
  PROVE  Step(Step(node, d), k) # node
BY DEF Step, Delta, Opposite, At, Node, Dirs, up, down, left, right

\* No two keys between ticks, in whatever order, turn a moving snake on the
\* spot: the head never goes back onto the node behind it.
THEOREM SnakeNeverReverses == Spec => NeverReverses
<1>1. IInv /\ [Next]_vars
      => [dir # 0 /\ snake'[1] # snake[1] => snake'[1] # snake[2]]_vars
  <2> SUFFICES ASSUME IInv, Next, dir # 0, snake'[1] # snake[1]
               PROVE  snake'[1] # snake[2]
    OBVIOUS
  <2>1. snake \in Seq(Node) /\ Len(snake) \in Nat /\ Len(snake) >= 3 /\ dir \in Dirs
    BY LenProperties, MapAssumption
       DEF IInv, TypeOK, LengthFollowsScore, Dirs, up, right
  <2>2. snake[1] \in Node /\ snake[2] \in Node
    BY <2>1, ElementOfSeq
  <2>3. Tick
    BY DEF Next, TickOver, ReceiveKey
  <2> DEFINE list == movesnake
  <2>4. list \in Seq(Node) /\ Len(list) = Len(snake)
    <3> HIDE DEF list
    <3>1. list = movesnake
      BY DEF list
    <3> QED
      BY <2>3, <3>1, MoveShape DEF Tick
  <2>5. snake'[1] = list[1]
    <3> HIDE DEF list
    <3>1. eatfood(list)
      BY <2>3 DEF Tick, list
    <3>2. \A junk \in Reused(snake[Len(snake)]) : Append(list, junk)[1] = list[1]
      <4>1. snake[Len(snake)] \in Node
        BY <2>1, ElementOfSeq
      <4> QED
        BY <2>1, <2>4, <4>1, ReusedNode, AppendProperties
    <3> QED
      BY <3>1, <3>2 DEF eatfood
  <2>6. MoveAllowed
    BY <2>5 DEF movesnake
  <2>7. snake'[1] = Step(snake[1], key)
    BY <2>1, <2>5, <2>6 DEF movesnake, Shifted
  <2>8. snake[1] = Step(snake[2], dir)
    BY DEF IInv, HeadingIsDir
  <2> QED
    BY <2>1, <2>2, <2>6, <2>7, <2>8, NoWayBack DEF MoveAllowed
<1> QED
  BY <1>1, SnakeInvariant, PTL DEF Spec, NeverReverses

----------------------------------------------------------------------------
\* What a tick that moves does at the end of the list: without a meal every node is
\* written, with one the last reads as the node that was freed or has x = 0.
LEMMA MealAtEnd ==
  ASSUME IInv, Tick, MoveAllowed
  PROVE  LET n == Len(snake)
             h == Step(snake[1], key)
         IN  /\ n \in Nat /\ n >= 3 /\ Written' = n
             /\ snake[n] \in Node /\ h \in Node
             /\ \/ Len(snake') = n
                \/ /\ Len(snake') = n + 1 /\ snake'[1] = food
                   /\ snake'[n + 1] = snake[n] \/ ~InFrame(snake'[n + 1])
<1> DEFINE n == Len(snake)
           h == Step(snake[1], key)
           list == Shifted(snake, h)
<1>1. snake \in Seq(Node) /\ n \in Nat /\ n >= 3
  BY LenProperties, MapAssumption DEF IInv, TypeOK, LengthFollowsScore
<1>2. snake[1] \in Node /\ snake[n] \in Node /\ key \in Dirs
  BY <1>1, ElementOfSeq DEF MoveAllowed
<1>3. h \in Node
  BY <1>2, StepNode
<1>4. list \in Seq(Node) /\ Len(list) = n /\ list[1] = h
  <2> HIDE DEF h
  <2> QED
    BY <1>1, <1>3, ShiftedList
<1>5. eatfood(list)
  BY DEF Tick, movesnake
<1> HIDE DEF list, h
<1>6. CASE list[1] = food
  <2>1. fresh' = TRUE
    BY <1>5, <1>6 DEF eatfood
  <2>2. PICK junk \in Reused(snake[n]) : snake' = Append(list, junk)
    BY <1>5, <1>6 DEF eatfood
  <2>3. junk \in Node /\ (junk = snake[n] \/ ~InFrame(junk))
    BY <1>2, ReusedNode
  <2>4. /\ Len(snake') = n + 1 /\ snake'[n + 1] = junk /\ snake'[1] = list[1]
    BY <1>1, <1>4, <2>2, <2>3, AppendProperties
  <2>5. Written' = n
    BY <1>1, <2>1, <2>4 DEF Written
  <2> QED
    BY <1>1, <1>2, <1>3, <1>6, <2>3, <2>4, <2>5 DEF h
<1>7. CASE list[1] # food
  <2>1. fresh' = FALSE /\ snake' = list
    BY <1>5, <1>7 DEF eatfood
  <2>2. Written' = n
    BY <1>4, <2>1 DEF Written
  <2> QED
    BY <1>1, <1>2, <1>3, <1>4, <2>1, <2>2 DEF h
<1> QED
  BY <1>6, <1>7

\* On every board, a step that loses the game has put the head outside the frame or
\* on a written node, or ate a meal that lay on the last node of the list.
THEOREM SnakeLossExplained == Spec => LossExplained
<1>1. IInv /\ [Next]_vars
      => [judge /\ ~judge' => BrokeRule' \/ food = snake[Len(snake)]]_vars
  <2> SUFFICES ASSUME IInv, Next, judge, ~judge', ~BrokeRule'
               PROVE  food = snake[Len(snake)]
    OBVIOUS
  <2>1. Tick /\ MoveAllowed
    <3>1. ASSUME snake' = snake PROVE FALSE
      BY <3>1 DEF judge
    <3>2. Tick
      BY <3>1 DEF Next, TickOver, ReceiveKey
    <3>3. ASSUME ~MoveAllowed PROVE snake' = snake
      <4>1. movesnake = snake /\ snake[1] # food
        BY <3>3, HeadOffFood DEF movesnake
      <4> QED
        BY <3>2, <4>1 DEF Tick, eatfood
    <3> QED
      BY <3>1, <3>2, <3>3
  <2> DEFINE n == Len(snake)
  <2>2. /\ n \in Nat /\ n >= 3 /\ Written' = n
        /\ \/ Len(snake') = n
           \/ /\ Len(snake') = n + 1 /\ snake'[1] = food
              /\ snake'[n + 1] = snake[n] \/ ~InFrame(snake'[n + 1])
    BY <2>1, MealAtEnd
  <2>3. InFrame(snake'[1]) /\ \A i \in 2..n : snake'[i] # snake'[1]
    BY <2>2 DEF BrokeRule, InFrame
  <2>4. PICK i \in 2..Len(snake') : snake'[i] = snake'[1]
    BY <2>3 DEF judge, InFrame
  <2>5. i = n + 1 /\ Len(snake') = n + 1
    BY <2>2, <2>3, <2>4
  <2> QED
    BY <2>2, <2>3, <2>4, <2>5
<1> QED
  BY <1>1, SnakeInvariant, PTL DEF Spec, LossExplained

----------------------------------------------------------------------------
\* The refinement mapping: the body is the list without its unwritten node.
LEMMA SubSeqCells ==
  ASSUME NEW list \in Seq(Node), NEW m \in Nat, m <= Len(list)
  PROVE  /\ SubSeq(list, 1, m) = [i \in 1..m |-> list[i]]
         /\ Len(SubSeq(list, 1, m)) = m
<1> DEFINE sub == SubSeq(list, 1, m)
<1>1. Len(list) \in Nat /\ \A i \in 1..m : list[i] \in Node
  BY LenProperties, ElementOfSeq
<1>2. sub \in Seq(Node) /\ Len(sub) = m /\ \A i \in 1..m : sub[i] = list[i]
  BY <1>1, SubSeqProperties
<1>3. sub \in [1..m -> Node]
  <2> HIDE DEF sub
  <2> QED
    BY <1>2, LenProperties
<1> QED
  BY <1>2, <1>3

LEMMA WrittenBounds ==
  ASSUME IInv
  PROVE  /\ snake \in Seq(Node) /\ Len(snake) \in Nat /\ Len(snake) >= 3
         /\ Written = IF fresh THEN Len(snake) - 1 ELSE Len(snake)
         /\ Written \in Nat /\ Written >= 2 /\ Written <= Len(snake)
<1>1. snake \in Seq(Node) /\ Len(snake) \in Nat /\ Len(snake) >= 3
  BY LenProperties, MapAssumption DEF IInv, TypeOK, LengthFollowsScore
<1> QED
  BY <1>1 DEF Written

LEMMA IdealStart == Init => Ideal!IdealInit
<1> SUFFICES ASSUME Init PROVE Ideal!IdealInit
  OBVIOUS
<1>1. IInv /\ Written = 3
  BY InitInv DEF Init, creatsnake, Written
<1>2. SubSeq(snake, 1, Written) = [i \in 1..3 |-> snake[i]]
  BY <1>1, SubSeqCells DEF IInv, TypeOK, LengthFollowsScore, Init
<1>3. SubSeq(snake, 1, Written) = creatsnake
  <2>1. snake = creatsnake
    BY DEF Init
  <2>2. snake \in Seq(Node) /\ Len(snake) = 3
    BY <2>1 DEF creatsnake, At, Node
  <2>3. snake \in [1..3 -> Node]
    BY <2>2, LenProperties
  <2> QED
    BY <1>2, <2>1, <2>3
<1>4. food \in Node \ {SubSeq(snake, 1, Written)[1]}
  BY <1>1, <1>2, HeadOffFood DEF IInv, TypeOK
<1> QED
  BY <1>3, <1>4 DEF Init, Ideal!IdealInit, Ideal!Node, Node,
     Ideal!creatsnake, creatsnake, Ideal!At, At

\* A tick that moves is an advance of the ideal snake in the direction of the
\* key: what movesnake shifts is the body, and whatever it frees is not part of
\* the advanced body.
LEMMA IdealMove ==
  ASSUME IInv, IInv', Tick, MoveAllowed
  PROVE  Ideal!Advance(key)
<1> DEFINE h == Step(snake[1], key)
           n == Len(snake)
           list == Shifted(snake, h)
           body == SubSeq(snake, 1, Written)
<1>1. key \in Dirs /\ dir # Opposite[key]
  BY DEF MoveAllowed
<1>2. /\ snake \in Seq(Node) /\ n \in Nat /\ n >= 3
      /\ Written = IF fresh THEN n - 1 ELSE n
      /\ Written \in Nat /\ Written >= 2 /\ Written <= n
  BY WrittenBounds
<1>3. body = [i \in 1..Written |-> snake[i]] /\ Len(body) = Written
  BY <1>2, SubSeqCells
<1>4. snake[1] \in Node /\ h \in Node
  BY <1>1, <1>2, ElementOfSeq, StepNode
<1>5. /\ list \in Seq(Node)
      /\ Len(list) = n
      /\ list[1] = h
      /\ \A i \in 2..n : list[i] = snake[i - 1]
  <2> HIDE DEF h
  <2> QED
    BY <1>2, <1>4, ShiftedList
<1>6. judge /\ eatfood(list) /\ dir' = key
  BY DEF Tick, movesnake
<1>7. Written' = n /\ SubSeq(snake', 1, n) = [i \in 1..n |-> list[i]]
  <2> HIDE DEF list, h
  <2>1. CASE list[1] = food
    <3>1. fresh' = TRUE
      BY <1>6, <2>1 DEF eatfood
    <3>2. PICK junk \in Reused(snake[n]) : snake' = Append(list, junk)
      BY <1>6, <2>1 DEF eatfood
    <3>5. junk \in Node
      BY <1>2, ElementOfSeq, ReusedNode
    <3>3. /\ snake' \in Seq(Node)
          /\ Len(snake') = n + 1
          /\ \A i \in 1..n : snake'[i] = list[i]
      BY <1>5, <3>2, <3>5, AppendProperties
    <3>4. SubSeq(snake', 1, n) = [i \in 1..n |-> snake'[i]]
      BY <1>2, <3>3, SubSeqCells
    <3> QED
      BY <1>2, <3>1, <3>3, <3>4 DEF Written
  <2>2. CASE list[1] # food
    <3>1. fresh' = FALSE /\ snake' = list
      BY <1>6, <2>2 DEF eatfood
    <3>2. SubSeq(list, 1, n) = [i \in 1..n |-> list[i]]
      BY <1>2, <1>5, SubSeqCells
    <3> QED
      BY <1>5, <3>1, <3>2 DEF Written
  <2> QED
    BY <2>1, <2>2
<1>8. [i \in 1..n |-> list[i]]
        = [i \in 1..(IF fresh THEN Len(body) + 1 ELSE Len(body)) |->
             IF i = 1 THEN h ELSE body[i - 1]]
  <2>1. (IF fresh THEN Len(body) + 1 ELSE Len(body)) = n
    BY <1>2, <1>3
  <2>2. ASSUME NEW i \in 1..n
        PROVE  list[i] = IF i = 1 THEN h ELSE body[i - 1]
    <3>1. i # 1 => i - 1 \in 1..Written /\ list[i] = snake[i - 1]
      BY <1>2, <1>5
    <3> QED
      BY <1>3, <1>5, <3>1
  <2> HIDE DEF list, h, body
  <2> QED
    BY <2>1, <2>2
<1>9. body[1] = snake[1] /\ \A i \in 2..Len(body) : body[i] # body[1]
  BY <1>2, <1>3, <1>6 DEF judge
<1>10. \/ h = food /\ fresh' = TRUE /\ score' = score + 1 /\ food' \in Node \ {h}
       \/ h # food /\ fresh' = FALSE /\ score' = score /\ food' = food
  <2> HIDE DEF list, h
  <2>1. food' \in creatfood(list) => food' \in Node \ {h}
    BY <1>2, <1>5, FoodCellsAreNodes DEF creatfood
  <2> QED
    BY <1>5, <1>6, <2>1 DEF eatfood
<1> HIDE DEF list
<1> QED
  BY <1>1, <1>6, <1>7, <1>8, <1>9, <1>10
     DEF judge, Ideal!Advance, Ideal!Alive, Ideal!InFrame, InFrame, Ideal!Opposite,
         Opposite, Ideal!Advanced, Ideal!Step, Step, Ideal!Delta, Delta, Ideal!At,
         At, Ideal!Eat, Ideal!Pass, Ideal!Node, Node, Ideal!up, up, Ideal!down,
         down, Ideal!left, left, Ideal!right, right

\* The linked list with its unwritten node implements the snake of cells: each
\* step of the server is a step of the ideal snake or leaves it alone.
THEOREM SnakeImplementsIdeal == Spec => ImplementsIdeal
<1>1. IInv /\ IInv' /\ [Next]_vars
      => [\E d \in Ideal!Dirs : Ideal!Advance(d)]_(Ideal!idealVars)
  <2> SUFFICES ASSUME IInv, IInv', [Next]_vars
               PROVE  \/ \E d \in Ideal!Dirs : Ideal!Advance(d)
                      \/ UNCHANGED Ideal!idealVars
    OBVIOUS
  <2>1. CASE Tick /\ MoveAllowed
    <3>1. key \in Ideal!Dirs
      BY <2>1 DEF MoveAllowed, Dirs, Ideal!Dirs, up, Ideal!up, right, Ideal!right
    <3>2. Ideal!Advance(key)
      BY <2>1, IdealMove
    <3> QED
      BY <3>1, <3>2
  <2>2. CASE Tick /\ ~MoveAllowed
    <3>1. movesnake = snake /\ snake[1] # food
      BY <2>2, HeadOffFood DEF movesnake
    <3>2. UNCHANGED <<snake, fresh, dir, food, score>>
      <4>1. fresh \in BOOLEAN
        BY DEF IInv, TypeOK
      <4> QED
        BY <2>2, <3>1, <4>1 DEF Tick, eatfood
    <3> QED
      BY <3>2 DEF Ideal!idealVars, Written
  <2>3. CASE TickOver
    BY <2>3 DEF TickOver, Ideal!idealVars, Written
  <2>4. ASSUME NEW k \in Dirs, ReceiveKey(k)
        PROVE  UNCHANGED Ideal!idealVars
    BY <2>4 DEF ReceiveKey, Ideal!idealVars, Written
  <2>5. CASE UNCHANGED vars
    BY <2>5 DEF vars, Ideal!idealVars, Written
  <2> QED
    BY <2>1, <2>2, <2>3, <2>4, <2>5 DEF Next
<1> QED
  BY <1>1, IdealStart, SnakeInvariant, PTL DEF Spec, ImplementsIdeal, Ideal!IdealSpec

----------------------------------------------------------------------------
(* The display. *)

\* Every written node is in the middle of a cell.
OnGrid(node) == node.x % 10 = 8 /\ node.y % 10 = 8

ScreenInv ==
  /\ \A i \in 1..Written : OnGrid(snake[i])
  /\ screen \in [Board -> Colours]
  /\ ScreenAgrees

----------------------------------------------------------------------------
\* A node in the middle of a cell where heads survive is one of the board.
LEMMA GridCell ==
  ASSUME NEW node \in Node, InFrame(node), OnGrid(node)
  PROVE  node \in Board
<1> DEFINE c == (node.x + 2) \div 10
           r == (node.y + 2) \div 10
<1>1. node.x \in Int /\ node.y \in Int /\ node = At(node.x, node.y) /\ XMax \in Int /\ YMax \in Int
  BY FrameAssumption DEF Node, At
<1>2. \A v, m \in Int : v % 10 = 8 /\ v > 3 /\ v < m - 4 =>
        (v + 2) \div 10 \in 1..(m \div 10) /\ 10 * ((v + 2) \div 10) - 2 = v
  OBVIOUS
<1>3. c \in 1..(XMax \div 10) /\ r \in 1..(YMax \div 10) /\ 10 * c - 2 = node.x /\ 10 * r - 2 = node.y
  BY <1>1, <1>2 DEF InFrame, OnGrid
<1> HIDE DEF c, r
<1> QED
  BY <1>1, <1>3 DEF Board

\* A step leads from the middle of a cell to the middle of a cell.
LEMMA GridStep ==
  ASSUME NEW node \in Node, NEW d \in Dirs, OnGrid(node)
  PROVE  OnGrid(Step(node, d))
<1>1. d = 1 \/ d = 2 \/ d = 3 \/ d = 4
  BY DEF Dirs, up, right
<1>2. Delta[d].x \in {0, 10, -10} /\ Delta[d].y \in {0, 10, -10}
  BY <1>1 DEF Delta, At
<1>3. \A v \in Int, e \in {0, 10, -10} : v % 10 = 8 => (v + e) % 10 = 8
  OBVIOUS
<1> QED
  BY <1>2, <1>3 DEF OnGrid, Step, At, Node

\* What a few fills leave on a cell: its colour, if none is on it, or that of the
\* last fill that is.
NoneOn(fills, cell) == \A n \in DOMAIN fills : fills[n][1] # cell
LastOn(fills, cell, n) ==
  n \in DOMAIN fills /\ fills[n][1] = cell /\ \A m \in DOMAIN fills : m > n => fills[m][1] # cell

LEMMA LastFill ==
  ASSUME NEW scr, NEW fills, NEW cell \in Board, DOMAIN fills \subseteq 1..5
  PROVE  \/ NoneOn(fills, cell) /\ Paint(scr, fills)[cell] = scr[cell]
         \/ \E n : LastOn(fills, cell, n) /\ Paint(scr, fills)[cell] = fills[n][2]
<1> DEFINE on == {n \in DOMAIN fills : fills[n][1] = cell}
           last == CHOOSE n \in on : \A m \in on : m <= n
<1>1. Paint(scr, fills)[cell] = IF on = {} THEN scr[cell] ELSE fills[last][2]
  BY DEF Paint
<1>2. ASSUME on # {} PROVE last \in on /\ \A m \in on : m <= last
  <2>1. \E n \in on : \A m \in on : m <= n
    <3>1. on \subseteq {1, 2, 3, 4, 5}
      OBVIOUS
    <3> HIDE DEF on
    <3>2. CASE 5 \in on
      BY <3>1, <3>2
    <3>3. CASE 5 \notin on /\ 4 \in on
      BY <3>1, <3>3
    <3>4. CASE 5 \notin on /\ 4 \notin on /\ 3 \in on
      BY <3>1, <3>4
    <3>5. CASE 5 \notin on /\ 4 \notin on /\ 3 \notin on /\ 2 \in on
      BY <3>1, <3>5
    <3>6. CASE 5 \notin on /\ 4 \notin on /\ 3 \notin on /\ 2 \notin on
      <4>1. PICK n : n \in on
        BY <1>2
      <4>2. n = 1
        BY <3>1, <3>6, <4>1
      <4> QED
        BY <3>1, <3>6, <4>1, <4>2
    <3> QED
      BY <3>2, <3>3, <3>4, <3>5, <3>6
  <2> HIDE DEF on
  <2> QED
    BY <2>1
<1>3. CASE on = {}
  BY <1>1, <1>3 DEF NoneOn
<1>4. CASE on # {}
  <2>1. last \in on /\ \A m \in on : m <= last
    BY <1>2, <1>4
  <2> HIDE DEF last
  <2>2. LastOn(fills, cell, last)
    BY <2>1 DEF LastOn
  <2> QED
    BY <1>1, <1>4, <2>2
<1> QED
  BY <1>3, <1>4

LEMMA PaintType ==
  ASSUME NEW scr \in [Board -> Colours], NEW fills, DOMAIN fills \subseteq 1..5,
         \A n \in DOMAIN fills : fills[n][2] \in Colours
  PROVE  Paint(scr, fills) \in [Board -> Colours]
<1>1. ASSUME NEW cell \in Board PROVE Paint(scr, fills)[cell] \in Colours
  <2>1. CASE Paint(scr, fills)[cell] = scr[cell]
    BY <2>1
  <2>2. CASE Paint(scr, fills)[cell] # scr[cell]
    <3>1. PICK n : LastOn(fills, cell, n) /\ Paint(scr, fills)[cell] = fills[n][2]
      BY <2>2, LastFill
    <3> QED
      BY <3>1 DEF LastOn
  <2> QED
    BY <2>1, <2>2
<1>2. Paint(scr, fills) = [cell \in Board |-> Paint(scr, fills)[cell]]
  BY DEF Paint
<1> QED
  BY <1>1, <1>2

----------------------------------------------------------------------------
\* A tick that moves: the list afterwards.
LEMMA MovedList ==
  ASSUME IInv, Tick, MoveAllowed
  PROVE  /\ snake \in Seq(Node) /\ Len(snake) \in Nat /\ Len(snake) >= 3
         /\ Written \in {Len(snake) - 1, Len(snake)} /\ (Written = Len(snake) <=> ~fresh)
         /\ key \in Dirs /\ judge
         /\ movesnake[1] = Step(snake[1], key) /\ movesnake[1] \in Node
         /\ Written' = Len(snake)
         /\ snake'[1] = movesnake[1]
         /\ \A i \in 2..Len(snake) : snake'[i] = snake[i - 1]
         /\ movesnake[1] # food => food' = food
<1> DEFINE h == Step(snake[1], key)
           n == Len(snake)
           list == Shifted(snake, h)
<1>1. /\ snake \in Seq(Node) /\ n \in Nat /\ n >= 3
      /\ Written = IF fresh THEN n - 1 ELSE n
  BY WrittenBounds
<1>2. key \in Dirs /\ snake[1] \in Node /\ h \in Node
  BY <1>1, ElementOfSeq, StepNode DEF MoveAllowed
<1>3. /\ list \in Seq(Node)
      /\ Len(list) = n
      /\ list[1] = h
      /\ \A i \in 2..n : list[i] = snake[i - 1]
  <2> HIDE DEF h
  <2> QED
    BY <1>1, <1>2, ShiftedList
<1>4. judge /\ eatfood(list) /\ movesnake = list
  BY DEF Tick, movesnake
<1>5. /\ Written' = n /\ \A i \in 1..n : snake'[i] = list[i]
      /\ list[1] # food => food' = food
  <2> HIDE DEF list, h
  <2>1. CASE list[1] = food
    <3>1. fresh' = TRUE
      BY <1>4, <2>1 DEF eatfood
    <3>2. PICK junk \in Reused(snake[n]) : snake' = Append(list, junk)
      BY <1>4, <2>1 DEF eatfood
    <3>4. junk \in Node
      BY <1>1, ElementOfSeq, ReusedNode
    <3>3. /\ Len(snake') = n + 1
          /\ \A i \in 1..n : snake'[i] = list[i]
      BY <1>3, <3>2, <3>4, AppendProperties
    <3> QED
      BY <1>1, <2>1, <3>1, <3>3 DEF Written
  <2>2. CASE list[1] # food
    <3>1. fresh' = FALSE /\ snake' = list /\ food' = food
      BY <1>4, <2>2 DEF eatfood
    <3> QED
      BY <1>3, <3>1 DEF Written
  <2> QED
    BY <2>1, <2>2
<1> HIDE DEF list, h
<1>6. snake'[1] = h /\ \A i \in 2..n : snake'[i] = snake[i - 1]
  BY <1>1, <1>3, <1>5
<1> QED
  BY <1>1, <1>2, <1>3, <1>4, <1>5, <1>6 DEF h

LEMMA OneAppended ==
  ASSUME NEW a, NEW b, NEW c, NEW d, NEW e, NEW s, s = <<a, b, c, d>> \o <<e>>
  PROVE  DOMAIN s = 1..5 /\ s[1] = a /\ s[2] = b /\ s[3] = c /\ s[4] = d /\ s[5] = e
<1> DEFINE S == {a, b, c, d, e}
           p == <<a, b, c, d>>
           q == <<e>>
<1>1. p \in Seq(S) /\ q \in Seq(S) /\ Len(p) = 4 /\ Len(q) = 1
      /\ p[1] = a /\ p[2] = b /\ p[3] = c /\ p[4] = d /\ q[1] = e
  OBVIOUS
<1>2. s = p \o q
  OBVIOUS
<1> HIDE DEF p, q, S
<1>3. /\ s \in Seq(S) /\ Len(s) = Len(p) + Len(q)
      /\ \A i \in 1..(Len(p) + Len(q)) : s[i] = IF i <= Len(p) THEN p[i] ELSE q[i - Len(p)]
  <2>1. p \in Seq(S) /\ q \in Seq(S)
    BY <1>1
  <2>2. /\ p \o q \in Seq(S) /\ Len(p \o q) = Len(p) + Len(q)
        /\ \A i \in 1..(Len(p) + Len(q)) : (p \o q)[i] = IF i <= Len(p) THEN p[i] ELSE q[i - Len(p)]
    BY <2>1, ConcatProperties
  <2> QED
    BY <1>2, <2>2, Zenon
<1>4. /\ s \in Seq(S) /\ Len(s) = 5
      /\ \A i \in 1..5 : s[i] = IF i <= 4 THEN p[i] ELSE q[i - 4]
  BY <1>1, <1>3
<1> QED
  BY <1>1, <1>4

LEMMA NoneAppended ==
  ASSUME NEW a, NEW b, NEW c, NEW d, NEW s, s = <<a, b, c, d>> \o << >>
  PROVE  DOMAIN s = 1..4 /\ s[1] = a /\ s[2] = b /\ s[3] = c /\ s[4] = d
<1>1. <<a, b, c, d>> \in Seq({a, b, c, d})
  OBVIOUS
<1>2. s = <<a, b, c, d>>
  BY <1>1, ConcatEmptySeq
<1> QED
  BY <1>2

\* Its fills, in their order.
LEMMA FillsIs ==
  ASSUME MoveAllowed
  PROVE  /\ DOMAIN TickFills = 1..(IF movesnake[1] = food THEN 5 ELSE 4)
         /\ TickFills[1] = <<movesnake[1], "RED">>
         /\ TickFills[2] = <<snake[1], "BLUE">>
         /\ TickFills[3] = <<snake[Len(snake)], "WHITE">>
         /\ TickFills[4] = <<snake[Len(snake) - 1], "GREEN">>
         /\ movesnake[1] = food => TickFills[5] = <<food', "RED">>
<1> DEFINE h == movesnake[1]
<1>1. CASE h = food
  <2>1. TickFills = MoveFills(h) \o << <<food', "RED">> >>
    BY <1>1 DEF TickFills
  <2> HIDE DEF h
  <2>2. /\ DOMAIN TickFills = 1..5
        /\ TickFills[1] = <<h, "RED">> /\ TickFills[2] = <<snake[1], "BLUE">>
        /\ TickFills[3] = <<snake[Len(snake)], "WHITE">>
        /\ TickFills[4] = <<snake[Len(snake) - 1], "GREEN">>
        /\ TickFills[5] = <<food', "RED">>
    <3>1. MoveFills(h) = << <<h, "RED">>, <<snake[1], "BLUE">>, <<snake[Len(snake)], "WHITE">>,
                            <<snake[Len(snake) - 1], "GREEN">> >>
      BY DEF MoveFills
    <3> QED
      BY <2>1, <3>1, OneAppended
  <2> QED
    BY <1>1, <2>2 DEF h
<1>2. CASE h # food
  <2>1. TickFills = MoveFills(h) \o << >>
    BY <1>2 DEF TickFills
  <2> HIDE DEF h
  <2>2. /\ DOMAIN TickFills = 1..4
        /\ TickFills[1] = <<h, "RED">> /\ TickFills[2] = <<snake[1], "BLUE">>
        /\ TickFills[3] = <<snake[Len(snake)], "WHITE">>
        /\ TickFills[4] = <<snake[Len(snake) - 1], "GREEN">>
    <3>1. MoveFills(h) = << <<h, "RED">>, <<snake[1], "BLUE">>, <<snake[Len(snake)], "WHITE">>,
                            <<snake[Len(snake) - 1], "GREEN">> >>
      BY DEF MoveFills
    <3> QED
      BY <2>1, <3>1, NoneAppended
  <2> QED
    BY <1>2, <2>2 DEF h
<1> QED
  BY <1>1, <1>2

----------------------------------------------------------------------------
\* The nodes that stay on the list are on the board, and none of them is in the
\* cell that the node which movesnake frees reads as, written or not.
LEMMA StayingNodes ==
  ASSUME IInv, judge, MoveAllowed, \A i \in 1..Written : OnGrid(snake[i]),
         NEW j \in 1..(Len(snake) - 1)
  PROVE  snake[j] \in Board /\ snake[j] # snake[Len(snake)]
<1> DEFINE n == Len(snake)
<1>1. /\ snake \in Seq(Node) /\ n \in Nat /\ n >= 3 /\ j \in 1..(n - 1)
      /\ Written = IF fresh THEN n - 1 ELSE n
  BY WrittenBounds
<1>2. snake[j] \in Board
  <2>1. snake[j] \in Node
    BY <1>1, ElementOfSeq
  <2>2. OnGrid(snake[j]) /\ InFrame(snake[j])
    <3>1. j \in 1..Written /\ (j = 1 \/ j \in 2..Written)
      BY <1>1
    <3> QED
      BY <3>1 DEF judge, IInv, BodyInFrame
  <2> QED
    BY <2>1, <2>2, GridCell
<1>3. CASE j = 1
  <2>1. n \in 2..Len(snake)
    BY <1>1
  <2> QED
    BY <1>2, <1>3, <2>1 DEF judge
<1>4. CASE j # 1
  <2>1. j \in 2..n /\ n \in 2..n /\ j # n
    BY <1>1, <1>4
  <2> QED
    BY <1>2, <2>1 DEF IInv, BodyDistinct
<1> QED
  BY <1>3, <1>4

LEMMA ColoursDiffer == "RED" # "WHITE" /\ "BLUE" # "WHITE" /\ "GREEN" # "WHITE"
OBVIOUS

\* What a tick that moves leaves on the display.
LEMMA MovePainted ==
  ASSUME IInv, ScreenInv, ScreenTick, MoveAllowed
  PROVE  ScreenAgrees' /\ screen' \in [Board -> Colours]
<1> DEFINE n == Len(snake)
<1>1. /\ snake \in Seq(Node) /\ n \in Nat /\ n >= 3
      /\ Written \in {n - 1, n} /\ (Written = n <=> ~fresh)
      /\ judge /\ Written' = n
      /\ snake'[1] = movesnake[1]
      /\ \A i \in 2..n : snake'[i] = snake[i - 1]
      /\ movesnake[1] # food => food' = food
  BY MovedList DEF ScreenTick
<1>2. /\ DOMAIN TickFills = 1..(IF movesnake[1] = food THEN 5 ELSE 4)
      /\ TickFills[1] = <<movesnake[1], "RED">>
      /\ TickFills[2] = <<snake[1], "BLUE">>
      /\ TickFills[3] = <<snake[n], "WHITE">>
      /\ TickFills[4] = <<snake[n - 1], "GREEN">>
      /\ movesnake[1] = food => TickFills[5] = <<food', "RED">>
  BY FillsIs
<1> DEFINE fills == TickFills
           h == movesnake[1]
<1> HIDE DEF fills, h, n
<1>3. /\ DOMAIN fills \subseteq 1..5 /\ 1 \in DOMAIN fills /\ 2 \in DOMAIN fills
      /\ 3 \in DOMAIN fills /\ 4 \in DOMAIN fills /\ (5 \in DOMAIN fills => h = food)
      /\ screen' = Paint(screen, fills)
  BY <1>2 DEF fills, h, ScreenTick
<1>4. /\ fills[1][1] = h /\ fills[2][1] = snake[1] /\ fills[3][1] = snake[n]
      /\ fills[4][1] = snake[n - 1]
      /\ fills[1][2] = "RED" /\ fills[2][2] = "BLUE" /\ fills[3][2] = "WHITE"
      /\ fills[4][2] = "GREEN"
      /\ 5 \in DOMAIN fills => fills[5][1] = food' /\ fills[5][2] = "RED"
  BY <1>2, <1>3 DEF fills, h
<1>5. \A i \in DOMAIN fills : i = 1 \/ i = 2 \/ i = 3 \/ i = 4 \/ i = 5
  BY <1>3
<1>6. /\ screen \in [Board -> Colours] /\ ScreenAgrees
      /\ \A i \in 1..Written : OnGrid(snake[i])
  BY DEF ScreenInv
<1>7. \A j \in 1..(n - 1) : snake[j] \in Board /\ snake[j] # snake[n]
  BY <1>1, <1>6, StayingNodes DEF n
<1>8. ASSUME NEW i \in 2..Written' PROVE screen'[snake'[i]] # "WHITE"
  <2> DEFINE j == i - 1
             cell == snake[j]
  <2>1. j \in 1..(n - 1) /\ snake'[i] = cell
    BY <1>1
  <2>2. cell \in Board /\ cell # snake[n]
    BY <1>7, <2>1
  <2>3. CASE NoneOn(fills, cell) /\ Paint(screen, fills)[cell] = screen[cell]
    <3>1. j # 1
      BY <1>3, <1>4, <2>3 DEF NoneOn
    <3>2. j \in 2..Written
      BY <1>1, <2>1, <3>1
    <3>3. screen[snake[j]] # "WHITE"
      BY <1>6, <3>2 DEF ScreenAgrees
    <3> QED
      BY <1>3, <2>1, <2>3, <3>3
  <2>4. ASSUME NEW m, LastOn(fills, cell, m), Paint(screen, fills)[cell] = fills[m][2]
        PROVE  fills[m][2] # "WHITE"
    <3>1. m \in DOMAIN fills /\ fills[m][1] = cell
      BY <2>4 DEF LastOn
    <3>2. m # 3
      BY <1>4, <2>2, <3>1
    <3> HIDE DEF cell
    <3> QED
      BY <1>4, <1>5, <3>1, <3>2, ColoursDiffer
  <2> HIDE DEF cell
  <2> QED
    BY <1>3, <2>1, <2>2, <2>3, <2>4, LastFill
<1>9. ASSUME NEW cell \in Board, screen'[cell] # "WHITE"
      PROVE  cell \in WrittenCells' \cup {food'}
  <2>1. /\ \A i \in 1..n : snake'[i] \in WrittenCells'
    BY <1>1 DEF WrittenCells
  <2>2. h \in WrittenCells' /\ \A i \in 1..(n - 1) : snake[i] \in WrittenCells'
    <3>1. 1 \in 1..n /\ snake'[1] = h
      BY <1>1 DEF h
    <3>2. ASSUME NEW i \in 1..(n - 1) PROVE snake[i] \in WrittenCells'
      <4>1. i + 1 \in 2..n /\ i + 1 \in 1..n /\ (i + 1) - 1 = i
        BY <1>1
      <4>2. snake'[i + 1] = snake[(i + 1) - 1]
        BY <1>1, <4>1
      <4> QED
        BY <2>1, <4>1, <4>2
    <3> QED
      BY <2>1, <3>1, <3>2
  <2>3. CASE NoneOn(fills, cell) /\ Paint(screen, fills)[cell] = screen[cell]
    <3>1. cell # snake[n] /\ cell # h
      BY <1>3, <1>4, <2>3 DEF NoneOn
    <3>2. screen[cell] # "WHITE"
      BY <1>3, <1>9, <2>3
    <3>3. cell \in WrittenCells \/ cell = food
      BY <1>6, <3>2 DEF ScreenAgrees
    <3>4. CASE cell = food
      BY <1>1, <3>1, <3>4 DEF h
    <3>5. CASE cell \in WrittenCells
      <4>1. PICK i \in 1..Written : cell = snake[i]
        BY <3>5 DEF WrittenCells
      <4>2. i \in 1..(n - 1)
        BY <1>1, <3>1, <4>1
      <4> QED
        BY <2>2, <4>1, <4>2
    <3> QED
      BY <3>3, <3>4, <3>5
  <2>4. ASSUME NEW m, LastOn(fills, cell, m), Paint(screen, fills)[cell] = fills[m][2]
        PROVE  cell \in WrittenCells' \cup {food'}
    <3>1. m \in DOMAIN fills /\ fills[m][1] = cell /\ fills[m][2] # "WHITE"
      BY <1>3, <1>9, <2>4 DEF LastOn
    <3>2. 1 \in 1..(n - 1) /\ n - 1 \in 1..(n - 1)
      BY <1>1
    <3> QED
      BY <1>4, <1>5, <2>2, <3>1, <3>2
  <2> QED
    BY <2>3, <2>4, LastFill, <1>3
<1>10. screen' \in [Board -> Colours]
  <2>1. ASSUME NEW m \in DOMAIN fills PROVE fills[m][2] \in Colours
    BY <1>4, <1>5 DEF Colours
  <2> QED
    BY <1>3, <1>6, <2>1, PaintType
<1>11. ScreenAgrees'
  BY <1>8, <1>9 DEF ScreenAgrees
<1> QED
  BY <1>10, <1>11

----------------------------------------------------------------------------
\* printsnake and the first food on the white display.
LEMMA ScreenStart == ScreenInit => IInv /\ ScreenInv
<1> SUFFICES ASSUME ScreenInit PROVE IInv /\ ScreenInv
  OBVIOUS
<1> DEFINE white == [cell \in Board |-> "WHITE"]
           fills == << <<snake[1], "RED">>, <<snake[2], "BLUE">>,
                       <<snake[3], "GREEN">>, <<food, "RED">> >>
<1>1. IInv /\ Init /\ screen = Paint(white, fills)
  BY InitInv DEF ScreenInit
<1>2. /\ snake[1] = At(18, 18) /\ snake[2] = At(18, 28) /\ snake[3] = At(18, 38)
      /\ Len(snake) = 3 /\ Written = 3 /\ fresh = FALSE
  BY <1>1 DEF Init, creatsnake, Written
<1>3. \A i \in 1..3 : OnGrid(snake[i]) /\ snake[i] \in Board
  <2>1. /\ OnGrid(At(18, 18)) /\ OnGrid(At(18, 28)) /\ OnGrid(At(18, 38))
        /\ InFrame(At(18, 18)) /\ InFrame(At(18, 28)) /\ InFrame(At(18, 38))
        /\ At(18, 18) \in Node /\ At(18, 28) \in Node /\ At(18, 38) \in Node
    BY FrameAssumption DEF OnGrid, InFrame, At, Node
  <2>2. At(18, 18) \in Board /\ At(18, 28) \in Board /\ At(18, 38) \in Board
    BY <2>1, GridCell
  <2>3. \A i \in 1..3 : i = 1 \/ i = 2 \/ i = 3
    OBVIOUS
  <2> QED
    BY <1>2, <2>1, <2>2, <2>3
<1>4. /\ DOMAIN fills = 1..4
      /\ fills[1] = <<snake[1], "RED">> /\ fills[2] = <<snake[2], "BLUE">>
      /\ fills[3] = <<snake[3], "GREEN">> /\ fills[4] = <<food, "RED">>
  OBVIOUS
<1> HIDE DEF fills
<1>5. /\ DOMAIN fills \subseteq 1..5
      /\ \A m \in DOMAIN fills : m = 1 \/ m = 2 \/ m = 3 \/ m = 4
      /\ \A m \in DOMAIN fills : fills[m][2] \in Colours /\ fills[m][2] # "WHITE"
      /\ \A m \in DOMAIN fills : fills[m][1] \in {snake[1], snake[2], snake[3], food}
      /\ 2 \in DOMAIN fills /\ 3 \in DOMAIN fills
      /\ fills[2][1] = snake[2] /\ fills[3][1] = snake[3]
  <2>1. \A m \in DOMAIN fills : m = 1 \/ m = 2 \/ m = 3 \/ m = 4
    BY <1>4
  <2> QED
    BY <1>4, <2>1 DEF Colours
<1>6. white \in [Board -> Colours] /\ \A cell \in Board : white[cell] = "WHITE"
  BY DEF Colours
<1> HIDE DEF white
<1>7. screen \in [Board -> Colours]
  BY <1>1, <1>5, <1>6, PaintType
<1>8. ASSUME NEW i \in 2..Written PROVE screen[snake[i]] # "WHITE"
  <2> DEFINE cell == snake[i]
  <2>1. cell \in Board /\ (i = 2 \/ i = 3)
    BY <1>2, <1>3
  <2>2. ~NoneOn(fills, cell)
    BY <1>5, <2>1 DEF NoneOn
  <2> HIDE DEF cell
  <2>3. PICK m : LastOn(fills, cell, m) /\ Paint(white, fills)[cell] = fills[m][2]
    BY <1>5, <2>1, <2>2, LastFill
  <2> QED
    BY <1>1, <1>5, <2>3 DEF LastOn, cell
<1>9. ASSUME NEW cell \in Board, screen[cell] # "WHITE"
      PROVE  cell \in WrittenCells \cup {food}
  <2>1. Paint(white, fills)[cell] # white[cell]
    BY <1>1, <1>6, <1>9
  <2>2. PICK m : LastOn(fills, cell, m) /\ Paint(white, fills)[cell] = fills[m][2]
    BY <1>5, <2>1, LastFill
  <2>3. cell \in {snake[1], snake[2], snake[3], food}
    BY <1>5, <2>2 DEF LastOn
  <2> QED
    BY <1>2, <2>3 DEF WrittenCells
<1> QED
  BY <1>1, <1>2, <1>3, <1>7, <1>8, <1>9 DEF ScreenInv, ScreenAgrees

LEMMA ScreenStep ==
  ASSUME IInv, ScreenInv, [ScreenNext]_screenVars
  PROVE  ScreenInv'
<1>1. ASSUME UNCHANGED <<snake, food, fresh, screen>> PROVE ScreenInv'
  BY <1>1 DEF ScreenInv, ScreenAgrees, WrittenCells, Written
<1>2. CASE ScreenTick /\ MoveAllowed
  <2>1. ScreenAgrees' /\ screen' \in [Board -> Colours]
    BY <1>2, MovePainted
  <2>2. ASSUME NEW i \in 1..Written' PROVE OnGrid(snake'[i])
    <3>1. /\ snake \in Seq(Node) /\ Len(snake) \in Nat /\ Len(snake) >= 3
          /\ Written \in {Len(snake) - 1, Len(snake)} /\ key \in Dirs
          /\ movesnake[1] = Step(snake[1], key)
          /\ Written' = Len(snake)
          /\ snake'[1] = movesnake[1]
          /\ \A k \in 2..Len(snake) : snake'[k] = snake[k - 1]
      BY <1>2, MovedList DEF ScreenTick
    <3>2. \A k \in 1..Written : OnGrid(snake[k])
      BY DEF ScreenInv
    <3>3. CASE i = 1
      <4>1. snake[1] \in Node /\ OnGrid(snake[1])
        BY <3>1, <3>2, ElementOfSeq
      <4> QED
        BY <3>1, <3>3, <4>1, GridStep
    <3>4. CASE i # 1
      <4>1. i \in 2..Len(snake) /\ i - 1 \in 1..Written
        BY <3>1, <3>4
      <4> QED
        BY <3>1, <3>2, <4>1
    <3> QED
      BY <3>3, <3>4
  <2> QED
    BY <2>1, <2>2 DEF ScreenInv
<1>3. CASE ScreenTick /\ ~MoveAllowed
  <2>1. Tick /\ judge /\ screen' = Paint(screen, TickFills)
    BY <1>3 DEF ScreenTick, Tick
  <2>2. movesnake = snake /\ movesnake[1] # food
    BY <1>3, HeadOffFood DEF movesnake
  <2>3. UNCHANGED <<snake, food>> /\ fresh' = (fresh /\ ~MoveAllowed)
    BY <2>1, <2>2 DEF Tick, eatfood
  <2>4. fresh' = fresh
    <3>1. fresh \in BOOLEAN
      BY DEF IInv, TypeOK
    <3> QED
      BY <1>3, <2>3, <3>1
  <2>5. TickFills = <<>>
    BY <1>3, <2>2 DEF TickFills
  <2>6. screen' = screen
    <3>1. screen \in [Board -> Colours]
      BY DEF ScreenInv
    <3>2. Paint(screen, <<>>) = [cell \in Board |-> screen[cell]]
      BY DEF Paint
    <3> QED
      BY <2>1, <2>5, <3>1, <3>2
  <2> QED
    BY <1>1, <2>3, <2>4, <2>6
<1>4. CASE TickOver /\ UNCHANGED screen
  BY <1>1, <1>4 DEF TickOver
<1>5. CASE \E k \in Dirs : ReceiveKey(k) /\ UNCHANGED screen
  BY <1>1, <1>5 DEF ReceiveKey
<1>6. CASE UNCHANGED screenVars
  BY <1>1, <1>6 DEF screenVars, vars
<1> QED
  BY <1>2, <1>3, <1>4, <1>5, <1>6 DEF ScreenNext

----------------------------------------------------------------------------
\* Every step on the display is one of the game.
THEOREM ScreenPlaysGame == ScreenSpec => Spec
<1>1. ScreenInit => Init
  BY DEF ScreenInit
<1>2. [ScreenNext]_screenVars => [Next]_vars
  BY DEF ScreenNext, ScreenTick, Next, screenVars
<1> QED
  BY <1>1, <1>2, PTL DEF ScreenSpec, Spec

LEMMA ScreenInvHolds == ScreenSpec => [](IInv /\ ScreenInv)
<1>1. ScreenSpec => []IInv
  BY ScreenPlaysGame, SnakeInvariant, PTL
<1>2. IInv /\ ScreenInv /\ [ScreenNext]_screenVars => ScreenInv'
  BY ScreenStep
<1>3. ScreenInit => ScreenInv
  BY ScreenStart
<1> QED
  BY <1>1, <1>2, <1>3, PTL DEF ScreenSpec

\* The types of the game, and a colour for every cell of the board however the
\* fills of a tick follow each other.
THEOREM ScreenTypes == ScreenSpec => []ScreenTypeOK
<1>1. IInv /\ ScreenInv => ScreenTypeOK
  BY DEF IInv, ScreenInv, ScreenTypeOK
<1> QED
  BY ScreenInvHolds, <1>1, PTL

\* On every board and whatever a reused node reads as, the body is on the display and
\* nothing else is but the food: no fill erases a node that stays on the list, not
\* even that of an unwritten node, and none is left behind.
THEOREM ScreenShowsList == ScreenSpec => []ScreenAgrees
<1>1. ScreenInv => ScreenAgrees
  BY DEF ScreenInv
<1> QED
  BY ScreenInvHolds, <1>1, PTL
============================================================================
