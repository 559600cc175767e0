\* A board of 4 x 4 cells: heads survive at 8, 18, 28, 38 in x and in y.
CONSTANTS
  MapCol = 44
  MapRow = 44
  XMax = 46
  YMax = 46
  Draws = {1, 20, 30}
  MaxScore = 4
SPECIFICATION Spec
INVARIANT FoodOffSnake
