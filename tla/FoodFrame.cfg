\* The board of the source, 23 x 19 cells where a head survives, with a few of
\* the bytes the generator can yield.
CONSTANTS
  MapCol = 234
  MapRow = 198
  XMax = 236
  YMax = 200
  Draws = {10, 17, 191}
  MaxScore = 2
SPECIFICATION Spec
INVARIANT FoodInFrame
