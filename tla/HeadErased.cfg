CONSTANTS
  MapCol = 44
  MapRow = 44
  XMax = 46
  YMax = 46
  Draws = {1, 20, 30}
  MaxScore = 3
SPECIFICATION ScreenSpec
INVARIANT HeadShown
