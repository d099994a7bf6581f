CONSTANTS
  Sizes = {1, 2}
  Planes = {0}
  Displays = {1}
  ColorFirst = TRUE
  MaxFrames = 2
  MaxGames = 2
  MaxChanges = 2
SPECIFICATION Spec
INVARIANTS ColorizerHeld JoinedBeforeLaunch SelectionsCurrent
PROPERTIES HandlersEnd 
CHECK_DEADLOCK FALSE
