SPECIFICATION ClockSpec
CONSTANTS
  MaxWall = 1
  MaxCounter = 1
  MaxRestarts = 1
PROPERTIES StampedAhead
