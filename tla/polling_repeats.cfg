CONSTANTS
  Milli = 2
  MaxClock = 2
  MaxPosts = 1
  MaxPolls = 2
SPECIFICATION PollSpec
PROPERTY PollsBringNews
CHECK_DEADLOCK FALSE
