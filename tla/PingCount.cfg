SPECIFICATION Spec
CONSTANTS
  SEQ = 64
  MININTERVAL = 1
  lingertime = 3
  Longest = 3
  Options <- ShortFlood
  Intervals = {1, 2}
  Rtts = {1}
  MaxAnswers = 1
  SendFaults = {}
  MaxAgain = 0
  Jumps = {}
PROPERTIES
  Stops
CHECK_DEADLOCK FALSE
