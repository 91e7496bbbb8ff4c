SPECIFICATION AnswerSpec
CONSTANTS
  DayTicks = 2
  FirstYear = 2023
  LastYear = 2024
  Half = 16384
  Reach = 13
  Counts = {0, 1, 2, 3, 4, 5, 6, 7, 8, 9, 10, 11, 12, 13, 2341, 8190, 16383, 16384}
INVARIANTS
  NeverPast
  AsMeant
CHECK_DEADLOCK FALSE
