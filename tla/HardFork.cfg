SPECIFICATION Spec
CONSTANTS
  Forks <- MCForks
  WINDOW = 3
  Votes = {17, 18, 19}
  MaxHeight = 5
  MaxReorg = 2
INVARIANTS
  NeverEarly
  StoredIsChecked
  OnSchedule
PROPERTY ChainGivenBack
CHECK_DEADLOCK FALSE
