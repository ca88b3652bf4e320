CONSTANTS
  Readers = {"r1"}
  Writers = {"w1"}
SPECIFICATION LockSpec
CHECK_DEADLOCK FALSE
PROPERTIES
  CallsReturn
