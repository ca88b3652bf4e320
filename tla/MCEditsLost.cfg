SPECIFICATION EditsSpec
CONSTANTS
  SectionEdits = {{"e1"}, {"e2"}}
  Uploads = {}
  Base = "base"
INVARIANTS MemoryFollowsDisk
CHECK_DEADLOCK FALSE
