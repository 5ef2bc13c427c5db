SPECIFICATION Spec
CONSTANTS
  Attachments = {"a"}
  Failures = {"unreadable"}
  Repairs = {"repair"}
  MaxTasks = 2
  MaxStarts = 1
  MaxPrompt = 2
INVARIANTS EvidenceIsLive HandedOverWhenDecided
PROPERTIES ApprovedGivesWay VersionIsAnswered
CHECK_DEADLOCK FALSE
