SPECIFICATION Spec
CONSTANTS
  Attachments = {"a"}
  Failures = {"unreadable"}
  Repairs = {"repair"}
  MaxTasks = 2
  MaxStarts = 1
  MaxPrompt = 1
PROPERTIES RepairIsStored
CHECK_DEADLOCK FALSE
