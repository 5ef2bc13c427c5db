SPECIFICATION Spec
CONSTANTS
  Requests = {1, 2}
  Limit = 1
  MinuteLength = 2
  Horizon = 3
  Expires = 3
  Steps = {1, 2, 3, 4}
  Blank = {4}
  Nearness <- Near
  SearchLimit = 2
  Private = {2}
  Runs = {"r", "s"}
  Spaces = {"bge", "cohere"}
  External = {"cohere"}
  BatchSize = 2
  Schedulers = {"x", "y"}
  Answers = {"p", "q"}
  Retention = 1
  JobRetention = 1
  LastArrival = 2
  LastDay = 3
  MaxStops = 1
  Deployments = {1, 2, 3, 4}
  Files <- Images
  Invalid = {4}
INVARIANTS
  SummaryIsGrounded PublicationFollowsEvidence DocumentsAreSound
  ProviderSeesWhatItMust IntakeIsSound BordersHold
  NoSlotIsLost
  SearchIsComplete
  OnlyStragglersStay
  SchemaIsServed OnlyDriftFails
PROPERTIES RevokedIsRefused
CHECK_DEADLOCK FALSE
