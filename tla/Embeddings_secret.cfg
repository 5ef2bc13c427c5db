SPECIFICATION EmbeddingsSpec
CONSTANTS
  Steps = {1, 2, 3}
  Blank = {3}
  Nearness <- Near
  SearchLimit = 1
  Private = {2}
  Runs = {"r", "s"}
  Spaces = {"bge", "cohere"}
  External = {"cohere"}
  BatchSize = 1
PROPERTIES SecretNeverLeaves
CHECK_DEADLOCK FALSE
