CONSTANTS
  r1 = r1
  r2 = r2
  v1 = v1
  commands = commands
  validations = validations
  Unbounded = Unbounded
  NoRequest = NoRequest
  Command <- Commands2
  Validation <- Validations1
  Request <- Requests
  Topic <- Topics
  Room <- Rooms
  CommandTopic = commands
  ValidationTopic = validations
  Scenario <- Scenarios
  Max = 1
  CleanSession = TRUE
  Flaps = 1
SPECIFICATION FairSpec
CHECK_DEADLOCK FALSE
INVARIANTS
  PermitsAreWorkers
  AnswersAreTrue
PROPERTIES
  QueuesAreServed
