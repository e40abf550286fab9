SPECIFICATION FairControllerSpec
CONSTANTS
  dns = dns
  auth = auth
  None = None
  Actions <- MCActions
  Books = {b1}
  Stages <- MCStages
  Definitions <- DefinitionsChain
  Intensities = {"medium"}
  Durations = {1}
  MaxRuns = 1
  MaxPlaybookRuns = 1
  MaxClock = 0
  MaxRequests = 1
  MaxFailures = 1
PROPERTIES
  EveryFaultEnds
  NoPlaybookRunsForever
  ImplementsEngine
