SPECIFICATION MCSpec
CONSTANTS
  dns = dns
  auth = auth
  None = None
  Parts = {"runs", "library"}
  Actions <- MCActions
  Books = {b1}
  Stages <- MCStages
  Definitions <- MCDefinitions
  Intensities = {"medium"}
  Durations = {1}
  MaxRuns = 2
  MaxPlaybookRuns = 2
  MaxClock = 0
INVARIANTS
  TypeOK
  ViewsAgree
  EndedPlaybooksSettled
  BudgetsRespected
  CompletedRanItsTime
  LibraryAcyclic
PROPERTIES
  ElapsedIsRunningTime
  EndedStaysEnded
  ImplementsLifecycle
