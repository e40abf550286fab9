SPECIFICATION DesignSpec
SYMMETRY AlikeDesigns
CHECK_DEADLOCK FALSE
CONSTANTS
  Topics = {"library"}
  Processes = {p1, p2}
  MaxStarts = 4
  NoProcess = NoProcess
  Bases = {"ransomware", "supply_chain"}
  Slugs = {"ransomware", "supply_chain", "ours"}
  Numbers = {1}
  Profiles = {o1}
  ProfileObjectives = {1}
  ImportedDesigns <- Arriving
  Exercises = {x1, x2}
  Offsets = {5}
  MaxPackInjects = 9
  MaxPackCheckpoints = 9
  MaxPacks = 3
  MaxChanges = 1
  MaxLibraryDeaths = 1
  NoPack = NoPack
  NoProfile = NoProfile
  NoExercise = NoExercise
  SeededCheckpoints = {c0}
  Checkpoints = {c1}
  Improvements = {a1}
  Objectives = {g1}
  Injects = {i1}
  ChaosInjects = {i1}
  Artifacts = {i2}
  OperationRequests = {r1, r2}
  MaxAsked = 3
  MaxChaosRuns = 1
  MaxOperationDeaths = 1
  NoRequest = NoRequest
  ActionNames <- TwoActions
  StageAction = "dns_failure"
  NoRun = 0
  MaxHistory = 3
  MaxHistoryRuns = 4
INVARIANT
  DesignsCapturable
