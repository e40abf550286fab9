SPECIFICATION ApplicationSpec
CONSTANTS
  root = root
  helper = helper
  Parts = {"accounts"}
  Users = {root, helper}
  Admins = {root, helper}
  AccountRequests = {r1, r2}
  SessionTTL = 1
  MaxSessions = 2
  MaxHashes = 2
  MaxClock = 1
  Nobody = Nobody
  Exercises = {e1, e2}
  MaxStops = 1
  Nothing = Nothing
  Exports = {x1, x2}
  Downloads = {d1}
  RetentionCount = 1
  RetentionAge = 1
  MaxEvidenceTime = 2
  MaxDeaths = 1
  NoKey = NoKey
  NoName = NoName
  f1 = f1
  f2 = f2
  t1 = t1
  t2 = t2
  home = l1
  MaxMade = 3
  MaxEvents = 3
  Labs = {l1, l2}
  Playbooks = {p1, p2}
  Defaults = {p1}
  Definitions = {d1, d2}
  Generated = d1
  LoopRequests = {f1, f2}
  ThreadRequests = {t1, t2}
  MaxMoves = 2
  MaxAppDeaths = 1
  NoLab = NoLab
  NoDefinition = NoDefinition
INVARIANTS
  AdministratorRemains
