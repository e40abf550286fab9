SPECIFICATION MCSpec
CONSTANTS
  brief = brief
  fault = fault
  first = first
  second = second
  Parts = {"races"}
  None = None
  Scheduler = Scheduler
  Injects = {brief, fault}
  Kinds <- MCKinds
  Requests = {first, second}
  Offsets = {1}
  TicksPerSecond = 2
  MaxTime = 3
  MaxDeliveries = 1
  MaxFailures = 1
INVARIANT
  DeliveredOnce
