SPECIFICATION MCSpec
CONSTANTS
  brief = brief
  fault = fault
  first = first
  second = second
  Parts = {"races", "failures"}
  None = None
  Scheduler = Scheduler
  Injects = {brief, fault}
  Kinds <- MCKinds
  Requests = {first, second}
  Offsets = {1}
  TicksPerSecond = 2
  MaxTime = 2
  MaxDeliveries = 1
  MaxFailures = 1
INVARIANTS
  ClockCoherent
  DeliveriesLogged
PROPERTIES
  ScheduledDeliveryAtomic
  UnracedCommandsRetainTime
  DueInjectsDelivered
