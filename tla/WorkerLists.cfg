SPECIFICATION Spec
CONSTANTS
  SyncPages = {"p", "q"}
  LabelPages = {"p"}
  MaxIntents = 1
  MaxJobs = 1
  QueueFaults = {"analysis fails", "outage", "quota", "push fails"}
PROPERTY SyncServed
