CONSTANTS
  Worker = {w1}
SPECIFICATION Spec
PROPERTIES NoBatchAfterHalt ExitCompletes AwakeWorkerStops MasterStops
