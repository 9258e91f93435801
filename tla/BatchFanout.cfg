CONSTANTS
  NItems = 3
  MaxThreads = 0
  Cpus = 2
  Retries = 1
  FileItem = {1}
  UMax = 3
  NoOutcome = NoOutcome
SPECIFICATION Spec
INVARIANTS TypeOK EachItemOnce ErrorsAreFinal BodiesWholeOrRefused
PROPERTY ImplementsBatch
