\* The tool has succeeded, the DONE write meets a dropped database connection.
SPECIFICATION Spec
CONSTANTS
  Inv = {i1}
  MaxConcurrent = 1
  MaxRetries = 2
INVARIANT
  SucceededToolRunsOnce
