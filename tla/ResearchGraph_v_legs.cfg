SPECIFICATION Spec
CONSTANTS
  MaxRetries = 2
  MaxRejections = 1
  StepLimit = 14
  MaxResumes = 1
  OverlapNodes = {}
  MaxPauses = 1
  MaxIdeas = 2
  AssetClasses = {"Equity", "F&O"}
INVARIANT StoredLegsWereChecked
CHECK_DEADLOCK FALSE
