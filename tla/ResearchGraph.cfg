SPECIFICATION Spec
CONSTANTS
  MaxRetries = 2
  MaxRejections = 1
  StepLimit = 12
  MaxResumes = 2
  MaxPauses = 1
  MaxIdeas = 2
  AssetClasses = {"F&O"}
  OverlapNodes = {"risk_manager"}
INVARIANTS DeployOnlyTested ResumeLosesNothing
PROPERTY ExecutorEnds
CHECK_DEADLOCK FALSE
