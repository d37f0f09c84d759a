\* Two children: a pipeline of two stages, two jobs, or a job and a helper.
CONSTANTS
    NPids = 2
    MaxStages = 2
    Helpers = TRUE
SPECIFICATION Spec
  
PROPERTY ForegroundWaited
CHECK_DEADLOCK FALSE
