\* The defaults of config.py and .env.example.
SPECIFICATION Spec
CONSTANTS
  LeaseTtl = 30
  WorkerPoll = 3
  OrchPoll = 2
  MaxInfra = 5
  BackoffCap = 30
  Horizon = 90
CHECK_DEADLOCK FALSE
INVARIANT RetryOutlivesAmbiguity
