SPECIFICATION FairSpec
CONSTANTS
  Auths = {1, 2}
  None = None
  MaxConf = 2
  MaxTerm = 2
  MaxNak = 1
  Wrap = 4
  Ends = {"server", "client"}
  Configs <- MCConfigs
  MaxFail = 2
  MaxCalls = 1
  MaxFaults = 2
CHECK_DEADLOCK FALSE
PROPERTIES
  Terminates
  Settles
INVARIANTS
  TimerDiscipline
  SameOptions
  NetworkGuarded
  NeverStuck
