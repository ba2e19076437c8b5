CONSTANTS
  PoolSizeRuntime = 2
  ConnectRetries = 2
  MaxAccidents = 3
SPECIFICATION StartupSpec
INVARIANTS
  ConfigSurvives
  ServesEncrypted
