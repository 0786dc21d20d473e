CONSTANTS
  op = op
  shell = shell
  timer = timer
  NoCli = NoCli
  Cli <- PairCli
  Runs <- PairRuns
  Confined = {timer}
  ConfigFiles = {"server", "xray"}
  KeepBackups = 1
  MaxTx = 2
  MaxBackup = 2
  MaxCrash = 1
  MaxFault = 2
  LateErrors = TRUE
SPECIFICATION Spec
INVARIANTS
  RecoverySource
PROPERTIES
  RolledBackIsRestored
