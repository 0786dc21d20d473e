CONSTANTS
  op = op
  shell = shell
  timer = timer
  NoCli = NoCli
  Cli <- SoloCli
  Runs <- RestoreRuns
  Confined = {}
  ConfigFiles = {"server", "xray"}
  KeepBackups = 2
  MaxTx = 2
  MaxBackup = 2
  MaxCrash = 1
  MaxFault = 0
  LateErrors = FALSE
SPECIFICATION FairSpec
PROPERTIES
  EventuallyWhole
