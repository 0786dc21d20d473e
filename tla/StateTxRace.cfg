CONSTANTS
  op = op
  shell = shell
  timer = timer
  NoCli = NoCli
  Cli <- RaceCli
  Runs <- RaceRuns
  Confined = {}
  ConfigFiles = {"server", "xray"}
  KeepBackups = 2
  MaxTx = 2
  MaxBackup = 2
  MaxCrash = 0
  MaxFault = 0
  LateErrors = FALSE
SPECIFICATION Spec
PROPERTIES
  OnlyIncompleteIsRecovered
