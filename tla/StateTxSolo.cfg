CONSTANTS
  op = op
  shell = shell
  timer = timer
  NoCli = NoCli
  Cli <- SoloCli
  Runs <- SoloRuns
  Confined = {}
  ConfigFiles = {"server"}
  KeepBackups = 2
  MaxTx = 2
  MaxBackup = 3
  MaxCrash = 2
  MaxFault = 2
  LateErrors = FALSE
SPECIFICATION FairSpec
INVARIANTS
  TypeOK
  TornIsEvident
  ChangesStartWhole
  NoCommittedChangeLost
  CommittedRevisionsDistinct
PROPERTIES
  RecoveredIsRestored
  OnlyIncompleteIsRecovered
  RolledBackIsRestored
  ImplementsInstallation
  EventuallyWhole
  EventuallyResolved
