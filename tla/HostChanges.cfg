CONSTANTS
  op = op
  timer = timer
  NoCli = NoCli
  Cli <- Hosts
  Runs <- HostRuns
  Confined = {timer}
  MaxTx = 2
  MaxCrash = 1
  MaxFault = 2
  MaxTimer = 1
SPECIFICATION FairSpec
INVARIANTS
  TypeOK
  MixtureIsEvident
  ServicesRunInstalled
PROPERTIES
  RollbackRestores
  RecoveryRestores
  UninstallLeavesNothing
  CoreEventuallyResolved
