CONSTANTS
  a = a
  b = b
  Pkgs = {a, b}
  Configs <- MCConfigs
  Verdicts <- MCVerdicts
  ResolveInstalls = FALSE
  NoReport = NoReport
  MaxDrift = 1
SPECIFICATION Spec
INVARIANTS TypeOK GateHolds LetThroughIsLogged GreenRunIsTrue ReportAgreesWithExit
