CONSTANTS
  Token <- MCToken
  Projects <- MCProjects
  Paths <- MCPaths
  Contents = {"c1", "c2"}
  Packages <- MCPackages
  TreeLen = 2
  NoFile = NoFile
  NoReport = NoReport
  Missing = Missing
  Invalid = Invalid
  MaxChanges = 1
SPECIFICATION Spec
INVARIANTS TypeOK RulesMeanWhatTheySay StagePassMeansChecked ChecksumsVerify ReportsTell
