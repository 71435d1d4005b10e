SPECIFICATION FairSpec
CONSTANTS
  Parts = {"catalog", "walk", "details", "merge", "session", "input", "mapping", "hosts", "renamed", "psn", "sync", "setsu", "controllers", "sound"}
  None = None
  NoId = NoId
  NoAccount = NoAccount
  NoHost = NoHost
  Default = Default
  N1 = N1
  N2 = N2
  Main = Main
   
PROPERTY ClientEnds
CHECK_DEADLOCK FALSE
