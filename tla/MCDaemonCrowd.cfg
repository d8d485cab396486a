CONSTANTS
  Client <- Crowd
  Port <- CrowdPort
  Script <- CrowdScript
  Node <- MCNode
  Dir <- MCDir
  Parent <- MCParent
  Size <- CrowdSize
  Root = "r"
  NConns = 1
  HeaderLen = 2
  Aborts = {}
  Systems = {"linux"}
  Users = {"root"}
SPECIFICATION Spec
INVARIANTS
  NoMoreThanExpected
