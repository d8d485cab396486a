CONSTANTS
  Client <- MCClient
  Port <- MCPort
  Script <- MCScript
  Node <- MCNode
  Dir <- MCDir
  Parent <- MCParent
  Size <- MCSize
  Root = "r"
  NConns = 2
  HeaderLen = 1
  Aborts = {"fin", "rst"}
  Systems = {"linux", "bsd"}
  Users = {"root", "user"}
SPECIFICATION FairSpec
INVARIANTS
  TypeOK
  FilesWhole
  InStep
  OnDisk
  TempsTracked
  NoFdLeak
PROPERTIES
  Served
