CONSTANTS
  Object = {a, b}
  MaxSpawn = 2
  Systems = {"vfork", "fork"}
  SigChld = {"dfl", "ign"}
  StdSets <- MCStd
SPECIFICATION ProcFairSpec
INVARIANTS
  ProcTypeOK
  StreamsRedirected
  FailureReported
  OneOwner
  FdsManaged
PROPERTIES
  CallsReturn
