CONSTANT Lines <- MCLines
SPECIFICATION FairSpec
INVARIANTS ParseAgrees ExitTells
PROPERTIES EndsOrHangs RemoteEnds
