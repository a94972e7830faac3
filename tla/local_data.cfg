SPECIFICATION FairSpec
CONSTANTS
  Calls = {c1, c2, c3}
  Platforms = {"fcntl", "no_fcntl"}
  Nobody = Nobody
INVARIANTS TypeOK ReturnedMeansComplete NoWastedGeneration
PROPERTIES FolderIsPermanent EveryCallEnds
CHECK_DEADLOCK FALSE
