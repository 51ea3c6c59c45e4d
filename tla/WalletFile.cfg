\* Two processes, three writers, one reader, two faults.
SPECIFICATION FairSpec
CONSTANTS
  w1 = w1
  w2 = w2
  w3 = w3
  r1 = r1
  server = server
  tool = tool
  NoCall = NoCall
  Calls = {w1, w2, w3, r1}
  Writers = {w1, w2, w3}
  Processes = {server, tool}
  ProcessOf <- MCProcessOf
  LockRetries = 2
  MaxFaults = 2
INVARIANTS
  TypeOK
  LockExclusion
  NoLostUpdate
  Serializable
  ThrowLeavesNoTrace
  TornOnlyByFault
PROPERTIES
  ImplementsStore
  EveryCallEnds
