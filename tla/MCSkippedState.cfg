CONSTANTS
  N = 4
  F = 1
  CertMaxVals = 2
  WindowSize = 2
  CheckpointInterval = 1
  NoDigest = NoDigest
  Faulty = {}
  Request = {a}
  Rejected = {}
  MaxView = 1
  MaxSeqno = 1
  PeerSeqno = {}
  FaultyCkpt = {}
  FaultySends = {}
  Impatient = {0, 2, 3}
  Idle = {}
  FaultyVCs = {}
  FaultyNVs = {}
  Unsigning = {}
SPECIFICATION VCSpec
CONSTRAINTS Laggard
CHECK_DEADLOCK FALSE
INVARIANTS ExecutedWasExecuted
