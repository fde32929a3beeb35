CONSTANTS
  N = 4
  F = 1
  CertMaxVals = 2
  WindowSize = 4
  CheckpointInterval = 2
  NoDigest = NoDigest
  Faulty = {0}
  Request = {a, b}
  Rejected = {}
  MaxView = 1
  MaxSeqno = 1
  PeerSeqno = {0}
  FaultyCkpt = {}
  FaultySends <- Proposals
  Impatient = {2, 3}
  Idle = {}
  FaultyVCs <- ClaimedVCs
  FaultyNVs = {}
  Unsigning = {1, 2}
SPECIFICATION VCSpec
CONSTRAINTS OneEach Witness Faint
CHECK_DEADLOCK FALSE
INVARIANTS VCTypeOK ExecutedStaysLocked OneCommitPerSeqno OneNewView ProofsStand NoEquivocation
PROPERTIES CountersGrow
