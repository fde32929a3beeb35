CONSTANTS
  N = 7
  F = 2
  CertMaxVals = 3
  WindowSize = 4
  CheckpointInterval = 2
  NoDigest = NoDigest
  Digest = {d1, d2, d3, d4}
SPECIFICATION Spec
SYMMETRY DigestSymmetry
INVARIANTS TypeOK LayoutFaithful AnswersFaithful RefusedCannotWin
