SPECIFICATION Spec
CONSTANTS
  Releases = {r1, r2}
  Accounts = {a1}
  Payloads = {p1}
  Conns = {c1, c2}
  MaxTracks = 3
  MaxStamp = 3
SYMMETRY Symmetry
INVARIANTS
  TypeOK
  ChainsWellFormed
  OneLiveSuccessor
  OpenSupersedesHoldTheirParent
  StampsTellTakedownsApart
PROPERTY
  RestoreReleaseKeepsOwnTakedowns
