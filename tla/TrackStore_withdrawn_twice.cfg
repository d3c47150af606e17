SPECIFICATION Spec
CONSTANTS
  Releases = {r1}
  Accounts = {a1}
  Payloads = {p1}
  Conns = {c1}
  MaxTracks = 1
  MaxStamp = 2
SYMMETRY Symmetry
INVARIANT
  RestoreReleaseIsComplete
