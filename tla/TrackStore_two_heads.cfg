SPECIFICATION Spec
CONSTANTS
  Releases = {r1}
  Accounts = {a1}
  Payloads = {p1}
  Conns = {c1, c2}
  MaxTracks = 5
  MaxStamp = 2
SYMMETRY Symmetry
INVARIANT
  OneHeadPerChain
