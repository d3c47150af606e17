SPECIFICATION Spec
CONSTANTS
  Names = {n1, n2, n3}
  Members = {n1}
  Creators = {n1}
  Codes = {k1, k2}
  Conns = {c1, c2}
  InvitesInitial = 1
  InvitesPerUploads = 1
  InvitesCap = 1
  OpenRegistration = TRUE
  MaxUploads = 1
  MaxUses = 1
SYMMETRY Symmetry
INVARIANTS
  TypeOK
  UsesAreRegistrations
PROPERTIES
  RevokedCodesStayUnused
  MintsStayWithinBudget
