SPECIFICATION PartSpec
CONSTANTS
  Parts = {"revisions", "corrections"}
  Releases = {r1}
  Accounts = {a1, a2}
  Bodies = {b1, b2}
  Kinds = {"default", "sdh"}
  Authorships = {"shared", "credited", "uncredited"}
  NotStated = NotStated
  Payloads <- MCPayloads
  Requests <- MCRequests
  Conns = {c1, c2}
  MaxTracks = 2
  MaxStamp = 1
SYMMETRY Symmetry
INVARIANTS
  IngestTypeOK
  MachineNeverReplacesHuman
  CreditNamesAnAccount
PROPERTIES
  DeclarationsStay
  OnlyUploaderCorrectsAuthorship
