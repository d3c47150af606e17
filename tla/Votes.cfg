SPECIFICATION FairSpec
CONSTANTS
  a1 = a1
  a2 = a2
  Accounts <- MCAccounts
  Tracks <- MCTracks
  Uploaders <- MCUploaders
  Ballots <- MCBallots
  Conns = {c1, c2}
INVARIANTS
  TypeOK
  TallyMatchesVotes
  RowsReferToAccounts
PROPERTY
  TransactionsEnd
CHECK_DEADLOCK FALSE
