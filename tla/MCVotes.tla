-------------------------------- MODULE MCVotes --------------------------------
(* Votes for model checking: two accounts and two tracks, both imported from *)
(* a mirror or each account's own.                                           *)
EXTENDS Votes

CONSTANTS a1, a2

MCAccounts == {a1, a2}

MCTracks == 1 .. 2

MCUploaders == {<<None, None>>, <<a1, a2>>}

\* Each changes its mind about one track, and votes on the other once.
MCBallots ==
  LET Sent(a, t, values) == [account : {a}, track : {t}, vote : values] IN
    Sent(a1, 1, {1}) \cup Sent(a1, 2, {1, None})
    \cup Sent(a2, 1, {1, -1}) \cup Sent(a2, 2, {-1})
=============================================================================
