------------------------------- MODULE Tally -------------------------------
(* What a node promises about its telemetry (internal/api/stats.go): a count
   waits in memory, moves into the database once, and is forgotten only when
   the process holding it ends.  `doubt` is what was stored by a commit whose
   answer never came back: the node cannot tell it was stored and will store
   it again. *)
EXTENDS Naturals

CONSTANTS TallyKeys,      \* what is counted
          Expirable       \* the keys the database may drop again

VARIABLES waiting, kept, doubt

tallyVars == <<waiting, kept, doubt>>

Tallies == [TallyKeys -> Nat]

TallyInit ==
  /\ waiting = [k \in TallyKeys |-> 0]
  /\ kept = [k \in TallyKeys |-> 0]
  /\ doubt = [k \in TallyKeys |-> 0]

CountOne(k) ==
  /\ waiting' = [waiting EXCEPT ![k] = @ + 1]
  /\ UNCHANGED <<kept, doubt>>

\* Part of what waits is stored, and no longer waits.
Keep ==
  /\ waiting' \in Tallies /\ kept' \in Tallies
  /\ \A k \in TallyKeys : /\ kept'[k] >= kept[k]
                          /\ waiting'[k] + kept'[k] = waiting[k] + kept[k]
  /\ UNCHANGED doubt

\* Part of what waits is stored and, for want of an answer, still waits.
KeepUnsure ==
  /\ kept' \in Tallies /\ doubt' \in Tallies
  /\ \A k \in TallyKeys : /\ kept'[k] >= kept[k]
                          /\ kept'[k] - kept[k] <= waiting[k]
                          /\ doubt'[k] = doubt[k] + (kept'[k] - kept[k])
  /\ UNCHANGED waiting

\* The process ends with what it had not stored, which may be at any time.
Forget ==
  /\ waiting' = [k \in TallyKeys |-> 0]
  /\ UNCHANGED <<kept, doubt>>

\* The database drops old keys.
Expire ==
  /\ kept' \in Tallies
  /\ \A k \in TallyKeys : \/ kept'[k] = kept[k]
                          \/ k \in Expirable /\ kept'[k] = 0
  /\ UNCHANGED <<waiting, doubt>>

TallyNext ==
  \/ \E k \in TallyKeys : CountOne(k)
  \/ Keep
  \/ KeepUnsure
  \/ Forget
  \/ Expire

TallySpec == TallyInit /\ [][TallyNext]_tallyVars
=============================================================================
